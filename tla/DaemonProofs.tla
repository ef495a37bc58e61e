---------------------------- MODULE DaemonProofs ----------------------------
(***************************************************************************)
(* The CLI and the daemon, for any number of commands, processes and pings: *)
(* a daemon that never met another keeps its path, and a request whose      *)
(* first sending was answered was started once.                             *)
(*                                                                          *)
(* The first needs no more than that two living daemons have met.  The      *)
(* second follows the one connection of a request that was sent for the     *)
(* first time: at most one is listened to, and while the client waits there *)
(* is no other.                                                             *)
(***************************************************************************)
EXTENDS Daemon, TLAPS

-----------------------------------------------------------------------------
(* The path                                                                  *)

\* Daemons that are alive together have met.
Met == \A d, e \in Alive : d # e => d \in rivals

PathInv ==
    /\ daemon = [d \in Daemons |-> daemon[d]]
    /\ Met
    /\ LoneDaemonReachable

\* Steps that move no daemon, nor the path.
LEMMA PathStays ==
    ASSUME PathInv, UNCHANGED <<socket, daemon, rivals>>
    PROVE  PathInv'
BY DEF PathInv, Met, LoneDaemonReachable, Alive, Listening

\* No step makes a daemon lose its path that has met none.
LEMMA PathStep ==
    ASSUME PathInv, [Next]_vars
    PROVE  PathInv'
<1> USE DEF PathInv, Met, LoneDaemonReachable, Alive, Listening
<1>1. ASSUME NEW c \in Clients, Refuse(c) \/ Send(c) \/ Timeout(c) \/ Eof(c)
      PROVE  PathInv'
    BY <1>1, PathStays DEF Refuse, Send, Timeout, Eof
<1>2. ASSUME NEW c \in Clients, Spawn(c)
      PROVE  PathInv'
    <2>1. CASE UNCHANGED <<daemon, rivals>> BY <1>2, <2>1, PathStays DEF Spawn
    <2>2. ASSUME NEW d \in Daemons, daemon[d] = "down",
                 daemon' = [daemon EXCEPT ![d] = "spawned"],
                 rivals' = IF Alive = {} THEN rivals \ {d} ELSE rivals \cup Alive \cup {d}
          PROVE  PathInv'
        <3>1. socket' = socket BY <1>2 DEF Spawn
        <3>2. Alive' = Alive \cup {d} /\ d \notin Alive BY <2>2
        <3>3. Met'
            <4>1. CASE Alive = {} BY <3>2, <4>1
            <4>2. CASE Alive # {} BY <2>2, <3>2, <4>2
            <4> QED BY <4>1, <4>2
        <3>4. \A e \in Daemons : daemon'[e] \in {"select", "busy", "stopping"} =>
                  e \in Listening /\ e \in Alive
            BY <2>2
        <3>5. LoneDaemonReachable'
            <4>1. CASE Alive = {} BY <3>4, <4>1
            <4>2. CASE Alive # {} BY <2>2, <3>1, <3>4, <4>2
            <4> QED BY <4>1, <4>2
        <3>6. daemon' = [e \in Daemons |-> daemon'[e]] BY <2>2
        <3> QED BY <3>3, <3>5, <3>6
    <2> QED BY <1>2, <2>1, <2>2 DEF Spawn
<1>3. ASSUME NEW d \in Daemons, Clear(d) \/ Bind(d) \/ Exit(d) \/ Crash(d)
      PROVE  PathInv'
    <2>1. d \in Alive /\ rivals' = rivals BY <1>3 DEF Clear, Bind, Exit, Crash
    <2>2. daemon' = [e \in Daemons |-> daemon'[e]] BY <1>3 DEF Clear, Bind, Exit, Crash
    <2>3. \A e \in Daemons : e # d => daemon'[e] = daemon[e]
        BY <1>3 DEF Clear, Bind, Exit, Crash
    <2>4. Alive' \subseteq Alive BY <2>1, <2>2, <2>3
    <2>5. Met' BY <2>1, <2>4
    <2>6. \A e \in Listening' : e # d => e \in rivals
        BY <2>1, <2>3
    <2>7. d \in Listening' => socket' = d
        BY <1>3 DEF Clear, Bind, Exit, Crash
    <2> QED BY <2>1, <2>2, <2>5, <2>6, <2>7
<1>4. ASSUME NEW d \in Daemons, Accept(d) \/ Resume(d) \/ Signal(d)
      PROVE  PathInv'
    BY <1>4 DEF Accept, Resume, Signal
<1>5. ASSUME NEW t \in tasks, NEW d \in Daemons, t.daemon = d, Read(t) \/ Reply(t) \/ Notify(t)
      PROVE  PathInv'
    <2>1. CASE Read(t) \/ Reply(t) BY <2>1, PathStays DEF Read, Reply
    <2>2. CASE Notify(t) BY <1>5, <2>2 DEF Notify
    <2> QED BY <1>5, <2>1, <2>2
<1>6. CASE UNCHANGED vars BY <1>6, PathStays DEF vars
<1> QED BY <1>1, <1>2, <1>3, <1>4, <1>5, <1>6 DEF Next, ClientStep, DaemonStep

\* A daemon that never met another can be reached for as long as it serves:
\* LoneDaemonReachable, of ipc::serve and the commands that start daemons.
THEOREM LoneDaemonsAreReachable == Spec => []LoneDaemonReachable
<1>1. Init => PathInv BY DEF Init, PathInv, Met, LoneDaemonReachable, Alive, Listening
<1>2. PathInv /\ [Next]_vars => PathInv' BY PathStep
<1>3. PathInv => LoneDaemonReachable BY DEF PathInv
<1> QED BY <1>1, <1>2, <1>3, PTL DEF Spec

-----------------------------------------------------------------------------
(* The first sending                                                         *)

Types ==
    /\ tasks \subseteq Tasks
    /\ socket \in Daemons \cup {None}
    /\ duty \in Duties
    /\ pc = [c \in Clients |-> pc[c]]
    /\ phase = [c \in Clients |-> phase[c]]
    /\ outcome = [c \in Clients |-> outcome[c]]
    /\ runs \in [Clients -> Nat]

\* A client writes to a connection, or waits for the response.
Connected == {"write", "wait"}

\* A client listens to at most one connection, and only while it has one.
HeardInv ==
    /\ \A t \in tasks : t.heard => pc[t.client] \in Connected
    /\ \A t, u \in tasks : t.heard /\ u.heard /\ t.client = u.client => t = u

TasksOf(c) == {t \in tasks : t.client = c}

\* Up to the answer, a request that was sent once has at most one connection, and
\* was started if that one has been read.
FirstInv(c) ==
    /\ outcome[c] = "ok" => pc[c] = "done"
    /\ duty[c] \in Requests /\ phase[c] = "first" =>
          /\ pc[c] = "send" => TasksOf(c) = {} /\ runs[c] = 0
          /\ pc[c] \in Connected =>
                /\ \A t, u \in TasksOf(c) : t = u
                /\ \A t \in TasksOf(c) :
                      /\ t.kind = "work"
                      /\ runs[c] = IF t.stage \in {"queued", "reading"} THEN 0 ELSE 1
          /\ outcome[c] = "ok" => TasksOf(c) = {} /\ runs[c] = 1

SendInv == Types /\ HeardInv /\ \A c \in Clients : FirstInv(c)

\* What the tasks look like after a stage of theirs.
LEMMA TaskStages ==
    ASSUME NEW t \in Tasks
    PROVE  /\ \A stage \in {"reading", "running"} :
                  /\ [t EXCEPT !.stage = stage] \in Tasks
                  /\ [t EXCEPT !.stage = stage].client = t.client
                  /\ [t EXCEPT !.stage = stage].kind = t.kind
                  /\ [t EXCEPT !.stage = stage].heard = t.heard
                  /\ [t EXCEPT !.stage = stage].stage = stage
           /\ [t EXCEPT !.heard = FALSE] \in Tasks
           /\ [t EXCEPT !.heard = FALSE].client = t.client
           /\ [t EXCEPT !.heard = FALSE].kind = t.kind
           /\ [t EXCEPT !.heard = FALSE].stage = t.stage
           /\ [t EXCEPT !.heard = FALSE].heard = FALSE
           /\ [t EXCEPT !.stage = "replied", !.heard = FALSE] \in Tasks
           /\ [t EXCEPT !.stage = "replied", !.heard = FALSE].client = t.client
           /\ [t EXCEPT !.stage = "replied", !.heard = FALSE].heard = FALSE
BY DEF Tasks

\* The variables of the clients, where only c moves.
OnlyMoves(c) ==
    /\ duty' = duty
    /\ pc' = [e \in Clients |-> pc'[e]]
    /\ phase' = [e \in Clients |-> phase'[e]]
    /\ outcome' = [e \in Clients |-> outcome'[e]]
    /\ \A e \in Clients : e # c => pc'[e] = pc[e] /\ phase'[e] = phase[e] /\ outcome'[e] = outcome[e]

\* Whatever a client makes of an error, it stops waiting, and a request that is
\* sent for the first time is not sent again before a daemon was started.
LEMMA FailMoves ==
    ASSUME Types, NEW c \in Clients, NEW unavailable, Fail(c, unavailable)
    PROVE  /\ OnlyMoves(c)
           /\ pc'[c] \notin Connected
           /\ outcome'[c] # "ok" \/ outcome'[c] = outcome[c]
           /\ phase'[c] = "first" /\ duty[c] \in Requests => pc'[c] = "spawn"
BY DEF Types, Fail, Finish, GoOn, OnlyMoves, Connected, Requests

\* Whatever it makes of a response, it stops waiting; the first answer to a
\* request is its outcome.
LEMMA SucceedMoves ==
    ASSUME Types, NEW c \in Clients, Succeed(c)
    PROVE  /\ OnlyMoves(c)
           /\ pc'[c] \notin Connected
           /\ outcome'[c] # outcome[c] => pc'[c] = "done"
           /\ phase'[c] = "first" => pc'[c] = "done"
BY DEF Types, Succeed, Finish, GoOn, OnlyMoves, Connected

\* The kinds of steps, by what they do to the tasks.
LEMMA TaskMoves ==
    ASSUME Types, [Next]_vars
    PROVE  \/ UNCHANGED <<clients, runs>> /\ tasks' \subseteq tasks
           \/ \E c \in Clients : Refuse(c) \/ Send(c) \/ Timeout(c) \/ Eof(c) \/ Spawn(c)
           \/ \E d \in Daemons : Accept(d)
           \/ \E t \in tasks : Read(t) \/ Reply(t)
BY DEF Next, ClientStep, DaemonStep, Clear, Bind, Resume, Exit, Notify, Signal, Crash, vars

\* Every step keeps the types.
LEMMA TypesStep ==
    ASSUME Types, [Next]_vars
    PROVE  Types'
<1>s. socket' \in Daemons \cup {None}
    BY DEF Types, Next, ClientStep, DaemonStep, Refuse, Send, Timeout, Eof, Spawn, Clear, Bind,
           Accept, Resume, Exit, Read, Reply, Notify, Signal, Crash, vars
<1>1. CASE UNCHANGED <<clients, runs>> /\ tasks' \subseteq tasks
    BY <1>s, <1>1 DEF Types, clients
<1>2. ASSUME NEW c \in Clients, Refuse(c) \/ Spawn(c) PROVE Types'
    BY <1>s, <1>2 DEF Types, Refuse, Spawn, Finish, GoOn
<1>3. ASSUME NEW c \in Clients, Send(c) PROVE Types'
    <2>1. CASE Fail(c, TRUE) /\ UNCHANGED tasks
        BY <1>s, <1>3, <2>1, FailMoves DEF Send, Types, OnlyMoves
    <2>2. CASE ~(Fail(c, TRUE) /\ UNCHANGED tasks)
        <3>1. socket \in Daemons BY <1>3, <2>2 DEF Send, Listening
        <3>2. [client |-> c, kind |-> KindOf(c), daemon |-> socket, stage |-> "queued",
               attempt |-> IF phase[c] = "first" THEN 1 ELSE 2, heard |-> TRUE] \in Tasks
            BY <3>1 DEF Tasks, KindOf
        <3> QED BY <1>s, <1>3, <2>2, <3>2 DEF Send, Types, GoOn
    <2> QED BY <2>1, <2>2
<1>4. ASSUME NEW c \in Clients, Timeout(c) PROVE Types'
    <2>1. PICK t \in tasks :
              tasks' = (tasks \ {t}) \cup
                       (IF t.kind = "ping" THEN {} ELSE {[t EXCEPT !.heard = FALSE]})
        BY <1>4 DEF Timeout
    <2>2. tasks' \subseteq Tasks BY <2>1, TaskStages DEF Types
    <2> QED BY <1>s, <1>4, <2>2, FailMoves DEF Timeout, Types, OnlyMoves
<1>5. ASSUME NEW c \in Clients, Eof(c) PROVE Types'
    BY <1>s, <1>5, FailMoves DEF Eof, Types, OnlyMoves
<1>6. ASSUME NEW d \in Daemons, Accept(d) PROVE Types'
    <2>1. PICK t \in tasks : tasks' = (tasks \ {t}) \cup {[t EXCEPT !.stage = "reading"]}
        BY <1>6 DEF Accept
    <2>2. tasks' \subseteq Tasks BY <2>1, TaskStages DEF Types
    <2> QED BY <1>s, <1>6, <2>2 DEF Accept, Types, clients
<1>8. ASSUME NEW t \in tasks, Read(t) PROVE Types'
    <2>1. /\ tasks' = (tasks \ {t}) \cup {[t EXCEPT !.stage = "running"]}
          /\ runs' = [runs EXCEPT ![t.client] = IF t.kind = "work" THEN @ + 1 ELSE @]
        BY <1>8 DEF Read
    <2>2. tasks' \subseteq Tasks BY <2>1, TaskStages DEF Types
    <2>3. t.client \in Clients BY DEF Types, Tasks
    <2>4. runs' \in [Clients -> Nat] BY <2>1, <2>3 DEF Types
    <2>5. CASE GoOn(t.client, "wait", phase[t.client], pings[t.client])
        BY <1>s, <2>2, <2>3, <2>4, <2>5 DEF Types, GoOn
    <2>6. CASE UNCHANGED clients BY <1>s, <2>2, <2>4, <2>6 DEF Types, clients
    <2> QED BY <1>8, <2>5, <2>6 DEF Read
<1>7. ASSUME NEW t \in tasks, Reply(t) PROVE Types'
    <2>1. tasks' \subseteq Tasks BY <1>7, TaskStages DEF Reply, Types
    <2>2. t.client \in Clients BY <1>7 DEF Types, Tasks
    <2>3. CASE Succeed(t.client) BY <1>s, <1>7, <2>1, <2>2, <2>3, SucceedMoves
                                    DEF Reply, Types, OnlyMoves
    <2>4. CASE UNCHANGED clients BY <1>s, <1>7, <2>1, <2>4 DEF Reply, Types, clients
    <2> QED BY <1>7, <2>3, <2>4 DEF Reply
<1> QED BY <1>1, <1>2, <1>3, <1>4, <1>5, <1>6, <1>7, <1>8, TaskMoves

\* A client that gives up leaves its connection behind, unheard.
LEMMA TimeoutTasks ==
    ASSUME Types, NEW c \in Clients, Timeout(c)
    PROVE  \E t \in tasks :
               /\ t.client = c /\ t.heard
               /\ \A u \in tasks' : u \in tasks \ {t} \/ (u.client = c /\ u.heard = FALSE)
<1>1. PICK t \in tasks :
          /\ t.client = c /\ t.heard
          /\ tasks' = (tasks \ {t}) \cup
                      (IF t.kind = "ping" THEN {} ELSE {[t EXCEPT !.heard = FALSE]})
    BY DEF Timeout
<1> DEFINE new == [t EXCEPT !.heard = FALSE]
<1>2. new.client = t.client /\ new.heard = FALSE BY TaskStages DEF Types
<1>3. tasks' \subseteq (tasks \ {t}) \cup {new} BY <1>1
<1> HIDE DEF new
<1> QED BY <1>1, <1>2, <1>3

\* A task whose reply was written goes away, or has the daemon stopped.
LEMMA ReplyTasks ==
    ASSUME Types, NEW t \in tasks, Reply(t)
    PROVE  \A u \in tasks' :
               u \in tasks \ {t} \/ (u.client = t.client /\ u.heard = FALSE /\ t.kind = "shutdown")
<1> DEFINE new == [t EXCEPT !.stage = "replied", !.heard = FALSE]
<1>1. new.client = t.client /\ new.heard = FALSE BY TaskStages DEF Types
<1>2. tasks' = (tasks \ {t}) \cup (IF t.kind = "shutdown" THEN {new} ELSE {}) BY DEF Reply
<1> HIDE DEF new
<1> QED BY <1>1, <1>2

\* A request that can be sent becomes a queued connection.
LEMMA SendTasks ==
    ASSUME NEW c \in Clients, Send(c)
    PROVE  \/ Fail(c, TRUE) /\ tasks' = tasks
           \/ /\ \E label \in Connected : GoOn(c, label, phase[c], pings[c])
              /\ \E new : /\ tasks' = tasks \cup {new}
                          /\ new.client = c /\ new.kind = KindOf(c) /\ new.stage = "queued"
<1> DEFINE new == [client |-> c, kind |-> KindOf(c), daemon |-> socket, stage |-> "queued",
                   attempt |-> IF phase[c] = "first" THEN 1 ELSE 2, heard |-> TRUE]
           label == IF IsBulk(c) THEN "write" ELSE "wait"
<1>1. new.client = c /\ new.kind = KindOf(c) /\ new.stage = "queued" OBVIOUS
<1>2. \/ Fail(c, TRUE) /\ tasks' = tasks
      \/ tasks' = tasks \cup {new} /\ GoOn(c, label, phase[c], pings[c])
    BY DEF Send
<1>3. label \in Connected BY DEF Connected
<1> HIDE DEF new, label
<1> QED BY <1>1, <1>2, <1>3

\* A client listens to at most one connection, whatever step is taken.
LEMMA HeardStep ==
    ASSUME Types, HeardInv, [Next]_vars
    PROVE  HeardInv'
<1>t. \A t \in tasks : t \in Tasks /\ t.client \in Clients BY DEF Types, Tasks
<1>0. ASSUME NEW c \in Clients, OnlyMoves(c), tasks' \subseteq tasks,
             \A t \in tasks' : t.heard => t.client # c
      PROVE  HeardInv'
    BY <1>0, <1>t DEF HeardInv, OnlyMoves
<1>1. CASE UNCHANGED <<clients, runs>> /\ tasks' \subseteq tasks
    BY <1>1 DEF HeardInv, clients
<1>2. ASSUME NEW c \in Clients, Refuse(c) \/ Spawn(c) PROVE HeardInv'
    <2>1. OnlyMoves(c) /\ tasks' = tasks
        BY <1>2 DEF Types, Refuse, Spawn, Finish, GoOn, OnlyMoves
    <2>2. \A t \in tasks : t.heard => t.client # c BY <1>2 DEF HeardInv, Refuse, Spawn, Connected
    <2> QED BY <1>0, <2>1, <2>2
<1>3. ASSUME NEW c \in Clients, Send(c) PROVE HeardInv'
    <2>1. \A t \in tasks : t.heard => t.client # c BY <1>3 DEF HeardInv, Send, Connected
    <2>2. CASE Fail(c, TRUE) /\ tasks' = tasks BY <1>0, <2>1, <2>2, FailMoves
    <2>3. ASSUME NEW label \in Connected, GoOn(c, label, phase[c], pings[c]),
                 NEW new, tasks' = tasks \cup {new}, new.client = c
          PROVE  HeardInv'
        <3>1. pc'[c] \in Connected /\ \A e \in Clients : e # c => pc'[e] = pc[e]
            BY <2>3 DEF GoOn, Types
        <3> QED BY <1>t, <2>1, <2>3, <3>1 DEF HeardInv
    <2> QED BY <1>3, <2>2, <2>3, SendTasks
<1>4. ASSUME NEW c \in Clients, Timeout(c) PROVE HeardInv'
    <2>1. PICK t \in tasks :
              /\ t.client = c /\ t.heard
              /\ \A u \in tasks' : u \in tasks \ {t} \/ (u.client = c /\ u.heard = FALSE)
        BY <1>4, TimeoutTasks
    <2>2. OnlyMoves(c) BY <1>4, FailMoves DEF Timeout
    <2>3. ASSUME NEW u \in tasks', u.heard PROVE u \in tasks /\ u.client # c
        BY <2>1, <2>3 DEF HeardInv
    <2> QED BY <1>t, <2>2, <2>3 DEF HeardInv, OnlyMoves
<1>5. ASSUME NEW c \in Clients, Eof(c) PROVE HeardInv'
    <2>1. OnlyMoves(c) /\ tasks' = tasks BY <1>5, FailMoves DEF Eof
    <2>2. \A t \in tasks : t.heard => t.client # c BY <1>5 DEF Eof
    <2> QED BY <1>0, <2>1, <2>2
<1>6. ASSUME NEW d \in Daemons, Accept(d) PROVE HeardInv'
    <2>1. PICK t \in tasks : tasks' = (tasks \ {t}) \cup {[t EXCEPT !.stage = "reading"]}
        BY <1>6 DEF Accept
    <2> DEFINE new == [t EXCEPT !.stage = "reading"]
    <2>2. new.client = t.client /\ new.heard = t.heard BY <1>t, TaskStages
    <2>3. pc' = pc BY <1>6 DEF Accept, clients
    <2> HIDE DEF new
    <2>4. tasks' = (tasks \ {t}) \cup {new} BY <2>1 DEF new
    <2> QED BY <2>2, <2>3, <2>4 DEF HeardInv
<1>8. ASSUME NEW t \in tasks, Read(t) PROVE HeardInv'
    <2> DEFINE new == [t EXCEPT !.stage = "running"]
    <2>2. new.client = t.client /\ new.heard = t.heard BY <1>t, TaskStages
    <2>3. \A e \in Clients : pc[e] \in Connected => pc'[e] \in Connected
        BY <1>8, <1>t DEF Read, clients, GoOn, Types, Connected
    <2>4. tasks' = (tasks \ {t}) \cup {new} BY <1>8 DEF Read
    <2> HIDE DEF new
    <2> QED BY <1>t, <2>2, <2>3, <2>4 DEF HeardInv
<1>7. ASSUME NEW t \in tasks, Reply(t) PROVE HeardInv'
    <2>1. ASSUME NEW u \in tasks', u.heard PROVE u \in tasks /\ u # t
        BY <1>7, <2>1, ReplyTasks
    <2>2. CASE t.heard /\ Succeed(t.client)
        <3>1. OnlyMoves(t.client) BY <1>t, <2>2, SucceedMoves
        <3>2. ASSUME NEW u \in tasks', u.heard PROVE u.client # t.client
            BY <2>1, <2>2, <3>2 DEF HeardInv
        <3> QED BY <1>t, <2>1, <3>1, <3>2 DEF HeardInv, OnlyMoves
    <2>3. CASE UNCHANGED clients BY <2>1, <2>3 DEF HeardInv, clients
    <2> QED BY <1>7, <2>2, <2>3 DEF Reply
<1> QED BY <1>1, <1>2, <1>3, <1>4, <1>5, <1>6, <1>7, <1>8, TaskMoves

\* What the invariant says of a client's first sending stays when neither the
\* client nor its connections do anything.
LEMMA FirstStays ==
    ASSUME NEW c \in Clients, FirstInv(c),
           duty'[c] = duty[c], pc'[c] = pc[c], phase'[c] = phase[c],
           outcome'[c] = outcome[c], runs'[c] = runs[c],
           \A t \in tasks' : t.client = c => t \in tasks
    PROVE  FirstInv(c)'
BY DEF FirstInv, TasksOf

\* Every step keeps a client's first sending what it is.
LEMMA FirstStep ==
    ASSUME SendInv, [Next]_vars, NEW c \in Clients
    PROVE  FirstInv(c)'
<1>i. Types /\ HeardInv /\ FirstInv(c) BY DEF SendInv
<1>t. \A t \in tasks : t \in Tasks /\ t.client \in Clients BY <1>i DEF Types, Tasks
<1>1. CASE UNCHANGED <<clients, runs>> /\ tasks' \subseteq tasks
    BY <1>i, <1>1, FirstStays DEF clients
<1>2. ASSUME NEW e \in Clients, e # c,
             Refuse(e) \/ Send(e) \/ Timeout(e) \/ Eof(e) \/ Spawn(e)
      PROVE  FirstInv(c)'
    <2>1. OnlyMoves(e)
        BY <1>i, <1>2, FailMoves
           DEF Types, Refuse, Send, Timeout, Eof, Spawn, Finish, GoOn, OnlyMoves
    <2>2. runs' = runs BY <1>2 DEF Refuse, Send, Timeout, Eof, Spawn
    <2>3. ASSUME NEW t \in tasks', t.client = c PROVE t \in tasks
        <3>1. CASE Refuse(e) \/ Eof(e) \/ Spawn(e)
            BY <2>3, <3>1 DEF Refuse, Eof, Spawn
        <3>2. CASE Send(e) BY <1>2, <2>3, <3>2, SendTasks
        <3>3. CASE Timeout(e) BY <1>2, <1>i, <2>3, <3>3, TimeoutTasks
        <3> QED BY <1>2, <3>1, <3>2, <3>3
    <2> QED BY <1>2, <1>i, <2>1, <2>2, <2>3, FirstStays DEF OnlyMoves
<1>3. CASE Refuse(c)
    BY <1>3, <1>i DEF Types, FirstInv, Refuse, Finish, TasksOf, Connected
<1>4. CASE Send(c)
    <2>1. CASE Fail(c, TRUE)
        BY <1>4, <1>i, <2>1, FailMoves DEF Send, FirstInv, OnlyMoves
    <2>2. ASSUME ~Fail(c, TRUE) PROVE FirstInv(c)'
        <3>1. PICK new : /\ tasks' = tasks \cup {new} /\ new.client = c /\ new.stage = "queued"
                         /\ new.kind = KindOf(c)
            BY <1>4, <2>2, SendTasks
        <3>2. /\ pc[c] = "send" /\ pc'[c] \in Connected /\ phase'[c] = phase[c]
              /\ UNCHANGED <<duty, outcome, runs>>
            BY <1>4, <1>i, <2>2, SendTasks DEF Send, GoOn, Types
        <3>3. duty[c] \in Requests /\ phase[c] = "first" => KindOf(c) = "work"
            BY DEF KindOf, Requests
        <3>4. pc'[c] # "send" /\ pc'[c] # "done" BY <3>2 DEF Connected
        <3> QED BY <1>i, <3>1, <3>2, <3>3, <3>4 DEF FirstInv, TasksOf
    <2> QED BY <2>1, <2>2
<1>5. CASE Timeout(c) \/ Eof(c)
    <2>1. Fail(c, FALSE) /\ pc[c] \in Connected BY <1>5 DEF Timeout, Eof, Connected
    <2>2. duty' = duty BY <2>1, <1>i, FailMoves DEF OnlyMoves
    <2> QED BY <2>1, <2>2, <1>i, FailMoves DEF FirstInv, Connected
<1>6. CASE Spawn(c)
    BY <1>6, <1>i DEF Types, FirstInv, Spawn, Finish, GoOn, Connected
<1>7. ASSUME NEW d \in Daemons, Accept(d) PROVE FirstInv(c)'
    <2>1. PICK t \in tasks :
              /\ t.stage = "queued"
              /\ tasks' = (tasks \ {t}) \cup {[t EXCEPT !.stage = "reading"]}
        BY <1>7 DEF Accept
    <2> DEFINE new == [t EXCEPT !.stage = "reading"]
    <2>2. new.client = t.client /\ new.kind = t.kind /\ new.stage = "reading"
        BY <1>t, TaskStages
    <2>3. UNCHANGED <<clients, runs>> BY <1>7 DEF Accept
    <2> HIDE DEF new
    <2>4. tasks' = (tasks \ {t}) \cup {new} BY <2>1 DEF new
    <2>5. CASE t.client # c
        BY <1>i, <2>2, <2>3, <2>4, <2>5, FirstStays DEF clients
    <2>6. CASE t.client = c
        <3>1. t \in TasksOf(c) BY <2>6 DEF TasksOf
        <3>2. \A u \in TasksOf(c)' : u \in TasksOf(c) \ {t} \/ u = new
            BY <2>4, <2>6 DEF TasksOf
        <3> QED BY <1>i, <2>1, <2>2, <2>3, <3>1, <3>2 DEF FirstInv, clients
    <2> QED BY <2>5, <2>6
<1>9. ASSUME NEW t \in tasks, Read(t) PROVE FirstInv(c)'
    <2>1. /\ t.stage = "reading"
          /\ runs' = [runs EXCEPT ![t.client] = IF t.kind = "work" THEN @ + 1 ELSE @]
        BY <1>9 DEF Read
    <2> DEFINE new == [t EXCEPT !.stage = "running"]
    <2>2. new.client = t.client /\ new.kind = t.kind /\ new.stage = "running"
        BY <1>t, TaskStages
    <2>3. /\ duty' = duty /\ phase' = phase /\ outcome' = outcome
          /\ \A e \in Clients \ {t.client} : pc'[e] = pc[e]
          /\ pc'[t.client] = pc[t.client] \/ (pc[t.client] = "write" /\ pc'[t.client] = "wait")
        BY <1>9, <1>i, <1>t DEF Read, GoOn, Types, clients
    <2>4. tasks' = (tasks \ {t}) \cup {new} BY <1>9 DEF Read
    <2> HIDE DEF new
    <2>5. CASE t.client # c
        BY <1>i, <1>t, <2>1, <2>2, <2>3, <2>4, <2>5, FirstStays DEF Types
    <2>6. CASE t.client = c
        <3>1. runs'[c] = IF t.kind = "work" THEN runs[c] + 1 ELSE runs[c]
            BY <1>i, <2>1, <2>6 DEF Types
        <3>2. t \in TasksOf(c) BY <2>6 DEF TasksOf
        <3>3. \A u \in TasksOf(c)' : u \in TasksOf(c) \ {t} \/ u = new
            BY <2>4, <2>6 DEF TasksOf
        <3>4. /\ pc'[c] \in Connected <=> pc[c] \in Connected
              /\ pc[c] = "done" => pc'[c] = "done"
              /\ pc'[c] = "send" <=> pc[c] = "send"
            BY <2>3, <2>6 DEF Connected
        <3> QED BY <1>i, <2>1, <2>2, <2>3, <3>1, <3>2, <3>3, <3>4 DEF FirstInv
    <2> QED BY <2>5, <2>6
<1>8. ASSUME NEW t \in tasks, Reply(t) PROVE FirstInv(c)'
    <2>1. runs' = runs BY <1>8 DEF Reply
    <2>2. CASE t.client # c
        <3>1. \A u \in tasks' : u.client = c => u \in tasks
            BY <1>8, <1>i, <2>2, ReplyTasks
        <3>2. CASE Succeed(t.client)
            BY <1>i, <1>t, <2>1, <2>2, <3>1, <3>2, SucceedMoves, FirstStays DEF OnlyMoves
        <3>3. CASE UNCHANGED clients BY <1>i, <2>1, <3>1, <3>3, FirstStays DEF clients
        <3> QED BY <1>8, <3>2, <3>3 DEF Reply
    <2>3. CASE t.client = c
        <3>1. t \in TasksOf(c) BY <2>3 DEF TasksOf
        <3>2. t.stage = "running" BY <1>8 DEF Reply
        <3>3. CASE t.kind = "work"
            <4>1. tasks' = tasks \ {t} BY <1>8, <3>3 DEF Reply
            <4>2. TasksOf(c)' = TasksOf(c) \ {t} BY <4>1 DEF TasksOf
            <4>3. CASE t.heard /\ Succeed(c)
                <5>1. pc[c] \in Connected BY <1>i, <2>3, <4>3 DEF HeardInv
                <5>2. /\ duty' = duty
                      /\ phase'[c] = "first" => phase[c] = "first"
                      /\ outcome'[c] # outcome[c] => pc'[c] = "done"
                      /\ phase'[c] = "first" => pc'[c] = "done"
                    BY <1>i, <4>3, SucceedMoves DEF OnlyMoves, Succeed, Finish, GoOn, Types
                <5>3. outcome'[c] = "ok" => pc'[c] = "done"
                    BY <1>i, <5>1, <5>2 DEF FirstInv, Connected
                <5>4. duty[c] \in Requests /\ phase[c] = "first" =>
                          (\A u \in TasksOf(c) : u = t) /\ runs[c] = 1
                    BY <1>i, <3>1, <3>2, <5>1 DEF FirstInv
                <5>5. duty'[c] \in Requests /\ phase'[c] = "first" =>
                          TasksOf(c)' = {} /\ runs'[c] = 1
                    BY <2>1, <4>2, <5>2, <5>4
                <5> QED BY <5>2, <5>3, <5>5 DEF FirstInv
            <4>4. CASE UNCHANGED clients
                BY <1>i, <2>1, <4>1, <4>4, FirstStays DEF clients
            <4> QED BY <1>8, <2>3, <4>3, <4>4 DEF Reply
        <3>4. CASE t.kind # "work"
            <4>1. CASE t.heard /\ Succeed(c)
                <5>1. pc[c] \in Connected BY <1>i, <2>3, <4>1 DEF HeardInv
                <5>2. /\ duty' = duty
                      /\ phase'[c] = "first" => phase[c] = "first"
                      /\ outcome'[c] # outcome[c] => pc'[c] = "done"
                    BY <1>i, <4>1, SucceedMoves DEF OnlyMoves, Succeed, Finish, GoOn, Types
                <5>3. outcome'[c] = "ok" => pc'[c] = "done"
                    BY <1>i, <5>1, <5>2 DEF FirstInv, Connected
                <5>4. ~(duty[c] \in Requests /\ phase[c] = "first")
                    BY <1>i, <3>1, <3>4, <5>1 DEF FirstInv
                <5> QED BY <5>2, <5>3, <5>4 DEF FirstInv
            <4>2. CASE UNCHANGED clients
                <5>1. duty[c] \in Requests /\ phase[c] = "first" =>
                          pc[c] \notin Connected \cup {"send"} /\ outcome[c] # "ok"
                    BY <1>i, <3>1, <3>4 DEF FirstInv
                <5> QED BY <1>i, <2>1, <4>2, <5>1 DEF FirstInv, clients
            <4> QED BY <1>8, <2>3, <4>1, <4>2 DEF Reply
        <3> QED BY <3>3, <3>4
    <2> QED BY <2>2, <2>3
<1> QED BY <1>1, <1>2, <1>3, <1>4, <1>5, <1>6, <1>7, <1>8, <1>9, <1>i, TaskMoves

\* Nothing is sent at first.
LEMMA SendInit ==
    ASSUME Init
    PROVE  SendInv
<1>1. Types BY DEF Init, Types
<1>2. HeardInv BY DEF Init, HeardInv
<1>3. \A c \in Clients : FirstInv(c) BY DaemonAssumption DEF Init, FirstInv, TasksOf
<1> QED BY <1>1, <1>2, <1>3 DEF SendInv

\* Every step keeps the invariant of the first sending.
LEMMA SendStep ==
    ASSUME SendInv, [Next]_vars
    PROVE  SendInv'
BY TypesStep, HeardStep, FirstStep DEF SendInv

\* A request whose first sending was answered was started once, and is not
\* started again: AnsweredRanOnce, of send_request and the daemon's tasks.
THEOREM AnsweredRequestsRanOnce == Spec => []AnsweredRanOnce
<1>1. SendInv => AnsweredRanOnce BY DEF SendInv, FirstInv, AnsweredRanOnce
<1> QED BY SendInit, SendStep, <1>1, PTL DEF Spec
=============================================================================
