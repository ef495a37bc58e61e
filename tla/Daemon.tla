------------------------------- MODULE Daemon -------------------------------
(***************************************************************************)
(* The CLI and the daemon (cli.rs, ipc.rs, daemon.rs): commands that reach  *)
(* the daemon over its Unix socket, start it when nobody answers and send   *)
(* once more, and daemons that bind, serve and stop.                        *)
(*                                                                          *)
(* A connection is a task from the moment it is made: queued until the      *)
(* accept loop takes it, then run by a tokio task of its own.  A client     *)
(* that gives up only stops listening; the task lives on.  A small request  *)
(* fits into the socket's buffer and is written at once; a bulk one is      *)
(* written as the daemon reads it, and that wait has no deadline.  The      *)
(* windows variant (a fixed TCP port) is left out.                          *)
(***************************************************************************)
EXTENDS Naturals, FiniteSets

CONSTANTS Clients,     \* invocations of the CLI, each with one duty
          Daemons,     \* process ids; an id is reused once nothing refers to it
          Duties,      \* what the invocations may be for, each and together
          MaxPings,    \* stands for the 20 and the 10 pings of the waiting loops
          None

ASSUME DaemonAssumption ==
    /\ Duties \subseteq [Clients -> {"work", "bulk", "forever", "start", "status", "stop"}]
    /\ MaxPings \in Nat \ {0}
    /\ None \notin Daemons \cup {"ok"}

VARIABLES socket,      \* the daemon whose listener the socket path leads to
          daemon,      \* where each daemon process is
          tasks,       \* connections that are queued or being served
          duty, pc, phase, pings, outcome,    \* the clients
          runs,        \* history: how often a client's request was started
          rivals       \* history: daemons that shared their life with another

clients == <<duty, pc, phase, pings, outcome>>
vars == <<socket, daemon, tasks, clients, runs, rivals>>

\* The duties that send a request of their own: with a deadline, with one and
\* too large for the socket's buffer, and an exec without a deadline.
Requests == {"work", "bulk", "forever"}

Alive == {d \in Daemons : daemon[d] # "down"}
Listening == {d \in Daemons : daemon[d] \in {"select", "busy", "stopping"}}

Tasks == [client : Clients, kind : {"work", "ping", "shutdown"}, daemon : Daemons,
          attempt : {1, 2}, stage : {"queued", "reading", "running", "replied"}, heard : BOOLEAN]

TypeOK ==
    /\ socket \in Daemons \cup {None}
    /\ daemon \in [Daemons -> {"down", "spawned", "cleared", "select", "busy", "stopping"}]
    /\ tasks \subseteq Tasks
    /\ duty \in Duties
    /\ pc \in [Clients -> {"send", "write", "wait", "spawn", "done"}]
    /\ phase \in [Clients -> {"first", "ready", "second", "confirm"}]
    /\ pings \in [Clients -> 0 .. MaxPings]
    /\ outcome \in [Clients -> {None, "ok", "error", "running", "already_running",
                                "stopping", "stopped", "not_running"}]
    /\ runs \in [Clients -> 0 .. 2]
    /\ rivals \subseteq Daemons

Init ==
    /\ socket = None
    /\ daemon = [d \in Daemons |-> "down"]
    /\ tasks = {}
    /\ duty \in Duties
    /\ pc = [c \in Clients |-> "send"]
    /\ phase = [c \in Clients |-> "first"]
    /\ pings = [c \in Clients |-> 0]
    /\ outcome = [c \in Clients |-> None]
    /\ runs = [c \in Clients |-> 0]
    /\ rivals = {}

-----------------------------------------------------------------------------
(* A client of the daemon                                                    *)

\* What a client sends next: its own request, or a ping of one of the loops.
KindOf(c) ==
    IF phase[c] \in {"ready", "confirm"} \/ duty[c] \in {"start", "status"} THEN "ping"
    ELSE IF duty[c] = "stop" THEN "shutdown" ELSE "work"

Finish(c, result) ==
    /\ pc' = [pc EXCEPT ![c] = "done"]
    /\ outcome' = [outcome EXCEPT ![c] = result]
    /\ UNCHANGED <<duty, phase, pings>>

GoOn(c, label, ph, n) ==
    /\ pc' = [pc EXCEPT ![c] = label]
    /\ phase' = [phase EXCEPT ![c] = ph]
    /\ pings' = [pings EXCEPT ![c] = n]
    /\ UNCHANGED <<duty, outcome>>

\* What the command makes of a response: send_request, dispatch_daemon,
\* wait_for_daemon_ready and the loop of stop_daemon.
Succeed(c) ==
    \/ /\ phase[c] = "first"
       /\ Finish(c, CASE duty[c] = "start" -> "already_running"
                      [] duty[c] = "stop"  -> "stopping"
                      [] OTHER             -> "ok")
    \/ phase[c] = "ready" /\ duty[c] = "start" /\ Finish(c, "running")
    \/ phase[c] = "ready" /\ duty[c] # "start" /\ GoOn(c, "send", "second", 0)
    \/ phase[c] = "second" /\ Finish(c, "ok")
    \/ phase[c] = "confirm" /\ pings[c] + 1 < MaxPings
       /\ GoOn(c, "send", "confirm", pings[c] + 1)
    \/ phase[c] = "confirm" /\ pings[c] + 1 >= MaxPings /\ Finish(c, "error")

\* Mutated form: a request that timed out is sent again at once.
FailSendingAgain(c, unavailable) ==
    \/ phase[c] = "first" /\ duty[c] # "stop" /\ ~unavailable /\ GoOn(c, "send", "first", 0)
    \/ phase[c] = "first" /\ duty[c] # "stop" /\ unavailable /\ GoOn(c, "spawn", "first", 0)
    \/ (phase[c] # "first" \/ duty[c] = "stop") /\ Finish(c, "error")

\* And of an error; unavailable means that nothing could be sent.  The first
\* error of a request, whatever it is, starts a daemon.
Fail(c, unavailable) ==
    \/ phase[c] = "first" /\ duty[c] \in Requests \cup {"start"}
       /\ GoOn(c, "spawn", "first", 0)
    \/ phase[c] = "first" /\ duty[c] = "status" /\ Finish(c, "error")
    \/ phase[c] = "first" /\ duty[c] = "stop" /\ unavailable /\ Finish(c, "not_running")
    \/ phase[c] = "first" /\ duty[c] = "stop" /\ ~unavailable /\ GoOn(c, "send", "confirm", 0)
    \/ phase[c] = "ready" /\ pings[c] + 1 < MaxPings /\ GoOn(c, "send", "ready", pings[c] + 1)
    \/ phase[c] = "ready" /\ pings[c] + 1 >= MaxPings /\ Finish(c, "error")
    \/ phase[c] = "second" /\ Finish(c, "error")
    \/ phase[c] = "confirm" /\ Finish(c, "stopped")

\* dispatch_inner refuses a command before anything is sent: its arguments are
\* wrong, or an agent asks for approvals, grants or plans.
Refuse(c) ==
    /\ pc[c] = "send" /\ phase[c] = "first" /\ duty[c] \in Requests
    /\ Finish(c, "error")
    /\ UNCHANGED <<socket, daemon, tasks, runs, rivals>>

\* A bulk request is written while the daemon reads it; all others at once.
IsBulk(c) == duty[c] = "bulk" /\ KindOf(c) = "work"

\* ipc::send: connect, which does not wait and fails when nobody listens or the
\* backlog is full, and write the request.
Send(c) ==
    /\ pc[c] = "send"
    /\ \/ /\ socket \in Listening
          /\ tasks' = tasks \cup
                {[client |-> c, kind |-> KindOf(c), daemon |-> socket, stage |-> "queued",
                  attempt |-> IF phase[c] = "first" THEN 1 ELSE 2, heard |-> TRUE]}
          /\ GoOn(c, IF IsBulk(c) THEN "write" ELSE "wait", phase[c], pings[c])
       \/ Fail(c, TRUE) /\ UNCHANGED tasks
    /\ UNCHANGED <<socket, daemon, runs, rivals>>

\* Mutated form: only pings have a deadline.
TimeoutPingsOnly(c) ==
    /\ pc[c] = "wait" /\ KindOf(c) = "ping"
    /\ \E t \in tasks : t.client = c /\ t.heard /\ tasks' = tasks \ {t}
    /\ Fail(c, FALSE)
    /\ UNCHANGED <<socket, daemon, runs, rivals>>

\* response_timeout: every request but an exec with a timeout of 0 has a
\* deadline.  A ping nobody listens for changes nothing and is left out.
Timeout(c) ==
    /\ pc[c] = "wait" /\ (duty[c] = "forever" => KindOf(c) = "ping")
    /\ \E t \in tasks :
          /\ t.client = c /\ t.heard
          /\ tasks' = (tasks \ {t}) \cup
                      (IF t.kind = "ping" THEN {} ELSE {[t EXCEPT !.heard = FALSE]})
    /\ Fail(c, FALSE)
    /\ UNCHANGED <<socket, daemon, runs, rivals>>

\* The daemon went away: write_all or read_exact meets the end of the stream.
Eof(c) ==
    /\ pc[c] \in {"write", "wait"} /\ ~\E t \in tasks : t.client = c /\ t.heard
    /\ Fail(c, FALSE)
    /\ UNCHANGED <<socket, daemon, tasks, runs, rivals>>

\* spawn_daemon.
Spawn(c) ==
    /\ pc[c] = "spawn"
    /\ \/ \E d \in Daemons :
             /\ daemon[d] = "down" /\ socket # d
             /\ daemon' = [daemon EXCEPT ![d] = "spawned"]
             /\ rivals' = IF Alive = {} THEN rivals \ {d} ELSE rivals \cup Alive \cup {d}
          /\ GoOn(c, "send", "ready", 0)
       \/ Finish(c, "error") /\ UNCHANGED <<daemon, rivals>>
    /\ UNCHANGED <<socket, tasks, runs>>

-----------------------------------------------------------------------------
(* A daemon                                                                  *)

\* ipc::serve begins by removing whatever is at the path ...
Clear(d) ==
    /\ daemon[d] = "spawned"
    /\ daemon' = [daemon EXCEPT ![d] = "cleared"]
    /\ socket' = None
    /\ UNCHANGED <<tasks, clients, runs, rivals>>

\* ... and binds, which fails when another has bound in between.
Bind(d) ==
    /\ daemon[d] = "cleared"
    /\ socket' = IF socket = None THEN d ELSE socket
    /\ daemon' = [daemon EXCEPT ![d] = IF socket = None THEN "select" ELSE "down"]
    /\ UNCHANGED <<tasks, clients, runs, rivals>>

\* The accept branch spawns a task, which reads the request.  While the body of
\* the branch runs, the loop waits for nothing: the future of the notification
\* is dropped and made anew.
Accept(d) ==
    /\ daemon[d] = "select"
    /\ \E t \in tasks :
          /\ t.daemon = d /\ t.stage = "queued"
          /\ tasks' = (tasks \ {t}) \cup {[t EXCEPT !.stage = "reading"]}
    /\ daemon' = [daemon EXCEPT ![d] = "busy"]
    /\ UNCHANGED <<socket, clients, runs, rivals>>

\* read_frame has the whole request, and the client its write behind it; the
\* request starts.
Read(t) ==
    /\ t.stage = "reading"
    /\ tasks' = (tasks \ {t}) \cup {[t EXCEPT !.stage = "running"]}
    /\ runs' = [runs EXCEPT ![t.client] = IF t.kind = "work" THEN @ + 1 ELSE @]
    /\ IF pc[t.client] = "write" /\ t.heard
       THEN GoOn(t.client, "wait", phase[t.client], pings[t.client])
       ELSE UNCHANGED clients
    /\ UNCHANGED <<socket, daemon, rivals>>

\* Mutated form: the path is removed once more when the loop goes on.
ResumeCleaning(d) ==
    /\ daemon[d] = "busy"
    /\ daemon' = [daemon EXCEPT ![d] = "select"]
    /\ socket' = None
    /\ UNCHANGED <<tasks, clients, runs, rivals>>

Resume(d) ==
    /\ daemon[d] = "busy"
    /\ daemon' = [daemon EXCEPT ![d] = "select"]
    /\ UNCHANGED <<socket, tasks, clients, runs, rivals>>

\* DaemonState::handle returns and the response is written.
Reply(t) ==
    /\ t.stage = "running"
    /\ tasks' = (tasks \ {t}) \cup
                (IF t.kind = "shutdown" THEN {[t EXCEPT !.stage = "replied", !.heard = FALSE]}
                 ELSE {})
    /\ IF t.heard THEN Succeed(t.client) ELSE UNCHANGED clients
    /\ UNCHANGED <<socket, daemon, runs, rivals>>

\* request_shutdown calls notify_waiters, which wakes the loop if it waits.
Notify(t) ==
    /\ t.stage = "replied"
    /\ tasks' = tasks \ {t}
    /\ daemon' = [daemon EXCEPT ![t.daemon] = IF @ = "select" THEN "stopping" ELSE @]
    /\ UNCHANGED <<socket, clients, runs, rivals>>

\* SIGTERM or ctrl-c; graceful_shutdown closes the sessions.
Signal(d) ==
    /\ daemon[d] = "select"
    /\ daemon' = [daemon EXCEPT ![d] = "stopping"]
    /\ UNCHANGED <<socket, tasks, clients, runs, rivals>>

\* The path is removed, whoever's it is, and the process ends with its tasks.
Exit(d) ==
    /\ daemon[d] = "stopping"
    /\ socket' = None
    /\ daemon' = [daemon EXCEPT ![d] = "down"]
    /\ tasks' = {t \in tasks : t.daemon # d}
    /\ UNCHANGED <<clients, runs, rivals>>

\* The process dies, or accept returns an error; the path stays.
Crash(d) ==
    /\ d \in Alive
    /\ daemon' = [daemon EXCEPT ![d] = "down"]
    /\ tasks' = {t \in tasks : t.daemon # d}
    /\ UNCHANGED <<socket, clients, runs, rivals>>

-----------------------------------------------------------------------------
ClientStep(c) == Refuse(c) \/ Send(c) \/ Timeout(c) \/ Eof(c) \/ Spawn(c)

DaemonStep(d) ==
    \/ Clear(d) \/ Bind(d) \/ Accept(d) \/ Resume(d) \/ Exit(d)
    \/ \E t \in tasks : t.daemon = d /\ (Read(t) \/ Reply(t) \/ Notify(t))

Next ==
    \/ \E c \in Clients : ClientStep(c)
    \/ \E d \in Daemons : DaemonStep(d) \/ Signal(d) \/ Crash(d)

\* A command goes on and its deadlines pass; nothing is assumed of daemons.
Spec == Init /\ [][Next]_vars /\ \A c \in Clients : WF_vars(ClientStep(c))

-----------------------------------------------------------------------------
\* A request whose first sending was answered was started once and is not
\* started again: only an error makes the CLI send it a second time
\* (send_request), although the first may be running still.
AnsweredRanOnce ==
    \A c \in Clients :
        duty[c] \in Requests /\ phase[c] = "first" /\ outcome[c] = "ok" =>
            runs[c] = 1

\* A daemon that never met another can be reached for as long as it serves:
\* the cleaning of the path by ipc::serve hurts nobody but rivals.
LoneDaemonReachable ==
    \A d \in Listening : d \notin rivals => socket = d

\* Every command ends, whatever the daemons do (crash between any two steps,
\* never answer, start and stop in each other's way), but for an exec without a
\* deadline and for a bulk request whose connection no daemon reads: only the
\* wait for the response has a deadline (ipc.rs), not the write before it.
EveryCommandEnds ==
    \A c \in Clients :
        \/ <>(outcome[c] # None \/ duty[c] = "forever")
        \/ <>[](pc[c] = "write" /\ duty[c] = "bulk")
=============================================================================
