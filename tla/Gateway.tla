------------------------------- MODULE Gateway -------------------------------
(***************************************************************************)
(* GatewayService (service.rs) around the session manager: how requests,   *)
(* profile mutations, the maintenance task and shutdown share              *)
(*   - config_access, a tokio RwLock over the configuration file,          *)
(*   - sessions, a tokio Mutex over the SessionManager.                    *)
(* Both locks serve waiters first come, first served. A request is here    *)
(* already authorized: Authorization models how.                           *)
(*                                                                         *)
(* A worker's run is cut where it waits for a lock and around a remote      *)
(* command, which runs without the mutex. What it does under the mutex is  *)
(* one step, which may take long to come: the head of the mutex's queue    *)
(* holds the mutex until it takes that step.                               *)
(***************************************************************************)
EXTENDS SessionManager

CONSTANTS
    Workers,
    NamespaceOf,   \* the execution namespace of a worker's principal
    Guarded,       \* workers whose requests come through execute_principal; the
                   \* others through execute_for_principal_config
    Droppable,     \* workers whose future is dropped with the HTTP connection
    Duties,        \* the kinds of request a worker may get
    Files,         \* the configurations the process may start with
    MaxDrops       \* bound on the futures dropped

ProfileOps == {"exec", "transfer", "tunnel_open"}
Operations == ProfileOps \cup {"tunnel_close", "session_close"}
Kinds == Operations \cup {"create", "delete", "reap", "shutdown"}

\* What a configuration file says of each profile; None if it has no such
\* profile.
Configs == [Profiles -> Maybe(Definitions)]

ProfilesIn(config) == {p \in Profiles : config[p] # None}

(* AppConfig::validate, as far as the set of profiles goes. *)
validate(config) ==
    /\ ProfilesIn(config) # {}
    /\ \A p \in ProfilesIn(config) : Via[p] \in {None} \cup ProfilesIn(config)

ASSUME GatewayAssumption ==
    /\ NamespaceOf \in [Workers -> Namespaces]
    /\ Guarded \subseteq Workers /\ Droppable \subseteq Workers
    /\ Duties \in [Workers -> SUBSET Kinds]
    /\ Files \subseteq Configs
    /\ \A config \in Files : validate(config)
    /\ None \notin Workers
    /\ MaxDrops \in Nat

VARIABLES
    file,          \* the configuration file
    pool,          \* the session manager
    readers,       \* config_access: workers that hold the read guard
    writer,        \* ... and the one that holds the write guard
    guardQueue,    \* ... and those that wait for either
    mutexQueue,    \* sessions: the holder of the mutex, then those that wait
    pc,
    job,           \* local variables of each worker
    drops          \* history: how many futures were dropped

locks == <<readers, writer, guardQueue, mutexQueue>>
vars == <<file, pool, locks, pc, job, drops>>

Jobs ==
    [kind       : Maybe(Kinds),
     arg        : Maybe(Profiles \cup TunnelIds \cup SessionIds),
     definition : Maybe(Definitions),  \* to create, or expected by a deletion
     config     : Maybe(Configs),      \* the configuration as loaded
     session    : Maybe(SessionIds),   \* of a command in flight
     transport  : Maybe(SessionIds)]

NoJob == [kind |-> None, arg |-> None, definition |-> None, config |-> None,
          session |-> None, transport |-> None]

Labels == {"idle",
           "read_wait", "write_wait",             \* in the queue of config_access
           "locked", "finish", "check", "commit", \* in the queue of the mutex
           "running"}                             \* a remote command, no mutex

TypeOK ==
    /\ file \in Configs
    /\ pool \in Pools
    /\ readers \subseteq Workers
    /\ writer \in Maybe(Workers)
    /\ guardQueue \in Seq(Workers) /\ mutexQueue \in Seq(Workers)
    /\ pc \in [Workers -> Labels]
    /\ job \in [Workers -> Jobs]
    /\ drops \in Nat

Init ==
    /\ file \in Files
    /\ pool = EmptyPool
    /\ readers = {} /\ writer = None /\ guardQueue = <<>>
    /\ mutexQueue = <<>>
    /\ pc = [w \in Workers |-> "idle"]
    /\ job = [w \in Workers |-> NoJob]
    /\ drops = 0

-----------------------------------------------------------------------------
(* Locks                                                                     *)

Goto(w, label) == pc' = [pc EXCEPT ![w] = label]

HasMutex(w) == mutexQueue # <<>> /\ Head(mutexQueue) = w

MayRead(w) == guardQueue # <<>> /\ Head(guardQueue) = w /\ writer = None

MayWrite(w) == MayRead(w) /\ readers = {}

AwaitMutex(w, label) ==
    /\ Goto(w, label)
    /\ mutexQueue' = Append(mutexQueue, w)

AwaitGuard(w, label) ==
    /\ Goto(w, label)
    /\ guardQueue' = Append(guardQueue, w)

(* The request is over: what the worker holds or waits for goes out of scope. *)
Return(w) ==
    /\ Goto(w, "idle")
    /\ job' = [job EXCEPT ![w] = NoJob]
    /\ readers' = readers \ {w}
    /\ writer' = IF writer = w THEN None ELSE writer
    /\ guardQueue' = Remove(guardQueue, w)
    /\ mutexQueue' = Remove(mutexQueue, w)

\* What the commands in flight, except w's, hold on to.
HeldBut(w) ==
    UNION {{job[v].session, job[v].transport} \ {None} : v \in Workers \ {w}}

(* The manager takes a new value; a transport nobody refers to goes down. *)
SetPool(new, held) == pool' = DropUnused(new, held)

-----------------------------------------------------------------------------
(* Requests                                                                  *)

\* The arguments an operation may come with. To close what is not there is
\* refused without any effect.
Args(kind) ==
    CASE kind \in ProfileOps     -> Profiles
      [] kind = "tunnel_close"  -> {t \in TunnelIds : pool.tunnels[t] # None}
      [] kind = "session_close" -> Present(pool)
      [] OTHER -> {None}

(* An operation on a profile needs the profile in the configuration. *)
Accepted(kind, arg) == kind \in ProfileOps => file[arg] # None

Loaded(kind, arg) == [NoJob EXCEPT !.kind = kind, !.arg = arg, !.config = file]

(* An operation through execute_principal, and the maintenance task, take    *)
(* the read guard first.                                                     *)
RequestGuarded(w, kind, arg) ==
    /\ pc[w] = "idle"
    /\ kind \in Duties[w] /\ arg \in Args(kind)
    /\ kind = "reap" \/ (kind \in Operations /\ w \in Guarded)
    /\ job' = [job EXCEPT ![w] = [NoJob EXCEPT !.kind = kind, !.arg = arg]]
    /\ AwaitGuard(w, "read_wait")
    /\ UNCHANGED <<file, pool, readers, writer, mutexQueue, drops>>

\* Mutated form: readers do not queue behind a waiting writer.
LoadPastWriters(w) ==
    /\ pc[w] = "read_wait" /\ writer = None
    /\ LET kind == job[w].kind
           arg  == job[w].arg
       IN  IF Accepted(kind, arg)
           THEN /\ readers' = readers \cup {w}
                /\ guardQueue' = Remove(guardQueue, w)
                /\ job' = [job EXCEPT ![w] = Loaded(kind, arg)]
                /\ AwaitMutex(w, "locked")
                /\ UNCHANGED writer
           ELSE Return(w)
    /\ UNCHANGED <<file, pool, drops>>

(* The read guard is there, and is held to the end of the request. The       *)
(* request ends at once when the configuration does not load or lacks the    *)
(* profile; a run of the maintenance task, when it does not load.            *)
LoadGuarded(w) ==
    /\ pc[w] = "read_wait" /\ MayRead(w)
    /\ \/ /\ Accepted(job[w].kind, job[w].arg)
          /\ readers' = readers \cup {w}
          /\ guardQueue' = Tail(guardQueue)
          /\ job' = [job EXCEPT ![w] = Loaded(job[w].kind, job[w].arg)]
          /\ AwaitMutex(w, "locked")
          /\ UNCHANGED writer
       \/ Return(w)
    /\ UNCHANGED <<file, pool, drops>>

(* Operations of the other workers load the configuration without a guard.   *)
RequestUnguarded(w, kind, arg) ==
    /\ pc[w] = "idle" /\ w \notin Guarded
    /\ kind \in Duties[w] \cap Operations /\ arg \in Args(kind)
    /\ Accepted(kind, arg)
    /\ job' = [job EXCEPT ![w] = Loaded(kind, arg)]
    /\ AwaitMutex(w, "locked")
    /\ UNCHANGED <<file, pool, readers, writer, guardQueue, drops>>

(* shutdown loads the configuration before it waits for the mutex; when that *)
(* fails it closes nothing, and the request leaves no trace.                 *)
RequestShutdown(w) ==
    /\ pc[w] = "idle" /\ "shutdown" \in Duties[w]
    /\ job' = [job EXCEPT ![w] = [NoJob EXCEPT !.kind = "shutdown"]]
    /\ AwaitMutex(w, "locked")
    /\ UNCHANGED <<file, pool, readers, writer, guardQueue, drops>>

-----------------------------------------------------------------------------
(* Operations under the mutex                                                *)

\* Mutated form: one routing namespace for everybody.
EnsuredByRouting(w) ==
    LET ns == CHOOSE n \in Namespaces : TRUE
    IN  ensure_session(reap_idle_sessions(pool, {ns}), ns, job[w].arg,
                       job[w].config, w \in Guarded, HeldBut(w))

(* What ensure_session may come to, after the reaping every operation starts *)
(* with.                                                                     *)
Ensured(w) ==
    LET ns == NamespaceOf[w]
    IN  ensure_session(reap_idle_sessions(pool, {ns}), ns, job[w].arg,
                       job[w].config, w \in Guarded, HeldBut(w))

Serving(w, kind) == pc[w] = "locked" /\ job[w].kind = kind /\ HasMutex(w)

(* The command is prepared and leaves the mutex; or ensure_session or        *)
(* ensure_agent fails.                                                       *)
PrepareExec(w) ==
    /\ Serving(w, "exec")
    /\ \E res \in Ensured(w) :
          \/ /\ res.id # None
             /\ LET transport == res.pool.sessions[res.id].transport
                IN  /\ SetPool(prepare_exec(res.pool, res.id), HeldBut(w) \cup {transport})
                    /\ job' = [job EXCEPT ![w] = [NoJob EXCEPT !.session = res.id,
                                                               !.transport = transport]]
             /\ mutexQueue' = Tail(mutexQueue)
             /\ Goto(w, "running")
             /\ UNCHANGED <<readers, writer, guardQueue>>
          \/ /\ SetPool(res.pool, HeldBut(w))
             /\ Return(w)
    /\ UNCHANGED <<file, drops>>

(* The command ends, one way or the other. *)
EndExec(w) ==
    /\ pc[w] = "running"
    /\ AwaitMutex(w, "finish")
    /\ UNCHANGED <<file, pool, readers, writer, guardQueue, job, drops>>

FinishExec(w) ==
    /\ pc[w] = "finish" /\ HasMutex(w)
    /\ SetPool(finish_exec(pool, job[w].session), HeldBut(w))
    /\ Return(w)
    /\ UNCHANGED <<file, drops>>

(* read, write, upload and download: the remote operation runs under the     *)
(* mutex.                                                                    *)
Transfer(w) ==
    /\ Serving(w, "transfer")
    /\ \E res \in Ensured(w) : SetPool(res.pool, HeldBut(w))
    /\ Return(w)
    /\ UNCHANGED <<file, drops>>

(* A delegated session is refused, and the port may not be free; the session *)
(* stays either way.                                                         *)
TunnelOpen(w) ==
    /\ Serving(w, "tunnel_open")
    /\ \E res \in Ensured(w) :
          \/ SetPool(res.pool, HeldBut(w))
          \/ /\ res.id # None /\ Via[job[w].arg] = None
             /\ \E t \in TunnelIds :
                  /\ pool.tunnels[t] = None
                  /\ SetPool(tunnel_open(res.pool, res.id, t), HeldBut(w))
    /\ Return(w)
    /\ UNCHANGED <<file, drops>>

(* Refused if the request names a profile that is not the tunnel's. *)
TunnelClose(w) ==
    /\ Serving(w, "tunnel_close")
    /\ \/ SetPool(tunnel_close(pool, NamespaceOf[w], job[w].arg), HeldBut(w))
       \/ UNCHANGED pool
    /\ Return(w)
    /\ UNCHANGED <<file, drops>>

SessionClose(w) ==
    /\ Serving(w, "session_close")
    /\ SetPool(CloseSessions(pool, {id \in {job[w].arg} : Owns(pool, NamespaceOf[w], id)}),
               HeldBut(w))
    /\ Return(w)
    /\ UNCHANGED <<file, drops>>

(* The maintenance task reaps in every namespace; it gets here when the      *)
(* configuration has loaded.                                                 *)
ReapAll(w) ==
    /\ Serving(w, "reap")
    /\ SetPool(reap_idle_sessions(pool, Namespaces), HeldBut(w))
    /\ Return(w)
    /\ UNCHANGED <<file, drops>>

Shutdown(w) ==
    /\ Serving(w, "shutdown")
    /\ SetPool(CloseSessions(pool, Present(pool)), HeldBut(w))
    /\ Return(w)
    /\ UNCHANGED <<file, drops>>

-----------------------------------------------------------------------------
(* Profile mutations: execute_profile_mutation and the tools that lead to it *)

(* ensure_profile_deletable *)
Deletable(config, p) ==
    /\ config[p] # None
    /\ Cardinality(ProfilesIn(config)) # 1
    /\ \A q \in ProfilesIn(config) : Via[q] # p

Creatable(config, p, definition) ==
    /\ config[p] = None
    /\ validate([config EXCEPT ![p] = definition])

(* create_profile: a first check on the configuration as it is.              *)
RequestCreate(w, p, definition) ==
    /\ pc[w] = "idle" /\ "create" \in Duties[w]
    /\ Creatable(file, p, definition)
    /\ job' = [job EXCEPT ![w] = [NoJob EXCEPT !.kind = "create", !.arg = p,
                                               !.definition = definition]]
    /\ AwaitGuard(w, "write_wait")
    /\ UNCHANGED <<file, pool, readers, writer, mutexQueue, drops>>

(* delete_profile: the same, and the fingerprint of what is to be deleted.   *)
RequestDelete(w, p) ==
    /\ pc[w] = "idle" /\ "delete" \in Duties[w]
    /\ Deletable(file, p)
    /\ job' = [job EXCEPT ![w] = [NoJob EXCEPT !.kind = "delete", !.arg = p,
                                               !.definition = file[p]]]
    /\ AwaitMutex(w, "check")
    /\ UNCHANGED <<file, pool, readers, writer, guardQueue, drops>>

(* The first look at the sessions; in Cloud mode a human approves after it.  *)
CheckDelete(w) ==
    /\ pc[w] = "check" /\ HasMutex(w)
    /\ IF has_any_profile_session(pool, job[w].arg)
       THEN Return(w)
       ELSE /\ mutexQueue' = Tail(mutexQueue)
            /\ AwaitGuard(w, "write_wait")
            /\ UNCHANGED <<readers, writer, job>>
    /\ UNCHANGED <<file, pool, drops>>

\* Mutated form: the check made before the write guard is relied upon.
CommitCreateUnchecked(w) ==
    /\ pc[w] = "write_wait" /\ job[w].kind = "create" /\ MayWrite(w)
    /\ file' = [file EXCEPT ![job[w].arg] = job[w].definition]
    /\ Return(w)
    /\ UNCHANGED <<pool, drops>>

(* Under the write guard the configuration is read and checked again, and    *)
(* a creation is written. A write may fail.                                  *)
CommitCreate(w) ==
    /\ pc[w] = "write_wait" /\ job[w].kind = "create" /\ MayWrite(w)
    /\ \/ file' = file
       \/ /\ Creatable(file, job[w].arg, job[w].definition)
          /\ file' = [file EXCEPT ![job[w].arg] = job[w].definition]
    /\ Return(w)
    /\ UNCHANGED <<pool, drops>>

(* A deletion wants the mutex too. *)
RecheckDelete(w) ==
    /\ pc[w] = "write_wait" /\ job[w].kind = "delete" /\ MayWrite(w)
    /\ IF Deletable(file, job[w].arg) /\ file[job[w].arg] = job[w].definition
       THEN /\ writer' = w
            /\ guardQueue' = Tail(guardQueue)
            /\ AwaitMutex(w, "commit")
            /\ UNCHANGED <<readers, job>>
       ELSE Return(w)
    /\ UNCHANGED <<file, pool, drops>>

\* Mutated form: the sessions are not looked at again.
CommitUnchecked(w) ==
    /\ pc[w] = "commit" /\ HasMutex(w)
    /\ file' = [file EXCEPT ![job[w].arg] = None]
    /\ Return(w)
    /\ UNCHANGED <<pool, drops>>

(* The sessions are looked at again; the file is written under both locks,   *)
(* or the write fails.                                                       *)
CommitDelete(w) ==
    /\ pc[w] = "commit" /\ HasMutex(w)
    /\ \/ file' = file
       \/ /\ ~has_any_profile_session(pool, job[w].arg)
          /\ file' = [file EXCEPT ![job[w].arg] = None]
    /\ Return(w)
    /\ UNCHANGED <<pool, drops>>

-----------------------------------------------------------------------------
(* The environment                                                           *)

(* A session has not been used for its idle_timeout. *)
GrowIdle(id) ==
    /\ id \in Present(pool) /\ ~pool.sessions[id].idle
    /\ pool' = [pool EXCEPT !.sessions[id].idle = TRUE]
    /\ UNCHANGED <<file, locks, pc, job, drops>>

(* The connection breaks. *)
LoseTransport(id) ==
    /\ id \in pool.wires
    /\ pool' = [pool EXCEPT !.wires = @ \ {id}]
    /\ UNCHANGED <<file, locks, pc, job, drops>>

(* The client closes its HTTP connection and the request's future is dropped *)
(* where it stands: its guards and its place in the queues go, finish_exec   *)
(* is never called. (Dropped under the mutex it may leave a prefix of its    *)
(* changes behind; that is a session without a command, as when ensure_agent *)
(* fails.)                                                                   *)
DropRequest(w) ==
    /\ pc[w] # "idle" /\ w \in Droppable
    /\ drops < MaxDrops
    /\ drops' = drops + 1
    /\ Return(w)
    /\ LET id == job[w].session
       IN  SetPool(IF id \in Present(pool)
                   THEN [pool EXCEPT !.sessions[id].leaked = @ + 1] ELSE pool,
                   HeldBut(w))
    /\ UNCHANGED file

-----------------------------------------------------------------------------

Receive(w) ==
    \/ \E kind \in Kinds : \E arg \in Args(kind) :
          RequestGuarded(w, kind, arg) \/ RequestUnguarded(w, kind, arg)
    \/ RequestShutdown(w)
    \/ \E p \in Profiles :
          \/ RequestDelete(w, p)
          \/ \E definition \in Definitions : RequestCreate(w, p, definition)

Step(w) ==
    \/ LoadGuarded(w)
    \/ PrepareExec(w) \/ EndExec(w) \/ FinishExec(w)
    \/ Transfer(w) \/ TunnelOpen(w) \/ TunnelClose(w) \/ SessionClose(w)
    \/ ReapAll(w) \/ Shutdown(w)
    \/ CheckDelete(w) \/ CommitCreate(w) \/ RecheckDelete(w) \/ CommitDelete(w)

Next ==
    \/ \E w \in Workers : Receive(w) \/ Step(w) \/ DropRequest(w)
    \/ \E id \in SessionIds : GrowIdle(id) \/ LoseTransport(id)

\* When a worker can go on: ENABLED <<Step(w)>>_vars, spelt out for TLC's sake.
Ready(w) ==
    \/ pc[w] = "running"
    \/ pc[w] = "read_wait" /\ MayRead(w)
    \/ pc[w] = "write_wait" /\ MayWrite(w)
    \/ pc[w] \in {"locked", "finish", "check", "commit"} /\ HasMutex(w)

\* A worker goes on whenever it can, and remote operations end: WF_vars(Step(w)).
\* The maintenance task ticks for ever.
Fairness ==
    \A w \in Workers :
        /\ ([]<>(~Ready(w))) \/ ([]<><<Step(w)>>_vars)
        /\ "reap" \in Duties[w] => WF_vars(RequestGuarded(w, "reap", None))

Spec == Init /\ [][Next]_vars

FairSpec == Spec /\ Fairness

-----------------------------------------------------------------------------
(* What the gateway promises                                                 *)

\* The index and the sessions are inverse to each other: a session that is
\* open is found and reused, and a key never leads to a session that is gone
\* or is another namespace's.
IndexMatches ==
    /\ \A id \in Present(pool) :
          pool.index[<<pool.sessions[id].ns, pool.sessions[id].profile>>] = id
    /\ \A key \in Namespaces \X Profiles :
          pool.index[key] # None => pool.index[key] \in Present(pool)

\* active_operations counts the commands in flight on the session, and those
\* whose request was dropped: finish_exec is never applied to a session that
\* took the place of the command's own.
ActiveCounts ==
    \A id \in Present(pool) :
        pool.sessions[id].active =
            Cardinality({w \in Workers : job[w].session = id})
                + pool.sessions[id].leaked

\* Namespaces share no connection: sessions and commands over one transport
\* belong to one namespace, also when sessions are delegated or replaced.
NamespacesApart ==
    LET uses == {<<pool.sessions[id].transport, pool.sessions[id].ns>> :
                    id \in Present(pool)}
                \cup {<<job[w].transport, NamespaceOf[w]>> :
                         w \in {v \in Workers : job[v].transport # None}}
    IN  \A u, v \in uses : u[1] = v[1] => u[2] = v[2]

\* A session opened under the config guard stands for what the file says of its
\* profile: profiles are not deleted, nor replaced by a later creation, while
\* such a session exists or is being opened.
SessionsCurrent ==
    \A id \in Present(pool) :
        LET s == pool.sessions[id]
        IN  s.guarded => file[s.profile] = s.definition

\* The configuration file stays one that loads: mutations that were checked
\* against an older file do not together leave a profile without its upstream,
\* or no profile at all.
ConfigLoads == validate(file)

\* The maintenance task takes no session from under a command in flight, nor
\* one with an open tunnel.
ReapSparesUsers ==
    [][\A w \in Workers :
          (Serving(w, "reap") /\ pc'[w] = "idle") =>
              \A id \in Present(pool) \ Present(pool') :
                  /\ \A v \in Workers : job[v].session # id
                  /\ TunnelsOf(pool, id) = {}]_vars

\* Every request is answered: the two locks cannot deadlock and starve nobody,
\* provided that remote operations end; a request that is dropped takes its
\* guards and its places in the queues with it and holds nobody up.
EveryRequestAnswered == \A w \in Workers : pc[w] # "idle" ~> pc[w] = "idle"

\* As long as the maintenance task again and again finds a configuration that
\* loads, a session that stays idle, with no tunnel and nothing counted on it,
\* is closed: tunnels left behind by other sessions do not keep it. (A command
\* whose request was dropped stays counted, and keeps its session.)
IdleSessionsReaped ==
    []<>(\E w \in Workers : pc[w] = "locked" /\ job[w].kind = "reap") =>
        \A id \in SessionIds :
            (id \in Present(pool) /\ Reapable(pool, id)) ~>
                ~(id \in Present(pool) /\ Reapable(pool, id))

=============================================================================
