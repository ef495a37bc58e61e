---------------------------- MODULE SessionManager ----------------------------
(***************************************************************************)
(* The SessionManager of session.rs: the sessions of a process, the index  *)
(* from namespace and profile to session, and the tunnels, as operators    *)
(* from one state of the manager (a "pool") to the next. Every public      *)
(* method runs under the manager's mutex, so each is one step.             *)
(*                                                                         *)
(* A profile connects directly or is delegated: it has no transport of its *)
(* own and issues its commands over the transport of the profile in        *)
(* via_profile. This is the self-hosted mode; Cloud mode refuses tunnels   *)
(* and delegated profiles before it gets here.                             *)
(***************************************************************************)
EXTENDS Naturals, Sequences, FiniteSets, SequencesExt

CONSTANTS
    None,
    Namespaces,
    Profiles,      \* profile names
    Via,           \* via_profile of each profile, or None
    Definitions,   \* what a profile's entry in the configuration may say
    MaxSessions,   \* bound on the sessions and transports alive at once
    TunnelIds      \* bounds the tunnels open at once

Maybe(S) == S \cup {None}

\* Session ids are uuids. What matters of them is that a new one is held by
\* nobody, so any unused number will do. A transport has the id of the
\* session that connected it.
SessionIds == 1..MaxSessions

SessionInfo ==
    [ns         : Namespaces,
     profile    : Profiles,
     definition : Definitions,    \* the entry the session was opened from
     transport  : SessionIds,
     owns       : BOOLEAN,        \* owns_transport
     active     : Nat,            \* active_operations
     idle       : BOOLEAN,        \* last_used.elapsed() > idle_timeout
     guarded    : BOOLEAN,        \* history: opened under the config guard
     leaked     : Nat]            \* history: commands dropped without finish_exec

TunnelInfo == [session : SessionIds, transport : SessionIds]

\* The profiles a session of p stands on, p first: along via_profile to one that
\* connects directly, with no profile met twice.
IsRoute(s, p) ==
    /\ s[1] = p
    /\ \A k \in 1..Len(s) : Via[s[k]] = IF k = Len(s) THEN None ELSE s[k + 1]
    /\ IsInjective(s)

Routes == UNION {[1..n -> Profiles] : n \in 1..Cardinality(Profiles)}

Route == [p \in Profiles |-> CHOOSE s \in Routes : IsRoute(s, p)]

\* AppConfig::validate resolves every profile, and resolve_profile_with refuses
\* cycles.
ASSUME SessionAssumption ==
    /\ Via \in [Profiles -> Maybe(Profiles)]
    /\ \A p \in Profiles : \E s \in Routes : IsRoute(s, p)
    /\ None \notin Profiles \cup Namespaces \cup Definitions \cup TunnelIds
    /\ None \notin SessionIds \cup SessionInfo \cup TunnelInfo
    /\ MaxSessions \in Nat

Pools ==
    [sessions : [SessionIds -> Maybe(SessionInfo)],
     index    : [Namespaces \X Profiles -> Maybe(SessionIds)],
     tunnels  : [TunnelIds -> Maybe(TunnelInfo)],
     wires    : SUBSET SessionIds]          \* the transports that are up

EmptyPool ==
    [sessions |-> [id \in SessionIds |-> None],
     index    |-> [key \in Namespaces \X Profiles |-> None],
     tunnels  |-> [t \in TunnelIds |-> None],
     wires    |-> {}]

Present(pool) == {id \in SessionIds : pool.sessions[id] # None}

TunnelsOf(pool, id) ==
    {t \in TunnelIds : pool.tunnels[t] # None /\ pool.tunnels[t].session = id}

(* The last reference to a transport that goes closes the connection: those  *)
(* of the sessions, of the tunnels' tasks and of the commands in flight.     *)
InUse(pool, held) ==
    held \cup {pool.sessions[id].transport : id \in Present(pool)}
         \cup {pool.tunnels[t].transport : t \in {u \in TunnelIds : pool.tunnels[u] # None}}

DropUnused(pool, held) == [pool EXCEPT !.wires = @ \cap InUse(pool, held)]

-----------------------------------------------------------------------------
(* Sessions                                                                  *)

Owns(pool, ns, id) == id \in Present(pool) /\ pool.sessions[id].ns = ns

has_any_profile_session(pool, p) ==
    \E id \in Present(pool) :
        LET s == pool.sessions[id] IN s.profile = p \/ Via[s.profile] = p

(* A tunnel is visible in the namespace of its session. *)
TunnelVisible(pool, ns, t) ==
    pool.tunnels[t] # None /\ Owns(pool, ns, pool.tunnels[t].session)

tunnel_close(pool, ns, t) ==
    IF TunnelVisible(pool, ns, t)
    THEN [pool EXCEPT !.tunnels[t] = None,
                      !.sessions[pool.tunnels[t].session].idle = FALSE]
    ELSE pool

Touch(pool, id) == [pool EXCEPT !.sessions[id].idle = FALSE]

(* close_session for each of ids. The session goes first; tunnel_close then  *)
(* finds no session for its tunnels and refuses, and the refusal is ignored. *)
CloseSessions(pool, ids) ==
    LET keys == {<<pool.sessions[id].ns, pool.sessions[id].profile>> : id \in ids}
        gone == [pool EXCEPT
                   !.sessions = [id \in SessionIds |-> IF id \in ids THEN None ELSE @[id]],
                   !.index = [key \in Namespaces \X Profiles |->
                                IF key \in keys THEN None ELSE @[key]]]
        owned == {pool.sessions[id].transport :
                     id \in {i \in ids : pool.sessions[i].owns}}
    IN  [gone EXCEPT
           !.tunnels = [t \in TunnelIds |->
               IF \E id \in ids : t \in TunnelsOf(pool, id)
               THEN tunnel_close(gone, pool.sessions[pool.tunnels[t].session].ns, t).tunnels[t]
               ELSE @[t]],
           !.wires = @ \ owned]

\* Mutated form: commands in flight do not count.
ReapableWhileActive(pool, id) ==
    TunnelsOf(pool, id) = {} /\ pool.sessions[id].idle

(* The tests of reap_idle_sessions_matching. *)
Reapable(pool, id) ==
    /\ pool.sessions[id].active = 0
    /\ TunnelsOf(pool, id) = {}
    /\ pool.sessions[id].idle

\* Mutated form: any open tunnel keeps every session.
ReapWithoutTunnels(pool, namespaces) ==
    CloseSessions(pool, {id \in Present(pool) :
                            /\ pool.sessions[id].ns \in namespaces /\ Reapable(pool, id)
                            /\ \A t \in TunnelIds : pool.tunnels[t] = None})

reap_idle_sessions(pool, namespaces) ==
    CloseSessions(pool, {id \in Present(pool) :
                            pool.sessions[id].ns \in namespaces /\ Reapable(pool, id)})

-----------------------------------------------------------------------------
(* Opening and reusing sessions                                              *)

\* The ids nobody holds, in some order.
NewIds(pool, held) == SetToSeq(SessionIds \ (Present(pool) \cup InUse(pool, held)))

\* Mutated form: the index keeps the sessions that went.
ForgetSessionsOnly(pool, ns, route, n) ==
    LET dead == {pool.index[<<ns, route[k]>>] : k \in 1..n}
    IN  [pool EXCEPT
           !.sessions = [id \in SessionIds |-> IF id \in dead THEN None ELSE @[id]]]

(* The first n sessions of the route were missing or did not answer: they    *)
(* leave the maps. Nothing is closed, and their tunnels stay.                *)
Forget(pool, ns, route, n) ==
    LET keys == {<<ns, route[k]>> : k \in 1..n}
        dead == {pool.index[key] : key \in keys}
    IN  [pool EXCEPT
           !.sessions = [id \in SessionIds |-> IF id \in dead THEN None ELSE @[id]],
           !.index = [key \in Namespaces \X Profiles |-> IF key \in keys THEN None ELSE @[key]]]

(* New sessions for the first n profiles of the route, all over transport;   *)
(* the one whose id the transport has owns it.                               *)
Insert(pool, ns, route, n, ids, transport, config, guarded) ==
    [pool EXCEPT
       !.sessions = [id \in SessionIds |->
           IF \E k \in 1..n : ids[k] = id
           THEN LET k == CHOOSE i \in 1..n : ids[i] = id
                IN  [ns |-> ns, profile |-> route[k], definition |-> config[route[k]],
                     transport |-> transport, owns |-> (id = transport),
                     active |-> 0, idle |-> FALSE, guarded |-> guarded,
                     leaked |-> 0]
           ELSE @[id]],
       !.index = [key \in Namespaces \X Profiles |->
           IF \E k \in 1..n : key = <<ns, route[k]>>
           THEN ids[CHOOSE k \in 1..n : key = <<ns, route[k]>>]
           ELSE @[key]]]

(* ensure_session: the outcomes, each a pool and the session's id (None for  *)
(* an error). It walks the route until a session answers the health check    *)
(* and reuses that one's transport, or connects at the end of the route. The *)
(* health check may also fail on a transport that is up: the ping times out. *)
(* On the way a profile may fail to resolve (its credentials are gone), and  *)
(* so may the connection.                                                    *)
ensure_session(pool, ns, p, config, guarded, held) ==
    LET route == Route[p]
        all   == Len(route)
        hit(k) == pool.index[<<ns, route[k]>>]
        alive == {k \in 1..all : /\ hit(k) \in Present(pool)
                                 /\ pool.sessions[hit(k)].transport \in pool.wires}
        reuse(k) ==
            LET base == Touch(Forget(pool, ns, route, k - 1), hit(k))
                ids  == NewIds(base, held)
            IN  [pool |-> Insert(base, ns, route, k - 1, ids,
                                 pool.sessions[hit(k)].transport, config, guarded),
                 id   |-> IF k = 1 THEN hit(1) ELSE ids[1]]
        base  == Forget(pool, ns, route, all)
        fresh == NewIds(base, held)
        connect ==
            [pool |-> [Insert(base, ns, route, all, fresh, fresh[all], config, guarded)
                         EXCEPT !.wires = @ \cup {fresh[all]}],
             id   |-> fresh[1]]
    IN  {reuse(k) : k \in {i \in alive : Len(NewIds(Forget(pool, ns, route, i - 1), held)) >= i - 1}}
        \cup (IF Len(fresh) >= all THEN {connect} ELSE {})
        \cup {[pool |-> Forget(pool, ns, route, n), id |-> None] : n \in 0..all}

(* prepare_exec, after ensure_agent succeeded. *)
prepare_exec(pool, id) == [pool EXCEPT !.sessions[id].active = @ + 1]

\* Mutated form: the operation stays counted.
FinishUncounted(pool, id) == IF id \in Present(pool) THEN Touch(pool, id) ELSE pool

(* finish_exec: the session may have been closed meanwhile. *)
finish_exec(pool, id) ==
    IF id \in Present(pool)
    THEN [pool EXCEPT !.sessions[id].active = IF @ = 0 THEN 0 ELSE @ - 1,
                      !.sessions[id].idle = FALSE]
    ELSE pool

(* tunnel_open, after the local port was bound. *)
tunnel_open(pool, id, t) ==
    [pool EXCEPT !.tunnels[t] = [session |-> id, transport |-> pool.sessions[id].transport],
                 !.sessions[id].idle = FALSE]

=============================================================================
