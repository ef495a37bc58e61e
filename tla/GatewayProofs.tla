---------------------------- MODULE GatewayProofs ----------------------------
(***************************************************************************)
(* The gateway's sessions, locks and configuration file, for any number of *)
(* workers, namespaces, profiles, sessions and tunnels.                    *)
(*                                                                         *)
(* The inductive invariant IInv has two halves. LocalInv says where each   *)
(* worker stands: which locks go with its label, what its job has been     *)
(* checked for, and that a command in flight knows its session and its     *)
(* transport. Kept says of the manager's pool, the commands in flight and  *)
(* the file that the index fits the sessions, each session counts its      *)
(* commands, a transport serves one namespace, and a session opened under  *)
(* the config guard stands for the file. What is kept does not depend on   *)
(* the workers but through their commands, so that                         *)
(*   - a manager operation is shown, as an operator on pools, to yield     *)
(*     sessions that were there, or new ones over one transport, which is  *)
(*     new or the namespace's own (PoolStep), and this keeps what is kept; *)
(*   - a worker's step is shown to move that worker only (Moves).          *)
(* A new session takes an id that no command in flight holds: this is what *)
(* keeps a late finish_exec, or the commands of another namespace, from it.*)
(* The file is written by a worker that excludes every reader.             *)
(***************************************************************************)
EXTENDS Gateway, FiniteSetTheorems, WellFoundedInduction, TLAPS

-----------------------------------------------------------------------------
(* Pools                                                                     *)

Key(s) == <<s.ns, s.profile>>

\* The index and the sessions are inverse to each other.
Matches(p) ==
    /\ \A id \in Present(p) : p.index[Key(p.sessions[id])] = id
    /\ \A key \in Namespaces \X Profiles :
          p.index[key] # None => /\ p.index[key] \in Present(p)
                                 /\ Key(p.sessions[p.index[key]]) = key

GoodPool(p) == p \in Pools /\ Matches(p)

\* All that a session keeps while it is there, but for the count of its commands.
SameSession(s, t) ==
    /\ s.ns = t.ns /\ s.profile = t.profile /\ s.definition = t.definition
    /\ s.transport = t.transport /\ s.guarded = t.guarded

SameCount(s, t) == s.active = t.active /\ s.leaked = t.leaked

\* The sessions of q are sessions of p.
Within(q, p) ==
    \A id \in Present(q) : /\ id \in Present(p)
                           /\ SameSession(q.sessions[id], p.sessions[id])
                           /\ SameCount(q.sessions[id], p.sessions[id])

\* The parts of a pool have their types.
LEMMA PoolParts ==
    ASSUME NEW p \in Pools
    PROVE  /\ p.sessions \in [SessionIds -> Maybe(SessionInfo)]
           /\ p.index \in [Namespaces \X Profiles -> Maybe(SessionIds)]
           /\ p.tunnels \in [TunnelIds -> Maybe(TunnelInfo)]
           /\ p.wires \subseteq SessionIds
           /\ Present(p) \subseteq SessionIds
           /\ \A id \in Present(p) : /\ p.sessions[id] \in SessionInfo
                                     /\ Key(p.sessions[id]) \in Namespaces \X Profiles
BY DEF Pools, Present, Maybe, SessionInfo, Key

\* q is p with new maps.
NewMaps(q, p, sessions, index) ==
    /\ p \in Pools
    /\ sessions \in [SessionIds -> Maybe(SessionInfo)]
    /\ index \in [Namespaces \X Profiles -> Maybe(SessionIds)]
    /\ q = [p EXCEPT !.sessions = sessions, !.index = index]

\* New maps of the right types make a pool.
LEMMA NewParts ==
    ASSUME NEW q, NEW p, NEW sessions, NEW index, NewMaps(q, p, sessions, index)
    PROVE  /\ q \in Pools /\ q.sessions = sessions /\ q.index = index
           /\ q.tunnels = p.tunnels /\ q.wires = p.wires
<1> DEFINE SI == [SessionIds -> Maybe(SessionInfo)]
           II == [Namespaces \X Profiles -> Maybe(SessionIds)]
           TI == [TunnelIds -> Maybe(TunnelInfo)]
<1>1. Pools = [sessions : SI, index : II, tunnels : TI, wires : SUBSET SessionIds]
    BY DEF Pools
<1>2. /\ p \in Pools /\ sessions \in SI /\ index \in II
      /\ q = [p EXCEPT !.sessions = sessions, !.index = index]
    BY DEF NewMaps
<1> HIDE DEF SI, II, TI
<1> QED BY <1>1, <1>2

\* A pool with the same sessions, up to their idleness, and the same index.
LEMMA SameGood ==
    ASSUME NEW p, GoodPool(p), NEW q \in Pools, q.index = p.index,
           Present(q) = Present(p),
           \A id \in Present(p) : SameSession(q.sessions[id], p.sessions[id])
    PROVE  GoodPool(q)
<1>1. \A id \in Present(p) : Key(q.sessions[id]) = Key(p.sessions[id])
    BY DEF SameSession, Key
<1>2. Matches(p) BY DEF GoodPool
<1>3. Matches(q) BY <1>1, <1>2 DEF Matches
<1> QED BY <1>3 DEF GoodPool

\* Transports that come or go leave the sessions as they are.
Rewired(q, p, wires) ==
    GoodPool(p) /\ wires \subseteq SessionIds /\ q = [p EXCEPT !.wires = wires]

\* The sessions do not depend on which transports are up.
LEMMA WiresGood ==
    ASSUME NEW q, NEW p, NEW wires, Rewired(q, p, wires)
    PROVE  /\ GoodPool(q)
           /\ q.sessions = p.sessions /\ q.index = p.index /\ q.tunnels = p.tunnels
           /\ q.wires = wires
           /\ Present(q) = Present(p)
<1>1. /\ q \in Pools /\ q.sessions = p.sessions /\ q.index = p.index
      /\ q.tunnels = p.tunnels /\ q.wires = wires
    BY DEF Rewired, GoodPool, Pools
<1>2. Present(q) = Present(p) BY <1>1 DEF Present
<1> QED BY <1>1, <1>2, SameGood DEF Rewired, SameSession

\* Dropping the transports nobody refers to leaves the sessions as they are.
LEMMA DropGood ==
    ASSUME NEW p, GoodPool(p), NEW held
    PROVE  /\ GoodPool(DropUnused(p, held))
           /\ DropUnused(p, held).sessions = p.sessions
           /\ DropUnused(p, held).index = p.index
           /\ DropUnused(p, held).tunnels = p.tunnels
           /\ Present(DropUnused(p, held)) = Present(p)
<1>1. p.wires \cap InUse(p, held) \in SUBSET SessionIds
    BY PoolParts DEF GoodPool
<1>2. DropUnused(p, held) = [p EXCEPT !.wires = p.wires \cap InUse(p, held)]
    BY DEF DropUnused
<1> QED BY <1>1, <1>2, WiresGood DEF Rewired

\* A session that is changed in what it keeps track of stays the same session.
Changed(q, p, id, s) ==
    /\ GoodPool(p) /\ id \in Present(p)
    /\ s \in SessionInfo /\ SameSession(s, p.sessions[id])
    /\ q = [p EXCEPT !.sessions[id] = s]

\* No other session and no index entry changes with it.
LEMMA ChangeGood ==
    ASSUME NEW q, NEW p, NEW id, NEW s, Changed(q, p, id, s)
    PROVE  /\ GoodPool(q) /\ Present(q) = Present(p)
           /\ q.sessions[id] = s
           /\ \A i \in Present(p) \ {id} : q.sessions[i] = p.sessions[i]
           /\ q.index = p.index /\ q.tunnels = p.tunnels /\ q.wires = p.wires
<1> USE DEF Changed
<1>a. /\ p \in Pools /\ Matches(p) /\ None \notin SessionInfo
      /\ id \in SessionIds /\ p.sessions \in [SessionIds -> Maybe(SessionInfo)]
    BY PoolParts, SessionAssumption DEF GoodPool
<1>1. /\ q \in Pools /\ q.sessions = [p.sessions EXCEPT ![id] = s] /\ q.index = p.index
      /\ q.tunnels = p.tunnels /\ q.wires = p.wires
    <2>1. [p.sessions EXCEPT ![id] = s] \in [SessionIds -> Maybe(SessionInfo)]
        BY <1>a DEF Maybe
    <2> QED BY <1>a, <2>1 DEF Pools
<1>2. q.sessions[id] = s /\ \A i \in SessionIds \ {id} : q.sessions[i] = p.sessions[i]
    BY <1>a, <1>1
<1>3. Present(q) = Present(p) BY <1>a, <1>2 DEF Present
<1>4. \A i \in Present(p) : SameSession(q.sessions[i], p.sessions[i])
    BY <1>2, <1>a, PoolParts DEF SameSession
<1>5. GoodPool(q) BY <1>1, <1>3, <1>4, SameGood
<1> QED BY <1>a, <1>1, <1>2, <1>3, <1>5, PoolParts

\* Sessions go together with their entries in the index.
Fewer(q, p, ids, keys) ==
    /\ GoodPool(p) /\ q \in Pools
    /\ \A id \in Present(p) : id \in ids <=> Key(p.sessions[id]) \in keys
    /\ q.sessions = [id \in SessionIds |-> IF id \in ids THEN None ELSE p.sessions[id]]
    /\ q.index = [key \in Namespaces \X Profiles |->
                    IF key \in keys THEN None ELSE p.index[key]]

\* Sessions that leave with their keys leave the index in order.
LEMMA FewerGood ==
    ASSUME NEW q, NEW p, NEW ids, NEW keys, Fewer(q, p, ids, keys)
    PROVE  GoodPool(q) /\ Within(q, p) /\ Present(q) = Present(p) \ ids
<1> USE DEF Fewer
<1>a. p \in Pools /\ Matches(p) BY DEF GoodPool
<1>1. Present(q) = Present(p) \ ids BY DEF Present
<1>2. \A id \in Present(q) : q.sessions[id] = p.sessions[id] /\ id \in Present(p)
    BY <1>1 DEF Present
<1>3. ASSUME NEW id \in Present(q)
      PROVE  q.index[Key(q.sessions[id])] = id
    <2>1. Key(p.sessions[id]) \in (Namespaces \X Profiles) \ keys
        BY <1>a, <1>1, <1>2, PoolParts
    <2> QED BY <1>a, <1>2, <2>1 DEF Matches
<1>4. ASSUME NEW key \in Namespaces \X Profiles, q.index[key] # None
      PROVE  q.index[key] \in Present(q) /\ Key(q.sessions[q.index[key]]) = key
    <2>1. key \notin keys /\ q.index[key] = p.index[key]
        BY <1>4
    <2>2. p.index[key] \in Present(p) /\ Key(p.sessions[p.index[key]]) = key
        BY <1>a, <1>4, <2>1 DEF Matches
    <2> QED BY <1>1, <1>2, <2>1, <2>2
<1>5. Matches(q) BY <1>3, <1>4 DEF Matches
<1> QED BY <1>1, <1>2, <1>5 DEF GoodPool, Within, SameSession, SameCount

\* A tunnel that is closed leaves no more tunnels.
LEMMA TunnelCloses ==
    ASSUME NEW p \in Pools, NEW ns, NEW t \in TunnelIds
    PROVE  tunnel_close(p, ns, t).tunnels[t] \in {p.tunnels[t], None}
<1>1. CASE ~TunnelVisible(p, ns, t) BY <1>1 DEF tunnel_close
<1>2. CASE TunnelVisible(p, ns, t)
    <2>1. tunnel_close(p, ns, t) = [p EXCEPT !.tunnels[t] = None,
                                             !.sessions[p.tunnels[t].session].idle = FALSE]
        BY <1>2 DEF tunnel_close
    <2>2. tunnel_close(p, ns, t).tunnels = [p.tunnels EXCEPT ![t] = None]
        BY <2>1 DEF Pools
    <2> QED BY <2>2, PoolParts
<1> QED BY <1>1, <1>2

\* Closing sessions takes them and their entries in the index, nothing else.
LEMMA CloseGood ==
    ASSUME NEW p, GoodPool(p), NEW ids \in SUBSET Present(p)
    PROVE  /\ GoodPool(CloseSessions(p, ids))
           /\ Within(CloseSessions(p, ids), p)
           /\ Present(CloseSessions(p, ids)) = Present(p) \ ids
<1> DEFINE keys == {<<p.sessions[id].ns, p.sessions[id].profile>> : id \in ids}
           sessions == [id \in SessionIds |-> IF id \in ids THEN None ELSE p.sessions[id]]
           index == [key \in Namespaces \X Profiles |->
                       IF key \in keys THEN None ELSE p.index[key]]
           gone == [p EXCEPT !.sessions = sessions, !.index = index]
           owned == {p.sessions[id].transport : id \in {i \in ids : p.sessions[i].owns}}
           tunnels == [t \in TunnelIds |->
                         IF \E id \in ids : t \in TunnelsOf(p, id)
                         THEN tunnel_close(gone, p.sessions[p.tunnels[t].session].ns, t)
                                .tunnels[t]
                         ELSE p.tunnels[t]]
           q == CloseSessions(p, ids)
<1>a. p \in Pools /\ Matches(p) /\ ids \subseteq SessionIds
    BY PoolParts DEF GoodPool
<1>1. sessions \in [SessionIds -> Maybe(SessionInfo)]
    BY <1>a, PoolParts DEF Maybe
<1>2. index \in [Namespaces \X Profiles -> Maybe(SessionIds)]
    BY <1>a, PoolParts DEF Maybe
<1>3. /\ gone \in Pools /\ gone.sessions = sessions /\ gone.index = index
      /\ gone.tunnels = p.tunnels /\ gone.wires = p.wires
    <2>1. NewMaps(gone, p, sessions, index)
        <3> HIDE DEF sessions, index
        <3> QED BY <1>a, <1>1, <1>2 DEF NewMaps
    <2> HIDE DEF gone, sessions, index
    <2> QED BY <2>1, NewParts
<1>4. q = [gone EXCEPT !.tunnels = tunnels, !.wires = p.wires \ owned]
    BY <1>3, Zenon DEF CloseSessions
<1>5. tunnels \in [TunnelIds -> Maybe(TunnelInfo)]
    <2>1. \A t \in TunnelIds : \A ns :
             tunnel_close(gone, ns, t).tunnels[t] \in {p.tunnels[t], None}
        <3> HIDE DEF gone
        <3> QED BY <1>3, TunnelCloses
    <2> HIDE DEF gone
    <2> QED BY <1>a, <2>1, PoolParts DEF Maybe
<1>6. q \in Pools /\ q.sessions = sessions /\ q.index = index
    <2>1. p.wires \ owned \in SUBSET SessionIds
        BY <1>a, PoolParts
    <2> HIDE DEF sessions, index, gone, owned, tunnels, q
    <2> QED BY <1>3, <1>4, <1>5, <2>1 DEF Pools
<1>7. ASSUME NEW id \in Present(p)
      PROVE  id \in ids <=> Key(p.sessions[id]) \in keys
    <2>1. id \in ids => Key(p.sessions[id]) \in keys
        BY DEF Key
    <2>2. ASSUME NEW i \in ids, Key(p.sessions[id]) = Key(p.sessions[i])
          PROVE  id = i
        BY <1>a, <2>2 DEF Matches
    <2> QED BY <2>1, <2>2 DEF Key
<1>8. GoodPool(q) /\ Within(q, p) /\ Present(q) = Present(p) \ ids
    <2> HIDE DEF q, keys
    <2>1. Fewer(q, p, ids, keys)
        BY <1>6, <1>7 DEF Fewer
    <2> QED BY <2>1, FewerGood
<1> QED BY <1>8 DEF q

-----------------------------------------------------------------------------
(* Opening sessions                                                          *)

IsWay(route) ==
    /\ route \in Seq(Profiles) /\ Len(route) >= 1
    /\ \A i, j \in 1..Len(route) : route[i] = route[j] => i = j

\* The sessions that did not answer leave their places in the index.
LEMMA ForgetGood ==
    ASSUME NEW p, GoodPool(p), NEW ns \in Namespaces, NEW route, IsWay(route),
           NEW n \in 0..Len(route)
    PROVE  /\ GoodPool(Forget(p, ns, route, n)) /\ Within(Forget(p, ns, route, n), p)
           /\ \A k \in 1..n : Forget(p, ns, route, n).index[<<ns, route[k]>>] = None
           /\ \A k \in n+1..Len(route) :
                 Forget(p, ns, route, n).index[<<ns, route[k]>>] = p.index[<<ns, route[k]>>]
<1> DEFINE keys == {<<ns, route[k]>> : k \in 1..n}
           dead == {p.index[key] : key \in keys}
           sessions == [id \in SessionIds |-> IF id \in dead THEN None ELSE p.sessions[id]]
           index == [key \in Namespaces \X Profiles |->
                       IF key \in keys THEN None ELSE p.index[key]]
           q == Forget(p, ns, route, n)
<1>a. p \in Pools /\ Matches(p) BY DEF GoodPool
<1>b. /\ \A k \in 1..Len(route) : <<ns, route[k]>> \in Namespaces \X Profiles
      /\ keys \subseteq Namespaces \X Profiles
    BY DEF IsWay
<1>1. q \in Pools /\ q.sessions = sessions /\ q.index = index
    <2>1. sessions \in [SessionIds -> Maybe(SessionInfo)]
        BY <1>a, PoolParts DEF Maybe
    <2>2. index \in [Namespaces \X Profiles -> Maybe(SessionIds)]
        BY <1>a, PoolParts DEF Maybe
    <2>3. q = [p EXCEPT !.sessions = sessions, !.index = index]
        BY DEF Forget
    <2> HIDE DEF q, sessions, index
    <2>4. NewMaps(q, p, sessions, index)
        BY <1>a, <2>1, <2>2, <2>3 DEF NewMaps
    <2> QED BY <2>4, NewParts
<1>2. ASSUME NEW id \in Present(p)
      PROVE  id \in dead <=> Key(p.sessions[id]) \in keys
    <2>1. /\ id \in SessionIds /\ None \notin SessionIds
          /\ p.index[Key(p.sessions[id])] = id
        BY <1>a, PoolParts, SessionAssumption DEF Matches
    <2>2. ASSUME NEW key \in keys, id = p.index[key]
          PROVE  key = Key(p.sessions[id])
        <3>1. key \in Namespaces \X Profiles BY <1>b
        <3> QED BY <1>a, <2>1, <2>2, <3>1 DEF Matches
    <2> HIDE DEF keys
    <2> QED BY <2>1, <2>2
<1>3. GoodPool(q) /\ Within(q, p)
    <2> HIDE DEF q, keys, dead
    <2>1. Fewer(q, p, dead, keys)
        BY <1>1, <1>2 DEF Fewer
    <2> QED BY <2>1, FewerGood
<1>4. ASSUME NEW k \in 1..n
      PROVE  q.index[<<ns, route[k]>>] = None
    <2>1. <<ns, route[k]>> \in keys /\ <<ns, route[k]>> \in Namespaces \X Profiles
        BY <1>b
    <2> HIDE DEF q, keys, dead
    <2> QED BY <1>1, <2>1
<1>5. ASSUME NEW k \in n+1..Len(route)
      PROVE  q.index[<<ns, route[k]>>] = p.index[<<ns, route[k]>>]
    <2>1. <<ns, route[k]>> \notin keys /\ <<ns, route[k]>> \in Namespaces \X Profiles
        BY <1>b DEF IsWay
    <2> HIDE DEF q, keys, dead
    <2> QED BY <1>1, <2>1
<1> QED BY <1>3, <1>4, <1>5

\* New ids are held by nobody, and differ from each other.
AreNew(ids, p, held) ==
    /\ Len(ids) \in Nat
    /\ \A k \in 1..Len(ids) : ids[k] \in SessionIds \ (Present(p) \cup InUse(p, held))
    /\ \A i, j \in 1..Len(ids) : ids[i] = ids[j] => i = j

\* The ids that NewIds finds are new.
LEMMA NewIdsAreNew ==
    ASSUME NEW p, NEW held
    PROVE  AreNew(NewIds(p, held), p, held)
<1> DEFINE S == SessionIds \ (Present(p) \cup InUse(p, held))
           n == Cardinality(S)
<1>1. IsFiniteSet(S)
    <2>1. IsFiniteSet(SessionIds)
        BY FS_Interval, SessionAssumption DEF SessionIds
    <2> HIDE DEF S
    <2>2. S \in SUBSET SessionIds BY DEF S
    <2> QED BY <2>1, <2>2, FS_Subset
<1> HIDE DEF S
<1>2. n \in Nat /\ ExistsBijection(1..n, S)
    BY <1>1, FS_CardinalityType
<1>3. \E f \in [1..n -> S] : IsInjective(f)
    BY <1>2 DEF ExistsBijection, Bijection, Injection, IsInjective
<1>4. NewIds(p, held) \in [1..n -> S] /\ IsInjective(NewIds(p, held))
    BY <1>3 DEF NewIds, SetToSeq, S
<1>5. Len(NewIds(p, held)) = n
    BY <1>2, <1>4
<1> QED BY <1>2, <1>4, <1>5 DEF AreNew, IsInjective, S

\* What Insert is given.
CanInsert(p, ns, route, n, ids, transport, config, guarded) ==
    /\ GoodPool(p) /\ ns \in Namespaces /\ IsWay(route) /\ n \in 0..Len(route)
    /\ transport \in SessionIds /\ guarded \in BOOLEAN
    /\ \A k \in 1..n : /\ p.index[<<ns, route[k]>>] = None
                       /\ config[route[k]] \in Definitions
                       /\ ids[k] \in SessionIds \ Present(p)
    /\ \A i, j \in 1..n : ids[i] = ids[j] => i = j

\* A session just opened.
Opened(s, ns, transport, config, guarded) ==
    /\ s.ns = ns /\ s.transport = transport /\ s.guarded = guarded
    /\ s.definition = config[s.profile]
    /\ s.active = 0 /\ s.leaked = 0

Inserted(q, p, ns, route, n, ids, transport, config, guarded) ==
    /\ CanInsert(p, ns, route, n, ids, transport, config, guarded)
    /\ q = Insert(p, ns, route, n, ids, transport, config, guarded)

\* Inserting sessions under free keys keeps the index in order, and no other session
\* changes.
LEMMA InsertGood ==
    ASSUME NEW q, NEW p, NEW ns, NEW route, NEW n, NEW ids, NEW transport, NEW config,
           NEW guarded, Inserted(q, p, ns, route, n, ids, transport, config, guarded)
    PROVE  /\ GoodPool(q)
           /\ Present(q) = Present(p) \cup {ids[k] : k \in 1..n}
           /\ \A id \in Present(p) : q.sessions[id] = p.sessions[id]
           /\ \A k \in 1..n : Opened(q.sessions[ids[k]], ns, transport, config, guarded)
<1> USE DEF CanInsert, Inserted
<1>a. p \in Pools /\ Matches(p) BY DEF GoodPool
<1> DEFINE info(id, k) ==
               [ns |-> ns, profile |-> route[k], definition |-> config[route[k]],
                transport |-> transport, owns |-> (id = transport),
                active |-> 0, idle |-> FALSE, guarded |-> guarded, leaked |-> 0]
           sessions == [id \in SessionIds |->
               IF \E k \in 1..n : ids[k] = id
               THEN info(id, CHOOSE i \in 1..n : ids[i] = id)
               ELSE p.sessions[id]]
           index == [key \in Namespaces \X Profiles |->
               IF \E k \in 1..n : key = <<ns, route[k]>>
               THEN ids[CHOOSE k \in 1..n : key = <<ns, route[k]>>]
               ELSE p.index[key]]
<1>b. \A k \in 1..n : route[k] \in Profiles /\ <<ns, route[k]>> \in Namespaces \X Profiles
    BY DEF IsWay
<1>c. None \notin SessionIds /\ None \notin SessionInfo
    BY SessionAssumption
<1>1. ASSUME NEW k \in 1..n
      PROVE  /\ info(ids[k], k) \in SessionInfo /\ sessions[ids[k]] = info(ids[k], k)
             /\ index[<<ns, route[k]>>] = ids[k]
    <2>1. info(ids[k], k) \in SessionInfo
        BY <1>b DEF SessionInfo
    <2>2. (CHOOSE i \in 1..n : ids[i] = ids[k]) = k
        OBVIOUS
    <2>3. (CHOOSE i \in 1..n : <<ns, route[k]>> = <<ns, route[i]>>) = k
        BY DEF IsWay
    <2>4. sessions[ids[k]] = info(ids[k], CHOOSE i \in 1..n : ids[i] = ids[k])
        <3> HIDE DEF info
        <3> QED OBVIOUS
    <2>5. index[<<ns, route[k]>>] = ids[CHOOSE i \in 1..n : <<ns, route[k]>> = <<ns, route[i]>>]
        BY <1>b
    <2> HIDE DEF info, sessions, index
    <2> QED BY <2>1, <2>2, <2>3, <2>4, <2>5
<1>2. \A id \in SessionIds : (\A k \in 1..n : ids[k] # id) => sessions[id] = p.sessions[id]
    OBVIOUS
<1>3. \A key \in Namespaces \X Profiles :
         (\A k \in 1..n : key # <<ns, route[k]>>) => index[key] = p.index[key]
    OBVIOUS
<1>4. /\ sessions = [id \in SessionIds |-> sessions[id]]
      /\ index = [key \in Namespaces \X Profiles |-> index[key]]
    OBVIOUS
<1>5. q = [p EXCEPT !.sessions = sessions, !.index = index]
    BY Zenon DEF Insert
<1> HIDE DEF info, sessions, index
<1>6. sessions \in [SessionIds -> Maybe(SessionInfo)]
    <2>1. ASSUME NEW id \in SessionIds
          PROVE  sessions[id] \in Maybe(SessionInfo)
        <3>1. CASE \E k \in 1..n : ids[k] = id
            <4>1. PICK k \in 1..n : ids[k] = id BY <3>1
            <4>2. info(ids[k], k) \in SessionInfo /\ sessions[ids[k]] = info(ids[k], k)
                BY <1>1
            <4> QED BY <4>1, <4>2 DEF Maybe
        <3>2. CASE \A k \in 1..n : ids[k] # id
            BY <1>a, <1>2, <3>2, PoolParts
        <3> QED BY <3>1, <3>2
    <2> QED BY <1>4, <2>1
<1>7. index \in [Namespaces \X Profiles -> Maybe(SessionIds)]
    <2>1. ASSUME NEW key \in Namespaces \X Profiles
          PROVE  index[key] \in Maybe(SessionIds)
        <3>1. CASE \E k \in 1..n : key = <<ns, route[k]>>
            BY <1>1, <3>1 DEF Maybe
        <3>2. CASE \A k \in 1..n : key # <<ns, route[k]>>
            BY <1>a, <1>3, <3>2, PoolParts
        <3> QED BY <3>1, <3>2
    <2> QED BY <1>4, <2>1
<1>8. q \in Pools /\ q.sessions = sessions /\ q.index = index
    <2>1. NewMaps(q, p, sessions, index)
        BY <1>a, <1>5, <1>6, <1>7 DEF NewMaps
    <2> QED BY <2>1, NewParts
<1>9. \A id \in Present(p) : q.sessions[id] = p.sessions[id]
    BY <1>2, <1>8 DEF Present
<1>10. Present(q) = Present(p) \cup {ids[k] : k \in 1..n}
    <2>1. ASSUME NEW id \in SessionIds
          PROVE  id \in Present(q) <=> id \in Present(p) \/ \E k \in 1..n : ids[k] = id
        <3>1. CASE \E k \in 1..n : ids[k] = id
            <4>1. PICK k \in 1..n : ids[k] = id BY <3>1
            <4>2. info(ids[k], k) \in SessionInfo /\ sessions[ids[k]] = info(ids[k], k)
                BY <1>1
            <4> QED BY <1>8, <1>c, <3>1, <4>1, <4>2 DEF Present
        <3>2. CASE \A k \in 1..n : ids[k] # id
            BY <1>2, <1>8, <3>2 DEF Present
        <3> QED BY <3>1, <3>2
    <2>2. Present(q) \subseteq SessionIds /\ Present(p) \subseteq SessionIds
        BY DEF Present
    <2>3. \A k \in 1..n : ids[k] \in SessionIds
        OBVIOUS
    <2>4. \A id : id \in Present(q) <=> id \in Present(p) \/ \E k \in 1..n : ids[k] = id
        BY <2>1, <2>2, <2>3
    <2> QED BY <2>4
<1>11. \A k \in 1..n : /\ Opened(q.sessions[ids[k]], ns, transport, config, guarded)
                       /\ Key(q.sessions[ids[k]]) = <<ns, route[k]>>
    <2> TAKE k \in 1..n
    <2>1. q.sessions[ids[k]] = info(ids[k], k)
        BY <1>1, <1>8
    <2> QED BY <2>1 DEF Opened, Key, info
<1>12. ASSUME NEW id \in Present(q)
       PROVE  q.index[Key(q.sessions[id])] = id
    <2>1. CASE \E k \in 1..n : ids[k] = id
        BY <1>1, <1>8, <1>11, <2>1
    <2>2. CASE id \in Present(p)
        <3>1. /\ Key(p.sessions[id]) \in Namespaces \X Profiles
              /\ p.index[Key(p.sessions[id])] = id /\ id # None
            BY <1>a, <1>c, <2>2, PoolParts DEF Matches
        <3>2. \A k \in 1..n : Key(p.sessions[id]) # <<ns, route[k]>>
            BY <3>1
        <3> QED BY <1>3, <1>8, <1>9, <2>2, <3>1, <3>2
    <2> QED BY <1>10, <2>1, <2>2
<1>13. ASSUME NEW key \in Namespaces \X Profiles, q.index[key] # None
       PROVE  q.index[key] \in Present(q) /\ Key(q.sessions[q.index[key]]) = key
    <2>1. CASE \E k \in 1..n : key = <<ns, route[k]>>
        <3>1. PICK k \in 1..n : key = <<ns, route[k]>> BY <2>1
        <3>2. q.index[key] = ids[k] BY <1>1, <1>8, <3>1
        <3> QED BY <1>10, <1>11, <3>1, <3>2
    <2>2. CASE \A k \in 1..n : key # <<ns, route[k]>>
        <3>1. q.index[key] = p.index[key] BY <1>3, <1>8, <2>2
        <3>2. p.index[key] \in Present(p) /\ Key(p.sessions[p.index[key]]) = key
            BY <1>a, <1>13, <3>1 DEF Matches
        <3> QED BY <1>9, <1>10, <3>1, <3>2
    <2> QED BY <2>1, <2>2
<1>14. GoodPool(q) BY <1>8, <1>12, <1>13 DEF GoodPool, Matches
<1> QED BY <1>9, <1>10, <1>11, <1>14

\* The route of a profile is a way, and a configuration that validates has every
\* profile on it.
LEMMA RouteIsWay ==
    ASSUME NEW p \in Profiles
    PROVE  IsWay(Route[p]) /\ IsRoute(Route[p], p)
<1>1. Route[p] \in Routes /\ IsRoute(Route[p], p)
    BY SessionAssumption DEF Route
<1>2. PICK n \in 1..Cardinality(Profiles) : Route[p] \in [1..n -> Profiles]
    BY <1>1 DEF Routes
<1>3. Route[p] \in Seq(Profiles) /\ Len(Route[p]) = n /\ n >= 1 /\ n \in Nat
    BY <1>2
<1> QED BY <1>1, <1>2, <1>3 DEF IsWay, IsRoute, IsInjective

\* In a configuration that validates, every profile on the route of one of its
\* profiles is defined. By the first profile of the route that were not.
LEMMA RouteClosed ==
    ASSUME NEW config \in Configs, validate(config), NEW p \in Profiles, config[p] # None,
           NEW k \in 1..Len(Route[p])
    PROVE  config[Route[p][k]] \in Definitions
<1> DEFINE route == Route[p]
           T == {i \in 1..Len(route) : config[route[i]] = None}
<1>a. /\ IsWay(route) /\ IsRoute(route, p) BY RouteIsWay
<1> HIDE DEF route
<1>b. /\ Len(route) \in Nat /\ \A i \in 1..Len(route) : route[i] \in Profiles
    BY <1>a DEF IsWay
<1>1. T = {}
    <2> SUFFICES ASSUME T # {} PROVE FALSE
        OBVIOUS
    <2>1. T \subseteq Nat BY <1>b
    <2>2. PICK x \in T : \A y \in T : ~ (<<y, x>> \in OpToRel(<, Nat))
        <3> HIDE DEF T
        <3> QED BY <2>1, NatLessThanWellFounded, WFMin
    <2>3. x \in 1..Len(route) /\ config[route[x]] = None
        OBVIOUS
    <2>4. x # 1 BY <1>a, <2>3 DEF IsRoute
    <2>5. /\ x - 1 \in 1..Len(route) /\ x - 1 # Len(route)
          /\ x - 1 \in Nat /\ x \in Nat /\ x - 1 < x
        BY <1>b, <2>3, <2>4
    <2>6. x - 1 \notin T BY <2>2, <2>5 DEF OpToRel
    <2>7. route[x - 1] \in ProfilesIn(config)
        BY <1>b, <2>5, <2>6 DEF ProfilesIn
    <2>8. Via[route[x - 1]] = route[x]
        BY <1>a, <2>5 DEF IsRoute
    <2>9. route[x] \in Profiles /\ None \notin Profiles
        BY <1>b, <2>3, SessionAssumption
    <2> QED BY <2>3, <2>7, <2>8, <2>9 DEF validate, ProfilesIn
<1> QED BY <1>1, <1>b DEF Configs, Maybe, route

\* A session that is used is not idle.
LEMMA TouchGood ==
    ASSUME NEW p, GoodPool(p), NEW id \in Present(p)
    PROVE  /\ GoodPool(Touch(p, id)) /\ Within(Touch(p, id), p)
           /\ Present(Touch(p, id)) = Present(p)
           /\ Touch(p, id).index = p.index /\ Touch(p, id).tunnels = p.tunnels
<1> DEFINE s == [p.sessions[id] EXCEPT !.idle = FALSE]
           q == Touch(p, id)
<1>1. p \in Pools /\ id \in SessionIds /\ p.sessions[id] \in SessionInfo
    BY PoolParts DEF GoodPool
<1>2. s \in SessionInfo /\ SameSession(s, p.sessions[id]) /\ SameCount(s, p.sessions[id])
    BY <1>1 DEF SessionInfo, SameSession, SameCount
<1>3. q = [p EXCEPT !.sessions[id] = s]
    BY <1>1 DEF Touch, Pools
<1> HIDE DEF s, q
<1>4. /\ GoodPool(q) /\ Present(q) = Present(p) /\ q.sessions[id] = s
      /\ \A i \in Present(p) \ {id} : q.sessions[i] = p.sessions[i]
      /\ q.index = p.index /\ q.tunnels = p.tunnels
    <2>1. Changed(q, p, id, s) BY <1>2, <1>3 DEF Changed
    <2> QED BY <2>1, ChangeGood
<1>5. Within(q, p)
    BY <1>2, <1>4 DEF Within, SameSession, SameCount
<1> QED BY <1>4, <1>5 DEF q

\* Sessions of sessions of p are sessions of p.
LEMMA WithinTransitive ==
    ASSUME NEW p, NEW q, NEW r, Within(r, q), Within(q, p)
    PROVE  Within(r, p)
BY DEF Within, SameSession, SameCount

\* The ids are new to a pool with the same sessions too.
LEMMA SameNewIds ==
    ASSUME NEW p, NEW q, NEW held, Present(q) = Present(p), Within(q, p), q.tunnels = p.tunnels
    PROVE  NewIds(q, held) = NewIds(p, held)
<1>1. {q.sessions[id].transport : id \in Present(q)}
        = {p.sessions[id].transport : id \in Present(p)}
    BY DEF Within, SameSession
<1>2. InUse(q, held) = InUse(p, held)
    BY <1>1 DEF InUse
<1> QED BY <1>2 DEF NewIds

\* What ensure_session may come to: the sessions of q are those of p, or opened
\* over one transport, which the namespace has already, or which is new.
SharedBy(p, ns, t) == \E i \in Present(p) : p.sessions[i].transport = t /\ p.sessions[i].ns = ns

NewTo(q, ns, t, held) ==
    t \notin held /\ \A i \in Present(q) : q.sessions[i].transport = t => q.sessions[i].ns = ns

OpenedOver(t, q, p, ns, config, guarded, held) ==
    /\ \A i \in Present(q) :
          \/ /\ i \in Present(p) /\ SameSession(q.sessions[i], p.sessions[i])
             /\ SameCount(q.sessions[i], p.sessions[i])
          \/ i \notin held /\ Opened(q.sessions[i], ns, t, config, guarded)
    /\ SharedBy(p, ns, t) \/ NewTo(q, ns, t, held)

Outcome(res, p, ns, config, guarded, held) ==
    /\ GoodPool(res.pool)
    /\ res.id # None => res.id \in Present(res.pool) /\ res.pool.sessions[res.id].ns = ns
    /\ \/ Within(res.pool, p)
       \/ \E t \in SessionIds : OpenedOver(t, res.pool, p, ns, config, guarded, held)

\* The session at the k-th place of the route answers, and takes those before it
\* over its transport.
Reuses(res, p, ns, route, k, config, guarded, held) ==
    LET hit  == p.index[<<ns, route[k]>>]
        base == Touch(Forget(p, ns, route, k - 1), hit)
        ids  == NewIds(base, held)
    IN  /\ k \in 1..Len(route) /\ hit \in Present(p)
        /\ Len(NewIds(Forget(p, ns, route, k - 1), held)) >= k - 1
        /\ res.pool = Insert(base, ns, route, k - 1, ids, p.sessions[hit].transport,
                             config, guarded)
        /\ res.id = IF k = 1 THEN hit ELSE ids[1]

\* Reusing the transport of a session that answers is a proper outcome.
LEMMA ReuseGood ==
    ASSUME NEW p, GoodPool(p), NEW ns \in Namespaces, NEW route, IsWay(route), NEW k,
           NEW config, NEW guarded \in BOOLEAN, NEW held,
           \A i \in 1..Len(route) : config[route[i]] \in Definitions,
           NEW res, Reuses(res, p, ns, route, k, config, guarded, held)
    PROVE  Outcome(res, p, ns, config, guarded, held)
<1> DEFINE hit == p.index[<<ns, route[k]>>]
           t == p.sessions[hit].transport
           f == Forget(p, ns, route, k - 1)
           base == Touch(f, hit)
           ids == NewIds(base, held)
           new == res.pool
<1>r. /\ k \in 1..Len(route) /\ hit \in Present(p) /\ Len(NewIds(f, held)) >= k - 1
      /\ new = Insert(base, ns, route, k - 1, ids, t, config, guarded)
      /\ res.id = IF k = 1 THEN hit ELSE ids[1]
    BY DEF Reuses
<1> HIDE DEF ids, base, new, f, t
<1>a. /\ p \in Pools /\ Matches(p) /\ Len(route) \in Nat /\ k \in Nat /\ k - 1 \in Nat
      /\ k - 1 \in 0..Len(route) /\ k \in (k - 1) + 1 .. Len(route)
      /\ <<ns, route[k]>> \in Namespaces \X Profiles
    BY <1>r DEF GoodPool, IsWay
<1>b. /\ hit \in SessionIds /\ hit # None /\ t \in SessionIds
      /\ Key(p.sessions[hit]) = <<ns, route[k]>>
    BY <1>a, <1>r, PoolParts, SessionAssumption DEF Matches, SessionInfo, t
<1>1. /\ GoodPool(f) /\ Within(f, p) /\ f.index[<<ns, route[k]>>] = hit
      /\ \A i \in 1..k-1 : f.index[<<ns, route[i]>>] = None
    BY <1>a, ForgetGood DEF f
<1>2. hit \in Present(f)
    BY <1>1, <1>a, <1>b DEF GoodPool, Matches
<1>3. /\ GoodPool(base) /\ Within(base, f) /\ Present(base) = Present(f)
      /\ base.index = f.index /\ base.tunnels = f.tunnels
    BY <1>1, <1>2, TouchGood DEF base
<1>4. Within(base, p) BY <1>1, <1>3, WithinTransitive
<1>5. AreNew(ids, base, held) /\ Len(ids) >= k - 1
    BY <1>r, <1>3, SameNewIds, NewIdsAreNew DEF ids
<1>6. \A i \in 1..k-1 : ids[i] \in SessionIds \ (Present(base) \cup InUse(base, held))
    BY <1>5, <1>a DEF AreNew
<1> HIDE DEF hit
<1>7. CanInsert(base, ns, route, k - 1, ids, t, config, guarded)
    <2>1. \A i \in 1..k-1 : i \in 1..Len(route) /\ i \in 1..Len(ids)
        BY <1>a, <1>5 DEF AreNew
    <2>2. \A i, j \in 1..k-1 : ids[i] = ids[j] => i = j
        BY <1>5, <2>1 DEF AreNew
    <2>3. \A i \in 1..k-1 : base.index[<<ns, route[i]>>] = None
        BY <1>1, <1>3
    <2>4. \A i \in 1..k-1 : /\ config[route[i]] \in Definitions
                            /\ ids[i] \in SessionIds \ Present(base)
        BY <1>6, <2>1
    <2> QED BY <1>a, <1>b, <1>3, <2>2, <2>3, <2>4 DEF CanInsert
<1>8. /\ GoodPool(new)
      /\ Present(new) = Present(base) \cup {ids[i] : i \in 1..k-1}
      /\ \A id \in Present(base) : new.sessions[id] = base.sessions[id]
      /\ \A i \in 1..k-1 : Opened(new.sessions[ids[i]], ns, t, config, guarded)
    <2>1. Inserted(new, base, ns, route, k - 1, ids, t, config, guarded)
        BY <1>7, <1>r DEF Inserted
    <2> QED BY <2>1, InsertGood
<1>9. res.id \in Present(new) /\ new.sessions[res.id].ns = ns
    <2>1. CASE k = 1
        <3>1. res.id = hit /\ hit \in Present(base) BY <2>1, <1>2, <1>3, <1>r
        <3>2. base.sessions[hit].ns = p.sessions[hit].ns
            BY <1>4, <3>1 DEF Within, SameSession
        <3> QED BY <1>8, <1>b, <3>1, <3>2 DEF Key
    <2>2. CASE k # 1
        <3>1. 1 \in 1..k-1 /\ res.id = ids[1]
            BY <1>a, <1>r, <2>2
        <3> QED BY <1>8, <3>1 DEF Opened
    <2> QED BY <2>1, <2>2
<1>10. OpenedOver(t, new, p, ns, config, guarded, held)
    <2>1. SharedBy(p, ns, t) BY <1>b, <1>r DEF SharedBy, t, Key
    <2>2. ASSUME NEW i \in Present(new)
          PROVE  \/ /\ i \in Present(p) /\ SameSession(new.sessions[i], p.sessions[i])
                    /\ SameCount(new.sessions[i], p.sessions[i])
                 \/ i \notin held /\ Opened(new.sessions[i], ns, t, config, guarded)
        <3>1. CASE i \in Present(base)
            BY <1>4, <1>8, <3>1 DEF Within
        <3>2. CASE \E j \in 1..k-1 : i = ids[j]
            BY <1>6, <1>8, <3>2 DEF InUse
        <3> QED BY <1>8, <3>1, <3>2
    <2> QED BY <2>1, <2>2 DEF OpenedOver
<1> QED BY <1>8, <1>9, <1>10, <1>b DEF Outcome, new

\* None answers, and the whole route is opened over a new connection.
Connects(res, p, ns, route, config, guarded, held) ==
    LET n    == Len(route)
        base == Forget(p, ns, route, n)
        ids  == NewIds(base, held)
    IN  /\ Len(ids) >= n
        /\ res.pool = [Insert(base, ns, route, n, ids, ids[n], config, guarded)
                         EXCEPT !.wires = @ \cup {ids[n]}]
        /\ res.id = ids[1]

\* Connecting, and opening the whole route, is a proper outcome.
LEMMA ConnectGood ==
    ASSUME NEW p, GoodPool(p), NEW ns \in Namespaces, NEW route, IsWay(route),
           NEW config, NEW guarded \in BOOLEAN, NEW held,
           \A i \in 1..Len(route) : config[route[i]] \in Definitions,
           NEW res, Connects(res, p, ns, route, config, guarded, held)
    PROVE  Outcome(res, p, ns, config, guarded, held)
<1> DEFINE n == Len(route)
           base == Forget(p, ns, route, n)
           ids == NewIds(base, held)
           t == ids[n]
           q == Insert(base, ns, route, n, ids, t, config, guarded)
           new == res.pool
<1>r. /\ Len(ids) >= n /\ new = [q EXCEPT !.wires = q.wires \cup {t}] /\ res.id = ids[1]
    BY DEF Connects
<1> HIDE DEF new, q, t, ids, base
<1>a. n \in Nat /\ n >= 1 /\ n \in 0..n /\ 1 \in 1..n /\ n \in 1..n
    BY DEF IsWay
<1>1. /\ GoodPool(base) /\ Within(base, p)
      /\ \A i \in 1..n : base.index[<<ns, route[i]>>] = None
    BY <1>a, ForgetGood DEF base
<1>2. AreNew(ids, base, held) BY NewIdsAreNew DEF ids
<1>3. \A i \in 1..n : ids[i] \in SessionIds \ (Present(base) \cup InUse(base, held))
    BY <1>2, <1>a, <1>r DEF AreNew
<1>4. CanInsert(base, ns, route, n, ids, t, config, guarded)
    <2>1. \A i, j \in 1..n : ids[i] = ids[j] => i = j
        BY <1>2, <1>a, <1>r DEF AreNew
    <2>2. t \in SessionIds
        BY <1>3, <1>a DEF t
    <2> QED BY <1>1, <1>3, <1>a, <2>1, <2>2 DEF CanInsert
<1>5. /\ GoodPool(q)
      /\ Present(q) = Present(base) \cup {ids[i] : i \in 1..n}
      /\ \A id \in Present(base) : q.sessions[id] = base.sessions[id]
      /\ \A i \in 1..n : Opened(q.sessions[ids[i]], ns, t, config, guarded)
    <2>1. Inserted(q, base, ns, route, n, ids, t, config, guarded)
        BY <1>4 DEF Inserted, q
    <2> QED BY <2>1, InsertGood
<1>6. /\ GoodPool(new) /\ Present(new) = Present(q) /\ new.sessions = q.sessions
    <2>1. q.wires \cup {t} \in SUBSET SessionIds
        BY <1>3, <1>5, <1>a, PoolParts DEF GoodPool, t
    <2>2. Rewired(new, q, q.wires \cup {t})
        BY <1>5, <1>r, <2>1 DEF Rewired
    <2> QED BY <2>2, WiresGood
<1>7. res.id \in Present(new) /\ new.sessions[res.id].ns = ns
    <2>1. ids[1] \in Present(q) /\ q.sessions[ids[1]].ns = ns
        BY <1>5, <1>a DEF Opened
    <2> QED BY <1>6, <1>r, <2>1
<1>8. t \in SessionIds /\ NewTo(q, ns, t, held)
    <2>1. t \in SessionIds /\ t \notin InUse(base, held)
        BY <1>3, <1>a DEF t
    <2>2. \A i \in Present(q) : q.sessions[i].transport = t => q.sessions[i].ns = ns
        <3>1. \A i \in Present(base) : q.sessions[i].transport # t
            BY <1>5, <2>1 DEF InUse
        <3> QED BY <1>5, <3>1 DEF Opened
    <2> QED BY <2>1, <2>2 DEF NewTo, InUse
<1>9. ASSUME NEW i \in Present(q)
      PROVE  \/ /\ i \in Present(p) /\ SameSession(q.sessions[i], p.sessions[i])
                /\ SameCount(q.sessions[i], p.sessions[i])
             \/ i \notin held /\ Opened(q.sessions[i], ns, t, config, guarded)
    <2>1. CASE i \in Present(base)
        BY <1>1, <1>5, <2>1 DEF Within
    <2>2. CASE \E j \in 1..n : i = ids[j]
        BY <1>3, <1>5, <2>2 DEF InUse
    <2> QED BY <1>5, <2>1, <2>2
<1>10. OpenedOver(t, new, p, ns, config, guarded, held)
    BY <1>6, <1>8, <1>9 DEF OpenedOver, NewTo
<1> QED BY <1>6, <1>7, <1>8, <1>10 DEF Outcome, new

\* What a step of the manager on behalf of a namespace may do to the sessions.
PoolStep(q, p, ns, config, guarded, held) ==
    \/ Within(q, p)
    \/ \E t \in SessionIds : OpenedOver(t, q, p, ns, config, guarded, held)

\* All that ensure_session may come to is proper.
LEMMA EnsureGood ==
    ASSUME NEW p, GoodPool(p), NEW ns \in Namespaces, NEW profile \in Profiles,
           NEW config \in Configs, validate(config), config[profile] # None,
           NEW guarded \in BOOLEAN, NEW held,
           NEW res \in ensure_session(p, ns, profile, config, guarded, held)
    PROVE  Outcome(res, p, ns, config, guarded, held)
<1> DEFINE route == Route[profile]
           all == Len(route)
           hit(k) == p.index[<<ns, route[k]>>]
           alive == {k \in 1..all : /\ hit(k) \in Present(p)
                                    /\ p.sessions[hit(k)].transport \in p.wires}
           base(k) == Touch(Forget(p, ns, route, k - 1), hit(k))
           ids(k) == NewIds(base(k), held)
           reuse(k) ==
               [pool |-> Insert(base(k), ns, route, k - 1, ids(k),
                                p.sessions[hit(k)].transport, config, guarded),
                id   |-> IF k = 1 THEN hit(1) ELSE ids(k)[1]]
           bare == Forget(p, ns, route, all)
           fresh == NewIds(bare, held)
           connect ==
               [pool |-> [Insert(bare, ns, route, all, fresh, fresh[all], config, guarded)
                            EXCEPT !.wires = @ \cup {fresh[all]}],
                id   |-> fresh[1]]
           enough(k) == Len(NewIds(Forget(p, ns, route, k - 1), held)) >= k - 1
<1>1. IsWay(route) /\ \A i \in 1..Len(route) : config[route[i]] \in Definitions
    BY RouteIsWay, RouteClosed
<1>2. \/ \E k \in 1..Len(route) : Reuses(res, p, ns, route, k, config, guarded, held)
      \/ Connects(res, p, ns, route, config, guarded, held)
      \/ \E n \in 0..Len(route) : res = [pool |-> Forget(p, ns, route, n), id |-> None]
    <2>1. \/ \E k \in {i \in alive : enough(i)} : res = reuse(k)
          \/ Len(fresh) >= all /\ res = connect
          \/ \E n \in 0..all : res = [pool |-> Forget(p, ns, route, n), id |-> None]
        BY Zenon DEF ensure_session
    <2>2. CASE \E k \in {i \in alive : enough(i)} : res = reuse(k)
        <3>1. PICK k \in {i \in alive : enough(i)} : res = reuse(k) BY <2>2
        <3>2. k \in 1..all /\ hit(k) \in Present(p) /\ enough(k)
            BY <3>1
        <3>3. /\ res.pool = Insert(base(k), ns, route, k - 1, ids(k),
                                   p.sessions[hit(k)].transport, config, guarded)
              /\ res.id = IF k = 1 THEN hit(k) ELSE ids(k)[1]
            BY <3>1
        <3> HIDE DEF route
        <3> QED BY <3>2, <3>3, Zenon DEF Reuses
    <2>3. CASE Len(fresh) >= all /\ res = connect
        <3>1. /\ res.pool = [Insert(bare, ns, route, all, fresh, fresh[all], config, guarded)
                               EXCEPT !.wires = @ \cup {fresh[all]}]
              /\ res.id = fresh[1]
            BY <2>3
        <3> HIDE DEF route
        <3> QED BY <2>3, <3>1, Zenon DEF Connects
    <2> QED BY <2>1, <2>2, <2>3, Zenon
<1> HIDE DEF route
<1>3. CASE \E k \in 1..Len(route) : Reuses(res, p, ns, route, k, config, guarded, held)
    BY <1>1, <1>3, ReuseGood
<1>4. CASE Connects(res, p, ns, route, config, guarded, held)
    BY <1>1, <1>4, ConnectGood
<1>5. ASSUME NEW n \in 0..Len(route), res = [pool |-> Forget(p, ns, route, n), id |-> None]
      PROVE  Outcome(res, p, ns, config, guarded, held)
    <2>1. GoodPool(res.pool) /\ Within(res.pool, p) /\ res.id = None
        BY <1>1, <1>5, ForgetGood
    <2> QED BY <2>1 DEF Outcome
<1> QED BY <1>2, <1>3, <1>4, <1>5

\* The same sessions, though not all that the manager keeps about them.
Alike(q, p) ==
    /\ Present(q) = Present(p)
    /\ \A id \in Present(p) : /\ SameSession(q.sessions[id], p.sessions[id])
                              /\ SameCount(q.sessions[id], p.sessions[id])

\* What is done to a session besides does not matter.
LEMMA AlikeStep ==
    ASSUME NEW q, NEW r, NEW p, NEW ns, NEW config, NEW guarded, NEW held,
           PoolStep(r, p, ns, config, guarded, held), Alike(q, r)
    PROVE  PoolStep(q, p, ns, config, guarded, held)
<1>1. CASE Within(r, p)
    <2>1. Within(q, p) BY <1>1 DEF Alike, Within, SameSession, SameCount
    <2> QED BY <2>1 DEF PoolStep
<1>2. ASSUME NEW t \in SessionIds, OpenedOver(t, r, p, ns, config, guarded, held)
      PROVE  PoolStep(q, p, ns, config, guarded, held)
    <2>1. ASSUME NEW i \in Present(q)
          PROVE  \/ /\ i \in Present(p) /\ SameSession(q.sessions[i], p.sessions[i])
                    /\ SameCount(q.sessions[i], p.sessions[i])
                 \/ i \notin held /\ Opened(q.sessions[i], ns, t, config, guarded)
        <3>1. /\ i \in Present(r) /\ SameSession(q.sessions[i], r.sessions[i])
              /\ SameCount(q.sessions[i], r.sessions[i])
            BY DEF Alike
        <3>2. CASE /\ i \in Present(p) /\ SameSession(r.sessions[i], p.sessions[i])
                   /\ SameCount(r.sessions[i], p.sessions[i])
            BY <3>1, <3>2 DEF SameSession, SameCount
        <3>3. CASE i \notin held /\ Opened(r.sessions[i], ns, t, config, guarded)
            BY <3>1, <3>3 DEF SameSession, SameCount, Opened
        <3> QED BY <1>2, <3>1, <3>2, <3>3 DEF OpenedOver
    <2>2. NewTo(r, ns, t, held) => NewTo(q, ns, t, held)
        BY DEF NewTo, Alike, SameSession
    <2>3. OpenedOver(t, q, p, ns, config, guarded, held)
        BY <1>2, <2>1, <2>2 DEF OpenedOver
    <2> QED BY <2>3 DEF PoolStep
<1> QED BY <1>1, <1>2 DEF PoolStep

\* A step that starts by closing sessions.
LEMMA StepAfter ==
    ASSUME NEW q, NEW r, NEW p, NEW ns, NEW config, NEW guarded, NEW held,
           PoolStep(q, r, ns, config, guarded, held), Within(r, p)
    PROVE  PoolStep(q, p, ns, config, guarded, held)
<1>1. CASE Within(q, r)
    BY <1>1, WithinTransitive DEF PoolStep
<1>2. ASSUME NEW t \in SessionIds, OpenedOver(t, q, r, ns, config, guarded, held)
      PROVE  PoolStep(q, p, ns, config, guarded, held)
    <2>1. ASSUME NEW i \in Present(q)
          PROVE  \/ /\ i \in Present(p) /\ SameSession(q.sessions[i], p.sessions[i])
                    /\ SameCount(q.sessions[i], p.sessions[i])
                 \/ i \notin held /\ Opened(q.sessions[i], ns, t, config, guarded)
        BY <1>2 DEF OpenedOver, Within, SameSession, SameCount
    <2>2. SharedBy(r, ns, t) => SharedBy(p, ns, t)
        BY DEF SharedBy, Within, SameSession
    <2>3. OpenedOver(t, q, p, ns, config, guarded, held)
        BY <1>2, <2>1, <2>2 DEF OpenedOver
    <2> QED BY <2>3 DEF PoolStep
<1> QED BY <1>1, <1>2 DEF PoolStep

\* Reaping takes sessions that may be reaped, and nothing else.
LEMMA ReapGood ==
    ASSUME NEW p, GoodPool(p), NEW namespaces
    PROVE  /\ GoodPool(reap_idle_sessions(p, namespaces))
           /\ Within(reap_idle_sessions(p, namespaces), p)
           /\ \A id \in Present(p) \ Present(reap_idle_sessions(p, namespaces)) : Reapable(p, id)
<1> DEFINE ids == {id \in Present(p) : p.sessions[id].ns \in namespaces /\ Reapable(p, id)}
<1>1. reap_idle_sessions(p, namespaces) = CloseSessions(p, ids)
    BY DEF reap_idle_sessions
<1>2. ids \in SUBSET Present(p) /\ \A id \in ids : Reapable(p, id)
    OBVIOUS
<1> HIDE DEF ids
<1> QED BY <1>1, <1>2, CloseGood

\* The sessions stay when transports are dropped.
LEMMA DropAlike ==
    ASSUME NEW p, GoodPool(p), NEW held
    PROVE  GoodPool(DropUnused(p, held)) /\ Alike(DropUnused(p, held), p)
BY DropGood DEF Alike, SameSession, SameCount

\* Closing a tunnel leaves the sessions, but for their idleness.
LEMMA TunnelCloseGood ==
    ASSUME NEW p, GoodPool(p), NEW ns, NEW t \in TunnelIds
    PROVE  GoodPool(tunnel_close(p, ns, t)) /\ Alike(tunnel_close(p, ns, t), p)
<1>1. CASE ~TunnelVisible(p, ns, t)
    BY <1>1 DEF tunnel_close, Alike, SameSession, SameCount
<1>2. CASE TunnelVisible(p, ns, t)
    <2> DEFINE id == p.tunnels[t].session
               r == Touch(p, id)
               q == tunnel_close(p, ns, t)
    <2>1. id \in Present(p) BY <1>2 DEF TunnelVisible, Owns
    <2>2. q = [p EXCEPT !.tunnels[t] = None, !.sessions[id].idle = FALSE]
        BY <1>2 DEF tunnel_close
    <2>3. GoodPool(r) /\ Within(r, p) /\ Present(r) = Present(p) /\ r.index = p.index
        BY <2>1, TouchGood
    <2>4. q \in Pools /\ q.sessions = r.sessions /\ q.index = r.index
        <3>1. p \in Pools /\ r \in Pools BY <2>3 DEF GoodPool
        <3>2. r.sessions = [p.sessions EXCEPT ![id].idle = FALSE]
            BY <3>1 DEF Touch, Pools
        <3>3. /\ q.sessions = [p.sessions EXCEPT ![id].idle = FALSE] /\ q.index = p.index
              /\ q = [sessions |-> q.sessions, index |-> q.index,
                    tunnels |-> q.tunnels, wires |-> q.wires]
              /\ q.tunnels = [p.tunnels EXCEPT ![t] = None] /\ q.wires = p.wires
            BY <2>2, <3>1 DEF Pools
        <3>4. q.tunnels \in [TunnelIds -> Maybe(TunnelInfo)]
            BY <3>1, <3>3, PoolParts DEF Maybe
        <3> HIDE DEF q, r
        <3> QED BY <2>3, <3>1, <3>2, <3>3, <3>4 DEF Pools
    <2> HIDE DEF q, r, id
    <2>5. Present(q) = Present(r) BY <2>4 DEF Present
    <2>6. GoodPool(q) BY <2>3, <2>4, <2>5, SameGood DEF SameSession
    <2> QED BY <2>3, <2>4, <2>5, <2>6 DEF Alike, Within, q
<1> QED BY <1>1, <1>2

\* So does opening one.
LEMMA TunnelOpenGood ==
    ASSUME NEW p, GoodPool(p), NEW id \in Present(p), NEW t \in TunnelIds
    PROVE  GoodPool(tunnel_open(p, id, t)) /\ Alike(tunnel_open(p, id, t), p)
<1> DEFINE r == Touch(p, id)
           info == [session |-> id, transport |-> p.sessions[id].transport]
           q == tunnel_open(p, id, t)
<1>1. q = [p EXCEPT !.tunnels[t] = info, !.sessions[id].idle = FALSE]
    BY DEF tunnel_open
<1>2. GoodPool(r) /\ Within(r, p) /\ Present(r) = Present(p) /\ r.index = p.index
    BY TouchGood
<1>3. p \in Pools /\ r \in Pools /\ info \in TunnelInfo
    BY <1>2, PoolParts DEF GoodPool, TunnelInfo, SessionInfo
<1>4. q \in Pools /\ q.sessions = r.sessions /\ q.index = r.index
    <2>1. r.sessions = [p.sessions EXCEPT ![id].idle = FALSE]
        BY <1>3 DEF Touch, Pools
    <2> HIDE DEF info
    <2>2. /\ q.sessions = [p.sessions EXCEPT ![id].idle = FALSE] /\ q.index = p.index
          /\ q = [sessions |-> q.sessions, index |-> q.index,
                tunnels |-> q.tunnels, wires |-> q.wires]
          /\ q.tunnels = [p.tunnels EXCEPT ![t] = info] /\ q.wires = p.wires
        BY <1>1, <1>3 DEF Pools
    <2>3. q.tunnels \in [TunnelIds -> Maybe(TunnelInfo)]
        BY <1>3, <2>2, PoolParts DEF Maybe
    <2> HIDE DEF q, r
    <2> QED BY <1>2, <1>3, <2>1, <2>2, <2>3 DEF Pools
<1> HIDE DEF q, r
<1>5. Present(q) = Present(r) BY <1>4 DEF Present
<1>6. GoodPool(q) BY <1>2, <1>4, <1>5, SameGood DEF SameSession
<1> QED BY <1>2, <1>4, <1>5, <1>6 DEF Alike, Within, q

-----------------------------------------------------------------------------
(* What is kept of the sessions p, the commands in flight j and the file f   *)

Users(j, id) == {w \in Workers : j[w].session = id}

Counted(p, j) ==
    /\ \A id \in SessionIds : IsFiniteSet(Users(j, id))
    /\ \A id \in Present(p) :
          p.sessions[id].active = Cardinality(Users(j, id)) + p.sessions[id].leaked

\* A session or a command of the namespace goes over the transport.
Uses(p, j, t, ns) ==
    \/ \E i \in Present(p) : p.sessions[i].transport = t /\ p.sessions[i].ns = ns
    \/ \E w \in Workers : j[w].transport = t /\ NamespaceOf[w] = ns

Apart(p, j) ==
    \A t \in SessionIds, m, n \in Namespaces : Uses(p, j, t, m) /\ Uses(p, j, t, n) => m = n

Current(p, f) ==
    \A id \in Present(p) :
        p.sessions[id].guarded => f[p.sessions[id].profile] = p.sessions[id].definition

Kept(p, j, f) == GoodPool(p) /\ Counted(p, j) /\ Apart(p, j) /\ Current(p, f)

\* The commands in flight are the same.
SameFlight(k, j) ==
    \A w \in Workers : k[w].session = j[w].session /\ k[w].transport = j[w].transport

\* Only the commands in flight matter of what the workers do.
LEMMA FlightKept ==
    ASSUME NEW p, NEW j, NEW k, NEW f, Kept(p, j, f), SameFlight(k, j)
    PROVE  Kept(p, k, f)
<1>1. \A id : Users(k, id) = Users(j, id)
    BY DEF Users, SameFlight
<1>2. \A t, ns : Uses(p, k, t, ns) <=> Uses(p, j, t, ns)
    BY DEF Uses, SameFlight
<1>3. Counted(p, k) BY <1>1 DEF Kept, Counted
<1>4. Apart(p, k) BY <1>2 DEF Kept, Apart
<1> QED BY <1>3, <1>4 DEF Kept

\* What is kept of the sessions is kept of fewer.
LEMMA WithinKept ==
    ASSUME NEW p, NEW q, NEW j, NEW f, Kept(p, j, f), GoodPool(q), Within(q, p)
    PROVE  Kept(q, j, f)
<1>1. Counted(q, j) BY DEF Kept, Counted, Within, SameCount
<1>2. \A t, ns : Uses(q, j, t, ns) => Uses(p, j, t, ns)
    BY DEF Uses, Within, SameSession
<1>3. Apart(q, j) BY <1>2 DEF Kept, Apart
<1>4. Current(q, f) BY DEF Kept, Current, Within, SameSession
<1> QED BY <1>1, <1>3, <1>4 DEF Kept

\* It is kept when transports are dropped.
LEMMA DropKept ==
    ASSUME NEW p, NEW j, NEW f, Kept(p, j, f), NEW held
    PROVE  Kept(DropUnused(p, held), j, f)
<1>1. GoodPool(DropUnused(p, held)) /\ Within(DropUnused(p, held), p)
    BY DropAlike DEF Kept, Alike, Within
<1> QED BY <1>1, WithinKept

\* What a worker's step does to the sessions, when the worker has no command in
\* flight.
LEMMA StepKept ==
    ASSUME NEW p, NEW q, NEW f, Kept(p, job, f), GoodPool(q), NEW w \in Workers,
           job[w].session = None, job[w].transport = None,
           NEW config, NEW guarded \in BOOLEAN, guarded => config = f,
           PoolStep(q, p, NamespaceOf[w], config, guarded, HeldBut(w))
    PROVE  Kept(q, job, f)
<1> DEFINE ns == NamespaceOf[w]
<1>1. CASE Within(q, p) BY <1>1, WithinKept
<1>2. ASSUME NEW t \in SessionIds,
             OpenedOver(t, q, p, ns, config, guarded, HeldBut(w))
      PROVE  Kept(q, job, f)
    <2>1. \A i \in Present(q) :
             \/ /\ i \in Present(p) /\ SameSession(q.sessions[i], p.sessions[i])
                /\ SameCount(q.sessions[i], p.sessions[i])
             \/ i \notin HeldBut(w) /\ Opened(q.sessions[i], ns, t, config, guarded)
        BY <1>2 DEF OpenedOver
    <2>2. Present(q) \subseteq SessionIds /\ None \notin SessionIds
        BY SessionAssumption DEF Present
    <2>3. \A i \in SessionIds \ HeldBut(w) : \A v \in Workers :
             job[v].session # i /\ job[v].transport # i
        BY <2>2 DEF HeldBut
    <2>4. \A i \in SessionIds \ HeldBut(w) : Users(job, i) = {}
        BY <2>3 DEF Users
    <2>5. Counted(q, job)
        <3>1. ASSUME NEW i \in Present(q)
              PROVE  q.sessions[i].active = Cardinality(Users(job, i)) + q.sessions[i].leaked
            <4>1. CASE i \in Present(p) /\ SameCount(q.sessions[i], p.sessions[i])
                BY <4>1 DEF Kept, Counted, SameCount
            <4>2. CASE i \notin HeldBut(w) /\ Opened(q.sessions[i], ns, t, config, guarded)
                <5>1. Cardinality(Users(job, i)) = 0
                    BY <2>2, <2>4, <4>2, FS_EmptySet
                <5> QED BY <4>2, <5>1 DEF Opened
            <4> QED BY <2>1, <4>1, <4>2
        <3> QED BY <3>1 DEF Kept, Counted
    <2>6. \A s, n : Uses(q, job, s, n) => Uses(p, job, s, n) \/ (s = t /\ n = ns)
        BY <2>1 DEF Uses, SameSession, Opened
    <2>7. Apart(q, job)
        <3> SUFFICES ASSUME NEW s \in SessionIds, NEW m \in Namespaces, NEW n \in Namespaces,
                            Uses(q, job, s, m), Uses(q, job, s, n)
                     PROVE  m = n
            BY DEF Apart
        <3>1. CASE s # t BY <2>6, <3>1 DEF Kept, Apart
        <3>2. CASE s = t
            <4>1. CASE SharedBy(p, ns, t)
                <5>1. Uses(p, job, t, ns) /\ ns \in Namespaces
                    BY <4>1, GatewayAssumption DEF SharedBy, Uses
                <5> QED BY <2>6, <3>2, <5>1 DEF Kept, Apart
            <4>2. CASE NewTo(q, ns, t, HeldBut(w))
                BY <2>3, <3>2, <4>2 DEF NewTo, Uses
            <4> QED BY <1>2, <4>1, <4>2 DEF OpenedOver
        <3> QED BY <3>1, <3>2
    <2>8. Current(q, f)
        BY <2>1 DEF Kept, Current, SameSession, Opened
    <2> QED BY <2>5, <2>7, <2>8 DEF Kept
<1> QED BY <1>1, <1>2 DEF PoolStep

\* A command is prepared: it is counted, and goes over its session's transport.
Started(k, j, w, id, t) ==
    k = [j EXCEPT ![w] = [NoJob EXCEPT !.session = id, !.transport = t]]

\* prepare_exec counts a command that starts.
LEMMA PrepareKept ==
    ASSUME NEW p, NEW j, NEW f, Kept(p, j, f), NEW w \in Workers, NEW id \in Present(p),
           p.sessions[id].ns = NamespaceOf[w], j \in [Workers -> Jobs],
           j[w].session = None, NEW k, Started(k, j, w, id, p.sessions[id].transport)
    PROVE  Kept(prepare_exec(p, id), k, f)
<1> DEFINE s == [p.sessions[id] EXCEPT !.active = p.sessions[id].active + 1]
           q == prepare_exec(p, id)
<1>1. /\ p \in Pools /\ id \in SessionIds /\ p.sessions[id] \in SessionInfo /\ id # None
    BY PoolParts, SessionAssumption DEF Kept, GoodPool
<1>2. /\ s \in SessionInfo /\ SameSession(s, p.sessions[id])
      /\ s.active = p.sessions[id].active + 1 /\ s.leaked = p.sessions[id].leaked
    BY <1>1 DEF SessionInfo, SameSession
<1>3. Changed(q, p, id, s)
    BY <1>1, <1>2 DEF Changed, Kept, prepare_exec, Pools
<1> HIDE DEF s, q
<1>4. /\ GoodPool(q) /\ Present(q) = Present(p) /\ q.sessions[id] = s
      /\ \A i \in Present(p) \ {id} : q.sessions[i] = p.sessions[i]
    BY <1>3, ChangeGood
<1>5. /\ k[w].session = id /\ k[w].transport = p.sessions[id].transport
      /\ \A v \in Workers \ {w} : k[v] = j[v]
    BY DEF Started, NoJob
<1>6. Counted(q, k)
    <2>1. Users(k, id) = Users(j, id) \cup {w} /\ w \notin Users(j, id)
        BY <1>1, <1>5 DEF Users
    <2>2. \A i \in SessionIds \ {id} : Users(k, i) = Users(j, i)
        BY <1>5, SessionAssumption DEF Users
    <2>3. IsFiniteSet(Users(j, id)) /\ p.sessions[id].leaked \in Nat
        BY <1>1 DEF Kept, Counted, SessionInfo
    <2>4. /\ IsFiniteSet(Users(k, id))
          /\ Cardinality(Users(k, id)) = Cardinality(Users(j, id)) + 1
          /\ Cardinality(Users(j, id)) \in Nat
        BY <2>1, <2>3, FS_AddElement, FS_CardinalityType
    <2>5. q.sessions[id].active = Cardinality(Users(k, id)) + q.sessions[id].leaked
        BY <1>2, <1>4, <2>3, <2>4 DEF Kept, Counted
    <2>6. \A i \in Present(q) \ {id} :
             q.sessions[i].active = Cardinality(Users(k, i)) + q.sessions[i].leaked
        BY <1>4, <2>2 DEF Kept, Counted, Present
    <2>7. \A i \in SessionIds : IsFiniteSet(Users(k, i))
        BY <2>2, <2>4 DEF Kept, Counted
    <2> QED BY <2>5, <2>6, <2>7 DEF Counted
<1>7. \A i \in Present(p) : SameSession(q.sessions[i], p.sessions[i])
    BY <1>2, <1>4 DEF SameSession
<1>8. \A t, ns : Uses(q, k, t, ns) => Uses(p, j, t, ns)
    BY <1>4, <1>5, <1>7 DEF Uses, SameSession
<1>9. Apart(q, k) BY <1>8 DEF Kept, Apart
<1>10. Current(q, f) BY <1>4, <1>7 DEF Kept, Current, SameSession
<1> QED BY <1>4, <1>6, <1>9, <1>10 DEF Kept, q

\* A command is over, and is counted no more, or counted as leaked.
Ended(q, p, id) ==
    \/ id \notin Present(p) /\ q = p
    \/ \E s \in SessionInfo :
          /\ Changed(q, p, id, s)
          /\ s.active + p.sessions[id].leaked + 1 = p.sessions[id].active + s.leaked

\* Either way what is kept stays true.
LEMMA EndKept ==
    ASSUME NEW p, NEW q, NEW j \in [Workers -> Jobs], NEW f, Kept(p, j, f), NEW w \in Workers,
           j[w].session \in SessionIds, Ended(q, p, j[w].session)
    PROVE  Kept(q, [j EXCEPT ![w] = NoJob], f)
<1> DEFINE id == j[w].session
           k == [j EXCEPT ![w] = NoJob]
<1>1. /\ k[w].session = None /\ k[w].transport = None
      /\ \A v \in Workers \ {w} : k[v] = j[v]
    BY DEF NoJob
<1> HIDE DEF k
<1>2. Users(k, id) = Users(j, id) \ {w} /\ w \in Users(j, id)
    BY <1>1, SessionAssumption DEF Users
<1>3. \A i \in SessionIds \ {id} : Users(k, i) = Users(j, i)
    BY <1>1, SessionAssumption DEF Users
<1>4. IsFiniteSet(Users(j, id)) BY DEF Kept, Counted
<1>5. /\ IsFiniteSet(Users(k, id))
      /\ Cardinality(Users(k, id)) = Cardinality(Users(j, id)) - 1
      /\ Cardinality(Users(j, id)) \in Nat
    BY <1>2, <1>4, FS_RemoveElement, FS_CardinalityType
<1>6. \A i \in SessionIds : IsFiniteSet(Users(k, i))
    BY <1>3, <1>5 DEF Kept, Counted
<1>7. \A t \in SessionIds : \A ns : Uses(p, k, t, ns) => Uses(p, j, t, ns)
    BY <1>1, SessionAssumption DEF Uses
<1>8. CASE id \notin Present(p) /\ q = p
    <2>1. Counted(p, k)
        BY <1>3, <1>6, <1>8 DEF Kept, Counted, Present
    <2>2. Apart(p, k) BY <1>7 DEF Kept, Apart
    <2> QED BY <1>8, <2>1, <2>2 DEF Kept, k
<1>9. ASSUME NEW s \in SessionInfo, Changed(q, p, id, s),
             s.active + p.sessions[id].leaked + 1 = p.sessions[id].active + s.leaked
      PROVE  Kept(q, k, f)
    <2>1. /\ GoodPool(q) /\ Present(q) = Present(p) /\ q.sessions[id] = s
          /\ \A i \in Present(p) \ {id} : q.sessions[i] = p.sessions[i]
        BY <1>9, ChangeGood
    <2>2. id \in Present(p) /\ p.sessions[id] \in SessionInfo /\ SameSession(s, p.sessions[id])
        BY <1>9, PoolParts DEF Changed, GoodPool
    <2>3. q.sessions[id].active = Cardinality(Users(k, id)) + q.sessions[id].leaked
        <3>1. p.sessions[id].active = Cardinality(Users(j, id)) + p.sessions[id].leaked
            BY <2>2 DEF Kept, Counted
        <3>2. /\ s.active \in Nat /\ s.leaked \in Nat
              /\ p.sessions[id].active \in Nat /\ p.sessions[id].leaked \in Nat
            BY <2>2 DEF SessionInfo
        <3> QED BY <1>5, <1>9, <2>1, <3>1, <3>2
    <2>4. \A i \in Present(q) \ {id} :
             q.sessions[i].active = Cardinality(Users(k, i)) + q.sessions[i].leaked
        BY <1>3, <2>1 DEF Kept, Counted, Present
    <2>5. \A i \in Present(p) : SameSession(q.sessions[i], p.sessions[i])
        BY <2>1, <2>2 DEF SameSession
    <2>6. \A t \in SessionIds : \A ns : Uses(q, k, t, ns) => Uses(p, j, t, ns)
        <3>1. \A t, ns : Uses(q, k, t, ns) => Uses(p, k, t, ns)
            BY <2>1, <2>5 DEF Uses, SameSession
        <3> QED BY <1>7, <3>1
    <2>7. Apart(q, k) BY <2>6 DEF Kept, Apart
    <2>8. Current(q, f) BY <2>1, <2>5 DEF Kept, Current, SameSession
    <2> QED BY <1>6, <2>1, <2>3, <2>4, <2>7, <2>8 DEF Kept, Counted
<1> QED BY <1>8, <1>9 DEF Ended, k

\* finish_exec uncounts the command, whose session may be gone; the count is not 0.
LEMMA FinishEnds ==
    ASSUME NEW p, NEW j, NEW f, Kept(p, j, f), NEW w \in Workers,
           j[w].session \in SessionIds
    PROVE  Ended(finish_exec(p, j[w].session), p, j[w].session)
<1> DEFINE id == j[w].session
           a == p.sessions[id].active
           s == [p.sessions[id] EXCEPT !.active = IF a = 0 THEN 0 ELSE a - 1, !.idle = FALSE]
<1>1. CASE id \notin Present(p) BY <1>1 DEF finish_exec, Ended
<1>2. CASE id \in Present(p)
    <2>1. /\ p \in Pools /\ id \in SessionIds /\ p.sessions[id] \in SessionInfo
        BY <1>2, PoolParts DEF Kept, GoodPool
    <2>2. a \in Nat /\ a # 0
        <3>1. w \in Users(j, id) BY DEF Users
        <3>2. IsFiniteSet(Users(j, id)) /\ a = Cardinality(Users(j, id)) + p.sessions[id].leaked
            BY <1>2 DEF Kept, Counted
        <3>3. Cardinality(Users(j, id)) \in Nat /\ Cardinality(Users(j, id)) # 0
            BY <3>1, <3>2, FS_CardinalityType, FS_EmptySet
        <3>4. p.sessions[id].leaked \in Nat BY <2>1 DEF SessionInfo
        <3> QED BY <3>2, <3>3, <3>4
    <2>3. /\ s \in SessionInfo /\ SameSession(s, p.sessions[id])
          /\ s.active = a - 1 /\ s.leaked = p.sessions[id].leaked
        <3>1. s = [p.sessions[id] EXCEPT !.active = a - 1, !.idle = FALSE]
            BY <2>2
        <3>2. a - 1 \in Nat BY <2>2
        <3> HIDE DEF s, a
        <3> QED BY <2>1, <3>1, <3>2 DEF SessionInfo, SameSession
    <2>4. finish_exec(p, id) = [p EXCEPT !.sessions[id] = s]
        BY <1>2, <2>1 DEF finish_exec, Pools
    <2>5. Changed(finish_exec(p, id), p, id, s)
        <3> HIDE DEF s, id
        <3> QED BY <1>2, <2>3, <2>4 DEF Changed, Kept
    <2>6. s.active + p.sessions[id].leaked + 1 = a + s.leaked
        <3>1. p.sessions[id].leaked \in Nat BY <2>1 DEF SessionInfo
        <3> HIDE DEF s, a
        <3> QED BY <2>2, <2>3, <3>1
    <2> HIDE DEF s
    <2> QED BY <2>3, <2>5, <2>6 DEF Ended
<1> QED BY <1>1, <1>2

\* What DropRequest does to the session of the command it drops.
Leak(p, id) ==
    IF id \in Present(p) THEN [p EXCEPT !.sessions[id].leaked = @ + 1] ELSE p

\* A dropped future leaves its command counted.
LEMMA LeakEnds ==
    ASSUME NEW p, GoodPool(p), NEW id
    PROVE  Ended(Leak(p, id), p, id)
<1> DEFINE s == [p.sessions[id] EXCEPT !.leaked = p.sessions[id].leaked + 1]
<1>1. CASE id \notin Present(p) BY <1>1 DEF Leak, Ended
<1>2. CASE id \in Present(p)
    <2>1. /\ p \in Pools /\ id \in SessionIds /\ p.sessions[id] \in SessionInfo
        BY <1>2, PoolParts DEF GoodPool
    <2>2. /\ s \in SessionInfo /\ SameSession(s, p.sessions[id])
          /\ s.active = p.sessions[id].active /\ s.leaked = p.sessions[id].leaked + 1
        BY <2>1 DEF SessionInfo, SameSession
    <2>3. Leak(p, id) = [p EXCEPT !.sessions[id] = s]
        BY <1>2, <2>1 DEF Leak, Pools
    <2>4. Changed(Leak(p, id), p, id, s)
        <3> HIDE DEF s
        <3> QED BY <1>2, <2>2, <2>3 DEF Changed
    <2>5. s.active + p.sessions[id].leaked + 1 = p.sessions[id].active + s.leaked
        <3>1. p.sessions[id].leaked \in Nat /\ p.sessions[id].active \in Nat
            BY <2>1 DEF SessionInfo
        <3> HIDE DEF s
        <3> QED BY <2>2, <3>1
    <2> HIDE DEF s
    <2> QED BY <2>2, <2>4, <2>5 DEF Ended
<1> QED BY <1>1, <1>2

-----------------------------------------------------------------------------
(* The invariant                                                             *)

InFlight(l) == l \in {"running", "finish"}

\* Where worker w stands.
LocalOK(w) ==
    LET j == job[w] IN
    /\ InFlight(pc[w]) => j.session \in SessionIds /\ j.transport \in SessionIds
    /\ ~InFlight(pc[w]) => j.session = None /\ j.transport = None
    /\ pc[w] \in {"read_wait", "locked"} /\ j.kind \in ProfileOps => j.arg \in Profiles
    /\ pc[w] \in {"read_wait", "locked"} /\ j.kind = "tunnel_close" => j.arg \in TunnelIds
    /\ pc[w] = "locked" /\ j.kind \in ProfileOps =>
          j.config \in Configs /\ validate(j.config) /\ j.config[j.arg] # None
    /\ pc[w] = "locked" /\ j.kind \in Operations /\ w \in Guarded =>
          w \in readers /\ j.config = file
    /\ pc[w] \in {"check", "write_wait", "commit"} => j.arg \in Profiles
    /\ pc[w] = "check" => j.kind = "delete"
    /\ pc[w] = "write_wait" /\ j.kind = "create" => j.definition \in Definitions
    /\ pc[w] = "commit" => writer = w /\ Deletable(file, j.arg)

\* The locks and the workers' own variables.
Shape ==
    /\ file \in Configs
    /\ readers \subseteq Workers
    /\ writer \in Maybe(Workers)
    /\ pc \in [Workers -> Labels]
    /\ job \in [Workers -> Jobs]

LocalInv ==
    /\ Shape
    /\ ConfigLoads
    /\ writer # None => readers = {}
    /\ \A w \in Workers : LocalOK(w)

IInv == LocalInv /\ Kept(pool, job, file)

-----------------------------------------------------------------------------
(* The workers                                                               *)

\* Worker w goes to label l with job j, and takes or leaves locks of its own.
Moves(w, l, j) ==
    /\ pc' = [pc EXCEPT ![w] = l] /\ job' = [job EXCEPT ![w] = j] /\ file' = file
    /\ readers' \subseteq Workers /\ readers \ {w} \subseteq readers'
    /\ writer' \in Maybe(Workers) /\ \A v \in Workers \ {w} : writer = v => writer' = v
    /\ writer' # None => readers' = {}

\* The other workers stand where they stood.
LEMMA MoveLocal ==
    ASSUME LocalInv, NEW w \in Workers, NEW l \in Labels, NEW j \in Jobs, Moves(w, l, j),
           LocalOK(w)'
    PROVE  LocalInv'
<1>1. Shape' BY DEF LocalInv, Shape, Moves
<1>2. ASSUME NEW v \in Workers \ {w}
      PROVE  LocalOK(v)'
    <2>1. /\ pc'[v] = pc[v] /\ job'[v] = job[v] /\ (v \in readers => v \in readers')
          /\ (writer = v => writer' = v) /\ file' = file
        BY DEF LocalInv, Shape, Moves
    <2>2. LocalOK(v) BY DEF LocalInv
    <2> QED BY <2>1, <2>2 DEF LocalOK
<1>3. ConfigLoads' BY DEF LocalInv, ConfigLoads, Moves, validate, ProfilesIn
<1> QED BY <1>1, <1>2, <1>3 DEF LocalInv, Moves

\* A worker at rest has no command.
LEMMA NoJobIsJob == NoJob \in Jobs /\ NoJob.session = None /\ NoJob.transport = None
BY DEF NoJob, Jobs, Maybe

\* A request that is over leaves its locks and queues to the others.
LEMMA ReturnLocal ==
    ASSUME LocalInv, NEW w \in Workers, Return(w), file' = file
    PROVE  LocalInv'
<1>1. Moves(w, "idle", NoJob)
    BY GatewayAssumption DEF Moves, Return, Goto, LocalInv, Shape, Maybe
<1>2. LocalOK(w)'
    <2>1. pc'[w] = "idle" /\ job'[w] = NoJob
        BY DEF Return, Goto, LocalInv, Shape
    <2> QED BY <2>1, NoJobIsJob DEF LocalOK, InFlight
<1> QED BY <1>1, <1>2, NoJobIsJob, MoveLocal DEF Labels

\* A worker that writes the file has it to itself.
LEMMA CommitLocal ==
    ASSUME LocalInv, NEW w \in Workers, Return(w), file' \in Configs, validate(file'),
           readers = {}, writer \in {None, w}
    PROVE  LocalInv'
<1>1. /\ readers' = {} /\ writer' = None
      /\ pc' = [pc EXCEPT ![w] = "idle"] /\ job' = [job EXCEPT ![w] = NoJob]
    BY DEF Return, Goto
<1>2. Shape'
    BY <1>1, NoJobIsJob DEF LocalInv, Shape, Maybe, Labels
<1>3. LocalOK(w)'
    <2>1. pc'[w] = "idle" /\ job'[w] = NoJob
        BY <1>1 DEF LocalInv, Shape
    <2> QED BY <2>1, NoJobIsJob DEF LocalOK, InFlight
<1>4. ASSUME NEW v \in Workers \ {w}
      PROVE  LocalOK(v)'
    <2>1. pc'[v] = pc[v] /\ job'[v] = job[v] /\ writer # v
        BY <1>1, GatewayAssumption DEF LocalInv, Shape
    <2>2. LocalOK(v) BY DEF LocalInv
    <2> QED BY <2>1, <2>2 DEF LocalOK
<1> QED BY <1>1, <1>2, <1>3, <1>4 DEF LocalInv, ConfigLoads

\* A worker without a command stays so.
LEMMA QuietFlight ==
    ASSUME LocalInv, NEW w \in Workers, ~InFlight(pc[w]), NEW j,
           job' = [job EXCEPT ![w] = j], j.session = None, j.transport = None
    PROVE  SameFlight(job', job)
BY DEF LocalInv, LocalOK, Shape, SameFlight

\* The same for a request that is over.
LEMMA QuietReturn ==
    ASSUME LocalInv, NEW w \in Workers, ~InFlight(pc[w]), Return(w)
    PROVE  SameFlight(job', job)
BY QuietFlight, NoJobIsJob DEF Return

\* What is kept in the next state.
LEMMA KeptNext == Kept(pool, job, file)' <=> Kept(pool', job', file')
BY DEF Kept, Counted, Apart, Current, GoodPool, Matches, Uses, Users, Present, Key

\* A worker that leaves the sessions and the commands alone.
LEMMA QuietKept ==
    ASSUME IInv, SameFlight(job', job), pool' = pool, file' = file
    PROVE  Kept(pool, job, file)'
<1>1. Kept(pool, job', file) BY FlightKept DEF IInv
<1> QED BY <1>1, KeptNext

\* A worker that leaves the manager with the sessions of q.
LEMMA PoolKept ==
    ASSUME NEW q, Kept(q, job', file), NEW held, SetPool(q, held), file' = file
    PROVE  Kept(pool, job, file)'
<1>1. Kept(DropUnused(q, held), job', file) BY DropKept
<1> QED BY <1>1, KeptNext DEF SetPool

\* The same when no command starts or ends.
LEMMA ServedKept ==
    ASSUME NEW q, Kept(q, job, file), SameFlight(job', job), NEW held, SetPool(q, held),
           file' = file
    PROVE  Kept(pool, job, file)'
<1>1. Kept(q, job', file) BY FlightKept
<1> QED BY <1>1, PoolKept

\* What a worker finds when it has its session, or has not.
LEMMA EnsuredKept ==
    ASSUME IInv, NEW w \in Workers, pc[w] = "locked", job[w].kind \in ProfileOps,
           NEW res \in Ensured(w)
    PROVE  /\ Kept(res.pool, job, file)
           /\ res.id # None => /\ res.id \in Present(res.pool)
                               /\ res.pool.sessions[res.id].ns = NamespaceOf[w]
<1> DEFINE ns == NamespaceOf[w]
           r == reap_idle_sessions(pool, {ns})
           config == job[w].config
           guarded == w \in Guarded
<1>1. LocalOK(w) /\ GoodPool(pool) BY DEF IInv, LocalInv, Kept
<1>2. /\ job[w].arg \in Profiles /\ config \in Configs /\ validate(config)
      /\ config[job[w].arg] # None
      /\ job[w].session = None /\ job[w].transport = None
      /\ guarded => config = file
    BY <1>1 DEF LocalOK, InFlight, Operations
<1>3. GoodPool(r) /\ Within(r, pool) BY <1>1, ReapGood
<1>4. ns \in Namespaces /\ guarded \in BOOLEAN BY GatewayAssumption
<1>5. res \in ensure_session(r, ns, job[w].arg, config, guarded, HeldBut(w))
    BY DEF Ensured
<1> HIDE DEF r, config, guarded
<1>6. Outcome(res, r, ns, config, guarded, HeldBut(w))
    BY <1>2, <1>3, <1>4, <1>5, EnsureGood
<1>7. GoodPool(res.pool) /\ PoolStep(res.pool, r, ns, config, guarded, HeldBut(w))
    BY <1>6 DEF Outcome, PoolStep
<1>8. PoolStep(res.pool, pool, ns, config, guarded, HeldBut(w))
    BY <1>3, <1>7, StepAfter
<1>9. Kept(res.pool, job, file)
    BY <1>2, <1>4, <1>7, <1>8, StepKept DEF IInv
<1> QED BY <1>6, <1>9 DEF Outcome

-----------------------------------------------------------------------------
(* Every action keeps the invariant                                          *)

\* Requests arrive: with the configuration, if they do not wait for it.
LEMMA RequestInv ==
    ASSUME IInv, NEW w \in Workers, Receive(w)
    PROVE  IInv'
<1>a. /\ LocalInv /\ file \in Configs /\ readers \subseteq Workers /\ writer \in Maybe(Workers)
      /\ pc \in [Workers -> Labels] /\ job \in [Workers -> Jobs] /\ validate(file)
      /\ (writer # None => readers = {})
    BY DEF IInv, LocalInv, Shape, ConfigLoads
<1>b. /\ "idle" \in Labels /\ "read_wait" \in Labels /\ "write_wait" \in Labels
      /\ "locked" \in Labels /\ "check" \in Labels
    BY DEF Labels
<1>c. NoJob \in Jobs BY NoJobIsJob
<1>1. ASSUME NEW kind \in Kinds, NEW arg \in Args(kind), RequestGuarded(w, kind, arg)
      PROVE  IInv'
    <2> DEFINE j == [NoJob EXCEPT !.kind = kind, !.arg = arg]
    <2>1. /\ arg \in Maybe(Profiles \cup TunnelIds \cup SessionIds)
          /\ (kind \in ProfileOps => arg \in Profiles)
          /\ (kind = "tunnel_close" => arg \in TunnelIds)
        BY DEF Args, Present, Maybe, ProfileOps
    <2>2. /\ j \in Jobs /\ j.session = None /\ j.transport = None
          /\ j.kind = kind /\ j.arg = arg
        BY <2>1 DEF NoJob, Jobs, Maybe
    <2>3. Moves(w, "read_wait", j) /\ pool' = pool /\ ~InFlight(pc[w])
        BY <1>a, <1>1 DEF Moves, RequestGuarded, AwaitGuard, Goto, InFlight
    <2> HIDE DEF j
    <2>4. LocalOK(w)'
        <3>1. pc'[w] = "read_wait" /\ job'[w] = j
            BY <1>a, <2>3 DEF Moves
        <3> QED BY <2>1, <2>2, <3>1 DEF LocalOK, InFlight
    <2>5. LocalInv' BY <1>a, <1>b, <2>2, <2>3, <2>4, MoveLocal
    <2>6. SameFlight(job', job) BY <1>a, <2>2, <2>3, QuietFlight DEF Moves
    <2> QED BY <2>3, <2>5, <2>6, QuietKept DEF IInv, Moves
<1>2. ASSUME NEW kind \in Kinds, NEW arg \in Args(kind), RequestUnguarded(w, kind, arg)
      PROVE  IInv'
    <2> DEFINE j == Loaded(kind, arg)
    <2>1. /\ arg \in Maybe(Profiles \cup TunnelIds \cup SessionIds)
          /\ (kind \in ProfileOps => arg \in Profiles)
          /\ (kind = "tunnel_close" => arg \in TunnelIds)
        BY DEF Args, Present, Maybe, ProfileOps
    <2>2. /\ j \in Jobs /\ j.session = None /\ j.transport = None
          /\ j.kind = kind /\ j.arg = arg /\ j.config = file
        BY <1>a, <2>1 DEF Loaded, NoJob, Jobs, Maybe
    <2>3. Moves(w, "locked", j) /\ pool' = pool /\ ~InFlight(pc[w]) /\ w \notin Guarded
        BY <1>a, <1>2 DEF Moves, RequestUnguarded, AwaitMutex, Goto, InFlight
    <2>4. kind \in ProfileOps => file[arg] # None
        BY <1>2 DEF RequestUnguarded, Accepted
    <2> HIDE DEF j
    <2>5. LocalOK(w)'
        <3>1. pc'[w] = "locked" /\ job'[w] = j
            BY <1>a, <2>3 DEF Moves
        <3> QED BY <1>a, <2>1, <2>2, <2>3, <2>4, <3>1 DEF LocalOK, InFlight
    <2>6. LocalInv' BY <1>a, <1>b, <2>2, <2>3, <2>5, MoveLocal
    <2>7. SameFlight(job', job) BY <1>a, <2>2, <2>3, QuietFlight DEF Moves
    <2> QED BY <2>3, <2>6, <2>7, QuietKept DEF IInv, Moves
<1>3. CASE RequestShutdown(w)
    <2> DEFINE j == [NoJob EXCEPT !.kind = "shutdown"]
    <2>1. /\ j \in Jobs /\ j.session = None /\ j.transport = None /\ j.kind = "shutdown"
        BY DEF NoJob, Jobs, Maybe, Kinds
    <2>2. Moves(w, "locked", j) /\ pool' = pool /\ ~InFlight(pc[w])
        BY <1>a, <1>3 DEF Moves, RequestShutdown, AwaitMutex, Goto, InFlight
    <2> HIDE DEF j
    <2>3. LocalOK(w)'
        <3>1. pc'[w] = "locked" /\ job'[w] = j
            BY <1>a, <2>2 DEF Moves
        <3>2. /\ "shutdown" \notin Operations /\ "shutdown" # "tunnel_close"
              /\ "shutdown" \notin ProfileOps
            BY DEF Operations, ProfileOps
        <3> QED BY <2>1, <3>1, <3>2 DEF LocalOK, InFlight
    <2>4. LocalInv' BY <1>a, <1>b, <2>1, <2>2, <2>3, MoveLocal
    <2>5. SameFlight(job', job) BY <1>a, <2>1, <2>2, QuietFlight DEF Moves
    <2> QED BY <2>2, <2>4, <2>5, QuietKept DEF IInv, Moves
<1>4. ASSUME NEW p \in Profiles, RequestDelete(w, p)
      PROVE  IInv'
    <2> DEFINE j == [NoJob EXCEPT !.kind = "delete", !.arg = p, !.definition = file[p]]
    <2>1. /\ j \in Jobs /\ j.session = None /\ j.transport = None /\ j.arg = p
          /\ j.kind = "delete"
        BY <1>a DEF NoJob, Jobs, Maybe, Kinds, Configs
    <2>2. Moves(w, "check", j) /\ pool' = pool /\ ~InFlight(pc[w])
        BY <1>a, <1>4 DEF Moves, RequestDelete, AwaitMutex, Goto, InFlight
    <2> HIDE DEF j
    <2>3. LocalOK(w)'
        <3>1. pc'[w] = "check" /\ job'[w] = j
            BY <1>a, <2>2 DEF Moves
        <3> QED BY <2>1, <3>1 DEF LocalOK, InFlight
    <2>4. LocalInv' BY <1>a, <1>b, <2>1, <2>2, <2>3, MoveLocal
    <2>5. SameFlight(job', job) BY <1>a, <2>1, <2>2, QuietFlight DEF Moves
    <2> QED BY <2>2, <2>4, <2>5, QuietKept DEF IInv, Moves
<1>5. ASSUME NEW p \in Profiles, NEW definition \in Definitions,
             RequestCreate(w, p, definition)
      PROVE  IInv'
    <2> DEFINE j == [NoJob EXCEPT !.kind = "create", !.arg = p, !.definition = definition]
    <2>1. /\ j \in Jobs /\ j.session = None /\ j.transport = None /\ j.arg = p
          /\ j.definition = definition
        BY DEF NoJob, Jobs, Maybe, Kinds
    <2>2. Moves(w, "write_wait", j) /\ pool' = pool /\ ~InFlight(pc[w])
        BY <1>a, <1>5 DEF Moves, RequestCreate, AwaitGuard, Goto, InFlight
    <2> HIDE DEF j
    <2>3. LocalOK(w)'
        <3>1. pc'[w] = "write_wait" /\ job'[w] = j
            BY <1>a, <2>2 DEF Moves
        <3> QED BY <2>1, <3>1 DEF LocalOK, InFlight
    <2>4. LocalInv' BY <1>a, <1>b, <2>1, <2>2, <2>3, MoveLocal
    <2>5. SameFlight(job', job) BY <1>a, <2>1, <2>2, QuietFlight DEF Moves
    <2> QED BY <2>2, <2>4, <2>5, QuietKept DEF IInv, Moves
<1> QED BY <1>1, <1>2, <1>3, <1>4, <1>5 DEF Receive

\* What the invariant says, by parts.
LEMMA Parts ==
    ASSUME IInv
    PROVE  /\ LocalInv /\ Kept(pool, job, file) /\ GoodPool(pool) /\ pool \in Pools
           /\ file \in Configs /\ readers \subseteq Workers /\ writer \in Maybe(Workers)
           /\ pc \in [Workers -> Labels] /\ job \in [Workers -> Jobs]
           /\ writer # None => readers = {}
           /\ validate(file)
           /\ \A w \in Workers : LocalOK(w)
BY DEF IInv, LocalInv, Shape, ConfigLoads, Kept, GoodPool

\* An operation is over, and the sessions are those of q.
LEMMA ServedInv ==
    ASSUME IInv, NEW w \in Workers, ~InFlight(pc[w]), Return(w), file' = file,
           NEW q, Kept(q, job, file), NEW held, SetPool(q, held)
    PROVE  IInv'
<1>1. LocalInv /\ LocalInv' BY ReturnLocal DEF IInv
<1>2. SameFlight(job', job) BY <1>1, QuietReturn
<1> QED BY <1>1, <1>2, ServedKept DEF IInv

\* A request that is over, and nothing else.
LEMMA RefusedInv ==
    ASSUME IInv, NEW w \in Workers, ~InFlight(pc[w]), Return(w), file' = file, pool' = pool
    PROVE  IInv'
<1>1. LocalInv /\ LocalInv' BY ReturnLocal DEF IInv
<1>2. SameFlight(job', job) BY <1>1, QuietReturn
<1> QED BY <1>1, <1>2, QuietKept DEF IInv

\* The configuration is loaded under the read guard, and checked for the profile.
LEMMA LoadInv ==
    ASSUME IInv, NEW w \in Workers, LoadGuarded(w)
    PROVE  IInv'
<1> DEFINE kind == job[w].kind
           arg == job[w].arg
           j == Loaded(kind, arg)
<1>1. ~InFlight(pc[w]) /\ file' = file /\ pool' = pool /\ pc[w] = "read_wait"
    BY DEF LoadGuarded, InFlight
<1>2. CASE Return(w) BY <1>1, <1>2, RefusedInv
<1>3. CASE ~Return(w)
    <2>1. /\ Accepted(kind, arg) /\ readers' = readers \cup {w} /\ writer' = writer
          /\ writer = None /\ job' = [job EXCEPT ![w] = j] /\ pc' = [pc EXCEPT ![w] = "locked"]
        BY <1>3 DEF LoadGuarded, AwaitMutex, Goto, MayRead
    <2>2. Moves(w, "locked", j)
        BY <1>1, <2>1, Parts DEF Moves
    <2>3. /\ j \in Jobs /\ j.session = None /\ j.transport = None
          /\ j.kind = kind /\ j.arg = arg /\ j.config = file
        <3>1. job[w] \in Jobs /\ file \in Configs BY Parts
        <3> QED BY <3>1 DEF Loaded, NoJob, Jobs, Maybe
    <2>4. LocalOK(w)'
        <3>1. pc'[w] = "locked" /\ job'[w] = j
            BY <2>2, Parts DEF Moves
        <3>2. LocalOK(w) /\ file \in Configs /\ validate(file) BY Parts
        <3> HIDE DEF j
        <3> QED BY <1>1, <2>1, <2>3, <3>1, <3>2 DEF LocalOK, InFlight, Accepted
    <2> HIDE DEF j
    <2>5. LocalInv' BY <2>2, <2>3, <2>4, MoveLocal, Parts DEF Labels
    <2>6. SameFlight(job', job) BY <1>1, <2>1, <2>3, QuietFlight, Parts
    <2> QED BY <1>1, <2>5, <2>6, QuietKept DEF IInv
<1> QED BY <1>2, <1>3

\* A command is prepared, on a session found, opened over a transport of its
\* namespace or over a new one.
LEMMA PrepareInv ==
    ASSUME IInv, NEW w \in Workers, PrepareExec(w)
    PROVE  IInv'
<1>1. /\ pc[w] = "locked" /\ job[w].kind = "exec" /\ file' = file
      /\ job[w].kind \in ProfileOps /\ ~InFlight(pc[w])
    BY DEF PrepareExec, Serving, InFlight, ProfileOps
<1>2. LocalOK(w) /\ job \in [Workers -> Jobs] BY Parts
<1>3. ASSUME NEW res \in Ensured(w), SetPool(res.pool, HeldBut(w)), Return(w)
      PROVE  IInv'
    <2>1. Kept(res.pool, job, file) BY <1>1, EnsuredKept
    <2> QED BY <1>1, <1>3, <2>1, ServedInv
<1>4. ASSUME NEW res \in Ensured(w), res.id # None,
             LET transport == res.pool.sessions[res.id].transport
             IN  /\ SetPool(prepare_exec(res.pool, res.id), HeldBut(w) \cup {transport})
                 /\ job' = [job EXCEPT ![w] = [NoJob EXCEPT !.session = res.id,
                                                            !.transport = transport]],
             Goto(w, "running"), readers' = readers, writer' = writer
      PROVE  IInv'
    <2> DEFINE p == res.pool
               id == res.id
               t == p.sessions[id].transport
               j == [NoJob EXCEPT !.session = id, !.transport = t]
    <2>1. Kept(p, job, file) /\ id \in Present(p) /\ p.sessions[id].ns = NamespaceOf[w]
        BY <1>1, <1>4, EnsuredKept
    <2>2. Started(job', job, w, id, t) /\ SetPool(prepare_exec(p, id), HeldBut(w) \cup {t})
        BY <1>4 DEF Started
    <2>3. id \in SessionIds /\ t \in SessionIds
        BY <2>1, PoolParts DEF Kept, GoodPool, SessionInfo
    <2>4. j \in Jobs /\ j.session = id /\ j.transport = t
        BY <2>3 DEF NoJob, Jobs, Maybe
    <2>5. Moves(w, "running", j)
        BY <1>1, <1>4, Parts DEF Moves, Goto
    <2> HIDE DEF p, id, t, j
    <2>6. LocalOK(w)'
        <3>1. pc'[w] = "running" /\ job'[w] = j
            BY <2>5, Parts DEF Moves
        <3> QED BY <2>3, <2>4, <3>1 DEF LocalOK, InFlight
    <2>7. LocalInv' BY <2>4, <2>5, <2>6, MoveLocal, Parts DEF Labels
    <2>8. Kept(prepare_exec(p, id), job', file)
        BY <1>1, <1>2, <2>1, <2>2, PrepareKept DEF LocalOK, t
    <2>9. Kept(pool, job, file)'
        BY <1>1, <2>2, <2>8, PoolKept
    <2> QED BY <2>7, <2>9 DEF IInv
<1> QED BY <1>3, <1>4 DEF PrepareExec

\* A remote command ends, and its worker wants the mutex again.
LEMMA EndInv ==
    ASSUME IInv, NEW w \in Workers, EndExec(w)
    PROVE  IInv'
<1>1. /\ pc[w] = "running" /\ pc' = [pc EXCEPT ![w] = "finish"] /\ job' = job
      /\ pool' = pool /\ file' = file /\ readers' = readers /\ writer' = writer
    BY DEF EndExec, AwaitMutex, Goto
<1>2. job[w] \in Jobs /\ LocalOK(w) BY Parts
<1>3. Moves(w, "finish", job[w]) BY <1>1, Parts DEF Moves
<1>4. LocalOK(w)'
    <2>1. pc'[w] = "finish" /\ job'[w] = job[w] BY <1>1, Parts
    <2> QED BY <1>1, <1>2, <2>1 DEF LocalOK, InFlight
<1>5. LocalInv' BY <1>2, <1>3, <1>4, MoveLocal, Parts DEF Labels
<1>6. SameFlight(job', job) BY <1>1 DEF SameFlight
<1> QED BY <1>1, <1>5, <1>6, QuietKept DEF IInv

\* A command that is over.
LEMMA OverInv ==
    ASSUME IInv, NEW w \in Workers, InFlight(pc[w]), Return(w), file' = file,
           NEW q, Ended(q, pool, job[w].session), NEW held, SetPool(q, held)
    PROVE  IInv'
<1>1. LocalInv' BY ReturnLocal DEF IInv
<1>2. job[w].session \in SessionIds /\ job' = [job EXCEPT ![w] = NoJob]
    BY Parts DEF LocalOK, Return
<1>3. Kept(q, job', file) BY <1>2, Parts, EndKept
<1>4. Kept(pool, job, file)' BY <1>3, PoolKept
<1> QED BY <1>1, <1>4 DEF IInv

\* finish_exec, also for a session that was closed meanwhile.
LEMMA FinishInv ==
    ASSUME IInv, NEW w \in Workers, FinishExec(w)
    PROVE  IInv'
<1>1. /\ InFlight(pc[w]) /\ Return(w) /\ file' = file
      /\ SetPool(finish_exec(pool, job[w].session), HeldBut(w))
    BY DEF FinishExec, InFlight
<1>2. job[w].session \in SessionIds BY <1>1, Parts DEF LocalOK
<1>3. Ended(finish_exec(pool, job[w].session), pool, job[w].session)
    BY <1>2, Parts, FinishEnds
<1> QED BY <1>1, <1>3, OverInv

\* A request is dropped, with or without a command.
LEMMA DropInv ==
    ASSUME IInv, NEW w \in Workers, DropRequest(w)
    PROVE  IInv'
<1>1. Return(w) /\ file' = file /\ SetPool(Leak(pool, job[w].session), HeldBut(w))
    BY Zenon DEF DropRequest, Leak
<1>2. CASE InFlight(pc[w])
    <2>1. Ended(Leak(pool, job[w].session), pool, job[w].session)
        BY Parts, LeakEnds
    <2> QED BY <1>1, <1>2, <2>1, OverInv
<1>3. CASE ~InFlight(pc[w])
    <2>1. job[w].session = None BY <1>3, Parts DEF LocalOK
    <2>2. Leak(pool, job[w].session) = pool
        BY <2>1, SessionAssumption DEF Leak, Present
    <2> QED BY <1>1, <1>3, <2>2, Parts, ServedInv
<1> QED BY <1>2, <1>3

\* Sessions alike are sessions of p.
LEMMA AlikeWithin ==
    ASSUME NEW q, NEW p, Alike(q, p)
    PROVE  Within(q, p)
BY DEF Alike, Within

\* The operations that are over when they leave the mutex.
LEMMA ServeInv ==
    ASSUME IInv, NEW w \in Workers,
           \/ Transfer(w) \/ TunnelOpen(w) \/ TunnelClose(w)
           \/ SessionClose(w) \/ ReapAll(w) \/ Shutdown(w)
    PROVE  IInv'
<1>1. pc[w] = "locked" /\ ~InFlight(pc[w]) /\ Return(w) /\ file' = file
    BY DEF Transfer, TunnelOpen, TunnelClose, SessionClose, ReapAll, Shutdown, Serving, InFlight
<1>2. LocalOK(w) /\ Kept(pool, job, file) /\ GoodPool(pool) BY Parts
<1>3. SUFFICES \/ pool' = pool
               \/ \E q : Kept(q, job, file) /\ SetPool(q, HeldBut(w))
    BY <1>1, ServedInv, RefusedInv
<1>4. CASE Transfer(w)
    <2>1. job[w].kind \in ProfileOps BY <1>4 DEF Transfer, Serving, ProfileOps
    <2>2. PICK res \in Ensured(w) : SetPool(res.pool, HeldBut(w)) BY <1>4 DEF Transfer
    <2> QED BY <1>1, <2>1, <2>2, EnsuredKept
<1>5. CASE TunnelOpen(w)
    <2>1. job[w].kind \in ProfileOps BY <1>5 DEF TunnelOpen, Serving, ProfileOps
    <2>2. PICK res \in Ensured(w) :
             \/ SetPool(res.pool, HeldBut(w))
             \/ /\ res.id # None
                /\ \E t \in TunnelIds : SetPool(tunnel_open(res.pool, res.id, t), HeldBut(w))
        BY <1>5 DEF TunnelOpen
    <2>3. Kept(res.pool, job, file) /\ (res.id # None => res.id \in Present(res.pool))
        BY <1>1, <2>1, EnsuredKept
    <2>4. CASE SetPool(res.pool, HeldBut(w)) BY <2>3, <2>4
    <2>5. ASSUME NEW t \in TunnelIds, res.id # None,
                 SetPool(tunnel_open(res.pool, res.id, t), HeldBut(w))
          PROVE  \E q : Kept(q, job, file) /\ SetPool(q, HeldBut(w))
        <3> DEFINE q == tunnel_open(res.pool, res.id, t)
        <3>1. GoodPool(q) /\ Within(q, res.pool)
            BY <2>3, <2>5, TunnelOpenGood, AlikeWithin DEF Kept
        <3>2. Kept(q, job, file) BY <2>3, <3>1, WithinKept
        <3> QED BY <2>5, <3>2
    <2> QED BY <2>2, <2>4, <2>5
<1>6. CASE TunnelClose(w)
    <2> DEFINE q == tunnel_close(pool, NamespaceOf[w], job[w].arg)
    <2>1. job[w].arg \in TunnelIds BY <1>1, <1>2, <1>6 DEF TunnelClose, Serving, LocalOK
    <2>2. GoodPool(q) /\ Within(q, pool) BY <1>2, <2>1, TunnelCloseGood, AlikeWithin
    <2>3. Kept(q, job, file) BY <1>2, <2>2, WithinKept
    <2> QED BY <1>6, <2>3 DEF TunnelClose
<1>7. ASSUME NEW ids \in SUBSET Present(pool), SetPool(CloseSessions(pool, ids), HeldBut(w))
      PROVE  \E q : Kept(q, job, file) /\ SetPool(q, HeldBut(w))
    <2>1. Kept(CloseSessions(pool, ids), job, file) BY <1>2, CloseGood, WithinKept
    <2> QED BY <1>7, <2>1
<1>8. CASE SessionClose(w)
    <2> DEFINE ids == {id \in {job[w].arg} : Owns(pool, NamespaceOf[w], id)}
    <2>1. ids \in SUBSET Present(pool) BY DEF Owns
    <2>2. SetPool(CloseSessions(pool, ids), HeldBut(w)) BY <1>8 DEF SessionClose
    <2> QED BY <1>7, <2>1, <2>2
<1>9. CASE ReapAll(w)
    <2>1. Kept(reap_idle_sessions(pool, Namespaces), job, file) BY <1>2, ReapGood, WithinKept
    <2> QED BY <1>9, <2>1 DEF ReapAll
<1>10. CASE Shutdown(w) BY <1>7, <1>10 DEF Shutdown
<1> QED BY <1>4, <1>5, <1>6, <1>8, <1>9, <1>10

-----------------------------------------------------------------------------
(* The configuration file                                                    *)

\* The first look at the sessions, for a deletion.
LEMMA CheckInv ==
    ASSUME IInv, NEW w \in Workers, CheckDelete(w)
    PROVE  IInv'
<1>1. pc[w] = "check" /\ ~InFlight(pc[w]) /\ file' = file /\ pool' = pool
    BY DEF CheckDelete, InFlight
<1>2. CASE Return(w) BY <1>1, <1>2, RefusedInv
<1>3. CASE ~Return(w)
    <2>1. /\ pc' = [pc EXCEPT ![w] = "write_wait"] /\ job' = job
          /\ readers' = readers /\ writer' = writer
        BY <1>3 DEF CheckDelete, AwaitGuard, Goto
    <2>2. LocalOK(w) /\ job[w] \in Jobs BY Parts
    <2>3. Moves(w, "write_wait", job[w]) BY <1>1, <2>1, Parts DEF Moves
    <2>4. job[w].kind # "create"
        BY <1>1, <2>2 DEF LocalOK
    <2>5. LocalOK(w)'
        <3>1. pc'[w] = "write_wait" /\ job'[w] = job[w] BY <2>1, Parts
        <3> QED BY <1>1, <2>2, <2>4, <3>1 DEF LocalOK, InFlight
    <2>6. LocalInv' BY <2>2, <2>3, <2>5, MoveLocal, Parts DEF Labels
    <2>7. SameFlight(job', job) BY <2>1 DEF SameFlight
    <2> QED BY <1>1, <2>6, <2>7, QuietKept DEF IInv
<1> QED BY <1>2, <1>3

\* The second, under the write guard, which the deletion keeps.
LEMMA RecheckInv ==
    ASSUME IInv, NEW w \in Workers, RecheckDelete(w)
    PROVE  IInv'
<1>1. /\ pc[w] = "write_wait" /\ ~InFlight(pc[w]) /\ file' = file /\ pool' = pool
      /\ readers = {} /\ writer = None
    BY DEF RecheckDelete, InFlight, MayWrite, MayRead
<1>2. CASE Return(w) BY <1>1, <1>2, RefusedInv
<1>3. CASE ~Return(w)
    <2>1. /\ pc' = [pc EXCEPT ![w] = "commit"] /\ job' = job /\ readers' = readers
          /\ writer' = w /\ Deletable(file, job[w].arg)
        BY <1>3 DEF RecheckDelete, AwaitMutex, Goto
    <2>2. LocalOK(w) /\ job[w] \in Jobs BY Parts
    <2>3. Moves(w, "commit", job[w])
        BY <1>1, <2>1, Parts, GatewayAssumption DEF Moves, Maybe
    <2>4. LocalOK(w)'
        <3>1. pc'[w] = "commit" /\ job'[w] = job[w] BY <2>1, Parts
        <3> QED BY <1>1, <2>1, <2>2, <3>1 DEF LocalOK, InFlight
    <2>5. LocalInv' BY <2>2, <2>3, <2>4, MoveLocal, Parts DEF Labels
    <2>6. SameFlight(job', job) BY <2>1 DEF SameFlight
    <2> QED BY <1>1, <2>5, <2>6, QuietKept DEF IInv
<1> QED BY <1>2, <1>3

\* The file changes where no session that is bound to it looks.
LEMMA FileKept ==
    ASSUME IInv, NEW w \in Workers, ~InFlight(pc[w]), Return(w), pool' = pool,
           Current(pool, file')
    PROVE  Kept(pool, job, file)'
<1>1. SameFlight(job', job) BY QuietReturn DEF IInv
<1>2. Kept(pool, job, file') BY Parts DEF Kept
<1> QED BY <1>1, <1>2, FlightKept, KeptNext

\* A creation is written while nobody reads: no session is bound to the entry it
\* sets, for there was none.
LEMMA CommitCreateInv ==
    ASSUME IInv, NEW w \in Workers, CommitCreate(w)
    PROVE  IInv'
<1>1. /\ pc[w] = "write_wait" /\ ~InFlight(pc[w]) /\ Return(w) /\ pool' = pool
      /\ readers = {} /\ writer = None /\ job[w].kind = "create"
    BY DEF CommitCreate, InFlight, MayWrite, MayRead
<1>2. CASE file' = file BY <1>1, <1>2, RefusedInv
<1>3. CASE file' # file
    <2> DEFINE p == job[w].arg
               definition == job[w].definition
    <2>1. Creatable(file, p, definition) /\ file' = [file EXCEPT ![p] = definition]
        BY <1>3 DEF CommitCreate
    <2>2. p \in Profiles /\ definition \in Definitions
        BY <1>1, Parts DEF LocalOK
    <2>3. file' \in Configs /\ validate(file')
        BY <2>1, <2>2, Parts DEF Configs, Maybe, Creatable
    <2>4. LocalInv' BY <1>1, <2>3, Parts, CommitLocal
    <2>5. Current(pool, file')
        <3> SUFFICES ASSUME NEW id \in Present(pool), pool.sessions[id].guarded
                     PROVE  file'[pool.sessions[id].profile] = pool.sessions[id].definition
            BY DEF Current
        <3>1. file[pool.sessions[id].profile] = pool.sessions[id].definition
            BY Parts DEF Kept, Current
        <3>2. pool.sessions[id] \in SessionInfo BY Parts, PoolParts
        <3>3. file[p] = None BY <2>1 DEF Creatable
        <3>4. pool.sessions[id].profile \in Profiles /\ pool.sessions[id].profile # p
            BY <3>1, <3>2, <3>3, SessionAssumption DEF SessionInfo
        <3> QED BY <2>1, <2>2, <3>1, <3>4, Parts DEF Configs
    <2>6. Kept(pool, job, file)' BY <1>1, <2>5, FileKept
    <2> QED BY <2>4, <2>6 DEF IInv
<1> QED BY <1>2, <1>3

\* A deletion is written under both locks: no session is bound to the entry it
\* takes, it is nobody's upstream, and it is not the last.
LEMMA CommitDeleteInv ==
    ASSUME IInv, NEW w \in Workers, CommitDelete(w)
    PROVE  IInv'
<1>1. pc[w] = "commit" /\ ~InFlight(pc[w]) /\ Return(w) /\ pool' = pool
    BY DEF CommitDelete, InFlight
<1>2. CASE file' = file BY <1>1, <1>2, RefusedInv
<1>3. CASE file' # file
    <2> DEFINE p == job[w].arg
    <2>1. ~has_any_profile_session(pool, p) /\ file' = [file EXCEPT ![p] = None]
        BY <1>3 DEF CommitDelete
    <2>2. p \in Profiles /\ writer = w /\ Deletable(file, p)
        BY <1>1, Parts DEF LocalOK
    <2>3. readers = {} BY <2>2, Parts, GatewayAssumption
    <2>4. file' \in Configs BY <2>1, <2>2, Parts DEF Configs, Maybe
    <2>5. ProfilesIn(file') = ProfilesIn(file) \ {p}
        BY <2>1, <2>2, Parts DEF ProfilesIn, Configs
    <2>6. validate(file')
        <3>1. ProfilesIn(file') # {}
            <4> SUFFICES ASSUME ProfilesIn(file') = {} PROVE FALSE
                OBVIOUS
            <4>1. ProfilesIn(file) = {p}
                BY <2>2, <2>5 DEF Deletable, ProfilesIn
            <4> QED BY <2>2, <4>1, FS_Singleton DEF Deletable
        <3>2. \A q \in ProfilesIn(file') : Via[q] \in {None} \cup ProfilesIn(file')
            BY <2>2, <2>5, Parts DEF validate, Deletable
        <3> QED BY <3>1, <3>2 DEF validate
    <2>7. LocalInv' BY <1>1, <2>2, <2>3, <2>4, <2>6, Parts, CommitLocal
    <2>8. Current(pool, file')
        <3> SUFFICES ASSUME NEW id \in Present(pool), pool.sessions[id].guarded
                     PROVE  file'[pool.sessions[id].profile] = pool.sessions[id].definition
            BY DEF Current
        <3>1. file[pool.sessions[id].profile] = pool.sessions[id].definition
            BY Parts DEF Kept, Current
        <3>2. pool.sessions[id].profile # p
            BY <2>1 DEF has_any_profile_session
        <3>3. pool.sessions[id].profile \in Profiles
            BY Parts, PoolParts DEF SessionInfo
        <3> QED BY <2>1, <3>1, <3>2, <3>3, Parts DEF Configs
    <2>9. Kept(pool, job, file)' BY <1>1, <2>8, FileKept
    <2> QED BY <2>7, <2>9 DEF IInv
<1> QED BY <1>2, <1>3

-----------------------------------------------------------------------------
(* The environment                                                           *)

\* Sessions grow idle and connections break.
LEMMA EnvironmentInv ==
    ASSUME IInv, NEW id \in SessionIds, GrowIdle(id) \/ LoseTransport(id)
    PROVE  IInv'
<1>1. /\ file' = file /\ readers' = readers /\ writer' = writer /\ pc' = pc /\ job' = job
    BY DEF GrowIdle, LoseTransport, locks
<1>2. LocalInv'
    BY <1>1, Parts DEF LocalInv, Shape, ConfigLoads, validate, ProfilesIn, LocalOK, InFlight
<1>3. GoodPool(pool') /\ Within(pool', pool)
    <2>1. CASE GrowIdle(id)
        <3> DEFINE s == [pool.sessions[id] EXCEPT !.idle = TRUE]
        <3>1. id \in Present(pool) /\ pool.sessions[id] \in SessionInfo /\ pool \in Pools
            BY <2>1, Parts, PoolParts DEF GrowIdle
        <3>2. /\ s \in SessionInfo /\ SameSession(s, pool.sessions[id])
              /\ SameCount(s, pool.sessions[id])
            BY <3>1 DEF SessionInfo, SameSession, SameCount
        <3>3. pool' = [pool EXCEPT !.sessions[id] = s]
            BY <2>1, <3>1 DEF GrowIdle, Pools
        <3> HIDE DEF s
        <3>4. Changed(pool', pool, id, s) BY <3>1, <3>2, <3>3, Parts DEF Changed
        <3>5. /\ GoodPool(pool') /\ Present(pool') = Present(pool) /\ pool'.sessions[id] = s
              /\ \A i \in Present(pool) \ {id} : pool'.sessions[i] = pool.sessions[i]
            BY <3>4, ChangeGood
        <3> QED BY <3>2, <3>5 DEF Within, SameSession, SameCount
    <2>2. CASE LoseTransport(id)
        <3>1. Rewired(pool', pool, pool.wires \ {id})
            BY <2>2, Parts, PoolParts DEF LoseTransport, Rewired
        <3>2. /\ GoodPool(pool') /\ pool'.sessions = pool.sessions
              /\ Present(pool') = Present(pool)
            BY <3>1, WiresGood
        <3> QED BY <3>2 DEF Within, SameSession, SameCount
    <2> QED BY <2>1, <2>2
<1>4. Kept(pool', job, file) BY <1>3, Parts, WithinKept
<1> QED BY <1>1, <1>2, <1>4, KeptNext DEF IInv

-----------------------------------------------------------------------------
(* Theorems                                                                  *)

\* The invariant holds at the start,
LEMMA InitInv == Init => IInv
<1> SUFFICES ASSUME Init PROVE IInv
    OBVIOUS
<1> USE DEF Init
<1>1. Present(pool) = {} BY DEF Present, EmptyPool
<1>2. Matches(pool)
    BY <1>1 DEF Matches, EmptyPool
<1>3. pool \in Pools BY DEF EmptyPool, Pools, Maybe
<1>4. \A id \in SessionIds : Users(job, id) = {}
    BY NoJobIsJob, SessionAssumption DEF Users
<1>5. Counted(pool, job)
    BY <1>1, <1>4, FS_EmptySet DEF Counted
<1>6. Apart(pool, job)
    BY <1>1, NoJobIsJob, SessionAssumption DEF Apart, Uses
<1>7. Current(pool, file) BY <1>1 DEF Current
<1>8. Kept(pool, job, file) BY <1>2, <1>3, <1>5, <1>6, <1>7 DEF Kept, GoodPool
<1>9. Shape /\ ConfigLoads
    BY GatewayAssumption, NoJobIsJob DEF Shape, ConfigLoads, Maybe, Labels
<1>10. \A w \in Workers : LocalOK(w)
    BY NoJobIsJob DEF LocalOK, InFlight
<1> QED BY <1>8, <1>9, <1>10 DEF IInv, LocalInv

\* and every step preserves it.
LEMMA NextInv == IInv /\ [Next]_vars => IInv'
<1> SUFFICES ASSUME IInv, [Next]_vars PROVE IInv'
    OBVIOUS
<1>1. ASSUME NEW w \in Workers, Receive(w)
      PROVE  IInv'
    BY <1>1, RequestInv
<1>2. ASSUME NEW w \in Workers, Step(w)
      PROVE  IInv'
    BY <1>2, LoadInv, PrepareInv, EndInv, FinishInv, ServeInv, CheckInv, CommitCreateInv,
       RecheckInv, CommitDeleteInv DEF Step
<1>3. ASSUME NEW w \in Workers, DropRequest(w)
      PROVE  IInv'
    BY <1>3, DropInv
<1>4. ASSUME NEW id \in SessionIds, GrowIdle(id) \/ LoseTransport(id)
      PROVE  IInv'
    BY <1>4, EnvironmentInv
<1>5. CASE UNCHANGED vars
    <2>1. /\ file' = file /\ pool' = pool /\ readers' = readers /\ writer' = writer
          /\ pc' = pc /\ job' = job
        BY <1>5 DEF vars, locks
    <2>2. LocalInv'
        BY <2>1, Parts DEF LocalInv, Shape, ConfigLoads, validate, ProfilesIn, LocalOK, InFlight
    <2> QED BY <2>1, <2>2, KeptNext DEF IInv
<1> QED BY <1>1, <1>2, <1>3, <1>4, <1>5 DEF Next

\* What is kept of the sessions, the commands and the file holds in every state.
THEOREM InvCorrect == Spec => []IInv
<1> QED BY InitInv, NextInv, PTL DEF Spec

\* The index and the sessions stay inverse to each other: a session that is open is
\* found and reused, and no key leads to one that is gone or is another namespace's
\* (SessionManager: sessions and by_profile).
THEOREM SessionsAreFound == Spec => []IndexMatches
<1>1. IInv => IndexMatches
    BY DEF IInv, Kept, GoodPool, Matches, IndexMatches, Key
<1> QED BY <1>1, InvCorrect, PTL

\* active_operations is the number of commands in flight and of those that were
\* dropped: finish_exec never meets a session that took its own's place.
THEOREM CommandsAreCounted == Spec => []ActiveCounts
<1>1. IInv => ActiveCounts
    BY DEF IInv, Kept, Counted, ActiveCounts, Users
<1> QED BY <1>1, InvCorrect, PTL

\* Sessions and commands over one transport belong to one namespace.
THEOREM NamespacesStayApart == Spec => []NamespacesApart
<1>1. IInv => NamespacesApart
    <2> SUFFICES ASSUME IInv PROVE NamespacesApart
        OBVIOUS
    <2> DEFINE S == {<<pool.sessions[id].transport, pool.sessions[id].ns>> :
                        id \in Present(pool)}
               C == {<<job[w].transport, NamespaceOf[w]>> :
                        w \in {v \in Workers : job[v].transport # None}}
    <2>1. ASSUME NEW u \in S \cup C
          PROVE  u[1] \in SessionIds /\ u[2] \in Namespaces /\ Uses(pool, job, u[1], u[2])
        <3>1. CASE u \in S
            <4>1. PICK id \in Present(pool) :
                     u = <<pool.sessions[id].transport, pool.sessions[id].ns>>
                BY <3>1
            <4>2. pool.sessions[id] \in SessionInfo BY Parts, PoolParts
            <4> QED BY <4>1, <4>2 DEF Uses, SessionInfo
        <3>2. CASE u \in C
            <4>1. PICK w \in Workers : /\ job[w].transport # None
                                       /\ u = <<job[w].transport, NamespaceOf[w]>>
                BY <3>2
            <4>2. job[w].transport \in SessionIds BY <4>1, Parts DEF LocalOK
            <4> QED BY <4>1, <4>2, GatewayAssumption DEF Uses
        <3> QED BY <3>1, <3>2
    <2>2. Apart(pool, job) BY Parts DEF Kept
    <2>3. \A u, v \in S \cup C : u[1] = v[1] => u[2] = v[2]
        BY <2>1, <2>2 DEF Apart
    <2> QED BY <2>3 DEF NamespacesApart
<1> QED BY <1>1, InvCorrect, PTL

\* A session opened under the config guard stands for what the file says of its
\* profile: no deletion, and no creation after one, passes it by.
THEOREM SessionsAreCurrent == Spec => []SessionsCurrent
<1>1. IInv => SessionsCurrent
    BY DEF IInv, Kept, Current, SessionsCurrent
<1> QED BY <1>1, InvCorrect, PTL

\* Profile mutations, together, leave a file that validates.
THEOREM ConfigStaysLoadable == Spec => []ConfigLoads
<1>1. IInv => ConfigLoads
    BY DEF IInv, LocalInv
<1> QED BY <1>1, InvCorrect, PTL

\* A worker moves no other.
LEMMA OthersWait ==
    ASSUME NEW u \in Workers, Receive(u) \/ Step(u) \/ DropRequest(u), IInv,
           NEW w \in Workers \ {u}
    PROVE  pc'[w] = pc[w]
<1>1. \E l : pc' = [pc EXCEPT ![u] = l]
    <2>1. CASE Receive(u)
        BY <2>1 DEF Receive, RequestGuarded, RequestUnguarded, RequestShutdown, RequestDelete,
           RequestCreate, AwaitGuard, AwaitMutex, Goto
    <2>2. CASE Step(u)
        BY <2>2 DEF Step, LoadGuarded, PrepareExec, EndExec, FinishExec, Transfer, TunnelOpen,
           TunnelClose, SessionClose, ReapAll, Shutdown, CheckDelete, CommitCreate,
           RecheckDelete, CommitDelete, Return, AwaitGuard, AwaitMutex, Goto
    <2>3. CASE DropRequest(u)
        BY <2>3 DEF DropRequest, Return, Goto
    <2> QED BY <2>1, <2>2, <2>3
<1> QED BY <1>1, Parts

\* The maintenance task takes no session from under a command or an open tunnel.
THEOREM ReapSparesTheBusy == Spec => ReapSparesUsers
<1> DEFINE A(w) == (Serving(w, "reap") /\ pc'[w] = "idle") =>
                      \A id \in Present(pool) \ Present(pool') :
                          /\ \A v \in Workers : job[v].session # id
                          /\ TunnelsOf(pool, id) = {}
<1>1. ASSUME IInv, [Next]_vars, NEW w \in Workers, Serving(w, "reap"), pc'[w] = "idle",
             NEW id \in Present(pool) \ Present(pool')
      PROVE  (\A v \in Workers : job[v].session # id) /\ TunnelsOf(pool, id) = {}
    <2>1. pc[w] = "locked" /\ job[w].kind = "reap" BY <1>1 DEF Serving
    <2>2. pc' # pc BY <1>1, <2>1
    <2>3. ASSUME NEW i \in SessionIds, GrowIdle(i) \/ LoseTransport(i) PROVE FALSE
        BY <2>2, <2>3 DEF GrowIdle, LoseTransport
    <2>4. PICK u \in Workers : Receive(u) \/ Step(u) \/ DropRequest(u)
        BY <1>1, <2>2, <2>3 DEF Next, vars
    <2>5. u = w BY <1>1, <2>1, <2>4, OthersWait
    <2>6. ReapAll(w) \/ DropRequest(w)
        <3>1. ~Receive(w)
            BY <2>1 DEF Receive, RequestGuarded, RequestUnguarded, RequestShutdown,
               RequestDelete, RequestCreate
        <3>2. Step(w) => ReapAll(w)
            BY <2>1 DEF Step, LoadGuarded, PrepareExec, EndExec, FinishExec, Transfer,
               TunnelOpen, TunnelClose, SessionClose, Shutdown, CheckDelete, CommitCreate,
               RecheckDelete, CommitDelete, Serving
        <3> QED BY <2>4, <2>5, <3>1, <3>2
    <2>7. GoodPool(pool) BY <1>1, Parts
    <2>8. CASE DropRequest(w)
        <3>1. LocalOK(w) BY <1>1, Parts
        <3>2. job[w].session \notin Present(pool)
            BY <2>1, <3>1, SessionAssumption DEF LocalOK, InFlight, Present
        <3>3. pool' = DropUnused(pool, HeldBut(w)) BY <2>8, <3>2 DEF DropRequest, SetPool
        <3> QED BY <1>1, <2>7, <3>3, DropGood
    <2>9. CASE ReapAll(w)
        <3> DEFINE r == reap_idle_sessions(pool, Namespaces)
        <3>1. pool' = DropUnused(r, HeldBut(w)) BY <2>9 DEF ReapAll, SetPool
        <3>2. GoodPool(r) /\ \A i \in Present(pool) \ Present(r) : Reapable(pool, i)
            BY <2>7, ReapGood
        <3> HIDE DEF r
        <3>3. Present(pool') = Present(r) BY <3>1, <3>2, DropGood
        <3>4. Reapable(pool, id) BY <1>1, <3>2, <3>3
        <3>5. id \in SessionIds /\ pool.sessions[id] \in SessionInfo
            BY <1>1, Parts, PoolParts
        <3>6. /\ IsFiniteSet(Users(job, id))
              /\ pool.sessions[id].active = Cardinality(Users(job, id)) + pool.sessions[id].leaked
            BY <1>1, <3>5, Parts DEF Kept, Counted
        <3>7. Cardinality(Users(job, id)) \in Nat /\ pool.sessions[id].leaked \in Nat
            BY <3>5, <3>6, FS_CardinalityType DEF SessionInfo
        <3>8. Cardinality(Users(job, id)) = 0 BY <3>4, <3>6, <3>7 DEF Reapable
        <3>9. Users(job, id) = {} BY <3>6, <3>8, FS_EmptySet
        <3> QED BY <3>4, <3>9 DEF Users, Reapable
    <2> QED BY <2>6, <2>8, <2>9
<1>2. IInv /\ [Next]_vars => [\A w \in Workers : A(w)]_vars
    BY <1>1
<1> QED BY <1>2, InvCorrect, PTL DEF Spec, ReapSparesUsers

=============================================================================
