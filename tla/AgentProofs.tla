----------------------------- MODULE AgentProofs -----------------------------
(***************************************************************************)
(* The MCP server, for any number of requests, keys, tenants and changes:   *)
(* how old a key may be, that a published one is found, and that callers    *)
(* stay apart and profiles are changed only where that is enabled.  The     *)
(* policy engine, for any policy and texts of any length: a rule that       *)
(* denies only takes away, the wildcard matches what it says, and roots     *)
(* confine by names.  The redactor, for any secrets and texts: none is left. *)
(* The pages of a file, for files and limits of any size.                   *)
(*                                                                         *)
(* Induction over characters and bytes is by the least place where a claim  *)
(* fails, and over the turns of the wildcard's loop by the state that has   *)
(* the least left to do.                                                    *)
(***************************************************************************)
EXTENDS AgentInterface, WellFoundedInduction, FiniteSetTheorems, SequenceTheorems, TLAPS

-----------------------------------------------------------------------------
(* The invariant                                                             *)

IsHandler(h) ==
    h = [pc |-> h.pc, msg |-> h.msg, asked |-> h.asked, got |-> h.got, tenant |-> h.tenant,
         config |-> h.config, found |-> h.found, excused |-> h.excused]

\* What the issuer published is known to have been published.
Times ==
    /\ now \in Nat
    /\ server \in Servers
    /\ published \subseteq Kids
    /\ seen = [k \in Kids |-> seen[k]]
    /\ \A k \in Kids : seen[k] # None => seen[k] \in 0 .. now
    /\ \A k \in published : seen[k] = now

\* Keys that an issuer asked at that time answered with, seen from a later one.
Issued(keys, asked, last, t) ==
    /\ keys \subseteq Kids
    /\ asked \in 0 .. t
    /\ \A k \in keys : last[k] # None /\ last[k] \in asked .. t

CacheInv ==
    cache # None => /\ Issued(cache.keys, cache.asked, seen, now)
                    /\ cache.fetched_at \in 0 .. now

\* The keys a handler has got, or found in the cache.
KeysOf(h, last, t) ==
    /\ h.pc = "fetch" => h.asked \in 0 .. t
    /\ h.pc = "store" => Issued(h.got, h.asked, last, t)
    /\ h.pc = "claims" => /\ Issued({h.msg.token.kid}, h.found.asked, last, t)
                          /\ h.found.at \in Nat /\ h.found.stored \in Nat
                          /\ h.found.at - Ttl <= h.found.stored

\* A handler without an excuse has its key before it, wherever it is.
KeyAhead(h) ==
    /\ h.pc \in {"lookup", "fetch"} => h.msg.token.kid \in published
    /\ h.pc = "store" => h.msg.token.kid \in h.got
    /\ h.pc = "relook" => cached_jwk(h.msg.token.kid)

Past(h) == h.pc \in {"dispatch", "list", "call", "load", "execute", "mutate"}
ManagementPermitted(tenant) ==
    IF tenant = None THEN server.management ELSE tenant.management # FALSE

\* A call is its tenant's, and a mutation was enabled once.
CallOf(h) ==
    /\ Past(h) /\ server.kind = "oauth" =>
          \E i \in DOMAIN server.tenants :
              /\ h.tenant = server.tenants[i]
              /\ h.tenant.resource \in h.msg.token.audiences
    /\ h.config # None => h.pc \in {"execute", "mutate"}
    /\ h.pc \in {"execute", "mutate"} => h.config.path = PathOf(h.tenant)
    /\ h.pc \in {"load", "execute", "mutate"} /\ h.msg.tool \in MutationTools =>
          ManagementPermitted(h.tenant)
    /\ h.pc = "mutate" => h.msg.tool \in MutationTools

HandlerInv(h) ==
    /\ IsHandler(h)
    /\ KeysOf(h, seen, now)
    /\ h.excused \/ KeyAhead(h)
    /\ CallOf(h)

McpInv ==
    /\ Times
    /\ CacheInv
    /\ req = [r \in Requests |-> req[r]]
    /\ \A r \in Requests : HandlerInv(req[r])

-----------------------------------------------------------------------------
(* Time                                                                      *)

\* Time and what was seen of the keys go forward.
LEMMA TimesStep ==
    ASSUME Times, [McpNext]_mcpVars
    PROVE  /\ Times'
           /\ now <= now'
           /\ server' = server
           /\ \A k \in Kids : seen[k] # None => seen'[k] # None /\ seen[k] <= seen'[k]
<1> USE McpAssumption DEF Times
<1>1. ASSUME NEW r \in Requests, Handle(r)
      PROVE  UNCHANGED <<now, server, published, seen>>
    BY <1>1 DEF Handle, Arrive, Lookup, Fetch, Store, Relook, Claims, Dispatch, List, CallTool,
                Load, Execute, Mutate, issuer
<1>2. CASE Tick BY <1>2 DEF Tick
<1>3. CASE Rotate BY <1>3 DEF Rotate
<1>4. CASE EditFile BY <1>4 DEF EditFile, issuer
<1>5. CASE UNCHANGED mcpVars BY <1>5 DEF mcpVars, issuer
<1> QED BY <1>1, <1>2, <1>3, <1>4, <1>5 DEF McpNext

\* What was published when the issuer was asked stays so.
LEMMA IssuedStays ==
    ASSUME Times, [McpNext]_mcpVars, NEW keys, NEW asked, Issued(keys, asked, seen, now)
    PROVE  Issued(keys, asked, seen', now')
BY TimesStep DEF Issued, Times

-----------------------------------------------------------------------------
(* The handlers                                                              *)

\* A handler that no step of its own moves keeps its invariant, if what excuses
\* it is noted.
LEMMA HandlerStays ==
    ASSUME McpInv, [McpNext]_mcpVars, NEW r \in Requests,
           IsHandler(req[r])',
           req'[r].pc = req[r].pc, req'[r].msg = req[r].msg, req'[r].asked = req[r].asked,
           req'[r].got = req[r].got, req'[r].tenant = req[r].tenant,
           req'[r].config = req[r].config, req'[r].found = req[r].found,
           req'[r].excused \/ KeyAhead(req[r])'
    PROVE  HandlerInv(req[r])'
<1>1. HandlerInv(req[r]) BY DEF McpInv
<1>2. Times /\ server' = server /\ now' \in Nat /\ now <= now'
    BY TimesStep DEF McpInv, Times
<1>3. KeysOf(req[r], seen, now)'
    <2>1. CASE req[r].pc = "fetch"
        BY <1>1, <1>2, <2>1 DEF HandlerInv, KeysOf, Times
    <2>2. CASE req[r].pc = "store"
        <3>1. Issued(req[r].got, req[r].asked, seen, now) BY <1>1, <2>2 DEF HandlerInv, KeysOf
        <3>2. Issued(req[r].got, req[r].asked, seen', now') BY <1>2, <3>1, IssuedStays
        <3> QED BY <2>2, <3>2 DEF KeysOf
    <2>3. CASE req[r].pc = "claims"
        <3>1. Issued({req[r].msg.token.kid}, req[r].found.asked, seen, now)
            BY <1>1, <2>3 DEF HandlerInv, KeysOf
        <3>2. Issued({req[r].msg.token.kid}, req[r].found.asked, seen', now')
            BY <1>2, <3>1, IssuedStays
        <3> QED BY <1>1, <2>3, <3>2 DEF HandlerInv, KeysOf
    <2> QED BY <2>1, <2>2, <2>3 DEF KeysOf
<1>4. CallOf(req[r])'
    BY <1>1, <1>2 DEF HandlerInv, CallOf, Past, ManagementPermitted, PathOf
<1> QED BY <1>3, <1>4 DEF HandlerInv

\* A handler's step is its own, but for the excuse it gives to others.
LEMMA OthersStay ==
    ASSUME McpInv, NEW r \in Requests, Handle(r), NEW s \in Requests, s # r
    PROVE  HandlerInv(req[s])'
<1>1. HandlerInv(req[s]) BY DEF McpInv
<1>2. req = [u \in Requests |-> req[u]] BY DEF McpInv
<1>3. UNCHANGED <<now, published>>
    BY DEF Handle, Arrive, Lookup, Fetch, Store, Relook, Claims, Dispatch, List, CallTool, Load,
           Execute, Mutate, issuer
<1>4. McpNext BY DEF McpNext
<1>5. CASE Store(r)
    <2>1. req'[s] = [req[s] EXCEPT !.excused = @ \/ req[s].pc = "relook"]
        BY <1>5 DEF Store, Stored
    <2>2. IsHandler(req[s]) BY <1>1 DEF HandlerInv
    <2>3. IsHandler(req[s])'
        BY <2>1, <2>2 DEF IsHandler
    <2>4. /\ req'[s].pc = req[s].pc /\ req'[s].msg = req[s].msg
          /\ req'[s].asked = req[s].asked /\ req'[s].got = req[s].got
          /\ req'[s].tenant = req[s].tenant /\ req'[s].config = req[s].config
          /\ req'[s].found = req[s].found
          /\ req'[s].excused = (req[s].excused \/ req[s].pc = "relook")
        BY <2>1, <2>2 DEF IsHandler
    <2>5. req'[s].excused \/ KeyAhead(req[s])'
        BY <1>1, <1>3, <2>4 DEF HandlerInv, KeyAhead
    <2> QED BY <1>4, <2>3, <2>4, <2>5, HandlerStays
<1>6. CASE ~Store(r)
    <2>1. req'[s] = req[s]
        BY <1>2, <1>6 DEF Handle, Arrive, Lookup, Found, Fetch, Relook, Claims, Dispatch, List,
                    CallTool, Load, Execute, Mutate, Goto, Becomes, Answered
    <2>2. UNCHANGED cache
        BY <1>6 DEF Handle, Arrive, Lookup, Fetch, Relook, Claims, Dispatch, List, CallTool,
                    Load, Execute, Mutate
    <2>3. IsHandler(req[s])' /\ (req'[s].excused \/ KeyAhead(req[s])')
        BY <1>1, <1>3, <2>1, <2>2 DEF HandlerInv, KeyAhead, cached_jwk, IsHandler
    <2> QED BY <1>4, <2>1, <2>3, HandlerStays
<1> QED BY <1>5, <1>6

\* A handler that answered, or has just begun.
LEMMA AnsweredInv ==
    ASSUME NEW r \in Requests, NEW e, req'[r] = [Idle EXCEPT !.excused = e]
    PROVE  HandlerInv(req[r])'
<1>1. req'[r] = [pc |-> "idle", msg |-> None, asked |-> None, got |-> None, tenant |-> None,
                 config |-> None, found |-> None, excused |-> e]
    BY DEF Idle
<1> QED BY <1>1 DEF HandlerInv, IsHandler, KeysOf, KeyAhead, CallOf, Past

\* A step that looks up a key, or asks for it.
LEMMA KeyStep ==
    ASSUME McpInv, NEW r \in Requests, Lookup(r) \/ Fetch(r) \/ Store(r) \/ Relook(r)
    PROVE  HandlerInv(req[r])'
<1>1. HandlerInv(req[r]) /\ IsHandler(req[r]) BY DEF McpInv, HandlerInv
<1>2. req = [u \in Requests |-> req[u]] /\ Times /\ CacheInv BY DEF McpInv
<1>3. UNCHANGED <<now, server, published, seen>>
    BY DEF Lookup, Fetch, Store, Relook, issuer
<1>4. ASSUME NEW what, Answered(r, what) PROVE HandlerInv(req[r])'
    <2>1. req'[r] = [Idle EXCEPT !.excused = req[r].excused] BY <1>2, <1>4 DEF Answered
    <2> QED BY <2>1, AnsweredInv
<1>5. ASSUME Found(r), cached_jwk(req[r].msg.token.kid), req[r].pc \in {"lookup", "relook"}
      PROVE  HandlerInv(req[r])'
    <2> DEFINE found == [at |-> now, stored |-> cache.fetched_at, asked |-> cache.asked]
    <2>1. req'[r] = [req[r] EXCEPT !.pc = "claims", !.excused = FALSE, !.found = found]
        BY <1>2, <1>5 DEF Found, Becomes
    <2>2. found.at = now /\ found.stored = cache.fetched_at /\ found.asked = cache.asked
        OBVIOUS
    <2> HIDE DEF found
    <2>3. /\ IsHandler(req[r])'
          /\ req'[r].pc = "claims" /\ req'[r].found = found /\ req'[r].msg = req[r].msg
          /\ req'[r].config = req[r].config
        BY <1>1, <2>1 DEF IsHandler
    <2>4. Issued({req[r].msg.token.kid}, cache.asked, seen, now)
        BY <1>2, <1>5 DEF CacheInv, cached_jwk, Issued
    <2>5. KeysOf(req[r], seen, now)'
        <3>1. now - Ttl <= cache.fetched_at /\ now \in Nat /\ cache.fetched_at \in Nat
            BY <1>2, <1>5, McpAssumption DEF CacheInv, cached_jwk, Times
        <3>2. Issued({req'[r].msg.token.kid}, req'[r].found.asked, seen', now')
            BY <1>3, <2>2, <2>3, <2>4
        <3> QED BY <2>2, <2>3, <3>1, <3>2 DEF KeysOf
    <2>6. KeyAhead(req[r])' BY <2>3 DEF KeyAhead
    <2>7. CallOf(req[r])' BY <1>1, <1>5, <2>3 DEF HandlerInv, CallOf, Past
    <2> QED BY <2>3, <2>5, <2>6, <2>7 DEF HandlerInv
<1>6. CASE Lookup(r)
    <2>1. CASE req'[r] = [req[r] EXCEPT !.pc = "fetch", !.asked = now]
        <3>1. /\ IsHandler(req[r])'
              /\ req'[r].pc = "fetch" /\ req'[r].asked = now /\ req'[r].msg = req[r].msg
              /\ req'[r].config = req[r].config /\ req'[r].excused = req[r].excused
            BY <1>1, <2>1 DEF IsHandler
        <3>2. KeysOf(req[r], seen, now)' BY <1>2, <1>3, <3>1 DEF KeysOf, Times
        <3>3. req[r].pc = "lookup" BY <1>6 DEF Lookup
        <3>4. (req[r].excused \/ KeyAhead(req[r]))' BY <1>1, <1>3, <3>1, <3>3 DEF HandlerInv, KeyAhead
        <3>5. CallOf(req[r])' BY <1>1, <3>1, <3>3 DEF HandlerInv, CallOf, Past
        <3> QED BY <3>1, <3>2, <3>4, <3>5 DEF HandlerInv
    <2> QED BY <1>2, <1>5, <1>6, <2>1 DEF Lookup, Becomes
<1>7. CASE Fetch(r)
    <2>1. CASE req'[r] = [req[r] EXCEPT !.pc = "store", !.got = published]
        <3>1. /\ IsHandler(req[r])'
              /\ req'[r].pc = "store" /\ req'[r].asked = req[r].asked /\ req'[r].msg = req[r].msg
              /\ req'[r].got = published
              /\ req'[r].config = req[r].config /\ req'[r].excused = req[r].excused
            BY <1>1, <2>1 DEF IsHandler
        <3>2. req[r].pc = "fetch" BY <1>7 DEF Fetch
        <3>3. req[r].asked \in 0 .. now BY <1>1, <3>2 DEF HandlerInv, KeysOf
        <3>4. Issued(published, req[r].asked, seen, now)
            BY <1>2, <3>3, McpAssumption DEF Issued, Times
        <3>5. KeysOf(req[r], seen, now)' BY <1>3, <3>1, <3>4 DEF KeysOf
        <3>6. (req[r].excused \/ KeyAhead(req[r]))' BY <1>1, <3>1, <3>2 DEF HandlerInv, KeyAhead
        <3>7. CallOf(req[r])' BY <1>1, <3>1, <3>2 DEF HandlerInv, CallOf, Past
        <3> QED BY <3>1, <3>5, <3>6, <3>7 DEF HandlerInv
    <2> QED BY <1>2, <1>4, <1>7, <2>1 DEF Fetch, Becomes
<1>8. CASE Store(r)
    <2>1. /\ req'[r] = [req[r] EXCEPT !.pc = "relook", !.asked = None, !.got = None]
          /\ cache' = [keys |-> req[r].got, fetched_at |-> now, asked |-> req[r].asked]
          /\ req[r].pc = "store"
        BY <1>8 DEF Store, Stored
    <2>2. /\ IsHandler(req[r])'
          /\ req'[r].pc = "relook" /\ req'[r].msg = req[r].msg
          /\ req'[r].config = req[r].config /\ req'[r].excused = req[r].excused
        BY <1>1, <2>1 DEF IsHandler
    <2>3. KeysOf(req[r], seen, now)' BY <2>2 DEF KeysOf
    <2>4. cache'.keys = req[r].got /\ cache'.fetched_at = now /\ cache' # None
        <3>1. Issued(req[r].got, req[r].asked, seen, now)
            BY <1>1, <2>1 DEF HandlerInv, KeysOf
        <3>2. cache' \in [keys : SUBSET Kids, fetched_at : Nat, asked : Nat]
            BY <1>2, <2>1, <3>1 DEF Issued, Times
        <3> QED BY <2>1, <3>2, McpAssumption
    <2>5. req[r].excused \/ req[r].msg.token.kid \in req[r].got
        BY <1>1, <2>1 DEF HandlerInv, KeyAhead
    <2>6. now - now <= Ttl BY <1>2, McpAssumption DEF Times
    <2>7. (req[r].excused \/ KeyAhead(req[r]))'
        BY <1>3, <2>2, <2>4, <2>5, <2>6 DEF KeyAhead, cached_jwk
    <2>8. CallOf(req[r])' BY <1>1, <2>1, <2>2 DEF HandlerInv, CallOf, Past
    <2> QED BY <2>2, <2>3, <2>7, <2>8 DEF HandlerInv
<1>9. CASE Relook(r) BY <1>4, <1>5, <1>9 DEF Relook
<1> QED BY <1>6, <1>7, <1>8, <1>9

\* A step that knows the caller, or gets to know it.
LEMMA CallStep ==
    ASSUME McpInv, NEW r \in Requests,
           Claims(r) \/ Dispatch(r) \/ List(r) \/ CallTool(r) \/ Load(r) \/ Execute(r) \/ Mutate(r)
    PROVE  HandlerInv(req[r])'
<1>1. HandlerInv(req[r]) /\ IsHandler(req[r]) BY DEF McpInv, HandlerInv
<1>2. req = [u \in Requests |-> req[u]] /\ Times BY DEF McpInv
<1>3. UNCHANGED <<server, files>>
    BY DEF Claims, Dispatch, List, CallTool, Load, Execute, Mutate
<1>4. ASSUME NEW what, Answered(r, what) PROVE HandlerInv(req[r])'
    <2>1. req'[r] = [Idle EXCEPT !.excused = req[r].excused] BY <1>2, <1>4 DEF Answered
    <2> QED BY <2>1, AnsweredInv
<1>5. ASSUME NEW label, Goto(r, label),
             \/ req[r].pc \in {"dispatch", "call"} /\ label \in {"list", "call", "load"}
             \/ req[r].pc = "execute" /\ label = "mutate",
             label = "load" /\ req[r].msg.tool \in MutationTools =>
                 ManagementPermitted(req[r].tenant),
             label = "mutate" => req[r].msg.tool \in MutationTools
      PROVE  HandlerInv(req[r])'
    <2>1. req'[r] = [req[r] EXCEPT !.pc = label] BY <1>2, <1>5 DEF Goto, Becomes
    <2>2. /\ IsHandler(req[r])'
          /\ req'[r].pc = label /\ req'[r].msg = req[r].msg /\ req'[r].tenant = req[r].tenant
          /\ req'[r].config = req[r].config
        BY <1>1, <2>1 DEF IsHandler
    <2>3. KeysOf(req[r], seen, now)' /\ KeyAhead(req[r])'
        BY <1>5, <2>2 DEF KeysOf, KeyAhead
    <2>4. CallOf(req[r])'
        BY <1>1, <1>3, <1>5, <2>2 DEF HandlerInv, CallOf, Past, PathOf, ManagementPermitted
    <2> QED BY <2>2, <2>3, <2>4 DEF HandlerInv
<1>6. CASE Claims(r)
    <2>1. ASSUME NEW i \in Audience(req[r].msg.token),
                 req'[r] = [Idle EXCEPT !.pc = "dispatch", !.msg = req[r].msg,
                                        !.tenant = server.tenants[i]]
          PROVE  HandlerInv(req[r])'
        <3>1. /\ IsHandler(req[r])'
              /\ req'[r].pc = "dispatch" /\ req'[r].msg = req[r].msg
              /\ req'[r].tenant = server.tenants[i] /\ req'[r].config = None
            BY <2>1 DEF IsHandler, Idle
        <3>2. CallOf(req[r])' BY <1>3, <2>1, <3>1 DEF CallOf, Past, Audience
        <3>3. KeysOf(req[r], seen, now)' /\ KeyAhead(req[r])' BY <3>1 DEF KeysOf, KeyAhead
        <3> QED BY <3>1, <3>2, <3>3 DEF HandlerInv
    <2> QED BY <1>2, <1>4, <1>6, <2>1 DEF Claims, Becomes
<1>7. CASE Dispatch(r) BY <1>4, <1>5, <1>7 DEF Dispatch
<1>8. CASE List(r) BY <1>4, <1>8 DEF List
<1>9. CASE CallTool(r)
    <2>1. req[r].pc = "call" BY <1>9 DEF CallTool
    <2>2. ASSUME NEW enabled \in profile_management_enabled(req[r].tenant), enabled
          PROVE  ManagementPermitted(req[r].tenant)
        BY <2>2, McpAssumption DEF profile_management_enabled, ManagementPermitted
    <2>3. "list_hosts" \notin MutationTools BY DEF MutationTools
    <2> QED BY <1>4, <1>5, <1>9, <2>1, <2>2, <2>3 DEF CallTool
<1>10. CASE Load(r)
    <2> DEFINE config == [path |-> PathOf(req[r].tenant),
                          management |-> files[PathOf(req[r].tenant)]]
    <2>1. CASE req'[r] = [req[r] EXCEPT !.pc = "execute", !.config = config]
        <3>1. config.path = PathOf(req[r].tenant) OBVIOUS
        <3> HIDE DEF config
        <3>2. /\ IsHandler(req[r])'
              /\ req'[r].pc = "execute" /\ req'[r].msg = req[r].msg
              /\ req'[r].tenant = req[r].tenant /\ req'[r].config = config
            BY <1>1, <2>1 DEF IsHandler
        <3>3. KeysOf(req[r], seen, now)' /\ KeyAhead(req[r])' BY <3>2 DEF KeysOf, KeyAhead
        <3>4. req[r].pc = "load" BY <1>10 DEF Load
        <3>5. CallOf(req[r])'
            BY <1>1, <1>3, <3>1, <3>2, <3>4
               DEF HandlerInv, CallOf, Past, PathOf, ManagementPermitted
        <3> QED BY <3>2, <3>3, <3>5 DEF HandlerInv
    <2> QED BY <1>2, <1>4, <1>10, <2>1 DEF Load, Becomes
<1>11. CASE Execute(r) BY <1>4, <1>5, <1>11 DEF Execute
<1>12. CASE Mutate(r) BY <1>4, <1>12 DEF Mutate
<1> QED BY <1>6, <1>7, <1>8, <1>9, <1>10, <1>11, <1>12

\* A request that comes in.
LEMMA ArriveStep ==
    ASSUME McpInv, NEW r \in Requests, NEW m \in server.clients, Arrive(r, m)
    PROVE  HandlerInv(req[r])'
<1>1. req = [u \in Requests |-> req[u]] BY DEF McpInv
<1>2. UNCHANGED <<server, published>> BY DEF Arrive, issuer
<1>3. ASSUME NEW what, Answered(r, what) PROVE HandlerInv(req[r])'
    <2>1. req'[r] = [Idle EXCEPT !.excused = req[r].excused] BY <1>1, <1>3 DEF Answered
    <2> QED BY <2>1, AnsweredInv
<1>4. ASSUME NEW label \in {"lookup", "dispatch"}, label = "dispatch" => server.kind = "bearer",
             req'[r] = [Idle EXCEPT !.pc = label, !.msg = m,
                                    !.excused = m.token.kid \notin published]
      PROVE  HandlerInv(req[r])'
    <2>1. req'[r] = [pc |-> label, msg |-> m, asked |-> None, got |-> None, tenant |-> None,
                     config |-> None, found |-> None,
                     excused |-> m.token.kid \notin published]
        BY <1>4 DEF Idle
    <2>2. IsHandler(req[r])' BY <2>1 DEF IsHandler
    <2>3. KeysOf(req[r], seen, now)' BY <1>4, <2>1 DEF KeysOf
    <2>4. (req[r].excused \/ KeyAhead(req[r]))'
        BY <1>2, <1>4, <2>1 DEF KeyAhead
    <2>5. req'[r].pc = label /\ req'[r].config = None BY <2>1
    <2>6. CallOf(req[r])' BY <1>2, <1>4, <2>5 DEF CallOf, Past
    <2> QED BY <2>2, <2>3, <2>4, <2>6 DEF HandlerInv
<1> QED BY <1>1, <1>3, <1>4 DEF Arrive, Becomes

\* The server's invariant is inductive.
LEMMA McpStep ==
    ASSUME McpInv, [McpNext]_mcpVars
    PROVE  McpInv'
<1>1. Times' BY TimesStep DEF McpInv
<1>i. /\ Times /\ CacheInv /\ req = [u \in Requests |-> req[u]]
      /\ \A r \in Requests : HandlerInv(req[r]) /\ IsHandler(req[r])
    BY DEF McpInv, HandlerInv
<1>2. ASSUME UNCHANGED cache PROVE CacheInv'
    <2>1. CASE cache = None BY <1>2, <2>1 DEF CacheInv
    <2>2. CASE cache # None
        <3>1. Issued(cache.keys, cache.asked, seen, now) BY <1>i, <2>2 DEF CacheInv
        <3>2. Issued(cache.keys, cache.asked, seen', now') BY <1>i, <3>1, IssuedStays
        <3>3. cache.fetched_at \in 0 .. now' BY <1>i, <1>1, <2>2, TimesStep DEF CacheInv, Times
        <3> QED BY <1>2, <3>2, <3>3 DEF CacheInv
    <2> QED BY <2>1, <2>2
<1>3. ASSUME NEW r \in Requests, Handle(r) PROVE McpInv'
    <2>1. HandlerInv(req[r])' BY <1>3, KeyStep, CallStep, ArriveStep DEF Handle
    <2>2. \A s \in Requests : HandlerInv(req[s])' BY <1>3, <2>1, OthersStay
    <2>3. req' = [u \in Requests |-> req'[u]]
        BY <1>3, <1>i DEF Handle, Arrive, Lookup, Found, Fetch, Store, Stored, Relook, Claims,
                    Dispatch, List, CallTool, Load, Execute, Mutate, Goto, Becomes, Answered
    <2>4. CacheInv'
        <3>1. CASE Store(r)
            <4>1. /\ cache' = [keys |-> req[r].got, fetched_at |-> now, asked |-> req[r].asked]
                  /\ req[r].pc = "store" /\ UNCHANGED <<now, seen>>
                BY <3>1 DEF Store, issuer
            <4>2. Issued(req[r].got, req[r].asked, seen, now)
                BY <1>i, <4>1 DEF HandlerInv, KeysOf
            <4>3. /\ cache'.keys = req[r].got /\ cache'.fetched_at = now
                  /\ cache'.asked = req[r].asked
                BY <4>1
            <4> QED BY <1>i, <4>1, <4>2, <4>3 DEF CacheInv, Times
        <3>2. CASE ~Store(r)
            BY <1>2, <1>3, <3>2 DEF Handle, Arrive, Lookup, Fetch, Relook, Claims, Dispatch, List,
                                    CallTool, Load, Execute, Mutate
        <3> QED BY <3>1, <3>2
    <2> QED BY <1>1, <2>2, <2>3, <2>4 DEF McpInv
<1>4. ASSUME UNCHANGED cache, req' = [u \in Requests |-> req'[u]],
             \A r \in Requests :
                 /\ IsHandler(req'[r])
                 /\ req'[r].pc = req[r].pc /\ req'[r].msg = req[r].msg
                 /\ req'[r].asked = req[r].asked /\ req'[r].got = req[r].got
                 /\ req'[r].tenant = req[r].tenant /\ req'[r].config = req[r].config
                 /\ req'[r].found = req[r].found
                 /\ req'[r].excused \/ KeyAhead(req[r])'
      PROVE  McpInv'
    <2>1. \A r \in Requests : HandlerInv(req[r])' BY <1>4, HandlerStays
    <2> QED BY <1>1, <1>2, <1>4, <2>1 DEF McpInv
<1>5. CASE Tick
    <2> DEFINE lapses(r) == req[r].pc = "relook" /\ now + 1 - cache.fetched_at > Ttl
    <2>1. ASSUME NEW r \in Requests
          PROVE  /\ IsHandler(req'[r])
                 /\ req'[r].pc = req[r].pc /\ req'[r].msg = req[r].msg
                 /\ req'[r].asked = req[r].asked /\ req'[r].got = req[r].got
                 /\ req'[r].tenant = req[r].tenant /\ req'[r].config = req[r].config
                 /\ req'[r].found = req[r].found
                 /\ req'[r].excused = (req[r].excused \/ lapses(r))
        <3>1. req'[r] = [req[r] EXCEPT !.excused = @ \/ lapses(r)] BY <1>5 DEF Tick
        <3> HIDE DEF lapses
        <3> QED BY <1>i, <3>1 DEF IsHandler
    <2>2. ASSUME NEW r \in Requests PROVE req'[r].excused \/ KeyAhead(req[r])'
        <3>1. CASE ~req[r].excused /\ ~lapses(r)
            <4>1. KeyAhead(req[r]) BY <1>i, <3>1 DEF HandlerInv
            <4>2. now' = now + 1 /\ UNCHANGED <<published, cache>> BY <1>5 DEF Tick
            <4>3. req[r].pc = "relook" => now' - cache.fetched_at <= Ttl
                BY <1>i, <3>1, <4>1, <4>2, McpAssumption DEF KeyAhead, cached_jwk, CacheInv, Times
            <4> QED BY <2>1, <4>1, <4>2, <4>3 DEF KeyAhead, cached_jwk
        <3> QED BY <2>1, <3>1
    <2> QED BY <1>4, <1>5, <2>1, <2>2 DEF Tick
<1>6. CASE Rotate
    <2> DEFINE waits(r) == req[r].pc \in {"lookup", "fetch", "store", "relook"}
    <2>1. ASSUME NEW r \in Requests
          PROVE  /\ IsHandler(req'[r])
                 /\ req'[r].pc = req[r].pc /\ req'[r].msg = req[r].msg
                 /\ req'[r].asked = req[r].asked /\ req'[r].got = req[r].got
                 /\ req'[r].tenant = req[r].tenant /\ req'[r].config = req[r].config
                 /\ req'[r].found = req[r].found
                 /\ waits(r) => req'[r].excused = (\/ req[r].excused
                                                   \/ req[r].msg.token.kid \notin published')
                 /\ ~waits(r) => req'[r].excused = req[r].excused
        <3>1. CASE ~waits(r)
            <4>1. req'[r] = req[r] BY <1>6, <3>1 DEF Rotate
            <4> QED BY <1>i, <3>1, <4>1
        <3>2. CASE waits(r)
            <4> DEFINE unpublished == req[r].msg.token.kid \notin published'
            <4>1. req'[r] = [req[r] EXCEPT !.excused = @ \/ unpublished]
                BY <1>6, <3>2 DEF Rotate
            <4> HIDE DEF unpublished
            <4>2. /\ IsHandler(req'[r])
                  /\ req'[r].pc = req[r].pc /\ req'[r].msg = req[r].msg
                  /\ req'[r].asked = req[r].asked /\ req'[r].got = req[r].got
                  /\ req'[r].tenant = req[r].tenant /\ req'[r].config = req[r].config
                  /\ req'[r].found = req[r].found
                  /\ req'[r].excused = (req[r].excused \/ unpublished)
                BY <1>i, <4>1 DEF IsHandler
            <4> QED BY <3>2, <4>2 DEF unpublished
        <3> QED BY <3>1, <3>2
    <2>2. ASSUME NEW r \in Requests PROVE req'[r].excused \/ KeyAhead(req[r])'
        <3>1. UNCHANGED <<now, cache>> BY <1>6 DEF Rotate
        <3>2. req[r].excused \/ KeyAhead(req[r]) BY <1>i DEF HandlerInv
        <3> QED BY <2>1, <3>1, <3>2 DEF KeyAhead, cached_jwk
    <2> QED BY <1>4, <1>6, <2>1, <2>2 DEF Rotate
<1>7. ASSUME UNCHANGED <<req, cache, published, now>> PROVE McpInv'
    <2>1. \A r \in Requests : req'[r].excused \/ KeyAhead(req[r])'
        BY <1>7, <1>i DEF HandlerInv, KeyAhead, cached_jwk
    <2> QED BY <1>4, <1>7, <1>i, <2>1
<1>8. CASE EditFile BY <1>7, <1>8 DEF EditFile, issuer
<1>9. CASE UNCHANGED mcpVars BY <1>7, <1>9 DEF mcpVars, issuer
<1> QED BY <1>3, <1>5, <1>6, <1>8, <1>9 DEF McpNext

\* The invariant of the server, which the other parts of the interface do not
\* disturb.
THEOREM McpInvCorrect == Spec => []McpInv
<1>1. Init => McpInv
    <2> SUFFICES ASSUME Init PROVE McpInv OBVIOUS
    <2>1. McpInit BY DEF Init
    <2>2. FirstKeys \subseteq SUBSET Kids BY McpAssumption
    <2>3. Times BY <2>1, <2>2 DEF McpInit, Times
    <2>4. \A r \in Requests : HandlerInv(req[r])
        BY <2>1 DEF McpInit, Idle, HandlerInv, IsHandler, KeysOf, KeyAhead, CallOf, Past
    <2> QED BY <2>1, <2>3, <2>4 DEF McpInit, McpInv, CacheInv
<1>2. [Next]_vars => [McpNext]_mcpVars BY DEF Next, vars
<1> QED BY <1>1, <1>2, McpStep, PTL DEF Spec

-----------------------------------------------------------------------------
(* What the server promises                                                  *)

\* The key a token is checked with was published no longer ago than a cache
\* lives and an answer takes, in whatever order requests refill the cache of
\* jwk_for_kid: KeyRecent.
THEOREM KeysAreRecent == Spec => []KeyRecent
<1>1. McpInv => KeyRecent
    <2> SUFFICES ASSUME McpInv, NEW r \in Requests, req[r].pc = "claims"
                 PROVE  /\ seen[req[r].msg.token.kid] # None
                        /\ seen[req[r].msg.token.kid] >=
                               req[r].found.at - Ttl - (req[r].found.stored - req[r].found.asked)
        BY DEF KeyRecent
    <2>1. KeysOf(req[r], seen, now) /\ now \in Nat BY DEF McpInv, HandlerInv, Times
    <2> QED BY <2>1, McpAssumption DEF KeysOf, Issued
<1> QED BY <1>1, McpInvCorrect, PTL

\* Two calls under way with different files have different namespaces, and a
\* call's file is one that its token was issued for, of authenticate_oauth and
\* execution_namespace: CallsStayApart.
THEOREM CallersStayApart == Spec => []CallsStayApart
<1>1. McpInv => CallsStayApart
    <2> SUFFICES ASSUME McpInv, server.kind = "oauth", NEW r \in Requests, NEW s \in Requests,
                        req[r].config # None, req[s].config # None
                 PROVE  /\ req[r].config.path # req[s].config.path =>
                               execution_namespace(req[r]) # execution_namespace(req[s])
                        /\ \E i \in DOMAIN server.tenants :
                              /\ server.tenants[i].path = req[r].config.path
                              /\ server.tenants[i].resource \in req[r].msg.token.audiences
        BY DEF CallsStayApart
    <2>1. ASSUME NEW u \in Requests, req[u].config # None
          PROVE  \E i \in DOMAIN server.tenants :
                    /\ req[u].tenant = server.tenants[i] /\ req[u].tenant # None
                    /\ req[u].config.path = req[u].tenant.path
                    /\ req[u].tenant.resource \in req[u].msg.token.audiences
        <3>1. CallOf(req[u]) BY DEF McpInv, HandlerInv
        <3>2. PICK i \in DOMAIN server.tenants :
                  /\ req[u].tenant = server.tenants[i]
                  /\ req[u].tenant.resource \in req[u].msg.token.audiences
            BY <2>1, <3>1 DEF CallOf, Past
        <3>3. server.tenants[i] # None BY McpAssumption DEF McpInv, Times, ToSet
        <3> QED BY <2>1, <3>1, <3>2, <3>3 DEF CallOf, PathOf
    <2>2. PICK i \in DOMAIN server.tenants :
              /\ req[r].tenant = server.tenants[i] /\ req[r].tenant # None
              /\ req[r].config.path = req[r].tenant.path
              /\ req[r].tenant.resource \in req[r].msg.token.audiences
        BY <2>1
    <2>3. PICK j \in DOMAIN server.tenants :
              /\ req[s].tenant = server.tenants[j] /\ req[s].tenant # None
              /\ req[s].config.path = req[s].tenant.path
        BY <2>1
    <2>4. execution_namespace(req[r]) = execution_namespace(req[s]) =>
              server.tenants[i].resource = server.tenants[j].resource
        BY <2>2, <2>3 DEF execution_namespace
    <2>5. server.tenants[i].resource = server.tenants[j].resource => i = j
        BY McpAssumption DEF McpInv, Times
    <2> QED BY <2>2, <2>3, <2>4, <2>5
<1> QED BY <1>1, McpInvCorrect, PTL

\* A token whose key is published all along is not refused for its key, unless
\* the issuer did not answer or another answer came in between, of jwk_for_kid
\* and refresh_jwks: PublishedKeyFound.
THEOREM PublishedKeysAreFound == Spec => []PublishedKeyFound
<1>1. Init => PublishedKeyFound BY DEF Init, McpInit, PublishedKeyFound
<1>2. McpInv /\ PublishedKeyFound /\ [McpNext]_mcpVars => PublishedKeyFound'
    <2> SUFFICES ASSUME McpInv, PublishedKeyFound, [McpNext]_mcpVars PROVE PublishedKeyFound'
        OBVIOUS
    <2>i. req = [u \in Requests |-> req[u]] BY DEF McpInv
    <2>1. ASSUME sent' = None PROVE PublishedKeyFound' BY <2>1 DEF PublishedKeyFound
    <2>2. ASSUME NEW r \in Requests, NEW what, Answered(r, what), what = "no_key" => req[r].excused
          PROVE  PublishedKeyFound'
        <3>1. req'[r].excused = req[r].excused BY <2>2, <2>i DEF Answered, Idle
        <3>2. sent'.to = r /\ sent'.what = what BY <2>2 DEF Answered
        <3> QED BY <2>2, <3>1, <3>2 DEF PublishedKeyFound
    <2>3. ASSUME NEW r \in Requests, Relook(r) PROVE PublishedKeyFound'
        <3>1. req[r].pc = "relook" => req[r].excused \/ cached_jwk(req[r].msg.token.kid)
            BY DEF McpInv, HandlerInv, KeyAhead
        <3> QED BY <2>1, <2>2, <2>3, <3>1 DEF Relook, Found, Becomes
    <2>4. ASSUME NEW r \in Requests, Lookup(r) \/ Fetch(r) \/ Store(r) \/ Claims(r)
          PROVE  PublishedKeyFound'
        BY <2>1, <2>2, <2>4 DEF Lookup, Found, Fetch, Store, Stored, Claims, Becomes
    <2>5. ASSUME NEW r \in Requests, Dispatch(r) \/ List(r) \/ CallTool(r)
          PROVE  PublishedKeyFound'
        BY <2>1, <2>2, <2>5 DEF Dispatch, List, CallTool, Goto, Becomes
    <2>6. ASSUME NEW r \in Requests, Load(r) \/ Execute(r) \/ Mutate(r)
          PROVE  PublishedKeyFound'
        BY <2>1, <2>2, <2>6 DEF Load, Execute, Mutate, Goto, Becomes
    <2>7. ASSUME NEW r \in Requests, NEW m \in server.clients, Arrive(r, m)
          PROVE  PublishedKeyFound'
        BY <2>1, <2>2, <2>7 DEF Arrive, Becomes
    <2>8. CASE Tick \/ Rotate \/ EditFile BY <2>1, <2>8 DEF Tick, Rotate, EditFile
    <2>9. CASE UNCHANGED mcpVars BY <2>9 DEF mcpVars, PublishedKeyFound
    <2> QED BY <2>3, <2>4, <2>5, <2>6, <2>7, <2>8, <2>9 DEF McpNext, Handle
<1>3. [Next]_vars => [McpNext]_mcpVars BY DEF Next, vars
<1> QED BY <1>1, <1>2, <1>3, McpInvCorrect, PTL DEF Spec

\* Profiles are changed only in a file that enables it at that moment, and not
\* where the tenant's entry forbids it, of call_tool and execute_profile_mutation:
\* ManagedWhileEnabled, an action property.
THEOREM ManagementIsEnabled == Spec => ManagedWhileEnabled
<1> DEFINE Managed ==
        \A r \in Requests :
            sent' = [to |-> r, what |-> "mutated"] /\ sent' # sent =>
                LET tenant == req[r].tenant
                IN  /\ files[PathOf(tenant)]
                    /\ IF tenant = None THEN server.management ELSE tenant.management # FALSE
<1>1. McpInv /\ [McpNext]_mcpVars => Managed
    <2> SUFFICES ASSUME McpInv, [McpNext]_mcpVars, NEW r \in Requests,
                        sent' = [to |-> r, what |-> "mutated"], sent' # sent
                 PROVE  files[PathOf(req[r].tenant)] /\ ManagementPermitted(req[r].tenant)
        BY DEF ManagementPermitted
    <2>1. sent'.to = r /\ sent'.what = "mutated" OBVIOUS
    <2>2. sent' # None
        <3>1. [to |-> r, what |-> "mutated"] \in [to : Requests, what : {"mutated"}] OBVIOUS
        <3> QED BY <3>1, McpAssumption
    <2>3. ASSUME NEW s \in Requests, NEW what, Answered(s, what) PROVE s = r /\ what = "mutated"
        BY <2>1, <2>3 DEF Answered
    <2>4. ASSUME NEW s \in Requests, Handle(s) PROVE Mutate(r)
        <3>1. ASSUME NEW m \in server.clients, Arrive(s, m) PROVE FALSE
            BY <2>2, <2>3, <3>1 DEF Arrive, Becomes
        <3>2. ~(Lookup(s) \/ Fetch(s) \/ Store(s) \/ Relook(s) \/ Claims(s))
            <4>1. \A label \in {"no_answer", "no_key", "unauthorized"} : ~Answered(s, label)
                BY <2>3
            <4>2. \A h : ~Becomes(s, h) BY <2>2 DEF Becomes
            <4>3. ~Claims(s) BY <4>1, <4>2 DEF Claims
            <4>4. ~(Lookup(s) \/ Fetch(s) \/ Relook(s))
                BY <4>1, <4>2 DEF Lookup, Found, Fetch, Relook
            <4>5. ~Store(s) BY <2>2 DEF Store, Stored
            <4> QED BY <4>3, <4>4, <4>5
        <3>3. ~(Dispatch(s) \/ List(s) \/ CallTool(s))
            BY <2>2, <2>3 DEF Dispatch, List, CallTool, Goto, Becomes
        <3>4. ~(Load(s) \/ Execute(s))
            BY <2>2, <2>3 DEF Load, Execute, Goto, Becomes
        <3>5. Mutate(s) => s = r BY <2>3 DEF Mutate
        <3> QED BY <2>4, <3>1, <3>2, <3>3, <3>4, <3>5 DEF Handle
    <2>5. ~(Tick \/ Rotate \/ EditFile) BY <2>2 DEF Tick, Rotate, EditFile
    <2>6. ~UNCHANGED mcpVars BY DEF mcpVars
    <2>7. Mutate(r) BY <2>4, <2>5, <2>6 DEF McpNext
    <2>8. CallOf(req[r]) BY DEF McpInv, HandlerInv
    <2>9. files[req[r].config.path] BY <2>3, <2>7 DEF Mutate
    <2> QED BY <2>7, <2>8, <2>9 DEF CallOf, Mutate
<1>2. [Next]_vars => [McpNext]_mcpVars BY DEF Next, vars
<1>3. Managed => [Managed]_mcpVars OBVIOUS
<1> QED BY <1>1, <1>2, McpInvCorrect, PTL DEF Spec, ManagedWhileEnabled

-----------------------------------------------------------------------------
(* The policy                                                                *)

\* A set of numbers that is not empty has a least one.
LEMMA LeastOf ==
    ASSUME NEW S \in SUBSET Nat, S # {}
    PROVE  \E i \in S : \A j \in S : i <= j
<1>1. PICK i \in S : \A j \in S : ~ (<<j, i>> \in OpToRel(<, Nat))
    BY NatLessThanWellFounded, WFMin
<1>2. \A j \in S : ~ (j < i) BY <1>1 DEF OpToRel
<1> QED BY <1>2

\* longer is rules with rule at the place i.
Inserted(longer, rules, i, rule) ==
    /\ DOMAIN longer = 1 .. Len(rules) + 1 /\ longer[i] = rule
    /\ \A j \in 1 .. i - 1 : longer[j] = rules[j]
    /\ \A j \in i .. Len(rules) : longer[j + 1] = rules[j]

\* InsertAt puts the rule there and moves the rules behind it on.
LEMMA InsertIsInserted ==
    ASSUME NEW S, NEW rules \in Seq(S), NEW rule, NEW i \in 1 .. Len(rules) + 1
    PROVE  Inserted(InsertAt(rules, i, rule), rules, i, rule)
<1> DEFINE T == S \cup {rule}
           before == SubSeq(rules, 1, i - 1)
           after == SubSeq(rules, i, Len(rules))
<1>1. rules \in Seq(T) /\ Len(rules) \in Nat OBVIOUS
<1>2. /\ before \in Seq(T) /\ Len(before) = i - 1
      /\ \A j \in 1 .. i - 1 : before[j] = rules[j]
    BY <1>1
<1>3. /\ after \in Seq(T) /\ Len(after) = Len(rules) + 1 - i
      /\ \A j \in 1 .. Len(rules) + 1 - i : after[j] = rules[i + j - 1]
    BY <1>1
<1> HIDE DEF before, after
<1>4. <<rule>> \in Seq(T) /\ Len(<<rule>>) = 1 /\ <<rule>>[1] = rule OBVIOUS
<1> DEFINE front == before \o <<rule>>
           longer == front \o after
<1>5. /\ front \in Seq(T) /\ Len(front) = i /\ front[i] = rule
      /\ \A j \in 1 .. i - 1 : front[j] = rules[j]
    BY <1>2, <1>4
<1> HIDE DEF front
<1>6. /\ DOMAIN longer = 1 .. Len(rules) + 1
      /\ \A j \in 1 .. i : longer[j] = front[j]
      /\ \A j \in i + 1 .. Len(rules) + 1 : longer[j] = after[j - i]
    <2>1. longer \in Seq(T) /\ Len(longer) = Len(rules) + 1
        BY <1>1, <1>3, <1>5
    <2>2. DOMAIN longer = 1 .. Len(rules) + 1
        <3> HIDE DEF longer
        <3> QED BY <2>1
    <2>3. \A j \in 1 .. i : longer[j] = front[j]
        BY <1>1, <1>3, <1>5
    <2>4. \A j \in i + 1 .. Len(rules) + 1 : longer[j] = after[j - i]
        BY <1>1, <1>3, <1>5
    <2> QED BY <2>2, <2>3, <2>4
<1>7. longer = InsertAt(rules, i, rule) BY DEF InsertAt, longer, front, before, after
<1> HIDE DEF longer
<1>8. ASSUME NEW j \in i .. Len(rules) PROVE longer[j + 1] = rules[j]
    <2>1. j + 1 \in i + 1 .. Len(rules) + 1 /\ j + 1 - i \in 1 .. Len(rules) + 1 - i
          /\ i + (j + 1 - i) - 1 = j
        BY <1>1
    <2>2. longer[j + 1] = after[j + 1 - i] BY <1>6, <2>1
    <2>3. after[j + 1 - i] = rules[i + (j + 1 - i) - 1] BY <1>3, <2>1
    <2> QED BY <2>1, <2>2, <2>3
<1> QED BY <1>5, <1>6, <1>7, <1>8 DEF Inserted

\* The rules that match, as ByRules finds them.
Matching(rules, request) == {i \in DOMAIN rules : rule_matches(rules[i], request)}

IsFirst(i, S) == i \in S /\ \A j \in S : i <= j

\* The first rule that matches decides.
LEMMA FirstDecides ==
    ASSUME NEW rules, NEW request, NEW n \in Nat, DOMAIN rules = 1 .. n,
           NEW i, IsFirst(i, Matching(rules, request)), rules # <<>>
    PROVE  ByRules(rules, request) = rules[i].effect
<1> DEFINE S == Matching(rules, request)
           k == CHOOSE m \in S : \A j \in S : m <= j
<1>1. S \subseteq 1 .. n /\ S # {} BY DEF Matching, IsFirst
<1>2. k = i
    <2>1. i \in S /\ \A j \in S : i <= j BY DEF IsFirst
    <2> HIDE DEF S
    <2>2. k \in S /\ \A j \in S : k <= j BY <2>1
    <2> HIDE DEF k
    <2> QED BY <1>1, <2>1, <2>2
<1> QED BY <1>1, <1>2 DEF ByRules, Matching

\* Where rules match, there is a first one.
LEMMA FirstOfSome ==
    ASSUME NEW S \in SUBSET Nat, S # {}
    PROVE  \E i \in S : IsFirst(i, S)
BY LeastOf DEF IsFirst

\* Every answer has a rank.
LEMMA RankRange == \A answer : Rank(answer) \in 0 .. 2
BY DEF Rank

\* With the rule, the first match is the rule, which denies, or the match of before
\* at its old place or one further. A list that was empty allowed all.
LEMMA DenialsNarrowRules ==
    ASSUME NEW S, NEW rules \in Seq(S), NEW longer, NEW rule, rule.effect = "deny",
           NEW i \in 1 .. Len(rules) + 1, Inserted(longer, rules, i, rule),
           NEW request
    PROVE  Rank(ByRules(longer, request)) <= Rank(ByRules(rules, request))
<1> DEFINE M == Matching(rules, request)
           N == Matching(longer, request)
<1>a. /\ Len(rules) \in Nat /\ DOMAIN rules = 1 .. Len(rules) /\ i \in Nat
      /\ DOMAIN longer = 1 .. Len(rules) + 1 /\ longer # <<>>
    BY DEF Inserted
<1>b. /\ Rank(ByRules(longer, request)) \in 0 .. 2 /\ Rank(ByRules(rules, request)) \in 0 .. 2
      /\ Rank("allow") = 2 /\ Rank("deny") = 0
    BY RankRange DEF Rank
<1>1. CASE rules = <<>>
    BY <1>1, <1>b DEF ByRules
<1>2. CASE N = {}
    <2>1. ByRules(longer, request) = "deny" BY <1>2, <1>a DEF ByRules, Matching
    <2> QED BY <2>1, <1>b
<1>3. CASE rules # <<>> /\ N # {}
    <2>1. /\ N \subseteq Nat /\ M \subseteq Nat BY <1>a DEF Matching
    <2>2. PICK k \in N : IsFirst(k, N)
        <3> HIDE DEF N
        <3> QED BY <1>3, <2>1, FirstOfSome
    <2>3. ByRules(longer, request) = longer[k].effect
        BY <1>a, <2>2, FirstDecides
    <2>4. k \in 1 .. Len(rules) + 1 BY <1>a, <2>2 DEF Matching
    <2>5. \A j \in 1 .. i - 1 : j \in N <=> j \in M
        BY <1>a DEF Matching, Inserted
    <2>6. ASSUME NEW j \in i .. Len(rules)
          PROVE  j + 1 \in N <=> j \in M
        <3>1. longer[j + 1] = rules[j] BY DEF Inserted
        <3>2. j \in DOMAIN rules /\ j + 1 \in DOMAIN longer BY <1>a
        <3> QED BY <3>1, <3>2 DEF Matching
    <2>7. M \subseteq 1 .. Len(rules) BY <1>a DEF Matching
    <2>8. k \in N /\ \A j \in N : k <= j BY <2>2 DEF IsFirst
    <2> HIDE DEF M, N
    <2>9. CASE k = i
        BY <1>b, <2>3, <2>9 DEF Inserted
    <2>10. CASE k < i
        <3>1. k \in M BY <1>a, <2>4, <2>5, <2>8, <2>10
        <3>2. ASSUME NEW j \in M PROVE k <= j
            BY <1>a, <2>4, <2>5, <2>7, <2>8, <2>10
        <3>3. IsFirst(k, M) BY <3>1, <3>2 DEF IsFirst
        <3>4. ByRules(rules, request) = rules[k].effect
            BY <1>3, <1>a, <3>3, FirstDecides DEF M
        <3>5. longer[k] = rules[k] BY <1>a, <2>4, <2>10 DEF Inserted
        <3> QED BY <1>b, <2>3, <3>4, <3>5
    <2>11. CASE k > i
        <3>1. k - 1 \in i .. Len(rules) /\ (k - 1) + 1 = k BY <1>a, <2>4, <2>11
        <3>2. k - 1 \in M BY <2>6, <2>8, <3>1
        <3>3. ASSUME NEW j \in M PROVE k - 1 <= j
            <4>1. j \in 1 .. Len(rules) BY <2>7
            <4>2. CASE j < i BY <1>a, <2>4, <2>5, <2>8, <2>11, <4>1, <4>2
            <4>3. CASE j >= i
                <5>1. j + 1 \in N BY <1>a, <2>6, <4>1, <4>3
                <5> QED BY <1>a, <2>4, <2>8, <4>1, <5>1
            <4> QED BY <1>a, <4>1, <4>2, <4>3
        <3>4. IsFirst(k - 1, M) BY <3>2, <3>3 DEF IsFirst
        <3>5. ByRules(rules, request) = rules[k - 1].effect
            BY <1>3, <1>a, <3>4, FirstDecides DEF M
        <3>6. longer[k] = rules[k - 1] BY <3>1 DEF Inserted
        <3> QED BY <1>b, <2>3, <3>5, <3>6
    <2> QED BY <1>a, <2>4, <2>9, <2>10, <2>11
<1> QED BY <1>1, <1>2, <1>3

\* A rule that denies and has no other beside it leaves nothing allowed.
LEMMA LoneDenial ==
    ASSUME NEW longer, NEW rule, rule.effect = "deny", Inserted(longer, <<>>, 1, rule),
           NEW request
    PROVE  ByRules(longer, request) = "deny"
<1>1. DOMAIN longer = 1 .. 1 /\ longer[1] = rule /\ longer # <<>> BY DEF Inserted
<1>2. CASE Matching(longer, request) = {} BY <1>1, <1>2 DEF ByRules, Matching
<1>3. CASE Matching(longer, request) # {}
    <2>1. IsFirst(1, Matching(longer, request)) BY <1>1, <1>3 DEF Matching, IsFirst
    <2> QED BY <1>1, <2>1, FirstDecides
<1> QED BY <1>2, <1>3

\* What is required before the rules is the same, but that a first rule may end the
\* list of allowed commands as the measure; then nothing else is allowed either.
LEMMA DenialsNarrowPolicies ==
    ASSUME NEW policy, policy # None, IsPolicy(policy), NEW rule, rule.effect = "deny",
           NEW i \in 1 .. Len(policy.rules) + 1, NEW caller, NEW request
    PROVE  Rank(authorize(caller, [policy EXCEPT !.rules = InsertAt(@, i, rule)], request))
              <= Rank(authorize(caller, policy, request))
<1> DEFINE rules == policy.rules
           longer == InsertAt(rules, i, rule)
           stricter == [policy EXCEPT !.rules = longer]
<1> SUFFICES Rank(authorize(caller, stricter, request)) <= Rank(authorize(caller, policy, request))
    OBVIOUS
<1>1. rules \in Seq(Range(rules)) /\ Inserted(longer, rules, i, rule)
    BY InsertIsInserted DEF IsPolicy
<1>2. Rank(ByRules(longer, request)) <= Rank(ByRules(rules, request))
    <2> HIDE DEF rules, longer
    <2> QED BY <1>1, DenialsNarrowRules DEF rules
<1>3. /\ stricter.rules = longer /\ stricter.capabilities = policy.capabilities
      /\ stricter.allowed_read_paths = policy.allowed_read_paths
      /\ stricter.allowed_write_paths = policy.allowed_write_paths
      /\ stricter.allowed_commands = policy.allowed_commands
    <2> HIDE DEF longer
    <2> QED BY DEF IsPolicy
<1>4. longer # <<>> BY <1>1 DEF Inserted
<1>5. Required(policy, request) => Required(stricter, request)
    BY <1>3, <1>4 DEF Required, rules
<1>6. Required(stricter, request) /\ ~Required(policy, request) => rules = <<>>
    BY <1>3, <1>4 DEF Required, rules
<1>7. ASSUME rules = <<>> PROVE Rank(ByRules(longer, request)) = 0
    <2>1. i = 1 BY <1>7 DEF rules
    <2> HIDE DEF rules, longer
    <2> QED BY <1>1, <1>7, <2>1, LoneDenial DEF Rank
<1> HIDE DEF longer, stricter
<1>8. /\ Rank(ByRules(longer, request)) \in 0 .. 2 /\ Rank(ByRules(rules, request)) \in 0 .. 2
      /\ Rank("allow") = 2 /\ Rank("error") = 0
    BY RankRange DEF Rank
<1>9. CASE caller = "human_cli"
    <2>1. \A p : authorize(caller, p, request) = "allow" BY <1>9 DEF authorize
    <2> QED BY <1>8, <2>1
<1>10. CASE /\ caller # "human_cli"
            /\ request.kind \in {"shutdown", "tunnel"} \cup Administration \cup Harmless
    BY <1>3, <1>8, <1>10 DEF authorize
<1>11. CASE /\ caller # "human_cli"
            /\ request.kind \notin {"shutdown", "tunnel"} \cup Administration \cup Harmless
    <2>1. \A p : authorize(caller, p, request) =
                     IF p # None /\ Required(p, request) THEN ByRules(p.rules, request)
                     ELSE "error"
        BY <1>11 DEF authorize
    <2> QED BY <1>2, <1>3, <1>5, <1>6, <1>7, <1>8, <2>1
<1> QED BY <1>9, <1>10, <1>11

\* What was consulted last is one of Consultations, with authorize's answer to it.
LEMMA ConsultedAnswers ==
    Spec => [](consulted # None =>
                  \E c \in Consultations :
                      consulted = [c |-> c, answer |-> authorize(c.caller, c.policy, c.request)])
<1> DEFINE A == consulted # None =>
        \E c \in Consultations :
            consulted = [c |-> c, answer |-> authorize(c.caller, c.policy, c.request)]
<1>1. Init => A BY DEF Init, PolicyInit
<1>2. A /\ [Next]_vars => A'
    <2> SUFFICES ASSUME A, [Next]_vars PROVE A'
        OBVIOUS
    <2>1. CASE UNCHANGED consulted BY <2>1
    <2>2. CASE Consult BY <2>2 DEF Consult
    <2> QED BY <2>1, <2>2 DEF Next, vars
<1> QED BY <1>1, <1>2, PTL DEF Spec

\* A rule that denies, wherever it is put, lets an agent do no more than before, of
\* authorize: DenyRulesNarrow.
THEOREM DenialsNarrow == Spec => []DenyRulesNarrow
<1>1. ASSUME NEW c \in Consultations, c.policy # None,
             NEW rule \in DenyRules, NEW i \in 1 .. Len(c.policy.rules) + 1
      PROVE  Rank(authorize(c.caller,
                            [c.policy EXCEPT !.rules = InsertAt(@, i, rule)], c.request))
                 <= Rank(authorize(c.caller, c.policy, c.request))
    BY <1>1, PolicyAssumption, DenialsNarrowPolicies
<1>2. (consulted # None =>
          \E c \in Consultations :
              consulted = [c |-> c, answer |-> authorize(c.caller, c.policy, c.request)])
      => DenyRulesNarrow
    BY <1>1 DEF DenyRulesNarrow
<1> QED BY <1>2, ConsultedAnswers, PTL

-----------------------------------------------------------------------------
(* The wildcard                                                              *)

\* What a turn makes of the state s, where f holds what the next one does.
Turn(f, pattern, value, s) ==
    IF s.v = Len(value)
    THEN \A i \in s.p + 1 .. Len(pattern) : pattern[i] = "*"
    ELSE ~ Fails(pattern, value, s) /\ f[Advance(pattern, value, s)]

\* f holds what the loop answers at each of its states.
Decides(f, pattern, value) ==
    f = [s \in Loop(pattern, value) |-> Turn(f, pattern, value, s)]

\* A state of the loop has its four parts and no other.
Parts(s) == s = [p |-> s.p, v |-> s.v, star |-> s.star, mark |-> s.mark]

\* The states of the loop, part by part.
LEMMA LoopParts ==
    ASSUME NEW pattern, NEW value, NEW s
    PROVE  s \in Loop(pattern, value) <=>
              /\ Parts(s)
              /\ s.p \in 0 .. Len(pattern) /\ s.v \in 0 .. Len(value)
              /\ s.star \in -1 .. Len(pattern) /\ s.mark \in 0 .. Len(value)
              /\ s.star < s.p /\ s.mark <= s.v
BY DEF Loop, Parts

\* A turn that has not failed stays in the loop: it takes a character of both, or
\* goes on behind a new star, or lets the last one take one more.
LEMMA AdvanceInLoop ==
    ASSUME NEW S, NEW pattern \in Seq(S), NEW value \in Seq(S), NEW s \in Loop(pattern, value),
           s.v < Len(value), ~ Fails(pattern, value, s),
           NEW t, t = Advance(pattern, value, s)
    PROVE  /\ t \in Loop(pattern, value)
           /\ \/ /\ s.p < Len(pattern) /\ pattern[s.p + 1] = value[s.v + 1]
                 /\ t.p = s.p + 1 /\ t.v = s.v + 1 /\ t.star = s.star /\ t.mark = s.mark
              \/ /\ s.p < Len(pattern) /\ pattern[s.p + 1] = "*"
                 /\ t.p = s.p + 1 /\ t.v = s.v /\ t.star = s.p /\ t.mark = s.v
              \/ /\ s.p < Len(pattern) => pattern[s.p + 1] \notin {value[s.v + 1], "*"}
                 /\ s.star # -1
                 /\ t.p = s.star + 1 /\ t.v = s.mark + 1 /\ t.star = s.star
                 /\ t.mark = s.mark + 1
<1>a. Len(pattern) \in Nat /\ Len(value) \in Nat OBVIOUS
<1>b. /\ s = [p |-> s.p, v |-> s.v, star |-> s.star, mark |-> s.mark]
      /\ s.p \in 0 .. Len(pattern) /\ s.v \in 0 .. Len(value)
      /\ s.star \in -1 .. Len(pattern) /\ s.mark \in 0 .. Len(value)
      /\ s.star < s.p /\ s.mark <= s.v
    BY LoopParts DEF Parts
<1>1. CASE s.p < Len(pattern) /\ pattern[s.p + 1] = value[s.v + 1]
    <2>1. t = [p |-> s.p + 1, v |-> s.v + 1, star |-> s.star, mark |-> s.mark]
        BY <1>1, <1>b DEF Advance
    <2>2. t.p = s.p + 1 /\ t.v = s.v + 1 /\ t.star = s.star /\ t.mark = s.mark /\ Parts(t)
        BY <2>1 DEF Parts
    <2>3. /\ t.p \in 0 .. Len(pattern) /\ t.v \in 0 .. Len(value)
          /\ t.star < t.p /\ t.mark <= t.v
        BY <1>1, <1>a, <1>b, <2>2
    <2>4. t \in Loop(pattern, value) BY <1>b, <2>2, <2>3, LoopParts
    <2> QED BY <1>1, <2>2, <2>4
<1>2. CASE /\ ~(s.p < Len(pattern) /\ pattern[s.p + 1] = value[s.v + 1])
           /\ s.p < Len(pattern) /\ pattern[s.p + 1] = "*"
    <2>1. t = [p |-> s.p + 1, v |-> s.v, star |-> s.p, mark |-> s.v]
        BY <1>2, <1>b DEF Advance
    <2>2. t.p = s.p + 1 /\ t.v = s.v /\ t.star = s.p /\ t.mark = s.v /\ Parts(t)
        BY <2>1 DEF Parts
    <2>3. t \in Loop(pattern, value)
        BY <1>2, <1>a, <1>b, <2>2, LoopParts
    <2> QED BY <1>2, <2>2, <2>3
<1>3. CASE s.p < Len(pattern) => pattern[s.p + 1] \notin {value[s.v + 1], "*"}
    <2>1. t = [p |-> s.star + 1, v |-> s.mark + 1, star |-> s.star, mark |-> s.mark + 1]
        BY <1>3, <1>b DEF Advance
    <2>2. /\ t.p = s.star + 1 /\ t.v = s.mark + 1 /\ t.star = s.star /\ t.mark = s.mark + 1
          /\ Parts(t)
        BY <2>1 DEF Parts
    <2>3. s.star # -1 BY <1>3 DEF Fails
    <2>4. t \in Loop(pattern, value)
        BY <1>a, <1>b, <2>2, <2>3, LoopParts
    <2> QED BY <1>3, <2>2, <2>3, <2>4
<1> QED BY <1>1, <1>2, <1>3

\* The recursive definition of wildcard_match has a solution: what holds of the states
\* from which the loop stays in an accepting set.
LEMMA LoopDecides ==
    ASSUME NEW S, NEW pattern \in Seq(S), NEW value \in Seq(S)
    PROVE  \E f : Decides(f, pattern, value)
<1> DEFINE L == Loop(pattern, value)
           Accepts(X) == \A s \in X :
                            IF s.v = Len(value)
                            THEN \A i \in s.p + 1 .. Len(pattern) : pattern[i] = "*"
                            ELSE ~ Fails(pattern, value, s) /\ Advance(pattern, value, s) \in X
           f == [s \in L |-> \E X \in SUBSET L : s \in X /\ Accepts(X)]
<1>1. ASSUME NEW s \in L
      PROVE  f[s] = Turn(f, pattern, value, s)
    <2> DEFINE t == Advance(pattern, value, s)
    <2>1. f[s] = (\E X \in SUBSET L : s \in X /\ Accepts(X)) OBVIOUS
    <2>2. CASE s.v = Len(value)
        <3>1. (\E X \in SUBSET L : s \in X /\ Accepts(X)) <=>
                 \A i \in s.p + 1 .. Len(pattern) : pattern[i] = "*"
            <4>1. ASSUME \A i \in s.p + 1 .. Len(pattern) : pattern[i] = "*"
                  PROVE  Accepts({s})
                BY <2>2, <4>1
            <4>2. {s} \in SUBSET L /\ s \in {s} OBVIOUS
            <4>3. ASSUME NEW X \in SUBSET L, s \in X, Accepts(X)
                  PROVE  \A i \in s.p + 1 .. Len(pattern) : pattern[i] = "*"
                BY <2>2, <4>3
            <4> HIDE DEF Accepts
            <4> QED BY <4>1, <4>2, <4>3
        <3> QED BY <2>1, <2>2, <3>1 DEF Turn
    <2>3. CASE s.v # Len(value)
        <3>1. CASE Fails(pattern, value, s)
            <4>1. ~ \E X \in SUBSET L : s \in X /\ Accepts(X) BY <2>3, <3>1
            <4> QED BY <2>1, <2>3, <3>1, <4>1 DEF Turn
        <3>2. CASE ~ Fails(pattern, value, s)
            <4>1. t \in L
                <5>1. s.v < Len(value) BY <2>3, LoopParts
                <5> QED BY <3>2, <5>1, AdvanceInLoop
            <4>2. ASSUME NEW X \in SUBSET L, s \in X, Accepts(X)
                  PROVE  t \in X
                BY <2>3, <4>2
            <4>3. ASSUME NEW X \in SUBSET L, t \in X, Accepts(X)
                  PROVE  Accepts(X \cup {s}) /\ X \cup {s} \in SUBSET L
                BY <2>3, <3>2, <4>3
            <4>4. (\E X \in SUBSET L : s \in X /\ Accepts(X)) <=> f[t]
                <5> HIDE DEF Accepts, t
                <5> QED BY <4>1, <4>2, <4>3
            <4>5. Turn(f, pattern, value, s) = f[t] BY <2>3, <3>2, <4>1 DEF Turn
            <4>6. f[t] \in BOOLEAN
                <5> HIDE DEF Accepts, t
                <5> QED BY <4>1
            <4>7. f[s] \in BOOLEAN
                <5> HIDE DEF Accepts
                <5> QED OBVIOUS
            <4>8. f[s] <=> \E X \in SUBSET L : s \in X /\ Accepts(X)
                <5> HIDE DEF Accepts
                <5> QED OBVIOUS
            <4> HIDE DEF f, t, Accepts
            <4>9. f[s] = f[t] BY <4>4, <4>6, <4>7, <4>8
            <4> QED BY <4>5, <4>9
        <3> QED BY <3>1, <3>2
    <2> QED BY <2>2, <2>3
<1>2. f = [s \in L |-> f[s]] OBVIOUS
<1> HIDE DEF f
<1>3. f = [s \in L |-> Turn(f, pattern, value, s)] BY <1>1, <1>2
<1> QED BY <1>3 DEF Decides

\* wildcard_match is what a solution holds of the loop's start.
LEMMA MatchDecides ==
    ASSUME NEW S, NEW pattern \in Seq(S), NEW value \in Seq(S)
    PROVE  \E f : /\ Decides(f, pattern, value)
                  /\ wildcard_match(pattern, value) = f[[p |-> 0, v |-> 0, star |-> -1, mark |-> 0]]
<1> DEFINE f == CHOOSE g : Decides(g, pattern, value)
<1>1. Decides(f, pattern, value) BY LoopDecides
<1>2. wildcard_match(pattern, value) = f[[p |-> 0, v |-> 0, star |-> -1, mark |-> 0]]
    BY DEF wildcard_match, Decides, Turn
<1> QED BY <1>1, <1>2

\* Moved together, two places stay as far apart.
LEMMA Moved ==
    ASSUME NEW k \in Nat, NEW l \in Nat
    PROVE  (k + 1) - (l + 1) = k - l
OBVIOUS

\* Two places as far apart as two others that differ are not the same.
LEMMA Further ==
    ASSUME NEW k \in Nat, NEW l \in Nat, NEW m \in Nat, NEW n \in Nat, k < l, l - k = n - m
    PROVE  m + 1 <= n
OBVIOUS

\* A star that is seen later and marked no earlier leaves less.
LEMMA LessLeft ==
    ASSUME NEW n \in Nat, NEW j \in Int, NEW k \in Int, j < k
    PROVE  ~ (n - j <= n - k)
OBVIOUS

\* The set T of states is one whose turns all stay in it.
Endless(T, pattern, value) ==
    \A s \in T : /\ s.v # Len(value) /\ ~ Fails(pattern, value, s)
                 /\ Advance(pattern, value, s) \in T

\* The loop ends: no set of states is one whose turns all stay in it. Each turn
\* moves the last star or its mark on, or else the value.
LEMMA LoopEnds ==
    ASSUME NEW S, NEW pattern \in Seq(S), NEW value \in Seq(S),
           NEW T \in SUBSET Loop(pattern, value), Endless(T, pattern, value)
    PROVE  T = {}
<1> DEFINE Left(s) == (Len(pattern) + Len(value)) - (s.star + s.mark)
           Rest(s) == Len(value) - s.v
           A == {Left(s) : s \in T}
<1> SUFFICES ASSUME T # {} PROVE FALSE
    OBVIOUS
<1>a. Len(pattern) \in Nat /\ Len(value) \in Nat OBVIOUS
<1>b. \A s \in T : /\ s.p \in 0 .. Len(pattern) /\ s.v \in 0 .. Len(value)
                   /\ s.star \in -1 .. Len(pattern) /\ s.mark \in 0 .. Len(value)
                   /\ s.star < s.p /\ s.mark <= s.v /\ s \in Loop(pattern, value)
    BY LoopParts
<1>1. \A s \in T : Left(s) \in Nat /\ Rest(s) \in Nat BY <1>a, <1>b
<1>2. PICK a \in A : \A n \in A : a <= n
    <2>1. A \in SUBSET Nat /\ A # {} BY <1>1
    <2> HIDE DEF A
    <2> QED BY <2>1, LeastOf
<1> DEFINE U == {s \in T : Left(s) = a}
           B == {Rest(s) : s \in U}
<1>3. PICK b \in B : \A n \in B : b <= n
    <2>1. B \in SUBSET Nat /\ B # {} BY <1>1
    <2> HIDE DEF B
    <2> QED BY <2>1, LeastOf
<1>4. PICK s \in T : Left(s) = a /\ Rest(s) = b OBVIOUS
<1> DEFINE t == Advance(pattern, value, s)
<1>5. t \in T /\ s.v < Len(value) /\ ~ Fails(pattern, value, s)
    <2> HIDE DEF A, B, U, Left, Rest
    <2> QED BY <1>a, <1>b DEF Endless
<1>6. a <= Left(t) BY <1>2, <1>5
<1>7. Left(t) = a => b <= Rest(t) BY <1>3, <1>5
<1>8. \/ t.v = s.v + 1 /\ t.star = s.star /\ t.mark = s.mark
      \/ t.star = s.p /\ t.mark = s.v
      \/ t.star = s.star /\ t.mark = s.mark + 1
    <2>1. s \in Loop(pattern, value) BY <1>b, <1>4
    <2> HIDE DEF A, B, U, Left, Rest
    <2> QED BY <1>5, <2>1, AdvanceInLoop
<1> HIDE DEF t
<1>9. a = Left(s) /\ b = Rest(s) BY <1>4
<1>10. /\ s.p \in Nat /\ s.v \in Nat /\ s.mark \in Nat /\ s.star \in Int
       /\ s.star < s.p /\ s.mark <= s.v
       /\ t.v \in Nat /\ t.mark \in Nat /\ t.star \in Int
    <2> HIDE DEF A, B, U, Left, Rest
    <2>1. \A r \in T : /\ r.p \in Nat /\ r.v \in Nat /\ r.mark \in Nat /\ r.star \in Int
                       /\ r.star < r.p /\ r.mark <= r.v
        BY <1>a, <1>b
    <2> QED BY <1>5, <2>1
<1> HIDE DEF A, B, U
<1>11. CASE t.v = s.v + 1 /\ t.star = s.star /\ t.mark = s.mark
    <2>1. Left(t) = Left(s) /\ Rest(t) < Rest(s) BY <1>a, <1>10, <1>11
    <2> QED BY <1>a, <1>7, <1>9, <1>10, <2>1
<1>12. CASE t.star = s.p /\ t.mark = s.v
    <2>1. Left(t) = (Len(pattern) + Len(value)) - (s.p + s.v) BY <1>12
    <2>2. Left(s) = (Len(pattern) + Len(value)) - (s.star + s.mark) OBVIOUS
    <2>3. s.star + s.mark < s.p + s.v /\ s.star + s.mark \in Int /\ s.p + s.v \in Int
        BY <1>10
    <2>4. ~ (Left(s) <= Left(t))
        <3>1. Len(pattern) + Len(value) \in Nat BY <1>a
        <3> HIDE DEF Left
        <3> QED BY <2>1, <2>2, <2>3, <3>1, LessLeft
    <2> HIDE DEF Left
    <2> QED BY <1>6, <1>9, <2>4
<1>13. CASE t.star = s.star /\ t.mark = s.mark + 1
    BY <1>a, <1>6, <1>9, <1>10, <1>13
<1> QED BY <1>8, <1>11, <1>12, <1>13

-----------------------------------------------------------------------------

\* The first n characters of the pattern may end at the place k of the value.
Reach(pattern, value, n, k) ==
    \E ends \in [0 .. n -> 0 .. Len(value)] :
        ends[0] = 0 /\ ends[n] = k /\ Fit(ends, pattern, value)

\* Nothing of the pattern ends before the value.
LEMMA ReachNone ==
    ASSUME NEW pattern, NEW value, Len(value) \in Nat
    PROVE  Reach(pattern, value, 0, 0)
<1> DEFINE ends == [i \in 0 .. 0 |-> 0]
<1>1. ends \in [0 .. 0 -> 0 .. Len(value)] /\ ends[0] = 0 OBVIOUS
<1>2. Fit(ends, pattern, value) BY DEF Fit
<1> HIDE DEF ends
<1> QED BY <1>1, <1>2 DEF Reach

\* One character more may end where the rules for stars and for other characters say.
LEMMA ReachMore ==
    ASSUME NEW pattern, NEW value, Len(value) \in Nat, NEW n \in Nat, NEW k \in 0 .. Len(value),
           Reach(pattern, value, n, k), NEW l \in 0 .. Len(value),
           \/ pattern[n + 1] = "*" /\ k <= l
           \/ pattern[n + 1] # "*" /\ l = k + 1 /\ pattern[n + 1] = value[l]
    PROVE  Reach(pattern, value, n + 1, l)
<1>1. PICK ends \in [0 .. n -> 0 .. Len(value)] :
          ends[0] = 0 /\ ends[n] = k /\ Fit(ends, pattern, value)
    BY DEF Reach
<1> DEFINE more == [i \in 0 .. n + 1 |-> IF i = n + 1 THEN l ELSE ends[i]]
<1>2. more \in [0 .. n + 1 -> 0 .. Len(value)] /\ more[0] = 0 /\ more[n + 1] = l
    BY <1>1
<1>3. ASSUME NEW i \in DOMAIN more \ {0}
      PROVE  IF pattern[i] = "*" THEN more[i - 1] <= more[i]
             ELSE more[i] = more[i - 1] + 1 /\ value[more[i]] = pattern[i]
    <2>1. CASE i = n + 1
        <3>1. more[i] = l /\ more[i - 1] = k BY <1>1, <2>1
        <3> HIDE DEF more
        <3> QED BY <2>1, <3>1
    <2>2. CASE i \in DOMAIN ends \ {0}
        <3>1. more[i] = ends[i] /\ more[i - 1] = ends[i - 1] BY <2>2
        <3> HIDE DEF more
        <3> QED BY <1>1, <2>2, <3>1 DEF Fit
    <2> QED BY <1>1, <2>1, <2>2
<1>4. Fit(more, pattern, value) BY <1>3 DEF Fit
<1> HIDE DEF more
<1> QED BY <1>2, <1>4 DEF Reach

\* A star that ends at a place may end anywhere further on.
LEMMA ReachFurther ==
    ASSUME NEW pattern, NEW value, Len(value) \in Nat, NEW n \in Nat,
           NEW k \in 0 .. Len(value), Reach(pattern, value, n + 1, k),
           pattern[n + 1] = "*", NEW l \in k .. Len(value)
    PROVE  Reach(pattern, value, n + 1, l)
<1>1. PICK ends \in [0 .. n + 1 -> 0 .. Len(value)] :
          ends[0] = 0 /\ ends[n + 1] = k /\ Fit(ends, pattern, value)
    BY DEF Reach
<1>2. ends[n] \in 0 .. Len(value) /\ ends[n] <= k BY <1>1 DEF Fit
<1> DEFINE more == [ends EXCEPT ![n + 1] = l]
<1>3. more \in [0 .. n + 1 -> 0 .. Len(value)] /\ more[0] = 0 /\ more[n + 1] = l
    BY <1>1
<1>4. ASSUME NEW i \in DOMAIN more \ {0}
      PROVE  IF pattern[i] = "*" THEN more[i - 1] <= more[i]
             ELSE more[i] = more[i - 1] + 1 /\ value[more[i]] = pattern[i]
    <2>1. CASE i = n + 1
        <3>1. more[i] = l /\ more[i - 1] = ends[n] BY <1>1, <2>1
        <3> HIDE DEF more
        <3> QED BY <1>2, <2>1, <3>1
    <2>2. CASE i # n + 1
        <3>1. more[i] = ends[i] /\ more[i - 1] = ends[i - 1] /\ i \in DOMAIN ends \ {0}
            BY <1>1, <2>2
        <3> HIDE DEF more
        <3> QED BY <1>1, <2>2, <3>1 DEF Fit
    <2> QED BY <1>1, <2>1, <2>2
<1>5. Fit(more, pattern, value) BY <1>4 DEF Fit
<1> HIDE DEF more
<1> QED BY <1>3, <1>5 DEF Reach

\* What the loop has consumed can be consumed as the pattern says.
LEMMA MatchIsSound ==
    ASSUME NEW S, NEW pattern \in Seq(S), NEW value \in Seq(S), wildcard_match(pattern, value)
    PROVE  Matches(pattern, value)
<1> DEFINE R(n, k) == Reach(pattern, value, n, k)
           OnCourse(s) == R(s.p, s.v) /\ (s.star # -1 => pattern[s.star + 1] = "*" /\ R(s.star + 1, s.mark))
           start == [p |-> 0, v |-> 0, star |-> -1, mark |-> 0]
<1>a. Len(pattern) \in Nat /\ Len(value) \in Nat OBVIOUS
<1>1. PICK f : Decides(f, pattern, value) /\ f[start] BY MatchDecides
<1> DEFINE T == {s \in Loop(pattern, value) : f[s] /\ OnCourse(s)}
<1> SUFFICES ASSUME ~ Matches(pattern, value) PROVE FALSE
    OBVIOUS
<1>2. start \in T
    <2>1. start \in Loop(pattern, value) BY <1>a DEF Loop
    <2>2. OnCourse(start) BY <1>a, ReachNone
    <2> HIDE DEF OnCourse
    <2> QED BY <1>1, <2>1, <2>2
<1>3. ASSUME NEW s \in T
      PROVE  /\ s.v # Len(value) /\ ~ Fails(pattern, value, s)
             /\ Advance(pattern, value, s) \in T
    <2> DEFINE t == Advance(pattern, value, s)
    <2>1. s \in Loop(pattern, value) /\ f[s] /\ OnCourse(s) OBVIOUS
    <2>2. /\ s.p \in 0 .. Len(pattern) /\ s.v \in 0 .. Len(value)
          /\ s.star \in -1 .. Len(pattern) /\ s.mark \in 0 .. Len(value)
          /\ s.star < s.p /\ s.mark <= s.v
        BY <2>1, LoopParts
    <2>3. Turn(f, pattern, value, s) BY <1>1, <2>1 DEF Decides
    <2>4. s.v # Len(value)
        <3> SUFFICES ASSUME s.v = Len(value) PROVE Matches(pattern, value)
            OBVIOUS
        <3>1. \A i \in s.p + 1 .. Len(pattern) : pattern[i] = "*" BY <2>3 DEF Turn
        <3>2. R(s.p, Len(value)) BY <2>1
        <3> DEFINE Q == {n \in s.p .. Len(pattern) : ~ R(n, Len(value))}
        <3>3. Q = {}
            <4> SUFFICES ASSUME Q # {} PROVE FALSE
                OBVIOUS
            <4>1. Q \in SUBSET Nat BY <1>a, <2>2
            <4>2. PICK n \in Q : \A m \in Q : n <= m
                <5> HIDE DEF Q
                <5> QED BY <4>1, LeastOf
            <4>3. n # s.p BY <3>2
            <4>4. n - 1 \in s.p .. Len(pattern) /\ n - 1 \in Nat /\ n \in s.p + 1 .. Len(pattern)
                BY <1>a, <2>2, <4>3
            <4>5. R(n - 1, Len(value)) BY <4>1, <4>2, <4>4
            <4>6. Reach(pattern, value, (n - 1) + 1, Len(value))
                <5> HIDE DEF Q
                <5>1. pattern[(n - 1) + 1] = "*" BY <3>1, <4>4
                <5>2. Len(value) \in 0 .. Len(value) BY <1>a
                <5> QED BY <1>a, <4>4, <4>5, <5>1, <5>2, ReachMore
            <4>7. (n - 1) + 1 = n BY <4>4
            <4> QED BY <4>6, <4>7
        <3>4. R(Len(pattern), Len(value)) BY <1>a, <2>2, <3>3
        <3> QED BY <3>4 DEF Reach, Matches
    <2>5. ~ Fails(pattern, value, s) /\ f[t] BY <2>3, <2>4 DEF Turn
    <2>6. t \in Loop(pattern, value) BY <2>1, <2>2, <2>4, <2>5, AdvanceInLoop
    <2>7. OnCourse(t)
        <3>a. s.p \in Nat /\ s.v \in 0 .. Len(value) /\ s.star \in Int /\ s.mark \in 0 .. Len(value)
            BY <1>a, <2>2
        <3>b. R(s.p, s.v) /\ (s.star # -1 => pattern[s.star + 1] = "*" /\ R(s.star + 1, s.mark))
            BY <2>1
        <3>c. /\ t.v \in 0 .. Len(value) /\ t.mark \in 0 .. Len(value)
            BY <2>6, LoopParts
        <3>d. s.v < Len(value) BY <1>a, <2>2, <2>4
        <3> HIDE DEF t, OnCourse
        <3>1. CASE /\ s.p < Len(pattern) /\ pattern[s.p + 1] = value[s.v + 1]
                   /\ t.p = s.p + 1 /\ t.v = s.v + 1 /\ t.star = s.star /\ t.mark = s.mark
            <4>1. Reach(pattern, value, s.p + 1, s.v + 1)
                BY <1>a, <3>1, <3>a, <3>b, <3>c, ReachMore
            <4> QED BY <3>1, <3>b, <4>1 DEF OnCourse
        <3>2. CASE /\ s.p < Len(pattern) /\ pattern[s.p + 1] = "*"
                   /\ t.p = s.p + 1 /\ t.v = s.v /\ t.star = s.p /\ t.mark = s.v
            <4>1. Reach(pattern, value, s.p + 1, s.v)
                BY <1>a, <3>2, <3>a, <3>b, ReachMore
            <4> QED BY <3>2, <3>b, <4>1 DEF OnCourse
        <3>3. CASE /\ s.star # -1
                   /\ t.p = s.star + 1 /\ t.v = s.mark + 1 /\ t.star = s.star
                   /\ t.mark = s.mark + 1
            <4>1. s.star \in Nat BY <2>2, <3>3, <1>a
            <4>2. s.mark + 1 \in s.mark .. Len(value) BY <1>a, <3>a, <3>c, <3>3
            <4>3. Reach(pattern, value, s.star + 1, s.mark + 1)
                BY <1>a, <3>3, <3>a, <3>b, <4>1, <4>2, ReachFurther
            <4> QED BY <3>3, <3>b, <4>3 DEF OnCourse
        <3>4. \/ s.p < Len(pattern) /\ pattern[s.p + 1] = value[s.v + 1]
                 /\ t.p = s.p + 1 /\ t.v = s.v + 1 /\ t.star = s.star /\ t.mark = s.mark
              \/ s.p < Len(pattern) /\ pattern[s.p + 1] = "*"
                 /\ t.p = s.p + 1 /\ t.v = s.v /\ t.star = s.p /\ t.mark = s.v
              \/ s.star # -1
                 /\ t.p = s.star + 1 /\ t.v = s.mark + 1 /\ t.star = s.star
                 /\ t.mark = s.mark + 1
            BY <2>1, <2>5, <3>d, AdvanceInLoop DEF t
        <3> QED BY <3>1, <3>2, <3>3, <3>4
    <2> QED BY <2>4, <2>5, <2>6, <2>7
<1>4. T = {}
    <2>1. T \in SUBSET Loop(pattern, value) OBVIOUS
    <2> HIDE DEF T
    <2> QED BY <1>3, <2>1, LoopEnds DEF Endless
<1> QED BY <1>2, <1>4

\* Where the value has no star of its own, the loop finds what there is to find:
\* it is never further on than the places ends gives, and as far behind them now
\* as it was at the last star.
LEMMA MatchIsComplete ==
    ASSUME NEW S, NEW pattern \in Seq(S), NEW value \in Seq(S),
           ~ Contains(value, "*"), Matches(pattern, value)
    PROVE  wildcard_match(pattern, value)
<1>a. Len(pattern) \in Nat /\ Len(value) \in Nat OBVIOUS
<1>b. \A i \in 1 .. Len(value) : value[i] # "*" BY DEF Contains
<1>1. PICK ends \in [0 .. Len(pattern) -> 0 .. Len(value)] :
          /\ ends[0] = 0 /\ ends[Len(pattern)] = Len(value)
          /\ Fit(ends, pattern, value)
    BY DEF Matches
<1>2. ASSUME NEW n \in 1 .. Len(pattern)
      PROVE  /\ n - 1 \in 0 .. Len(pattern) /\ ends[n] \in Nat /\ ends[n - 1] \in Nat
             /\ ends[n] <= Len(value) /\ ends[n - 1] <= ends[n]
             /\ pattern[n] # "*" => ends[n] = ends[n - 1] + 1 /\ value[ends[n]] = pattern[n]
    <2>1. n \in DOMAIN ends \ {0} BY <1>1
    <2>2. n - 1 \in 0 .. Len(pattern) BY <1>a
    <2>3. ends[n] \in 0 .. Len(value) /\ ends[n - 1] \in 0 .. Len(value) BY <1>1, <2>1, <2>2
    <2>4. IF pattern[n] = "*" THEN ends[n - 1] <= ends[n]
          ELSE ends[n] = ends[n - 1] + 1 /\ value[ends[n]] = pattern[n]
        BY <1>1, <2>1 DEF Fit
    <2> QED BY <1>a, <2>2, <2>3, <2>4
<1> DEFINE OnCourse(s) == /\ s.v <= ends[s.p]
                          /\ s.star = -1 => ends[s.p] = s.v
                          /\ s.star # -1 => ends[s.p] - s.v = ends[s.star + 1] - s.mark
           start == [p |-> 0, v |-> 0, star |-> -1, mark |-> 0]
<1>3. PICK f : /\ Decides(f, pattern, value)
               /\ wildcard_match(pattern, value) = f[start]
    BY MatchDecides
<1> DEFINE T == {s \in Loop(pattern, value) : ~ f[s] /\ OnCourse(s)}
<1>4. start \in Loop(pattern, value) /\ OnCourse(start) BY <1>a, <1>1 DEF Loop
<1>5. ASSUME NEW s \in T
      PROVE  /\ s.v # Len(value) /\ ~ Fails(pattern, value, s)
             /\ Advance(pattern, value, s) \in T
    <2> DEFINE t == Advance(pattern, value, s)
    <2>1. s \in Loop(pattern, value) /\ ~ f[s] /\ OnCourse(s) OBVIOUS
    <2>2. /\ s.p \in 0 .. Len(pattern) /\ s.v \in 0 .. Len(value)
          /\ s.star \in -1 .. Len(pattern) /\ s.mark \in 0 .. Len(value)
          /\ s.star < s.p /\ s.mark <= s.v
        BY <2>1, LoopParts
    <2>3. ~ Turn(f, pattern, value, s) BY <1>3, <2>1 DEF Decides
    <2>4. s.v # Len(value)
        <3> SUFFICES ASSUME s.v = Len(value)
                     PROVE  \A i \in s.p + 1 .. Len(pattern) : pattern[i] = "*"
            BY <2>3 DEF Turn
        <3> DEFINE Q == {n \in s.p .. Len(pattern) : ends[n] # Len(value)}
        <3>1. Q = {}
            <4> SUFFICES ASSUME Q # {} PROVE FALSE
                OBVIOUS
            <4>1. Q \in SUBSET Nat BY <1>a, <2>2
            <4>2. PICK n \in Q : \A m \in Q : n <= m
                <5> HIDE DEF Q
                <5> QED BY <4>1, LeastOf
            <4>3. n \in s.p .. Len(pattern) /\ ends[n] # Len(value) OBVIOUS
            <4>4. ends[s.p] = Len(value)
                <5>1. ends[s.p] \in 0 .. Len(value) BY <1>1, <2>2
                <5> QED BY <1>a, <2>1, <5>1
            <4>5. n \in 1 .. Len(pattern) /\ n - 1 \in s.p .. Len(pattern)
                BY <1>a, <2>2, <4>3, <4>4
            <4>6. n - 1 \notin Q
                <5> HIDE DEF Q
                <5> QED BY <4>1, <4>2, <4>5
            <4>7. ends[n - 1] = Len(value) BY <4>5, <4>6
            <4> HIDE DEF Q
            <4> QED BY <1>a, <1>2, <4>3, <4>5, <4>7
        <3>2. \A n \in s.p .. Len(pattern) : ends[n] = Len(value) BY <3>1
        <3> HIDE DEF Q
        <3> TAKE i \in s.p + 1 .. Len(pattern)
        <3>3. i \in 1 .. Len(pattern) /\ i \in s.p .. Len(pattern) /\ i - 1 \in s.p .. Len(pattern)
            BY <1>a, <2>2
        <3>4. ends[i] = Len(value) /\ ends[i - 1] = Len(value) BY <3>2, <3>3
        <3> QED BY <1>a, <1>2, <3>3, <3>4
    <2>5. s.v < Len(value) /\ s.v \in Nat /\ s.p \in Nat /\ s.star \in Int /\ s.mark \in Nat
        BY <1>a, <2>2, <2>4
    <2>6. ends[s.p] \in Nat BY <1>1, <2>2
    <2>7. s.v <= ends[s.p] BY <2>1
    <2>8. ASSUME s.p < Len(pattern)
          PROVE  /\ s.p + 1 \in 1 .. Len(pattern) /\ ends[s.p + 1] \in Nat
                 /\ ends[s.p] <= ends[s.p + 1]
                 /\ pattern[s.p + 1] # "*" =>
                       ends[s.p + 1] = ends[s.p] + 1 /\ value[ends[s.p] + 1] = pattern[s.p + 1]
        <3>1. s.p + 1 \in 1 .. Len(pattern) /\ (s.p + 1) - 1 = s.p BY <1>a, <2>5, <2>8
        <3>2. /\ ends[s.p + 1] \in Nat
              /\ ends[(s.p + 1) - 1] <= ends[s.p + 1]
              /\ pattern[s.p + 1] # "*" =>
                    /\ ends[s.p + 1] = ends[(s.p + 1) - 1] + 1
                    /\ value[ends[s.p + 1]] = pattern[s.p + 1]
            BY <3>1, <1>2
        <3> QED BY <3>1, <3>2
    <2>9. ASSUME s.p < Len(pattern) => pattern[s.p + 1] \notin {value[s.v + 1], "*"}
          PROVE  s.v < ends[s.p]
        <3> SUFFICES ASSUME ends[s.p] = s.v PROVE FALSE
            BY <2>5, <2>6, <2>7
        <3>1. CASE s.p < Len(pattern)
            BY <2>8, <2>9, <3>1
        <3>2. CASE s.p = Len(pattern)
            BY <1>1, <2>5, <3>2
        <3> QED BY <1>a, <2>2, <3>1, <3>2
    <2>10. ~ Fails(pattern, value, s)
        <3> SUFFICES ASSUME Fails(pattern, value, s) PROVE FALSE
            OBVIOUS
        <3>1. s.star = -1 /\ s.v < ends[s.p] BY <2>9 DEF Fails
        <3>2. ends[s.p] = s.v BY <2>1, <3>1
        <3> QED BY <2>5, <3>1, <3>2
    <2>11. ~ f[t] BY <2>3, <2>4, <2>10 DEF Turn
    <2>12. t \in Loop(pattern, value) BY <2>1, <2>5, <2>10, AdvanceInLoop
    <2>13. OnCourse(t)
        <3>1. /\ s.star = -1 => ends[s.p] = s.v
              /\ s.star # -1 => ends[s.p] - s.v = ends[s.star + 1] - s.mark
            BY <2>1
        <3>2. \/ s.p < Len(pattern) /\ pattern[s.p + 1] = value[s.v + 1]
                 /\ t.p = s.p + 1 /\ t.v = s.v + 1 /\ t.star = s.star /\ t.mark = s.mark
              \/ s.p < Len(pattern) /\ pattern[s.p + 1] = "*"
                 /\ t.p = s.p + 1 /\ t.v = s.v /\ t.star = s.p /\ t.mark = s.v
              \/ /\ s.p < Len(pattern) => pattern[s.p + 1] \notin {value[s.v + 1], "*"}
                 /\ s.star # -1
                 /\ t.p = s.star + 1 /\ t.v = s.mark + 1 /\ t.star = s.star
                 /\ t.mark = s.mark + 1
            BY <2>1, <2>5, <2>10, AdvanceInLoop DEF t
        <3>3. s.star # -1 => ends[s.star + 1] \in Nat
            <4> SUFFICES ASSUME s.star # -1 PROVE s.star + 1 \in 0 .. Len(pattern)
                BY <1>1
            <4> QED BY <1>a, <2>2
        <3> HIDE DEF t
        <3> SUFFICES /\ t.v <= ends[t.p]
                     /\ t.star = -1 => ends[t.p] = t.v
                     /\ t.star # -1 => ends[t.p] - t.v = ends[t.star + 1] - t.mark
            OBVIOUS
        <3> HIDE DEF OnCourse, T
        <3>4. CASE /\ s.p < Len(pattern) /\ pattern[s.p + 1] = value[s.v + 1]
                   /\ t.p = s.p + 1 /\ t.v = s.v + 1 /\ t.star = s.star /\ t.mark = s.mark
            <4>1. pattern[s.p + 1] # "*"
                <5>1. s.v + 1 \in 1 .. Len(value) BY <1>a, <2>5
                <5> QED BY <1>b, <3>4, <5>1
            <4>2. ends[s.p + 1] = ends[s.p] + 1 BY <2>8, <3>4, <4>1
            <4>3. ends[t.p] = ends[s.p] + 1 BY <3>4, <4>2
            <4>4. t.star # -1 => ends[t.star + 1] = ends[s.star + 1] BY <3>4
            <4>5. t.v <= ends[t.p] BY <2>5, <2>6, <2>7, <3>4, <4>3
            <4>6. t.star = -1 => ends[t.p] = t.v BY <2>5, <2>6, <3>1, <3>4, <4>3
            <4>7. t.star # -1 => ends[t.p] - t.v = ends[t.star + 1] - t.mark
                <5>1. ends[t.p] - t.v = ends[s.p] - s.v
                    <6>1. (ends[s.p] + 1) - (s.v + 1) = ends[s.p] - s.v BY <2>5, <2>6, Moved
                    <6> QED BY <3>4, <4>3, <6>1
                <5>2. t.star # -1 => ends[t.star + 1] - t.mark = ends[s.star + 1] - s.mark
                    BY <3>4, <4>4
                <5> QED BY <3>1, <3>4, <5>1, <5>2
            <4> QED BY <4>5, <4>6, <4>7
        <3>5. CASE /\ s.p < Len(pattern) /\ pattern[s.p + 1] = "*"
                   /\ t.p = s.p + 1 /\ t.v = s.v /\ t.star = s.p /\ t.mark = s.v
            <4>1. ends[t.p] = ends[s.p + 1] /\ ends[t.star + 1] = ends[s.p + 1] BY <3>5
            <4>2. ends[s.p + 1] \in Nat /\ ends[s.p] <= ends[s.p + 1] BY <2>8, <3>5
            <4> QED BY <2>5, <2>6, <2>7, <3>5, <4>1, <4>2
        <3>6. CASE /\ s.p < Len(pattern) => pattern[s.p + 1] \notin {value[s.v + 1], "*"}
                   /\ s.star # -1
                   /\ t.p = s.star + 1 /\ t.v = s.mark + 1 /\ t.star = s.star
                   /\ t.mark = s.mark + 1
            <4>1. s.v < ends[s.p] BY <2>9, <3>6
            <4>2. ends[t.p] = ends[s.star + 1] /\ ends[t.star + 1] = ends[s.star + 1] BY <3>6
            <4>3. /\ ends[s.star + 1] \in Nat
                  /\ ends[s.p] - s.v = ends[s.star + 1] - s.mark
                BY <3>1, <3>3, <3>6
            <4>4. s.mark + 1 <= ends[s.star + 1] BY <2>5, <2>6, <4>1, <4>3, Further
            <4> QED BY <2>5, <3>6, <4>2, <4>4
        <3> QED BY <3>2, <3>4, <3>5, <3>6
    <2> QED BY <2>4, <2>10, <2>11, <2>12, <2>13
<1>6. T = {}
    <2>1. T \in SUBSET Loop(pattern, value) OBVIOUS
    <2> HIDE DEF T
    <2> QED BY <1>5, <2>1, LoopEnds DEF Endless
<1>7. f[start] BY <1>4, <1>6
<1> QED BY <1>3, <1>7

\* A pattern and a text are sequences over one alphabet.
LEMMA TextsTogether ==
    ASSUME NEW pattern, NEW value, IsText(pattern), IsText(value)
    PROVE  \E S : pattern \in Seq(S) /\ value \in Seq(S)
<1> DEFINE S == Range(pattern) \cup Range(value)
<1>1. pattern \in Seq(S)
    BY DEF IsText
<1>2. value \in Seq(S)
    BY DEF IsText
<1> QED BY <1>1, <1>2

\* The loop of wildcard_match finds nothing its pattern does not say and, in a value
\* without a star, everything it says: RulesMatchAsWritten.
THEOREM WildcardsAsWritten == Spec => []RulesMatchAsWritten
<1>1. ASSUME NEW c \in Consultations, c.policy # None,
             NEW i \in DOMAIN c.policy.rules, NEW pattern \in c.policy.rules[i].patterns
      PROVE  /\ wildcard_match(pattern, c.request.text) => Matches(pattern, c.request.text)
             /\ Matches(pattern, c.request.text) /\ ~ Contains(c.request.text, "*") =>
                    wildcard_match(pattern, c.request.text)
    <2>1. IsText(pattern) /\ IsText(c.request.text)
        BY <1>1, PolicyAssumption DEF IsPolicy
    <2>2. PICK S : pattern \in Seq(S) /\ c.request.text \in Seq(S)
        BY <2>1, TextsTogether
    <2>3. wildcard_match(pattern, c.request.text) => Matches(pattern, c.request.text)
        BY <2>2, MatchIsSound
    <2>4. Matches(pattern, c.request.text) /\ ~ Contains(c.request.text, "*") =>
              wildcard_match(pattern, c.request.text)
        BY <2>2, MatchIsComplete
    <2> QED BY <2>3, <2>4
<1>2. (consulted # None =>
          \E c \in Consultations :
              consulted = [c |-> c, answer |-> authorize(c.caller, c.policy, c.request)])
      => RulesMatchAsWritten
    BY <1>1 DEF RulesMatchAsWritten
<1> QED BY <1>2, ConsultedAnswers, PTL

-----------------------------------------------------------------------------
(* Paths                                                                     *)

\* What holds at 0 and from each place to the next holds up to n.
LEMMA PlaceByPlace ==
    ASSUME NEW n \in Nat, NEW T \in SUBSET (0 .. n), 0 \in T,
           \A i \in 1 .. n : i - 1 \in T => i \in T
    PROVE  T = 0 .. n
<1> DEFINE Bad == (0 .. n) \ T
<1> SUFFICES ASSUME Bad # {} PROVE FALSE
    OBVIOUS
<1>1. PICK m \in Bad : \A k \in Bad : m <= k
    <2>1. Bad \in SUBSET Nat OBVIOUS
    <2> HIDE DEF Bad
    <2> QED BY <2>1, LeastOf
<1>2. m \in 1 .. n /\ m - 1 \in 0 .. n /\ m \notin T /\ ~ (m <= m - 1) OBVIOUS
<1>3. m - 1 \in T
    <2>1. m - 1 \notin Bad
        <3> HIDE DEF Bad
        <3> QED BY <1>1, <1>2
    <2> QED BY <1>2, <2>1
<1> QED BY <1>2, <1>3

\* f is defined by recursion over the places up to n: base at 0, and then by the
\* place's G from the place before.
Recurs(f, n, base, G) ==
    f = [i \in 0 .. n |-> IF i = 0 THEN base ELSE G[i][f[i - 1]]]

\* There is such a function, with values where G has its values.
LEMMA RecursionExists ==
    ASSUME NEW n \in Nat, NEW X, NEW base \in X, NEW G \in [1 .. n -> [X -> X]]
    PROVE  \E f \in [0 .. n -> X] : Recurs(f, n, base, G)
<1> DEFINE Upto(f, k) == f \in [0 .. k -> X] /\ Recurs(f, k, base, G)
           T == {k \in 0 .. n : \E f : Upto(f, k)}
<1>1. 0 \in T
    <2>1. Upto([i \in 0 .. 0 |-> base], 0) BY DEF Recurs
    <2> HIDE DEF Upto
    <2> QED BY <2>1
<1>2. ASSUME NEW k \in 1 .. n, k - 1 \in T PROVE k \in T
    <2>1. PICK f : Upto(f, k - 1) BY <1>2
    <2> DEFINE y == G[k][f[k - 1]]
               g == [i \in 0 .. k |-> IF i = k THEN y ELSE f[i]]
    <2>2. y \in X
        <3>1. k - 1 \in 0 .. k - 1 OBVIOUS
        <3>2. f[k - 1] \in X BY <2>1, <3>1
        <3> QED BY <3>2
    <2>3. k - 1 \in 0 .. k /\ k - 1 # k OBVIOUS
    <2>4. g[k] = y /\ g[k - 1] = f[k - 1]
        <3> HIDE DEF y
        <3> QED BY <2>3
    <2>5. ASSUME NEW i \in 0 .. k, i # k
          PROVE  g[i] = f[i] /\ i \in 0 .. k - 1 /\ (i # 0 => g[i - 1] = f[i - 1])
        <3>1. i \in 0 .. k - 1 /\ (i # 0 => i - 1 \in 0 .. k /\ i - 1 # k) BY <2>5
        <3> HIDE DEF y
        <3> QED BY <2>5, <3>1
    <2>6. g = [i \in 0 .. k |-> g[i]] OBVIOUS
    <2> HIDE DEF g
    <2>7. ASSUME NEW i \in 0 .. k
          PROVE  g[i] \in X /\ g[i] = IF i = 0 THEN base ELSE G[i][g[i - 1]]
        <3>1. CASE i = k BY <2>2, <2>4, <3>1
        <3>2. CASE i # k
            <4>1. f[i] \in X /\ f[i] = IF i = 0 THEN base ELSE G[i][f[i - 1]]
                BY <2>1, <2>5, <3>2 DEF Recurs
            <4> QED BY <2>5, <3>2, <4>1
        <3> QED BY <3>1, <3>2
    <2>8. Upto(g, k) BY <2>6, <2>7 DEF Recurs
    <2> HIDE DEF Upto
    <2> QED BY <2>8
<1>3. T = 0 .. n
    <2>1. T \in SUBSET (0 .. n) OBVIOUS
    <2> HIDE DEF T
    <2> QED BY <1>1, <1>2, <2>1, PlaceByPlace
<1> QED BY <1>3

\* What a path's names are made of.
Letters(S) == Seq(S \ {"/"})
Names(S) == Letters(S) \ (Skipped \cup {Up})
SplitAt(f, path) ==
    f = [i \in 0 .. Len(path) |-> IF i = 0 THEN << <<>> >> ELSE SplitOff(f[i - 1], path[i])]

\* The parts of a path hold no slash.
LEMMA SplitParts ==
    ASSUME NEW S, NEW path \in Seq(S)
    PROVE  Split(path) \in Seq(Letters(S)) /\ Split(path) # <<>>
<1> DEFINE n == Len(path)
           X == Seq(Letters(S)) \ {<<>>}
           base == << <<>> >>
           G == [i \in 1 .. n |-> [x \in X |-> SplitOff(x, path[i])]]
<1>a. n \in Nat OBVIOUS
<1>1. base \in X BY DEF Letters
<1>2. ASSUME NEW x \in X, NEW c \in S PROVE SplitOff(x, c) \in X
    <2>1. CASE c = "/"
        <3>1. <<>> \in Letters(S) BY DEF Letters
        <3>2. Append(x, <<>>) \in Seq(Letters(S)) /\ Append(x, <<>>) # <<>> BY <3>1
        <3> QED BY <2>1, <3>2 DEF SplitOff
    <2>2. CASE c # "/"
        <3>1. Len(x) \in DOMAIN x /\ x[Len(x)] \in Letters(S) OBVIOUS
        <3>2. Append(x[Len(x)], c) \in Letters(S) BY <2>2, <3>1 DEF Letters
        <3>3. [x EXCEPT ![Len(x)] = Append(@, c)] \in Seq(Letters(S)) BY <3>1, <3>2
        <3>4. Len([x EXCEPT ![Len(x)] = Append(@, c)]) = Len(x) OBVIOUS
        <3> QED BY <2>2, <3>3, <3>4 DEF SplitOff
    <2> QED BY <2>1, <2>2
<1>3. G \in [1 .. n -> [X -> X]]
    <2>1. \A i \in 1 .. n : path[i] \in S OBVIOUS
    <2> HIDE DEF X, n
    <2> QED BY <1>2, <2>1
<1>4. \E f : SplitAt(f, path)
    <2>1. PICK f \in [0 .. n -> X] : Recurs(f, n, base, G)
        <3> HIDE DEF n, X, base, G
        <3> QED BY <1>a, <1>1, <1>3, RecursionExists
    <2>2. \A i \in 1 .. n : G[i][f[i - 1]] = SplitOff(f[i - 1], path[i])
        <3>1. \A i \in 1 .. n : i - 1 \in 0 .. n BY <1>a
        <3> HIDE DEF n, X
        <3> QED BY <3>1
    <2>3. f = [i \in 0 .. n |-> IF i = 0 THEN base ELSE SplitOff(f[i - 1], path[i])]
        <3>1. f = [i \in 0 .. n |-> IF i = 0 THEN base ELSE G[i][f[i - 1]]]
            BY <2>1 DEF Recurs
        <3>2. \A i \in 0 .. n : i # 0 => i \in 1 .. n BY <1>a
        <3> HIDE DEF G, n, base
        <3> QED BY <2>2, <3>1, <3>2
    <2> QED BY <2>3 DEF SplitAt
<1> DEFINE f == CHOOSE g : SplitAt(g, path)
<1>5. SplitAt(f, path) BY <1>4
<1>6. Split(path) = f[n] BY DEF Split, SplitAt
<1> HIDE DEF f
<1>7. f[0] = base /\ \A i \in 1 .. n : f[i] = SplitOff(f[i - 1], path[i])
    <2>1. f = [i \in 0 .. n |-> IF i = 0 THEN base ELSE SplitOff(f[i - 1], path[i])]
        BY <1>5 DEF SplitAt
    <2>2. 0 \in 0 .. n /\ \A i \in 1 .. n : i \in 0 .. n /\ i # 0 BY <1>a
    <2> HIDE DEF n, base
    <2> QED BY <2>1, <2>2
<1> DEFINE T == {i \in 0 .. n : f[i] \in X}
<1>8. T = 0 .. n
    <2>1. T \in SUBSET (0 .. n) OBVIOUS
    <2>2. 0 \in T
        <3> HIDE DEF n, X, base
        <3> QED BY <1>a, <1>1, <1>7
    <2>3. \A i \in 1 .. n : i - 1 \in T => i \in T
        <3> SUFFICES ASSUME NEW i \in 1 .. n, f[i - 1] \in X PROVE f[i] \in X
            OBVIOUS
        <3>1. path[i] \in S OBVIOUS
        <3> HIDE DEF X, n
        <3> QED BY <1>2, <1>7, <3>1
    <2> HIDE DEF T, n
    <2> QED BY <1>a, <2>1, <2>2, <2>3, PlaceByPlace
<1>9. n \in 0 .. n BY <1>a
<1>10. f[n] \in X
    <2> HIDE DEF n, X
    <2> QED BY <1>8, <1>9
<1> QED BY <1>6, <1>10

\* How deep a part leads from the depth d.
Deeper(d, part) ==
    IF part \notin Skipped \cup {Up} THEN d + 1
    ELSE IF part = Up /\ d > 0 THEN d - 1
    ELSE d

WalkAt(f, parts) ==
    f = [i \in 0 .. Len(parts) |-> IF i = 0 THEN <<>> ELSE Walk(f[i - 1], parts[i])]
DepthAt(f, parts) ==
    f = [i \in 0 .. Len(parts) |-> IF i = 0 THEN 0 ELSE Deeper(f[i - 1], parts[i])]

\* Of the first i parts, the name k is the one entered last at the depth d.
Entered(parts, depth, k, d) == parts[k] \notin Skipped \cup {Up} /\ depth[k] = d
LastEntered(parts, depth, k, i, d) ==
    /\ k \in 1 .. i /\ Entered(parts, depth, k, d)
    /\ \A j \in k + 1 .. i : ~ Entered(parts, depth, j, d)

\* The list w holds the names that were entered last, of the first i parts.
Traces(w, parts, depth, i) ==
    /\ depth[i] \in Nat /\ w = [d \in 1 .. depth[i] |-> w[d]]
    /\ \A d \in 1 .. depth[i] :
          \E k \in 1 .. i : LastEntered(parts, depth, k, i, d) /\ w[d] = parts[k]

\* One part more.
LEMMA TraceStep ==
    ASSUME NEW X, NEW w \in Seq(X), NEW parts, NEW depth, NEW i \in Nat \ {0},
           depth[i] = Deeper(depth[i - 1], parts[i]), Traces(w, parts, depth, i - 1)
    PROVE  Traces(Walk(w, parts[i]), parts, depth, i)
<1> DEFINE part == parts[i]
           l == depth[i - 1]
           v == Walk(w, part)
<1>a. l \in Nat /\ DOMAIN w = 1 .. l /\ Len(w) = l
    <2>1. l \in Nat /\ DOMAIN w = 1 .. l BY DEF Traces
    <2> QED BY <2>1
<1>1. ASSUME NEW d \in 1 .. l, ~ Entered(parts, depth, i, d)
      PROVE  \E k \in 1 .. i : LastEntered(parts, depth, k, i, d) /\ w[d] = parts[k]
    <2>1. PICK k \in 1 .. i - 1 : LastEntered(parts, depth, k, i - 1, d) /\ w[d] = parts[k]
        BY DEF Traces
    <2>2. k \in 1 .. i /\ \A j \in k + 1 .. i : j = i \/ j \in k + 1 .. i - 1 OBVIOUS
    <2>3. LastEntered(parts, depth, k, i, d) BY <1>1, <2>1, <2>2 DEF LastEntered
    <2> QED BY <2>1, <2>2, <2>3
<1>2. CASE part \notin Skipped \cup {Up}
    <2>1. v = Append(w, part) /\ depth[i] = l + 1 BY <1>2 DEF Walk, Deeper
    <2>2. DOMAIN v = 1 .. l + 1 /\ v[l + 1] = part /\ \A d \in 1 .. l : v[d] = w[d]
        BY <1>a, <2>1
    <2>3. v = [d \in 1 .. depth[i] |-> v[d]]
        <3>1. v \in Seq(X \cup {part}) BY <2>1
        <3>2. \A q \in Seq(X \cup {part}) : q = [d \in DOMAIN q |-> q[d]] OBVIOUS
        <3> HIDE DEF v, l
        <3>3. v = [d \in DOMAIN v |-> v[d]] BY <3>1, <3>2
        <3> QED BY <2>1, <2>2, <3>3
    <2>4. LastEntered(parts, depth, i, i, l + 1)
        BY <1>2, <2>1 DEF LastEntered, Entered
    <2>5. ASSUME NEW d \in 1 .. l + 1
          PROVE  \E k \in 1 .. i : LastEntered(parts, depth, k, i, d) /\ v[d] = parts[k]
        <3>1. CASE d = l + 1
            <4>1. i \in 1 .. i OBVIOUS
            <4> HIDE DEF v, l
            <4> QED BY <2>2, <2>4, <3>1, <4>1
        <3>2. CASE d # l + 1
            <4>1. d \in 1 .. l /\ ~ Entered(parts, depth, i, d)
                BY <1>a, <2>1, <3>2 DEF Entered
            <4> HIDE DEF v, l
            <4> QED BY <1>1, <2>2, <4>1
        <3> QED BY <3>1, <3>2
    <2> HIDE DEF v, l
    <2> QED BY <1>a, <2>1, <2>3, <2>5 DEF Traces, v
<1>3. ASSUME part \in Skipped \cup {Up}, NEW m \in 0 .. l, depth[i] = m,
             v = [d \in 1 .. m |-> w[d]]
      PROVE  Traces(v, parts, depth, i)
    <2>1. v = [d \in 1 .. m |-> v[d]] /\ \A d \in 1 .. m : v[d] = w[d] /\ d \in 1 .. l
        BY <1>a, <1>3
    <2>2. \A d : ~ Entered(parts, depth, i, d) BY <1>3 DEF Entered
    <2>3. m \in Nat BY <1>a
    <2> HIDE DEF v, l
    <2>4. ASSUME NEW d \in 1 .. m
          PROVE  \E k \in 1 .. i : LastEntered(parts, depth, k, i, d) /\ v[d] = parts[k]
        BY <1>1, <2>1, <2>2
    <2> QED BY <1>3, <2>1, <2>3, <2>4 DEF Traces
<1>4. CASE part \in Skipped
    <2>1. v = w /\ depth[i] = l
        <3>1. Up \notin Skipped BY DEF Up, Skipped
        <3> QED BY <1>4, <3>1 DEF Walk, Deeper
    <2>2. w = [d \in 1 .. l |-> w[d]] BY DEF Traces
    <2> QED BY <1>3, <1>4, <1>a, <2>1, <2>2
<1>5. CASE part = Up
    <2>1. part \notin Skipped BY <1>5 DEF Up, Skipped
    <2>2. CASE w = <<>>
        <3>1. l = 0 BY <1>a, <2>2
        <3>2. v = w /\ depth[i] = l BY <1>5, <2>1, <2>2, <3>1 DEF Walk, Deeper
        <3>3. w = [d \in 1 .. l |-> w[d]] BY DEF Traces
        <3> QED BY <1>3, <1>5, <1>a, <3>2, <3>3
    <2>3. CASE w # <<>>
        <3>1. l > 0 BY <1>a, <2>3
        <3>2. v = Front(w) /\ depth[i] = l - 1 BY <1>5, <2>1, <2>3, <3>1 DEF Walk, Deeper
        <3>3. Front(w) = [d \in 1 .. l - 1 |-> w[d]] BY <1>a, <3>1 DEF Front
        <3>4. l - 1 \in 0 .. l BY <1>a, <3>1
        <3> QED BY <1>3, <1>5, <3>2, <3>3, <3>4
    <2> QED BY <2>2, <2>3
<1> QED BY <1>2, <1>4, <1>5 DEF v, part

\* The walk stays a list of names.
LEMMA WalkTyped ==
    ASSUME NEW S, NEW w \in Seq(Names(S)), NEW part \in Letters(S)
    PROVE  Walk(w, part) \in Seq(Names(S))
<1>1. CASE part \in Skipped
    <2>1. part # Up BY <1>1 DEF Up, Skipped
    <2> QED BY <1>1, <2>1 DEF Walk
<1>2. CASE part = Up
    <2>1. w # <<>> => Front(w) \in Seq(Names(S)) BY DEF Front
    <2>2. part \notin Skipped BY <1>2 DEF Up, Skipped
    <2> QED BY <1>2, <2>1, <2>2 DEF Walk
<1>3. CASE part \notin Skipped \cup {Up}
    <2>1. part \in Names(S) BY <1>3 DEF Names
    <2> QED BY <1>3, <2>1 DEF Walk
<1> QED BY <1>1, <1>2, <1>3

LEMMA WalkExists ==
    ASSUME NEW S, NEW parts \in Seq(Letters(S))
    PROVE  \E f \in [0 .. Len(parts) -> Seq(Names(S))] : WalkAt(f, parts)
<1> DEFINE n == Len(parts)
           X == Seq(Names(S))
           G == [i \in 1 .. n |-> [x \in X |-> Walk(x, parts[i])]]
<1>a. n \in Nat /\ <<>> \in X OBVIOUS
<1>1. G \in [1 .. n -> [X -> X]]
    <2>1. \A i \in 1 .. n, x \in X : Walk(x, parts[i]) \in X
        <3>1. \A i \in 1 .. n : parts[i] \in Letters(S) OBVIOUS
        <3> QED BY <3>1, WalkTyped
    <2> HIDE DEF X, n
    <2> QED BY <2>1
<1>2. PICK f \in [0 .. n -> X] : Recurs(f, n, <<>>, G)
    <2> HIDE DEF n, X, G
    <2> QED BY <1>a, <1>1, RecursionExists
<1>3. \A i \in 1 .. n : G[i][f[i - 1]] = Walk(f[i - 1], parts[i])
    <2>1. \A i \in 1 .. n : i - 1 \in 0 .. n BY <1>a
    <2> HIDE DEF n, X
    <2> QED BY <2>1
<1>4. f = [i \in 0 .. n |-> IF i = 0 THEN <<>> ELSE Walk(f[i - 1], parts[i])]
    <2>1. f = [i \in 0 .. n |-> IF i = 0 THEN <<>> ELSE G[i][f[i - 1]]]
        BY <1>2 DEF Recurs
    <2>2. \A i \in 0 .. n : i # 0 => i \in 1 .. n BY <1>a
    <2> HIDE DEF G, n
    <2> QED BY <1>3, <2>1, <2>2
<1> QED BY <1>4 DEF WalkAt

LEMMA DepthExists ==
    ASSUME NEW parts, Len(parts) \in Nat
    PROVE  \E f \in [0 .. Len(parts) -> Nat] : DepthAt(f, parts)
<1> DEFINE n == Len(parts)
           G == [i \in 1 .. n |-> [x \in Nat |-> Deeper(x, parts[i])]]
<1>1. G \in [1 .. n -> [Nat -> Nat]]
    <2>1. \A x \in Nat : \A part : Deeper(x, part) \in Nat BY DEF Deeper
    <2> QED BY <2>1
<1>2. PICK f \in [0 .. n -> Nat] : Recurs(f, n, 0, G)
    <2>1. n \in Nat /\ 0 \in Nat OBVIOUS
    <2> HIDE DEF n, G
    <2> QED BY <1>1, <2>1, RecursionExists
<1>3. \A i \in 1 .. n : G[i][f[i - 1]] = Deeper(f[i - 1], parts[i])
    <2>1. \A i \in 1 .. n : i - 1 \in 0 .. n OBVIOUS
    <2> HIDE DEF n
    <2> QED BY <2>1
<1>4. f = [i \in 0 .. n |-> IF i = 0 THEN 0 ELSE Deeper(f[i - 1], parts[i])]
    <2>1. f = [i \in 0 .. n |-> IF i = 0 THEN 0 ELSE G[i][f[i - 1]]]
        BY <1>2 DEF Recurs
    <2>2. \A i \in 0 .. n : i # 0 => i \in 1 .. n OBVIOUS
    <2> HIDE DEF G, n
    <2> QED BY <1>3, <2>1, <2>2
<1> QED BY <1>4 DEF DepthAt

\* The walk leads to the names that stay.
LEMMA WalkedIsKept ==
    ASSUME NEW S, NEW path \in Seq(S)
    PROVE  Walked(path) = Kept(path) /\ Walked(path) \in Seq(Names(S))
<1> DEFINE parts == Split(path)
           n == Len(parts)
           f == CHOOSE g : WalkAt(g, parts)
           depth == CHOOSE g : DepthAt(g, parts)
           Held == \A i \in 0 .. n : /\ f[i] \in Seq(Names(S))
                                     /\ Traces(f[i], parts, depth, i)
           kept == [d \in 1 .. depth[n] |->
                       parts[CHOOSE i \in DOMAIN parts :
                                Entered(parts, depth, i, d)
                                /\ \A j \in i + 1 .. n : ~ Entered(parts, depth, j, d)]]
<1>a. parts \in Seq(Letters(S)) BY SplitParts
<1>b. n \in Nat /\ DOMAIN parts = 1 .. n /\ \A i \in 1 .. n : parts[i] \in Letters(S)
    <2> HIDE DEF parts
    <2> QED BY <1>a
<1>1. WalkAt(f, parts)
    <2> HIDE DEF parts
    <2> QED BY <1>a, WalkExists
<1>2. DepthAt(depth, parts)
    <2> HIDE DEF parts
    <2> QED BY <1>b, DepthExists
<1>3. Walked(path) = f[n] BY DEF Walked, WalkAt
<1>4. Kept(path) = kept BY DEF Kept, DepthAt, Deeper, Entered
<1> HIDE DEF parts, f, depth
<1>5. f[0] = <<>> /\ \A i \in 1 .. n : f[i] = Walk(f[i - 1], parts[i])
    BY <1>1, <1>b DEF WalkAt
<1>6. depth[0] = 0 /\ \A i \in 1 .. n : depth[i] = Deeper(depth[i - 1], parts[i])
    BY <1>2, <1>b DEF DepthAt
<1>7. Held
    <2> DEFINE T == {i \in 0 .. n : /\ f[i] \in Seq(Names(S))
                                    /\ Traces(f[i], parts, depth, i)}
    <2>1. T \in SUBSET (0 .. n) OBVIOUS
    <2>2. 0 \in T
        <3>1. Traces(<<>>, parts, depth, 0) BY <1>6 DEF Traces
        <3>2. <<>> \in Seq(Names(S)) OBVIOUS
        <3>3. 0 \in 0 .. n BY <1>b
        <3> HIDE DEF n
        <3> QED BY <1>5, <3>1, <3>2, <3>3
    <2>3. ASSUME NEW i \in 1 .. n, i - 1 \in T PROVE i \in T
        <3>1. f[i - 1] \in Seq(Names(S)) /\ Traces(f[i - 1], parts, depth, i - 1)
            BY <2>3
        <3>2. i \in Nat \ {0} /\ i \in 0 .. n BY <1>b
        <3> HIDE DEF n
        <3>3. f[i] \in Seq(Names(S)) BY <1>b, <1>5, <3>1, WalkTyped
        <3>4. Traces(Walk(f[i - 1], parts[i]), parts, depth, i)
            BY <1>6, <3>1, <3>2, TraceStep
        <3> QED BY <1>5, <3>2, <3>3, <3>4
    <2> HIDE DEF T, n
    <2>4. T = 0 .. n BY <1>b, <2>1, <2>2, <2>3, PlaceByPlace
    <2> QED BY <2>4 DEF T
<1>8. f[n] \in Seq(Names(S)) /\ Traces(f[n], parts, depth, n)
    <2>1. n \in 0 .. n BY <1>b
    <2> HIDE DEF n
    <2> QED BY <1>7, <2>1
<1>9. ASSUME NEW d \in 1 .. depth[n] PROVE f[n][d] = kept[d]
    <2> DEFINE Is(i) == Entered(parts, depth, i, d)
                        /\ \A j \in i + 1 .. n : ~ Entered(parts, depth, j, d)
               c == CHOOSE i \in DOMAIN parts : Is(i)
    <2>1. PICK k \in 1 .. n : Is(k) /\ f[n][d] = parts[k]
        BY <1>8 DEF Traces, LastEntered
    <2>2. c \in 1 .. n /\ Is(c)
        <3> HIDE DEF Is, n
        <3> QED BY <1>b, <2>1
    <2>3. c = k
        <3>1. ~ (c \in k + 1 .. n) /\ ~ (k \in c + 1 .. n)
            <4> HIDE DEF c
            <4> QED BY <2>1, <2>2
        <3> HIDE DEF c, Is
        <3> QED BY <1>b, <2>1, <2>2, <3>1
    <2>4. kept[d] = parts[c] OBVIOUS
    <2> QED BY <2>1, <2>3, <2>4
<1>10. f[n] = [d \in 1 .. depth[n] |-> f[n][d]] BY <1>8 DEF Traces
<1>11. f[n] = kept
    <2>1. kept = [d \in 1 .. depth[n] |-> kept[d]] OBVIOUS
    <2> HIDE DEF kept, n
    <2> QED BY <1>9, <1>10, <2>1
<1> QED BY <1>3, <1>4, <1>8, <1>11

JoinAt(f, parts) ==
    f = [i \in 0 .. Len(parts) |-> IF i = 0 THEN <<>> ELSE f[i - 1] \o <<"/">> \o parts[i]]

\* In the text t the first m parts lie one after the other, each behind its slash; the
\* i-th ends at ends[i].
Laid(t, parts, ends, m) ==
    /\ ends[0] = 0 /\ ends[m] = Len(t)
    /\ \A i \in 1 .. m :
          /\ ends[i] = ends[i - 1] + 1 + Len(parts[i])
          /\ t[ends[i - 1] + 1] = "/"
          /\ \A j \in 1 .. Len(parts[i]) : t[ends[i - 1] + 1 + j] = parts[i][j]
    /\ \A i \in 0 .. m : ends[i] \in 0 .. Len(t)

\* The text u is v with w behind it.
Behind(u, v, w) ==
    /\ Len(u) = Len(v) + Len(w)
    /\ \A k \in 1 .. Len(v) : u[k] = v[k]
    /\ \A j \in 1 .. Len(w) : u[Len(v) + j] = w[j]

LEMMA JoinedBehind ==
    ASSUME NEW R, NEW v \in Seq(R), NEW w \in Seq(R)
    PROVE  v \o w \in Seq(R) /\ Behind(v \o w, v, w)
<1>1. v \o w \in Seq(R) /\ Len(v \o w) = Len(v) + Len(w) OBVIOUS
<1>2. \A k \in 1 .. Len(v) : (v \o w)[k] = v[k] OBVIOUS
<1>3. ASSUME NEW j \in 1 .. Len(w) PROVE (v \o w)[Len(v) + j] = w[j]
    <2>1. Len(v) + j \in 1 .. Len(v) + Len(w) /\ Len(v) + j > Len(v)
          /\ Len(v) + j - Len(v) = j
        OBVIOUS
    <2> QED BY <2>1
<1> QED BY <1>1, <1>2, <1>3 DEF Behind

\* A place in a part is a place in the text, and so is its slash.
LEMMA PlaceInPart ==
    ASSUME NEW e \in Nat, NEW l \in Nat, NEW n \in Nat, e + 1 + l <= n, NEW j \in 1 .. l
    PROVE  e + 1 + j \in 1 .. n
OBVIOUS

LEMMA SlashInText ==
    ASSUME NEW e \in Nat, NEW l \in Nat, NEW n \in Nat, e + 1 + l <= n
    PROVE  e + 1 \in 1 .. n
OBVIOUS

\* One part more is put behind the others.
LEMMA LayOne ==
    ASSUME NEW R, NEW t \in Seq(R), NEW part \in Seq(R), NEW parts, NEW ends, "/" \in R,
           NEW m \in Nat \ {0}, parts[m] = part, Laid(t, parts, ends, m - 1),
           \A i \in 1 .. m : Len(parts[i]) \in Nat,
           ends[m] = ends[m - 1] + 1 + Len(part)
    PROVE  Laid(t \o <<"/">> \o part, parts, ends, m)
<1> DEFINE u == t \o <<"/">> \o part
<1>a. Len(t) \in Nat /\ Len(part) \in Nat OBVIOUS
<1>1. /\ Len(u) = Len(t) + 1 + Len(part) /\ u[Len(t) + 1] = "/"
      /\ \A k \in 1 .. Len(t) : u[k] = t[k]
      /\ \A j \in 1 .. Len(part) : u[Len(t) + 1 + j] = part[j]
    <2> DEFINE v == t \o <<"/">>
    <2>1. v \in Seq(R) /\ Len(v) = Len(t) + 1 /\ v[Len(t) + 1] = "/"
          /\ \A k \in 1 .. Len(t) : v[k] = t[k]
        OBVIOUS
    <2> HIDE DEF v
    <2>2. Behind(v \o part, v, part) BY <2>1, JoinedBehind
    <2>3. u = v \o part BY DEF v
    <2> HIDE DEF u
    <2> QED BY <1>a, <2>1, <2>2, <2>3 DEF Behind
<1> HIDE DEF u
<1>2. ends[m - 1] = Len(t) BY DEF Laid
<1>3. ends[m] = Len(u) BY <1>1, <1>2
<1>4. \A i \in 0 .. m : ends[i] \in 0 .. Len(u)
    <2>1. \A i \in 0 .. m : i = m \/ i \in 0 .. m - 1 OBVIOUS
    <2>2. \A i \in 0 .. m - 1 : ends[i] \in 0 .. Len(t) BY DEF Laid
    <2>3. Len(u) \in Nat /\ Len(t) <= Len(u) BY <1>a, <1>1
    <2> QED BY <1>3, <1>a, <2>1, <2>2, <2>3
<1>5. ASSUME NEW i \in 1 .. m
      PROVE  /\ ends[i] = ends[i - 1] + 1 + Len(parts[i])
             /\ u[ends[i - 1] + 1] = "/"
             /\ \A j \in 1 .. Len(parts[i]) : u[ends[i - 1] + 1 + j] = parts[i][j]
    <2>1. CASE i = m BY <1>1, <1>2, <2>1
    <2>2. CASE i # m
        <3>1. i \in 1 .. m - 1 /\ i - 1 \in 0 .. m - 1 /\ i \in 0 .. m - 1 BY <2>2
        <3>2. /\ ends[i] = ends[i - 1] + 1 + Len(parts[i])
              /\ t[ends[i - 1] + 1] = "/"
              /\ \A j \in 1 .. Len(parts[i]) : t[ends[i - 1] + 1 + j] = parts[i][j]
              /\ ends[i] \in 0 .. Len(t) /\ ends[i - 1] \in 0 .. Len(t)
            BY <3>1 DEF Laid
        <3>3. Len(parts[i]) \in Nat OBVIOUS
        <3>4. ends[i - 1] + 1 \in 1 .. Len(t)
            <4>1. ends[i - 1] \in Nat /\ ends[i - 1] + 1 + Len(parts[i]) <= Len(t)
                BY <1>a, <3>2
            <4> QED BY <1>a, <3>3, <4>1, SlashInText
        <3>5. ASSUME NEW j \in 1 .. Len(parts[i])
              PROVE  u[ends[i - 1] + 1 + j] = parts[i][j]
            <4>1. ends[i - 1] \in Nat /\ ends[i - 1] + 1 + Len(parts[i]) <= Len(t)
                BY <1>a, <3>2
            <4>2. ends[i - 1] + 1 + j \in 1 .. Len(t) BY <1>a, <3>3, <4>1, PlaceInPart
            <4> QED BY <1>1, <3>2, <4>2
        <3> QED BY <1>1, <3>2, <3>4, <3>5
    <2> QED BY <2>1, <2>2
<1>6. ends[0] = 0 BY DEF Laid
<1> QED BY <1>3, <1>4, <1>5, <1>6 DEF Laid, u

\* So lies every part in the text that joins them.
LEMMA JoinLays ==
    ASSUME NEW S, NEW parts \in Seq(Letters(S))
    PROVE  /\ Join(parts) \in Seq(S \cup {"/"})
           /\ \E ends : Laid(Join(parts), parts, ends, Len(parts))
<1> DEFINE n == Len(parts)
           R == S \cup {"/"}
           X == Seq(R)
           G == [i \in 1 .. n |-> [x \in X |-> x \o <<"/">> \o parts[i]]]
<1>a. n \in Nat /\ <<>> \in X OBVIOUS
<1>b. \A i \in 1 .. n : parts[i] \in Seq(R) /\ Len(parts[i]) \in Nat
    <2>1. \A part \in Letters(S) : part \in Seq(R) /\ Len(part) \in Nat BY DEF Letters
    <2>2. \A i \in 1 .. n : parts[i] \in Letters(S) OBVIOUS
    <2> HIDE DEF n, R
    <2> QED BY <2>1, <2>2
<1>c. \A x \in X, y \in X : x \o <<"/">> \o y \in X
    <2>1. \A x \in X, y \in X : x \o y \in X OBVIOUS
    <2>2. <<"/">> \in X OBVIOUS
    <2> HIDE DEF X
    <2> QED BY <2>1, <2>2
<1>1. G \in [1 .. n -> [X -> X]]
    <2> HIDE DEF X, n
    <2> QED BY <1>b, <1>c DEF X
<1>2. PICK g \in [0 .. n -> X] : Recurs(g, n, <<>>, G)
    <2> HIDE DEF n, X, G
    <2> QED BY <1>a, <1>1, RecursionExists
<1>3. JoinAt(g, parts)
    <2>1. \A i \in 1 .. n : i - 1 \in 0 .. n BY <1>a
    <2>2. \A i \in 1 .. n : G[i][g[i - 1]] = g[i - 1] \o <<"/">> \o parts[i]
        <3> HIDE DEF n, X
        <3> QED BY <2>1
    <2>3. g = [i \in 0 .. n |-> IF i = 0 THEN <<>> ELSE G[i][g[i - 1]]]
        BY <1>2 DEF Recurs
    <2>4. \A i \in 0 .. n : i # 0 => i \in 1 .. n BY <1>a
    <2>5. g = [i \in 0 .. n |-> IF i = 0 THEN <<>> ELSE g[i - 1] \o <<"/">> \o parts[i]]
        <3> HIDE DEF G, n
        <3> QED BY <2>2, <2>3, <2>4
    <2> QED BY <2>5 DEF JoinAt
<1> DEFINE f == CHOOSE h : JoinAt(h, parts)
<1>4. JoinAt(f, parts) BY <1>3
<1>5. Join(parts) = f[n] BY DEF Join, JoinAt
<1> HIDE DEF f
<1>6. f[0] = <<>> /\ \A i \in 1 .. n : f[i] = f[i - 1] \o <<"/">> \o parts[i]
    <2>1. f = [i \in 0 .. n |-> IF i = 0 THEN <<>> ELSE f[i - 1] \o <<"/">> \o parts[i]]
        BY <1>4 DEF JoinAt
    <2>2. 0 \in 0 .. n /\ \A i \in 1 .. n : i \in 0 .. n /\ i # 0 BY <1>a
    <2> HIDE DEF n
    <2> QED BY <2>1, <2>2
<1> DEFINE ends == [i \in 0 .. n |-> Len(f[i])]
           T == {i \in 0 .. n : f[i] \in X /\ Laid(f[i], parts, ends, i)}
<1>7. T = 0 .. n
    <2>1. T \in SUBSET (0 .. n) OBVIOUS
    <2>2. 0 \in T
        <3>1. 0 \in 0 .. n /\ ends[0] = 0 BY <1>a, <1>6
        <3>2. Laid(<<>>, parts, ends, 0)
            <4> HIDE DEF ends
            <4> QED BY <3>1 DEF Laid
        <3> HIDE DEF ends, n, X
        <3> QED BY <1>a, <1>6, <3>1, <3>2
    <2>3. ASSUME NEW i \in 1 .. n, i - 1 \in T PROVE i \in T
        <3>1. f[i - 1] \in X /\ Laid(f[i - 1], parts, ends, i - 1) BY <2>3
        <3>2. i \in Nat \ {0} /\ i \in 0 .. n /\ i - 1 \in 0 .. n BY <1>a
        <3>3. f[i] \in X
            <4> HIDE DEF X, n
            <4> QED BY <1>b, <1>c, <1>6, <3>1 DEF X
        <3>4. ends[i] = ends[i - 1] + 1 + Len(parts[i])
            <4>1. Len(f[i]) = Len(f[i - 1]) + 1 + Len(parts[i])
                <5> DEFINE v == f[i - 1] \o <<"/">>
                <5>1. v \in X /\ Len(v) = Len(f[i - 1]) + 1 BY <3>1
                <5>2. f[i] = v \o parts[i] BY <1>6
                <5>3. parts[i] \in Seq(R) BY <1>b
                <5>4. v \in Seq(R) /\ Len(f[i - 1]) \in Nat BY <3>1, <5>1
                <5> HIDE DEF v, n, R, X
                <5>5. Behind(f[i], v, parts[i]) BY <5>2, <5>3, <5>4, JoinedBehind
                <5> QED BY <5>1, <5>5 DEF Behind
            <4> HIDE DEF n
            <4> QED BY <3>2, <4>1
        <3>5. \A k \in 1 .. i : Len(parts[k]) \in Nat BY <1>a, <1>b
        <3>6. Laid(f[i - 1] \o <<"/">> \o parts[i], parts, ends, i)
            <4>1. "/" \in R /\ parts[i] \in Seq(R) BY <1>b
            <4> HIDE DEF ends, R, n
            <4> QED BY <3>1, <3>2, <3>4, <3>5, <4>1, LayOne
        <3> HIDE DEF ends, X, n
        <3> QED BY <1>6, <3>2, <3>3, <3>6
    <2> HIDE DEF T, n
    <2> QED BY <1>a, <2>1, <2>2, <2>3, PlaceByPlace
<1>8. f[n] \in X /\ Laid(f[n], parts, ends, n)
    <2>1. n \in 0 .. n BY <1>a
    <2> HIDE DEF n, X, ends
    <2> QED BY <1>7, <2>1
<1> HIDE DEF ends
<1> QED BY <1>5, <1>8

\* The text t begins with u, and goes on with a slash if it goes on.
GoesOn(t, u) ==
    /\ Len(u) <= Len(t) /\ \A i \in 1 .. Len(u) : u[i] = t[i]
    /\ Len(u) < Len(t) => t[Len(u) + 1] = "/"

LEMMA PrefixPlaces ==
    ASSUME NEW R, NEW s \in Seq(R), NEW t \in Seq(R)
    PROVE  IsPrefix(s, t) <=> Len(s) <= Len(t) /\ \A i \in 1 .. Len(s) : s[i] = t[i]
<1>1. CASE ~ (Len(s) <= Len(t)) BY <1>1 DEF IsPrefix
<1>2. CASE Len(s) <= Len(t)
    <2> DEFINE w == SubSeq(t, 1, Len(s))
    <2>1. w \in Seq(R) /\ Len(w) = Len(s) /\ \A i \in 1 .. Len(s) : w[i] = t[i] BY <1>2
    <2> HIDE DEF w
    <2>2. s = w <=> \A i \in 1 .. Len(s) : s[i] = w[i] BY <2>1
    <2>3. IsPrefix(s, t) <=> s = w BY <1>2 DEF IsPrefix, w
    <2> QED BY <1>2, <2>1, <2>2, <2>3
<1> QED BY <1>1, <1>2

LEMMA BeneathGoesOn ==
    ASSUME NEW R, NEW t \in Seq(R), NEW u \in Seq(R), "/" \in R, u # <<"/">>
    PROVE  Beneath(t, u) <=> GoesOn(t, u)
<1> DEFINE w == u \o <<"/">>
<1>a. Len(t) \in Nat /\ Len(u) \in Nat OBVIOUS
<1>1. w \in Seq(R) /\ Len(w) = Len(u) + 1 /\ w[Len(u) + 1] = "/"
      /\ \A i \in 1 .. Len(u) : w[i] = u[i]
    OBVIOUS
<1>2. Beneath(t, u) <=> t = u \/ IsPrefix(w, t) BY DEF Beneath
<1> HIDE DEF w
<1>3. IsPrefix(w, t) <=> Len(w) <= Len(t) /\ \A i \in 1 .. Len(w) : w[i] = t[i]
    BY <1>1, PrefixPlaces
<1>4. (\A i \in 1 .. Len(w) : w[i] = t[i])
          <=> (\A i \in 1 .. Len(u) : u[i] = t[i]) /\ t[Len(u) + 1] = "/"
    <2>1. \A i \in 1 .. Len(w) : i \in 1 .. Len(u) \/ i = Len(u) + 1 BY <1>a, <1>1
    <2>2. Len(u) + 1 \in 1 .. Len(w) /\ \A i \in 1 .. Len(u) : i \in 1 .. Len(w)
        BY <1>a, <1>1
    <2> QED BY <1>1, <2>1, <2>2
<1>5. t = u <=> Len(t) = Len(u) /\ \A i \in 1 .. Len(u) : u[i] = t[i] OBVIOUS
<1>6. Len(w) <= Len(t) <=> Len(u) < Len(t) BY <1>a, <1>1
<1>7. Len(u) <= Len(t) <=> Len(u) < Len(t) \/ Len(t) = Len(u) BY <1>a
<1>8. ~ (Len(u) < Len(t) /\ Len(t) = Len(u)) BY <1>a
<1> QED BY <1>2, <1>3, <1>4, <1>5, <1>6, <1>7, <1>8 DEF GoesOn

\* Of two texts that join parts, the one goes on from the other if it has all the
\* other's parts before more.
LEMMA SamePartsGoOn ==
    ASSUME NEW A, NEW B, NEW n \in Nat, NEW m \in Nat, m <= n,
           \A k \in 1 .. m : A[k] = B[k] /\ Len(B[k]) \in Nat,
           \A k \in 1 .. n : Len(A[k]) \in Nat,
           NEW t, NEW u, Len(t) \in Nat, Len(u) \in Nat, NEW o, NEW q,
           Laid(t, A, o, n), Laid(u, B, q, m)
    PROVE  GoesOn(t, u)
<1> DEFINE T == {k \in 0 .. m : o[k] = q[k] /\ \A i \in 1 .. q[k] : u[i] = t[i]}
<1>1. 0 \in T BY DEF Laid
<1>2. ASSUME NEW k \in 1 .. m, k - 1 \in T PROVE k \in T
    <2> DEFINE e == q[k - 1]
               l == Len(B[k])
    <2>1. o[k - 1] = e /\ \A i \in 1 .. e : u[i] = t[i] BY <1>2
    <2>2. k \in 1 .. n /\ k - 1 \in 0 .. m BY <1>2
    <2>3. e \in Nat BY <2>2 DEF Laid
    <2>4. l \in Nat /\ Len(A[k]) = l /\ A[k] = B[k] OBVIOUS
    <2>5. /\ q[k] = e + 1 + l /\ u[e + 1] = "/"
          /\ \A j \in 1 .. l : u[e + 1 + j] = B[k][j]
        BY DEF Laid
    <2>6. /\ o[k] = e + 1 + l /\ t[e + 1] = "/"
          /\ \A j \in 1 .. l : t[e + 1 + j] = B[k][j]
        <3>1. /\ o[k] = o[k - 1] + 1 + Len(A[k]) /\ t[o[k - 1] + 1] = "/"
              /\ \A j \in 1 .. Len(A[k]) : t[o[k - 1] + 1 + j] = A[k][j]
            BY <2>2 DEF Laid
        <3> HIDE DEF e, l, T
        <3> QED BY <2>1, <2>4, <3>1
    <2> HIDE DEF e, l, T
    <2>7. ASSUME NEW i \in 1 .. q[k] PROVE u[i] = t[i]
        <3>1. i \in 1 .. e \/ i = e + 1 \/ i - (e + 1) \in 1 .. l BY <2>3, <2>4, <2>5
        <3>2. CASE i - (e + 1) \in 1 .. l
            <4>1. e + 1 + (i - (e + 1)) = i BY <2>3
            <4> QED BY <2>5, <2>6, <3>2, <4>1
        <3> QED BY <2>1, <2>5, <2>6, <3>1, <3>2
    <2> QED BY <2>5, <2>6, <2>7 DEF T
<1>3. T = 0 .. m
    <2>1. T \in SUBSET (0 .. m) OBVIOUS
    <2> HIDE DEF T
    <2> QED BY <1>1, <1>2, <2>1, PlaceByPlace
<1>4. o[m] = Len(u) /\ \A i \in 1 .. Len(u) : u[i] = t[i]
    <2>1. m \in T BY <1>3
    <2> QED BY <2>1 DEF Laid
<1>5. Len(u) <= Len(t)
    <2>1. m \in 0 .. n OBVIOUS
    <2>2. o[m] \in 0 .. Len(t) BY <2>1 DEF Laid
    <2> QED BY <1>4, <2>2
<1>6. ASSUME Len(u) < Len(t) PROVE t[Len(u) + 1] = "/"
    <2>1. m # n BY <1>4, <1>6 DEF Laid
    <2>2. m + 1 \in 1 .. n /\ (m + 1) - 1 = m BY <2>1
    <2>3. t[o[(m + 1) - 1] + 1] = "/" BY <2>2 DEF Laid
    <2> HIDE DEF T
    <2> QED BY <1>4, <2>2, <2>3
<1> QED BY <1>4, <1>5, <1>6 DEF GoesOn

\* And only then, when no part holds a slash.
LEMMA GoesOnSameParts ==
    ASSUME NEW S, NEW A \in Seq(Letters(S)), NEW B \in Seq(Letters(S)),
           NEW t, NEW u, Len(t) \in Nat, Len(u) \in Nat, NEW o, NEW q,
           Laid(t, A, o, Len(A)), Laid(u, B, q, Len(B)), GoesOn(t, u)
    PROVE  Len(B) <= Len(A) /\ \A k \in 1 .. Len(B) : A[k] = B[k]
<1> DEFINE n == Len(A)
           m == Len(B)
           T == {k \in 0 .. m : k <= n /\ o[k] = q[k] /\ \A i \in 1 .. k : A[i] = B[i]}
<1>a. n \in Nat /\ m \in Nat OBVIOUS
<1>b. /\ \A k \in 1 .. n : A[k] \in Letters(S)
      /\ \A k \in 1 .. m : B[k] \in Letters(S)
    OBVIOUS
<1>c. \A part \in Letters(S) :
          /\ Len(part) \in Nat
          /\ part = [i \in 1 .. Len(part) |-> part[i]]
          /\ \A i \in 1 .. Len(part) : part[i] # "/"
    BY DEF Letters
<1>d. Len(u) <= Len(t) /\ (\A i \in 1 .. Len(u) : u[i] = t[i])
      /\ (Len(u) < Len(t) => t[Len(u) + 1] = "/")
    BY DEF GoesOn
<1>e. /\ o[0] = 0 /\ q[0] = 0 /\ o[n] = Len(t) /\ q[m] = Len(u)
      /\ (\A k \in 0 .. n : o[k] \in 0 .. Len(t)) /\ (\A k \in 0 .. m : q[k] \in 0 .. Len(u))
    BY DEF Laid
<1>f. ASSUME NEW k \in 1 .. n
      PROVE  /\ o[k] = o[k - 1] + 1 + Len(A[k]) /\ t[o[k - 1] + 1] = "/"
             /\ \A j \in 1 .. Len(A[k]) : t[o[k - 1] + 1 + j] = A[k][j]
    BY DEF Laid
<1>g. ASSUME NEW k \in 1 .. m
      PROVE  /\ q[k] = q[k - 1] + 1 + Len(B[k]) /\ u[q[k - 1] + 1] = "/"
             /\ \A j \in 1 .. Len(B[k]) : u[q[k - 1] + 1 + j] = B[k][j]
    BY DEF Laid
<1> HIDE DEF n, m
<1>1. 0 \in T BY <1>a, <1>e
<1>2. ASSUME NEW k \in 1 .. m, k - 1 \in T PROVE k \in T
    <2> DEFINE e == q[k - 1]
               a == Len(A[k])
               b == Len(B[k])
    <2>1. k - 1 <= n /\ o[k - 1] = e /\ \A i \in 1 .. k - 1 : A[i] = B[i] BY <1>2
    <2>2. e \in Nat /\ q[k] \in 0 .. Len(u) /\ k - 1 \in Nat
        <3>1. k - 1 \in 0 .. m /\ k \in 0 .. m BY <1>a
        <3> QED BY <1>e, <3>1
    <2>3. b \in Nat /\ q[k] = e + 1 + b BY <1>b, <1>c, <1>g
    <2>4. k <= n
        <3> SUFFICES ASSUME k - 1 = n PROVE FALSE
            BY <1>a, <2>1
        <3>1. e = Len(t) BY <1>e, <2>1
        <3> HIDE DEF e, b, T
        <3> QED BY <1>d, <2>2, <2>3, <3>1
    <2>5. k \in 1 .. n BY <1>a, <2>4
    <2>6. a \in Nat /\ o[k] = e + 1 + a /\ o[k] \in 0 .. Len(t)
        <3>1. k \in 0 .. n BY <2>5
        <3> QED BY <1>b, <1>c, <1>e, <1>f, <2>1, <2>5, <3>1
    <2>7. \A j \in 1 .. a : t[e + 1 + j] = A[k][j] /\ A[k][j] # "/"
        BY <1>b, <1>c, <1>f, <2>1, <2>5
    <2>8. \A j \in 1 .. b : u[e + 1 + j] = B[k][j] /\ B[k][j] # "/" BY <1>b, <1>c, <1>g
    <2> HIDE DEF e, a, b, T
    <2>9. ~ (a < b)
        <3> SUFFICES ASSUME a < b PROVE FALSE
            OBVIOUS
        <3>1. a + 1 \in 1 .. b /\ e + 1 + (a + 1) = o[k] + 1 BY <2>2, <2>3, <2>6
        <3>2. o[k] + 1 \in 1 .. Len(u) BY <2>2, <2>3, <2>6
        <3>3. t[o[k] + 1] # "/" BY <1>d, <2>8, <3>1, <3>2
        <3>4. k # n BY <1>d, <1>e, <2>6, <3>2
        <3>5. k + 1 \in 1 .. n /\ (k + 1) - 1 = k BY <1>a, <2>5, <3>4
        <3> QED BY <1>f, <3>3, <3>5
    <2>10. ~ (b < a)
        <3> SUFFICES ASSUME b < a PROVE FALSE
            OBVIOUS
        <3>1. b + 1 \in 1 .. a /\ e + 1 + (b + 1) = q[k] + 1 BY <2>2, <2>3, <2>6
        <3>2. t[q[k] + 1] # "/" BY <2>7, <3>1
        <3>3. CASE k = m
            <4>1. Len(u) < Len(t) BY <1>e, <2>2, <2>3, <2>6, <3>3
            <4> QED BY <1>d, <1>e, <3>2, <3>3, <4>1
        <3>4. CASE k # m
            <4>1. k + 1 \in 1 .. m /\ (k + 1) - 1 = k /\ k + 1 \in 0 .. m BY <1>a, <3>4
            <4>2. u[q[k] + 1] = "/" /\ q[k + 1] = q[k] + 1 + Len(B[k + 1])
                BY <1>g, <4>1
            <4>3. Len(B[k + 1]) \in Nat /\ q[k + 1] \in 0 .. Len(u) BY <1>b, <1>c, <1>e, <4>1
            <4>4. q[k] + 1 \in 1 .. Len(u)
                <5>1. q[k] \in Nat /\ q[k] + 1 + Len(B[k + 1]) <= Len(u) BY <2>2, <4>2, <4>3
                <5> QED BY <4>3, <5>1, SlashInText
            <4> QED BY <1>d, <3>2, <4>2, <4>4
        <3> QED BY <3>3, <3>4
    <2>11. a = b BY <2>3, <2>6, <2>9, <2>10
    <2>12. A[k] = B[k]
        <3>1. ASSUME NEW j \in 1 .. b PROVE A[k][j] = B[k][j]
            <4>1. e + 1 + j \in 1 .. Len(u) BY <2>2, <2>3
            <4> QED BY <1>d, <2>7, <2>8, <2>11, <4>1
        <3>2. A[k] = [j \in 1 .. b |-> A[k][j]] /\ B[k] = [j \in 1 .. b |-> B[k][j]]
            BY <1>b, <1>c, <2>5, <2>11 DEF a, b
        <3> QED BY <3>1, <3>2
    <2>13. \A i \in 1 .. k : A[i] = B[i]
        <3>1. \A i \in 1 .. k : i = k \/ i \in 1 .. k - 1 BY <1>a
        <3> QED BY <2>1, <2>12, <3>1
    <2>14. k \in 0 .. m /\ o[k] = q[k] BY <1>a, <2>3, <2>6, <2>11
    <2> QED BY <2>4, <2>13, <2>14 DEF T
<1>3. T = 0 .. m
    <2>1. T \in SUBSET (0 .. m) OBVIOUS
    <2> HIDE DEF T
    <2> QED BY <1>1, <1>2, <1>a, <2>1, PlaceByPlace
<1>4. m \in T BY <1>a, <1>3
<1> QED BY <1>4 DEF n, m

\* One normalized path is beneath another if and only if it has the other's names
\* before more.
LEMMA BeneathByNames ==
    ASSUME NEW S, NEW path \in Seq(S), NEW root \in Seq(S)
    PROVE  Beneath(normalize_remote_path(path), normalize_remote_path(root))
               <=> IsPrefix(Kept(root), Kept(path))
<1> DEFINE A == Walked(path)
           B == Walked(root)
           R == S \cup {"/"}
           t == normalize_remote_path(path)
           u == normalize_remote_path(root)
<1>1. /\ A = Kept(path) /\ B = Kept(root) /\ A \in Seq(Names(S)) /\ B \in Seq(Names(S))
      /\ t = (IF A = <<>> THEN <<"/">> ELSE Join(A))
      /\ u = (IF B = <<>> THEN <<"/">> ELSE Join(B))
    BY WalkedIsKept DEF normalize_remote_path
<1>2. Beneath(t, u) <=> u = <<"/">> \/ t = u \/ IsPrefix(u \o <<"/">>, t) BY DEF Beneath
<1> HIDE DEF A, B, t, u
<1>3. A \in Seq(Letters(S)) /\ B \in Seq(Letters(S)) BY <1>1 DEF Names
<1>4. \A i \in 1 .. Len(B) : Len(B[i]) \in Nat /\ Len(B[i]) # 0
    <2>1. \A part \in Names(S) : Len(part) \in Nat /\ Len(part) # 0
        BY DEF Names, Letters, Skipped
    <2>2. \A i \in 1 .. Len(B) : B[i] \in Names(S) BY <1>1
    <2> QED BY <2>1, <2>2
<1>5. IsPrefix(B, A) <=> Len(B) <= Len(A) /\ \A k \in 1 .. Len(B) : B[k] = A[k]
    BY <1>3, PrefixPlaces
<1>6. Len(A) \in Nat /\ Len(B) \in Nat /\ (A = <<>> <=> Len(A) = 0) /\ (B = <<>> <=> Len(B) = 0)
    BY <1>3
<1>7. CASE B = <<>>
    <2>1. IsPrefix(B, A)
        <3>1. Len(B) <= Len(A) /\ 1 .. Len(B) = {} BY <1>6, <1>7
        <3> QED BY <1>5, <3>1
    <2> QED BY <1>1, <1>2, <1>7, <2>1 DEF t, u
<1>8. CASE B # <<>>
    <2>1. u = Join(B) BY <1>1, <1>8
    <2>2. u \in Seq(R) BY <1>3, <2>1, JoinLays
    <2>3. PICK q : Laid(u, B, q, Len(B)) BY <1>3, <2>1, JoinLays
    <2>4. Len(u) \in Nat /\ Len(u) > 1
        <3>1. 1 \in 1 .. Len(B) /\ 1 \in 0 .. Len(B) BY <1>6, <1>8
        <3>2. q[1 - 1] = 0 /\ q[1] = q[1 - 1] + 1 + Len(B[1]) /\ q[1] \in 0 .. Len(u)
            BY <2>3, <3>1 DEF Laid
        <3>3. Len(u) \in Nat BY <2>2
        <3> QED BY <1>4, <3>1, <3>2, <3>3
    <2>5. Len(<<"/">>) = 1 /\ u # <<"/">> /\ "/" \in R /\ <<"/">> \in Seq(R)
        <3>1. Len(<<"/">>) = 1 /\ <<"/">> \in Seq(R) /\ "/" \in R OBVIOUS
        <3>2. ASSUME NEW l \in Nat, l > 1 PROVE l # 1 BY <3>2
        <3>3. Len(u) # 1 BY <2>4, <3>2
        <3>4. u # <<"/">> BY <3>1, <3>3
        <3> HIDE DEF R
        <3> QED BY <3>1, <3>4
    <2>6. CASE A = <<>>
        <3>1. t = <<"/">> BY <1>1, <2>6
        <3>2. ~ GoesOn(t, u) BY <2>4, <2>5, <3>1 DEF GoesOn
        <3>3. ~ Beneath(t, u)
            <4>1. t \in Seq(R) BY <2>5, <3>1
            <4> HIDE DEF R
            <4> QED BY <2>2, <2>5, <3>2, <4>1, BeneathGoesOn
        <3>4. ~ IsPrefix(B, A) BY <1>5, <1>6, <1>8, <2>6
        <3> QED BY <1>1, <3>3, <3>4 DEF t, u
    <2>7. CASE A # <<>>
        <3>1. t = Join(A) BY <1>1, <2>7
        <3>2. t \in Seq(R) /\ Len(t) \in Nat
            <4>1. t \in Seq(R) BY <1>3, <3>1, JoinLays
            <4> QED BY <4>1
        <3>3. PICK o : Laid(t, A, o, Len(A)) BY <1>3, <3>1, JoinLays
        <3>4. Beneath(t, u) <=> GoesOn(t, u)
            <4> HIDE DEF R
            <4> QED BY <2>2, <2>5, <3>2, BeneathGoesOn
        <3>5. ASSUME IsPrefix(B, A) PROVE GoesOn(t, u)
            <4>1. \A k \in 1 .. Len(A) : Len(A[k]) \in Nat
                <5>1. \A part \in Letters(S) : Len(part) \in Nat BY DEF Letters
                <5>2. \A k \in 1 .. Len(A) : A[k] \in Letters(S) BY <1>3
                <5> QED BY <5>1, <5>2
            <4>2. Len(B) <= Len(A) /\ \A k \in 1 .. Len(B) : A[k] = B[k] /\ Len(B[k]) \in Nat
                BY <1>4, <1>5, <3>5
            <4> QED BY <1>6, <2>3, <2>4, <3>2, <3>3, <4>1, <4>2, SamePartsGoOn
        <3>6. ASSUME GoesOn(t, u) PROVE IsPrefix(B, A)
            <4>1. Len(B) <= Len(A) /\ \A k \in 1 .. Len(B) : A[k] = B[k]
                BY <1>3, <2>3, <2>4, <3>2, <3>3, <3>6, GoesOnSameParts
            <4> QED BY <1>5, <4>1
        <3> QED BY <1>1, <3>4, <3>5, <3>6 DEF t, u
    <2> QED BY <2>6, <2>7
<1> QED BY <1>7, <1>8

\* Where an agent's operation on files leads decides, and nothing else but its kind, of
\* require_path and normalize_remote_path: RootsConfine.
THEOREM RootsConfineAgents == Spec => []RootsConfine
<1>1. ASSUME NEW c \in Consultations, c.caller # "human_cli",
             c.request.kind \in Operations \ {"exec"}, c.policy # None
      PROVE  LET roots == IF c.request.kind \in {"write", "upload"}
                          THEN c.policy.allowed_write_paths ELSE c.policy.allowed_read_paths
             IN  authorize(c.caller, c.policy, c.request) # "error"
                 <=> /\ c.request.kind \in c.policy.capabilities
                     /\ roots = {} \/
                        /\ Absolute(c.request.text)
                        /\ \E root \in roots :
                              Absolute(root) /\ IsPrefix(Kept(root), Kept(c.request.text))
    <2> DEFINE roots == IF c.request.kind \in {"write", "upload"}
                        THEN c.policy.allowed_write_paths ELSE c.policy.allowed_read_paths
               rules == c.policy.rules
    <2>1. IsText(c.request.text) /\ IsPolicy(c.policy) BY <1>1, PolicyAssumption
    <2>2. \A root \in roots : IsText(root) BY <2>1 DEF IsPolicy
    <2>3. ASSUME NEW root \in roots
          PROVE  Beneath(normalize_remote_path(c.request.text), normalize_remote_path(root))
                     <=> IsPrefix(Kept(root), Kept(c.request.text))
        <3>1. PICK S : root \in Seq(S) /\ c.request.text \in Seq(S)
            BY <2>1, <2>2, TextsTogether
        <3> QED BY <3>1, BeneathByNames
    <2>4. ByRules(rules, c.request) # "error"
        <3>1. rules \in Seq(Range(rules)) /\ \A i \in DOMAIN rules : rules[i].effect # "error"
            BY <2>1 DEF IsPolicy
        <3>2. CASE Matching(rules, c.request) = {}
            BY <3>2 DEF ByRules, Matching
        <3>3. CASE Matching(rules, c.request) # {}
            <4>1. PICK i : IsFirst(i, Matching(rules, c.request))
                <5>1. Matching(rules, c.request) \in SUBSET Nat BY <3>1 DEF Matching
                <5> HIDE DEF rules
                <5> QED BY <3>3, <5>1, FirstOfSome
            <4>2. i \in DOMAIN rules BY <4>1 DEF IsFirst, Matching
            <4>3. rules # <<>> BY <4>2
            <4>4. ByRules(rules, c.request) = rules[i].effect
                <5>1. Len(rules) \in Nat /\ DOMAIN rules = 1 .. Len(rules) BY <3>1
                <5> HIDE DEF rules
                <5> QED BY <4>1, <4>3, <5>1, FirstDecides
            <4> QED BY <3>1, <4>2, <4>4
        <3> QED BY <3>2, <3>3
    <2>5. authorize(c.caller, c.policy, c.request) # "error" <=> Required(c.policy, c.request)
        <3>1. c.request.kind \notin {"shutdown", "tunnel"} \cup Administration \cup Harmless
            BY <1>1 DEF Operations, Administration, Harmless
        <3>2. authorize(c.caller, c.policy, c.request) =
                  IF Required(c.policy, c.request) THEN ByRules(rules, c.request) ELSE "error"
            BY <1>1, <3>1 DEF authorize
        <3> HIDE DEF rules
        <3> QED BY <2>4, <3>2
    <2>6. Required(c.policy, c.request)
              <=> /\ c.request.kind \in c.policy.capabilities
                  /\ require_path(roots, c.request.text)
        BY <1>1 DEF Required, Operations
    <2> HIDE DEF roots
    <2> QED BY <2>3, <2>5, <2>6 DEF require_path, roots
<1>2. (consulted # None =>
          \E c \in Consultations :
              consulted = [c |-> c, answer |-> authorize(c.caller, c.policy, c.request)])
      => RootsConfine
    BY <1>1 DEF RootsConfine
<1> QED BY <1>2, ConsultedAnswers, PTL

-----------------------------------------------------------------------------
(* A text that is gone through from left to right                            *)

\* One thing before a sequence.
LEMMA PutBefore ==
    ASSUME NEW X, NEW x \in X, NEW s \in Seq(X)
    PROVE  /\ <<x>> \o s \in Seq(X) /\ Len(<<x>> \o s) = Len(s) + 1
           /\ (<<x>> \o s)[1] = x
           /\ \A k \in 2 .. Len(s) + 1 : (<<x>> \o s)[k] = s[k - 1]
<1>1. <<x>> \in Seq(X) /\ Len(<<x>>) = 1 /\ <<x>>[1] = x OBVIOUS
<1> QED BY <1>1, ConcatProperties

\* The search goes on, and not beyond the end.
LeadsOn(out, next) == \A i \in 1 .. Len(out) : next[i] \in i + 1 .. Len(out) + 1

\* What Rewritten makes of the places from k on.
Written(f, out, next, k) ==
    f = [i \in k .. Len(out) + 1 |->
            IF i > Len(out) THEN <<>> ELSE <<out[i]>> \o f[next[i]]]

LEMMA WritingExists ==
    ASSUME NEW X, NEW out \in Seq(X), NEW next, LeadsOn(out, next)
    PROVE  \E f : Written(f, out, next, 1)
<1> DEFINE n == Len(out)
           T == {m \in 0 .. n : \E f : Written(f, out, next, n + 1 - m)}
<1>a. n \in Nat OBVIOUS
<1>1. 0 \in T
    <2>1. Written([i \in n + 1 .. n + 1 |-> <<>>], out, next, n + 1)
        BY <1>a DEF Written
    <2>2. n + 1 - 0 = n + 1 /\ 0 \in 0 .. n BY <1>a
    <2> QED BY <2>1, <2>2
<1>2. ASSUME NEW m \in 1 .. n, m - 1 \in T PROVE m \in T
    <2> DEFINE k == n + 1 - m
    <2>1. k \in 1 .. n /\ n + 1 - (m - 1) = k + 1 /\ m \in 0 .. n BY <1>a
    <2>2. PICK f : Written(f, out, next, k + 1) BY <1>2, <2>1
    <2> DEFINE new == <<out[k]>> \o f[next[k]]
               g == [i \in k .. n + 1 |-> IF i = k THEN new ELSE f[i]]
    <2>3. ASSUME NEW i \in k .. n + 1
          PROVE  g[i] = IF i > n THEN <<>> ELSE <<out[i]>> \o g[next[i]]
        <3>1. CASE i = k
            <4>1. next[k] \in k + 1 .. n + 1 BY <2>1 DEF LeadsOn
            <4>2. g[next[k]] = f[next[k]] BY <2>1, <4>1
            <4>3. ~ (i > n) /\ g[i] = new /\ out[i] = out[k] /\ next[i] = next[k]
                BY <1>a, <2>1, <3>1
            <4> HIDE DEF g
            <4> QED BY <3>1, <4>2, <4>3
        <3>2. CASE i # k
            <4>1. i \in k + 1 .. n + 1 /\ i \in k .. n + 1 BY <2>1, <3>2
            <4>2. f[i] = IF i > n THEN <<>> ELSE <<out[i]>> \o f[next[i]]
                BY <2>2, <4>1 DEF Written
            <4>3. g[i] = f[i] BY <3>2
            <4>4. i <= n => g[next[i]] = f[next[i]]
                <5> SUFFICES ASSUME i <= n PROVE g[next[i]] = f[next[i]] OBVIOUS
                <5>1. i \in 1 .. n BY <2>1, <4>1
                <5>2. next[i] \in i + 1 .. n + 1 BY <5>1 DEF LeadsOn
                <5>3. next[i] \in k .. n + 1 /\ next[i] # k BY <2>1, <4>1, <5>2
                <5> QED BY <5>3
            <4> HIDE DEF g
            <4> QED BY <1>a, <2>1, <4>1, <4>2, <4>3, <4>4
        <3> QED BY <3>1, <3>2
    <2>4. Written(g, out, next, k)
        <3>1. g = [i \in k .. n + 1 |-> g[i]] OBVIOUS
        <3> HIDE DEF g
        <3> QED BY <2>3, <3>1 DEF Written
    <2> QED BY <2>1, <2>4
<1>3. n \in T
    <2>1. n \in 0 .. n BY <1>a
    <2>2. T = 0 .. n
        <3>1. T \in SUBSET (0 .. n) OBVIOUS
        <3> HIDE DEF T
        <3> QED BY <1>a, <1>1, <1>2, <3>1, PlaceByPlace
    <2> QED BY <2>1, <2>2
<1>4. n + 1 - n = 1 BY <1>a
<1> QED BY <1>3, <1>4

\* s is what stands in out at the places p: from i on, where next leads.
Visits(p, s, out, next, i) ==
    /\ p \in [1 .. Len(s) -> i .. Len(out)]
    /\ \A k \in 1 .. Len(s) : s[k] = out[p[k]]
    /\ \A k \in 1 .. Len(s) - 1 : p[k + 1] = next[p[k]]
    /\ \A k, l \in 1 .. Len(s) : k < l => p[k] < p[l]
    /\ i <= Len(out) => Len(s) >= 1 /\ p[1] = i /\ next[p[Len(s)]] = Len(out) + 1

LEMMA VisitedBefore ==
    ASSUME NEW X, NEW out \in Seq(X), NEW next, LeadsOn(out, next),
           NEW i \in 1 .. Len(out), NEW s \in Seq(X), NEW p, Visits(p, s, out, next, next[i])
    PROVE  \E q : Visits(q, <<out[i]>> \o s, out, next, i)
<1> DEFINE n == Len(out)
           l == Len(s)
           j == next[i]
           t == <<out[i]>> \o s
           q == [k \in 1 .. l + 1 |-> IF k = 1 THEN i ELSE p[k - 1]]
<1>a. n \in Nat /\ l \in Nat /\ j \in i + 1 .. n + 1 BY DEF LeadsOn
<1>1. Len(t) = l + 1 /\ t[1] = out[i] /\ \A k \in 2 .. l + 1 : t[k] = s[k - 1]
    <2>1. out[i] \in X OBVIOUS
    <2> QED BY <2>1, PutBefore
<1>2. \A k \in 2 .. l + 1 : k - 1 \in 1 .. l /\ q[k] = p[k - 1] BY <1>a
<1>3. \A k \in 1 .. l : p[k] \in j .. n /\ s[k] = out[p[k]] BY DEF Visits
<1>4. q[1] = i /\ \A k \in 1 .. l + 1 : k = 1 \/ k \in 2 .. l + 1 BY <1>a
<1>5. q = [k \in 1 .. l + 1 |-> q[k]] OBVIOUS
<1> HIDE DEF q, t, n, l, j
<1>6. q \in [1 .. l + 1 -> i .. n]
    <2>1. \A k \in 1 .. l + 1 : q[k] \in i .. n
        <3>1. i \in i .. n BY DEF n
        <3>2. \A x \in j .. n : x \in i .. n BY <1>a
        <3> QED BY <1>2, <1>3, <1>4, <3>1, <3>2
    <2> QED BY <1>5, <2>1
<1>7. \A k \in 1 .. l + 1 : t[k] = out[q[k]] BY <1>1, <1>2, <1>3, <1>4
<1>8. ASSUME NEW k \in 1 .. (l + 1) - 1 PROVE q[k + 1] = next[q[k]]
    <2>1. k \in 1 .. l /\ k + 1 \in 2 .. l + 1 /\ (k + 1) - 1 = k BY <1>a
    <2>2. q[k + 1] = p[k] BY <1>2, <2>1
    <2>3. CASE k = 1
        <3>1. p[1] = j
            <4>1. p[1] \in j .. n BY <1>3, <2>1, <2>3
            <4>2. j <= n BY <1>a, <4>1
            <4> QED BY <4>2 DEF Visits, j, n
        <3> QED BY <1>4, <2>2, <2>3, <3>1 DEF j
    <2>4. CASE k # 1
        <3>1. k - 1 \in 1 .. l - 1 /\ (k - 1) + 1 = k /\ k \in 2 .. l + 1 BY <1>a, <2>1, <2>4
        <3>2. p[k] = next[p[k - 1]]
            <4>1. p[(k - 1) + 1] = next[p[k - 1]] BY <3>1 DEF Visits, l
            <4> QED BY <3>1, <4>1
        <3> QED BY <1>2, <2>2, <3>1, <3>2
    <2> QED BY <2>3, <2>4
<1>9. ASSUME NEW k \in 1 .. l + 1, NEW m \in 1 .. l + 1, k < m PROVE q[k] < q[m]
    <2>1. m \in 2 .. l + 1 BY <1>a, <1>9
    <2>2. q[m] = p[m - 1] /\ m - 1 \in 1 .. l BY <1>2, <2>1
    <2>3. CASE k = 1
        <3>1. q[m] \in j .. n BY <1>3, <2>2
        <3> QED BY <1>4, <1>a, <2>3, <3>1
    <2>4. CASE k # 1
        <3>1. k \in 2 .. l + 1 BY <1>4, <2>4
        <3>2. q[k] = p[k - 1] /\ k - 1 \in 1 .. l BY <1>2, <3>1
        <3>3. k - 1 < m - 1 BY <1>9, <2>1, <3>1
        <3> QED BY <2>2, <3>2, <3>3 DEF Visits, l
    <2> QED BY <2>3, <2>4
<1>10. next[q[l + 1]] = n + 1
    <2>1. CASE l = 0
        <3>1. ~ (j <= n)
            <4> SUFFICES ASSUME j <= n PROVE FALSE OBVIOUS
            <4>1. l >= 1 BY DEF Visits, j, n, l
            <4> QED BY <2>1, <4>1
        <3>2. j = n + 1 BY <1>a, <3>1
        <3>3. q[l + 1] = i BY <1>4, <2>1
        <3> QED BY <3>2, <3>3 DEF j
    <2>2. CASE l # 0
        <3>1. l \in 1 .. l /\ l + 1 \in 2 .. l + 1 /\ (l + 1) - 1 = l BY <1>a, <2>2
        <3>2. q[l + 1] = p[l] BY <1>2, <3>1
        <3>3. j <= n
            <4>1. p[l] \in j .. n BY <1>3, <3>1
            <4> QED BY <1>a, <4>1
        <3>4. next[p[l]] = n + 1 BY <3>3 DEF Visits, j, n, l
        <3> QED BY <3>2, <3>4
    <2> QED BY <2>1, <2>2
<1>11. l + 1 >= 1 /\ i <= n BY <1>a DEF n
<1>12. Visits(q, t, out, next, i)
    <2>1. /\ q \in [1 .. Len(t) -> i .. Len(out)]
          /\ \A k \in 1 .. Len(t) : t[k] = out[q[k]]
          /\ \A k \in 1 .. Len(t) - 1 : q[k + 1] = next[q[k]]
          /\ \A k, m \in 1 .. Len(t) : k < m => q[k] < q[m]
          /\ Len(t) >= 1 /\ q[1] = i /\ next[q[Len(t)]] = Len(out) + 1
        BY <1>1, <1>4, <1>6, <1>7, <1>8, <1>9, <1>10, <1>11 DEF n
    <2> QED BY <2>1 DEF Visits
<1> QED BY <1>12 DEF t

\* What is written is what stands at the places visited.
LEMMA RewrittenVisits ==
    ASSUME NEW X, NEW out \in Seq(X), NEW next, LeadsOn(out, next)
    PROVE  /\ Rewritten(out, next) \in Seq(X)
           /\ \E p : Visits(p, Rewritten(out, next), out, next, 1)
<1> DEFINE n == Len(out)
           f == CHOOSE g : Written(g, out, next, 1)
           Good(i) == f[i] \in Seq(X) /\ \E p : Visits(p, f[i], out, next, i)
           T == {m \in 0 .. n : \A i \in n + 1 - m .. n + 1 : Good(i)}
<1>a. n \in Nat OBVIOUS
<1>b. Written(f, out, next, 1) BY WritingExists
<1>c. Rewritten(out, next) = f[1] BY DEF Rewritten, Written
<1> HIDE DEF f
<1>1. 0 \in T
    <2>1. ASSUME NEW i \in n + 1 - 0 .. n + 1 PROVE Good(i)
        <3>1. i = n + 1 /\ i \in 1 .. n + 1 BY <1>a
        <3>2. f[i] = <<>> BY <1>b, <3>1 DEF Written
        <3>3. Visits(<<>>, <<>>, out, next, i) BY <3>1 DEF Visits
        <3> QED BY <3>2, <3>3
    <2> HIDE DEF Good
    <2> QED BY <1>a, <2>1
<1>2. ASSUME NEW m \in 1 .. n, m - 1 \in T PROVE m \in T
    <2> DEFINE k == n + 1 - m
    <2>1. k \in 1 .. n /\ n + 1 - (m - 1) = k + 1 /\ m \in 0 .. n BY <1>a
    <2>2. \A i \in k + 1 .. n + 1 : Good(i)
        <3> HIDE DEF Good
        <3> QED BY <1>2, <2>1
    <2>3. next[k] \in k + 1 .. n + 1 BY <2>1 DEF LeadsOn
    <2>4. Good(next[k])
        <3> HIDE DEF Good
        <3> QED BY <2>2, <2>3
    <2>5. f[k] = <<out[k]>> \o f[next[k]]
        <3>1. k \in 1 .. n + 1 /\ ~ (k > n) BY <2>1
        <3> HIDE DEF k
        <3> QED BY <1>b, <3>1 DEF Written
    <2> HIDE DEF k
    <2>6. Good(k)
        <3>1. out[k] \in X BY <2>1
        <3>2. f[k] \in Seq(X) BY <2>4, <2>5, <3>1, PutBefore
        <3>3. PICK p : Visits(p, f[next[k]], out, next, next[k]) BY <2>4
        <3>4. \E q : Visits(q, <<out[k]>> \o f[next[k]], out, next, k)
            BY <2>1, <2>4, <3>3, VisitedBefore
        <3> QED BY <2>5, <3>2, <3>4
    <2>7. \A i \in k .. n + 1 : Good(i)
        <3>1. \A i \in k .. n + 1 : i = k \/ i \in k + 1 .. n + 1 BY <1>a, <2>1
        <3> HIDE DEF Good
        <3> QED BY <2>2, <2>6, <3>1
    <2> HIDE DEF Good
    <2> QED BY <2>1, <2>7 DEF k
<1>3. Good(1)
    <2>1. T = 0 .. n
        <3>1. T \in SUBSET (0 .. n) OBVIOUS
        <3> HIDE DEF T
        <3> QED BY <1>a, <1>1, <1>2, <3>1, PlaceByPlace
    <2>2. n \in 0 .. n /\ n + 1 - n = 1 /\ 1 \in 1 .. n + 1 BY <1>a
    <2> HIDE DEF Good
    <2> QED BY <2>1, <2>2
<1> QED BY <1>c, <1>3

\* A place is visited, or it is jumped over.
LEMMA VisitedOrJumped ==
    ASSUME NEW X, NEW out \in Seq(X), NEW next, LeadsOn(out, next),
           NEW s \in Seq(X), NEW p, Visits(p, s, out, next, 1)
    PROVE  /\ \A x \in 1 .. Len(out) : \E k \in 1 .. Len(s) : p[k] <= x /\ x < next[p[k]]
           /\ \A k, l \in 1 .. Len(s) : ~ (p[k] < p[l] /\ p[l] < next[p[k]])
<1> DEFINE n == Len(out)
           l == Len(s)
<1>a. n \in Nat /\ l \in Nat OBVIOUS
<1>b. \A k \in 1 .. l : p[k] \in 1 .. n /\ next[p[k]] \in p[k] + 1 .. n + 1
    BY DEF Visits, LeadsOn
<1>1. ASSUME NEW x \in 1 .. n, \A k \in 1 .. l : ~ (p[k] <= x /\ x < next[p[k]])
      PROVE  FALSE
    <2> DEFINE T == {k \in 0 .. l : k = 0 \/ p[k] <= x}
    <2>1. 0 \in T BY <1>a
    <2>2. l >= 1 /\ p[1] = 1 /\ next[p[l]] = n + 1
        <3>1. 1 <= n BY <1>a
        <3> QED BY <3>1 DEF Visits
    <2>3. ASSUME NEW k \in 1 .. l, k - 1 \in T PROVE k \in T
        <3>1. CASE k = 1 BY <1>a, <2>2, <3>1
        <3>2. CASE k # 1
            <4>1. k - 1 \in 1 .. l /\ k - 1 \in 1 .. l - 1 /\ (k - 1) + 1 = k /\ k \in 0 .. l
                BY <1>a, <3>2
            <4>2. p[k - 1] <= x BY <2>3, <3>2, <4>1
            <4>3. ~ (x < next[p[k - 1]]) BY <1>1, <4>1, <4>2
            <4>4. p[k] = next[p[k - 1]]
                <5>1. p[(k - 1) + 1] = next[p[k - 1]] BY <4>1 DEF Visits
                <5> QED BY <4>1, <5>1
            <4>5. p[k] \in 1 .. n BY <1>b
            <4>6. p[k] <= x BY <1>a, <4>3, <4>4, <4>5
            <4> QED BY <4>1, <4>6
        <3> QED BY <3>1, <3>2
    <2>4. T = 0 .. l
        <3>1. T \in SUBSET (0 .. l) OBVIOUS
        <3> HIDE DEF T
        <3> QED BY <1>a, <2>1, <2>3, <3>1, PlaceByPlace
    <2>5. l \in 0 .. l /\ l \in 1 .. l /\ l # 0 BY <1>a, <2>2
    <2>6. p[l] <= x BY <2>4, <2>5
    <2>7. x < n + 1 BY <1>a
    <2> QED BY <1>1, <2>2, <2>5, <2>6, <2>7
<1>2. ASSUME NEW k \in 1 .. l, NEW m \in 1 .. l, p[k] < p[m], p[m] < next[p[k]]
      PROVE  FALSE
    <2>1. k < m
        <3>1. ~ (m < k) BY <1>b, <1>2 DEF Visits
        <3>2. m # k BY <1>b, <1>2
        <3> QED BY <3>1, <3>2
    <2>2. k \in 1 .. l - 1 /\ k + 1 \in 1 .. l /\ k + 1 <= m BY <1>a, <2>1
    <2>3. p[k + 1] = next[p[k]] BY <2>2 DEF Visits
    <2>4. p[k + 1] <= p[m]
        <3>1. CASE k + 1 = m
            <4>1. p[m] \in Int BY <1>b
            <4> QED BY <3>1, <4>1
        <3>2. CASE k + 1 < m
            <4>1. p[k + 1] < p[m] BY <2>2, <3>2 DEF Visits
            <4> QED BY <1>b, <2>2, <4>1
        <3> QED BY <2>2, <3>1, <3>2
    <2> QED BY <1>b, <1>2, <2>2, <2>3, <2>4
<1> QED BY <1>1, <1>2

-----------------------------------------------------------------------------
(* What is left of a text                                                    *)

\* s is what is left of text: a mark, or what stands at the place pos[k]; no mark
\* between two places is no place between them.
Leaves(pos, s, text) ==
    /\ pos \in [1 .. Len(s) -> 1 .. Len(text)]
    /\ \A k, l \in 1 .. Len(s) : k < l => pos[k] < pos[l]
    /\ \A k \in 1 .. Len(s) : s[k] # Mark => s[k] = text[pos[k]]
    /\ \A k \in 1 .. Len(s) - 1 :
          s[k] # Mark /\ s[k + 1] # Mark => pos[k + 1] = pos[k] + 1

\* The places that are left.
Left(pos, s) == {pos[k] : k \in {l \in 1 .. Len(s) : s[l] # Mark}}

\* f is the function that Keep defines by recursion.
Keeps(f, text, S) ==
    f = [i \in 0 .. Len(text) |->
            IF i = 0 THEN <<>>
            ELSE IF i \in S THEN Append(f[i - 1], text[i]) ELSE f[i - 1]]

LEMMA KeepKeeps ==
    ASSUME NEW X, NEW text \in Seq(X), NEW S
    PROVE  \E f : Keeps(f, text, S) /\ Keep(text, S) = f[Len(text)]
<1> DEFINE n == Len(text)
           G == [i \in 1 .. n |-> [s \in Seq(X) |-> IF i \in S THEN Append(s, text[i]) ELSE s]]
<1>a. n \in Nat OBVIOUS
<1>1. PICK f \in [0 .. n -> Seq(X)] : Recurs(f, n, <<>>, G)
    <2>1. G \in [1 .. n -> [Seq(X) -> Seq(X)]]
        <3>1. \A i \in 1 .. n : text[i] \in X OBVIOUS
        <3> HIDE DEF n
        <3> QED BY <3>1
    <2>2. <<>> \in Seq(X) OBVIOUS
    <2> HIDE DEF n, G
    <2> QED BY <1>a, <2>1, <2>2, RecursionExists
<1>2. Keeps(f, text, S)
    <2>1. \A i \in 0 .. n : i # 0 => i \in 1 .. n /\ i - 1 \in 0 .. n BY <1>a
    <2>2. \A i \in 1 .. n, s \in Seq(X) : G[i][s] = IF i \in S THEN Append(s, text[i]) ELSE s
        OBVIOUS
    <2>3. f = [i \in 0 .. n |-> IF i = 0 THEN <<>> ELSE G[i][f[i - 1]]] BY <1>1 DEF Recurs
    <2> HIDE DEF n, G
    <2>4. \A i \in 0 .. n :
             i # 0 => G[i][f[i - 1]]
                        = IF i \in S THEN Append(f[i - 1], text[i]) ELSE f[i - 1]
        BY <1>1, <2>1, <2>2
    <2>5. [i \in 0 .. n |-> IF i = 0 THEN <<>> ELSE G[i][f[i - 1]]]
           = [i \in 0 .. n |-> IF i = 0 THEN <<>>
                               ELSE IF i \in S THEN Append(f[i - 1], text[i]) ELSE f[i - 1]]
        BY <2>4
    <2> QED BY <2>3, <2>5 DEF Keeps, n
<1>3. \E g : Keeps(g, text, S) BY <1>2
<1> DEFINE g == CHOOSE g : Keeps(g, text, S)
<1>4. Keeps(g, text, S) BY <1>3
<1>5. Keep(text, S) = g[n] BY DEF Keep, Keeps
<1> QED BY <1>4, <1>5

\* Places that are not kept add nothing.
LEMMA KeepsBetween ==
    ASSUME NEW X, NEW text \in Seq(X), NEW S, NEW f, Keeps(f, text, S),
           NEW i \in 0 .. Len(text), NEW j \in i .. Len(text),
           \A x \in i + 1 .. j : x \notin S
    PROVE  f[j] = f[i]
<1> DEFINE T == {m \in 0 .. j - i : f[i + m] = f[i]}
<1>a. Len(text) \in Nat OBVIOUS
<1>1. 0 \in T BY <1>a
<1>2. ASSUME NEW m \in 1 .. j - i, m - 1 \in T PROVE m \in T
    <2>1. i + m \in i + 1 .. j /\ i + m \in 0 .. Len(text) /\ i + m # 0
          /\ (i + m) - 1 = i + (m - 1)
        BY <1>a
    <2>2. f[i + m] = f[(i + m) - 1]
        <3> DEFINE x == i + m
        <3> HIDE DEF x
        <3>1. x \in 0 .. Len(text) /\ x # 0 /\ x \notin S BY <2>1 DEF x
        <3> QED BY <3>1 DEF Keeps, x
    <2> QED BY <1>2, <2>1, <2>2
<1>3. T = 0 .. j - i
    <2>1. T \in SUBSET (0 .. j - i) /\ j - i \in Nat BY <1>a
    <2> HIDE DEF T
    <2> QED BY <1>1, <1>2, <2>1, PlaceByPlace
<1>4. j - i \in 0 .. j - i /\ i + (j - i) = j BY <1>a
<1> DEFINE d == j - i
<1>5. d \in T => f[i + d] = f[i] OBVIOUS
<1> HIDE DEF T
<1>6. d \in T BY <1>3, <1>4
<1> QED BY <1>4, <1>5, <1>6

\* Without its marks, what is left of a text is what stands at the places left.
LEMMA UnmarkedIsKept ==
    ASSUME NEW X, NEW text \in Seq(X), NEW s \in Seq(X), NEW pos, Leaves(pos, s, text)
    PROVE  Unmarked(s) = Keep(text, Left(pos, s))
<1> DEFINE n == Len(text)
           l == Len(s)
           U == {k \in DOMAIN s : s[k] # Mark}
           R == Left(pos, s)
           at == [k \in 0 .. l |-> IF k = 0 THEN 0 ELSE pos[k]]
<1>a. n \in Nat /\ l \in Nat /\ DOMAIN s = 1 .. l OBVIOUS
<1>1. PICK u : Keeps(u, s, U) /\ Keep(s, U) = u[l] BY KeepKeeps
<1>2. PICK f : Keeps(f, text, R) /\ Keep(text, R) = f[n] BY KeepKeeps
<1>3. \A k \in 1 .. l : at[k] = pos[k] /\ pos[k] \in 1 .. n BY <1>a DEF Leaves
<1>4. at[0] = 0 BY <1>a
<1> HIDE DEF at
<1>5. ASSUME NEW k \in 1 .. l PROVE pos[k] \in R <=> s[k] # Mark
    <2>1. ASSUME NEW m \in 1 .. l, pos[m] = pos[k] PROVE m = k
        <3>1. pos[k] \in Int /\ m \in Int /\ k \in Int BY <1>3
        <3> QED BY <2>1, <3>1 DEF Leaves
    <2> QED BY <2>1 DEF Left
<1>6. ASSUME NEW k \in 1 .. l, NEW x \in at[k - 1] + 1 .. pos[k] - 1 PROVE x \notin R
    <2> SUFFICES ASSUME NEW m \in 1 .. l, x = pos[m] PROVE FALSE BY DEF Left
    <2>1. pos[k] \in 1 .. n /\ pos[m] \in 1 .. n /\ k - 1 \in 0 .. l BY <1>3, <1>a
    <2>2. at[k - 1] \in 0 .. n
        <3>1. k - 1 = 0 \/ k - 1 \in 1 .. l BY <1>a
        <3> QED BY <1>3, <1>4, <1>a, <3>1
    <2>3. at[k - 1] < pos[m] /\ pos[m] < pos[k] BY <1>a, <2>1, <2>2
    <2>4. m < k
        <3>1. ~ (k < m) BY <2>1, <2>3 DEF Leaves
        <3>2. k # m BY <2>1, <2>3
        <3> QED BY <3>1, <3>2
    <2>5. k - 1 \in 1 .. l /\ (m = k - 1 \/ m < k - 1) BY <2>4
    <2>6. ~ (pos[k - 1] < pos[m]) /\ at[k - 1] = pos[k - 1]
        <3>1. m < k - 1 => pos[m] < pos[k - 1] BY <2>5 DEF Leaves
        <3>2. pos[k - 1] \in Int BY <1>3, <2>5
        <3> QED BY <1>3, <2>1, <2>5, <3>1, <3>2
    <2> QED BY <2>3, <2>6
<1> DEFINE T == {k \in 0 .. l : u[k] = f[at[k]]}
<1>7. 0 \in T
    <2>1. u[0] = <<>> /\ f[0] = <<>> BY <1>1, <1>2, <1>a DEF Keeps
    <2> QED BY <1>4, <1>a, <2>1
<1>8. ASSUME NEW k \in 1 .. l, k - 1 \in T PROVE k \in T
    <2> DEFINE x == pos[k]
    <2>1. x \in 1 .. n /\ at[k] = x /\ x - 1 \in 0 .. n BY <1>3, <1>a
    <2>2. at[k - 1] \in 0 .. x - 1
        <3>1. CASE k = 1
            <4>1. k - 1 = 0 BY <3>1
            <4> QED BY <1>4, <2>1, <4>1
        <3>2. CASE k # 1
            <4>1. k - 1 \in 1 .. l /\ k - 1 < k BY <3>2
            <4>2. pos[k - 1] < pos[k] BY <4>1 DEF Leaves
            <4>3. at[k - 1] = pos[k - 1] /\ pos[k - 1] \in 1 .. n BY <1>3, <4>1
            <4> QED BY <2>1, <4>2, <4>3
        <3> QED BY <3>1, <3>2
    <2>3. f[x - 1] = f[at[k - 1]]
        <3>1. at[k - 1] \in 0 .. n /\ x - 1 \in at[k - 1] .. n BY <1>a, <2>1, <2>2
        <3>2. \A y \in at[k - 1] + 1 .. x - 1 : y \notin R BY <1>6
        <3> DEFINE a == at[k - 1]
                   b == x - 1
        <3>3. a \in 0 .. Len(text) /\ b \in a .. Len(text) BY <3>1
        <3>4. \A y \in a + 1 .. b : y \notin R BY <3>2
        <3>5. Keeps(f, text, R) BY <1>2
        <3> HIDE DEF n, R, x, a, b
        <3>6. f[b] = f[a] BY <3>3, <3>4, <3>5, KeepsBetween
        <3> QED BY <3>6 DEF a, b
    <2>4. f[x] = IF x \in R THEN Append(f[x - 1], text[x]) ELSE f[x - 1]
        <3>1. x \in 0 .. n /\ x # 0 BY <2>1
        <3> HIDE DEF x, R
        <3> QED BY <1>2, <3>1 DEF Keeps
    <2>5. u[k] = IF k \in U THEN Append(u[k - 1], s[k]) ELSE u[k - 1]
        <3>1. k \in 0 .. l /\ k # 0 BY <1>a
        <3> HIDE DEF U
        <3> QED BY <1>1, <3>1 DEF Keeps
    <2>6. (k \in U <=> x \in R) /\ (k \in U => s[k] = text[x])
        <3>1. k \in U <=> s[k] # Mark BY <1>a
        <3> QED BY <1>5, <3>1 DEF Leaves
    <2>7. u[k - 1] = f[at[k - 1]] BY <1>8
    <2>8. k \in 0 .. l BY <1>a
    <2> HIDE DEF U, R
    <2> QED BY <2>1, <2>3, <2>4, <2>5, <2>6, <2>7, <2>8
<1>9. l \in T
    <2>1. T \in SUBSET (0 .. l) OBVIOUS
    <2>2. l \in 0 .. l BY <1>a
    <2> HIDE DEF T
    <2> QED BY <1>7, <1>8, <1>a, <2>1, <2>2, PlaceByPlace
<1>10. f[n] = f[at[l]]
    <2>1. at[l] \in 0 .. n
        <3>1. l = 0 \/ l \in 1 .. l BY <1>a
        <3> QED BY <1>3, <1>4, <1>a, <3>1
    <2>2. ASSUME NEW x \in at[l] + 1 .. n PROVE x \notin R
        <3> SUFFICES ASSUME NEW m \in 1 .. l, x = pos[m] PROVE FALSE BY DEF Left
        <3>1. l \in 1 .. l /\ (m = l \/ m < l)
            <4> HIDE DEF l
            <4> QED BY <1>a
        <3>2. at[l] = pos[l] /\ pos[l] \in 1 .. n /\ pos[m] \in 1 .. n BY <1>3, <3>1
        <3>3. m < l => pos[m] < pos[l] BY <3>1 DEF Leaves
        <3>4. at[l] < x BY <1>a, <2>1, <2>2
        <3> QED BY <3>1, <3>2, <3>3, <3>4
    <2>3. n \in at[l] .. n BY <1>a, <2>1
    <2> DEFINE a == at[l]
               b == n
    <2>4. a \in 0 .. Len(text) /\ b \in a .. Len(text) BY <2>1, <2>3
    <2>5. \A y \in a + 1 .. b : y \notin R BY <2>2
    <2>6. Keeps(f, text, R) BY <1>2
    <2> HIDE DEF n, R, a, b
    <2>7. f[b] = f[a] BY <2>4, <2>5, <2>6, KeepsBetween
    <2> QED BY <2>7 DEF a, b
<1>11. Unmarked(s) = Keep(s, U) BY DEF Unmarked
<1> QED BY <1>1, <1>2, <1>9, <1>10, <1>11

\* What is left when the search comes to the places p, and goes over the others.
Passes(p, s, out, next, text) ==
    /\ Leaves(p, s, text)
    /\ \A k \in 1 .. Len(s) : s[k] = out[p[k]]
    /\ \A x \in 1 .. Len(out) : \E k \in 1 .. Len(s) : p[k] <= x /\ x < next[p[k]]
    /\ \A k, l \in 1 .. Len(s) : ~ (p[k] < p[l] /\ p[l] < next[p[k]])

\* What is written is left of a text, where a mark alone is put for something else;
\* the search meets every place or goes over it.
LEMMA RewrittenLeaves ==
    ASSUME NEW X, NEW out \in Seq(X), NEW next, LeadsOn(out, next),
           NEW text \in Seq(X), Len(text) = Len(out),
           \A i \in 1 .. Len(out) : out[i] # Mark => out[i] = text[i] /\ next[i] = i + 1,
           NEW s, s = Rewritten(out, next)
    PROVE  /\ s \in Seq(X)
           /\ \E p : Passes(p, s, out, next, text)
<1>1. s \in Seq(X) BY RewrittenVisits
<1>2. PICK p : Visits(p, s, out, next, 1) BY RewrittenVisits
<1>3. /\ \A x \in 1 .. Len(out) : \E k \in 1 .. Len(s) : p[k] <= x /\ x < next[p[k]]
      /\ \A k, l \in 1 .. Len(s) : ~ (p[k] < p[l] /\ p[l] < next[p[k]])
    BY <1>1, <1>2, VisitedOrJumped
<1>4. Leaves(p, s, text)
    <2>1. /\ p \in [1 .. Len(s) -> 1 .. Len(text)]
          /\ \A k, l \in 1 .. Len(s) : k < l => p[k] < p[l]
          /\ \A k \in 1 .. Len(s) : s[k] = out[p[k]]
          /\ \A k \in 1 .. Len(s) - 1 : p[k + 1] = next[p[k]]
        BY <1>2 DEF Visits
    <2>2. \A k \in 1 .. Len(s) : p[k] \in 1 .. Len(out) BY <2>1
    <2>3. \A k \in 1 .. Len(s) : s[k] # Mark => s[k] = text[p[k]] /\ next[p[k]] = p[k] + 1
        BY <2>1, <2>2
    <2>4. \A k \in 1 .. Len(s) - 1 : k \in 1 .. Len(s) BY <1>1
    <2>5. \A k \in 1 .. Len(s) - 1 : s[k] # Mark => p[k + 1] = p[k] + 1
        BY <2>1, <2>3, <2>4
    <2> QED BY <2>1, <2>3, <2>5 DEF Leaves
<1>5. \A k \in 1 .. Len(s) : s[k] = out[p[k]] BY <1>2 DEF Visits
<1>6. Passes(p, s, out, next, text) BY <1>3, <1>4, <1>5 DEF Passes
<1> QED BY <1>1, <1>6

\* The least of a set of numbers.
LEMMA MinIsLeast ==
    ASSUME NEW S \in SUBSET Nat, S # {}
    PROVE  Min(S) \in S /\ \A j \in S : Min(S) <= j
<1>1. \E i \in S : \A j \in S : i <= j BY LeastOf
<1> QED BY <1>1 DEF Min

\* A line ends with its first line break, or with the text.
LEMMA LineEnds ==
    ASSUME NEW X, NEW text \in Seq(X), NEW i \in 1 .. Len(text)
    PROVE  LET e == LineEnd(text, i)
           IN  /\ e \in i .. Len(text)
               /\ text[e] = "newline" \/ e = Len(text)
               /\ \A n \in i .. Len(text) : text[n] = "newline" => e <= n
<1> DEFINE S == {n \in i .. Len(text) : text[n] = "newline" \/ n = Len(text)}
<1>1. Len(text) \in S /\ S \in SUBSET Nat OBVIOUS
<1>2. LineEnd(text, i) = Min(S) BY DEF LineEnd
<1>3. Min(S) \in S /\ \A n \in S : Min(S) <= n
    <2> HIDE DEF S
    <2> QED BY <1>1, MinIsLeast
<1> QED BY <1>2, <1>3

\* A header is looked for to the end of its line.
LEMMA HeaderLines ==
    ASSUME NEW X, NEW text \in Seq(X), NEW i \in 1 .. Len(text)
    PROVE  IsHeader(text, i) <=>
              /\ text[i] = "begin"
              /\ \E k \in i .. Len(text) : text[k] = "key" /\ ~ Broken(text, i, k)
<1> DEFINE e == LineEnd(text, i)
<1>1. /\ e \in i .. Len(text)
      /\ text[e] = "newline" \/ e = Len(text)
      /\ \A n \in i .. Len(text) : text[n] = "newline" => e <= n
    BY LineEnds
<1> HIDE DEF e
<1>2. ASSUME NEW k \in i .. Len(text) PROVE k \in i .. e <=> ~ Broken(text, i, k)
    <2>1. ASSUME k \in i .. e, NEW n \in i .. k - 1, text[n] = "newline" PROVE FALSE
        <3>1. n \in i .. Len(text) BY <2>1
        <3> QED BY <1>1, <2>1, <3>1
    <2>2. ASSUME k \notin i .. e PROVE Broken(text, i, k)
        <3>1. e \in i .. k - 1 /\ e # Len(text) BY <1>1, <2>2
        <3> QED BY <1>1, <3>1 DEF Broken
    <2> QED BY <2>1, <2>2 DEF Broken
<1>3. \A k \in i .. e : k \in i .. Len(text) BY <1>1
<1> QED BY <1>2, <1>3 DEF IsHeader, e

\* A block goes as far as no line with an end is over; and a header it goes over
\* has a block that is over too, or stands on its last line.
LEMMA BlockEnds ==
    ASSUME NEW X, NEW text \in Seq(X), NEW h \in 1 .. Len(text)
    PROVE  LET b == BlockEnd(text, h)
           IN  /\ b \in h .. Len(text)
               /\ \A i \in h .. Len(text) : i <= b <=> ~ Over(text, h, i)
               /\ \A g \in h .. b, i \in b + 1 .. Len(text) :
                     \/ Over(text, g, i)
                     \/ /\ Broken(text, h, g)
                        /\ \E e \in 1 .. Len(text) :
                              text[e] = "end" /\ ~ Broken(text, e, g) /\ ~ Broken(text, g, e)
<1> DEFINE n == Len(text)
           l == LineEnd(text, h)
           b == BlockEnd(text, h)
           ends == {j \in l + 1 .. n : text[j] = "end"}
           m == Min(ends)
<1>a. n \in Nat OBVIOUS
<1>1. /\ l \in h .. n
      /\ text[l] = "newline" \/ l = n
      /\ \A x \in h .. n : text[x] = "newline" => l <= x
    BY LineEnds
<1>2. b = IF ends = {} THEN n ELSE LineEnd(text, m) BY DEF BlockEnd
<1> HIDE DEF l, b
<1>3. ASSUME ends # {}
      PROVE  /\ m \in l + 1 .. n /\ text[m] = "end"
             /\ \A x \in l + 1 .. n : text[x] = "end" => m <= x
             /\ b \in m .. n
             /\ text[b] = "newline" \/ b = n
             /\ \A x \in m .. n : text[x] = "newline" => b <= x
    <2>1. ends \in SUBSET Nat BY <1>1
    <2>2. m \in ends /\ \A x \in ends : m <= x
        <3> HIDE DEF ends
        <3> QED BY <1>3, <2>1, MinIsLeast
    <2>3. m \in 1 .. n BY <1>1, <2>2
    <2> HIDE DEF m
    <2>4. /\ b \in m .. n
          /\ text[b] = "newline" \/ b = n
          /\ \A x \in m .. n : text[x] = "newline" => b <= x
        BY <1>2, <1>3, <2>3, LineEnds
    <2> QED BY <2>2, <2>4
<1> HIDE DEF m
<1>4. b \in h .. n
    <2>1. CASE ends = {} BY <1>2, <1>a, <2>1
    <2>2. CASE ends # {} BY <1>1, <1>3, <2>2
    <2> QED BY <2>1, <2>2
<1>5. ASSUME NEW i \in h .. n, i <= b, Over(text, h, i) PROVE FALSE
    <2>1. PICK e \in h .. i : text[e] = "end" /\ Broken(text, h, e) /\ Broken(text, e, i)
        BY <1>5 DEF Over
    <2>2. PICK x \in h .. e - 1 : text[x] = "newline" BY <2>1 DEF Broken
    <2>3. PICK y \in e .. i - 1 : text[y] = "newline" BY <2>1 DEF Broken
    <2>4. l <= x
        <3>1. x \in h .. n BY <2>2
        <3> QED BY <1>1, <2>2, <3>1
    <2>5. e \in l + 1 .. n /\ e \in ends BY <1>1, <2>1, <2>2, <2>4
    <2>6. m <= e /\ m \in l + 1 .. n BY <1>3, <2>1, <2>5
    <2>7. y \in m .. n BY <1>1, <2>3, <2>6
    <2>8. b <= y BY <1>3, <2>3, <2>5, <2>7
    <2> QED BY <1>4, <1>5, <2>3, <2>8
\* When a block is over before the text is: the line break of its header, the end,
\* and the line break behind it.
<1>6. ASSUME NEW i \in h .. n, b < i
      PROVE  /\ ends # {} /\ m \in l + 1 .. b /\ text[m] = "end"
             /\ text[l] = "newline" /\ text[b] = "newline"
    <2>1. b # n BY <1>4, <1>6
    <2>2. ends # {} BY <1>2, <2>1
    <2>3. m \in l + 1 .. n /\ b \in m .. n BY <1>3, <2>2
    <2>4. l # n BY <1>1, <2>3
    <2> QED BY <1>1, <1>3, <2>1, <2>2, <2>3, <2>4
<1>7. ASSUME NEW i \in h .. n, b < i PROVE Over(text, h, i)
    <2>1. /\ m \in l + 1 .. b /\ text[m] = "end"
          /\ text[l] = "newline" /\ text[b] = "newline"
        BY <1>6, <1>7
    <2>2. m \in h .. i /\ l \in h .. m - 1 /\ b \in m .. i - 1 BY <1>1, <1>4, <1>7, <2>1
    <2> QED BY <2>1, <2>2 DEF Over, Broken
<1>8. ASSUME NEW g \in h .. b, NEW i \in b + 1 .. n, ~ Over(text, g, i)
      PROVE  /\ Broken(text, h, g)
             /\ \E e \in 1 .. n :
                   text[e] = "end" /\ ~ Broken(text, e, g) /\ ~ Broken(text, g, e)
    <2>1. i \in h .. n /\ b < i BY <1>4
    <2>2. /\ ends # {} /\ m \in l + 1 .. b /\ text[m] = "end"
          /\ text[l] = "newline" /\ text[b] = "newline"
        BY <1>6, <2>1
    <2>3. ~ Broken(text, g, m)
        <3> SUFFICES ASSUME NEW x \in g .. m - 1, text[x] = "newline" PROVE FALSE BY DEF Broken
        <3>1. m \in g .. i /\ b \in m .. i - 1 BY <1>4, <2>1, <2>2
        <3> QED BY <1>8, <2>2, <3>1 DEF Over, Broken
    <2>4. ~ Broken(text, m, g)
        <3> SUFFICES ASSUME NEW x \in m .. g - 1, text[x] = "newline" PROVE FALSE BY DEF Broken
        <3>1. x \in m .. n BY <1>4, <2>2
        <3>2. b <= x BY <1>3, <2>2, <3>1
        <3> QED BY <1>4, <3>2
    <2>5. Broken(text, h, g)
        <3>1. l \in h .. g - 1
            <4> SUFFICES ASSUME g <= l PROVE FALSE BY <1>1, <1>4
            <4>1. l \in g .. m - 1 BY <1>1, <2>2
            <4> QED BY <2>2, <2>3, <4>1 DEF Broken
        <3> QED BY <2>2, <3>1 DEF Broken
    <2>6. m \in 1 .. n BY <1>1, <1>4, <2>2
    <2> QED BY <2>2, <2>3, <2>4, <2>5, <2>6
<1>9. \A i \in h .. n : i <= b <=> ~ Over(text, h, i)
    <2>1. \A i \in h .. n : ~ (b < i) <=> i <= b BY <1>4
    <2> QED BY <1>5, <1>7, <2>1
<1> QED BY <1>4, <1>8, <1>9 DEF b, n

\* Private keys are gone, and nothing else, where no block swallows a header.
LEMMA BlocksLeave ==
    ASSUME NEW X, Mark \in X, Mark \notin Tokens, NEW text \in Seq(X)
    PROVE  LET s == redact_private_key_blocks(text)
           IN  /\ s \in Seq(X)
               /\ \E p :
                     /\ Leaves(p, s, text)
                     /\ (\A g, h \in 1 .. Len(text) : ~ Swallows(text, g, h)) =>
                           Left(p, s)
                              = {i \in 1 .. Len(text) : text[i] # Mark /\ ~ Private(text, i)}
<1> DEFINE n == Len(text)
           out == [i \in DOMAIN text |-> IF IsHeader(text, i) THEN Mark ELSE text[i]]
           next == [i \in DOMAIN text |-> IF IsHeader(text, i) THEN BlockEnd(text, i) + 1 ELSE i + 1]
           s == redact_private_key_blocks(text)
           Shown == {i \in 1 .. n : text[i] # Mark /\ ~ Private(text, i)}
<1>a. n \in Nat /\ DOMAIN text = 1 .. n OBVIOUS
<1>1. out \in Seq(X) /\ Len(out) = n
    <2>1. out \in [1 .. n -> X] BY <1>a
    <2> HIDE DEF out
    <2> QED BY <1>a, <2>1
<1>2. \A i \in 1 .. n :
          /\ out[i] = IF IsHeader(text, i) THEN Mark ELSE text[i]
          /\ next[i] = IF IsHeader(text, i) THEN BlockEnd(text, i) + 1 ELSE i + 1
    BY <1>a
<1>3. s = Rewritten(out, next) BY DEF redact_private_key_blocks
<1> HIDE DEF out, next, s
<1>4. \A h \in 1 .. n :
          /\ BlockEnd(text, h) \in h .. n
          /\ \A i \in h .. n : i <= BlockEnd(text, h) <=> ~ Over(text, h, i)
    BY BlockEnds
<1>5. LeadsOn(out, next)
    <2> SUFFICES ASSUME NEW i \in 1 .. n PROVE next[i] \in i + 1 .. n + 1 BY <1>1 DEF LeadsOn
    <2>1. CASE IsHeader(text, i) BY <1>a, <1>2, <1>4, <2>1
    <2>2. CASE ~ IsHeader(text, i) BY <1>a, <1>2, <2>2
    <2> QED BY <2>1, <2>2
<1>6. \A i \in 1 .. n : /\ out[i] # Mark => out[i] = text[i] /\ next[i] = i + 1
                        /\ out[i] # Mark <=> ~ IsHeader(text, i) /\ text[i] # Mark
    BY <1>2
<1>7. s \in Seq(X)
    BY <1>1, <1>3, <1>5, <1>6, <1>a, RewrittenLeaves
<1>c. PICK p : Passes(p, s, out, next, text)
    BY <1>1, <1>3, <1>5, <1>6, <1>a, RewrittenLeaves
<1>8. /\ Leaves(p, s, text)
      /\ \A k \in 1 .. Len(s) : s[k] = out[p[k]]
      /\ \A x \in 1 .. Len(out) : \E k \in 1 .. Len(s) : p[k] <= x /\ x < next[p[k]]
      /\ \A k, l \in 1 .. Len(s) : ~ (p[k] < p[l] /\ p[l] < next[p[k]])
    BY <1>c DEF Passes
<1>9. \A k \in 1 .. Len(s) : p[k] \in 1 .. n BY <1>8 DEF Leaves
<1>10. ASSUME \A g, h \in 1 .. n : ~ Swallows(text, g, h),
              NEW k \in 1 .. Len(s), s[k] # Mark, Private(text, p[k])
       PROVE  FALSE
    <2> DEFINE i == p[k]
    <2>1. i \in 1 .. n /\ ~ IsHeader(text, i) BY <1>6, <1>8, <1>9, <1>10
    <2>2. PICK g \in 1 .. i : IsHeader(text, g) /\ ~ Over(text, g, i)
        BY <1>10 DEF Private
    <2>3. g < i /\ g \in 1 .. n
        <3>1. g # i BY <2>1, <2>2
        <3> HIDE DEF i
        <3> QED BY <1>a, <2>1, <2>2, <3>1
    <2>4. PICK m \in 1 .. Len(s) : p[m] <= g /\ g < next[p[m]] BY <1>1, <1>8, <2>3
    <2> DEFINE h == p[m]
               b == BlockEnd(text, h)
    <2>5. h \in 1 .. n BY <1>9
    <2>6. IsHeader(text, h)
        <3>1. CASE h = g BY <2>2, <3>1
        <3>2. CASE h # g
            <4>1. next[h] # h + 1 BY <2>3, <2>4, <2>5, <3>2
            <4> QED BY <1>2, <2>5, <4>1
        <3> QED BY <3>1, <3>2
    <2>7. next[h] = b + 1 BY <1>2, <2>5, <2>6
    <2>8. b \in h .. n BY <1>4, <2>5
    <2>9. ~ (h < i /\ i < b + 1) BY <1>8, <2>7
    <2>10. h <= g /\ g < b + 1 BY <2>4, <2>7
    <2> HIDE DEF i, h, b
    <2>11. i \in b + 1 .. n /\ g \in h .. b BY <2>1, <2>3, <2>5, <2>8, <2>9, <2>10
    <2>12. /\ Broken(text, h, g)
           /\ \E e \in 1 .. n :
                 text[e] = "end" /\ ~ Broken(text, e, g) /\ ~ Broken(text, g, e)
        BY <2>2, <2>5, <2>11, BlockEnds DEF b
    <2>13. ~ Over(text, h, g)
        <3>1. g \in h .. n /\ g <= b BY <2>3, <2>8, <2>11
        <3> QED BY <1>4, <2>5, <3>1 DEF b
    <2>14. Swallows(text, h, g) BY <1>a, <2>2, <2>6, <2>12, <2>13 DEF Swallows, h
    <2> QED BY <1>10, <2>3, <2>5, <2>14
<1>11. ASSUME NEW i \in 1 .. n, text[i] # Mark, ~ Private(text, i) PROVE i \in Left(p, s)
    <2>1. PICK m \in 1 .. Len(s) : p[m] <= i /\ i < next[p[m]] BY <1>1, <1>8
    <2>2. p[m] \in 1 .. n BY <1>9
    <2>3. p[m] = i
        <3> SUFFICES ASSUME p[m] # i PROVE FALSE OBVIOUS
        <3> DEFINE h == p[m]
        <3>1. h < i /\ h \in 1 .. i BY <2>1, <2>2
        <3>2. IsHeader(text, h)
            <4>1. next[h] # h + 1 BY <2>1, <2>2, <3>1
            <4> QED BY <1>2, <2>2, <4>1
        <3>3. Over(text, h, i) BY <1>11, <3>1, <3>2 DEF Private
        <3>4. i \in h .. n BY <2>2, <3>1
        <3>5. ~ (i <= BlockEnd(text, h)) BY <1>4, <2>2, <3>3, <3>4
        <3>6. next[h] = BlockEnd(text, h) + 1 BY <1>2, <2>2, <3>2
        <3>7. BlockEnd(text, h) \in h .. n BY <1>4, <2>2
        <3> QED BY <2>1, <2>2, <3>5, <3>6, <3>7
    <2>4. ~ IsHeader(text, i)
        <3>1. ~ Over(text, i, i)
            <4>1. BlockEnd(text, i) \in i .. n /\ i \in i .. n BY <1>4
            <4>2. i <= BlockEnd(text, i) BY <4>1
            <4> QED BY <1>4, <4>1, <4>2
        <3>2. i \in 1 .. i OBVIOUS
        <3> QED BY <1>11, <3>1, <3>2 DEF Private
    <2>5. s[m] # Mark BY <1>11, <1>6, <1>8, <2>2, <2>3, <2>4
    <2> QED BY <2>3, <2>5 DEF Left
<1>12. ASSUME \A g, h \in 1 .. n : ~ Swallows(text, g, h) PROVE Left(p, s) = Shown
    <2>1. ASSUME NEW k \in 1 .. Len(s), s[k] # Mark PROVE p[k] \in Shown
        <3>1. ~ Private(text, p[k]) BY <1>10, <1>12, <2>1
        <3>2. p[k] \in 1 .. n /\ text[p[k]] # Mark BY <1>6, <1>8, <1>9, <2>1
        <3> QED BY <3>1, <3>2
    <2>2. Left(p, s) \subseteq Shown BY <2>1 DEF Left
    <2>3. Shown \subseteq Left(p, s) BY <1>11
    <2> QED BY <2>2, <2>3
<1> HIDE DEF Shown
<1>13. s \in Seq(X) /\ Leaves(p, s, text) BY <1>7, <1>8
<1>14. \E q : /\ Leaves(q, s, text)
              /\ (\A g, h \in 1 .. n : ~ Swallows(text, g, h)) => Left(q, s) = Shown
    BY <1>12, <1>13
<1> QED BY <1>13, <1>14 DEF s, n, Shown

-----------------------------------------------------------------------------
(* What is left of a text and the marks of keys                              *)

\* What is left holds the same marks of keys, in the same order.
SameTokens(pos, s, text) ==
    /\ pos \in [1 .. Len(s) -> 1 .. Len(text)]
    /\ \A k, l \in 1 .. Len(s) : k < l => pos[k] < pos[l]
    /\ \A k \in 1 .. Len(s), w \in Tokens : s[k] = w <=> text[pos[k]] = w
    /\ \A x \in 1 .. Len(text) : text[x] \in Tokens => \E k \in 1 .. Len(s) : pos[k] = x

\* So it does when no mark of a key is lost.
LEMMA TokensStay ==
    ASSUME Mark \notin Tokens, NEW X, NEW text \in Seq(X), NEW s \in Seq(X), NEW pos,
           Leaves(pos, s, text),
           \A x \in 1 .. Len(text) : text[x] \in Tokens => x \in Left(pos, s)
    PROVE  SameTokens(pos, s, text)
<1>1. /\ pos \in [1 .. Len(s) -> 1 .. Len(text)]
      /\ \A k, l \in 1 .. Len(s) : k < l => pos[k] < pos[l]
      /\ \A k \in 1 .. Len(s) : s[k] # Mark => s[k] = text[pos[k]]
    BY DEF Leaves
<1>2. ASSUME NEW x \in 1 .. Len(text), text[x] \in Tokens
      PROVE  \E k \in 1 .. Len(s) : pos[k] = x /\ s[k] # Mark
    BY <1>2 DEF Left
<1>3. ASSUME NEW k \in 1 .. Len(s), NEW w \in Tokens
      PROVE  s[k] = w <=> text[pos[k]] = w
    <2>1. s[k] = w => text[pos[k]] = w BY <1>1
    <2>2. ASSUME text[pos[k]] = w PROVE s[k] = w
        <3>1. pos[k] \in 1 .. Len(text) BY <1>1
        <3>2. PICK l \in 1 .. Len(s) : pos[l] = pos[k] /\ s[l] # Mark BY <1>2, <2>2, <3>1
        <3>3. ~ (l < k) /\ ~ (k < l)
            <4>1. pos[k] \in Int BY <3>1
            <4> QED BY <1>1, <3>2, <4>1
        <3>4. l = k BY <3>3
        <3> QED BY <1>1, <2>2, <3>2, <3>4
    <2> QED BY <2>1, <2>2
<1> QED BY <1>1, <1>2, <1>3 DEF SameTokens

\* Its lines end where the lines of the text do.
LEMMA SameBroken ==
    ASSUME NEW X, NEW text \in Seq(X), NEW s \in Seq(X), NEW pos, SameTokens(pos, s, text),
           NEW i \in 1 .. Len(s), NEW j \in 1 .. Len(s)
    PROVE  Broken(s, i, j) <=> Broken(text, pos[i], pos[j])
<1>1. /\ \A k \in 1 .. Len(s) : pos[k] \in 1 .. Len(text)
      /\ \A k, l \in 1 .. Len(s) : k < l => pos[k] < pos[l]
      /\ \A k \in 1 .. Len(s) : s[k] = "newline" <=> text[pos[k]] = "newline"
      /\ \A x \in 1 .. Len(text) : text[x] = "newline" => \E k \in 1 .. Len(s) : pos[k] = x
    BY DEF SameTokens, Tokens
<1>2. \A k, l \in 1 .. Len(s) : k <= l <=> pos[k] <= pos[l]
    <2> TAKE k, l \in 1 .. Len(s)
    <2>1. pos[k] \in Int /\ pos[l] \in Int /\ (k < l \/ k = l \/ l < k) BY <1>1
    <2> QED BY <1>1, <2>1
<1>3. Broken(s, i, j) <=> \E n \in 1 .. Len(s) : i <= n /\ n < j /\ s[n] = "newline"
    BY DEF Broken
<1>4. Broken(text, pos[i], pos[j])
          <=> \E x \in 1 .. Len(text) : pos[i] <= x /\ x < pos[j] /\ text[x] = "newline"
    <2>1. pos[i] \in 1 .. Len(text) /\ pos[j] \in 1 .. Len(text) BY <1>1
    <2>2. \A x \in pos[i] .. pos[j] - 1 : x \in 1 .. Len(text) BY <2>1
    <2> QED BY <2>1, <2>2 DEF Broken
<1>5. \A n \in 1 .. Len(s) : n < j <=> pos[n] < pos[j]
    <2> TAKE n \in 1 .. Len(s)
    <2>1. pos[n] \in Int /\ pos[j] \in Int /\ (n < j \/ n = j \/ j < n) BY <1>1
    <2> QED BY <1>1, <2>1
<1>6. ASSUME NEW n \in 1 .. Len(s), i <= n, n < j, s[n] = "newline"
      PROVE  pos[n] \in 1 .. Len(text) /\ pos[i] <= pos[n] /\ pos[n] < pos[j]
             /\ text[pos[n]] = "newline"
    BY <1>1, <1>2, <1>5, <1>6
<1>7. ASSUME NEW x \in 1 .. Len(text), pos[i] <= x, x < pos[j], text[x] = "newline"
      PROVE  \E n \in 1 .. Len(s) : i <= n /\ n < j /\ s[n] = "newline"
    <2>1. PICK n \in 1 .. Len(s) : pos[n] = x BY <1>1, <1>7
    <2> QED BY <1>1, <1>2, <1>5, <1>7, <2>1
<1> QED BY <1>3, <1>4, <1>6, <1>7

\* Its headers are the headers of the text.
LEMMA SameHeaders ==
    ASSUME NEW X, NEW text \in Seq(X), NEW s \in Seq(X), NEW pos, SameTokens(pos, s, text),
           NEW i \in 1 .. Len(s)
    PROVE  IsHeader(s, i) <=> IsHeader(text, pos[i])
<1>1. /\ \A k \in 1 .. Len(s) : pos[k] \in 1 .. Len(text)
      /\ \A k, l \in 1 .. Len(s) : k < l => pos[k] < pos[l]
      /\ \A k \in 1 .. Len(s) : /\ s[k] = "begin" <=> text[pos[k]] = "begin"
                                /\ s[k] = "key" <=> text[pos[k]] = "key"
      /\ \A x \in 1 .. Len(text) : text[x] = "key" => \E k \in 1 .. Len(s) : pos[k] = x
    BY DEF SameTokens, Tokens
<1>2. \A k \in 1 .. Len(s) : i <= k <=> pos[i] <= pos[k]
    <2> TAKE k \in 1 .. Len(s)
    <2>1. pos[k] \in Int /\ pos[i] \in Int /\ (k < i \/ k = i \/ i < k) BY <1>1
    <2> QED BY <1>1, <2>1
<1>3. IsHeader(s, i) <=>
          /\ s[i] = "begin"
          /\ \E k \in i .. Len(s) : s[k] = "key" /\ ~ Broken(s, i, k)
    BY HeaderLines
<1>4. IsHeader(text, pos[i]) <=>
          /\ text[pos[i]] = "begin"
          /\ \E x \in pos[i] .. Len(text) : text[x] = "key" /\ ~ Broken(text, pos[i], x)
    BY <1>1, HeaderLines
<1>5. ASSUME NEW k \in i .. Len(s), s[k] = "key", ~ Broken(s, i, k)
      PROVE  /\ pos[k] \in pos[i] .. Len(text)
             /\ text[pos[k]] = "key" /\ ~ Broken(text, pos[i], pos[k])
    <2>1. k \in 1 .. Len(s) /\ i <= k OBVIOUS
    <2>2. pos[k] \in 1 .. Len(text) /\ pos[i] \in 1 .. Len(text) /\ pos[i] <= pos[k]
        BY <1>1, <1>2, <2>1
    <2> QED BY <1>1, <1>5, <2>1, <2>2, SameBroken
<1>6. ASSUME NEW x \in pos[i] .. Len(text), text[x] = "key", ~ Broken(text, pos[i], x)
      PROVE  \E k \in i .. Len(s) : s[k] = "key" /\ ~ Broken(s, i, k)
    <2>1. pos[i] \in 1 .. Len(text) BY <1>1
    <2>2. x \in 1 .. Len(text) /\ pos[i] <= x BY <2>1
    <2>3. PICK k \in 1 .. Len(s) : pos[k] = x BY <1>1, <1>6, <2>2
    <2>4. k \in i .. Len(s) BY <1>2, <2>2, <2>3
    <2> QED BY <1>1, <1>6, <2>3, <2>4, SameBroken
<1> QED BY <1>1, <1>3, <1>4, <1>5, <1>6

\* Its blocks are over where those of the text are.
LEMMA SameOver ==
    ASSUME NEW X, NEW text \in Seq(X), NEW s \in Seq(X), NEW pos, SameTokens(pos, s, text),
           NEW h \in 1 .. Len(s), NEW i \in 1 .. Len(s)
    PROVE  Over(s, h, i) <=> Over(text, pos[h], pos[i])
<1>1. /\ \A k \in 1 .. Len(s) : pos[k] \in 1 .. Len(text)
      /\ \A k, l \in 1 .. Len(s) : k < l => pos[k] < pos[l]
      /\ \A k \in 1 .. Len(s) : s[k] = "end" <=> text[pos[k]] = "end"
      /\ \A x \in 1 .. Len(text) : text[x] = "end" => \E k \in 1 .. Len(s) : pos[k] = x
    BY DEF SameTokens, Tokens
<1>2. \A k, l \in 1 .. Len(s) : k <= l <=> pos[k] <= pos[l]
    <2> TAKE k, l \in 1 .. Len(s)
    <2>1. pos[k] \in Int /\ pos[l] \in Int /\ (k < l \/ k = l \/ l < k) BY <1>1
    <2> QED BY <1>1, <2>1
<1>3. ASSUME NEW e \in h .. i, s[e] = "end", Broken(s, h, e), Broken(s, e, i)
      PROVE  Over(text, pos[h], pos[i])
    <2>1. e \in 1 .. Len(s) /\ h <= e /\ e <= i OBVIOUS
    <2>2. pos[e] \in pos[h] .. pos[i]
        <3>1. pos[e] \in Int /\ pos[h] \in Int /\ pos[i] \in Int BY <1>1, <2>1
        <3> QED BY <1>2, <2>1, <3>1
    <2>3. Broken(text, pos[h], pos[e]) /\ Broken(text, pos[e], pos[i])
        BY <1>3, <2>1, SameBroken
    <2> QED BY <1>1, <1>3, <2>1, <2>2, <2>3 DEF Over
<1>4. ASSUME NEW x \in pos[h] .. pos[i], text[x] = "end",
             Broken(text, pos[h], x), Broken(text, x, pos[i])
      PROVE  Over(s, h, i)
    <2>1. pos[h] \in 1 .. Len(text) /\ pos[i] \in 1 .. Len(text) BY <1>1
    <2>2. x \in 1 .. Len(text) /\ pos[h] <= x /\ x <= pos[i] BY <2>1
    <2>3. PICK e \in 1 .. Len(s) : pos[e] = x BY <1>1, <1>4, <2>2
    <2>4. e \in h .. i BY <1>2, <2>2, <2>3
    <2>5. Broken(s, h, e) /\ Broken(s, e, i) BY <1>4, <2>3, SameBroken
    <2> QED BY <1>1, <1>4, <2>3, <2>4, <2>5 DEF Over
<1> QED BY <1>3, <1>4 DEF Over

\* What belongs to a key belonged to it in the text.
LEMMA SamePrivate ==
    ASSUME NEW X, NEW text \in Seq(X), NEW s \in Seq(X), NEW pos, SameTokens(pos, s, text),
           NEW i \in 1 .. Len(s)
    PROVE  Private(s, i) <=> Private(text, pos[i])
<1>1. /\ \A k \in 1 .. Len(s) : pos[k] \in 1 .. Len(text)
      /\ \A k, l \in 1 .. Len(s) : k < l => pos[k] < pos[l]
      /\ \A x \in 1 .. Len(text) : text[x] = "begin" => \E k \in 1 .. Len(s) : pos[k] = x
    BY DEF SameTokens, Tokens
<1>2. \A k \in 1 .. Len(s) : k <= i <=> pos[k] <= pos[i]
    <2> TAKE k \in 1 .. Len(s)
    <2>1. pos[k] \in Int /\ pos[i] \in Int /\ (k < i \/ k = i \/ i < k) BY <1>1
    <2> QED BY <1>1, <2>1
<1>3. ASSUME NEW h \in 1 .. i, IsHeader(s, h), ~ Over(s, h, i)
      PROVE  Private(text, pos[i])
    <2>1. h \in 1 .. Len(s) /\ h <= i OBVIOUS
    <2>2. pos[h] \in 1 .. pos[i]
        <3>1. pos[h] \in 1 .. Len(text) /\ pos[i] \in Int BY <1>1, <2>1
        <3> QED BY <1>2, <2>1, <3>1
    <2>3. IsHeader(text, pos[h]) /\ ~ Over(text, pos[h], pos[i])
        BY <1>3, <2>1, SameHeaders, SameOver
    <2> QED BY <2>2, <2>3 DEF Private
<1>4. ASSUME NEW x \in 1 .. pos[i], IsHeader(text, x), ~ Over(text, x, pos[i])
      PROVE  Private(s, i)
    <2>1. x \in 1 .. Len(text) /\ x <= pos[i]
        <3>1. pos[i] \in 1 .. Len(text) BY <1>1
        <3> QED BY <3>1
    <2>2. text[x] = "begin" BY <1>4 DEF IsHeader
    <2>3. PICK h \in 1 .. Len(s) : pos[h] = x BY <1>1, <2>1, <2>2
    <2>4. h \in 1 .. i BY <1>2, <2>1, <2>3
    <2>5. IsHeader(s, h) /\ ~ Over(s, h, i) BY <1>4, <2>3, SameHeaders, SameOver
    <2> QED BY <2>4, <2>5 DEF Private
<1> QED BY <1>3, <1>4 DEF Private

\* And a header is swallowed only where one is in the text.
LEMMA SameSwallows ==
    ASSUME NEW X, NEW text \in Seq(X), NEW s \in Seq(X), NEW pos, SameTokens(pos, s, text),
           NEW g \in 1 .. Len(s), NEW h \in 1 .. Len(s), Swallows(s, g, h)
    PROVE  Swallows(text, pos[g], pos[h])
<1>1. PICK e \in 1 .. Len(s) : s[e] = "end" /\ ~ Broken(s, e, h) /\ ~ Broken(s, h, e)
    BY DEF Swallows
<1>2. pos[e] \in 1 .. Len(text) /\ text[pos[e]] = "end" /\ DOMAIN text = 1 .. Len(text)
    BY <1>1 DEF SameTokens, Tokens
<1>3. ~ Broken(text, pos[e], pos[h]) /\ ~ Broken(text, pos[h], pos[e]) BY <1>1, SameBroken
<1>4. /\ IsHeader(text, pos[g]) /\ IsHeader(text, pos[h])
      /\ Broken(text, pos[g], pos[h]) /\ ~ Over(text, pos[g], pos[h])
    BY SameHeaders, SameBroken, SameOver DEF Swallows
<1> QED BY <1>2, <1>3, <1>4 DEF Swallows

-----------------------------------------------------------------------------
(* Secrets                                                                   *)

\* A secret stands at a place when its characters do.
LEMMA AtPlaces ==
    ASSUME NEW X, NEW text \in Seq(X), NEW secret \in Seq(X), secret # <<>>,
           NEW i \in 1 .. Len(text)
    PROVE  At(text, secret, i) <=>
              /\ i + Len(secret) - 1 <= Len(text)
              /\ \A d \in 0 .. Len(secret) - 1 : text[i + d] = secret[d + 1]
<1> DEFINE l == Len(secret)
           j == i + l - 1
<1>a. Len(text) \in Nat /\ l \in Nat /\ l >= 1 OBVIOUS
<1>1. ASSUME j <= Len(text)
      PROVE  /\ SubSeq(text, i, j) \in Seq(X) /\ Len(SubSeq(text, i, j)) = l
             /\ \A d \in 1 .. l : SubSeq(text, i, j)[d] = text[i + d - 1]
    <2>1. j \in i - 1 .. Len(text) /\ j \in Int BY <1>1, <1>a
    <2>2. Len(SubSeq(text, i, j)) = l /\ SubSeq(text, i, j) \in Seq(X)
        BY <1>1, <1>a, <2>1
    <2>3. \A d \in 1 .. l : SubSeq(text, i, j)[d] = text[i + d - 1]
        BY <1>1, <1>a, <2>1
    <2> QED BY <2>2, <2>3
<1>2. (\A d \in 0 .. l - 1 : text[i + d] = secret[d + 1])
         <=> (\A d \in 1 .. l : text[i + d - 1] = secret[d])
    <2>1. ASSUME \A d \in 0 .. l - 1 : text[i + d] = secret[d + 1], NEW d \in 1 .. l
          PROVE  text[i + d - 1] = secret[d]
        <3>1. d - 1 \in 0 .. l - 1 /\ i + (d - 1) = i + d - 1 /\ (d - 1) + 1 = d BY <1>a
        <3>2. text[i + (d - 1)] = secret[(d - 1) + 1] BY <2>1, <3>1
        <3> QED BY <3>1, <3>2
    <2>2. ASSUME \A d \in 1 .. l : text[i + d - 1] = secret[d], NEW d \in 0 .. l - 1
          PROVE  text[i + d] = secret[d + 1]
        <3>1. d + 1 \in 1 .. l /\ i + (d + 1) - 1 = i + d BY <1>a
        <3>2. text[i + (d + 1) - 1] = secret[d + 1] BY <2>2, <3>1
        <3> QED BY <3>1, <3>2
    <2> QED BY <2>1, <2>2
<1>3. ASSUME j <= Len(text)
      PROVE  SubSeq(text, i, j) = secret <=> \A d \in 1 .. l : text[i + d - 1] = secret[d]
    <2> DEFINE sub == SubSeq(text, i, j)
    <2>1. sub \in Seq(X) /\ Len(sub) = l /\ \A d \in 1 .. l : sub[d] = text[i + d - 1]
        BY <1>1, <1>3
    <2> HIDE DEF sub
    <2>2. sub = secret <=> \A d \in 1 .. l : sub[d] = secret[d] BY <2>1, SeqEqual
    <2>3. sub = secret <=> \A d \in 1 .. l : text[i + d - 1] = secret[d] BY <2>1, <2>2
    <2> QED BY <2>3 DEF sub
<1> QED BY <1>2, <1>3 DEF At

\* What text.replace writes, and where it goes on.
Replaced(text, secret) ==
    [i \in DOMAIN text |-> IF At(text, secret, i) THEN Mark ELSE text[i]]
Beyond(text, secret) ==
    [i \in DOMAIN text |-> IF At(text, secret, i) THEN i + Len(secret) ELSE i + 1]

LEMMA ReplaceLeaves ==
    ASSUME NEW X, Mark \in X, NEW text \in Seq(X), NEW secret \in Seq(X), secret # <<>>
    PROVE  /\ replace(text, secret) \in Seq(X)
           /\ \E p : Passes(p, replace(text, secret),
                            Replaced(text, secret), Beyond(text, secret), text)
<1> DEFINE out == Replaced(text, secret)
           next == Beyond(text, secret)
           n == Len(text)
<1>a. n \in Nat /\ DOMAIN text = 1 .. n /\ Len(secret) \in Nat /\ Len(secret) >= 1 OBVIOUS
<1>1. out \in Seq(X) /\ Len(out) = n
    <2>1. out \in [1 .. n -> X] BY <1>a DEF Replaced
    <2> HIDE DEF out
    <2> QED BY <1>a, <2>1
<1>2. LeadsOn(out, next)
    <2> SUFFICES ASSUME NEW i \in 1 .. n PROVE next[i] \in i + 1 .. n + 1
        BY <1>1 DEF LeadsOn
    <2>1. At(text, secret, i) => i + Len(secret) - 1 <= n BY DEF At
    <2> QED BY <1>a, <2>1 DEF Beyond
<1>3. \A i \in 1 .. Len(out) : out[i] # Mark => out[i] = text[i] /\ next[i] = i + 1
    BY <1>1, <1>a DEF Replaced, Beyond
<1>4. replace(text, secret) = Rewritten(out, next) BY DEF replace, Replaced, Beyond
<1> HIDE DEF out, next
<1>5. /\ replace(text, secret) \in Seq(X)
      /\ \E p : Passes(p, replace(text, secret), out, next, text)
    BY <1>1, <1>2, <1>3, <1>4, RewrittenLeaves
<1> QED BY <1>5 DEF out, next

\* t stands in the text where its place k of s was, in one piece.
Stood(pos, s, text, t, k) ==
    /\ At(text, t, pos[k])
    /\ k + Len(t) - 1 <= Len(s)
    /\ \A d \in 0 .. Len(t) - 1 : s[k + d] # Mark /\ pos[k + d] = pos[k] + d

\* What stands in what is left stood in the text.
LEMMA StoodBefore ==
    ASSUME NEW X, Mark \in X, NEW text \in Seq(X), NEW s \in Seq(X), NEW pos,
           Leaves(pos, s, text),
           NEW t \in Seq(X \ {Mark}), t # <<>>, NEW k \in 1 .. Len(s), At(s, t, k)
    PROVE  Stood(pos, s, text, t, k)
<1> DEFINE l == Len(t)
           n == Len(text)
           m == Len(s)
<1>a. l \in Nat /\ l >= 1 /\ n \in Nat /\ m \in Nat /\ t \in Seq(X) OBVIOUS
<1>b. \A d \in 1 .. l : t[d] # Mark OBVIOUS
<1>1. k + l - 1 <= m /\ \A d \in 0 .. l - 1 : s[k + d] = t[d + 1] BY <1>a, AtPlaces
<1>2. ASSUME NEW d \in 0 .. l - 1 PROVE k + d \in 1 .. m /\ s[k + d] # Mark
    <2>1. d + 1 \in 1 .. l BY <1>a
    <2> QED BY <1>1, <1>a, <1>b, <2>1
<1>3. \A j \in 1 .. m : pos[j] \in 1 .. n /\ (s[j] # Mark => s[j] = text[pos[j]]) BY DEF Leaves
<1> HIDE DEF l, n, m
<1> DEFINE T == {d \in 0 .. l - 1 : pos[k + d] = pos[k] + d}
<1>4. T = 0 .. l - 1
    <2>1. 0 \in T
        <3>1. k + 0 = k /\ pos[k] + 0 = pos[k] /\ 0 \in 0 .. l - 1
            BY <1>3, <1>a DEF m
        <3> QED BY <3>1
    <2>2. ASSUME NEW d \in 1 .. l - 1, d - 1 \in T PROVE d \in T
        <3>1. d - 1 \in 0 .. l - 1 /\ d \in 0 .. l - 1 /\ (k + (d - 1)) + 1 = k + d BY <1>a
        <3>2. k + (d - 1) \in 1 .. m - 1
            <4>1. k + d \in 1 .. m /\ k \in 1 .. m BY <1>2, <3>1 DEF m
            <4> QED BY <1>a, <3>1, <4>1
        <3>3. s[k + (d - 1)] # Mark /\ s[k + d] # Mark BY <1>2, <3>1
        <3>4. pos[(k + (d - 1)) + 1] = pos[k + (d - 1)] + 1
            BY <3>1, <3>2, <3>3 DEF Leaves, m
        <3>5. pos[k + (d - 1)] = pos[k] + (d - 1) BY <2>2
        <3>6. pos[k] \in Int BY <1>3 DEF m
        <3>7. pos[k + d] = pos[k] + d BY <3>1, <3>4, <3>5, <3>6
        <3> QED BY <3>1, <3>7
    <2>3. T \in SUBSET (0 .. l - 1) /\ l - 1 \in Nat BY <1>a
    <2> HIDE DEF T
    <2> QED BY <2>1, <2>2, <2>3, PlaceByPlace
<1>5. \A d \in 0 .. l - 1 : pos[k + d] = pos[k] + d BY <1>4
<1>6. pos[k] + l - 1 <= n
    <2>1. l - 1 \in 0 .. l - 1 BY <1>a
    <2>2. pos[k + (l - 1)] \in 1 .. n BY <1>2, <1>3, <2>1
    <2>3. pos[k + (l - 1)] = pos[k] + (l - 1) BY <1>5, <2>1
    <2>4. pos[k] \in Int BY <1>3 DEF m
    <2> QED BY <1>a, <2>2, <2>3, <2>4
<1>7. \A d \in 0 .. l - 1 : text[pos[k] + d] = t[d + 1]
    <2> TAKE d \in 0 .. l - 1
    <2>1. k + d \in 1 .. m /\ s[k + d] # Mark BY <1>2
    <2> QED BY <1>1, <1>3, <1>5, <2>1 DEF l
<1>8. At(text, t, pos[k])
    <2>1. pos[k] \in 1 .. Len(text) BY <1>3 DEF m, n
    <2> QED BY <1>6, <1>7, <1>a, <2>1, AtPlaces DEF l, n
<1> QED BY <1>1, <1>2, <1>5, <1>8 DEF l, m, Stood

\* A secret that is replaced is gone, and no other comes about.
LEMMA ReplacedIsGone ==
    ASSUME NEW X, Mark \in X, NEW text \in Seq(X),
           NEW secret \in Seq(X \ {Mark}), secret # <<>>,
           NEW t \in Seq(X \ {Mark}), t # <<>>,
           NEW k \in 1 .. Len(replace(text, secret)), At(replace(text, secret), t, k)
    PROVE  t # secret /\ \E i \in 1 .. Len(text) : At(text, t, i)
<1> DEFINE s == replace(text, secret)
<1>a. secret \in Seq(X) /\ Len(t) \in Nat /\ Len(t) >= 1 OBVIOUS
<1>1. s \in Seq(X) /\ \E p : Passes(p, s, Replaced(text, secret), Beyond(text, secret), text)
    BY <1>a, ReplaceLeaves
<1>2. k \in 1 .. Len(s) /\ At(s, t, k) OBVIOUS
<1> HIDE DEF s
<1>3. PICK p : Passes(p, s, Replaced(text, secret), Beyond(text, secret), text) BY <1>1
<1>4. Leaves(p, s, text) /\ s[k] = Replaced(text, secret)[p[k]] BY <1>2, <1>3 DEF Passes
<1>5. At(text, t, p[k]) /\ s[k + 0] # Mark
    <2>1. 0 \in 0 .. Len(t) - 1 BY <1>a
    <2>2. s \in Seq(X) /\ Leaves(p, s, text) /\ k \in 1 .. Len(s) /\ At(s, t, k)
        BY <1>1, <1>2, <1>4
    <2>3. Stood(p, s, text, t, k) BY <2>2, StoodBefore
    <2> QED BY <2>1, <2>3 DEF Stood
<1>6. p[k] \in 1 .. Len(text) BY <1>2, <1>4 DEF Leaves
<1>7. s[k] # Mark
    <2>1. k + 0 = k BY <1>2
    <2> QED BY <1>5, <2>1
<1>8. ~ At(text, secret, p[k])
    <2>1. p[k] \in DOMAIN text BY <1>6
    <2> QED BY <1>4, <1>7, <2>1 DEF Replaced
<1> QED BY <1>5, <1>6, <1>8

\* What is left of what is left.
LEMMA LeavesTwice ==
    ASSUME NEW X, NEW text \in Seq(X), NEW s \in Seq(X), NEW r \in Seq(X),
           NEW pos, Leaves(pos, s, text), NEW p, Leaves(p, r, s)
    PROVE  Leaves([k \in 1 .. Len(r) |-> pos[p[k]]], r, text)
<1> DEFINE q == [k \in 1 .. Len(r) |-> pos[p[k]]]
<1>a. Len(text) \in Nat /\ Len(s) \in Nat /\ Len(r) \in Nat OBVIOUS
<1>1. \A k \in 1 .. Len(r) : p[k] \in 1 .. Len(s) BY DEF Leaves
<1>2. \A j \in 1 .. Len(s) : pos[j] \in 1 .. Len(text) BY DEF Leaves
<1>3. \A k \in 1 .. Len(r) : q[k] = pos[p[k]] OBVIOUS
<1>4. q \in [1 .. Len(r) -> 1 .. Len(text)] BY <1>1, <1>2
<1> HIDE DEF q
<1>5. \A k, l \in 1 .. Len(r) : k < l => q[k] < q[l]
    <2>1. \A k, l \in 1 .. Len(r) : k < l => p[k] < p[l] BY DEF Leaves
    <2>2. \A k, l \in 1 .. Len(s) : k < l => pos[k] < pos[l] BY DEF Leaves
    <2> QED BY <1>1, <1>3, <2>1, <2>2
<1>6. \A k \in 1 .. Len(r) : r[k] # Mark => r[k] = s[p[k]] /\ s[p[k]] = text[q[k]]
    <2>1. \A k \in 1 .. Len(r) : r[k] # Mark => r[k] = s[p[k]] BY DEF Leaves
    <2>2. \A j \in 1 .. Len(s) : s[j] # Mark => s[j] = text[pos[j]] BY DEF Leaves
    <2> QED BY <1>1, <1>3, <2>1, <2>2
<1>7. ASSUME NEW k \in 1 .. Len(r) - 1, r[k] # Mark, r[k + 1] # Mark
      PROVE  q[k + 1] = q[k] + 1
    <2>1. k \in 1 .. Len(r) /\ k + 1 \in 1 .. Len(r) BY <1>a
    <2>2. p[k + 1] = p[k] + 1 BY <1>7 DEF Leaves
    <2>3. s[p[k]] # Mark /\ s[p[k] + 1] # Mark BY <1>6, <1>7, <2>1, <2>2
    <2>4. p[k] \in 1 .. Len(s) - 1
        <3>1. p[k] \in 1 .. Len(s) /\ p[k] + 1 \in 1 .. Len(s) BY <1>1, <2>1, <2>2
        <3> QED BY <1>a, <3>1
    <2>5. pos[p[k] + 1] = pos[p[k]] + 1 BY <2>3, <2>4 DEF Leaves
    <2> QED BY <1>3, <2>1, <2>2, <2>5
<1>8. Leaves(q, r, text) BY <1>4, <1>5, <1>6, <1>7 DEF Leaves
<1> QED BY <1>8 DEF q

\* The places of a secret, the places under any of some, and that none cross.
Places(i, t) == i .. i + Len(t) - 1
Under(text, S) ==
    {x \in 1 .. Len(text) :
        \E t \in S, i \in 1 .. Len(text) : At(text, t, i) /\ x \in Places(i, t)}
NoneCross(text, S) ==
    \A t, u \in S : \A i, j \in 1 .. Len(text) :
        At(text, t, i) /\ At(text, u, j) =>
            \/ Places(i, t) \subseteq Places(j, u)
            \/ Places(j, u) \subseteq Places(i, t)
            \/ Places(i, t) \cap Places(j, u) = {}

\* s is what is left of the text but for the places of the secrets S.
LeavesOthers(pos, s, text, S) ==
    Leaves(pos, s, text) /\ Left(pos, s) = (1 .. Len(text)) \ Under(text, S)

\* t stands in s where the place i of the text is left, in one piece.
Stands(pos, s, t, i) ==
    \E k \in 1 .. Len(s) : At(s, t, k) /\ \A d \in 0 .. Len(t) - 1 : pos[k + d] = i + d

\* What no longer secret touches is not touched at all: the secret that it
\* belongs to is still there, in one piece.
LEMMA StillThere ==
    ASSUME NEW X, Mark \in X, NEW text \in Seq(X),
           NEW S \in SUBSET (Seq(X \ {Mark}) \ {<<>>}), NoneCross(text, S),
           NEW done \in SUBSET S, NEW secret \in S,
           \A t \in done : Len(t) >= Len(secret),
           NEW s \in Seq(X), NEW pos, LeavesOthers(pos, s, text, done),
           NEW i \in 1 .. Len(text), At(text, secret, i),
           NEW x \in Places(i, secret), x \notin Under(text, done)
    PROVE  Stands(pos, s, secret, i)
<1> DEFINE l == Len(secret)
           n == Len(text)
           m == Len(s)
<1>a. /\ l \in Nat /\ l >= 1 /\ n \in Nat /\ m \in Nat /\ secret \in Seq(X) /\ secret # <<>>
      /\ i + l - 1 <= n
    BY DEF At
<1>b. \A d \in 0 .. l - 1 : text[i + d] = secret[d + 1] BY <1>a, AtPlaces
<1>e. Leaves(pos, s, text) /\ Left(pos, s) = (1 .. Len(text)) \ Under(text, done)
    BY DEF LeavesOthers
<1>c. \A j \in 1 .. m : pos[j] \in 1 .. n /\ (s[j] # Mark => s[j] = text[pos[j]]) BY <1>e DEF Leaves
<1>d. \A j, k \in 1 .. m : j < k => pos[j] < pos[k] BY <1>e DEF Leaves
<1>1. \A y \in Places(i, secret) : y \in 1 .. n /\ y \notin Under(text, done)
    <2> SUFFICES ASSUME NEW y \in Places(i, secret), y \in Under(text, done) PROVE FALSE
        BY <1>a DEF Places
    <2>1. PICK t \in done, j \in 1 .. n : At(text, t, j) /\ y \in Places(j, t) BY DEF Under
    <2>2. Len(t) \in Nat /\ Len(t) >= l OBVIOUS
    <2>3. x \notin Places(j, t)
        <3>1. x \in 1 .. n BY <1>a DEF Places
        <3> QED BY <2>1, <3>1 DEF Under
    <2>4. ~ (Places(i, secret) \subseteq Places(j, t)) BY <2>3
    <2>5. y \in Places(i, secret) \cap Places(j, t) BY <2>1
    <2>6. Places(j, t) \subseteq Places(i, secret) BY <2>1, <2>4, <2>5 DEF NoneCross
    <2>7. i = j /\ Len(t) = l
        <3>1. j \in Places(j, t) /\ j + Len(t) - 1 \in Places(j, t) BY <2>2, <1>a DEF Places
        <3>2. j \in i .. i + l - 1 /\ j + Len(t) - 1 \in i .. i + l - 1
            BY <2>6, <3>1 DEF Places
        <3> QED BY <2>2, <3>2, <1>a
    <2> QED BY <2>4, <2>7 DEF Places
<1>2. \A d \in 0 .. l - 1 : \E k \in 1 .. m : s[k] # Mark /\ pos[k] = i + d
    <2> TAKE d \in 0 .. l - 1
    <2>1. i + d \in Places(i, secret) BY <1>a DEF Places
    <2>2. i + d \in Left(pos, s) BY <1>1, <1>e, <2>1
    <2> QED BY <2>2 DEF Left
<1>3. PICK k \in 1 .. m : s[k] # Mark /\ pos[k] = i + 0
    <2>1. 0 \in 0 .. l - 1 BY <1>a
    <2> QED BY <1>2, <2>1
<1> HIDE DEF l, n, m
<1> DEFINE T == {d \in 0 .. l - 1 : k + d \in 1 .. m /\ s[k + d] # Mark /\ pos[k + d] = i + d}
<1>4. T = 0 .. l - 1
    <2>1. 0 \in T
        <3>1. k + 0 = k /\ 0 \in 0 .. l - 1 BY <1>a
        <3> QED BY <1>3, <3>1
    <2>2. ASSUME NEW d \in 1 .. l - 1, d - 1 \in T PROVE d \in T
        <3> DEFINE b == k + (d - 1)
        <3>1. /\ d \in 0 .. l - 1 /\ b + 1 = k + d /\ b \in 1 .. m
              /\ i + d = (i + (d - 1)) + 1 /\ pos[b] = i + (d - 1)
            BY <1>a, <2>2
        <3>2. PICK c \in 1 .. m : s[c] # Mark /\ pos[c] = i + d BY <1>2, <3>1
        <3> HIDE DEF b
        <3>3. b < c
            <4>1. ~ (c < b) /\ c # b
                <5>1. ~ (pos[c] < pos[b]) /\ pos[c] # pos[b] BY <3>1, <3>2
                <5> QED BY <1>d, <3>1, <3>2, <5>1
            <4> QED BY <3>1, <3>2, <4>1
        <3>4. c = b + 1
            <4> SUFFICES ASSUME b + 1 < c PROVE FALSE BY <3>1, <3>2, <3>3
            <4>1. b + 1 \in 1 .. m /\ b < b + 1 BY <1>a, <3>1, <3>2
            <4>2. pos[b] < pos[b + 1] /\ pos[b + 1] < pos[c] BY <1>d, <3>1, <3>2, <4>1
            <4>3. pos[b + 1] \in Int BY <1>c, <4>1
            <4> QED BY <3>1, <3>2, <4>2, <4>3
        <3> QED BY <3>1, <3>2, <3>4
    <2>3. T \in SUBSET (0 .. l - 1) /\ l - 1 \in Nat BY <1>a
    <2> HIDE DEF T
    <2> QED BY <2>1, <2>2, <2>3, PlaceByPlace
<1>5. \A d \in 0 .. l - 1 : k + d \in 1 .. m /\ s[k + d] # Mark /\ pos[k + d] = i + d
    BY <1>4
<1>6. At(s, secret, k)
    <2>1. k + l - 1 <= m
        <3>1. l - 1 \in 0 .. l - 1 BY <1>a
        <3>2. k + (l - 1) \in 1 .. m BY <1>5, <3>1
        <3> QED BY <1>a, <3>2
    <2>2. \A d \in 0 .. l - 1 : s[k + d] = secret[d + 1] BY <1>5, <1>b, <1>c
    <2>3. k \in 1 .. Len(s) BY DEF m
    <2> QED BY <1>a, <2>1, <2>2, <2>3, AtPlaces DEF l, m
<1> QED BY <1>5, <1>6 DEF l, m, Stands

\* With one secret more, the longest of those that are left, its places are gone.
LEMMA OneMoreGone ==
    ASSUME NEW X, Mark \in X, NEW text \in Seq(X),
           NEW S \in SUBSET (Seq(X \ {Mark}) \ {<<>>}), NoneCross(text, S),
           NEW done \in SUBSET S, NEW secret \in S,
           \A t \in done : Len(t) >= Len(secret),
           NEW s \in Seq(X), NEW pos, LeavesOthers(pos, s, text, done)
    PROVE  \E q : LeavesOthers(q, replace(s, secret), text, done \cup {secret})
<1> DEFINE l == Len(secret)
           n == Len(text)
           m == Len(s)
           r == replace(s, secret)
           out == Replaced(s, secret)
           next == Beyond(s, secret)
<1>a. /\ l \in Nat /\ l >= 1 /\ n \in Nat /\ m \in Nat
      /\ secret \in Seq(X) /\ secret # <<>> /\ secret \in Seq(X \ {Mark})
    OBVIOUS
<1>c. Leaves(pos, s, text) /\ Left(pos, s) = (1 .. Len(text)) \ Under(text, done)
    BY DEF LeavesOthers
<1>1. r \in Seq(X) /\ \E p : Passes(p, r, out, next, s)
    BY <1>a, ReplaceLeaves
<1>2. PICK p : Passes(p, r, out, next, s) BY <1>1
<1>b. /\ \A a \in 1 .. m : out[a] = IF At(s, secret, a) THEN Mark ELSE s[a]
      /\ \A a \in 1 .. m : next[a] = IF At(s, secret, a) THEN a + l ELSE a + 1
      /\ Len(out) = m
    <2>1. DOMAIN s = 1 .. m BY <1>a
    <2>2. Len(out) = m
        <3>1. DOMAIN out = 1 .. m BY <2>1 DEF Replaced
        <3>2. out = [a \in 1 .. m |-> out[a]] BY <2>1 DEF Replaced
        <3> HIDE DEF out
        <3> QED BY <1>a, <3>1, <3>2
    <2>3. \A a \in 1 .. m : out[a] = IF At(s, secret, a) THEN Mark ELSE s[a]
        BY <2>1 DEF Replaced
    <2>4. \A a \in 1 .. m : next[a] = IF At(s, secret, a) THEN a + l ELSE a + 1
        BY <2>1 DEF Beyond
    <2> QED BY <2>2, <2>3, <2>4
<1> HIDE DEF r, out, next
<1> DEFINE q == [k \in 1 .. Len(r) |-> pos[p[k]]]
<1>3. /\ Leaves(p, r, s)
      /\ \A k \in 1 .. Len(r) : r[k] = out[p[k]]
      /\ \A a \in 1 .. m : \E k \in 1 .. Len(r) : p[k] <= a /\ a < next[p[k]]
      /\ \A k, j \in 1 .. Len(r) : ~ (p[k] < p[j] /\ p[j] < next[p[k]])
    BY <1>2, <1>b DEF Passes
<1>4. \A k \in 1 .. Len(r) : p[k] \in 1 .. m BY <1>3 DEF Leaves
<1>5. \A a \in 1 .. m : pos[a] \in 1 .. n BY <1>c DEF Leaves
<1>6. \A a, b \in 1 .. m : pos[a] = pos[b] => a = b
    <2> TAKE a, b \in 1 .. m
    <2>1. a < b => pos[a] < pos[b] BY <1>c DEF Leaves
    <2>2. b < a => pos[b] < pos[a] BY <1>c DEF Leaves
    <2>3. pos[a] \in Int /\ pos[b] \in Int BY <1>5
    <2> QED BY <2>1, <2>2, <2>3
<1>7. Leaves(q, r, text) BY <1>1, <1>3, <1>c, LeavesTwice
<1>8. ASSUME NEW a \in 1 .. m, At(s, secret, a)
      PROVE  /\ At(text, secret, pos[a])
             /\ \A d \in 0 .. l - 1 : pos[a + d] = pos[a] + d
    <2>1. Stood(pos, s, text, secret, a) BY <1>8, <1>a, <1>c, StoodBefore
    <2> QED BY <2>1 DEF Stood
<1>9. ASSUME NEW a \in 1 .. m, NEW b \in 1 .. m, At(s, secret, a), At(s, secret, b),
             a < b, b < a + l
      PROVE  FALSE
    <2>1. b - a \in 0 .. l - 1 /\ a + (b - a) = b BY <1>9, <1>a
    <2>2. pos[b] = pos[a] + (b - a) BY <1>8, <1>9, <2>1
    <2>3. At(text, secret, pos[a]) /\ At(text, secret, pos[b]) BY <1>8, <1>9
    <2>4. pos[a] \in 1 .. n /\ pos[b] \in 1 .. n BY <1>5
    <2>5. \/ Places(pos[a], secret) \subseteq Places(pos[b], secret)
          \/ Places(pos[b], secret) \subseteq Places(pos[a], secret)
          \/ Places(pos[a], secret) \cap Places(pos[b], secret) = {}
        BY <2>3, <2>4 DEF NoneCross
    <2>6. pos[a] \in Places(pos[a], secret) /\ pos[a] \notin Places(pos[b], secret)
        BY <1>9, <1>a, <2>2, <2>4 DEF Places
    <2>7. /\ pos[b] + l - 1 \in Places(pos[b], secret)
          /\ pos[b] + l - 1 \notin Places(pos[a], secret)
        BY <1>9, <1>a, <2>2, <2>4 DEF Places
    <2>8. pos[b] \in Places(pos[b], secret) \cap Places(pos[a], secret)
        BY <1>9, <1>a, <2>2, <2>4 DEF Places
    <2> QED BY <2>5, <2>6, <2>7, <2>8
<1>10. ASSUME NEW k \in 1 .. Len(r), r[k] # Mark
       PROVE  q[k] \in 1 .. n /\ q[k] \notin Under(text, done \cup {secret})
    <2> DEFINE a == p[k]
               x == pos[a]
    <2>1. a \in 1 .. m /\ q[k] = x /\ x \in 1 .. n BY <1>4, <1>5
    <2>2. r[k] = out[a] BY <1>3
    <2> HIDE DEF a, x
    <2>3. ~ At(s, secret, a) /\ s[a] # Mark BY <1>10, <1>b, <2>1, <2>2
    <2>4. x \notin Under(text, done)
        <3>1. x \in Left(pos, s) BY <2>1, <2>3 DEF Left, x
        <3> QED BY <1>c, <3>1
    <2>5. ASSUME NEW i \in 1 .. n, At(text, secret, i), x \in Places(i, secret) PROVE FALSE
        <3>1. PICK b \in 1 .. m : /\ At(s, secret, b)
                                  /\ \A d \in 0 .. l - 1 : pos[b + d] = i + d
            <4>1. i \in 1 .. Len(text) /\ x \in Places(i, secret) /\ x \notin Under(text, done)
                BY <2>4, <2>5
            <4>2. Stands(pos, s, secret, i) BY <2>5, <4>1, StillThere
            <4> QED BY <4>2 DEF Stands
        <3>2. a = b + (x - i) /\ x - i \in 0 .. l - 1
            <4>1. x - i \in 0 .. l - 1 /\ i + (x - i) = x BY <1>a, <2>1, <2>5 DEF Places
            <4>2. pos[b + (x - i)] = x BY <3>1, <4>1
            <4>3. b + (x - i) \in 1 .. m
                <5>1. b + l - 1 <= m BY <3>1 DEF At
                <5> QED BY <1>a, <4>1, <5>1
            <4> QED BY <1>6, <2>1, <4>1, <4>2, <4>3 DEF x
        <3>3. b < a /\ a < b + l
            <4>1. a # b BY <2>3, <3>1
            <4>2. a \in Int /\ b \in Int BY <2>1
            <4> QED BY <1>a, <3>2, <4>1, <4>2
        <3>4. PICK j \in 1 .. Len(r) : p[j] <= b /\ b < next[p[j]] BY <1>3
        <3>5. p[j] \in 1 .. m BY <1>4
        <3>6. p[j] = b
            <4> SUFFICES ASSUME p[j] # b PROVE FALSE OBVIOUS
            <4>1. p[j] < b BY <3>4, <3>5
            <4>2. At(s, secret, p[j]) /\ b < p[j] + l
                <5>1. next[p[j]] # p[j] + 1 BY <3>4, <3>5, <4>1
                <5> QED BY <1>b, <3>4, <3>5, <5>1
            <4> QED BY <1>9, <3>1, <3>5, <4>1, <4>2
        <3>7. next[b] = b + l BY <1>b, <3>1
        <3> QED BY <1>3, <3>3, <3>6, <3>7 DEF a
    <2> QED BY <2>1, <2>4, <2>5 DEF Under
<1>11. ASSUME NEW x \in 1 .. n, x \notin Under(text, done \cup {secret})
       PROVE  x \in Left(q, r)
    <2>1. x \notin Under(text, done)
        <3>1. \A t \in done : t \in done \cup {secret} OBVIOUS
        <3> QED BY <1>11, <3>1 DEF Under
    <2>2. \A i \in 1 .. n : At(text, secret, i) => x \notin Places(i, secret)
        BY <1>11 DEF Under
    <2>3. PICK a \in 1 .. m : pos[a] = x /\ s[a] # Mark
        <3>1. x \in Left(pos, s) BY <1>c, <2>1
        <3> QED BY <3>1 DEF Left
    <2>4. PICK j \in 1 .. Len(r) : p[j] <= a /\ a < next[p[j]] BY <1>3
    <2>5. p[j] \in 1 .. m /\ pos[p[j]] \in 1 .. n BY <1>4, <1>5
    <2>6. ASSUME At(s, secret, p[j]) PROVE FALSE
        <3>1. a - p[j] \in 0 .. l - 1 /\ p[j] + (a - p[j]) = a
            <4>1. a < p[j] + l BY <1>b, <2>4, <2>5, <2>6
            <4> QED BY <1>a, <2>4, <2>5, <4>1
        <3>2. x = pos[p[j]] + (a - p[j])
            <4>1. pos[p[j] + (a - p[j])] = pos[p[j]] + (a - p[j]) BY <1>8, <2>5, <2>6, <3>1
            <4> QED BY <2>3, <3>1, <4>1
        <3>3. x \in Places(pos[p[j]], secret) BY <1>a, <2>5, <3>1, <3>2 DEF Places
        <3>4. At(text, secret, pos[p[j]]) BY <1>8, <2>5, <2>6
        <3> QED BY <2>2, <2>5, <3>3, <3>4
    <2>7. p[j] = a
        <3>1. a < p[j] + 1 BY <1>b, <2>4, <2>5, <2>6
        <3> QED BY <2>4, <2>5, <3>1
    <2>8. r[j] = s[a]
        <3>1. r[j] = out[p[j]] BY <1>3
        <3> QED BY <1>b, <2>5, <2>6, <2>7, <3>1
    <2>9. q[j] = x BY <2>3, <2>7
    <2> HIDE DEF q
    <2> QED BY <2>3, <2>8, <2>9 DEF Left
<1>12. Left(q, r) = (1 .. n) \ Under(text, done \cup {secret})
    <2> HIDE DEF q
    <2>1. Left(q, r) \subseteq (1 .. n) \ Under(text, done \cup {secret}) BY <1>10 DEF Left
    <2> QED BY <1>11, <2>1
<1> QED BY <1>7, <1>12 DEF r, LeavesOthers

\* f is the function that hide defines by recursion over the secrets.
Redacts(f, secrets, text) ==
    f = [k \in 0 .. Len(secrets) |->
            IF k = 0 THEN text ELSE replace(f[k - 1], secrets[k])]

LEMMA RedactRedacts ==
    ASSUME NEW X, Mark \in X, NEW text \in Seq(X),
           NEW secrets \in Seq(Seq(X) \ {<<>>})
    PROVE  \E f : Redacts(f, secrets, text) /\ hide(secrets, text) = f[Len(secrets)]
<1> DEFINE n == Len(secrets)
           G == [k \in 1 .. n |-> [s \in Seq(X) |-> replace(s, secrets[k])]]
<1>a. n \in Nat OBVIOUS
<1>1. PICK f \in [0 .. n -> Seq(X)] : Recurs(f, n, text, G)
    <2>1. \A k \in 1 .. n, s \in Seq(X) : replace(s, secrets[k]) \in Seq(X)
        <3> TAKE k \in 1 .. n, s \in Seq(X)
        <3>1. secrets[k] \in Seq(X) /\ secrets[k] # <<>> BY <1>a
        <3> QED BY <3>1, ReplaceLeaves
    <2>2. G \in [1 .. n -> [Seq(X) -> Seq(X)]] BY <2>1
    <2> HIDE DEF n, G
    <2> QED BY <1>a, <2>2, RecursionExists
<1>2. Redacts(f, secrets, text)
    <2>1. \A k \in 0 .. n : k # 0 => k \in 1 .. n /\ k - 1 \in 0 .. n BY <1>a
    <2>2. \A k \in 1 .. n, s \in Seq(X) : G[k][s] = replace(s, secrets[k]) OBVIOUS
    <2>3. f = [k \in 0 .. n |-> IF k = 0 THEN text ELSE G[k][f[k - 1]]] BY <1>1 DEF Recurs
    <2> HIDE DEF n, G
    <2>4. \A k \in 0 .. n : k # 0 => G[k][f[k - 1]] = replace(f[k - 1], secrets[k])
        BY <1>1, <2>1, <2>2
    <2>5. [k \in 0 .. n |-> IF k = 0 THEN text ELSE G[k][f[k - 1]]]
           = [k \in 0 .. n |-> IF k = 0 THEN text ELSE replace(f[k - 1], secrets[k])]
        BY <2>4
    <2> QED BY <2>3, <2>5 DEF Redacts, n
<1> DEFINE g == CHOOSE g : Redacts(g, secrets, text)
<1>3. Redacts(g, secrets, text) BY <1>2
<1>4. hide(secrets, text) = g[n] BY DEF hide, Redacts
<1> QED BY <1>3, <1>4

\* None of the secrets S is left in s, and where they do not cross, nothing of
\* them is, and the rest of the text is.
NothingLeft(s, text, S) ==
    /\ \A t \in S, i \in 1 .. Len(s) : ~ At(s, t, i)
    /\ NoneCross(text, S) =>
          \E pos : LeavesOthers(pos, s, text, S)

LEMMA NoSecretsLeft ==
    ASSUME NEW X, NEW text \in Seq(X \ {Mark})
    PROVE  NothingLeft(text, text, {})
<1> DEFINE n == Len(text)
           pos == [k \in 1 .. n |-> k]
<1>a. n \in Nat OBVIOUS
<1>1. Leaves(pos, text, text)
    <2>1. \A k \in 1 .. n - 1 : k \in 1 .. n /\ k + 1 \in 1 .. n BY <1>a
    <2> QED BY <1>a, <2>1 DEF Leaves
<1>2. \A k \in 1 .. n : text[k] # Mark /\ pos[k] = k OBVIOUS
<1>3. Left(pos, text) = 1 .. n
    <2> HIDE DEF pos, n
    <2> QED BY <1>2 DEF Left, n
<1>4. Under(text, {}) = {} BY DEF Under
<1> QED BY <1>1, <1>3, <1>4 DEF NothingLeft, LeavesOthers

LEMMA OneMoreHidden ==
    ASSUME NEW X, Mark \in X, NEW text \in Seq(X \ {Mark}),
           NEW done \in SUBSET (Seq(X \ {Mark}) \ {<<>>}),
           NEW secret \in Seq(X \ {Mark}) \ {<<>>},
           \A t \in done : Len(t) >= Len(secret),
           NEW s \in Seq(X), NothingLeft(s, text, done)
    PROVE  /\ replace(s, secret) \in Seq(X)
           /\ NothingLeft(replace(s, secret), text, done \cup {secret})
<1> DEFINE r == replace(s, secret)
           S == done \cup {secret}
<1>a. text \in Seq(X) /\ secret \in Seq(X) /\ secret # <<>> OBVIOUS
<1>1. r \in Seq(X) BY <1>a, ReplaceLeaves
<1>2. ASSUME NEW t \in S, NEW i \in 1 .. Len(r), At(r, t, i) PROVE FALSE
    <2>1. t \in Seq(X \ {Mark}) /\ t # <<>> OBVIOUS
    <2>2. t # secret /\ \E j \in 1 .. Len(s) : At(s, t, j)
        BY <1>2, <1>a, <2>1, ReplacedIsGone
    <2>3. t \in done BY <2>2
    <2> QED BY <2>2, <2>3 DEF NothingLeft
<1>3. ASSUME NoneCross(text, S)
      PROVE  \E pos : LeavesOthers(pos, r, text, S)
    <2>1. NoneCross(text, done) BY <1>3 DEF NoneCross
    <2>2. PICK pos : LeavesOthers(pos, s, text, done) BY <2>1 DEF NothingLeft
    <2>3. S \in SUBSET (Seq(X \ {Mark}) \ {<<>>}) /\ done \in SUBSET S /\ secret \in S
        OBVIOUS
    <2> HIDE DEF S
    <2>4. \E q : LeavesOthers(q, replace(s, secret), text, done \cup {secret})
        BY <1>3, <1>a, <2>2, <2>3, OneMoreGone
    <2> QED BY <2>4 DEF S
<1> QED BY <1>1, <1>2, <1>3 DEF NothingLeft

\* Every secret is hidden when none is shorter than one that comes later.
LEMMA SecretsAreHidden ==
    ASSUME NEW X, Mark \in X, NEW text \in Seq(X \ {Mark}),
           NEW secrets \in Seq(Seq(X \ {Mark}) \ {<<>>}),
           \A j, k \in 1 .. Len(secrets) : j < k => Len(secrets[j]) >= Len(secrets[k])
    PROVE  /\ hide(secrets, text) \in Seq(X)
           /\ NothingLeft(hide(secrets, text), text, Range(secrets))
<1> DEFINE n == Len(secrets)
           Done(k) == {secrets[j] : j \in 1 .. k}
<1>a. n \in Nat /\ text \in Seq(X) /\ secrets \in Seq(Seq(X) \ {<<>>}) OBVIOUS
<1>b. \A k \in 1 .. n : secrets[k] \in Seq(X \ {Mark}) \ {<<>>} OBVIOUS
<1>1. PICK f : Redacts(f, secrets, text) /\ hide(secrets, text) = f[n]
    BY <1>a, RedactRedacts
<1> DEFINE Hidden(k) == f[k] \in Seq(X) /\ NothingLeft(f[k], text, Done(k))
           T == {k \in 0 .. n : Hidden(k)}
<1>2. 0 \in T
    <2>1. f[0] = text /\ 0 \in 0 .. n BY <1>1, <1>a DEF Redacts
    <2>2. Done(0) = {} OBVIOUS
    <2>3. NothingLeft(text, text, {}) BY NoSecretsLeft
    <2> HIDE DEF Done
    <2> QED BY <1>a, <2>1, <2>2, <2>3
<1>3. ASSUME NEW k \in 1 .. n, k - 1 \in T PROVE k \in T
    <2> DEFINE done == Done(k - 1)
               s == f[k - 1]
               secret == secrets[k]
    <2>1. \A j \in 1 .. k - 1 : j \in 1 .. n /\ j < k BY <1>a
    <2>2. done \in SUBSET (Seq(X \ {Mark}) \ {<<>>}) BY <1>b, <2>1
    <2>3. \A t \in done : Len(t) >= Len(secret) BY <2>1
    <2>4. secret \in Seq(X \ {Mark}) \ {<<>>} BY <1>b
    <2>5. f[k] = replace(s, secret)
        <3>1. k \in 0 .. n /\ k # 0 BY <1>a
        <3> QED BY <1>1, <3>1 DEF Redacts
    <2>6. Done(k) = done \cup {secret}
        <3>1. \A j \in 1 .. k : j = k \/ j \in 1 .. k - 1 BY <1>a
        <3>2. k \in 1 .. k /\ \A j \in 1 .. k - 1 : j \in 1 .. k BY <1>a
        <3> QED BY <3>1, <3>2
    <2> HIDE DEF Done
    <2>7. s \in Seq(X) /\ NothingLeft(s, text, done) BY <1>3
    <2> HIDE DEF done, s, secret
    <2>8. /\ replace(s, secret) \in Seq(X)
          /\ NothingLeft(replace(s, secret), text, done \cup {secret})
        BY <2>2, <2>3, <2>4, <2>7, OneMoreHidden
    <2>9. Hidden(k) BY <2>5, <2>6, <2>8
    <2>10. k \in 0 .. n BY <1>a
    <2> HIDE DEF Hidden
    <2> QED BY <2>9, <2>10
<1>4. Hidden(n)
    <2>1. T \in SUBSET (0 .. n) /\ n \in 0 .. n BY <1>a
    <2>2. T = 0 .. n
        <3> HIDE DEF T
        <3> QED BY <1>2, <1>3, <1>a, <2>1, PlaceByPlace
    <2> HIDE DEF Hidden
    <2> QED BY <2>1, <2>2
<1>5. Done(n) = Range(secrets) BY <1>a DEF Range
<1> HIDE DEF Done
<1> QED BY <1>1, <1>4, <1>5

\* How far in front a secret is put: those that are longer, and those of its
\* length that were found earlier, come before it.
Wanted(secrets) == {i \in DOMAIN secrets : secrets[i] # <<>>}
Precedes(secrets, j, i) ==
    \/ Len(secrets[j]) > Len(secrets[i])
    \/ (Len(secrets[j]) = Len(secrets[i]) /\ j < i)
Before(secrets, i) == {j \in Wanted(secrets) : Precedes(secrets, j, i)}

\* Every secret but the empty one gets a place of its own.
LEMMA RanksDiffer ==
    ASSUME NEW X, NEW secrets \in Seq(Seq(X))
    PROVE  LET kept == Wanted(secrets)
               Standing(i) == Cardinality(Before(secrets, i))
           IN  /\ Cardinality(kept) \in Nat
               /\ \A i \in kept : Standing(i) \in 0 .. Cardinality(kept) - 1
               /\ \A i, j \in kept : Precedes(secrets, i, j) => Standing(i) < Standing(j)
               /\ \A i, j \in kept : i = j \/ Precedes(secrets, i, j) \/ Precedes(secrets, j, i)
               /\ \A r \in 0 .. Cardinality(kept) - 1 : \E i \in kept : Standing(i) = r
<1> DEFINE kept == Wanted(secrets)
           n == Cardinality(kept)
           Standing(i) == Cardinality(Before(secrets, i))
<1>a. DOMAIN secrets = 1 .. Len(secrets) /\ Len(secrets) \in Nat OBVIOUS
<1>b. \A i \in kept : i \in Int /\ Len(secrets[i]) \in Nat BY <1>a DEF Wanted
<1>1. IsFiniteSet(kept) /\ n \in Nat
    <2>1. IsFiniteSet(1 .. Len(secrets)) BY <1>a, FS_Interval
    <2>2. kept \in SUBSET (1 .. Len(secrets)) BY <1>a DEF Wanted
    <2>3. IsFiniteSet(kept) BY <2>1, <2>2, FS_Subset
    <2> HIDE DEF kept
    <2> QED BY <2>3, FS_CardinalityType
<1>2. \A i \in kept : /\ Before(secrets, i) \in SUBSET (kept \ {i})
                      /\ IsFiniteSet(Before(secrets, i)) /\ Standing(i) \in Nat
    <2> TAKE i \in kept
    <2>1. Before(secrets, i) \in SUBSET (kept \ {i}) BY <1>b DEF Before, Precedes
    <2>2. Before(secrets, i) \in SUBSET kept BY <2>1
    <2> HIDE DEF kept
    <2>3. IsFiniteSet(Before(secrets, i)) BY <1>1, <2>2, FS_Subset
    <2> QED BY <2>1, <2>3, FS_CardinalityType
<1>3. \A i \in kept : Standing(i) \in 0 .. n - 1
    <2> TAKE i \in kept
    <2> HIDE DEF kept
    <2>1. IsFiniteSet(kept \ {i}) /\ Cardinality(kept \ {i}) = n - 1
        BY <1>1, FS_RemoveElement
    <2>2. Standing(i) <= n - 1 BY <1>2, <2>1, FS_Subset
    <2> QED BY <1>1, <1>2, <2>2
<1>4. \A i, j \in kept : Precedes(secrets, i, j) => Standing(i) < Standing(j)
    <2> SUFFICES ASSUME NEW i \in kept, NEW j \in kept, Precedes(secrets, i, j)
                 PROVE  Standing(i) < Standing(j)
        OBVIOUS
    <2>1. \A k \in kept : Precedes(secrets, k, i) => Precedes(secrets, k, j)
        BY <1>b DEF Precedes
    <2>2. Before(secrets, i) \in SUBSET Before(secrets, j) BY <2>1 DEF Before
    <2>3. i \in Before(secrets, j) /\ i \notin Before(secrets, i)
        BY <1>2 DEF Before
    <2>4. Before(secrets, i) # Before(secrets, j) BY <2>3
    <2>5. /\ Cardinality(Before(secrets, i)) <= Cardinality(Before(secrets, j))
          /\ Cardinality(Before(secrets, j)) # Cardinality(Before(secrets, i))
        BY <1>2, <2>2, <2>4, FS_Subset
    <2> QED BY <1>2, <2>5
<1>5. \A i, j \in kept : i = j \/ Precedes(secrets, i, j) \/ Precedes(secrets, j, i)
    BY <1>b DEF Precedes
<1>6. \A i, j \in kept : Standing(i) = Standing(j) => i = j
    <2> TAKE i, j \in kept
    <2>1. Standing(i) \in Nat /\ Standing(j) \in Nat BY <1>2
    <2>2. Precedes(secrets, i, j) => Standing(i) < Standing(j) BY <1>4
    <2>3. Precedes(secrets, j, i) => Standing(j) < Standing(i) BY <1>4
    <2> HIDE DEF Standing
    <2> QED BY <1>5, <2>1, <2>2, <2>3
<1> DEFINE f == [i \in kept |-> Standing(i)]
<1>7. \A r \in 0 .. n - 1 : \E i \in kept : Standing(i) = r
    <2>1. f \in Injection(kept, 0 .. n - 1)
        <3>1. f \in [kept -> 0 .. n - 1] BY <1>3
        <3>2. \A i, j \in kept : f[i] = f[j] => i = j BY <1>6
        <3>3. DOMAIN f = kept OBVIOUS
        <3> HIDE DEF f, kept, n
        <3> QED BY <3>1, <3>2, <3>3 DEF Injection, IsInjective
    <2>2. IsFiniteSet(0 .. n - 1) /\ Cardinality(0 .. n - 1) = n
        <3> HIDE DEF n
        <3>1. 0 \in Int /\ n - 1 \in Int /\ n \in Nat BY <1>1
        <3>2. /\ IsFiniteSet(0 .. n - 1)
              /\ Cardinality(0 .. n - 1) = IF 0 > n - 1 THEN 0 ELSE (n - 1) - 0 + 1
            BY <3>1, FS_Interval
        <3> QED BY <3>1, <3>2
    <2>3. f \in Surjection(kept, 0 .. n - 1)
        <3> HIDE DEF f, kept
        <3> QED BY <2>1, <2>2, FS_Injection
    <2>4. \A r \in 0 .. n - 1 : \E i \in kept : f[i] = r BY <2>3 DEF Surjection
    <2> QED BY <2>4
<1> QED BY <1>1, <1>3, <1>4, <1>5, <1>7

\* The secrets, without the empty one, in an order where none is shorter than a
\* later one.
Ordered(sorted, S, X) ==
    /\ sorted \in Seq(Seq(X) \ {<<>>})
    /\ Range(sorted) = S \ {<<>>}
    /\ \A j, k \in 1 .. Len(sorted) : j < k => Len(sorted[j]) >= Len(sorted[k])

LEMMA LongestComeFirst ==
    ASSUME NEW X, NEW secrets \in Seq(Seq(X))
    PROVE  Ordered(LongestFirst(secrets), Range(secrets), X)
<1> DEFINE kept == Wanted(secrets)
           n == Cardinality(kept)
           Standing(i) == Cardinality(Before(secrets, i))
           c == [k \in 1 .. n |-> CHOOSE i \in kept : Standing(i) = k - 1]
           sorted == [k \in 1 .. n |-> secrets[c[k]]]
<1>a. DOMAIN secrets = 1 .. Len(secrets) /\ Len(secrets) \in Nat OBVIOUS
<1>b. kept = {i \in 1 .. Len(secrets) : secrets[i] # <<>>} BY <1>a DEF Wanted
<1>1. /\ n \in Nat
      /\ \A i \in kept : Standing(i) \in 0 .. n - 1
      /\ \A i, j \in kept : Precedes(secrets, i, j) => Standing(i) < Standing(j)
      /\ \A i, j \in kept : i = j \/ Precedes(secrets, i, j) \/ Precedes(secrets, j, i)
      /\ \A r \in 0 .. n - 1 : \E i \in kept : Standing(i) = r
    BY RanksDiffer
<1>2. LongestFirst(secrets) = sorted
    <2>1. \A k \in 1 .. n : c[k] = CHOOSE i \in kept : Standing(i) = k - 1 OBVIOUS
    <2>2. LongestFirst(secrets)
            = [k \in 1 .. n |-> secrets[CHOOSE i \in kept : Standing(i) = k - 1]]
        BY DEF LongestFirst, Wanted, Before, Precedes
    <2> HIDE DEF c, n, kept, Standing
    <2> QED BY <2>1, <2>2
<1>3. \A k \in 1 .. n : c[k] \in kept /\ Standing(c[k]) = k - 1
    <2> TAKE k \in 1 .. n
    <2>1. k - 1 \in 0 .. n - 1 BY <1>1
    <2> HIDE DEF Standing, kept, n
    <2> QED BY <1>1, <2>1
<1> HIDE DEF c, kept, n, Standing
<1>4. \A k \in 1 .. n : sorted[k] \in Seq(X) \ {<<>>} /\ sorted[k] = secrets[c[k]]
    BY <1>3, <1>b
<1>5. DOMAIN sorted = 1 .. n OBVIOUS
<1>6. sorted = [k \in 1 .. n |-> sorted[k]] OBVIOUS
<1> HIDE DEF sorted
<1>7. sorted \in Seq(Seq(X) \ {<<>>}) /\ Len(sorted) = n
    <2>1. sorted \in [1 .. n -> Seq(X) \ {<<>>}] BY <1>4, <1>6
    <2> QED BY <1>1, <2>1
<1>8. ASSUME NEW j \in 1 .. n, NEW k \in 1 .. n, j < k
      PROVE  Len(sorted[j]) >= Len(sorted[k])
    <2>1. ~ Precedes(secrets, c[k], c[j]) /\ c[j] # c[k]
        <3>1. Standing(c[j]) = j - 1 /\ Standing(c[k]) = k - 1 /\ ~ (k - 1 < j - 1) /\ k - 1 # j - 1
            BY <1>3, <1>8, <1>1
        <3>2. c[j] \in kept /\ c[k] \in kept BY <1>3
        <3> QED BY <1>1, <3>1, <3>2
    <2>2. Precedes(secrets, c[j], c[k]) BY <1>1, <1>3, <2>1
    <2>3. Len(sorted[j]) \in Nat /\ Len(sorted[k]) \in Nat BY <1>4
    <2> QED BY <1>4, <2>2, <2>3 DEF Precedes
<1>9. Range(sorted) = Range(secrets) \ {<<>>}
    <2>1. ASSUME NEW k \in 1 .. n PROVE sorted[k] \in Range(secrets) \ {<<>>}
        <3>1. c[k] \in DOMAIN secrets BY <1>3, <1>a, <1>b
        <3> QED BY <1>4, <2>1, <3>1 DEF Range
    <2>2. ASSUME NEW i \in 1 .. Len(secrets), secrets[i] # <<>>
          PROVE  \E k \in 1 .. n : sorted[k] = secrets[i]
        <3>1. i \in kept BY <1>b, <2>2
        <3> DEFINE k == Standing(i) + 1
        <3>2. k \in 1 .. n /\ k - 1 = Standing(i) BY <1>1, <3>1
        <3>3. c[k] \in kept /\ Standing(c[k]) = Standing(i) BY <1>3, <3>2
        <3>4. c[k] = i
            <4>1. ~ (Standing(i) < Standing(i)) BY <1>1, <3>1
            <4>2. ~ Precedes(secrets, c[k], i) /\ ~ Precedes(secrets, i, c[k])
                BY <1>1, <3>1, <3>3, <4>1
            <4> QED BY <1>1, <3>1, <3>3, <4>2
        <3> QED BY <1>4, <3>2, <3>4
    <2>3. Range(sorted) \subseteq Range(secrets) \ {<<>>} BY <1>5, <2>1 DEF Range
    <2>4. Range(secrets) \ {<<>>} \subseteq Range(sorted) BY <1>5, <1>a, <2>2 DEF Range
    <2> QED BY <2>3, <2>4
<1>10. Ordered(sorted, Range(secrets), X) BY <1>7, <1>8, <1>9 DEF Ordered
<1> QED BY <1>2, <1>10

\* The secrets of the configuration and of a profile that is proposed, in order.
LEMMA BothComeFirst ==
    ASSUME NEW X, NEW held \in Seq(Seq(X)), NEW proposed \in Seq(Seq(X))
    PROVE  Ordered(from_config_and_profile(held, proposed), Range(held) \cup Range(proposed), X)
<1> DEFINE first == LongestFirst(held)
           both == first \o proposed
<1>1. Ordered(first, Range(held), X) BY LongestComeFirst
<1>2. first \in Seq(Seq(X)) /\ Range(first) = Range(held) \ {<<>>}
    <2>1. \A s \in Seq(Seq(X) \ {<<>>}) : s \in Seq(Seq(X)) OBVIOUS
    <2> QED BY <1>1, <2>1 DEF Ordered
<1> HIDE DEF first
<1>3. both \in Seq(Seq(X)) /\ Range(both) = Range(first) \cup Range(proposed)
    BY <1>2, ConcatProperties, RangeConcatenation
<1>4. Ordered(LongestFirst(both), Range(both), X)
    <2> HIDE DEF both
    <2> QED BY <1>3, LongestComeFirst
<1>5. from_config_and_profile(held, proposed) = LongestFirst(both)
    BY DEF from_config_and_profile, first
<1>6. Range(both) \ {<<>>} = (Range(held) \cup Range(proposed)) \ {<<>>} BY <1>2, <1>3
<1> HIDE DEF both
<1> QED BY <1>4, <1>5, <1>6 DEF Ordered

\* What redact makes of a text: no secret is left, and where secrets do not cross,
\* and no block swallows a header, everything else but private keys is.
LEMMA TextIsHidden ==
    ASSUME NEW d \in Disclosures
    PROVE  TextHidden(d, redact(from_config_and_profile(d.held, d.proposed), d.text))
<1> DEFINE text == d.text
           n == Len(text)
           S == (Range(d.held) \cup Range(d.proposed)) \ {<<>>}
           sorted == from_config_and_profile(d.held, d.proposed)
           middle == hide(sorted, text)
           output == redact(sorted, text)
           texts == Range(d.held) \cup Range(d.proposed) \cup {text}
           X == (UNION {Range(t) : t \in texts}) \cup {Mark}
           Plain == X \ {Mark}
<1>1. \A t \in texts : t \in Seq(Plain)
    <2> SUFFICES ASSUME NEW t \in texts PROVE t \in Seq(Plain)
        OBVIOUS
    <2>1. t \in Seq(Range(t) \ {Mark})
        <3>1. /\ IsPlain(d.text)
              /\ \A s \in Range(d.held) : IsPlain(s)
              /\ \A s \in Range(d.proposed) : IsPlain(s)
            BY RedactorAssumption
        <3> QED BY <3>1 DEF IsPlain
    <2>2. Range(t) \ {Mark} \subseteq Plain OBVIOUS
    <2> HIDE DEF Plain
    <2> QED BY <2>1, <2>2, SeqMonotonic
<1>a. d.held \in Seq(Range(d.held)) /\ d.proposed \in Seq(Range(d.proposed))
    BY RedactorAssumption
<1>b. Mark \in X /\ text \in Seq(Plain) BY <1>1
<1>2. d.held \in Seq(Seq(Plain)) /\ d.proposed \in Seq(Seq(Plain))
    <2>1. Range(d.held) \subseteq Seq(Plain) /\ Range(d.proposed) \subseteq Seq(Plain) BY <1>1
    <2> HIDE DEF Plain
    <2> QED BY <1>a, <2>1, SeqMonotonic
<1>3. /\ sorted \in Seq(Seq(Plain) \ {<<>>}) /\ Range(sorted) = S
      /\ \A j, k \in 1 .. Len(sorted) : j < k => Len(sorted[j]) >= Len(sorted[k])
    <2>1. Ordered(sorted, Range(d.held) \cup Range(d.proposed), Plain)
        <3> HIDE DEF Plain
        <3> QED BY <1>2, BothComeFirst
    <2> HIDE DEF sorted, Plain
    <2> QED BY <2>1 DEF Ordered
<1> HIDE DEF sorted, X
<1>4. NothingLeft(middle, text, S) /\ middle \in Seq(X) BY <1>3, <1>b, SecretsAreHidden
<1>c. output = redact_private_key_blocks(middle) BY DEF redact
<1>d. Mark \notin Tokens BY RedactorAssumption
<1> HIDE DEF output, middle, Plain
<1>e. output \in Seq(X) BY <1>4, <1>b, <1>c, <1>d, BlocksLeave
<1>f. PICK p :
          /\ Leaves(p, output, middle)
          /\ (\A g, h \in 1 .. Len(middle) : ~ Swallows(middle, g, h)) =>
                Left(p, output)
                   = {i \in 1 .. Len(middle) : middle[i] # Mark /\ ~ Private(middle, i)}
    BY <1>4, <1>b, <1>c, <1>d, BlocksLeave
<1>g. text \in Seq(X) /\ DOMAIN text = 1 .. n
    <2>1. Plain \subseteq X BY DEF Plain
    <2>2. text \in Seq(X) BY <1>b, <2>1, SeqMonotonic
    <2> QED BY <2>2
<1> DEFINE secrets == (ToSet(d.held) \cup ToSet(d.proposed)) \ {<<>>}
           found == {o \in (1 .. Len(d.text)) \X secrets : At(d.text, o[2], o[1])}
           Span(o) == o[1] .. o[1] + Len(o[2]) - 1
           nested == \A o, q \in found :
                         \/ Span(o) \subseteq Span(q) \/ Span(q) \subseteq Span(o)
                         \/ Span(o) \cap Span(q) = {}
           unmarked == \A secret \in secrets : ToSet(secret) \cap Tokens = {}
           apart == \A g, h \in DOMAIN text : ~ Swallows(text, g, h)
           covered == UNION {Span(o) : o \in found}
           Shown == {i \in DOMAIN text : i \notin covered /\ ~ Private(text, i)}
<1>5. secrets = S BY DEF ToSet, Range
<1>6. \A secret \in secrets, i \in DOMAIN output : ~ At(output, secret, i)
    <2> SUFFICES ASSUME NEW t \in S, NEW k \in 1 .. Len(output), At(output, t, k) PROVE FALSE
        <3>1. DOMAIN output = 1 .. Len(output) BY <1>e
        <3> HIDE DEF secrets, S
        <3> QED BY <1>5, <3>1
    <2>1. t \in Seq(Plain) \ {<<>>}
        <3>1. S \subseteq Seq(Plain) \ {<<>>} BY <1>1
        <3> HIDE DEF S
        <3> QED BY <3>1
    <2>2. Stood(p, output, middle, t, k)
        <3>1. t \in Seq(X \ {Mark}) /\ t # <<>> BY <2>1 DEF Plain
        <3> HIDE DEF S
        <3> QED BY <1>4, <1>b, <1>e, <1>f, <3>1, StoodBefore
    <2>3. p[k] \in 1 .. Len(middle) /\ At(middle, t, p[k])
        BY <1>f, <2>2 DEF Stood, Leaves
    <2> HIDE DEF S
    <2> QED BY <1>4, <2>3 DEF NothingLeft
<1>7. ASSUME NEW i \in 1 .. n, NEW t \in S, At(text, t, i)
      PROVE  <<i, t>> \in found /\ Span(<<i, t>>) = Places(i, t)
    <2> HIDE DEF secrets, S
    <2>1. <<i, t>> \in (1 .. n) \X secrets BY <1>5
    <2>2. <<i, t>>[1] = i /\ <<i, t>>[2] = t OBVIOUS
    <2> QED BY <1>7, <2>1, <2>2 DEF Places
<1>8. ASSUME NEW o \in found
      PROVE  o[1] \in 1 .. n /\ o[2] \in S /\ At(text, o[2], o[1]) /\ Span(o) = Places(o[1], o[2])
    <2> HIDE DEF secrets, S
    <2> QED BY <1>5 DEF Places
<1>9. nested => NoneCross(text, S)
    <2> SUFFICES ASSUME nested, NEW t \in S, NEW u \in S,
                        NEW i \in 1 .. n, NEW j \in 1 .. n, At(text, t, i), At(text, u, j)
                 PROVE  \/ Places(i, t) \subseteq Places(j, u)
                        \/ Places(j, u) \subseteq Places(i, t)
                        \/ Places(i, t) \cap Places(j, u) = {}
        BY DEF NoneCross
    <2>1. <<i, t>> \in found /\ Span(<<i, t>>) = Places(i, t) BY <1>7
    <2>2. <<j, u>> \in found /\ Span(<<j, u>>) = Places(j, u) BY <1>7
    <2> HIDE DEF found, Span
    <2> QED BY <2>1, <2>2
<1>10. covered \cap (1 .. n) = Under(text, S)
    <2>1. ASSUME NEW x \in 1 .. n, x \in covered PROVE x \in Under(text, S)
        <3>1. PICK o \in found : x \in Span(o) BY <2>1
        <3>2. o[1] \in 1 .. n /\ o[2] \in S /\ At(text, o[2], o[1]) /\ x \in Places(o[1], o[2])
            BY <1>8, <3>1
        <3> QED BY <3>2 DEF Under
    <2>2. ASSUME NEW x \in Under(text, S) PROVE x \in covered /\ x \in 1 .. n
        <3>1. PICK t \in S, i \in 1 .. n : At(text, t, i) /\ x \in Places(i, t)
            BY DEF Under
        <3>2. <<i, t>> \in found /\ x \in Span(<<i, t>>) BY <1>7, <3>1
        <3>3. x \in 1 .. n BY DEF Under
        <3> HIDE DEF found, Span
        <3> QED BY <3>2, <3>3
    <2> HIDE DEF covered
    <2> QED BY <2>1, <2>2
<1>11. ASSUME unmarked, NEW x \in 1 .. n, text[x] \in Tokens PROVE x \notin Under(text, S)
    <2> SUFFICES ASSUME NEW t \in S, NEW i \in 1 .. n, At(text, t, i), x \in Places(i, t)
                 PROVE  FALSE
        BY DEF Under
    <2>1. t \in Seq(Plain) /\ t # <<>>
        <3>1. S \subseteq Seq(Plain) \ {<<>>} BY <1>1
        <3> HIDE DEF S
        <3> QED BY <3>1
    <2>2. t \in Seq(X) /\ Len(t) \in Nat
        <3>1. Plain \subseteq X BY DEF Plain
        <3>2. t \in Seq(X) BY <2>1, <3>1, SeqMonotonic
        <3> QED BY <3>2
    <2>3. \A e \in 0 .. Len(t) - 1 : text[i + e] = t[e + 1] BY <1>g, <2>1, <2>2, AtPlaces
    <2> DEFINE j == x - i
    <2>4. j \in 0 .. Len(t) - 1 /\ i + j = x /\ j + 1 \in 1 .. Len(t) BY <2>2 DEF Places
    <2>5. text[x] = t[j + 1] BY <2>3, <2>4
    <2>6. t[j + 1] \in ToSet(t) BY <2>2, <2>4 DEF ToSet
    <2>7. ToSet(t) \cap Tokens = {}
        <3> HIDE DEF S, secrets
        <3> QED BY <1>5, <1>11
    <2> QED BY <1>11, <2>5, <2>6, <2>7
<1>12. nested /\ unmarked /\ apart => Unmarked(output) = Keep(text, Shown)
    <2> SUFFICES ASSUME nested, unmarked, apart PROVE Unmarked(output) = Keep(text, Shown)
        OBVIOUS
    <2>1. NoneCross(text, S) BY <1>9
    <2>u. \A x \in 1 .. n : text[x] \in Tokens => x \notin Under(text, S) BY <1>11
    <2> HIDE DEF S, nested, unmarked, covered
    <2>2. PICK pos : LeavesOthers(pos, middle, text, S) BY <1>4, <2>1 DEF NothingLeft
    <2>3. Leaves(pos, middle, text) /\ Left(pos, middle) = (1 .. n) \ Under(text, S)
        BY <2>2 DEF LeavesOthers
    <2>4. SameTokens(pos, middle, text)
        <3>1. \A x \in 1 .. n : text[x] \in Tokens => x \in Left(pos, middle) BY <2>3, <2>u
        <3> QED BY <1>4, <1>d, <1>g, <2>3, <3>1, TokensStay
    <2>5. Left(p, output)
              = {i \in 1 .. Len(middle) : middle[i] # Mark /\ ~ Private(middle, i)}
        <3>1. ASSUME NEW g \in 1 .. Len(middle), NEW h \in 1 .. Len(middle),
                     Swallows(middle, g, h)
              PROVE  FALSE
            <4>1. Swallows(text, pos[g], pos[h]) BY <1>4, <1>g, <2>4, <3>1, SameSwallows
            <4>2. pos[g] \in 1 .. n /\ pos[h] \in 1 .. n BY <2>3 DEF Leaves
            <4> QED BY <1>g, <4>1, <4>2
        <3> QED BY <1>f, <3>1
    <2> DEFINE q == [k \in 1 .. Len(output) |-> pos[p[k]]]
    <2>6. Leaves(q, output, text) BY <1>4, <1>e, <1>f, <1>g, <2>3, LeavesTwice
    <2>7. \A k \in 1 .. Len(output) : q[k] = pos[p[k]] /\ p[k] \in 1 .. Len(middle)
        BY <1>f DEF Leaves
    <2> HIDE DEF q
    <2>8. \A i \in 1 .. Len(middle) : Private(middle, i) <=> Private(text, pos[i])
        BY <1>4, <1>g, <2>4, SamePrivate
    <2>9. \A k \in 1 .. Len(output) :
              output[k] # Mark <=> middle[p[k]] # Mark /\ ~ Private(middle, p[k])
        <3> TAKE k \in 1 .. Len(output)
        <3>1. output[k] # Mark => p[k] \in Left(p, output) BY DEF Left
        <3>2. ASSUME p[k] \in Left(p, output) PROVE output[k] # Mark
            <4>1. PICK l \in 1 .. Len(output) : output[l] # Mark /\ p[l] = p[k]
                BY <3>2 DEF Left
            <4>2. ~ (l < k) /\ ~ (k < l)
                <5>1. p[k] \in Int BY <2>7
                <5> QED BY <1>f, <4>1, <5>1 DEF Leaves
            <4>3. l = k BY <4>2
            <4> QED BY <4>1, <4>3
        <3> QED BY <2>5, <2>7, <3>1, <3>2
    <2>10. ASSUME NEW x \in Left(q, output) PROVE x \in Shown
        <3>1. PICK k \in 1 .. Len(output) : output[k] # Mark /\ x = q[k] BY DEF Left
        <3> DEFINE i == p[k]
        <3>2. i \in 1 .. Len(middle) /\ middle[i] # Mark /\ ~ Private(middle, i) /\ x = pos[i]
            BY <2>7, <2>9, <3>1
        <3> HIDE DEF i
        <3>3. x \in Left(pos, middle) BY <3>2 DEF Left
        <3>4. x \in 1 .. n /\ x \notin covered BY <1>10, <2>3, <3>3
        <3>5. ~ Private(text, x) BY <2>8, <3>2
        <3> QED BY <1>g, <3>4, <3>5
    <2>11. ASSUME NEW x \in Shown PROVE x \in Left(q, output)
        <3>1. x \in 1 .. n /\ x \in Left(pos, middle) BY <1>10, <1>g, <2>3
        <3>2. PICK i \in 1 .. Len(middle) : middle[i] # Mark /\ x = pos[i] BY <3>1 DEF Left
        <3>3. ~ Private(middle, i) BY <2>8, <3>2
        <3>4. i \in Left(p, output) BY <2>5, <3>2, <3>3
        <3>5. PICK k \in 1 .. Len(output) : output[k] # Mark /\ i = p[k] BY <3>4 DEF Left
        <3>6. q[k] = x BY <2>7, <3>2, <3>5
        <3> QED BY <3>5, <3>6 DEF Left
    <2>12. Left(q, output) = Shown
        <3> HIDE DEF Shown
        <3> QED BY <2>10, <2>11
    <2> HIDE DEF Shown
    <2>13. Unmarked(output) = Keep(text, Left(q, output))
        BY <1>e, <1>g, <2>6, UnmarkedIsKept
    <2> QED BY <2>12, <2>13
<1> HIDE DEF secrets, found
<1>13. TextHidden(d, output) BY <1>6, <1>12 DEF TextHidden, secrets, found
<1> QED BY <1>13 DEF output, sorted

\* What was redacted last is the text of a call, with what redact made of it.
LEMMA RedactedAnswers ==
    Spec => [](\/ redacted = None
               \/ \E d \in Disclosures :
                     redacted = [input |-> d,
                                 output |-> redact(from_config_and_profile(d.held, d.proposed),
                                                   d.text)])
<1> DEFINE A ==
        \/ redacted = None
        \/ \E d \in Disclosures :
              redacted = [input |-> d,
                          output |-> redact(from_config_and_profile(d.held, d.proposed), d.text)]
<1>1. Init => A BY DEF Init, RedactorInit
<1>2. A /\ [Next]_vars => A'
    <2> SUFFICES ASSUME A, [Next]_vars PROVE A'
        OBVIOUS
    <2>1. CASE UNCHANGED redacted BY <2>1
    <2>2. CASE Redact BY <2>2 DEF Redact
    <2> QED BY <2>1, <2>2 DEF Next, vars
<1> QED BY <1>1, <1>2, PTL DEF Spec

\* However many secrets there are, and whatever lies in what: no secret is left of what
\* the redactor returns, and, where secrets do not cross and no key begins on the line
\* that ends another, no private key is, and everything else is: SecretsHidden.
THEOREM NoSecretLeaves == Spec => []SecretsHidden
<1>1. ASSUME NEW d \in Disclosures
      PROVE  TextHidden(d, redact(from_config_and_profile(d.held, d.proposed), d.text))
    BY TextIsHidden
<1>2. (\/ redacted = None
       \/ \E d \in Disclosures :
             redacted = [input |-> d,
                         output |-> redact(from_config_and_profile(d.held, d.proposed), d.text)])
      => SecretsHidden
    BY <1>1 DEF SecretsHidden
<1> QED BY <1>2, RedactedAnswers, PTL

-----------------------------------------------------------------------------
(* The pages of a file                                                       *)

\* The characters of a decoded text.
Chars == {"a", "char", "?"}

\* A character can be put before a text or before its first part.
LEMMA PrefixAssociates ==
    ASSUME NEW ch \in Chars, NEW s \in Seq(Chars), NEW t \in Seq(Chars)
    PROVE  <<ch>> \o (s \o t) = (<<ch>> \o s) \o t
<1> DEFINE x == <<ch>>
<1>1. x \in Seq(Chars) OBVIOUS
<1> HIDE DEF x
<1>2. x \o (s \o t) = (x \o s) \o t BY <1>1
<1> QED BY <1>2 DEF x

\* A complete character of two bytes begins at i.
Pair(b, i) == b[i] = "lead" /\ i < Len(b) /\ b[i + 1] = "tail"

\* What lossy makes of the bytes from i on, when f holds what it makes of those from
\* later places on.
Decoded(b, f, i) ==
    IF i > Len(b) THEN <<>>
    ELSE IF b[i] = "a" THEN <<"a">> \o f[i + 1]
    ELSE IF Pair(b, i) THEN <<"char">> \o f[i + 2]
    ELSE <<"?">> \o f[i + 1]

\* f is the function that lossy defines by recursion for the bytes b.
Decodes(f, b) == f = [i \in 1 .. Len(b) + 2 |-> Decoded(b, f, i)]

\* The same for the places from k on.
DecodesFrom(f, b, k) == f = [i \in k .. Len(b) + 2 |-> Decoded(b, f, i)]

\* There is such a function: the least number of places for which there were none
\* is not 0, and one more place can always be added.
LEMMA DecodingExists ==
    ASSUME NEW b \in Seq(Bytes)
    PROVE  \E f : Decodes(f, b)
<1> DEFINE L == Len(b)
           Bad == {m \in 0 .. L + 1 : ~ \E f : DecodesFrom(f, b, L + 2 - m)}
<1>a. L \in Nat OBVIOUS
<1>1. Bad = {}
    <2> SUFFICES ASSUME Bad # {} PROVE FALSE
        OBVIOUS
    <2>1. PICK m \in Bad : \A n \in Bad : m <= n
        <3>1. Bad \in SUBSET Nat OBVIOUS
        <3> HIDE DEF Bad
        <3> QED BY <3>1, LeastOf
    <2>2. m \in 0 .. L + 1 /\ ~ \E f : DecodesFrom(f, b, L + 2 - m) OBVIOUS
    <2> DEFINE k == L + 2 - m
    <2>3. k \in 1 .. L + 2 BY <1>a, <2>2
    <2>4. m # 0
        <3> SUFFICES ASSUME m = 0 PROVE FALSE OBVIOUS
        <3>1. DecodesFrom([i \in L + 2 .. L + 2 |-> <<>>], b, L + 2)
            BY <1>a DEF DecodesFrom, Decoded
        <3>2. L + 2 - m = L + 2 BY <1>a
        <3> QED BY <2>2, <3>1, <3>2
    <2>5. m - 1 \notin Bad /\ m - 1 \in 0 .. L + 1 /\ L + 2 - (m - 1) = k + 1
        BY <1>a, <2>1, <2>2, <2>4
    <2>6. PICK f : DecodesFrom(f, b, k + 1) BY <2>5
    <2> DEFINE g == [i \in k .. L + 2 |-> IF i = k THEN Decoded(b, f, i) ELSE f[i]]
    <2>7. ASSUME NEW i \in k .. L + 2 PROVE g[i] = Decoded(b, g, i)
        <3>1. i > L \/ (i + 1 \in k + 1 .. L + 2 /\ (Pair(b, i) => i + 2 \in k + 1 .. L + 2))
            BY <1>a, <2>3 DEF Pair
        <3>2. Decoded(b, g, i) = Decoded(b, f, i)
            BY <1>a, <2>3, <3>1 DEF Decoded
        <3>3. g[i] = Decoded(b, f, i)
            <4>1. CASE i = k BY <4>1
            <4>2. CASE i # k
                <5>1. i \in k + 1 .. L + 2 BY <1>a, <2>3, <4>2
                <5> QED BY <2>6, <4>2, <5>1 DEF DecodesFrom
            <4> QED BY <4>1, <4>2
        <3> QED BY <3>2, <3>3
    <2>8. DecodesFrom(g, b, k)
        <3>1. g = [i \in k .. L + 2 |-> g[i]] OBVIOUS
        <3> HIDE DEF g
        <3> QED BY <2>7, <3>1 DEF DecodesFrom
    <2> QED BY <2>2, <2>8
<1>2. L + 1 \notin Bad /\ L + 1 \in 0 .. L + 1 /\ L + 2 - (L + 1) = 1
    <2> HIDE DEF Bad
    <2> QED BY <1>a, <1>1
<1> QED BY <1>2 DEF DecodesFrom, Decodes

\* So lossy returns the value of such a function at the first place.
LEMMA LossyDecodes ==
    ASSUME NEW b \in Seq(Bytes)
    PROVE  \E f : Decodes(f, b) /\ lossy(b) = f[1]
<1> DEFINE f == CHOOSE g : Decodes(g, b)
<1>1. Decodes(f, b) BY DecodingExists
<1>2. lossy(b) = f[1] BY DEF lossy, Decodes, Decoded, Pair
<1> QED BY <1>1, <1>2

\* It holds texts, by the last place where it does not.
LEMMA DecodedTyped ==
    ASSUME NEW b \in Seq(Bytes), NEW f, Decodes(f, b)
    PROVE  \A i \in 1 .. Len(b) + 2 : f[i] \in Seq(Chars)
<1> DEFINE L == Len(b)
           Bad == {m \in 0 .. L + 1 : f[L + 2 - m] \notin Seq(Chars)}
<1>a. L \in Nat OBVIOUS
<1>1. Bad = {}
    <2> SUFFICES ASSUME Bad # {} PROVE FALSE
        OBVIOUS
    <2>1. PICK m \in Bad : \A n \in Bad : m <= n
        <3>1. Bad \in SUBSET Nat OBVIOUS
        <3> HIDE DEF Bad
        <3> QED BY <3>1, LeastOf
    <2>2. m \in 0 .. L + 1 /\ f[L + 2 - m] \notin Seq(Chars) OBVIOUS
    <2> DEFINE i == L + 2 - m
    <2>3. i \in 1 .. L + 2 BY <1>a, <2>2
    <2>4. f[i] = Decoded(b, f, i) BY <2>3 DEF Decodes
    <2>5. i <= L /\ i + 1 \in 1 .. L + 2 /\ i + 2 \in 1 .. L + 2
        <3>1. CASE i > L BY <2>2, <2>4, <3>1 DEF Decoded
        <3> QED BY <1>a, <2>3, <3>1
    <2>6. ASSUME NEW n \in 1 .. 2 PROVE f[i + n] \in Seq(Chars)
        <3>1. m - n \in 0 .. L + 1 /\ L + 2 - (m - n) = i + n /\ ~(m <= m - n)
            BY <1>a, <2>2, <2>5
        <3>2. m - n \notin Bad
            <4> HIDE DEF Bad
            <4> QED BY <2>1, <3>1
        <3> QED BY <3>1, <3>2
    <2>7. \A c \in Chars, s \in Seq(Chars) : <<c>> \o s \in Seq(Chars) OBVIOUS
    <2>8. f[i + 1] \in Seq(Chars) /\ f[i + 2] \in Seq(Chars) BY <2>6
    <2>9. "a" \in Chars /\ "char" \in Chars /\ "?" \in Chars BY DEF Chars
    <2>10. <<>> \in Seq(Chars) OBVIOUS
    <2> HIDE DEF i
    <2>11. Decoded(b, f, i) \in Seq(Chars) BY <2>7, <2>8, <2>9, <2>10 DEF Decoded
    <2> QED BY <2>2, <2>4, <2>11 DEF i
<1>2. ASSUME NEW i \in 1 .. L + 2 PROVE f[i] \in Seq(Chars)
    <2>1. L + 2 - i \in 0 .. L + 1 /\ L + 2 - (L + 2 - i) = i BY <1>a
    <2>2. L + 2 - i \notin Bad
        <3> HIDE DEF Bad
        <3> QED BY <1>1
    <2> QED BY <2>1, <2>2
<1> QED BY <1>2

\* c is what b says from k + 1 on.
Rest(c, b, k) ==
    /\ k \in 0 .. Len(b) /\ Len(c) = Len(b) - k
    /\ \A i \in 1 .. Len(c) : c[i] = b[k + i]

\* What is decoded from a place on depends on the bytes from there on only.
LEMMA RestDecodes ==
    ASSUME NEW b \in Seq(Bytes), NEW f, Decodes(f, b),
           NEW c \in Seq(Bytes), NEW g, Decodes(g, c),
           NEW k, Rest(c, b, k)
    PROVE  \A i \in 1 .. Len(c) + 2 : g[i] = f[k + i]
<1> DEFINE L == Len(c)
           Bad == {m \in 0 .. L + 1 : g[L + 2 - m] # f[k + (L + 2 - m)]}
<1>a. L \in Nat /\ Len(b) = k + L /\ k \in Nat BY DEF Rest
<1>1. Bad = {}
    <2> SUFFICES ASSUME Bad # {} PROVE FALSE
        OBVIOUS
    <2>1. PICK m \in Bad : \A n \in Bad : m <= n
        <3>1. Bad \in SUBSET Nat OBVIOUS
        <3> HIDE DEF Bad
        <3> QED BY <3>1, LeastOf
    <2>2. m \in 0 .. L + 1 /\ g[L + 2 - m] # f[k + (L + 2 - m)] OBVIOUS
    <2> DEFINE i == L + 2 - m
    <2>3. i \in 1 .. L + 2 /\ k + i \in 1 .. Len(b) + 2 BY <1>a, <2>2
    <2>4. g[i] = Decoded(c, g, i) /\ f[k + i] = Decoded(b, f, k + i) BY <2>3 DEF Decodes
    <2>5. i <= L /\ k + i <= Len(b) /\ i \in 1 .. L
        <3>1. CASE i > L
            <4>1. k + i > Len(b) BY <1>a, <2>3, <3>1
            <4> QED BY <2>2, <2>4, <3>1, <4>1 DEF Decoded
        <3> QED BY <1>a, <2>3, <3>1
    <2>6. ASSUME NEW n \in 1 .. 2 PROVE g[i + n] = f[(k + i) + n]
        <3>1. /\ m - n \in 0 .. L + 1 /\ L + 2 - (m - n) = i + n /\ ~(m <= m - n)
              /\ k + (i + n) = (k + i) + n
            BY <1>a, <2>2, <2>5
        <3>2. m - n \notin Bad
            <4> HIDE DEF Bad
            <4> QED BY <2>1, <3>1
        <3> QED BY <3>1, <3>2
    <2>7. c[i] = b[k + i] BY <2>5 DEF Rest
    <2>8. Pair(c, i) <=> Pair(b, k + i)
        <3>1. i < L <=> k + i < Len(b) BY <1>a, <2>5
        <3>2. i < L => c[i + 1] = b[(k + i) + 1]
            <4> SUFFICES ASSUME i < L PROVE c[i + 1] = b[(k + i) + 1] OBVIOUS
            <4>1. i + 1 \in 1 .. L /\ k + (i + 1) = (k + i) + 1
                <5> HIDE DEF i, L, Bad
                <5> QED BY <1>a, <2>5
            <4>2. c[i + 1] = b[k + (i + 1)] BY <4>1 DEF Rest
            <4> QED BY <4>1, <4>2
        <3> QED BY <2>7, <3>1, <3>2 DEF Pair
    <2>9. g[i + 1] = f[(k + i) + 1] /\ g[i + 2] = f[(k + i) + 2] BY <2>6
    <2>10. ~(i > Len(c)) /\ ~(k + i > Len(b)) BY <1>a, <2>3, <2>5
    <2> HIDE DEF i
    <2>11. Decoded(c, g, i) = Decoded(b, f, k + i)
        BY <2>7, <2>8, <2>9, <2>10 DEF Decoded
    <2> QED BY <2>2, <2>4, <2>11 DEF i
<1>2. ASSUME NEW i \in 1 .. L + 2 PROVE g[i] = f[k + i]
    <2>1. L + 2 - i \in 0 .. L + 1 /\ L + 2 - (L + 2 - i) = i BY <1>a
    <2>2. L + 2 - i \notin Bad
        <3> HIDE DEF Bad
        <3> QED BY <1>1
    <2> QED BY <2>1, <2>2
<1> QED BY <1>2

\* b begins with c, and no character is cut at the end of c.
Splits(c, b) ==
    /\ Len(c) <= Len(b)
    /\ \A i \in 1 .. Len(c) : c[i] = b[i]
    /\ Len(c) < Len(b) => b[Len(c) + 1] # "tail"

\* The text s is x and then y.
Joined(s, x, y) == s = x \o y

\* One and two places on is still within the text's end, where there is more.
LEMMA Within ==
    ASSUME NEW l \in Nat, NEW i \in 1 .. l
    PROVE  /\ i + 1 <= l + 1 /\ i + 1 \in 1 .. l + 2 /\ 1 \in 1 .. 2
           /\ i < l => i + 2 <= l + 1 /\ i + 2 \in 1 .. l + 2 /\ 2 \in 1 .. 2
OBVIOUS

\* A start that cuts no character is decoded as part of the whole.
LEMMA StartDecodes ==
    ASSUME NEW b \in Seq(Bytes), NEW f, Decodes(f, b),
           NEW c \in Seq(Bytes), NEW g, Decodes(g, c), Splits(c, b)
    PROVE  \A i \in 1 .. Len(c) + 1 : Joined(f[i], g[i], f[Len(c) + 1])
<1> DEFINE L == Len(c)
           rest == f[L + 1]
           Bad == {m \in 0 .. L : f[L + 1 - m] # g[L + 1 - m] \o rest}
<1>a. L \in Nat /\ Len(b) \in Nat /\ L <= Len(b) BY DEF Splits
<1>b. rest \in Seq(Chars)
    BY <1>a, DecodedTyped
<1>c. \A i \in 1 .. L + 2 : g[i] \in Seq(Chars) BY DecodedTyped
<1> HIDE DEF rest
<1>1. Bad = {}
    <2> SUFFICES ASSUME Bad # {} PROVE FALSE
        OBVIOUS
    <2>1. PICK m \in Bad : \A n \in Bad : m <= n
        <3>1. Bad \in SUBSET Nat OBVIOUS
        <3> HIDE DEF Bad
        <3> QED BY <3>1, LeastOf
    <2>2. m \in 0 .. L /\ f[L + 1 - m] # g[L + 1 - m] \o rest OBVIOUS
    <2> DEFINE i == L + 1 - m
    <2>3. i \in 1 .. L + 1 /\ i \in 1 .. L + 2 /\ i \in 1 .. Len(b) + 2
        <3> HIDE DEF Bad, L
        <3> QED BY <1>a, <2>2
    <2>4. g[i] = Decoded(c, g, i) /\ f[i] = Decoded(b, f, i) BY <2>3 DEF Decodes
    <2>5. i \in 1 .. L
        <3>1. CASE i = L + 1
            <4>1. g[i] = <<>> BY <1>a, <2>3, <2>4, <3>1 DEF Decoded
            <4>2. f[i] = rest BY <3>1 DEF rest
            <4>3. <<>> \o rest = rest BY <1>b
            <4> QED BY <2>2, <4>1, <4>2, <4>3
        <3> QED BY <1>a, <2>3, <3>1
    <2>6. ASSUME NEW n \in 1 .. 2, i + n <= L + 1 PROVE f[i + n] = g[i + n] \o rest
        <3>1. m - n \in 0 .. L /\ L + 1 - (m - n) = i + n /\ ~(m <= m - n)
            BY <1>a, <2>2, <2>5, <2>6
        <3>2. m - n \notin Bad
            <4> HIDE DEF Bad
            <4> QED BY <2>1, <3>1
        <3> QED BY <3>1, <3>2
    <2>7. c[i] = b[i] BY <2>5 DEF Splits
    <2>8. Pair(c, i) <=> Pair(b, i)
        <3>1. CASE i < L
            <4>1. i + 1 \in 1 .. L /\ i < Len(b) BY <1>a, <2>5, <3>1
            <4>2. c[i + 1] = b[i + 1] BY <4>1 DEF Splits
            <4> QED BY <2>7, <3>1, <4>1, <4>2 DEF Pair
        <3>2. CASE i = L
            <4>1. i < Len(b) => b[i + 1] # "tail" BY <3>2 DEF Splits
            <4> QED BY <3>2, <4>1, <1>a DEF Pair
        <3> QED BY <1>a, <2>5, <3>1, <3>2
    <2>9. f[i + 1] = g[i + 1] \o rest /\ g[i + 1] \in Seq(Chars)
        <3> HIDE DEF i, Bad, L
        <3>1. i + 1 <= L + 1 /\ i + 1 \in 1 .. L + 2 /\ 1 \in 1 .. 2 BY <1>a, <2>5, Within
        <3>2. g[i + 1] \in Seq(Chars) BY <1>c, <3>1
        <3> QED BY <2>6, <3>1, <3>2
    <2>10. Pair(c, i) => f[i + 2] = g[i + 2] \o rest /\ g[i + 2] \in Seq(Chars)
        <3> SUFFICES ASSUME Pair(c, i) PROVE f[i + 2] = g[i + 2] \o rest /\ g[i + 2] \in Seq(Chars)
            OBVIOUS
        <3> HIDE DEF i, Bad, L
        <3>0. i < L BY DEF Pair, L
        <3>1. i + 2 <= L + 1 /\ i + 2 \in 1 .. L + 2 /\ 2 \in 1 .. 2
            BY <1>a, <2>5, <3>0, Within
        <3>2. g[i + 2] \in Seq(Chars) BY <1>c, <3>1
        <3> QED BY <2>6, <3>1, <3>2
    <2>11. ASSUME NEW ch \in Chars, NEW s \in Seq(Chars)
           PROVE  <<ch>> \o (s \o rest) = (<<ch>> \o s) \o rest
        BY <1>b, PrefixAssociates
    <2>12. ~(i > Len(c)) /\ ~(i > Len(b))
        <3>1. i \in 1 .. Len(c) BY <2>5
        <3> HIDE DEF i, Bad, L
        <3> QED BY <1>a, <3>1 DEF L
    <2>13. "a" \in Chars /\ "char" \in Chars /\ "?" \in Chars BY DEF Chars
    <2> HIDE DEF i
    <2>14. Decoded(b, f, i) = Decoded(c, g, i) \o rest
        <3>1. CASE c[i] = "a"
            <4>1. Decoded(c, g, i) = <<"a">> \o g[i + 1] BY <2>12, <3>1 DEF Decoded
            <4>2. Decoded(b, f, i) = <<"a">> \o f[i + 1] BY <2>7, <2>12, <3>1 DEF Decoded
            <4> QED BY <2>9, <2>11, <2>13, <4>1, <4>2
        <3>2. CASE c[i] # "a" /\ Pair(c, i)
            <4>1. Decoded(c, g, i) = <<"char">> \o g[i + 2] BY <2>12, <3>2 DEF Decoded
            <4>2. Decoded(b, f, i) = <<"char">> \o f[i + 2]
                BY <2>7, <2>8, <2>12, <3>2 DEF Decoded
            <4> QED BY <2>10, <2>11, <2>13, <3>2, <4>1, <4>2
        <3>3. CASE c[i] # "a" /\ ~Pair(c, i)
            <4>1. Decoded(c, g, i) = <<"?">> \o g[i + 1] BY <2>12, <3>3 DEF Decoded
            <4>2. Decoded(b, f, i) = <<"?">> \o f[i + 1]
                BY <2>7, <2>8, <2>12, <3>3 DEF Decoded
            <4> QED BY <2>9, <2>11, <2>13, <4>1, <4>2
        <3> QED BY <3>1, <3>2, <3>3
    <2> QED BY <2>2, <2>4, <2>14 DEF i
<1>2. ASSUME NEW i \in 1 .. L + 1 PROVE f[i] = g[i] \o rest
    <2>1. L + 1 - i \in 0 .. L /\ L + 1 - (L + 1 - i) = i BY <1>a
    <2>2. L + 1 - i \notin Bad
        <3> HIDE DEF Bad
        <3> QED BY <1>1
    <2> QED BY <2>1, <2>2
<1> QED BY <1>2 DEF rest, Joined

\* Two pieces that cut no character between them are decoded as the piece they make.
LEMMA LossyJoins ==
    ASSUME NEW b \in Seq(Bytes), NEW m \in 0 .. Len(b), NEW n \in m .. Len(b),
           m < n => b[m + 1] # "tail"
    PROVE  lossy(SubSeq(b, 1, m)) \o lossy(SubSeq(b, m + 1, n)) = lossy(SubSeq(b, 1, n))
<1> DEFINE first == SubSeq(b, 1, m)
           second == SubSeq(b, m + 1, n)
           whole == SubSeq(b, 1, n)
<1>a. m \in Nat /\ n \in Nat /\ m <= n /\ n <= Len(b) /\ Len(b) \in Nat OBVIOUS
<1>1. /\ first \in Seq(Bytes) /\ Len(first) = m /\ \A i \in 1 .. m : first[i] = b[i]
      /\ second \in Seq(Bytes) /\ Len(second) = n - m
      /\ \A i \in 1 .. n - m : second[i] = b[m + i]
      /\ whole \in Seq(Bytes) /\ Len(whole) = n /\ \A i \in 1 .. n : whole[i] = b[i]
    BY <1>a
<1> HIDE DEF first, second, whole
<1>2. PICK f : Decodes(f, whole) /\ lossy(whole) = f[1] BY <1>1, LossyDecodes
<1>3. PICK g : Decodes(g, first) /\ lossy(first) = g[1] BY <1>1, LossyDecodes
<1>4. PICK h : Decodes(h, second) /\ lossy(second) = h[1] BY <1>1, LossyDecodes
<1>5. Rest(second, whole, m)
    <2>1. ASSUME NEW i \in 1 .. n - m PROVE second[i] = whole[m + i]
        <3>1. m + i \in 1 .. n BY <1>a
        <3> QED BY <1>1, <3>1
    <2> QED BY <1>1, <1>a, <2>1 DEF Rest
<1>6. h[1] = f[m + 1]
    <2>1. 1 \in 1 .. Len(second) + 2 BY <1>1, <1>a
    <2> QED BY <1>1, <1>2, <1>4, <1>5, <2>1, RestDecodes
<1>7. Splits(first, whole)
    <2>1. m < n => m + 1 \in 1 .. n BY <1>a
    <2>2. m <= n /\ \A i \in 1 .. m : first[i] = whole[i] BY <1>1, <1>a
    <2> QED BY <1>1, <1>a, <2>1, <2>2 DEF Splits
<1>8. f[1] = g[1] \o f[m + 1]
    <2>1. 1 \in 1 .. Len(first) + 1 BY <1>1, <1>a
    <2>2. Joined(f[1], g[1], f[Len(first) + 1])
        BY <1>1, <1>2, <1>3, <1>7, <2>1, StartDecodes
    <2> QED BY <1>1, <2>2 DEF Joined
<1>9. lossy(first) \o lossy(second) = lossy(whole) BY <1>2, <1>3, <1>4, <1>6, <1>8
<1> QED BY <1>9 DEF first, second, whole

\* Nothing is decoded to nothing.
LEMMA LossyEmpty == lossy(<<>>) = <<>>
<1>1. <<>> \in Seq(Bytes) /\ Len(<<>>) = 0 OBVIOUS
<1>2. PICK f : Decodes(f, <<>>) /\ lossy(<<>>) = f[1] BY <1>1, LossyDecodes
<1>3. f[1] = Decoded(<<>>, f, 1) BY <1>1, <1>2 DEF Decodes
<1> QED BY <1>2, <1>3 DEF Decoded

\* None of the places S lies within a character.
Uncut(b, S) == \A cut \in S : cut < Len(b) => b[cut + 1] # "tail"

\* What a reader has read of the file b, when it stayed as it was.
Agrees(r, b, c) ==
    /\ r.offset <= Len(b)
    /\ Uncut(b, c) => r.text = lossy(SubSeq(b, 1, r.offset))
    /\ r.eof => r.offset = Len(b)

\* Where the reader stands, as long as the file stayed as it was.
PageInv ==
    /\ remote \in Seq(Bytes)
    /\ reader.offset \in Nat
    /\ cuts = {} => reader.offset = 0 /\ reader.text = <<>> /\ ~reader.eof
    /\ stable => Agrees(reader, remote, cuts)

\* Nothing was read yet.
LEMMA UnreadAgrees ==
    ASSUME NEW r, NEW b \in Seq(Bytes), NEW c, r.offset = 0, r.text = <<>>, ~r.eof
    PROVE  Agrees(r, b, c)
<1>1. SubSeq(b, 1, 0) = <<>> /\ Len(b) \in Nat OBVIOUS
<1>2. r.text = lossy(SubSeq(b, 1, r.offset)) BY <1>1, LossyEmpty
<1> QED BY <1>1, <1>2 DEF Agrees

\* The invariant holds before the first page,
LEMMA PageStart == ReadInit => PageInv
<1> SUFFICES ASSUME ReadInit PROVE PageInv OBVIOUS
<1>1. remote \in Seq(Bytes) BY DEF ReadInit
<1>2. reader.offset = 0 /\ reader.text = <<>> /\ ~reader.eof BY DEF ReadInit
<1>3. Agrees(reader, remote, cuts) BY <1>1, <1>2, UnreadAgrees
<1> QED BY <1>1, <1>2, <1>3 DEF PageInv

\* is kept by a page, which begins where the one before ended,
LEMMA PageRead ==
    ASSUME PageInv, NEW limit \in Limits, ReadPage(limit)
    PROVE  PageInv'
<1> DEFINE start == Least(reader.offset, Len(remote))
           end == Least(start + Least(limit, MAX_READ_BYTES), Len(remote))
<1>a. /\ remote \in Seq(Bytes) /\ Len(remote) \in Nat /\ reader.offset \in Nat
      /\ remote' = remote /\ stable' = stable
    BY DEF PageInv, ReadPage
<1>1. start \in 0 .. Len(remote) /\ end \in start .. Len(remote) /\ end \in Nat
    <2>1. Least(limit, MAX_READ_BYTES) \in Nat BY PageAssumption DEF Least
    <2> QED BY <1>a, <2>1 DEF Least
<1>2. /\ reader'.offset = end
      /\ reader'.eof => end = Len(remote)
      /\ reader'.text = reader.text \o lossy(SubSeq(remote, start + 1, end))
      /\ cuts' = cuts \cup {start}
    BY DEF ReadPage, paginate_read
<1> HIDE DEF end
<1>3. ASSUME stable, Uncut(remote, cuts')
      PROVE  reader'.text = lossy(SubSeq(remote, 1, end))
    <2>1. start = reader.offset BY <1>3, <1>a DEF PageInv, Agrees, Least
    <2> HIDE DEF start
    <2>2. Uncut(remote, cuts) BY <1>2, <1>3 DEF Uncut
    <2>3. reader.text = lossy(SubSeq(remote, 1, start))
        BY <1>3, <2>1, <2>2 DEF PageInv, Agrees
    <2>4. start < end => remote[start + 1] # "tail"
        <3>1. start \in cuts' BY <1>2
        <3>2. start < end => start < Len(remote) BY <1>1, <1>a
        <3> QED BY <1>3, <3>1, <3>2 DEF Uncut
    <2>5. lossy(SubSeq(remote, 1, start)) \o lossy(SubSeq(remote, start + 1, end))
             = lossy(SubSeq(remote, 1, end))
        BY <1>1, <1>a, <2>4, LossyJoins
    <2> QED BY <1>2, <2>3, <2>5
<1> HIDE DEF start
<1>4. ASSUME stable PROVE Agrees(reader', remote, cuts')
    <2>1. Uncut(remote, cuts') => reader'.text = lossy(SubSeq(remote, 1, reader'.offset))
        BY <1>2, <1>3, <1>4
    <2>2. reader'.offset <= Len(remote) BY <1>1, <1>2
    <2>3. reader'.eof => reader'.offset = Len(remote) BY <1>2
    <2> QED BY <2>1, <2>2, <2>3 DEF Agrees
<1> QED BY <1>1, <1>2, <1>4, <1>a DEF PageInv

\* and by a write.
LEMMA PageWritten ==
    ASSUME PageInv, WriteRemote
    PROVE  PageInv'
<1>1. /\ remote' \in Seq(Bytes) /\ reader' = reader /\ cuts' = cuts /\ stable' = (cuts = {})
    BY PageAssumption DEF WriteRemote
<1>2. stable' => Agrees(reader', remote', cuts') BY <1>1, UnreadAgrees DEF PageInv
<1> QED BY <1>1, <1>2 DEF PageInv

\* The pages of a file that stayed as it was are the file, and their text its text
\* unless one began within a character, of paginate_read: PagesReassemble.
THEOREM PagesAreTheFile == Spec => []PagesReassemble
<1>1. Init => PageInv BY PageStart DEF Init
<1>2. PageInv /\ [Next]_vars => PageInv'
    <2> SUFFICES ASSUME PageInv, [Next]_vars PROVE PageInv'
        OBVIOUS
    <2>1. CASE UNCHANGED readVars BY <2>1 DEF readVars, PageInv, Agrees, Uncut
    <2>2. ASSUME NEW limit \in Limits, ReadPage(limit) PROVE PageInv' BY <2>2, PageRead
    <2>3. CASE WriteRemote BY <2>3, PageWritten
    <2> QED BY <2>1, <2>2, <2>3 DEF Next, vars
<1>3. PageInv => PagesReassemble
    <2> SUFFICES ASSUME PageInv, reader.eof, stable
                 PROVE  /\ reader.offset = Len(remote)
                        /\ Uncut(remote, cuts) => reader.text = lossy(remote)
        BY DEF PagesReassemble, Uncut
    <2>1. remote \in Seq(Bytes) /\ reader.offset = Len(remote) BY DEF PageInv, Agrees
    <2>2. SubSeq(remote, 1, Len(remote)) = remote BY <2>1
    <2> QED BY <2>1, <2>2 DEF PageInv, Agrees
<1> QED BY <1>1, <1>2, <1>3, PTL DEF Spec

=============================================================================
