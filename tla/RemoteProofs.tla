---------------------------- MODULE RemoteProofs ----------------------------
(***************************************************************************)
(* File operations on a remote host, for any profiles, lookups, keys, jobs  *)
(* and number of runs of the script.                                        *)
(*                                                                          *)
(* The tests of target.rs on octets are shown to be the intervals of the    *)
(* registry, for every address (PolicyIsExact); on that rests the invariant *)
(* of the connection, LinkInv, which says of every stage what was tested    *)
(* before it. The scripts have an invariant of their own, ScriptInv: a      *)
(* restricted one holds nothing outside the roots once it has checked what  *)
(* it opened. WholeInv ties the two: what a write read on its input is all  *)
(* of it unless the connection broke, and then no answer comes back.        *)
(***************************************************************************)
EXTENDS RemoteAgent, TLAPS

-----------------------------------------------------------------------------
(* The target policy                                                         *)

Networks == Octet \X Octet \X Octet
NumberOf(o) == Number(o[1], o[2], o[3])
NotAfter(o, p) ==
    o[1] < p[1] \/ (o[1] = p[1] /\ (o[2] < p[2] \/ (o[2] = p[2] /\ o[3] <= p[3])))
Within(o, first, last) == NumberOf(o) \in NumberOf(first) .. NumberOf(last)
InBlocks(o) == \E block \in Special : NumberOf(o) \in block[1] .. block[2]

\* The numbers of networks are ordered as their octets are.
LEMMA NetworksOrdered ==
    ASSUME NEW o \in Networks, NEW p \in Networks
    PROVE  /\ NumberOf(o) \in Int
           /\ NumberOf(o) <= NumberOf(p) <=> NotAfter(o, p)
<1>1. PICK a \in Octet, b \in Octet, c \in Octet : o = <<a, b, c>> BY DEF Networks
<1>2. PICK d \in Octet, e \in Octet, f \in Octet : p = <<d, e, f>> BY DEF Networks
<1> DEFINE m == a * 256 + b
           n == d * 256 + e
<1>3. m \in Int /\ n \in Int BY DEF Octet
<1>4. m < n <=> a < d \/ (a = d /\ b < e) BY DEF Octet
<1>5. m = n <=> a = d /\ b = e BY DEF Octet
<1>6. NumberOf(o) = m * 256 + c /\ NumberOf(p) = n * 256 + f
    BY <1>1, <1>2 DEF NumberOf, Number
<1> HIDE DEF m, n
<1>7. m * 256 + c <= n * 256 + f <=> m < n \/ (m = n /\ c <= f) BY <1>3 DEF Octet
<1>8. m * 256 + c \in Int BY <1>3 DEF Octet
<1>9. NotAfter(o, p) <=> a < d \/ (a = d /\ (b < e \/ (b = e /\ c <= f)))
    BY <1>1, <1>2 DEF NotAfter
<1>10. NumberOf(o) <= NumberOf(p) <=> m * 256 + c <= n * 256 + f BY <1>6
<1> QED BY <1>4, <1>5, <1>6, <1>7, <1>8, <1>9, <1>10

\* So a block is an interval of that order.
LEMMA BlocksAreIntervals ==
    ASSUME NEW o \in Networks, NEW first \in Networks, NEW last \in Networks
    PROVE  Within(o, first, last) <=> NotAfter(first, o) /\ NotAfter(o, last)
<1>1. \A k, l, m \in Int : k \in l .. m <=> l <= k /\ k <= m OBVIOUS
<1>2. NumberOf(o) \in Int /\ NumberOf(first) \in Int /\ NumberOf(last) \in Int
    BY NetworksOrdered
<1>3. Within(o, first, last) <=> NumberOf(first) <= NumberOf(o) /\ NumberOf(o) <= NumberOf(last)
    BY <1>1, <1>2, Zenon DEF Within
<1> QED BY <1>3, NetworksOrdered

\* The policy refuses exactly the networks of the special blocks.
LEMMA PublicIsNotSpecial ==
    ASSUME NEW o \in Networks
    PROVE  public_v4(o) <=> ~InBlocks(o)
<1>1. PICK a \in Octet, b \in Octet, c \in Octet : o = <<a, b, c>> BY DEF Networks
<1>2. \A k \in {0, 10, 16, 18, 19, 31, 51, 64, 88, 99, 100, 113, 127, 168, 169, 172, 192, 198,
                203, 224, 254, 255} : k \in Octet
    BY DEF Octet
<1>3. ASSUME NEW d \in Octet, NEW g \in Octet
      PROVE  Within(o, <<d, 0, 0>>, <<g, 255, 255>>) <=> a \in d .. g
    <2>1. <<d, 0, 0>> \in Networks /\ <<g, 255, 255>> \in Networks BY DEF Networks, Octet
    <2>2. Within(o, <<d, 0, 0>>, <<g, 255, 255>>) <=>
              NotAfter(<<d, 0, 0>>, o) /\ NotAfter(o, <<g, 255, 255>>)
        BY <2>1, BlocksAreIntervals
    <2> QED BY <1>1, <2>2 DEF NotAfter, Octet
<1>4. ASSUME NEW d \in Octet, NEW e \in Octet, NEW g \in Octet
      PROVE  Within(o, <<d, e, 0>>, <<d, g, 255>>) <=> a = d /\ b \in e .. g
    <2>1. <<d, e, 0>> \in Networks /\ <<d, g, 255>> \in Networks BY DEF Networks, Octet
    <2>2. Within(o, <<d, e, 0>>, <<d, g, 255>>) <=>
              NotAfter(<<d, e, 0>>, o) /\ NotAfter(o, <<d, g, 255>>)
        BY <2>1, BlocksAreIntervals
    <2> QED BY <1>1, <2>2 DEF NotAfter, Octet
<1>5. ASSUME NEW d \in Octet, NEW e \in Octet, NEW f \in Octet
      PROVE  Within(o, <<d, e, f>>, <<d, e, f>>) <=> a = d /\ b = e /\ c = f
    <2>1. <<d, e, f>> \in Networks BY DEF Networks
    <2>2. Within(o, <<d, e, f>>, <<d, e, f>>) <=>
              NotAfter(<<d, e, f>>, o) /\ NotAfter(o, <<d, e, f>>)
        BY <2>1, BlocksAreIntervals
    <2> QED BY <1>1, <2>2 DEF NotAfter, Octet
<1>6. InBlocks(o) <=>
          \/ Within(o, <<0, 0, 0>>, <<0, 255, 255>>)
          \/ Within(o, <<10, 0, 0>>, <<10, 255, 255>>)
          \/ Within(o, <<100, 64, 0>>, <<100, 127, 255>>)
          \/ Within(o, <<127, 0, 0>>, <<127, 255, 255>>)
          \/ Within(o, <<169, 254, 0>>, <<169, 254, 255>>)
          \/ Within(o, <<172, 16, 0>>, <<172, 31, 255>>)
          \/ Within(o, <<192, 0, 0>>, <<192, 0, 255>>)
          \/ Within(o, <<192, 88, 99>>, <<192, 88, 99>>)
          \/ Within(o, <<192, 168, 0>>, <<192, 168, 255>>)
          \/ Within(o, <<198, 18, 0>>, <<198, 19, 255>>)
          \/ Within(o, <<198, 51, 100>>, <<198, 51, 100>>)
          \/ Within(o, <<203, 0, 113>>, <<203, 0, 113>>)
          \/ Within(o, <<224, 0, 0>>, <<255, 255, 255>>)
    <2> DEFINE In(block) == NumberOf(o) \in block[1] .. block[2]
    <2>1. InBlocks(o) <=> \E block \in Special : In(block) BY DEF InBlocks
    <2>2. \A d, e, f, g, h, i :
              In(<<Number(d, e, f), Number(g, h, i)>>) <=> Within(o, <<d, e, f>>, <<g, h, i>>)
        BY DEF Within, NumberOf
    <2> HIDE DEF In
    <2>3. (\E block \in Special : In(block)) <=>
              \/ In(<<Number(0, 0, 0), Number(0, 255, 255)>>)
              \/ In(<<Number(10, 0, 0), Number(10, 255, 255)>>)
              \/ In(<<Number(100, 64, 0), Number(100, 127, 255)>>)
              \/ In(<<Number(127, 0, 0), Number(127, 255, 255)>>)
              \/ In(<<Number(169, 254, 0), Number(169, 254, 255)>>)
              \/ In(<<Number(172, 16, 0), Number(172, 31, 255)>>)
              \/ In(<<Number(192, 0, 0), Number(192, 0, 255)>>)
              \/ In(<<Number(192, 88, 99), Number(192, 88, 99)>>)
              \/ In(<<Number(192, 168, 0), Number(192, 168, 255)>>)
              \/ In(<<Number(198, 18, 0), Number(198, 19, 255)>>)
              \/ In(<<Number(198, 51, 100), Number(198, 51, 100)>>)
              \/ In(<<Number(203, 0, 113), Number(203, 0, 113)>>)
              \/ In(<<Number(224, 0, 0), Number(255, 255, 255)>>)
        BY SMT DEF Special
    <2> QED BY <2>1, <2>2, <2>3, SMT
<1>7. /\ Within(o, <<0, 0, 0>>, <<0, 255, 255>>) <=> a \in 0 .. 0
      /\ Within(o, <<10, 0, 0>>, <<10, 255, 255>>) <=> a \in 10 .. 10
      /\ Within(o, <<127, 0, 0>>, <<127, 255, 255>>) <=> a \in 127 .. 127
      /\ Within(o, <<224, 0, 0>>, <<255, 255, 255>>) <=> a \in 224 .. 255
    BY <1>2, <1>3
<1>8. /\ Within(o, <<100, 64, 0>>, <<100, 127, 255>>) <=> a = 100 /\ b \in 64 .. 127
      /\ Within(o, <<169, 254, 0>>, <<169, 254, 255>>) <=> a = 169 /\ b \in 254 .. 254
      /\ Within(o, <<172, 16, 0>>, <<172, 31, 255>>) <=> a = 172 /\ b \in 16 .. 31
      /\ Within(o, <<192, 0, 0>>, <<192, 0, 255>>) <=> a = 192 /\ b \in 0 .. 0
      /\ Within(o, <<192, 168, 0>>, <<192, 168, 255>>) <=> a = 192 /\ b \in 168 .. 168
      /\ Within(o, <<198, 18, 0>>, <<198, 19, 255>>) <=> a = 198 /\ b \in 18 .. 19
    BY <1>2, <1>4
<1>9. /\ Within(o, <<192, 88, 99>>, <<192, 88, 99>>) <=> a = 192 /\ b = 88 /\ c = 99
      /\ Within(o, <<198, 51, 100>>, <<198, 51, 100>>) <=> a = 198 /\ b = 51 /\ c = 100
      /\ Within(o, <<203, 0, 113>>, <<203, 0, 113>>) <=> a = 203 /\ b = 0 /\ c = 113
    BY <1>2, <1>5
<1>10. public_v4(o) <=>
          ~ \/ a \in {0, 10, 127} \/ a >= 224
            \/ a = 100 /\ b \in 64 .. 127
            \/ a = 169 /\ b = 254
            \/ a = 172 /\ b \in 16 .. 31
            \/ a = 192 /\ (b \in {0, 168} \/ (b = 88 /\ c = 99))
            \/ a = 198 /\ (b \in {18, 19} \/ (b = 51 /\ c = 100))
            \/ a = 203 /\ b = 0 /\ c = 113
    BY <1>1 DEF public_v4
<1> QED BY <1>6, <1>7, <1>8, <1>9, <1>10 DEF Octet

\* And exactly their addresses, of both families.
LEMMA PolicyIsExact ==
    ASSUME NEW ip \in Addresses
    PROVE  is_public(ip) <=> ~InSpecial(ip)
<1>1. ip.octets \in Networks BY DEF Addresses, Networks
<1>2. public_v4(ip.octets) <=> ~InBlocks(ip.octets) BY <1>1, PublicIsNotSpecial
<1>3. InSpecial(ip) <=>
          \/ (ip.family = 4 \/ ip.kind = "mapped") /\ InBlocks(ip.octets)
          \/ ip.family = 6 /\ ip.kind = "local"
    BY DEF InSpecial, InBlocks, NumberOf
<1>4. CASE ip.family = 4 BY <1>2, <1>3, <1>4 DEF is_public
<1>5. CASE ip.family = 6 /\ ip.kind \in {"mapped", "local", "other"}
    BY <1>2, <1>3, <1>5 DEF is_public
<1> QED BY <1>4, <1>5 DEF Addresses

-----------------------------------------------------------------------------
(* The connection                                                            *)

Connecting == {"dial", "verify", "authenticate"}

\* While hops are being connected there is a profile that loads, and behind the
\* first hop nothing is left to resolve in Cloud mode.  The address in use was
\* checked.
LinkInv ==
    /\ conn = [stage |-> conn.stage, hop |-> conn.hop, address |-> conn.address,
               key |-> conn.key, handles |-> conn.handles]
    /\ conn.stage \in Connecting =>
          /\ profile \in Profiles /\ Loads(profile)
          /\ conn.hop \in 1 .. Len(profile.chain)
          /\ profile.mode = "cloud" =>
                \A n \in 2 .. Len(profile.chain) :
                    validate_remote_hop(profile.mode, profile.chain[n].host)
    /\ conn.address # None =>
          /\ conn.stage \in {"verify", "authenticate", "failed"}
          /\ conn.address \in Addresses
          /\ profile.mode = "cloud" => is_public(conn.address)
    /\ conn.stage = "authenticate" =>
          \/ conn.key = Endpoint.pin
          \/ Endpoint.pin = None /\ profile.host_key_mode = "insecure_compatibility"

\* The first answer to a lookup, and every reachable one, is an address.
LEMMA HostsHaveAddresses ==
    ASSUME NEW p \in Profiles, NEW n \in 1 .. Len(p.chain)
    PROVE  /\ Reachable(p.chain[n].host) \subseteq Addresses
           /\ resolve_direct(p.mode, p.chain[n].host) \subseteq Addresses
<1> DEFINE name == p.chain[n].host
<1>1. name \in Names \cup Addresses
    <2>1. p.chain \in Seq([host : Names \cup Addresses, pin : Keys \cup {None}])
        BY TransportAssumption
    <2>2. \A S, chain : chain \in Seq(S) /\ n \in 1 .. Len(chain) => chain[n] \in S OBVIOUS
    <2>3. p.chain[n] \in [host : Names \cup Addresses, pin : Keys \cup {None}]
        BY <2>1, <2>2, Zenon
    <2> QED BY <2>3
<1>2. \A answer \in Answers : \A m \in 1 .. Len(answer) : answer[m] \in Addresses
    BY TransportAssumption
<1>3. \A answer \in Answers : 1 \in 1 .. Len(answer) BY TransportAssumption
<1>4. CASE IsName(name) BY <1>2, <1>3, <1>4 DEF Reachable, resolve_direct
<1>5. CASE ~IsName(name) BY <1>1, <1>5 DEF Reachable, resolve_direct, IsName
<1> QED BY <1>4, <1>5

\* In Cloud mode only public addresses are dialled, at any hop.
LEMMA DialledIsPublic ==
    ASSUME LinkInv, conn.stage = "dial", profile.mode = "cloud",
           NEW ip \in (IF conn.hop = 1 /\ profile.mode = "cloud"
                       THEN resolve_direct(profile.mode, Endpoint.host)
                       ELSE Reachable(Endpoint.host))
    PROVE  is_public(ip)
<1>1. profile \in Profiles /\ conn.hop \in 1 .. Len(profile.chain) BY DEF LinkInv, Connecting
<1>2. CASE conn.hop = 1
    <2>1. ip \in resolve_direct("cloud", Endpoint.host) BY <1>2
    <2>2. \A answer \in Answers : 1 \in 1 .. Len(answer) BY TransportAssumption
    <2> QED BY <2>1, <2>2 DEF resolve_direct, validate_target
<1>3. CASE conn.hop # 1
    <2>1. conn.hop \in 2 .. Len(profile.chain) BY <1>1, <1>3, TransportAssumption
    <2>2. validate_remote_hop("cloud", Endpoint.host)
        BY <2>1 DEF LinkInv, Connecting, Endpoint
    <2>3. ip \in {Endpoint.host} BY <1>3, <2>2 DEF Reachable, validate_remote_hop
    <2> QED BY <2>2, <2>3 DEF validate_remote_hop, validate_target
<1> QED BY <1>2, <1>3

\* Only the steps of the connection move it.
LEMMA LinkMoves ==
    ASSUME [Next]_vars
    PROVE  LinkStep \/ UNCHANGED link
<1>1. CASE LinkStep BY <1>1
<1>2. CASE Change BY <1>2 DEF Change
<1>3. ASSUME NEW i \in Invocations,
             \/ Begin(i) \/ TakeInput(i) \/ Read(i) \/ OpenRead(i) \/ CheckedRead(i)
             \/ MakeParent(i) \/ WriteLook(i) \/ Write(i) \/ OpenParent(i) \/ OpenTarget(i)
             \/ CheckedTruncate(i) \/ CheckedStore(i)
             \/ Receive(i) \/ Finish(i) \/ Save(i)
      PROVE  UNCHANGED link
    BY <1>3 DEF Begin, TakeInput, Read, OpenRead, CheckedRead, MakeParent, WriteLook, Write,
                OpenParent, OpenTarget, CheckedTruncate, CheckedStore, Receive, Finish, Save
<1>4. CASE UNCHANGED vars BY <1>4 DEF vars
<1> QED BY <1>1, <1>2, <1>3, <1>4 DEF Next

\* Every step of the connection keeps it as its profile says.
LEMMA LinkInvStep ==
    ASSUME LinkInv, LinkStep \/ UNCHANGED link
    PROVE  LinkInv'
<1>r. conn = [stage |-> conn.stage, hop |-> conn.hop, address |-> conn.address,
              key |-> conn.key, handles |-> conn.handles]
    BY DEF LinkInv
<1>1. ASSUME NEW p \in Profiles PROVE Len(p.chain) \in Nat \ {0} BY TransportAssumption
<1>2. CASE Connect
    <2>1. conn.stage = "idle" /\ conn.address = None BY <1>2 DEF Connect, LinkInv
    <2>2. PICK p \in Profiles :
              /\ Loads(p) /\ profile' = p
              /\ conn' = IF p.mode = "cloud" /\ \E n \in 2 .. Len(p.chain) :
                                ~validate_remote_hop(p.mode, p.chain[n].host)
                         THEN [conn EXCEPT !.stage = "failed"]
                         ELSE [conn EXCEPT !.stage = "dial", !.hop = 1]
        BY <1>2 DEF Connect
    <2>3. 1 \in 1 .. Len(p.chain) BY <1>1
    <2> QED BY <1>r, <2>1, <2>2, <2>3 DEF LinkInv, Connecting
<1>3. CASE Dial
    <2>1. profile' = profile /\ conn.stage = "dial" BY <1>3 DEF Dial
    <2>2. CASE Stop BY <1>r, <2>1, <2>2 DEF Stop, LinkInv, Connecting
    <2>3. CASE ~Stop
        <3>1. PICK ip \in (IF conn.hop = 1 /\ profile.mode = "cloud"
                           THEN resolve_direct(profile.mode, Endpoint.host)
                           ELSE Reachable(Endpoint.host)), key \in Keys :
                  conn' = [conn EXCEPT !.stage = "verify", !.address = ip, !.key = key]
            BY <1>3, <2>3 DEF Dial
        <3>2. profile \in Profiles /\ conn.hop \in 1 .. Len(profile.chain)
            BY <2>1 DEF LinkInv, Connecting
        <3>3. ip \in Addresses BY <3>2, HostsHaveAddresses DEF Endpoint
        <3>4. profile.mode = "cloud" => is_public(ip) BY <2>1, DialledIsPublic
        <3> QED BY <1>r, <2>1, <3>1, <3>3, <3>4 DEF LinkInv, Connecting
    <2> QED BY <2>2, <2>3
<1>4. CASE Verify
    <2>1. profile' = profile /\ conn.stage = "verify" BY <1>4 DEF Verify
    <2>2. conn' = [conn EXCEPT !.stage =
                      IF \/ Endpoint.pin = conn.key
                         \/ Endpoint.pin = None /\ profile.host_key_mode = "insecure_compatibility"
                      THEN "authenticate" ELSE "failed"]
        BY <1>4 DEF Verify
    <2>3. Endpoint' = Endpoint BY <1>r, <2>1, <2>2 DEF Endpoint
    <2> QED BY <1>r, <2>1, <2>2, <2>3 DEF LinkInv, Connecting
<1>5. CASE Authenticate
    <2>1. profile \in Profiles /\ conn.hop \in 1 .. Len(profile.chain)
          /\ conn.stage = "authenticate"
        BY <1>5 DEF Authenticate, LinkInv, Connecting
    <2>2. CASE conn.hop < Len(profile.chain)
               /\ conn' = [Idle EXCEPT !.stage = "dial", !.hop = conn.hop + 1,
                                       !.handles = conn.handles + 1]
               /\ UNCHANGED profile
        <3>1. conn' = [stage |-> "dial", hop |-> conn.hop + 1, address |-> None, key |-> None,
                       handles |-> conn.handles + 1]
            BY <2>2 DEF Idle
        <3>2. conn.hop + 1 \in 1 .. Len(profile.chain) BY <1>1, <2>1, <2>2
        <3>3. /\ conn'.stage = "dial" /\ conn'.hop = conn.hop + 1 /\ conn'.address = None
              /\ conn' = [stage |-> conn'.stage, hop |-> conn'.hop, address |-> conn'.address,
                          key |-> conn'.key, handles |-> conn'.handles]
            BY <3>1
        <3> QED BY <2>1, <2>2, <3>2, <3>3 DEF LinkInv, Connecting
    <2>3. CASE conn' = [Idle EXCEPT !.stage = "up"] BY <2>3 DEF Idle, LinkInv, Connecting
    <2>4. CASE Stop /\ UNCHANGED profile BY <1>r, <2>1, <2>4 DEF Stop, LinkInv, Connecting
    <2> QED BY <1>5, <2>2, <2>3, <2>4 DEF Authenticate
<1>6. CASE Disconnect
    <2>1. CASE conn' = [conn EXCEPT !.handles = @ - 1] /\ UNCHANGED profile
        BY <1>r, <1>6, <2>1 DEF Disconnect, LinkInv, Connecting
    <2>2. CASE conn' = [Idle EXCEPT !.stage = "closed"] BY <2>2 DEF Idle, LinkInv, Connecting
    <2> QED BY <1>6, <2>1, <2>2 DEF Disconnect
<1>7. CASE Break BY <1>r, <1>7 DEF Break, LinkInv, Connecting
<1>8. CASE UNCHANGED link BY <1>8 DEF link, LinkInv, Endpoint
<1> QED BY <1>2, <1>3, <1>4, <1>5, <1>6, <1>7, <1>8 DEF LinkStep

\* No connection is up at first.
LEMMA LinkInvInit ==
    ASSUME Init
    PROVE  LinkInv
BY DEF Init, LinkInit, Idle, LinkInv, Connecting

\* Whatever names resolve to and whatever keys the servers show, a connection is
\* what its profile says: ConnectsAsConfigured, of EmbeddedSession::connect.
THEOREM ConnectionsAreConfigured == Spec => []ConnectsAsConfigured
<1>1. LinkInv => ConnectsAsConfigured
    BY PolicyIsExact DEF LinkInv, ConnectsAsConfigured
<1>2. LinkInv /\ [Next]_vars => LinkInv' BY LinkMoves, LinkInvStep
<1> QED BY LinkInvInit, <1>1, <1>2, PTL DEF Spec

-----------------------------------------------------------------------------
(* What a script touches                                                     *)

Arrays ==
    /\ pc = [i \in Invocations |-> pc[i]]
    /\ job = [i \in Invocations |-> job[i]]
    /\ fd = [i \in Invocations |-> fd[i]]
    /\ input = [i \in Invocations |-> input[i]]
    /\ out = [i \in Invocations |-> out[i]]
    /\ got \in [Invocations -> Nat]
    /\ result = [i \in Invocations |-> result[i]]
    /\ \A i \in Invocations : fd[i] = [dir |-> fd[i].dir, bytes |-> fd[i].bytes]

Untouched(i) == \A d \in Dirs : ~Used(i, d)

\* Until a script has checked what it opened it has used no file, and until it
\* is through it has reported nothing.  What a restricted write adds to is inside
\* the roots, and what it created outside them it is denied.
ScriptInv(i) ==
    /\ pc[i] \in {"idle", "start", "parent", "open", "check", "store"} => out[i] = None
    /\ pc[i] \in {"idle", "start", "parent", "open", "check"} => Untouched(i)
    /\ pc[i] \in {"parent", "open"} => Writes(i)
    /\ pc[i] = "store" /\ job[i].policy => fd[i].dir = Inside
    /\ job[i] # None /\ job[i].policy => ~Used(i, Outside)
    /\ out[i] \notin {None, Exit} /\ out[i].code = 77 => Untouched(i)
    /\ Created(i, Outside) =>
           /\ job[i].policy /\ job[i].op \in {"truncate", "append"}
           /\ \/ pc[i] = "check" /\ fd[i].dir = Outside
              \/ pc[i] \in {"emit", "done"} /\ out[i] = [code |-> 77, body |-> <<>>]

\* What a write has got on its input while the connection is up is all there is,
\* and nothing of its answer arrives over a connection that broke before.
WholeInv(i) ==
    /\ pc[i] = "idle" => got[i] = 0 /\ result[i] = None
    /\ pc[i] # "idle" => conn.stage \in {"up", "closed"}
    /\ pc[i] \notin {"idle", "start"} /\ Writes(i) /\ up => input[i] = Whole
    /\ got[i] # 0 /\ Writes(i) => input[i] = Whole /\ pc[i] # "start"
    /\ result[i] \notin {None, Failure} /\ Writes(i) => got[i] # 0

ScriptsInv == Arrays /\ \A i \in Invocations : ScriptInv(i)

\* Nothing the invariant says of a run of the script changes.
Same(i) ==
    /\ pc'[i] = pc[i] /\ job'[i] = job[i] /\ out'[i] = out[i]
    /\ fd'[i].dir = fd[i].dir
    /\ \A d \in Dirs : (Used(i, d)' => Used(i, d)) /\ (Created(i, d)' => Created(i, d))

\* A run of the script that the step leaves alone keeps its invariant.
LEMMA SameStays ==
    ASSUME NEW i \in Invocations, ScriptInv(i), Same(i)
    PROVE  ScriptInv(i)'
<1>1. Untouched(i) => Untouched(i)' BY DEF Same, Untouched
<1>2. (Used(i, Outside)' => Used(i, Outside)) /\ (Created(i, Outside)' => Created(i, Outside))
    BY DEF Same, Dirs
<1> QED BY <1>1, <1>2 DEF ScriptInv, Same, Writes

\* A store through a descriptor goes where it has led all the time.
LEMMA StoreStays ==
    ASSUME Arrays, NEW i \in Invocations, NEW bytes, Store(i, bytes)
    PROVE  /\ fd' = [j \in Invocations |-> fd'[j]]
           /\ \A j \in Invocations :
                 /\ fd'[j] = [dir |-> fd'[j].dir, bytes |-> fd'[j].bytes]
                 /\ fd'[j].dir = fd[j].dir
BY DEF Arrays, Store

\* Every step keeps the arrays of the runs.
LEMMA ArraysStep ==
    ASSUME Arrays, [Next]_vars
    PROVE  Arrays'
<1>1. CASE LinkStep /\ UNCHANGED <<host, script, pc, out, got, result, local, touched>>
    BY <1>1 DEF Arrays, script
<1>2. CASE Change
    <2>1. UNCHANGED <<pc, job, input, out, got, result>>
        BY <1>2 DEF Change
    <2>2. /\ fd' = [i \in Invocations |-> fd'[i]]
          /\ \A i \in Invocations : fd'[i] = [dir |-> fd'[i].dir, bytes |-> fd'[i].bytes]
        <3>1. CASE UNCHANGED fd
            BY <3>1 DEF Arrays
        <3>2. ASSUME NEW d \in Dirs,
                     fd' = [i \in Invocations |->
                              IF fd[i] = [dir |-> d, bytes |-> None] /\ pc[i] \in {"check", "store"}
                              THEN [fd[i] EXCEPT !.bytes = fs[d]] ELSE fd[i]]
              PROVE  /\ fd' = [i \in Invocations |-> fd'[i]]
                     /\ \A i \in Invocations :
                           fd'[i] = [dir |-> fd'[i].dir, bytes |-> fd'[i].bytes]
            <4>1. ASSUME NEW i \in Invocations
                  PROVE  fd'[i] = [dir |-> fd'[i].dir, bytes |-> fd'[i].bytes]
                <5>1. fd'[i] = fd[i] \/ fd'[i] = [fd[i] EXCEPT !.bytes = fs[d]]
                    BY <3>2
                <5>2. fd[i] = [dir |-> fd[i].dir, bytes |-> fd[i].bytes]
                    BY DEF Arrays
                <5> QED BY <5>1, <5>2
            <4> QED BY <3>2, <4>1
        <3> QED BY <1>2, <3>1, <3>2 DEF Change
    <2> QED BY <2>1, <2>2 DEF Arrays
<1>3. ASSUME NEW i \in Invocations,
             Begin(i) \/ TakeInput(i) \/ Read(i) \/ CheckedRead(i) \/ MakeParent(i)
             \/ WriteLook(i) \/ Write(i)
      PROVE  Arrays'
    BY <1>3 DEF Begin, TakeInput, Read, CheckedRead, MakeParent, WriteLook, Write, Emit, Goto,
                host, script, Arrays
<1>4. ASSUME NEW i \in Invocations, OpenRead(i) \/ OpenParent(i) \/ OpenTarget(i)
      PROVE  Arrays'
    <2>1. UNCHANGED fd \/ \E d : fd' = [fd EXCEPT ![i].dir = d]
        BY <1>4 DEF OpenRead, OpenParent, OpenTarget
    <2>2. /\ fd' = [j \in Invocations |-> fd'[j]]
          /\ \A j \in Invocations : fd'[j] = [dir |-> fd'[j].dir, bytes |-> fd'[j].bytes]
        BY <2>1 DEF Arrays
    <2>3. /\ pc' = [j \in Invocations |-> pc'[j]]
          /\ out' = [j \in Invocations |-> out'[j]]
        BY <1>4 DEF OpenRead, OpenParent, OpenTarget, OpenFails, Emit, Goto, Arrays
    <2>4. UNCHANGED <<job, input, got, result>>
        BY <1>4 DEF OpenRead, OpenParent, OpenTarget
    <2> QED BY <2>2, <2>3, <2>4 DEF Arrays
<1>5. ASSUME NEW i \in Invocations, CheckedTruncate(i)
      PROVE  Arrays'
    <2>1. UNCHANGED fd \/ Store(i, <<>>) BY <1>5 DEF CheckedTruncate
    <2>2. /\ fd' = [j \in Invocations |-> fd'[j]]
          /\ \A j \in Invocations : fd'[j] = [dir |-> fd'[j].dir, bytes |-> fd'[j].bytes]
        BY <2>1, StoreStays DEF Arrays
    <2> QED BY <1>5, <2>2 DEF CheckedTruncate, Emit, Goto, Arrays
<1>6. ASSUME NEW i \in Invocations, CheckedStore(i)
      PROVE  Arrays'
    <2>1. /\ fd' = [j \in Invocations |-> fd'[j]]
          /\ \A j \in Invocations : fd'[j] = [dir |-> fd'[j].dir, bytes |-> fd'[j].bytes]
        BY <1>6, StoreStays DEF CheckedStore
    <2> QED BY <1>6, <2>1 DEF CheckedStore, Emit, Arrays
<1>7. ASSUME NEW i \in Invocations, Receive(i) \/ Finish(i) \/ Save(i)
      PROVE  Arrays'
    BY <1>7 DEF Receive, Finish, Save, script, Arrays
<1>8. CASE UNCHANGED vars BY <1>8 DEF vars, script, Arrays
<1> QED BY <1>1, <1>2, <1>3, <1>4, <1>5, <1>6, <1>7, <1>8 DEF Next

\* A step of one run of the script is none of another's.
LEMMA OthersSame ==
    ASSUME Arrays, NEW i \in Invocations, NEW w \in Invocations, w # i,
           \/ Begin(w) \/ TakeInput(w) \/ Read(w) \/ OpenRead(w) \/ CheckedRead(w)
           \/ MakeParent(w) \/ WriteLook(w) \/ Write(w) \/ OpenParent(w) \/ OpenTarget(w)
           \/ CheckedTruncate(w) \/ CheckedStore(w)
           \/ Receive(w) \/ Finish(w) \/ Save(w)
    PROVE  Same(i)
<1>1. pc'[i] = pc[i] /\ job'[i] = job[i] /\ out'[i] = out[i]
    BY DEF Begin, TakeInput, Read, OpenRead, CheckedRead, MakeParent, WriteLook, Write,
           OpenParent, OpenTarget, CheckedTruncate, CheckedStore, Receive, Finish, Save,
           Emit, OpenFails, Goto, script, Arrays
<1>2. fd'[i].dir = fd[i].dir
    <2>1. CASE Begin(w) \/ TakeInput(w) \/ Read(w) \/ CheckedRead(w) \/ MakeParent(w)
               \/ WriteLook(w) \/ Write(w) \/ Receive(w) \/ Finish(w) \/ Save(w)
        BY <2>1 DEF Begin, TakeInput, Read, CheckedRead, MakeParent, WriteLook, Write, Receive,
                    Finish, Save, script
    <2>2. CASE OpenRead(w) \/ OpenParent(w) \/ OpenTarget(w)
        BY <2>2 DEF OpenRead, OpenParent, OpenTarget, Arrays
    <2>3. CASE CheckedTruncate(w) \/ CheckedStore(w)
        BY <2>3, StoreStays DEF CheckedTruncate, CheckedStore
    <2> QED BY <2>1, <2>2, <2>3
<1>3. \A d \in Dirs : (Used(i, d)' => Used(i, d)) /\ (Created(i, d)' => Created(i, d))
    <2>1. touched' = touched \/ \E d, what : touched' = touched \cup {<<w, d, what>>}
        BY DEF Begin, TakeInput, Read, OpenRead, CheckedRead, MakeParent, WriteLook, Write,
               OpenParent, OpenTarget, CheckedTruncate, CheckedStore, Receive, Finish, Save, Use
    <2> QED BY <2>1 DEF Used, Created
<1> QED BY <1>1, <1>2, <1>3 DEF Same

\* Every step of a run keeps what the invariant says of it.
LEMMA ScriptStep ==
    ASSUME ScriptsInv, [Next]_vars, NEW i \in Invocations
    PROVE  ScriptInv(i)'
<1>i. Arrays /\ ScriptInv(i) BY DEF ScriptsInv
<1>1. CASE LinkStep /\ UNCHANGED <<host, script, pc, out, got, result, local, touched>>
    BY <1>1, <1>i, SameStays DEF Same, script, Used, Created
<1>2. CASE Change
    <2>1. fd'[i].dir = fd[i].dir BY <1>2, <1>i DEF Change, Arrays
    <2> QED BY <1>2, <1>i, <2>1, SameStays DEF Change, Same, Used, Created
<1>3. CASE UNCHANGED vars BY <1>3, <1>i, SameStays DEF vars, Same, script, Used, Created
<1>4. ASSUME NEW w \in Invocations, w # i,
             \/ Begin(w) \/ TakeInput(w) \/ Read(w) \/ OpenRead(w) \/ CheckedRead(w)
             \/ MakeParent(w) \/ WriteLook(w) \/ Write(w) \/ OpenParent(w) \/ OpenTarget(w)
             \/ CheckedTruncate(w) \/ CheckedStore(w)
             \/ Receive(w) \/ Finish(w) \/ Save(w)
      PROVE  ScriptInv(i)'
    BY <1>4, <1>i, OthersSame, SameStays
<1>5. CASE Begin(i)
    <2>1. out[i] = None /\ Untouched(i) /\ ~Created(i, Outside)
        BY <1>5, <1>i DEF Begin, ScriptInv
    <2>2. pc'[i] = "start" /\ out' = out /\ touched' = touched
        BY <1>5, <1>i DEF Begin, Goto, Arrays
    <2> QED BY <2>1, <2>2 DEF ScriptInv, Untouched, Used, Created, Dirs
<1>13. CASE TakeInput(i) \/ MakeParent(i)
    <2>1. /\ Writes(i) /\ out[i] = None /\ Untouched(i) /\ ~Created(i, Outside)
        BY <1>13, <1>i DEF TakeInput, MakeParent, ScriptInv
    <2>2. pc'[i] \in {"parent", "open"} /\ out' = out /\ touched' = touched /\ job' = job
        BY <1>13, <1>i DEF TakeInput, MakeParent, script, Goto, Arrays
    <2> QED BY <2>1, <2>2 DEF ScriptInv, Untouched, Used, Created, Writes, Dirs
<1>6. CASE OpenRead(i) \/ OpenParent(i)
    BY <1>6, <1>i DEF OpenRead, OpenParent, OpenFails, Emit, Goto, host, Arrays, ScriptInv,
                      Untouched, Used, Created, Writes
<1>12. CASE OpenTarget(i)
    <2>1. pc[i] = "open" /\ job[i].policy /\ Writes(i) /\ Untouched(i) /\ ~Created(i, Outside)
        BY <1>12, <1>i DEF OpenTarget, ScriptInv
    <2>2. \A d \in Dirs : Used(i, d)' <=> Used(i, d)
        BY <1>12 DEF OpenTarget, Used
    <2>3. CASE pc'[i] # "check"
        <3>1. touched' = touched BY <1>12, <1>i, <2>3 DEF OpenTarget, Goto, Arrays
        <3>2. pc'[i] = "emit" BY <1>12, <1>i, <2>3 DEF OpenTarget, OpenFails, Emit, Goto, Arrays
        <3> QED BY <2>1, <2>2, <3>1, <3>2, <1>12 DEF OpenTarget, ScriptInv, Untouched, Created, Dirs
    <2>4. CASE pc'[i] = "check"
        <3>1. job' = job /\ out' = out
            BY <1>12, <1>i, <2>4 DEF OpenTarget, OpenFails, Emit, Goto, Arrays
        <3> DEFINE d == IF job[i].op = "create"
                        THEN IF fs[fd[i].dir] = None THEN fd[i].dir ELSE None
                        ELSE Resolve(fd[i].dir)
        <3>2. /\ fd[i].dir = Inside /\ d # None
              /\ fd' = [fd EXCEPT ![i].dir = d]
              /\ touched' = IF fs[d] = None THEN touched \cup {<<i, d, "name">>} ELSE touched
            BY <1>12, <1>i, <2>4 DEF OpenTarget, OpenFails, Emit, Arrays
        <3>3. job[i].op = "create" => d = Inside BY <3>2
        <3> HIDE DEF d
        <3>4. fd'[i].dir = d BY <3>2, <1>i DEF Arrays
        <3>5. Created(i, Outside)' => d = Outside BY <2>1, <3>2 DEF Created
        <3>6. Created(i, Outside)' => job[i].op \in {"truncate", "append"}
            BY <2>1, <3>3, <3>5 DEF Writes, Inside, Outside
        <3>7. out[i] = None BY <1>i, <2>1 DEF ScriptInv
        <3>8. Untouched(i)' BY <2>1, <2>2 DEF Untouched
        <3>9. ~Used(i, Outside)' BY <3>8 DEF Untouched, Dirs
        <3> QED BY <2>1, <2>4, <3>1, <3>4, <3>5, <3>6, <3>7, <3>8, <3>9 DEF ScriptInv
    <2> QED BY <2>3, <2>4
<1>7. CASE Read(i) \/ WriteLook(i) \/ Write(i)
    BY <1>7, <1>i DEF Read, WriteLook, Write, Emit, Goto, script, Arrays, ScriptInv, Untouched, Use,
                      Used, Created
<1>8. CASE CheckedRead(i)
    BY <1>8, <1>i DEF CheckedRead, Emit, script, Arrays, ScriptInv, Untouched, Use, Used, Created,
                      Inside, Outside
<1>9. CASE CheckedTruncate(i) \/ CheckedStore(i)
    <2>1. fd'[i].dir = fd[i].dir
        BY <1>9, <1>i, StoreStays DEF CheckedTruncate, CheckedStore
    <2> QED BY <1>9, <1>i, <2>1 DEF CheckedTruncate, CheckedStore, Emit, Goto, Arrays,
                                    ScriptInv, Untouched, Use, Used, Created, Inside, Outside
<1>10. CASE Receive(i) BY <1>10, <1>i, SameStays DEF Receive, Same, script, Used, Created
<1>11. CASE Finish(i) \/ Save(i)
    BY <1>11, <1>i DEF Finish, Save, script, Arrays, ScriptInv, Untouched, Used, Created, Writes
<1> QED BY <1>1, <1>2, <1>3, <1>4, <1>5, <1>6, <1>7, <1>8, <1>9, <1>10, <1>11, <1>12,
       <1>13 DEF Next

\* No script has run at first.
LEMMA ScriptsInit ==
    ASSUME Init
    PROVE  ScriptsInv
BY DEF Init, ScriptsInv, Arrays, ScriptInv, Untouched, Used, Created

\* Every step keeps the invariant of every run of the script.
LEMMA ScriptsStep ==
    ASSUME ScriptsInv, [Next]_vars
    PROVE  ScriptsInv'
BY ScriptStep, ArraysStep DEF ScriptsInv

\* Whenever others move the links, a restricted operation uses the bytes of no
\* file outside the roots, and one that was denied those of none at all; what it
\* created outside them it is denied: PolicyConfined, of the scripts of agent.rs.
THEOREM OperationsAreConfined == Spec => []PolicyConfined
<1>1. ScriptsInv => PolicyConfined BY DEF ScriptsInv, ScriptInv, Untouched, PolicyConfined
<1> QED BY ScriptsInit, ScriptsStep, <1>1, PTL DEF Spec

-----------------------------------------------------------------------------
(* What a write reports                                                      *)

WritesInv == LinkInv /\ Arrays /\ \A i \in Invocations : WholeInv(i)

\* A connection that is up can only break, and one that broke stays closed.
LEMMA UpOnlyBreaks ==
    ASSUME LinkInv, LinkStep, conn.stage \in {"up", "closed"}
    PROVE  conn.stage = "up" /\ conn'.stage = "closed"
BY DEF LinkInv, LinkStep, Connect, Dial, Verify, Authenticate, Disconnect, Break

\* A run that does not move, over a connection that does not either.
LEMMA WholeStays ==
    ASSUME NEW i \in Invocations, WholeInv(i), conn' = conn,
           pc'[i] = pc[i], job'[i] = job[i], input'[i] = input[i], got'[i] = got[i],
           result'[i] = result[i]
    PROVE  WholeInv(i)'
BY DEF WholeInv, Writes, up

\* Every step keeps what the invariant says of a run.
LEMMA WholeStep ==
    ASSUME WritesInv, [Next]_vars, NEW i \in Invocations
    PROVE  WholeInv(i)'
<1>i. Arrays /\ WholeInv(i) /\ LinkInv BY DEF WritesInv
<1>g. got[i] \in Nat BY <1>i DEF Arrays
<1>1. CASE LinkStep /\ UNCHANGED <<host, script, pc, out, got, result, local, touched>>
    <2>1. UNCHANGED <<pc, job, input, got, result>> BY <1>1 DEF script
    <2>2. pc[i] # "idle" => conn'.stage = "closed"
        BY <1>1, <1>i, UpOnlyBreaks DEF WholeInv
    <2> QED BY <1>i, <2>1, <2>2 DEF WholeInv, Writes, up
<1>2. CASE Change
    BY <1>2, <1>i, WholeStays DEF Change, link
<1>3. CASE UNCHANGED vars
    BY <1>3, <1>i, WholeStays DEF vars, script, link
<1>4. ASSUME NEW w \in Invocations, w # i,
             \/ Begin(w) \/ TakeInput(w) \/ Read(w) \/ OpenRead(w) \/ CheckedRead(w)
             \/ MakeParent(w) \/ WriteLook(w) \/ Write(w) \/ OpenParent(w) \/ OpenTarget(w)
             \/ CheckedTruncate(w) \/ CheckedStore(w)
             \/ Receive(w) \/ Finish(w) \/ Save(w)
      PROVE  WholeInv(i)'
    <2>1. /\ pc'[i] = pc[i] /\ job'[i] = job[i] /\ input'[i] = input[i] /\ got'[i] = got[i]
          /\ result'[i] = result[i] /\ conn' = conn
        BY <1>4, <1>i
           DEF Begin, TakeInput, Read, OpenRead, CheckedRead, MakeParent, WriteLook, Write,
               OpenParent, OpenTarget, CheckedTruncate, CheckedStore, Receive, Finish, Save,
               Emit, OpenFails, Goto, script, link, Arrays
    <2> QED BY <1>i, <2>1, WholeStays
<1>5. CASE Begin(i)
    BY <1>5, <1>i DEF Begin, Goto, link, Arrays, WholeInv, up
<1>6. CASE TakeInput(i)
    <2>1. up => input'[i] = Whole
        <3>1. Whole \in Seq({"new1", "new2"}) BY DEF Whole
        <3>2. SubSeq(Whole, 1, Len(Whole)) = Whole BY <3>1
        <3>3. up => input' = [input EXCEPT ![i] = SubSeq(Whole, 1, Len(Whole))]
            BY <1>6 DEF TakeInput
        <3> QED BY <1>i, <3>2, <3>3 DEF Arrays
    <2>2. /\ pc[i] = "start" /\ pc'[i] = "parent" /\ conn' = conn
          /\ job' = job /\ got' = got /\ result' = result
        BY <1>6, <1>i DEF TakeInput, Goto, link, Arrays
    <2>3. Writes(i) BY <1>6 DEF TakeInput
    <2> QED BY <1>i, <2>1, <2>2, <2>3 DEF WholeInv, Writes, up
<1>7. CASE Read(i) \/ OpenRead(i) \/ CheckedRead(i)
    <2>1. /\ ~Writes(i) /\ pc[i] # "idle" /\ pc'[i] \in {"emit", "check"}
          /\ UNCHANGED <<conn, job, input, got, result>>
        BY <1>7, <1>i DEF Read, OpenRead, CheckedRead, OpenFails, Emit, Goto, script, link, Arrays
    <2> QED BY <1>i, <2>1 DEF WholeInv, Writes
<1>8. CASE MakeParent(i) \/ WriteLook(i) \/ Write(i) \/ OpenParent(i) \/ OpenTarget(i)
           \/ CheckedTruncate(i) \/ CheckedStore(i)
    <2>1. /\ pc[i] \in {"parent", "open", "check", "store"}
          /\ pc'[i] \in {"open", "check", "store", "emit"}
          /\ UNCHANGED <<conn, job, input, got, result>>
        BY <1>8, <1>i
           DEF MakeParent, WriteLook, Write, OpenParent, OpenTarget, CheckedTruncate,
               CheckedStore, OpenFails, Emit, Goto, script, link, Arrays
    <2> QED BY <1>i, <2>1 DEF WholeInv, Writes, up
<1>9. CASE Receive(i)
    <2>1. /\ up /\ pc[i] = "emit" /\ got'[i] = got[i] + 1
          /\ UNCHANGED <<conn, pc, job, input, result>>
        BY <1>9, <1>i DEF Receive, script, link, Arrays
    <2> QED BY <1>i, <1>g, <2>1 DEF WholeInv, Writes, up
<1>10. CASE Finish(i)
    <2>1. PICK answer \in parse_agent_output(i) : result' = [result EXCEPT ![i] = answer]
        BY <1>10 DEF Finish
    <2>2. answer # Failure => got[i] # 0 BY DEF parse_agent_output
    <2>3. /\ pc[i] # "idle" /\ UNCHANGED <<conn, job, input, got>>
          /\ pc'[i] = pc[i] \/ (pc'[i] = "done" /\ pc[i] = "emit")
             \/ (pc'[i] = "rename" /\ job[i].op = "download")
        BY <1>10, <1>i DEF Finish, Ended, script, link, Arrays
    <2>4. result'[i] = answer BY <1>i, <2>1 DEF Arrays
    <2>5. pc'[i] = "rename" => ~Writes(i) \/ pc'[i] = pc[i] BY <2>3 DEF Writes
    <2> QED BY <1>i, <2>2, <2>3, <2>4, <2>5 DEF WholeInv, Writes, up
<1>11. CASE Save(i)
    <2>1. /\ pc[i] = "rename" /\ pc'[i] = "done" /\ result'[i] \in {result[i], Failure}
          /\ UNCHANGED <<conn, job, input, got>>
        BY <1>11, <1>i DEF Save, script, link, Arrays
    <2> QED BY <1>i, <2>1 DEF WholeInv, Writes, up
<1> QED BY <1>1, <1>2, <1>3, <1>4, <1>5, <1>6, <1>7, <1>8, <1>9, <1>10, <1>11 DEF Next

\* Nothing is written at first.
LEMMA WritesInit ==
    ASSUME Init
    PROVE  WritesInv
<1>1. \A i \in Invocations : WholeInv(i) BY DEF Init, WholeInv
<1>2. Arrays BY DEF Init, Arrays
<1> QED BY <1>1, <1>2, LinkInvInit DEF WritesInv

\* Every step keeps the invariant of every write.
LEMMA WritesStep ==
    ASSUME WritesInv, [Next]_vars
    PROVE  WritesInv'
BY WholeStep, ArraysStep, LinkMoves, LinkInvStep DEF WritesInv

\* A write that is reported as done stored all of its bytes, wherever the
\* connection breaks: ReportedWritesWhole, of parse_agent_output.
THEOREM WritesAreWhole == Spec => []ReportedWritesWhole
<1>1. WritesInv => ReportedWritesWhole BY DEF WritesInv, WholeInv, ReportedWritesWhole
<1> QED BY WritesInit, WritesStep, <1>1, PTL DEF Spec
=============================================================================
