---------------------------- MODULE SshTransport ----------------------------
(***************************************************************************)
(* EmbeddedSession::connect (ssh.rs) and the target policy (target.rs): one  *)
(* attempt to reach a profile's target hop by hop, over names that resolve   *)
(* differently from one lookup to the next and servers of any key.           *)
(***************************************************************************)
EXTENDS Naturals, Integers, Sequences

CONSTANTS Profiles,   \* [mode, host_key_mode, chain of [host, pin]]
          Names,      \* hosts that are not literal addresses
          Answers,    \* what a lookup of a name may return: sequences of addresses
          Keys,       \* host keys, as fingerprints
          None

\* An address is [family |-> 4, octets |-> <<a, b, c>>] (the fourth octet decides
\* nothing), or [family |-> 6, kind |-> ..., octets |-> those of a mapped v4].
Octet == 0 .. 255
Addresses == [family : {4}, octets : Octet \X Octet \X Octet]
             \cup [family : {6}, kind : {"mapped", "local", "other"},
                   octets : Octet \X Octet \X Octet]

IsName(host) == host \in Names

ASSUME TransportAssumption ==
    /\ \A p \in Profiles :
          /\ p.chain \in Seq([host : Names \cup Addresses, pin : Keys \cup {None}])
          /\ p.chain # <<>>
    /\ \A answer \in Answers : answer \in Seq(Addresses) /\ answer # <<>>

VARIABLES profile,    \* the profile a connection is made for
          conn        \* the connection

link == <<profile, conn>>

Idle == [stage |-> "idle", hop |-> 0, address |-> None, key |-> None, handles |-> 0]

LinkInit == profile = None /\ conn = Idle

-----------------------------------------------------------------------------
(* The target policy                                                         *)

public_v4(o) ==
    LET a == o[1]
        b == o[2]
        c == o[3]
    IN  ~ \/ a \in {0, 10, 127} \/ a >= 224
          \/ a = 100 /\ b \in 64 .. 127
          \/ a = 169 /\ b = 254
          \/ a = 172 /\ b \in 16 .. 31
          \/ a = 192 /\ (b \in {0, 168} \/ (b = 88 /\ c = 99))
          \/ a = 198 /\ (b \in {18, 19} \/ (b = 51 /\ c = 100))
          \/ a = 203 /\ b = 0 /\ c = 113

is_public(ip) ==
    IF ip.family = 4 THEN public_v4(ip.octets)
    ELSE IF ip.kind = "mapped" THEN public_v4(ip.octets)
    ELSE ip.kind = "other"

validate_target(mode, ip) == mode = "cloud" => is_public(ip)

\* A hop that a bastion resolves must be a literal address in Cloud mode.
validate_remote_hop(mode, host) == ~IsName(host) /\ validate_target(mode, host)

\* Mutated form: the name is looked up again after the check.
ResolveTwice(mode, host) ==
    IF IsName(host)
    THEN {answer[1] : answer \in
             IF \E checked \in Answers :
                    \A n \in 1 .. Len(checked) : validate_target(mode, checked[n])
             THEN Answers ELSE {}}
    ELSE {ip \in {host} : validate_target(mode, ip)}

\* Every answer is checked, and the first one is the address to connect to.
resolve_direct(mode, host) ==
    IF IsName(host)
    THEN {answer[1] : answer \in
             {a \in Answers : \A n \in 1 .. Len(a) : validate_target(mode, a[n])}}
    ELSE {ip \in {host} : validate_target(mode, ip)}

\* Without a policy any of the addresses may be the one that answers.
Reachable(host) ==
    IF IsName(host) THEN UNION {{a[n] : n \in 1 .. Len(a)} : a \in Answers} ELSE {host}

-----------------------------------------------------------------------------
(* Connecting                                                                *)

\* AppConfig::validate_with_credentials.
Loads(p) == p.mode = "cloud" => p.host_key_mode = "strict"

Endpoint == profile.chain[conn.hop]

Stop == conn' = [conn EXCEPT !.stage = "failed"]

Connect ==
    /\ conn.stage = "idle"
    /\ \E p \in Profiles :
          /\ Loads(p)
          /\ profile' = p
          /\ conn' = IF p.mode = "cloud" /\ \E n \in 2 .. Len(p.chain) :
                            ~validate_remote_hop(p.mode, p.chain[n].host)
                     THEN [conn EXCEPT !.stage = "failed"]
                     ELSE [conn EXCEPT !.stage = "dial", !.hop = 1]

\* connect_direct for the first hop, connect_via_channel for the others, up to
\* the key the server shows; a connection that cannot be made is an error.
Dial ==
    /\ conn.stage = "dial"
    /\ \/ \E ip \in (IF conn.hop = 1 /\ profile.mode = "cloud"
                     THEN resolve_direct(profile.mode, Endpoint.host)
                     ELSE Reachable(Endpoint.host)), key \in Keys :
             conn' = [conn EXCEPT !.stage = "verify", !.address = ip, !.key = key]
       \/ Stop
    /\ UNCHANGED profile

\* ConfiguredHostKeyVerifier::verify.
Verify ==
    /\ conn.stage = "verify"
    /\ conn' = [conn EXCEPT !.stage =
                   IF \/ Endpoint.pin = conn.key
                      \/ Endpoint.pin = None /\ profile.host_key_mode = "insecure_compatibility"
                   THEN "authenticate" ELSE "failed"]
    /\ UNCHANGED profile

\* The server takes the password or the key, or it does not.  What led to an
\* established connection is of no further use.
Authenticate ==
    /\ conn.stage = "authenticate"
    /\ \/ /\ conn.hop < Len(profile.chain)
          /\ conn' = [Idle EXCEPT !.stage = "dial", !.hop = conn.hop + 1,
                                  !.handles = conn.handles + 1]
          /\ UNCHANGED profile
       \/ /\ conn.hop = Len(profile.chain)
          /\ conn' = [Idle EXCEPT !.stage = "up"]
          /\ profile' = None
       \/ Stop /\ UNCHANGED profile

\* disconnect closes every hop that was reached, the last one first.
Disconnect ==
    /\ conn.stage = "failed"
    /\ IF conn.handles > 0
       THEN conn' = [conn EXCEPT !.handles = @ - 1] /\ UNCHANGED profile
       ELSE conn' = [Idle EXCEPT !.stage = "closed"] /\ profile' = None

\* The connection breaks, at any hop.
Break ==
    /\ conn.stage = "up"
    /\ conn' = [conn EXCEPT !.stage = "closed"]
    /\ UNCHANGED profile

LinkStep == Connect \/ Dial \/ Verify \/ Authenticate \/ Disconnect \/ Break

-----------------------------------------------------------------------------
\* The blocks that are not for public destinations, as the first and the last
\* of their /24 networks.
Number(a, b, c) == (a * 256 + b) * 256 + c
Special ==
    {<<Number(0, 0, 0), Number(0, 255, 255)>>,        \* this network
     <<Number(10, 0, 0), Number(10, 255, 255)>>,      \* private
     <<Number(100, 64, 0), Number(100, 127, 255)>>,   \* shared address space
     <<Number(127, 0, 0), Number(127, 255, 255)>>,    \* loopback
     <<Number(169, 254, 0), Number(169, 254, 255)>>,  \* link-local
     <<Number(172, 16, 0), Number(172, 31, 255)>>,    \* private
     <<Number(192, 0, 0), Number(192, 0, 255)>>,      \* protocol assignments, TEST-NET-1
     <<Number(192, 88, 99), Number(192, 88, 99)>>,    \* 6to4 relays
     <<Number(192, 168, 0), Number(192, 168, 255)>>,  \* private
     <<Number(198, 18, 0), Number(198, 19, 255)>>,    \* benchmarking
     <<Number(198, 51, 100), Number(198, 51, 100)>>,  \* TEST-NET-2
     <<Number(203, 0, 113), Number(203, 0, 113)>>,    \* TEST-NET-3
     <<Number(224, 0, 0), Number(255, 255, 255)>>}    \* multicast and reserved

InSpecial(ip) ==
    LET n == Number(ip.octets[1], ip.octets[2], ip.octets[3])
    IN  \/ (ip.family = 4 \/ ip.kind = "mapped")
           /\ \E block \in Special : n \in block[1] .. block[2]
        \/ ip.family = 6 /\ ip.kind = "local"

\* A connection is what its profile says, at every hop, whatever the names
\* resolve to at the next lookup and whatever keys the servers show.  In Cloud
\* mode no hop is reached, by the gateway or by a bastion on its behalf, at an
\* address of a special block (docs/security-model.md: DNS is resolved once,
\* every address is checked, and one checked address is connected to), and the
\* policy refuses nothing else, up to the first and last networks of the blocks.
\* Credentials go to no server whose key differs from the hop's pin, nor, in
\* strict mode, to one without a pin: also not behind an unpinned first hop.
ConnectsAsConfigured ==
    /\ conn.address # None =>
          /\ profile.mode = "cloud" => ~InSpecial(conn.address)
          /\ ~InSpecial(conn.address) => is_public(conn.address)
    /\ conn.stage = "authenticate" =>
          \/ conn.key = Endpoint.pin
          \/ Endpoint.pin = None /\ profile.host_key_mode # "strict"

=============================================================================
