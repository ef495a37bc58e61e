------------------------------ MODULE MCConfig ------------------------------
(* Instances of ConfigStore for TLC.                                        *)
EXTENDS ConfigStore

CONSTANTS a, b, c, w1, w2

Key == [kind |-> None, fields |-> {"key_path"}]
Plain == [name |-> a, via |-> None, auth |-> None, target_auth |-> Key, bastions |-> <<>>,
          complete |-> TRUE, rules |-> <<>>]
Via(name, via) == [Plain EXCEPT !.name = name, !.via = via,
                                !.target_auth = IF via = None THEN Key ELSE None]
Bare == [profiles |-> <<Plain>>, tenants |-> <<>>, auth |-> "bearer", oauth_complete |-> FALSE,
         complete |-> TRUE, management |-> FALSE]
Holding(profiles) == [Bare EXCEPT !.profiles = profiles]
Managed(profiles) == [Holding(profiles) EXCEPT !.management = TRUE]

\* Three profiles with any names and any delegations.
Graphs ==
    {Holding(<<Via(n[1], v[1]), Via(n[2], v[2]), Via(n[3], v[3])>>) :
        n \in [1 .. 3 -> Names], v \in [1 .. 3 -> Names \cup {None}]}

\* One profile with any credentials, at the profile, at the target or at a bastion.
Credentials ==
    {Holding(<<[Plain EXCEPT !.auth = auth, !.target_auth = target, !.via = via]>>) :
        auth \in {Key, None}, target \in Auths \cup {None}, via \in {None, a}}
    \cup {Holding(<<[Plain EXCEPT !.bastions = <<bastion>>]>>) : bastion \in Auths \cup {None}}
    \cup {Holding(<<[Plain EXCEPT !.target_auth = None, !.auth = auth]>>) : auth \in Auths}

\* The other sections.
Sections ==
    {[Bare EXCEPT !.tenants = tenants, !.auth = auth, !.profiles = profiles,
                  !.oauth_complete = flags[1], !.complete = flags[2]] :
        flags \in BOOLEAN \X BOOLEAN,
        tenants \in {<<>>, <<a>>, <<a, b>>, <<a, b, a>>},
        auth \in {"bearer", "oauth_jwt", "basic"},
        profiles \in {<<>>, <<Plain>>, <<[Plain EXCEPT !.complete = FALSE]>>,
                      <<[Plain EXCEPT !.rules = <<a, b>>]>>, <<[Plain EXCEPT !.rules = <<a, a>>]>>}}

SomeSamples == Graphs \cup Credentials \cup Sections
SomeStarts == {Managed(<<Plain, Via(b, None)>>), Managed(<<Plain, Via(b, a)>>)}
SomeEdits == {Managed(<<Plain, Via(b, None)>>), Managed(<<Via(b, None)>>), Broken}
SomeRequests ==
    {[op |-> "create", profile |-> Via(c, b)], [op |-> "create", profile |-> Via(a, a)],
     [op |-> "delete", profile |-> Via(b, None)], [op |-> "delete", profile |-> Plain]}
=============================================================================
