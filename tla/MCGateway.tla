------------------------------ MODULE MCGateway ------------------------------
(***************************************************************************)
(* Small instances of Gateway.                                             *)
(***************************************************************************)
EXTENDS Gateway, TLC

CONSTANTS
    root, inner, leaf,    \* profiles
    d1, d2,               \* definitions
    n1, n2,               \* namespaces
    w1, w2, w3, admin, operator, maintenance

\* inner is delegated to root, leaf to inner.
Chain == [p \in Profiles |-> CASE p = root -> None [] p = inner -> root [] OTHER -> inner]

AllOn1 == [p \in Profiles |-> d1]
EveryProfile == {AllOn1}
WithoutLeaf == {[AllOn1 EXCEPT ![leaf] = None]}

OneNamespace == [w \in Workers |-> n1]
TwoNamespaces == [w \in Workers |-> IF w = w3 THEN n2 ELSE n1]

SessionDuties ==
    [w \in Workers |->
        IF w = w1 THEN {"exec", "session_close"} ELSE {"exec"}]
MutationDuties ==
    [w \in Workers |->
        CASE w = admin -> {"delete"}
          [] w = operator -> {"create"}
          [] w = w1 -> {"exec", "transfer"}
          [] OTHER -> {"exec"}]
LockDuties ==
    [w \in Workers |->
        CASE w = admin -> {"delete"}
          [] w = maintenance -> {"reap", "shutdown"}
          [] OTHER -> {"exec", "tunnel_open", "tunnel_close", "session_close"}]

=============================================================================
