---------------------------- MODULE OneShotConsent ----------------------------
(***************************************************************************)
(* What an approval promises, without tables, handlers or time. Consent is *)
(* asked for, and then either taken, once, or withdrawn. While it is taken *)
(* the operation may start, once. Closed is final.                         *)
(***************************************************************************)
EXTENDS Naturals

CONSTANT Ids

VARIABLES
    state,   \* where each consent is
    runs     \* operations started under it

States == {"unasked", "asked", "taken", "closed"}

Init ==
    /\ state = [id \in Ids |-> "unasked"]
    /\ runs = [id \in Ids |-> 0]

Moves == {<<"unasked", "asked">>, <<"asked", "taken">>, <<"asked", "closed">>,
          <<"taken", "closed">>}

(* One transaction may close several consents: expiry does. *)
Move ==
    /\ state' \in [Ids -> States]
    /\ \A id \in Ids :
          state'[id] # state[id] => <<state[id], state'[id]>> \in Moves
    /\ UNCHANGED runs

Start(id) ==
    /\ state[id] = "taken"
    /\ runs[id] = 0
    /\ runs' = [runs EXCEPT ![id] = 1]
    /\ UNCHANGED state

Next == Move \/ \E id \in Ids : Start(id)

Spec == Init /\ [][Next]_<<state, runs>>

=============================================================================
