---------------------------- MODULE ApprovalTable ----------------------------
(***************************************************************************)
(* The approvals table of approval.rs and its SQL statements, as functions *)
(* from a table and the current time to a table.                           *)
(*                                                                         *)
(* Every public operation first runs expire() and then a statement that    *)
(* tests expires_at again, so applying both at one instant loses nothing.  *)
(***************************************************************************)
EXTENDS RequestModel

CONSTANTS
    ApprovalIds,   \* the uuids this instance may draw
    ApprovalTtl    \* approval.ttl_seconds

OpenApproval == {"pending", "executing"}
SettledApproval == {"executed", "failed", "rejected", "expired"}

ApprovalRow ==
    [status     : OpenApproval \cup SettledApproval \cup {"absent"},
     expires_at : Nat,
     request    : Maybe(Requests),
     hash       : Maybe(Hashes),
     rule_id    : Maybe(Rules),
     risk       : Maybe(Risks),
     ns         : Maybe(Namespaces)]

ASSUME ApprovalAssumption ==
    /\ ApprovalTtl \in Nat
    /\ None \notin ApprovalIds
    /\ None \notin ApprovalRow

ApprovalTables == [ApprovalIds -> ApprovalRow]

\* No row: never inserted, or deleted by cleanup.
NoApproval ==
    [status |-> "absent", expires_at |-> 0, request |-> None, hash |-> None,
     rule_id |-> None, risk |-> None, ns |-> None]

create(r, decision, hash, ns, now) ==
    [status |-> "pending", expires_at |-> now + ApprovalTtl, request |-> r,
     hash |-> hash, rule_id |-> decision.rule_id, risk |-> decision.risk,
     ns |-> ns]

expire(table, now) ==
    [id \in ApprovalIds |->
        IF table[id].status = "pending" /\ table[id].expires_at =< now
        THEN [table[id] EXCEPT !.status = "expired"]
        ELSE table[id]]

\* Mutated form: the status of the row is not tested.
LiveWhateverItsStatus(table, id, now) ==
    table[id].status # "absent" /\ table[id].expires_at > now

\* Mutated form: a row that has expired can still be claimed.
LiveAfterExpiry(table, id, now) == table[id].status \in {"pending", "expired"}

(* The WHERE clause of the SELECT in claim and of the UPDATE in reject. The *)
(* namespace test of claim is vacuous here: only a human reaches claim, and *)
(* a human's configuration has no authorization namespace.                  *)
Live(table, id, now) ==
    /\ table[id].status = "pending"
    /\ table[id].expires_at > now

claim(table, id) == [table EXCEPT ![id].status = "executing"]

reject(table, id) == [table EXCEPT ![id].status = "rejected"]

\* Mutated form: every outcome is recorded as a success.
FinishAlwaysExecuted(table, id, ok) ==
    IF table[id].status = "executing"
    THEN [table EXCEPT ![id].status = "executed"]
    ELSE table

(* finish ignores the number of rows its UPDATE changed. *)
finish(table, id, ok) ==
    IF table[id].status = "executing"
    THEN [table EXCEPT ![id].status = IF ok THEN "executed" ELSE "failed"]
    ELSE table

\* Mutated form: cleanup also removes approvals that are being executed.
CleanupAllButPending(table, now) ==
    LET marked == expire(table, now)
    IN  [id \in ApprovalIds |->
            IF marked[id].status # "pending" THEN NoApproval ELSE marked[id]]

cleanup(table, now) ==
    LET marked == expire(table, now)
    IN  [id \in ApprovalIds |->
            IF marked[id].status \in SettledApproval
            THEN NoApproval
            ELSE marked[id]]

=============================================================================
