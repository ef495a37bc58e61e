------------------------------- MODULE PlanTable -------------------------------
(***************************************************************************)
(* The execution_plans table of grant.rs and its SQL statements.           *)
(***************************************************************************)
EXTENDS RequestModel

CONSTANTS
    PlanIds,     \* the uuids this instance may draw
    PlanTtl,     \* min(approval.ttl_seconds, approval.grants.max_ttl_seconds)
    Lease        \* plan_claim_lease_seconds of each request

ASSUME PlanAssumption ==
    /\ PlanTtl \in Nat
    /\ Lease \in [Requests -> Nat]
    /\ None \notin PlanIds

PlanRow ==
    [status           : {"absent", "pending", "approved", "executing",
                         "completed", "failed", "rejected", "expired"},
     profile          : Maybe(Profiles),
     task             : Maybe(Tasks),
     ns               : Maybe(Namespaces),
     actions          : Seq(Requests),
     hash             : Seq(Hashes),
     created_at       : Nat,
     expires_at       : Nat,
     next_index       : Nat,
     claimed_index    : Maybe(Nat),
     claim_expires_at : Maybe(Nat)]

PlanTables == [PlanIds -> PlanRow]

NoPlan ==
    [status |-> "absent", profile |-> None, task |-> None, ns |-> None,
     actions |-> <<>>, hash |-> <<>>, created_at |-> 0, expires_at |-> 0,
     next_index |-> 0, claimed_index |-> None, claim_expires_at |-> None]

plan_hash(actions, files) ==
    [i \in 1..Len(actions) |-> request_hash(actions[i], files)]

(* request_profile of grant.rs knows no profile for a mutation, so a plan   *)
(* can hold none.                                                           *)
Plannable(actions, profile) ==
    /\ actions # <<>>
    /\ \A i \in 1..Len(actions) :
          actions[i] \notin Mutations /\ ProfileOf[actions[i]] = profile

propose_plan(profile, task, ns, actions, files, now) ==
    [status |-> "pending", profile |-> profile, task |-> task, ns |-> ns,
     actions |-> actions, hash |-> plan_hash(actions, files),
     created_at |-> now, expires_at |-> now + PlanTtl, next_index |-> 0,
     claimed_index |-> None, claim_expires_at |-> None]

\* Mutated form: a lapsed lease releases the action instead of failing the plan.
ExpirePlansReleasingClaims(table, now) ==
    [p \in PlanIds |->
        IF /\ table[p].status = "executing"
           /\ table[p].claim_expires_at # None
           /\ table[p].claim_expires_at =< now
        THEN [table[p] EXCEPT !.status = "approved", !.claimed_index = None,
                              !.claim_expires_at = None]
        ELSE table[p]]

(* A lapsed lease fails the plan; a plan that waits is expired by its own   *)
(* deadline, a plan that executes is not.                                   *)
expire_plans(table, now) ==
    [p \in PlanIds |->
        IF /\ table[p].status = "executing"
           /\ table[p].claim_expires_at # None
           /\ table[p].claim_expires_at =< now
        THEN [table[p] EXCEPT !.status = "failed", !.claimed_index = None,
                              !.claim_expires_at = None]
        ELSE IF table[p].status \in {"pending", "approved"}
                /\ table[p].expires_at =< now
             THEN [table[p] EXCEPT !.status = "expired"]
             ELSE table[p]]

approve_plan(table, p) == [table EXCEPT ![p].status = "approved"]

reject_plan(table, p) == [table EXCEPT ![p].status = "rejected"]

(* The SELECT of claim_plan_action: the newest live plan of the task; plans *)
(* created in the same second tie.                                          *)
CurrentPlans(table, profile, task, ns, now) ==
    LET live == {p \in PlanIds :
                    /\ table[p].profile = profile
                    /\ table[p].task = task
                    /\ table[p].ns = ns
                    /\ table[p].status \in {"approved", "executing"}
                    /\ table[p].expires_at > now}
    IN  {p \in live : \A q \in live : table[q].created_at =< table[p].created_at}

(* The tests claim_plan_action makes on the row before its UPDATE: nothing  *)
(* is claimed, the stored actions still hash to the stored hash, and the    *)
(* request is the next action.                                              *)
PlanClaimable(row, r, files) ==
    /\ row.claimed_index = None
    /\ \A i \in 1..Len(row.actions) : Hashable(row.actions[i], files)
    /\ plan_hash(row.actions, files) = row.hash
    /\ row.next_index < Len(row.actions)
    /\ request_hash(row.actions[row.next_index + 1], files) = request_hash(r, files)

\* Mutated form: the claim has no lease.
ClaimWithoutLease(table, p, r, now) ==
    [table EXCEPT ![p].status = "executing",
                  ![p].claimed_index = table[p].next_index]

claim_plan_action(table, p, r, now) ==
    [table EXCEPT ![p] =
        [@ EXCEPT !.status = "executing", !.claimed_index = table[p].next_index,
                  !.claim_expires_at = now + Lease[r]]]

\* The WHERE clause of finish_plan_action: the caller still holds the claim.
HoldsClaim(row, index) == row.status = "executing" /\ row.claimed_index = index

\* Mutated form: a failed action leaves the plan approved, to be tried again.
FinishRetryingFailures(table, p, index, ok) ==
    [table EXCEPT
        ![p].status = IF ok /\ index + 1 >= Len(table[p].actions)
                      THEN "completed" ELSE "approved",
        ![p].next_index = IF ok THEN @ + 1 ELSE @,
        ![p].claimed_index = None,
        ![p].claim_expires_at = None]

\* Mutated form: the plan does not move on.
FinishWithoutAdvancing(table, p, index, ok) ==
    [table EXCEPT
        ![p].status = IF ~ok THEN "failed" ELSE "approved",
        ![p].claimed_index = None,
        ![p].claim_expires_at = None]

finish_plan_action(table, p, index, ok) ==
    [table EXCEPT ![p] =
        [@ EXCEPT !.status = IF ~ok THEN "failed"
                             ELSE IF index + 1 >= Len(table[p].actions)
                                  THEN "completed" ELSE "approved",
                  !.next_index = IF ok THEN table[p].next_index + 1
                                 ELSE table[p].next_index,
                  !.claimed_index = None, !.claim_expires_at = None]]

=============================================================================
