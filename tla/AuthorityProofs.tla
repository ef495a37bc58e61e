--------------------------- MODULE AuthorityProofs ---------------------------
(***************************************************************************)
(* What a handler may run, for any policies, grants, plans and requests:   *)
(* nothing the policy denied all along, nothing its authority does not     *)
(* cover, no claim or use after the deadline, and no more uses of a grant  *)
(* than it was issued with.                                                *)
(*                                                                         *)
(* No statement updates the columns a row was issued with (ApprovalsKept,  *)
(* GrantsKept, PlansKept), so a check at the claim still holds at the run: *)
(* AuthorityInv says of a handler that acts that the row it was given      *)
(* covers its request, and of an issued row that a person consented to it. *)
(* The budget needs to count the handlers that consumed a use and have not *)
(* started: BudgetInv bounds the uses spent, started or not, by the        *)
(* counter while the row is there, and by the limit after it is gone.      *)
(***************************************************************************)
EXTENDS ClaimProofs, FiniteSetTheorems

-----------------------------------------------------------------------------
(* Rows keep what they were issued with                                      *)

\* The columns no statement ever updates.
SameApproval(row, first) ==
    /\ row.request = first.request /\ row.rule_id = first.rule_id
    /\ row.risk = first.risk /\ row.ns = first.ns /\ row.expires_at = first.expires_at

SameGrant(row, first) ==
    /\ row.profile = first.profile /\ row.rule_id = first.rule_id
    /\ row.task = first.task /\ row.ns = first.ns
    /\ row.expires_at = first.expires_at /\ row.max_uses = first.max_uses

\* An expiry changes the status and nothing else.
LEMMA ExpireApprovalColumns ==
    ASSUME NEW table \in ApprovalTables, NEW t \in Nat, NEW id \in ApprovalIds
    PROVE  /\ SameApproval(expire(table, t)[id], table[id])
           /\ expire(table, t)[id].status \in {table[id].status, "expired"}
           /\ expire(table, t)[id].status = "expired" => table[id].status # "absent"
                                                         \/ table[id].status = "expired"
BY DEF expire, ApprovalTables, ApprovalRow, SameApproval

\* So does that of a grant, which it neither brings back nor spends.
LEMMA ExpireGrantColumns ==
    ASSUME NEW table \in GrantTables, NEW t \in Nat, NEW g \in GrantIds
    PROVE  LET new == expire_grants(table, t)[g]
           IN  /\ SameGrant(new, table[g])
               /\ new.used_count = table[g].used_count
               /\ new.status = "absent" <=> table[g].status = "absent"
               /\ new.status = "active" => table[g].status = "active"
<1>1. table[g] \in GrantRow
  BY DEF GrantTables
<1> QED BY <1>1 DEF expire_grants, GrantRow, SameGrant

\* The decision that stands in for a policy's, on the request of a mutation.
LEMMA MutationDecisionType == MutationDecision \in Decisions
BY DEF MutationDecision, Decisions, Effects, Risks, Maybe

\* Whatever a step does to the approvals, a row that exists after it is the row
\* that was there, up to its status, or the one the step issued.
LEMMA ApprovalsKept ==
    ASSUME Shape, Next, NEW id \in ApprovalIds, approvals'[id].status # "absent"
    PROVE  \/ /\ approvals[id].status # "absent" /\ SameApproval(approvals'[id], approvals[id])
           \/ /\ issued[id] = None /\ issued'[id] = approvals'[id] /\ issued'[id] # None
<1>a. /\ approvals \in ApprovalTables /\ expire(approvals, now) \in ApprovalTables
      /\ issued \in [ApprovalIds \cup GrantIds -> Maybe(ApprovalRow \cup GrantRow)]
  BY ApprovalTypes DEF Shape, TypeOK
<1> DEFINE Kept == approvals[id].status # "absent" /\ SameApproval(approvals'[id], approvals[id])
<1>b. ASSUME NEW table \in {approvals, expire(approvals, now)}
      PROVE  /\ SameApproval(table[id], approvals[id])
             /\ table[id].status # "absent" => approvals[id].status # "absent"
  BY ExpireApprovalColumns, ExpireShape DEF SameApproval, Shape, TypeOK
<1>c. ASSUME approvals' \in {approvals, expire(approvals, now)}
      PROVE  Kept
  BY <1>b, <1>c
<1>d. ASSUME NEW k \in ApprovalIds, NEW s, NEW table \in {approvals, expire(approvals, now)},
             approvals[k].status # "absent", approvals' = [table EXCEPT ![k].status = s]
      PROVE  Kept
  <2>1. SameApproval(approvals'[id], table[id]) /\ (k # id => approvals'[id] = table[id])
    BY <1>a, <1>d DEF ApprovalTables, ApprovalRow, SameApproval
  <2> QED BY <1>b, <1>d, <2>1 DEF SameApproval
<1>e. ASSUME NEW k \in ApprovalIds, NEW ok \in BOOLEAN, approvals' = finish(approvals, k, ok)
      PROVE  Kept
  <2>1. CASE approvals' = approvals
    BY <1>b, <2>1
  <2>2. CASE approvals[k].status = "executing"
    BY <1>d, <1>e, <2>2 DEF finish
  <2> QED BY <1>e, <2>1, <2>2 DEF finish
<1>1. ASSUME NEW a \in Agents, AgentStep(a)
      PROVE  Kept \/ (issued[id] = None /\ issued'[id] = approvals'[id] /\ issued'[id] # None)
  <2>1. ASSUME NEW k \in FreshApprovals, NEW row \in ApprovalRow,
               approvals' = [approvals EXCEPT ![k] = row], issued' = [issued EXCEPT ![k] = row]
        PROVE  Kept \/ (issued[id] = None /\ issued'[id] = approvals'[id] /\ issued'[id] # None)
    <3>1. row # None
      BY ApprovalAssumption
    <3>2. CASE k = id
      BY <1>a, <2>1, <3>1, <3>2 DEF FreshApprovals, ApprovalTables
    <3>3. CASE k # id
      BY <1>a, <1>b, <2>1, <3>3 DEF FreshApprovals, ApprovalTables
    <3> QED BY <3>2, <3>3
  <2>2. CASE CreateApproval(a)
    <3> DEFINE row == create(job[a].request, job[a].decision,
                             request_hash(job[a].request, files), job[a].ns, now)
    <3>1. a \in Handlers /\ pc[a] = "create" /\ job[a] \in Jobs /\ AgentShape(pc[a], job[a])
      BY <2>2 DEF CreateApproval, Shape, TypeOK, JobShape, Handlers
    <3>2. /\ job[a].request \in Requests /\ job[a].decision \in Decisions
          /\ job[a].ns \in Namespaces
      BY <3>1 DEF AgentShape, Jobs
    <3>3. row \in ApprovalRow
      BY <3>2, HashType, NewApprovalType DEF Shape, TypeOK
    <3> HIDE DEF row
    <3>4. \/ UNCHANGED approvals
          \/ \E k \in FreshApprovals : /\ approvals' = [approvals EXCEPT ![k] = row]
                                       /\ issued' = [issued EXCEPT ![k] = row]
      BY <2>2 DEF CreateApproval, row
    <3> QED BY <1>c, <2>1, <3>3, <3>4
  <2>3. ASSUME NEW r \in Requests, NEW ns \in Namespaces, RequestMutation(a, r, ns)
        PROVE  Kept \/ (issued[id] = None /\ issued'[id] = approvals'[id] /\ issued'[id] # None)
    <3> DEFINE row == create(r, MutationDecision, request_hash(r, files), ns, now)
    <3>1. row \in ApprovalRow
      BY MutationDecisionType, AuthorizationAssumption, HashType, NewApprovalType
         DEF Shape, TypeOK
    <3> HIDE DEF row
    <3>2. \E k \in FreshApprovals : /\ approvals' = [approvals EXCEPT ![k] = row]
                                    /\ issued' = [issued EXCEPT ![k] = row]
      BY <2>3 DEF RequestMutation, row
    <3> QED BY <2>1, <3>1, <3>2
  <2> QED BY <1>1, <1>c, <2>2, <2>3 DEF AgentStep, Submit, ClaimPlan, Consume, ProposePlan,
                                        AgentFinish, tables
<1>2. ASSUME NEW h \in Humans, HumanStep(h)
      PROVE  Kept
  <2>1. pc[h] # "idle" => job[h].ref \in ApprovalIds
    BY DEF Shape, JobShape, HumanShape
  <2>2. CASE ApproveClaim(h)
    <3> DEFINE k == job[h].ref
               marked == expire(approvals, now)
    <3>1. k \in ApprovalIds
      BY <2>1, <2>2 DEF ApproveClaim
    <3>2. CASE approvals' = marked
      BY <1>b, <3>2
    <3>3. CASE Live(marked, k, now) /\ approvals' = claim(marked, k)
      <4>1. approvals[k].status # "absent"
        BY <3>1, <3>3, ExpireShape DEF Live, Shape, TypeOK
      <4> QED BY <1>d, <3>1, <3>3, <4>1 DEF claim
    <3> QED BY <2>2, <3>2, <3>3, Zenon DEF ApproveClaim
  <2>3. CASE approvals' \in {approvals, expire(approvals, now)}
    BY <1>b, <2>3
  <2> QED BY <1>2, <1>e, <2>1, <2>2, <2>3
          DEF HumanStep, ApproveBegin, ApproveVerify, ApproveAuthorize, ApproveGrant,
              ApproveAudit, ApproveFinish, ApproveReport, FailApproval
<1>3. CASE AdminStep
  <2>1. ASSUME NEW k \in ApprovalIds, RejectApproval(k)
        PROVE  Kept
    BY <1>d, <2>1 DEF RejectApproval, Live, reject
  <2>2. CASE CleanupApprovals
    BY <1>b, <2>2 DEF CleanupApprovals, cleanup, NoApproval
  <2> QED BY <1>3, <1>c, <2>1, <2>2 DEF AdminStep, ListApprovals, RevokeGrant,
             CleanupGrants, ListGrants, ApprovePlan, RejectPlan, ListPlans
<1>4. CASE UNCHANGED approvals
  BY <1>4, <1>c
<1> QED BY <1>1, <1>2, <1>3, <1>4 DEF Next, EnvironmentStep, Tick, EditFile, EditPolicy,
           Execute, Deliver, StorageFails, Crash, tables

\* An agent takes one use of a grant, which is live and below its limit.
TakesGrant(a, g) ==
    /\ pc[a] = "consume" /\ pc'[a] = "ready"
    /\ job'[a].via = "grant" /\ job'[a].ref = g
    /\ grants[g].status = "active"
    /\ grants[g].expires_at > now
    /\ grants[g].used_count < grants[g].max_uses
    /\ grants'[g].used_count = grants[g].used_count + 1
    /\ grants'[g].status \in {"active", "exhausted"}
    /\ g \in Usable(expire_grants(grants, now), ProfileOf[job[a].request],
                    job[a].decision.rule_id, job[a].task, job[a].ns, now)

\* That is what Consume does to the grant it chooses, and it touches no other.
LEMMA TakingGrant ==
    ASSUME Shape, NEW a \in Agents, Consume(a), NEW g,
           g \in FirstChoice(expire_grants(grants, now),
                             Usable(expire_grants(grants, now), ProfileOf[job[a].request],
                                    job[a].decision.rule_id, job[a].task, job[a].ns, now)),
           grants' = consume(expire_grants(grants, now), g), Goto(a, "ready"),
           job' = [job EXCEPT ![a] = [@ EXCEPT !.via = "grant", !.ref = g]]
    PROVE  /\ TakesGrant(a, g)
           /\ SameGrant(grants'[g], grants[g])
           /\ \A k \in GrantIds \ {g} : grants'[k] = expire_grants(grants, now)[k]
<1> DEFINE marked == expire_grants(grants, now)
<1>a. marked \in GrantTables /\ a \in Handlers /\ job[a] \in Jobs
  BY GrantTypes DEF Handlers, Shape, TypeOK
<1>1. g \in Usable(marked, ProfileOf[job[a].request], job[a].decision.rule_id,
                   job[a].task, job[a].ns, now)
  BY DEF FirstChoice
<1>2. /\ g \in GrantIds /\ marked[g].status = "active" /\ marked[g].expires_at > now
      /\ marked[g].used_count < marked[g].max_uses
  BY <1>1 DEF Usable
<1>3. /\ SameGrant(grants'[g], marked[g])
      /\ grants'[g].used_count = marked[g].used_count + 1
      /\ grants'[g].status \in {"active", "exhausted"}
      /\ \A k \in GrantIds \ {g} : grants'[k] = marked[k]
  BY <1>a, <1>2 DEF consume, GrantTables, GrantRow, SameGrant
<1>4. /\ SameGrant(marked[g], grants[g]) /\ marked[g].used_count = grants[g].used_count
      /\ grants[g].status = "active"
  BY <1>2, ExpireGrantColumns DEF Shape, TypeOK
<1>5. /\ pc[a] = "consume" /\ pc'[a] = "ready"
      /\ job'[a].via = "grant" /\ job'[a].ref = g
  <2>1. pc[a] = "consume" /\ pc'[a] = "ready"
    BY <1>a DEF Consume, Goto, Shape, TypeOK
  <2>2. job'[a] = [job[a] EXCEPT !.via = "grant", !.ref = g]
    BY <1>a DEF Shape, TypeOK
  <2> QED BY <1>a, <2>1, <2>2, FoundSets DEF Shape, TypeOK
<1> HIDE DEF marked
<1>6. TakesGrant(a, g)
  BY <1>1, <1>2, <1>3, <1>4, <1>5 DEF TakesGrant, SameGrant, marked
<1> QED BY <1>3, <1>4, <1>6 DEF SameGrant, marked

\* A grant that exists after a step is the one that was there, up to its status
\* and to a use that an agent takes, or one derived in this step from an
\* approval that its handler holds.
LEMMA GrantsKept ==
    ASSUME Shape, Next, NEW g \in GrantIds, grants'[g].status # "absent"
    PROVE  \/ /\ grants[g].status # "absent" /\ SameGrant(grants'[g], grants[g])
              /\ \/ grants'[g].used_count = grants[g].used_count
                 \/ \E a \in Agents : TakesGrant(a, g)
           \/ /\ issued[g] = None /\ issued'[g] = grants'[g]
              /\ issued'[g] \in GrantRow /\ grants'[g].used_count = 0
              /\ \E h \in Humans :
                   /\ pc[h] = "grant"
                   /\ validate_grant_source(approvals[job[h].ref], job[h].want, "executing",
                                            job[h].decision.rule_id)
                   /\ grants'[g] = create_from_status(job[h].ref, approvals[job[h].ref],
                                                      job[h].want, now)
<1>a. /\ grants \in GrantTables /\ expire_grants(grants, now) \in GrantTables
      /\ issued \in [ApprovalIds \cup GrantIds -> Maybe(ApprovalRow \cup GrantRow)]
  BY GrantTypes DEF Shape, TypeOK
<1> DEFINE Kept == /\ grants[g].status # "absent" /\ SameGrant(grants'[g], grants[g])
                   /\ \/ grants'[g].used_count = grants[g].used_count
                      \/ \E a \in Agents : TakesGrant(a, g)
<1>b. ASSUME NEW table \in {grants, expire_grants(grants, now)}
      PROVE  /\ SameGrant(table[g], grants[g]) /\ table[g].used_count = grants[g].used_count
             /\ table[g].status = "absent" <=> grants[g].status = "absent"
  BY ExpireGrantColumns DEF SameGrant, Shape, TypeOK
<1>c. ASSUME grants' \in {grants, expire_grants(grants, now)}
      PROVE  Kept
  BY <1>b, <1>c
<1>1. ASSUME NEW a \in Agents, AgentStep(a)
      PROVE  Kept
  <2>1. CASE Consume(a)
    <3> DEFINE marked == expire_grants(grants, now)
               usable == Usable(marked, ProfileOf[job[a].request], job[a].decision.rule_id,
                                job[a].task, job[a].ns, now)
    <3>1. CASE grants' = marked
      BY <1>b, <3>1
    <3>2. ASSUME NEW k \in FirstChoice(marked, usable), grants' = consume(marked, k),
                 job' = [job EXCEPT ![a] = [@ EXCEPT !.via = "grant", !.ref = k]],
                 Goto(a, "ready")
          PROVE  Kept
      <4>1. /\ TakesGrant(a, k) /\ SameGrant(grants'[k], grants[k])
            /\ \A g1 \in GrantIds \ {k} : grants'[g1] = marked[g1]
        BY <2>1, <3>2, TakingGrant
      <4>2. CASE k # g
        BY <1>b, <4>1, <4>2
      <4>3. CASE k = g
        BY <4>1, <4>3 DEF TakesGrant
      <4> QED BY <4>2, <4>3
    <3> QED BY <2>1, <3>1, <3>2, Zenon DEF Consume
  <2>2. ASSUME NEW outcome \in {"ok", "failed", "error"}, AgentFinish(a, outcome)
        PROVE  Kept
    BY <1>c, <2>2 DEF AgentFinish
  <2> QED BY <1>1, <1>c, <2>1, <2>2 DEF AgentStep, Submit, ClaimPlan, CreateApproval,
                                        RequestMutation, ProposePlan, tables
<1>2. ASSUME NEW h \in Humans, ApproveGrant(h)
      PROVE  \/ Kept
             \/ /\ issued[g] = None /\ issued'[g] = grants'[g]
                /\ issued'[g] \in GrantRow /\ grants'[g].used_count = 0
                /\ validate_grant_source(approvals[job[h].ref], job[h].want, "executing",
                                         job[h].decision.rule_id)
                /\ grants'[g] = create_from_status(job[h].ref, approvals[job[h].ref],
                                                   job[h].want, now)
  <2> DEFINE row == approvals[job[h].ref]
             new == create_from_status(job[h].ref, row, job[h].want, now)
  <2>1. CASE grants' = grants
    BY <1>c, <2>1
  <2>2. ASSUME NEW k \in FreshGrants,
               validate_grant_source(row, job[h].want, "executing", job[h].decision.rule_id),
               grants' = [grants EXCEPT ![k] = new], issued' = [issued EXCEPT ![k] = new]
        PROVE  \/ Kept
               \/ /\ issued[g] = None /\ issued'[g] = grants'[g]
                  /\ issued'[g] \in GrantRow /\ grants'[g].used_count = 0
                  /\ grants'[g] = new
    <3>1. CASE k # g
      <4>1. grants'[g] = grants[g]
        BY <1>a, <2>2, <3>1 DEF FreshGrants, GrantTables
      <4> QED BY <1>b, <4>1
    <3>2. CASE k = g
      <4>a. job[h] \in Jobs /\ HumanShape("grant", job[h])
        BY <1>2 DEF ApproveGrant, Shape, TypeOK, JobShape, Handlers
      <4>0. job[h].ref \in ApprovalIds /\ job[h].want \in GrantOptions
        BY <4>a DEF HumanShape, Jobs, Maybe
      <4>1. row \in ApprovalRow /\ row.request \in Requests
        BY <2>2, <4>0 DEF validate_grant_source, Shape, TypeOK, RowShape, ApprovalTables
      <4>2. new \in GrantRow /\ new.used_count = 0
        BY <4>0, <4>1, NewGrantType DEF create_from_status, Shape, TypeOK
      <4> HIDE DEF new
      <4>3. issued[g] = None /\ issued'[g] = new /\ grants'[g] = new
        BY <1>a, <2>2, <3>2 DEF FreshGrants, GrantTables
      <4> QED BY <4>2, <4>3
    <3> QED BY <3>1, <3>2
  <2> QED BY <1>2, <2>1, <2>2, Zenon DEF ApproveGrant
<1>3. ASSUME NEW h \in Humans, HumanStep(h), ~ApproveGrant(h)
      PROVE  Kept
  BY <1>3, <1>c DEF HumanStep, ApproveBegin, ApproveClaim, ApproveVerify, ApproveAuthorize,
                    ApproveAudit, ApproveFinish, ApproveReport
<1>4. CASE AdminStep
  <2>1. ASSUME NEW k \in GrantIds, RevokeGrant(k)
        PROVE  Kept
    <3>1. SameGrant(grants'[g], grants[g]) /\ grants'[g].used_count = grants[g].used_count
      BY <1>a, <2>1 DEF RevokeGrant, revoke, GrantTables, GrantRow, SameGrant
    <3>2. grants[g].status # "absent"
      BY <1>a, <2>1 DEF RevokeGrant, revoke, GrantTables
    <3> QED BY <3>1, <3>2
  <2>2. CASE CleanupGrants
    BY <1>b, <2>2 DEF CleanupGrants, cleanup_grants, NoGrant
  <2> QED BY <1>4, <1>c, <2>1, <2>2 DEF AdminStep, RejectApproval, CleanupApprovals,
             ListApprovals, ListGrants, ApprovePlan, RejectPlan, ListPlans
<1>5. CASE UNCHANGED grants
  BY <1>5, <1>c
<1> HIDE DEF Kept
<1>6. ASSUME NEW h \in Humans, HumanStep(h), ApproveGrant(h)
      PROVE  \/ Kept
             \/ /\ issued[g] = None /\ issued'[g] = grants'[g]
                /\ issued'[g] \in GrantRow /\ grants'[g].used_count = 0
                /\ \E x \in Humans :
                     /\ pc[x] = "grant"
                     /\ validate_grant_source(approvals[job[x].ref], job[x].want, "executing",
                                              job[x].decision.rule_id)
                     /\ grants'[g] = create_from_status(job[x].ref, approvals[job[x].ref],
                                                        job[x].want, now)
  <2>1. pc[h] = "grant"
    BY <1>6 DEF ApproveGrant
  <2> QED BY <1>2, <1>6, <2>1, Zenon
<1>7. Kept => \/ /\ grants[g].status # "absent" /\ SameGrant(grants'[g], grants[g])
                 /\ \/ grants'[g].used_count = grants[g].used_count
                    \/ \E a \in Agents : TakesGrant(a, g)
  BY DEF Kept
<1>8. ASSUME NEW h \in Humans, HumanStep(h)
      PROVE  \/ Kept
             \/ /\ issued[g] = None /\ issued'[g] = grants'[g]
                /\ issued'[g] \in GrantRow /\ grants'[g].used_count = 0
                /\ \E x \in Humans :
                     /\ pc[x] = "grant"
                     /\ validate_grant_source(approvals[job[x].ref], job[x].want, "executing",
                                              job[x].decision.rule_id)
                     /\ grants'[g] = create_from_status(job[x].ref, approvals[job[x].ref],
                                                        job[x].want, now)
  BY <1>3, <1>6, <1>8, Zenon
<1> QED BY <1>1, <1>4, <1>5, <1>7, <1>8
        DEF Next, EnvironmentStep, Tick, EditFile, EditPolicy,
            Execute, Deliver, StorageFails, Crash, tables

\* What a plan was proposed with never changes.
LEMMA PlansKept ==
    ASSUME Shape, Next, NEW p \in PlanIds, plans[p].status # "absent"
    PROVE  /\ plans'[p].task = plans[p].task /\ plans'[p].ns = plans[p].ns
           /\ plans'[p].actions = plans[p].actions
<1>a. plans \in PlanTables /\ expire_plans(plans, now) \in PlanTables
  BY PlanTypes DEF Shape, TypeOK
<1>0. plans \in PlanTables /\ now \in Nat
  BY DEF Shape, TypeOK
<1>b. /\ expire_plans(plans, now)[p].task = plans[p].task
      /\ expire_plans(plans, now)[p].ns = plans[p].ns
      /\ expire_plans(plans, now)[p].actions = plans[p].actions
  BY <1>0, ExpirePlanShape
<1> DEFINE Kept == /\ plans'[p].task = plans[p].task /\ plans'[p].ns = plans[p].ns
                   /\ plans'[p].actions = plans[p].actions
<1>1. ASSUME plans' \in {plans, expire_plans(plans, now)}
      PROVE  Kept
  BY <1>1, <1>b
<1>2. ASSUME NEW q \in PlanIds, NEW s, NEW table \in {plans, expire_plans(plans, now)},
             plans' = [table EXCEPT ![q].status = s]
      PROVE  Kept
  <2>1. table \in PlanTables /\ table[p] \in PlanRow
    BY <1>a DEF PlanTables
  <2>2. plans'[p] = IF p = q THEN [table[p] EXCEPT !.status = s] ELSE table[p]
    BY <1>2, <2>1 DEF PlanTables
  <2>3. LET new == [table[p] EXCEPT !.status = s]
        IN  /\ new.task = table[p].task /\ new.ns = table[p].ns
            /\ new.actions = table[p].actions
    BY <2>1 DEF PlanRow
  <2> QED BY <1>b, <2>2, <2>3
<1>3. ASSUME NEW a \in Agents, AgentStep(a)
      PROVE  Kept
  <2>1. ASSUME NEW q \in PlanIds, NEW x, NEW y,
               plans' = [expire_plans(plans, now) EXCEPT ![q] =
                           [@ EXCEPT !.status = "executing", !.claimed_index = x,
                                     !.claim_expires_at = y]]
        PROVE  Kept
    <3>1. LET old == expire_plans(plans, now)[p]
          IN  /\ plans'[p].task = old.task /\ plans'[p].ns = old.ns
              /\ plans'[p].actions = old.actions
      BY <2>1, <1>a DEF PlanTables, PlanRow
    <3> QED BY <1>b, <3>1
  <2>2. CASE ClaimPlan(a)
    <3>1. CASE \E q \in PlanIds : plans' = claim_plan_action(expire_plans(plans, now), q,
                                                            job[a].request, now)
      BY <2>1, <3>1, Zenon DEF claim_plan_action
    <3> QED BY <1>1, <2>2, <3>1, ClaimPlanSets, Zenon
  <2>3. ASSUME NEW q \in PlanIds, NEW task \in Tasks, NEW actions \in PlanShapes,
               NEW ns \in Namespaces, ProposePlan(a, q, task, actions, ns)
        PROVE  Kept
    <3>1. plans'[p] = plans[p]
      BY <1>a, <2>3 DEF ProposePlan, PlanTables
    <3> QED BY <3>1
  <2>4. ASSUME NEW q \in PlanIds, NEW i, NEW ok \in BOOLEAN,
               plans' = finish_plan_action(plans, q, i, ok)
        PROVE  Kept
    <3>1. plans[q] \in PlanRow
      BY <1>a DEF PlanTables
    <3>2. CASE p # q
      BY <1>a, <2>4, <3>2 DEF finish_plan_action, PlanTables
    <3>3. CASE p = q
      BY <1>a, <2>4, <3>1, <3>3 DEF finish_plan_action, PlanTables, PlanRow
    <3> QED BY <3>2, <3>3
  <2>5. ASSUME NEW outcome \in {"ok", "failed", "error"}, AgentFinish(a, outcome)
        PROVE  Kept
    <3>1. job[a].via = "plan" => job[a].ref \in PlanIds
      BY DEF Shape, JobShape, AgentShape
    <3> QED BY <1>1, <2>4, <2>5, <3>1 DEF AgentFinish
  <2> HIDE DEF Kept
  <2> QED BY <1>3, <1>1, <2>2, <2>3, <2>5
          DEF AgentStep, Submit, Consume, CreateApproval, RequestMutation, tables
<1>4. ASSUME AdminStep
      PROVE  Kept
  BY <1>4, <1>1, <1>2
     DEF AdminStep, RejectApproval, CleanupApprovals, ListApprovals, RevokeGrant,
         CleanupGrants, ListGrants, ApprovePlan, RejectPlan, ListPlans, approve_plan, reject_plan
<1>5. ASSUME NEW h \in Humans, HumanStep(h)
      PROVE  plans' = plans
  BY <1>5 DEF HumanStep, ApproveBegin, ApproveClaim, ApproveVerify, ApproveAuthorize,
              ApproveGrant, ApproveAudit, ApproveFinish, ApproveReport
<1>6. UNCHANGED plans => Kept
  BY <1>1
<1> HIDE DEF Kept
<1>7. CASE EnvironmentStep
  BY <1>6, <1>7 DEF EnvironmentStep, Tick, EditFile, EditPolicy, tables
<1>8. CASE \E w \in Handlers : Execute(w) \/ Deliver(w) \/ StorageFails(w) \/ Crash(w)
  BY <1>6, <1>8 DEF Execute, Deliver, StorageFails, Crash, tables
<1>9. CASE \E h \in Humans : HumanStep(h)
  BY <1>5, <1>6, <1>9
<1> QED BY <1>3, <1>4, <1>7, <1>8, <1>9, Zenon DEF Next, Kept

-----------------------------------------------------------------------------
(* The authority a handler runs under                                        *)

\* A grant goes back to an approval that a human claimed: same rule, namespace
\* and profile, at a risk level open to such grants.
Backed(grant, taken, sources) ==
    /\ grant.source \in taken
    /\ risk_permissions(sources[grant.source].risk, grant)
    /\ grant.rule_id = sources[grant.source].rule_id
    /\ grant.ns = sources[grant.source].ns
    /\ grant.profile = ProfileOf[sources[grant.source].request]

IssuedApproval(id) ==
    approvals[id].status # "absent" => issued[id] # None /\ SameApproval(approvals[id], issued[id])

IssuedGrant(g) ==
    /\ issued[g] \in Maybe(GrantRow)
    /\ issued[g] # None => Backed(issued[g], claims, issued)
    /\ grants[g].status # "absent" => issued[g] # None /\ SameGrant(grants[g], issued[g])

\* Rows still agree with what was issued, and what was issued is what the
\* human consented to.
IssuedInv ==
    /\ \A id \in ApprovalIds : IssuedApproval(id)
    /\ \A g \in GrantIds : IssuedGrant(g)
    /\ \A id \in claims : issued[id] # None

\* The grant a handler consumed was issued for its request.
Granted(j) ==
    /\ j.decision.effect = "confirm"
    /\ issued[j.ref] # None
    /\ issued[j.ref].task \in {None, j.task}
    /\ issued[j.ref].rule_id = j.decision.rule_id
    /\ issued[j.ref].ns = j.ns
    /\ issued[j.ref].profile = ProfileOf[j.request]

\* The plan whose action a handler claimed was approved for its request.
Planned(j) ==
    /\ plans[j.ref].task = j.task
    /\ plans[j.ref].ns = j.ns
    /\ plans[j.ref].actions[j.index + 1] = j.request

\* An agent's handler past the policy was not denied; past the plans it needs a
\* confirmation; and it acts only under an authority for its request.
AgentAuthority(a) ==
    /\ pc[a] \in {"claim_plan", "consume", "create"} \cup Acting => ~job[a].denied
    /\ pc[a] = "claim_plan" => job[a].decision.effect \in {"allow", "confirm"}
    /\ pc[a] \in {"consume", "create"} => job[a].decision.effect = "confirm"
    /\ pc[a] \in Acting => \/ job[a].via = "policy" /\ job[a].decision.effect = "allow"
                           \/ job[a].via = "grant" /\ Granted(job[a])
                           \/ job[a].via = "plan" /\ Planned(job[a])

\* A human's handler acts on the approval it claimed, and not past a policy
\* that denies the request; a mutation has no policy to deny it.
HumanAuthority(h) ==
    /\ pc[h] \in {"grant", "audit"} \cup Acting => ~job[h].denied
    /\ pc[h] \in {"verify", "authorize"} /\ job[h].denied =>
          /\ job[h].request \notin Mutations
          /\ policy[job[h].request].effect = "deny"
    /\ pc[h] \in Claimed => /\ job[h].ref \in claims
                            /\ issued[job[h].ref].request = job[h].request
                            /\ issued[job[h].ref].ns = job[h].ns

AuthorityInv ==
    /\ IssuedInv
    /\ \A a \in Agents : AgentAuthority(a)
    /\ \A h \in Humans : HumanAuthority(h)

\* A uuid is issued once, with a row in the table, and a claim is not forgotten.
LEMMA IssuedOnce ==
    ASSUME Shape, Next
    PROVE  /\ \A x \in ApprovalIds \cup GrantIds :
                 \/ issued'[x] = issued[x]
                 \/ issued[x] = None /\ (x \in GrantIds => grants'[x].status # "absent")
           /\ claims \subseteq claims'
<1>a. issued \in [ApprovalIds \cup GrantIds -> Maybe(ApprovalRow \cup GrantRow)]
  BY DEF Shape, TypeOK
<1> DEFINE Once == \A x \in ApprovalIds \cup GrantIds :
                      \/ issued'[x] = issued[x]
                      \/ issued[x] = None /\ (x \in GrantIds => grants'[x].status # "absent")
<1>1. ASSUME NEW a \in Agents, AgentStep(a)
      PROVE  Once /\ UNCHANGED claims
  <2>1. \/ UNCHANGED issued
        \/ \E k \in FreshApprovals : issued' = [issued EXCEPT ![k] = issued'[k]]
    <3>1. ASSUME NEW k \in FreshApprovals, NEW row, issued' = [issued EXCEPT ![k] = row]
          PROVE  row = issued'[k]
      BY <1>a, <3>1 DEF FreshApprovals
    <3> QED BY <1>1, <3>1 DEF AgentStep, Submit, ClaimPlan, Consume, CreateApproval,
               RequestMutation, ProposePlan, AgentFinish, history
  <2>2. UNCHANGED claims
    BY <1>1 DEF AgentStep, Submit, ClaimPlan, Consume, CreateApproval, RequestMutation,
                ProposePlan, AgentFinish, history
  <2> QED BY <1>a, <2>1, <2>2, GrantAssumption DEF FreshApprovals
<1>2. ASSUME NEW h \in Humans, HumanStep(h)
      PROVE  Once /\ claims \subseteq claims'
  <2>1. CASE ApproveGrant(h)
    <3>1. ASSUME NEW k \in FreshGrants, NEW new, new.status = "active",
                 grants' = [grants EXCEPT ![k] = new], issued' = [issued EXCEPT ![k] = new]
          PROVE  Once
      <4>1. k \in GrantIds /\ issued[k] = None
        BY DEF FreshGrants
      <4>2. grants \in GrantTables
        BY DEF Shape, TypeOK
      <4> QED BY <1>a, <3>1, <4>1, <4>2 DEF GrantTables
    <3> DEFINE new == create_from_status(job[h].ref, approvals[job[h].ref], job[h].want, now)
    <3>2. new.status = "active"
      BY DEF create_from_status
    <3>3. UNCHANGED issued => Once
      OBVIOUS
    <3> HIDE DEF new, Once
    <3>4. \/ UNCHANGED issued
          \/ \E k \in FreshGrants : /\ grants' = [grants EXCEPT ![k] = new]
                                    /\ issued' = [issued EXCEPT ![k] = new]
      BY <2>1 DEF ApproveGrant, new
    <3>5. UNCHANGED claims
      BY <2>1 DEF ApproveGrant
    <3> QED BY <3>1, <3>2, <3>3, <3>4, <3>5
  <2>2. CASE UNCHANGED issued /\ claims \subseteq claims'
    BY <2>2
  <2> QED BY <1>2, <2>1, <2>2 DEF HumanStep, ApproveBegin, ApproveClaim, ApproveVerify,
             ApproveAuthorize, ApproveAudit, ApproveFinish, ApproveReport, history
<1>3. CASE UNCHANGED <<issued, claims>>
  BY <1>3
<1> QED BY <1>1, <1>2, <1>3
        DEF Next, AdminStep, RejectApproval, CleanupApprovals, ListApprovals, RevokeGrant,
            CleanupGrants, ListGrants, ApprovePlan, RejectPlan, ListPlans, EnvironmentStep,
            Tick, EditFile, EditPolicy, Execute, Deliver, StorageFails, Crash, history

\* An approval is claimed while it is live, by the handler that shows it.
LEMMA ClaimsAreLive ==
    ASSUME Shape, Next, NEW id \in claims', id \notin claims
    PROVE  /\ approvals[id].status = "pending" /\ approvals[id].expires_at > now
           /\ id \in ApprovalIds
<1>a. ASSUME NEW a \in Agents, AgentStep(a)
      PROVE  UNCHANGED claims
  BY <1>a DEF AgentStep, Submit, ClaimPlan, Consume, CreateApproval, RequestMutation,
              ProposePlan, AgentFinish, history
<1>b. ASSUME NEW h \in Humans, HumanStep(h), ~ApproveClaim(h)
      PROVE  UNCHANGED claims
  BY <1>b DEF HumanStep, ApproveBegin, ApproveVerify, ApproveAuthorize, ApproveGrant,
              ApproveAudit, ApproveFinish, ApproveReport, history
<1>c. ~(AdminStep \/ EnvironmentStep)
  BY DEF AdminStep, RejectApproval, CleanupApprovals, ListApprovals, RevokeGrant,
         CleanupGrants, ListGrants, ApprovePlan, RejectPlan, ListPlans, EnvironmentStep,
         Tick, EditFile, EditPolicy, history
<1>d. ~\E w \in Handlers : Execute(w) \/ Deliver(w) \/ StorageFails(w) \/ Crash(w)
  BY DEF Execute, Deliver, StorageFails, Crash, history
<1>1. PICK h \in Humans : ApproveClaim(h)
  BY <1>a, <1>b, <1>c, <1>d, Zenon DEF Next
<1>2. /\ pc[h] = "claim" /\ id = job[h].ref /\ Live(expire(approvals, now), id, now)
  BY <1>1 DEF ApproveClaim
<1>3. id \in ApprovalIds
  BY <1>2 DEF Shape, JobShape, HumanShape
<1>4. SameApproval(expire(approvals, now)[id], approvals[id])
  BY <1>3, ExpireApprovalColumns DEF Shape, TypeOK
<1>5. expire(approvals, now)[id].status = "pending" => approvals[id].status = "pending"
  BY <1>3, ExpireShape DEF Shape, TypeOK
<1> QED BY <1>2, <1>3, <1>4, <1>5 DEF Live, SameApproval

\* IssuedInv is inductive, given that humans' handlers hold claims.
LEMMA IssuedStep ==
    ASSUME Shape, AuthorityInv, Next
    PROVE  IssuedInv'
<1> USE DEF AuthorityInv, IssuedInv
<1>0. claims \subseteq ApprovalIds
  BY DEF Shape, TypeOK
<1>1. ASSUME NEW id \in ApprovalIds
      PROVE  IssuedApproval(id)'
  <2>1. issued[id] # None => issued'[id] = issued[id]
    BY IssuedOnce
  <2>2. IssuedApproval(id)
    OBVIOUS
  <2>3. SameApproval(issued'[id], issued'[id])
    BY DEF SameApproval
  <2> QED BY <2>1, <2>2, <2>3, ApprovalsKept DEF IssuedApproval, SameApproval
<1>2. ASSUME NEW id \in claims'
      PROVE  issued'[id] # None
  <2>1. id \in ApprovalIds /\ issued[id] # None
    BY <1>0, ClaimsAreLive DEF IssuedApproval
  <2> QED BY <2>1, IssuedOnce
<1>3. ASSUME NEW grant, Backed(grant, claims, issued)
      PROVE  Backed(grant, claims', issued')
  <2>1. grant.source \in ApprovalIds /\ issued[grant.source] # None
    BY <1>0, <1>3 DEF Backed
  <2>2. grant.source \in claims' /\ issued'[grant.source] = issued[grant.source]
    BY <1>3, <2>1, IssuedOnce DEF Backed
  <2> QED BY <1>3, <2>2 DEF Backed
<1>4. ASSUME NEW h \in Humans, pc[h] = "grant",
             validate_grant_source(approvals[job[h].ref], job[h].want, "executing",
                                   job[h].decision.rule_id)
      PROVE  Backed(create_from_status(job[h].ref, approvals[job[h].ref], job[h].want, now),
                    claims, issued)
  <2> DEFINE id == job[h].ref
             row == approvals[id]
             grant == create_from_status(id, row, job[h].want, now)
  <2>1. id \in claims
    BY <1>4 DEF HumanAuthority, Claimed
  <2>2. SameApproval(row, issued[id])
    BY <1>0, <1>4, <2>1 DEF validate_grant_source, IssuedApproval
  <2>3. /\ grant.source = id /\ grant.rule_id = row.rule_id /\ grant.ns = row.ns
        /\ grant.profile = ProfileOf[row.request] /\ grant.task = job[h].want.task
    BY DEF create_from_status
  <2>4. risk_permissions(row.risk, grant)
    BY <1>4, <2>3 DEF validate_grant_source, risk_permissions
  <2> HIDE DEF grant
  <2>5. Backed(grant, claims, issued)
    BY <2>1, <2>2, <2>3, <2>4 DEF Backed, SameApproval, risk_permissions
  <2> QED BY <2>5 DEF grant
<1>5. ASSUME NEW g \in GrantIds
      PROVE  IssuedGrant(g)'
  <2>0. IssuedGrant(g)
    OBVIOUS
  <2>1. CASE issued'[g] = issued[g] /\ issued[g] # None
    <3>1. issued'[g] \in Maybe(GrantRow) /\ Backed(issued'[g], claims', issued')
      BY <1>3, <2>0, <2>1 DEF IssuedGrant
    <3>2. grants'[g].status # "absent" => SameGrant(grants'[g], issued'[g])
      BY <2>0, <2>1, GrantsKept DEF IssuedGrant, SameGrant
    <3> QED BY <2>1, <3>1, <3>2, Zenon DEF IssuedGrant
  <2>2. CASE issued'[g] = None /\ issued[g] = None
    <3>1. grants'[g].status = "absent"
      BY <2>0, <2>2, GrantsKept, GrantAssumption DEF IssuedGrant
    <3> QED BY <2>2, <3>1 DEF IssuedGrant, Maybe
  <2>3. CASE issued[g] = None /\ grants'[g].status # "absent"
    <3>1. grants[g].status = "absent"
      BY <2>0, <2>3 DEF IssuedGrant
    <3>2. /\ issued'[g] = grants'[g] /\ issued'[g] \in GrantRow
          /\ \E h \in Humans :
               /\ pc[h] = "grant"
               /\ validate_grant_source(approvals[job[h].ref], job[h].want, "executing",
                                        job[h].decision.rule_id)
               /\ grants'[g] = create_from_status(job[h].ref, approvals[job[h].ref],
                                                  job[h].want, now)
      BY <2>3, <3>1, GrantsKept
    <3>3. Backed(issued'[g], claims', issued')
      BY <1>3, <1>4, <3>2
    <3>4. issued'[g] # None /\ SameGrant(grants'[g], issued'[g])
      BY <3>2, GrantAssumption DEF SameGrant
    <3> QED BY <3>2, <3>3, <3>4, Zenon DEF IssuedGrant, Maybe
  <2> QED BY <2>1, <2>2, <2>3, IssuedOnce
<1> QED BY <1>1, <1>2, <1>5

\* A handler that does not move keeps its authority, whatever others do to the
\* tables meanwhile.
LEMMA AgentStill ==
    ASSUME Shape, PlanInv, AuthorityInv, Next, NEW a \in Agents, pc'[a] = pc[a],
           job'[a].via = job[a].via, job'[a].ref = job[a].ref, job'[a].index = job[a].index,
           job'[a].request = job[a].request, job'[a].ns = job[a].ns,
           job'[a].task = job[a].task, job'[a].decision = job[a].decision,
           job'[a].denied => job[a].denied
    PROVE  AgentAuthority(a)'
<1>1. AgentAuthority(a)
  BY DEF AuthorityInv
<1>2. ASSUME job[a].via = "grant", Granted(job[a])
      PROVE  Granted(job[a])'
  <2>1. job[a].ref \in GrantIds
    BY <1>2 DEF Shape, JobShape, AgentShape
  <2>2. issued'[job[a].ref] = issued[job[a].ref]
    BY <1>2, <2>1, IssuedOnce DEF Granted
  <2> QED BY <1>2, <2>2 DEF Granted
<1>3. ASSUME ActsOnPlan(a), Planned(job[a])
      PROVE  Planned(job[a])'
  <2>1. job[a].ref \in PlanIds /\ plans[job[a].ref].status # "absent"
    BY <1>3 DEF ActsOnPlan, Shape, JobShape, AgentShape, PlanInv, PlanClaimInv
  <2> QED BY <1>3, <2>1, PlansKept DEF Planned
<1> QED BY <1>1, <1>2, <1>3 DEF AgentAuthority, ActsOnPlan

\* The same for a human's handler; the policy may only come to deny its request.
LEMMA HumanStill ==
    ASSUME Shape, AuthorityInv, Next, NEW h \in Humans, pc'[h] = pc[h],
           job'[h].ref = job[h].ref, job'[h].request = job[h].request, job'[h].ns = job[h].ns,
           job'[h].denied => /\ job[h].denied
                             /\ \/ UNCHANGED policy
                                \/ policy'[job[h].request].effect = "deny"
    PROVE  HumanAuthority(h)'
<1>1. HumanAuthority(h)
  BY DEF AuthorityInv
<1>2. job[h].ref \in claims => /\ job[h].ref \in claims'
                               /\ issued'[job[h].ref] = issued[job[h].ref]
  BY IssuedOnce DEF Shape, TypeOK, AuthorityInv, IssuedInv
<1> QED BY <1>1, <1>2 DEF HumanAuthority

\* The policy changes in the hands of the operator only.
LEMMA PolicyStill ==
    ASSUME Next, ~EnvironmentStep
    PROVE  UNCHANGED policy
<1>1. ASSUME NEW a \in Agents, AgentStep(a)
      PROVE  UNCHANGED policy
  BY <1>1 DEF AgentStep, Submit, ClaimPlan, Consume, CreateApproval, RequestMutation,
              ProposePlan, AgentFinish
<1>2. ASSUME NEW h \in Humans, HumanStep(h)
      PROVE  UNCHANGED policy
  BY <1>2 DEF HumanStep, ApproveBegin, ApproveClaim, ApproveVerify, ApproveAuthorize,
              ApproveGrant, ApproveAudit, ApproveFinish, ApproveReport
<1>3. ASSUME AdminStep
      PROVE  UNCHANGED policy
  BY <1>3 DEF AdminStep, RejectApproval, CleanupApprovals, ListApprovals, RevokeGrant,
              CleanupGrants, ListGrants, ApprovePlan, RejectPlan, ListPlans
<1>4. ASSUME NEW w \in Handlers, Execute(w) \/ Deliver(w) \/ StorageFails(w) \/ Crash(w)
      PROVE  UNCHANGED policy
  BY <1>4 DEF Execute, Deliver, StorageFails, Crash
<1> QED BY <1>1, <1>2, <1>3, <1>4 DEF Next

\* An agent's own step hands it the authority it found, and no other.
LEMMA AgentAuthorityStep ==
    ASSUME Shape, PlanInv, AuthorityInv, Next, NEW a \in Agents, AgentStep(a)
    PROVE  AgentAuthority(a)'
<1>a. /\ a \in Handlers /\ job[a] \in Jobs /\ AgentShape(pc[a], job[a]) /\ AgentAuthority(a)
      /\ pc \in [Handlers -> Labels] /\ job \in [Handlers -> Jobs]
  BY DEF Handlers, Shape, TypeOK, JobShape, AuthorityInv
<1>b. ASSUME pc'[a] \in {"idle", "replied"}
      PROVE  AgentAuthority(a)'
  BY <1>b DEF AgentAuthority, Acting
<1>1. ASSUME NEW r \in Requests, NEW task \in Maybe(Tasks),
             NEW ns \in Namespaces, Submit(a, r, task, ns)
      PROVE  AgentAuthority(a)'
  <2>0. policy[r] \in Decisions
    BY DEF Shape, TypeOK
  <2> DEFINE taken == [NoJob EXCEPT !.request = r, !.ns = ns, !.task = task,
                                    !.decision = policy[r],
                                    !.denied = (policy[r].effect = "deny")]
  <2>1. taken.decision = policy[r] /\ (policy[r].effect # "deny" => ~taken.denied)
    BY DEF NoJob
  <2>2. LET run == [taken EXCEPT !.via = "policy"]
        IN  run.via = "policy" /\ run.decision = policy[r]
            /\ (policy[r].effect # "deny" => ~run.denied)
    BY DEF NoJob
  <2> HIDE DEF taken
  <2>3. CASE /\ policy[r].effect = "allow"
             /\ job' = [job EXCEPT ![a] = [taken EXCEPT !.via = "policy"]] /\ Goto(a, "ready")
    BY <1>a, <2>2, <2>3 DEF Goto, AgentAuthority, Acting
  <2>4. CASE /\ policy[r].effect \in {"allow", "confirm"}
             /\ job' = [job EXCEPT ![a] = taken] /\ Goto(a, "claim_plan")
    BY <1>a, <2>1, <2>4 DEF Goto, AgentAuthority, Acting
  <2>5. CASE Goto(a, "replied")
    BY <1>a, <1>b, <2>5 DEF Goto
  <2> QED BY <1>1, <2>3, <2>4, <2>5 DEF Submit, taken
<1>2. ASSUME ClaimPlan(a)
      PROVE  AgentAuthority(a)'
  <2>0. pc[a] = "claim_plan" /\ ~job[a].denied /\ job[a].decision.effect \in {"allow", "confirm"}
    BY <1>2, <1>a DEF ClaimPlan, AgentAuthority
  <2>1. CASE /\ pc'[a] = "ready" /\ job[a].decision.effect = "allow"
             /\ job' = [job EXCEPT ![a].via = "policy"]
    <3>1. /\ job'[a].via = "policy" /\ job'[a].decision = job[a].decision
          /\ job'[a].denied = job[a].denied
      BY <1>a, <2>1 DEF Jobs
    <3> QED BY <2>0, <2>1, <3>1 DEF AgentAuthority, Acting
  <2>2. CASE /\ pc'[a] = "consume" /\ job[a].decision.effect # "allow" /\ UNCHANGED job
    BY <2>0, <2>2 DEF AgentAuthority, Acting
  <2>3. CASE Answer(a, "error")
    BY <1>a, <1>b, <2>3 DEF Answer, Goto
  <2>4. ASSUME NEW p \in PlanIds, pc'[a] = "ready",
               expire_plans(plans, now)[p].status \in {"approved", "executing"},
               expire_plans(plans, now)[p].task = job[a].task,
               expire_plans(plans, now)[p].ns = job[a].ns,
               PlanClaimable(expire_plans(plans, now)[p], job[a].request, files),
               job' = [job EXCEPT ![a] =
                         [@ EXCEPT !.via = "plan", !.ref = p,
                                   !.index = expire_plans(plans, now)[p].next_index,
                                   !.hash = request_hash(job[a].request, files)]]
        PROVE  AgentAuthority(a)'
    <3> DEFINE row == expire_plans(plans, now)[p]
    <3>1. /\ job'[a].via = "plan" /\ job'[a].ref = p /\ job'[a].index = row.next_index
          /\ job'[a].request = job[a].request /\ job'[a].ns = job[a].ns
          /\ job'[a].task = job[a].task /\ job'[a].denied = job[a].denied
      BY <1>a, <2>4 DEF Jobs
    <3>2. plans \in PlanTables /\ now \in Nat
      BY DEF Shape, TypeOK
    <3>3. /\ row.actions = plans[p].actions /\ row.task = plans[p].task /\ row.ns = plans[p].ns
          /\ plans[p].status # "absent"
      BY <2>4, <3>2, ExpirePlanShape
    <3>4. row.actions[row.next_index + 1] = job[a].request
      BY <2>4 DEF PlanClaimable, request_hash
    <3>5. Planned(job[a])'
      BY <2>4, <3>1, <3>3, <3>4, PlansKept DEF Planned
    <3> HIDE DEF row
    <3> QED BY <2>0, <2>4, <3>1, <3>5 DEF AgentAuthority, Acting
  <2> QED BY <1>2, <2>1, <2>2, <2>3, <2>4, ClaimPlanSets
<1>3. ASSUME Consume(a)
      PROVE  AgentAuthority(a)'
  <2>0. pc[a] = "consume" /\ ~job[a].denied /\ job[a].decision.effect = "confirm"
    BY <1>3, <1>a DEF Consume, AgentAuthority
  <2> DEFINE marked == expire_grants(grants, now)
             usable == Usable(marked, ProfileOf[job[a].request], job[a].decision.rule_id,
                              job[a].task, job[a].ns, now)
  <2>1. CASE UNCHANGED job /\ Goto(a, "create")
    BY <1>a, <2>0, <2>1 DEF Goto, AgentAuthority, Acting
  <2>2. ASSUME NEW g \in usable, Goto(a, "ready"),
               job' = [job EXCEPT ![a] = [@ EXCEPT !.via = "grant", !.ref = g]]
        PROVE  AgentAuthority(a)'
    <3>1. /\ job'[a].via = "grant" /\ job'[a].ref = g
          /\ job'[a].request = job[a].request /\ job'[a].ns = job[a].ns
          /\ job'[a].task = job[a].task /\ job'[a].denied = job[a].denied
          /\ job'[a].decision = job[a].decision
      BY <1>a, <2>2 DEF Jobs
    <3>2. /\ g \in GrantIds /\ marked[g].status = "active"
          /\ marked[g].profile = ProfileOf[job[a].request]
          /\ marked[g].rule_id = job[a].decision.rule_id
          /\ marked[g].task \in {None, job[a].task} /\ marked[g].ns = job[a].ns
      BY DEF Usable
    <3>3. SameGrant(marked[g], grants[g]) /\ grants[g].status = "active"
      BY <3>2, ExpireGrantColumns DEF Shape, TypeOK
    <3>4. issued[g] # None /\ SameGrant(grants[g], issued[g])
      BY <3>2, <3>3 DEF AuthorityInv, IssuedInv, IssuedGrant
    <3>5. issued'[g] = issued[g]
      BY <3>2, <3>4, IssuedOnce
    <3> HIDE DEF marked
    <3>6. Granted(job[a])'
      BY <2>0, <3>1, <3>2, <3>3, <3>4, <3>5 DEF Granted, SameGrant
    <3>7. pc'[a] = "ready"
      BY <1>a, <2>2 DEF Goto
    <3> QED BY <2>0, <3>1, <3>6, <3>7 DEF AgentAuthority, Acting
  <2> QED BY <1>3, <2>1, <2>2 DEF Consume, FirstChoice
<1>4. ASSUME CreateApproval(a)
      PROVE  AgentAuthority(a)'
  BY <1>a, <1>b, <1>4 DEF CreateApproval, Answer, Goto
<1>5. ASSUME UNCHANGED <<pc, job>>
      PROVE  AgentAuthority(a)'
  BY <1>5, AgentStill
<1>6. ASSUME NEW outcome \in {"ok", "failed", "error"}, AgentFinish(a, outcome)
      PROVE  AgentAuthority(a)'
  BY <1>a, <1>b, <1>6 DEF AgentFinish, Answer, Goto
<1> QED BY <1>1, <1>2, <1>3, <1>4, <1>5, <1>6 DEF AgentStep, RequestMutation, ProposePlan

\* A human's own step goes past the policy only if the policy lets it.
LEMMA HumanAuthorityStep ==
    ASSUME Shape, AuthorityInv, Next, NEW h \in Humans, HumanStep(h)
    PROVE  HumanAuthority(h)'
<1>a. /\ h \in Handlers /\ job[h] \in Jobs /\ HumanShape(pc[h], job[h]) /\ HumanAuthority(h)
      /\ pc \in [Handlers -> Labels] /\ job \in [Handlers -> Jobs]
  BY DEF Handlers, Shape, TypeOK, JobShape, AuthorityInv
<1>b. ASSUME pc'[h] \in {"idle", "claim", "report", "replied"}
      PROVE  HumanAuthority(h)'
  BY <1>b DEF HumanAuthority, Acting, Claimed
<1>c. \A id \in claims : id \in claims' /\ issued'[id] = issued[id]
  BY IssuedOnce DEF Shape, TypeOK, AuthorityInv, IssuedInv
<1>1. CASE \E id \in ApprovalIds, want \in Maybe(WantedGrants) : ApproveBegin(h, id, want)
  BY <1>a, <1>b, <1>1 DEF ApproveBegin, Goto
<1>2. CASE ApproveClaim(h)
  <2> DEFINE id == job[h].ref
             marked == expire(approvals, now)
             row == marked[id]
             denied == row.request \notin Mutations /\ policy[row.request].effect = "deny"
  <2>1. CASE Answer(h, "error")
    BY <1>a, <1>b, <2>1 DEF Answer, Goto
  <2>2. CASE /\ Live(marked, id, now) /\ claims' = claims \cup {id} /\ Goto(h, "verify")
             /\ job' = [job EXCEPT ![h] = [@ EXCEPT !.request = row.request, !.hash = row.hash,
                                                    !.ns = row.ns, !.denied = denied]]
             /\ UNCHANGED <<issued, policy>>
    <3>1. id \in ApprovalIds
      BY <1>2, <1>a DEF ApproveClaim, HumanShape
    <3>2. /\ row.status # "absent" /\ row.status = "pending" => approvals[id].status # "absent"
          /\ SameApproval(row, approvals[id])
      BY <2>2, <3>1, ExpireShape, ExpireApprovalColumns DEF Live, Shape, TypeOK
    <3>3. approvals[id].status # "absent"
      BY <2>2, <3>2 DEF Live
    <3>4. issued[id].request = row.request /\ issued[id].ns = row.ns
      BY <3>1, <3>2, <3>3 DEF AuthorityInv, IssuedInv, IssuedApproval, SameApproval
    <3>5. denied \in BOOLEAN
      OBVIOUS
    <3>6. denied => row.request \notin Mutations /\ policy[row.request].effect = "deny"
      OBVIOUS
    <3> HIDE DEF denied, row
    <3>7. /\ job'[h].ref = id /\ job'[h].request = row.request /\ job'[h].ns = row.ns
          /\ job'[h].denied = denied
      BY <1>a, <2>2 DEF Jobs
    <3>8. pc'[h] = "verify"
      BY <1>a, <2>2 DEF Goto
    <3> HIDE DEF id
    <3> QED BY <2>2, <3>4, <3>6, <3>7, <3>8 DEF HumanAuthority, Acting
  <2> QED BY <1>2, <2>1, <2>2, Zenon DEF ApproveClaim
<1>3. CASE ApproveVerify(h)
  <2>1. CASE FailApproval(h)
    BY <1>a, <1>b, <2>1 DEF FailApproval, Answer, Goto
  <2>2. CASE /\ Goto(h, IF job[h].request \in Mutations THEN "audit" ELSE "authorize")
             /\ UNCHANGED job
    <3>1. /\ pc[h] = "verify" /\ UNCHANGED policy
          /\ pc'[h] = IF job[h].request \in Mutations THEN "audit" ELSE "authorize"
      BY <1>a, <1>3, <2>2 DEF ApproveVerify, Goto
    <3>2. /\ job[h].ref \in claims /\ issued[job[h].ref].request = job[h].request
          /\ issued[job[h].ref].ns = job[h].ns
          /\ job[h].denied => /\ job[h].request \notin Mutations
                              /\ policy[job[h].request].effect = "deny"
      BY <1>a, <3>1 DEF HumanAuthority, Claimed
    <3> QED BY <1>c, <2>2, <3>1, <3>2 DEF HumanAuthority, Acting
  <2> QED BY <1>3, <2>1, <2>2 DEF ApproveVerify
<1>4. CASE ApproveAuthorize(h)
  <2>1. CASE FailApproval(h)
    BY <1>a, <1>b, <2>1 DEF FailApproval, Answer, Goto
  <2>2. CASE /\ policy[job[h].request].effect # "deny"
             /\ job' = [job EXCEPT ![h].decision = policy[job[h].request]]
             /\ pc'[h] \in {"grant", "audit"}
    <3>1. pc[h] = "authorize"
      BY <1>4 DEF ApproveAuthorize
    <3>2. /\ job[h].ref \in claims /\ issued[job[h].ref].request = job[h].request
          /\ issued[job[h].ref].ns = job[h].ns /\ ~job[h].denied
      BY <1>a, <2>2, <3>1 DEF HumanAuthority, Claimed
    <3>3. /\ job'[h].ref = job[h].ref /\ job'[h].request = job[h].request
          /\ job'[h].ns = job[h].ns /\ job'[h].denied = job[h].denied
      BY <1>a, <2>2 DEF Jobs
    <3> QED BY <1>c, <2>2, <3>2, <3>3 DEF HumanAuthority, Acting
  <2> QED BY <1>4, <1>a, <2>1, <2>2 DEF ApproveAuthorize, Goto
<1>5. ASSUME pc[h] \in {"grant", "audit"}, pc'[h] \in {"audit", "ready"}, UNCHANGED job
      PROVE  HumanAuthority(h)'
  BY <1>5, <1>a, <1>c DEF HumanAuthority, Claimed, Acting
<1>6. CASE ApproveGrant(h)
  BY <1>6, <1>5, <1>a, <1>b DEF ApproveGrant, FailApproval, Answer, Goto
<1>7. CASE ApproveAudit(h)
  BY <1>7, <1>5, <1>a DEF ApproveAudit, Goto
<1>8. CASE ApproveReport(h) \/ \E ok \in BOOLEAN : ApproveFinish(h, ok)
  BY <1>8, <1>a, <1>b DEF ApproveReport, ApproveFinish, Answer, Goto
<1> QED BY <1>1, <1>2, <1>3, <1>4, <1>6, <1>7, <1>8 DEF HumanStep

\* The steps that all handlers share hand out no authority.
LEMMA HandlerAuthorityStep ==
    ASSUME Shape, PlanInv, AuthorityInv, Next, NEW w \in Handlers,
           Execute(w) \/ Deliver(w) \/ StorageFails(w) \/ Crash(w)
    PROVE  /\ w \in Agents => AgentAuthority(w)'
           /\ w \in Humans => HumanAuthority(w)'
<1>a. /\ job[w] \in Jobs /\ pc \in [Handlers -> Labels] /\ job \in [Handlers -> Jobs]
  BY DEF Shape, TypeOK
<1>1. CASE Execute(w)
  <2>1. /\ pc[w] = "ready" /\ pc'[w] = "running"
        /\ job'[w] = [job[w] EXCEPT !.sent = job'[w].sent]
    BY <1>a, <1>1 DEF Execute, Goto
  <2>2. /\ job'[w].via = job[w].via /\ job'[w].ref = job[w].ref
        /\ job'[w].index = job[w].index /\ job'[w].request = job[w].request
        /\ job'[w].ns = job[w].ns /\ job'[w].task = job[w].task
        /\ job'[w].decision = job[w].decision /\ job'[w].denied = job[w].denied
    BY <1>a, <2>1 DEF Jobs
  <2>3. CASE w \in Agents
    <3>1. AgentAuthority(w)
      BY <2>3 DEF AuthorityInv
    <3>2. ASSUME job[w].via = "grant", Granted(job[w])
          PROVE  Granted(job[w])'
      BY <1>1, <2>2, <3>2 DEF Execute, Granted
    <3>3. ASSUME Planned(job[w])
          PROVE  Planned(job[w])'
      BY <1>1, <2>2, <3>3 DEF Execute, tables, Planned
    <3> QED BY <2>1, <2>2, <2>3, <3>1, <3>2, <3>3, AuthorizationAssumption
               DEF AgentAuthority, Acting
  <2>4. CASE w \in Humans
    <3>1. HumanAuthority(w)
      BY <2>4 DEF AuthorityInv
    <3>2. UNCHANGED <<claims, issued>>
      BY <1>1 DEF Execute
    <3> QED BY <2>1, <2>2, <2>4, <3>1, <3>2, AuthorizationAssumption
               DEF HumanAuthority, Acting, Claimed
  <2> QED BY <2>3, <2>4, AuthorizationAssumption
<1>2. CASE Deliver(w) \/ StorageFails(w) \/ Crash(w)
  <2>1. pc'[w] \in {"idle", "replied"}
    BY <1>a, <1>2 DEF Deliver, StorageFails, Crash, Answer, Goto
  <2> QED BY <2>1 DEF AgentAuthority, HumanAuthority, Acting, Claimed
<1> QED BY <1>1, <1>2

\* Authority is an invariant: the handler that moves keeps it by the lemmas of
\* its own kind, the others by AgentStill and HumanStill.
THEOREM AuthorityInvCorrect == Spec => []AuthorityInv
<1>1. Init => AuthorityInv
  BY DEF Init, AuthorityInv, IssuedInv, IssuedApproval, IssuedGrant, AgentAuthority,
         HumanAuthority, NoApproval, NoGrant, Acting, Claimed, Handlers, Maybe
<1>2. Shape /\ PlanInv /\ AuthorityInv /\ [Next]_vars => AuthorityInv'
  <2> SUFFICES ASSUME Shape, PlanInv, AuthorityInv, [Next]_vars PROVE AuthorityInv'
    OBVIOUS
  <2>1. CASE UNCHANGED vars
    BY <2>1 DEF vars, tables, history, AuthorityInv, IssuedInv, IssuedApproval, IssuedGrant,
                AgentAuthority, HumanAuthority, Granted, Planned
  <2>2. CASE Next
    <3>1. IssuedInv'
      BY <2>2, IssuedStep
    <3>2. CASE EnvironmentStep
      <4>1. \A a \in Agents : AgentAuthority(a)'
        BY <2>2, <3>2, EnvironmentStill, AgentStill DEF Handlers
      <4>2. \A h \in Humans : HumanAuthority(h)'
        BY <2>2, <3>2, EnvironmentStill, HumanStill DEF Handlers
      <4> QED BY <3>1, <4>1, <4>2 DEF AuthorityInv
    <3>3. CASE ~EnvironmentStep
      <4>1. UNCHANGED policy
        BY <2>2, <3>3, PolicyStill
      <4>2. ASSUME NEW v \in Handlers, pc'[v] = pc[v], job'[v] = job[v]
            PROVE  /\ v \in Agents => AgentAuthority(v)'
                   /\ v \in Humans => HumanAuthority(v)'
        BY <2>2, <4>1, <4>2, AgentStill, HumanStill
      <4>3. CASE AdminStep
        <5>1. UNCHANGED <<pc, job>>
          BY <4>3 DEF AdminStep, RejectApproval, CleanupApprovals, ListApprovals, RevokeGrant,
                      CleanupGrants, ListGrants, ApprovePlan, RejectPlan, ListPlans
        <5> QED BY <3>1, <4>2, <5>1 DEF AuthorityInv, Handlers
      <4>4. ASSUME NEW w \in Handlers,
                   /\ w \in Agents => AgentAuthority(w)'
                   /\ w \in Humans => HumanAuthority(w)',
                   \A v \in Handlers \ {w} : pc'[v] = pc[v] /\ job'[v] = job[v]
            PROVE  AuthorityInv'
        BY <3>1, <4>2, <4>4 DEF AuthorityInv, Handlers
      <4>5. ASSUME NEW a \in Agents, AgentStep(a)
            PROVE  AuthorityInv'
        <5>1. a \in Handlers /\ a \notin Humans
          BY AuthorizationAssumption DEF Handlers
        <5> QED BY <2>2, <4>4, <4>5, <5>1, OthersStill, AgentAuthorityStep
      <4>6. ASSUME NEW h \in Humans, HumanStep(h)
            PROVE  AuthorityInv'
        <5>1. h \in Handlers /\ h \notin Agents
          BY AuthorizationAssumption DEF Handlers
        <5> QED BY <2>2, <4>4, <4>6, <5>1, OthersStill, HumanAuthorityStep
      <4>7. ASSUME NEW w \in Handlers, Execute(w) \/ Deliver(w) \/ StorageFails(w) \/ Crash(w)
            PROVE  AuthorityInv'
        BY <2>2, <4>4, <4>7, OthersStill, HandlerAuthorityStep
      <4> QED BY <2>2, <3>3, <4>3, <4>5, <4>6, <4>7 DEF Next
    <3> QED BY <3>2, <3>3
  <2> QED BY <2>1, <2>2
<1> QED BY <1>1, <1>2, ShapeCorrect, PlanInvCorrect, PTL DEF Spec

\* A request that the policy has denied all along never runs.
THEOREM DenialsHold == Spec => []DenyIsAbsolute
<1>1. AuthorityInv => DenyIsAbsolute
  BY DEF AuthorityInv, AgentAuthority, HumanAuthority, DenyIsAbsolute, Handlers, Acting
<1> QED BY <1>1, AuthorityInvCorrect, PTL

\* Whatever runs, or is about to, is covered by the authority it runs under.
THEOREM AuthorityIsCovering == Spec => []AuthorityCoversRequest
<1>1. Shape /\ AuthorityInv => AuthorityCoversRequest
  <2> SUFFICES ASSUME Shape, AuthorityInv, NEW w \in Handlers, pc[w] \in Acting
               PROVE  AuthorityCoversRequest!(w)!2
    BY DEF AuthorityCoversRequest, Acting
  <2>1. CASE w \in Humans
    BY <2>1 DEF Shape, JobShape, HumanShape, AuthorityInv, HumanAuthority, Acting, Claimed
  <2>2. CASE w \in Agents
    <3>1. AgentAuthority(w) /\ AgentShape(pc[w], job[w])
      BY <2>2 DEF AuthorityInv, Shape, JobShape
    <3>2. CASE job[w].via = "grant" /\ Granted(job[w])
      <4>1. Backed(issued[job[w].ref], claims, issued)
        BY <3>1, <3>2 DEF AgentShape, Granted, AuthorityInv, IssuedInv, IssuedGrant
      <4> QED BY <3>2, <4>1 DEF Granted, Backed
    <3> QED BY <3>1, <3>2 DEF AgentAuthority, Planned
  <2> QED BY <2>1, <2>2 DEF Handlers
<1> QED BY <1>1, ShapeCorrect, AuthorityInvCorrect, PTL

-----------------------------------------------------------------------------
(* Consent is taken up in time                                               *)

\* What leaves the table takes no use with it.
LEMMA GrantsRemoved ==
    ASSUME Shape, Next, NEW g \in GrantIds, grants'[g].status = "absent"
    PROVE  grants'[g].used_count =< grants[g].used_count
<1>a. /\ grants \in GrantTables /\ expire_grants(grants, now) \in GrantTables
  BY GrantTypes DEF Shape, TypeOK
<1>b. /\ grants[g].used_count \in Nat
      /\ expire_grants(grants, now)[g].used_count = grants[g].used_count
  BY <1>a, ExpireGrantColumns DEF Shape, TypeOK, GrantTables, GrantRow
<1>c. ASSUME grants' \in {grants, expire_grants(grants, now)}
      PROVE  grants'[g].used_count =< grants[g].used_count
  BY <1>b, <1>c
<1>1. ASSUME NEW a \in Agents, Consume(a)
      PROVE  grants'[g].used_count =< grants[g].used_count
  <2> DEFINE marked == expire_grants(grants, now)
  <2>1. ASSUME NEW k \in GrantIds, marked[k].status = "active", grants' = consume(marked, k)
        PROVE  grants'[g].used_count =< grants[g].used_count
    <3>1. grants'[k].status # "absent" /\ (g # k => grants'[g] = marked[g])
      BY <1>a, <2>1 DEF consume, GrantTables, GrantRow
    <3> QED BY <1>b, <3>1
  <2>2. CASE grants' = marked
    BY <1>c, <2>2
  <2> QED BY <1>1, <2>1, <2>2 DEF Consume, FirstChoice, Usable
<1>2. ASSUME NEW a \in Agents, AgentStep(a)
      PROVE  grants'[g].used_count =< grants[g].used_count
  BY <1>2, <1>1, <1>c DEF AgentStep, Submit, ClaimPlan, CreateApproval, RequestMutation,
                          ProposePlan, AgentFinish, tables
<1>3. ASSUME NEW h \in Humans, HumanStep(h)
      PROVE  grants'[g].used_count =< grants[g].used_count
  <2>1. ASSUME NEW k \in GrantIds, NEW new, new.used_count = 0,
               grants' = [grants EXCEPT ![k] = new]
        PROVE  grants'[g].used_count =< grants[g].used_count
    BY <1>a, <1>b, <2>1 DEF GrantTables
  <2>2. CASE ApproveGrant(h)
    <3> DEFINE new == create_from_status(job[h].ref, approvals[job[h].ref], job[h].want, now)
    <3>1. new.used_count = 0
      BY DEF create_from_status
    <3> HIDE DEF new
    <3>2. UNCHANGED grants \/ \E k \in GrantIds : grants' = [grants EXCEPT ![k] = new]
      BY <2>2 DEF ApproveGrant, FreshGrants, new
    <3> QED BY <1>c, <2>1, <3>1, <3>2
  <2> QED BY <1>3, <1>c, <2>2 DEF HumanStep, ApproveBegin, ApproveClaim, ApproveVerify,
             ApproveAuthorize, ApproveAudit, ApproveFinish, ApproveReport
<1>4. ASSUME AdminStep
      PROVE  grants'[g].used_count =< grants[g].used_count
  <2>1. CASE CleanupGrants
    BY <1>b, <2>1 DEF CleanupGrants, cleanup_grants, NoGrant
  <2>2. ASSUME NEW k \in GrantIds, RevokeGrant(k)
        PROVE  grants'[g].used_count =< grants[g].used_count
    BY <1>a, <1>b, <2>2 DEF RevokeGrant, revoke, GrantTables, GrantRow
  <2> QED BY <1>4, <1>c, <2>1, <2>2 DEF AdminStep, RejectApproval, CleanupApprovals,
             ListApprovals, ListGrants, ApprovePlan, RejectPlan, ListPlans
<1>5. ASSUME EnvironmentStep \/ \E w \in Handlers : \/ Execute(w) \/ Deliver(w)
                                                    \/ StorageFails(w) \/ Crash(w)
      PROVE  grants'[g].used_count =< grants[g].used_count
  BY <1>5, <1>c DEF EnvironmentStep, Tick, EditFile, EditPolicy, Execute, Deliver,
                    StorageFails, Crash, tables
<1> QED BY <1>2, <1>3, <1>4, <1>5 DEF Next

\* A claim and a use both come before the deadline that was issued.
THEOREM ConsentIsInTime == Spec => ConsentInTime
<1> DEFINE InTime == /\ \A id \in claims' \ claims : now < issued[id].expires_at
                     /\ \A g \in GrantIds : grants'[g].used_count > grants[g].used_count =>
                                                now < issued[g].expires_at
<1>1. Shape /\ AuthorityInv /\ [Next]_vars => [InTime]_vars
  <2> SUFFICES ASSUME Shape, AuthorityInv, Next PROVE InTime
    OBVIOUS
  <2>1. ASSUME NEW id \in claims' \ claims
        PROVE  now < issued[id].expires_at
    <3>1. /\ approvals[id].status = "pending" /\ approvals[id].expires_at > now
          /\ id \in ApprovalIds
      BY ClaimsAreLive
    <3>2. SameApproval(approvals[id], issued[id])
      BY <3>1 DEF AuthorityInv, IssuedInv, IssuedApproval
    <3>3. approvals[id].expires_at \in Nat /\ now \in Nat
      BY <3>1 DEF Shape, TypeOK, ApprovalTables, ApprovalRow
    <3> QED BY <3>1, <3>2, <3>3 DEF SameApproval
  <2>2. ASSUME NEW g \in GrantIds, grants'[g].used_count > grants[g].used_count
        PROVE  now < issued[g].expires_at
    <3>0. grants[g] \in GrantRow /\ now \in Nat
      BY DEF Shape, TypeOK, GrantTables
    <3>1. grants[g].used_count \in Nat
      BY <3>0 DEF GrantRow
    <3>2. grants'[g].status # "absent"
      <4>1. grants' \in GrantTables
        BY ShapeStep DEF Shape, TypeOK
      <4>2. grants'[g].used_count \in Nat
        BY <4>1 DEF GrantTables, GrantRow
      <4> QED BY <2>2, <3>1, <4>2, GrantsRemoved
    <3>3. PICK a \in Agents : TakesGrant(a, g)
      BY <2>2, <3>1, <3>2, GrantsKept
    <3>4. SameGrant(grants[g], issued[g])
      BY <3>3 DEF TakesGrant, AuthorityInv, IssuedInv, IssuedGrant
    <3> QED BY <3>0, <3>3, <3>4 DEF TakesGrant, SameGrant, GrantRow
  <2> QED BY <2>1, <2>2
<1> QED BY <1>1, ShapeCorrect, AuthorityInvCorrect, PTL DEF Spec, ConsentInTime

-----------------------------------------------------------------------------
(* Budgets                                                                   *)

\* The handlers that have consumed a use and not started their operation.
Waiting(g) ==
    {a \in Agents : pc[a] = "ready" /\ job[a].via = "grant" /\ job[a].ref = g}

\* Uses spent: started, or about to start.
Spent(g) == grantRuns[g] + Cardinality(Waiting(g))

\* As long as the row is there its counter covers what was spent, which is what
\* lets consume decide by the counter alone. Once it is gone nothing more is
\* spent, and before it is issued nothing was.
BudgetInv ==
    \A g \in GrantIds :
        /\ IsFiniteSet(Waiting(g))
        /\ issued[g] = None => Spent(g) = 0
        /\ issued[g] # None => Spent(g) =< issued[g].max_uses
        /\ grants[g].status # "absent" => /\ Spent(g) =< grants[g].used_count
                                          /\ grants[g].used_count =< grants[g].max_uses

\* Spending goes up only when a use is consumed: an operation that starts moves
\* its use from the waiting to the started, and a handler that is lost gives
\* none back.
LEMMA SpentMoves ==
    ASSUME Shape, Next, NEW g \in GrantIds, IsFiniteSet(Waiting(g))
    PROVE  /\ IsFiniteSet(Waiting(g)')
           /\ Spent(g)' \in Nat
           /\ \/ Spent(g)' =< Spent(g)
              \/ /\ Spent(g)' =< Spent(g) + 1
                 /\ \E a \in Agents : TakesGrant(a, g)
<1>a. /\ pc \in [Handlers -> Labels] /\ job \in [Handlers -> Jobs]
      /\ grantRuns \in [GrantIds -> Nat] /\ Agents \subseteq Handlers
      /\ Cardinality(Waiting(g)) \in Nat
  BY FS_CardinalityType DEF Shape, TypeOK, Handlers
<1> DEFINE Goal == /\ IsFiniteSet(Waiting(g)')
                   /\ Spent(g)' \in Nat
                   /\ \/ Spent(g)' =< Spent(g)
                      \/ /\ Spent(g)' =< Spent(g) + 1
                         /\ \E a \in Agents : TakesGrant(a, g)
<1>b. ASSUME Waiting(g)' \subseteq Waiting(g), grantRuns'[g] = grantRuns[g]
      PROVE  Goal
  <2>1. /\ IsFiniteSet(Waiting(g)')
        /\ Cardinality(Waiting(g)') =< Cardinality(Waiting(g))
        /\ Cardinality(Waiting(g)') \in Nat
    BY <1>b, FS_Subset, FS_CardinalityType
  <2> QED BY <1>a, <1>b, <2>1 DEF Spent
<1>c. ASSUME NEW w \in Waiting(g), Waiting(g)' \subseteq Waiting(g) \ {w},
             grantRuns'[g] = grantRuns[g] + 1
      PROVE  Goal
  <2>1. /\ IsFiniteSet(Waiting(g) \ {w})
        /\ Cardinality(Waiting(g) \ {w}) = Cardinality(Waiting(g)) - 1
    BY FS_RemoveElement
  <2>2. /\ IsFiniteSet(Waiting(g)')
        /\ Cardinality(Waiting(g)') =< Cardinality(Waiting(g) \ {w})
        /\ Cardinality(Waiting(g)') \in Nat
    BY <1>c, <2>1, FS_Subset, FS_CardinalityType
  <2> QED BY <1>a, <1>c, <2>1, <2>2 DEF Spent
<1>d. ASSUME NEW a \in Agents, TakesGrant(a, g), Waiting(g)' \subseteq Waiting(g) \cup {a},
             grantRuns'[g] = grantRuns[g]
      PROVE  Goal
  <2>1. /\ IsFiniteSet(Waiting(g) \cup {a})
        /\ Cardinality(Waiting(g) \cup {a}) =< Cardinality(Waiting(g)) + 1
        /\ Cardinality(Waiting(g) \cup {a}) \in Nat
    <3>1. /\ IsFiniteSet(Waiting(g) \cup {a})
          /\ Cardinality(Waiting(g) \cup {a}) = IF a \in Waiting(g) THEN Cardinality(Waiting(g))
                                                ELSE Cardinality(Waiting(g)) + 1
      BY FS_AddElement
    <3> QED BY <1>a, <3>1
  <2>2. /\ IsFiniteSet(Waiting(g)')
        /\ Cardinality(Waiting(g)') =< Cardinality(Waiting(g) \cup {a})
        /\ Cardinality(Waiting(g)') \in Nat
    BY <1>d, <2>1, FS_Subset, FS_CardinalityType
  <2> QED BY <1>a, <1>d, <2>1, <2>2 DEF Spent
<1> SUFFICES Goal
  OBVIOUS
<1> HIDE DEF Goal
<1>1. ASSUME NEW a \in Agents, AgentStep(a)
      PROVE  Goal
  <2>1. UNCHANGED grantRuns
    BY <1>1 DEF AgentStep, Submit, ClaimPlan, Consume, CreateApproval, RequestMutation,
                ProposePlan, AgentFinish, history
  <2>2. \A v \in Agents \ {a} : pc'[v] = pc[v] /\ job'[v] = job[v]
    BY <1>1, <1>a, OthersStill
  <2>3. ASSUME \/ pc'[a] # "ready" \/ job'[a].via # "grant" \/ job'[a].ref # g
               \/ pc'[a] = pc[a] /\ job'[a] = job[a]
        PROVE  Goal
    BY <1>b, <2>1, <2>2, <2>3 DEF Waiting
  <2>4. CASE Consume(a)
    <3>1. CASE Goto(a, "create")
      BY <1>a, <2>3, <3>1 DEF Goto
    <3> DEFINE marked == expire_grants(grants, now)
               usable == Usable(marked, ProfileOf[job[a].request], job[a].decision.rule_id,
                                job[a].task, job[a].ns, now)
    <3>2. ASSUME NEW k \in FirstChoice(marked, usable), grants' = consume(marked, k),
                 job' = [job EXCEPT ![a] = [@ EXCEPT !.via = "grant", !.ref = k]],
                 Goto(a, "ready")
          PROVE  Goal
      <4>1. job'[a].ref = k
        BY <1>a, <3>2 DEF Jobs
      <4>2. CASE k # g
        BY <2>3, <4>1, <4>2
      <4>3. CASE k = g
        <5>1. TakesGrant(a, g)
          BY <2>4, <3>2, <4>3, TakingGrant
        <5> QED BY <1>d, <2>1, <2>2, <5>1 DEF Waiting
      <4> QED BY <4>2, <4>3
    <3> QED BY <2>4, <3>1, <3>2, Zenon DEF Consume
  <2>5. ASSUME NEW r \in Requests, NEW task \in Maybe(Tasks),
               NEW ns \in Namespaces, Submit(a, r, task, ns)
        PROVE  Goal
    <3>1. job'[a].via \in {"none", "policy"}
      BY <2>5, SubmitSets
    <3> QED BY <2>3, <3>1
  <2>6. CASE ClaimPlan(a)
    <3>1. pc'[a] = "ready" => job'[a].via \in {"policy", "plan"}
      <4>1. CASE job' = [job EXCEPT ![a].via = "policy"]
        BY <1>a, <4>1 DEF Jobs
      <4>2. ASSUME NEW p, NEW n, NEW hash,
                   job' = [job EXCEPT ![a] = [@ EXCEPT !.via = "plan", !.ref = p, !.index = n,
                                                       !.hash = hash]]
            PROVE  job'[a].via = "plan"
        BY <1>a, <4>2 DEF Jobs
      <4>3. CASE \E p \in PlanIds :
                   job' = [job EXCEPT ![a] =
                             [@ EXCEPT !.via = "plan", !.ref = p,
                                       !.index = expire_plans(plans, now)[p].next_index,
                                       !.hash = request_hash(job[a].request, files)]]
        <5>1. job'[a].via = "plan"
          BY <4>2, <4>3, Zenon
        <5> QED BY <5>1
      <4>4. CASE Answer(a, "error")
        BY <1>a, <4>4 DEF Answer, Goto
      <4>5. CASE pc'[a] = "consume"
        BY <4>5
      <4> QED BY <2>6, <4>1, <4>3, <4>4, <4>5, ClaimPlanSets
    <3> QED BY <2>3, <3>1
  <2>7. CASE CreateApproval(a) \/ \E outcome \in {"ok", "failed", "error"} : AgentFinish(a, outcome)
    BY <1>a, <2>3, <2>7 DEF CreateApproval, AgentFinish, Answer, Goto
  <2>8. CASE UNCHANGED <<pc, job>>
    BY <2>3, <2>8
  <2> QED BY <1>1, <2>4, <2>5, <2>6, <2>7, <2>8 DEF AgentStep, RequestMutation, ProposePlan
<1>2. ASSUME NEW h \in Humans, HumanStep(h)
      PROVE  Goal
  <2>1. UNCHANGED grantRuns
    BY <1>2 DEF HumanStep, ApproveBegin, ApproveClaim, ApproveVerify, ApproveAuthorize,
                ApproveGrant, ApproveAudit, ApproveFinish, ApproveReport, history
  <2>2. \A v \in Agents : pc'[v] = pc[v] /\ job'[v] = job[v]
    BY <1>2, <1>a, OthersStill, AuthorizationAssumption DEF Handlers
  <2> QED BY <1>b, <2>1, <2>2 DEF Waiting
<1>3. CASE AdminStep
  <2>1. UNCHANGED <<pc, job, grantRuns>>
    BY <1>3 DEF AdminStep, RejectApproval, CleanupApprovals, ListApprovals, RevokeGrant,
                CleanupGrants, ListGrants, ApprovePlan, RejectPlan, ListPlans, history
  <2> QED BY <1>b, <2>1 DEF Waiting
<1>4. CASE EnvironmentStep
  <2>1. UNCHANGED grantRuns
    BY <1>4 DEF EnvironmentStep, Tick, EditFile, EditPolicy, history
  <2>2. \A v \in Agents : /\ pc'[v] = pc[v] /\ job'[v].via = job[v].via
                          /\ job'[v].ref = job[v].ref
    BY <1>4, <1>a, EnvironmentStill
  <2> QED BY <1>b, <2>1, <2>2 DEF Waiting
<1>5. ASSUME NEW w \in Handlers, Execute(w)
      PROVE  Goal
  <2>1. pc[w] = "ready" /\ pc'[w] = "running"
    BY <1>5, <1>a DEF Execute, Goto
  <2>2. \A v \in Agents \ {w} : pc'[v] = pc[v] /\ job'[v] = job[v]
    BY <1>5, <1>a, OthersStill
  <2>3. CASE job[w].via = "grant" /\ job[w].ref = g
    <3>1. w \in Agents
      BY <2>1, <2>3 DEF Handlers, Shape, JobShape, HumanShape
    <3>2. w \in Waiting(g) /\ Waiting(g)' \subseteq Waiting(g) \ {w}
      BY <2>1, <2>2, <2>3, <3>1 DEF Waiting
    <3>3. grantRuns'[g] = grantRuns[g] + 1
      BY <1>5, <1>a, <2>3 DEF Execute
    <3> QED BY <1>c, <3>2, <3>3
  <2>4. CASE ~(job[w].via = "grant" /\ job[w].ref = g)
    <3>1. grantRuns'[g] = grantRuns[g]
      BY <1>5, <1>a, <2>4 DEF Execute
    <3>2. Waiting(g)' \subseteq Waiting(g)
      BY <2>1, <2>2 DEF Waiting
    <3> QED BY <1>b, <3>1, <3>2
  <2> QED BY <2>3, <2>4
<1>6. ASSUME NEW w \in Handlers, Deliver(w) \/ StorageFails(w) \/ Crash(w)
      PROVE  Goal
  <2>1. UNCHANGED grantRuns /\ pc'[w] \in {"idle", "replied"}
    BY <1>6, <1>a DEF Deliver, StorageFails, Crash, Answer, Goto, history
  <2>2. \A v \in Agents \ {w} : pc'[v] = pc[v] /\ job'[v] = job[v]
    BY <1>6, <1>a, OthersStill
  <2> QED BY <1>b, <2>1, <2>2 DEF Waiting
<1> QED BY <1>1, <1>2, <1>3, <1>4, <1>5, <1>6, Zenon DEF Next

\* What the limit allows is never overspent, whoever crashes, cleans up, revokes
\* or lets grants expire meanwhile.
THEOREM BudgetsHold == Spec => []GrantBudget
<1>1. Init => BudgetInv
  <2> SUFFICES ASSUME Init, NEW g \in GrantIds
               PROVE  /\ IsFiniteSet(Waiting(g)) /\ Spent(g) = 0
                      /\ issued[g] = None /\ grants[g].status = "absent"
    BY DEF BudgetInv
  <2>1. Waiting(g) = {}
    BY DEF Init, Waiting, Handlers
  <2> QED BY <2>1, FS_EmptySet DEF Init, Spent, NoGrant
<1>2. Shape /\ AuthorityInv /\ BudgetInv /\ [Next]_vars => BudgetInv'
  <2> SUFFICES ASSUME Shape, AuthorityInv, BudgetInv, [Next]_vars PROVE BudgetInv'
    OBVIOUS
  <2>1. CASE UNCHANGED vars
    BY <2>1 DEF vars, tables, history, BudgetInv, Spent, Waiting
  <2>2. CASE Next
    <3> SUFFICES ASSUME NEW g \in GrantIds
                 PROVE  /\ IsFiniteSet(Waiting(g)')
                        /\ issued'[g] = None => Spent(g)' = 0
                        /\ issued'[g] # None => Spent(g)' =< issued'[g].max_uses
                        /\ grants'[g].status # "absent" =>
                              /\ Spent(g)' =< grants'[g].used_count
                              /\ grants'[g].used_count =< grants'[g].max_uses
      BY DEF BudgetInv
    <3>a. /\ grants \in GrantTables /\ grants' \in GrantTables
          /\ issued \in [ApprovalIds \cup GrantIds -> Maybe(ApprovalRow \cup GrantRow)]
      BY ShapeStep DEF Shape, TypeOK
    <3>b. /\ IsFiniteSet(Waiting(g))
          /\ issued[g] = None => Spent(g) = 0
          /\ issued[g] # None => Spent(g) =< issued[g].max_uses
          /\ grants[g].status # "absent" => /\ Spent(g) =< grants[g].used_count
                                            /\ grants[g].used_count =< grants[g].max_uses
      BY DEF BudgetInv
    <3>c. IssuedGrant(g) /\ IssuedGrant(g)'
      BY <2>2, IssuedStep DEF AuthorityInv, IssuedInv
    <3>d. Spent(g) \in Nat
      BY <3>b, FS_CardinalityType DEF Spent, Shape, TypeOK
    <3>e. /\ IsFiniteSet(Waiting(g)')
          /\ Spent(g)' \in Nat
          /\ \/ Spent(g)' =< Spent(g)
             \/ /\ Spent(g)' =< Spent(g) + 1
                /\ \E a \in Agents : TakesGrant(a, g)
      BY <2>2, <3>b, SpentMoves
    <3>f. /\ grants[g].used_count \in Nat /\ grants'[g].used_count \in Nat
          /\ grants[g].max_uses \in Nat /\ grants'[g].max_uses \in Nat
          /\ issued'[g] # None => issued'[g].max_uses \in Nat
      BY <3>a, <3>c DEF IssuedGrant, GrantTables, GrantRow, Maybe
    <3>1. CASE \E a \in Agents : TakesGrant(a, g)
      <4>1. /\ grants[g].status # "absent" /\ grants'[g].status # "absent"
            /\ grants[g].used_count < grants[g].max_uses
            /\ grants'[g].used_count = grants[g].used_count + 1
        BY <3>1 DEF TakesGrant
      <4>2. issued[g] # None /\ issued'[g] = issued[g]
        BY <2>2, <3>c, <4>1, IssuedOnce DEF IssuedGrant
      <4>3. grants[g].max_uses = issued[g].max_uses /\ grants'[g].max_uses = issued[g].max_uses
        BY <3>c, <4>1, <4>2 DEF IssuedGrant, SameGrant
      <4> QED BY <3>b, <3>d, <3>e, <3>f, <4>1, <4>2, <4>3
    <3>2. CASE ~(\E a \in Agents : TakesGrant(a, g)) /\ issued[g] # None
      <4>1. issued'[g] = issued[g]
        BY <2>2, <3>2, IssuedOnce
      <4>2. grants'[g].status # "absent" =>
               /\ grants[g].status # "absent" /\ grants'[g].used_count = grants[g].used_count
               /\ grants'[g].max_uses = grants[g].max_uses
        BY <2>2, <3>2, GrantsKept DEF SameGrant
      <4> QED BY <3>2, <3>b, <3>d, <3>e, <3>f, <4>1, <4>2
    <3>3. CASE ~(\E a \in Agents : TakesGrant(a, g)) /\ issued[g] = None
      <4>1. Spent(g)' = 0
        BY <3>3, <3>b, <3>e
      <4>2. grants[g].status = "absent"
        BY <3>3, <3>c DEF IssuedGrant
      <4>3. grants'[g].status # "absent" => grants'[g].used_count = 0
        BY <2>2, <4>2, GrantsKept
      <4> QED BY <3>e, <3>f, <4>1, <4>3
    <3> QED BY <3>1, <3>2, <3>3
  <2> QED BY <2>1, <2>2
<1>3. BudgetInv => GrantBudget
  BY DEF BudgetInv, GrantBudget, Spent, Waiting
<1> QED BY <1>1, <1>2, <1>3, ShapeCorrect, AuthorityInvCorrect, PTL DEF Spec

=============================================================================
