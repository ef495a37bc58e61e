----------------------------- MODULE ClaimProofs ----------------------------
(***************************************************************************)
(* Claims, for any number of handlers, rows and plans: a plan's actions    *)
(* start in order, a claim has one holder, none is stranded, and a reply   *)
(* says what the tables recorded.                                          *)
(*                                                                         *)
(* PlanInv is inductive given the types: the claim columns are set exactly *)
(* while a plan executes, the handler that claimed finds them as it left   *)
(* them, because a lease that lapses fails the plan and never returns it   *)
(* to approved, and the starts of a plan are its next_index many.  With    *)
(* ApprovalInv it says that no two handlers hold one claim, and that gives *)
(* the rest: only the holder settles a row, so a row that executes is held *)
(* or was lost with its handler (StrandInv), and what a handler is about   *)
(* to report is what it wrote (OutcomeInv), for outcomes are final.        *)
(***************************************************************************)
EXTENDS AuthorizationProofs

-----------------------------------------------------------------------------
(* What the steps do to the handlers' local variables                        *)

\* A step of one handler leaves every other handler where it is.
LEMMA OthersStill ==
    ASSUME Shape, NEW w \in Handlers,
           \/ w \in Agents /\ AgentStep(w)
           \/ w \in Humans /\ HumanStep(w)
           \/ Execute(w) \/ Deliver(w) \/ StorageFails(w) \/ Crash(w)
    PROVE  \A v \in Handlers \ {w} : pc'[v] = pc[v] /\ job'[v] = job[v]
<1>1. pc \in [Handlers -> Labels] /\ job \in [Handlers -> Jobs]
  BY DEF Shape, TypeOK
<1>2. CASE w \in Agents /\ AgentStep(w)
  BY <1>1, <1>2 DEF AgentStep, Submit, ClaimPlan, Consume, CreateApproval, RequestMutation,
                    ProposePlan, AgentFinish, Answer, Goto
<1>3. CASE w \in Humans /\ HumanStep(w)
  BY <1>1, <1>3 DEF HumanStep, ApproveBegin, ApproveClaim, ApproveVerify, ApproveAuthorize,
                    ApproveGrant, ApproveAudit, ApproveFinish, ApproveReport, FailApproval,
                    Answer, Goto
<1>4. CASE Execute(w) \/ Deliver(w) \/ StorageFails(w) \/ Crash(w)
  BY <1>1, <1>4 DEF Execute, Deliver, StorageFails, Crash, Answer, Goto
<1> QED BY <1>2, <1>3, <1>4

\* The environment moves no handler, and of a handler's local variables it
\* changes only `denied`, to withdraw it.
LEMMA EnvironmentStill ==
    ASSUME Shape, EnvironmentStep, NEW w \in Handlers
    PROVE  /\ pc'[w] = pc[w]
           /\ job'[w].via = job[w].via /\ job'[w].ref = job[w].ref
           /\ job'[w].index = job[w].index /\ job'[w].reply = job[w].reply
           /\ job'[w].request = job[w].request /\ job'[w].ns = job[w].ns
           /\ job'[w].task = job[w].task /\ job'[w].decision = job[w].decision
           /\ job'[w].denied => /\ job[w].denied
                                /\ \/ UNCHANGED policy
                                   \/ policy'[job[w].request].effect = "deny"
<1>1. pc'[w] = pc[w]
  BY DEF EnvironmentStep, Tick, EditFile, EditPolicy
<1>2. CASE UNCHANGED <<job, policy>>
  BY <1>1, <1>2
<1>3. ASSUME NEW new \in Policies, EditPolicy(new)
      PROVE  /\ job'[w].via = job[w].via /\ job'[w].ref = job[w].ref
             /\ job'[w].index = job[w].index /\ job'[w].reply = job[w].reply
             /\ job'[w].request = job[w].request /\ job'[w].ns = job[w].ns
             /\ job'[w].task = job[w].task /\ job'[w].decision = job[w].decision
             /\ job'[w].denied => /\ job[w].denied
                                  /\ policy'[job[w].request].effect = "deny"
  <2>1. job[w] \in Jobs
    BY DEF Shape, TypeOK
  <2>2. /\ policy' = new
        /\ job'[w] = [job[w] EXCEPT !.denied =
                        job[w].denied /\ new[job[w].request].effect = "deny"]
    BY <1>3 DEF EditPolicy
  <2> QED BY <2>1, <2>2 DEF Jobs
<1> QED BY <1>1, <1>2, <1>3 DEF EnvironmentStep, Tick, EditFile

\* Answering sets the reply and nothing else.
LEMMA AnswerSets ==
    ASSUME Shape, NEW w \in Handlers, NEW x, Answer(w, x)
    PROVE  /\ pc'[w] = "replied"
           /\ job'[w].reply = x
           /\ job'[w].via = job[w].via /\ job'[w].ref = job[w].ref
           /\ job'[w].index = job[w].index
BY DEF Answer, Goto, Shape, TypeOK, Jobs

\* What Submit leaves in the handler: a denial, a permission, or a request that
\* goes on to the plans.
LEMMA SubmitSets ==
    ASSUME Shape, NEW a \in Agents, NEW r \in Requests, NEW task \in Maybe(Tasks),
           NEW ns \in Namespaces, Submit(a, r, task, ns)
    PROVE  /\ pc'[a] \in {"replied", "ready", "claim_plan"}
           /\ job'[a].via \in {"none", "policy"} /\ job'[a].reply \in {"none", "denied"}
           /\ pc'[a] = "ready" => job'[a].via = "policy"
<1>1. a \in Handlers /\ pc \in [Handlers -> Labels] /\ job \in [Handlers -> Jobs]
  BY DEF Handlers, Shape, TypeOK
<1> DEFINE taken == [NoJob EXCEPT !.request = r, !.ns = ns, !.task = task,
                                  !.decision = policy[r],
                                  !.denied = (policy[r].effect = "deny")]
           denied == [taken EXCEPT !.reply = "denied"]
           allowed == [taken EXCEPT !.via = "policy"]
<1>2. \/ pc' = [pc EXCEPT ![a] = "replied"] /\ job' = [job EXCEPT ![a] = denied]
      \/ pc' = [pc EXCEPT ![a] = "ready"] /\ job' = [job EXCEPT ![a] = allowed]
      \/ pc' = [pc EXCEPT ![a] = "claim_plan"] /\ job' = [job EXCEPT ![a] = taken]
  BY Zenon DEF Submit, Goto
<1>3. /\ taken.via = "none" /\ taken.reply = "none"
      /\ denied.via = "none" /\ denied.reply = "denied"
      /\ allowed.via = "policy" /\ allowed.reply = "none"
  BY DEF NoJob
<1> HIDE DEF taken, denied, allowed
<1> QED BY <1>1, <1>2, <1>3

\* What a handler that found a plan or a grant has become.
LEMMA FoundSets ==
    ASSUME NEW a \in Handlers, job \in [Handlers -> Jobs], NEW x
    PROVE  /\ job' = [job EXCEPT ![a].via = x] =>
                 /\ job'[a].via = x /\ job'[a].reply = job[a].reply
                 /\ job'[a].ref = job[a].ref
           /\ job' = [job EXCEPT ![a] = [@ EXCEPT !.via = "grant", !.ref = x]] =>
                 /\ job'[a].via = "grant" /\ job'[a].ref = x
                 /\ job'[a].reply = job[a].reply
<1>1. job[a] \in Jobs
  OBVIOUS
<1>2. /\ [job[a] EXCEPT !.via = x].via = x
      /\ [job[a] EXCEPT !.via = x].reply = job[a].reply
      /\ [job[a] EXCEPT !.via = x].ref = job[a].ref
  BY <1>1 DEF Jobs
<1>3. LET found == [job[a] EXCEPT !.via = "grant", !.ref = x]
      IN  found.via = "grant" /\ found.ref = x /\ found.reply = job[a].reply
  BY <1>1 DEF Jobs
<1>4. job' = [job EXCEPT ![a].via = x] => job'[a] = [job[a] EXCEPT !.via = x]
  OBVIOUS
<1>5. job' = [job EXCEPT ![a] = [@ EXCEPT !.via = "grant", !.ref = x]] =>
         job'[a] = [job[a] EXCEPT !.via = "grant", !.ref = x]
  OBVIOUS
<1> QED BY <1>2, <1>3, <1>4, <1>5

\* What claim_plan_action leaves in the handler: the authority that was found.
LEMMA ClaimPlanSets ==
    ASSUME Shape, NEW a \in Agents, ClaimPlan(a)
    PROVE  \/ /\ plans' \in {plans, expire_plans(plans, now)}
              /\ pc'[a] = "ready" /\ job[a].decision.effect = "allow"
              /\ job' = [job EXCEPT ![a].via = "policy"]
           \/ /\ plans' \in {plans, expire_plans(plans, now)}
              /\ pc'[a] = "consume" /\ job[a].decision.effect # "allow"
              /\ UNCHANGED job
           \/ /\ plans' \in {plans, expire_plans(plans, now)}
              /\ Answer(a, "error")
           \/ /\ pc'[a] = "ready"
              /\ \E p \in PlanIds :
                   LET row == expire_plans(plans, now)[p]
                   IN  /\ row.status \in {"approved", "executing"}
                       /\ row.task = job[a].task /\ row.ns = job[a].ns
                       /\ PlanClaimable(row, job[a].request, files)
                       /\ plans' = claim_plan_action(expire_plans(plans, now), p,
                                                     job[a].request, now)
                       /\ job' = [job EXCEPT ![a] =
                                    [@ EXCEPT !.via = "plan", !.ref = p,
                                              !.index = row.next_index,
                                              !.hash = request_hash(job[a].request, files)]]
<1> DEFINE marked == IF job[a].task = None THEN plans ELSE expire_plans(plans, now)
           current == IF job[a].task = None THEN {}
                      ELSE CurrentPlans(marked, ProfileOf[job[a].request], job[a].task,
                                        job[a].ns, now)
<1>1. a \in Handlers /\ pc \in [Handlers -> Labels]
  BY DEF Handlers, Shape, TypeOK
<1>2. CASE /\ current = {} /\ plans' = marked
           /\ IF job[a].decision.effect = "allow"
              THEN job' = [job EXCEPT ![a].via = "policy"] /\ Goto(a, "ready")
              ELSE UNCHANGED job /\ Goto(a, "consume")
  BY <1>1, <1>2 DEF Goto
<1>3. ASSUME NEW p \in current, ~PlanClaimable(marked[p], job[a].request, files),
             plans' = marked, Answer(a, "error")
      PROVE  plans' \in {plans, expire_plans(plans, now)} /\ Answer(a, "error")
  BY <1>3
<1>4. ASSUME NEW p \in current, PlanClaimable(marked[p], job[a].request, files),
             plans' = claim_plan_action(marked, p, job[a].request, now),
             job' = [job EXCEPT ![a] = [@ EXCEPT !.via = "plan", !.ref = p,
                                                 !.index = marked[p].next_index,
                                                 !.hash = request_hash(job[a].request, files)]],
             Goto(a, "ready")
      PROVE  /\ pc'[a] = "ready"
             /\ \E q \in PlanIds :
                   LET row == expire_plans(plans, now)[q]
                   IN  /\ row.status \in {"approved", "executing"}
                       /\ row.task = job[a].task /\ row.ns = job[a].ns
                       /\ PlanClaimable(row, job[a].request, files)
                       /\ plans' = claim_plan_action(expire_plans(plans, now), q,
                                                     job[a].request, now)
                       /\ job' = [job EXCEPT ![a] =
                                    [@ EXCEPT !.via = "plan", !.ref = q,
                                              !.index = row.next_index,
                                              !.hash = request_hash(job[a].request, files)]]
  <2>1. job[a].task # None
    BY <1>4
  <2>2. marked = expire_plans(plans, now)
    BY <2>1
  <2>3. /\ p \in PlanIds /\ marked[p].status \in {"approved", "executing"}
        /\ marked[p].task = job[a].task /\ marked[p].ns = job[a].ns
    BY <1>4, <2>1 DEF CurrentPlans
  <2>4. pc'[a] = "ready"
    BY <1>1, <1>4 DEF Goto
  <2> HIDE DEF marked
  <2> QED BY <1>4, <2>2, <2>3, <2>4, Zenon
<1> QED BY <1>2, <1>3, <1>4, Zenon DEF ClaimPlan

-----------------------------------------------------------------------------
(* The plans table                                                           *)

\* A row that expire_plans looks at keeps what was proposed and how far it got;
\* a lapsed lease fails it, its own deadline expires it if it waits.
LEMMA ExpirePlanShape ==
    ASSUME NEW table \in PlanTables, NEW t \in Nat, NEW p \in PlanIds
    PROVE  LET new == expire_plans(table, t)[p]
               old == table[p]
           IN  /\ new.task = old.task /\ new.ns = old.ns /\ new.actions = old.actions
               /\ new.next_index = old.next_index
               /\ \/ new = old
                  \/ /\ old.status = "executing" /\ new.status = "failed"
                     /\ new.claimed_index = None
                  \/ /\ old.status \in {"pending", "approved"} /\ new.status = "expired"
                     /\ new.claimed_index = old.claimed_index
<1>1. table[p] \in PlanRow
  BY DEF PlanTables
<1> QED BY <1>1, SMTT(30) DEF expire_plans, PlanRow

PlanInv == PlanRowInv /\ PlanClaimInv /\ PlanRunInv

\* No handler starts to act on a plan, and those that act stay where they are
\* or leave.
AgentsQuiet ==
    \A a \in Agents : ActsOnPlan(a)' =>
        /\ ActsOnPlan(a)
        /\ pc'[a] = pc[a]
        /\ job'[a].ref = job[a].ref
        /\ job'[a].index = job[a].index

\* No plan moves on, nor into or out of the states in which an action may have
\* started and not succeeded.
PlansQuiet ==
    /\ planRuns' = planRuns
    /\ PlanRowInv'
    /\ \A p \in PlanIds :
          /\ plans'[p].next_index = plans[p].next_index
          /\ plans'[p].status \in {"executing", "failed"}
                <=> plans[p].status \in {"executing", "failed"}

\* A quiet step preserves the invariant.
LEMMA PlanQuietStep ==
    ASSUME Shape, PlanInv, AgentsQuiet, PlansQuiet
    PROVE  PlanInv'
<1>a. \A a \in Agents : ActsOnPlan(a) => job[a].ref \in PlanIds
  BY DEF ActsOnPlan, Shape, JobShape, AgentShape, Acting
<1>1. PlanClaimInv'
  BY <1>a DEF PlanInv, PlanClaimInv, AgentsQuiet, PlansQuiet
<1>2. PlanRunInv'
  BY <1>a DEF PlanInv, PlanRunInv, AgentsQuiet, PlansQuiet
<1> QED BY <1>1, <1>2 DEF PlanInv, PlansQuiet

\* Leaving the plans alone is quiet, and so is expiring them.
LEMMA ExpirePlansQuiet ==
    ASSUME Shape, PlanInv, planRuns' = planRuns,
           plans' \in {plans, expire_plans(plans, now)}
    PROVE  PlansQuiet
<1>1. CASE plans' = plans
  BY <1>1 DEF PlansQuiet, PlanInv, PlanRowInv
<1>2. CASE plans' = expire_plans(plans, now)
  <2>1. \A p \in PlanIds :
           /\ plans'[p].next_index = plans[p].next_index
           /\ \/ plans'[p] = plans[p]
              \/ /\ plans[p].status = "executing" /\ plans'[p].status = "failed"
                 /\ plans'[p].claimed_index = None
              \/ /\ plans[p].status \in {"pending", "approved"}
                 /\ plans'[p].status = "expired"
                 /\ plans'[p].claimed_index = plans[p].claimed_index
    BY <1>2, ExpirePlanShape DEF Shape, TypeOK
  <2>2. PlanRowInv'
    BY <2>1 DEF PlanInv, PlanRowInv
  <2> QED BY <2>1, <2>2 DEF PlansQuiet
<1> QED BY <1>1, <1>2

\* Init establishes the invariant.
LEMMA PlanInit == Init => PlanInv
<1> SUFFICES ASSUME Init PROVE PlanInv
  OBVIOUS
<1>1. /\ \A a \in Agents : ~ActsOnPlan(a)
      /\ \A p \in PlanIds : plans[p] = NoPlan /\ planRuns[p] = <<>>
  BY DEF Init, ActsOnPlan, Acting, Handlers
<1>2. NoPlan.status = "absent" /\ NoPlan.claimed_index = None /\ NoPlan.next_index = 0
  BY DEF NoPlan
<1> QED BY <1>1, <1>2 DEF PlanInv, PlanRowInv, PlanClaimInv, PlanRunInv

\* Administration and the environment are quiet: a human approves and rejects
\* plans that no handler has claimed.
LEMMA PlanAdmin ==
    ASSUME Shape, PlanInv, AdminStep
    PROVE  PlanInv'
<1>1. UNCHANGED <<pc, job, planRuns>>
  BY DEF AdminStep, RejectApproval, CleanupApprovals, ListApprovals, RevokeGrant,
         CleanupGrants, ListGrants, ApprovePlan, RejectPlan, ListPlans, history
<1>2. AgentsQuiet
  BY <1>1 DEF AgentsQuiet, ActsOnPlan
<1>3. CASE plans' \in {plans, expire_plans(plans, now)}
  BY <1>1, <1>2, <1>3, ExpirePlansQuiet, PlanQuietStep
<1>4. ASSUME NEW p \in PlanIds, ApprovePlan(p) \/ RejectPlan(p)
      PROVE  PlanInv'
  <2>1. PICK table \in {plans, expire_plans(plans, now)}, s \in {"approved", "rejected"} :
           plans' = [table EXCEPT ![p].status = s]
    BY <1>4 DEF ApprovePlan, RejectPlan, approve_plan, reject_plan
  <2>2. plans[p].status = "pending"
    BY <1>4 DEF ApprovePlan, RejectPlan
  <2>3. table \in PlanTables
    BY PlanTypes DEF Shape, TypeOK
  <2>4. \A q \in PlanIds \ {p} : plans'[q] = table[q]
    BY <2>1, <2>3 DEF PlanTables
  <2>5. /\ plans'[p].status = s /\ plans'[p].next_index = table[p].next_index
        /\ plans'[p].claimed_index = table[p].claimed_index
    BY <2>1, <2>3 DEF PlanTables, PlanRow
  <2>6. \A q \in PlanIds :
           /\ table[q].next_index = plans[q].next_index
           /\ \/ table[q] = plans[q]
              \/ /\ plans[q].status = "executing" /\ table[q].status = "failed"
                 /\ table[q].claimed_index = None
              \/ /\ plans[q].status \in {"pending", "approved"}
                 /\ table[q].status = "expired"
                 /\ table[q].claimed_index = plans[q].claimed_index
    BY ExpirePlanShape DEF Shape, TypeOK
  <2>7. PlanRowInv'
    BY <2>2, <2>4, <2>5, <2>6 DEF PlanInv, PlanRowInv
  <2>8. PlansQuiet
    BY <1>1, <2>2, <2>4, <2>5, <2>6, <2>7 DEF PlansQuiet
  <2> QED BY <1>2, <2>8, PlanQuietStep
<1> QED BY <1>3, <1>4 DEF AdminStep, RejectApproval, CleanupApprovals, ListApprovals,
                          RevokeGrant, CleanupGrants, ListGrants, ListPlans

\* Nor does the environment.
LEMMA PlanEnvironment ==
    ASSUME Shape, PlanInv, EnvironmentStep
    PROVE  PlanInv'
<1>1. AgentsQuiet
  BY EnvironmentStill DEF AgentsQuiet, ActsOnPlan, Handlers
<1>2. UNCHANGED <<plans, planRuns>>
  BY DEF EnvironmentStep, Tick, EditFile, EditPolicy, tables, history
<1> QED BY <1>1, <1>2, ExpirePlansQuiet, PlanQuietStep

\* Humans' handlers do not touch plans.
LEMMA PlanHuman ==
    ASSUME Shape, PlanInv, NEW h \in Humans, HumanStep(h)
    PROVE  PlanInv'
<1>1. \A a \in Agents : a \in Handlers \ {h}
  BY AuthorizationAssumption DEF Handlers
<1>2. AgentsQuiet
  BY <1>1, OthersStill DEF AgentsQuiet, ActsOnPlan, Handlers
<1>3. UNCHANGED <<plans, planRuns>>
  BY DEF HumanStep, ApproveBegin, ApproveClaim, ApproveVerify, ApproveAuthorize,
         ApproveGrant, ApproveAudit, ApproveFinish, ApproveReport, history
<1> QED BY <1>2, <1>3, ExpirePlansQuiet, PlanQuietStep

\* Agents' steps: a claim finds the plan approved, so no handler acts on it and
\* all the actions it started have succeeded; the settlement of an action is
\* made by the one handler that acts on the plan, after its action started.
LEMMA PlanAgent ==
    ASSUME Shape, PlanInv, NEW a \in Agents, AgentStep(a)
    PROVE  PlanInv'
<1>a. /\ a \in Handlers /\ job[a] \in Jobs /\ AgentShape(pc[a], job[a])
      /\ pc \in [Handlers -> Labels] /\ job \in [Handlers -> Jobs]
  BY DEF Shape, TypeOK, JobShape, Handlers
<1>b. \A b \in Agents \ {a} : pc'[b] = pc[b] /\ job'[b] = job[b]
  BY <1>a, OthersStill DEF Handlers
<1>c. planRuns' = planRuns
  BY DEF AgentStep, Submit, ClaimPlan, Consume, CreateApproval, RequestMutation,
         ProposePlan, AgentFinish, history
<1>d. ASSUME ~ActsOnPlan(a)'
      PROVE  AgentsQuiet
  BY <1>b, <1>d DEF AgentsQuiet, ActsOnPlan
<1>e. ASSUME ~ActsOnPlan(a)', plans' \in {plans, expire_plans(plans, now)}
      PROVE  PlanInv'
  BY <1>c, <1>d, <1>e, ExpirePlansQuiet, PlanQuietStep
<1>f. ASSUME NEW x, Answer(a, x)
      PROVE  ~ActsOnPlan(a)'
  BY <1>a, <1>f, AnswerSets DEF ActsOnPlan, Acting
<1>1. ASSUME NEW r \in Requests, NEW task \in Maybe(Tasks),
             NEW ns \in Namespaces, Submit(a, r, task, ns)
      PROVE  PlanInv'
  <2>1. pc'[a] \in Acting => job'[a].via = "policy"
    BY <1>1, SubmitSets DEF Acting
  <2> QED BY <1>1, <1>e, <2>1 DEF Submit, tables, ActsOnPlan
<1>2. ASSUME ClaimPlan(a)
      PROVE  PlanInv'
  <2>1. CASE /\ plans' \in {plans, expire_plans(plans, now)}
             /\ job' = [job EXCEPT ![a].via = "policy"]
    <3>1. job'[a].via = "policy"
      BY <1>a, <2>1, FoundSets
    <3> QED BY <1>e, <2>1, <3>1 DEF ActsOnPlan
  <2>2. CASE plans' \in {plans, expire_plans(plans, now)} /\ pc'[a] = "consume"
    BY <1>e, <2>2 DEF ActsOnPlan, Acting
  <2>3. CASE plans' \in {plans, expire_plans(plans, now)} /\ Answer(a, "error")
    BY <1>e, <1>f, <2>3
  <2>4. ASSUME NEW p \in PlanIds, NEW table, table = expire_plans(plans, now),
               table[p].status \in {"approved", "executing"}, table[p].claimed_index = None,
               plans' = claim_plan_action(table, p, job[a].request, now),
               pc'[a] = "ready",
               job' = [job EXCEPT ![a] = [@ EXCEPT !.via = "plan", !.ref = p,
                                                   !.index = table[p].next_index,
                                                   !.hash = request_hash(job[a].request, files)]]
        PROVE  PlanInv'
    <3>1. /\ table \in PlanTables /\ table[p] \in PlanRow /\ table[p].next_index \in Nat
          /\ plans[p] \in PlanRow
      <4>1. plans \in PlanTables /\ table \in PlanTables
        BY <2>4, PlanTypes DEF Shape, TypeOK
      <4>2. table[p] \in PlanRow /\ plans[p] \in PlanRow
        BY <4>1 DEF PlanTables
      <4> QED BY <4>1, <4>2 DEF PlanRow
    <3>2. /\ job'[a].via = "plan" /\ job'[a].ref = p /\ job'[a].index = table[p].next_index
      BY <1>a, <2>4 DEF Jobs
    <3>3. \A q \in PlanIds :
             /\ table[q].next_index = plans[q].next_index
             /\ \/ table[q] = plans[q]
                \/ /\ plans[q].status = "executing" /\ table[q].status = "failed"
                   /\ table[q].claimed_index = None
                \/ /\ plans[q].status \in {"pending", "approved"}
                   /\ table[q].status = "expired"
                   /\ table[q].claimed_index = plans[q].claimed_index
      BY <2>4, ExpirePlanShape DEF Shape, TypeOK
    <3>4. plans[p].status = "approved" /\ plans[p].next_index = table[p].next_index
      <4>1. None \notin Nat
        BY RequestAssumption
      <4>2. plans[p].status # "executing"
        BY <2>4, <3>1, <3>3, <4>1 DEF PlanInv, PlanRowInv
      <4> QED BY <2>4, <3>3, <4>2
    <3>5. \A q \in PlanIds \ {p} : plans'[q] = table[q]
      BY <2>4, <3>1 DEF claim_plan_action, PlanTables
    <3>6. /\ plans'[p].status = "executing" /\ plans'[p].next_index = table[p].next_index
          /\ plans'[p].claimed_index = table[p].next_index
          /\ plans'[p].claim_expires_at # None
      <4>1. now + Lease[job[a].request] \in Nat
        <5>1. job[a].request \in Requests
          BY <1>2, <1>a DEF ClaimPlan, AgentShape
        <5>2. now \in Nat
          BY DEF Shape, TypeOK
        <5> QED BY <5>1, <5>2, PlanAssumption
      <4> DEFINE m == table[p].next_index
                 n == now + Lease[job[a].request]
                 row == [table[p] EXCEPT !.status = "executing", !.claimed_index = m,
                                         !.claim_expires_at = n]
      <4>2. plans' = [table EXCEPT ![p] = row]
        BY <2>4, Zenon DEF claim_plan_action
      <4>3. /\ row.status = "executing" /\ row.next_index = m
            /\ row.claimed_index = m /\ row.claim_expires_at = n
        BY <3>1 DEF PlanRow
      <4>4. n # None
        BY <4>1, RequestAssumption
      <4> HIDE DEF m, n, row
      <4>5. plans'[p] = row
        BY <3>1, <4>2 DEF PlanTables
      <4> QED BY <4>3, <4>4, <4>5 DEF m
    <3>7. /\ \A b \in Agents : ActsOnPlan(b) => job[b].ref # p
          /\ \A b \in Agents : ActsOnPlan(b) => job[b].ref \in PlanIds
      BY <3>4 DEF PlanInv, PlanClaimInv, ActsOnPlan, Shape, JobShape, AgentShape, Acting
    <3>8. \A b \in Agents \ {a} : /\ ActsOnPlan(b)' <=> ActsOnPlan(b)
                                  /\ job'[b].ref = job[b].ref /\ job'[b].index = job[b].index
                                  /\ pc'[b] = pc[b]
      BY <1>b DEF ActsOnPlan
    <3>9. PlanRowInv'
      BY <3>3, <3>5, <3>6 DEF PlanInv, PlanRowInv
    <3>10. PlanClaimInv'
      <4>1. ASSUME NEW b \in Agents, ActsOnPlan(b)'
            PROVE  /\ plans'[job'[b].ref].status \in {"executing", "failed"}
                   /\ job'[b].index = plans'[job'[b].ref].next_index
                   /\ b # a => job'[b].ref # p
        BY <3>2, <3>3, <3>5, <3>6, <3>7, <3>8, <4>1 DEF PlanInv, PlanClaimInv
      <4>2. ASSUME NEW b \in Agents, NEW c \in Agents, b # c, ActsOnPlan(b)', ActsOnPlan(c)'
            PROVE  job'[b].ref # job'[c].ref
        BY <3>2, <3>8, <4>1, <4>2 DEF PlanInv, PlanClaimInv
      <4> QED BY <4>1, <4>2 DEF PlanClaimInv
    <3>11. PlanRunInv'
      <4>1. Len(planRuns[p]) = plans[p].next_index
        BY <3>4 DEF PlanInv, PlanRunInv
      <4>2. ASSUME NEW q \in PlanIds
            PROVE  /\ \A i \in 1..Len(planRuns'[q]) : planRuns'[q][i] = i - 1
                   /\ Len(planRuns'[q]) =< plans'[q].next_index + 1
                   /\ plans'[q].next_index =< Len(planRuns'[q])
                   /\ plans'[q].status \notin {"executing", "failed"} =>
                         Len(planRuns'[q]) = plans'[q].next_index
        BY <1>c, <3>3, <3>4, <3>5, <3>6 DEF PlanInv, PlanRunInv
      <4>3. ASSUME NEW b \in Agents, ActsOnPlan(b)'
            PROVE  Len(planRuns'[job'[b].ref]) =
                      IF pc'[b] = "ready" THEN job'[b].index ELSE job'[b].index + 1
        BY <1>c, <2>4, <3>2, <3>4, <3>8, <4>1, <4>3 DEF PlanInv, PlanRunInv
      <4> QED BY <4>2, <4>3 DEF PlanRunInv
    <3> QED BY <3>9, <3>10, <3>11 DEF PlanInv
  <2> QED
    <3>1. PICK table : table = expire_plans(plans, now)
      OBVIOUS
    <3>2. CASE \E p \in PlanIds :
                   LET row == table[p]
                   IN  /\ row.status \in {"approved", "executing"}
                       /\ PlanClaimable(row, job[a].request, files)
                       /\ plans' = claim_plan_action(table, p, job[a].request, now)
                       /\ pc'[a] = "ready"
                       /\ job' = [job EXCEPT ![a] =
                                    [@ EXCEPT !.via = "plan", !.ref = p,
                                              !.index = row.next_index,
                                              !.hash = request_hash(job[a].request, files)]]
      BY <2>4, <3>1, <3>2, Zenon DEF PlanClaimable
    <3> QED BY <1>2, <2>1, <2>2, <2>3, <3>1, <3>2, ClaimPlanSets, Zenon
<1>3. ASSUME Consume(a)
      PROVE  PlanInv'
  <2>1. pc'[a] \in Acting => job'[a].via = "grant"
    <3>1. CASE Goto(a, "create")
      BY <1>a, <3>1 DEF Goto, Acting
    <3>2. ASSUME NEW g, job' = [job EXCEPT ![a] = [@ EXCEPT !.via = "grant", !.ref = g]]
          PROVE  job'[a].via = "grant"
      BY <1>a, <3>2, FoundSets
    <3> QED BY <1>3, <3>1, <3>2, Zenon DEF Consume
  <2> QED BY <1>3, <1>e, <2>1 DEF Consume, ActsOnPlan
<1>4. ASSUME CreateApproval(a)
      PROVE  PlanInv'
  BY <1>4, <1>e, <1>f DEF CreateApproval
<1>5. ASSUME NEW r \in Requests, NEW ns \in Namespaces, RequestMutation(a, r, ns)
      PROVE  PlanInv'
  <2>1. ~ActsOnPlan(a)'
    BY <1>5 DEF RequestMutation, ActsOnPlan, Acting
  <2> QED BY <1>5, <1>e, <2>1 DEF RequestMutation
<1>6. ASSUME NEW p \in PlanIds, NEW task \in Tasks, NEW actions \in PlanShapes,
             NEW ns \in Namespaces, ProposePlan(a, p, task, actions, ns)
      PROVE  PlanInv'
  <2>1. PICK profile \in Profiles :
          plans' = [plans EXCEPT ![p] =
                      propose_plan(profile, task, ns, actions, files, now)]
    BY <1>6 DEF ProposePlan
  <2>2. /\ plans'[p].status = "pending" /\ plans'[p].next_index = 0
        /\ plans'[p].claimed_index = None
        /\ \A q \in PlanIds \ {p} : plans'[q] = plans[q]
    BY <2>1 DEF propose_plan, Shape, TypeOK, PlanTables
  <2>3. plans[p].status = "absent" /\ plans[p].next_index = 0
    BY <1>6 DEF ProposePlan, PlanInv, PlanRowInv, NoPlan
  <2>4. PlansQuiet
    BY <1>c, <2>2, <2>3 DEF PlansQuiet, PlanInv, PlanRowInv
  <2>5. AgentsQuiet
    BY <1>6 DEF ProposePlan, AgentsQuiet, ActsOnPlan
  <2> QED BY <2>4, <2>5, PlanQuietStep
<1>7. ASSUME NEW outcome \in {"ok", "failed", "error"}, AgentFinish(a, outcome)
      PROVE  PlanInv'
  <2>1. pc[a] = "running" /\ \E x : Answer(a, x)
    BY <1>7 DEF AgentFinish
  <2>2. ~ActsOnPlan(a)'
    BY <1>f, <2>1
  <2>3. CASE UNCHANGED plans
    BY <1>e, <2>2, <2>3
  <2>4. ASSUME job[a].via = "plan", HoldsClaim(plans[job[a].ref], job[a].index),
               plans' = finish_plan_action(plans, job[a].ref, job[a].index, outcome = "ok")
        PROVE  PlanInv'
    <3> DEFINE p == job[a].ref
               ok == outcome = "ok"
    <3>1. p \in PlanIds /\ ActsOnPlan(a) /\ plans \in PlanTables /\ job[a].index \in Nat
          /\ plans[p].next_index \in Nat
      BY <1>a, <2>1, <2>4 DEF AgentShape, ActsOnPlan, Acting, Shape, TypeOK, Jobs,
                              PlanTables, PlanRow
    <3>2. /\ plans[p].status = "executing" /\ job[a].index = plans[p].next_index
          /\ Len(planRuns[p]) = plans[p].next_index + 1
          /\ \A b \in Agents \ {a} : ActsOnPlan(b) => job[b].ref # p
      BY <2>1, <2>4, <3>1 DEF HoldsClaim, PlanInv, PlanClaimInv, PlanRunInv
    <3>3. \A q \in PlanIds \ {p} : plans'[q] = plans[q]
      BY <2>4, <3>1 DEF finish_plan_action, PlanTables
    <3>4. /\ plans'[p].status = IF ok THEN plans'[p].status ELSE "failed"
          /\ plans'[p].status \in {"failed", "completed", "approved"}
          /\ plans'[p].next_index = IF ok THEN plans[p].next_index + 1 ELSE plans[p].next_index
          /\ plans'[p].claimed_index = None
      <4>1. ASSUME NEW s \in {"failed", "completed", "approved"}, NEW n \in Nat,
                   plans' = [plans EXCEPT ![p] =
                               [@ EXCEPT !.status = s, !.next_index = n,
                                         !.claimed_index = None, !.claim_expires_at = None]]
            PROVE  /\ plans'[p].status = s /\ plans'[p].next_index = n
                   /\ plans'[p].claimed_index = None
        BY <3>1, <4>1 DEF PlanTables, PlanRow
      <4>2. PICK s, n : /\ s = (IF ~ok THEN "failed"
                                ELSE IF job[a].index + 1 >= Len(plans[p].actions)
                                     THEN "completed" ELSE "approved")
                        /\ n = IF ok THEN plans[p].next_index + 1 ELSE plans[p].next_index
        OBVIOUS
      <4>3. s \in {"failed", "completed", "approved"} /\ n \in Nat /\ (~ok => s = "failed")
        BY <3>1, <4>2
      <4>4. plans' = [plans EXCEPT ![p] =
                        [@ EXCEPT !.status = s, !.next_index = n,
                                  !.claimed_index = None, !.claim_expires_at = None]]
        BY <2>4, <4>2, Zenon DEF finish_plan_action
      <4> QED BY <4>1, <4>2, <4>3, <4>4
    <3>5. PlanRowInv'
      BY <3>3, <3>4 DEF PlanInv, PlanRowInv
    <3>6. \A b \in Agents : ActsOnPlan(b)' =>
             /\ b # a /\ ActsOnPlan(b) /\ job[b].ref \in PlanIds \ {p}
             /\ job'[b].ref = job[b].ref /\ job'[b].index = job[b].index /\ pc'[b] = pc[b]
      BY <1>b, <2>2, <3>2 DEF ActsOnPlan, Shape, JobShape, AgentShape, Acting
    <3>7. PlanClaimInv'
      BY <3>3, <3>6 DEF PlanInv, PlanClaimInv
    <3>8. PlanRunInv'
      <4>1. ASSUME NEW q \in PlanIds
            PROVE  /\ \A i \in 1..Len(planRuns'[q]) : planRuns'[q][i] = i - 1
                   /\ Len(planRuns'[q]) =< plans'[q].next_index + 1
                   /\ plans'[q].next_index =< Len(planRuns'[q])
                   /\ plans'[q].status \notin {"executing", "failed"} =>
                         Len(planRuns'[q]) = plans'[q].next_index
        <5>1. CASE q = p
          BY <1>c, <3>1, <3>2, <3>4, <5>1 DEF PlanInv, PlanRunInv
        <5>2. CASE q # p
          BY <1>c, <3>3, <5>2 DEF PlanInv, PlanRunInv
        <5> QED BY <5>1, <5>2
      <4> QED BY <1>c, <3>6, <4>1 DEF PlanInv, PlanRunInv
    <3> QED BY <3>5, <3>7, <3>8 DEF PlanInv
  <2> QED BY <1>7, <2>3, <2>4 DEF AgentFinish
<1> QED BY <1>1, <1>2, <1>3, <1>4, <1>5, <1>6, <1>7 DEF AgentStep

\* The steps of every handler: the start of an operation under a plan is the one
\* that adds to the plan's history, and it adds the index after the last.
LEMMA PlanHandler ==
    ASSUME Shape, PlanInv, NEW w \in Handlers,
           Execute(w) \/ Deliver(w) \/ StorageFails(w) \/ Crash(w)
    PROVE  PlanInv'
<1>a. /\ pc \in [Handlers -> Labels] /\ job \in [Handlers -> Jobs] /\ job[w] \in Jobs
      /\ \A a \in Agents : a \in Handlers /\ a \notin Humans
      /\ \A a \in Agents : ActsOnPlan(a) => job[a].ref \in PlanIds
  BY AuthorizationAssumption
     DEF Shape, TypeOK, JobShape, AgentShape, Handlers, ActsOnPlan, Acting
<1>b. \A a \in Agents \ {w} : pc'[a] = pc[a] /\ job'[a] = job[a]
  BY <1>a, OthersStill
<1>c. plans' = plans
  BY DEF Execute, Deliver, StorageFails, Crash, tables
<1>1. CASE Deliver(w) \/ StorageFails(w) \/ Crash(w)
  <2>1. pc'[w] \notin Acting /\ planRuns' = planRuns
    BY <1>1, <1>a DEF Deliver, StorageFails, Crash, Answer, Goto, Acting, history
  <2>2. AgentsQuiet
    BY <1>b, <2>1 DEF AgentsQuiet, ActsOnPlan
  <2> QED BY <1>c, <2>1, <2>2, ExpirePlansQuiet, PlanQuietStep
<1>2. CASE Execute(w)
  <2>1. /\ pc[w] = "ready" /\ pc'[w] = "running"
        /\ job'[w].via = job[w].via /\ job'[w].ref = job[w].ref
        /\ job'[w].index = job[w].index
    BY <1>2, <1>a DEF Execute, Goto, Jobs
  <2>2. \A a \in Agents : /\ ActsOnPlan(a)' <=> ActsOnPlan(a)
                          /\ job'[a].ref = job[a].ref /\ job'[a].index = job[a].index
    BY <1>b, <2>1 DEF ActsOnPlan, Acting
  <2>3. PlanRowInv' /\ PlanClaimInv'
    BY <1>c, <2>2 DEF PlanInv, PlanRowInv, PlanClaimInv
  <2>4. PlanRunInv'
    <3>1. CASE job[w].via # "plan"
      <4>1. planRuns' = planRuns
        BY <1>2, <3>1 DEF Execute
      <4>2. \A a \in Agents : ActsOnPlan(a) => a # w
        BY <3>1 DEF ActsOnPlan
      <4> QED BY <1>b, <1>c, <2>2, <4>1, <4>2 DEF PlanInv, PlanRunInv
    <3>2. CASE job[w].via = "plan"
      <4> DEFINE p == job[w].ref
                 n == job[w].index
      <4>1. w \in Agents /\ ActsOnPlan(w) /\ p \in PlanIds /\ n \in Nat
            /\ planRuns[p] \in Seq(Nat)
        BY <1>a, <2>1, <3>2 DEF Handlers, Shape, TypeOK, Jobs, JobShape, HumanShape,
                                ActsOnPlan, Acting
      <4>2. planRuns' = [planRuns EXCEPT ![p] = Append(planRuns[p], n)]
        BY <1>2, <3>2 DEF Execute
      <4>3. /\ planRuns'[p] = Append(planRuns[p], n)
            /\ \A q \in PlanIds \ {p} : planRuns'[q] = planRuns[q]
        BY <4>1, <4>2 DEF Shape, TypeOK
      <4>4. /\ plans[p].status \in {"executing", "failed"} /\ n = plans[p].next_index
            /\ Len(planRuns[p]) = n
            /\ \A a \in Agents \ {w} : ActsOnPlan(a) => job[a].ref # p
        BY <2>1, <4>1 DEF PlanInv, PlanClaimInv, PlanRunInv
      <4>5. /\ Len(planRuns'[p]) = n + 1
            /\ \A i \in 1..Len(planRuns'[p]) : planRuns'[p][i] = i - 1
        <5>1. \A i \in 1..Len(planRuns[p]) : planRuns[p][i] = i - 1
          BY <4>1 DEF PlanInv, PlanRunInv
        <5> QED BY <4>1, <4>3, <4>4, <5>1
      <4>6. ASSUME NEW q \in PlanIds
            PROVE  /\ \A i \in 1..Len(planRuns'[q]) : planRuns'[q][i] = i - 1
                   /\ Len(planRuns'[q]) =< plans'[q].next_index + 1
                   /\ plans'[q].next_index =< Len(planRuns'[q])
                   /\ plans'[q].status \notin {"executing", "failed"} =>
                         Len(planRuns'[q]) = plans'[q].next_index
        <5>1. CASE q = p
          <6> HIDE DEF p, n
          <6>1. plans'[q].status \in {"executing", "failed"} /\ plans'[q].next_index = n
            BY <1>c, <4>4, <5>1
          <6> QED BY <4>1, <4>5, <5>1, <6>1
        <5>2. CASE q # p
          BY <1>c, <4>3, <5>2 DEF PlanInv, PlanRunInv
        <5> QED BY <5>1, <5>2
      <4>7. ASSUME NEW a \in Agents, ActsOnPlan(a)'
            PROVE  Len(planRuns'[job'[a].ref]) =
                      IF pc'[a] = "ready" THEN job'[a].index ELSE job'[a].index + 1
        <5>1. /\ ActsOnPlan(a) /\ job[a].ref \in PlanIds
              /\ job'[a].ref = job[a].ref /\ job'[a].index = job[a].index
          BY <1>a, <2>2, <4>7
        <5>2. CASE a = w
          BY <2>1, <4>3, <4>5, <5>1, <5>2
        <5>3. CASE a # w
          <6>1. pc'[a] = pc[a] /\ planRuns'[job[a].ref] = planRuns[job[a].ref]
            BY <1>b, <4>3, <4>4, <5>1, <5>3
          <6> QED BY <5>1, <6>1 DEF PlanInv, PlanRunInv
        <5> QED BY <5>2, <5>3
      <4> QED BY <4>6, <4>7 DEF PlanRunInv
    <3> QED BY <3>1, <3>2
  <2> QED BY <2>3, <2>4 DEF PlanInv
<1> QED BY <1>1, <1>2

\* PlanInv holds in every reachable state.
THEOREM PlanInvCorrect == Spec => []PlanInv
<1>1. Shape /\ PlanInv /\ [Next]_vars => PlanInv'
  <2> SUFFICES ASSUME Shape, PlanInv, [Next]_vars PROVE PlanInv'
    OBVIOUS
  <2>1. CASE UNCHANGED vars
    BY <2>1 DEF PlanInv, PlanRowInv, PlanClaimInv, PlanRunInv, ActsOnPlan, vars, tables, history
  <2>2. CASE Next
    BY <2>2, PlanAgent, PlanHuman, PlanAdmin, PlanHandler, PlanEnvironment DEF Next
  <2> QED BY <2>1, <2>2
<1> QED BY <1>1, PlanInit, ShapeCorrect, PTL DEF Spec

\* A plan's actions start in order, each once, and none before all earlier ones
\* have succeeded, whatever leases lapse and handlers die.
THEOREM PlansInOrder == Spec => []PlanInOrder
<1>1. PlanInv => PlanInOrder
  BY DEF PlanInv, PlanRunInv, PlanInOrder
<1> QED BY <1>1, PlanInvCorrect, PTL

\* No two handlers, agents' or humans', ever hold the same claim.
THEOREM ClaimsAreHeldOnce == Spec => []SoleHolder
<1>1. Shape /\ ApprovalInv /\ PlanInv => SoleHolder
  <2> SUFFICES ASSUME Shape, ApprovalInv, PlanInv,
                      NEW v \in Handlers, NEW w \in Handlers, v # w
               PROVE  Holding(v) \cap Holding(w) = {}
    BY DEF SoleHolder
  <2>1. ASSUME NEW h \in Humans, Holding(h) # {}
        PROVE  pc[h] \in Claimed /\ Holding(h) = {job[h].ref} /\ job[h].ref \in ApprovalIds
    BY <2>1 DEF Holding, Shape, JobShape, HumanShape, Claimed
  <2>2. ASSUME NEW a \in Agents, Holding(a) # {}
        PROVE  ActsOnPlan(a) /\ Holding(a) = {job[a].ref} /\ job[a].ref \in PlanIds
    BY <2>2 DEF Holding, ActsOnPlan, Shape, JobShape, AgentShape, Acting
  <2> QED BY <2>1, <2>2, AuthorizationAssumption
          DEF Handlers, ApprovalInv, ClaimInv, PlanInv, PlanClaimInv
<1> QED BY <1>1, ShapeCorrect, ApprovalInvCorrect, PlanInvCorrect, PTL

-----------------------------------------------------------------------------
(* No claim is stranded                                                      *)

\* A handler holds the claim, or was lost with it.
Covered(x) == x \in orphans \/ \E w \in Handlers : x \in Holding(w)

StrandInv ==
    /\ \A id \in ApprovalIds : approvals[id].status = "executing" => Covered(id)
    /\ \A p \in PlanIds : plans[p].status = "executing" => Covered(p)

\* The row of a claim is settled.
SettledRow(x) ==
    \/ x \in ApprovalIds /\ approvals[x].status # "executing"
    \/ x \in PlanIds /\ plans[x].status # "executing"

\* A step keeps the invariant if a handler only lets go of what is settled or
\* recorded as orphaned, and a row only starts executing in a handler's hands.
LEMMA StrandStep ==
    ASSUME StrandInv, orphans \subseteq orphans',
           \A w \in Handlers : \A x \in Holding(w) :
               x \in Holding(w)' \/ x \in orphans' \/ SettledRow(x)',
           \A id \in ApprovalIds : approvals'[id].status = "executing" =>
               approvals[id].status = "executing" \/ Covered(id)',
           \A p \in PlanIds : plans'[p].status = "executing" =>
               plans[p].status = "executing" \/ Covered(p)'
    PROVE  StrandInv'
<1>1. \A x : Covered(x) => Covered(x)' \/ SettledRow(x)'
  BY DEF Covered
<1>2. ASSUME NEW id \in ApprovalIds, approvals'[id].status = "executing"
      PROVE  Covered(id)'
  BY <1>1, <1>2, AuthorizationAssumption DEF StrandInv, SettledRow
<1>3. ASSUME NEW p \in PlanIds, plans'[p].status = "executing"
      PROVE  Covered(p)'
  BY <1>1, <1>3, AuthorizationAssumption DEF StrandInv, SettledRow
<1> QED BY <1>2, <1>3 DEF StrandInv

\* What a handler holds depends on where it is and on two of its variables.
LEMMA HoldingSame ==
    ASSUME NEW w, pc'[w] = pc[w], job'[w].via = job[w].via, job'[w].ref = job[w].ref
    PROVE  Holding(w)' = Holding(w)
BY DEF Holding

\* No expiry starts an execution.
LEMMA ExpireStartsNone ==
    ASSUME Shape
    PROVE  /\ \A id \in ApprovalIds : expire(approvals, now)[id].status = "executing" =>
                                          approvals[id].status = "executing"
           /\ \A p \in PlanIds : expire_plans(plans, now)[p].status = "executing" =>
                                     plans[p].status = "executing"
<1>1. approvals \in ApprovalTables /\ plans \in PlanTables /\ now \in Nat
  BY DEF Shape, TypeOK
<1>2. ASSUME NEW id \in ApprovalIds
      PROVE  expire(approvals, now)[id].status = "executing" => approvals[id].status = "executing"
  BY <1>1, ExpireShape
<1>3. ASSUME NEW p \in PlanIds
      PROVE  expire_plans(plans, now)[p].status = "executing" => plans[p].status = "executing"
  BY <1>1, ExpirePlanShape
<1> QED BY <1>2, <1>3

\* At first nothing executes.
LEMMA StrandInit == Init => StrandInv
BY DEF Init, StrandInv, NoApproval, NoPlan

\* Neither administration nor the environment starts an execution or moves a
\* handler.
LEMMA StrandAdmin ==
    ASSUME Shape, StrandInv, AdminStep
    PROVE  StrandInv'
<1>1. UNCHANGED <<pc, job, orphans>>
  BY DEF AdminStep, RejectApproval, CleanupApprovals, ListApprovals, RevokeGrant,
         CleanupGrants, ListGrants, ApprovePlan, RejectPlan, ListPlans, history
<1>2. \A w \in Handlers : Holding(w)' = Holding(w)
  BY <1>1, HoldingSame
<1>3. approvals \in ApprovalTables /\ expire(approvals, now) \in ApprovalTables
      /\ plans \in PlanTables /\ expire_plans(plans, now) \in PlanTables
  BY ApprovalTypes, PlanTypes DEF Shape, TypeOK
<1>4. ASSUME NEW id \in ApprovalIds, approvals'[id].status = "executing"
      PROVE  approvals[id].status = "executing"
  <2>1. CASE approvals' \in {approvals, expire(approvals, now)}
    BY <1>4, <2>1, ExpireStartsNone
  <2>2. CASE CleanupApprovals
    BY <1>4, <2>2, ExpireStartsNone DEF CleanupApprovals, cleanup, NoApproval
  <2>3. ASSUME NEW k \in ApprovalIds, RejectApproval(k)
        PROVE  approvals[id].status = "executing"
    <3>1. approvals'[id].status = IF id = k THEN "rejected" ELSE expire(approvals, now)[id].status
      BY <1>3, <2>3 DEF RejectApproval, reject, ApprovalTables, ApprovalRow
    <3> QED BY <1>4, <3>1, ExpireStartsNone
  <2> QED BY <2>1, <2>2, <2>3 DEF AdminStep, ListApprovals, RevokeGrant, CleanupGrants,
                                  ListGrants, ApprovePlan, RejectPlan, ListPlans
<1>5. ASSUME NEW p \in PlanIds, plans'[p].status = "executing"
      PROVE  plans[p].status = "executing"
  <2>1. CASE plans' \in {plans, expire_plans(plans, now)}
    BY <1>5, <2>1, ExpireStartsNone
  <2>2. ASSUME NEW q \in PlanIds, NEW table \in {plans, expire_plans(plans, now)},
               NEW s \in {"approved", "rejected"}, plans' = [table EXCEPT ![q].status = s]
        PROVE  plans[p].status = "executing"
    <3>1. plans'[p].status = IF p = q THEN s ELSE table[p].status
      BY <1>3, <2>2 DEF PlanTables, PlanRow
    <3> QED BY <1>5, <3>1, ExpireStartsNone
  <2> QED BY <2>1, <2>2 DEF AdminStep, RejectApproval, CleanupApprovals, ListApprovals,
                            RevokeGrant, CleanupGrants, ListGrants, ListPlans,
                            ApprovePlan, RejectPlan, approve_plan, reject_plan
<1> QED BY <1>1, <1>2, <1>4, <1>5, StrandStep

\* See StrandAdmin.
LEMMA StrandEnvironment ==
    ASSUME Shape, StrandInv, EnvironmentStep
    PROVE  StrandInv'
<1>1. UNCHANGED <<approvals, plans, orphans>>
  BY DEF EnvironmentStep, Tick, EditFile, EditPolicy, tables, history
<1>2. \A w \in Handlers : Holding(w)' = Holding(w)
  BY EnvironmentStill, HoldingSame
<1> QED BY <1>1, <1>2, StrandStep

\* Agents' handlers: a plan starts executing in the hands of the one that
\* claims it, and the handler lets go of it settled. If it no longer holds the
\* claim, the lease has settled it.
LEMMA StrandAgent ==
    ASSUME Shape, PlanInv, StrandInv, NEW a \in Agents, AgentStep(a)
    PROVE  StrandInv'
<1>a. /\ a \in Handlers /\ job[a] \in Jobs /\ AgentShape(pc[a], job[a])
      /\ pc \in [Handlers -> Labels] /\ job \in [Handlers -> Jobs]
      /\ approvals \in ApprovalTables /\ plans \in PlanTables
  BY DEF Shape, TypeOK, JobShape, Handlers
<1>b. \A w \in Handlers \ {a} : Holding(w)' = Holding(w)
  BY <1>a, OthersStill, HoldingSame
<1>c. orphans' = orphans
  BY DEF AgentStep, Submit, ClaimPlan, Consume, CreateApproval, RequestMutation,
         ProposePlan, AgentFinish, history
<1>d. pc[a] \notin Acting => Holding(a) = {}
  BY <1>a DEF Holding, AgentShape, Acting
<1>e. ASSUME NEW id \in ApprovalIds, approvals'[id].status = "executing"
      PROVE  approvals[id].status = "executing"
  <2>1. CASE approvals' = approvals
    BY <1>e, <2>1
  <2>2. ASSUME NEW k \in ApprovalIds, NEW row, row.status = "pending",
               approvals' = [approvals EXCEPT ![k] = row]
        PROVE  approvals[id].status = "executing"
    BY <1>a, <1>e, <2>2 DEF ApprovalTables
  <2> QED BY <2>1, <2>2 DEF AgentStep, Submit, ClaimPlan, Consume, CreateApproval,
             RequestMutation, ProposePlan, AgentFinish, FreshApprovals, create, tables
<1>f. ASSUME \A x \in Holding(a) : x \in Holding(a)' \/ SettledRow(x)',
             \A p \in PlanIds : plans'[p].status = "executing" =>
                 plans[p].status = "executing" \/ p \in Holding(a)'
      PROVE  StrandInv'
  BY <1>a, <1>b, <1>c, <1>e, <1>f, StrandStep DEF Covered
<1>g. \A p \in PlanIds : plans' \in {plans, expire_plans(plans, now)}
                            /\ plans'[p].status = "executing" => plans[p].status = "executing"
  BY ExpireStartsNone
<1>1. ASSUME NEW r \in Requests, NEW task \in Maybe(Tasks),
             NEW ns \in Namespaces, Submit(a, r, task, ns)
      PROVE  StrandInv'
  BY <1>1, <1>d, <1>f DEF Submit, tables, Acting
<1>2. ASSUME ClaimPlan(a)
      PROVE  StrandInv'
  <2>1. Holding(a) = {}
    BY <1>2, <1>d DEF ClaimPlan, Acting
  <2>2. CASE plans' \in {plans, expire_plans(plans, now)}
    BY <1>f, <1>g, <2>1, <2>2
  <2>3. ASSUME NEW p \in PlanIds, NEW hash, NEW n,
               plans' = claim_plan_action(expire_plans(plans, now), p, job[a].request, now),
               pc'[a] = "ready",
               job' = [job EXCEPT ![a] = [@ EXCEPT !.via = "plan", !.ref = p, !.index = n,
                                                   !.hash = hash]]
        PROVE  StrandInv'
    <3>1. job'[a].via = "plan" /\ job'[a].ref = p
      BY <1>a, <2>3 DEF Jobs
    <3>2. p \in Holding(a)'
      BY <2>3, <3>1 DEF Holding
    <3>3. expire_plans(plans, now) \in PlanTables
      BY PlanTypes DEF Shape, TypeOK
    <3>4. \A q \in PlanIds \ {p} : plans'[q] = expire_plans(plans, now)[q]
      BY <2>3, <3>3 DEF claim_plan_action, PlanTables
    <3> QED BY <1>f, <2>1, <3>2, <3>4, ExpireStartsNone
  <2>4. CASE /\ pc'[a] = "ready"
             /\ \E p \in PlanIds :
                   LET row == expire_plans(plans, now)[p]
                   IN  /\ plans' = claim_plan_action(expire_plans(plans, now), p,
                                                     job[a].request, now)
                       /\ job' = [job EXCEPT ![a] =
                                    [@ EXCEPT !.via = "plan", !.ref = p,
                                              !.index = row.next_index,
                                              !.hash = request_hash(job[a].request, files)]]
    BY <2>3, <2>4, Zenon
  <2> QED BY <1>2, <2>2, <2>4, ClaimPlanSets, Zenon
<1>3. ASSUME Consume(a)
      PROVE  StrandInv'
  BY <1>3, <1>d, <1>f DEF Consume, Acting
<1>4. ASSUME CreateApproval(a)
      PROVE  StrandInv'
  BY <1>4, <1>d, <1>f DEF CreateApproval, Acting
<1>5. ASSUME NEW r \in Requests, NEW ns \in Namespaces, RequestMutation(a, r, ns)
      PROVE  StrandInv'
  BY <1>5, <1>d, <1>f DEF RequestMutation, Acting
<1>6. ASSUME NEW p \in PlanIds, NEW task \in Tasks, NEW actions \in PlanShapes,
             NEW ns \in Namespaces, ProposePlan(a, p, task, actions, ns)
      PROVE  StrandInv'
  <2>1. PICK row : row.status = "pending" /\ plans' = [plans EXCEPT ![p] = row]
    BY <1>6 DEF ProposePlan, propose_plan
  <2>2. \A q \in PlanIds : plans'[q].status = "executing" => plans[q].status = "executing"
    BY <1>a, <2>1 DEF PlanTables
  <2>3. Holding(a)' = Holding(a)
    BY <1>6, HoldingSame DEF ProposePlan
  <2> QED BY <1>f, <2>2, <2>3
<1>7. ASSUME NEW outcome \in {"ok", "failed", "error"}, AgentFinish(a, outcome)
      PROVE  StrandInv'
  <2>1. pc[a] = "running"
    BY <1>7 DEF AgentFinish
  <2>2. CASE job[a].via # "plan"
    <3>1. Holding(a) = {} /\ plans' = plans
      BY <1>7, <1>a, <2>1, <2>2 DEF AgentFinish, Holding, AgentShape
    <3> QED BY <1>f, <3>1
  <2>3. CASE job[a].via = "plan"
    <3> DEFINE p == job[a].ref
    <3>1. Holding(a) = {p} /\ p \in PlanIds /\ ActsOnPlan(a)
      BY <1>a, <2>1, <2>3 DEF Holding, AgentShape, ActsOnPlan, Acting
    <3>2. CASE HoldsClaim(plans[p], job[a].index)
      <4>1. plans' = finish_plan_action(plans, p, job[a].index, outcome = "ok")
        BY <1>7, <2>3, <3>2 DEF AgentFinish
      <4>2. plans'[p].status # "executing"
        BY <1>a, <3>1, <4>1 DEF finish_plan_action, PlanTables, PlanRow
      <4>3. \A q \in PlanIds \ {p} : plans'[q] = plans[q]
        BY <1>a, <4>1 DEF finish_plan_action, PlanTables
      <4> QED BY <1>f, <3>1, <4>2, <4>3 DEF SettledRow
    <3>3. CASE ~HoldsClaim(plans[p], job[a].index)
      <4>1. plans' = plans
        BY <1>7, <2>3, <3>3 DEF AgentFinish
      <4>2. plans[p].status # "executing"
        BY <3>1, <3>3 DEF HoldsClaim, PlanInv, PlanRowInv, PlanClaimInv
      <4> QED BY <1>f, <3>1, <4>1, <4>2 DEF SettledRow
    <3> QED BY <3>2, <3>3
  <2> QED BY <2>2, <2>3
<1> QED BY <1>1, <1>2, <1>3, <1>4, <1>5, <1>6, <1>7 DEF AgentStep

\* Humans' handlers: an approval starts executing in the hands of the one that
\* claims it, which lets go of it settled.
LEMMA StrandHuman ==
    ASSUME Shape, ApprovalInv, StrandInv, NEW h \in Humans, HumanStep(h)
    PROVE  StrandInv'
<1>a. /\ h \in Handlers /\ job[h] \in Jobs /\ HumanShape(pc[h], job[h])
      /\ pc \in [Handlers -> Labels] /\ job \in [Handlers -> Jobs]
      /\ approvals \in ApprovalTables /\ expire(approvals, now) \in ApprovalTables
  BY ApprovalTypes DEF Shape, TypeOK, JobShape, Handlers
<1>b. \A w \in Handlers \ {h} : Holding(w)' = Holding(w)
  BY <1>a, OthersStill, HoldingSame
<1>c. orphans' = orphans /\ plans' = plans
  BY DEF HumanStep, ApproveBegin, ApproveClaim, ApproveVerify, ApproveAuthorize,
         ApproveGrant, ApproveAudit, ApproveFinish, ApproveReport, history
<1>d. Holding(h) = IF pc[h] \in Claimed THEN {job[h].ref} ELSE {}
  BY <1>a DEF Holding, HumanShape, Claimed
<1>e. ASSUME \A x \in Holding(h) : x \in Holding(h)' \/ SettledRow(x)',
             \A id \in ApprovalIds : approvals'[id].status = "executing" =>
                 approvals[id].status = "executing" \/ id \in Holding(h)'
      PROVE  StrandInv'
  BY <1>a, <1>b, <1>c, <1>e, StrandStep DEF Covered
<1>f. ASSUME pc[h] \in Claimed => /\ pc'[h] \in Claimed
                                  /\ job'[h].ref = job[h].ref /\ job'[h].via = job[h].via,
             approvals' \in {approvals, expire(approvals, now)}
      PROVE  StrandInv'
  <2>1. Holding(h) \subseteq Holding(h)'
    BY <1>a, <1>d, <1>f DEF Holding, HumanShape, Claimed
  <2> QED BY <1>e, <1>f, <2>1, ExpireStartsNone
<1>g. ASSUME NEW ok \in BOOLEAN, pc[h] \in Claimed,
             approvals' = finish(approvals, job[h].ref, ok)
      PROVE  StrandInv'
  <2>1. job[h].ref \in ApprovalIds /\ approvals[job[h].ref].status = "executing"
    BY <1>a, <1>g DEF HumanShape, Claimed, ApprovalInv, ClaimInv
  <2>2. /\ approvals'[job[h].ref].status # "executing"
        /\ \A id \in ApprovalIds \ {job[h].ref} : approvals'[id] = approvals[id]
    BY <1>a, <1>g, <2>1 DEF finish, ApprovalTables, ApprovalRow
  <2> QED BY <1>d, <1>e, <1>g, <2>1, <2>2 DEF SettledRow
<1>1. ASSUME NEW id \in ApprovalIds, NEW want \in Maybe(WantedGrants),
             ApproveBegin(h, id, want)
      PROVE  StrandInv'
  BY <1>1, <1>f DEF ApproveBegin, Claimed
<1>2. ASSUME ApproveClaim(h)
      PROVE  StrandInv'
  <2> DEFINE id == job[h].ref
             marked == expire(approvals, now)
             row == marked[id]
  <2>1. pc[h] = "claim" /\ id \in ApprovalIds
    BY <1>2, <1>a DEF ApproveClaim, HumanShape, Claimed
  <2>2. CASE approvals' = expire(approvals, now)
    BY <1>f, <2>1, <2>2 DEF Claimed
  <2>3. ASSUME NEW x, NEW y, NEW z, NEW b, Goto(h, "verify"),
               approvals' = claim(expire(approvals, now), id),
               job' = [job EXCEPT ![h] = [@ EXCEPT !.request = x, !.hash = y,
                                                   !.ns = z, !.denied = b]]
        PROVE  StrandInv'
    <3>1. pc'[h] = "verify" /\ job'[h].via = "approval" /\ job'[h].ref = id
      BY <1>a, <2>1, <2>3 DEF Goto, Jobs, HumanShape
    <3>2. id \in Holding(h)' /\ Holding(h) = {}
      BY <1>d, <2>1, <3>1 DEF Holding, Claimed
    <3>3. \A k \in ApprovalIds \ {id} : approvals'[k] = expire(approvals, now)[k]
      BY <1>a, <2>3 DEF claim, ApprovalTables
    <3> QED BY <1>e, <3>2, <3>3, ExpireStartsNone
  <2>4. CASE /\ approvals' = claim(marked, id)
             /\ job' = [job EXCEPT ![h] =
                          [@ EXCEPT !.request = row.request, !.hash = row.hash, !.ns = row.ns,
                                    !.denied = /\ row.request \notin Mutations
                                               /\ policy[row.request].effect = "deny"]]
             /\ Goto(h, "verify")
    BY <2>3, <2>4, Zenon
  <2> QED BY <1>2, <2>2, <2>4, Zenon DEF ApproveClaim
<1>3. ASSUME ApproveVerify(h)
      PROVE  StrandInv'
  <2>1. pc[h] \in Claimed
    BY <1>3 DEF ApproveVerify, Claimed
  <2>2. CASE FailApproval(h)
    BY <1>g, <2>1, <2>2 DEF FailApproval
  <2>3. CASE UNCHANGED <<approvals, job>> /\ \E l \in {"audit", "authorize"} : Goto(h, l)
    BY <1>a, <1>f, <2>3 DEF Goto, Claimed
  <2> QED BY <1>3, <2>2, <2>3 DEF ApproveVerify
<1>4. ASSUME ApproveAuthorize(h)
      PROVE  StrandInv'
  <2>1. pc[h] \in Claimed
    BY <1>4 DEF ApproveAuthorize, Claimed
  <2>2. CASE FailApproval(h)
    BY <1>g, <2>1, <2>2 DEF FailApproval
  <2>3. CASE /\ job' = [job EXCEPT ![h].decision = policy[job[h].request]]
             /\ UNCHANGED approvals /\ \E l \in {"grant", "audit"} : Goto(h, l)
    <3>1. job'[h].ref = job[h].ref /\ job'[h].via = job[h].via /\ pc'[h] \in Claimed
      BY <1>a, <2>3 DEF Jobs, Goto, Claimed
    <3> QED BY <1>f, <2>3, <3>1
  <2> QED BY <1>4, <2>2, <2>3 DEF ApproveAuthorize
<1>5. ASSUME ApproveGrant(h)
      PROVE  StrandInv'
  <2>1. pc[h] \in Claimed
    BY <1>5 DEF ApproveGrant, Claimed
  <2>2. CASE FailApproval(h)
    BY <1>g, <2>1, <2>2 DEF FailApproval
  <2>3. CASE Goto(h, "audit") /\ UNCHANGED <<approvals, job>>
    BY <1>a, <1>f, <2>3 DEF Goto, Claimed
  <2> QED BY <1>5, <2>2, <2>3 DEF ApproveGrant
<1>6. ASSUME NEW ok \in BOOLEAN, ApproveFinish(h, ok)
      PROVE  StrandInv'
  BY <1>6, <1>g DEF ApproveFinish, Claimed
<1>7. ASSUME ApproveReport(h)
      PROVE  StrandInv'
  BY <1>7, <1>f DEF ApproveReport, Claimed
<1>8. ASSUME ApproveAudit(h)
      PROVE  StrandInv'
  BY <1>8, <1>a, <1>f DEF ApproveAudit, Goto, Claimed
<1> QED BY <1>1, <1>2, <1>3, <1>4, <1>5, <1>6, <1>7, <1>8 DEF HumanStep

\* A handler that dies, or gives up on an error of the storage, leaves what it
\* held among the orphans.
LEMMA StrandHandler ==
    ASSUME Shape, StrandInv, NEW w \in Handlers,
           Execute(w) \/ Deliver(w) \/ StorageFails(w) \/ Crash(w)
    PROVE  StrandInv'
<1>a. pc \in [Handlers -> Labels] /\ job \in [Handlers -> Jobs] /\ job[w] \in Jobs
  BY DEF Shape, TypeOK
<1>1. UNCHANGED <<approvals, plans>>
  BY DEF Execute, Deliver, StorageFails, Crash, tables
<1>2. orphans \subseteq orphans'
  BY DEF Execute, Deliver, StorageFails, Crash, history
<1>3. \A v \in Handlers \ {w} : Holding(v)' = Holding(v)
  BY OthersStill, HoldingSame
<1>4. \A x \in Holding(w) : x \in Holding(w)' \/ x \in orphans'
  <2>1. CASE Execute(w)
    <3>1. /\ pc[w] = "ready" /\ pc'[w] = "running"
          /\ job'[w].via = job[w].via /\ job'[w].ref = job[w].ref
      BY <1>a, <2>1 DEF Execute, Goto, Jobs
    <3> QED BY <3>1 DEF Holding
  <2>2. CASE Deliver(w)
    BY <2>2 DEF Deliver, Holding
  <2>3. CASE StorageFails(w) \/ Crash(w)
    BY <2>3 DEF StorageFails, Crash
  <2> QED BY <2>1, <2>2, <2>3
<1> QED BY <1>1, <1>2, <1>3, <1>4, StrandStep

\* A row is left executing only by the loss of its handler.
THEOREM NothingStranded == Spec => []NoStrandedClaim
<1>1. Shape /\ ApprovalInv /\ PlanInv /\ StrandInv /\ [Next]_vars => StrandInv'
  <2> SUFFICES ASSUME Shape, ApprovalInv, PlanInv, StrandInv, [Next]_vars PROVE StrandInv'
    OBVIOUS
  <2>1. CASE UNCHANGED vars
    BY <2>1 DEF StrandInv, Covered, Holding, vars, tables, history
  <2>2. CASE Next
    BY <2>2, StrandAgent, StrandHuman, StrandAdmin, StrandHandler, StrandEnvironment DEF Next
  <2> QED BY <2>1, <2>2
<1>2. PlanInv /\ StrandInv => NoStrandedClaim
  BY DEF PlanInv, PlanRowInv, StrandInv, Covered, NoStrandedClaim
<1> QED BY <1>1, <1>2, StrandInit, ShapeCorrect, ApprovalInvCorrect, PlanInvCorrect, PTL DEF Spec

-----------------------------------------------------------------------------
(* Replies                                                                   *)

\* Outcomes are final: a row that has recorded one keeps it until a cleanup
\* removes it, a removed row does not come back, and a plan never goes back.
OutcomesFinal ==
    /\ \A id \in ApprovalIds : issued[id] # None =>
          /\ issued'[id] # None
          /\ \A s \in {"executed", "failed", "absent"} :
                approvals[id].status = s => approvals'[id].status \in {s, "absent"}
    /\ \A p \in PlanIds : plans[p].status # "absent" =>
          /\ plans'[p].status # "absent"
          /\ plans'[p].next_index >= plans[p].next_index

\* A settled approval keeps its outcome, or is removed and stays away: it is
\* issued, and only a uuid that was not issued is inserted.
LEMMA FinalApprovals ==
    ASSUME Shape, Next, NEW id \in ApprovalIds, issued[id] # None
    PROVE  /\ issued'[id] # None
           /\ \A s \in {"executed", "failed", "absent"} :
                 approvals[id].status = s => approvals'[id].status \in {s, "absent"}
<1>a. /\ approvals \in ApprovalTables /\ expire(approvals, now) \in ApprovalTables
      /\ issued \in [ApprovalIds \cup GrantIds -> Maybe(ApprovalRow \cup GrantRow)]
  BY ApprovalTypes DEF Shape, TypeOK
<1>b. \A s \in {"executed", "failed", "absent"} :
         approvals[id].status = s => expire(approvals, now)[id].status = s
  BY ExpireShape DEF Shape, TypeOK
<1> DEFINE Final == \A s \in {"executed", "failed", "absent"} :
                       approvals[id].status = s => approvals'[id].status \in {s, "absent"}
<1>c. ASSUME approvals' \in {approvals, expire(approvals, now)} PROVE Final
  BY <1>b, <1>c
<1>d. ASSUME NEW k \in ApprovalIds, NEW s, NEW table \in {approvals, expire(approvals, now)},
             approvals[k].status \in {"pending", "executing"},
             approvals' = [table EXCEPT ![k].status = s]
      PROVE  Final
  <2>1. k # id => approvals'[id] = table[id]
    BY <1>a, <1>d DEF ApprovalTables
  <2> QED BY <1>b, <1>d, <2>1
<1>e. ASSUME NEW k \in ApprovalIds, NEW ok \in BOOLEAN, approvals' = finish(approvals, k, ok)
      PROVE  Final
  BY <1>c, <1>d, <1>e DEF finish
<1>f. ASSUME NEW k \in FreshApprovals, NEW row,
             approvals' = [approvals EXCEPT ![k] = row], issued' = [issued EXCEPT ![k] = row]
      PROVE  Final /\ issued'[id] # None
  BY <1>a, <1>f DEF FreshApprovals, ApprovalTables
<1>1. ASSUME NEW a \in Agents, AgentStep(a)
      PROVE  Final /\ issued'[id] # None
  <2>1. CASE UNCHANGED <<approvals, issued>>
    BY <1>c, <2>1
  <2> QED BY <1>1, <1>f, <2>1 DEF AgentStep, Submit, ClaimPlan, Consume, CreateApproval,
             RequestMutation, ProposePlan, AgentFinish, tables, history
<1>2. ASSUME NEW h \in Humans, HumanStep(h)
      PROVE  Final /\ issued'[id] # None
  <2>1. pc[h] # "idle" => job[h].ref \in ApprovalIds
    BY DEF Shape, JobShape, HumanShape
  <2>2. issued'[id] # None
    <3>1. CASE issued' = issued
      BY <3>1
    <3>2. ASSUME NEW g \in GrantIds, NEW new, issued' = [issued EXCEPT ![g] = new]
          PROVE  issued'[id] # None
      BY <1>a, <3>2, GrantAssumption
    <3> QED BY <1>2, <3>1, <3>2 DEF HumanStep, ApproveBegin, ApproveClaim, ApproveVerify,
               ApproveAuthorize, ApproveGrant, ApproveAudit, ApproveFinish, ApproveReport,
               FreshGrants, history
  <2>3. CASE ApproveClaim(h)
    <3> DEFINE k == job[h].ref
               marked == expire(approvals, now)
    <3>1. k \in ApprovalIds
      BY <2>1, <2>3 DEF ApproveClaim
    <3>2. CASE approvals' = marked
      BY <1>c, <2>2, <3>2
    <3>3. CASE Live(marked, k, now) /\ approvals' = claim(marked, k)
      <4>1. approvals[k].status = "pending"
        BY <3>1, <3>3, ExpireShape DEF Live, Shape, TypeOK
      <4> QED BY <1>d, <2>2, <3>1, <3>3, <4>1 DEF claim
    <3> QED BY <2>3, <3>2, <3>3, Zenon DEF ApproveClaim
  <2> QED BY <1>2, <1>c, <1>e, <2>1, <2>2, <2>3
          DEF HumanStep, ApproveBegin, ApproveVerify, ApproveAuthorize, ApproveGrant,
              ApproveAudit, ApproveFinish, ApproveReport, FailApproval
<1>3. CASE AdminStep
  <2>1. issued' = issued
    BY <1>3 DEF AdminStep, RejectApproval, CleanupApprovals, ListApprovals, RevokeGrant,
                CleanupGrants, ListGrants, ApprovePlan, RejectPlan, ListPlans, history
  <2>2. ASSUME NEW k \in ApprovalIds, RejectApproval(k)
        PROVE  Final
    BY <1>d, <2>2 DEF RejectApproval, Live, reject
  <2>3. CASE CleanupApprovals
    BY <1>b, <2>1, <2>3 DEF CleanupApprovals, cleanup, NoApproval
  <2> QED BY <1>3, <1>c, <2>1, <2>2, <2>3 DEF AdminStep, ListApprovals, RevokeGrant,
             CleanupGrants, ListGrants, ApprovePlan, RejectPlan, ListPlans
<1>4. CASE UNCHANGED <<approvals, issued>>
  BY <1>4, <1>c
<1> QED BY <1>1, <1>2, <1>3, <1>4 DEF Next, EnvironmentStep, Tick, EditFile, EditPolicy,
           Execute, Deliver, StorageFails, Crash, tables, history

\* A plan does not disappear, nor does it go back to an earlier action.
LEMMA FinalPlans ==
    ASSUME Shape, Next, NEW p \in PlanIds, plans[p].status # "absent"
    PROVE  /\ plans'[p].status # "absent"
           /\ plans'[p].next_index >= plans[p].next_index
<1>a. /\ plans \in PlanTables /\ plans[p].next_index \in Nat
      /\ expire_plans(plans, now) \in PlanTables
  BY PlanTypes DEF Shape, TypeOK, PlanTables, PlanRow
<1>b. \A table \in {plans, expire_plans(plans, now)} :
         table[p].status # "absent" /\ table[p].next_index = plans[p].next_index
  <2>1. plans \in PlanTables /\ now \in Nat
    BY DEF Shape, TypeOK
  <2>2. expire_plans(plans, now)[p].status # "absent"
    BY <2>1, ExpirePlanShape
  <2>3. expire_plans(plans, now)[p].next_index = plans[p].next_index
    BY <2>1, ExpirePlanShape
  <2> QED BY <2>2, <2>3
<1>1. CASE plans' \in {plans, expire_plans(plans, now)}
  BY <1>1, <1>a, <1>b
<1>2. ASSUME NEW q \in PlanIds, NEW s \in {"approved", "rejected"},
             NEW table \in {plans, expire_plans(plans, now)},
             plans' = [table EXCEPT ![q].status = s]
      PROVE  plans'[p].status # "absent" /\ plans'[p].next_index = plans[p].next_index
  BY <1>2, <1>a, <1>b DEF PlanTables, PlanRow
<1>3. ASSUME NEW a \in Agents, AgentStep(a)
      PROVE  plans'[p].status # "absent" /\ plans'[p].next_index >= plans[p].next_index
  <2>1. ASSUME NEW q \in PlanIds, NEW x, NEW y,
               plans' = [expire_plans(plans, now) EXCEPT ![q] =
                           [@ EXCEPT !.status = "executing", !.claimed_index = x,
                                     !.claim_expires_at = y]]
        PROVE  plans'[p].status # "absent" /\ plans'[p].next_index = plans[p].next_index
    BY <2>1, <1>a, <1>b DEF PlanTables, PlanRow
  <2>2. CASE ClaimPlan(a)
    <3>1. CASE \E q \in PlanIds : plans' = claim_plan_action(expire_plans(plans, now), q,
                                                            job[a].request, now)
      <4>1. plans'[p].status # "absent" /\ plans'[p].next_index = plans[p].next_index
        BY <2>1, <3>1, Zenon DEF claim_plan_action
      <4> QED BY <1>a, <4>1
    <3> QED BY <1>1, <2>2, <3>1, ClaimPlanSets, Zenon
  <2>3. ASSUME NEW q \in PlanIds, NEW row, plans[q].status = "absent",
               plans' = [plans EXCEPT ![q] = row]
        PROVE  plans'[p] = plans[p]
    BY <2>3, <1>a DEF PlanTables
  <2>4. ASSUME NEW q \in PlanIds, NEW i, NEW ok \in BOOLEAN,
               plans' = finish_plan_action(plans, q, i, ok)
        PROVE  plans'[p].status # "absent" /\ plans'[p].next_index >= plans[p].next_index
    <3>1. p # q => plans'[p] = plans[p]
      BY <1>a, <2>4 DEF finish_plan_action, PlanTables
    <3>2. p = q => /\ plans'[p].status \in {"failed", "completed", "approved"}
                   /\ plans'[p].next_index \in {plans[p].next_index, plans[p].next_index + 1}
      BY <1>a, <2>4 DEF finish_plan_action, PlanTables, PlanRow
    <3> QED BY <1>a, <3>1, <3>2
  <2>5. ASSUME NEW outcome \in {"ok", "failed", "error"}, AgentFinish(a, outcome)
        PROVE  plans'[p].status # "absent" /\ plans'[p].next_index >= plans[p].next_index
    <3>1. job[a].via = "plan" => job[a].ref \in PlanIds
      BY DEF Shape, JobShape, AgentShape
    <3> QED BY <1>1, <2>4, <2>5, <3>1 DEF AgentFinish
  <2>6. ASSUME NEW q \in PlanIds, NEW task \in Tasks, NEW actions \in PlanShapes,
               NEW ns \in Namespaces, ProposePlan(a, q, task, actions, ns)
        PROVE  plans'[p] = plans[p]
    BY <2>3, <2>6 DEF ProposePlan
  <2>7. CASE plans' = plans
    BY <1>1, <2>7
  <2>8. plans'[p] = plans[p] => plans'[p].next_index >= plans[p].next_index
    BY <1>a
  <2> QED BY <1>3, <2>2, <2>5, <2>6, <2>7, <2>8
          DEF AgentStep, Submit, Consume, CreateApproval, RequestMutation, tables
<1>4. CASE AdminStep
  BY <1>4, <1>1, <1>2, <1>a
     DEF AdminStep, RejectApproval, CleanupApprovals, ListApprovals, RevokeGrant,
         CleanupGrants, ListGrants, ApprovePlan, RejectPlan, ListPlans, approve_plan, reject_plan
<1>5. ASSUME NEW h \in Humans, HumanStep(h)
      PROVE  plans' = plans
  BY <1>5 DEF HumanStep, ApproveBegin, ApproveClaim, ApproveVerify, ApproveAuthorize,
              ApproveGrant, ApproveAudit, ApproveFinish, ApproveReport
<1> QED BY <1>1, <1>3, <1>4, <1>5 DEF Next, EnvironmentStep, Tick, EditFile, EditPolicy,
           Execute, Deliver, StorageFails, Crash, tables

\* Outcomes are final across every step.
LEMMA OutcomesAreFinal ==
    ASSUME Shape, Next
    PROVE  OutcomesFinal
BY FinalApprovals, FinalPlans DEF OutcomesFinal

\* Only the start of an operation counts a run, and it finds its row executing.
LEMMA RunsOfHolder ==
    ASSUME Shape, ApprovalInv, Next, NEW id \in ApprovalIds, approvalRuns'[id] # approvalRuns[id]
    PROVE  \E h \in Humans : /\ pc[h] = "ready" /\ job[h].ref = id /\ pc'[h] = "running"
                             /\ approvals[id].status = "executing"
<1>1. PICK w \in Handlers : Execute(w) /\ approvalRuns' # approvalRuns
  <2>1. ASSUME NEW a \in Agents, AgentStep(a)
        PROVE  UNCHANGED approvalRuns
    <3>1. ASSUME NEW r \in Requests, NEW task \in Maybe(Tasks),
                 NEW ns \in Namespaces, Submit(a, r, task, ns)
          PROVE  UNCHANGED approvalRuns
      BY <3>1 DEF Submit, history
    <3>2. CASE ClaimPlan(a) \/ Consume(a)
      BY <3>2 DEF ClaimPlan, Consume, history
    <3>3. CASE CreateApproval(a)
      BY <3>3 DEF CreateApproval
    <3>4. ASSUME NEW r \in Requests, NEW ns \in Namespaces, RequestMutation(a, r, ns)
          PROVE  UNCHANGED approvalRuns
      BY <3>4 DEF RequestMutation
    <3>5. ASSUME NEW p \in PlanIds, NEW task \in Tasks, NEW actions \in PlanShapes,
                 NEW ns \in Namespaces, ProposePlan(a, p, task, actions, ns)
          PROVE  UNCHANGED approvalRuns
      BY <3>5 DEF ProposePlan, history
    <3>6. ASSUME NEW outcome, AgentFinish(a, outcome)
          PROVE  UNCHANGED approvalRuns
      BY <3>6 DEF AgentFinish, history
    <3> QED BY <2>1, <3>1, <3>2, <3>3, <3>4, <3>5, <3>6 DEF AgentStep
  <2>2. ASSUME NEW v \in Humans, HumanStep(v)
        PROVE  UNCHANGED approvalRuns
    <3>1. CASE \E i \in ApprovalIds, want \in Maybe(WantedGrants) : ApproveBegin(v, i, want)
      BY <3>1 DEF ApproveBegin, history
    <3>2. CASE ApproveClaim(v) \/ ApproveVerify(v) \/ ApproveAuthorize(v)
      BY <3>2 DEF ApproveClaim, ApproveVerify, ApproveAuthorize, history
    <3>3. CASE ApproveGrant(v) \/ ApproveAudit(v) \/ ApproveReport(v)
      BY <3>3 DEF ApproveGrant, ApproveAudit, ApproveReport, history
    <3>4. ASSUME NEW ok, ApproveFinish(v, ok)
          PROVE  UNCHANGED approvalRuns
      BY <3>4 DEF ApproveFinish, history
    <3> QED BY <2>2, <3>1, <3>2, <3>3, <3>4 DEF HumanStep
  <2>3. CASE AdminStep
    BY <2>3 DEF AdminStep, RejectApproval, CleanupApprovals, ListApprovals, RevokeGrant,
                CleanupGrants, ListGrants, ApprovePlan, RejectPlan, ListPlans, history
  <2>4. CASE EnvironmentStep
    BY <2>4 DEF EnvironmentStep, Tick, EditFile, EditPolicy, history
  <2>5. CASE \E w \in Handlers : Deliver(w) \/ StorageFails(w) \/ Crash(w)
    BY <2>5 DEF Deliver, StorageFails, Crash, history
  <2> QED BY <2>1, <2>2, <2>3, <2>4, <2>5 DEF Next
<1>2. /\ pc[w] = "ready" /\ job[w].via = "approval" /\ pc'[w] = "running"
      /\ approvalRuns' = [approvalRuns EXCEPT ![job[w].ref] = @ + 1]
  BY <1>1 DEF Execute, Goto, Shape, TypeOK
<1>3. w \in Humans
  BY <1>2 DEF Handlers, Shape, JobShape, AgentShape
<1>4. job[w].ref = id
  BY <1>2 DEF Shape, TypeOK
<1> QED BY <1>2, <1>3, <1>4 DEF ApprovalInv, ClaimInv, Claimed

\* What an agent's reply says of a plan, and a human's of an approval.
AgentOutcome(a) ==
    /\ job[a].reply # "executed"
    /\ job[a].via = "plan" => plans[job[a].ref].status # "absent"
    /\ (pc[a] = "replied" /\ job[a].via = "plan" /\ job[a].reply = "ok") =>
          plans[job[a].ref].next_index > job[a].index

HumanOutcome(h) ==
    /\ pc[h] = "running" => approvalRuns[job[h].ref] = 1
    /\ (pc[h] \in {"report", "replied"} /\ job[h].reply \in {"executed", "failed"}) =>
          /\ issued[job[h].ref] # None
          /\ approvals[job[h].ref].status \in {job[h].reply, "absent"}
          /\ job[h].reply = "executed" => approvalRuns[job[h].ref] = 1

OutcomeInv ==
    /\ \A a \in Agents : AgentOutcome(a)
    /\ \A h \in Humans : HumanOutcome(h)

\* A handler that the step leaves alone keeps its outcome.
LEMMA OutcomeStill ==
    ASSUME Shape, ApprovalInv, OutcomeInv, Next, NEW w \in Handlers,
           pc'[w] = pc[w], job'[w].via = job[w].via, job'[w].ref = job[w].ref,
           job'[w].index = job[w].index, job'[w].reply = job[w].reply
    PROVE  /\ w \in Agents => AgentOutcome(w)'
           /\ w \in Humans => HumanOutcome(w)'
<1>1. OutcomesFinal
  BY OutcomesAreFinal
<1>2. CASE w \in Agents
  <2>1. CASE job[w].via = "plan"
    <3>1. /\ job[w].ref \in PlanIds /\ job[w].index \in Nat
          /\ plans[job[w].ref].next_index \in Nat
      BY <1>2, <2>1 DEF Shape, JobShape, AgentShape, TypeOK, Jobs, PlanTables, PlanRow
    <3>2. plans[job[w].ref].status # "absent"
      BY <1>2, <2>1 DEF OutcomeInv, AgentOutcome
    <3>3. /\ plans'[job[w].ref].status # "absent"
          /\ plans'[job[w].ref].next_index >= plans[job[w].ref].next_index
          /\ plans'[job[w].ref].next_index \in Nat
      <4>1. Shape'
        BY ShapeAgent, ShapeHuman, ShapeAdmin, ShapeHandler, ShapeEnvironment DEF Next
      <4> QED BY <1>1, <3>1, <3>2, <4>1 DEF OutcomesFinal, Shape, TypeOK, PlanTables, PlanRow
    <3> QED BY <1>2, <3>1, <3>3, AuthorizationAssumption DEF OutcomeInv, AgentOutcome
  <2>2. CASE job[w].via # "plan"
    BY <1>2, <2>2, AuthorizationAssumption DEF OutcomeInv, AgentOutcome
  <2> QED BY <2>1, <2>2
<1>3. CASE w \in Humans
  <2> DEFINE id == job[w].ref
  <2>1. pc[w] # "idle" => id \in ApprovalIds
    BY <1>3 DEF Shape, JobShape, HumanShape
  <2>2. ASSUME pc[w] \in {"running", "report", "replied"}, approvalRuns[id] = 1,
               pc[w] # "running" => approvals[id].status # "executing"
        PROVE  approvalRuns'[id] = 1
    <3> SUFFICES ASSUME approvalRuns'[id] # approvalRuns[id] PROVE FALSE
      BY <2>2
    <3>1. PICK h \in Humans : /\ pc[h] = "ready" /\ job[h].ref = id /\ pc'[h] = "running"
                              /\ approvals[id].status = "executing"
      BY <2>1, <2>2, RunsOfHolder
    <3>2. pc[w] = "running" /\ h # w
      BY <2>2, <3>1
    <3> QED BY <1>3, <3>1, <3>2 DEF ApprovalInv, ClaimInv, Claimed
  <2>3. pc[w] = "running" => approvalRuns'[id] = 1
    BY <1>3, <2>2 DEF OutcomeInv, HumanOutcome
  <2>4. ASSUME pc[w] \in {"report", "replied"}, job[w].reply \in {"executed", "failed"}
        PROVE  /\ issued'[id] # None
               /\ approvals'[id].status \in {job[w].reply, "absent"}
               /\ job[w].reply = "executed" => approvalRuns'[id] = 1
    <3>1. /\ issued[id] # None /\ approvals[id].status \in {job[w].reply, "absent"}
          /\ job[w].reply = "executed" => approvalRuns[id] = 1
      BY <1>3, <2>4 DEF OutcomeInv, HumanOutcome
    <3> QED BY <1>1, <2>1, <2>2, <2>4, <3>1 DEF OutcomesFinal
  <2> QED BY <1>3, <2>3, <2>4, AuthorizationAssumption DEF HumanOutcome
<1> QED BY <1>2, <1>3 DEF Handlers

\* So only the handler that takes the step remains to be looked at.
LEMMA OutcomeOthers ==
    ASSUME Shape, ApprovalInv, OutcomeInv, Next, NEW w \in Handlers,
           \/ w \in Agents /\ AgentStep(w)
           \/ w \in Humans /\ HumanStep(w)
           \/ Execute(w) \/ Deliver(w) \/ StorageFails(w) \/ Crash(w),
           w \in Agents => AgentOutcome(w)', w \in Humans => HumanOutcome(w)'
    PROVE  OutcomeInv'
<1>1. \A v \in Handlers \ {w} : pc'[v] = pc[v] /\ job'[v] = job[v]
  BY OthersStill
<1>2. ASSUME NEW v \in Handlers
      PROVE  (v \in Agents => AgentOutcome(v)') /\ (v \in Humans => HumanOutcome(v)')
  BY <1>1, OutcomeStill
<1> QED BY <1>2 DEF OutcomeInv, Handlers

\* An agent's step answers with what it has just recorded.
LEMMA OutcomeAgent ==
    ASSUME Shape, ApprovalInv, PlanInv, OutcomeInv, Next, NEW a \in Agents, AgentStep(a)
    PROVE  OutcomeInv'
<1>a. /\ a \in Handlers /\ a \notin Humans /\ job[a] \in Jobs /\ AgentShape(pc[a], job[a])
      /\ pc \in [Handlers -> Labels] /\ job \in [Handlers -> Jobs]
      /\ plans \in PlanTables
  BY AuthorizationAssumption DEF Shape, TypeOK, JobShape, Handlers
<1>b. SUFFICES AgentOutcome(a)'
  BY <1>a, OutcomeOthers
<1>c. AgentOutcome(a) /\ OutcomesFinal
  BY OutcomesAreFinal DEF OutcomeInv
<1>d. ASSUME pc'[a] # "replied", job'[a].reply # "executed", job'[a].via # "plan"
      PROVE  AgentOutcome(a)'
  BY <1>d DEF AgentOutcome
<1>e. ASSUME NEW x \in {"denied", "error", "confirmation_required", "failed"}, Answer(a, x)
      PROVE  AgentOutcome(a)'
  <2>1. job[a].via = "plan" => plans'[job[a].ref].status # "absent"
    BY <1>a, <1>c DEF AgentOutcome, OutcomesFinal, AgentShape
  <2> QED BY <1>a, <1>e, <2>1, AnswerSets DEF AgentOutcome
<1>1. ASSUME NEW r \in Requests, NEW task \in Maybe(Tasks),
             NEW ns \in Namespaces, Submit(a, r, task, ns)
      PROVE  AgentOutcome(a)'
  <2>1. job'[a].via \in {"none", "policy"} /\ job'[a].reply \in {"none", "denied"}
    BY <1>1, SubmitSets
  <2> QED BY <2>1 DEF AgentOutcome
<1>2. ASSUME ClaimPlan(a)
      PROVE  AgentOutcome(a)'
  <2>1. CASE pc'[a] = "ready" /\ job' = [job EXCEPT ![a].via = "policy"]
    <3>1. job'[a].via = "policy" /\ job'[a].reply = job[a].reply
      BY <1>a, <2>1, FoundSets
    <3> QED BY <1>c, <3>1 DEF AgentOutcome
  <2>2. CASE pc'[a] = "consume" /\ UNCHANGED job
    BY <1>a, <1>c, <2>2 DEF AgentOutcome, OutcomesFinal, AgentShape
  <2>3. CASE Answer(a, "error")
    BY <1>e, <2>3
  <2>4. ASSUME NEW p \in PlanIds, NEW n, NEW hash, pc'[a] = "ready",
               expire_plans(plans, now)[p].status \in {"approved", "executing"},
               job' = [job EXCEPT ![a] = [@ EXCEPT !.via = "plan", !.ref = p, !.index = n,
                                                   !.hash = hash]]
        PROVE  AgentOutcome(a)'
    <3>1. job'[a].via = "plan" /\ job'[a].ref = p /\ job'[a].reply = job[a].reply
      BY <1>a, <2>4 DEF Jobs
    <3>2. plans[p].status # "absent"
      <4>1. LET new == expire_plans(plans, now)[p]
            IN  new = plans[p] \/ plans[p].status \in {"executing", "pending", "approved"}
        BY ExpirePlanShape DEF Shape, TypeOK
      <4> QED BY <2>4, <4>1
    <3> QED BY <1>c, <2>4, <3>1, <3>2 DEF AgentOutcome, OutcomesFinal
  <2>5. CASE /\ pc'[a] = "ready"
             /\ \E p \in PlanIds :
                   LET row == expire_plans(plans, now)[p]
                   IN  /\ row.status \in {"approved", "executing"}
                       /\ job' = [job EXCEPT ![a] =
                                    [@ EXCEPT !.via = "plan", !.ref = p,
                                              !.index = row.next_index,
                                              !.hash = request_hash(job[a].request, files)]]
    BY <2>4, <2>5, Zenon
  <2> QED BY <1>2, <2>1, <2>2, <2>3, <2>5, ClaimPlanSets, Zenon
<1>3. ASSUME Consume(a)
      PROVE  AgentOutcome(a)'
  <2>1. CASE UNCHANGED job /\ Goto(a, "create")
    BY <1>a, <1>c, <2>1 DEF AgentOutcome, OutcomesFinal, AgentShape, Goto
  <2>2. ASSUME NEW g, job' = [job EXCEPT ![a] = [@ EXCEPT !.via = "grant", !.ref = g]]
        PROVE  AgentOutcome(a)'
    <3>1. job'[a].via = "grant" /\ job'[a].reply = job[a].reply
      BY <1>a, <2>2, FoundSets
    <3> QED BY <1>c, <3>1 DEF AgentOutcome
  <2> QED BY <1>3, <2>1, <2>2 DEF Consume
<1>4. ASSUME CreateApproval(a)
      PROVE  AgentOutcome(a)'
  BY <1>4, <1>e DEF CreateApproval
<1>5. CASE UNCHANGED <<pc, job>>
  BY <1>a, <1>5, OutcomeStill
<1>6. ASSUME NEW outcome \in {"ok", "failed", "error"}, AgentFinish(a, outcome)
      PROVE  AgentOutcome(a)'
  <2>1. CASE \E x \in {"error", "failed"} : Answer(a, x)
    BY <1>e, <2>1
  <2>2. CASE Answer(a, "ok")
    <3>1. /\ job'[a].via = job[a].via /\ job'[a].ref = job[a].ref
          /\ job'[a].index = job[a].index /\ job'[a].reply = "ok"
      BY <1>a, <2>2, AnswerSets
    <3>2. CASE job[a].via # "plan"
      BY <3>1, <3>2 DEF AgentOutcome
    <3>3. CASE job[a].via = "plan"
      <4> DEFINE p == job[a].ref
      <4>1. p \in PlanIds /\ ActsOnPlan(a) /\ job[a].index \in Nat
        BY <1>6, <1>a, <3>3 DEF AgentFinish, AgentShape, ActsOnPlan, Acting, Jobs
      <4>2. outcome = "ok" /\ plans' = finish_plan_action(plans, p, job[a].index, TRUE)
        <5>1. ~Answer(a, "error") /\ ~Answer(a, "failed")
          BY <1>a, <3>1, AnswerSets
        <5> QED BY <1>6, <3>3, <5>1 DEF AgentFinish
      <4>3. plans'[p].next_index = plans[p].next_index + 1
        BY <1>a, <4>1, <4>2 DEF finish_plan_action, PlanTables, PlanRow
      <4>4. job[a].index = plans[p].next_index
        BY <4>1 DEF PlanInv, PlanClaimInv
      <4>5. plans'[p].status # "absent"
        BY <1>c, <3>3, <4>1 DEF AgentOutcome, OutcomesFinal
      <4> QED BY <3>1, <4>1, <4>3, <4>4, <4>5 DEF AgentOutcome
    <3> QED BY <3>2, <3>3
  <2> QED BY <1>6, <2>1, <2>2 DEF AgentFinish
<1> QED BY <1>1, <1>2, <1>3, <1>4, <1>5, <1>6 DEF AgentStep, RequestMutation, ProposePlan

\* A human's step reports what it has just recorded.
LEMMA OutcomeHuman ==
    ASSUME Shape, ApprovalInv, OutcomeInv, Next, NEW h \in Humans, HumanStep(h)
    PROVE  OutcomeInv'
<1>a. /\ h \in Handlers /\ h \notin Agents /\ job[h] \in Jobs /\ HumanShape(pc[h], job[h])
      /\ pc \in [Handlers -> Labels] /\ job \in [Handlers -> Jobs]
      /\ approvals \in ApprovalTables
  BY AuthorizationAssumption DEF Shape, TypeOK, JobShape, Handlers
<1>b. SUFFICES HumanOutcome(h)'
  BY <1>a, OutcomeOthers
<1>c. HumanOutcome(h) /\ OutcomesFinal
  BY OutcomesAreFinal DEF OutcomeInv
<1>d. ASSUME pc'[h] \notin {"running", "report", "replied"}
      PROVE  HumanOutcome(h)'
  BY <1>d DEF HumanOutcome
<1>e. CASE Answer(h, "error")
  BY <1>a, <1>e, AnswerSets DEF HumanOutcome
<1>f. approvalRuns' = approvalRuns
  BY DEF HumanStep, ApproveBegin, ApproveClaim, ApproveVerify, ApproveAuthorize,
         ApproveGrant, ApproveAudit, ApproveFinish, ApproveReport, history
<1>g. ASSUME NEW ok \in BOOLEAN, pc[h] \in Claimed,
             approvals' = finish(approvals, job[h].ref, ok),
             pc'[h] \in {"report", "replied"},
             job' = [job EXCEPT ![h].reply = IF ok THEN "executed" ELSE "failed"],
             ok => pc[h] = "running"
      PROVE  HumanOutcome(h)'
  <2> DEFINE id == job[h].ref
             x == IF ok THEN "executed" ELSE "failed"
  <2>1. id \in ApprovalIds /\ approvals[id].status = "executing" /\ issued[id] # None
    BY <1>a, <1>g DEF HumanShape, Claimed, ApprovalInv, ClaimInv, Shape, RowShape
  <2>2. approvals'[id].status = x
    BY <1>a, <1>g, <2>1 DEF finish, ApprovalTables, ApprovalRow
  <2>3. issued'[id] # None
    BY <1>c, <2>1 DEF OutcomesFinal
  <2>4. job'[h].ref = id /\ job'[h].reply = x
    BY <1>a, <1>g DEF Jobs
  <2>5. x = "executed" => approvalRuns'[id] = 1
    BY <1>c, <1>f, <1>g DEF HumanOutcome
  <2> QED BY <1>g, <2>2, <2>3, <2>4, <2>5 DEF HumanOutcome
<1>h. ASSUME FailApproval(h), pc[h] \in Claimed
      PROVE  HumanOutcome(h)'
  <2>1. pc'[h] = "replied" /\ job' = [job EXCEPT ![h].reply = "failed"]
    BY <1>a, <1>h DEF FailApproval, Answer, Goto
  <2> QED BY <1>g, <1>h, <2>1 DEF FailApproval
<1>1. ASSUME NEW id \in ApprovalIds, NEW want \in Maybe(WantedGrants),
             ApproveBegin(h, id, want)
      PROVE  HumanOutcome(h)'
  <2>1. pc'[h] # "running" /\ job'[h].reply \in {"none", "error"}
    BY <1>1, <1>a DEF ApproveBegin, Goto, NoJob
  <2> QED BY <2>1 DEF HumanOutcome
<1>2. ASSUME ApproveClaim(h)
      PROVE  HumanOutcome(h)'
  <2>1. Goto(h, "verify") \/ Answer(h, "error")
    BY <1>2, Zenon DEF ApproveClaim
  <2> QED BY <1>a, <1>d, <1>e, <2>1 DEF Goto
<1>3. ASSUME ApproveVerify(h)
      PROVE  HumanOutcome(h)'
  BY <1>3, <1>a, <1>d, <1>h DEF ApproveVerify, Goto, Claimed
<1>4. ASSUME ApproveAuthorize(h)
      PROVE  HumanOutcome(h)'
  BY <1>4, <1>a, <1>d, <1>h DEF ApproveAuthorize, Goto, Claimed
<1>5. ASSUME ApproveGrant(h)
      PROVE  HumanOutcome(h)'
  BY <1>5, <1>a, <1>d, <1>h DEF ApproveGrant, Goto, Claimed
<1>6. ASSUME NEW ok \in BOOLEAN, ApproveFinish(h, ok)
      PROVE  HumanOutcome(h)'
  BY <1>6, <1>a, <1>g DEF ApproveFinish, Goto, Claimed
<1>7. ASSUME ApproveReport(h)
      PROVE  HumanOutcome(h)'
  <2>1. CASE Answer(h, job[h].reply)
    <3>1. /\ pc'[h] = "replied" /\ job'[h].ref = job[h].ref /\ job'[h].reply = job[h].reply
      BY <1>a, <2>1, AnswerSets
    <3>2. job[h].ref \in ApprovalIds /\ pc[h] = "report"
      BY <1>7, <1>a DEF ApproveReport, HumanShape
    <3> QED BY <1>c, <1>f, <3>1, <3>2 DEF HumanOutcome, OutcomesFinal
  <2> QED BY <1>7, <1>e, <2>1 DEF ApproveReport
<1>8. ASSUME ApproveAudit(h)
      PROVE  HumanOutcome(h)'
  BY <1>8, <1>a, <1>d DEF ApproveAudit, Goto
<1> QED BY <1>1, <1>2, <1>3, <1>4, <1>5, <1>6, <1>7, <1>8 DEF HumanStep

\* The steps that all handlers share answer nothing but errors.
LEMMA OutcomeHandler ==
    ASSUME Shape, ApprovalInv, OutcomeInv, Next, NEW w \in Handlers,
           Execute(w) \/ Deliver(w) \/ StorageFails(w) \/ Crash(w)
    PROVE  OutcomeInv'
<1>a. /\ job[w] \in Jobs /\ pc \in [Handlers -> Labels] /\ job \in [Handlers -> Jobs]
      /\ w \in Agents => AgentShape(pc[w], job[w])
      /\ w \in Humans => HumanShape(pc[w], job[w])
  BY DEF Shape, TypeOK, JobShape
<1>b. SUFFICES (w \in Agents => AgentOutcome(w)') /\ (w \in Humans => HumanOutcome(w)')
  BY OutcomeOthers
<1>c. /\ w \in Agents => AgentOutcome(w)
      /\ OutcomesFinal
  BY OutcomesAreFinal DEF OutcomeInv
<1>d. w \in Agents /\ job[w].via = "plan" => plans'[job[w].ref].status # "absent"
  BY <1>a, <1>c DEF AgentOutcome, OutcomesFinal, AgentShape
<1>1. CASE Deliver(w) \/ Crash(w)
  <2>1. pc'[w] = "idle" /\ job'[w].reply = "none" /\ job'[w].via = "none"
    BY <1>1, <1>a DEF Deliver, Crash, Goto, NoJob
  <2> QED BY <2>1 DEF AgentOutcome, HumanOutcome
<1>2. CASE StorageFails(w)
  <2>1. Answer(w, "error")
    BY <1>2 DEF StorageFails
  <2> QED BY <1>d, <2>1, AnswerSets DEF AgentOutcome, HumanOutcome
<1>3. CASE Execute(w)
  <2>1. /\ pc[w] = "ready" /\ pc'[w] = "running"
        /\ job'[w].via = job[w].via /\ job'[w].ref = job[w].ref
        /\ job'[w].reply = job[w].reply
    BY <1>3, <1>a DEF Execute, Goto, Jobs
  <2>2. w \in Agents => AgentOutcome(w)'
    BY <1>c, <1>d, <2>1 DEF AgentOutcome
  <2>3. ASSUME w \in Humans
        PROVE  approvalRuns'[job[w].ref] = 1
    <3>1. job[w].via = "approval" /\ job[w].ref \in ApprovalIds
      BY <1>a, <2>1, <2>3 DEF HumanShape
    <3>2. approvalRuns[job[w].ref] = 0
      BY <2>1, <2>3 DEF ApprovalInv, RunInv, Claimed
    <3> QED BY <1>3, <3>1, <3>2 DEF Execute, Shape, TypeOK
  <2> QED BY <2>1, <2>2, <2>3 DEF HumanOutcome
<1> QED BY <1>1, <1>2, <1>3

\* A human who reads "executed" or "failed" reads what the table recorded, and
\* an agent that reads "ok" for a plan action knows the plan has moved past it.
THEOREM RepliesAreTruthful == Spec => []RepliesTruthful
<1>1. Init => OutcomeInv
  BY DEF Init, OutcomeInv, AgentOutcome, HumanOutcome, Handlers, NoJob
<1>2. Shape /\ ApprovalInv /\ PlanInv /\ OutcomeInv /\ [Next]_vars => OutcomeInv'
  <2> SUFFICES ASSUME Shape, ApprovalInv, PlanInv, OutcomeInv, [Next]_vars PROVE OutcomeInv'
    OBVIOUS
  <2>1. CASE UNCHANGED vars
    BY <2>1 DEF OutcomeInv, AgentOutcome, HumanOutcome, vars, tables, history
  <2>2. ASSUME Next, AdminStep \/ EnvironmentStep
        PROVE  OutcomeInv'
    <3>1. \A w \in Handlers :
             /\ pc'[w] = pc[w] /\ job'[w].via = job[w].via /\ job'[w].ref = job[w].ref
             /\ job'[w].index = job[w].index /\ job'[w].reply = job[w].reply
      <4>1. CASE AdminStep
        BY <4>1 DEF AdminStep, RejectApproval, CleanupApprovals, ListApprovals, RevokeGrant,
                    CleanupGrants, ListGrants, ApprovePlan, RejectPlan, ListPlans
      <4> QED BY <2>2, <4>1, EnvironmentStill
    <3> QED BY <2>2, <3>1, OutcomeStill DEF OutcomeInv, Handlers
  <2> QED BY <2>1, <2>2, OutcomeAgent, OutcomeHuman, OutcomeHandler DEF Next
<1>3. Shape /\ OutcomeInv => RepliesTruthful
  <2> SUFFICES ASSUME Shape, OutcomeInv, NEW w \in Handlers, pc[w] = "replied"
               PROVE  /\ job[w].reply = "executed" =>
                            /\ approvalRuns[job[w].ref] = 1
                            /\ approvals[job[w].ref].status \in {"executed", "absent"}
                      /\ (job[w].via = "approval" /\ job[w].reply = "failed") =>
                            approvals[job[w].ref].status \in {"failed", "absent"}
                      /\ (job[w].via = "plan" /\ job[w].reply = "ok") =>
                            plans[job[w].ref].next_index > job[w].index
    BY DEF RepliesTruthful
  <2>1. CASE w \in Agents
    BY <2>1 DEF OutcomeInv, AgentOutcome, Shape, JobShape, AgentShape
  <2>2. CASE w \in Humans
    BY <2>2 DEF OutcomeInv, HumanOutcome, Shape, JobShape, HumanShape
  <2> QED BY <2>1, <2>2 DEF Handlers
<1> QED BY <1>1, <1>2, <1>3, ShapeCorrect, ApprovalInvCorrect, PlanInvCorrect, PTL DEF Spec

=============================================================================
