---------------------------- MODULE Authorization ----------------------------
(***************************************************************************)
(* GatewayService's authorization flows (service.rs) over the three tables *)
(* of the approval database: agent requests (resolve_operation and         *)
(* execute_enveloped), the human's approval (the ApprovalApprove handler)  *)
(* and the one-statement administration commands.                          *)
(*                                                                         *)
(* A handler is cut into one action per access to shared state: a database *)
(* transaction, a read of the configuration or of a local file, the start  *)
(* and the end of the remote operation. Handlers of both kinds interleave  *)
(* at these points, with each other, with edits of the policy and of the   *)
(* local files, with the passing of time, and with crashes: the tables     *)
(* survive, handlers do not.                                               *)
(***************************************************************************)
EXTENDS GrantTable, PlanTable, FiniteSets

CONSTANTS
    Agents,        \* handlers serving agent requests
    Humans,        \* handlers serving `approval approve`
    Policies,      \* the policies the configuration file may come to hold
    WantedGrants,  \* grant options a human may ask for
    PlanShapes,    \* action sequences an agent may propose
    MaxTime        \* bound on the clock

ASSUME AuthorizationAssumption ==
    /\ Agents \cap Humans = {}
    /\ Policies \subseteq [Requests -> Decisions]
    /\ \A new \in Policies, r \in Requests :
          new[r].effect = "confirm" => new[r].rule_id # None
    /\ WantedGrants \subseteq GrantOptions
    /\ PlanShapes \subseteq Seq(Requests)
    /\ PlanIds \cap (ApprovalIds \cup GrantIds) = {}
    /\ MaxTime \in Nat

Handlers == Agents \cup Humans

VARIABLES
    now,           \* seconds since the epoch
    approvals,     \* table approvals
    grants,        \* table approval_grants
    plans,         \* table execution_plans
    files,         \* contents of the local source files of uploads
    policy,        \* what PolicyEngine::authorize answers an agent, by request
    pc,            \* where each handler is
    job,           \* the local variables of each handler
    \* The rest is history, read by the properties only (and by Fresh*, since
    \* a uuid is never drawn twice).
    issued,        \* each approval and grant as first inserted
    claims,        \* approvals that were ever claimed
    approvalRuns,  \* operations started under each approval
    grantRuns,     \* operations started under each grant
    planRuns,      \* indices of the actions started under each plan
    orphans        \* claimed approvals and plans whose handler died or gave up

tables == <<approvals, grants, plans>>
history == <<issued, claims, approvalRuns, grantRuns, planRuns, orphans>>
vars == <<now, tables, files, policy, pc, job, history>>

Labels == {"idle", "claim_plan", "consume", "create", "claim", "verify",
           "authorize", "grant", "audit", "ready", "running", "report", "replied"}

Replies == {"none", "ok", "executed", "failed", "denied", "error",
            "confirmation_required"}

Jobs ==
    [request  : Maybe(Requests),
     ns       : Maybe(Namespaces),
     task     : Maybe(Tasks),
     decision : Decisions,             \* the policy decision the handler acts on
     via      : {"none", "policy", "plan", "grant", "approval"},
     ref      : Maybe(ApprovalIds \cup GrantIds \cup PlanIds),
     index    : Nat,                   \* the claimed action of a plan
     want     : Maybe(GrantOptions),   \* the grant the human asked for
     hash     : Maybe(Hashes),         \* the hash the claim was made against
     sent     : Maybe(Contents),       \* the bytes an upload really sent
     denied   : BOOLEAN,               \* the policy has denied it all along
     reply    : Replies]

NoJob ==
    [request |-> None, ns |-> None, task |-> None, decision |-> NoDecision,
     via |-> "none", ref |-> None, index |-> 0, want |-> None, hash |-> None,
     sent |-> None, denied |-> FALSE, reply |-> "none"]

\* This module's type invariant: the types of the rows and of the handlers'
\* local variables.
TypeOK ==
    /\ now \in Nat
    /\ approvals \in ApprovalTables
    /\ grants \in GrantTables
    /\ plans \in PlanTables
    /\ files \in Files
    /\ policy \in [Requests -> Decisions]
    /\ pc \in [Handlers -> Labels]
    /\ job \in [Handlers -> Jobs]
    /\ issued \in [ApprovalIds \cup GrantIds -> Maybe(ApprovalRow \cup GrantRow)]
    /\ claims \subseteq ApprovalIds
    /\ approvalRuns \in [ApprovalIds -> Nat]
    /\ grantRuns \in [GrantIds -> Nat]
    /\ planRuns \in [PlanIds -> Seq(Nat)]
    /\ orphans \subseteq ApprovalIds \cup PlanIds

Init ==
    /\ now = 0
    /\ approvals = [id \in ApprovalIds |-> NoApproval]
    /\ grants = [g \in GrantIds |-> NoGrant]
    /\ plans = [p \in PlanIds |-> NoPlan]
    /\ files \in [Uploads -> Contents]
    /\ policy \in Policies
    /\ pc = [w \in Handlers |-> "idle"]
    /\ job = [w \in Handlers |-> NoJob]
    /\ issued = [id \in ApprovalIds \cup GrantIds |-> None]
    /\ claims = {}
    /\ approvalRuns = [id \in ApprovalIds |-> 0]
    /\ grantRuns = [g \in GrantIds |-> 0]
    /\ planRuns = [p \in PlanIds |-> <<>>]
    /\ orphans = {}

Goto(w, label) == pc' = [pc EXCEPT ![w] = label]

\* The handler returns: its reply is on its way to the caller.
Answer(w, reply) ==
    /\ Goto(w, "replied")
    /\ job' = [job EXCEPT ![w].reply = reply]

FreshApprovals == {id \in ApprovalIds : issued[id] = None}
FreshGrants == {g \in GrantIds : issued[g] = None}

-----------------------------------------------------------------------------
(* The environment                                                           *)

Tick ==
    /\ now < MaxTime
    /\ now' = now + 1
    /\ UNCHANGED <<tables, files, policy, pc, job, history>>

EditFile(r, contents) ==
    /\ files[r] # contents
    /\ files' = [files EXCEPT ![r] = contents]
    /\ UNCHANGED <<now, tables, policy, pc, job, history>>

(* The operator edits the configuration. job.denied stays TRUE only while    *)
(* every policy since the handler took the request denied it.                *)
EditPolicy(new) ==
    /\ policy # new
    /\ policy' = new
    /\ job' = [w \in Handlers |->
                 [job[w] EXCEPT
                    !.denied = job[w].denied /\ new[job[w].request].effect = "deny"]]
    /\ UNCHANGED <<now, tables, files, pc, history>>

-----------------------------------------------------------------------------
(* Agent requests: resolve_operation, execute_enveloped                      *)

(* The configuration is loaded and the policy consulted. A denial ends the   *)
(* request; a permission without a task runs it at once.                     *)
Submit(a, r, task, ns) ==
    /\ pc[a] = "idle"
    /\ r \notin Mutations
    /\ LET effect == policy[r].effect
           taken  == [NoJob EXCEPT !.request = r, !.ns = ns, !.task = task,
                                   !.decision = policy[r],
                                   !.denied = (effect = "deny")]
       IN  \/ /\ effect = "deny"
              /\ job' = [job EXCEPT ![a] = [taken EXCEPT !.reply = "denied"]]
              /\ Goto(a, "replied")
           \/ /\ effect = "allow" /\ task = None
              /\ job' = [job EXCEPT ![a] = [taken EXCEPT !.via = "policy"]]
              /\ Goto(a, "ready")
           \/ /\ effect = "confirm" \/ (effect = "allow" /\ task # None)
              /\ job' = [job EXCEPT ![a] = taken]
              /\ Goto(a, "claim_plan")
    /\ UNCHANGED <<now, tables, files, policy, history>>

(* claim_plan_action. A live plan of the task decides the request: it is the *)
(* next action, or an error. With no such plan a permission runs it and a    *)
(* confirmation goes on to the grants.                                       *)
ClaimPlan(a) ==
    /\ pc[a] = "claim_plan"
    /\ LET j       == job[a]
           marked  == IF j.task = None THEN plans ELSE expire_plans(plans, now)
           current == IF j.task = None THEN {}
                      ELSE CurrentPlans(marked, ProfileOf[j.request], j.task, j.ns, now)
       IN  \/ /\ current = {}
              /\ plans' = marked
              /\ IF j.decision.effect = "allow"
                 THEN /\ job' = [job EXCEPT ![a].via = "policy"]
                      /\ Goto(a, "ready")
                 ELSE /\ UNCHANGED job
                      /\ Goto(a, "consume")
           \/ \E p \in current :
                IF PlanClaimable(marked[p], j.request, files)
                THEN /\ plans' = claim_plan_action(marked, p, j.request, now)
                     /\ job' = [job EXCEPT ![a] =
                                  [@ EXCEPT !.via = "plan", !.ref = p,
                                            !.index = marked[p].next_index,
                                            !.hash = request_hash(j.request, files)]]
                     /\ Goto(a, "ready")
                ELSE /\ plans' = marked
                     /\ Answer(a, "error")
    /\ UNCHANGED <<now, approvals, grants, files, policy, history>>

(* GrantService::consume: spend one use of a matching grant, if there is one.*)
Consume(a) ==
    /\ pc[a] = "consume"
    /\ LET j      == job[a]
           marked == expire_grants(grants, now)
           usable == Usable(marked, ProfileOf[j.request], j.decision.rule_id,
                            j.task, j.ns, now)
       IN  \/ /\ usable = {}
              /\ grants' = marked
              /\ UNCHANGED job
              /\ Goto(a, "create")
           \/ \E g \in FirstChoice(marked, usable) :
                /\ grants' = consume(marked, g)
                /\ job' = [job EXCEPT ![a] = [@ EXCEPT !.via = "grant", !.ref = g]]
                /\ Goto(a, "ready")
    /\ UNCHANGED <<now, approvals, plans, files, policy, history>>

(* ApprovalService::create; it fails when the source of an upload cannot be  *)
(* read.                                                                     *)
CreateApproval(a) ==
    /\ pc[a] = "create"
    /\ LET j == job[a]
       IN  \/ /\ Hashable(j.request, files)
              /\ \E id \in FreshApprovals :
                   LET row == create(j.request, j.decision,
                                     request_hash(j.request, files), j.ns, now)
                   IN  /\ approvals' = [approvals EXCEPT ![id] = row]
                       /\ issued' = [issued EXCEPT ![id] = row]
              /\ Answer(a, "confirmation_required")
           \/ /\ ~Hashable(j.request, files)
              /\ UNCHANGED <<approvals, issued>>
              /\ Answer(a, "error")
    /\ UNCHANGED <<now, grants, plans, files, policy, claims, approvalRuns,
                   grantRuns, planRuns, orphans>>

(* A profile mutation asked for in Cloud mode becomes an approval without a  *)
(* rule (execute_mcp_profile_management). The checks on the candidate        *)
(* configuration are not part of this module.                                *)
RequestMutation(a, r, ns) ==
    /\ pc[a] = "idle"
    /\ r \in Mutations
    /\ \E id \in FreshApprovals :
         LET row == create(r, MutationDecision, request_hash(r, files),
                           ns, now)
         IN  /\ approvals' = [approvals EXCEPT ![id] = row]
             /\ issued' = [issued EXCEPT ![id] = row]
    /\ UNCHANGED <<now, grants, plans, files, policy, pc, job, claims,
                   approvalRuns, grantRuns, planRuns, orphans>>

(* PlanPropose: no action may be denied when the plan is proposed. *)
ProposePlan(a, p, task, actions, ns) ==
    /\ plans[p].status = "absent"
    /\ \A i \in 1..Len(actions) :
          policy[actions[i]].effect # "deny" /\ Hashable(actions[i], files)
    /\ \E profile \in Profiles :
         /\ Plannable(actions, profile)
         /\ plans' = [plans EXCEPT ![p] =
                        propose_plan(profile, task, ns, actions,
                                     files, now)]
    /\ UNCHANGED <<now, approvals, grants, files, policy, pc, job, history>>

-----------------------------------------------------------------------------
(* execute_authorized, for agents and humans alike. The operation starts:    *)
(* this is where an upload reads its source (SessionManager::upload).        *)

Execute(w) ==
    /\ pc[w] = "ready"
    /\ LET j == job[w]
       IN  /\ job' = [job EXCEPT ![w].sent =
                        IF j.request \in Uploads THEN files[j.request] ELSE None]
           /\ approvalRuns' = IF j.via = "approval"
                              THEN [approvalRuns EXCEPT ![j.ref] = @ + 1]
                              ELSE approvalRuns
           /\ grantRuns' = IF j.via = "grant"
                           THEN [grantRuns EXCEPT ![j.ref] = @ + 1]
                           ELSE grantRuns
           /\ planRuns' = IF j.via = "plan"
                          THEN [planRuns EXCEPT ![j.ref] = Append(@, j.index)]
                          ELSE planRuns
    /\ Goto(w, "running")
    /\ UNCHANGED <<now, tables, files, policy, issued, claims, orphans>>

(* The operation ends: well, with a result that reports failure, or with an  *)
(* error. execute_enveloped then settles the plan action, or, unless there   *)
(* was an error, looks at the grant again. The caller of a plan action whose *)
(* lease lapsed, or of a use whose grant was cleaned up meanwhile, is told   *)
(* of an error.                                                              *)
AgentFinish(a, outcome) ==
    /\ pc[a] = "running"
    /\ LET j == job[a]
       IN  \/ /\ j.via = "policy"
              /\ Answer(a, outcome)
              /\ UNCHANGED <<grants, plans>>
           \/ /\ j.via = "plan"
              /\ IF HoldsClaim(plans[j.ref], j.index)
                 THEN /\ plans' = finish_plan_action(plans, j.ref, j.index, outcome = "ok")
                      /\ Answer(a, outcome)
                 ELSE /\ UNCHANGED plans
                      /\ Answer(a, "error")
              /\ UNCHANGED grants
           \/ /\ j.via = "grant"
              /\ grants' = IF outcome = "error" THEN grants ELSE expire_grants(grants, now)
              /\ Answer(a, IF grants[j.ref].status = "absent" THEN "error" ELSE outcome)
              /\ UNCHANGED plans
    /\ UNCHANGED <<now, approvals, files, policy, history>>

-----------------------------------------------------------------------------
(* approval approve: the ApprovalApprove arm of execute_authorization_admin  *)

(* show (which expires rows) and the checks made before the claim. *)
ApproveBegin(h, id, want) ==
    /\ pc[h] = "idle"
    /\ approvals' = expire(approvals, now)
    /\ LET row == approvals'[id]
           ok  == /\ row.status # "absent"
                  /\ want # None =>
                        /\ row.request \notin Mutations
                        /\ validate_grant_source(row, want, "pending", None)
       IN  /\ job' = [job EXCEPT ![h] =
                        [NoJob EXCEPT !.via = "approval", !.ref = id, !.want = want,
                                      !.reply = IF ok THEN "none" ELSE "error"]]
           /\ Goto(h, IF ok THEN "claim" ELSE "replied")
    /\ UNCHANGED <<now, grants, plans, files, policy, history>>

(* ApprovalService::claim. A request that no longer hashes to the stored     *)
(* hash leaves the row pending.                                              *)
ApproveClaim(h) ==
    /\ pc[h] = "claim"
    /\ LET id     == job[h].ref
           marked == expire(approvals, now)
           row    == marked[id]
       IN  IF /\ Live(marked, id, now)
              /\ Hashable(row.request, files)
              /\ request_hash(row.request, files) = row.hash
           THEN /\ approvals' = claim(marked, id)
                /\ claims' = claims \cup {id}
                /\ job' = [job EXCEPT ![h] =
                             [@ EXCEPT !.request = row.request, !.hash = row.hash,
                                       !.ns = row.ns,
                                       !.denied = /\ row.request \notin Mutations
                                                  /\ policy[row.request].effect = "deny"]]
                /\ Goto(h, "verify")
           ELSE /\ approvals' = marked
                /\ UNCHANGED claims
                /\ Answer(h, "error")
    /\ UNCHANGED <<now, grants, plans, files, policy, issued, approvalRuns,
                   grantRuns, planRuns, orphans>>

(* The handler gives up and records the failure. *)
FailApproval(h) ==
    /\ approvals' = finish(approvals, job[h].ref, FALSE)
    /\ Answer(h, "failed")

(* The hash is computed once more. A profile mutation then goes straight to  *)
(* its execution, every other request to the policy.                         *)
ApproveVerify(h) ==
    /\ pc[h] = "verify"
    /\ LET r == job[h].request
       IN  IF Hashable(r, files) /\ request_hash(r, files) = job[h].hash
           THEN /\ Goto(h, IF r \in Mutations THEN "audit" ELSE "authorize")
                /\ UNCHANGED <<approvals, job>>
           ELSE FailApproval(h)
    /\ UNCHANGED <<now, grants, plans, files, policy, history>>

\* Mutated form: the policy's answer is not looked at.
AuthorizeUnchecked(h) ==
    /\ pc[h] = "authorize"
    /\ job' = [job EXCEPT ![h].decision = policy[job[h].request]]
    /\ Goto(h, "audit")
    /\ UNCHANGED <<now, tables, files, policy, history>>

\* Mutated form: a denial returns without settling the approval.
AuthorizeForgettingFinish(h) ==
    /\ pc[h] = "authorize"
    /\ IF policy[job[h].request].effect = "deny"
       THEN Answer(h, "denied")
       ELSE /\ job' = [job EXCEPT ![h].decision = policy[job[h].request]]
            /\ Goto(h, "audit")
    /\ UNCHANGED <<now, tables, files, policy, history>>

(* The configuration is loaded again and the policy decides afresh. *)
ApproveAuthorize(h) ==
    /\ pc[h] = "authorize"
    /\ LET decision == policy[job[h].request]
       IN  IF decision.effect = "deny"
           THEN FailApproval(h)
           ELSE /\ job' = [job EXCEPT ![h].decision = decision]
                /\ Goto(h, IF job[h].want # None /\ decision.effect = "confirm"
                           THEN "grant" ELSE "audit")
                /\ UNCHANGED approvals
    /\ UNCHANGED <<now, grants, plans, files, policy, history>>

(* create_from_claimed_approval: the source is validated again, and the      *)
(* INSERT may fail, on the unique index or in the database.                  *)
ApproveGrant(h) ==
    /\ pc[h] = "grant"
    /\ LET id  == job[h].ref
           row == approvals[id]
       IN  \/ /\ validate_grant_source(row, job[h].want, "executing",
                                       job[h].decision.rule_id)
              /\ SourceUnused(grants, id)
              /\ \E g \in FreshGrants :
                   LET new == create_from_status(id, row, job[h].want, now)
                   IN  /\ grants' = [grants EXCEPT ![g] = new]
                       /\ issued' = [issued EXCEPT ![g] = new]
              /\ Goto(h, "audit")
              /\ UNCHANGED <<approvals, job>>
           \/ /\ FailApproval(h)
              /\ UNCHANGED <<grants, issued>>
    /\ UNCHANGED <<now, plans, files, policy, claims, approvalRuns, grantRuns,
                   planRuns, orphans>>

(* The handler shows the row for the audit log, which expires other rows.    *)
ApproveAudit(h) ==
    /\ pc[h] = "audit"
    /\ approvals' = expire(approvals, now)
    /\ Goto(h, "ready")
    /\ UNCHANGED <<now, grants, plans, files, policy, job, history>>

(* The operation ends and its outcome is recorded. *)
ApproveFinish(h, ok) ==
    /\ pc[h] = "running"
    /\ approvals' = finish(approvals, job[h].ref, ok)
    /\ job' = [job EXCEPT ![h].reply = IF ok THEN "executed" ELSE "failed"]
    /\ Goto(h, "report")
    /\ UNCHANGED <<now, grants, plans, files, policy, history>>

(* The handler shows the row for the audit log; if a cleanup has removed it, *)
(* the human is told of an error.                                            *)
ApproveReport(h) ==
    /\ pc[h] = "report"
    /\ approvals' = expire(approvals, now)
    /\ Answer(h, IF approvals[job[h].ref].status = "absent"
                 THEN "error" ELSE job[h].reply)
    /\ UNCHANGED <<now, grants, plans, files, policy, history>>

-----------------------------------------------------------------------------
(* Administration by the human: one statement each                           *)

RejectApproval(id) ==
    /\ Live(approvals, id, now)
    /\ approvals' = reject(expire(approvals, now), id)
    /\ UNCHANGED <<now, grants, plans, files, policy, pc, job, history>>

CleanupApprovals ==
    /\ approvals' = cleanup(approvals, now)
    /\ UNCHANGED <<now, grants, plans, files, policy, pc, job, history>>

(* ApprovalList, ApprovalShow, and an ApprovalReject that is refused. *)
ListApprovals ==
    /\ approvals' = expire(approvals, now)
    /\ UNCHANGED <<now, grants, plans, files, policy, pc, job, history>>

RevokeGrant(g) ==
    /\ grants[g].status = "active"
    /\ grants' = revoke(grants, g)
    /\ UNCHANGED <<now, approvals, plans, files, policy, pc, job, history>>

CleanupGrants ==
    /\ grants' = cleanup_grants(grants, now)
    /\ UNCHANGED <<now, approvals, plans, files, policy, pc, job, history>>

(* GrantList, GrantShow. *)
ListGrants ==
    /\ grants' = expire_grants(grants, now)
    /\ UNCHANGED <<now, approvals, plans, files, policy, pc, job, history>>

ApprovePlan(p) ==
    /\ plans[p].status = "pending"
    /\ plans[p].expires_at > now
    /\ plans' = approve_plan(expire_plans(plans, now), p)
    /\ UNCHANGED <<now, approvals, grants, files, policy, pc, job, history>>

(* Unlike ApprovePlan, this neither expires plans nor looks at expires_at.   *)
RejectPlan(p) ==
    /\ plans[p].status = "pending"
    /\ plans' = reject_plan(plans, p)
    /\ UNCHANGED <<now, approvals, grants, files, policy, pc, job, history>>

(* PlanList, PlanShow, and a PlanApprove that is refused. *)
ListPlans ==
    /\ plans' = expire_plans(plans, now)
    /\ UNCHANGED <<now, approvals, grants, files, policy, pc, job, history>>

-----------------------------------------------------------------------------

(* The reply reaches the caller and the handler is free. *)
Deliver(w) ==
    /\ pc[w] = "replied"
    /\ Goto(w, "idle")
    /\ job' = [job EXCEPT ![w] = NoJob]
    /\ UNCHANGED <<now, tables, files, policy, history>>

\* What the handler has claimed and not settled yet.
Holding(w) ==
    IF \/ job[w].via = "approval" /\ pc[w] \in {"verify", "authorize", "grant",
                                                "audit", "ready", "running"}
       \/ job[w].via = "plan" /\ pc[w] \in {"ready", "running"}
    THEN {job[w].ref} ELSE {}

(* The `?` on a statement of the database, or on the reload of the           *)
(* configuration: the handler returns the error and undoes nothing. SQLite   *)
(* may refuse any statement (busy, and for the deferred transaction of       *)
(* claim also a stale snapshot). An agent's statements end with the claim of *)
(* its authority and resume when the operation is over; a human's handler    *)
(* also reloads the configuration and shows the approval before it runs it.  *)
StorageFails(w) ==
    /\ \/ pc[w] \in {"claim_plan", "consume", "create", "claim", "running", "report"}
       \/ w \in Humans /\ pc[w] \in {"verify", "authorize", "grant", "audit"}
    /\ Answer(w, "error")
    /\ orphans' = orphans \cup Holding(w)
    /\ UNCHANGED <<now, tables, files, policy, issued, claims, approvalRuns,
                   grantRuns, planRuns>>

(* The process dies, or the transport drops the request's future: the        *)
(* handler goes no further.                                                  *)
Crash(w) ==
    /\ pc[w] \notin {"idle", "replied"}
    /\ Goto(w, "idle")
    /\ job' = [job EXCEPT ![w] = NoJob]
    /\ orphans' = orphans \cup Holding(w)
    /\ UNCHANGED <<now, tables, files, policy, issued, claims, approvalRuns,
                   grantRuns, planRuns>>

AgentStep(a) ==
    \/ \E r \in Requests, task \in Maybe(Tasks), ns \in Namespaces : Submit(a, r, task, ns)
    \/ ClaimPlan(a) \/ Consume(a) \/ CreateApproval(a)
    \/ \E r \in Requests, ns \in Namespaces : RequestMutation(a, r, ns)
    \/ \E p \in PlanIds, task \in Tasks, actions \in PlanShapes, ns \in Namespaces :
          ProposePlan(a, p, task, actions, ns)
    \/ \E outcome \in {"ok", "failed", "error"} : AgentFinish(a, outcome)

HumanStep(h) ==
    \/ \E id \in ApprovalIds, want \in Maybe(WantedGrants) : ApproveBegin(h, id, want)
    \/ ApproveClaim(h) \/ ApproveVerify(h) \/ ApproveAuthorize(h)
    \/ ApproveGrant(h) \/ ApproveAudit(h) \/ ApproveReport(h)
    \/ \E ok \in BOOLEAN : ApproveFinish(h, ok)

AdminStep ==
    \/ \E id \in ApprovalIds : RejectApproval(id)
    \/ \E g \in GrantIds : RevokeGrant(g)
    \/ \E p \in PlanIds : ApprovePlan(p) \/ RejectPlan(p)
    \/ CleanupApprovals \/ ListApprovals
    \/ CleanupGrants \/ ListGrants
    \/ ListPlans

EnvironmentStep ==
    \/ Tick
    \/ \E r \in Uploads, contents \in Maybe(Contents) : EditFile(r, contents)
    \/ \E new \in Policies : EditPolicy(new)

Next ==
    \/ \E a \in Agents : AgentStep(a)
    \/ \E h \in Humans : HumanStep(h)
    \/ AdminStep
    \/ \E w \in Handlers : 
          Execute(w) \/ Deliver(w) \/ StorageFails(w) \/ Crash(w)
    \/ EnvironmentStep

Spec == Init /\ [][Next]_vars

-----------------------------------------------------------------------------
(* What the flows promise                                                    *)

\* An approval runs its request at most once, whatever handlers, crashes and
\* cleanups do (approval.md: "executes the frozen request once"), and never
\* once it has been rejected or has expired.
ApprovalRunsOnce ==
    \A id \in ApprovalIds :
        /\ approvalRuns[id] =< 1
        /\ approvalRuns[id] = 1 =>
              approvals[id].status \in {"executing", "executed", "failed", "absent"}

\* A claimed approval and a claimed plan action belong to one handler, also
\* when a lease lapses under a slow handler or its holder has died.
SoleHolder ==
    \A v, w \in Handlers : v # w => Holding(v) \cap Holding(w) = {}

\* Operations started or about to start under a grant never exceed the limit it
\* was created with: consumption is atomic, and neither cleanup, revocation
\* nor expiry gives a use back.
GrantBudget ==
    \A g \in GrantIds :
        LET waiting == {a \in Agents : /\ pc[a] = "ready"
                                       /\ job[a].via = "grant"
                                       /\ job[a].ref = g}
        IN  issued[g] # None =>
                grantRuns[g] + Cardinality(waiting) =< issued[g].max_uses

\* A plan's actions start in their order, each once, and none starts before
\* all earlier ones have succeeded.
PlanInOrder ==
    \A p \in PlanIds :
        /\ \A i \in 1..Len(planRuns[p]) : planRuns[p][i] = i - 1
        /\ Len(planRuns[p]) =< plans[p].next_index + 1

\* The authority a handler runs under covers its request: a policy that allows
\* it; a grant of the same profile, namespace, task and rule that goes back to
\* an approval a human claimed under that rule, at a risk level open to grants;
\* the claimed action of a plan; or the approval itself, in the namespace of
\* the agent that asked.
AuthorityCoversRequest ==
    \A w \in Handlers : pc[w] \in {"ready", "running"} =>
        LET j == job[w]
        IN  \/ j.via = "policy" /\ j.decision.effect = "allow"
            \/ /\ j.via = "grant"
               /\ j.decision.effect = "confirm"
               /\ LET grant  == issued[j.ref]
                      source == issued[grant.source]
                  IN  /\ grant.source \in claims
                      /\ grant.task \in {None, j.task}
                      /\ risk_permissions(source.risk, grant)
                      /\ {grant.rule_id, source.rule_id} = {j.decision.rule_id}
                      /\ {grant.ns, source.ns} = {j.ns}
                      /\ {grant.profile, ProfileOf[source.request]} = {ProfileOf[j.request]}
            \/ /\ j.via = "plan"
               /\ plans[j.ref].task = j.task
               /\ plans[j.ref].ns = j.ns
               /\ plans[j.ref].actions[j.index + 1] = j.request
            \/ /\ j.via = "approval"
               /\ j.ref \in claims
               /\ issued[j.ref].request = j.request
               /\ issued[j.ref].ns = j.ns

\* A request that the policy has denied ever since its handler took it (for an
\* approval: since the claim) does not run, whoever consented to it before.
DenyIsAbsolute == \A w \in Handlers : pc[w] = "running" => ~job[w].denied

\* An approval or a plan is left in the state executing only by a crash or by an
\* error of the storage or of the configuration, never by an ordinary path of
\* a handler; and such a plan still has a lease that will fail it.
NoStrandedClaim ==
    LET held == UNION {Holding(w) : w \in Handlers}
    IN  /\ \A id \in ApprovalIds :
              approvals[id].status = "executing" => id \in held \cup orphans
        /\ \A p \in PlanIds :
              plans[p].status = "executing" =>
                  /\ p \in held \cup orphans
                  /\ plans[p].claim_expires_at # None

\* What callers are told: a human who reads "executed" or "failed" reads what
\* the table recorded, an agent that reads "ok" for a plan action knows the
\* plan has moved past it.
RepliesTruthful ==
    \A w \in Handlers : pc[w] = "replied" =>
        LET j == job[w]
        IN  /\ j.reply = "executed" =>
                  /\ approvalRuns[j.ref] = 1
                  /\ approvals[j.ref].status \in {"executed", "absent"}
            /\ (j.via = "approval" /\ j.reply = "failed") =>
                  approvals[j.ref].status \in {"failed", "absent"}
            /\ (j.via = "plan" /\ j.reply = "ok") => plans[j.ref].next_index > j.index

\* Consent is taken up in time: an approval is claimed, and a use of a grant is
\* consumed, before the deadline it was issued with.
ConsentInTime ==
    [][/\ \A id \in claims' \ claims : now < issued[id].expires_at
       /\ \A g \in GrantIds : grants'[g].used_count > grants[g].used_count =>
                                  now < issued[g].expires_at]_vars

\* What approval.md says of uploads: an approved upload sends the bytes that
\* were approved ("a changed source is rejected").
UploadSendsApprovedBytes ==
    \A w \in Handlers :
        (pc[w] = "running" /\ job[w].via = "approval" /\ job[w].request \in Uploads)
            => job[w].sent \in {None, job[w].hash[2]}

(* Each approval is a one-shot consent. *)
ConsentState(id) ==
    IF issued[id] = None THEN "unasked"
    ELSE IF approvals[id].status = "pending" THEN "asked"
    ELSE IF approvals[id].status = "executing" THEN "taken"
    ELSE "closed"

Consent == INSTANCE OneShotConsent WITH
    Ids <- ApprovalIds,
    state <- [id \in ApprovalIds |-> ConsentState(id)],
    runs <- approvalRuns

\* The approval flow implements the abstract one-shot consent.
ImplementsOneShotConsent == Consent!Spec

-----------------------------------------------------------------------------
(* The inductive invariant behind ApprovalRunsOnce, SoleHolder, PlanInOrder  *)
(* and NoStrandedClaim, in named parts                                       *)

\* Where a human's handler holds the approval it claimed, and where an agent's
\* handler holds the authority it runs under.
Claimed == {"verify", "authorize", "grant", "audit", "ready", "running"}
Acting == {"ready", "running"}

\* Each kind of handler stays on its own path, and its local variables are set
\* by the time they are read.
AgentShape(label, j) ==
    /\ label \in {"idle", "claim_plan", "consume", "create", "replied"} \cup Acting
    /\ label = "idle" => j = NoJob
    /\ label # "idle" => j.request \in Requests /\ j.ns \in Namespaces
    /\ label \in Acting => j.via \in {"policy", "plan", "grant"}
    /\ j.via # "approval"
    /\ j.via = "plan" => j.ref \in PlanIds
    /\ j.via = "grant" => j.ref \in GrantIds

HumanShape(label, j) ==
    /\ label \in {"idle", "claim", "report", "replied"} \cup Claimed
    /\ label = "idle" => j = NoJob
    /\ label # "idle" => j.via = "approval" /\ j.ref \in ApprovalIds
    /\ label \in Claimed => j.request \in Requests
    /\ label = "grant" => j.want # None

JobShape ==
    /\ \A a \in Agents : AgentShape(pc[a], job[a])
    /\ \A h \in Humans : HumanShape(pc[h], job[h])

\* A row that exists was issued, with a request.
RowShape ==
    \A id \in ApprovalIds :
        approvals[id].status # "absent" =>
            approvals[id].request \in Requests /\ issued[id] # None

\* A claimed approval is executing, and one handler's.
ClaimInv ==
    /\ \A h \in Humans : pc[h] \in Claimed => approvals[job[h].ref].status = "executing"
    /\ \A g, h \in Humans :
          (g # h /\ pc[g] \in Claimed /\ pc[h] \in Claimed) => job[g].ref # job[h].ref

\* An approval has not run before it is claimed, nor while its handler is still
\* checking it.
RunInv ==
    /\ \A id \in ApprovalIds :
          /\ approvalRuns[id] \in {0, 1}
          /\ (issued[id] = None \/ approvals[id].status \in {"pending", "rejected", "expired"})
                => approvalRuns[id] = 0
    /\ \A h \in Humans :
          pc[h] \in Claimed \ {"running"} => approvalRuns[job[h].ref] = 0

\* The claim columns of a plan are set while it executes, and only then; a plan
\* that was never proposed has no columns set.
PlanRowInv ==
    \A p \in PlanIds :
        LET row == plans[p]
        IN  /\ row.status = "absent" => row = NoPlan
            /\ row.status = "executing" =>
                  row.claimed_index = row.next_index /\ row.claim_expires_at # None
            /\ row.status # "executing" => row.claimed_index = None

\* An agent's handler that runs, or is about to run, an action it claimed.
ActsOnPlan(a) == pc[a] \in Acting /\ job[a].via = "plan"

\* A plan action that a handler holds is the plan's next one; the plan is
\* executing it, or has failed because the lease lapsed.
PlanClaimInv ==
    /\ \A a \in Agents : ActsOnPlan(a) =>
          /\ plans[job[a].ref].status \in {"executing", "failed"}
          /\ job[a].index = plans[job[a].ref].next_index
    /\ \A a, b \in Agents :
          (a # b /\ ActsOnPlan(a) /\ ActsOnPlan(b)) => job[a].ref # job[b].ref

\* The actions started are the first ones, and all but the last have succeeded;
\* only an action that is claimed, or was, can be one ahead of next_index.
PlanRunInv ==
    /\ \A p \in PlanIds :
          /\ \A i \in 1..Len(planRuns[p]) : planRuns[p][i] = i - 1
          /\ Len(planRuns[p]) =< plans[p].next_index + 1
          /\ plans[p].next_index =< Len(planRuns[p])
          /\ plans[p].status \notin {"executing", "failed"} =>
                Len(planRuns[p]) = plans[p].next_index
    /\ \A a \in Agents : ActsOnPlan(a) =>
          Len(planRuns[job[a].ref]) = IF pc[a] = "ready" THEN job[a].index
                                                         ELSE job[a].index + 1

=============================================================================
