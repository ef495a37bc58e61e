------------------------- MODULE AuthorizationProofs -------------------------
(***************************************************************************)
(* Theorems about Authorization, for every value of its constants. First   *)
(* the types of the tables and of the local variables, the base of every   *)
(* other proof; then the approval, which runs its request at most once,    *)
(* for any number of handlers, rows and policies.                          *)
(*                                                                         *)
(* The inductive invariant is ClaimInv /\ RunInv: a handler between its    *)
(* claim and its finish finds its row executing and shares it with no      *)
(* other, and a row whose claim is still ahead, or whose handler is still  *)
(* checking, has not run. All actions but two are quiet: they take no      *)
(* handler into the claimed section, leave the claimed rows executing and  *)
(* bring no row back to an unclaimed state. The two are the claim, which   *)
(* finds its row pending, and Execute.                                     *)
(*                                                                         *)
(* With that, the flow implements OneShotConsent under the mapping of      *)
(* Authorization (ConsentState).                                           *)
(***************************************************************************)
EXTENDS Authorization, TLAPS

USE DEF Maybe

-----------------------------------------------------------------------------
(* The tables' operators map tables to tables.                               *)

\* What request_hash computes is a hash, also of an unreadable source.
LEMMA HashType ==
    ASSUME NEW r \in Requests, NEW f \in Files
    PROVE  request_hash(r, f) \in Hashes
BY DEF request_hash, Files, Hashes

\* Every statement on the approvals table keeps the types of its rows.
LEMMA ApprovalTypes ==
    ASSUME NEW table \in ApprovalTables, NEW t \in Nat
    PROVE  /\ expire(table, t) \in ApprovalTables
           /\ cleanup(table, t) \in ApprovalTables
           /\ \A id \in ApprovalIds :
                /\ claim(table, id) \in ApprovalTables
                /\ reject(table, id) \in ApprovalTables
                /\ \A ok \in BOOLEAN : finish(table, id, ok) \in ApprovalTables
<1>1. expire(table, t) \in ApprovalTables
  BY DEF expire, ApprovalTables, ApprovalRow, OpenApproval, SettledApproval
<1>2. NoApproval \in ApprovalRow
  BY DEF NoApproval, ApprovalRow
<1>3. cleanup(table, t) \in ApprovalTables
  BY <1>1, <1>2 DEF cleanup, ApprovalTables
<1>4. ASSUME NEW id \in ApprovalIds
      PROVE  /\ claim(table, id) \in ApprovalTables
             /\ reject(table, id) \in ApprovalTables
             /\ \A ok \in BOOLEAN : finish(table, id, ok) \in ApprovalTables
  BY DEF claim, reject, finish, ApprovalTables, ApprovalRow, OpenApproval, SettledApproval
<1> QED BY <1>1, <1>3, <1>4

\* The row ApprovalService::create inserts is well typed.
LEMMA NewApprovalType ==
    ASSUME NEW r \in Requests, NEW d \in Decisions, NEW h \in Hashes,
           NEW ns \in Namespaces, NEW t \in Nat
    PROVE  create(r, d, h, ns, t) \in ApprovalRow
BY ApprovalAssumption DEF create, ApprovalRow, OpenApproval, Decisions

\* Every statement on the grants table keeps the types of its rows: used_count
\* counts up in the naturals and every status is one the schema knows.
LEMMA GrantTypes ==
    ASSUME NEW table \in GrantTables, NEW t \in Nat
    PROVE  /\ expire_grants(table, t) \in GrantTables
           /\ cleanup_grants(table, t) \in GrantTables
           /\ \A g \in GrantIds : /\ consume(table, g) \in GrantTables
                                  /\ revoke(table, g) \in GrantTables
<1>1. expire_grants(table, t) \in GrantTables
  BY DEF expire_grants, GrantTables, GrantRow
<1>2. NoGrant \in GrantRow
  BY DEF NoGrant, GrantRow
<1>3. cleanup_grants(table, t) \in GrantTables
  BY <1>1, <1>2 DEF cleanup_grants, GrantTables
<1>4. ASSUME NEW g \in GrantIds
      PROVE  consume(table, g) \in GrantTables /\ revoke(table, g) \in GrantTables
  <2>1. ASSUME NEW n \in Nat, NEW s \in {"active", "exhausted", "revoked", "expired", "absent"}
        PROVE  [table EXCEPT ![g] = [@ EXCEPT !.used_count = n, !.status = s]] \in GrantTables
    BY ZenonT(60) DEF GrantTables, GrantRow
  <2>2. revoke(table, g) \in GrantTables
    BY DEF revoke, GrantTables, GrantRow
  <2>3. /\ table[g].used_count + 1 \in Nat
        /\ table[g].status \in {"active", "exhausted", "revoked", "expired", "absent"}
    BY DEF GrantTables, GrantRow
  <2> DEFINE n == table[g].used_count + 1
             s == IF n >= table[g].max_uses THEN "exhausted" ELSE table[g].status
  <2>4. consume(table, g) = [table EXCEPT ![g] = [@ EXCEPT !.used_count = n, !.status = s]]
    BY DEF consume
  <2>5. n \in Nat /\ s \in {"active", "exhausted", "revoked", "expired", "absent"}
    BY <2>3
  <2> HIDE DEF n, s
  <2> QED BY <2>1, <2>2, <2>4, <2>5
<1> QED BY <1>1, <1>3, <1>4

\* The row create_from_status inserts is well typed, for an approval that has a
\* request.
LEMMA NewGrantType ==
    ASSUME NEW id \in ApprovalIds, NEW row \in ApprovalRow, row.request \in Requests,
           NEW want \in GrantOptions, NEW t \in Nat
    PROVE  create_from_status(id, row, want, t) \in GrantRow
BY RequestAssumption DEF create_from_status, GrantRow, GrantOptions, ApprovalRow

\* Every statement on the plans table keeps the types of its rows.
LEMMA PlanTypes ==
    ASSUME NEW table \in PlanTables, NEW t \in Nat
    PROVE  /\ expire_plans(table, t) \in PlanTables
           /\ \A p \in PlanIds :
                /\ approve_plan(table, p) \in PlanTables
                /\ reject_plan(table, p) \in PlanTables
                /\ \A r \in Requests : claim_plan_action(table, p, r, t) \in PlanTables
                /\ \A i \in Nat, ok \in BOOLEAN :
                      finish_plan_action(table, p, i, ok) \in PlanTables
<1>1. expire_plans(table, t) \in PlanTables
  <2>1. ASSUME NEW p \in PlanIds
        PROVE  /\ table[p] \in PlanRow
               /\ [table[p] EXCEPT !.status = "expired"] \in PlanRow
               /\ [table[p] EXCEPT !.status = "failed", !.claimed_index = None,
                                   !.claim_expires_at = None] \in PlanRow
    <3>1. table[p] \in PlanRow
      BY DEF PlanTables
    <3>2. [table[p] EXCEPT !.status = "expired"] \in PlanRow
      BY <3>1, SMTT(60) DEF PlanRow
    <3>3. [table[p] EXCEPT !.status = "failed", !.claimed_index = None,
                           !.claim_expires_at = None] \in PlanRow
      BY <3>1, ZenonT(60) DEF PlanRow
    <3> QED BY <3>1, <3>2, <3>3
  <2> QED BY <2>1, Zenon DEF expire_plans, PlanTables
<1>2. ASSUME NEW p \in PlanIds
      PROVE  approve_plan(table, p) \in PlanTables /\ reject_plan(table, p) \in PlanTables
  BY ZenonT(60) DEF approve_plan, reject_plan, PlanTables, PlanRow
<1>3. ASSUME NEW p \in PlanIds, NEW r \in Requests
      PROVE  claim_plan_action(table, p, r, t) \in PlanTables
  <2>1. ASSUME NEW m \in Nat, NEW n \in Nat
        PROVE  [table EXCEPT ![p] = [@ EXCEPT !.status = "executing", !.claimed_index = m,
                                              !.claim_expires_at = n]] \in PlanTables
    BY ZenonT(60) DEF PlanTables, PlanRow
  <2>2. table[p].next_index \in Nat /\ t + Lease[r] \in Nat
    BY PlanAssumption DEF PlanTables, PlanRow
  <2> QED BY <2>1, <2>2 DEF claim_plan_action
<1>4. ASSUME NEW p \in PlanIds, NEW i \in Nat, NEW ok \in BOOLEAN
      PROVE  finish_plan_action(table, p, i, ok) \in PlanTables
  <2>1. ASSUME NEW s \in {"failed", "completed", "approved"}, NEW n \in Nat
        PROVE  [table EXCEPT ![p] = [@ EXCEPT !.status = s, !.next_index = n,
                                              !.claimed_index = None,
                                              !.claim_expires_at = None]] \in PlanTables
    BY ZenonT(60) DEF PlanTables, PlanRow
  <2> DEFINE s == IF ~ok THEN "failed"
                  ELSE IF i + 1 >= Len(table[p].actions) THEN "completed" ELSE "approved"
             n == IF ok THEN table[p].next_index + 1 ELSE table[p].next_index
  <2>2. finish_plan_action(table, p, i, ok) =
            [table EXCEPT ![p] = [@ EXCEPT !.status = s, !.next_index = n,
                                           !.claimed_index = None,
                                           !.claim_expires_at = None]]
    BY DEF finish_plan_action
  <2>3. s \in {"failed", "completed", "approved"} /\ n \in Nat
    BY DEF PlanTables, PlanRow
  <2> HIDE DEF n, s
  <2>4. [table EXCEPT ![p] = [@ EXCEPT !.status = s, !.next_index = n,
                                       !.claimed_index = None,
                                       !.claim_expires_at = None]] \in PlanTables
    BY <2>1, <2>3, Zenon
  <2> QED BY <2>2, <2>4, Zenon
<1> QED BY <1>1, <1>2, <1>3, <1>4

\* The row propose_plan inserts is well typed.
LEMMA NewPlanType ==
    ASSUME NEW profile \in Profiles, NEW task \in Tasks, NEW ns \in Namespaces,
           NEW actions \in Seq(Requests), NEW f \in Files, NEW t \in Nat
    PROVE  propose_plan(profile, task, ns, actions, f, t) \in PlanRow
<1>1. plan_hash(actions, f) \in Seq(Hashes)
  BY HashType DEF plan_hash
<1> QED BY <1>1, PlanAssumption DEF propose_plan, PlanRow

-----------------------------------------------------------------------------
(* TypeOK rests on the shape of the handlers' local variables and of the     *)
(* rows: a handler reads a request it has loaded, a row it knows to exist.   *)

Shape == TypeOK /\ JobShape /\ RowShape

\* A handler's step that leaves it in the shape of its new label preserves the
\* types and shapes of all handlers.
LEMMA LocalStep ==
    ASSUME TypeOK, JobShape, NEW w \in Handlers, NEW l \in Labels, NEW j \in Jobs,
           pc' = [pc EXCEPT ![w] = l], job' = [job EXCEPT ![w] = j],
           w \in Agents => AgentShape(l, j),
           w \in Humans => HumanShape(l, j)
    PROVE  /\ pc' \in [Handlers -> Labels]
           /\ job' \in [Handlers -> Jobs]
           /\ JobShape'
<1>1. /\ pc' \in [Handlers -> Labels]
      /\ job' \in [Handlers -> Jobs]
  BY DEF TypeOK
<1>2. \A v \in Handlers : /\ pc'[v] = IF v = w THEN l ELSE pc[v]
                          /\ job'[v] = IF v = w THEN j ELSE job[v]
  BY DEF TypeOK
<1>3. ASSUME NEW a \in Agents
      PROVE  AgentShape(pc'[a], job'[a])
  BY <1>2 DEF Handlers, JobShape
<1>4. ASSUME NEW h \in Humans
      PROVE  HumanShape(pc'[h], job'[h])
  BY <1>2 DEF Handlers, JobShape
<1> QED BY <1>1, <1>3, <1>4 DEF JobShape

\* The updates of a handler's local variables keep them typed.
LEMMA JobTypes ==
    ASSUME NEW j \in Jobs
    PROVE  /\ NoJob \in Jobs
           /\ \A x \in Replies : [j EXCEPT !.reply = x] \in Jobs
           /\ \A x \in {"none", "policy", "plan", "grant", "approval"} :
                 [j EXCEPT !.via = x] \in Jobs
           /\ \A d \in Decisions : [j EXCEPT !.decision = d] \in Jobs
           /\ \A c \in Maybe(Contents) : [j EXCEPT !.sent = c] \in Jobs
<1>1. NoJob \in Jobs
  BY DEF NoJob, NoDecision, Jobs, Decisions, Effects, Replies
<1>2. \A x \in Replies : [j EXCEPT !.reply = x] \in Jobs
  BY DEF Jobs
<1>3. \A x \in {"none", "policy", "plan", "grant", "approval"} : [j EXCEPT !.via = x] \in Jobs
  BY DEF Jobs
<1>4. \A d \in Decisions : [j EXCEPT !.decision = d] \in Jobs
  BY DEF Jobs
<1>5. \A c \in Maybe(Contents) : [j EXCEPT !.sent = c] \in Jobs
  BY DEF Jobs
<1> QED BY <1>1, <1>2, <1>3, <1>4, <1>5

\* A handler that answers keeps its shape.
LEMMA AnswerShape ==
    ASSUME TypeOK, JobShape, NEW w \in Handlers, NEW x \in Replies,
           pc[w] # "idle", Answer(w, x)
    PROVE  /\ pc' \in [Handlers -> Labels]
           /\ job' \in [Handlers -> Jobs]
           /\ JobShape'
<1> DEFINE j == [job[w] EXCEPT !.reply = x]
<1>1. job[w] \in Jobs /\ j \in Jobs
  BY JobTypes DEF TypeOK
<1>2. /\ j.via = job[w].via /\ j.ref = job[w].ref /\ j.request = job[w].request
      /\ j.ns = job[w].ns /\ j.want = job[w].want
  BY <1>1 DEF Jobs
<1>3. pc' = [pc EXCEPT ![w] = "replied"] /\ job' = [job EXCEPT ![w] = j]
  BY DEF Answer, Goto
<1>4. w \in Agents => AgentShape("replied", j)
  BY <1>2 DEF JobShape, AgentShape, Acting
<1>5. w \in Humans => HumanShape("replied", j)
  BY <1>2 DEF JobShape, HumanShape, Claimed
<1>6. "replied" \in Labels
  BY DEF Labels
<1> HIDE DEF j
<1> QED BY <1>1, <1>3, <1>4, <1>5, <1>6, LocalStep

\* EditPolicy touches one field, and nothing else of a handler.
LEMMA DeniedType ==
    ASSUME NEW j \in Jobs, NEW b \in BOOLEAN, NEW k, k = [j EXCEPT !.denied = b]
    PROVE  /\ k \in Jobs
           /\ k.via = j.via /\ k.ref = j.ref /\ k.request = j.request
           /\ k.ns = j.ns /\ k.want = j.want /\ k.index = j.index
           /\ (j = NoJob /\ ~b) => k = NoJob
<1>1. k \in Jobs
  BY DEF Jobs
<1>2. /\ k.via = j.via /\ k.ref = j.ref /\ k.request = j.request
      /\ k.ns = j.ns /\ k.want = j.want /\ k.index = j.index
  BY DEF Jobs
<1>3. ASSUME j = NoJob, ~b PROVE k = NoJob
  <2>1. [NoJob EXCEPT !.denied = NoJob.denied] = NoJob /\ NoJob.denied = FALSE
    BY DEF NoJob
  <2>2. b = FALSE
    BY <1>3
  <2> QED BY <1>3, <2>1, <2>2, Zenon
<1> QED BY <1>1, <1>2, <1>3

\* Expiry changes neither which rows exist nor their requests.
LEMMA ExpireShape ==
    ASSUME NEW table \in ApprovalTables, NEW t \in Nat, NEW id \in ApprovalIds
    PROVE  /\ expire(table, t)[id].request = table[id].request
           /\ expire(table, t)[id].hash = table[id].hash
           /\ expire(table, t)[id].ns = table[id].ns
           /\ expire(table, t)[id].rule_id = table[id].rule_id
           /\ expire(table, t)[id].status =
                 IF table[id].status = "pending" /\ table[id].expires_at =< t
                 THEN "expired" ELSE table[id].status
BY DEF expire, ApprovalTables, ApprovalRow

\* Init establishes the shapes.
LEMMA ShapeInit == Init => Shape
<1> SUFFICES ASSUME Init PROVE Shape
  OBVIOUS
<1>1. NoApproval \in ApprovalRow /\ NoGrant \in GrantRow /\ NoPlan \in PlanRow
  BY DEF NoApproval, ApprovalRow, NoGrant, GrantRow, NoPlan, PlanRow
<1>2. NoJob \in Jobs
  BY DEF NoJob, NoDecision, Jobs, Decisions, Effects, Replies
<1>3. TypeOK
  BY <1>1, <1>2, AuthorizationAssumption
     DEF Init, TypeOK, ApprovalTables, GrantTables, PlanTables, Files, Labels
<1>4. JobShape
  BY DEF Init, JobShape, AgentShape, HumanShape, Handlers, NoJob, Acting, Claimed
<1>5. RowShape
  BY DEF Init, RowShape, NoApproval
<1> QED BY <1>3, <1>4, <1>5 DEF Shape

\* The environment's steps preserve the shapes.
LEMMA ShapeEnvironment ==
    ASSUME Shape, EnvironmentStep
    PROVE  Shape'
<1> USE DEF Shape
<1>1. CASE Tick
  BY <1>1 DEF Tick, TypeOK, tables, history, JobShape, RowShape
<1>2. ASSUME NEW r \in Uploads, NEW c \in Maybe(Contents), EditFile(r, c)
      PROVE  Shape'
  BY <1>2 DEF EditFile, TypeOK, tables, history, JobShape, RowShape, Files
<1>3. ASSUME NEW new \in Policies, EditPolicy(new)
      PROVE  Shape'
  <2> DEFINE d(w) == job[w].denied /\ new[job[w].request].effect = "deny"
  <2>1. \A w \in Handlers : job'[w] = [job[w] EXCEPT !.denied = d(w)]
    BY <1>3 DEF EditPolicy
  <2>2. \A w \in Handlers : job[w] \in Jobs /\ d(w) \in BOOLEAN
    BY DEF TypeOK
  <2> HIDE DEF d
  <2>3. ASSUME NEW w \in Handlers
        PROVE  /\ job'[w] \in Jobs
               /\ job'[w].via = job[w].via /\ job'[w].ref = job[w].ref
               /\ job'[w].request = job[w].request /\ job'[w].ns = job[w].ns
               /\ job'[w].want = job[w].want
               /\ job[w] = NoJob => job'[w] = NoJob
    <3>1. job[w] = NoJob => ~d(w)
      BY DEF d, NoJob
    <3>2. job[w] \in Jobs /\ d(w) \in BOOLEAN /\ job'[w] = [job[w] EXCEPT !.denied = d(w)]
      BY <2>1, <2>2
    <3>3. PICK b \in BOOLEAN : /\ job'[w] = [job[w] EXCEPT !.denied = b]
                               /\ job[w] = NoJob => ~b
      BY <3>1, <3>2, Zenon
    <3>4. PICK k : k = job'[w]
      OBVIOUS
    <3>5. k = [job[w] EXCEPT !.denied = b]
      BY <3>3, <3>4
    <3>6. /\ k \in Jobs
          /\ k.via = job[w].via /\ k.ref = job[w].ref /\ k.request = job[w].request
          /\ k.ns = job[w].ns /\ k.want = job[w].want
          /\ (job[w] = NoJob /\ ~b) => k = NoJob
      BY <3>2, <3>5, DeniedType, ZenonT(60)
    <3> QED BY <3>3, <3>4, <3>6, Zenon
  <2>4. job' \in [Handlers -> Jobs]
    BY <1>3, <2>3 DEF EditPolicy
  <2>5. pc' = pc
    BY <1>3 DEF EditPolicy
  <2>6. JobShape'
    <3>1. ASSUME NEW a \in Agents PROVE AgentShape(pc'[a], job'[a])
      <4>1. a \in Handlers /\ AgentShape(pc[a], job[a])
        BY DEF Handlers, JobShape
      <4> QED BY <4>1, <2>3, <2>5 DEF AgentShape
    <3>2. ASSUME NEW h \in Humans PROVE HumanShape(pc'[h], job'[h])
      <4>1. h \in Handlers /\ HumanShape(pc[h], job[h])
        BY DEF Handlers, JobShape
      <4> QED BY <4>1, <2>3, <2>5 DEF HumanShape
    <3> QED BY <3>1, <3>2 DEF JobShape
  <2>7. policy' \in [Requests -> Decisions]
    BY <1>3, AuthorizationAssumption DEF EditPolicy
  <2> QED BY <1>3, <2>4, <2>6, <2>7 DEF EditPolicy, TypeOK, tables, history, RowShape
<1> QED BY <1>1, <1>2, <1>3 DEF EnvironmentStep

\* Administration preserves the shapes.
LEMMA ShapeAdmin ==
    ASSUME Shape, AdminStep
    PROVE  Shape'
<1> USE DEF Shape
<1>1. /\ approvals' \in ApprovalTables /\ grants' \in GrantTables /\ plans' \in PlanTables
      /\ UNCHANGED <<now, files, policy, pc, job, history>>
  BY ApprovalTypes, GrantTypes, PlanTypes
     DEF AdminStep, RejectApproval, CleanupApprovals, ListApprovals, RevokeGrant,
         CleanupGrants, ListGrants, ApprovePlan, RejectPlan, ListPlans, TypeOK
<1>2. ASSUME NEW id \in ApprovalIds
      PROVE  approvals'[id].status # "absent" =>
                /\ approvals[id].status # "absent"
                /\ approvals'[id].request = approvals[id].request
  <2>1. CASE ListApprovals
    BY <2>1, ExpireShape DEF ListApprovals, TypeOK
  <2>2. CASE CleanupApprovals
    <3>1. NoApproval.status = "absent"
      BY DEF NoApproval
    <3> QED BY <2>2, <3>1, ExpireShape DEF CleanupApprovals, cleanup, TypeOK
  <2>3. ASSUME NEW k \in ApprovalIds, RejectApproval(k)
        PROVE  approvals'[id].status # "absent" =>
                  /\ approvals[id].status # "absent"
                  /\ approvals'[id].request = approvals[id].request
    <3>1. expire(approvals, now) \in ApprovalTables
      BY ApprovalTypes DEF TypeOK
    <3>2. /\ approvals[k].status = "pending"
          /\ approvals' = reject(expire(approvals, now), k)
      BY <2>3 DEF RejectApproval, Live
    <3>3. CASE id = k
      <4>1. approvals'[id].request = expire(approvals, now)[id].request
        BY <3>1, <3>2, <3>3 DEF reject, ApprovalTables, ApprovalRow
      <4> QED BY <3>2, <3>3, <4>1, ExpireShape DEF TypeOK
    <3>4. CASE id # k
      <4>1. approvals'[id] = expire(approvals, now)[id]
        BY <3>1, <3>2, <3>4 DEF reject, ApprovalTables
      <4> QED BY <4>1, ExpireShape, SMTT(60) DEF TypeOK
    <3> QED BY <3>3, <3>4
  <2>4. CASE UNCHANGED approvals
    BY <2>4
  <2> QED BY <2>1, <2>2, <2>3, <2>4
          DEF AdminStep, RevokeGrant, CleanupGrants, ListGrants, ApprovePlan, RejectPlan, ListPlans
<1> QED BY <1>1, <1>2 DEF TypeOK, history, JobShape, RowShape

\* Agents' steps preserve the shapes, one step per action.
LEMMA ShapeAgent ==
    ASSUME Shape, NEW a \in Agents, AgentStep(a)
    PROVE  Shape'
<1> USE DEF Shape
<1>a. a \in Handlers /\ a \notin Humans /\ job[a] \in Jobs /\ AgentShape(pc[a], job[a])
  BY AuthorizationAssumption DEF Handlers, TypeOK, JobShape
<1> DEFINE Local == pc' \in [Handlers -> Labels] /\ job' \in [Handlers -> Jobs] /\ JobShape'
<1>1. ASSUME NEW r \in Requests, NEW task \in Maybe(Tasks),
             NEW ns \in Namespaces, Submit(a, r, task, ns)
      PROVE  Shape'
  <2> DEFINE taken == [NoJob EXCEPT !.request = r, !.ns = ns,
                                    !.task = task, !.decision = policy[r],
                                    !.denied = (policy[r].effect = "deny")]
  <2>1. policy[r] \in Decisions /\ ns \in Namespaces
    BY AuthorizationAssumption DEF TypeOK
  <2>2. ASSUME NEW b \in BOOLEAN
        PROVE  LET t == [NoJob EXCEPT !.request = r, !.ns = ns, !.task = task,
                                      !.decision = policy[r], !.denied = b]
               IN  /\ t \in Jobs
                   /\ t.request = r /\ t.ns = ns /\ t.via = "none"
    BY <2>1 DEF NoJob, Jobs, Replies
  <2>3. (policy[r].effect = "deny") \in BOOLEAN
    OBVIOUS
  <2>4. taken \in Jobs /\ taken.request = r /\ taken.ns = ns /\ taken.via = "none"
    BY <2>2, <2>3, Zenon
  <2> HIDE DEF taken
  <2>6. Local
    <3>1. CASE /\ job' = [job EXCEPT ![a] = [taken EXCEPT !.reply = "denied"]]
               /\ Goto(a, "replied")
      <4> DEFINE j == [taken EXCEPT !.reply = "denied"]
      <4>1. j \in Jobs
        BY <2>4, JobTypes DEF Replies
      <4>2. j.request = r /\ j.ns = ns /\ j.via = "none"
        BY <2>4 DEF Jobs
      <4> HIDE DEF j
      <4>3. AgentShape("replied", j) /\ "replied" \in Labels
        BY <2>1, <4>2 DEF AgentShape, Acting, Labels
      <4> QED BY <1>a, <3>1, <4>1, <4>3, LocalStep DEF Goto, j
    <3>2. CASE /\ job' = [job EXCEPT ![a] = [taken EXCEPT !.via = "policy"]]
               /\ Goto(a, "ready")
      <4> DEFINE j == [taken EXCEPT !.via = "policy"]
      <4>1. j \in Jobs
        BY <2>4, JobTypes
      <4>2. j.request = r /\ j.ns = ns /\ j.via = "policy"
        BY <2>4 DEF Jobs
      <4> HIDE DEF j
      <4>3. AgentShape("ready", j) /\ "ready" \in Labels
        BY <2>1, <4>2 DEF AgentShape, Acting, Labels
      <4> QED BY <1>a, <3>2, <4>1, <4>3, LocalStep DEF Goto, j
    <3>3. CASE /\ job' = [job EXCEPT ![a] = taken]
               /\ Goto(a, "claim_plan")
      <4>1. AgentShape("claim_plan", taken) /\ "claim_plan" \in Labels
        BY <2>1, <2>4 DEF AgentShape, Acting, Labels
      <4> QED BY <1>a, <2>4, <3>3, <4>1, LocalStep DEF Goto
    <3> QED BY <1>1, <3>1, <3>2, <3>3, Zenon DEF Submit, taken
  <2> QED BY <1>1, <2>6 DEF Submit, TypeOK, tables, history, RowShape
<1>2. ASSUME ClaimPlan(a)
      PROVE  Shape'
  <2>1. pc[a] = "claim_plan" /\ job[a].request \in Requests
    BY <1>2, <1>a DEF ClaimPlan, AgentShape
  <2>2. expire_plans(plans, now) \in PlanTables
    BY PlanTypes DEF TypeOK
  <2>3. Local /\ plans' \in PlanTables
    <3>1. CASE /\ plans' \in {plans, expire_plans(plans, now)}
               /\ UNCHANGED job /\ Goto(a, "consume")
      <4>1. AgentShape("consume", job[a]) /\ "consume" \in Labels
        BY <1>a, <2>1 DEF AgentShape, Acting, Labels
      <4>2. job' = [job EXCEPT ![a] = job[a]] /\ pc' = [pc EXCEPT ![a] = "consume"]
        BY <3>1 DEF TypeOK, Goto
      <4>3. plans' \in PlanTables
        BY <2>2, <3>1 DEF TypeOK
      <4> QED BY <1>a, <4>1, <4>2, <4>3, LocalStep
    <3>2. CASE /\ plans' \in {plans, expire_plans(plans, now)}
               /\ job' = [job EXCEPT ![a].via = "policy"] /\ Goto(a, "ready")
      <4> DEFINE j == [job[a] EXCEPT !.via = "policy"]
      <4>1. j \in Jobs
        BY <1>a, JobTypes
      <4>2. j.request = job[a].request /\ j.ns = job[a].ns /\ j.via = "policy"
        BY <1>a DEF Jobs
      <4>3. job' = [job EXCEPT ![a] = j] /\ pc' = [pc EXCEPT ![a] = "ready"]
        BY <3>2 DEF Goto
      <4> HIDE DEF j
      <4>4. AgentShape("ready", j) /\ "ready" \in Labels
        BY <1>a, <2>1, <4>2 DEF AgentShape, Acting, Labels
      <4>5. plans' \in PlanTables
        BY <2>2, <3>2 DEF TypeOK
      <4> QED BY <1>a, <4>1, <4>3, <4>4, <4>5, LocalStep
    <3>3. ASSUME NEW p \in PlanIds,
                 plans' = claim_plan_action(expire_plans(plans, now), p, job[a].request, now),
                 job' = [job EXCEPT ![a] =
                           [@ EXCEPT !.via = "plan", !.ref = p,
                                     !.index = expire_plans(plans, now)[p].next_index,
                                     !.hash = request_hash(job[a].request, files)]],
                 Goto(a, "ready")
          PROVE  Local /\ plans' \in PlanTables
      <4>1. ASSUME NEW n \in Nat, NEW hash \in Hashes
            PROVE  LET j == [job[a] EXCEPT !.via = "plan", !.ref = p, !.index = n, !.hash = hash]
                   IN  /\ j \in Jobs
                       /\ j.request = job[a].request /\ j.ns = job[a].ns
                       /\ j.via = "plan" /\ j.ref = p
        BY <1>a DEF Jobs
      <4>2. expire_plans(plans, now)[p].next_index \in Nat
        BY <2>2 DEF PlanTables, PlanRow
      <4>3. request_hash(job[a].request, files) \in Hashes
        BY <2>1, HashType DEF TypeOK
      <4> DEFINE j == [job[a] EXCEPT !.via = "plan", !.ref = p,
                                     !.index = expire_plans(plans, now)[p].next_index,
                                     !.hash = request_hash(job[a].request, files)]
      <4>4. /\ j \in Jobs
            /\ j.request = job[a].request /\ j.ns = job[a].ns
            /\ j.via = "plan" /\ j.ref = p
        BY <4>1, <4>2, <4>3, Zenon
      <4>5. job' = [job EXCEPT ![a] = j] /\ pc' = [pc EXCEPT ![a] = "ready"]
        BY <3>3, Zenon DEF Goto
      <4> HIDE DEF j
      <4>6. AgentShape("ready", j) /\ "ready" \in Labels
        BY <1>a, <2>1, <4>4 DEF AgentShape, Acting, Labels
      <4>7. plans' \in PlanTables
        BY <2>1, <2>2, <3>3, PlanTypes DEF TypeOK
      <4> QED BY <1>a, <4>4, <4>5, <4>6, <4>7, LocalStep
    <3>4. CASE plans' \in {plans, expire_plans(plans, now)} /\ Answer(a, "error")
      <4>1. plans' \in PlanTables
        BY <2>2, <3>4 DEF TypeOK
      <4> QED BY <1>a, <2>1, <3>4, <4>1, AnswerShape DEF Replies
    <3> QED BY <1>2, <3>1, <3>2, <3>3, <3>4 DEF ClaimPlan, CurrentPlans
  <2> QED BY <1>2, <2>3 DEF ClaimPlan, TypeOK, history, RowShape
<1>3. ASSUME Consume(a)
      PROVE  Shape'
  <2>1. pc[a] = "consume" /\ job[a].request \in Requests
    BY <1>3, <1>a DEF Consume, AgentShape
  <2>2. expire_grants(grants, now) \in GrantTables
    BY GrantTypes DEF TypeOK
  <2>3. Local /\ grants' \in GrantTables
    <3>1. CASE /\ grants' = expire_grants(grants, now)
               /\ UNCHANGED job /\ Goto(a, "create")
      <4>1. AgentShape("create", job[a]) /\ "create" \in Labels
        BY <1>a, <2>1 DEF AgentShape, Acting, Labels
      <4>2. job' = [job EXCEPT ![a] = job[a]] /\ pc' = [pc EXCEPT ![a] = "create"]
        BY <3>1 DEF TypeOK, Goto
      <4> QED BY <1>a, <2>2, <3>1, <4>1, <4>2, LocalStep
    <3>2. ASSUME NEW g \in GrantIds,
                 grants' = consume(expire_grants(grants, now), g),
                 job' = [job EXCEPT ![a] = [@ EXCEPT !.via = "grant", !.ref = g]],
                 Goto(a, "ready")
          PROVE  Local /\ grants' \in GrantTables
      <4> DEFINE j == [job[a] EXCEPT !.via = "grant", !.ref = g]
      <4>1. /\ j \in Jobs
            /\ j.request = job[a].request /\ j.ns = job[a].ns /\ j.via = "grant" /\ j.ref = g
        BY <1>a DEF Jobs
      <4>2. job' = [job EXCEPT ![a] = j] /\ pc' = [pc EXCEPT ![a] = "ready"]
        BY <3>2 DEF Goto
      <4> HIDE DEF j
      <4>3. AgentShape("ready", j) /\ "ready" \in Labels
        BY <1>a, <2>1, <4>1 DEF AgentShape, Acting, Labels
      <4>4. grants' \in GrantTables
        BY <2>2, <3>2, GrantTypes DEF TypeOK
      <4> QED BY <1>a, <4>1, <4>2, <4>3, <4>4, LocalStep
    <3> QED BY <1>3, <3>1, <3>2 DEF Consume, FirstChoice, Usable
  <2> QED BY <1>3, <2>3 DEF Consume, TypeOK, history, RowShape
<1>b. ASSUME NEW id \in ApprovalIds, NEW row \in ApprovalRow, row.request \in Requests,
             approvals' = [approvals EXCEPT ![id] = row],
             issued' = [issued EXCEPT ![id] = row]
      PROVE  /\ approvals' \in ApprovalTables
             /\ issued' \in [ApprovalIds \cup GrantIds -> Maybe(ApprovalRow \cup GrantRow)]
             /\ RowShape'
  <2>1. row # None
    BY ApprovalAssumption
  <2>2. /\ approvals' \in ApprovalTables
        /\ issued' \in [ApprovalIds \cup GrantIds -> Maybe(ApprovalRow \cup GrantRow)]
    BY <1>b DEF TypeOK, ApprovalTables
  <2> QED BY <1>b, <2>1, <2>2 DEF TypeOK, RowShape, ApprovalTables
<1>4. ASSUME CreateApproval(a)
      PROVE  Shape'
  <2>1. /\ pc[a] = "create" /\ job[a].request \in Requests /\ job[a].ns \in Namespaces
        /\ job[a].decision \in Decisions
    BY <1>4, <1>a DEF CreateApproval, AgentShape, Jobs
  <2>2. CASE \E id \in FreshApprovals :
               LET row == create(job[a].request, job[a].decision,
                                 request_hash(job[a].request, files), job[a].ns, now)
               IN  /\ approvals' = [approvals EXCEPT ![id] = row]
                   /\ issued' = [issued EXCEPT ![id] = row]
    <3> DEFINE row == create(job[a].request, job[a].decision,
                             request_hash(job[a].request, files), job[a].ns, now)
    <3>1. row \in ApprovalRow /\ row.request \in Requests
      BY <2>1, HashType, NewApprovalType DEF TypeOK, create
    <3> HIDE DEF row
    <3>2. PICK id \in ApprovalIds : /\ approvals' = [approvals EXCEPT ![id] = row]
                                    /\ issued' = [issued EXCEPT ![id] = row]
      BY <2>2 DEF FreshApprovals, row
    <3>3. /\ approvals' \in ApprovalTables
          /\ issued' \in [ApprovalIds \cup GrantIds -> Maybe(ApprovalRow \cup GrantRow)]
          /\ RowShape'
      BY <1>b, <3>1, <3>2
    <3>4. Local
      BY <1>4, <1>a, <2>1, AnswerShape DEF CreateApproval, Replies
    <3> QED BY <1>4, <3>3, <3>4 DEF CreateApproval, TypeOK
  <2>3. CASE UNCHANGED <<approvals, issued>>
    <3>1. Local
      BY <1>4, <1>a, <2>1, AnswerShape DEF CreateApproval, Replies
    <3> QED BY <1>4, <2>3, <3>1 DEF CreateApproval, TypeOK, RowShape
  <2> QED BY <1>4, <2>2, <2>3 DEF CreateApproval
<1>5. ASSUME NEW r \in Requests, NEW ns \in Namespaces, RequestMutation(a, r, ns)
      PROVE  Shape'
  <2> DEFINE row == create(r, MutationDecision, request_hash(r, files), ns, now)
  <2>1. MutationDecision \in Decisions
    BY DEF MutationDecision, Decisions, Effects, Risks
  <2>2. row \in ApprovalRow /\ row.request \in Requests
    BY <2>1, HashType, NewApprovalType, AuthorizationAssumption DEF TypeOK, create
  <2> HIDE DEF row
  <2>3. PICK id \in ApprovalIds : /\ approvals' = [approvals EXCEPT ![id] = row]
                                  /\ issued' = [issued EXCEPT ![id] = row]
    BY <1>5 DEF RequestMutation, FreshApprovals, row
  <2>4. /\ approvals' \in ApprovalTables
        /\ issued' \in [ApprovalIds \cup GrantIds -> Maybe(ApprovalRow \cup GrantRow)]
        /\ RowShape'
    BY <1>b, <2>2, <2>3
  <2> QED BY <1>5, <2>4 DEF RequestMutation, TypeOK, JobShape
<1>6. ASSUME NEW p \in PlanIds, NEW task \in Tasks, NEW actions \in PlanShapes,
             NEW ns \in Namespaces, ProposePlan(a, p, task, actions, ns)
      PROVE  Shape'
  <2>1. actions \in Seq(Requests) /\ ns \in Namespaces
    BY AuthorizationAssumption
  <2>2. PICK profile \in Profiles :
          plans' = [plans EXCEPT ![p] =
                      propose_plan(profile, task, ns, actions, files, now)]
    BY <1>6 DEF ProposePlan
  <2>3. propose_plan(profile, task, ns, actions, files, now) \in PlanRow
    BY <2>1, NewPlanType DEF TypeOK
  <2>4. plans' \in PlanTables
    BY <2>2, <2>3 DEF PlanTables, TypeOK
  <2> QED BY <1>6, <2>4 DEF ProposePlan, TypeOK, history, JobShape, RowShape
<1>7. ASSUME NEW outcome \in {"ok", "failed", "error"}, AgentFinish(a, outcome)
      PROVE  Shape'
  <2>1. pc[a] = "running" /\ job[a].index \in Nat
    BY <1>7, <1>a DEF AgentFinish, Jobs
  <2>2. PICK x \in Replies : Answer(a, x)
    BY <1>7 DEF AgentFinish, Replies
  <2>3. Local
    BY <1>a, <2>1, <2>2, AnswerShape
  <2>4. grants' \in GrantTables
    BY <1>7, GrantTypes DEF AgentFinish, TypeOK
  <2>5. plans' \in PlanTables
    <3>1. CASE UNCHANGED plans
      BY <3>1 DEF TypeOK
    <3>2. CASE /\ job[a].via = "plan"
               /\ plans' = finish_plan_action(plans, job[a].ref, job[a].index, outcome = "ok")
      <4>1. job[a].ref \in PlanIds /\ (outcome = "ok") \in BOOLEAN
        BY <1>a, <3>2 DEF AgentShape
      <4> QED BY <2>1, <3>2, <4>1, PlanTypes DEF TypeOK
    <3> QED BY <1>7, <3>1, <3>2 DEF AgentFinish
  <2> QED BY <1>7, <2>3, <2>4, <2>5 DEF AgentFinish, TypeOK, history, RowShape
<1> QED BY <1>1, <1>2, <1>3, <1>4, <1>5, <1>6, <1>7 DEF AgentStep

\* Humans' steps preserve the shapes, one step per action.
LEMMA ShapeHuman ==
    ASSUME Shape, NEW h \in Humans, HumanStep(h)
    PROVE  Shape'
<1> USE DEF Shape
<1>a. h \in Handlers /\ h \notin Agents /\ job[h] \in Jobs /\ HumanShape(pc[h], job[h])
  BY AuthorizationAssumption DEF Handlers, TypeOK, JobShape
<1> DEFINE Local == pc' \in [Handlers -> Labels] /\ job' \in [Handlers -> Jobs] /\ JobShape'
<1>b. ASSUME approvals' \in {approvals, expire(approvals, now)}, issued' = issued
      PROVE  approvals' \in ApprovalTables /\ RowShape'
  <2>1. CASE approvals' = approvals
    BY <1>b, <2>1 DEF TypeOK, RowShape
  <2>2. CASE approvals' = expire(approvals, now)
    BY <1>b, <2>2, ApprovalTypes, ExpireShape DEF TypeOK, RowShape
  <2> QED BY <1>b, <2>1, <2>2
<1>c. ASSUME NEW ok \in BOOLEAN, job[h].ref \in ApprovalIds,
             approvals' = finish(approvals, job[h].ref, ok), issued' = issued
      PROVE  approvals' \in ApprovalTables /\ RowShape'
  <2>1. approvals' \in ApprovalTables
    BY <1>c, ApprovalTypes DEF TypeOK
  <2>2. ASSUME NEW id \in ApprovalIds
        PROVE  /\ approvals'[id].request = approvals[id].request
               /\ approvals'[id].status # "absent" => approvals[id].status # "absent"
    BY <1>c DEF finish, TypeOK, ApprovalTables, ApprovalRow
  <2> QED BY <1>c, <2>1, <2>2 DEF RowShape
<1>d. ASSUME FailApproval(h), pc[h] \in Claimed, issued' = issued
      PROVE  Local /\ approvals' \in ApprovalTables /\ RowShape'
  <2>1. job[h].ref \in ApprovalIds /\ pc[h] # "idle"
    BY <1>a, <1>d DEF HumanShape, Claimed
  <2>2. Local
    BY <1>a, <1>d, <2>1, AnswerShape DEF FailApproval, Replies
  <2> QED BY <1>c, <1>d, <2>1, <2>2 DEF FailApproval
<1>e. ASSUME NEW l \in {"authorize", "grant", "audit", "ready"}, pc[h] \in Claimed,
             l = "grant" => job[h].want # None, Goto(h, l), job' = job
      PROVE  Local
  <2>1. HumanShape(l, job[h]) /\ l \in Labels
    BY <1>a, <1>e DEF HumanShape, Claimed, Labels
  <2>2. pc' = [pc EXCEPT ![h] = l] /\ job' = [job EXCEPT ![h] = job[h]]
    BY <1>e DEF Goto, TypeOK
  <2> QED BY <1>a, <2>1, <2>2, LocalStep
<1>1. ASSUME NEW id \in ApprovalIds, NEW want \in Maybe(WantedGrants),
             ApproveBegin(h, id, want)
      PROVE  Shape'
  <2>1. want \in Maybe(GrantOptions)
    BY AuthorizationAssumption
  <2>2. ASSUME NEW x \in {"none", "error"}
        PROVE  LET j == [NoJob EXCEPT !.via = "approval", !.ref = id, !.want = want, !.reply = x]
               IN  j \in Jobs /\ j.via = "approval" /\ j.ref = id
    BY <2>1 DEF NoJob, NoDecision, Jobs, Decisions, Effects, Replies
  <2>3. PICK x \in {"none", "error"}, l \in {"claim", "replied"} :
          /\ job' = [job EXCEPT ![h] = [NoJob EXCEPT !.via = "approval", !.ref = id,
                                                     !.want = want, !.reply = x]]
          /\ pc' = [pc EXCEPT ![h] = l]
    BY <1>1 DEF ApproveBegin, Goto
  <2> DEFINE j == [NoJob EXCEPT !.via = "approval", !.ref = id, !.want = want, !.reply = x]
  <2>4. j \in Jobs /\ j.via = "approval" /\ j.ref = id
    BY <2>2
  <2>5. job' = [job EXCEPT ![h] = j]
    BY <2>3
  <2> HIDE DEF j
  <2>6. HumanShape(l, j) /\ l \in Labels
    BY <2>4 DEF HumanShape, Claimed, Labels
  <2>7. Local
    BY <1>a, <2>3, <2>4, <2>5, <2>6, LocalStep
  <2>8. approvals' \in ApprovalTables /\ RowShape'
    BY <1>1, <1>b DEF ApproveBegin, history
  <2> QED BY <1>1, <2>7, <2>8 DEF ApproveBegin, TypeOK, history
<1>2. ASSUME ApproveClaim(h)
      PROVE  Shape'
  <2> DEFINE id == job[h].ref
             marked == expire(approvals, now)
             row == marked[id]
  <2>1. pc[h] = "claim" /\ id \in ApprovalIds /\ marked \in ApprovalTables /\ issued' = issued
    BY <1>2, <1>a, ApprovalTypes DEF ApproveClaim, HumanShape, TypeOK
  <2>2. CASE /\ Live(marked, id, now)
             /\ approvals' = claim(marked, id)
             /\ claims' = claims \cup {id}
             /\ job' = [job EXCEPT ![h] =
                          [@ EXCEPT !.request = row.request, !.hash = row.hash, !.ns = row.ns,
                                    !.denied = /\ row.request \notin Mutations
                                               /\ policy[row.request].effect = "deny"]]
             /\ Goto(h, "verify")
    <3>1. row \in ApprovalRow /\ row.status = "pending"
      BY <2>1, <2>2 DEF Live, ApprovalTables
    <3>2. row.request \in Requests /\ row.hash \in Maybe(Hashes) /\ row.ns \in Maybe(Namespaces)
      BY <2>1, <3>1, ExpireShape DEF RowShape, TypeOK, ApprovalRow
    <3> DEFINE denied == /\ row.request \notin Mutations
                         /\ policy[row.request].effect = "deny"
               j == [job[h] EXCEPT !.request = row.request, !.hash = row.hash, !.ns = row.ns,
                                   !.denied = denied]
    <3>4. denied \in BOOLEAN
      OBVIOUS
    <3>6. job' = [job EXCEPT ![h] = j] /\ pc' = [pc EXCEPT ![h] = "verify"]
      BY <2>2, Zenon DEF Goto
    <3> HIDE DEF denied, row
    <3>5. j \in Jobs /\ j.request \in Requests /\ j.via = job[h].via /\ j.ref = job[h].ref
      <4>1. PICK r \in Requests, hash \in Maybe(Hashes), ns \in Maybe(Namespaces), b \in BOOLEAN :
               r = row.request /\ hash = row.hash /\ ns = row.ns /\ b = denied
        BY <3>2, <3>4, Zenon
      <4>2. j = [job[h] EXCEPT !.request = r, !.hash = hash, !.ns = ns, !.denied = b]
        BY <4>1, Zenon
      <4> DEFINE k == [job[h] EXCEPT !.request = r, !.hash = hash, !.ns = ns, !.denied = b]
      <4>3. k \in Jobs
        BY <1>a DEF Jobs
      <4>4. k.request = r /\ k.via = job[h].via /\ k.ref = job[h].ref
        BY <1>a DEF Jobs
      <4>5. j = k
        BY <4>2
      <4> HIDE DEF j, k
      <4> QED BY <4>3, <4>4, <4>5
    <3> USE DEF row
    <3> HIDE DEF j
    <3>7. HumanShape("verify", j) /\ "verify" \in Labels
      BY <1>a, <2>1, <3>5 DEF HumanShape, Claimed, Labels
    <3>8. Local
      BY <1>a, <3>5, <3>6, <3>7, LocalStep
    <3>9. approvals' \in ApprovalTables
      BY <2>1, <2>2, ApprovalTypes DEF TypeOK
    <3>10. ASSUME NEW k \in ApprovalIds
           PROVE  /\ approvals'[k].request = marked[k].request
                  /\ approvals'[k].status # "absent" => marked[k].status # "absent"
      BY <2>1, <2>2, <3>1 DEF claim, ApprovalTables, ApprovalRow
    <3>11. RowShape'
      <4> SUFFICES ASSUME NEW k \in ApprovalIds, approvals'[k].status # "absent"
                   PROVE  approvals'[k].request \in Requests /\ issued'[k] # None
        BY DEF RowShape
      <4>1. /\ marked[k].request = approvals[k].request
            /\ marked[k].status # "absent" => approvals[k].status # "absent"
        BY ExpireShape DEF TypeOK
      <4>2. approvals'[k].request = approvals[k].request /\ approvals[k].status # "absent"
        BY <3>10, <4>1
      <4> QED BY <2>1, <4>2 DEF RowShape
    <3>12. claims' \subseteq ApprovalIds
      BY <2>1, <2>2 DEF TypeOK
    <3> QED BY <1>2, <3>8, <3>9, <3>11, <3>12 DEF ApproveClaim, TypeOK
  <2>3. CASE approvals' = marked /\ UNCHANGED claims /\ Answer(h, "error")
    <3>1. Local
      BY <1>a, <2>1, <2>3, AnswerShape DEF Replies
    <3>2. approvals' \in ApprovalTables /\ RowShape'
      BY <1>b, <2>1, <2>3
    <3> QED BY <1>2, <2>3, <3>1, <3>2 DEF ApproveClaim, TypeOK
  <2> QED BY <1>2, <2>2, <2>3, Zenon DEF ApproveClaim
<1>3. ASSUME ApproveVerify(h)
      PROVE  Shape'
  <2>1. pc[h] = "verify" /\ issued' = issued
    BY <1>3 DEF ApproveVerify, history
  <2>2. Local /\ approvals' \in ApprovalTables /\ RowShape'
    BY <1>3, <1>b, <1>d, <1>e, <2>1 DEF ApproveVerify, Claimed
  <2> QED BY <1>3, <2>2 DEF ApproveVerify, TypeOK, history
<1>4. ASSUME ApproveAuthorize(h)
      PROVE  Shape'
  <2> DEFINE decision == policy[job[h].request]
             j == [job[h] EXCEPT !.decision = decision]
  <2>1. pc[h] = "authorize" /\ issued' = issued /\ decision \in Decisions
    BY <1>4, <1>a DEF ApproveAuthorize, history, HumanShape, Claimed, TypeOK
  <2>2. CASE FailApproval(h)
    <3>1. Local /\ approvals' \in ApprovalTables /\ RowShape'
      BY <1>d, <2>1, <2>2 DEF Claimed
    <3> QED BY <1>4, <3>1 DEF ApproveAuthorize, TypeOK, history
  <2>3. ASSUME NEW l \in {"grant", "audit"}, l = "grant" => job[h].want # None,
               pc' = [pc EXCEPT ![h] = l], job' = [job EXCEPT ![h] = j], UNCHANGED approvals
        PROVE  Shape'
    <3>1. j \in Jobs
      BY <1>a, <2>1, JobTypes
    <3>2. /\ j.via = job[h].via /\ j.ref = job[h].ref /\ j.request = job[h].request
          /\ j.want = job[h].want
      BY <1>a DEF Jobs
    <3> HIDE DEF j
    <3>3. HumanShape(l, j) /\ l \in Labels
      BY <1>a, <2>1, <2>3, <3>2 DEF HumanShape, Claimed, Labels
    <3>4. Local
      BY <1>a, <2>3, <3>1, <3>3, LocalStep
    <3> QED BY <1>4, <1>b, <2>1, <2>3, <3>4 DEF ApproveAuthorize, TypeOK, history
  <2> QED BY <1>4, <2>2, <2>3 DEF ApproveAuthorize, Goto
<1>5. ASSUME ApproveGrant(h)
      PROVE  Shape'
  <2>1. pc[h] = "grant" /\ job[h].ref \in ApprovalIds /\ job[h].want \in GrantOptions
    BY <1>5, <1>a DEF ApproveGrant, HumanShape, Claimed, Jobs
  <2> DEFINE row == approvals[job[h].ref]
             new == create_from_status(job[h].ref, row, job[h].want, now)
  <2>2. ASSUME NEW g \in GrantIds, row.status = "executing",
               grants' = [grants EXCEPT ![g] = new], issued' = [issued EXCEPT ![g] = new],
               Goto(h, "audit"), UNCHANGED <<approvals, job>>
        PROVE  Shape'
    <3>1. row \in ApprovalRow /\ row.request \in Requests
      BY <2>1, <2>2 DEF TypeOK, ApprovalTables, RowShape
    <3>2. new \in GrantRow
      BY <2>1, <3>1, NewGrantType DEF TypeOK
    <3> HIDE DEF new
    <3>3. /\ grants' \in GrantTables
          /\ issued' \in [ApprovalIds \cup GrantIds -> Maybe(ApprovalRow \cup GrantRow)]
      BY <2>2, <3>2 DEF TypeOK, GrantTables
    <3>4. RowShape'
      BY <2>2, GrantAssumption DEF RowShape, TypeOK
    <3>5. Local
      BY <1>e, <2>1, <2>2 DEF Claimed
    <3> QED BY <1>5, <2>2, <3>3, <3>4, <3>5 DEF ApproveGrant, TypeOK
  <2>3. CASE FailApproval(h) /\ UNCHANGED <<grants, issued>>
    <3>1. Local /\ approvals' \in ApprovalTables /\ RowShape'
      BY <1>d, <2>1, <2>3 DEF Claimed
    <3> QED BY <1>5, <2>3, <3>1 DEF ApproveGrant, TypeOK
  <2> QED BY <1>5, <2>2, <2>3 DEF ApproveGrant, FreshGrants, validate_grant_source
<1>6. ASSUME NEW ok \in BOOLEAN, ApproveFinish(h, ok)
      PROVE  Shape'
  <2>1. pc[h] = "running" /\ job[h].ref \in ApprovalIds /\ issued' = issued
    BY <1>6, <1>a DEF ApproveFinish, HumanShape, Claimed, history
  <2>2. approvals' \in ApprovalTables /\ RowShape'
    BY <1>6, <1>c, <2>1 DEF ApproveFinish
  <2>3. PICK x \in Replies : /\ job' = [job EXCEPT ![h].reply = x]
                             /\ pc' = [pc EXCEPT ![h] = "report"]
    BY <1>6 DEF ApproveFinish, Goto, Replies
  <2> DEFINE j == [job[h] EXCEPT !.reply = x]
  <2>4. j \in Jobs /\ j.via = job[h].via /\ j.ref = job[h].ref
    BY <1>a, JobTypes DEF Jobs
  <2>5. job' = [job EXCEPT ![h] = j]
    BY <2>3
  <2> HIDE DEF j
  <2>6. HumanShape("report", j) /\ "report" \in Labels
    BY <1>a, <2>1, <2>4 DEF HumanShape, Claimed, Labels
  <2>7. Local
    BY <1>a, <2>3, <2>4, <2>5, <2>6, LocalStep
  <2> QED BY <1>6, <2>2, <2>7 DEF ApproveFinish, TypeOK, history
<1>7. ASSUME ApproveReport(h)
      PROVE  Shape'
  <2>1. pc[h] = "report" /\ issued' = issued /\ job[h].reply \in Replies
    BY <1>7, <1>a DEF ApproveReport, history, Jobs
  <2>2. PICK x \in Replies : Answer(h, x)
    BY <1>7, <2>1 DEF ApproveReport, Replies
  <2>3. Local
    BY <1>a, <2>1, <2>2, AnswerShape
  <2>4. approvals' \in ApprovalTables /\ RowShape'
    BY <1>7, <1>b, <2>1 DEF ApproveReport
  <2> QED BY <1>7, <2>3, <2>4 DEF ApproveReport, TypeOK, history
<1>8. ASSUME ApproveAudit(h)
      PROVE  Shape'
  <2>1. pc[h] = "audit" /\ issued' = issued
    BY <1>8 DEF ApproveAudit, history
  <2>2. Local
    BY <1>8, <1>e, <2>1 DEF ApproveAudit, Claimed
  <2>3. approvals' \in ApprovalTables /\ RowShape'
    BY <1>8, <1>b, <2>1 DEF ApproveAudit
  <2> QED BY <1>8, <2>2, <2>3 DEF ApproveAudit, TypeOK, history
<1> QED BY <1>1, <1>2, <1>3, <1>4, <1>5, <1>6, <1>7, <1>8 DEF HumanStep

\* What every handler may do preserves the shapes, one step per action.
LEMMA ShapeHandler ==
    ASSUME Shape, NEW w \in Handlers,
           Execute(w) \/ Deliver(w) \/ StorageFails(w) \/ Crash(w)
    PROVE  Shape'
<1> USE DEF Shape
<1>a. /\ job[w] \in Jobs
      /\ w \in Agents => AgentShape(pc[w], job[w])
      /\ w \in Humans => HumanShape(pc[w], job[w])
      /\ w \in Agents \/ w \in Humans
  BY DEF Handlers, TypeOK, JobShape
<1> DEFINE Local == pc' \in [Handlers -> Labels] /\ job' \in [Handlers -> Jobs] /\ JobShape'
<1>b. ASSUME Goto(w, "idle"), job' = [job EXCEPT ![w] = NoJob]
      PROVE  Local
  <2>1. NoJob \in Jobs /\ "idle" \in Labels
    BY <1>a, JobTypes DEF Labels
  <2>2. AgentShape("idle", NoJob) /\ HumanShape("idle", NoJob)
    BY DEF AgentShape, HumanShape, NoJob, Acting, Claimed
  <2> QED BY <1>b, <2>1, <2>2, LocalStep DEF Goto
<1>c. Holding(w) \subseteq ApprovalIds \cup PlanIds
  BY <1>a DEF Holding, AgentShape, HumanShape, Acting
<1>1. ASSUME Execute(w)
      PROVE  Shape'
  <2> DEFINE c == IF job[w].request \in Uploads THEN files[job[w].request] ELSE None
             j == [job[w] EXCEPT !.sent = c]
  <2>1. pc[w] = "ready" /\ c \in Maybe(Contents)
    BY <1>1 DEF Execute, TypeOK, Files
  <2>2. job' = [job EXCEPT ![w] = j] /\ pc' = [pc EXCEPT ![w] = "running"]
    BY <1>1 DEF Execute, Goto
  <2> HIDE DEF c
  <2>3. j \in Jobs
    BY <1>a, <2>1, JobTypes
  <2>4. /\ j.via = job[w].via /\ j.ref = job[w].ref /\ j.request = job[w].request
        /\ j.ns = job[w].ns /\ j.want = job[w].want
    BY <1>a DEF Jobs
  <2> HIDE DEF j
  <2>5. /\ w \in Agents => AgentShape("running", j)
        /\ w \in Humans => HumanShape("running", j)
        /\ "running" \in Labels
    BY <1>a, <2>1, <2>4 DEF AgentShape, HumanShape, Acting, Claimed, Labels
  <2>6. Local
    BY <2>2, <2>3, <2>5, LocalStep
  <2>7. /\ job[w].index \in Nat
        /\ job[w].via = "approval" => job[w].ref \in ApprovalIds
        /\ job[w].via = "grant" => job[w].ref \in GrantIds
        /\ job[w].via = "plan" => job[w].ref \in PlanIds
    BY <1>a, <2>1 DEF AgentShape, HumanShape, Acting, Claimed, Jobs
  <2>8. /\ approvalRuns' \in [ApprovalIds -> Nat]
        /\ grantRuns' \in [GrantIds -> Nat]
        /\ planRuns' \in [PlanIds -> Seq(Nat)]
    BY <1>1, <2>7 DEF Execute, TypeOK
  <2> QED BY <1>1, <2>6, <2>8 DEF Execute, TypeOK, tables, RowShape
<1>2. ASSUME Deliver(w)
      PROVE  Shape'
  BY <1>2, <1>b DEF Deliver, TypeOK, tables, history, RowShape
<1>3. ASSUME StorageFails(w)
      PROVE  Shape'
  <2>1. Local
    <3>1. pc[w] # "idle" /\ Answer(w, "error") /\ "error" \in Replies
      BY <1>3 DEF StorageFails, Replies
    <3> QED BY <3>1, AnswerShape
  <2> QED BY <1>3, <1>c, <2>1 DEF StorageFails, TypeOK, tables, RowShape
<1>4. ASSUME Crash(w)
      PROVE  Shape'
  BY <1>4, <1>b, <1>c DEF Crash, TypeOK, tables, RowShape
<1> QED BY <1>1, <1>2, <1>3, <1>4

\* Every step preserves the shapes.
LEMMA ShapeStep ==
    ASSUME Shape, [Next]_vars
    PROVE  Shape'
<1>1. CASE UNCHANGED vars
  BY <1>1 DEF Shape, TypeOK, JobShape, RowShape, vars, tables, history
<1>2. CASE Next
  BY <1>2, ShapeAgent, ShapeHuman, ShapeAdmin, ShapeHandler, ShapeEnvironment DEF Next
<1> QED BY <1>1, <1>2

\* Every state of the authorization flows is well typed and shaped, for any
\* number of handlers, requests, rows and policies.
THEOREM ShapeCorrect == Spec => []Shape
BY ShapeInit, ShapeStep, PTL DEF Spec

\* The type invariant of the tables and of the handlers' local variables.
THEOREM TypeCorrect == Spec => []TypeOK
<1>1. Shape => TypeOK
  BY DEF Shape
<1> QED BY <1>1, ShapeCorrect, PTL

-----------------------------------------------------------------------------
(* The approval                                                              *)

HIDE DEF Maybe

ApprovalInv == ClaimInv /\ RunInv

\* No handler has claimed the approval yet, or ever will.
Unclaimed(id) ==
    issued[id] = None \/ approvals[id].status \in {"pending", "rejected", "expired"}

\* Handlers only leave the claimed section or move ahead in it, and keep their
\* reference.
HumansQuiet ==
    \A h \in Humans : pc'[h] \in Claimed =>
        /\ pc[h] \in Claimed
        /\ job'[h].ref = job[h].ref
        /\ pc[h] = "running" => pc'[h] = "running"

\* Claimed rows stay executing, and no row becomes unclaimed again.
RowsQuiet ==
    /\ \A h \in Humans : pc'[h] \in Claimed => approvals'[job[h].ref].status = "executing"
    /\ \A id \in ApprovalIds : Unclaimed(id)' => Unclaimed(id)
    /\ approvalRuns' = approvalRuns

\* A quiet step preserves the invariant.
LEMMA QuietStep ==
    ASSUME Shape, ApprovalInv, HumansQuiet, RowsQuiet
    PROVE  ApprovalInv'
<1>a. \A h \in Humans : pc[h] \in Claimed => job[h].ref \in ApprovalIds
  BY DEF Shape, JobShape, HumanShape, Claimed
<1>1. ClaimInv'
  BY DEF ApprovalInv, ClaimInv, HumansQuiet, RowsQuiet
<1>2. RunInv'
  <2>1. ASSUME NEW id \in ApprovalIds
        PROVE  /\ approvalRuns'[id] \in {0, 1}
               /\ Unclaimed(id)' => approvalRuns'[id] = 0
    BY DEF ApprovalInv, RunInv, RowsQuiet, Unclaimed
  <2>2. ASSUME NEW h \in Humans, pc'[h] \in Claimed \ {"running"}
        PROVE  approvalRuns'[job'[h].ref] = 0
    BY <2>2 DEF ApprovalInv, RunInv, HumansQuiet, RowsQuiet
  <2> QED BY <2>1, <2>2 DEF RunInv, Unclaimed
<1> QED BY <1>1, <1>2 DEF ApprovalInv

\* Expiry leaves executing rows alone and brings no row back.
LEMMA ExpireQuiet ==
    ASSUME Shape, ApprovalInv,
           approvals' \in {approvals, expire(approvals, now)}, issued' = issued
    PROVE  /\ \A id \in ApprovalIds : approvals[id].status = "executing" =>
                                          approvals'[id].status = "executing"
           /\ \A id \in ApprovalIds : Unclaimed(id)' => Unclaimed(id)
<1>1. CASE approvals' = approvals
  BY <1>1 DEF Unclaimed
<1>2. CASE approvals' = expire(approvals, now)
  BY <1>2, ExpireShape DEF Unclaimed, Shape, TypeOK
<1> QED BY <1>1, <1>2

\* Init establishes the invariant.
LEMMA ApprovalInit == Init => ApprovalInv
BY DEF Init, ApprovalInv, ClaimInv, RunInv, Claimed, Handlers

\* An agent's steps are quiet: they touch no human's handler, and insert an
\* approval only under a fresh id.
LEMMA ApprovalAgent ==
    ASSUME Shape, ApprovalInv, NEW a \in Agents, AgentStep(a)
    PROVE  ApprovalInv'
<1>1. \A h \in Humans : h # a /\ h \in Handlers /\ a \in Handlers
  BY AuthorizationAssumption DEF Handlers
<1>2. \A h \in Humans : pc'[h] = pc[h] /\ job'[h] = job[h]
  BY <1>1 DEF AgentStep, Submit, ClaimPlan, Consume, CreateApproval, RequestMutation,
              ProposePlan, AgentFinish, Answer, Goto, Shape, TypeOK
<1>3. HumansQuiet
  BY <1>2 DEF HumansQuiet
<1>4. approvalRuns' = approvalRuns
  BY DEF AgentStep, Submit, ClaimPlan, Consume, CreateApproval, RequestMutation,
         ProposePlan, AgentFinish, history
<1>5. \A h \in Humans : pc[h] \in Claimed => job[h].ref \in ApprovalIds
  BY DEF Shape, JobShape, HumanShape, Claimed
<1>6. RowsQuiet
  <2>1. CASE approvals' = approvals /\ issued' = issued
    BY <1>2, <1>4, <2>1 DEF RowsQuiet, Unclaimed, ApprovalInv, ClaimInv
  <2>2. ASSUME NEW id \in FreshApprovals, NEW row,
               approvals' = [approvals EXCEPT ![id] = row],
               issued' = [issued EXCEPT ![id] = row]
        PROVE  RowsQuiet
    <3>1. id \in ApprovalIds /\ issued[id] = None /\ approvals[id].status = "absent"
      BY DEF FreshApprovals, Shape, RowShape
    <3>2. \A k \in ApprovalIds \ {id} : approvals'[k] = approvals[k] /\ issued'[k] = issued[k]
      BY <2>2 DEF Shape, TypeOK, ApprovalTables
    <3>3. \A k \in ApprovalIds : Unclaimed(k)' => Unclaimed(k)
      BY <3>1, <3>2 DEF Unclaimed
    <3>4. \A h \in Humans : pc'[h] \in Claimed => approvals'[job[h].ref].status = "executing"
      BY <1>2, <1>5, <3>1, <3>2 DEF ApprovalInv, ClaimInv
    <3> QED BY <1>4, <3>3, <3>4 DEF RowsQuiet
  <2> QED BY <2>1, <2>2 DEF AgentStep, Submit, ClaimPlan, Consume, CreateApproval,
                            RequestMutation, ProposePlan, AgentFinish, tables, history
<1> QED BY <1>3, <1>6, QuietStep

\* Administration is quiet: rejection finds a pending row, cleanup a settled one.
LEMMA ApprovalAdmin ==
    ASSUME Shape, ApprovalInv, AdminStep
    PROVE  ApprovalInv'
<1>1. UNCHANGED <<pc, job, approvalRuns, issued>>
  BY DEF AdminStep, RejectApproval, CleanupApprovals, ListApprovals, RevokeGrant,
         CleanupGrants, ListGrants, ApprovePlan, RejectPlan, ListPlans, history
<1>2. HumansQuiet
  BY <1>1 DEF HumansQuiet
<1>3. /\ \A id \in ApprovalIds : approvals[id].status = "executing" =>
                                     approvals'[id].status = "executing"
      /\ \A id \in ApprovalIds : Unclaimed(id)' => Unclaimed(id)
  <2>1. CASE ListApprovals \/ UNCHANGED approvals
    BY <1>1, <2>1, ExpireQuiet DEF ListApprovals
  <2>2. CASE CleanupApprovals
    <3>1. NoApproval.status = "absent"
      BY DEF NoApproval
    <3> QED BY <1>1, <2>2, <3>1, ExpireShape
            DEF CleanupApprovals, cleanup, SettledApproval, Unclaimed, Shape, TypeOK
  <2>3. ASSUME NEW k \in ApprovalIds, RejectApproval(k)
        PROVE  \A id \in ApprovalIds :
                  /\ approvals[id].status = "executing" => approvals'[id].status = "executing"
                  /\ Unclaimed(id)' => Unclaimed(id)
    <3>1. expire(approvals, now) \in ApprovalTables
      BY ApprovalTypes DEF Shape, TypeOK
    <3>2. approvals[k].status = "pending" /\ approvals' = reject(expire(approvals, now), k)
      BY <2>3 DEF RejectApproval, Live
    <3>3. \A id \in ApprovalIds \ {k} : approvals'[id] = expire(approvals, now)[id]
      BY <3>1, <3>2 DEF reject, ApprovalTables
    <3> QED BY <1>1, <3>2, <3>3, ExpireShape, SMTT(60) DEF Unclaimed, Shape, TypeOK
  <2> QED BY <2>1, <2>2, <2>3
          DEF AdminStep, RevokeGrant, CleanupGrants, ListGrants, ApprovePlan, RejectPlan, ListPlans
<1>4. RowsQuiet
  BY <1>1, <1>3 DEF RowsQuiet, ApprovalInv, ClaimInv, Shape, JobShape, HumanShape, Claimed
<1> QED BY <1>2, <1>4, QuietStep

\* The environment is quiet.
LEMMA ApprovalEnvironment ==
    ASSUME Shape, ApprovalInv, EnvironmentStep
    PROVE  ApprovalInv'
<1>1. UNCHANGED <<pc, approvals, approvalRuns, issued>>
  BY DEF EnvironmentStep, Tick, EditFile, EditPolicy, tables, history
<1>2. \A h \in Humans : job'[h].ref = job[h].ref
  <2>1. CASE UNCHANGED job
    BY <2>1
  <2>2. ASSUME NEW new \in Policies, EditPolicy(new)
        PROVE  \A h \in Humans : job'[h].ref = job[h].ref
    BY <2>2 DEF EditPolicy, Handlers, Shape, TypeOK, Jobs
  <2> QED BY <2>1, <2>2 DEF EnvironmentStep, Tick, EditFile
<1>3. HumansQuiet
  BY <1>1, <1>2 DEF HumansQuiet
<1>4. RowsQuiet
  BY <1>1 DEF RowsQuiet, Unclaimed, ApprovalInv, ClaimInv
<1> QED BY <1>3, <1>4, QuietStep

\* Human steps: all but the claim are quiet, and the claim finds its row pending.
LEMMA ApprovalHuman ==
    ASSUME Shape, ApprovalInv, NEW h \in Humans, HumanStep(h)
    PROVE  ApprovalInv'
<1>a. /\ h \in Handlers /\ job[h] \in Jobs
      /\ \A g \in Humans : g \in Handlers /\ (pc[g] # "idle" => job[g].ref \in ApprovalIds)
      /\ pc \in [Handlers -> Labels] /\ job \in [Handlers -> Jobs]
      /\ approvals \in ApprovalTables
  BY DEF Shape, TypeOK, JobShape, HumanShape, Handlers
<1>b. "idle" \notin Claimed /\ "claim" \notin Claimed /\ "report" \notin Claimed
      /\ "replied" \notin Claimed
  BY DEF Claimed
<1>c. approvalRuns' = approvalRuns
  BY DEF HumanStep, ApproveBegin, ApproveClaim, ApproveVerify, ApproveAuthorize,
         ApproveGrant, ApproveAudit, ApproveFinish, ApproveReport, history
<1>d. \A g \in Humans \ {h} : pc'[g] = pc[g] /\ job'[g] = job[g]
  BY <1>a DEF HumanStep, ApproveBegin, ApproveClaim, ApproveVerify, ApproveAuthorize,
              ApproveGrant, ApproveAudit, ApproveFinish, ApproveReport, FailApproval,
              Answer, Goto
<1>e. ASSUME NEW l, pc' = [pc EXCEPT ![h] = l], l \notin Claimed
      PROVE  HumansQuiet
  BY <1>a, <1>d, <1>e DEF HumansQuiet
<1>f. ASSUME HumansQuiet, approvals' \in {approvals, expire(approvals, now)}, issued' = issued
      PROVE  ApprovalInv'
  <2>1. RowsQuiet
    BY <1>a, <1>b, <1>c, <1>f, ExpireQuiet DEF RowsQuiet, HumansQuiet, ApprovalInv, ClaimInv
  <2> QED BY <1>f, <2>1, QuietStep
<1>g. ASSUME NEW ok \in BOOLEAN, NEW l, pc' = [pc EXCEPT ![h] = l], l \notin Claimed,
             pc[h] \in Claimed, approvals' = finish(approvals, job[h].ref, ok), issued' = issued
      PROVE  ApprovalInv'
  <2>1. HumansQuiet
    BY <1>e, <1>g
  <2>2. /\ approvals[job[h].ref].status = "executing" /\ job[h].ref \in ApprovalIds
        /\ approvals'[job[h].ref].status \in {"executed", "failed"}
        /\ \A id \in ApprovalIds \ {job[h].ref} : approvals'[id] = approvals[id]
    <3>1. approvals[job[h].ref].status = "executing" /\ job[h].ref \in ApprovalIds
      BY <1>a, <1>b, <1>g DEF ApprovalInv, ClaimInv
    <3> QED BY <1>a, <1>g, <3>1 DEF finish, ApprovalTables, ApprovalRow
  <2>3. \A id \in ApprovalIds : Unclaimed(id)' => Unclaimed(id)
    BY <1>g, <2>2 DEF Unclaimed
  <2>4. \A g \in Humans : pc'[g] \in Claimed => approvals'[job[g].ref].status = "executing"
    BY <1>a, <1>b, <1>d, <1>g, <2>2 DEF ApprovalInv, ClaimInv
  <2>5. RowsQuiet
    BY <1>c, <2>3, <2>4 DEF RowsQuiet
  <2> QED BY <2>1, <2>5, QuietStep
<1>h. ASSUME FailApproval(h), pc[h] \in Claimed, issued' = issued
      PROVE  ApprovalInv'
  BY <1>b, <1>g, <1>h DEF FailApproval, Answer, Goto
<1>1. ASSUME NEW id \in ApprovalIds, NEW want \in Maybe(WantedGrants),
             ApproveBegin(h, id, want)
      PROVE  ApprovalInv'
  <2>1. HumansQuiet
    BY <1>1, <1>b, <1>e DEF ApproveBegin, Goto
  <2> QED BY <1>1, <1>f, <2>1 DEF ApproveBegin, history
<1>2. ASSUME ApproveClaim(h)
      PROVE  ApprovalInv'
  <2> DEFINE id == job[h].ref
             marked == expire(approvals, now)
             row == marked[id]
  <2>1. pc[h] = "claim" /\ id \in ApprovalIds /\ issued' = issued
    BY <1>2, <1>a DEF ApproveClaim
  <2>r. ASSUME NEW x, NEW y, NEW z, NEW b,
               job' = [job EXCEPT ![h] = [@ EXCEPT !.request = x, !.hash = y,
                                                   !.ns = z, !.denied = b]]
        PROVE  job'[h].ref = id
    BY <1>a, <2>r DEF Jobs
  <2>2. CASE approvals' = marked /\ Answer(h, "error")
    <3>1. HumansQuiet
      BY <1>b, <1>e, <2>2 DEF Answer, Goto
    <3> QED BY <1>f, <2>1, <2>2, <3>1
  <2>3. CASE /\ Live(marked, id, now)
             /\ approvals' = claim(marked, id)
             /\ job' = [job EXCEPT ![h] =
                          [@ EXCEPT !.request = row.request, !.hash = row.hash, !.ns = row.ns,
                                    !.denied = /\ row.request \notin Mutations
                                               /\ policy[row.request].effect = "deny"]]
             /\ Goto(h, "verify")
    <3>r. job'[h].ref = id
      BY <2>r, <2>3, Zenon
    <3>1. marked \in ApprovalTables
      BY ApprovalTypes DEF Shape, TypeOK
    <3>2. /\ approvals[id].status = "pending"
          /\ approvals'[id].status = "executing"
          /\ \A k \in ApprovalIds \ {id} : approvals'[k] = marked[k]
      BY <2>1, <2>3, <3>1, ExpireShape DEF Live, claim, ApprovalTables, ApprovalRow, Shape, TypeOK
    <3>3. /\ pc'[h] = "verify"
          /\ \A k \in ApprovalIds \ {id} :
                /\ approvals[k].status = "executing" => approvals'[k].status = "executing"
                /\ approvals'[k].status \in {"pending", "rejected", "expired"} =>
                      approvals[k].status \in {"pending", "rejected", "expired"}
      BY <1>a, <2>3, <3>2, ExpireShape, SMTT(60) DEF Goto, Shape, TypeOK
    <3>4. ClaimInv'
      <4>1. ASSUME NEW g \in Humans, pc'[g] \in Claimed
            PROVE  /\ approvals'[job'[g].ref].status = "executing"
                   /\ g # h => job'[g].ref # id
        BY <1>a, <1>b, <1>d, <2>1, <3>r, <3>2, <3>3, <4>1 DEF ApprovalInv, ClaimInv
      <4>2. ASSUME NEW f \in Humans, NEW g \in Humans,
                   f # g, pc'[f] \in Claimed, pc'[g] \in Claimed
            PROVE  job'[f].ref # job'[g].ref
        BY <1>d, <3>r, <4>1, <4>2 DEF ApprovalInv, ClaimInv
      <4> QED BY <4>1, <4>2 DEF ClaimInv
    <3>5. RunInv'
      <4>1. approvalRuns[id] = 0
        BY <2>1, <3>2 DEF ApprovalInv, RunInv
      <4>2. ASSUME NEW k \in ApprovalIds
            PROVE  /\ approvalRuns'[k] \in {0, 1}
                   /\ issued'[k] = None \/ approvals'[k].status \in {"pending", "rejected", "expired"}
                         => approvalRuns'[k] = 0
        BY <1>c, <2>1, <3>2, <3>3, <4>1 DEF ApprovalInv, RunInv
      <4>3. ASSUME NEW g \in Humans, pc'[g] \in Claimed \ {"running"}
            PROVE  approvalRuns'[job'[g].ref] = 0
        BY <1>c, <1>d, <3>r, <4>1, <4>3 DEF ApprovalInv, RunInv
      <4> QED BY <4>2, <4>3 DEF RunInv
    <3> QED BY <3>4, <3>5 DEF ApprovalInv
  <2> QED BY <1>2, <2>2, <2>3, Zenon DEF ApproveClaim
<1>3. ASSUME ApproveVerify(h)
      PROVE  ApprovalInv'
  <2>1. pc[h] \in Claimed /\ pc[h] # "running" /\ issued' = issued
    BY <1>3 DEF ApproveVerify, Claimed, history
  <2>2. CASE FailApproval(h)
    BY <1>h, <2>1, <2>2
  <2>3. CASE UNCHANGED <<approvals, job>>
    BY <1>d, <1>f, <2>1, <2>3 DEF HumansQuiet
  <2> QED BY <1>3, <2>2, <2>3 DEF ApproveVerify
<1>4. ASSUME ApproveAuthorize(h)
      PROVE  ApprovalInv'
  <2>1. pc[h] \in Claimed /\ pc[h] # "running" /\ issued' = issued
    BY <1>4 DEF ApproveAuthorize, Claimed, history
  <2>2. CASE FailApproval(h)
    BY <1>h, <2>1, <2>2
  <2>3. CASE /\ job' = [job EXCEPT ![h].decision = policy[job[h].request]]
             /\ UNCHANGED approvals
    <3>1. job'[h].ref = job[h].ref
      BY <1>a, <2>3 DEF Jobs
    <3> QED BY <1>d, <1>f, <2>1, <2>3, <3>1 DEF HumansQuiet
  <2> QED BY <1>4, <2>2, <2>3 DEF ApproveAuthorize
<1>5. ASSUME ApproveGrant(h)
      PROVE  ApprovalInv'
  <2>1. pc[h] \in Claimed /\ pc[h] # "running"
    BY <1>5 DEF ApproveGrant, Claimed
  <2>2. CASE FailApproval(h) /\ issued' = issued
    BY <1>h, <2>1, <2>2
  <2>3. CASE UNCHANGED <<approvals, job>> /\ \A id \in ApprovalIds : issued'[id] = issued[id]
    <3>1. HumansQuiet
      BY <1>d, <2>1, <2>3 DEF HumansQuiet
    <3>2. RowsQuiet
      BY <1>c, <2>3, <3>1 DEF RowsQuiet, HumansQuiet, Unclaimed, ApprovalInv, ClaimInv
    <3> QED BY <3>1, <3>2, QuietStep
  <2>4. ASSUME NEW g \in GrantIds, NEW new, issued' = [issued EXCEPT ![g] = new]
        PROVE  \A id \in ApprovalIds : issued'[id] = issued[id]
    BY <2>4, GrantAssumption DEF Shape, TypeOK
  <2> QED BY <1>5, <2>2, <2>3, <2>4 DEF ApproveGrant, FreshGrants
<1>6. ASSUME NEW ok \in BOOLEAN, ApproveFinish(h, ok)
      PROVE  ApprovalInv'
  <2>1. pc[h] \in Claimed /\ issued' = issued
    BY <1>6 DEF ApproveFinish, Claimed, history
  <2> QED BY <1>6, <1>b, <1>g, <2>1 DEF ApproveFinish, Goto
<1>7. ASSUME ApproveReport(h)
      PROVE  ApprovalInv'
  <2>1. HumansQuiet
    BY <1>7, <1>b, <1>e DEF ApproveReport, Answer, Goto
  <2> QED BY <1>7, <1>f, <2>1 DEF ApproveReport, history
<1>8. ASSUME ApproveAudit(h)
      PROVE  ApprovalInv'
  <2>1. pc[h] \in Claimed /\ pc[h] # "running" /\ UNCHANGED <<job, issued>>
    BY <1>8 DEF ApproveAudit, Claimed, history
  <2>2. HumansQuiet
    BY <1>d, <2>1 DEF HumansQuiet
  <2> QED BY <1>8, <1>f, <2>1, <2>2 DEF ApproveAudit
<1> QED BY <1>1, <1>2, <1>3, <1>4, <1>5, <1>6, <1>7, <1>8 DEF HumanStep

\* The steps of every handler: the start of an operation under an approval is
\* the one that counts a run, and it finds none counted.
LEMMA ApprovalHandler ==
    ASSUME Shape, ApprovalInv, NEW w \in Handlers,
           Execute(w) \/ Deliver(w) \/ StorageFails(w) \/ Crash(w)
    PROVE  ApprovalInv'
<1>a. /\ job[w] \in Jobs /\ approvals \in ApprovalTables
      /\ pc \in [Handlers -> Labels] /\ job \in [Handlers -> Jobs]
      /\ \A g \in Humans : g \in Handlers /\ (pc[g] # "idle" => job[g].ref \in ApprovalIds)
      /\ w \in Agents => w \notin Humans /\ job[w].via # "approval"
      /\ w \in Humans /\ pc[w] # "idle" => job[w].via = "approval"
      /\ w \in Agents \/ w \in Humans
  BY AuthorizationAssumption
     DEF Shape, TypeOK, JobShape, HumanShape, AgentShape, Handlers
<1>b. \A g \in Humans \ {w} : pc'[g] = pc[g] /\ job'[g] = job[g]
  BY <1>a DEF Execute, Deliver, StorageFails, Crash, Answer, Goto
<1>c. CASE Deliver(w) \/ StorageFails(w) \/ Crash(w)
  <2>1. UNCHANGED <<approvals, issued, approvalRuns>> /\ pc'[w] \in {"idle", "replied"}
    BY <1>a, <1>c DEF Deliver, StorageFails, Crash, Answer, Goto, tables, history
  <2>2. HumansQuiet
    BY <1>b, <2>1 DEF HumansQuiet, Claimed
  <2>3. RowsQuiet
    BY <2>1, <2>2 DEF RowsQuiet, HumansQuiet, Unclaimed, ApprovalInv, ClaimInv
  <2> QED BY <2>2, <2>3, QuietStep
<1>d. CASE Execute(w) /\ w \in Agents
  <2>1. UNCHANGED <<approvals, issued, approvalRuns>>
    BY <1>a, <1>d DEF Execute, tables
  <2>2. HumansQuiet
    BY <1>a, <1>b, <1>d DEF HumansQuiet
  <2>3. RowsQuiet
    BY <2>1, <2>2 DEF RowsQuiet, HumansQuiet, Unclaimed, ApprovalInv, ClaimInv
  <2> QED BY <2>2, <2>3, QuietStep
<1>e. CASE Execute(w) /\ w \in Humans
  <2> DEFINE id == job[w].ref
  <2>1. /\ pc[w] = "ready" /\ pc[w] \in Claimed /\ job[w].via = "approval"
        /\ id \in ApprovalIds /\ UNCHANGED <<approvals, issued>>
        /\ approvalRuns' = [approvalRuns EXCEPT ![id] = @ + 1]
        /\ pc'[w] = "running"
    BY <1>a, <1>e DEF Execute, Claimed, Goto, tables
  <2>2. job'[w].ref = id
    BY <1>a, <1>e DEF Execute, Jobs
  <2>3. /\ approvalRuns[id] = 0 /\ approvals[id].status = "executing"
        /\ \A g \in Humans : (g # w /\ pc[g] \in Claimed) => job[g].ref # id
    BY <1>e, <2>1 DEF ApprovalInv, ClaimInv, RunInv
  <2>4. /\ approvalRuns'[id] = 1
        /\ \A k \in ApprovalIds \ {id} : approvalRuns'[k] = approvalRuns[k]
    BY <2>1, <2>3 DEF Shape, TypeOK
  <2>5. \A k \in ApprovalIds :
           /\ approvals[k].status = "executing" => approvals'[k].status = "executing"
           /\ Unclaimed(k)' => Unclaimed(k)
    BY <2>1, ExpireQuiet
  <2>6. ~Unclaimed(id)
    <3>1. issued[id] # None
      BY <2>1, <2>3 DEF Shape, RowShape
    <3> QED BY <2>3, <3>1 DEF Unclaimed
  <2>7. ClaimInv'
    BY <1>a, <1>b, <2>1, <2>2, <2>3, <2>5 DEF ApprovalInv, ClaimInv, Claimed
  <2>8. RunInv'
    <3>1. ASSUME NEW k \in ApprovalIds
          PROVE  /\ approvalRuns'[k] \in {0, 1}
                 /\ Unclaimed(k)' => approvalRuns'[k] = 0
      BY <2>4, <2>5, <2>6 DEF ApprovalInv, RunInv, Unclaimed
    <3>2. ASSUME NEW g \in Humans, pc'[g] \in Claimed \ {"running"}
          PROVE  approvalRuns'[job'[g].ref] = 0
      BY <1>a, <1>b, <2>1, <2>3, <2>4, <3>2 DEF ApprovalInv, RunInv, Claimed
    <3> QED BY <3>1, <3>2 DEF RunInv, Unclaimed
  <2> QED BY <2>7, <2>8 DEF ApprovalInv
<1> QED BY <1>a, <1>c, <1>d, <1>e

\* ClaimInv and RunInv hold in every reachable state.
THEOREM ApprovalInvCorrect == Spec => []ApprovalInv
<1>1. Shape /\ ApprovalInv /\ [Next]_vars => ApprovalInv'
  <2> SUFFICES ASSUME Shape, ApprovalInv, [Next]_vars PROVE ApprovalInv'
    OBVIOUS
  <2>1. CASE UNCHANGED vars
    BY <2>1 DEF ApprovalInv, ClaimInv, RunInv, vars, tables, history
  <2>2. CASE Next
    BY <2>2, ApprovalAgent, ApprovalHuman, ApprovalAdmin, ApprovalHandler,
       ApprovalEnvironment DEF Next
  <2> QED BY <2>1, <2>2
<1> QED BY <1>1, ApprovalInit, ShapeCorrect, PTL DEF Spec

\* The approval flow's promise, "executes the frozen request once"
\* (approval.md), whatever the number of handlers, crashes and cleanups.
THEOREM RunsOnce == Spec => []ApprovalRunsOnce
<1>1. Shape /\ ApprovalInv => ApprovalRunsOnce
  <2> SUFFICES ASSUME Shape, ApprovalInv, NEW id \in ApprovalIds
               PROVE  /\ approvalRuns[id] =< 1
                      /\ approvalRuns[id] = 1 =>
                            approvals[id].status \in {"executing", "executed", "failed", "absent"}
    BY DEF ApprovalRunsOnce
  <2>1. approvals[id].status \in {"absent", "pending", "executing", "executed", "failed",
                                  "rejected", "expired"}
    BY DEF Shape, TypeOK, ApprovalTables, ApprovalRow, OpenApproval, SettledApproval
  <2> QED BY <2>1 DEF ApprovalInv, RunInv
<1> QED BY <1>1, ShapeCorrect, ApprovalInvCorrect, PTL

-----------------------------------------------------------------------------
(* The refinement of OneShotConsent                                          *)

\* What a step does to an approval is a move of the abstract consent.
Legal(id) ==
    ConsentState(id)' # ConsentState(id) =>
        <<ConsentState(id), ConsentState(id)'>> \in Consent!Moves

\* The same, by the row: an insertion asks for the consent, and once inserted a
\* row leaves "pending" and "executing" for good.
RowMove(id) ==
    \/ issued'[id] = issued[id] /\ approvals'[id].status = approvals[id].status
    \/ issued[id] = None /\ issued'[id] # None /\ approvals'[id].status = "pending"
    \/ /\ issued'[id] = issued[id] /\ issued[id] # None
       /\ \/ approvals[id].status = "pending"
          \/ approvals[id].status = "executing" /\ approvals'[id].status # "pending"
          \/ /\ approvals[id].status \notin {"pending", "executing"}
             /\ approvals'[id].status \notin {"pending", "executing"}

\* Such a change of a row is a move of the abstract consent.
LEMMA RowMoveLegal ==
    ASSUME NEW id \in ApprovalIds, RowMove(id)
    PROVE  Legal(id)
BY DEF RowMove, Legal, ConsentState, Consent!Moves

\* Expiry makes such a change of every row.
LEMMA ExpireMoves ==
    ASSUME Shape, approvals' \in {approvals, expire(approvals, now)}, issued' = issued
    PROVE  \A id \in ApprovalIds : RowMove(id)
<1>1. CASE approvals' = approvals
  BY <1>1 DEF RowMove
<1>2. CASE approvals' = expire(approvals, now)
  BY <1>2, ExpireShape DEF RowMove, Shape, TypeOK, RowShape
<1> QED BY <1>1, <1>2

\* What it marks as expired was issued and pending.
LEMMA ExpireMarks ==
    ASSUME Shape
    PROVE  \A id \in ApprovalIds :
              \/ approvals[id].status = "pending" /\ issued[id] # None
              \/ expire(approvals, now)[id].status = approvals[id].status
<1>1. approvals \in ApprovalTables /\ now \in Nat
  BY DEF Shape, TypeOK
<1>2. \A id \in ApprovalIds :
         \/ approvals[id].status = "pending"
         \/ expire(approvals, now)[id].status = approvals[id].status
  BY <1>1, ExpireShape
<1>3. \A id \in ApprovalIds : approvals[id].status = "pending" => issued[id] # None
  BY DEF Shape, RowShape
<1> QED BY <1>2, <1>3

\* finish does too: it changes only a row that is executing.
LEMMA FinishMoves ==
    ASSUME Shape, NEW id \in ApprovalIds, NEW ok \in BOOLEAN,
           approvals' = finish(approvals, id, ok), issued' = issued
    PROVE  \A k \in ApprovalIds : RowMove(k)
<1>1. \A k \in ApprovalIds \ {id} : approvals'[k].status = approvals[k].status
  BY DEF finish, Shape, TypeOK, ApprovalTables
<1>2. \/ approvals'[id].status = approvals[id].status
      \/ approvals[id].status = "executing" /\ approvals'[id].status \in {"executed", "failed"}
  BY DEF finish, Shape, TypeOK, ApprovalTables, ApprovalRow
<1>3. approvals[id].status = "executing" => issued[id] # None
  BY DEF Shape, RowShape
<1> QED BY <1>1, <1>2, <1>3 DEF RowMove

\* An insertion under a fresh id.
LEMMA InsertMoves ==
    ASSUME Shape, NEW id \in FreshApprovals, NEW row \in ApprovalRow, row.status = "pending",
           approvals' = [approvals EXCEPT ![id] = row], issued' = [issued EXCEPT ![id] = row]
    PROVE  \A k \in ApprovalIds : RowMove(k)
<1>1. id \in ApprovalIds /\ issued[id] = None /\ row # None
  BY ApprovalAssumption DEF FreshApprovals
<1>2. /\ approvals'[id].status = "pending" /\ issued'[id] # None
      /\ \A k \in ApprovalIds \ {id} : approvals'[k] = approvals[k] /\ issued'[k] = issued[k]
  BY <1>1 DEF Shape, TypeOK, ApprovalTables
<1> QED BY <1>1, <1>2 DEF RowMove

\* Every step changes every row that way.
LEMMA StepMoves ==
    ASSUME Shape, ApprovalInv, Next
    PROVE  \A id \in ApprovalIds : RowMove(id)
<1> DEFINE Moves == \A id \in ApprovalIds : RowMove(id)
<1>1. ASSUME NEW a \in Agents, AgentStep(a)
      PROVE  Moves
  <2>a. a \in Handlers /\ job[a] \in Jobs /\ AgentShape(pc[a], job[a])
    BY DEF Handlers, Shape, TypeOK, JobShape
  <2>1. CASE approvals' = approvals /\ issued' = issued
    BY <2>1, ExpireMoves
  <2>2. CASE CreateApproval(a)
    <3> DEFINE row == create(job[a].request, job[a].decision,
                             request_hash(job[a].request, files), job[a].ns, now)
    <3>1. /\ job[a].request \in Requests /\ job[a].ns \in Namespaces
          /\ job[a].decision \in Decisions
      BY <2>2, <2>a DEF CreateApproval, AgentShape, Jobs
    <3>2. row \in ApprovalRow /\ row.status = "pending"
      BY <3>1, HashType, NewApprovalType DEF Shape, TypeOK, create
    <3>3. CASE UNCHANGED <<approvals, issued>>
      BY <2>1, <3>3
    <3>4. ASSUME NEW id \in FreshApprovals, approvals' = [approvals EXCEPT ![id] = row],
                 issued' = [issued EXCEPT ![id] = row]
          PROVE  Moves
      <4> HIDE DEF row
      <4> QED BY <3>2, <3>4, InsertMoves
    <3> QED BY <2>2, <3>3, <3>4 DEF CreateApproval
  <2>3. ASSUME NEW r \in Requests, NEW ns \in Namespaces, RequestMutation(a, r, ns)
        PROVE  Moves
    <3> DEFINE row == create(r, MutationDecision, request_hash(r, files), ns, now)
    <3>1. MutationDecision \in Decisions
      BY DEF MutationDecision, Decisions, Effects, Risks, Maybe
    <3>2. row \in ApprovalRow /\ row.status = "pending"
      BY <2>a, <3>1, HashType, NewApprovalType DEF Shape, TypeOK, create
    <3>3. PICK id \in FreshApprovals : /\ approvals' = [approvals EXCEPT ![id] = row]
                                       /\ issued' = [issued EXCEPT ![id] = row]
      BY <2>3 DEF RequestMutation
    <3> HIDE DEF row
    <3> QED BY <3>2, <3>3, InsertMoves
  <2> QED BY <1>1, <2>1, <2>2, <2>3
          DEF AgentStep, Submit, ClaimPlan, Consume, ProposePlan, AgentFinish, tables, history
<1>2. ASSUME NEW h \in Humans, HumanStep(h)
      PROVE  Moves
  <2>a. pc[h] # "idle" => job[h].ref \in ApprovalIds
    BY DEF Shape, JobShape, HumanShape
  <2>1. CASE approvals' \in {approvals, expire(approvals, now)} /\ issued' = issued
    BY <2>1, ExpireMoves
  <2>2. CASE pc[h] # "idle" /\ FailApproval(h) /\ issued' = issued
    BY <2>2, <2>a, FinishMoves DEF FailApproval
  <2>3. ASSUME NEW ok \in BOOLEAN, ApproveFinish(h, ok)
        PROVE  Moves
    BY <2>3, <2>a, FinishMoves DEF ApproveFinish, history
  <2>4. CASE ApproveClaim(h)
    <3> DEFINE id == job[h].ref
               marked == expire(approvals, now)
    <3>1. id \in ApprovalIds /\ issued' = issued /\ marked \in ApprovalTables
      BY <2>4, <2>a, ApprovalTypes DEF ApproveClaim, Shape, TypeOK
    <3>2. CASE approvals' = marked
      BY <2>1, <3>1, <3>2
    <3>3. CASE Live(marked, id, now) /\ approvals' = claim(marked, id)
      <4>1. /\ approvals[id].status = "pending"
            /\ \A k \in ApprovalIds \ {id} : approvals'[k] = marked[k]
        BY <3>1, <3>3, ExpireShape DEF Live, claim, ApprovalTables, Shape, TypeOK
      <4>2. issued[id] # None
        BY <3>1, <4>1 DEF Shape, RowShape
      <4>3. \A k \in ApprovalIds \ {id} :
               /\ issued'[k] = issued[k]
               /\ \/ approvals'[k].status = approvals[k].status
                  \/ approvals[k].status = "pending" /\ issued[k] # None
        <5>1. \A k \in ApprovalIds :
                 \/ approvals[k].status = "pending" /\ issued[k] # None
                 \/ marked[k].status = approvals[k].status
          BY ExpireMarks
        <5> HIDE DEF marked
        <5> QED BY <3>1, <4>1, <5>1
      <4> QED BY <3>1, <4>1, <4>2, <4>3 DEF RowMove
    <3> QED BY <2>4, <3>2, <3>3 DEF ApproveClaim
  <2>5. CASE ApproveGrant(h)
    <3>1. CASE FailApproval(h) /\ issued' = issued
      BY <2>2, <2>5, <3>1 DEF ApproveGrant
    <3>2. ASSUME UNCHANGED approvals, NEW g \in GrantIds, NEW new,
                 issued' = [issued EXCEPT ![g] = new]
          PROVE  Moves
      <4>1. \A id \in ApprovalIds : issued'[id] = issued[id]
        BY <3>2, GrantAssumption DEF Shape, TypeOK
      <4> QED BY <3>2, <4>1 DEF RowMove
    <3> QED BY <2>5, <3>1, <3>2 DEF ApproveGrant, FreshGrants
  <2> QED BY <1>2, <2>1, <2>2, <2>3, <2>4, <2>5
          DEF HumanStep, ApproveBegin, ApproveVerify, ApproveAuthorize, ApproveAudit, ApproveReport,
              history
<1>3. ASSUME AdminStep
      PROVE  Moves
  <2>1. CASE approvals' \in {approvals, expire(approvals, now)} /\ issued' = issued
    BY <2>1, ExpireMoves
  <2>2. CASE CleanupApprovals
    <3>1. NoApproval.status = "absent"
      BY DEF NoApproval
    <3> QED BY <2>2, <3>1, ExpireShape
            DEF CleanupApprovals, cleanup, SettledApproval, history, RowMove, Shape, TypeOK, RowShape
  <2>3. ASSUME NEW k \in ApprovalIds, RejectApproval(k)
        PROVE  Moves
    <3>1. expire(approvals, now) \in ApprovalTables
      BY ApprovalTypes DEF Shape, TypeOK
    <3>2. /\ approvals[k].status = "pending" /\ issued' = issued
          /\ approvals' = reject(expire(approvals, now), k)
      BY <2>3 DEF RejectApproval, Live, history
    <3>3. \A id \in ApprovalIds \ {k} : approvals'[id] = expire(approvals, now)[id]
      BY <3>1, <3>2 DEF reject, ApprovalTables
    <3>4. \A id \in ApprovalIds :
             \/ approvals[id].status = "pending" /\ issued[id] # None
             \/ expire(approvals, now)[id].status = approvals[id].status
      BY ExpireMarks
    <3>5. issued[k] # None
      BY <3>2 DEF Shape, RowShape
    <3> DEFINE marked == expire(approvals, now)
    <3> HIDE DEF marked
    <3>6. \A id \in ApprovalIds \ {k} : RowMove(id)
      <4>1. \A id \in ApprovalIds \ {k} : approvals'[id] = marked[id]
        BY <3>3 DEF marked
      <4>2. \A id \in ApprovalIds :
               \/ approvals[id].status = "pending" /\ issued[id] # None
               \/ marked[id].status = approvals[id].status
        BY <3>4 DEF marked
      <4> QED BY <3>2, <4>1, <4>2 DEF RowMove
    <3>7. RowMove(k)
      BY <3>2, <3>5 DEF RowMove
    <3> QED BY <3>6, <3>7
  <2> QED BY <1>3, <2>1, <2>2, <2>3
          DEF AdminStep, ListApprovals, RevokeGrant, CleanupGrants, ListGrants, ApprovePlan,
              RejectPlan, ListPlans, history
<1>4. ASSUME NEW w \in Handlers, Execute(w) \/ Deliver(w) \/ StorageFails(w) \/ Crash(w)
      PROVE  Moves
  BY <1>4, ExpireMoves DEF Execute, Deliver, StorageFails, Crash, tables, history
<1>5. ASSUME EnvironmentStep
      PROVE  Moves
  BY <1>5, ExpireMoves DEF EnvironmentStep, Tick, EditFile, EditPolicy, tables, history
<1> QED BY <1>1, <1>2, <1>3, <1>4, <1>5 DEF Next

\* A run is counted by Execute alone, under a consent that is taken and stays so.
LEMMA StepRuns ==
    ASSUME Shape, ApprovalInv, Next
    PROVE  \/ approvalRuns' = approvalRuns
           \/ \E id \in ApprovalIds :
                 /\ approvalRuns[id] = 0
                 /\ approvalRuns' = [approvalRuns EXCEPT ![id] = 1]
                 /\ approvals[id].status = "executing"
                 /\ UNCHANGED <<approvals, issued>>
<1>1. CASE approvalRuns' = approvalRuns
  BY <1>1
<1>2. ASSUME NEW w \in Handlers, Execute(w), job[w].via = "approval"
      PROVE  \E id \in ApprovalIds :
                /\ approvalRuns[id] = 0
                /\ approvalRuns' = [approvalRuns EXCEPT ![id] = 1]
                /\ approvals[id].status = "executing"
                /\ UNCHANGED <<approvals, issued>>
  <2>1. /\ w \in Humans /\ pc[w] = "ready" /\ pc[w] \in Claimed
        /\ job[w].ref \in ApprovalIds
    BY <1>2 DEF Execute, Shape, JobShape, AgentShape, HumanShape, Handlers, Claimed
  <2>2. approvalRuns[job[w].ref] = 0 /\ approvals[job[w].ref].status = "executing"
    BY <2>1 DEF ApprovalInv, ClaimInv, RunInv
  <2>3. approvalRuns' = [approvalRuns EXCEPT ![job[w].ref] = 1] /\ UNCHANGED <<approvals, issued>>
    BY <1>2, <2>2 DEF Execute, tables
  <2> QED BY <2>1, <2>2, <2>3
<1>3. ASSUME NEW w \in Handlers, Execute(w), job[w].via # "approval"
      PROVE  approvalRuns' = approvalRuns
  BY <1>3 DEF Execute
<1>4. ASSUME NEW w \in Handlers, Deliver(w) \/ StorageFails(w) \/ Crash(w)
      PROVE  approvalRuns' = approvalRuns
  BY <1>4 DEF Deliver, StorageFails, Crash, history
<1>5. ASSUME NEW a \in Agents, AgentStep(a)
      PROVE  approvalRuns' = approvalRuns
  BY <1>5 DEF AgentStep, Submit, ClaimPlan, Consume, CreateApproval, RequestMutation,
              ProposePlan, AgentFinish, history
<1>6. ASSUME NEW h \in Humans, HumanStep(h)
      PROVE  approvalRuns' = approvalRuns
  BY <1>6 DEF HumanStep, ApproveBegin, ApproveClaim, ApproveVerify, ApproveAuthorize,
              ApproveGrant, ApproveAudit, ApproveFinish, ApproveReport, history
<1>7. ASSUME AdminStep
      PROVE  approvalRuns' = approvalRuns
  BY <1>7 DEF AdminStep, RejectApproval, CleanupApprovals, ListApprovals, RevokeGrant,
              CleanupGrants, ListGrants, ApprovePlan, RejectPlan, ListPlans, history
<1>8. ASSUME EnvironmentStep
      PROVE  approvalRuns' = approvalRuns
  BY <1>8 DEF EnvironmentStep, Tick, EditFile, EditPolicy, history
<1> QED BY <1>1, <1>2, <1>3, <1>4, <1>5, <1>6, <1>7, <1>8 DEF Next

\* The refinement: every behaviour of the flows, seen through ConsentState, is a
\* behaviour of the one-shot consent.
THEOREM Refinement == Spec => ImplementsOneShotConsent
<1> DEFINE state == [id \in ApprovalIds |-> ConsentState(id)]
<1>1. Init => Consent!Init
  BY DEF Init, Consent!Init, ConsentState
<1>2. Shape /\ ApprovalInv /\ [Next]_vars => [Consent!Next]_<<state, approvalRuns>>
  <2> SUFFICES ASSUME Shape, ApprovalInv, [Next]_vars
               PROVE  [Consent!Next]_<<state, approvalRuns>>
    OBVIOUS
  <2>1. CASE UNCHANGED vars
    BY <2>1 DEF vars, tables, history, ConsentState
  <2>2. CASE Next
    <3>1. CASE approvalRuns' = approvalRuns
      <4>1. \A id \in ApprovalIds : Legal(id)
        BY <2>2, StepMoves, RowMoveLegal
      <4>2. \A id \in ApprovalIds : ConsentState(id)' \in Consent!States
        BY DEF ConsentState, Consent!States
      <4>3. Consent!Move
        BY <3>1, <4>1, <4>2 DEF Consent!Move, Legal
      <4> QED BY <4>3 DEF Consent!Next
    <3>2. ASSUME NEW id \in ApprovalIds,
                 approvalRuns[id] = 0,
                 approvalRuns' = [approvalRuns EXCEPT ![id] = 1],
                 approvals[id].status = "executing",
                 UNCHANGED <<approvals, issued>>
          PROVE  Consent!Next
      <4>1. ConsentState(id) = "taken"
        BY <3>2 DEF ConsentState, Shape, RowShape
      <4>2. state' = state
        BY <3>2 DEF ConsentState
      <4> QED BY <3>2, <4>1, <4>2 DEF Consent!Next, Consent!Start
    <3> QED BY <2>2, <3>1, <3>2, StepRuns
  <2> QED BY <2>1, <2>2
<1> QED BY <1>1, <1>2, ShapeCorrect, ApprovalInvCorrect, PTL
        DEF Spec, ImplementsOneShotConsent, Consent!Spec

=============================================================================
