--------------------------- MODULE MCAuthorization ---------------------------
(***************************************************************************)
(* Small instances of Authorization. Empty id pools and empty option sets  *)
(* switch parts of the system off, so that each run can afford more of the *)
(* part it is about.                                                       *)
(***************************************************************************)
EXTENDS Authorization, TLC

CONSTANTS
    exec, read, upload, mutation,   \* requests
    web,                      \* a profile
    restart, write,           \* rules
    t1, t2,                   \* tasks
    n1, n2,                   \* namespaces
    a1, a2,                   \* agent handlers
    v1, v2                    \* file contents

OneProfile == [r \in Requests |-> web]

Confirm(rule, risk) == [effect |-> "confirm", rule_id |-> rule, risk |-> risk]
Allow == [effect |-> "allow", rule_id |-> None, risk |-> None]
Deny == [effect |-> "deny", rule_id |-> None, risk |-> None]

AllConfirm == [r \in Requests |-> Confirm(restart, "low")]
AllAllow == [r \in Requests |-> Allow]
AllDeny == [r \in Requests |-> Deny]
OneRuleEach ==
    [r \in Requests |-> IF r = exec THEN Confirm(restart, "low") ELSE Confirm(write, "critical")]

ConfirmOrDeny == {AllConfirm, AllDeny}
AllowOnly == {AllAllow}
TwoRules == {OneRuleEach}

UnitLease == [r \in Requests |-> 1]

TaskGrant == [ttl |-> 1, task |-> t1, max_uses |-> 1]
TimeGrant == [ttl |-> 1, task |-> None, max_uses |-> 2]
SomeGrants == {TaskGrant, TimeGrant}

ExecThenRead == {<<exec, read>>}

ApprovalSymmetry ==
    Permutations(ApprovalIds) \cup Permutations(Humans) \cup Permutations(Contents)
GrantSymmetry ==
    Permutations(Agents) \cup Permutations(Namespaces)
PlanSymmetry ==
    Permutations(PlanIds) \cup Permutations(Agents) \cup Permutations(Contents)

=============================================================================
