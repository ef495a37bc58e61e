------------------------------ MODULE GrantTable ------------------------------
(***************************************************************************)
(* The approval_grants table of grant.rs and its SQL statements.           *)
(***************************************************************************)
EXTENDS ApprovalTable

CONSTANTS
    GrantIds,        \* the uuids this instance may draw
    GrantMaxTtl,     \* approval.grants.max_ttl_seconds
    TaskGrantRisks,  \* risk levels whose configuration permits task grants
    TimeGrantRisks   \* ... and grants limited by time only

GrantRow ==
    [status     : {"absent", "active", "exhausted", "revoked", "expired"},
     profile    : Maybe(Profiles),
     rule_id    : Maybe(Rules),
     task       : Maybe(Tasks),
     ns         : Maybe(Namespaces),
     created_at : Nat,
     expires_at : Nat,
     max_uses   : Nat,
     used_count : Nat,
     source     : Maybe(ApprovalIds)]

ASSUME GrantAssumption ==
    /\ GrantMaxTtl \in Nat
    /\ None \notin GrantIds
    /\ None \notin GrantRow
    /\ GrantIds \cap ApprovalIds = {}

GrantTables == [GrantIds -> GrantRow]

NoGrant ==
    [status |-> "absent", profile |-> None, rule_id |-> None, task |-> None,
     ns |-> None, created_at |-> 0, expires_at |-> 0, max_uses |-> 0,
     used_count |-> 0, source |-> None]

\* What a human may ask for: approval approve --for, --task, --max-uses.
GrantOptions == [ttl : Nat, task : Maybe(Tasks), max_uses : Nat]

(* An approval that recorded no risk is treated as low. *)
risk_permissions(risk, want) ==
    LET level == IF risk = None THEN "low" ELSE risk
    IN  level \in (IF want.task # None THEN TaskGrantRisks ELSE TimeGrantRisks)

(* The approval row a grant is derived from must be in the required state,  *)
(* carry a rule, still be governed by that rule (when one is expected) and  *)
(* have a risk whose policy permits this kind of grant.                     *)
validate_grant_source(row, want, required, rule) ==
    /\ want.ttl \in 1..GrantMaxTtl
    /\ row.status = required
    /\ row.rule_id # None
    /\ rule \in {None, row.rule_id}
    /\ risk_permissions(row.risk, want)
    /\ want.max_uses > 0

(* The INSERT of create_from_status: profile, rule and namespace come from  *)
(* the approval, task, time to live and limit from the human.               *)
create_from_status(source, row, want, now) ==
    [status |-> "active", profile |-> ProfileOf[row.request],
     rule_id |-> row.rule_id, task |-> want.task, ns |-> row.ns,
     created_at |-> now, expires_at |-> now + want.ttl,
     max_uses |-> want.max_uses, used_count |-> 0, source |-> source]

\* The unique index grants_source_idx.
SourceUnused(table, source) == \A g \in GrantIds : table[g].source # source

expire_grants(table, now) ==
    [g \in GrantIds |->
        IF table[g].status = "active" /\ table[g].expires_at =< now
        THEN [table[g] EXCEPT !.status = "expired"]
        ELSE table[g]]

\* Mutated form: the SELECT of consume finds grants that have expired.
UsableAfterExpiry(table, profile, rule, task, ns, now) ==
    {g \in GrantIds :
        /\ table[g].status \in {"active", "expired"}
        /\ table[g].profile = profile
        /\ table[g].rule_id = rule
        /\ table[g].ns = ns
        /\ table[g].task \in {None, task}
        /\ table[g].used_count < table[g].max_uses}

\* Mutated form: the SELECT of consume without its namespace test.
UsableInAnyNamespace(table, profile, rule, task, ns, now) ==
    {g \in GrantIds :
        /\ table[g].status = "active"
        /\ table[g].profile = profile
        /\ table[g].rule_id = rule
        /\ table[g].expires_at > now
        /\ table[g].task \in {None, task}
        /\ table[g].used_count < table[g].max_uses}

(* The SELECT of consume. *)
Usable(table, profile, rule, task, ns, now) ==
    {g \in GrantIds :
        /\ table[g].status = "active"
        /\ table[g].profile = profile
        /\ table[g].rule_id = rule
        /\ table[g].ns = ns
        /\ table[g].expires_at > now
        /\ table[g].task \in {None, task}
        /\ table[g].used_count < table[g].max_uses}

(* Its ORDER BY: task grants before time grants, then the newest; SQLite    *)
(* leaves the order of equals open.                                         *)
FirstChoice(table, S) ==
    {g \in S : \A h \in S :
        /\ table[h].task # None => table[g].task # None
        /\ (table[h].task # None <=> table[g].task # None)
              => table[h].created_at =< table[g].created_at}

\* Mutated form: the use is not counted.
ConsumeUncounted(table, g) ==
    [table EXCEPT
        ![g].status = IF table[g].used_count + 1 >= table[g].max_uses
                      THEN "exhausted" ELSE @]

(* The UPDATE of consume: count the use and exhaust the grant at its limit. *)
consume(table, g) ==
    [table EXCEPT ![g] =
        [@ EXCEPT !.used_count = table[g].used_count + 1,
                  !.status = IF table[g].used_count + 1 >= table[g].max_uses
                             THEN "exhausted" ELSE table[g].status]]

revoke(table, g) == [table EXCEPT ![g].status = "revoked"]

cleanup_grants(table, now) ==
    LET marked == expire_grants(table, now)
    IN  [g \in GrantIds |->
            IF marked[g].status \in {"revoked", "expired", "exhausted"}
            THEN NoGrant
            ELSE marked[g]]

=============================================================================
