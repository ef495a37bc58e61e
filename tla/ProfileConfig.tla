---------------------------- MODULE ProfileConfig ----------------------------
(***************************************************************************)
(* What makes a configuration load (config.rs): the validation of profiles, *)
(* of the chains of via_profile, of credentials and of the MCP section, and  *)
(* the summaries that profile show returns.                                  *)
(*                                                                          *)
(* A configuration is a record of                                           *)
(*   profiles    a sequence of [name, via, auth, target_auth, bastions,      *)
(*               complete, rules]; bastions are their own auths, rules the   *)
(*               ids of the policy rules                                     *)
(*   tenants     the sequence of the MCP tenants' resources                  *)
(*   auth        "bearer", "oauth_jwt", or something else                    *)
(*   oauth_complete, complete                                                *)
(*               what oauth_jwt needs, and the runtime and approval sections *)
(*   management  whether profiles may be created and deleted                 *)
(* and an auth is [kind, fields], the fields that are set.  What a text says *)
(* of no relation between two fields (an empty host, a path that is not      *)
(* absolute, ...) is one flag, complete.                                     *)
(***************************************************************************)
EXTENDS Naturals, Sequences, FiniteSets

CONSTANTS Names, None

Fields == {"key_path", "passphrase", "password", "credential_id"}
Kinds == {"key", "password", "external"}

ASSUME ConfigAssumption == None \notin Kinds \cup Names

ElementsOf(seq) == {seq[n] : n \in 1 .. Len(seq)}
Distinct(seq) == Cardinality(ElementsOf(seq)) = Len(seq)
IsList(seq) == seq \in Seq(ElementsOf(seq))

\* What the parser lets through.
Auths == [kind : Kinds \cup {None}, fields : SUBSET Fields]

IsProfile(p) ==
    /\ p.name \in Names /\ p.via \in Names \cup {None}
    /\ {p.auth, p.target_auth} \cup ElementsOf(p.bastions) \subseteq Auths \cup {None}
    /\ IsList(p.bastions) /\ IsList(p.rules)

IsConfig(config) ==
    /\ DOMAIN config = {"profiles", "tenants", "auth", "oauth_complete", "complete", "management"}
    /\ IsList(config.profiles) /\ IsList(config.tenants)
    /\ \A p \in ElementsOf(config.profiles) : IsProfile(p)

-----------------------------------------------------------------------------
(* Credentials                                                               *)

\* AuthConfig::infer_kind; None is an error.
infer_kind(a) ==
    LET key == a.fields \cap {"key_path", "passphrase"} # {}
        password == "password" \in a.fields
        id == "credential_id" \in a.fields
    IN  CASE a.kind = "external" /\ a.fields # {"credential_id"} -> None
          [] a.kind = "external" /\ a.fields = {"credential_id"} -> "external"
          [] a.kind \in {"key", "password"} -> a.kind
          [] a.kind = None /\ key /\ ~password /\ ~id -> "key"
          [] a.kind = None /\ ~key /\ password /\ ~id -> "password"
          [] a.kind = None /\ ~key /\ ~password /\ id -> "external"
          [] OTHER -> None

\* Mutated form: a typed password may come with a passphrase.
ResolvesLeniently(a) ==
    \/ infer_kind(a) = "key" /\ a.fields \cap {"credential_id", "password"} = {}
       /\ "key_path" \in a.fields
    \/ infer_kind(a) = "password" /\ a.fields \cap {"credential_id", "key_path"} = {}
       /\ "password" \in a.fields

\* AuthConfig::resolve, which FileCredentialStore calls: an external credential
\* needs another store.
resolve_auth(a) ==
    \/ /\ infer_kind(a) = "key"
       /\ "key_path" \in a.fields /\ a.fields \cap {"credential_id", "password"} = {}
    \/ /\ infer_kind(a) = "password"
       /\ "password" \in a.fields
       /\ a.fields \cap {"credential_id", "key_path", "passphrase"} = {}

\* AuthConfig::summary succeeds.
summary(a) == infer_kind(a) = "external" \/ resolve_auth(a)

-----------------------------------------------------------------------------
(* Profiles                                                                  *)

Or(auth, fallback) == IF auth = None THEN fallback ELSE auth

\* HostEndpoint::validate, of the target and of every bastion.
endpoint_valid(auth, fallback) == Or(auth, fallback) # None /\ resolve_auth(Or(auth, fallback))

validate_common(p) == p.complete /\ Distinct(p.rules)

\* What Profile::resolve asks of the profile itself.
OwnPartValid(p) ==
    /\ validate_common(p)
    /\ IF p.via # None
       THEN p.bastions = <<>> /\ p.auth = None /\ p.target_auth = None
       ELSE /\ endpoint_valid(p.target_auth, p.auth)
            /\ \A bastion \in ElementsOf(p.bastions) : endpoint_valid(bastion, p.auth)

\* AppConfig::resolve_profile_with and Profile::resolve; the names on the stack
\* are a set, which is all they are asked for.
resolve_profile_with(config, name, stack) ==
    LET resolve[at \in [name : Names, stack : SUBSET Names]] ==
            /\ at.name \notin at.stack
            /\ \E p \in ElementsOf(config.profiles) :
                  /\ p.name = at.name
                  /\ OwnPartValid(p)
                  /\ p.via # None => resolve[[name |-> p.via, stack |-> at.stack \cup {at.name}]]
    IN  resolve[[name |-> name, stack |-> stack]]

\* HostEndpoint::sanitized_json succeeds.
endpoint_summary(auth, fallback) == Or(auth, fallback) # None /\ summary(Or(auth, fallback))

\* Profile::sanitized_json succeeds for the profile of that name.
profile_summary(config, name) ==
    \E p \in ElementsOf(config.profiles) :
        /\ p.name = name
        /\ IF p.via # None
           THEN resolve_profile_with(config, p.via, {name})
           ELSE /\ endpoint_summary(p.target_auth, p.auth)
                /\ \A bastion \in ElementsOf(p.bastions) : endpoint_summary(bastion, p.auth)

validate_mcp(config) ==
    \/ config.auth = "bearer"
    \/ config.auth = "oauth_jwt" /\ config.oauth_complete /\ Distinct(config.tenants)

NamesOf(config) == {p.name : p \in ElementsOf(config.profiles)}

\* AppConfig::validate.
validate(config) ==
    /\ config.profiles # <<>> \/ config.tenants # <<>>
    /\ validate_mcp(config)
    /\ config.complete
    /\ Cardinality(NamesOf(config)) = Len(config.profiles)
    /\ \A name \in NamesOf(config) : resolve_profile_with(config, name, {})

-----------------------------------------------------------------------------
(* What a configuration must be, without an algorithm                        *)

\* One credential: a key file, with or without a passphrase, or a password, and
\* a type, if any, that says so.
OneCredential(a) ==
    \/ a.fields \in {{"key_path"}, {"key_path", "passphrase"}} /\ a.kind \in {None, "key"}
    \/ a.fields = {"password"} /\ a.kind \in {None, "password"}

\* The delegations end: every chain at a profile of the file, and none in itself.
DelegationsEnd(config) ==
    LET ps == ElementsOf(config.profiles)
    IN  /\ \A p \in ps : p.via # None => p.via \in NamesOf(config)
        /\ \A S \in SUBSET ps : S # {} => \E p \in S : p.via \notin {q.name : q \in S}

Sound(config) ==
    /\ config.profiles # <<>> \/ config.tenants # <<>>
    /\ config.auth \in {"bearer", "oauth_jwt"}
    /\ config.complete
    /\ config.auth = "oauth_jwt" =>
          config.oauth_complete /\ \A m, n \in 1 .. Len(config.tenants) : config.tenants[m] = config.tenants[n] => m = n
    /\ \A m, n \in 1 .. Len(config.profiles) :
          config.profiles[m].name = config.profiles[n].name => m = n
    /\ DelegationsEnd(config)
    /\ \A p \in ElementsOf(config.profiles) :
          /\ p.complete
          /\ \A m, n \in 1 .. Len(p.rules) : p.rules[m] = p.rules[n] => m = n
          /\ LET auths == {Or(a, p.auth) : a \in {p.target_auth} \cup ElementsOf(p.bastions)}
             IN  IF p.via = None THEN None \notin auths /\ \A a \in auths : OneCredential(a)
                 ELSE auths = {None} /\ p.bastions = <<>>
=============================================================================
