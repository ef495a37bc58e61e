---------------------------- MODULE RequestModel ----------------------------
(***************************************************************************)
(* The data that the approval, grant and plan tables share: requests, the  *)
(* policy decisions about them, and the hash that freezes a request.       *)
(*                                                                         *)
(* A request is an opaque value; what the authorization code tells apart   *)
(* is its profile, whether it is an upload (its hash then also covers the  *)
(* bytes of the local source file) and whether it is a profile mutation    *)
(* (ProfileCreate / ProfileDelete), which has its own path.                *)
(***************************************************************************)
EXTENDS Integers, Sequences

CONSTANTS
    Requests,    \* operations that name a profile
    Uploads,     \* those whose hash covers a local file
    Mutations,   \* ProfileCreate and ProfileDelete
    Profiles,
    ProfileOf,   \* the profile a request names
    Rules,       \* ids of agent policy rules
    Tasks,       \* task ids
    Namespaces,  \* execution namespaces of the agent principals
    Contents,    \* contents of a local source file
    None         \* SQL NULL, Rust's Option::None, an unreadable file

ASSUME RequestAssumption ==
    /\ Uploads \subseteq Requests
    /\ Mutations \subseteq Requests
    /\ Uploads \cap Mutations = {}
    /\ ProfileOf \in [Requests -> Profiles]
    /\ None \notin Requests \cup Profiles \cup Rules \cup Tasks \cup Namespaces
                   \cup Contents \cup Nat \cup {"low", "medium", "high", "critical"}

Maybe(S) == S \cup {None}

Risks == {"low", "medium", "high", "critical"}

Effects == {"allow", "confirm", "deny"}

Decisions == [effect : Effects, rule_id : Maybe(Rules), risk : Maybe(Risks)]

NoDecision == [effect |-> "deny", rule_id |-> None, risk |-> None]

\* What the approval of a profile mutation carries in place of a policy decision.
MutationDecision == [effect |-> "confirm", rule_id |-> None, risk |-> "high"]

Files == [Uploads -> Maybe(Contents)]

Hashes == Requests \X Maybe(Contents)

(* SHA-256 is taken to be injective: the hash of a request is the request   *)
(* itself, paired for an upload with the bytes its source holds right now.  *)
request_hash(r, files) == <<r, IF r \in Uploads THEN files[r] ELSE None>>

(* std::fs::read of an upload's source may fail, and request_hash with it.  *)
Hashable(r, files) == r \in Uploads => files[r] # None

=============================================================================
