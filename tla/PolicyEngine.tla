---------------------------- MODULE PolicyEngine ----------------------------
(***************************************************************************)
(* PolicyEngine (policy.rs): what a profile's agent policy says of a        *)
(* request.  Patterns, commands and paths are sequences of characters,      *)
(* because the wildcard and the resolution of paths are about characters.   *)
(* The engine has no state: a consultation is one action, and consulted     *)
(* holds the last one with its answer.                                      *)
(***************************************************************************)
EXTENDS Integers, Sequences, SequencesExt, Absent

CONSTANTS Consultations,   \* [caller, policy, request]
          DenyRules        \* rules a person may add to a policy

VARIABLE consulted

IsText(t) == t \in Seq(Range(t))

\* A policy is a record with a list of rules and sets of paths.
IsPolicy(policy) ==
    /\ DOMAIN policy = {"capabilities", "allowed_read_paths", "allowed_write_paths",
                        "allowed_commands", "rules"}
    /\ policy.rules \in Seq(Range(policy.rules))
    /\ \A i \in DOMAIN policy.rules :
          /\ policy.rules[i].effect \in {"allow", "confirm", "deny"}
          /\ \A t \in policy.rules[i].patterns : IsText(t)
    /\ \A t \in policy.allowed_read_paths \cup policy.allowed_write_paths : IsText(t)

ASSUME PolicyAssumption ==
    /\ \A c \in Consultations :
          IsText(c.request.text) /\ (c.policy # None => IsPolicy(c.policy))
    /\ \A rule \in DenyRules : rule.effect = "deny"

\* A profile's agent_policy, None for a profile that is not there.
Operations == {"exec", "read", "write", "upload", "download"}
Administration == {"approval", "authorization", "profile_mutation"}
Harmless == {"plan_propose", "session", "ping", "profile_read"}

-----------------------------------------------------------------------------
(* The wildcard                                                              *)

\* Mutated form: after a mismatch the star swallows one character more, but
\* what stood after it is compared from where it failed.
AdvanceWithoutMark(pattern, value, s) ==
    IF s.p < Len(pattern) /\ pattern[s.p + 1] = value[s.v + 1]
    THEN [s EXCEPT !.p = @ + 1, !.v = @ + 1]
    ELSE IF s.p < Len(pattern) /\ pattern[s.p + 1] = "*"
    THEN [s EXCEPT !.star = s.p, !.p = @ + 1, !.mark = s.v]
    ELSE [s EXCEPT !.p = s.star + 1, !.v = @ + 1]

\* One turn of the loop that has not failed: p and v are what was consumed of
\* the pattern and of the value, star the last star seen, mark where it began.
Advance(pattern, value, s) ==
    IF s.p < Len(pattern) /\ pattern[s.p + 1] = value[s.v + 1]
    THEN [s EXCEPT !.p = @ + 1, !.v = @ + 1]
    ELSE IF s.p < Len(pattern) /\ pattern[s.p + 1] = "*"
    THEN [s EXCEPT !.star = s.p, !.p = @ + 1, !.mark = s.v]
    ELSE [s EXCEPT !.p = s.star + 1, !.mark = @ + 1, !.v = s.mark + 1]

\* The loop fails where nothing matches and no star was seen (star is -1).
Fails(pattern, value, s) ==
    /\ s.star = -1
    /\ s.p < Len(pattern) => pattern[s.p + 1] \notin {value[s.v + 1], "*"}

\* The loop's states: it is past the last star and not before its mark.
Loop(pattern, value) ==
    {s \in [p : 0 .. Len(pattern), v : 0 .. Len(value),
            star : -1 .. Len(pattern), mark : 0 .. Len(value)] :
        s.star < s.p /\ s.mark <= s.v}

wildcard_match(pattern, value) ==
    LET run[s \in Loop(pattern, value)] ==
            IF s.v = Len(value)
            THEN \A i \in s.p + 1 .. Len(pattern) : pattern[i] = "*"
            ELSE ~ Fails(pattern, value, s) /\ run[Advance(pattern, value, s)]
    IN  run[[p |-> 0, v |-> 0, star |-> -1, mark |-> 0]]

-----------------------------------------------------------------------------
(* Paths                                                                     *)

SplitOff(parts, c) ==
    IF c = "/" THEN Append(parts, <<>>)
    ELSE [parts EXCEPT ![Len(parts)] = Append(@, c)]

\* path.split('/')
Split(path) ==
    LET upto[i \in 0 .. Len(path)] ==
            IF i = 0 THEN << <<>> >> ELSE SplitOff(upto[i - 1], path[i])
    IN  upto[Len(path)]

Skipped == {<<>>, <<".">>}
Up == <<".", ".">>
Walk(parts, part) ==
    CASE part \in Skipped -> parts
      [] part = Up         -> IF parts = <<>> THEN parts ELSE Front(parts)
      [] OTHER             -> Append(parts, part)

Walked(path) ==
    LET parts == Split(path)
        upto[i \in 0 .. Len(parts)] == IF i = 0 THEN <<>> ELSE Walk(upto[i - 1], parts[i])
    IN  upto[Len(parts)]

\* Each part behind its slash.
Join(parts) ==
    LET upto[i \in 0 .. Len(parts)] ==
            IF i = 0 THEN <<>> ELSE upto[i - 1] \o <<"/">> \o parts[i]
    IN  upto[Len(parts)]

\* Only an absolute path can be normalized; the code has an Err for others.
Absolute(path) == path # <<>> /\ path[1] = "/"

\* An absolute path without ".", ".." and empty parts.
normalize_remote_path(path) == IF Walked(path) = <<>> THEN <<"/">> ELSE Join(Walked(path))

\* Mutated form: the root's name need not end where the path goes on.
BeneathByPrefix(path, root) ==
    root = <<"/">> \/ IsPrefix(root, path)

Beneath(path, root) ==
    root = <<"/">> \/ path = root \/ IsPrefix(root \o <<"/">>, path)

require_path(roots, path) ==
    \/ roots = {}
    \/ /\ Absolute(path)
       /\ \E root \in roots :
             Absolute(root) /\ Beneath(normalize_remote_path(path), normalize_remote_path(root))

-----------------------------------------------------------------------------
(* The decision                                                              *)

rule_matches(rule, request) ==
    /\ rule.operation = request.kind
    /\ \E pattern \in rule.patterns : wildcard_match(pattern, request.text)

\* What is required before the rules are asked.
Required(policy, request) ==
    /\ request.kind \in policy.capabilities
    /\ IF request.kind = "exec"
       THEN /\ policy.rules = <<>> \/ policy.allowed_commands # {} =>
                   request.text \in policy.allowed_commands
            /\ request.cwd # None => require_path(policy.allowed_read_paths, request.cwd)
       ELSE require_path(IF request.kind \in {"write", "upload"}
                         THEN policy.allowed_write_paths
                         ELSE policy.allowed_read_paths, request.text)

\* Mutated form: what no rule matches goes as it did before there were rules.
ByRulesOrAllow(rules, request) ==
    LET matching == {i \in DOMAIN rules : rule_matches(rules[i], request)}
    IN  IF matching = {} THEN "allow"
        ELSE rules[CHOOSE i \in matching : \A j \in matching : i <= j].effect

\* The first rule that matches decides; what none matches is denied.
ByRules(rules, request) ==
    LET matching == {i \in DOMAIN rules : rule_matches(rules[i], request)}
    IN  IF rules = <<>> THEN "allow"
        ELSE IF matching = {} THEN "deny"
        ELSE rules[CHOOSE i \in matching : \A j \in matching : i <= j].effect

\* "error" is an Err of the code, the others are the decision's effect.
authorize(caller, policy, request) ==
    IF caller = "human_cli" THEN "allow"
    ELSE CASE request.kind \in {"shutdown"} \cup Administration -> "error"
           [] request.kind \in Harmless -> "allow"
           [] request.kind = "tunnel" ->
                 IF policy # None /\ "tunnel" \in policy.capabilities THEN "allow" ELSE "error"
           [] OTHER ->
                 IF policy # None /\ Required(policy, request)
                 THEN ByRules(policy.rules, request) ELSE "error"

PolicyInit == consulted = None

Consult ==
    \E c \in Consultations :
        consulted' = [c |-> c, answer |-> authorize(c.caller, c.policy, c.request)]

-----------------------------------------------------------------------------
(* What the engine promises                                                  *)

\* The characters of the pattern, one after the other, end at places of the value:
\* a star anywhere further on, another behind the same character.
Fit(ends, pattern, value) ==
    \A n \in DOMAIN ends \ {0} :
        IF pattern[n] = "*" THEN ends[n - 1] <= ends[n]
        ELSE ends[n] = ends[n - 1] + 1 /\ value[ends[n]] = pattern[n]

Matches(pattern, value) ==
    \E ends \in [0 .. Len(pattern) -> 0 .. Len(value)] :
        /\ ends[0] = 0 /\ ends[Len(pattern)] = Len(value)
        /\ Fit(ends, pattern, value)

\* A rule never applies to more than its pattern says, whatever the command
\* or the path holds, and it applies to all its pattern says as long as that
\* has no star of its own: the one-pass loop with its single mark forgets no
\* way to match.  (A star of the value is taken for the pattern's star, and a
\* longer value then escapes the rule.)
RulesMatchAsWritten ==
    consulted # None /\ consulted.c.policy # None =>
        \A i \in DOMAIN consulted.c.policy.rules :
            \A pattern \in consulted.c.policy.rules[i].patterns :
                LET value == consulted.c.request.text
                    found == wildcard_match(pattern, value)
                IN  /\ found => Matches(pattern, value)
                    /\ Matches(pattern, value) /\ ~ Contains(value, "*") => found

\* Where a path leads to: how deep each of its parts is, where ".." at the top stays
\* there, and at every depth of the last one the name that was entered last.
Kept(path) ==
    LET parts == Split(path)
        Name(i) == parts[i] \notin Skipped \cup {Up}
        depth[i \in 0 .. Len(parts)] ==
            IF i = 0 THEN 0
            ELSE IF Name(i) THEN depth[i - 1] + 1
            ELSE IF parts[i] = Up /\ depth[i - 1] > 0 THEN depth[i - 1] - 1
            ELSE depth[i - 1]
        Entered(i, d) == Name(i) /\ depth[i] = d
    IN  [d \in 1 .. depth[Len(parts)] |->
            parts[CHOOSE i \in DOMAIN parts :
                     Entered(i, d) /\ \A j \in i + 1 .. Len(parts) : ~ Entered(j, d)]]

\* Where roots are given, an agent's file operation passes if and only if the
\* place its path leads to, ".." and all, is a root or lies below one: by
\* whole names, not by letters.
RootsConfine ==
    consulted # None =>
        LET c == consulted.c
            roots == IF c.request.kind \in {"write", "upload"}
                     THEN c.policy.allowed_write_paths ELSE c.policy.allowed_read_paths
        IN  /\ c.caller # "human_cli"
            /\ c.request.kind \in Operations \ {"exec"}
            /\ c.policy # None
            => (consulted.answer # "error"
                <=> /\ c.request.kind \in c.policy.capabilities
                    /\ roots = {} \/
                       /\ Absolute(c.request.text)
                       /\ \E root \in roots : Absolute(root) /\ IsPrefix(Kept(root), Kept(c.request.text)))

Rank(answer) == CASE answer = "allow" -> 2 [] answer = "confirm" -> 1 [] OTHER -> 0

\* A rule that denies, wherever it is put, never lets an agent do more than it
\* could before: also not as a profile's first rule, which ends the list of
\* allowed commands as the measure of all commands.
DenyRulesNarrow ==
    consulted # None /\ consulted.c.policy # None =>
        LET c == consulted.c
            With(rule, i) == [c.policy EXCEPT !.rules = InsertAt(@, i, rule)]
        IN  \A rule \in DenyRules, i \in 1 .. Len(c.policy.rules) + 1 :
                Rank(authorize(c.caller, With(rule, i), c.request)) <= Rank(consulted.answer)
=============================================================================
