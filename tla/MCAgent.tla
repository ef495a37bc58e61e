------------------------------- MODULE MCAgent -------------------------------
(* An instance of AgentInterface.                                            *)
EXTENDS AgentInterface

CONSTANTS r1, r2,               \* requests
          k1, k2,               \* kids
          main, other,          \* files of two tenants
          alice                 \* a subject

Jwt(kid, aud, subject) ==
    [kid |-> kid, valid |-> TRUE, audiences |-> aud, scopes |-> {"sshmcp"}, subject |-> subject,
     client |-> None]
Good == Jwt(k1, {"two", "one"}, alice)
Secret == [Good EXCEPT !.kid = None]

Call(tool, token) ==
    [origin |-> None, token |-> token, method |-> "tools/call", notification |-> FALSE,
     current |-> FALSE, headers |-> [method |-> None, name |-> None, profile |-> None],
     tool |-> tool, profile |-> "p", args |-> "good", local |-> "r"]

\* With a JWT for the one server: mutations and others, for two keys.
TokenCalls ==
    {Call("create_profile", Good), Call("create_profile", Jwt(k2, {"two"}, alice)),
     Call("exec", Jwt(k2, {"two"}, alice)), Call("exec", [Good EXCEPT !.valid = FALSE]),
     Call("exec", Secret)}
\* With the bearer token for the other: what is dispatched, and how it fails.
Exec == Call("exec", Secret)
BearerCalls ==
    {Call("delete_profile", Secret), Call("upload_file", Secret), Call("propose_plan", Secret),
     Call("list_hosts", Secret), [Exec EXCEPT !.args = "task"], Call("exec", None),
     [Exec EXCEPT !.method = "tools/list"], [Exec EXCEPT !.method = "ping"],
     [Exec EXCEPT !.method = None], [Exec EXCEPT !.notification = TRUE],
     [Exec EXCEPT !.tool = None], [Exec EXCEPT !.origin = "foreign"],
     [Exec EXCEPT !.current = TRUE],
     [Exec EXCEPT !.current = TRUE,
                  !.headers = [method |-> "tools/call", name |-> "exec", profile |-> "p"]]}

\* Two resources of one tenant; the entry of the second forbids mutations.
One == [resource |-> "one", tenant_id |-> "t", path |-> main, root |-> "r", task |-> "job",
        management |-> None]
Two == [resource |-> "two", tenant_id |-> "t", path |-> other, root |-> None, task |-> None,
        management |-> FALSE]
OAuth == [kind |-> "oauth", secret |-> Secret, origins |-> {"app"}, tenants |-> <<One, Two>>,
          scopes |-> {"sshmcp"}, management |-> FALSE, root |-> None, task |-> None, path |-> main,
          clients |-> TokenCalls]
Bearer == [OAuth EXCEPT !.kind = "bearer", !.tenants = <<>>, !.management = TRUE,
                           !.clients = BearerCalls]
OneKey == {{k1}}
BothFiles == {[path \in Paths |-> TRUE]}
TwoServers == {OAuth, Bearer}

Texts(chars, n) == BoundedSeq(chars, n)
Policy(rules, roots, commands) ==
    [capabilities |-> Operations, allowed_read_paths |-> roots, allowed_write_paths |-> {},
     allowed_commands |-> commands, rules |-> rules]
Rule(operation, pattern, effect) ==
    [operation |-> operation, patterns |-> {pattern}, effect |-> effect]
Ask(policy, kind, text) ==
    [caller |-> "mcp", policy |-> policy,
     request |-> [kind |-> kind, text |-> text, cwd |-> None]]

\* Every short pattern against every short command.
AboutWildcards ==
    {Ask(Policy(<<Rule("exec", pattern, "deny")>>, {}, {}), "exec", value) :
        pattern \in Texts({"a", "b", "*"}, 3), value \in Texts({"a", "b", "*"}, 4)}
\* Every short path against a few roots.
Roots == {{}, {<<"/">>}, {<<"/", "a">>}, {<<"/", ".", ".", "/", "a", "/">>}, {<<"a">>}}
AboutPaths ==
    {Ask(Policy(<<>>, roots, {}), "read", path) :
        roots \in Roots, path \in Texts({"/", ".", "a"}, 6)}
\* Reading and writing have roots of their own.
AboutWrites ==
    {Ask([Policy(<<>>, reads, {}) EXCEPT !.allowed_write_paths = writes], kind, path) :
        reads \in {{<<"/", "a">>}, {<<"/">>}}, writes \in Roots \cup {{<<"/", "a">>, <<"/", "a", "a">>}},
        kind \in {"read", "write", "upload"}, path \in Texts({"/", ".", "a"}, 4)}
\* Lists of rules and of commands.
Words == {<<"a">>, <<"a", "b">>, <<"b">>}
Rules == {Rule(kind, pattern, effect) :
             kind \in {"exec", "read"}, pattern \in {<<"a", "*">>, <<"b">>}, effect \in {"allow", "confirm"}}
AboutRules ==
    {[Ask(Policy(rules, {}, commands), kind, text) EXCEPT !.caller = caller] :
        rules \in BoundedSeq(Rules, 2), commands \in {{}, {<<"a">>}}, kind \in {"exec", "read", "write", "tunnel", "approval", "ping"},
        text \in Words, caller \in {"mcp", "human_cli"}}
SomeConsultations == AboutWildcards \cup AboutPaths \cup AboutWrites \cup AboutRules
SomeDenyRules == {Rule("exec", <<"*">>, "deny"), Rule("exec", <<"b">>, "deny"), Rule("read", <<"a">>, "deny")}

\* Every short text against a few secrets, and pieces of keys in every order.
AboutSecrets ==
    [held : BoundedSeq(Texts({"a", "b"}, 2), 2), proposed : BoundedSeq(Texts({"a", "b"}, 3), 1),
     text : Texts({"a", "b", "c"}, 4)]
Pieces ==
    {<<"begin", "key", "newline">>, <<"begin">>, <<"key">>, <<"end">>, <<"end", "newline">>,
     <<"a">>, <<"a", "b", "newline">>}
AboutKeys ==
    [held : {<<>>, <<<<"a">>>>}, proposed : {<<>>, <<<<"b", "newline">>>>},
     text : {FlattenSeq(pieces) : pieces \in BoundedSeq(Pieces, 5)}]
SomeDisclosures == AboutSecrets \cup AboutKeys
RequestSymmetry == Permutations(Requests)

SomeContents == Texts({"a", "lead", "tail"}, 4)
=============================================================================
