------------------------------ MODULE McpServer ------------------------------
(***************************************************************************)
(* The MCP server (mcp.rs): a POST is authenticated, against the issuer's   *)
(* keys in a cache that requests refill on their own, routed to the tenant  *)
(* its token was issued for, and dispatched; a tool call reads the tenant's *)
(* file and goes to the service (service.rs), for profile mutations down    *)
(* to the last look at the file.                                            *)
(*                                                                          *)
(* A key is its kid: what an issuer publishes under a kid does not change.  *)
(* A token is a record of what its checks look at; its kid is None where it *)
(* is no JWT or names no key.  Errors are named after the place that makes  *)
(* them; wording and JSON are left out.                                     *)
(***************************************************************************)
EXTENDS Integers, Sequences, SequencesExt, Absent

CONSTANTS Requests,      \* handlers of POST /mcp
          Servers,       \* the configuration the server may start with, and what its
                         \* clients send
          Kids,          \* keys the issuer may publish
          Paths,         \* configuration files
          FirstKeys,     \* what the issuer may publish at first
          FirstFiles,    \* which files may enable profile management at first
          Ttl,           \* of the key cache, 300 seconds in the code
          MaxTime, MaxChanges

\* None is neither a number, a flag, a cache nor a reply; AppConfig::validate
\* refuses a second tenant of one resource.
ASSUME McpAssumption ==
    /\ Ttl \in Nat
    /\ FirstKeys \subseteq SUBSET Kids
    /\ None \notin Nat \cup BOOLEAN
    /\ None \notin [keys : SUBSET Kids, fetched_at : Nat, asked : Nat]
    /\ None \notin [to : Requests, what : {"mutated"}]
    /\ \A s \in Servers :
          /\ None \notin ToSet(s.tenants)
          /\ \A i, j \in DOMAIN s.tenants :
                s.tenants[i].resource = s.tenants[j].resource => i = j

VARIABLES now,
          server,        \* McpState and McpAuthState, fixed at start
          published,     \* the kids the issuer publishes
          files,         \* path -> whether the file enables profile management
          cache,         \* JwksCache, None at first
          req,           \* what each handler holds
          sent,          \* the reply that was just sent: [to, what], else None
          seen,          \* history: when each kid was last published
          changes

issuer == <<published, seen>>
mcpVars == <<now, server, issuer, files, cache, req, sent, changes>>

MutationTools == {"create_profile", "delete_profile"}
TransferTools == {"upload_file", "download_file"}
Tools == {"list_hosts", "exec", "propose_plan"} \cup MutationTools \cup TransferTools

\* A handler: its message, when it asked the issuer and what that answered,
\* AuthContext's tenant (None for a bearer token), the configuration it loaded;
\* and as history how the key it found got there and whether its key may well
\* be missing.
Idle == [pc |-> "idle", msg |-> None, asked |-> None, got |-> None, tenant |-> None,
         config |-> None, found |-> None, excused |-> FALSE]

Becomes(r, handler) == req' = [req EXCEPT ![r] = handler] /\ sent' = None
Goto(r, label) == Becomes(r, [req[r] EXCEPT !.pc = label])
Answered(r, what) ==
    /\ req' = [req EXCEPT ![r] = [Idle EXCEPT !.excused = req[r].excused]]
    /\ sent' = [to |-> r, what |-> what]

McpInit ==
    /\ now = 0
    /\ server \in Servers
    /\ published \in FirstKeys
    /\ files \in FirstFiles
    /\ cache = None
    /\ req = [r \in Requests |-> Idle]
    /\ sent = None
    /\ seen = [k \in Kids |-> IF k \in published THEN 0 ELSE None]
    /\ changes = 0

-----------------------------------------------------------------------------
(* Authentication                                                            *)

\* A browser names its origin, other clients none.
origin_allowed(m) == m.origin \in {None, "local"} \cup server.origins

\* Before anything is looked up: the origin, the bearer token, the token's header.
Arrive(r, m) ==
    LET Begin(label) ==
            Becomes(r, [Idle EXCEPT !.pc = label, !.msg = m,
                                    !.excused = m.token.kid \notin published])
    IN  /\ req[r].pc = "idle"
        /\ IF ~ origin_allowed(m) THEN Answered(r, "forbidden")
           ELSE IF server.kind = "bearer"
           THEN IF m.token = server.secret THEN Begin("dispatch") ELSE Answered(r, "unauthorized")
           ELSE IF m.token = None THEN Answered(r, "unauthorized")
           ELSE IF m.token.kid = None THEN Answered(r, "unauthorized")
           ELSE Begin("lookup")
        /\ UNCHANGED <<now, server, issuer, files, cache, changes>>

\* Mutated form: what was fetched once is good for ever.
cached_for_ever(kid) == cache # None /\ kid \in cache.keys

cached_jwk(kid) ==
    /\ cache # None
    /\ now - cache.fetched_at <= Ttl
    /\ kid \in cache.keys

Found(r) ==
    Becomes(r, [req[r] EXCEPT
                   !.pc = "claims", !.excused = FALSE,
                   !.found = [at |-> now, stored |-> cache.fetched_at, asked |-> cache.asked]])

\* Mutated form: the issuer is not asked again while the cache is fresh.
LookupSparingly(r) ==
    /\ req[r].pc = "lookup"
    /\ IF cached_jwk(req[r].msg.token.kid) THEN Found(r)
       ELSE IF cache # None /\ now - cache.fetched_at <= Ttl THEN Answered(r, "no_key")
       ELSE Becomes(r, [req[r] EXCEPT !.pc = "fetch", !.asked = now])
    /\ UNCHANGED <<now, server, issuer, files, cache, changes>>

\* jwk_for_kid: a key that is not in the cache is asked for.
Lookup(r) ==
    /\ req[r].pc = "lookup"
    /\ IF cached_jwk(req[r].msg.token.kid) THEN Found(r)
       ELSE Becomes(r, [req[r] EXCEPT !.pc = "fetch", !.asked = now])
    /\ UNCHANGED <<now, server, issuer, files, cache, changes>>

\* refresh_jwks: the issuer answers with what it publishes now, or not at all;
\* there is no deadline.
Fetch(r) ==
    /\ req[r].pc = "fetch"
    /\ \/ Becomes(r, [req[r] EXCEPT !.pc = "store", !.got = published])
       \/ Answered(r, "no_answer")
    /\ UNCHANGED <<now, server, issuer, files, cache, changes>>

\* The handler r has stored its answer; those that were about to look into the
\* cache find it instead of their own.
Stored(r) ==
    /\ req' = [s \in Requests |->
                  IF s = r THEN [req[s] EXCEPT !.pc = "relook", !.asked = None, !.got = None]
                  ELSE [req[s] EXCEPT !.excused = @ \/ req[s].pc = "relook"]]
    /\ sent' = None

\* Whoever writes last wins, whatever the other's answer was.
Store(r) ==
    /\ req[r].pc = "store"
    /\ cache' = [keys |-> req[r].got, fetched_at |-> now, asked |-> req[r].asked]
    /\ Stored(r)
    /\ UNCHANGED <<now, server, issuer, files, changes>>

Relook(r) ==
    /\ req[r].pc = "relook"
    /\ IF cached_jwk(req[r].msg.token.kid) THEN Found(r) ELSE Answered(r, "no_key")
    /\ UNCHANGED <<now, server, issuer, files, cache, changes>>

\* The tenants whose resource is among the audiences, by their place in the file.
Audience(token) ==
    {i \in DOMAIN server.tenants : server.tenants[i].resource \in token.audiences}

\* The rest of authenticate_oauth: token.valid stands for its signature and
\* algorithm, issuer, expiry and subject. The first tenant of the file serves.
Claims(r) ==
    LET token == req[r].msg.token
    IN  /\ req[r].pc = "claims"
        /\ IF token.valid /\ server.scopes \subseteq token.scopes /\ Audience(token) # {}
           THEN \E i \in Audience(token) :
                   /\ \A j \in Audience(token) : i <= j
                   /\ Becomes(r, [Idle EXCEPT !.pc = "dispatch", !.msg = req[r].msg,
                                              !.tenant = server.tenants[i]])
           ELSE Answered(r, "unauthorized")
        /\ UNCHANGED <<now, server, issuer, files, cache, changes>>

-----------------------------------------------------------------------------
(* Dispatch                                                                  *)

\* A header that is given says what the body says; the current protocol gives
\* them all.  m.tool and m.profile are None where the body has none.
routing_headers_match(m) ==
    LET Agrees(header, value) == header = value \/ (header = None /\ ~ m.current)
    IN  /\ Agrees(m.headers.method, m.method)
        /\ m.method = "tools/call" =>
              /\ Agrees(m.headers.name, m.tool)
              /\ m.headers.name # None \/ ~ m.current
              /\ Agrees(m.headers.profile, m.profile)

\* mcp_post, once it knows the caller.
Dispatch(r) ==
    LET m == req[r].msg
    IN  /\ req[r].pc = "dispatch"
        /\ IF m.method = None THEN Answered(r, "invalid_request")
           ELSE IF ~ routing_headers_match(m) THEN Answered(r, "misrouted")
           ELSE IF m.notification THEN Answered(r, "accepted")
           ELSE CASE m.method = "tools/list" -> Goto(r, "list")
                  [] m.method = "tools/call" ->
                        IF m.tool # None THEN Goto(r, "call") ELSE Answered(r, "invalid_call")
                  [] m.method \in {"initialize", "ping"} -> Answered(r, "result")
                  [] OTHER -> Answered(r, "method_not_found")
        /\ UNCHANGED <<now, server, issuer, files, cache, changes>>

\* The tenant's entry, else its file, else (no tenant, or a file that does not
\* load) what the server started with: the answers that may come.
profile_management_enabled(tenant) ==
    IF tenant = None THEN {server.management}
    ELSE IF tenant.management # None THEN {tenant.management}
    ELSE {files[tenant.path], server.management}

local_file_root(tenant) ==
    IF tenant = None THEN server.root
    ELSE IF tenant.root = None THEN server.root ELSE tenant.root
task_id(tenant) ==
    IF tenant = None THEN server.task
    ELSE IF tenant.task = None THEN server.task ELSE tenant.task

\* tools/list: the tools that mutate profiles are listed where they are enabled.
List(r) ==
    /\ req[r].pc = "list"
    /\ \E enabled \in profile_management_enabled(req[r].tenant) :
          Answered(r, IF enabled THEN "all_tools" ELSE "tools")
    /\ UNCHANGED <<now, server, issuer, files, cache, changes>>

\* m.local is the root that the canonical local path lies below, None for none.
guard_local_transfer(m, root) == m.tool \in TransferTools => root # None /\ m.local = root

\* m.args: "good", "task" (the agent names a task) or "bad" (missing, unknown
\* or malformed arguments).
request_from_tool(m, task) ==
    /\ m.tool \in Tools /\ m.args = "good"
    /\ m.tool = "propose_plan" => task # None

\* call_tool up to its request.
CallTool(r) ==
    LET m == req[r].msg
        tenant == req[r].tenant
    IN  /\ req[r].pc = "call"
        /\ \/ m.tool = "list_hosts" /\ Goto(r, "load")
           \/ m.tool # "list_hosts" /\ m.args = "task" /\ Answered(r, "task_refused")
           \/ /\ m.tool # "list_hosts" /\ m.args # "task"
              /\ \E enabled \in profile_management_enabled(tenant) :
                    IF m.tool \in MutationTools /\ ~ enabled THEN Answered(r, "disabled")
                    ELSE IF /\ guard_local_transfer(m, local_file_root(tenant))
                            /\ request_from_tool(m, task_id(tenant))
                    THEN Goto(r, "load") ELSE Answered(r, "bad_arguments")
        /\ UNCHANGED <<now, server, issuer, files, cache, changes>>

\* The file of a caller: its tenant's, or the gateway's own.
PathOf(tenant) == IF tenant = None THEN server.path ELSE tenant.path

\* load_tenant_config, and for a bearer token the load of execute_principal.
Load(r) ==
    LET path == PathOf(req[r].tenant)
    IN  /\ req[r].pc = "load"
        /\ \/ Becomes(r, [req[r] EXCEPT !.pc = "execute",
                                        !.config = [path |-> path, management |-> files[path]]])
           \/ Answered(r, "load_failed")
        /\ UNCHANGED <<now, server, issuer, files, cache, changes>>

\* Mutated form: the resources of one tenant are one caller to the gateway.
NamespaceByTenant(handler) ==
    IF handler.tenant = None THEN <<"mcp", None, None, "local-bearer", None>>
    ELSE <<"mcp", handler.tenant.tenant_id, None,
           handler.msg.token.subject, handler.msg.token.client>>

\* Principal::execution_namespace: each value is hashed with its length.
execution_namespace(handler) ==
    IF handler.tenant = None THEN <<"mcp", None, None, "local-bearer", None>>
    ELSE <<"mcp", handler.tenant.tenant_id, handler.tenant.resource,
           handler.msg.token.subject, handler.msg.token.client>>

\* The service: a mutation is refused where the loaded file disables it, and
\* a person must confirm it in cloud mode; what else it answers is
\* Authorization's and Gateway's.
Execute(r) ==
    /\ req[r].pc = "execute"
    /\ IF req[r].msg.tool \notin MutationTools
       THEN \E outcome \in {"result", "confirmation_required", "tool_error"} : Answered(r, outcome)
       ELSE IF ~ req[r].config.management THEN Answered(r, "disabled")
       ELSE \/ Goto(r, "mutate")
            \/ \E outcome \in {"confirmation_required", "tool_error"} : Answered(r, outcome)
    /\ UNCHANGED <<now, server, issuer, files, cache, changes>>

\* Mutated form: the file that was loaded is the file.
MutateAsLoaded(r) ==
    /\ req[r].pc = "mutate"
    /\ Answered(r, IF req[r].config.management THEN "mutated" ELSE "disabled")
    /\ UNCHANGED <<now, server, issuer, files, cache, changes>>

\* execute_profile_mutation, under the write guard: the file is read again;
\* what follows is ConfigStore's.
Mutate(r) ==
    /\ req[r].pc = "mutate"
    /\ IF files[req[r].config.path]
       THEN \E outcome \in {"mutated", "tool_error"} : Answered(r, outcome)
       ELSE Answered(r, "disabled")
    /\ UNCHANGED <<now, server, issuer, files, cache, changes>>

-----------------------------------------------------------------------------
(* The others                                                                *)

\* A cache that a handler is about to look into may lapse first.
Tick ==
    /\ now < MaxTime
    /\ now' = now + 1
    /\ seen' = [k \in Kids |-> IF k \in published THEN now + 1 ELSE seen[k]]
    /\ req' = [r \in Requests |->
                  [req[r] EXCEPT !.excused = @ \/ (/\ req[r].pc = "relook"
                                                   /\ now + 1 - cache.fetched_at > Ttl)]]
    /\ sent' = None
    /\ UNCHANGED <<server, published, files, cache, changes>>

\* The issuer publishes other keys.
Rotate ==
    /\ changes < MaxChanges
    /\ changes' = changes + 1
    /\ \E keys \in SUBSET Kids \ {published} :
          /\ published' = keys
          /\ seen' = [k \in Kids |-> IF k \in keys THEN now ELSE seen[k]]
          /\ req' = [r \in Requests |->
                        IF req[r].pc \notin {"lookup", "fetch", "store", "relook"} THEN req[r]
                        ELSE [req[r] EXCEPT !.excused = @ \/ req[r].msg.token.kid \notin keys]]
    /\ sent' = None
    /\ UNCHANGED <<now, server, files, cache>>

\* A person switches profile management in a file.
EditFile ==
    /\ changes < MaxChanges
    /\ changes' = changes + 1
    /\ \E path \in Paths : files' = [files EXCEPT ![path] = ~ @]
    /\ sent' = None
    /\ UNCHANGED <<now, server, issuer, cache, req>>

Handle(r) ==
    \/ \E m \in server.clients : Arrive(r, m)
    \/ Lookup(r) \/ Fetch(r) \/ Store(r) \/ Relook(r) \/ Claims(r)
    \/ Dispatch(r) \/ List(r) \/ CallTool(r) \/ Load(r) \/ Execute(r) \/ Mutate(r)

McpNext == (\E r \in Requests : Handle(r)) \/ Tick \/ Rotate \/ EditFile

-----------------------------------------------------------------------------
(* What the server promises                                                  *)

McpTypeOK ==
    /\ now \in 0 .. MaxTime
    /\ server \in Servers
    /\ published \subseteq Kids
    /\ files \in [Paths -> BOOLEAN]
    /\ cache = None \/ cache \in [keys : SUBSET Kids, fetched_at : 0 .. now, asked : 0 .. now]
    /\ \A r \in Requests :
          /\ req[r].pc \in {"idle", "lookup", "fetch", "store", "relook", "claims", "dispatch",
                            "list", "call", "load", "execute", "mutate"}
          /\ req[r].msg \in server.clients \cup {None}
          /\ req[r].asked \in 0 .. now \cup {None}
          /\ req[r].got \in (SUBSET Kids) \cup {None}
          /\ req[r].tenant = None \/ req[r].tenant \in ToSet(server.tenants)
          /\ req[r].config = None \/ req[r].config \in [path : Paths, management : BOOLEAN]

\* A key that a token is checked with was published not longer ago than the
\* cache lives and the issuer took to answer, although requests refill the
\* cache at once and the older answer may be stored last.
KeyRecent ==
    \A r \in Requests :
        req[r].pc = "claims" =>
            LET found == req[r].found
                last == seen[req[r].msg.token.kid]
            IN  last # None /\ last >= found.at - Ttl - (found.stored - found.asked)

\* A token whose key is published all along is not refused for its key, unless
\* the issuer did not answer or another request's answer came in between.
PublishedKeyFound ==
    sent # None => (sent.what = "no_key" => req[sent.to].excused)

\* Two calls on their way with different files run in different namespaces;
\* and the file of a call is one that its token was issued for.
CallsStayApart ==
    \A r, s \in Requests :
        req[r].config # None /\ req[s].config # None /\ server.kind = "oauth" =>
            /\ req[r].config.path # req[s].config.path =>
                   execution_namespace(req[r]) # execution_namespace(req[s])
            /\ \E i \in DOMAIN server.tenants :
                  /\ server.tenants[i].path = req[r].config.path
                  /\ server.tenants[i].resource \in req[r].msg.token.audiences

\* Profiles are changed only in a file that enables it at that moment, and
\* never where the tenant's entry forbids it: the flag is read three times,
\* and people switch it in between.
ManagedWhileEnabled ==
    [][\A r \in Requests :
          sent' = [to |-> r, what |-> "mutated"] /\ sent' # sent =>
              LET tenant == req[r].tenant
              IN  /\ files[PathOf(tenant)]
                  /\ IF tenant = None THEN server.management ELSE tenant.management # FALSE]_mcpVars
=============================================================================
