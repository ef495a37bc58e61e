--------------------------- MODULE AgentInterface ---------------------------
(***************************************************************************)
(* What an agent meets: the MCP server, the pages it reads, the policy and  *)
(* the redactor.  The last three keep nothing that the server's requests    *)
(* read, so their calls are looked at while no request is on its way.       *)
(***************************************************************************)
EXTENDS McpServer, PolicyEngine, SecretRedactor, PagedRead

vars == <<mcpVars, consulted, redacted, readVars>>

Init == McpInit /\ PolicyInit /\ RedactorInit /\ ReadInit

\* Nothing was asked of the three, and nothing has come to the server: one of
\* its initial states will do.
Untouched == consulted = None /\ redacted = None /\ remote = <<>> /\ cuts = {}
Quiet ==
    /\ now = 0 /\ changes = 0 /\ sent = None /\ \A r \in Requests : req[r] = Idle
    /\ server.kind = "oauth"

Next ==
    \/ Untouched /\ McpNext /\ UNCHANGED <<consulted, redacted, readVars>>
    \/ /\ Quiet
       /\ \/ Untouched /\ Consult /\ UNCHANGED <<redacted, readVars>>
          \/ Untouched /\ Redact /\ UNCHANGED <<consulted, readVars>>
          \/ /\ consulted = None /\ redacted = None
             /\ (\E limit \in Limits : ReadPage(limit)) \/ WriteRemote
             /\ UNCHANGED <<consulted, redacted>>
       /\ UNCHANGED mcpVars

Spec == Init /\ [][Next]_vars
=============================================================================
