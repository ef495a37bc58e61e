------------------------------ MODULE MCRemote ------------------------------
(* Instances of RemoteAgent, and of SshTransport below it.                  *)
EXTENDS RemoteAgent, TLC

CONSTANTS i1, i2,         \* runs of the script
          server,         \* a name
          k1, k2          \* host keys

Public == [family |-> 4, octets |-> <<93, 184, 216>>]
Private == [family |-> 4, octets |-> <<172, 31, 0>>]
Mapped == [family |-> 6, kind |-> "mapped", octets |-> <<10, 0, 0>>]
Global == [family |-> 6, kind |-> "other", octets |-> <<0, 0, 0>>]
Loopback6 == [family |-> 6, kind |-> "local", octets |-> <<0, 0, 0>>]

\* The first and the last network of every block, and the networks next to them.
Edges ==
    UNION {{block[1] - 1, block[1], block[2], block[2] + 1} : block \in Special}
        \cap (0 .. Number(255, 255, 255))
AddressOf(n) == [family |-> 4, octets |-> <<n \div 65536, (n \div 256) % 256, n % 256>>]

\* A lookup may return public addresses, others, or both.
SomeAnswers ==
    {<<Public, Mapped>>, <<Global, Public>>, <<Loopback6>>} \cup {<<AddressOf(n)>> : n \in Edges}

Endpoints == [host : {server, Public, Private, Mapped}, pin : {k1, None}]
SomeProfiles ==
    [mode : {"cloud", "self_hosted"}, host_key_mode : {"strict", "insecure_compatibility"},
     chain : {<<e>> : e \in Endpoints} \cup {<<e, f>> : e, f \in Endpoints}]

RestrictedJobs == [op : {"read", "create", "truncate", "append"}, policy : {TRUE}]
AllJobs == RestrictedJobs \cup [op : {"download", "create", "truncate", "append"}, policy : {FALSE}]

InvocationSymmetry == Permutations(Invocations)
=============================================================================
