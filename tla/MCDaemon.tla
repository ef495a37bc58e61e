------------------------------ MODULE MCDaemon ------------------------------
(* Instances of Daemon for TLC.                                            *)
EXTENDS Daemon, Sequences

CONSTANTS c1, c2, d1, d2

\* Any two duties; who has which of the two does not matter.
EveryDuty == <<"work", "bulk", "forever", "start", "status", "stop">>
DutiesOfTwo ==
    {[c \in Clients |-> EveryDuty[IF c = c1 THEN pair[1] ELSE pair[2]]] :
        pair \in {p \in (1 .. Len(EveryDuty)) \X (1 .. Len(EveryDuty)) :
                     p[1] <= p[2]}}
=============================================================================
