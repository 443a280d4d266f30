----------------------------- MODULE MCHostLink -----------------------------
(***************************************************************************)
(* HostLink for TLC.  coordinator-lock.ts hands out ascending epochs; a    *)
(* coordinator handed back to its old machine without the epoch the other  *)
(* machine reached starts with a lower one.                                *)
(***************************************************************************)
EXTENDS HostLink

Ascending == [k \in 1..MaxCoords |-> k]
HandedBack == [k \in 1..MaxCoords |-> MaxCoords + 1 - k]

(***************************************************************************)
(* The run of liveness: of two commands, an update, a restart of either    *)
(* end and a socket that breaks, at most four in one behaviour.  Fairness  *)
(* asks for none of them, so leaving behaviours out leaves it as it is.    *)
(***************************************************************************)
FewFaults ==
    commandCount + updateCount + (instanceId - 1) + (agentId - 1) + breaks <= 4
FewFaultsSpec == Init /\ [][Next /\ FewFaults']_vars /\ Fairness
=============================================================================
