---------------------------- MODULE ReliableLink ----------------------------
(***************************************************************************)
(* What the header of host-protocol.ts promises of a host link, without    *)
(* sockets, sequence numbers or acknowledgements:                          *)
(*  - a node applies commands in the order they were enqueued, each at     *)
(*    most once (a restarted node starts with none applied);               *)
(*  - a process's output is read in order and without a gap.               *)
(***************************************************************************)
EXTENDS Naturals, Sequences

CONSTANT Procs

VARIABLES
    enqueued, \* commands the sessions enqueued, numbered 1..enqueued
    applied,  \* numbers of the commands the running node applied, oldest first
    written,  \* units of output each process wrote
    read      \* numbers of the units read of each process

vars == <<enqueued, applied, written, read>>

Init ==
    /\ enqueued = 0
    /\ applied = <<>>
    /\ written = [p \in Procs |-> 0]
    /\ read = [p \in Procs |-> {}]

Enqueue ==
    /\ enqueued' = enqueued + 1
    /\ UNCHANGED <<applied, written, read>>

\* The next command applied is a later one; commands in between are those
\* that ended with their process or with the coordinator that enqueued them.
ApplyCommand(n) ==
    /\ \A i \in DOMAIN applied : applied[i] < n
    /\ applied' = Append(applied, n)
    /\ UNCHANGED <<enqueued, read>>

NodeRestarts ==
    /\ applied' = <<>>
    /\ UNCHANGED <<enqueued, written, read>>

Write(p) ==
    /\ written'[p] > written[p]
    /\ written' = [written EXCEPT ![p] = written'[p]]
    /\ UNCHANGED <<enqueued, applied, read>>

\* A spawn is applied: the process starts over, none of its output read.
Begins(p) ==
    /\ read[p] = {}
    /\ written' = [written EXCEPT ![p] = 0]

Read(p, n) ==
    /\ read' = [read EXCEPT ![p] = 1..n]
    /\ read[p] \subseteq 1..n
    /\ UNCHANGED <<enqueued, applied, written>>

Next ==
    \/ Enqueue
    \/ \E n \in 1..enqueued :
         /\ ApplyCommand(n)
         /\ UNCHANGED written \/ \E p \in Procs : Begins(p)
    \/ NodeRestarts
    \/ \E p \in Procs : Write(p) \/ \E n \in 1..written[p] : Read(p, n)

Spec == Init /\ [][Next]_vars
=============================================================================
