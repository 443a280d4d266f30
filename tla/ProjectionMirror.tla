-------------------------- MODULE ProjectionMirror --------------------------
(***************************************************************************)
(* What a browser shows of a projection: a value the server had, and never *)
(* one older than a value it showed before, unless it forgot that.         *)
(***************************************************************************)
EXTENDS Naturals, Sequences

CONSTANT Value

VARIABLES
    log,   \* the values there were, oldest first
    at,    \* the one shown last
    shown  \* the value shown, in a set; or nothing

mirror == <<log, at, shown>>

Init == log = <<>> /\ at = 0 /\ shown = {}

Publish == \E value \in Value : log' = Append(log, value) /\ UNCHANGED <<at, shown>>

Show ==
    \E i \in DOMAIN log :
        /\ i >= at
        /\ at' = i /\ shown' = {log[i]}
        /\ UNCHANGED log

Clear == shown' = {} /\ UNCHANGED <<log, at>>

\* Nothing is known of the projection any more.
Forget == shown' = {} /\ at' = 0 /\ UNCHANGED log

Next == Publish \/ Show \/ Clear \/ Forget

Spec == Init /\ [][Next]_mirror
=============================================================================
