--------------------------- MODULE LandingPromise ---------------------------
(***************************************************************************)
(* What the landing queue promises about a shared branch: a change that    *)
(* waits is pushed at most once, and its owner is answered by what the     *)
(* branch holds: it landed when it is there, it is out when it is not.     *)
(***************************************************************************)
CONSTANT Changes

VARIABLES status, \* of each change: out of the queue, waiting in it, landed
          branch  \* the changes the remote branch holds

Init ==
    /\ status = [c \in Changes |-> "out"]
    /\ branch = {}

Submit(c) ==
    /\ status[c] = "out"
    /\ status' = [status EXCEPT ![c] = "waiting"]
    /\ UNCHANGED branch

Push(batch) ==
    /\ \A c \in batch : status[c] = "waiting" /\ c \notin branch
    /\ branch' = branch \cup batch
    /\ UNCHANGED status

Answer(batch) ==
    /\ \A c \in batch : status[c] = "waiting"
    /\ status' = [c \in Changes |->
                     IF c \notin batch THEN status[c]
                     ELSE IF c \in branch THEN "landed" ELSE "out"]
    /\ UNCHANGED branch

Next ==
    \/ \E c \in Changes : Submit(c)
    \/ \E batch \in SUBSET Changes : Push(batch) \/ Answer(batch)

Spec == Init /\ [][Next]_<<status, branch>>
=============================================================================
