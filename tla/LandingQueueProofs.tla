------------------------- MODULE LandingQueueProofs -------------------------
(***************************************************************************)
(* Theorems about LandingQueue for every value of its constants.           *)
(***************************************************************************)
EXTENDS LandingQueue, SubsequencesProofs

-----------------------------------------------------------------------------
(***************************************************************************)
(* The inductive invariant.                                                *)
(***************************************************************************)
\* A launch that can still claim or has a run under way.
Active(l) == Unclaimed(l) \/ Running(l)

\* A runner that has not claimed has no run, and an interrupted run's launch
\* has ended: a claim never replaces a run, and adds none to a launch that is over.
ClaimsOnce ==
    \A l \in Slots :
        /\ runner[l].at \in {"asked", "started", "fetched"} => jobs[l].run = "none"
        /\ jobs[l].run = "abandoned" => ~jobs[l].open

IInv == TypeOK /\ OneRunner /\ EntriesFollowRuns /\ ClaimsOnce

Carries(r, c) == (Running(r) \/ Unreconciled(r)) /\ c \in jobs[r].batch

\* What a step leaves alone of the carriers: runs that carry a change carried it
\* before, no launch becomes active, and entries agree with the runs.
Narrows ==
    /\ \A r \in Slots : Active(r)' => Active(r)
    /\ \A r \in Slots, c \in Changes : Carries(r, c)' => Carries(r, c)
    /\ \A c \in Changes : (entry'[c] = "running") = (\E r \in Slots : Carries(r, c)')

\* EntriesFollowRuns in terms of Carries.
LEMMA Carriers ==
    EntriesFollowRuns
      <=> \A c \in Changes :
             /\ (entry[c] = "running") = (\E r \in Slots : Carries(r, c))
             /\ \A q, r \in Slots : Carries(q, c) /\ Carries(r, c) => q = r
<1> DEFINE K(c) == {l \in Slots : Carries(l, c)}
<1>1. EntriesFollowRuns
        <=> \A c \in Changes : /\ (entry[c] = "running") = (K(c) # {})
                               /\ \A q, r \in K(c) : q = r
  BY Zenon DEF EntriesFollowRuns, Carries
<1>2. \A c \in Changes : (K(c) # {}) = (\E r \in Slots : Carries(r, c))
  OBVIOUS
<1>3. \A c \in Changes : (\A q, r \in K(c) : q = r)
          <=> \A q, r \in Slots : Carries(q, c) /\ Carries(r, c) => q = r
  BY Zenon
<1>4. QED
  <2> HIDE DEF K
  <2>1. QED
    BY <1>1, <1>2, <1>3, Zenon

\* The same of the next state.
LEMMA CarriersNext ==
    EntriesFollowRuns'
      <=> \A c \in Changes :
             /\ (entry'[c] = "running") = (\E r \in Slots : Carries(r, c)')
             /\ \A q, r \in Slots : Carries(q, c)' /\ Carries(r, c)' => q = r
<1> DEFINE K(c) == {l \in Slots : Carries(l, c)'}
<1>1. EntriesFollowRuns'
        <=> \A c \in Changes : /\ (entry'[c] = "running") = (K(c) # {})
                               /\ \A q, r \in K(c) : q = r
  BY Zenon DEF EntriesFollowRuns, Carries
<1>2. \A c \in Changes : (K(c) # {}) = (\E r \in Slots : Carries(r, c)')
  OBVIOUS
<1>3. \A c \in Changes : (\A q, r \in K(c) : q = r)
          <=> \A q, r \in Slots : Carries(q, c)' /\ Carries(r, c)' => q = r
  BY Zenon
<1>4. QED
  <2> HIDE DEF K
  <2>1. QED
    BY <1>1, <1>2, <1>3, Zenon

\* A step that narrows keeps both invariants.
LEMMA NarrowsKeeps ==
    ASSUME OneRunner, EntriesFollowRuns, Narrows
    PROVE  OneRunner' /\ EntriesFollowRuns'
<1>1. OneRunner'
  BY DEF OneRunner, Narrows, Active
<1>2. EntriesFollowRuns'
  BY Carriers, CarriersNext DEF Narrows
<1>3. QED
  BY <1>1, <1>2

\* A settled job is well formed and carries nothing.
LEMMA OverFacts ==
    /\ Over \in Job
    /\ ~Over.open /\ Over.run = "none" /\ Over.batch = {} /\ Over.plan = {}
<1>1. (CHOOSE m \in Machines : TRUE) \in Machines
  BY LandingAssumption
<1>2. QED
  BY <1>1 DEF Over, Job

\* What taking a run back leaves of it.
LEMMA AbandonedFacts ==
    ASSUME TypeOK, NEW l \in Slots
    PROVE  /\ Abandoned(l) \in Job
           /\ ~Abandoned(l).open
           /\ jobs[l].plan = {} => Abandoned(l) = Over
           /\ jobs[l].plan # {} => /\ Abandoned(l).run = "abandoned"
                                   /\ Abandoned(l).batch = jobs[l].batch
BY OverFacts DEF TypeOK, Abandoned, Job

\* What the end of a launch leaves of it.
LEMMA EndedFacts ==
    ASSUME TypeOK, NEW l \in Slots
    PROVE  /\ Ended(l) \in Job
           /\ ~Ended(l).open
           /\ Unclaimed(l) => Ended(l) = Over
           /\ ~Unclaimed(l) => /\ Ended(l).run = jobs[l].run
                               /\ Ended(l).batch = jobs[l].batch
BY OverFacts DEF TypeOK, Ended, Job

-----------------------------------------------------------------------------
(***************************************************************************)
(* Types.                                                                  *)
(***************************************************************************)
\* The states operations put entries in are states.
LEMMA EntryTypes ==
    ASSUME TypeOK
    PROVE  /\ \A cs : Requeued(cs) \in [Changes -> States]
           /\ \A batch, landed, bounced :
                 Outcome(batch, landed, bounced) \in [Changes -> States]
BY DEF TypeOK, Requeued, Outcome, States

\* Where a runner goes is well formed.
LEMMA GoesToTypes ==
    ASSUME TypeOK, NEW l \in Slots, NEW at, GoesTo(l, at),
           at \in {"gone", "asked", "started", "fetched", "gating", "planned",
                   "pushing", "pushed", "ending", "orphan"}
    PROVE  /\ runner' \in [Slots -> Runner]
           /\ runner'[l].at = at
           /\ \A r \in Slots \ {l} : runner'[r] = runner[r]
BY DEF TypeOK, GoesTo, NoRunner, Runner

\* Updates of one job that keep it well formed.
LEMMA JobUpdates ==
    ASSUME NEW j \in Job
    PROVE  /\ \A b \in SUBSET Changes :
                 [j EXCEPT !.run = "running", !.batch = b, !.late = FALSE] \in Job
           /\ \A p \in SUBSET Changes : [j EXCEPT !.plan = p, !.late = FALSE] \in Job
           /\ \A n \in Nat : [j EXCEPT !.tip = n] \in Job
           /\ \A b \in BOOLEAN : [j EXCEPT !.late = b] \in Job
           /\ \A m \in Machines : [j EXCEPT !.open = TRUE, !.machine = m] \in Job
BY DEF Job

\* Where the lease and the memory go is well formed.
LEMMA LeaseTypes ==
    ASSUME TypeOK, ReleaseLease
    PROVE  holder' \in {"queue", "classic", "none"} /\ inLine' \in BOOLEAN
BY DEF TypeOK, ReleaseLease

\* The same of the count of failures.
LEMMA MemoryTypes ==
    ASSUME TypeOK
    PROVE  /\ RecordFailure \/ NoTrouble => failures' \in 0 .. 3
           /\ RecordFailure \/ NoTrouble => cooling' \in BOOLEAN
<1>1. RecordFailure \/ NoTrouble => failures' \in 0 .. 3
  BY DEF TypeOK, RecordFailure, NoTrouble
<1>2. RecordFailure => cooling' = TRUE \/ cooling' = FALSE
  BY DEF RecordFailure
<1>3. NoTrouble => cooling' = FALSE
  BY DEF NoTrouble
<1>4. QED
  BY <1>1, <1>2, <1>3

\* Each step keeps the types.
LEMMA TypeStep == TypeOK /\ [Next]_vars => TypeOK'
<1> SUFFICES ASSUME TypeOK, [Next]_vars PROVE TypeOK'
  OBVIOUS
<1>1. ASSUME NEW c \in Changes, Submit(c) PROVE TypeOK'
  <2>1. entry' \in [Changes -> States]
    BY <1>1 DEF Submit, TypeOK, States
  <2>2. order' \in Seq(Changes)
    <3>1. PICK kept \in Filtered(order, {i \in DOMAIN order :
                                          entry[order[i]] \in {"pending", "running"}}) :
            order' = Append(kept, c)
      BY <1>1 DEF Submit
    <3>2. kept \in Seq(Changes)
      BY FilteredEmbeds DEF TypeOK
    <3>3. QED
      BY <3>1, <3>2
  <2>3. /\ jobs' \in [Slots -> Job] /\ holder' \in {"queue", "classic", "none"}
       /\ inLine' \in BOOLEAN /\ launching' \in SUBSET Slots
       /\ failures' \in 0 .. 3 /\ cooling' \in BOOLEAN
       /\ runner' \in [Slots -> Runner] /\ remote' \in Seq(SUBSET Changes)
       /\ faults' \in Nat
    BY <1>1 DEF Submit, TypeOK, lease, memory
  <2>4. QED
    BY <2>1, <2>2, <2>3 DEF TypeOK
<1>2. ASSUME NEW c \in Changes, Withdraw(c) PROVE TypeOK'
  <2>1. entry' \in [Changes -> States]
    BY <1>2 DEF Withdraw, TypeOK, States
  <2>2. /\ order' \in Seq(Changes) /\ jobs' \in [Slots -> Job]
       /\ holder' \in {"queue", "classic", "none"} /\ inLine' \in BOOLEAN
       /\ launching' \in SUBSET Slots /\ failures' \in 0 .. 3
       /\ cooling' \in BOOLEAN /\ runner' \in [Slots -> Runner]
       /\ remote' \in Seq(SUBSET Changes) /\ faults' \in Nat
    BY <1>2 DEF Withdraw, TypeOK, lease, memory
  <2>3. QED
    BY <2>1, <2>2 DEF TypeOK
<1>3. ASSUME NEW l \in Slots, NEW m \in Machines, ByHand(l, m) PROVE TypeOK'
  <2>1. jobs' \in [Slots -> Job]
    <3> DEFINE closed == [r \in Slots |-> IF Running(r) THEN Abandoned(r)
                                        ELSE IF Unclaimed(r) THEN Over ELSE jobs[r]]
    <3>1. closed \in [Slots -> Job]
      BY AbandonedFacts, OverFacts DEF TypeOK
    <3>2. jobs' = [closed EXCEPT ![l] = [Over EXCEPT !.open = TRUE, !.machine = m]]
      BY <1>3 DEF ByHand, NewLaunch
    <3> HIDE DEF closed
    <3>3. QED
      BY <3>1, <3>2, OverFacts, JobUpdates
  <2>2. runner' \in [Slots -> Runner]
    <3>1. [NoRunner EXCEPT !.at = "asked"] \in Runner
      BY DEF NoRunner, Runner
    <3>2. QED
      BY <1>3, <3>1 DEF TypeOK, ByHand, NewLaunch
  <2>3. /\ entry' \in [Changes -> States] /\ order' \in Seq(Changes)
       /\ holder' \in {"queue", "classic", "none"} /\ inLine' \in BOOLEAN
       /\ launching' \in SUBSET Slots /\ failures' \in 0 .. 3
       /\ cooling' \in BOOLEAN /\ remote' \in Seq(SUBSET Changes)
       /\ faults' \in Nat
    BY <1>3, EntryTypes, OverFacts, MemoryTypes DEF ByHand, TypeOK, queue, Fault
  <2>4. QED
    BY <2>1, <2>2, <2>3 DEF TypeOK
<1>4. ASSUME PumpIdle PROVE TypeOK'
  BY <1>4, LeaseTypes, MemoryTypes DEF PumpIdle, TypeOK, queue
<1>5. ASSUME PumpQueues PROVE TypeOK'
  BY <1>5 DEF PumpQueues, TypeOK, queue, memory
<1>6. ASSUME NEW l \in Slots, PumpLaunches(l) PROVE TypeOK'
  <2>1. jobs' \in [Slots -> Job]
    <3>1. PICK m \in Machines :
            jobs' = [jobs EXCEPT ![l] = [Over EXCEPT !.open = TRUE, !.machine = m]]
      BY <1>6 DEF PumpLaunches, NewLaunch
    <3>2. QED
      BY <3>1, OverFacts, JobUpdates DEF TypeOK
  <2>2. runner' \in [Slots -> Runner]
    <3>1. [NoRunner EXCEPT !.at = "asked"] \in Runner
      BY DEF NoRunner, Runner
    <3>2. QED
      BY <1>6, <3>1 DEF TypeOK, PumpLaunches, NewLaunch
  <2>3. /\ entry' \in [Changes -> States] /\ order' \in Seq(Changes)
       /\ holder' \in {"queue", "classic", "none"} /\ inLine' \in BOOLEAN
       /\ launching' \in SUBSET Slots /\ failures' \in 0 .. 3
       /\ cooling' \in BOOLEAN /\ remote' \in Seq(SUBSET Changes)
       /\ faults' \in Nat
    BY <1>6 DEF PumpLaunches, TypeOK, queue
  <2>4. QED
    BY <2>1, <2>2, <2>3 DEF TypeOK
<1>7. ASSUME CoolDown PROVE TypeOK'
  BY <1>7 DEF CoolDown, TypeOK, queue, lease
<1>8. ASSUME Restart PROVE TypeOK'
  <2>1. runner' \in [Slots -> Runner]
    <3>1. NoRunner \in Runner
      BY DEF NoRunner, Runner
    <3>2. QED
      BY <1>8, <3>1 DEF Restart, TypeOK
  <2>2. /\ entry' \in [Changes -> States] /\ order' \in Seq(Changes)
       /\ jobs' \in [Slots -> Job] /\ holder' \in {"queue", "classic", "none"}
       /\ inLine' \in BOOLEAN /\ launching' \in SUBSET Slots
       /\ failures' \in 0 .. 3 /\ cooling' \in BOOLEAN
       /\ remote' \in Seq(SUBSET Changes) /\ faults' \in Nat
    BY <1>8, MemoryTypes DEF Restart, TypeOK, queue, lease, Fault, Forgets
  <2>3. QED
    BY <2>1, <2>2 DEF TypeOK
<1>9. ASSUME NEW l \in Slots, LaunchStarted(l) PROVE TypeOK'
  BY <1>9 DEF LaunchStarted, TypeOK, queue, lease
<1>10. ASSUME NEW l \in Slots, LaunchRejected(l) PROVE TypeOK'
  <2>1. /\ jobs' \in [Slots -> Job] /\ holder' \in {"queue", "classic", "none"}
       /\ inLine' \in BOOLEAN /\ failures' \in 0 .. 3 /\ cooling' \in BOOLEAN
    <3>1. CASE LaunchFailed(l)
      BY <3>1, EndedFacts, LeaseTypes, MemoryTypes DEF TypeOK, LaunchFailed
    <3>2. CASE UNCHANGED <<jobs, lease, failures, cooling>>
      BY <3>2 DEF TypeOK, lease
    <3>3. QED
      BY <1>10, <3>1, <3>2 DEF LaunchRejected
  <2>2. /\ entry' \in [Changes -> States] /\ order' \in Seq(Changes)
       /\ launching' \in SUBSET Slots /\ runner' \in [Slots -> Runner]
       /\ remote' \in Seq(SUBSET Changes) /\ faults' \in Nat
    BY <1>10 DEF LaunchRejected, TypeOK, lease, Fault
  <2>3. QED
    BY <2>1, <2>2 DEF TypeOK
<1>11. ASSUME NEW l \in Slots, SweepRun(l) PROVE TypeOK'
  <2>1. entry' \in [Changes -> States]
    BY <1>11, EntryTypes DEF SweepRun, Abandon
  <2>2. jobs' \in [Slots -> Job]
    BY <1>11, AbandonedFacts DEF SweepRun, Abandon, TypeOK
  <2>3. /\ order' \in Seq(Changes) /\ holder' \in {"queue", "classic", "none"}
       /\ inLine' \in BOOLEAN /\ launching' \in SUBSET Slots
       /\ failures' \in 0 .. 3 /\ cooling' \in BOOLEAN
       /\ runner' \in [Slots -> Runner] /\ remote' \in Seq(SUBSET Changes)
       /\ faults' \in Nat
    BY <1>11, LeaseTypes, MemoryTypes DEF SweepRun, TypeOK, lease
  <2>4. QED
    BY <2>1, <2>2, <2>3 DEF TypeOK
<1>12. ASSUME NEW l \in Slots, SweepLaunch(l) PROVE TypeOK'
  <2>1. /\ jobs' \in [Slots -> Job] /\ holder' \in {"queue", "classic", "none"}
       /\ inLine' \in BOOLEAN /\ failures' \in 0 .. 3 /\ cooling' \in BOOLEAN
    <3>1. CASE LaunchFailed(l)
      BY <3>1, EndedFacts, LeaseTypes, MemoryTypes DEF TypeOK, LaunchFailed
    <3>2. CASE jobs' = [jobs EXCEPT ![l] = Over] /\ UNCHANGED <<lease, failures, cooling>>
      BY <3>2, OverFacts DEF TypeOK, lease
    <3>3. QED
      BY <1>12, <3>1, <3>2 DEF SweepLaunch
  <2>2. /\ entry' \in [Changes -> States] /\ order' \in Seq(Changes)
       /\ launching' \in SUBSET Slots /\ runner' \in [Slots -> Runner]
       /\ remote' \in Seq(SUBSET Changes) /\ faults' \in Nat
    BY <1>12, OverFacts DEF SweepLaunch, TypeOK, lease
  <2>3. QED
    BY <2>1, <2>2 DEF TypeOK
<1>13. ASSUME NEW l \in Slots, RunnerExited(l) PROVE TypeOK'
  <2>1. /\ entry' \in [Changes -> States] /\ jobs' \in [Slots -> Job]
       /\ holder' \in {"queue", "classic", "none"} /\ inLine' \in BOOLEAN
       /\ failures' \in 0 .. 3 /\ cooling' \in BOOLEAN
    <3>1. CASE LaunchFailed(l) /\ UNCHANGED entry
      BY <3>1, EndedFacts, LeaseTypes, MemoryTypes DEF TypeOK, LaunchFailed
    <3>2. CASE Abandon(l) /\ RecordFailure /\ ReleaseLease
      BY <3>2, AbandonedFacts, EntryTypes, LeaseTypes, MemoryTypes DEF TypeOK, Abandon
    <3>3. QED
      BY <1>13, <3>1, <3>2 DEF RunnerExited
  <2>2. /\ order' \in Seq(Changes) /\ launching' \in SUBSET Slots
       /\ runner' \in [Slots -> Runner] /\ remote' \in Seq(SUBSET Changes)
       /\ faults' \in Nat
    BY <1>13, LeaseTypes, MemoryTypes DEF RunnerExited, TypeOK
  <2>3. QED
    BY <2>1, <2>2 DEF TypeOK
<1>14. ASSUME NEW l \in Slots, FallsSilent(l) PROVE TypeOK'
  <2>1. jobs' \in [Slots -> Job]
    BY <1>14 DEF TypeOK, FallsSilent, Job
  <2>2. /\ entry' \in [Changes -> States] /\ order' \in Seq(Changes)
       /\ holder' \in {"queue", "classic", "none"} /\ inLine' \in BOOLEAN
       /\ launching' \in SUBSET Slots /\ failures' \in 0 .. 3
       /\ cooling' \in BOOLEAN /\ runner' \in [Slots -> Runner]
       /\ remote' \in Seq(SUBSET Changes) /\ faults' \in Nat
    BY <1>14 DEF FallsSilent, TypeOK, lease, memory, Fault
  <2>3. QED
    BY <2>1, <2>2 DEF TypeOK
<1>15. ASSUME NEW l \in Slots, Spawns(l) PROVE TypeOK'
  BY <1>15, GoesToTypes DEF Spawns, TypeOK, queue, lease, memory
<1>16. ASSUME NEW l \in Slots, Fetches(l) PROVE TypeOK'
  <2>1. runner' \in [Slots -> Runner]
    <3>1. runner' = [runner EXCEPT ![l] = [runner[l] EXCEPT !.at = "fetched",
                                                            !.base = Len(remote)]]
      BY <1>16 DEF TypeOK, Fetches
    <3>2. Len(remote) \in Nat
      BY DEF TypeOK
    <3>3. \A n \in Nat : [runner[l] EXCEPT !.at = "fetched", !.base = n] \in Runner
      BY DEF TypeOK, Runner
    <3>4. QED
      BY <3>1, <3>2, <3>3 DEF TypeOK
  <2>2. /\ entry' \in [Changes -> States] /\ order' \in Seq(Changes)
       /\ jobs' \in [Slots -> Job] /\ holder' \in {"queue", "classic", "none"}
       /\ inLine' \in BOOLEAN /\ launching' \in SUBSET Slots
       /\ failures' \in 0 .. 3 /\ cooling' \in BOOLEAN
       /\ remote' \in Seq(SUBSET Changes) /\ faults' \in Nat
    BY <1>16 DEF Fetches, TypeOK, queue, lease, memory
  <2>3. QED
    BY <2>1, <2>2 DEF TypeOK
<1>17. ASSUME NEW l \in Slots, Claims(l) PROVE TypeOK'
  <2>1. entry' \in [Changes -> States]
    BY <1>17 DEF TypeOK, Claims, States
  <2>2. jobs' \in [Slots -> Job]
    <3>1. jobs' = [jobs EXCEPT ![l] = [jobs[l] EXCEPT !.run = "running", !.batch = Pending,
                                                       !.late = FALSE]]
      BY <1>17 DEF TypeOK, Claims
    <3>2. Pending \in SUBSET Changes /\ jobs[l] \in Job
      BY DEF Pending, TypeOK
    <3>3. QED
      BY <3>1, <3>2, JobUpdates DEF TypeOK
  <2>3. /\ order' \in Seq(Changes) /\ holder' \in {"queue", "classic", "none"}
       /\ inLine' \in BOOLEAN /\ launching' \in SUBSET Slots
       /\ failures' \in 0 .. 3 /\ cooling' \in BOOLEAN
       /\ runner' \in [Slots -> Runner] /\ remote' \in Seq(SUBSET Changes)
       /\ faults' \in Nat
    BY <1>17, GoesToTypes DEF Claims, TypeOK, lease, memory
  <2>4. QED
    BY <2>1, <2>2, <2>3 DEF TypeOK
<1>18. ASSUME NEW l \in Slots, ClaimsNothing(l) PROVE TypeOK'
  BY <1>18, OverFacts, LeaseTypes, GoesToTypes DEF ClaimsNothing, TypeOK, memory
<1>19. ASSUME NEW l \in Slots, ClaimRefused(l) PROVE TypeOK'
  BY <1>19, GoesToTypes DEF ClaimRefused, TypeOK, queue, lease, memory
<1>20. ASSUME NEW l \in Slots, NEW r \in Slots, Reconciles(l, r) PROVE TypeOK'
  BY <1>20, EntryTypes, OverFacts DEF Reconciles, TypeOK, lease, memory
<1>21. ASSUME NEW l \in Slots, Plans(l) PROVE TypeOK'
  <2>1. jobs' \in [Slots -> Job]
    <3>1. PICK keep \in SUBSET (jobs[l].batch \ OnBase(l)) :
            jobs' = jobs \/ jobs' = [jobs EXCEPT ![l].plan = keep, ![l].late = FALSE]
      BY <1>21 DEF Plans
    <3>2. keep \in SUBSET Changes /\ jobs[l] \in Job
      BY DEF TypeOK, Job
    <3>3. [jobs[l] EXCEPT !.plan = keep, !.late = FALSE] \in Job
      BY <3>2, JobUpdates
    <3>4. CASE jobs' = [jobs EXCEPT ![l].plan = keep, ![l].late = FALSE]
      <4>1. jobs' = [jobs EXCEPT ![l] = [jobs[l] EXCEPT !.plan = keep, !.late = FALSE]]
        BY <3>4 DEF TypeOK
      <4>2. QED
        BY <3>3, <4>1 DEF TypeOK
    <3>5. QED
      BY <3>1, <3>4 DEF TypeOK
  <2>2. runner' \in [Slots -> Runner]
    <3>1. PICK keep \in SUBSET (jobs[l].batch \ OnBase(l)), at \in {"planned", "ending"} :
            runner' = [runner EXCEPT ![l].at = at, ![l].keep = keep,
                                     ![l].bounce = jobs[l].batch \ keep]
      BY <1>21 DEF Plans
    <3>2. keep \in SUBSET Changes /\ jobs[l].batch \ keep \in SUBSET Changes
      BY DEF TypeOK, Job
    <3>3. \A b \in SUBSET Changes :
              [runner[l] EXCEPT !.at = at, !.keep = keep, !.bounce = b] \in Runner
      BY <3>2 DEF TypeOK, Runner
    <3>4. runner' = [runner EXCEPT ![l] = [runner[l] EXCEPT !.at = at, !.keep = keep,
                                              !.bounce = jobs[l].batch \ keep]]
      BY <3>1 DEF TypeOK
    <3>5. QED
      BY <3>2, <3>3, <3>4 DEF TypeOK
  <2>3. /\ entry' \in [Changes -> States] /\ order' \in Seq(Changes)
       /\ holder' \in {"queue", "classic", "none"} /\ inLine' \in BOOLEAN
       /\ launching' \in SUBSET Slots /\ failures' \in 0 .. 3
       /\ cooling' \in BOOLEAN /\ remote' \in Seq(SUBSET Changes)
       /\ faults' \in Nat
    BY <1>21 DEF Plans, TypeOK, lease, memory
  <2>4. QED
    BY <2>1, <2>2, <2>3 DEF TypeOK
<1>22. ASSUME NEW l \in Slots, RenewsLease(l) PROVE TypeOK'
  BY <1>22, GoesToTypes DEF RenewsLease, TypeOK, queue, lease, memory
<1>23. ASSUME NEW l \in Slots, Pushes(l) PROVE TypeOK'
  <2>1. jobs' \in [Slots -> Job] /\ remote' \in Seq(SUBSET Changes)
    <3>1. remote' \in Seq(SUBSET Changes)
      BY <1>23 DEF TypeOK, Pushes, Runner
    <3>2. jobs' = jobs \/ jobs' = [jobs EXCEPT ![l] = [jobs[l] EXCEPT !.tip = Len(remote')]]
      BY <1>23 DEF TypeOK, Pushes
    <3>3. Len(remote') \in Nat /\ jobs[l] \in Job
      BY <3>1 DEF TypeOK
    <3>4. [jobs[l] EXCEPT !.tip = Len(remote')] \in Job
      BY <3>3, JobUpdates
    <3>5. jobs' \in [Slots -> Job]
      BY <3>2, <3>4 DEF TypeOK
    <3>6. QED
      BY <3>1, <3>5
  <2>2. /\ entry' \in [Changes -> States] /\ order' \in Seq(Changes)
       /\ holder' \in {"queue", "classic", "none"} /\ inLine' \in BOOLEAN
       /\ launching' \in SUBSET Slots /\ failures' \in 0 .. 3
       /\ cooling' \in BOOLEAN /\ runner' \in [Slots -> Runner] /\ faults' \in Nat
    BY <1>23, OverFacts, GoesToTypes DEF Pushes, TypeOK, lease, memory, Fault
  <2>3. QED
    BY <2>1, <2>2 DEF TypeOK
<1>24. ASSUME NEW l \in Slots, PushRejected(l) PROVE TypeOK'
  BY <1>24, GoesToTypes DEF PushRejected, TypeOK, queue, lease, memory, Fault
<1>25. ASSUME NEW l \in Slots, Finishes(l) PROVE TypeOK'
  BY <1>25, EntryTypes, OverFacts, LeaseTypes, MemoryTypes, GoesToTypes DEF Finishes, TypeOK, lease, Fault, Forgets
<1>26. ASSUME NEW l \in Slots, FinishRefused(l) PROVE TypeOK'
  BY <1>26, GoesToTypes DEF FinishRefused, TypeOK, queue, lease, memory
<1>27. ASSUME NEW l \in Slots, Reports(l) PROVE TypeOK'
  <2>1. jobs' \in [Slots -> Job]
    <3>1. jobs \in [Slots -> Job] /\ jobs' = [jobs EXCEPT ![l].late = FALSE]
      BY <1>27 DEF TypeOK, Reports
    <3>2. QED
      BY ONLY <3>1 DEF Job
  <2>2. /\ entry' \in [Changes -> States] /\ order' \in Seq(Changes)
       /\ holder' \in {"queue", "classic", "none"} /\ inLine' \in BOOLEAN
       /\ launching' \in SUBSET Slots /\ failures' \in 0 .. 3
       /\ cooling' \in BOOLEAN /\ runner' \in [Slots -> Runner]
       /\ remote' \in Seq(SUBSET Changes) /\ faults' \in Nat
    BY <1>27 DEF Reports, TypeOK, lease, memory
  <2>3. QED
    BY <2>1, <2>2 DEF TypeOK
<1>28. ASSUME NEW l \in Slots, Throws(l) PROVE TypeOK'
  <2>1. runner' \in [Slots -> Runner]
    <3>1. PICK bounced \in IF runner[l].at = "planned" THEN {runner[l].bounce}
                            ELSE SUBSET jobs[l].batch :
             runner' = [runner EXCEPT ![l].at = "ending", ![l].bounce = bounced]
      BY <1>28 DEF Throws
    <3>2. bounced \in SUBSET Changes
      BY <3>1 DEF TypeOK, Runner, Job
    <3>3. runner \in [Slots -> Runner]
      BY DEF TypeOK
    <3>4. QED
      BY ONLY <3>1, <3>2, <3>3 DEF Runner
  <2>2. /\ entry' \in [Changes -> States] /\ order' \in Seq(Changes)
       /\ jobs' \in [Slots -> Job] /\ holder' \in {"queue", "classic", "none"}
       /\ inLine' \in BOOLEAN /\ launching' \in SUBSET Slots
       /\ failures' \in 0 .. 3 /\ cooling' \in BOOLEAN
       /\ remote' \in Seq(SUBSET Changes) /\ faults' \in Nat
    BY <1>28 DEF Throws, TypeOK, queue, lease, memory, Fault
  <2>3. QED
    BY <2>1, <2>2 DEF TypeOK
<1>29. ASSUME NEW l \in Slots, Dies(l) PROVE TypeOK'
  BY <1>29, GoesToTypes DEF Dies, TypeOK, queue, lease, memory, Fault
<1>30. ASSUME LeaseTaken PROVE TypeOK'
  BY <1>30 DEF LeaseTaken, TypeOK, queue, memory, Fault
<1>31. ASSUME ClassicAcquires PROVE TypeOK'
  BY <1>31 DEF ClassicAcquires, TypeOK, queue, memory
<1>32. ASSUME ClassicPushes PROVE TypeOK'
  BY <1>32 DEF ClassicPushes, TypeOK, queue, lease, memory
<1>33. ASSUME ClassicReleases PROVE TypeOK'
  BY <1>33 DEF ClassicReleases, TypeOK, queue, memory
<1>34. CASE UNCHANGED vars
  BY <1>34 DEF TypeOK, vars, queue, lease, memory
<1>35. QED
  BY <1>1, <1>2, <1>3, <1>4, <1>5, <1>6, <1>7, <1>8, <1>9, <1>10, <1>11, <1>12,
     <1>13, <1>14, <1>15, <1>16, <1>17, <1>18, <1>19, <1>20, <1>21, <1>22, <1>23, <1>24,
     <1>25, <1>26, <1>27, <1>28, <1>29, <1>30, <1>31, <1>32, <1>33, <1>34
  DEF Next, Pump, Launch, TakeBack, RunnerStep

-----------------------------------------------------------------------------
(***************************************************************************)
(* One runner, and the runs of entries.                                    *)
(***************************************************************************)
\* What an entry that is not running becomes is not running either, and back.
SameRunning == \A c \in Changes : (entry'[c] = "running") = (entry[c] = "running")

\* A step that leaves runs and their batches alone and opens no launch.
LEMMA QuietKeeps ==
    ASSUME IInv, SameRunning,
           \A r \in Slots : /\ jobs'[r].run = jobs[r].run
                            /\ jobs'[r].batch = jobs[r].batch
                            /\ jobs'[r].open => jobs[r].open
    PROVE  OneRunner' /\ EntriesFollowRuns'
<1>1. \A r \in Slots : Active(r)' => Active(r)
  BY DEF Active, Unclaimed, Running
<1>2. \A r \in Slots, c \in Changes : Carries(r, c)' = Carries(r, c)
  BY DEF Carries, Running, Unreconciled
<1>3. \A c \in Changes : (entry[c] = "running") = (\E r \in Slots : Carries(r, c))
  BY Carriers DEF IInv
<1>4. Narrows
  BY <1>1, <1>2, <1>3 DEF Narrows, SameRunning
<1>5. QED
  BY <1>4, NarrowsKeeps DEF IInv

\* A step that settles the job of l: what it carried is not running any more.
LEMMA SettledKeeps ==
    ASSUME IInv, NEW l \in Slots,
           jobs'[l].run = "none", ~jobs'[l].open,
           \A r \in Slots \ {l} : jobs'[r] = jobs[r],
           \A c \in Changes :
               (entry'[c] = "running") = (entry[c] = "running" /\ ~Carries(l, c))
    PROVE  OneRunner' /\ EntriesFollowRuns'
<1>1. ~Active(l)' /\ \A c \in Changes : ~Carries(l, c)'
  BY DEF Active, Unclaimed, Running, Carries, Unreconciled
<1>2. \A r \in Slots \ {l} : /\ Active(r)' => Active(r)
                             /\ \A c \in Changes : Carries(r, c)' = Carries(r, c)
  BY DEF Active, Unclaimed, Running, Carries, Unreconciled
<1>3. \A c \in Changes :
         /\ (entry[c] = "running") = (\E r \in Slots : Carries(r, c))
         /\ \A q, r \in Slots : Carries(q, c) /\ Carries(r, c) => q = r
  BY Carriers DEF IInv
<1>4. \A c \in Changes : (entry'[c] = "running") = (\E r \in Slots : Carries(r, c)')
  <2>1. ASSUME NEW c \in Changes
        PROVE  (entry[c] = "running" /\ ~Carries(l, c)) = (\E r \in Slots : Carries(r, c)')
    <3>1. ASSUME entry[c] = "running", ~Carries(l, c) PROVE \E r \in Slots : Carries(r, c)'
      BY <1>2, <1>3, <3>1
    <3>2. ASSUME NEW r \in Slots, Carries(r, c)' PROVE entry[c] = "running" /\ ~Carries(l, c)
      <4>1. r # l /\ Carries(r, c)
        BY <1>1, <1>2, <3>2
      <4>2. QED
        BY <1>3, <4>1
    <3>3. QED
      BY <3>1, <3>2
  <2>2. QED
    BY ONLY <2>1,
       \A c \in Changes :
          (entry'[c] = "running") = (entry[c] = "running" /\ ~Carries(l, c))
<1>5. Narrows
  BY <1>1, <1>2, <1>4 DEF Narrows
<1>6. QED
  BY <1>5, NarrowsKeeps DEF IInv

\* Taking the run of l back leaves its changes to a later runner or to the queue.
LEMMA AbandonKeeps ==
    ASSUME IInv, NEW l \in Slots, Running(l), Abandon(l)
    PROVE  OneRunner' /\ EntriesFollowRuns'
<1> USE DEF IInv
<1>1. jobs'[l] = Abandoned(l) /\ \A r \in Slots \ {l} : jobs'[r] = jobs[r]
  BY DEF Abandon, TypeOK
<1>2. CASE jobs[l].plan = {}
  <2>1. \A c \in Changes :
           (entry'[c] = "running") = (entry[c] = "running" /\ c \notin jobs[l].batch)
    BY <1>2 DEF Abandon, Freed, Requeued, TypeOK
  <2>2. jobs'[l].run = "none" /\ ~jobs'[l].open
    BY <1>1, <1>2, AbandonedFacts, OverFacts
  <2>3. \A c \in Changes : Carries(l, c) = (c \in jobs[l].batch)
    BY DEF Carries
  <2>4. QED
    BY <1>1, <2>1, <2>2, <2>3, SettledKeeps
<1>3. CASE jobs[l].plan # {}
  <2>1. entry' = entry
    BY <1>3 DEF Abandon, Freed, Requeued, TypeOK
  <2>2. ~Active(l)' /\ \A c \in Changes : Carries(l, c)' = Carries(l, c)
    BY <1>1, <1>3, AbandonedFacts
    DEF Active, Unclaimed, Running, Carries, Unreconciled
  <2>3. \A r \in Slots \ {l} : /\ Active(r)' => Active(r)
                               /\ \A c \in Changes : Carries(r, c)' = Carries(r, c)
    BY <1>1 DEF Active, Unclaimed, Running, Carries, Unreconciled
  <2>4. \A c \in Changes : (entry[c] = "running") = (\E r \in Slots : Carries(r, c))
    BY Carriers
  <2>5. \A c \in Changes : (entry'[c] = "running") = (\E r \in Slots : Carries(r, c)')
    BY <2>1, <2>2, <2>3, <2>4
  <2>6. Narrows
    BY <2>2, <2>3, <2>5 DEF Narrows
  <2>7. QED
    BY <2>6, NarrowsKeeps
<1>4. QED
  BY <1>2, <1>3

\* A launch that failed leaves its run, if it has one, under way.
LEMMA LaunchFailedKeeps ==
    ASSUME IInv, NEW l \in Slots, LaunchFailed(l), UNCHANGED entry
    PROVE  OneRunner' /\ EntriesFollowRuns'
<1>1. jobs'[l] = Ended(l) /\ \A r \in Slots \ {l} : jobs'[r] = jobs[r]
  BY DEF LaunchFailed, IInv, TypeOK
<1>2. CASE Unclaimed(l)
  <2>1. jobs'[l] = Over
    BY <1>1, <1>2, EndedFacts DEF IInv
  <2>2. \A c \in Changes : ~Carries(l, c)
    BY <1>2 DEF Carries, Unclaimed, Running, Unreconciled
  <2>3. QED
    BY <1>1, <2>1, <2>2, OverFacts, SettledKeeps
<1>3. CASE ~Unclaimed(l)
  <2>1. \A r \in Slots : /\ jobs'[r].run = jobs[r].run
                         /\ jobs'[r].batch = jobs[r].batch
                         /\ jobs'[r].open => jobs[r].open
    BY <1>1, <1>3, EndedFacts DEF IInv
  <2>2. QED
    BY <2>1, QuietKeeps DEF SameRunning
<1>4. QED
  BY <1>2, <1>3

\* A settled run of l with its outcomes.
LEMMA OutcomeKeeps ==
    ASSUME IInv, NEW l \in Slots, Running(l) \/ Unreconciled(l), NEW landed, NEW bounced,
           jobs' = [jobs EXCEPT ![l] = Over],
           entry' = Outcome(jobs[l].batch, landed, bounced)
    PROVE  OneRunner' /\ EntriesFollowRuns'
<1>1. jobs'[l] = Over /\ \A r \in Slots \ {l} : jobs'[r] = jobs[r]
  BY DEF IInv, TypeOK
<1>2. \A c \in Changes :
         (entry'[c] = "running") = (entry[c] = "running" /\ c \notin jobs[l].batch)
  <2>1. \A c \in Changes \ jobs[l].batch : entry'[c] = entry[c]
    BY DEF Outcome
  <2>2. \A c \in Changes : c \in jobs[l].batch => entry'[c] # "running"
    BY DEF Outcome
  <2>3. QED
    BY <2>1, <2>2
<1>3. \A c \in Changes : Carries(l, c) = (c \in jobs[l].batch)
  BY DEF Carries
<1>4. QED
  BY <1>1, <1>2, <1>3, OverFacts, SettledKeeps

\* Each step keeps one runner and the runs of entries.
LEMMA OneRunnerStep ==
    IInv /\ [Next]_vars => OneRunner' /\ EntriesFollowRuns'
<1> SUFFICES ASSUME IInv, [Next]_vars PROVE OneRunner' /\ EntriesFollowRuns'
  OBVIOUS
<1>1. ASSUME NEW c \in Changes, Submit(c) PROVE OneRunner' /\ EntriesFollowRuns'
  BY <1>1, QuietKeeps DEF Submit, SameRunning, IInv, TypeOK
<1>2. ASSUME NEW c \in Changes, Withdraw(c) PROVE OneRunner' /\ EntriesFollowRuns'
  BY <1>2, QuietKeeps DEF Withdraw, SameRunning, IInv, TypeOK
<1>3. ASSUME NEW l \in Slots, NEW m \in Machines, ByHand(l, m) PROVE OneRunner' /\ EntriesFollowRuns'
  <2> DEFINE closed == [r \in Slots |-> IF Running(r) THEN Abandoned(r)
                                      ELSE IF Unclaimed(r) THEN Over ELSE jobs[r]]
  <2>1. /\ jobs' = [closed EXCEPT ![l] = [Over EXCEPT !.open = TRUE, !.machine = m]]
        /\ closed[l] = Over
        /\ entry' = Requeued(UNION {Freed(r) : r \in {q \in Slots : Running(q)}})
    BY <1>3 DEF ByHand, NewLaunch
  <2>2. /\ jobs'[l].run = "none"
        /\ \A r \in Slots \ {l} : jobs'[r] = closed[r]
    BY <2>1, OverFacts DEF Job
  <2>3. \A r \in Slots \ {l} : ~Active(r)'
    <3> SUFFICES ASSUME NEW r \in Slots \ {l} PROVE ~Active(r)'
      OBVIOUS
    <3>1. CASE Running(r)
      BY <2>2, <3>1, AbandonedFacts, OverFacts DEF IInv, Active, Unclaimed, Running
    <3>2. CASE ~Running(r) /\ Unclaimed(r)
      BY <2>2, <3>2, OverFacts DEF Active, Unclaimed, Running
    <3>3. CASE ~Running(r) /\ ~Unclaimed(r)
      BY <2>2, <3>3 DEF Active, Unclaimed, Running
    <3>4. QED
      BY <3>1, <3>2, <3>3
  <2>4. OneRunner'
    BY <2>3 DEF OneRunner, Active
  <2>5. \A r \in Slots, c \in Changes :
           Carries(r, c)' = (Carries(r, c) /\ ~(Running(r) /\ c \in Freed(r)))
    <3> SUFFICES ASSUME NEW r \in Slots, NEW c \in Changes
                 PROVE  Carries(r, c)' = (Carries(r, c) /\ ~(Running(r) /\ c \in Freed(r)))
      OBVIOUS
    <3> DEFINE j == IF r = l THEN Over ELSE closed[r]
    <3>1. Carries(r, c)' = (j.run \in {"running", "abandoned"} /\ c \in j.batch)
      BY <2>1, <2>2, OverFacts DEF Carries, Running, Unreconciled
    <3>2. j = closed[r]
      BY <2>1
    <3>3. CASE Running(r)
      BY <3>1, <3>2, <3>3, AbandonedFacts, OverFacts
      DEF IInv, Carries, Running, Unreconciled, Freed
    <3>4. CASE ~Running(r) /\ Unclaimed(r)
      BY <3>1, <3>2, <3>4, OverFacts DEF Carries, Running, Unreconciled, Unclaimed
    <3>5. CASE ~Running(r) /\ ~Unclaimed(r)
      BY <3>1, <3>2, <3>5 DEF Carries, Running, Unreconciled
    <3>6. QED
      BY <3>3, <3>4, <3>5
  <2>6. \A c \in Changes :
           /\ (entry[c] = "running") = (\E r \in Slots : Carries(r, c))
           /\ \A q, r \in Slots : Carries(q, c) /\ Carries(r, c) => q = r
    BY Carriers DEF IInv
  <2>7. \A r \in Slots, c \in Changes : Running(r) /\ c \in Freed(r) => Carries(r, c)
    BY DEF Carries, Freed
  <2>8. \A c \in Changes :
           (entry'[c] = "running")
             = (entry[c] = "running" /\ ~\E r \in Slots : Running(r) /\ c \in Freed(r))
    <3> DEFINE freed == UNION {Freed(r) : r \in {q \in Slots : Running(q)}}
    <3>1. \A c : c \in freed <=> \E r \in Slots : Running(r) /\ c \in Freed(r)
      BY Zenon
    <3>2. \A c \in Changes : (entry'[c] = "running") = (entry[c] = "running" /\ c \notin freed)
      BY <2>1 DEF Requeued
    <3> HIDE DEF freed
    <3>3. QED
      BY <3>1, <3>2
  <2>9. EntriesFollowRuns'
    <3>1. \A c \in Changes, q, r \in Slots : Carries(q, c)' /\ Carries(r, c)' => q = r
      BY <2>5, <2>6
    <3>2. \A c \in Changes : entry'[c] = "running" => \E r \in Slots : Carries(r, c)'
      BY <2>5, <2>6, <2>8
    <3>3. \A c \in Changes, r \in Slots : Carries(r, c)' => entry'[c] = "running"
      <4> SUFFICES ASSUME NEW c \in Changes, NEW r \in Slots, Carries(r, c)'
                   PROVE  entry'[c] = "running"
        OBVIOUS
      <4>1. Carries(r, c) /\ ~(Running(r) /\ c \in Freed(r))
        BY <2>5
      <4>2. ~\E q \in Slots : Running(q) /\ c \in Freed(q)
        BY <2>6, <2>7, <4>1
      <4>3. entry[c] = "running"
        BY <2>6, <4>1
      <4>4. QED
        BY <2>8, <4>2, <4>3
    <3>4. QED
      BY <3>1, <3>2, <3>3, CarriersNext
  <2>10. QED
    BY <2>4, <2>9
<1>4. ASSUME PumpIdle PROVE OneRunner' /\ EntriesFollowRuns'
  BY <1>4, QuietKeeps DEF PumpIdle, SameRunning, queue
<1>5. ASSUME PumpQueues PROVE OneRunner' /\ EntriesFollowRuns'
  BY <1>5, QuietKeeps DEF PumpQueues, SameRunning, queue
<1>6. ASSUME NEW l \in Slots, PumpLaunches(l) PROVE OneRunner' /\ EntriesFollowRuns'
  <2>1. jobs'[l].run = "none" /\ \A r \in Slots \ {l} : jobs'[r] = jobs[r]
    BY <1>6, OverFacts DEF PumpLaunches, NewLaunch, IInv, TypeOK, Job
  <2>2. jobs[l] = Over /\ entry' = entry
    BY <1>6 DEF PumpLaunches, NewLaunch
  <2>3. \A r \in Slots : ~Active(r)
    BY <1>6 DEF PumpLaunches, CanLaunch, AnyRunning, Active
  <2>4. OneRunner'
    BY <2>1, <2>3 DEF OneRunner, Active, Unclaimed, Running
  <2>5. \A r \in Slots, c \in Changes : Carries(r, c)' = Carries(r, c)
    BY <2>1, <2>2, OverFacts DEF Carries, Running, Unreconciled
  <2>6. EntriesFollowRuns'
    BY <2>2, <2>5, Carriers, CarriersNext DEF IInv
  <2>7. QED
    BY <2>4, <2>6
<1>7. ASSUME CoolDown PROVE OneRunner' /\ EntriesFollowRuns'
  BY <1>7, QuietKeeps DEF CoolDown, SameRunning, queue
<1>8. ASSUME Restart PROVE OneRunner' /\ EntriesFollowRuns'
  BY <1>8, QuietKeeps DEF Restart, SameRunning, queue
<1>9. ASSUME NEW l \in Slots, LaunchStarted(l) PROVE OneRunner' /\ EntriesFollowRuns'
  BY <1>9, QuietKeeps DEF LaunchStarted, SameRunning, queue
<1>10. ASSUME NEW l \in Slots, LaunchRejected(l) PROVE OneRunner' /\ EntriesFollowRuns'
  <2>1. CASE LaunchFailed(l)
    BY <1>10, <2>1, LaunchFailedKeeps DEF LaunchRejected
  <2>2. CASE UNCHANGED jobs
    BY <1>10, <2>2, QuietKeeps DEF LaunchRejected, SameRunning
  <2>3. QED
    BY <1>10, <2>1, <2>2 DEF LaunchRejected
<1>11. ASSUME NEW l \in Slots, SweepRun(l) PROVE OneRunner' /\ EntriesFollowRuns'
  BY <1>11, AbandonKeeps DEF SweepRun
<1>12. ASSUME NEW l \in Slots, SweepLaunch(l) PROVE OneRunner' /\ EntriesFollowRuns'
  <2>1. CASE jobs' = [jobs EXCEPT ![l] = Over]
    <3>1. \A c \in Changes : ~Carries(l, c)
      BY <1>12 DEF SweepLaunch, Carries, Unclaimed, Running, Unreconciled
    <3>2. jobs'[l] = Over /\ \A r \in Slots \ {l} : jobs'[r] = jobs[r]
      BY <2>1 DEF IInv, TypeOK
    <3>3. QED
      BY <1>12, <3>1, <3>2, OverFacts, SettledKeeps DEF SweepLaunch
  <2>2. CASE LaunchFailed(l)
    BY <1>12, <2>2, LaunchFailedKeeps DEF SweepLaunch
  <2>3. QED
    BY <1>12, <2>1, <2>2 DEF SweepLaunch
<1>13. ASSUME NEW l \in Slots, RunnerExited(l) PROVE OneRunner' /\ EntriesFollowRuns'
  <2>1. CASE Running(l) /\ Abandon(l)
    BY <2>1, AbandonKeeps
  <2>2. CASE LaunchFailed(l) /\ UNCHANGED entry
    BY <2>2, LaunchFailedKeeps
  <2>3. QED
    BY <1>13, <2>1, <2>2 DEF RunnerExited
<1>14. ASSUME NEW l \in Slots, FallsSilent(l) PROVE OneRunner' /\ EntriesFollowRuns'
  <2>1. \A r \in Slots : /\ jobs'[r].run = jobs[r].run
                         /\ jobs'[r].batch = jobs[r].batch
                         /\ jobs'[r].open => jobs[r].open
    BY <1>14 DEF FallsSilent, IInv, TypeOK, Job
  <2>2. QED
    BY <1>14, <2>1, QuietKeeps DEF FallsSilent, SameRunning
<1>15. ASSUME NEW l \in Slots, Spawns(l) PROVE OneRunner' /\ EntriesFollowRuns'
  BY <1>15, QuietKeeps DEF Spawns, SameRunning, queue
<1>16. ASSUME NEW l \in Slots, Fetches(l) PROVE OneRunner' /\ EntriesFollowRuns'
  BY <1>16, QuietKeeps DEF Fetches, SameRunning, queue
<1>17. ASSUME NEW l \in Slots, Claims(l) PROVE OneRunner' /\ EntriesFollowRuns'
  <2>1. /\ jobs[l].run = "none" /\ Active(l)
        /\ \A r \in Slots : ~Unreconciled(r)
    BY <1>17 DEF Claims, Current, IInv, ClaimsOnce, Active, Unclaimed, AnyUnreconciled
  <2>2. /\ jobs'[l].run = "running" /\ jobs'[l].batch = Pending
        /\ \A r \in Slots \ {l} : jobs'[r] = jobs[r]
    BY <1>17 DEF Claims, IInv, TypeOK, Job
  <2>3. \A r \in Slots : Active(r)' => Active(r)
    BY <2>1, <2>2 DEF Active, Unclaimed, Running
  <2>4. OneRunner'
    BY <2>3 DEF IInv, OneRunner, Active
  <2>5. \A r \in Slots \ {l} : ~Running(r)
    BY <2>1 DEF IInv, OneRunner, Active
  <2>6. \A r \in Slots, c \in Changes : Carries(r, c)' = (r = l /\ c \in Pending)
    BY <2>1, <2>2, <2>5 DEF Carries, Running, Unreconciled
  <2>7. \A r \in Slots, c \in Changes : ~Carries(r, c)
    BY <2>1, <2>5 DEF Carries, Running, Unreconciled
  <2>8. \A c \in Changes : entry[c] # "running"
    BY <2>7, Carriers DEF IInv
  <2>9. \A c \in Changes : (entry'[c] = "running") = (c \in Pending)
    BY <1>17, <2>8 DEF Claims
  <2>10. EntriesFollowRuns'
    BY <2>6, <2>9, CarriersNext
  <2>11. QED
    BY <2>4, <2>10
<1>18. ASSUME NEW l \in Slots, ClaimsNothing(l) PROVE OneRunner' /\ EntriesFollowRuns'
  <2>1. jobs'[l] = Over /\ \A r \in Slots \ {l} : jobs'[r] = jobs[r]
    BY <1>18 DEF ClaimsNothing, IInv, TypeOK
  <2>2. jobs[l].run = "none"
    BY <1>18 DEF ClaimsNothing, IInv, ClaimsOnce
  <2>3. \A c \in Changes : ~Carries(l, c)
    BY <2>2 DEF Carries, Running, Unreconciled
  <2>4. QED
    BY <1>18, <2>1, <2>3, OverFacts, SettledKeeps DEF ClaimsNothing
<1>19. ASSUME NEW l \in Slots, ClaimRefused(l) PROVE OneRunner' /\ EntriesFollowRuns'
  BY <1>19, QuietKeeps DEF ClaimRefused, SameRunning, queue
<1>20. ASSUME NEW l \in Slots, NEW r \in Slots, Reconciles(l, r) PROVE OneRunner' /\ EntriesFollowRuns'
  <2>1. \E landed, bounced : entry' = Outcome(jobs[r].batch, landed, bounced)
    BY <1>20 DEF Reconciles
  <2>2. QED
    BY <1>20, <2>1, OutcomeKeeps DEF Reconciles
<1>21. ASSUME NEW l \in Slots, Plans(l) PROVE OneRunner' /\ EntriesFollowRuns'
  <2>1. PICK keep \in SUBSET (jobs[l].batch \ OnBase(l)) :
          jobs' = jobs \/ jobs' = [jobs EXCEPT ![l].plan = keep, ![l].late = FALSE]
    BY <1>21 DEF Plans
  <2>2. \A r \in Slots : /\ jobs'[r].run = jobs[r].run
                         /\ jobs'[r].batch = jobs[r].batch
                         /\ jobs'[r].open = jobs[r].open
    <3>1. jobs \in [Slots -> Job]
      BY DEF IInv, TypeOK
    <3>2. CASE jobs' = [jobs EXCEPT ![l].plan = keep, ![l].late = FALSE]
      BY ONLY <3>1, <3>2 DEF Job
    <3>3. QED
      BY <2>1, <3>2
  <2>3. QED
    BY <1>21, <2>2, QuietKeeps DEF Plans, SameRunning
<1>22. ASSUME NEW l \in Slots, RenewsLease(l) PROVE OneRunner' /\ EntriesFollowRuns'
  BY <1>22, QuietKeeps DEF RenewsLease, SameRunning, queue
<1>23. ASSUME NEW l \in Slots, Pushes(l) PROVE OneRunner' /\ EntriesFollowRuns'
  <2>1. \A r \in Slots : /\ jobs'[r].run = jobs[r].run
                         /\ jobs'[r].batch = jobs[r].batch
                         /\ jobs'[r].open => jobs[r].open
    BY <1>23 DEF Pushes, IInv, TypeOK, Job
  <2>2. QED
    BY <1>23, <2>1, QuietKeeps DEF Pushes, SameRunning
<1>24. ASSUME NEW l \in Slots, PushRejected(l) PROVE OneRunner' /\ EntriesFollowRuns'
  BY <1>24, QuietKeeps DEF PushRejected, SameRunning, queue
<1>25. ASSUME NEW l \in Slots, Finishes(l) PROVE OneRunner' /\ EntriesFollowRuns'
  <2> DEFINE landed == IF runner[l].at = "pushed" THEN runner[l].keep ELSE {}
  <2>1. /\ Running(l)
        /\ jobs' = [jobs EXCEPT ![l] = Over]
        /\ entry' = Outcome(jobs[l].batch, landed, runner[l].bounce)
    BY <1>25 DEF Finishes, OwnsRun
  <2>2. QED
    BY <2>1, OutcomeKeeps
<1>26. ASSUME NEW l \in Slots, FinishRefused(l) PROVE OneRunner' /\ EntriesFollowRuns'
  BY <1>26, QuietKeeps DEF FinishRefused, SameRunning, queue
<1>27. ASSUME NEW l \in Slots, Reports(l) PROVE OneRunner' /\ EntriesFollowRuns'
  <2>1. \A r \in Slots : /\ jobs'[r].run = jobs[r].run
                         /\ jobs'[r].batch = jobs[r].batch
                         /\ jobs'[r].open => jobs[r].open
    BY <1>27 DEF Reports, IInv, TypeOK, Job
  <2>2. QED
    BY <1>27, <2>1, QuietKeeps DEF Reports, SameRunning
<1>28. ASSUME NEW l \in Slots, Throws(l) PROVE OneRunner' /\ EntriesFollowRuns'
  BY <1>28, QuietKeeps DEF Throws, SameRunning, queue
<1>29. ASSUME NEW l \in Slots, Dies(l) PROVE OneRunner' /\ EntriesFollowRuns'
  BY <1>29, QuietKeeps DEF Dies, SameRunning, queue
<1>30. ASSUME LeaseTaken PROVE OneRunner' /\ EntriesFollowRuns'
  BY <1>30, QuietKeeps DEF LeaseTaken, SameRunning, queue
<1>31. ASSUME ClassicAcquires PROVE OneRunner' /\ EntriesFollowRuns'
  BY <1>31, QuietKeeps DEF ClassicAcquires, SameRunning, queue
<1>32. ASSUME ClassicPushes PROVE OneRunner' /\ EntriesFollowRuns'
  BY <1>32, QuietKeeps DEF ClassicPushes, SameRunning, queue
<1>33. ASSUME ClassicReleases PROVE OneRunner' /\ EntriesFollowRuns'
  BY <1>33, QuietKeeps DEF ClassicReleases, SameRunning, queue
<1>34. CASE UNCHANGED vars
  BY <1>34, QuietKeeps DEF vars, queue, SameRunning
<1>35. QED
  BY <1>1, <1>2, <1>3, <1>4, <1>5, <1>6, <1>7, <1>8, <1>9, <1>10, <1>11, <1>12,
     <1>13, <1>14, <1>15, <1>16, <1>17, <1>18, <1>19, <1>20, <1>21, <1>22, <1>23, <1>24,
     <1>25, <1>26, <1>27, <1>28, <1>29, <1>30, <1>31, <1>32, <1>33, <1>34
  DEF Next, Pump, Launch, TakeBack, RunnerStep

\* Each step leaves ClaimsOnce.
LEMMA ClaimsOnceStep == IInv /\ [Next]_vars => ClaimsOnce'
<1> SUFFICES ASSUME IInv, [Next]_vars PROVE ClaimsOnce'
  OBVIOUS
<1> USE DEF IInv, ClaimsOnce
<1>1. ASSUME NEW c \in Changes, Submit(c) PROVE ClaimsOnce'
  BY <1>1 DEF Submit, TypeOK
<1>2. ASSUME NEW c \in Changes, Withdraw(c) PROVE ClaimsOnce'
  BY <1>2 DEF Withdraw, TypeOK
<1>3. ASSUME NEW l \in Slots, NEW m \in Machines, ByHand(l, m) PROVE ClaimsOnce'
  BY <1>3, OverFacts, AbandonedFacts, OverFacts DEF ByHand, TypeOK, queue, Abandon, Running, NewLaunch
<1>4. ASSUME PumpIdle PROVE ClaimsOnce'
  BY <1>4 DEF PumpIdle, queue
<1>5. ASSUME PumpQueues PROVE ClaimsOnce'
  BY <1>5 DEF PumpQueues, queue
<1>6. ASSUME NEW l \in Slots, PumpLaunches(l) PROVE ClaimsOnce'
  BY <1>6, OverFacts DEF PumpLaunches, queue, NewLaunch
<1>7. ASSUME CoolDown PROVE ClaimsOnce'
  BY <1>7 DEF CoolDown, queue
<1>8. ASSUME Restart PROVE ClaimsOnce'
  BY <1>8 DEF Restart, queue
<1>9. ASSUME NEW l \in Slots, LaunchStarted(l) PROVE ClaimsOnce'
  BY <1>9 DEF LaunchStarted, queue
<1>10. ASSUME NEW l \in Slots, LaunchRejected(l) PROVE ClaimsOnce'
  BY <1>10, EndedFacts, OverFacts DEF LaunchRejected, TypeOK, LaunchFailed, Unclaimed
<1>11. ASSUME NEW l \in Slots, SweepRun(l) PROVE ClaimsOnce'
  BY <1>11, AbandonedFacts, OverFacts DEF SweepRun, TypeOK, Abandon, Running
<1>12. ASSUME NEW l \in Slots, SweepLaunch(l) PROVE ClaimsOnce'
  BY <1>12, OverFacts, EndedFacts DEF SweepLaunch, TypeOK, LaunchFailed, Unclaimed
<1>13. ASSUME NEW l \in Slots, RunnerExited(l) PROVE ClaimsOnce'
  BY <1>13, AbandonedFacts, OverFacts, EndedFacts DEF RunnerExited, TypeOK, Abandon, Running, LaunchFailed, Unclaimed
<1>14. ASSUME NEW l \in Slots, FallsSilent(l) PROVE ClaimsOnce'
  BY <1>14 DEF FallsSilent, TypeOK
<1>15. ASSUME NEW l \in Slots, Spawns(l) PROVE ClaimsOnce'
  BY <1>15, GoesToTypes DEF Spawns, TypeOK, queue
<1>16. ASSUME NEW l \in Slots, Fetches(l) PROVE ClaimsOnce'
  BY <1>16 DEF Fetches, TypeOK, queue
<1>17. ASSUME NEW l \in Slots, Claims(l) PROVE ClaimsOnce'
  BY <1>17, GoesToTypes DEF Claims, TypeOK
<1>18. ASSUME NEW l \in Slots, ClaimsNothing(l) PROVE ClaimsOnce'
  BY <1>18, GoesToTypes, OverFacts DEF ClaimsNothing, TypeOK
<1>19. ASSUME NEW l \in Slots, ClaimRefused(l) PROVE ClaimsOnce'
  BY <1>19, GoesToTypes DEF ClaimRefused, TypeOK, queue
<1>20. ASSUME NEW l \in Slots, NEW r \in Slots, Reconciles(l, r) PROVE ClaimsOnce'
  BY <1>20, OverFacts DEF Reconciles, TypeOK
<1>21. ASSUME NEW l \in Slots, Plans(l) PROVE ClaimsOnce'
  <2>1. PICK keep \in SUBSET (jobs[l].batch \ OnBase(l)), at \in {"planned", "ending"} :
          /\ jobs' = jobs \/ jobs' = [jobs EXCEPT ![l].plan = keep, ![l].late = FALSE]
          /\ runner' = [runner EXCEPT ![l].at = at, ![l].keep = keep,
                                      ![l].bounce = jobs[l].batch \ keep]
    BY <1>21 DEF Plans
  <2>2. \A r \in Slots : jobs'[r].run = jobs[r].run /\ jobs'[r].open = jobs[r].open
    <3>1. jobs \in [Slots -> Job]
      BY DEF TypeOK
    <3>2. CASE jobs' = [jobs EXCEPT ![l].plan = keep, ![l].late = FALSE]
      BY <3>1, <3>2 DEF Job
    <3>3. QED
      BY <2>1, <3>2
  <2>3. \A r \in Slots :
           runner'[r].at \in {"asked", "started", "fetched"} => runner'[r].at = runner[r].at
    BY <2>1 DEF TypeOK, Runner
  <2>4. QED
    BY <2>2, <2>3
<1>22. ASSUME NEW l \in Slots, RenewsLease(l) PROVE ClaimsOnce'
  BY <1>22, GoesToTypes DEF RenewsLease, TypeOK, queue
<1>23. ASSUME NEW l \in Slots, Pushes(l) PROVE ClaimsOnce'
  BY <1>23, GoesToTypes, OverFacts DEF Pushes, TypeOK
<1>24. ASSUME NEW l \in Slots, PushRejected(l) PROVE ClaimsOnce'
  <2>1. PICK at \in {"gone", "ending"} : GoesTo(l, at)
    BY <1>24 DEF PushRejected
  <2>2. jobs' = jobs
    BY <1>24 DEF PushRejected, queue
  <2>3. runner'[l].at = at /\ \A r \in Slots \ {l} : runner'[r] = runner[r]
    BY <2>1, GoesToTypes
  <2>4. QED
    BY <2>2, <2>3 DEF ClaimsOnce
<1>25. ASSUME NEW l \in Slots, Finishes(l) PROVE ClaimsOnce'
  BY <1>25, GoesToTypes, OverFacts DEF Finishes, TypeOK
<1>26. ASSUME NEW l \in Slots, FinishRefused(l) PROVE ClaimsOnce'
  BY <1>26, GoesToTypes DEF FinishRefused, TypeOK, queue
<1>27. ASSUME NEW l \in Slots, Reports(l) PROVE ClaimsOnce'
  BY <1>27 DEF Reports, TypeOK
<1>28. ASSUME NEW l \in Slots, Throws(l) PROVE ClaimsOnce'
  BY <1>28, GoesToTypes DEF Throws, TypeOK, queue
<1>29. ASSUME NEW l \in Slots, Dies(l) PROVE ClaimsOnce'
  BY <1>29, GoesToTypes DEF Dies, TypeOK, queue
<1>30. ASSUME LeaseTaken PROVE ClaimsOnce'
  BY <1>30 DEF LeaseTaken, queue
<1>31. ASSUME ClassicAcquires PROVE ClaimsOnce'
  BY <1>31 DEF ClassicAcquires, queue
<1>32. ASSUME ClassicPushes PROVE ClaimsOnce'
  BY <1>32 DEF ClassicPushes, queue
<1>33. ASSUME ClassicReleases PROVE ClaimsOnce'
  BY <1>33 DEF ClassicReleases, queue
<1>34. CASE UNCHANGED vars
  BY <1>34 DEF vars, queue
<1>35. QED
  BY <1>1, <1>2, <1>3, <1>4, <1>5, <1>6, <1>7, <1>8, <1>9, <1>10, <1>11, <1>12,
     <1>13, <1>14, <1>15, <1>16, <1>17, <1>18, <1>19, <1>20, <1>21, <1>22, <1>23, <1>24,
     <1>25, <1>26, <1>27, <1>28, <1>29, <1>30, <1>31, <1>32, <1>33, <1>34
  DEF Next, Pump, Launch, TakeBack, RunnerStep

-----------------------------------------------------------------------------
(***************************************************************************)
(* The theorems.                                                           *)
(***************************************************************************)
\* The invariant holds at the start.
LEMMA InitHolds == Init => IInv
<1> SUFFICES ASSUME Init PROVE IInv
  OBVIOUS
<1>1. TypeOK
  <2>1. NoRunner \in Runner
    BY DEF NoRunner, Runner
  <2>2. jobs \in [Slots -> Job] /\ runner \in [Slots -> Runner]
    BY <2>1, OverFacts DEF Init
  <2>3. entry \in [Changes -> States] /\ order \in Seq(Changes) /\ remote \in Seq(SUBSET Changes)
    BY DEF Init, States
  <2>4. inLine \in BOOLEAN /\ cooling \in BOOLEAN
    BY DEF Init
  <2>5. /\ holder \in {"queue", "classic", "none"} /\ failures \in 0 .. 3
        /\ launching \in SUBSET Slots /\ faults \in Nat
    BY DEF Init
  <2>6. QED
    BY <2>2, <2>3, <2>4, <2>5 DEF TypeOK
<1>2. OneRunner /\ ClaimsOnce
  BY OverFacts DEF Init, OneRunner, ClaimsOnce, Unclaimed, Running
<1>3. EntriesFollowRuns
  <2>1. \A r \in Slots, c \in Changes : ~Carries(r, c)
    BY OverFacts DEF Init, Carries, Running, Unreconciled
  <2>2. \A c \in Changes : entry[c] # "running"
    BY DEF Init
  <2>3. QED
    BY <2>1, <2>2, Carriers
<1>4. QED
  BY <1>1, <1>2, <1>3 DEF IInv

\* Each step keeps it.
LEMMA StepHolds == IInv /\ [Next]_vars => IInv'
<1>1. IInv => TypeOK
  BY DEF IInv
<1>2. QED
  BY <1>1, TypeStep, OneRunnerStep, ClaimsOnceStep DEF IInv

\* The invariant of the specification.
LEMMA IInvHolds == Spec => []IInv
  BY InitHolds, StepHolds, PTL DEF Spec

\* Every operation of the manager and every step of a runner keeps the types.
THEOREM TypeCorrect == Spec => []TypeOK
<1>1. IInv => TypeOK
  BY DEF IInv
<1>2. QED
  BY <1>1, IInvHolds, PTL

\* "One landing run at a time": however launches, take-backs, restarts, stalls
\* and starts by hand interleave, at most one launch can still claim or has a
\* run under way.
THEOREM OneRunnerHolds == Spec => []OneRunner
<1>1. IInv => OneRunner
  BY DEF IInv
<1>2. QED
  BY <1>1, IInvHolds, PTL

\* A change is "running" exactly while one run carries it that somebody will
\* settle: its own runner, or the next one that reconciles it.
THEOREM EntriesFollowRunsHolds == Spec => []EntriesFollowRuns
<1>1. IInv => EntriesFollowRuns
  BY DEF IInv
<1>2. QED
  BY <1>1, IInvHolds, PTL

-----------------------------------------------------------------------------
(***************************************************************************)
(* The second inductive invariant, for which LandingQueue keeps            *)
(* LandingPromise where a push has an answer and is over when its run is   *)
(* taken back: the branch against the runs and the runners.                *)
(***************************************************************************)
\* The setting of the theorems and of the run landing_queue: a `git push` has
\* had its effect, if it has one, before its run is taken back, and the runner
\* is told of it.  Otherwise the promise fails, as the README says.
Prompt == ~LatePushes /\ ~LostAnswers

\* The plan of a run is a part of its batch, and where its tip is on the branch
\* its plan is.
Tipped(l) ==
    /\ jobs[l].plan \subseteq jobs[l].batch
    /\ jobs[l].plan # {} => jobs[l].run # "none"
    /\ jobs[l].tip # 0 => /\ jobs[l].tip \in DOMAIN remote
                          /\ remote[jobs[l].tip] = jobs[l].plan
                          /\ jobs[l].plan # {}

\* A runner whose run is under way: it has pushed what it planned, or nothing.
Performs(l) ==
    Running(l) =>
       /\ runner[l].at \in {"gating", "planned", "pushing", "ending", "orphan"} =>
              jobs[l].tip = 0
       /\ runner[l].at \in {"planned", "pushing", "orphan", "pushed"} =>
              runner[l].keep = jobs[l].plan /\ jobs[l].plan # {}
       /\ runner[l].at = "pushed" => jobs[l].tip # 0

\* A runner that may still reconcile has fetched every tip that was pushed.
Looked(l) ==
    runner[l].at = "fetched" /\ Unclaimed(l) =>
        \A r \in Slots : jobs[r].tip <= runner[l].base

\* A change on the branch has landed, or the run that pushed it carries it.
Known ==
    \A i \in DOMAIN remote : \A c \in remote[i] :
        entry[c] = "landed" \/ \E l \in Slots : Carries(l, c) /\ jobs[l].tip = i

Agrees == Known /\ \A l \in Slots : Tipped(l) /\ Performs(l) /\ Looked(l)

PInv == IInv /\ Agrees

\* What LandingPromise sees.
Stand == [c \in Changes |->
            CASE entry[c] \in {"pending", "running"} -> "waiting"
              [] entry[c] = "landed" -> "landed"
              [] OTHER -> "out"]
Branch == UNION {remote[i] : i \in DOMAIN remote}

Shows == [Promise!Next]_<<Stand, Branch>>

\* What a step preserves and shows.
Good == Agrees' /\ Shows

-----------------------------------------------------------------------------
(***************************************************************************)
(* What the invariant says of the branch.                                  *)
(***************************************************************************)
\* A change of the branch waits for its run to be settled, or has landed; and a
\* run has a change of its batch there exactly when it pushed it.
LEMMA OnBranch ==
    ASSUME PInv
    PROVE  /\ \A c \in Branch : entry[c] \in {"landed", "running"}
           /\ \A l \in Slots, c \in Changes :
                 Carries(l, c) => /\ entry[c] = "running"
                                  /\ (c \in Branch) = (jobs[l].tip # 0 /\ c \in jobs[l].plan)
<1>1. \A c \in Changes :
         /\ (entry[c] = "running") = (\E r \in Slots : Carries(r, c))
         /\ \A q, r \in Slots : Carries(q, c) /\ Carries(r, c) => q = r
  BY Carriers DEF PInv, IInv
<1>2. \A i \in DOMAIN remote : remote[i] \in SUBSET Changes /\ i # 0
  BY DEF PInv, IInv, TypeOK
<1>3. \A c : c \in Branch <=> \E i \in DOMAIN remote : c \in remote[i]
  BY DEF Branch
<1>4. ASSUME NEW c \in Branch PROVE entry[c] \in {"landed", "running"}
  <2>1. PICK i \in DOMAIN remote : c \in remote[i]
    BY <1>3
  <2>2. c \in Changes
    BY <1>2, <2>1
  <2>3. QED
    BY <1>1, <2>1, <2>2 DEF PInv, Agrees, Known
<1>5. ASSUME NEW l \in Slots, NEW c \in Changes, Carries(l, c)
      PROVE  /\ entry[c] = "running"
             /\ (c \in Branch) = (jobs[l].tip # 0 /\ c \in jobs[l].plan)
  <2>1. entry[c] = "running"
    BY <1>1, <1>5
  <2>2. ASSUME c \in Branch PROVE jobs[l].tip # 0 /\ c \in jobs[l].plan
    <3>1. PICK i \in DOMAIN remote : c \in remote[i]
      BY <1>3, <2>2
    <3>2. PICK r \in Slots : Carries(r, c) /\ jobs[r].tip = i
      BY <2>1, <3>1 DEF PInv, Agrees, Known
    <3>3. r = l
      BY <1>1, <1>5, <3>2
    <3>4. QED
      BY <1>2, <3>1, <3>2, <3>3 DEF PInv, Agrees, Tipped
  <2>3. ASSUME jobs[l].tip # 0, c \in jobs[l].plan PROVE c \in Branch
    BY <1>3, <2>3 DEF PInv, Agrees, Tipped
  <2>4. QED
    BY <2>1, <2>2, <2>3
<1>6. QED
  BY <1>4, <1>5

-----------------------------------------------------------------------------
(***************************************************************************)
(* Steps that do not push.                                                 *)
(***************************************************************************)
\* The run of r, if it has one, goes on or is taken back with what it pushed.
SameRun(r) ==
    /\ jobs'[r].batch = jobs[r].batch /\ jobs'[r].plan = jobs[r].plan
    /\ jobs'[r].tip = jobs[r].tip
    /\ (jobs'[r].run = "none") = (jobs[r].run = "none")

\* The job of r has pushed nothing.
Unpushed(r) ==
    /\ jobs'[r].tip = 0 /\ jobs'[r].plan \subseteq jobs'[r].batch
    /\ jobs'[r].plan # {} => jobs'[r].run # "none"

\* A step that settles a run answers the changes it pushed.
LEMMA RunsAgree ==
    ASSUME PInv, TypeOK', UNCHANGED remote,
           \A r \in Slots : SameRun(r) \/ Unpushed(r),
           \A c \in Branch :
              \/ entry'[c] = "landed"
              \/ /\ entry'[c] = entry[c]
                 /\ \A r \in Slots : Carries(r, c) => SameRun(r)
    PROVE  Known' /\ \A l \in Slots : Tipped(l)'
<1>1. ASSUME NEW l \in Slots PROVE Tipped(l)'
  <2>1. Tipped(l)
    BY DEF PInv, Agrees
  <2>2. CASE SameRun(l)
    BY <2>1, <2>2 DEF Tipped, SameRun
  <2>3. CASE Unpushed(l)
    BY <2>3 DEF Tipped, Unpushed
  <2>4. QED
    BY <2>2, <2>3
<1>2. ASSUME NEW i \in DOMAIN remote, NEW c \in remote[i], entry'[c] # "landed"
      PROVE  \E l \in Slots : Carries(l, c)' /\ jobs'[l].tip = i
  <2>1. c \in Branch
    BY DEF Branch
  <2>2. entry[c] # "landed" /\ \A r \in Slots : Carries(r, c) => SameRun(r)
    BY <1>2, <2>1
  <2>3. PICK l \in Slots : Carries(l, c) /\ jobs[l].tip = i
    BY <2>2 DEF PInv, Agrees, Known
  <2>4. jobs'[l].run \in {"none", "running", "abandoned"}
    BY DEF TypeOK, Job
  <2>5. SameRun(l)
    BY <2>2, <2>3
  <2>6. Carries(l, c)' /\ jobs'[l].tip = i
    BY <2>3, <2>4, <2>5 DEF SameRun, Carries, Running, Unreconciled
  <2>7. QED
    BY <2>6
<1>3. Known'
  BY <1>2 DEF Known
<1>4. QED
  BY <1>1, <1>3

\* Runners a step leaves alone, with tips that are on the branch already.
LEMMA RunnersAgree ==
    ASSUME PInv, TypeOK',
           \A r \in Slots : jobs'[r].tip = jobs[r].tip \/ jobs'[r].tip = 0,
           \A r \in Slots :
              \/ /\ runner'[r] = runner[r]
                 /\ Running(r)' => /\ Running(r) /\ jobs'[r].plan = jobs[r].plan
                                   /\ jobs'[r].tip = jobs[r].tip
                 /\ Unclaimed(r)' => Unclaimed(r)
              \/ Performs(r)' /\ Looked(r)'
    PROVE  \A r \in Slots : Performs(r)' /\ Looked(r)'
<1> SUFFICES ASSUME NEW l \in Slots PROVE Performs(l)' /\ Looked(l)'
  OBVIOUS
<1> SUFFICES ASSUME runner'[l] = runner[l],
                    Running(l)' => /\ Running(l) /\ jobs'[l].plan = jobs[l].plan
                                   /\ jobs'[l].tip = jobs[l].tip,
                    Unclaimed(l)' => Unclaimed(l)
             PROVE  Performs(l)' /\ Looked(l)'
  OBVIOUS
<1>1. Performs(l) /\ Looked(l)
  BY DEF PInv, Agrees
<1>2. Performs(l)'
  BY <1>1 DEF Performs
<1>3. \A r \in Slots : jobs[r].tip \in Nat /\ runner[l].base \in Nat
  BY DEF PInv, IInv, TypeOK, Job, Runner
<1>4. Looked(l)'
  BY <1>1, <1>3 DEF Looked
<1>5. QED
  BY <1>2, <1>4

\* What happens to the entries of a step that does not push: they go on waiting,
\* or they get the answer the branch gives.
Moves ==
    \A c \in Changes :
       \/ entry'[c] = entry[c]
       \/ /\ entry[c] \in {"pending", "running"}
          /\ \/ entry'[c] \in {"pending", "running"}
             \/ entry'[c] = "landed" /\ c \in Branch
             \/ entry'[c] \in {"bounced", "withdrawn"} /\ c \notin Branch

\* It is an answer of LandingPromise, or nothing it sees.
LEMMA MovesShow ==
    ASSUME TypeOK, UNCHANGED remote, Moves
    PROVE  Shows
<1> DEFINE batch == {c \in Changes : /\ entry[c] \in {"pending", "running"}
                                     /\ entry'[c] \notin {"pending", "running"}}
<1>1. Branch' = Branch
  BY DEF Branch
<1>2. \A c \in batch : Stand[c] = "waiting"
  BY DEF Stand
<1>3. Stand' = [c \in Changes |-> IF c \notin batch THEN Stand[c]
                                  ELSE IF c \in Branch THEN "landed" ELSE "out"]
  <2>1. ASSUME NEW c \in Changes
        PROVE  Stand'[c] = IF c \notin batch THEN Stand[c]
                           ELSE IF c \in Branch THEN "landed" ELSE "out"
    <3>1. CASE entry'[c] = entry[c]
      BY <3>1 DEF Stand
    <3>2. CASE entry[c] \in {"pending", "running"} /\ entry'[c] \in {"pending", "running"}
      BY <3>2 DEF Stand
    <3>3. CASE /\ entry[c] \in {"pending", "running"}
               /\ entry'[c] = "landed" /\ c \in Branch
      BY <3>3 DEF Stand
    <3>4. CASE /\ entry[c] \in {"pending", "running"}
               /\ entry'[c] \in {"bounced", "withdrawn"} /\ c \notin Branch
      BY <3>4 DEF Stand
    <3>5. QED
      BY <3>1, <3>2, <3>3, <3>4 DEF Moves
  <2>2. Stand' = [c \in Changes |-> Stand'[c]]
    BY DEF Stand
  <2> HIDE DEF batch
  <2>3. QED
    BY <2>1, <2>2
<1>4. batch \in SUBSET Changes
  OBVIOUS
<1> HIDE DEF batch
<1>5. Promise!Answer(batch)
  BY <1>1, <1>2, <1>3 DEF Promise!Answer, Stand, Branch
<1>6. \E b \in SUBSET Changes : Promise!Push(b) \/ Promise!Answer(b)
  BY <1>4, <1>5 DEF Promise!Answer
<1>7. Promise!Next
  BY <1>6, Zenon DEF Promise!Next
<1>8. QED
  BY <1>7, Zenon DEF Shows

\* A step that leaves entries, jobs, the branch and the runners alone.
LEMMA IdleGood ==
    ASSUME PInv, TypeOK', UNCHANGED <<entry, jobs, remote, runner>>
    PROVE  Good
<1>1. Known' /\ \A l \in Slots : Tipped(l)'
  BY RunsAgree DEF SameRun
<1>2. \A r \in Slots : Performs(r)' /\ Looked(r)'
  BY RunnersAgree DEF Running, Unclaimed
<1>3. Shows
  BY MovesShow DEF Moves, PInv, IInv
<1>4. QED
  BY <1>1, <1>2, <1>3 DEF Good, Agrees

\* A step of the runner of l alone.
LEMMA RunnerGood ==
    ASSUME PInv, TypeOK', NEW l \in Slots, UNCHANGED <<entry, jobs, remote>>,
           \A r \in Slots \ {l} : runner'[r] = runner[r],
           Performs(l)', Looked(l)'
    PROVE  Good
<1>1. Known' /\ \A q \in Slots : Tipped(q)'
  BY RunsAgree DEF SameRun
<1>2. \A r \in Slots : Performs(r)' /\ Looked(r)'
  BY RunnersAgree DEF Running, Unclaimed
<1>3. Shows
  BY MovesShow DEF Moves, PInv, IInv
<1>4. QED
  BY <1>1, <1>2, <1>3 DEF Good, Agrees

\* A restart, in which some runners asked for are never started.
LEMMA RestartGood ==
    ASSUME PInv, TypeOK', Restart
    PROVE  Good
<1>1. UNCHANGED <<entry, jobs, remote>>
  BY DEF Restart, queue
<1>2. Known' /\ \A q \in Slots : Tipped(q)'
  BY <1>1, RunsAgree DEF SameRun
<1>3. ASSUME NEW r \in Slots
      PROVE  runner'[r] = runner[r] \/ (Performs(r)' /\ Looked(r)')
  <2>1. PICK lost \in SUBSET {l \in Slots : runner[l].at = "asked"} :
          runner' = [l \in Slots |-> IF l \in lost THEN NoRunner ELSE runner[l]]
    BY DEF Restart
  <2>2. CASE r \in lost
    BY <2>1, <2>2 DEF Performs, Looked, NoRunner
  <2>3. CASE r \notin lost
    BY <2>1, <2>3
  <2>4. QED
    BY <2>2, <2>3
<1>4. \A r \in Slots : Performs(r)' /\ Looked(r)'
  BY <1>1, <1>3, RunnersAgree DEF Running, Unclaimed
<1>5. Shows
  BY <1>1, MovesShow DEF Moves, PInv, IInv
<1>6. QED
  BY <1>2, <1>4, <1>5 DEF Good, Agrees

\* A step before the push that throws: the run has no tip yet.
LEMMA ThrowsGood ==
    ASSUME PInv, TypeOK', NEW l \in Slots, Throws(l)
    PROVE  Good
<1>1. /\ UNCHANGED <<entry, jobs, remote>>
      /\ runner[l].at \in {"gating", "planned"}
  BY DEF Throws, queue
<1>2. /\ runner'[l].at = "ending"
      /\ \A r \in Slots \ {l} : runner'[r] = runner[r]
  <2>1. PICK bounced :
           runner' = [runner EXCEPT ![l].at = "ending", ![l].bounce = bounced]
    BY DEF Throws
  <2>2. runner \in [Slots -> Runner]
    BY DEF PInv, IInv, TypeOK
  <2>3. QED
    BY ONLY <2>1, <2>2 DEF Runner
<1>3. Performs(l)' /\ Looked(l)'
  <2>1. Performs(l)
    BY DEF PInv, Agrees
  <2>2. QED
    BY <1>1, <1>2, <2>1 DEF Performs, Looked, Running
<1>4. QED
  BY <1>1, <1>2, <1>3, RunnerGood

\* Taking the run of l back: with a plan its batch stays with it, without one it
\* pushed nothing and its batch waits again.
LEMMA AbandonGood ==
    ASSUME PInv, TypeOK', NEW l \in Slots, Running(l), Abandon(l),
           UNCHANGED <<remote, runner>>
    PROVE  Good
<1>1. jobs'[l] = Abandoned(l) /\ \A r \in Slots \ {l} : jobs'[r] = jobs[r]
  BY DEF Abandon, PInv, IInv, TypeOK
<1>2. Tipped(l) /\ ~Running(l)' /\ ~Unclaimed(l)'
  <2>1. Tipped(l)
    BY DEF PInv, Agrees
  <2>2. ~jobs'[l].open /\ jobs'[l].run # "running"
    BY <1>1, AbandonedFacts, OverFacts DEF PInv, IInv
  <2>3. QED
    BY <2>1, <2>2 DEF Running, Unclaimed
<1>3. \A r \in Slots \ {l} : SameRun(r)
  BY <1>1 DEF SameRun
<1>4. jobs'[l].tip = jobs[l].tip \/ jobs'[l].tip = 0
  BY <1>1 DEF PInv, IInv, TypeOK, Job, Abandoned, Over
<1>5. \A r \in Slots : Performs(r)' /\ Looked(r)'
  <2>1. Performs(l)' /\ Looked(l)'
    BY <1>2 DEF Performs, Looked
  <2>2. \A r \in Slots : jobs'[r].tip = jobs[r].tip \/ jobs'[r].tip = 0
    BY <1>1, <1>4
  <2>3. \A r \in Slots \ {l} :
           /\ runner'[r] = runner[r]
           /\ Running(r)' => /\ Running(r) /\ jobs'[r].plan = jobs[r].plan
                             /\ jobs'[r].tip = jobs[r].tip
           /\ Unclaimed(r)' => Unclaimed(r)
    BY <1>1 DEF Running, Unclaimed
  <2>4. QED
    BY <2>1, <2>2, <2>3, RunnersAgree
<1>6. (Known' /\ \A r \in Slots : Tipped(r)') /\ Moves
  <2>1. CASE jobs[l].plan = {}
    <3>1. Unpushed(l)
      BY <1>1, <2>1, AbandonedFacts DEF PInv, IInv, Over, Unpushed
    <3>2. entry' = Requeued(jobs[l].batch)
      BY <2>1 DEF Abandon, Freed
    <3>3. \A c \in jobs[l].batch : c \in Changes /\ Carries(l, c)
      BY DEF Carries, PInv, IInv, TypeOK, Job
    <3>4. jobs[l].tip = 0
      BY <1>2, <2>1 DEF Tipped
    <3>5. \A c \in jobs[l].batch : c \notin Branch /\ entry[c] = "running"
      BY <3>3, <3>4, OnBranch
    <3>6. \A c \in Branch : entry'[c] = entry[c]
      <4>1. \A c \in Branch : c \in Changes
        BY DEF Branch, PInv, IInv, TypeOK
      <4>2. QED
        BY <3>2, <3>5, <4>1 DEF Requeued
    <3>7. \A c \in Branch : ~Carries(l, c)
      BY <3>5 DEF Carries
    <3>8. Known' /\ \A r \in Slots : Tipped(r)'
      BY <1>3, <3>1, <3>6, <3>7, RunsAgree
    <3>9. Moves
      BY <3>2, <3>5 DEF Moves, Requeued
    <3>10. QED
      BY <3>8, <3>9
  <2>2. CASE jobs[l].plan # {}
    <3>1. SameRun(l)
      BY <1>1, <2>2 DEF SameRun, Abandoned, PInv, IInv, TypeOK, Job, Running
    <3>2. entry' = entry
      BY <2>2 DEF Abandon, Freed, Requeued, PInv, IInv, TypeOK
    <3>3. QED
      BY <1>3, <3>1, <3>2, RunsAgree DEF Moves
  <2>3. QED
    BY <2>1, <2>2
<1>7. QED
  BY <1>5, <1>6, MovesShow DEF Good, Agrees, PInv, IInv

\* A launch that ends without a claim, or whose run goes on.
LEMMA LaunchFailedGood ==
    ASSUME PInv, TypeOK', NEW l \in Slots,
           jobs' = [jobs EXCEPT ![l] = Ended(l)] \/
           (Unclaimed(l) /\ jobs' = [jobs EXCEPT ![l] = Over]),
           UNCHANGED <<entry, remote, runner>>
    PROVE  Good
<1>1. jobs'[l] = Ended(l) /\ \A r \in Slots \ {l} : jobs'[r] = jobs[r]
  BY DEF PInv, IInv, TypeOK, Ended
<1>2. \A r \in Slots \ {l} : SameRun(r)
  BY <1>1 DEF SameRun
<1>3. ~Unclaimed(l)'
  BY <1>1, EndedFacts DEF PInv, IInv, Unclaimed
<1>4. CASE Unclaimed(l)
  <2>1. jobs'[l] = Over
    BY <1>1, <1>4, EndedFacts DEF PInv, IInv
  <2>2. Unpushed(l)
    BY <2>1 DEF Over, Unpushed
  <2>3. ~Running(l)' /\ \A c : ~Carries(l, c)
    BY <1>4, <2>1, OverFacts DEF Running, Unclaimed, Carries, Unreconciled
  <2>4. Known' /\ \A r \in Slots : Tipped(r)'
    BY <1>2, <2>2, <2>3, RunsAgree
  <2>5. \A r \in Slots : jobs'[r].tip = jobs[r].tip \/ jobs'[r].tip = 0
    BY <1>1, <2>2 DEF Unpushed
  <2>6. Performs(l)' /\ Looked(l)'
    BY <1>3, <2>3 DEF Performs, Looked
  <2>7. \A r \in Slots : Performs(r)' /\ Looked(r)'
    BY <1>1, <2>5, <2>6, RunnersAgree DEF Running, Unclaimed
  <2>8. QED
    BY <2>4, <2>7, MovesShow DEF Good, Agrees, Moves, PInv, IInv
<1>5. CASE ~Unclaimed(l)
  <2>1. jobs'[l] = [jobs[l] EXCEPT !.open = FALSE]
    BY <1>1, <1>5 DEF Ended
  <2>2. SameRun(l)
    BY <2>1 DEF SameRun, PInv, IInv, TypeOK, Job
  <2>3. Running(l)' => Running(l)
    BY <2>1 DEF Running, PInv, IInv, TypeOK, Job
  <2>4. Known' /\ \A r \in Slots : Tipped(r)'
    BY <1>2, <2>2, RunsAgree
  <2>5. \A r \in Slots : jobs'[r].tip = jobs[r].tip /\ jobs'[r].plan = jobs[r].plan
    BY <1>2, <2>2 DEF SameRun
  <2>6. \A r \in Slots : Performs(r)' /\ Looked(r)'
    BY <1>1, <1>3, <2>3, <2>5, RunnersAgree DEF Running, Unclaimed
  <2>7. QED
    BY <2>4, <2>6, MovesShow DEF Good, Agrees, Moves, PInv, IInv
<1>6. QED
  BY <1>4, <1>5

\* A run of r settled with the answers the branch gives.
LEMMA SettledGood ==
    ASSUME PInv, TypeOK', NEW r \in Slots, Running(r) \/ Unreconciled(r),
           NEW landed, NEW bounced,
           jobs' = [jobs EXCEPT ![r] = Over],
           entry' = Outcome(jobs[r].batch, landed, bounced),
           landed \cap jobs[r].batch = (IF jobs[r].tip = 0 THEN {} ELSE jobs[r].plan),
           UNCHANGED remote,
           \A l \in Slots : runner'[l] = runner[l] \/ runner'[l] = NoRunner
    PROVE  Good
<1>1. jobs'[r] = Over /\ \A l \in Slots \ {r} : jobs'[l] = jobs[l]
  BY DEF PInv, IInv, TypeOK
<1>2. \A c \in Changes : Carries(r, c) = (c \in jobs[r].batch)
  BY DEF Carries
<1>3. \A c \in jobs[r].batch :
         /\ c \in Changes /\ entry[c] = "running"
         /\ (c \in landed) = (c \in Branch)
  <2>1. ASSUME NEW c \in jobs[r].batch
        PROVE  c \in Changes /\ entry[c] = "running" /\ (c \in landed) = (c \in Branch)
    <3>1. c \in Changes
      BY DEF PInv, IInv, TypeOK, Job
    <3>2. entry[c] = "running" /\ (c \in Branch) = (jobs[r].tip # 0 /\ c \in jobs[r].plan)
      BY <1>2, <3>1, OnBranch
    <3>3. (c \in landed) = (jobs[r].tip # 0 /\ c \in jobs[r].plan)
      BY <2>1
    <3>4. QED
      BY <3>1, <3>2, <3>3
  <2>2. QED
    BY <2>1
<1>4. Moves
  <2>1. ASSUME NEW c \in Changes \ jobs[r].batch PROVE entry'[c] = entry[c]
    BY DEF Outcome
  <2>2. ASSUME NEW c \in jobs[r].batch
        PROVE  /\ entry[c] = "running"
               /\ \/ entry'[c] = "pending"
                  \/ entry'[c] = "landed" /\ c \in Branch
                  \/ entry'[c] = "bounced" /\ c \notin Branch
    BY <1>3 DEF Outcome
  <2>3. QED
    BY <2>1, <2>2 DEF Moves
<1>5. \A c \in Branch :
         \/ entry'[c] = "landed"
         \/ entry'[c] = entry[c] /\ ~Carries(r, c)
  <2>1. \A c \in Branch : c \in Changes
    BY DEF Branch, PInv, IInv, TypeOK
  <2>2. QED
    BY <1>2, <1>3, <2>1 DEF Outcome
<1>6. Unpushed(r)
  BY <1>1 DEF Over, Unpushed
<1>7. Known' /\ \A l \in Slots : Tipped(l)'
  BY <1>1, <1>5, <1>6, RunsAgree DEF SameRun
<1>8. \A l \in Slots : Performs(l)' /\ Looked(l)'
  <2>1. ~Running(r)' /\ ~Unclaimed(r)'
    BY <1>1, OverFacts DEF Running, Unclaimed
  <2>2. ASSUME NEW l \in Slots, runner'[l] = NoRunner PROVE Performs(l)' /\ Looked(l)'
    BY <2>2 DEF NoRunner, Performs, Looked
  <2>3. Performs(r)' /\ Looked(r)'
    BY <2>1 DEF Performs, Looked
  <2>4. \A l \in Slots : jobs'[l].tip = jobs[l].tip \/ jobs'[l].tip = 0
    BY <1>1, <1>6 DEF Unpushed
  <2>5. \A l \in Slots \ {r} : runner'[l] = runner[l] =>
           /\ runner'[l] = runner[l]
           /\ Running(l)' => /\ Running(l) /\ jobs'[l].plan = jobs[l].plan
                             /\ jobs'[l].tip = jobs[l].tip
           /\ Unclaimed(l)' => Unclaimed(l)
    BY <1>1 DEF Running, Unclaimed
  <2>6. QED
    BY <2>2, <2>3, <2>4, <2>5, RunnersAgree
<1>9. QED
  BY <1>4, <1>7, <1>8, MovesShow DEF Good, Agrees, PInv, IInv
\* A runner that goes on keeps what it fetched and stacked.
LEMMA GoesToKeeps ==
    ASSUME TypeOK, NEW l \in Slots, NEW at, GoesTo(l, at)
    PROVE  /\ runner'[l].at = at
           /\ at # "gone" => /\ runner'[l].keep = runner[l].keep
                             /\ runner'[l].base = runner[l].base
           /\ \A r \in Slots \ {l} : runner'[r] = runner[r]
BY DEF TypeOK, GoesTo, NoRunner, Runner

\* A step in which the runner of l alone goes somewhere it has not pushed from.
LEMMA GoesGood ==
    ASSUME PInv, TypeOK', NEW l \in Slots, NEW at, GoesTo(l, at),
           UNCHANGED <<entry, jobs, remote>>,
           \/ at \in {"gone", "started"}
           \/ at = "ending" /\ runner[l].at \in {"gating", "planned", "pushing"}
           \/ at = "pushing" /\ runner[l].at = "planned"
           \/ at = "orphan" /\ runner[l].at = "pushing"
    PROVE  Good
<1>1. Performs(l) /\ TypeOK
  BY DEF PInv, Agrees, IInv
<1>2. /\ runner'[l].at = at
      /\ at # "gone" => runner'[l].keep = runner[l].keep
      /\ \A r \in Slots \ {l} : runner'[r] = runner[r]
  BY <1>1, GoesToKeeps
<1>3. Looked(l)'
  BY <1>2 DEF Looked
<1>4. Performs(l)'
  <2>1. CASE at = "gone"
    BY <1>2, <2>1 DEF Performs
  <2>2. CASE at = "started"
    BY <1>2, <2>2 DEF Performs
  <2>3. CASE at = "ending" /\ runner[l].at \in {"gating", "planned", "pushing"}
    BY <1>1, <1>2, <2>3 DEF Performs, Running
  <2>4. CASE at = "pushing" /\ runner[l].at = "planned"
    BY <1>1, <1>2, <2>4 DEF Performs, Running
  <2>5. CASE at = "orphan" /\ runner[l].at = "pushing"
    BY <1>1, <1>2, <2>5 DEF Performs, Running
  <2>6. QED
    BY <2>1, <2>2, <2>3, <2>4, <2>5
<1>5. QED
  BY <1>2, <1>3, <1>4, RunnerGood

\* A report, or the lack of one.
LEMMA LateGood ==
    ASSUME PInv, TypeOK', NEW l \in Slots, NEW late,
           jobs' = [jobs EXCEPT ![l].late = late],
           UNCHANGED <<entry, remote, runner>>
    PROVE  Good
<1>1. \A r \in Slots :
         /\ jobs'[r].run = jobs[r].run /\ jobs'[r].batch = jobs[r].batch
         /\ jobs'[r].plan = jobs[r].plan /\ jobs'[r].tip = jobs[r].tip
         /\ jobs'[r].open = jobs[r].open
  BY DEF PInv, IInv, TypeOK, Job
<1>2. Known' /\ \A r \in Slots : Tipped(r)'
  BY <1>1, RunsAgree DEF SameRun
<1>3. \A r \in Slots : Performs(r)' /\ Looked(r)'
  BY <1>1, RunnersAgree DEF Running, Unclaimed
<1>4. QED
  BY <1>2, <1>3, MovesShow DEF Good, Agrees, Moves, PInv, IInv

\* Submission of a change that is out of the queue.
LEMMA SubmitGood ==
    ASSUME PInv, TypeOK', NEW c \in Changes, Submit(c)
    PROVE  Good
<1>1. /\ entry[c] \in {"none", "bounced", "withdrawn"}
      /\ entry' = [entry EXCEPT ![c] = "pending"]
      /\ UNCHANGED <<jobs, remote, runner>>
  BY DEF Submit
<1>2. c \notin Branch
  BY <1>1, OnBranch
<1>3. \A d \in Branch : entry'[d] = entry[d]
  BY <1>1, <1>2 DEF PInv, IInv, TypeOK
<1>4. Known' /\ \A r \in Slots : Tipped(r)'
  BY <1>1, <1>3, RunsAgree DEF SameRun
<1>5. \A r \in Slots : Performs(r)' /\ Looked(r)'
  BY <1>1, RunnersAgree DEF Running, Unclaimed
<1>6. Stand[c] = "out" /\ Stand' = [Stand EXCEPT ![c] = "waiting"] /\ Branch' = Branch
  BY <1>1 DEF Stand, Branch, PInv, IInv, TypeOK
<1>7. Promise!Submit(c)
  BY <1>6 DEF Promise!Submit, Stand, Branch
<1>8. Promise!Next
  BY <1>7 DEF Promise!Next, Promise!Submit
<1>9. Shows
  BY <1>8, Zenon DEF Shows
<1>10. QED
  BY <1>4, <1>5, <1>9 DEF Good, Agrees

\* Withdrawal of a change that waits.
LEMMA WithdrawGood ==
    ASSUME PInv, TypeOK', NEW c \in Changes, Withdraw(c)
    PROVE  Good
<1>1. /\ entry[c] = "pending"
      /\ entry' = [entry EXCEPT ![c] = "withdrawn"]
      /\ UNCHANGED <<jobs, remote, runner>>
  BY DEF Withdraw
<1>2. c \notin Branch
  BY <1>1, OnBranch
<1>3. \A d \in Branch : entry'[d] = entry[d]
  BY <1>1, <1>2 DEF PInv, IInv, TypeOK
<1>4. Known' /\ \A r \in Slots : Tipped(r)'
  BY <1>1, <1>3, RunsAgree DEF SameRun
<1>5. \A r \in Slots : Performs(r)' /\ Looked(r)'
  BY <1>1, RunnersAgree DEF Running, Unclaimed
<1>6. Moves
  BY <1>1, <1>2 DEF Moves, PInv, IInv, TypeOK
<1>7. QED
  BY <1>1, <1>4, <1>5, <1>6, MovesShow DEF Good, Agrees, PInv, IInv

\* A run taken back with a plan keeps what it pushed.
LEMMA AbandonedTip ==
    ASSUME TypeOK, NEW l \in Slots, jobs[l].plan # {}
    PROVE  /\ Abandoned(l).plan = jobs[l].plan
           /\ Abandoned(l).tip = jobs[l].tip
BY DEF TypeOK, Abandoned, Job

\* A new launch, after runs that are under way were taken back.
LEMMA LaunchGood ==
    ASSUME PInv, TypeOK', NEW l \in Slots, NEW m \in Machines, NEW old,
           old \in [Slots -> Job], NewLaunch(l, m, old), UNCHANGED remote,
           \A r \in Slots : \/ old[r] = jobs[r] /\ ~Active(r)
                            \/ old[r] = Over /\ Unclaimed(r)
                            \/ old[r] = Abandoned(r) /\ Running(r),
           entry' = Requeued(UNION {Freed(r) : r \in {q \in Slots : Running(q)}})
    PROVE  Good
<1>1. /\ jobs' = [old EXCEPT ![l] = [Over EXCEPT !.open = TRUE, !.machine = m]]
      /\ runner' = [runner EXCEPT ![l] = [NoRunner EXCEPT !.at = "asked"]]
      /\ old[l] = Over
  BY DEF NewLaunch
<1>2. /\ jobs'[l].run = "none" /\ jobs'[l].tip = 0 /\ jobs'[l].plan = {}
      /\ runner'[l].at = "asked"
      /\ \A r \in Slots \ {l} : jobs'[r] = old[r] /\ runner'[r] = runner[r]
  BY <1>1 DEF Over, NoRunner, PInv, IInv, TypeOK
<1>3. /\ Over.tip = 0 /\ Over.plan = {} /\ Over.batch = {}
      /\ Over.run = "none" /\ ~Over.open
  BY DEF Over
<1>4. \A r \in Slots : Running(r) =>
         /\ Tipped(r) /\ ~Abandoned(r).open /\ Abandoned(r).run # "running"
         /\ jobs[r].plan = {} => Abandoned(r) = Over /\ jobs[r].tip = 0
         /\ jobs[r].plan # {} =>
               /\ Abandoned(r).batch = jobs[r].batch /\ Abandoned(r).plan = jobs[r].plan
               /\ Abandoned(r).tip = jobs[r].tip /\ Abandoned(r).run = "abandoned"
  <2>1. ASSUME NEW r \in Slots, Running(r)
        PROVE  /\ Tipped(r) /\ ~Abandoned(r).open /\ Abandoned(r).run # "running"
               /\ jobs[r].plan = {} => Abandoned(r) = Over /\ jobs[r].tip = 0
    BY <1>3, AbandonedFacts DEF PInv, Agrees, IInv, Tipped
  <2>2. ASSUME NEW r \in Slots, jobs[r].plan # {}
        PROVE  /\ Abandoned(r).batch = jobs[r].batch /\ Abandoned(r).plan = jobs[r].plan
               /\ Abandoned(r).tip = jobs[r].tip /\ Abandoned(r).run = "abandoned"
    BY <2>2, AbandonedFacts, AbandonedTip DEF PInv, IInv
  <2>3. QED
    BY <2>1, <2>2
<1>5. \A r \in Slots \ {l} : ~Running(r)' /\ ~Unclaimed(r)'
  <2>1. ASSUME NEW r \in Slots \ {l} PROVE ~Running(r)' /\ ~Unclaimed(r)'
    <3>1. CASE old[r] = jobs[r] /\ ~Active(r)
      BY <1>2, <3>1 DEF Active, Running, Unclaimed
    <3>2. CASE old[r] = Over
      BY <1>2, <1>3, <3>2 DEF Running, Unclaimed
    <3>3. CASE old[r] = Abandoned(r) /\ Running(r)
      BY <1>2, <1>4, <3>3 DEF Running, Unclaimed
    <3>4. QED
      BY <3>1, <3>2, <3>3
  <2>2. QED
    BY <2>1
<1>6. \A r \in Slots : Performs(r)' /\ Looked(r)'
  <2>1. Performs(l)' /\ Looked(l)'
    BY <1>2 DEF Performs, Looked, Running
  <2>2. \A r \in Slots \ {l} : Performs(r)' /\ Looked(r)'
    BY <1>5 DEF Performs, Looked
  <2>3. QED
    BY <2>1, <2>2
<1>7. \A r \in Slots : \/ SameRun(r)
                       \/ Unpushed(r) /\ \A c : ~Carries(r, c)
                       \/ Unpushed(r) /\ Running(r) /\ jobs[r].plan = {}
  <2>1. Unpushed(l)
    BY <1>2 DEF Unpushed
  <2>2. ASSUME NEW r \in Slots
        PROVE  \/ SameRun(r)
               \/ Unpushed(r) /\ \A c : ~Carries(r, c)
               \/ Unpushed(r) /\ Running(r) /\ jobs[r].plan = {}
    <3>1. CASE old[r] = jobs[r] /\ ~Active(r)
      <4>1. CASE r = l
        BY <1>1, <1>3, <2>1, <3>1, <4>1 DEF Carries, Running, Unreconciled
      <4>2. CASE r # l
        BY <1>2, <3>1, <4>2 DEF SameRun
      <4>3. QED
        BY <4>1, <4>2
    <3>2. CASE old[r] = Over /\ Unclaimed(r)
      <4>1. Unpushed(r)
        BY <1>2, <1>3, <2>1, <3>2 DEF Unpushed
      <4>2. QED
        BY <3>2, <4>1 DEF Carries, Running, Unreconciled, Unclaimed
    <3>3. CASE old[r] = Abandoned(r) /\ Running(r)
      <4>1. CASE jobs[r].plan = {}
        <5>1. Unpushed(r)
          BY <1>2, <1>3, <1>4, <2>1, <3>3, <4>1 DEF Unpushed
        <5>2. QED
          BY <3>3, <4>1, <5>1
      <4>2. CASE jobs[r].plan # {}
        <5>1. r # l
          BY <1>1, <1>3, <1>4, <3>3, <4>2
        <5>2. SameRun(r)
          BY <1>2, <1>4, <3>3, <4>2, <5>1 DEF SameRun, Running
        <5>3. QED
          BY <5>2
      <4>3. QED
        BY <4>1, <4>2
    <3>4. QED
      BY <3>1, <3>2, <3>3
  <2>3. QED
    BY <2>2
<1> DEFINE freed == UNION {Freed(r) : r \in {q \in Slots : Running(q)}}
<1>8. \A c : c \in freed <=> \E r \in Slots : Running(r) /\ c \in Freed(r)
  BY Zenon
<1>9. \A r \in Slots, c \in Changes :
         Running(r) /\ c \in Freed(r) => c \notin Branch /\ entry[c] = "running"
  <2>1. ASSUME NEW r \in Slots, NEW c \in Changes, Running(r), c \in Freed(r)
        PROVE  c \notin Branch /\ entry[c] = "running"
    <3>1. Carries(r, c) /\ jobs[r].plan = {}
      BY <2>1 DEF Carries, Freed
    <3>2. QED
      BY <3>1, OnBranch
  <2>2. QED
    BY <2>1
<1>10. entry' = Requeued(freed)
  OBVIOUS
<1> HIDE DEF freed
<1>11. \A c \in Changes : IF c \in freed THEN /\ entry'[c] = "pending" /\ c \notin Branch
                                              /\ entry[c] = "running"
                          ELSE entry'[c] = entry[c]
  BY <1>8, <1>9, <1>10 DEF Requeued
<1>12. Moves
  BY <1>11 DEF Moves
<1>13. \A c \in Branch :
          /\ entry'[c] = entry[c]
          /\ \A r \in Slots : Carries(r, c) => SameRun(r)
  <2>1. \A c \in Branch : c \in Changes
    BY DEF Branch, PInv, IInv, TypeOK
  <2>2. \A c \in Branch, r \in Slots : Running(r) /\ jobs[r].plan = {} => ~Carries(r, c)
    BY <2>1, OnBranch
  <2>3. QED
    BY <1>7, <1>11, <2>1, <2>2
<1>14. Known' /\ \A r \in Slots : Tipped(r)'
  <2>1. UNCHANGED remote /\ \A r \in Slots : SameRun(r) \/ Unpushed(r)
    BY <1>7
  <2>2. QED
    BY <1>13, <2>1, RunsAgree
<1>15. QED
  BY <1>6, <1>12, <1>14, MovesShow DEF Good, Agrees, PInv, IInv
\* A push brings the plan of the only run under way, none of it there before.
LEMMA PushGood ==
    ASSUME Prompt, PInv, TypeOK', NEW l \in Slots, Pushes(l)
    PROVE  Good
<1> DEFINE n == Len(remote)
<1>1. /\ Running(l) /\ runner[l].at \in {"pushing", "orphan"}
      /\ remote' = Append(remote, runner[l].keep) /\ UNCHANGED entry
      /\ GoesTo(l, IF runner[l].at = "orphan" THEN "gone" ELSE "pushed")
  BY DEF Pushes, Prompt
<1>2. jobs[l].tip = 0 /\ runner[l].keep = jobs[l].plan /\ jobs[l].plan # {}
  BY <1>1 DEF PInv, Agrees, Performs
<1>3. jobs[l].plan \in SUBSET Changes /\ jobs[l].plan \subseteq jobs[l].batch
  BY DEF PInv, Agrees, Tipped, IInv, TypeOK, Job
<1>4. /\ n \in Nat /\ DOMAIN remote = 1 .. n
      /\ DOMAIN remote' = 1 .. n + 1 /\ Len(remote') = n + 1
      /\ remote'[n + 1] = jobs[l].plan
      /\ \A i \in 1 .. n : remote'[i] = remote[i]
  <2>1. remote \in Seq(SUBSET Changes)
    BY DEF PInv, IInv, TypeOK
  <2>2. remote' = Append(remote, jobs[l].plan)
    BY <1>1, <1>2
  <2>3. QED
    BY <1>3, <2>1, <2>2, AppendProperties, LenProperties
<1>5. jobs[l] # Over
  BY <1>1 DEF Over, Running
<1>6. jobs' = [jobs EXCEPT ![l].tip = Len(remote')]
  BY <1>5 DEF Pushes
<1>7. /\ jobs'[l].tip = n + 1
      /\ \A r \in Slots : /\ jobs'[r].run = jobs[r].run /\ jobs'[r].batch = jobs[r].batch
                          /\ jobs'[r].plan = jobs[r].plan /\ jobs'[r].open = jobs[r].open
      /\ \A r \in Slots \ {l} : jobs'[r].tip = jobs[r].tip
  BY <1>4, <1>6 DEF PInv, IInv, TypeOK, Job
<1>8. /\ runner'[l].at \in {"gone", "pushed"}
      /\ runner'[l].at = "pushed" => runner'[l].keep = runner[l].keep
      /\ \A r \in Slots \ {l} : runner'[r] = runner[r]
  BY <1>1, GoesToKeeps DEF PInv, IInv
<1>9. \A r \in Slots : Tipped(r)'
  <2>1. ASSUME NEW r \in Slots PROVE Tipped(r)'
    <3>1. Tipped(r)
      BY DEF PInv, Agrees
    <3>2. CASE r = l
      <4>1. jobs[l].plan # {} => jobs[l].run # "none"
        BY <3>1, <3>2 DEF Tipped
      <4>2. QED
        BY <1>2, <1>3, <1>4, <1>7, <3>2, <4>1 DEF Tipped
    <3>3. CASE r # l
      <4>1. jobs[r].tip # 0 => jobs[r].tip \in DOMAIN remote
        BY <3>1 DEF Tipped
      <4>2. QED
        BY <1>4, <1>7, <3>1, <3>3, <4>1 DEF Tipped
    <3>4. QED
      BY <3>2, <3>3
  <2>2. QED
    BY <2>1
<1>10. \A r \in Slots : Performs(r)' /\ Looked(r)'
  <2>1. Performs(l)'
    BY <1>2, <1>4, <1>7, <1>8 DEF Performs
  <2>2. Looked(l)'
    BY <1>8 DEF Looked
  <2>3. ASSUME NEW r \in Slots \ {l} PROVE Performs(r)' /\ Looked(r)'
    <3>1. ~Unclaimed(r) /\ ~Running(r)
      BY <1>1, <2>3 DEF PInv, IInv, OneRunner
    <3>2. QED
      BY <1>7, <3>1 DEF Performs, Looked, Running, Unclaimed
  <2>4. QED
    BY <2>1, <2>2, <2>3
<1>11. \A r \in Slots, c \in Changes : Carries(r, c)' = Carries(r, c)
  BY <1>7 DEF Carries, Running, Unreconciled
<1>12. \A c \in jobs[l].plan : c \in Changes /\ Carries(l, c)
  BY <1>1, <1>3 DEF Carries
<1>13. Known'
  <2>1. ASSUME NEW i \in DOMAIN remote', NEW c \in remote'[i], entry'[c] # "landed"
        PROVE  \E r \in Slots : Carries(r, c)' /\ jobs'[r].tip = i
    <3>1. CASE i = n + 1
      BY <1>4, <1>7, <1>11, <1>12, <3>1
    <3>2. CASE i \in 1 .. n
      <4>1. i \in DOMAIN remote /\ c \in remote[i] /\ c \in Changes /\ i # 0
        BY <1>4, <3>2 DEF PInv, IInv, TypeOK
      <4>2. entry[c] # "landed"
        BY <1>1, <2>1
      <4>3. PICK r \in Slots : Carries(r, c) /\ jobs[r].tip = i
        BY <4>1, <4>2 DEF PInv, Agrees, Known
      <4>4. r # l
        BY <1>2, <4>1, <4>3
      <4>5. QED
        BY <1>7, <1>11, <4>1, <4>3, <4>4
    <3>3. QED
      BY <1>4, <2>1, <3>1, <3>2
  <2>2. QED
    BY <2>1 DEF Known
<1>14. Shows
  <2>1. Branch' = Branch \cup jobs[l].plan
    <3>1. \A c : c \in Branch <=> \E i \in 1 .. n : c \in remote[i]
      BY <1>4 DEF Branch
    <3>2. \A c : c \in Branch' <=> \E i \in 1 .. n + 1 : c \in remote'[i]
      BY <1>4 DEF Branch
    <3>3. \A i : i \in 1 .. n + 1 <=> i \in 1 .. n \/ i = n + 1
      BY <1>4
    <3>4. \A c : c \in Branch' <=> c \in Branch \/ c \in jobs[l].plan
      BY <1>4, <3>1, <3>2, <3>3
    <3>5. QED
      BY <3>4
  <2>2. Stand' = Stand
    BY <1>1 DEF Stand
  <2>3. \A c \in jobs[l].plan : Stand[c] = "waiting" /\ c \notin Branch
    BY <1>2, <1>12, OnBranch DEF Stand
  <2>4. Promise!Push(jobs[l].plan)
    BY <2>1, <2>2, <2>3 DEF Promise!Push, Stand, Branch
  <2>5. \E b \in SUBSET Changes : Promise!Push(b) \/ Promise!Answer(b)
    BY <1>3, <2>4 DEF Promise!Push
  <2>6. Promise!Next
    BY <2>5, Zenon DEF Promise!Next
  <2>7. QED
    BY <2>6, Zenon DEF Shows
<1>15. QED
  BY <1>9, <1>10, <1>13, <1>14 DEF Good, Agrees

\* A classic port brings none of the queue's changes.
LEMMA ClassicGood ==
    ASSUME PInv, TypeOK', ClassicPushes
    PROVE  Good
<1> DEFINE n == Len(remote)
<1>1. remote' = Append(remote, {}) /\ UNCHANGED <<entry, jobs, runner>>
  BY DEF ClassicPushes, queue
<1>2. /\ n \in Nat /\ DOMAIN remote = 1 .. n
      /\ DOMAIN remote' = 1 .. n + 1
      /\ remote'[n + 1] = {}
      /\ \A i \in 1 .. n : remote'[i] = remote[i]
  <2>1. remote \in Seq(SUBSET Changes)
    BY DEF PInv, IInv, TypeOK
  <2>2. QED
    BY <1>1, <2>1, AppendProperties, LenProperties
<1>3. \A r \in Slots : Tipped(r)'
  <2>1. \A r \in Slots : Tipped(r) /\ jobs[r].tip \in Nat
    BY DEF PInv, Agrees, IInv, TypeOK, Job
  <2>2. QED
    BY <1>1, <1>2, <2>1 DEF Tipped
<1>4. \A r \in Slots : Performs(r)' /\ Looked(r)'
  BY <1>1 DEF PInv, Agrees, Performs, Looked, Running, Unclaimed
<1>5. Known'
  <2>1. \A i \in 1 .. n : \A c \in remote[i] :
           entry[c] = "landed" \/ \E r \in Slots : Carries(r, c) /\ jobs[r].tip = i
    BY <1>2 DEF PInv, Agrees, Known
  <2>2. \A r, c : Carries(r, c)' = Carries(r, c)
    BY <1>1 DEF Carries, Running, Unreconciled
  <2>3. QED
    BY <1>1, <1>2, <2>1, <2>2 DEF Known
<1>6. Shows
  <2>1. Branch' = Branch
    <3>1. \A c : c \in Branch <=> \E i \in 1 .. n : c \in remote[i]
      BY <1>2 DEF Branch
    <3>2. \A c : c \in Branch' <=> \E i \in 1 .. n + 1 : c \in remote'[i]
      BY <1>2 DEF Branch
    <3>3. \A i : i \in 1 .. n + 1 <=> i \in 1 .. n \/ i = n + 1
      BY <1>2
    <3>4. \A c : c \in Branch' <=> c \in Branch
      BY <1>2, <3>1, <3>2, <3>3
    <3>5. QED
      BY <3>4
  <2>2. Stand' = Stand
    BY <1>1 DEF Stand
  <2>3. QED
    BY <2>1, <2>2 DEF Shows
<1>7. QED
  BY <1>3, <1>4, <1>5, <1>6 DEF Good, Agrees

\* A claim: the batch waited, so nothing of it is on the branch.
LEMMA ClaimGood ==
    ASSUME PInv, TypeOK', NEW l \in Slots, Claims(l)
    PROVE  Good
<1>1. /\ jobs' = [jobs EXCEPT ![l].run = "running", ![l].batch = Pending, ![l].late = FALSE]
      /\ entry' = [c \in Changes |-> IF c \in Pending THEN "running" ELSE entry[c]]
      /\ GoesTo(l, "gating") /\ UNCHANGED remote /\ runner[l].at = "fetched"
  BY DEF Claims
<1>2. jobs[l].run = "none" /\ Tipped(l)
  BY <1>1 DEF PInv, Agrees, IInv, ClaimsOnce
<1>3. jobs[l].plan = {} /\ jobs[l].tip = 0
  BY <1>2 DEF Tipped
<1>4. /\ jobs'[l].tip = 0 /\ jobs'[l].plan = {} /\ jobs'[l].run = "running"
      /\ \A r \in Slots \ {l} : jobs'[r] = jobs[r]
  BY <1>1, <1>3 DEF PInv, IInv, TypeOK, Job
<1>5. /\ runner'[l].at = "gating"
      /\ \A r \in Slots \ {l} : runner'[r] = runner[r]
  BY <1>1, GoesToKeeps DEF PInv, IInv
<1>6. Performs(l)' /\ Looked(l)'
  BY <1>4, <1>5 DEF Performs, Looked
<1>7. \A r \in Slots : Performs(r)' /\ Looked(r)'
  BY <1>3, <1>4, <1>5, <1>6, RunnersAgree DEF Running, Unclaimed
<1>8. \A c \in Branch : entry'[c] = entry[c]
  <2>1. \A c \in Branch : c \in Changes /\ entry[c] # "pending"
    <3>1. \A c \in Branch : c \in Changes
      BY DEF Branch, PInv, IInv, TypeOK
    <3>2. QED
      BY <3>1, OnBranch
  <2>2. QED
    BY <1>1, <2>1 DEF Pending
<1>9. \A r \in Slots : SameRun(r) \/ (Unpushed(r) /\ \A c : ~Carries(r, c))
  <2>1. Unpushed(l) /\ \A c : ~Carries(l, c)
    BY <1>2, <1>4 DEF Unpushed, Carries, Running, Unreconciled
  <2>2. QED
    BY <1>4, <2>1 DEF SameRun
<1>10. Known' /\ \A r \in Slots : Tipped(r)'
  <2>1. \A r \in Slots : SameRun(r) \/ Unpushed(r)
    BY <1>9
  <2>2. \A c \in Branch : /\ entry'[c] = entry[c]
                          /\ \A r \in Slots : Carries(r, c) => SameRun(r)
    BY <1>8, <1>9
  <2>3. QED
    BY <1>1, <2>1, <2>2, RunsAgree
<1>11. Moves
  BY <1>1 DEF Moves, Pending
<1>12. QED
  BY <1>1, <1>7, <1>10, <1>11, MovesShow DEF Good, Agrees, PInv, IInv

\* A runner that finds nothing to do.
LEMMA ClaimsNothingGood ==
    ASSUME PInv, TypeOK', NEW l \in Slots, ClaimsNothing(l)
    PROVE  Good
<1>1. /\ jobs' = [jobs EXCEPT ![l] = Over] /\ runner[l].at = "fetched"
      /\ GoesTo(l, "gone") /\ UNCHANGED <<entry, remote>>
  BY DEF ClaimsNothing
<1>2. jobs[l].run = "none"
  BY <1>1 DEF PInv, IInv, ClaimsOnce
<1>3. jobs'[l] = Over /\ \A r \in Slots \ {l} : jobs'[r] = jobs[r]
  BY <1>1 DEF PInv, IInv, TypeOK
<1>4. Unpushed(l) /\ ~Running(l)' /\ ~Unclaimed(l)' /\ \A c : ~Carries(l, c)
  BY <1>2, <1>3 DEF Over, Unpushed, Running, Unclaimed, Carries, Unreconciled
<1>5. Performs(l)' /\ Looked(l)'
  BY <1>4 DEF Performs, Looked
<1>6. \A r \in Slots \ {l} : runner'[r] = runner[r]
  BY <1>1, GoesToKeeps DEF PInv, IInv
<1>7. \A r \in Slots : jobs'[r].tip = jobs[r].tip \/ jobs'[r].tip = 0
  BY <1>3, <1>4 DEF Unpushed
<1>8. \A r \in Slots : Performs(r)' /\ Looked(r)'
  BY <1>3, <1>5, <1>6, <1>7, RunnersAgree DEF Running, Unclaimed
<1>9. Known' /\ \A r \in Slots : Tipped(r)'
  BY <1>1, <1>3, <1>4, RunsAgree DEF SameRun
<1>10. QED
  BY <1>1, <1>8, <1>9, MovesShow DEF Good, Agrees, Moves, PInv, IInv

\* A plan: what it keeps is recorded before it is pushed.
LEMMA PlanGood ==
    ASSUME PInv, TypeOK', NEW l \in Slots, Plans(l)
    PROVE  Good
<1>1. PICK keep \in SUBSET (jobs[l].batch \ OnBase(l)), ok \in BOOLEAN :
        /\ ok = (keep # {} /\ OwnsRun(l) /\ HoldsLease)
        /\ runner' = [runner EXCEPT ![l].at = IF ok THEN "planned" ELSE "ending",
                         ![l].keep = keep, ![l].bounce = jobs[l].batch \ keep]
        /\ jobs' = IF ok THEN [jobs EXCEPT ![l].plan = keep, ![l].late = FALSE]
                   ELSE jobs
  BY DEF Plans
<1>2. runner[l].at = "gating" /\ UNCHANGED <<entry, remote>>
  BY DEF Plans
<1>3. Running(l) => jobs[l].tip = 0
  BY <1>2 DEF PInv, Agrees, Performs
<1>4. /\ runner'[l].at = (IF ok THEN "planned" ELSE "ending") /\ runner'[l].keep = keep
      /\ \A r \in Slots \ {l} : runner'[r] = runner[r]
  BY <1>1 DEF PInv, IInv, TypeOK, Runner
<1>5. /\ \A r \in Slots : /\ jobs'[r].run = jobs[r].run /\ jobs'[r].batch = jobs[r].batch
                          /\ jobs'[r].tip = jobs[r].tip /\ jobs'[r].open = jobs[r].open
      /\ jobs'[l].plan = IF ok THEN keep ELSE jobs[l].plan
      /\ \A r \in Slots \ {l} : jobs'[r].plan = jobs[r].plan
  <2>1. CASE ok
    <3>1. jobs' = [jobs EXCEPT ![l].plan = keep, ![l].late = FALSE]
      BY <1>1, <2>1
    <3>2. QED
      BY <2>1, <3>1 DEF PInv, IInv, TypeOK, Job
  <2>2. CASE ~ok
    BY <1>1, <2>2
  <2>3. QED
    BY <2>1, <2>2
<1>6. ok => Running(l) /\ keep # {}
  BY <1>1 DEF OwnsRun
<1>7. Performs(l)' /\ Looked(l)'
  BY <1>3, <1>4, <1>5, <1>6 DEF Performs, Looked, Running
<1>8. \A r \in Slots : Performs(r)' /\ Looked(r)'
  BY <1>4, <1>5, <1>7, RunnersAgree DEF Running, Unclaimed
<1>9. Known' /\ \A r \in Slots : Tipped(r)'
  <2>1. \A r \in Slots \ {l} : SameRun(r)
    BY <1>5 DEF SameRun
  <2>2. CASE ok
    <3>1. Unpushed(l)
      BY <1>3, <1>5, <1>6, <2>2 DEF Unpushed, Running
    <3>2. \A c \in Branch : ~Carries(l, c)
      <4>1. \A c \in Branch : c \in Changes
        BY DEF Branch, PInv, IInv, TypeOK
      <4>2. QED
        BY <1>3, <1>6, <2>2, <4>1, OnBranch
    <3>3. QED
      BY <1>2, <2>1, <3>1, <3>2, RunsAgree
  <2>3. CASE ~ok
    <3>1. SameRun(l)
      BY <1>5, <2>3 DEF SameRun
    <3>2. QED
      BY <1>2, <2>1, <3>1, RunsAgree
  <2>4. QED
    BY <2>2, <2>3
<1>10. QED
  BY <1>2, <1>8, <1>9, MovesShow DEF Good, Agrees, Moves, PInv, IInv
\* What was fetched tells of an interrupted run whether it pushed.
LEMMA ReconcileGood ==
    ASSUME PInv, TypeOK', NEW l \in Slots, NEW r \in Slots, Reconciles(l, r)
    PROVE  Good
<1>1. /\ runner[l].at = "fetched" /\ jobs[l].open /\ Unreconciled(r)
      /\ jobs' = [jobs EXCEPT ![r] = Over] /\ UNCHANGED <<remote, runner>>
      /\ entry' = IF Saw(l, r)
                  THEN Outcome(jobs[r].batch, jobs[r].plan, jobs[r].batch)
                  ELSE Outcome(jobs[r].batch, {}, {})
  BY DEF Reconciles, Current
<1>2. Unclaimed(l)
  BY <1>1 DEF Unclaimed, PInv, IInv, ClaimsOnce
<1>3. jobs[r].tip <= runner[l].base
  BY <1>1, <1>2 DEF PInv, Agrees, Looked
<1>4. Saw(l, r) = (jobs[r].tip # 0)
  <2>1. jobs[r].tip \in Nat /\ runner[l].base \in Nat
    BY DEF PInv, IInv, TypeOK, Job, Runner
  <2>2. QED
    BY <1>3, <2>1 DEF Saw
<1>5. jobs[r].plan \subseteq jobs[r].batch
  BY DEF PInv, Agrees, Tipped
<1>6. \A q \in Slots : runner'[q] = runner[q] \/ runner'[q] = NoRunner
  BY <1>1
<1>7. CASE Saw(l, r)
  <2>1. jobs[r].plan \cap jobs[r].batch = IF jobs[r].tip = 0 THEN {} ELSE jobs[r].plan
    BY <1>4, <1>5, <1>7
  <2>2. entry' = Outcome(jobs[r].batch, jobs[r].plan, jobs[r].batch)
    BY <1>1, <1>7
  <2>3. QED
    BY <1>1, <1>6, <2>1, <2>2, SettledGood
<1>8. CASE ~Saw(l, r)
  <2>1. {} \cap jobs[r].batch = IF jobs[r].tip = 0 THEN {} ELSE jobs[r].plan
    BY <1>4, <1>8
  <2>2. entry' = Outcome(jobs[r].batch, {}, {})
    BY <1>1, <1>8
  <2>3. QED
    BY <1>1, <1>6, <2>1, <2>2, SettledGood
<1>9. QED
  BY <1>7, <1>8

\* A runner that finishes has pushed what it says has landed, or nothing.
LEMMA FinishGood ==
    ASSUME PInv, TypeOK', NEW l \in Slots, Finishes(l)
    PROVE  Good
<1> DEFINE landed == IF runner[l].at = "pushed" THEN runner[l].keep ELSE {}
<1>1. /\ runner[l].at \in {"pushed", "ending"} /\ Running(l)
      /\ jobs' = [jobs EXCEPT ![l] = Over] /\ UNCHANGED remote
      /\ entry' = Outcome(jobs[l].batch, landed, runner[l].bounce)
      /\ GoesTo(l, "gone")
  BY DEF Finishes, OwnsRun
<1>2. Performs(l) /\ jobs[l].plan \subseteq jobs[l].batch
  BY DEF PInv, Agrees, Tipped
<1>3. landed \cap jobs[l].batch = IF jobs[l].tip = 0 THEN {} ELSE jobs[l].plan
  <2>1. CASE runner[l].at = "pushed"
    BY <1>1, <1>2, <2>1 DEF Performs
  <2>2. CASE runner[l].at = "ending"
    BY <1>1, <1>2, <2>2 DEF Performs
  <2>3. QED
    BY <1>1, <2>1, <2>2
<1>4. \A q \in Slots : runner'[q] = runner[q] \/ runner'[q] = NoRunner
  BY <1>1 DEF GoesTo, PInv, IInv, TypeOK
<1> HIDE DEF landed
<1>5. QED
  BY <1>1, <1>3, <1>4, SettledGood

-----------------------------------------------------------------------------
(***************************************************************************)
(* The theorems.                                                           *)
(***************************************************************************)
\* Each step keeps the invariant and is a step LandingPromise allows.
LEMMA GoodStep == Prompt /\ PInv /\ [Next]_vars => Agrees' /\ Shows
<1> SUFFICES ASSUME Prompt, PInv, [Next]_vars PROVE Good
  BY DEF Good
<1>0. TypeOK'
  BY TypeStep DEF PInv, IInv
<1>1. ASSUME NEW c \in Changes, Submit(c) PROVE Good
  BY <1>0, <1>1, SubmitGood
<1>2. ASSUME NEW c \in Changes, Withdraw(c) PROVE Good
  BY <1>0, <1>2, WithdrawGood
<1>3. ASSUME NEW l \in Slots, NEW m \in Machines, ByHand(l, m) PROVE Good
  <2> DEFINE closed == [r \in Slots |-> IF Running(r) THEN Abandoned(r)
                                      ELSE IF Unclaimed(r) THEN Over ELSE jobs[r]]
  <2>1. /\ NewLaunch(l, m, closed) /\ UNCHANGED remote
        /\ entry' = Requeued(UNION {Freed(r) : r \in {q \in Slots : Running(q)}})
    BY <1>3 DEF ByHand
  <2>2. closed \in [Slots -> Job]
    BY AbandonedFacts, OverFacts DEF PInv, IInv, TypeOK
  <2>3. \A r \in Slots : \/ closed[r] = jobs[r] /\ ~Active(r)
                         \/ closed[r] = Over /\ Unclaimed(r)
                         \/ closed[r] = Abandoned(r) /\ Running(r)
    BY DEF Active
  <2> HIDE DEF closed
  <2>4. QED
    BY <1>0, <2>1, <2>2, <2>3, LaunchGood
<1>4. ASSUME PumpIdle PROVE Good
  BY <1>0, <1>4, IdleGood DEF PumpIdle, queue
<1>5. ASSUME PumpQueues PROVE Good
  BY <1>0, <1>5, IdleGood DEF PumpQueues, queue
<1>6. ASSUME NEW l \in Slots, PumpLaunches(l) PROVE Good
  <2>1. PICK m \in Machines : NewLaunch(l, m, jobs)
    BY <1>6 DEF PumpLaunches
  <2>2. \A r \in Slots : jobs[r] = jobs[r] /\ ~Active(r)
    BY <1>6 DEF PumpLaunches, CanLaunch, AnyRunning, Active
  <2>3. UNCHANGED <<entry, remote>>
    BY <1>6 DEF PumpLaunches
  <2>4. UNION {Freed(r) : r \in {q \in Slots : Running(q)}} = {}
    BY <2>2 DEF Active
  <2>5. entry' = Requeued({})
    BY <2>3 DEF Requeued, PInv, IInv, TypeOK
  <2>6. jobs \in [Slots -> Job]
    BY DEF PInv, IInv, TypeOK
  <2>7. QED
    BY <1>0, <2>1, <2>2, <2>3, <2>4, <2>5, <2>6, LaunchGood
<1>7. ASSUME CoolDown PROVE Good
  BY <1>0, <1>7, IdleGood DEF CoolDown, queue
<1>8. ASSUME Restart PROVE Good
  BY <1>0, <1>8, RestartGood
<1>9. ASSUME NEW l \in Slots, LaunchStarted(l) PROVE Good
  BY <1>0, <1>9, IdleGood DEF LaunchStarted, queue
<1>10. ASSUME NEW l \in Slots, LaunchRejected(l) PROVE Good
  <2>1. CASE LaunchFailed(l)
    BY <1>0, <1>10, <2>1, LaunchFailedGood DEF LaunchRejected, LaunchFailed
  <2>2. CASE UNCHANGED jobs
    BY <1>0, <1>10, <2>2, IdleGood DEF LaunchRejected
  <2>3. QED
    BY <1>10, <2>1, <2>2 DEF LaunchRejected
<1>11. ASSUME NEW l \in Slots, SweepRun(l) PROVE Good
  BY <1>0, <1>11, AbandonGood DEF SweepRun
<1>12. ASSUME NEW l \in Slots, SweepLaunch(l) PROVE Good
  BY <1>0, <1>12, LaunchFailedGood DEF SweepLaunch, LaunchFailed
<1>13. ASSUME NEW l \in Slots, RunnerExited(l) PROVE Good
  <2>1. CASE Running(l) /\ Abandon(l)
    BY <1>0, <1>13, <2>1, AbandonGood DEF RunnerExited
  <2>2. CASE LaunchFailed(l) /\ UNCHANGED entry
    BY <1>0, <1>13, <2>2, LaunchFailedGood DEF RunnerExited, LaunchFailed
  <2>3. QED
    BY <1>13, <2>1, <2>2 DEF RunnerExited
<1>14. ASSUME NEW l \in Slots, FallsSilent(l) PROVE Good
  BY <1>0, <1>14, LateGood DEF FallsSilent
<1>15. ASSUME NEW l \in Slots, Spawns(l) PROVE Good
  BY <1>0, <1>15, GoesGood DEF Spawns, queue
<1>16. ASSUME NEW l \in Slots, Fetches(l) PROVE Good
  <2>1. /\ runner' = [runner EXCEPT ![l].at = "fetched", ![l].base = Len(remote)]
        /\ UNCHANGED <<entry, jobs, remote>>
    BY <1>16 DEF Fetches, queue
  <2>2. /\ runner'[l].at = "fetched" /\ runner'[l].base = Len(remote)
        /\ \A r \in Slots \ {l} : runner'[r] = runner[r]
    BY <2>1 DEF PInv, IInv, TypeOK, Runner
  <2>3. \A r \in Slots : jobs[r].tip <= Len(remote)
    <3>1. \A r \in Slots : /\ jobs[r].tip \in Nat
                           /\ jobs[r].tip # 0 => jobs[r].tip \in DOMAIN remote
      BY DEF PInv, Agrees, Tipped, IInv, TypeOK, Job
    <3>2. Len(remote) \in Nat /\ DOMAIN remote = 1 .. Len(remote)
      BY LenProperties DEF PInv, IInv, TypeOK
    <3>3. QED
      BY <3>1, <3>2
  <2>4. Performs(l)' /\ Looked(l)'
    BY <2>1, <2>2, <2>3 DEF Performs, Looked
  <2>5. QED
    BY <1>0, <2>1, <2>2, <2>4, RunnerGood
<1>17. ASSUME NEW l \in Slots, Claims(l) PROVE Good
  BY <1>0, <1>17, ClaimGood
<1>18. ASSUME NEW l \in Slots, ClaimsNothing(l) PROVE Good
  BY <1>0, <1>18, ClaimsNothingGood
<1>19. ASSUME NEW l \in Slots, ClaimRefused(l) PROVE Good
  BY <1>0, <1>19, GoesGood DEF ClaimRefused, queue
<1>20. ASSUME NEW l \in Slots, NEW r \in Slots, Reconciles(l, r) PROVE Good
  BY <1>0, <1>20, ReconcileGood
<1>21. ASSUME NEW l \in Slots, Plans(l) PROVE Good
  BY <1>0, <1>21, PlanGood
<1>22. ASSUME NEW l \in Slots, RenewsLease(l) PROVE Good
  BY <1>0, <1>22, GoesGood DEF RenewsLease, queue
<1>23. ASSUME NEW l \in Slots, Pushes(l) PROVE Good
  BY <1>0, <1>23, PushGood
<1>24. ASSUME NEW l \in Slots, PushRejected(l) PROVE Good
  BY <1>0, <1>24, GoesGood DEF PushRejected, queue
<1>25. ASSUME NEW l \in Slots, Finishes(l) PROVE Good
  BY <1>0, <1>25, FinishGood
<1>26. ASSUME NEW l \in Slots, FinishRefused(l) PROVE Good
  BY <1>0, <1>26, GoesGood DEF FinishRefused, queue
<1>27. ASSUME NEW l \in Slots, Reports(l) PROVE Good
  BY <1>0, <1>27, LateGood DEF Reports
<1>28. ASSUME NEW l \in Slots, Throws(l) PROVE Good
  BY <1>0, <1>28, ThrowsGood
<1>29. ASSUME NEW l \in Slots, Dies(l) PROVE Good
  BY <1>0, <1>29, GoesGood DEF Dies, queue
<1>30. ASSUME LeaseTaken PROVE Good
  BY <1>0, <1>30, IdleGood DEF LeaseTaken, queue
<1>31. ASSUME ClassicAcquires PROVE Good
  BY <1>0, <1>31, IdleGood DEF ClassicAcquires, queue
<1>32. ASSUME ClassicPushes PROVE Good
  BY <1>0, <1>32, ClassicGood
<1>33. ASSUME ClassicReleases PROVE Good
  BY <1>0, <1>33, IdleGood DEF ClassicReleases, queue
<1>34. CASE UNCHANGED vars
  BY <1>0, <1>34, IdleGood DEF vars, queue
<1>35. QED
  BY <1>1, <1>2, <1>3, <1>4, <1>5, <1>6, <1>7, <1>8, <1>9, <1>10, <1>11, <1>12,
     <1>13, <1>14, <1>15, <1>16, <1>17, <1>18, <1>19, <1>20, <1>21, <1>22, <1>23, <1>24,
     <1>25, <1>26, <1>27, <1>28, <1>29, <1>30, <1>31, <1>32, <1>33, <1>34
  DEF Next, Pump, Launch, TakeBack, RunnerStep

\* An empty queue and an empty branch.
LEMMA InitAgrees == Init => Agrees /\ Promise!Init
<1> SUFFICES ASSUME Init PROVE Agrees /\ Promise!Init
  OBVIOUS
<1>1. /\ DOMAIN remote = {} /\ \A l \in Slots : jobs[l] = Over /\ runner[l] = NoRunner
  BY DEF Init
<1>2. Over.tip = 0
  BY DEF Over
<1>3. Known
  BY <1>1 DEF Known
<1>4. ASSUME NEW l \in Slots PROVE Tipped(l) /\ Performs(l) /\ Looked(l)
  <2>1. /\ jobs[l].plan = {} /\ jobs[l].batch = {} /\ jobs[l].tip = 0
        /\ jobs[l].run = "none" /\ runner[l].at = "gone"
    BY <1>1, <1>2, OverFacts DEF NoRunner
  <2>2. QED
    BY <2>1 DEF Tipped, Performs, Looked, Running
<1>5. Agrees
  BY <1>3, <1>4 DEF Agrees
<1>6. Promise!Init
  BY DEF Init, Promise!Init
<1>7. QED
  BY <1>5, <1>6

\* The invariant of the specification.
LEMMA PInvHolds ==
    ASSUME Prompt
    PROVE  Spec => []PInv
<1>1. Init => PInv
  BY InitHolds, InitAgrees DEF PInv
<1>2. PInv /\ [Next]_vars => PInv'
  BY StepHolds, GoodStep DEF PInv
<1>3. QED
  BY <1>1, <1>2, PTL DEF Spec

\* attestsUnlanded: when no push takes effect late or unnoticed, a change whose
\* latest entry bounced or was withdrawn is not on the branch, whatever runs
\* were interrupted and reconciled on the way.
THEOREM UnlandedHolds ==
    ASSUME Prompt
    PROVE  Spec => []UnlandedIsTrue
<1>1. PInv => UnlandedIsTrue
  BY OnBranch DEF UnlandedIsTrue, Branch
<1>2. QED
  BY <1>1, PInvHolds, PTL

\* Under the same condition the queue implements LandingPromise: each change is
\* pushed at most once, and each answer is what the branch says.
THEOREM PromiseKept ==
    ASSUME Prompt
    PROVE  Spec => KeepsPromise
<1>1. Init => Promise!Init
  BY InitAgrees
<1>2. PInv /\ [Next]_vars => Shows
  BY GoodStep
<1>3. QED
  BY <1>1, <1>2, PInvHolds, PTL DEF Spec, KeepsPromise, Promise!Spec, Shows, Stand, Branch
=============================================================================
