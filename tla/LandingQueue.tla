---------------------------- MODULE LandingQueue ----------------------------
(***************************************************************************)
(* The landing queue of one shared branch: the manager of the coordinator  *)
(* (src/web/server/landing-queue-manager.ts), the runner processes it      *)
(* starts (src/web/bin/landing-run.ts) and the remote branch they push to. *)
(*                                                                         *)
(* The branch's port lease is reduced to its holder and to whether the     *)
(* queue waits for it.  A launch claims at most one run, so a launch and   *)
(* its run share a slot; a slot is used again once nothing refers to it.   *)
(***************************************************************************)
EXTENDS Subsequences

CONSTANTS
    Changes,     \* changes, each with its owner's session
    Machines,    \* machines with a base checkout
    MachineOf,   \* the machine a change was submitted from
    Broken,      \* machines on which no runner starts
    Slots,       \* bound: launches and runs remembered at a time
    MaxClassic,  \* bound: pushes of classic ports
    MaxFaults,   \* bound: crashes, deaths, stalls, thefts and spurious errors
    LatePushes,  \* a `git push` may take effect after its run was taken back
    LostAnswers  \* a `git push` may fail for the runner and have taken effect

ASSUME LandingAssumption ==
    /\ Broken \in SUBSET Machines /\ MachineOf \in [Changes -> Machines]
    /\ Machines # {} /\ IsFiniteSet(Machines) /\ Cardinality(Machines) <= 2
    /\ MaxClassic \in Nat /\ MaxFaults \in Nat
    /\ LatePushes \in BOOLEAN /\ LostAnswers \in BOOLEAN

\* A launch that has not ended, and the run it claimed.  A plan holds at least
\* one change.  An ended launch, a finished run, one abandoned without a plan
\* and one reconciled are history nothing reads again: Over.
Job == [open : BOOLEAN, machine : Machines,
        run : {"none", "running", "abandoned"},
        batch : SUBSET Changes, plan : SUBSET Changes,
        late : BOOLEAN, \* unclaimed, or not heard of, for longer than allowed
        tip : Nat]      \* where the planned tip is on the branch, 0 when it is not
Over == [open |-> FALSE, machine |-> CHOOSE m \in Machines : TRUE,
         run |-> "none", batch |-> {}, plan |-> {}, late |-> FALSE, tip |-> 0]

\* Where a runner process is, the remote it fetched, what it stacks and bounces.
Runner == [at : {"gone", "asked", "started", "fetched", "gating", "planned",
                 "pushing", "pushed", "ending", "orphan"},
           base : Nat, keep : SUBSET Changes, bounce : SUBSET Changes]
NoRunner == [at |-> "gone", base |-> 0, keep |-> {}, bounce |-> {}]

States == {"none", "pending", "running", "landed", "bounced", "withdrawn"}

VARIABLES
    entry,     \* the state of the latest entry of each change
    order,     \* changes in the order of submittedAt, the waiting ones at least
    jobs,      \* data.launches and data.runs
    holder,    \* who holds the port lease: the queue, a classic port, nobody
    inLine,    \* the queue waits for it
    launching, \* memory: launches whose launchRunner has not settled
    failures,  \* memory: failures in a row, below 2 exactly, from 2 by parity
    cooling,   \* memory: now < trouble.retryAt
    runner,    \* the runner process of each launch
    remote,    \* the branch: the changes each push brought, none for a classic port
    faults     \* history: faults so far

queue == <<entry, order, jobs>>
lease == <<holder, inLine>>
memory == <<launching, failures, cooling>>
vars == <<queue, lease, memory, runner, remote, faults>>

TypeOK ==
    /\ entry \in [Changes -> States] /\ order \in Seq(Changes) /\ jobs \in [Slots -> Job]
    /\ holder \in {"queue", "classic", "none"} /\ inLine \in BOOLEAN
    /\ launching \in SUBSET Slots
    /\ failures \in 0 .. 3 /\ cooling \in BOOLEAN
    /\ runner \in [Slots -> Runner]
    /\ remote \in Seq(SUBSET Changes)
    /\ faults \in Nat

Init ==
    /\ entry = [c \in Changes |-> "none"] /\ order = <<>>
    /\ jobs = [l \in Slots |-> Over]
    /\ holder = "none" /\ inLine = FALSE
    /\ launching = {} /\ failures = 0 /\ cooling = FALSE
    /\ runner = [l \in Slots |-> NoRunner]
    /\ remote = <<>>
    /\ faults = 0

-----------------------------------------------------------------------------
(* What the manager reads from its data.                                   *)

Pending == {c \in Changes : entry[c] = "pending"}
Running(l) == jobs[l].run = "running"
Unreconciled(l) == jobs[l].run = "abandoned"
Unclaimed(l) == jobs[l].open /\ jobs[l].run = "none"
AnyRunning == \E l \in Slots : Running(l)
AnyUnreconciled == \E l \in Slots : Unreconciled(l)
Waiting == Pending # {} \/ AnyUnreconciled

\* verifyRunner, ownedRunningRun and the lease check the runner's calls share.
Current(l) == jobs[l].open
OwnsRun(l) == Current(l) /\ Running(l)
HoldsLease == holder = "queue"

Fault == faults < MaxFaults /\ faults' = faults + 1

\* Mutant: a state the manager does not know.
RequeuedElsewhere(cs) == [c \in Changes |-> IF c \in cs THEN "queued" ELSE entry[c]]

\* The batch of `l` back to waiting.
Requeued(cs) == [c \in Changes |-> IF c \in cs THEN "pending" ELSE entry[c]]

\* release, and withdraw from the lease's line.
ReleaseLease ==
    /\ holder' = IF holder = "queue" THEN "none" ELSE holder
    /\ inLine' = FALSE

\* The delay is 0 after one failure and grows from the second on.
RecordFailure ==
    /\ failures' = IF failures = 3 THEN 2 ELSE failures + 1
    /\ cooling' = (failures >= 1)

NoTrouble == failures' = 0 /\ cooling' = FALSE

\* A restart loses what is only in memory.
Forgets == launching' = {} /\ NoTrouble

\* The run is taken back and its launch ended.  Without a plan its changes wait
\* again at once, with one they wait for a runner to look at the remote.
Abandoned(l) ==
    IF jobs[l].plan = {} THEN Over
    ELSE [jobs[l] EXCEPT !.run = "abandoned", !.open = FALSE, !.late = FALSE]
\* Mutant: planned changes wait again at once, too.
FreedAlways(l) == jobs[l].batch

Freed(l) == IF jobs[l].plan = {} THEN jobs[l].batch ELSE {}
Abandon(l) ==
    /\ jobs' = [jobs EXCEPT ![l] = Abandoned(l)]
    /\ entry' = Requeued(Freed(l))

\* The launch ends; a run it claimed all the same goes on until it is missed.
Ended(l) == IF Unclaimed(l) THEN Over ELSE [jobs[l] EXCEPT !.open = FALSE]
LaunchFailed(l) ==
    /\ jobs' = [jobs EXCEPT ![l] = Ended(l)]
    /\ RecordFailure /\ ReleaseLease

\* newLaunch, on a machine, once active runs are abandoned by hand.
NewLaunch(l, m, old) ==
    /\ old[l] = Over /\ runner[l].at = "gone" /\ l \notin launching
    /\ jobs' = [old EXCEPT ![l] = [Over EXCEPT !.open = TRUE, !.machine = m]]
    /\ runner' = [runner EXCEPT ![l] = [NoRunner EXCEPT !.at = "asked"]]

-----------------------------------------------------------------------------
(* What owners and leaders do.                                             *)

Submit(c) ==
    LET waiting == {i \in DOMAIN order : entry[order[i]] \in {"pending", "running"}}
    IN /\ entry[c] \in {"none", "bounced", "withdrawn"}
       /\ entry' = [entry EXCEPT ![c] = "pending"]
       /\ \E kept \in Filtered(order, waiting) : order' = Append(kept, c)
       /\ UNCHANGED <<jobs, lease, memory, runner, remote, faults>>

Withdraw(c) ==
    /\ entry[c] = "pending"
    /\ entry' = [entry EXCEPT ![c] = "withdrawn"]
    /\ UNCHANGED <<order, jobs, lease, memory, runner, remote, faults>>

\* startRunnerByHand, while no run reports; it takes a silent run back.
ByHand(l, m) ==
    LET closed == [r \in Slots |-> IF Running(r) THEN Abandoned(r)
                                   ELSE IF Unclaimed(r) THEN Over ELSE jobs[r]]
    IN /\ Fault
       /\ \A r \in Slots : Running(r) => jobs[r].late
       /\ Waiting \/ AnyRunning
       /\ launching = {} /\ m \notin Broken
       /\ holder # "classic" /\ holder' = "queue"
       /\ entry' = Requeued(UNION {Freed(r) : r \in {q \in Slots : Running(q)}})
       /\ NewLaunch(l, m, closed)
       /\ NoTrouble
       /\ UNCHANGED <<order, inLine, launching, remote>>

-----------------------------------------------------------------------------
(* The manager bringing the queue forward.                                 *)

\* Mutant: a launch that has not claimed yet is not looked for.
CanLaunchTwice == launching = {} /\ ~AnyRunning /\ Waiting /\ ~cooling

\* A pump runs soon after each operation, and for a queue with work on every
\* sweep; it changes nothing while a runner is being started.
CanLaunch ==
    /\ launching = {} /\ ~AnyRunning /\ Waiting /\ ~cooling
    /\ ~\E l \in Slots : Unclaimed(l)

\* Nothing waits: the lease, or the place in its line, goes back.
PumpIdle ==
    /\ launching = {} /\ ~AnyRunning /\ ~Waiting
    /\ ReleaseLease /\ NoTrouble
    /\ UNCHANGED <<queue, launching, runner, remote, faults>>

\* A classic port holds the lease, so the queue gets in line.
PumpQueues ==
    /\ CanLaunch /\ holder = "classic"
    /\ inLine' = TRUE
    /\ UNCHANGED <<queue, holder, memory, runner, remote, faults>>

\* Machines to start on, first the waiting changes' in order, then those of
\* interrupted runs' changes, then the ones such runs were on.
Sources ==
    LET interrupted == {r \in Slots : Unreconciled(r)}
        held == UNION {jobs[r].batch : r \in interrupted}
    IN {<<i, MachineOf[order[i]]>> : i \in {j \in DOMAIN order : order[j] \in Pending}}
         \cup {<<Len(order) + i, MachineOf[order[i]]>> :
                  i \in {j \in DOMAIN order : order[j] \in held}}
         \cup {<<2 * Len(order) + 1, jobs[r].machine>> : r \in interrupted}

\* Mutant: the first source's machine, whatever failed there.
PickedFirst(m) == \E s \in Sources : s[2] = m /\ \A t \in Sources : s[1] <= t[1]

\* pickMachine: the first source of each machine, advanced by each failure.
Picked(m) ==
    LET machines == {s[2] : s \in Sources}
        before == {n \in machines \ {m} : \E s \in Sources :
                      s[2] = n /\ \A t \in Sources : t[2] = m => s[1] < t[1]}
    IN m \in machines /\ Cardinality(before) = failures % Cardinality(machines)

PumpLaunches(l) ==
    /\ CanLaunch /\ holder # "classic" /\ holder' = "queue"
    /\ \E m \in Machines : Picked(m) /\ NewLaunch(l, m, jobs)
    /\ launching' = {l}
    /\ UNCHANGED <<entry, order, inLine, failures, cooling, remote, faults>>

Pump ==
    \/ PumpIdle \/ PumpQueues
    \/ \E l \in Slots : PumpLaunches(l)

\* launchRunner settles: the process has spawned.
LaunchStarted(l) ==
    /\ l \in launching /\ jobs[l].machine \notin Broken /\ runner[l].at # "asked"
    /\ launching' = {}
    /\ UNCHANGED <<queue, lease, failures, cooling, runner, remote, faults>>

\* It rejects: no runner starts on that machine, or its answer was lost.
LaunchRejected(l) ==
    /\ l \in launching
    /\ \/ jobs[l].machine \in Broken /\ runner[l].at = "gone" /\ UNCHANGED faults
       \/ jobs[l].machine \notin Broken /\ Fault
    /\ launching' = {}
    /\ IF Current(l)
       THEN LaunchFailed(l)
       ELSE UNCHANGED <<jobs, lease, failures, cooling>>
    /\ UNCHANGED <<entry, order, runner, remote>>

-----------------------------------------------------------------------------
(* The manager taking runs and launches back.                              *)

SweepRun(l) ==
    /\ Running(l)
    /\ Abandon(l)
    /\ \/ ~HoldsLease /\ UNCHANGED <<lease, failures, cooling>>
       \/ HoldsLease /\ jobs[l].late /\ RecordFailure /\ ReleaseLease
    /\ UNCHANGED <<order, launching, runner, remote, faults>>

SweepLaunch(l) ==
    /\ Unclaimed(l) /\ launching = {}
    /\ \/ /\ ~HoldsLease
          /\ jobs' = [jobs EXCEPT ![l] = Over]
          /\ UNCHANGED <<lease, failures, cooling>>
       \/ HoldsLease /\ jobs[l].late /\ LaunchFailed(l)
    /\ UNCHANGED <<entry, order, launching, runner, remote, faults>>

\* A runner on the coordinator's own machine is seen to exit.
RunnerExited(l) ==
    /\ runner[l].at \in {"gone", "orphan"}
    /\ \/ Running(l) /\ Abandon(l) /\ RecordFailure /\ ReleaseLease
       \/ Unclaimed(l) /\ LaunchFailed(l) /\ UNCHANGED entry
    /\ UNCHANGED <<order, launching, runner, remote, faults>>

\* retryAt passes.
CoolDown ==
    /\ cooling /\ cooling' = FALSE
    /\ UNCHANGED <<queue, lease, launching, failures, runner, remote, faults>>

\* A launch stays unclaimed, or a run silent, for too long: its runner is gone
\* or was never started, or it is a stall of a runner that goes on later.
FallsSilent(l) ==
    /\ (Unclaimed(l) \/ Running(l)) /\ ~jobs[l].late
    /\ jobs' = [jobs EXCEPT ![l].late = TRUE]
    /\ \/ runner[l].at \in {"gone", "orphan"} /\ UNCHANGED faults
       \/ runner[l].at \notin {"gone", "orphan"} /\ Fault
    /\ UNCHANGED <<entry, order, lease, memory, runner, remote>>

\* The coordinator restarts; entries, runs and launches are in the file.  A launch
\* saved there may not have been asked for yet, and then never starts a runner.
Restart ==
    /\ Fault
    /\ Forgets
    /\ \E lost \in SUBSET {l \in Slots : runner[l].at = "asked"} :
          runner' = [l \in Slots |-> IF l \in lost THEN NoRunner ELSE runner[l]]
    /\ UNCHANGED <<queue, lease, remote>>

-----------------------------------------------------------------------------
(* The port lease and the classic ports it is shared with.                 *)

\* Expiry after 15 minutes without a renewal, or a leader's forced release.
LeaseTaken ==
    /\ Fault /\ HoldsLease
    /\ holder' \in {"none", "classic"}
    /\ UNCHANGED <<queue, inLine, memory, runner, remote>>

ClassicAcquires ==
    /\ holder = "none" /\ holder' = "classic"
    /\ UNCHANGED <<queue, inLine, memory, runner, remote, faults>>

ClassicPushes ==
    /\ holder = "classic"
    /\ Cardinality({i \in DOMAIN remote : remote[i] = {}}) < MaxClassic
    /\ remote' = Append(remote, {})
    /\ UNCHANGED <<queue, lease, memory, runner, faults>>

\* onLeasePromoted, when the queue was next.
ClassicReleases ==
    /\ holder = "classic"
    /\ holder' = IF inLine THEN "queue" ELSE "none"
    /\ inLine' = FALSE
    /\ UNCHANGED <<queue, memory, runner, remote, faults>>

-----------------------------------------------------------------------------
(* The runner: one process per launch.                                     *)

GoesTo(l, at) ==
    runner' = [runner EXCEPT ![l] =
                  IF at = "gone" THEN NoRunner ELSE [@ EXCEPT !.at = at]]

Spawns(l) ==
    /\ runner[l].at = "asked"
    /\ GoesTo(l, IF jobs[l].machine \in Broken THEN "gone" ELSE "started")
    /\ UNCHANGED <<queue, lease, memory, remote, faults>>

Fetches(l) ==
    /\ runner[l].at = "started"
    /\ runner' = [runner EXCEPT ![l].at = "fetched", ![l].base = Len(remote)]
    /\ UNCHANGED <<queue, lease, memory, remote, faults>>

\* Mutant: the whole batch lands or none of it.
OutcomeWhole(batch, landed, bounced) ==
    [c \in Changes |-> IF c \notin batch THEN entry[c]
                       ELSE IF landed # {} THEN "landed"
                       ELSE IF c \in bounced THEN "bounced" ELSE "pending"]

\* The outcomes of a run: landed, bounced, and the rest waiting again.
Outcome(batch, landed, bounced) ==
    [c \in Changes |-> IF c \notin batch THEN entry[c]
                       ELSE IF c \in landed THEN "landed"
                       ELSE IF c \in bounced THEN "bounced" ELSE "pending"]

\* Mutant: the newest commit of the branch is not looked at.
SawOlder(l, r) == jobs[r].tip \in 1 .. runner[l].base - 1

\* What the runner fetched tells whether an interrupted run pushed its tip.
Saw(l, r) == jobs[r].tip \in 1 .. runner[l].base

Reconciles(l, r) ==
    /\ runner[l].at = "fetched" /\ Current(l) /\ HoldsLease
    /\ Unreconciled(r)
    /\ jobs' = [jobs EXCEPT ![r] = Over]
    /\ entry' = IF Saw(l, r)
                THEN Outcome(jobs[r].batch, jobs[r].plan, jobs[r].batch)
                ELSE Outcome(jobs[r].batch, {}, {})
    /\ UNCHANGED <<order, lease, memory, runner, remote, faults>>

\* Every waiting change; they are fewer than LANDING_BATCH_LIMIT.  By OneRunner
\* no other run is under way that the claim would have to abandon.
Claims(l) ==
    /\ runner[l].at = "fetched" /\ Current(l) /\ HoldsLease
    /\ ~AnyUnreconciled /\ Pending # {}
    /\ jobs' = [jobs EXCEPT ![l].run = "running", ![l].batch = Pending,
                          ![l].late = FALSE]
    /\ entry' = [c \in Changes |-> IF c \in Pending THEN "running" ELSE entry[c]]
    /\ GoesTo(l, "gating")
    /\ UNCHANGED <<order, lease, memory, remote, faults>>

ClaimsNothing(l) ==
    /\ runner[l].at = "fetched" /\ Current(l) /\ HoldsLease
    /\ ~AnyUnreconciled /\ Pending = {}
    /\ jobs' = [jobs EXCEPT ![l] = Over]
    /\ ReleaseLease
    /\ GoesTo(l, "gone")
    /\ UNCHANGED <<entry, order, memory, remote, faults>>

ClaimRefused(l) ==
    /\ runner[l].at = "fetched" /\ ~(Current(l) /\ HoldsLease)
    /\ GoesTo(l, "gone")
    /\ UNCHANGED <<queue, lease, memory, remote, faults>>

Reports(l) ==
    /\ runner[l].at \in {"gating", "planned", "pushing", "pushed", "ending"}
    /\ jobs[l].late /\ OwnsRun(l) /\ HoldsLease
    /\ jobs' = [jobs EXCEPT ![l].late = FALSE]
    /\ UNCHANGED <<entry, order, lease, memory, runner, remote, faults>>

\* A change the fetched branch holds already does not apply to it again.
OnBase(l) == UNION {remote[i] : i \in 1 .. runner[l].base}

\* The batch is stacked and gated; api.plan records what is about to be pushed.
Plans(l) ==
    /\ runner[l].at = "gating"
    /\ \E keep \in SUBSET (jobs[l].batch \ OnBase(l)) :
          LET ok == keep # {} /\ OwnsRun(l) /\ HoldsLease
          IN /\ runner' = [runner EXCEPT
                    ![l].at = IF ok THEN "planned" ELSE "ending",
                    ![l].keep = keep, ![l].bounce = jobs[l].batch \ keep]
             /\ jobs' = IF ok THEN [jobs EXCEPT ![l].plan = keep, ![l].late = FALSE]
                        ELSE jobs
    /\ UNCHANGED <<entry, order, lease, memory, remote, faults>>

\* Some step throws before the push: the changes bounced by then are answered, and
\* what has no outcome waits again.
Throws(l) ==
    /\ runner[l].at \in {"gating", "planned"} /\ Fault
    /\ \E bounced \in IF runner[l].at = "planned" THEN {runner[l].bounce}
                     ELSE SUBSET jobs[l].batch :
          runner' = [runner EXCEPT ![l].at = "ending", ![l].bounce = bounced]
    /\ UNCHANGED <<queue, lease, memory, remote>>

\* The last check before the push.
RenewsLease(l) ==
    /\ runner[l].at = "planned"
    /\ GoesTo(l, IF Current(l) /\ HoldsLease THEN "pushing" ELSE "ending")
    /\ UNCHANGED <<queue, lease, memory, remote, faults>>

\* The push of a run that is still on, or of one taken back meanwhile.
Pushes(l) ==
    /\ runner[l].at \in {"pushing", "orphan"}
    /\ Len(remote) = runner[l].base
    /\ Running(l) \/ LatePushes
    /\ remote' = Append(remote, runner[l].keep)
    /\ jobs' = IF jobs[l] = Over THEN jobs ELSE [jobs EXCEPT ![l].tip = Len(remote)']
    /\ \/ GoesTo(l, IF runner[l].at = "orphan" THEN "gone" ELSE "pushed")
          /\ UNCHANGED faults
       \/ LostAnswers /\ runner[l].at = "pushing" /\ GoesTo(l, "ending") /\ Fault
    /\ UNCHANGED <<entry, order, lease, memory>>

PushRejected(l) ==
    /\ runner[l].at \in {"pushing", "orphan"}
    /\ \/ Len(remote) # runner[l].base /\ UNCHANGED faults
       \/ ~Running(l) /\ UNCHANGED faults
       \/ Fault
    /\ GoesTo(l, IF runner[l].at = "orphan" THEN "gone" ELSE "ending")
    /\ UNCHANGED <<queue, lease, memory, remote>>

\* The outcomes are saved, then the lease is released; a restart may come between.
Finishes(l) ==
    LET pushed == runner[l].at = "pushed"
        landed == IF pushed THEN runner[l].keep ELSE {}
    IN /\ runner[l].at \in {"pushed", "ending"} /\ OwnsRun(l)
       /\ jobs' = [jobs EXCEPT ![l] = Over]
       /\ entry' = Outcome(jobs[l].batch, landed, runner[l].bounce)
       /\ \/ /\ IF landed \cup runner[l].bounce # {} THEN NoTrouble ELSE RecordFailure
             /\ ReleaseLease
             /\ UNCHANGED <<launching, faults>>
          \/ Fault /\ Forgets /\ UNCHANGED lease
       /\ GoesTo(l, "gone")
       /\ UNCHANGED <<order, remote>>

FinishRefused(l) ==
    /\ runner[l].at \in {"pushed", "ending"} /\ ~OwnsRun(l)
    /\ GoesTo(l, "gone")
    /\ UNCHANGED <<queue, lease, memory, remote, faults>>

\* The process dies; a push it started may be left behind.
Dies(l) ==
    /\ runner[l].at \notin {"gone", "asked", "orphan"} /\ Fault
    /\ GoesTo(l, IF runner[l].at = "pushing" THEN "orphan" ELSE "gone")
    /\ UNCHANGED <<queue, lease, memory, remote>>

-----------------------------------------------------------------------------

Launch(l) == LaunchStarted(l) \/ LaunchRejected(l)
TakeBack(l) == SweepRun(l) \/ SweepLaunch(l)
RunnerStep(l) ==
    \/ Spawns(l) \/ Fetches(l)
    \/ Claims(l) \/ ClaimsNothing(l) \/ ClaimRefused(l)
    \/ \E r \in Slots : Reconciles(l, r)
    \/ Plans(l) \/ RenewsLease(l)
    \/ Pushes(l) \/ PushRejected(l)
    \/ Finishes(l) \/ FinishRefused(l)

Next ==
    \/ \E c \in Changes : Submit(c) \/ Withdraw(c)
    \/ \E l \in Slots, m \in Machines : ByHand(l, m)
    \/ Pump \/ CoolDown \/ Restart
    \/ \E l \in Slots :
          Launch(l) \/ TakeBack(l) \/ RunnerExited(l) \/ FallsSilent(l)
    \/ \E l \in Slots : RunnerStep(l) \/ Reports(l) \/ Throws(l) \/ Dies(l)
    \/ LeaseTaken \/ ClassicAcquires \/ ClassicPushes \/ ClassicReleases

\* Timers, the calls the manager awaits and the steps of a live runner go on;
\* classic ports give the lease back; nothing else has to happen.
Fairness ==
    /\ WF_vars(PumpQueues \/ \E l \in Slots : PumpLaunches(l))
    /\ WF_vars(PumpIdle) /\ WF_vars(CoolDown) /\ WF_vars(ClassicReleases)
    /\ \A l \in Slots :
          /\ WF_vars(Launch(l)) /\ WF_vars(TakeBack(l))
          /\ WF_vars(FallsSilent(l)) /\ WF_vars(RunnerStep(l))

Spec == Init /\ [][Next]_vars
FairSpec == Spec /\ Fairness

-----------------------------------------------------------------------------
(* Properties.                                                             *)

\* "One landing run at a time" (shared/landing-queue.ts): at most one launch
\* can still claim or has a run under way, through restarts, stalls, launches
\* by hand and starts whose answer is lost.
OneRunner ==
    \A l, r \in Slots :
        (Unclaimed(l) \/ Running(l)) /\ (Unclaimed(r) \/ Running(r)) => l = r

\* A change is "running" exactly while one run that is under way, or that was
\* interrupted and not yet reconciled, carries it: it is neither forgotten in a
\* run nobody will settle nor taken by two.
EntriesFollowRuns ==
    \A c \in Changes :
        LET carriers == {l \in Slots :
                (Running(l) \/ Unreconciled(l)) /\ c \in jobs[l].batch}
        IN /\ (entry[c] = "running") = (carriers # {})
           /\ \A l, r \in carriers : l = r

\* attestsUnlanded: a change all of whose entries bounced or were withdrawn is
\* not on the branch.
UnlandedIsTrue ==
    \A c \in Changes : \A i \in DOMAIN remote :
        c \in remote[i] => entry[c] \notin {"bounced", "withdrawn"}

\* Every answer agrees with the branch and no change is pushed twice, across
\* interrupted runs and their reconciliation.
Promise == INSTANCE LandingPromise WITH
    status <- [c \in Changes |->
        CASE entry[c] \in {"pending", "running"} -> "waiting"
          [] entry[c] = "landed" -> "landed"
          [] OTHER -> "out"],
    branch <- UNION {remote[i] : i \in DOMAIN remote}
KeepsPromise == Promise!Spec

\* "One broken machine does not hold up the queue": a submitted change whose
\* own machine works is answered, also after crashes and stalls.
Answered ==
    \A c \in {d \in Changes : MachineOf[d] \notin Broken} :
        entry[c] \in {"pending", "running"}
            ~> entry[c] \in {"landed", "bounced", "withdrawn"}

=============================================================================
