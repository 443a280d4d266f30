------------------------------- MODULE Timers -------------------------------
(***************************************************************************)
(* The timers of one session: the manager                                  *)
(* (src/web/server/timer-manager.ts), its memory, and the file it keeps    *)
(* (timer-store.ts).                                                       *)
(*                                                                         *)
(* What runs between two awaits is one step: a call that finds the file in *)
(* memory changes it and queues its snapshot at once.  A file that is      *)
(* missing, unreadable or cut off reads as the empty one, and is that here. *)
(***************************************************************************)
EXTENDS Naturals, Sequences, FiniteSets

CONSTANTS
    Delays,       \* how far ahead a timer is set
    Intervals,    \* what recurring timers repeat by, 0 for a one-shot
    MaxTimers,    \* MAX_TIMERS_PER_SESSION
    MaxCreates,   \* bound: timers ever created
    MaxTime,      \* bound: the clock
    MaxPauses,    \* bound: pauses of the session
    MaxFaults,    \* bound: failed writes, crashes and stops
    Overlapping,  \* a call may meet another one, or a start, that awaits the file
    BadDisk       \* a failed or interrupted write may cut the file off

ASSUME TimersAssumption ==
    /\ Delays \in SUBSET Nat /\ Intervals \in SUBSET Nat
    /\ MaxTimers \in Nat \ {0} /\ MaxCreates \in Nat /\ MaxTime \in Nat
    /\ MaxPauses \in Nat /\ MaxFaults \in Nat
    /\ Overlapping \in BOOLEAN /\ BadDisk \in BOOLEAN

\* `num` tells timers apart whatever their ids.
Timer == [num : Nat \ {0}, id : Nat, due : Nat, every : Nat]
File == [nextId : Nat, timers : SUBSET Timer]
Empty == [nextId |-> 1, timers |-> {}]
NoFile == [nextId |-> 0, timers |-> {}]  \* nothing in the sessions map

\* A write of the chain: its snapshot, the timer its call answers with, whether
\* the call evicts an empty file afterwards, and how many timers there were.
Write == [file : File, answers : SUBSET Timer, evicts : BOOLEAN, made : Nat]

VARIABLES
    server,    \* where the process is
    memory,    \* the session's entry of `sessions`
    disk,      \* the session's file
    writes,    \* the session's write chain, the running one first
    loads,     \* what creates that await the file have read
    found,     \* what startAll has read
    unlinking, \* cancelAllTimers awaits the deletion
    failed,    \* writeFailures
    paused,    \* isSessionPaused
    now,       \* the clock
    pauses, faults, \* history: how many there were
    made,      \* history: timers created
    removed,   \* history: timers fired for good, cancelled or archived
    answered,  \* history: timers whose create has answered, since the last archive
    archived,  \* history: timers an archive was to delete, unless read again since
    over,      \* history: removed timers whose removal is saved
    settled    \* history: the next firing each timer was last saved with

process == <<server, memory, writes, loads, found, unlinking, failed>>
world == <<paused, now, pauses>>
history == <<made, removed, answered, archived, over, settled>>
vars == <<process, disk, world, faults, history>>

Servers == {"down", "starting", "restoring", "up", "stopping"}
Nums == 1 .. MaxCreates

TypeOK ==
    /\ server \in Servers /\ memory \in File /\ disk \in File
    /\ writes \in Seq(Write) /\ loads \in Seq(File) /\ found \in File
    /\ unlinking \in BOOLEAN /\ failed \in BOOLEAN /\ paused \in BOOLEAN
    /\ now \in Nat /\ pauses \in Nat /\ faults \in Nat /\ made \in 0 .. MaxCreates
    /\ removed \in SUBSET Nums /\ over \in SUBSET Nums /\ archived \in SUBSET Nums
    /\ answered \in SUBSET Timer
    /\ settled \in [Nums -> Nat]

Init ==
    /\ server = "up" /\ memory = NoFile /\ disk = Empty
    /\ writes = <<>> /\ loads = <<>> /\ found = NoFile
    /\ unlinking = FALSE /\ failed = FALSE /\ paused = FALSE
    /\ now = 0 /\ pauses = 0 /\ faults = 0 /\ made = 0
    /\ removed = {} /\ answered = {} /\ archived = {} /\ over = {}
    /\ settled = [n \in Nums |-> 0]

-----------------------------------------------------------------------------

Fault == faults < MaxFaults /\ faults' = faults + 1

NumsOf(timers) == {t.num : t \in timers}

\* Nothing of the session awaits the disk.
Quiet ==
    /\ server \in {"up", "stopping"}
    /\ writes = <<>> /\ loads = <<>> /\ ~unlinking

\* flush finds nothing to wait for and no failure.
Flushed == writes = <<>> /\ ~failed

-----------------------------------------------------------------------------
(* The write chain.                                                        *)

\* Mutant: the snapshot does not wait for the older ones.
PersistUnchained(file, answers, evicts) ==
    writes' = <<[file |-> file, answers |-> answers,
                 evicts |-> evicts, made |-> made']>> \o writes

\* persistSessionNow up to its await.
Persist(file, answers, evicts) ==
    writes' = Append(writes, [file |-> file, answers |-> answers,
                              evicts |-> evicts, made |-> made'])

\* Mutant: the file is evicted with the timers it has got meanwhile.
EvictAnyway(evicts) == IF evicts THEN NoFile ELSE memory

\* persistAndEvictIfEmptyNow after its await.
AfterWrite(evicts) ==
    IF evicts /\ memory.timers = {} THEN NoFile ELSE memory

\* What is certain once the snapshot of `w` is on disk.
Saved(w) ==
    /\ over' = over \cup ((removed \cap 1 .. w.made) \ NumsOf(w.file.timers))
    /\ settled' = [n \in Nums |->
           IF n \in NumsOf(w.file.timers)
           THEN (CHOOSE t \in w.file.timers : t.num = n).due ELSE settled[n]]

\* The running write succeeds and the call that queued it goes on.
WriteDone ==
    /\ writes # <<>>
    /\ disk' = Head(writes).file
    /\ writes' = Tail(writes)
    /\ failed' = FALSE
    /\ memory' = AfterWrite(Head(writes).evicts)
    /\ answered' = answered \cup Head(writes).answers
    /\ Saved(Head(writes))
    /\ UNCHANGED <<server, loads, found, unlinking, world, faults, made, removed,
                   archived>>

\* Mutant: the failure is not kept for flush.
WriteFailsUnnoticed ==
    /\ writes # <<>> /\ Fault
    /\ writes' = Tail(writes)
    /\ UNCHANGED <<server, memory, disk, loads, found, unlinking, failed, world, history>>

\* The running write fails: its call throws, and nothing is evicted.
WriteFails ==
    /\ writes # <<>> /\ Fault
    /\ disk' \in {disk} \cup (IF BadDisk THEN {Empty} ELSE {})
    /\ writes' = Tail(writes)
    /\ failed' = TRUE
    /\ UNCHANGED <<server, memory, loads, found, unlinking, world, history>>

-----------------------------------------------------------------------------
(* Calls.                                                                  *)

\* The end of createTimer, with the file it has got.
AddTo(file) ==
    \/ /\ Cardinality(file.timers) >= MaxTimers
       /\ memory' = file
       /\ UNCHANGED <<writes, made>>
    \/ /\ Cardinality(file.timers) < MaxTimers
       /\ made < MaxCreates /\ made' = made + 1
       /\ \E delay \in Delays, every \in Intervals :
             LET t == [num |-> made', id |-> file.nextId, every |-> every,
                       due |-> now + (IF every = 0 THEN delay ELSE every)]
                 after == [nextId |-> file.nextId + 1, timers |-> file.timers \cup {t}]
             IN  memory' = after /\ Persist(after, {t}, FALSE)

\* createTimer with the file in memory.
Create ==
    /\ server # "down" /\ memory # NoFile
    /\ AddTo(memory)
    /\ UNCHANGED <<server, loads, found, unlinking, failed, disk, world, faults,
                   removed, answered, archived, over, settled>>

\* Mutant: a session without an entry starts from an empty file.
LoadNothing ==
    /\ server # "down" /\ memory = NoFile /\ made + Len(loads) < MaxCreates
    /\ Overlapping \/ Quiet
    /\ loads' = Append(loads, Empty)
    /\ UNCHANGED <<server, memory, disk, writes, found, unlinking, failed, world,
                   faults, history>>

\* createTimer with the file on disk only: getOrCreateFile reads it ...
Load ==
    /\ server # "down" /\ memory = NoFile /\ made + Len(loads) < MaxCreates
    /\ Overlapping \/ Quiet
    /\ loads' = Append(loads, disk)
    /\ UNCHANGED <<server, memory, disk, writes, found, unlinking, failed, world,
                   faults, history>>

\* ... and puts what it read into the map, whatever is there by now.
Loaded(i) ==
    /\ i \in DOMAIN loads
    /\ loads' = [j \in 1 .. Len(loads) - 1 |-> loads[IF j < i THEN j ELSE j + 1]]
    /\ AddTo(loads[i])
    /\ removed' = removed \ NumsOf(loads[i].timers)
    /\ archived' = archived \ NumsOf(loads[i].timers)
    /\ UNCHANGED <<server, disk, found, unlinking, failed, world, faults,
                   answered, over, settled>>

\* cancelTimer.
Cancel(t) ==
    /\ server # "down" /\ t \in memory.timers
    /\ memory' = [memory EXCEPT !.timers = @ \ {t}]
    /\ removed' = removed \cup {t.num}
    /\ UNCHANGED made
    /\ Persist(memory', {}, TRUE)
    /\ UNCHANGED <<server, disk, loads, found, unlinking, failed, world, faults,
                   answered, archived, over, settled>>

\* cancelAllTimers up to its await: the session is archived.
CancelAll ==
    /\ server # "down" /\ ~unlinking
    /\ Overlapping \/ Quiet
    /\ memory' = NoFile
    /\ unlinking' = TRUE
    /\ removed' = 1 .. made /\ archived' = 1 .. made
    /\ answered' = {}
    /\ UNCHANGED <<server, disk, writes, loads, found, failed, world, faults, made, over,
                   settled>>

\* deleteTimers: it takes every error of the deletion for a file that is gone,
\* so nobody learns that one has stayed.
Unlinked ==
    /\ unlinking /\ unlinking' = FALSE
    /\ \/ disk' = Empty /\ over' = over \cup removed /\ UNCHANGED faults
       \/ Fault /\ UNCHANGED <<disk, over>>
    /\ UNCHANGED <<server, memory, writes, loads, found, failed, world,
                   made, removed, answered, archived, settled>>

-----------------------------------------------------------------------------
(* The sweep's step for this session, with the `then` of its start.        *)

\* Mutant: the next occurrence before the fired one.
PreviousDue(t, then) == t.due - t.every

\* resolveRecurringFireContext, and the next occurrence after the fired one.
NextDue(t, then) == t.due + ((then - t.due) \div t.every) * t.every + t.every

FiredAt(then) == {t \in memory.timers : t.due <= then}

Sweep(then) ==
    /\ server = "up" /\ ~paused
    /\ FiredAt(then) # {}
    /\ LET fired == FiredAt(then)
           again == {t \in fired : t.every > 0}
       IN  /\ memory' = [memory EXCEPT !.timers =
                   (@ \ fired) \cup {[t EXCEPT !.due = NextDue(t, then)] : t \in again}]
           /\ removed' = removed \cup NumsOf(fired \ again)
    /\ UNCHANGED made
    /\ Persist(memory', {}, TRUE)
    /\ UNCHANGED <<server, disk, loads, found, unlinking, failed, world, faults,
                   answered, archived, over, settled>>

-----------------------------------------------------------------------------
(* Stops, crashes and starts.                                              *)

\* Nothing of the process is left.
Gone ==
    /\ server' = "down" /\ memory' = NoFile /\ found' = NoFile
    /\ writes' = <<>> /\ loads' = <<>> /\ unlinking' = FALSE /\ failed' = FALSE
    /\ UNCHANGED <<world, history>>

\* The process ends at any moment, in the middle of a write or of a deletion.
Crash ==
    /\ server # "down" /\ Fault
    /\ disk' \in {disk} \cup (IF unlinking THEN {Empty} ELSE {})
                  \cup (IF writes = <<>> THEN {} ELSE {Head(writes).file})
                  \cup (IF BadDisk /\ writes # <<>> THEN {Empty} ELSE {})
    /\ Gone

\* A stop ends the sweeps (stopDispatch, isStopping) ...
Stop ==
    /\ server = "up" /\ Fault
    /\ server' = "stopping"
    /\ UNCHANGED <<memory, disk, writes, loads, found, unlinking, failed, world, history>>

\* ... and the process once flush has returned.
Exit ==
    /\ server = "stopping" /\ Flushed
    /\ Gone
    /\ UNCHANGED <<disk, faults>>

\* A start listens for calls before startAll reads the file ...
Start ==
    /\ server = "down" /\ server' = "starting"
    /\ UNCHANGED <<memory, disk, writes, loads, found, unlinking, failed, world,
                   faults, history>>

ReadFile ==
    /\ server = "starting" /\ server' = "restoring"
    /\ found' = disk
    /\ UNCHANGED <<memory, disk, writes, loads, unlinking, failed, world, faults, history>>

\* Mutant: a start leaves the file to the next create.
RestoreNothing ==
    /\ server = "restoring" /\ server' = "up"
    /\ found' = NoFile
    /\ UNCHANGED <<memory, disk, writes, loads, unlinking, failed, world, faults, history>>

\* ... and puts it into the map, if it has timers, whatever is there by now.
Restore ==
    /\ server = "restoring" /\ server' = "up"
    /\ memory' = IF found.timers # {} THEN found ELSE memory
    /\ removed' = removed \ NumsOf(found.timers)
    /\ archived' = archived \ NumsOf(found.timers)
    /\ found' = NoFile
    /\ UNCHANGED <<disk, writes, loads, unlinking, failed, world, faults,
                   made, answered, over, settled>>

-----------------------------------------------------------------------------
(* The session and the clock.                                              *)

Pause ==
    /\ pauses < MaxPauses \/ paused
    /\ paused' = ~paused
    /\ pauses' = IF paused THEN pauses ELSE pauses + 1
    /\ UNCHANGED <<process, disk, now, faults, history>>

Tick ==
    /\ now < MaxTime /\ now' = now + 1
    /\ UNCHANGED <<process, disk, paused, pauses, faults, history>>

Next ==
    \/ WriteDone \/ WriteFails
    \/ Create \/ Load \/ \E i \in DOMAIN loads : Loaded(i)
    \/ \E t \in memory.timers : Cancel(t)
    \/ CancelAll \/ Unlinked
    \/ \E then \in 0 .. now : Sweep(then)
    \/ Crash \/ Stop \/ Exit \/ Start \/ ReadFile \/ Restore
    \/ Pause \/ Tick

Spec == Init /\ [][Next]_vars

\* The interval starts a sweep every five seconds, writes settle, and a server
\* that is down is started.
Fairness ==
    /\ WF_vars(Sweep(now)) /\ WF_vars(WriteDone)
    /\ WF_vars(Exit) /\ WF_vars(Start) /\ WF_vars(ReadFile) /\ WF_vars(Restore)

FairSpec == Spec /\ Fairness

-----------------------------------------------------------------------------
(* What must hold.                                                         *)

Running == server \in {"up", "stopping"}

\* AnsweredKept.  A timer whose create has answered, and which has neither
\* fired for good nor been cancelled or archived, is on disk, and in memory
\* once the server has started: no eviction, write of another call, failed
\* write or restart loses it (timer-manager.ts:332-357).
AnsweredKept ==
    \A t \in answered : t.num \in removed
        \/ /\ t.num \in NumsOf(disk.timers)
           /\ Running => t.num \in NumsOf(memory.timers)

\* IdsUnique.  Until the session is archived no id is answered twice, although
\* the file is evicted when it has no timers and read again later
\* (timer-manager.ts:99, 322-330).
IdsUnique == \A t, u \in answered : t.id = u.id => t.num = u.num

\* NothingRepeats.  What was saved stays done: a timer whose removal is saved
\* is nowhere any more, and no timer is due at a time before the one it was
\* last saved with, so no firing comes twice once a save has covered it
\* (timer-manager.ts:341-345: an older write cannot overwrite a newer one).
NothingRepeats ==
    \A t \in memory.timers \cup disk.timers : t.num \notin over /\ t.due >= settled[t.num]

\* FlushSaves.  When flush returns, the disk says what memory says, so a
\* stopped server forgets no timer, cancel or firing (timer-manager.ts:74-78),
\* whatever failed, was evicted or was deleted before.  The one change flush
\* neither waits for nor learns the failure of is the deletion on archive: the
\* disk may hold timers that memory does not when they were to go with it.
FlushSaves ==
    Running /\ Flushed =>
        IF memory = NoFile THEN NumsOf(disk.timers) \subseteq archived
                           ELSE disk = memory

\* FlushWaits.  The same for "accepted timer changes" of every kind
\* (timer-manager.ts:74).  The code does not keep this, and no run checks it
\* (README.md).
FlushWaits ==
    Running /\ Flushed =>
        IF memory = NoFile THEN disk.timers = {} ELSE disk = memory

\* Served.  A timer whose time has come fires, or is cancelled, through failed
\* writes and restarts, unless the session stays paused or a shutdown stays
\* blocked by a failed write (timer-manager.ts:206-257, 46-61).
Waits(n, k) == \E t \in memory.timers : t.num = n /\ t.due = k /\ k <= now
Answered(n) == \E t \in answered : t.num = n
Past(n, k) == n \in removed \/ \E t \in memory.timers : t.num = n /\ t.due > k
Served ==
    \/ <>[](paused \/ server = "stopping")
    \/ \A n \in Nums, k \in 0 .. MaxTime : Answered(n) /\ Waits(n, k) ~> Past(n, k)
=============================================================================
