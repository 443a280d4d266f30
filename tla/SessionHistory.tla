---------------------------- MODULE SessionHistory ----------------------------
(***************************************************************************)
(* How the history of one session gets to disk and back: the store         *)
(* (src/web/server/session-store.ts), its file operations                  *)
(* (session-persistence-io.ts) and the journal of large histories          *)
(* (session-history-journal.ts).                                           *)
(*                                                                         *)
(* A small history is a log of frozen rows and a hot file with the rest; a  *)
(* large one is a journal generation and a hot file with the head that was *)
(* committed last.  A row is a message with its tool results.              *)
(***************************************************************************)
EXTENDS Naturals, SequencesExt

CONSTANTS
    MaxRows,        \* bound: rows a session gets, 1, 2, ... in order
    Results,        \* rows that end a turn
    Sizes,          \* numbers of rows at which a history becomes large
    MaxEdits,       \* bound: edits of rows
    MaxReverts,     \* bound: reverts
    MaxFaults,      \* bound: failed writes and crashes
    MaxCommits,     \* bound: commits of one generation
    FailingWrites,  \* a write may fail
    TornAppends     \* a crash may leave half of an append in the log

ASSUME SessionAssumption ==
    /\ MaxRows \in Nat /\ Results \in SUBSET (1 .. MaxRows) /\ Sizes \in SUBSET Nat
    /\ MaxEdits \in Nat /\ MaxReverts \in Nat /\ MaxFaults \in Nat
    /\ MaxCommits \in Nat \ {0}
    /\ FailingWrites \in BOOLEAN /\ TornAppends \in BOOLEAN

Ids == 1 .. MaxRows
Row == [id : Ids, ver : Nat]

\* A generation's committed head, with 0 for none.
Head0 == [gen |-> 0, bytes |-> 0, frozen |-> 0, rows |-> <<>>]
JournalCache == [gen : Nat, bytes : Nat, frozen : Nat, rows : Seq(Row)]
Reference == [gen : Nat, bytes : Nat, count : Nat, frozen : Nat]
NoReference == [gen |-> 0, bytes |-> 0, count |-> 0, frozen |-> 0]

\* A commit: the rows written for it, and how many rows it keeps.
Commit == [wrote : SUBSET (Nat \X Row), count : Nat]

\* A queued save: of the array the session has when it runs, or of its own copy.
Request == [own : BOOLEAN, ids : Seq(Ids), coalescible : BOOLEAN, edited : Nat]

\* The save under way, with what it captured before its first await.
Writer == [step : {"idle", "whole", "log", "hot", "append", "publish", "retire"},
           rows : Seq(Row), shared : Nat, previous : Nat, frozen : Nat,
           rewrite : BOOLEAN, new : JournalCache]
Idle == [step |-> "idle", rows |-> <<>>, shared |-> 0, previous |-> 0, frozen |-> 0,
         rewrite |-> FALSE, new |-> Head0]

VARIABLES
    threshold,    \* how many of its rows reach HISTORY_THRESHOLD_BYTES
    live,         \* session.messageHistory
    version,      \* how often each row was edited
    debounced,    \* pendingSaves holds the session
    requested,    \* requestedHistoryLengths
    requests,     \* writeQueues, the running one first
    writer,       \* activeWriters
    frozen,       \* frozenCounts
    reference,    \* historyReferences
    cache,        \* the journal's caches
    failures,     \* persistenceFailures
    hot,          \* disk: the session file
    log,          \* disk: the frozen log
    generations,  \* disk: the commits of each journal generation
    used,         \* history: how many rows the session got
    edits, reverts, faults,  \* history: how many there were
    saved,        \* history: what a load returned when a save succeeded last
    attempts,     \* history: rows of the saves begun since
    spoiled       \* history: an edit, a revert or a row was lost, where it is set

session == <<live, version, used, edits, reverts>>
queue == <<debounced, requested, requests>>
memory == <<threshold, frozen, reference, cache, failures>>
disk == <<hot, log, generations>>
history == <<saved, attempts, spoiled>>
vars == <<session, queue, writer, memory, disk, faults, history>>

Gens == 1 .. (MaxFaults + 3)

TypeOK ==
    /\ threshold \in Sizes
    /\ live \in Seq(Ids) /\ version \in [Ids -> Nat]
    /\ debounced \in BOOLEAN /\ requested \in Nat /\ requests \in Seq(Request)
    /\ writer \in Writer
    /\ frozen \in Nat /\ reference \in Reference /\ cache \in JournalCache
    /\ failures \in SUBSET {"hot", "frozen"}
    /\ hot \in [frozen : Nat, tail : Seq(Row), ref : Reference]
    /\ log \in [rows : Seq(Row), torn : BOOLEAN]
    /\ generations \in [Gens -> Seq(Commit)]
    /\ used \in 0 .. MaxRows /\ edits \in Nat /\ reverts \in Nat /\ faults \in Nat
    /\ saved \in Seq(Row) /\ attempts \in SUBSET Seq(Ids) /\ spoiled \in BOOLEAN

Init ==
    /\ threshold \in Sizes
    /\ live = <<>> /\ version = [c \in Ids |-> 0]
    /\ debounced = FALSE /\ requested = 0 /\ requests = <<>>
    /\ writer = Idle
    /\ frozen = 0 /\ reference = NoReference /\ cache = Head0 /\ failures = {}
    /\ hot = [frozen |-> 0, tail |-> <<>>, ref |-> NoReference]
    /\ log = [rows |-> <<>>, torn |-> FALSE]
    /\ generations = [g \in Gens |-> <<>>]
    /\ used = 0 /\ edits = 0 /\ reverts = 0 /\ faults = 0
    /\ saved = <<>> /\ attempts = {} /\ spoiled = FALSE

-----------------------------------------------------------------------------
(* Rows and what a load makes of the files.                                *)

Least(m, n) == IF m <= n THEN m ELSE n
First(s, n) == SubSeq(s, 1, Least(n, Len(s)))
From(s, n) == SubSeq(s, n + 1, Len(s))
IdsOf(rows) == [i \in DOMAIN rows |-> rows[i].id]
Now(ids) == [i \in DOMAIN ids |-> [id |-> ids[i], ver |-> version[ids[i]]]]

\* computeFreezeCutoff: up to the last row that ends a turn.
Cutoff(ids) == Max({0} \cup {i \in DOMAIN ids : ids[i] \in Results})

\* readSessionHistory: each row as written last, if no commit dropped it since.
Writes(commits, n, i) ==
    {j \in 1 .. Least(n, Len(commits)) : \E w \in commits[j].wrote : w[1] = i}
Readable(ref) ==
    LET commits == generations[ref.gen]
    IN /\ ref.gen \in Gens /\ ref.bytes \in DOMAIN commits
       /\ commits[ref.bytes].count = ref.count
       /\ \A i \in 1 .. ref.count :
             /\ Writes(commits, ref.bytes, i) # {}
             /\ \A j \in Max(Writes(commits, ref.bytes, i)) .. ref.bytes :
                   commits[j].count >= i
RowsOfGeneration(ref) ==
    LET commits == generations[ref.gen]
        At(i) == commits[Max(Writes(commits, ref.bytes, i))].wrote
    IN [i \in 1 .. ref.count |-> (CHOOSE w \in At(i) : w[1] = i)[2]]

\* The hot rows a longer log holds already are not taken twice.
WithLog(tail, frozenCount, rows) ==
    rows \o From(tail, IF Len(rows) > frozenCount THEN Len(rows) - frozenCount ELSE 0)

Loads(rows) ==
    CASE hot.ref # NoReference -> RowsOfGeneration(hot.ref)
      [] hot.ref = NoReference /\ hot.frozen = 0 -> hot.tail
      [] hot.ref = NoReference /\ hot.frozen > 0 -> WithLog(hot.tail, hot.frozen, rows)
LoadsFrozen(rows) ==
    CASE hot.ref # NoReference -> hot.ref.frozen
      [] hot.ref = NoReference /\ hot.frozen = 0 -> 0
      [] hot.ref = NoReference /\ hot.frozen > 0 -> Len(rows)
IsReadable == hot.ref = NoReference \/ Readable(hot.ref)
Loaded == Loads(log.rows)

-----------------------------------------------------------------------------
(* What the session does; each change is followed by a save of it.         *)

\* Mutant: a newer save takes the place of the one that is running, too.
EnqueuedOverRunning(q, r) ==
    IF q # <<>> /\ r.coalescible /\ Last(q).coalescible
    THEN Append(Front(q), r) ELSE Append(q, r)

\* enqueueWrite: only the last save still waiting takes a newer one's place.
Enqueued(q, r) ==
    IF /\ q # <<>> /\ r.coalescible /\ Last(q).coalescible
       /\ ~(Len(q) = 1 /\ writer.step # "idle")
    THEN Append(Front(q), r) ELSE Append(q, r)

Ordinary(coalescible) ==
    [own |-> FALSE, ids |-> <<>>, coalescible |-> coalescible, edited |-> 0]

\* save, which waits for more, and saveImmediate, of a session not reverted.
Save ==
    /\ requested' = Len(live') /\ debounced' = TRUE
    /\ UNCHANGED requests
SaveImmediate ==
    /\ requested' = Len(live') /\ debounced' = FALSE
    /\ requests' = Append(requests, Ordinary(FALSE))

Grow ==
    /\ used < MaxRows /\ used' = used + 1
    /\ live' = Append(live, used + 1)
    /\ Save \/ SaveImmediate
    /\ UNCHANGED <<version, edits, reverts, writer, memory, disk, faults, history>>

\* The frozen rows the store takes as saved.
Stored == First(IF reference = NoReference THEN log.rows ELSE RowsOfGeneration(reference),
                frozen)

\* Rows of an unfinished turn count as frozen: a crash in an append left them in
\* the log, or a revert failed and its successor kept the count.
FrozenEarly(i) ==
    \/ i <= frozen /\ i > Cutoff(IdsOf(Stored)) /\ "frozen" \notin failures
    \/ i <= writer.frozen /\ i > Cutoff(IdsOf(First(writer.rows, writer.frozen)))

\* Rows change in place until their turn ends.
Mutate(i) ==
    /\ i \in DOMAIN live /\ i > Cutoff(live)
    /\ edits < MaxEdits /\ edits' = edits + 1
    /\ version' = [version EXCEPT ![live[i]] = @ + 1]
    /\ UNCHANGED live /\ Save
    /\ spoiled' = (spoiled \/ FrozenEarly(i))
    /\ UNCHANGED <<used, reverts, writer, memory, disk, faults, saved, attempts>>

\* saveHistoryEdits, of any row.
SaveHistoryEdits(i) ==
    /\ i \in DOMAIN live
    /\ edits < MaxEdits /\ edits' = edits + 1
    /\ version' = [version EXCEPT ![live[i]] = @ + 1]
    /\ requested' = Len(live) /\ debounced' = FALSE
    /\ requests' = Append(requests, [Ordinary(FALSE) EXCEPT !.edited = i])
    /\ UNCHANGED <<live, used, reverts, writer, memory, disk, faults, history>>

\* The session gets a new, shorter array, saved at once; saves still waiting
\* keep the old one.  A save shorter than requested before has its own copy.
Revert(n) ==
    LET kept == [k \in DOMAIN requests |->
                    IF requests[k].own THEN requests[k]
                    ELSE [requests[k] EXCEPT !.own = TRUE, !.ids = live]]
        copy == [Ordinary(FALSE) EXCEPT !.own = TRUE, !.ids = live']
    IN /\ n < Len(live) /\ live' = First(live, n)
       /\ reverts < MaxReverts /\ reverts' = reverts + 1
       /\ requested' = n /\ debounced' = FALSE
       /\ requests' = Enqueued(kept, IF n < requested THEN copy ELSE Ordinary(TRUE))
       /\ UNCHANGED <<version, used, edits, writer, memory, disk, faults, history>>

\* Something else of the session changed.
SaveAgain ==
    /\ ~debounced /\ requests = <<>>
    /\ UNCHANGED session /\ Save
    /\ UNCHANGED <<writer, memory, disk, faults, history>>

\* The timer of a debounced save goes off, or flushAll does not wait for it.
DebounceEnds ==
    /\ debounced /\ debounced' = FALSE
    /\ requests' = Enqueued(requests, Ordinary(TRUE))
    /\ UNCHANGED <<session, requested, writer, memory, disk, faults, history>>

-----------------------------------------------------------------------------
(* writeSnapshot: what a save captures before its first await.             *)

\* Rows an ordinary save takes as unchanged since they were saved.
Unchanged(repair, n) ==
    IF repair \/ frozen > n \/ "frozen" \in failures THEN 0 ELSE frozen

\* Whether the frozen rows on disk are replaced instead of extended.
Rewrites(repair, n) == repair \/ frozen > n \/ "frozen" \in failures

\* Mutant: a revert cuts the log at once.
FirstStepCuts(repair, n, count) ==
    LET large == n >= threshold \/ reference # NoReference
    IN CASE large -> "append"
         [] ~large /\ (Rewrites(repair, n) \/ count > frozen) -> "log"
         [] OTHER -> "hot"

\* A revert first makes the hot file whole, so that no crash pairs it with a
\* log that was cut.
FirstStep(repair, n, count) ==
    LET large == n >= threshold \/ reference # NoReference
    IN CASE large -> "append"
         [] ~large /\ Rewrites(repair, n) /\ ~repair -> "whole"
         [] ~large /\ (repair \/ (~Rewrites(repair, n) /\ count > frozen)) -> "log"
         [] OTHER -> "hot"

StartWrite ==
    LET r == Head(requests)
        ids == IF r.own THEN r.ids ELSE live
        n == Len(ids)
        repair == r.edited # 0 /\ r.edited <= frozen
        count == IF repair THEN frozen
                 ELSE IF Rewrites(repair, n) THEN Cutoff(ids)
                 ELSE Max({frozen, Cutoff(ids)})
    IN /\ writer.step = "idle" /\ requests # <<>>
       /\ IF repair /\ frozen > n
          THEN requests' = Tail(requests) /\ UNCHANGED <<writer, attempts>>
          ELSE /\ writer' = [step |-> FirstStep(repair, n, count),
                             rows |-> Now(ids), shared |-> Unchanged(repair, n),
                             previous |-> frozen, frozen |-> count,
                             rewrite |-> Rewrites(repair, n), new |-> Head0]
               /\ attempts' = attempts \cup {ids}
               /\ UNCHANGED requests
       /\ UNCHANGED <<session, debounced, requested, memory, disk, faults, saved, spoiled>>

\* The save is answered and the next one may run.
Settles ==
    /\ requests' = Tail(requests) /\ writer' = Idle
    /\ UNCHANGED <<threshold, session, debounced, requested>>

Succeeds ==
    /\ Settles
    /\ saved' = Loaded' /\ attempts' = {} /\ UNCHANGED <<spoiled, faults>>

-----------------------------------------------------------------------------
(* The small format.  A file that is replaced is replaced whole.           *)

WriteWhole ==
    /\ writer.step = "whole"
    /\ hot' = [frozen |-> 0, tail |-> writer.rows, ref |-> NoReference]
    /\ frozen' = 0
    /\ writer' = [writer EXCEPT !.step = "log"]
    /\ UNCHANGED <<threshold, session, queue, reference, cache, failures, log, generations, faults,
                   history>>

\* writeFrozenHistory: the log from the start, or what was added at its end,
\* where the first row joins a half record a crash left.
Replaces == writer.rewrite \/ writer.previous = 0
Added == SubSeq(writer.rows, writer.previous + 1, writer.frozen)

\* A crash or a failed revert leaves the rows of the longer array in the hot
\* file; the log may then get n rows of another array in front of them.
MixesArrays(n) ==
    /\ hot.frozen > 0 /\ Len(Loaded) > n
    /\ ~IsPrefix(IdsOf(First(writer.rows, n)), IdsOf(Loaded))

WriteLog ==
    /\ writer.step = "log"
    /\ log' = [rows |-> IF Replaces THEN First(writer.rows, writer.frozen)
                        ELSE IF log.torn THEN log.rows \o From(Added, 1)
                        ELSE log.rows \o Added,
               torn |-> FALSE]
    /\ frozen' = writer.frozen /\ failures' = failures \ {"frozen"}
    /\ writer' = [writer EXCEPT !.step = "hot"]
    /\ spoiled' = (spoiled \/ (log.torn /\ ~Replaces) \/ MixesArrays(writer.frozen))
    /\ UNCHANGED <<threshold, session, queue, reference, cache, hot, generations, faults,
                   saved, attempts>>

WriteHot ==
    /\ writer.step = "hot"
    /\ hot' = [frozen |-> writer.frozen, tail |-> From(writer.rows, writer.frozen),
               ref |-> NoReference]
    /\ failures' = failures \ {"hot"}
    /\ UNCHANGED <<frozen, reference, cache, log, generations>>
    /\ Succeeds

-----------------------------------------------------------------------------
(* The journal.                                                            *)

\* A new generation has a name no file and no head has.
Fresh == CHOOSE g \in Gens :
            generations[g] = <<>> /\ g \notin {hot.ref.gen, reference.gen, cache.gen}

\* The rows to be committed: shared ones are read only now.
Content(i) ==
    IF i <= writer.shared
    THEN [writer.rows[i] EXCEPT !.ver = version[writer.rows[i].id]] ELSE writer.rows[i]

\* The committed frozen rows are not read when the caller vouches for them.
Trusted(prev) ==
    IF /\ writer.shared >= prev.frozen /\ writer.frozen >= prev.frozen
       /\ Len(writer.rows) >= prev.frozen
    THEN prev.frozen ELSE 0

\* The state `append` commits after `prev`, and the commit it writes for it.
Candidate(prev, gen) ==
    [gen |-> gen, bytes |-> prev.bytes + 1, frozen |-> writer.frozen,
     rows |-> [i \in DOMAIN writer.rows |->
                  IF i <= Trusted(prev) THEN prev.rows[i] ELSE Content(i)]]
Written(prev, rows) ==
    [wrote |-> {<<i, rows[i]>> :
                   i \in {k \in DOMAIN rows :
                             k > Len(prev.rows) \/ prev.rows[k] # rows[k]}},
     count |-> Len(rows)]

\* append, again into a new generation when most of the old one is obsolete.
AppendJournal(obsolete) ==
    LET anew == cache = Head0 \/ obsolete
        prev == IF anew THEN Head0 ELSE cache
        gen == IF anew THEN Fresh ELSE cache.gen
        new == Candidate(prev, gen)
    IN /\ writer.step = "append"
       /\ obsolete => cache # Head0
       /\ ~anew => cache.bytes < MaxCommits
       /\ generations' = [generations EXCEPT ![gen] =
                             Append(First(@, prev.bytes), Written(prev, new.rows))]
       /\ writer' = [writer EXCEPT !.step = "publish", !.new = new]
       /\ UNCHANGED <<session, queue, memory, hot, log, faults, history>>

HeadOf(c) == [gen |-> c.gen, bytes |-> c.bytes, count |-> Len(c.rows), frozen |-> c.frozen]

\* The hot file with the new head replaces the old one.
Publish ==
    /\ writer.step = "publish"
    /\ hot' = [frozen |-> writer.frozen, tail |-> <<>>, ref |-> HeadOf(writer.new)]
    /\ cache' = writer.new
    /\ writer' = [writer EXCEPT !.step = "retire"]
    /\ UNCHANGED <<threshold, session, queue, frozen, reference, failures, log, generations,
                   faults, history>>

\* The generation of the head before is removed.
Retire ==
    /\ writer.step = "retire"
    /\ generations' = [g \in Gens |->
          IF g = reference.gen /\ g # writer.new.gen THEN <<>> ELSE generations[g]]
    /\ frozen' = writer.frozen /\ reference' = HeadOf(writer.new) /\ failures' = {}
    /\ UNCHANGED <<cache, hot, log>>
    /\ Succeeds

-----------------------------------------------------------------------------
(* Failed writes and crashes.                                              *)

Fault == faults < MaxFaults /\ faults' = faults + 1

\* The log as it is, or with what an append left that could not be undone.
Leftovers ==
    IF writer.step # "log" \/ Replaces THEN {log}
    ELSE {log} \cup {[rows |-> log.rows \o From(First(Added, n), IF log.torn THEN 1 ELSE 0),
                      torn |-> TRUE] : n \in 0 .. Len(Added) - 1}

\* Mutant: a failure is noted under the step that failed.
FailureOfStep(step) == step

\* failureKey: the frozen log fails apart from the rest.
FailureKey(step) == IF step = "log" THEN "frozen" ELSE "hot"

\* Mutant: the generation a commit was appended to is removed with it.
RolledBackWhole(gen) == <<>>

\* rollback: a generation is cut back to the last commit that was published, a
\* new one is removed.
RolledBack(gen) == IF gen = cache.gen THEN First(generations[gen], cache.bytes) ELSE <<>>

\* A write fails.  Later saves replace the frozen rows only after a failure of
\* the log, so an edit or a revert that got nowhere is not made up for.
Fails(l) ==
    /\ FailingWrites /\ Fault
    /\ writer.step \in {"whole", "log", "hot", "append", "publish"}
    /\ log' = l
    /\ failures' = failures \cup {FailureKey(writer.step)}
    /\ generations' =
          IF writer.step # "publish" THEN generations
          ELSE [generations EXCEPT ![writer.new.gen] = RolledBack(writer.new.gen)]
    /\ spoiled' = (\/ spoiled
                   \/ /\ writer.rewrite /\ "frozen" \notin failures
                      /\ writer.step \in {"whole", "append", "publish"}
                   \/ l.rows # log.rows /\ (log.torn \/ MixesArrays(Len(l.rows))))
    /\ Settles
    /\ UNCHANGED <<frozen, reference, cache, hot, saved, attempts>>

\* The process ends anywhere and the next one loads what is on disk.
Crash(l) ==
    LET rows == Loads(l.rows)
    IN /\ Fault
       /\ l = log \/ TornAppends
       /\ log' = l
       /\ live' = IdsOf(rows)
       /\ version' = [c \in Ids |->
             IF \E i \in DOMAIN rows : rows[i].id = c
             THEN rows[CHOOSE i \in DOMAIN rows : rows[i].id = c].ver ELSE 0]
       /\ debounced' = FALSE /\ requests' = <<>> /\ writer' = Idle
       /\ frozen' = LoadsFrozen(l.rows) /\ requested' = LoadsFrozen(l.rows)
       /\ reference' = hot.ref /\ cache' = Head0 /\ failures' = {}
       /\ saved' = rows /\ attempts' = {} /\ spoiled' = ~IsInjective(live')
       /\ UNCHANGED <<threshold, used, edits, reverts, hot, generations>>

-----------------------------------------------------------------------------

SessionStep ==
    \/ Grow
    \/ \E i \in DOMAIN live : Mutate(i) \/ SaveHistoryEdits(i)
    \/ \E n \in 0 .. Len(live) : Revert(n)
    \/ SaveAgain \/ DebounceEnds

WriteStep ==
    \/ StartWrite
    \/ WriteWhole \/ WriteLog \/ WriteHot
    \/ \E obsolete \in BOOLEAN : AppendJournal(obsolete)
    \/ Publish \/ Retire

FaultStep == \E l \in Leftovers : Fails(l) \/ Crash(l)

Next == SessionStep \/ WriteStep \/ FaultStep

Spec == Init /\ [][Next]_vars

-----------------------------------------------------------------------------
(* Properties.                                                             *)

\* flushAll resolves: nothing waits, nothing runs and nothing failed.
Flushed ==
    /\ ~debounced /\ requests = <<>> /\ writer.step = "idle" /\ failures = {}

\* "Flush accepted state ... Reject on unsaved data" (flushAll): what a load
\* would return then is the session's history, edits and reverts included.
FlushedIsSaved == Flushed => IsReadable /\ Loaded = Now(live)

\* The same, unless an edit or a revert failed to be written or a row joined a
\* half record: saves that failed otherwise are made up for by later ones.
FlushedUnlessSpoiled == ~spoiled => FlushedIsSaved

\* The head that is on disk, and the one in memory, can always be read,
\* whatever is rolled back, rewritten or removed around them.
HeadIsReadable == IsReadable /\ (reference # NoReference => Readable(reference))

\* What a load would return holds the rows of the last save that succeeded or
\* of one begun since, up to some row.  No row saved before is missing that the
\* later save keeps, and none is older than it was saved.
SavedStays ==
    ~spoiled =>
        LET rows == Loaded
            ids == IdsOf(rows)
            Holds(s, c) == \E k \in DOMAIN s : s[k] = c
        IN /\ \E a \in attempts \cup {IdsOf(saved)} :
                 /\ IsPrefix(ids, a)
                 /\ \A i \in DOMAIN saved : Holds(a, saved[i].id) => Holds(ids, saved[i].id)
           /\ \A i \in DOMAIN saved, k \in DOMAIN rows :
                 rows[k].id = saved[i].id => rows[k].ver >= saved[i].ver

=============================================================================
