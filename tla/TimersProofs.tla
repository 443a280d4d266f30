---------------------------- MODULE TimersProofs ----------------------------
(***************************************************************************)
(* Theorems about Timers for every value of its constants.                 *)
(***************************************************************************)
EXTENDS Timers, SequenceTheorems, TLAPS

-----------------------------------------------------------------------------
(***************************************************************************)
(* The model's operators.                                                  *)
(***************************************************************************)
\* Membership of NumsOf.
LEMMA NumsOfMember ==
    ASSUME NEW timers, NEW n
    PROVE  n \in NumsOf(timers) <=> \E t \in timers : t.num = n
BY DEF NumsOf

\* A longer write chain.
LEMMA Pushed ==
    ASSUME NEW S, NEW s \in Seq(S), NEW e \in S
    PROVE  /\ Append(s, e) \in Seq(S)
           /\ Len(s) \in Nat /\ DOMAIN s = 1 .. Len(s)
           /\ Len(Append(s, e)) = Len(s) + 1
           /\ DOMAIN Append(s, e) = 1 .. Len(s) + 1
           /\ \A i \in DOMAIN s : Append(s, e)[i] = s[i]
           /\ Append(s, e)[Len(s) + 1] = e
<1>1. /\ Append(s, e) \in Seq(S) /\ Len(s) \in Nat /\ DOMAIN s = 1 .. Len(s)
      /\ Len(Append(s, e)) = Len(s) + 1
      /\ \A i \in 1 .. Len(s) : Append(s, e)[i] = s[i]
      /\ Append(s, e)[Len(s) + 1] = e
  BY AppendProperties, LenProperties
<1>2. DOMAIN Append(s, e) = 1 .. Len(Append(s, e))
  BY <1>1, LenProperties
<1>3. QED
  BY <1>1, <1>2

\* A write chain without its first write.
LEMMA Popped ==
    ASSUME NEW S, NEW s \in Seq(S), s # <<>>
    PROVE  /\ Tail(s) \in Seq(S) /\ Len(s) \in Nat \ {0}
           /\ DOMAIN s = 1 .. Len(s) /\ 1 \in DOMAIN s
           /\ Len(Tail(s)) = Len(s) - 1
           /\ DOMAIN Tail(s) = 1 .. Len(s) - 1
           /\ \A i \in DOMAIN Tail(s) : i + 1 \in DOMAIN s /\ Tail(s)[i] = s[i + 1]
           /\ Head(s) = s[1] /\ s[1] \in S
<1>1. Len(s) \in Nat /\ DOMAIN s = 1 .. Len(s) /\ Len(s) # 0
  BY LenProperties, EmptySeq
<1>2. /\ Tail(s) \in Seq(S) /\ Len(Tail(s)) = Len(s) - 1
      /\ \A i \in 1 .. Len(Tail(s)) : Tail(s)[i] = s[i + 1]
      /\ Head(s) = s[1]
  <2>1. /\ Tail(s) \in Seq(S) /\ Len(Tail(s)) = Len(s) - 1 /\ Head(s) \in S
        /\ \A i \in 1 .. Len(Tail(s)) : Tail(s)[i] = s[i + 1]
    BY HeadTailProperties
  <2>2. QED
    BY <2>1
<1>3. DOMAIN Tail(s) = 1 .. Len(Tail(s))
  BY <1>2, LenProperties
<1>4. s[1] \in S
  BY <1>1, ElementOfSeq
<1>5. QED
  BY <1>1, <1>2, <1>3, <1>4

\* An occurrence after the fired one is a time, and not before the fired one.
LEMMA NextDueLater ==
    ASSUME NEW t \in Timer, NEW then \in Nat, t.every > 0, t.due <= then
    PROVE  NextDue(t, then) \in Nat /\ NextDue(t, then) >= t.due
<1> DEFINE missed == (then - t.due) \div t.every
<1>1. t.due \in Nat /\ t.every \in Nat /\ t.every > 0 /\ then - t.due \in Nat
  BY DEF Timer
<1>2. missed \in Nat
  <2>1. \A a, b \in Nat : b > 0 => a \div b \in Nat
    OBVIOUS
  <2>2. QED
    BY <1>1, <2>1
<1>3. missed * t.every \in Nat
  <2>1. \A a, b \in Nat : a * b \in Nat
    OBVIOUS
  <2>2. QED
    BY <1>1, <1>2, <2>1
<1>4. NextDue(t, then) = t.due + missed * t.every + t.every
  BY DEF NextDue
<1> HIDE DEF missed
<1>5. QED
  BY <1>1, <1>3, <1>4

-----------------------------------------------------------------------------
(***************************************************************************)
(* Types.                                                                  *)
(***************************************************************************)
\* Files whose timers are among the first k made.
FileUpto(k) == {f \in File : \A t \in f.timers : t.num <= k}

\* Every version of the file, wherever it is, has timers that were made.
Bounded ==
    /\ removed \subseteq 1 .. made /\ over \subseteq 1 .. made
    /\ memory \in FileUpto(made) /\ disk \in FileUpto(made) /\ found \in FileUpto(made)
    /\ \A i \in DOMAIN writes : writes[i].made <= made /\ writes[i].file \in FileUpto(made)
    /\ \A i \in DOMAIN loads : loads[i] \in FileUpto(made)

TypeInv == TypeOK /\ Bounded

\* A file that is read or kept stays within the timers made.
LEMMA FileUptoGrows ==
    ASSUME NEW j \in Nat, NEW k \in Nat, j <= k
    PROVE  FileUpto(j) \subseteq FileUpto(k)
BY DEF FileUpto, File, Timer

\* A version's numbers are among those of the timers made.
LEMMA NumsUpto ==
    ASSUME NEW k \in Nat, NEW f \in FileUpto(k)
    PROVE  NumsOf(f.timers) \subseteq 1 .. k
BY NumsOfMember DEF FileUpto, File, Timer

\* The empty files.
LEMMA EmptyFiles ==
    ASSUME NEW k \in Nat
    PROVE  Empty \in FileUpto(k) /\ NoFile \in FileUpto(k)
BY DEF FileUpto, File, Empty, NoFile

\* Persist of a version of the timers made.
LEMMA PersistTyped ==
    ASSUME TypeInv, made' \in 0 .. MaxCreates, made <= made',
           NEW file \in FileUpto(made'), NEW answers \in SUBSET Timer,
           NEW evicts \in BOOLEAN, Persist(file, answers, evicts)
    PROVE  /\ writes' \in Seq(Write)
           /\ \A i \in DOMAIN writes' :
                 writes'[i].made <= made' /\ writes'[i].file \in FileUpto(made')
<1> DEFINE w == [file |-> file, answers |-> answers, evicts |-> evicts, made |-> made']
<1>1. w \in Write /\ writes \in Seq(Write) /\ writes' = Append(writes, w)
  BY DEF FileUpto, Write, TypeInv, TypeOK, Persist
<1>2. w.file = file /\ w.made = made'
  OBVIOUS
<1> HIDE DEF w
<1>3. /\ writes' \in Seq(Write) /\ Len(writes) \in Nat /\ DOMAIN writes = 1 .. Len(writes)
      /\ DOMAIN writes' = 1 .. Len(writes) + 1
      /\ \A i \in DOMAIN writes : writes'[i] = writes[i]
      /\ writes'[Len(writes) + 1] = w
  BY <1>1, Pushed
<1>4. made \in Nat /\ made' \in Nat
  BY DEF TypeInv, TypeOK
<1>5. ASSUME NEW i \in DOMAIN writes
      PROVE  writes'[i].made <= made' /\ writes'[i].file \in FileUpto(made')
  <2>1. writes[i] \in Write /\ writes'[i] = writes[i]
    BY <1>1, <1>3, ElementOfSeq
  <2>2. writes[i].made <= made /\ writes[i].file \in FileUpto(made) /\ writes[i].made \in Nat
    BY <2>1 DEF TypeInv, Bounded, Write
  <2>3. writes[i].file \in FileUpto(made')
    BY <1>4, <2>2, FileUptoGrows
  <2>4. QED
    BY <1>4, <2>1, <2>2, <2>3
<1>6. QED
  BY <1>2, <1>3, <1>4, <1>5

\* The end of createTimer.
LEMMA AddToTyped ==
    ASSUME TypeInv, NEW file \in FileUpto(made), AddTo(file)
    PROVE  /\ made' \in 0 .. MaxCreates /\ made <= made'
           /\ memory' \in FileUpto(made')
           /\ writes' \in Seq(Write)
           /\ \A i \in DOMAIN writes' :
                 writes'[i].made <= made' /\ writes'[i].file \in FileUpto(made')
<1>1. made \in Nat /\ MaxCreates \in Nat /\ now \in Nat /\ made \in 0 .. MaxCreates
  BY TimersAssumption DEF TypeInv, TypeOK
<1>2. CASE memory' = file /\ UNCHANGED <<writes, made>>
  BY <1>1, <1>2 DEF TypeInv, TypeOK, Bounded
<1>3. ASSUME made < MaxCreates, made' = made + 1, NEW delay \in Delays, NEW every \in Intervals,
             LET t == [num |-> made', id |-> file.nextId, every |-> every,
                       due |-> now + (IF every = 0 THEN delay ELSE every)]
                 after == [nextId |-> file.nextId + 1, timers |-> file.timers \cup {t}]
             IN  memory' = after /\ Persist(after, {t}, FALSE)
      PROVE  /\ made' \in 0 .. MaxCreates /\ made <= made'
             /\ memory' \in FileUpto(made')
             /\ writes' \in Seq(Write)
             /\ \A i \in DOMAIN writes' :
                   writes'[i].made <= made' /\ writes'[i].file \in FileUpto(made')
  <2> DEFINE t == [num |-> made', id |-> file.nextId, every |-> every,
                   due |-> now + (IF every = 0 THEN delay ELSE every)]
             after == [nextId |-> file.nextId + 1, timers |-> file.timers \cup {t}]
  <2>1. memory' = after /\ Persist(after, {t}, FALSE)
    BY <1>3
  <2>2. made' \in 0 .. MaxCreates /\ made <= made' /\ made' \in Nat \ {0}
    BY <1>1, <1>3
  <2>3. file \in FileUpto(made') /\ file.nextId \in Nat
    BY <1>1, <2>2, FileUptoGrows DEF FileUpto, File
  <2>4. t \in Timer /\ t.num <= made'
    BY <1>1, <2>2, <2>3, TimersAssumption DEF Timer
  <2> HIDE DEF t
  <2>5. after \in FileUpto(made')
    BY <2>3, <2>4 DEF FileUpto, File
  <2> HIDE DEF after
  <2>6. QED
    BY <2>1, <2>2, <2>4, <2>5, PersistTyped
<1>4. QED
  BY <1>2, <1>3 DEF AddTo

\* The process ends with one of the versions there are on disk.
LEMMA GoneTyped ==
    ASSUME TypeInv, Gone, disk' \in FileUpto(made), faults' \in Nat
    PROVE  TypeInv'
<1>1. made \in Nat
  BY DEF TypeInv, TypeOK
<1>2. NoFile \in FileUpto(made) /\ FileUpto(made) \subseteq File
  BY <1>1, EmptyFiles DEF FileUpto
<1>3. TypeOK'
  <2>1. /\ server' \in Servers /\ memory' \in File /\ disk' \in File /\ found' \in File
        /\ writes' \in Seq(Write) /\ loads' \in Seq(File)
        /\ unlinking' \in BOOLEAN /\ failed' \in BOOLEAN
    BY <1>2, EmptySeq DEF Gone, Servers
  <2>2. UNCHANGED <<paused, now, pauses, made, removed, answered, archived, over, settled>>
    BY DEF Gone, world, history
  <2>3. QED
    BY <2>1, <2>2 DEF TypeInv, TypeOK
<1>4. Bounded'
  BY <1>2 DEF TypeInv, Bounded, Gone, history, FileUpto
<1>5. QED
  BY <1>3, <1>4 DEF TypeInv

\* The times of the timers a snapshot settles.
LEMMA SavedTyped ==
    ASSUME TypeInv, NEW w \in Write, w.file \in FileUpto(made), w.made <= made, Saved(w)
    PROVE  over' \subseteq 1 .. made /\ over' \in SUBSET Nums /\ settled' \in [Nums -> Nat]
<1>1. /\ made \in 0 .. MaxCreates /\ MaxCreates \in Nat /\ over \subseteq 1 .. made
      /\ removed \subseteq 1 .. made /\ settled \in [Nums -> Nat] /\ 1 .. made \subseteq Nums
  BY TimersAssumption DEF TypeInv, TypeOK, Bounded, Nums
<1>2. over' \subseteq 1 .. made /\ over' \in SUBSET Nums
  BY <1>1 DEF Saved
<1>3. ASSUME NEW n \in Nums PROVE settled'[n] \in Nat
  <2>1. CASE n \in NumsOf(w.file.timers)
    <3>1. \E t \in w.file.timers : t.num = n
      BY <2>1, NumsOfMember
    <3>2. (CHOOSE t \in w.file.timers : t.num = n) \in w.file.timers
      BY <3>1
    <3>3. settled'[n] = (CHOOSE t \in w.file.timers : t.num = n).due
      BY <2>1 DEF Saved
    <3>4. w.file.timers \subseteq Timer
      BY DEF FileUpto, File
    <3>5. \A t \in Timer : t.due \in Nat
      BY DEF Timer
    <3>6. QED
      BY <3>2, <3>3, <3>4, <3>5
  <2>2. CASE n \notin NumsOf(w.file.timers)
    BY <1>1, <2>2 DEF Saved
  <2>3. QED
    BY <2>1, <2>2
<1>4. DOMAIN settled' = Nums /\ settled' = [n \in Nums |-> settled'[n]]
  BY DEF Saved
<1>5. QED
  BY <1>2, <1>3, <1>4

\* A running write is within the timers made.
LEMMA WriteTyped ==
    ASSUME TypeInv, NEW i \in DOMAIN writes
    PROVE  /\ writes[i] \in Write /\ writes[i].made <= made /\ writes[i].made \in Nat
           /\ writes[i].file \in FileUpto(made) /\ writes[i].answers \in SUBSET Timer
           /\ writes[i].evicts \in BOOLEAN
<1>1. writes[i] \in Write
  BY ElementOfSeq, LenProperties DEF TypeInv, TypeOK
<1>2. QED
  BY <1>1 DEF TypeInv, Bounded, Write

\* The chain without its first write.
LEMMA PopTyped ==
    ASSUME TypeInv, writes # <<>>, writes' = Tail(writes)
    PROVE  /\ writes' \in Seq(Write)
           /\ \A i \in DOMAIN writes' :
                 writes'[i].made <= made /\ writes'[i].file \in FileUpto(made)
           /\ 1 \in DOMAIN writes /\ Head(writes) = writes[1]
           /\ DOMAIN writes' = 1 .. Len(writes) - 1 /\ DOMAIN writes = 1 .. Len(writes)
           /\ Len(writes) \in Nat \ {0} /\ Len(writes') = Len(writes) - 1
           /\ \A i \in DOMAIN writes' : i + 1 \in DOMAIN writes /\ writes'[i] = writes[i + 1]
<1>1. writes \in Seq(Write)
  BY DEF TypeInv, TypeOK
<1>2. QED
  BY <1>1, Popped DEF TypeInv, Bounded

\* The running write succeeds within types.
LEMMA WriteDoneTyped ==
    ASSUME TypeInv, WriteDone
    PROVE  TypeInv'
<1> DEFINE w == writes[1]
<1>1. writes # <<>> /\ writes' = Tail(writes) /\ Head(writes) = w /\ 1 \in DOMAIN writes
  BY PopTyped DEF WriteDone
<1>2. /\ w \in Write /\ w.made <= made /\ w.file \in FileUpto(made)
      /\ w.answers \in SUBSET Timer
  BY <1>1, WriteTyped
<1>3. /\ disk' = w.file /\ answered' = answered \cup w.answers /\ memory' = AfterWrite(w.evicts)
      /\ Saved(w) /\ failed' = FALSE
  BY <1>1 DEF WriteDone
<1> HIDE DEF w
<1>4. /\ over' \subseteq 1 .. made /\ over' \in SUBSET Nums /\ settled' \in [Nums -> Nat]
  BY <1>2, <1>3, SavedTyped
<1>5. /\ writes' \in Seq(Write)
      /\ \A i \in DOMAIN writes' :
            writes'[i].made <= made /\ writes'[i].file \in FileUpto(made)
  BY <1>1, PopTyped
<1>6. memory' \in FileUpto(made)
  BY <1>3, EmptyFiles DEF AfterWrite, TypeInv, TypeOK, Bounded
<1>7. /\ UNCHANGED <<server, loads, found, unlinking, paused, now, pauses, faults>>
      /\ UNCHANGED <<made, removed, archived>>
  BY DEF WriteDone, world
<1>8. TypeOK'
  BY <1>2, <1>3, <1>4, <1>5, <1>6, <1>7 DEF TypeInv, TypeOK, FileUpto
<1>9. Bounded'
  BY <1>2, <1>3, <1>4, <1>5, <1>6, <1>7 DEF TypeInv, Bounded
<1>10. QED
  BY <1>8, <1>9 DEF TypeInv

\* A failed write leaves versions that were there.
LEMMA WriteFailsTyped ==
    ASSUME TypeInv, WriteFails
    PROVE  TypeInv'
<1>1. /\ writes' \in Seq(Write)
      /\ \A i \in DOMAIN writes' :
            writes'[i].made <= made /\ writes'[i].file \in FileUpto(made)
  BY PopTyped DEF WriteFails
<1>2. disk' \in FileUpto(made)
  BY EmptyFiles DEF WriteFails, TypeInv, TypeOK, Bounded
<1>3. /\ UNCHANGED <<server, memory, loads, found, unlinking, paused, now, pauses>>
      /\ UNCHANGED <<made, removed, answered, archived, over, settled>>
      /\ failed' = TRUE /\ faults' = faults + 1
  BY DEF WriteFails, Fault, world, history
<1>4. TypeOK'
  BY <1>1, <1>2, <1>3 DEF TypeInv, TypeOK, FileUpto
<1>5. Bounded'
  BY <1>1, <1>2, <1>3 DEF TypeInv, Bounded
<1>6. QED
  BY <1>4, <1>5 DEF TypeInv

\* What reads do: one more file that was on disk, or one less.
LEMMA LoadTyped ==
    ASSUME TypeInv, Load
    PROVE  TypeInv'
<1>1. loads' = Append(loads, disk) /\ loads \in Seq(File) /\ disk \in File
  BY DEF Load, TypeInv, TypeOK
<1>2. /\ loads' \in Seq(File) /\ DOMAIN loads' = 1 .. Len(loads) + 1
      /\ Len(loads) \in Nat /\ DOMAIN loads = 1 .. Len(loads)
      /\ \A i \in DOMAIN loads : loads'[i] = loads[i]
      /\ loads'[Len(loads) + 1] = disk
  BY <1>1, Pushed
<1>3. \A i \in DOMAIN loads' : loads'[i] \in FileUpto(made)
  BY <1>2 DEF TypeInv, Bounded
<1>4. /\ UNCHANGED <<server, memory, disk, writes, found, unlinking, failed, paused, now>>
      /\ UNCHANGED <<pauses, faults, made, removed, answered, archived, over, settled>>
  BY DEF Load, world, history
<1>5. TypeOK'
  BY <1>2, <1>4 DEF TypeInv, TypeOK
<1>6. Bounded'
  BY <1>3, <1>4 DEF TypeInv, Bounded
<1>7. QED
  BY <1>5, <1>6 DEF TypeInv

\* A create with the file it has read.
LEMMA LoadedTyped ==
    ASSUME TypeInv, NEW i \in DOMAIN loads, Loaded(i)
    PROVE  TypeInv'
<1>1. loads \in Seq(File) /\ Len(loads) \in Nat /\ DOMAIN loads = 1 .. Len(loads)
  BY LenProperties DEF TypeInv, TypeOK
<1>2. loads[i] \in FileUpto(made) /\ AddTo(loads[i])
  BY DEF Loaded, TypeInv, Bounded
<1>3. /\ made' \in 0 .. MaxCreates /\ made <= made' /\ memory' \in FileUpto(made')
      /\ writes' \in Seq(Write)
      /\ \A j \in DOMAIN writes' :
            writes'[j].made <= made' /\ writes'[j].file \in FileUpto(made')
  BY <1>2, AddToTyped
<1>4. /\ loads' = [j \in 1 .. Len(loads) - 1 |-> loads[IF j < i THEN j ELSE j + 1]]
      /\ removed' \subseteq removed /\ archived' \subseteq archived
      /\ UNCHANGED <<server, disk, found, unlinking, failed, paused, now>>
      /\ UNCHANGED <<pauses, faults, answered, over, settled>>
  BY DEF Loaded, world
<1>5. \A j \in 1 .. Len(loads) - 1 : (IF j < i THEN j ELSE j + 1) \in DOMAIN loads
  BY <1>1
<1>6. /\ \A j \in DOMAIN loads' : loads'[j] \in FileUpto(made)
      /\ loads' \in Seq(File)
  <2>1. \A j \in DOMAIN loads' : loads'[j] \in FileUpto(made)
    BY <1>4, <1>5 DEF TypeInv, Bounded
  <2>2. FileUpto(made) \subseteq File
    BY DEF FileUpto
  <2>3. DOMAIN loads' = 1 .. Len(loads) - 1 /\ Len(loads) \in Nat \ {0}
    BY <1>1, <1>4
  <2>4. loads' \in [1 .. Len(loads) - 1 -> File]
    BY <1>4, <2>1, <2>2, <2>3
  <2>5. QED
    BY <2>1, <2>3, <2>4, SeqDef
<1>7. made \in Nat /\ made' \in Nat
  BY <1>3 DEF TypeInv, TypeOK
<1>8. FileUpto(made) \subseteq FileUpto(made') /\ FileUpto(made') \subseteq File
  BY <1>3, <1>7, FileUptoGrows DEF FileUpto
<1>9. TypeOK'
  BY <1>3, <1>4, <1>6, <1>8 DEF TypeInv, TypeOK
<1>10. Bounded'
  BY <1>3, <1>4, <1>6, <1>7, <1>8 DEF TypeInv, Bounded
<1>11. QED
  BY <1>9, <1>10 DEF TypeInv

\* What a sweep makes of the file: every timer comes from one with its number
\* that was due no later, and the numbers that are lost are those it removed.
LEMMA SweepVersion ==
    ASSUME TypeInv, NEW then \in 0 .. now, Sweep(then)
    PROVE  /\ memory' \in FileUpto(made) /\ memory'.nextId = memory.nextId
           /\ \A t \in memory'.timers : \E u \in memory.timers : u.num = t.num /\ u.due <= t.due
           /\ \A t, u \in memory'.timers : t.num = u.num =>
                 \E x, y \in memory.timers : x.num = t.num /\ y.num = t.num /\ (x = y => t = u)
           /\ \A u \in memory.timers : u.num \in NumsOf(memory'.timers) \/ u.num \in removed'
           /\ removed \subseteq removed' /\ removed' \subseteq removed \cup NumsOf(memory.timers)
           /\ made' = made /\ Persist(memory', {}, TRUE)
           /\ UNCHANGED <<server, disk, loads, found, unlinking, failed, paused, now>>
           /\ UNCHANGED <<pauses, faults, answered, archived, over, settled>>
           /\ server = "up" /\ memory.timers # {}
<1> DEFINE fired == FiredAt(then)
           again == {t \in fired : t.every > 0}
           next(t) == [t EXCEPT !.due = NextDue(t, then)]
           kept == (memory.timers \ fired) \cup {next(t) : t \in again}
<1>1. /\ memory' = [memory EXCEPT !.timers = kept]
      /\ removed' = removed \cup NumsOf(fired \ again)
      /\ made' = made /\ Persist(memory', {}, TRUE) /\ server = "up" /\ fired # {}
      /\ UNCHANGED <<server, disk, loads, found, unlinking, failed, paused, now>>
      /\ UNCHANGED <<pauses, faults, answered, archived, over, settled>>
  BY DEF Sweep, world
<1>2. memory \in File /\ memory.timers \subseteq Timer /\ then \in Nat /\ made \in Nat
      /\ \A t \in memory.timers : t.num <= made
  BY DEF TypeInv, TypeOK, Bounded, FileUpto, File
<1>3. fired \subseteq memory.timers /\ again \subseteq fired
      /\ \A t \in again : t.due <= then /\ t.every > 0
  BY DEF FiredAt
<1>4. memory'.timers = kept /\ memory'.nextId = memory.nextId
      /\ memory' = [nextId |-> memory.nextId, timers |-> kept]
  BY <1>1, <1>2 DEF File
<1> HIDE DEF fired, again
<1>5. ASSUME NEW t \in again
      PROVE  next(t) \in Timer /\ next(t).num = t.num /\ next(t).due >= t.due
  <2>1. t \in Timer /\ NextDue(t, then) \in Nat /\ NextDue(t, then) >= t.due
    BY <1>2, <1>3, NextDueLater
  <2>2. QED
    BY <2>1 DEF Timer
<1> HIDE DEF next
<1>6. /\ \A t \in kept : t \in Timer /\ \E u \in memory.timers : u.num = t.num /\ u.due <= t.due
      /\ kept \subseteq Timer
  BY <1>2, <1>3, <1>5 DEF Timer
<1>7. memory' \in FileUpto(made)
  BY <1>2, <1>4, <1>6 DEF FileUpto, File
<1>8. ASSUME NEW t \in kept, NEW u \in kept, t.num = u.num
      PROVE  \E x, y \in memory.timers : x.num = t.num /\ y.num = t.num /\ (x = y => t = u)
  <2>1. \A z \in kept : \E x \in memory.timers :
            x.num = z.num /\ (IF x \in again THEN z = next(x) ELSE z = x)
    <3>1. \A x \in memory.timers \ fired : x \notin again
      BY <1>3
    <3>2. QED
      BY <1>3, <1>5, <3>1
  <2>2. PICK x \in memory.timers :
            x.num = t.num /\ (IF x \in again THEN t = next(x) ELSE t = x)
    BY <2>1
  <2>3. PICK y \in memory.timers :
            y.num = u.num /\ (IF y \in again THEN u = next(y) ELSE u = y)
    BY <2>1
  <2>4. x = y => t = u
    BY <2>2, <2>3
  <2>5. QED
    BY <1>8, <2>2, <2>3, <2>4
<1>9. ASSUME NEW u \in memory.timers
      PROVE  u.num \in NumsOf(kept) \/ u.num \in removed'
  <2>1. CASE u \notin fired
    BY <2>1, NumsOfMember
  <2>2. CASE u \in again
    <3>1. next(u) \in kept /\ next(u).num = u.num
      BY <1>5, <2>2
    <3>2. QED
      BY <3>1, NumsOfMember
  <2>3. CASE u \in fired \ again
    BY <1>1, <2>3, NumsOfMember
  <2>4. QED
    BY <2>1, <2>2, <2>3
<1>10. removed \subseteq removed' /\ removed' \subseteq removed \cup NumsOf(memory.timers)
  <2>1. \A n \in NumsOf(fired \ again) : n \in NumsOf(memory.timers)
    BY <1>3, NumsOfMember
  <2>2. QED
    BY <1>1, <2>1
<1>11. memory.timers # {}
  BY <1>1, <1>3
<1>12. QED
  BY <1>1, <1>4, <1>6, <1>7, <1>8, <1>9, <1>10, <1>11

\* What a cancel makes of the file.
LEMMA CancelVersion ==
    ASSUME TypeInv, NEW t \in memory.timers, Cancel(t)
    PROVE  /\ memory' \in FileUpto(made) /\ memory'.nextId = memory.nextId
           /\ memory'.timers = memory.timers \ {t}
           /\ removed' = removed \cup {t.num}
           /\ \A u \in memory.timers : u.num \in NumsOf(memory'.timers) \/ u.num \in removed'
           /\ made' = made /\ Persist(memory', {}, TRUE) /\ t.num \in 1 .. made
           /\ UNCHANGED <<server, disk, loads, found, unlinking, failed, paused, now>>
           /\ UNCHANGED <<pauses, faults, answered, archived, over, settled>>
           /\ server # "down"
<1>1. /\ memory' = [memory EXCEPT !.timers = memory.timers \ {t}]
      /\ removed' = removed \cup {t.num}
      /\ made' = made /\ Persist(memory', {}, TRUE) /\ server # "down"
      /\ UNCHANGED <<server, disk, loads, found, unlinking, failed, paused, now>>
      /\ UNCHANGED <<pauses, faults, answered, archived, over, settled>>
  BY DEF Cancel, world
<1>2. memory \in File /\ memory.timers \subseteq Timer /\ made \in Nat
      /\ \A u \in memory.timers : u.num <= made
  BY DEF TypeInv, TypeOK, Bounded, FileUpto, File
<1>3. memory'.timers = memory.timers \ {t} /\ memory'.nextId = memory.nextId
      /\ memory' \in FileUpto(made)
  BY <1>1, <1>2 DEF FileUpto, File
<1>4. \A u \in memory.timers : u.num \in NumsOf(memory'.timers) \/ u.num \in removed'
  BY <1>1, <1>3, NumsOfMember
<1>5. t.num \in 1 .. made
  BY <1>2 DEF Timer
<1>6. QED
  BY <1>1, <1>3, <1>4, <1>5

\* A change of the file in memory, queued at once.
LEMMA PersistedTyped ==
    ASSUME TypeInv, memory' \in FileUpto(made), Persist(memory', {}, TRUE), made' = made,
           removed' \subseteq 1 .. made,
           UNCHANGED <<server, disk, loads, found, unlinking, failed, paused, now>>,
           UNCHANGED <<pauses, faults, answered, archived, over, settled>>
    PROVE  TypeInv'
<1>1. made \in 0 .. MaxCreates /\ made <= made' /\ made' \in 0 .. MaxCreates
      /\ 1 .. made \subseteq Nums /\ made \in Nat
  BY TimersAssumption DEF TypeInv, TypeOK, Nums
<1>2. /\ writes' \in Seq(Write)
      /\ \A i \in DOMAIN writes' :
            writes'[i].made <= made' /\ writes'[i].file \in FileUpto(made')
  BY <1>1, PersistTyped
<1>3. TypeOK'
  BY <1>1, <1>2 DEF TypeInv, TypeOK, FileUpto
<1>4. Bounded'
  BY <1>1, <1>2 DEF TypeInv, Bounded
<1>5. QED
  BY <1>3, <1>4 DEF TypeInv

\* A crash leaves one of the versions there are on disk.
LEMMA CrashLeaves ==
    ASSUME TypeInv, Crash
    PROVE  /\ \/ disk' = disk
              \/ unlinking /\ disk' = Empty
              \/ 1 \in DOMAIN writes /\ disk' = writes[1].file
              \/ BadDisk /\ disk' = Empty
           /\ Gone /\ faults' = faults + 1
<1>1. writes # <<>> => 1 \in DOMAIN writes /\ Head(writes) = writes[1]
  BY Popped DEF TypeInv, TypeOK
<1>2. \/ disk' = disk
      \/ unlinking /\ disk' = Empty
      \/ writes # <<>> /\ disk' = Head(writes).file
      \/ BadDisk /\ disk' = Empty
  <2>1. disk' \in {disk} \cup (IF unlinking THEN {Empty} ELSE {})
                  \cup (IF writes = <<>> THEN {} ELSE {Head(writes).file})
                  \cup (IF BadDisk /\ writes # <<>> THEN {Empty} ELSE {})
    BY DEF Crash
  <2>2. \/ disk' \in {disk} \/ disk' \in (IF unlinking THEN {Empty} ELSE {})
        \/ disk' \in (IF writes = <<>> THEN {} ELSE {Head(writes).file})
        \/ disk' \in (IF BadDisk /\ writes # <<>> THEN {Empty} ELSE {})
    BY <2>1, Zenon
  <2>3. disk' \in (IF unlinking THEN {Empty} ELSE {}) => unlinking /\ disk' = Empty
    <3>1. CASE unlinking
      BY <3>1
    <3>2. CASE ~unlinking
      BY <3>2
    <3>3. QED
      BY <3>1, <3>2
  <2>4. /\ disk' \in (IF writes = <<>> THEN {} ELSE {Head(writes).file}) =>
               writes # <<>> /\ disk' = Head(writes).file
        /\ disk' \in (IF BadDisk /\ writes # <<>> THEN {Empty} ELSE {}) =>
               BadDisk /\ disk' = Empty
    BY TimersAssumption
  <2>5. disk' \in {disk} => disk' = disk
    OBVIOUS
  <2>6. QED
    BY <2>2, <2>3, <2>4, <2>5, Zenon
<1>3. Gone /\ faults' = faults + 1
  BY DEF Crash, Fault
<1>4. QED
  <2>1. writes # <<>> /\ disk' = Head(writes).file =>
            1 \in DOMAIN writes /\ disk' = writes[1].file
    BY <1>1
  <2>2. QED
    BY <1>2, <1>3, <2>1, Zenon

\* A step within types, action by action.
LEMMA TypeNext ==
    ASSUME TypeInv, [Next]_vars
    PROVE  TypeInv'
<1>1. /\ made \in 0 .. MaxCreates /\ made \in Nat /\ MaxCreates \in Nat
      /\ FileUpto(made) \subseteq File /\ 1 .. made \subseteq Nums
      /\ Empty \in FileUpto(made) /\ NoFile \in FileUpto(made)
      /\ memory \in FileUpto(made) /\ disk \in FileUpto(made) /\ found \in FileUpto(made)
  BY TimersAssumption, EmptyFiles DEF TypeInv, TypeOK, Bounded, FileUpto, Nums
<1>2. CASE WriteDone
  BY <1>2, WriteDoneTyped
<1>3. CASE WriteFails
  BY <1>3, WriteFailsTyped
<1>4. CASE Create
  <2>1. /\ made' \in 0 .. MaxCreates /\ made <= made' /\ memory' \in FileUpto(made')
        /\ writes' \in Seq(Write)
        /\ \A i \in DOMAIN writes' :
              writes'[i].made <= made' /\ writes'[i].file \in FileUpto(made')
    BY <1>1, <1>4, AddToTyped DEF Create
  <2>2. /\ UNCHANGED <<server, loads, found, unlinking, failed, disk, paused, now, pauses>>
        /\ UNCHANGED <<faults, removed, answered, archived, over, settled>>
    BY <1>4 DEF Create, world
  <2>3. FileUpto(made) \subseteq FileUpto(made') /\ FileUpto(made') \subseteq File /\ made' \in Nat
    BY <1>1, <2>1, FileUptoGrows DEF FileUpto
  <2>4. TypeOK'
    BY <2>1, <2>2, <2>3 DEF TypeInv, TypeOK
  <2>5. Bounded'
    BY <1>1, <2>1, <2>2, <2>3 DEF TypeInv, Bounded
  <2>6. QED
    BY <2>4, <2>5 DEF TypeInv
<1>5. CASE Load
  BY <1>5, LoadTyped
<1>6. ASSUME NEW i \in DOMAIN loads, Loaded(i) PROVE TypeInv'
  BY <1>6, LoadedTyped
<1>7. ASSUME NEW t \in memory.timers, Cancel(t) PROVE TypeInv'
  <2>1. removed' \subseteq 1 .. made
    BY <1>7, CancelVersion DEF TypeInv, Bounded
  <2>2. QED
    BY <1>7, <2>1, CancelVersion, PersistedTyped
<1>8. CASE CancelAll
  <2>1. /\ memory' = NoFile /\ unlinking' = TRUE /\ removed' = 1 .. made /\ answered' = {}
        /\ archived' = 1 .. made
        /\ UNCHANGED <<server, disk, writes, loads, found, failed, paused, now>>
        /\ UNCHANGED <<pauses, faults, made, over, settled>>
    BY <1>8 DEF CancelAll, world
  <2>2. QED
    BY <1>1, <2>1 DEF TypeInv, TypeOK, Bounded
<1>9. CASE Unlinked
  <2>1. /\ unlinking' = FALSE /\ disk' \in {disk, Empty} /\ over' \in {over, over \cup removed}
        /\ faults' \in Nat
        /\ UNCHANGED <<server, memory, writes, loads, found, failed, paused, now>>
        /\ UNCHANGED <<pauses, made, removed, answered, archived, settled>>
    BY <1>9 DEF Unlinked, Fault, world, TypeInv, TypeOK
  <2>2. QED
    BY <1>1, <2>1 DEF TypeInv, TypeOK, Bounded
<1>10. ASSUME NEW then \in 0 .. now, Sweep(then) PROVE TypeInv'
  <2>1. NumsOf(memory.timers) \subseteq 1 .. made
    BY <1>1, NumsUpto
  <2>2. removed' \subseteq 1 .. made
    BY <1>10, <2>1, SweepVersion DEF TypeInv, Bounded
  <2>3. QED
    BY <1>10, <2>2, SweepVersion, PersistedTyped
<1>11. CASE Crash
  <2>1. disk' \in FileUpto(made)
    BY <1>1, <1>11, CrashLeaves, WriteTyped
  <2>2. QED
    BY <1>11, <2>1, CrashLeaves, GoneTyped DEF TypeInv, TypeOK
<1>12. CASE Exit
  BY <1>1, <1>12, GoneTyped DEF Exit, TypeInv, TypeOK
<1>13. CASE Stop \/ Start
  <2>1. /\ server' \in Servers /\ faults' \in Nat
        /\ UNCHANGED <<memory, disk, writes, loads, found, unlinking, failed, paused, now>>
        /\ UNCHANGED <<pauses, made, removed, answered, archived, over, settled>>
    BY <1>13 DEF Stop, Start, Fault, world, history, Servers, TypeInv, TypeOK
  <2>2. QED
    BY <2>1 DEF TypeInv, TypeOK, Bounded
<1>14. CASE ReadFile \/ Restore
  <2>1. /\ server' \in Servers /\ found' \in FileUpto(made) /\ memory' \in FileUpto(made)
        /\ removed' \subseteq removed /\ archived' \subseteq archived
        /\ UNCHANGED <<disk, writes, loads, unlinking, failed, paused, now>>
        /\ UNCHANGED <<pauses, faults, made, answered, over, settled>>
    BY <1>1, <1>14 DEF ReadFile, Restore, world, history, Servers
  <2>2. QED
    BY <1>1, <2>1 DEF TypeInv, TypeOK, Bounded
<1>15. CASE Pause \/ Tick
  <2>1. /\ UNCHANGED <<server, memory, disk, writes, loads, found, unlinking, failed>>
        /\ UNCHANGED <<faults, made, removed, answered, archived, over, settled>>
    BY <1>15 DEF Pause, Tick, process, history
  <2>2. now' \in Nat /\ pauses' \in Nat
    BY <1>15 DEF Pause, Tick, TypeInv, TypeOK
  <2>3. paused' = ~paused \/ paused' = paused
    BY <1>15 DEF Pause, Tick
  <2>4. paused' \in BOOLEAN
    BY <2>3, Zenon DEF TypeInv, TypeOK
  <2>5. QED
    BY <2>1, <2>2, <2>4 DEF TypeInv, TypeOK, Bounded
<1>16. CASE UNCHANGED vars
  <2>1. /\ UNCHANGED <<server, memory, disk, writes, loads, found, unlinking, failed>>
        /\ UNCHANGED <<paused, now, pauses, faults, made, removed, answered, archived, over, settled>>
    BY <1>16 DEF vars, process, world, history
  <2>2. QED
    BY <2>1 DEF TypeInv, TypeOK, Bounded
<1>17. QED
  BY <1>2, <1>3, <1>4, <1>5, <1>6, <1>7, <1>8, <1>9, <1>10, <1>11, <1>12, <1>13,
     <1>14, <1>15, <1>16 DEF Next

\* A start without files.
LEMMA TypeInit ==
    ASSUME Init
    PROVE  TypeInv
<1>1. Empty \in FileUpto(0) /\ NoFile \in FileUpto(0) /\ FileUpto(0) \subseteq File
  BY EmptyFiles DEF FileUpto
<1>2. \A n \in Nums : settled[n] = 0
  BY DEF Init
<1>3. TypeOK
  <2>1. /\ server \in Servers /\ memory \in File /\ disk \in File /\ found \in File
        /\ writes \in Seq(Write) /\ loads \in Seq(File)
    BY <1>1, EmptySeq DEF Init, Servers
  <2>2. /\ unlinking \in BOOLEAN /\ failed \in BOOLEAN /\ paused \in BOOLEAN
        /\ now \in Nat /\ pauses \in Nat /\ faults \in Nat
    BY DEF Init
  <2>3. /\ removed \in SUBSET Nums /\ over \in SUBSET Nums /\ answered \in SUBSET Timer
        /\ archived \in SUBSET Nums
        /\ settled \in [Nums -> Nat] /\ made \in 0 .. MaxCreates
    BY TimersAssumption DEF Init
  <2>4. QED
    BY <2>1, <2>2, <2>3 DEF TypeOK
<1>4. Bounded
  BY <1>1 DEF Init, Bounded
<1>5. QED
  BY <1>3, <1>4 DEF TypeInv

\* TypesHold: every variable keeps its type, and no version of the file names a
\* timer that was never made, whatever overlaps, fails or crashes.
THEOREM TypesHold == Spec => []TypeInv
<1>1. Init => TypeInv
  BY TypeInit
<1>2. TypeInv /\ [Next]_vars => TypeInv'
  BY TypeNext
<1>3. QED
  BY <1>1, <1>2, PTL DEF Spec

\* TypeCorrect: the part of it that is the model's type invariant.
THEOREM TypeCorrect == Spec => []TypeOK
<1>1. TypeInv => TypeOK
  BY DEF TypeInv
<1>2. QED
  BY <1>1, TypesHold, PTL

-----------------------------------------------------------------------------
(***************************************************************************)
(* The inductive invariant, where no call meets another one that awaits    *)
(* the file and no write is cut off.                                       *)
(***************************************************************************)
Orderly == ~Overlapping /\ ~BadDisk

\* A version has each timer once, and brings back nothing that a save has
\* settled: no timer whose removal is saved, no firing before the saved one.
Sane(file, ended, times) ==
    \A t \in file.timers :
        /\ t.num \notin ended /\ t.due >= times[t.num]
        /\ \A u \in file.timers : t.num = u.num => t = u

SaneVersions ==
    /\ \A n \in Nums : n > made => settled[n] = 0
    /\ Sane(memory, over, settled) /\ Sane(disk, over, settled)
    /\ \A i \in DOMAIN writes : Sane(writes[i].file, over, settled)

\* The timers of `file` that existed when `w` was queued come from its snapshot,
\* none due before it.
Follows(w, file) ==
    \A t \in file.timers : t.num <= w.made =>
        \E u \in w.file.timers : u.num = t.num /\ u.due <= t.due

\* A snapshot has timers made before it was queued, and every later version
\* follows from it.
Ordered ==
    \A i \in DOMAIN writes :
        /\ writes[i].file \in FileUpto(writes[i].made)
        /\ Follows(writes[i], memory)
        /\ \A j \in DOMAIN writes : i < j => Follows(writes[i], writes[j].file)

\* A timer that has answered and is still to fire is in every version.
Kept ==
    \A t \in answered : t.num \in removed
        \/ /\ t.num \in NumsOf(disk.timers)
           /\ \A i \in DOMAIN writes : t.num \in NumsOf(writes[i].file.timers)
           /\ Running => t.num \in NumsOf(memory.timers)

\* A timer whose create waits for its write is in that snapshot and the later ones.
Awaited ==
    \A i \in DOMAIN writes : \A t \in writes[i].answers :
        /\ t.num \in NumsOf(writes[i].file.timers)
        /\ t.num \in removed
             \/ /\ t.num \in NumsOf(memory.timers)
                /\ \A j \in DOMAIN writes : i < j => t.num \in NumsOf(writes[j].file.timers)

\* The timers that have answered or will once their write is done.
Answering(t) == t \in answered \/ \E i \in DOMAIN writes : t \in writes[i].answers

\* No version hands out again an id that has been answered or will be by the
\* time it is written.
Ids ==
    /\ \A t, u \in Timer : Answering(t) /\ Answering(u) /\ t.id = u.id => t.num = u.num
    /\ \A t \in answered : t.id < disk.nextId
    /\ memory # NoFile => \A t \in Timer : Answering(t) => t.id < memory.nextId
    /\ \A i \in DOMAIN writes :
          /\ \A t \in answered : t.id < writes[i].file.nextId
          /\ \A j \in DOMAIN writes : j <= i =>
                \A t \in writes[j].answers : t.id < writes[i].file.nextId

\* What cannot be under way together: a deletion, a read and a start each have
\* the file to themselves.
Modes ==
    /\ unlinking => writes = <<>> /\ loads = <<>> /\ memory = NoFile
                    /\ answered = {} /\ removed = 1 .. made
    /\ loads # <<>> => loads = <<disk>> /\ memory = NoFile /\ writes = <<>>
    /\ server = "restoring" => found = disk
    /\ ~Running => writes = <<>> /\ loads = <<>> /\ memory = NoFile
                   /\ ~unlinking /\ ~failed

\* The last snapshot is what memory says, unless it is empty and was evicted.
LastWrite ==
    writes # <<>> => \/ writes[Len(writes)].file = memory
                     \/ memory = NoFile /\ writes[Len(writes)].file.timers = {}

IInv ==
    /\ TypeInv /\ SaneVersions /\ Ordered /\ Kept /\ Awaited /\ Ids /\ Modes
    /\ LastWrite /\ FlushSaves

\* The invariant contains the properties of the runs.
LEMMA Implied ==
    ASSUME IInv
    PROVE  AnsweredKept /\ IdsUnique /\ NothingRepeats /\ FlushSaves
<1>1. AnsweredKept
  BY DEF IInv, Kept, AnsweredKept
<1>2. IdsUnique
  <2>1. answered \subseteq Timer
    BY DEF IInv, TypeInv, TypeOK
  <2>2. QED
    BY <2>1 DEF IInv, Ids, Answering, IdsUnique
<1>3. NothingRepeats
  BY DEF IInv, SaneVersions, Sane, NothingRepeats
<1>4. QED
  BY <1>1, <1>2, <1>3 DEF IInv

\* The empty files are sane, and have none of a timer.
LEMMA SaneEmpty ==
    ASSUME NEW ended, NEW times
    PROVE  Sane(Empty, ended, times) /\ Sane(NoFile, ended, times)
BY DEF Sane, Empty, NoFile

\* A save settles nothing that a later version brings back.
LEMMA SavedSane ==
    ASSUME TypeInv, NEW w \in Write, w.file \in FileUpto(made), w.made <= made, w.file \in FileUpto(w.made),
           Saved(w), Sane(w.file, over, settled),
           NEW file \in FileUpto(made), Sane(file, over, settled), Follows(w, file)
    PROVE  Sane(file, over', settled')
<1>1. SUFFICES ASSUME NEW t \in file.timers
               PROVE  t.num \notin over' /\ t.due >= settled'[t.num]
  BY DEF Sane
<1>2. /\ t.num \in 1 .. made /\ t.num \in Nums /\ t.due \in Nat
      /\ t.num \notin over /\ t.due >= settled[t.num]
      /\ made \in Nat /\ w.made \in Nat /\ settled \in [Nums -> Nat]
  <2>1. /\ made \in 0 .. MaxCreates /\ MaxCreates \in Nat /\ made \in Nat
        /\ settled \in [Nums -> Nat] /\ w.made \in Nat
    BY TimersAssumption DEF TypeInv, TypeOK, Write
  <2>2. t \in Timer /\ t.num <= made
    BY DEF FileUpto, File
  <2>3. t.num \in 1 .. made /\ t.num \in Nums /\ t.due \in Nat
    BY <2>1, <2>2 DEF Timer, Nums
  <2>4. QED
    BY <2>1, <2>3 DEF Sane
<1>3. CASE t.num \in NumsOf(w.file.timers)
  <2>1. t.num \notin over'
    BY <1>2, <1>3 DEF Saved
  <2>2. settled'[t.num] = (CHOOSE u \in w.file.timers : u.num = t.num).due
    BY <1>2, <1>3 DEF Saved
  <2>3. \E u \in w.file.timers : u.num = t.num
    BY <1>3, NumsOfMember
  <2>4. PICK c \in w.file.timers : c = (CHOOSE u \in w.file.timers : u.num = t.num)
                                   /\ c.num = t.num
    BY <2>3
  <2>5. CASE t.num <= w.made
    <3>1. PICK u \in w.file.timers : u.num = t.num /\ u.due <= t.due
      BY <2>5 DEF Follows
    <3>2. u = c
      BY <2>4, <3>1 DEF Sane
    <3>3. QED
      BY <2>1, <2>2, <2>4, <3>1, <3>2
  <2>6. CASE ~(t.num <= w.made)
    <3>1. c.num <= w.made
      BY <2>4 DEF FileUpto
    <3>2. QED
      BY <2>4, <2>6, <3>1
  <2>7. QED
    BY <2>5, <2>6
<1>4. CASE t.num \notin NumsOf(w.file.timers)
  <2>1. settled'[t.num] = settled[t.num]
    BY <1>2, <1>4 DEF Saved
  <2>2. ~(t.num <= w.made)
    BY <1>4, NumsOfMember DEF Follows
  <2>3. t.num \notin over'
    BY <1>2, <2>2 DEF Saved
  <2>4. QED
    BY <1>2, <2>1, <2>3
<1>5. QED
  BY <1>3, <1>4

\* The chain without its first write, where memory keeps its timers or is evicted
\* without any.
LEMMA PopOrdered ==
    ASSUME IInv, writes # <<>>, writes' = Tail(writes),
           \/ memory' = memory
           \/ memory' = NoFile /\ memory.timers = {}
    PROVE  /\ Ordered' /\ LastWrite'
           /\ memory'.timers = memory.timers
           /\ writes' = <<>> => 1 = Len(writes)
<1>1. /\ 1 \in DOMAIN writes
      /\ DOMAIN writes' = 1 .. Len(writes) - 1 /\ DOMAIN writes = 1 .. Len(writes)
      /\ Len(writes) \in Nat \ {0} /\ Len(writes') = Len(writes) - 1
      /\ writes' \in Seq(Write)
      /\ \A i \in DOMAIN writes' : i + 1 \in DOMAIN writes /\ writes'[i] = writes[i + 1]
  BY PopTyped DEF IInv
<1>2. memory'.timers = memory.timers
  <2>1. NoFile.timers = {}
    BY DEF NoFile
  <2>2. QED
    BY <2>1
<1>3. Ordered'
  <2>1. SUFFICES ASSUME NEW i \in DOMAIN writes'
                 PROVE  /\ writes'[i].file \in FileUpto(writes'[i].made)
                        /\ Follows(writes'[i], memory')
                        /\ \A j \in DOMAIN writes' : i < j =>
                              Follows(writes'[i], writes'[j].file)
    BY DEF Ordered
  <2>2. i + 1 \in DOMAIN writes /\ writes'[i] = writes[i + 1] /\ i \in Nat
    BY <1>1
  <2>3. Follows(writes[i + 1], memory) /\ writes[i + 1].file \in FileUpto(writes[i + 1].made)
    BY <2>2 DEF IInv, Ordered
  <2>4. Follows(writes'[i], memory')
    BY <1>2, <2>2, <2>3 DEF Follows
  <2>5. ASSUME NEW j \in DOMAIN writes', i < j PROVE Follows(writes'[i], writes'[j].file)
    <3>1. j + 1 \in DOMAIN writes /\ writes'[j] = writes[j + 1] /\ i + 1 < j + 1
      BY <1>1, <2>2, <2>5
    <3>2. QED
      BY <2>2, <3>1 DEF IInv, Ordered
  <2>6. QED
    BY <2>2, <2>3, <2>4, <2>5
<1>4. LastWrite'
  <2>1. ASSUME writes' # <<>> PROVE writes'[Len(writes')] = writes[Len(writes)]
    <3>1. Len(writes') # 0
      BY <1>1, <2>1, EmptySeq
    <3>2. Len(writes') \in DOMAIN writes'
      BY <1>1, <3>1
    <3>3. QED
      BY <1>1, <3>2
  <2>2. QED
    BY <1>2, <2>1 DEF IInv, LastWrite, NoFile
<1>5. writes' = <<>> => 1 = Len(writes)
  <2>1. writes' = <<>> => Len(writes') = 0
    BY EmptySeq
  <2>2. QED
    BY <1>1, <2>1
<1>6. QED
  BY <1>2, <1>3, <1>4, <1>5

\* Answers that wait behind the first write.
LEMMA PopAwaited ==
    ASSUME IInv, writes # <<>>, writes' = Tail(writes), UNCHANGED removed,
           memory'.timers = memory.timers,
           answered \subseteq answered', answered' \subseteq answered \cup writes[1].answers
    PROVE  /\ Awaited'
           /\ \A t \in Timer : Answering(t)' => Answering(t)
           /\ \A i \in DOMAIN writes' : \A t \in answered' : t.id < writes'[i].file.nextId
           /\ \A i, j \in DOMAIN writes' : j <= i =>
                 \A t \in writes'[j].answers : t.id < writes'[i].file.nextId
           /\ \A t \in answered' \ answered : t \in writes[1].answers
<1>1. /\ 1 \in DOMAIN writes
      /\ DOMAIN writes' = 1 .. Len(writes) - 1 /\ DOMAIN writes = 1 .. Len(writes)
      /\ Len(writes) \in Nat \ {0}
      /\ \A i \in DOMAIN writes' : i + 1 \in DOMAIN writes /\ writes'[i] = writes[i + 1]
  BY PopTyped DEF IInv
<1>2. \A i, j \in DOMAIN writes' : i \in Nat /\ j \in Nat /\ (i < j <=> i + 1 < j + 1)
                                   /\ (j <= i <=> j + 1 <= i + 1) /\ 1 <= i + 1
  BY <1>1
<1>3. Awaited'
  <2>1. SUFFICES ASSUME NEW i \in DOMAIN writes', NEW t \in writes'[i].answers
                 PROVE  /\ t.num \in NumsOf(writes'[i].file.timers)
                        /\ t.num \in removed
                             \/ /\ t.num \in NumsOf(memory.timers)
                                /\ \A j \in DOMAIN writes' : i < j =>
                                      t.num \in NumsOf(writes'[j].file.timers)
    BY DEF Awaited
  <2>2. i + 1 \in DOMAIN writes /\ writes'[i] = writes[i + 1]
    BY <1>1
  <2>3. /\ t.num \in NumsOf(writes[i + 1].file.timers)
        /\ t.num \in removed
             \/ /\ t.num \in NumsOf(memory.timers)
                /\ \A j \in DOMAIN writes : i + 1 < j =>
                      t.num \in NumsOf(writes[j].file.timers)
    BY <2>2 DEF IInv, Awaited
  <2>4. QED
    BY <1>1, <1>2, <2>2, <2>3
<1>4. \A t \in Timer : Answering(t)' => Answering(t)
  <2>1. \A t \in answered' : Answering(t)
    BY <1>1 DEF Answering
  <2>2. \A i \in DOMAIN writes' : \A t \in writes'[i].answers : Answering(t)
    BY <1>1 DEF Answering
  <2>3. QED
    BY <2>1, <2>2 DEF Answering
<1>5. \A i \in DOMAIN writes' : \A t \in answered' : t.id < writes'[i].file.nextId
  BY <1>1, <1>2 DEF IInv, Ids
<1>6. \A i, j \in DOMAIN writes' : j <= i =>
          \A t \in writes'[j].answers : t.id < writes'[i].file.nextId
  BY <1>1, <1>2 DEF IInv, Ids
<1>7. QED
  BY <1>3, <1>4, <1>5, <1>6

\* A write that fails settles nothing, and its timer stays unanswered.
LEMMA WriteFailsKeeps ==
    ASSUME IInv, ~BadDisk, WriteFails
    PROVE  IInv'
<1>1. /\ writes # <<>> /\ writes' = Tail(writes) /\ failed' = TRUE /\ disk' = disk
      /\ UNCHANGED <<server, memory, loads, found, unlinking, paused, now, pauses>>
      /\ UNCHANGED <<made, removed, answered, archived, over, settled>>
  BY DEF WriteFails, world, history
<1>2. TypeInv'
  BY WriteFailsTyped DEF IInv
<1>3. /\ 1 \in DOMAIN writes
      /\ \A i \in DOMAIN writes' : i + 1 \in DOMAIN writes /\ writes'[i] = writes[i + 1]
  BY <1>1, PopTyped DEF IInv
<1>4. Ordered' /\ LastWrite'
  BY <1>1, PopOrdered
<1>5. /\ Awaited' /\ \A t \in Timer : Answering(t)' => Answering(t)
      /\ \A i \in DOMAIN writes' : \A t \in answered' : t.id < writes'[i].file.nextId
      /\ \A i, j \in DOMAIN writes' : j <= i =>
            \A t \in writes'[j].answers : t.id < writes'[i].file.nextId
  BY <1>1, PopAwaited
<1>6. SaneVersions'
  BY <1>1, <1>3 DEF IInv, SaneVersions
<1>7. Kept'
  BY <1>1, <1>3 DEF IInv, Kept, Running
<1>8. Ids'
  BY <1>1, <1>5 DEF IInv, Ids
<1>9. Modes'
  BY <1>1 DEF IInv, Modes, Running
<1>10. FlushSaves'
  BY <1>1 DEF FlushSaves, Flushed
<1>11. QED
  BY <1>2, <1>4, <1>5, <1>6, <1>7, <1>8, <1>9, <1>10 DEF IInv

\* A write that succeeds settles its snapshot, answers its create, and evicts the
\* file only when it has no timers by then.
LEMMA WriteDoneKeeps ==
    ASSUME IInv, WriteDone
    PROVE  IInv'
<1> DEFINE w == writes[1]
<1>1. /\ writes # <<>> /\ writes' = Tail(writes) /\ failed' = FALSE
      /\ Head(writes) = w /\ 1 \in DOMAIN writes
      /\ \A i \in DOMAIN writes' : i + 1 \in DOMAIN writes /\ writes'[i] = writes[i + 1]
                                   /\ 1 < i + 1
  BY PopTyped DEF WriteDone, IInv
<1>2. /\ disk' = w.file /\ answered' = answered \cup w.answers
      /\ memory' = AfterWrite(w.evicts) /\ Saved(w)
      /\ UNCHANGED <<server, loads, found, unlinking, paused, now, pauses>>
      /\ UNCHANGED <<faults, made, removed>>
  BY <1>1 DEF WriteDone, world
<1>3. /\ w \in Write /\ w.made <= made /\ w.file \in FileUpto(made)
      /\ w.answers \in SUBSET Timer /\ w.file \in FileUpto(w.made)
  BY <1>1, WriteTyped DEF IInv, Ordered
<1>4. \/ memory' = memory
      \/ memory' = NoFile /\ memory.timers = {}
  BY <1>2 DEF AfterWrite
<1>5. TypeInv'
  BY WriteDoneTyped DEF IInv
<1>6. /\ Ordered' /\ LastWrite' /\ memory'.timers = memory.timers
      /\ writes' = <<>> => 1 = Len(writes)
  BY <1>1, <1>4, PopOrdered
<1>7. /\ Awaited' /\ \A t \in Timer : Answering(t)' => Answering(t)
      /\ \A i \in DOMAIN writes' : \A t \in answered' : t.id < writes'[i].file.nextId
      /\ \A i, j \in DOMAIN writes' : j <= i =>
            \A t \in writes'[j].answers : t.id < writes'[i].file.nextId
  BY <1>1, <1>2, <1>6, PopAwaited
<1>8. SaneVersions'
  <2>1. Sane(w.file, over, settled) /\ TypeInv
    BY <1>1 DEF IInv, SaneVersions
  <2>2. ASSUME NEW file \in FileUpto(made), Sane(file, over, settled), Follows(w, file)
        PROVE  Sane(file, over', settled')
    BY <1>2, <1>3, <2>1, <2>2, SavedSane
  <2>3. Follows(w, w.file)
    <3>1. \A t \in w.file.timers : t.num = t.num /\ t.due <= t.due
      BY <1>3 DEF FileUpto, File, Timer
    <3>2. QED
      BY <3>1 DEF Follows
  <2>4. Sane(disk', over', settled')
    BY <1>2, <1>3, <2>1, <2>2, <2>3
  <2>5. Sane(memory, over', settled')
    BY <1>1, <2>2 DEF IInv, TypeInv, Bounded, SaneVersions, Ordered
  <2>6. Sane(memory', over', settled')
    BY <1>4, <2>5, SaneEmpty
  <2>7. \A i \in DOMAIN writes' : Sane(writes'[i].file, over', settled')
    <3>1. SUFFICES ASSUME NEW i \in DOMAIN writes'
                   PROVE  Sane(writes'[i].file, over', settled')
      OBVIOUS
    <3>2. i + 1 \in DOMAIN writes /\ writes'[i] = writes[i + 1] /\ 1 < i + 1
      BY <1>1
    <3>3. writes[i + 1].file \in FileUpto(made)
      BY <3>2, WriteTyped DEF IInv
    <3>4. Sane(writes[i + 1].file, over, settled) /\ Follows(w, writes[i + 1].file)
      BY <1>1, <3>2 DEF IInv, SaneVersions, Ordered
    <3>5. QED
      BY <2>2, <3>2, <3>3, <3>4
  <2>8. \A n \in Nums : n > made => settled'[n] = 0
    <3>1. NumsOf(w.file.timers) \subseteq 1 .. made /\ made \in Nat
      BY <1>3, NumsUpto DEF IInv, TypeInv, TypeOK
    <3>2. \A n \in Nums : n > made => n \notin NumsOf(w.file.timers) /\ settled[n] = 0
      BY <3>1 DEF IInv, SaneVersions
    <3>3. QED
      BY <1>2, <3>2 DEF Saved
  <2>9. QED
    BY <1>2, <2>4, <2>6, <2>7, <2>8 DEF SaneVersions
<1>9. Kept'
  <2>1. SUFFICES ASSUME NEW t \in answered', t.num \notin removed
                 PROVE  /\ t.num \in NumsOf(w.file.timers)
                        /\ \A i \in DOMAIN writes' : t.num \in NumsOf(writes'[i].file.timers)
                        /\ Running => t.num \in NumsOf(memory.timers)
    BY <1>2, <1>6 DEF Kept, Running
  <2>2. CASE t \in answered
    BY <1>1, <2>1, <2>2 DEF IInv, Kept
  <2>3. CASE t \in w.answers
    BY <1>1, <2>1, <2>3 DEF IInv, Awaited
  <2>4. QED
    BY <1>2, <2>2, <2>3
<1>10. Ids'
  <2>1. \A t \in answered' : t.id < disk'.nextId
    <3>1. 1 <= 1
      OBVIOUS
    <3>2. QED
      BY <1>1, <1>2, <3>1 DEF IInv, Ids
  <2>2. QED
    BY <1>4, <1>7, <2>1 DEF IInv, Ids
<1>11. Modes'
  BY <1>1, <1>2, <1>4 DEF IInv, Modes, Running
<1>12. FlushSaves'
  <2>1. SUFFICES ASSUME writes' = <<>>
                 PROVE  IF memory' = NoFile THEN disk'.timers = {} ELSE disk' = memory'
    BY DEF FlushSaves, Flushed, NumsOf
  <2>2. \/ w.file = memory
        \/ memory = NoFile /\ w.file.timers = {}
    BY <1>1, <1>6, <2>1 DEF IInv, LastWrite
  <2>3. QED
    BY <1>2, <1>4, <2>2 DEF NoFile
<1>13. QED
  BY <1>5, <1>6, <1>7, <1>8, <1>9, <1>10, <1>11, <1>12 DEF IInv

\* A version that changes the one in memory and is queued at once: its timers come
\* from it or are new, it has lost only removed ones, and the new timer answers
\* with the next id.
Extends(answers) ==
    /\ made' \in {made, made + 1}
    /\ \A t \in memory'.timers :
          \/ \E u \in memory.timers : u.num = t.num /\ u.due <= t.due
          \/ made' = made + 1 /\ t.num = made'
    /\ \A t, u \in memory'.timers : t.num = u.num => t = u
    /\ \A u \in memory.timers : u.num \in NumsOf(memory'.timers) \/ u.num \in removed'
    /\ removed \subseteq removed'
    /\ memory.nextId <= memory'.nextId
    /\ \A t \in answers : /\ t \in memory'.timers /\ t.num = made + 1 /\ made' = made + 1
                          /\ t.id = memory.nextId /\ t.id < memory'.nextId
    /\ UNCHANGED <<server, disk, loads, found, unlinking, failed, answered, archived, over, settled>>

\* The number of the next timer is new to every save.
LEMMA Fresh ==
    ASSUME IInv
    PROVE  /\ made + 1 \notin over /\ made + 1 \notin removed
           /\ made + 1 \in Nums => settled[made + 1] = 0
           /\ made \in Nat
<1>1. made \in Nat /\ over \subseteq 1 .. made /\ removed \subseteq 1 .. made
  BY DEF IInv, TypeInv, TypeOK, Bounded
<1>2. made + 1 \in Nums => settled[made + 1] = 0
  BY <1>1 DEF IInv, SaneVersions
<1>3. QED
  BY <1>1, <1>2

\* A version made of a sane one is sane.
LEMMA ExtendsSane ==
    ASSUME IInv, TypeInv', NEW answers, Extends(answers)
    PROVE  /\ Sane(memory', over, settled)
           /\ \A n \in Nums : n > made' => settled[n] = 0
<1>1. UNCHANGED <<disk, over, settled>> /\ made' \in {made, made + 1}
  BY DEF Extends
<1>2. Sane(memory', over, settled)
  <2>1. SUFFICES ASSUME NEW t \in memory'.timers
                 PROVE  t.num \notin over /\ t.due >= settled[t.num]
    BY DEF Sane, Extends
  <2>2. t.due \in Nat /\ t.num \in Nums /\ memory.timers \subseteq Timer
        /\ settled \in [Nums -> Nat] /\ \A u \in Timer : u.due \in Nat
    <3>1. t \in Timer /\ t.num <= made' /\ made' \in 0 .. MaxCreates
      BY DEF TypeInv, TypeOK, Bounded, FileUpto, File
    <3>2. memory.timers \subseteq Timer /\ settled \in [Nums -> Nat]
      BY DEF IInv, TypeInv, TypeOK, File
    <3>3. t.num \in Nums
      BY <3>1, TimersAssumption DEF Nums, Timer
    <3>4. QED
      BY <3>1, <3>2, <3>3 DEF Timer
  <2>3. CASE \E u \in memory.timers : u.num = t.num /\ u.due <= t.due
    <3>1. PICK u \in memory.timers : u.num = t.num /\ u.due <= t.due
      BY <2>3
    <3>2. u.num \notin over /\ u.due >= settled[u.num]
      BY DEF IInv, SaneVersions, Sane
    <3>3. QED
      BY <2>2, <3>1, <3>2
  <2>4. CASE t.num = made + 1
    BY <2>2, <2>4, Fresh
  <2>5. QED
    BY <2>3, <2>4 DEF Extends
<1>3. \A n \in Nums : n > made' => settled[n] = 0
  <2>1. \A n \in Nums : n > made' => n > made
    BY <1>1, Fresh DEF Nums
  <2>2. QED
    BY <2>1 DEF IInv, SaneVersions
<1>4. QED
  BY <1>2, <1>3

\* Every step that queues the new version of the file in memory keeps the invariant.
LEMMA PushKeeps ==
    ASSUME IInv, TypeInv', NEW answers \in SUBSET Timer, NEW evicts \in BOOLEAN,
           memory # NoFile, Extends(answers), Persist(memory', answers, evicts),
           \A t, u \in answers : t = u
    PROVE  IInv'
<1> DEFINE w == [file |-> memory', answers |-> answers, evicts |-> evicts, made |-> made']
           n == Len(writes) + 1
<1>1. /\ writes' \in Seq(Write) /\ Len(writes) \in Nat /\ DOMAIN writes = 1 .. Len(writes)
      /\ DOMAIN writes' = 1 .. n /\ Len(writes') = n /\ n \in Nat
      /\ \A i \in DOMAIN writes : writes'[i] = writes[i]
      /\ writes'[n] = w
  <2>1. memory' \in File /\ made' \in Nat
    BY DEF TypeInv, TypeOK
  <2>2. w \in Write /\ writes \in Seq(Write) /\ writes' = Append(writes, w)
    BY <2>1 DEF Write, IInv, TypeInv, TypeOK, Persist
  <2> HIDE DEF w
  <2>3. QED
    BY <2>2, Pushed
<1>2. w.file = memory' /\ w.answers = answers /\ w.made = made'
  OBVIOUS
<1> HIDE DEF w, n
<1>3. /\ \A i \in DOMAIN writes' : i \in Nat /\ (i \in DOMAIN writes \/ i = n)
      /\ \A i \in DOMAIN writes : i \in Nat /\ i \in DOMAIN writes' /\ i < n
      /\ n \in DOMAIN writes'
  BY <1>1 DEF n
<1>4. /\ UNCHANGED <<server, disk, loads, found, unlinking, failed, answered, archived, over, settled>>
      /\ made' \in {made, made + 1} /\ removed \subseteq removed' /\ made \in Nat
  BY Fresh DEF Extends
<1>5. Running /\ ~unlinking /\ loads = <<>>
  BY DEF IInv, Modes
<1>6. SaneVersions'
  <2>1. /\ Sane(memory', over, settled)
        /\ \A k \in Nums : k > made' => settled[k] = 0
    BY ExtendsSane
  <2>2. \A i \in DOMAIN writes' : Sane(writes'[i].file, over, settled)
    BY <1>1, <1>2, <1>3, <2>1 DEF IInv, SaneVersions
  <2>3. QED
    BY <1>4, <2>1, <2>2 DEF IInv, SaneVersions
<1>7. ASSUME NEW i \in DOMAIN writes PROVE Follows(writes[i], memory')
  <2>1. writes[i].made <= made /\ writes[i].made \in Nat /\ Follows(writes[i], memory)
        /\ writes[i].file.timers \subseteq Timer
    BY WriteTyped DEF IInv, Ordered, FileUpto, File
  <2>2. SUFFICES ASSUME NEW t \in memory'.timers, t.num <= writes[i].made
                 PROVE  \E u \in writes[i].file.timers : u.num = t.num /\ u.due <= t.due
    BY DEF Follows
  <2>3. ~(t.num = made + 1)
    BY <1>4, <2>1, <2>2
  <2>4. PICK x \in memory.timers : x.num = t.num /\ x.due <= t.due
    BY <2>3 DEF Extends
  <2>5. PICK u \in writes[i].file.timers : u.num = x.num /\ u.due <= x.due
    BY <2>1, <2>2, <2>4 DEF Follows
  <2>6. u.due \in Nat /\ x.due \in Nat /\ t.due \in Nat
    BY <2>1 DEF IInv, TypeInv, TypeOK, File, Timer
  <2>7. QED
    BY <2>4, <2>5, <2>6
<1>8. Ordered'
  <2>1. w.file \in FileUpto(w.made) /\ Follows(w, memory')
    <3>1. memory' \in FileUpto(made')
      BY DEF TypeInv, Bounded
    <3>2. \A t \in memory'.timers : t.due <= t.due
      BY <3>1 DEF FileUpto, File, Timer
    <3>3. QED
      BY <1>2, <3>1, <3>2 DEF Follows
  <2>2. SUFFICES ASSUME NEW i \in DOMAIN writes'
                 PROVE  /\ writes'[i].file \in FileUpto(writes'[i].made)
                        /\ Follows(writes'[i], memory')
                        /\ \A j \in DOMAIN writes' : i < j =>
                              Follows(writes'[i], writes'[j].file)
    BY DEF Ordered
  <2>3. CASE i = n
    <3>1. \A j \in DOMAIN writes' : ~(i < j)
      BY <1>1, <2>3
    <3>2. QED
      BY <1>1, <2>1, <2>3, <3>1
  <2>4. CASE i \in DOMAIN writes
    <3>1. \A j \in DOMAIN writes' : i < j => Follows(writes[i], writes'[j].file)
      BY <1>1, <1>2, <1>3, <1>7, <2>4 DEF IInv, Ordered
    <3>2. QED
      BY <1>1, <1>7, <2>4, <3>1 DEF IInv, Ordered
  <2>5. QED
    BY <1>3, <2>3, <2>4
<1>9. \A k : k \in NumsOf(memory.timers) /\ k \notin removed' => k \in NumsOf(memory'.timers)
  BY NumsOfMember DEF Extends
<1>10. Kept'
  <2>1. SUFFICES ASSUME NEW t \in answered, t.num \notin removed'
                 PROVE  /\ t.num \in NumsOf(disk.timers)
                        /\ \A i \in DOMAIN writes' : t.num \in NumsOf(writes'[i].file.timers)
                        /\ t.num \in NumsOf(memory'.timers)
    BY <1>4 DEF Kept
  <2>2. /\ t.num \in NumsOf(disk.timers) /\ t.num \in NumsOf(memory.timers)
        /\ \A i \in DOMAIN writes : t.num \in NumsOf(writes[i].file.timers)
    BY <1>4, <1>5, <2>1 DEF IInv, Kept
  <2>3. t.num \in NumsOf(memory'.timers)
    BY <1>9, <2>1, <2>2
  <2>4. QED
    BY <1>1, <1>2, <1>3, <2>2, <2>3
<1>11. Awaited'
  <2>1. SUFFICES ASSUME NEW i \in DOMAIN writes', NEW t \in writes'[i].answers
                 PROVE  /\ t.num \in NumsOf(writes'[i].file.timers)
                        /\ t.num \in removed'
                             \/ /\ t.num \in NumsOf(memory'.timers)
                                /\ \A j \in DOMAIN writes' : i < j =>
                                      t.num \in NumsOf(writes'[j].file.timers)
    BY DEF Awaited
  <2>2. CASE i = n
    <3>1. \A j \in DOMAIN writes' : ~(i < j)
      BY <1>1, <2>2
    <3>2. t \in memory'.timers
      BY <1>1, <1>2, <2>2 DEF Extends
    <3>3. t.num \in NumsOf(memory'.timers)
      BY <3>2, NumsOfMember
    <3>4. QED
      BY <1>1, <1>2, <2>2, <3>1, <3>3
  <2>3. CASE i \in DOMAIN writes
    <3>1. /\ t.num \in NumsOf(writes[i].file.timers)
          /\ t.num \in removed
               \/ /\ t.num \in NumsOf(memory.timers)
                  /\ \A j \in DOMAIN writes : i < j =>
                        t.num \in NumsOf(writes[j].file.timers)
      BY <1>1, <2>3 DEF IInv, Awaited
    <3>2. QED
      BY <1>1, <1>2, <1>3, <1>4, <1>9, <2>3, <3>1
  <2>4. QED
    BY <1>3, <2>2, <2>3
<1>12. \A t \in Timer : Answering(t)' <=> Answering(t) \/ t \in answers
  BY <1>1, <1>2, <1>3, <1>4 DEF Answering
<1>13. /\ memory.nextId \in Nat /\ memory'.nextId \in Nat /\ memory.nextId <= memory'.nextId
       /\ answered \subseteq Timer
       /\ \A i \in DOMAIN writes : writes[i].answers \subseteq Timer
       /\ \A t \in Timer : t.id \in Nat
       /\ \A t \in answers : t.id = memory.nextId /\ t.id < memory'.nextId
       /\ \A t \in Timer : Answering(t) => t.id < memory.nextId
  <2>1. answered \subseteq Timer /\ memory \in File /\ memory' \in File
    BY DEF IInv, TypeInv, TypeOK
  <2>2. \A i \in DOMAIN writes : writes[i].answers \subseteq Timer
    BY WriteTyped DEF IInv
  <2>3. \A t \in Timer : Answering(t) => t.id < memory.nextId
    BY DEF IInv, Ids
  <2>4. QED
    BY <2>1, <2>2, <2>3 DEF Extends, File, Timer
<1>14. Ids'
  <2>1. \A t \in Timer : Answering(t)' => t.id < memory'.nextId
    BY <1>12, <1>13
  <2>2. \A t, u \in Timer : Answering(t)' /\ Answering(u)' /\ t.id = u.id => t.num = u.num
    <3>1. SUFFICES ASSUME NEW t \in Timer, NEW u \in Timer,
                          Answering(t)', Answering(u)', t.id = u.id
                   PROVE  t.num = u.num
      OBVIOUS
    <3>2. CASE Answering(t) /\ Answering(u)
      BY <3>1, <3>2 DEF IInv, Ids
    <3>3. CASE t \in answers /\ u \in answers
      BY <3>3
    <3>4. CASE t \in answers /\ Answering(u)
      BY <1>13, <3>1, <3>4
    <3>5. CASE Answering(t) /\ u \in answers
      BY <1>13, <3>1, <3>5
    <3>6. QED
      BY <1>12, <3>1, <3>2, <3>3, <3>4, <3>5
  <2>3. \A t \in answered' : t.id < disk'.nextId
    BY <1>4 DEF IInv, Ids
  <2>4. ASSUME NEW i \in DOMAIN writes'
        PROVE  /\ \A t \in answered : t.id < writes'[i].file.nextId
               /\ \A j \in DOMAIN writes' : j <= i =>
                     \A t \in writes'[j].answers : t.id < writes'[i].file.nextId
    <3>1. CASE i = n
      <4>1. writes'[i].file = memory'
        BY <1>1, <1>2, <3>1
      <4>2. \A t \in answered : Answering(t)'
        BY <1>4 DEF Answering
      <4>3. \A j \in DOMAIN writes' : \A t \in writes'[j].answers :
                t \in Timer /\ Answering(t)'
        BY <1>1, <1>2, <1>3, <1>13 DEF Answering
      <4>4. QED
        BY <1>13, <2>1, <4>1, <4>2, <4>3
    <3>2. CASE i \in DOMAIN writes
      <4>1. \A j \in DOMAIN writes' : j <= i => j \in DOMAIN writes
        BY <1>1, <1>3, <3>2
      <4>2. QED
        BY <1>1, <3>2, <4>1 DEF IInv, Ids
    <3>3. QED
      BY <1>3, <3>1, <3>2
  <2>5. QED
    BY <1>4, <2>1, <2>2, <2>3, <2>4 DEF Ids
<1>15. writes' # <<>>
  <2>1. Len(writes') # 0
    BY <1>1 DEF n
  <2>2. QED
    BY <2>1, EmptySeq
<1>16. Modes' /\ LastWrite' /\ FlushSaves'
  <2>1. Modes'
    BY <1>4, <1>5 DEF Modes, Running
  <2>2. LastWrite'
    BY <1>1, <1>2 DEF LastWrite
  <2>3. FlushSaves'
    BY <1>15 DEF FlushSaves, Flushed
  <2>4. QED
    BY <2>1, <2>2, <2>3
<1>17. QED
  BY <1>6, <1>8, <1>10, <1>11, <1>14, <1>16 DEF IInv

\* Steps that touch neither the files nor what has become of the timers.
LEMMA StutterKeeps ==
    ASSUME IInv, TypeInv',
           UNCHANGED <<server, memory, disk, writes, loads, found, unlinking, failed>>,
           UNCHANGED <<made, removed, answered, archived, over, settled>>
    PROVE  IInv'
<1>1. SaneVersions'
  BY DEF IInv, SaneVersions
<1>2. Ordered'
  BY DEF IInv, Ordered
<1>3. Kept' /\ Awaited'
  BY DEF IInv, Kept, Awaited, Running
<1>4. Ids'
  BY DEF IInv, Ids, Answering
<1>5. Modes' /\ LastWrite' /\ FlushSaves'
  BY DEF IInv, Modes, LastWrite, FlushSaves, Running, Flushed
<1>6. QED
  BY <1>1, <1>2, <1>3, <1>4, <1>5 DEF IInv

\* createTimer with the file in memory.
LEMMA CreateKeeps ==
    ASSUME IInv, TypeInv', Create
    PROVE  IInv'
<1>1. /\ memory # NoFile
      /\ UNCHANGED <<server, loads, found, unlinking, failed, disk>>
      /\ UNCHANGED <<removed, answered, archived, over, settled>>
      /\ AddTo(memory)
  BY DEF Create
<1>2. CASE memory' = memory /\ UNCHANGED <<writes, made>>
  BY <1>1, <1>2, StutterKeeps
<1>3. ASSUME made' = made + 1, NEW delay \in Delays, NEW every \in Intervals,
             LET t == [num |-> made', id |-> memory.nextId, every |-> every,
                       due |-> now + (IF every = 0 THEN delay ELSE every)]
                 after == [nextId |-> memory.nextId + 1, timers |-> memory.timers \cup {t}]
             IN  memory' = after /\ Persist(after, {t}, FALSE)
      PROVE  IInv'
  <2> DEFINE t == [num |-> made', id |-> memory.nextId, every |-> every,
                   due |-> now + (IF every = 0 THEN delay ELSE every)]
  <2>1. /\ memory' = [nextId |-> memory.nextId + 1, timers |-> memory.timers \cup {t}]
        /\ Persist(memory', {t}, FALSE)
    BY <1>3
  <2>2. t.num = made + 1 /\ t.id = memory.nextId
    BY <1>3
  <2> HIDE DEF t
  <2>3. /\ memory \in File /\ memory' \in File /\ made \in Nat
        /\ \A u \in memory.timers : u.num <= made /\ u \in Timer
        /\ \A u, v \in memory.timers : u.num = v.num => u = v
    BY DEF IInv, TypeInv, TypeOK, Bounded, FileUpto, File, SaneVersions, Sane
  <2>4. memory'.timers = memory.timers \cup {t} /\ memory'.nextId = memory.nextId + 1
        /\ memory.nextId \in Nat /\ t \in Timer
    BY <2>1, <2>3 DEF File
  <2>5. \A u \in memory.timers : u.num \in NumsOf(memory'.timers) \/ u.num \in removed'
    BY <2>4, NumsOfMember
  <2>6. \A u \in memory'.timers :
           \/ \E v \in memory.timers : v.num = u.num /\ v.due <= u.due
           \/ made' = made + 1 /\ u.num = made'
    <3>1. \A u \in memory.timers : u.due <= u.due
      BY <2>3 DEF Timer
    <3>2. QED
      BY <1>3, <2>2, <2>4, <3>1
  <2>7. \A u, v \in memory'.timers : u.num = v.num => u = v
    <3>1. \A u \in memory.timers : u.num # t.num
      BY <2>2, <2>3 DEF Timer
    <3>2. QED
      BY <2>3, <2>4, <3>1
  <2>8. Extends({t})
    <3>1. /\ memory.nextId <= memory'.nextId /\ removed \subseteq removed'
          /\ \A u \in {t} : /\ u \in memory'.timers /\ u.num = made + 1 /\ made' = made + 1
                            /\ u.id = memory.nextId /\ u.id < memory'.nextId
      BY <1>1, <1>3, <2>2, <2>4
    <3>2. made' \in {made, made + 1}
      BY <1>3
    <3>3. QED
      BY <1>1, <2>5, <2>6, <2>7, <3>1, <3>2, Zenon DEF Extends
  <2>9. QED
    BY <1>1, <2>1, <2>4, <2>8, PushKeeps
<1>4. QED
  BY <1>1, <1>2, <1>3 DEF AddTo

\* cancelTimer.
LEMMA CancelKeeps ==
    ASSUME IInv, TypeInv', NEW t \in memory.timers, Cancel(t)
    PROVE  IInv'
<1>1. /\ memory'.nextId = memory.nextId /\ memory'.timers = memory.timers \ {t}
      /\ removed' = removed \cup {t.num} /\ made' = made /\ Persist(memory', {}, TRUE)
      /\ \A u \in memory.timers : u.num \in NumsOf(memory'.timers) \/ u.num \in removed'
      /\ UNCHANGED <<server, disk, loads, found, unlinking, failed, answered, archived, over, settled>>
  BY CancelVersion DEF IInv
<1>2. /\ memory \in File /\ \A u, v \in memory.timers : u.num = v.num => u = v
      /\ \A u \in memory.timers : u.due <= u.due
  <2>1. memory \in File
    BY DEF IInv, TypeInv, TypeOK
  <2>2. \A u \in memory.timers : u.due <= u.due
    BY <2>1 DEF File, Timer
  <2>3. \A u, v \in memory.timers : u.num = v.num => u = v
    BY DEF IInv, SaneVersions, Sane
  <2>4. QED
    BY <2>1, <2>2, <2>3
<1>3. memory # NoFile
  BY DEF NoFile
<1>4. Extends({})
  <2>1. memory.nextId <= memory'.nextId /\ removed \subseteq removed' /\ made' \in {made, made + 1}
    BY <1>1, <1>2 DEF File
  <2>2. /\ \A u \in memory'.timers : \E v \in memory.timers : v.num = u.num /\ v.due <= u.due
        /\ \A u, v \in memory'.timers : u.num = v.num => u = v
    BY <1>1, <1>2
  <2>3. QED
    BY <1>1, <2>1, <2>2 DEF Extends
<1>5. QED
  BY <1>1, <1>3, <1>4, PushKeeps

\* The sweep.
LEMMA SweepKeeps ==
    ASSUME IInv, TypeInv', NEW then \in 0 .. now, Sweep(then)
    PROVE  IInv'
<1>1. /\ memory'.nextId = memory.nextId /\ made' = made /\ Persist(memory', {}, TRUE)
      /\ \A t \in memory'.timers : \E u \in memory.timers : u.num = t.num /\ u.due <= t.due
      /\ \A t, u \in memory'.timers : t.num = u.num =>
            \E x, y \in memory.timers : x.num = t.num /\ y.num = t.num /\ (x = y => t = u)
      /\ \A u \in memory.timers : u.num \in NumsOf(memory'.timers) \/ u.num \in removed'
      /\ removed \subseteq removed' /\ memory.timers # {}
      /\ UNCHANGED <<server, disk, loads, found, unlinking, failed, answered, archived, over, settled>>
  BY SweepVersion DEF IInv
<1>2. /\ memory \in File /\ \A u, v \in memory.timers : u.num = v.num => u = v
  BY DEF IInv, TypeInv, TypeOK, SaneVersions, Sane
<1>3. memory # NoFile
  BY <1>1 DEF NoFile
<1>4. Extends({})
  BY <1>1, <1>2 DEF Extends, File
<1>5. QED
  BY <1>1, <1>3, <1>4, PushKeeps

\* The process ends: no crash leaves the disk with less than it had been told.
LEMMA GoneKeeps ==
    ASSUME IInv, TypeInv', Gone,
           \/ disk' = disk
           \/ unlinking /\ disk' = Empty
           \/ 1 \in DOMAIN writes /\ disk' = writes[1].file
    PROVE  IInv'
<1>1. /\ server' = "down" /\ memory' = NoFile /\ writes' = <<>> /\ loads' = <<>>
      /\ unlinking' = FALSE /\ failed' = FALSE
      /\ UNCHANGED <<made, removed, answered, archived, over, settled>>
  BY DEF Gone, history
<1>2. \A i \in DOMAIN writes' : FALSE
  BY <1>1
<1>3. SaneVersions'
  BY <1>1, <1>2, SaneEmpty DEF IInv, SaneVersions
<1>4. Ordered' /\ Awaited'
  BY <1>2 DEF Ordered, Awaited
<1>5. ~Running' /\ Modes'
  BY <1>1 DEF Modes, Running
<1>6. Kept'
  <2>1. SUFFICES ASSUME NEW t \in answered, t.num \notin removed
                 PROVE  t.num \in NumsOf(disk'.timers)
    BY <1>1, <1>2, <1>5 DEF Kept
  <2>2. ~unlinking
    BY <2>1 DEF IInv, Modes
  <2>3. QED
    BY <2>1, <2>2 DEF IInv, Kept
<1>7. Ids'
  <2>1. \A t \in answered' : t.id < disk'.nextId
    BY <1>1 DEF IInv, Ids, Modes
  <2>2. \A t \in Timer : Answering(t)' => Answering(t)
    BY <1>1, <1>2 DEF Answering
  <2>3. QED
    BY <1>1, <1>2, <2>1, <2>2 DEF IInv, Ids
<1>8. LastWrite' /\ FlushSaves'
  BY <1>1, <1>5 DEF LastWrite, FlushSaves
<1>9. QED
  BY <1>3, <1>4, <1>5, <1>6, <1>7, <1>8 DEF IInv

\* A create that has read the file has the session to itself, and read what is
\* on disk.
LEMMA LoadedAlone ==
    ASSUME IInv, NEW i \in DOMAIN loads, Loaded(i)
    PROVE  /\ loads = <<disk>> /\ i = 1 /\ loads' = <<>> /\ memory = NoFile
           /\ writes = <<>> /\ ~unlinking /\ Running
           /\ AddTo(disk) /\ removed' = removed \ NumsOf(disk.timers)
           /\ UNCHANGED <<server, disk, found, unlinking, failed>>
           /\ UNCHANGED <<answered, over, settled>>
<1>1. loads # <<>>
  <2>1. DOMAIN loads = 1 .. Len(loads) /\ Len(loads) \in Nat
    BY LenProperties DEF IInv, TypeInv, TypeOK
  <2>2. i \in 1 .. Len(loads)
    BY <2>1
  <2>3. Len(loads) # 0
    BY <2>1, <2>2
  <2>4. QED
    BY <2>3, EmptySeq
<1>2. loads = <<disk>> /\ memory = NoFile /\ writes = <<>> /\ ~unlinking /\ Running
  BY <1>1 DEF IInv, Modes
<1>3. Len(loads) = 1 /\ DOMAIN loads = 1 .. 1 /\ loads[1] = disk
  BY <1>2
<1>4. i = 1
  BY <1>3
<1>5. loads' = [j \in 1 .. Len(loads) - 1 |-> loads[IF j < i THEN j ELSE j + 1]]
  BY DEF Loaded
<1>6. loads' = <<>>
  <2>1. loads' \in Seq(File) /\ DOMAIN loads' = 1 .. 0
    <3>1. TypeInv'
      BY LoadedTyped DEF IInv
    <3>2. QED
      BY <1>3, <1>5, <3>1 DEF TypeInv, TypeOK
  <2>2. Len(loads') = 0
    BY <2>1, LenProperties
  <2>3. QED
    BY <2>1, <2>2, EmptySeq
<1>7. AddTo(disk) /\ removed' = removed \ NumsOf(disk.timers)
  BY <1>3, <1>4 DEF Loaded
<1>8. QED
  BY <1>2, <1>4, <1>6, <1>7 DEF Loaded

\* createTimer with the file that was on disk only.
LEMMA LoadedKeeps ==
    ASSUME IInv, TypeInv', NEW i \in DOMAIN loads, Loaded(i)
    PROVE  IInv'
<1>1. /\ loads' = <<>> /\ memory = NoFile /\ writes = <<>> /\ ~unlinking /\ Running
      /\ AddTo(disk) /\ removed' = removed \ NumsOf(disk.timers)
      /\ UNCHANGED <<server, disk, found, unlinking, failed>>
      /\ UNCHANGED <<answered, over, settled>>
  BY LoadedAlone
<1>2. ASSUME NEW t \in answered, t.num \notin removed' PROVE t.num \in NumsOf(disk.timers)
  BY <1>1, <1>2 DEF IInv, Kept
<1>3. Modes'
  BY <1>1 DEF Modes, Running
<1>4. \A j \in DOMAIN writes : FALSE
  BY <1>1
<1>5. CASE memory' = disk /\ UNCHANGED <<writes, made>>
  <2>1. \A j \in DOMAIN writes' : FALSE
    BY <1>4, <1>5
  <2>2. SaneVersions'
    BY <1>1, <1>5, <2>1 DEF IInv, SaneVersions
  <2>3. Ordered' /\ Awaited'
    BY <2>1 DEF Ordered, Awaited
  <2>4. Kept'
    BY <1>1, <1>2, <1>5, <2>1 DEF Kept
  <2>5. Ids'
    <3>1. \A t \in Timer : Answering(t)' <=> t \in answered
      BY <1>1, <2>1 DEF Answering
    <3>2. \A t \in Timer : t \in answered => Answering(t)
      BY DEF Answering
    <3>3. QED
      BY <1>1, <1>5, <2>1, <3>1, <3>2 DEF IInv, Ids
  <2>6. LastWrite' /\ FlushSaves'
    BY <1>1, <1>5 DEF LastWrite, FlushSaves, NoFile, NumsOf
  <2>7. QED
    BY <1>3, <2>2, <2>3, <2>4, <2>5, <2>6 DEF IInv
<1>6. ASSUME made' = made + 1, NEW delay \in Delays, NEW every \in Intervals,
             LET t == [num |-> made', id |-> disk.nextId, every |-> every,
                       due |-> now + (IF every = 0 THEN delay ELSE every)]
                 after == [nextId |-> disk.nextId + 1, timers |-> disk.timers \cup {t}]
             IN  memory' = after /\ Persist(after, {t}, FALSE)
      PROVE  IInv'
  <2> DEFINE t == [num |-> made', id |-> disk.nextId, every |-> every,
                   due |-> now + (IF every = 0 THEN delay ELSE every)]
             w == [file |-> memory', answers |-> {t}, evicts |-> FALSE, made |-> made']
  <2>1. /\ memory' = [nextId |-> disk.nextId + 1, timers |-> disk.timers \cup {t}]
        /\ Persist(memory', {t}, FALSE)
    BY <1>6
  <2>2. t.num = made + 1 /\ t.id = disk.nextId
    BY <1>6
  <2> HIDE DEF t
  <2>3. /\ disk \in File /\ memory' \in File /\ made \in Nat /\ made' \in Nat
        /\ answered \subseteq Timer /\ settled \in [Nums -> Nat] /\ made' \in 0 .. MaxCreates
        /\ memory' \in FileUpto(made')
        /\ \A u \in disk.timers : u.num <= made /\ u \in Timer
        /\ \A u, v \in disk.timers : u.num = v.num => u = v
    <3>1. /\ disk \in File /\ memory' \in File /\ made \in Nat /\ made' \in Nat
          /\ answered \subseteq Timer /\ settled \in [Nums -> Nat] /\ made' \in 0 .. MaxCreates
      BY DEF IInv, TypeInv, TypeOK
    <3>2. memory' \in FileUpto(made') /\ disk \in FileUpto(made)
      BY DEF IInv, TypeInv, Bounded
    <3>3. \A u \in disk.timers : u.num <= made /\ u \in Timer
      BY <3>1, <3>2 DEF FileUpto, File
    <3>4. \A u, v \in disk.timers : u.num = v.num => u = v
      BY DEF IInv, SaneVersions, Sane
    <3>5. QED
      BY <3>1, <3>2, <3>3, <3>4
  <2>4. memory'.timers = disk.timers \cup {t} /\ memory'.nextId = disk.nextId + 1
        /\ disk.nextId \in Nat /\ t \in Timer
    BY <2>1, <2>3 DEF File
  <2>5. /\ DOMAIN writes' = 1 .. 1 /\ writes'[1] = w /\ Len(writes') = 1 /\ writes' # <<>>
    <3>1. writes' = Append(<<>>, w) /\ <<>> \in Seq(Write) /\ Len(<<>>) = 0
      BY <1>1, <2>1, EmptySeq DEF Persist
    <3>2. w \in Write
      BY <2>3, <2>4 DEF Write
    <3> HIDE DEF w
    <3>3. DOMAIN writes' = 1 .. 0 + 1 /\ writes'[0 + 1] = w /\ Len(writes') = 0 + 1
      BY <3>1, <3>2, Pushed
    <3>4. QED
      BY <3>3, EmptySeq
  <2>6. w.file = memory' /\ w.answers = {t} /\ w.made = made'
    OBVIOUS
  <2> HIDE DEF w
  <2>7. \A j \in DOMAIN writes' : j = 1 /\ writes'[j] = w
    BY <2>5
  <2>8. \A n : n \in NumsOf(disk.timers) => n \in NumsOf(memory'.timers)
    BY <2>4, NumsOfMember
  <2>9. SaneVersions'
    <3>1. \A u \in disk.timers : u.num # t.num
      BY <2>2, <2>3 DEF Timer
    <3>2. t.num \notin over /\ t.due >= settled[t.num]
      <4>1. t.num \in Nums /\ t.due \in Nat
        BY <1>6, <2>2, <2>3, <2>4, TimersAssumption DEF Timer, Nums
      <4>2. QED
        BY <2>2, <2>3, <4>1, Fresh
    <3>3. Sane(memory', over, settled)
      BY <2>4, <3>1, <3>2 DEF IInv, SaneVersions, Sane
    <3>4. \A n \in Nums : n > made' => settled[n] = 0
      <4>1. \A n \in Nums : n > made' => n > made
        BY <1>6, <2>3 DEF Nums
      <4>2. QED
        BY <4>1 DEF IInv, SaneVersions
    <3>5. QED
      BY <1>1, <2>6, <2>7, <3>3, <3>4 DEF IInv, SaneVersions
  <2>10. Ordered'
    <3>1. \A u \in memory'.timers : u.due <= u.due
      BY <2>3 DEF FileUpto, File, Timer
    <3>2. Follows(w, memory')
      BY <2>6, <3>1 DEF Follows
    <3>3. \A j \in DOMAIN writes' : \A k \in DOMAIN writes' : ~(j < k)
      BY <2>5
    <3>4. QED
      BY <2>3, <2>6, <2>7, <3>2, <3>3 DEF Ordered
  <2>11. Kept'
    BY <1>1, <1>2, <2>6, <2>7, <2>8 DEF Kept
  <2>12. Awaited'
    <3>1. t.num \in NumsOf(memory'.timers)
      BY <2>4, NumsOfMember
    <3>2. \A j \in DOMAIN writes' : \A k \in DOMAIN writes' : ~(j < k)
      BY <2>5
    <3>3. QED
      BY <2>6, <2>7, <3>1, <3>2 DEF Awaited
  <2>13. Ids'
    <3>1. \A u \in Timer : Answering(u)' <=> u \in answered \/ u = t
      BY <1>1, <2>5, <2>6, <2>7 DEF Answering
    <3>2. \A u \in answered : u.id < disk.nextId /\ u.id \in Nat /\ Answering(u)
      BY <2>3 DEF IInv, Ids, Answering, Timer
    <3>3. \A u \in answered : u.id < memory'.nextId /\ u.id # t.id
      BY <2>2, <2>4, <3>2
    <3>4. t.id < memory'.nextId
      BY <2>2, <2>4
    <3>5. \A u, v \in Timer : Answering(u)' /\ Answering(v)' /\ u.id = v.id => u.num = v.num
      <4>1. \A u, v \in answered : u.id = v.id => u.num = v.num
        BY <2>3, <3>2 DEF IInv, Ids
      <4>2. QED
        BY <3>1, <3>3, <4>1
    <3>6. QED
      BY <1>1, <2>6, <2>7, <3>1, <3>2, <3>3, <3>4, <3>5 DEF Ids
  <2>14. LastWrite' /\ FlushSaves'
    BY <2>5, <2>6 DEF LastWrite, FlushSaves, Flushed
  <2>15. QED
    BY <1>3, <2>9, <2>10, <2>11, <2>12, <2>13, <2>14 DEF IInv
<1>7. QED
  BY <1>1, <1>5, <1>6 DEF AddTo

\* A create that awaits the file is alone with it.
LEMMA LoadKeeps ==
    ASSUME IInv, TypeInv', ~Overlapping, Load
    PROVE  IInv'
<1>1. /\ memory = NoFile /\ loads = <<>> /\ writes = <<>> /\ ~unlinking /\ Running
      /\ loads' = Append(loads, disk)
      /\ UNCHANGED <<server, memory, disk, writes, found, unlinking, failed>>
      /\ UNCHANGED <<made, removed, answered, archived, over, settled>>
  BY DEF Load, Quiet, Running, world, history
<1>2. loads' = <<disk>>
  BY <1>1
<1>3. SaneVersions' /\ Ordered'
  BY <1>1 DEF IInv, SaneVersions, Ordered
<1>4. Kept' /\ Awaited'
  BY <1>1 DEF IInv, Kept, Awaited, Running
<1>5. Ids'
  BY <1>1 DEF IInv, Ids, Answering
<1>6. Modes'
  BY <1>1, <1>2 DEF Modes, Running
<1>7. LastWrite' /\ FlushSaves'
  BY <1>1 DEF IInv, LastWrite, FlushSaves, Running, Flushed
<1>8. QED
  BY <1>3, <1>4, <1>5, <1>6, <1>7 DEF IInv

\* An archive finds no write under way, and starts the deletion.
LEMMA CancelAllKeeps ==
    ASSUME IInv, TypeInv', ~Overlapping, CancelAll
    PROVE  IInv'
<1>1. /\ loads = <<>> /\ writes = <<>> /\ Running
      /\ memory' = NoFile /\ unlinking' = TRUE /\ removed' = 1 .. made /\ answered' = {}
      /\ archived' = 1 .. made
      /\ UNCHANGED <<server, disk, writes, loads, found, failed, made, over, settled>>
  BY DEF CancelAll, Quiet, Running, world
<1>2. \A j \in DOMAIN writes' : FALSE
  BY <1>1
<1>3. SaneVersions'
  BY <1>1, <1>2, SaneEmpty DEF IInv, SaneVersions
<1>4. Ordered' /\ Awaited' /\ Kept'
  BY <1>1, <1>2 DEF Ordered, Awaited, Kept
<1>5. Ids'
  BY <1>1, <1>2 DEF Ids, Answering
<1>6. Modes' /\ LastWrite' /\ FlushSaves'
  <2>1. NumsOf(disk.timers) \subseteq 1 .. made
    BY NumsUpto DEF IInv, TypeInv, TypeOK, Bounded
  <2>2. QED
    BY <1>1, <2>1 DEF Modes, LastWrite, FlushSaves, Running
<1>7. QED
  BY <1>3, <1>4, <1>5, <1>6 DEF IInv

\* The deletion settles the removal of every timer made so far, or does nothing.
LEMMA UnlinkedKeeps ==
    ASSUME IInv, TypeInv', Unlinked
    PROVE  IInv'
<1>1. /\ loads = <<>> /\ writes = <<>> /\ memory = NoFile /\ answered = {}
      /\ unlinking' = FALSE /\ Running
      /\ disk' = Empty \/ UNCHANGED <<disk, over>>
      /\ UNCHANGED <<server, memory, writes, loads, found, failed, made, removed>>
      /\ UNCHANGED <<answered, archived, settled>>
  BY DEF Unlinked, IInv, Modes, world
<1>2. \A j \in DOMAIN writes' : FALSE
  BY <1>1
<1>3. SaneVersions'
  <2>1. CASE disk' = Empty
    BY <1>1, <1>2, <2>1, SaneEmpty DEF IInv, SaneVersions
  <2>2. CASE UNCHANGED <<disk, over>>
    BY <1>1, <1>2, <2>2 DEF IInv, SaneVersions, Sane
  <2>3. QED
    BY <1>1, <2>1, <2>2
<1>4. Ordered' /\ Awaited' /\ Kept'
  BY <1>1, <1>2 DEF Ordered, Awaited, Kept
<1>5. Ids'
  BY <1>1, <1>2 DEF Ids, Answering
<1>6. Modes' /\ LastWrite'
  BY <1>1 DEF Modes, LastWrite, Running
<1>7. FlushSaves'
  BY <1>1 DEF IInv, FlushSaves, Flushed, Running, Empty, NumsOf
<1>8. QED
  BY <1>3, <1>4, <1>5, <1>6, <1>7 DEF IInv

\* A stop and the first steps of a start.
LEMMA ServerKeeps ==
    ASSUME IInv, TypeInv', Stop \/ Start \/ ReadFile
    PROVE  IInv'
<1>1. /\ UNCHANGED <<memory, disk, writes, loads, unlinking, failed>>
      /\ UNCHANGED <<made, removed, answered, archived, over, settled>>
      /\ Running' = Running
      /\ server' = "restoring" => found' = disk
      /\ \/ server = "up" /\ server' = "stopping"
         \/ server = "down" /\ server' = "starting"
         \/ server = "starting" /\ server' = "restoring"
  BY DEF Stop, Start, ReadFile, Running, history
<1>2. SaneVersions' /\ Ordered'
  BY <1>1 DEF IInv, SaneVersions, Ordered
<1>3. Kept'
  BY <1>1 DEF IInv, Kept
<1>4. Awaited' /\ Ids'
  BY <1>1 DEF IInv, Awaited, Ids, Answering
<1>5. Modes'
  BY <1>1 DEF IInv, Modes
<1>6. LastWrite' /\ FlushSaves'
  BY <1>1 DEF IInv, LastWrite, FlushSaves, Flushed
<1>7. QED
  BY <1>2, <1>3, <1>4, <1>5, <1>6 DEF IInv

\* A start puts what it has read, which is what is on disk, into the map.
LEMMA RestoreKeeps ==
    ASSUME IInv, TypeInv', Restore
    PROVE  IInv'
<1>1. /\ server' = "up" /\ found = disk /\ memory = NoFile /\ writes = <<>> /\ loads = <<>>
      /\ ~unlinking /\ ~failed
      /\ memory' = IF disk.timers # {} THEN disk ELSE memory
      /\ removed' = removed \ NumsOf(disk.timers)
      /\ UNCHANGED <<disk, writes, loads, unlinking, failed, made, answered, over, settled>>
  BY DEF Restore, IInv, Modes, Running, world
<1>2. Running'
  BY <1>1 DEF Running
<1>3. \A j \in DOMAIN writes' : FALSE
  BY <1>1
<1>4. SaneVersions'
  BY <1>1, <1>3 DEF IInv, SaneVersions
<1>5. Ordered' /\ Awaited'
  BY <1>3 DEF Ordered, Awaited
<1>6. Kept'
  <2>1. SUFFICES ASSUME NEW t \in answered, t.num \notin removed'
                 PROVE  /\ t.num \in NumsOf(disk.timers)
                        /\ t.num \in NumsOf(memory'.timers)
    BY <1>1, <1>3 DEF Kept
  <2>2. t.num \in NumsOf(disk.timers)
    BY <1>1, <2>1 DEF IInv, Kept
  <2>3. disk.timers # {}
    BY <2>2, NumsOfMember
  <2>4. QED
    BY <1>1, <2>2, <2>3
<1>7. Ids'
  <2>1. \A t \in Timer : Answering(t)' <=> t \in answered
    BY <1>1, <1>3 DEF Answering
  <2>2. \A t \in Timer : t \in answered => Answering(t)
    BY DEF Answering
  <2>3. QED
    BY <1>1, <1>3, <2>1, <2>2 DEF IInv, Ids
<1>8. Modes' /\ LastWrite' /\ FlushSaves'
  <2>1. Modes' /\ LastWrite'
    BY <1>1, <1>2 DEF Modes, LastWrite
  <2>2. FlushSaves'
    BY <1>1 DEF FlushSaves, NoFile, NumsOf
  <2>3. QED
    BY <2>1, <2>2
<1>9. QED
  BY <1>4, <1>5, <1>6, <1>7, <1>8 DEF IInv

\* The invariant of every step, action by action.
LEMMA InvNext ==
    ASSUME Orderly, IInv, [Next]_vars
    PROVE  IInv'
<1>1. TypeInv' /\ ~Overlapping /\ ~BadDisk
  BY TypeNext DEF IInv, Orderly
<1>2. CASE WriteDone
  BY <1>2, WriteDoneKeeps
<1>3. CASE WriteFails
  BY <1>1, <1>3, WriteFailsKeeps
<1>4. CASE Create
  BY <1>1, <1>4, CreateKeeps
<1>5. CASE Load
  BY <1>1, <1>5, LoadKeeps
<1>6. ASSUME NEW i \in DOMAIN loads, Loaded(i) PROVE IInv'
  BY <1>1, <1>6, LoadedKeeps
<1>7. ASSUME NEW t \in memory.timers, Cancel(t) PROVE IInv'
  BY <1>1, <1>7, CancelKeeps
<1>8. CASE CancelAll
  BY <1>1, <1>8, CancelAllKeeps
<1>9. CASE Unlinked
  BY <1>1, <1>9, UnlinkedKeeps
<1>10. ASSUME NEW then \in 0 .. now, Sweep(then) PROVE IInv'
  BY <1>1, <1>10, SweepKeeps
<1>11. CASE Crash
  <2>1. /\ \/ disk' = disk
           \/ unlinking /\ disk' = Empty
           \/ 1 \in DOMAIN writes /\ disk' = writes[1].file
        /\ Gone
    BY <1>1, <1>11, CrashLeaves DEF IInv
  <2>2. QED
    BY <1>1, <2>1, GoneKeeps
<1>12. CASE Exit
  BY <1>1, <1>12, GoneKeeps DEF Exit
<1>13. CASE Stop \/ Start \/ ReadFile
  BY <1>1, <1>13, ServerKeeps
<1>14. CASE Restore
  BY <1>1, <1>14, RestoreKeeps
<1>15. CASE Pause \/ Tick
  <2>1. /\ UNCHANGED <<server, memory, disk, writes, loads, found, unlinking, failed>>
        /\ UNCHANGED <<made, removed, answered, archived, over, settled>>
    BY <1>15 DEF Pause, Tick, process, history
  <2>2. QED
    BY <1>1, <2>1, StutterKeeps
<1>16. CASE UNCHANGED vars
  <2>1. /\ UNCHANGED <<server, memory, disk, writes, loads, found, unlinking, failed>>
        /\ UNCHANGED <<made, removed, answered, archived, over, settled>>
    BY <1>16 DEF vars, process, world, history
  <2>2. QED
    BY <1>1, <2>1, StutterKeeps
<1>17. QED
  BY <1>2, <1>3, <1>4, <1>5, <1>6, <1>7, <1>8, <1>9, <1>10, <1>11, <1>12, <1>13,
     <1>14, <1>15, <1>16 DEF Next

\* The invariant of the initial state.
LEMMA InvInit ==
    ASSUME Init
    PROVE  IInv
<1>1. /\ server = "up" /\ memory = NoFile /\ disk = Empty /\ writes = <<>> /\ loads = <<>>
      /\ unlinking = FALSE /\ answered = {} /\ over = {} /\ removed = {} /\ made = 0
      /\ settled = [n \in Nums |-> 0]
  BY DEF Init
<1>2. \A j \in DOMAIN writes : FALSE
  BY <1>1
<1>3. SaneVersions
  BY <1>1, <1>2, SaneEmpty DEF SaneVersions
<1>4. Ordered /\ Awaited /\ Kept
  BY <1>1, <1>2 DEF Ordered, Awaited, Kept
<1>5. Ids
  BY <1>1, <1>2 DEF Ids, Answering
<1>6. Modes /\ LastWrite /\ FlushSaves
  BY <1>1 DEF Modes, LastWrite, FlushSaves, Running, Empty, NumsOf
<1>7. QED
  BY <1>3, <1>4, <1>5, <1>6, TypeInit DEF IInv

-----------------------------------------------------------------------------
(***************************************************************************)
(* What the properties of the runs rest on, for every number of timers,    *)
(* creates, faults and steps of the clock.                                 *)
(***************************************************************************)
\* The inductive invariant, and with it the four properties.
LEMMA InvHolds ==
    ASSUME Orderly
    PROVE  Spec => []IInv
<1>1. Init => IInv
  BY InvInit
<1>2. IInv /\ [Next]_vars => IInv'
  BY InvNext
<1>3. QED
  BY <1>1, <1>2, PTL DEF Spec

\* AnswersKept: a timer whose create has answered, and which has neither fired for good
\* nor been cancelled or archived, is on disk, and in memory once the server runs.
THEOREM AnswersKept ==
    ASSUME Orderly
    PROVE  Spec => []AnsweredKept
<1>1. IInv => AnsweredKept
  BY Implied
<1>2. QED
  BY <1>1, InvHolds, PTL

\* IdsStayUnique: no id is answered twice until the session is archived, through
\* evictions, failed writes and restarts.
THEOREM IdsStayUnique ==
    ASSUME Orderly
    PROVE  Spec => []IdsUnique
<1>1. IInv => IdsUnique
  BY Implied
<1>2. QED
  BY <1>1, InvHolds, PTL

\* NothingFiresTwice: a saved removal, and a saved next firing, is never undone by
\* an older write, a load or a restart.
THEOREM NothingFiresTwice ==
    ASSUME Orderly
    PROVE  Spec => []NothingRepeats
<1>1. IInv => NothingRepeats
  BY Implied
<1>2. QED
  BY <1>1, InvHolds, PTL

\* FlushIsComplete: when flush returns the disk says what memory says, but for the
\* timers of an archived session, whose deletion flush knows nothing of.
THEOREM FlushIsComplete ==
    ASSUME Orderly
    PROVE  Spec => []FlushSaves
<1>1. IInv => FlushSaves
  BY Implied
<1>2. QED
  BY <1>1, InvHolds, PTL
=============================================================================
