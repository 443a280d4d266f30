------------------------ MODULE SessionHistoryProofs ------------------------
(***************************************************************************)
(* Theorems about SessionHistory, for every value of its constants.        *)
(***************************************************************************)
EXTENDS SessionHistory, TLAPS, FiniteSetTheorems, SequenceTheorems, WellFoundedInduction

-----------------------------------------------------------------------------
(***************************************************************************)
(* Greatest numbers.                                                       *)
(***************************************************************************)
\* A set of numbers up to n has a greatest one.
LEMMA Greatest ==
    ASSUME NEW n \in Nat, NEW S, S \subseteq 0 .. n, S # {}
    PROVE  Max(S) \in S /\ \A x \in S : Max(S) >= x
<1> DEFINE T == {t \in Nat : n - t \in S}
<1>1. T \subseteq Nat
  OBVIOUS
<1>2. T # {}
  <2>1. PICK x \in S : TRUE
    OBVIOUS
  <2>2. n - x \in Nat /\ n - (n - x) = x
    OBVIOUS
  <2>3. QED
    BY <2>1, <2>2
<1>3. PICK t \in T : \A u \in T : ~ (<<u, t>> \in OpToRel(<, Nat))
  <2> HIDE DEF T
  <2>1. QED
    BY <1>1, <1>2, NatLessThanWellFounded, WFMin
<1>4. \A u \in T : ~(u < t)
  BY <1>3 DEF OpToRel
<1>5. n - t \in S /\ t \in Nat
  BY <1>3
<1>6. ASSUME NEW x \in S PROVE n - t >= x
  <2>1. x \in 0 .. n /\ n - x \in Nat /\ n - (n - x) = x
    OBVIOUS
  <2>2. n - x \in T
    BY <2>1
  <2>3. ~(n - x < t)
    BY <1>4, <2>2
  <2>4. QED
    BY <1>5, <2>1, <2>3
<1>7. \E m \in S : \A x \in S : m >= x
  BY <1>5, <1>6
<1>8. QED
  BY <1>7 DEF Max

-----------------------------------------------------------------------------
(***************************************************************************)
(* Sequences of rows.                                                      *)
(***************************************************************************)
\* The first n entries.
LEMMA FirstIs ==
    ASSUME NEW S, NEW s \in Seq(S), NEW n \in Nat
    PROVE  /\ First(s, n) \in Seq(S)
           /\ Len(First(s, n)) = Least(n, Len(s))
           /\ \A i \in 1 .. Least(n, Len(s)) : First(s, n)[i] = s[i]
<1>1. Least(n, Len(s)) \in 0 .. Len(s)
  BY LenProperties DEF Least
<1>2. \A i \in 1 .. Least(n, Len(s)) : s[i] \in S
  BY <1>1, ElementOfSeq
<1>3. QED
  BY <1>1, <1>2, SubSeqProperties DEF First

\* A part of a sequence that lies within it.
LEMMA PartIs ==
    ASSUME NEW S, NEW s \in Seq(S), NEW m \in Nat \ {0}, NEW n \in Nat, n <= Len(s)
    PROVE  SubSeq(s, m, n) \in Seq(S)
<1>1. \A i \in m .. n : s[i] \in S
  BY ElementOfSeq
<1>2. QED
  BY <1>1, SubSeqProperties

\* What follows the first n entries.
LEMMA FromIs ==
    ASSUME NEW S, NEW s \in Seq(S), NEW n \in Nat
    PROVE  From(s, n) \in Seq(S)
BY PartIs, LenProperties DEF From

\* A sequence without its last entry.
LEMMA FrontIs ==
    ASSUME NEW S, NEW s \in Seq(S), s # <<>>
    PROVE  Front(s) \in Seq(S)
<1>1. Len(s) \in Nat \ {0}
  BY EmptySeq, LenProperties
<1>2. Len(s) - 1 \in Nat /\ Len(s) - 1 <= Len(s)
  BY <1>1
<1>3. QED
  BY <1>2, PartIs DEF Front

\* A function on 1 .. n is a sequence.
LEMMA Tabulated ==
    ASSUME NEW S, NEW n \in Nat, NEW f \in [1 .. n -> S]
    PROVE  f \in Seq(S) /\ Len(f) = n
<1>1. f \in Seq(S)
  OBVIOUS
<1>2. QED
  BY <1>1, LenProperties

\* The ids of rows.
LEMMA IdsTyped ==
    ASSUME NEW rows \in Seq(Row)
    PROVE  IdsOf(rows) \in Seq(Ids)
<1>1. DOMAIN rows = 1 .. Len(rows) /\ Len(rows) \in Nat
  BY LenProperties
<1>2. ASSUME NEW i \in 1 .. Len(rows) PROVE rows[i].id \in Ids
  <2>1. rows[i] \in Row
    BY ElementOfSeq
  <2>2. QED
    BY <2>1 DEF Row
<1>3. IdsOf(rows) \in [1 .. Len(rows) -> Ids]
  BY <1>1, <1>2 DEF IdsOf
<1>4. QED
  BY <1>1, <1>3, Tabulated

\* Rows as they are now.
LEMMA NowTyped ==
    ASSUME version \in [Ids -> Nat], NEW ids \in Seq(Ids)
    PROVE  Now(ids) \in Seq(Row) /\ Len(Now(ids)) = Len(ids)
<1>1. DOMAIN ids = 1 .. Len(ids) /\ Len(ids) \in Nat
  BY LenProperties
<1>2. \A i \in 1 .. Len(ids) : [id |-> ids[i], ver |-> version[ids[i]]] \in Row
  BY ElementOfSeq DEF Row
<1>3. Now(ids) \in [1 .. Len(ids) -> Row]
  BY <1>1, <1>2 DEF Now
<1>4. QED
  BY <1>1, <1>3, Tabulated

\* The cutoff lies within the history.
LEMMA CutoffWithin ==
    ASSUME NEW ids \in Seq(Ids)
    PROVE  Cutoff(ids) \in 0 .. Len(ids)
<1> DEFINE S == {0} \cup {i \in DOMAIN ids : ids[i] \in Results}
<1>1. DOMAIN ids = 1 .. Len(ids) /\ Len(ids) \in Nat
  BY LenProperties
<1>2. S \subseteq 0 .. Len(ids) /\ S # {}
  BY <1>1
<1>3. Max(S) \in S
  <2> HIDE DEF S
  <2> QED
    BY <1>1, <1>2, Greatest
<1>4. Cutoff(ids) = Max(S)
  BY DEF Cutoff
<1>5. QED
  BY <1>2, <1>3, <1>4

\* The greater of two numbers.
LEMMA GreaterWithin ==
    ASSUME NEW n \in Nat, NEW a \in 0 .. n, NEW b \in 0 .. n
    PROVE  Max({a, b}) \in 0 .. n
<1>1. {a, b} \subseteq 0 .. n /\ {a, b} # {}
  OBVIOUS
<1>2. Max({a, b}) \in {a, b}
  BY <1>1, Greatest
<1>3. QED
  BY <1>1, <1>2
-----------------------------------------------------------------------------
(***************************************************************************)
(* The invariant.                                                          *)
(***************************************************************************)
\* Row i was written for one of the first n commits, and no later one dropped it.
KeepsRow(commits, n, i) ==
    \E j \in 1 .. n :
        /\ \E w \in commits[j].wrote : w[1] = i
        /\ \A k \in j .. n : commits[k].count >= i

\* The first n commits hold a history of `count` rows.
Holds(commits, n, count) ==
    /\ n \in 1 .. Len(commits) /\ commits[n].count = count
    /\ \A i \in 1 .. count : KeepsRow(commits, n, i)
Held(ref) == ref.gen \in Gens /\ Holds(generations[ref.gen], ref.bytes, ref.count)

\* No history counts more rows as frozen than it has.
FrozenWithin ==
    /\ writer.frozen <= Len(writer.rows)
    /\ cache.frozen <= Len(cache.rows)
    /\ writer.new.frozen <= Len(writer.new.rows)

\* The head on disk is the one in memory, until a newer one is published.
HotAgrees == hot.ref = IF writer.step = "retire" THEN HeadOf(writer.new) ELSE reference

\* Only a history without a head is written in the small format.
SmallAgrees == writer.step \in {"whole", "log", "hot"} => reference = NoReference

\* So is the one the journal's cache has.
CacheAgrees ==
    IF writer.step = "retire" THEN cache = writer.new
    ELSE cache # Head0 => reference # NoReference /\ HeadOf(cache) = reference

\* The heads can be read.
HeadsHeld ==
    /\ reference # NoReference => Held(reference)
    /\ writer.step \in {"publish", "retire"} => Held(HeadOf(writer.new))

\* What a failed publication removes is not the generation of the head.
NewApart == writer.step = "publish" /\ writer.new.gen = reference.gen
                => writer.new.gen = cache.gen

\* Generations a crash left behind.
Leaked == {g \in Gens :
              /\ generations[g] # <<>> /\ g # reference.gen
              /\ writer.step \in {"publish", "retire"} => g # writer.new.gen}
LeaksCounted == faults <= MaxFaults /\ Cardinality(Leaked) <= faults

HeadInv ==
    /\ FrozenWithin /\ HotAgrees /\ SmallAgrees /\ CacheAgrees
    /\ HeadsHeld /\ NewApart /\ LeaksCounted

\* The save under way is the first of the queue.
RunningFirst == writer.step # "idle" => requests # <<>>

IInv == TypeOK /\ RunningFirst /\ HeadInv

-----------------------------------------------------------------------------
(***************************************************************************)
(* Commits.                                                                *)
(***************************************************************************)
\* What was written last for a row, where something was.
LEMMA LastWrite ==
    ASSUME NEW commits \in Seq(Commit), NEW n \in 1 .. Len(commits), NEW i,
           Writes(commits, n, i) # {}
    PROVE  /\ Max(Writes(commits, n, i)) \in 1 .. n
           /\ \E w \in commits[Max(Writes(commits, n, i))].wrote : w[1] = i
           /\ \A j \in Writes(commits, n, i) : Max(Writes(commits, n, i)) >= j
<1> DEFINE S == Writes(commits, n, i)
<1>1. Len(commits) \in Nat /\ Least(n, Len(commits)) = n
  BY LenProperties DEF Least
<1>2. S = {j \in 1 .. n : \E w \in commits[j].wrote : w[1] = i}
  BY <1>1 DEF Writes
<1>3. S \subseteq 0 .. n /\ n \in Nat /\ S # {}
  BY <1>2
<1>4. Max(S) \in S /\ \A x \in S : Max(S) >= x
  <2> HIDE DEF S
  <2> QED
    BY <1>3, Greatest
<1>5. QED
  BY <1>2, <1>4

\* A row is kept if no commit since it was written last dropped it.
LEMMA KeepsRowIs ==
    ASSUME NEW commits \in Seq(Commit), NEW n \in 1 .. Len(commits), NEW i
    PROVE  KeepsRow(commits, n, i) <=>
              /\ Writes(commits, n, i) # {}
              /\ \A j \in Max(Writes(commits, n, i)) .. n : commits[j].count >= i
<1>1. Len(commits) \in Nat /\ Least(n, Len(commits)) = n
  BY LenProperties DEF Least
<1>2. Writes(commits, n, i) = {j \in 1 .. n : \E w \in commits[j].wrote : w[1] = i}
  BY <1>1 DEF Writes
<1>3. ASSUME KeepsRow(commits, n, i)
      PROVE  /\ Writes(commits, n, i) # {}
             /\ \A j \in Max(Writes(commits, n, i)) .. n : commits[j].count >= i
  <2>1. PICK j \in 1 .. n : /\ \E w \in commits[j].wrote : w[1] = i
                            /\ \A k \in j .. n : commits[k].count >= i
    BY <1>3 DEF KeepsRow
  <2>2. j \in Writes(commits, n, i)
    BY <1>2, <2>1
  <2>3. Max(Writes(commits, n, i)) >= j /\ Max(Writes(commits, n, i)) \in 1 .. n
    BY <2>2, LastWrite
  <2>4. QED
    BY <2>1, <2>2, <2>3
<1>4. ASSUME Writes(commits, n, i) # {},
             \A j \in Max(Writes(commits, n, i)) .. n : commits[j].count >= i
      PROVE  KeepsRow(commits, n, i)
  BY <1>4, LastWrite DEF KeepsRow
<1>5. QED
  BY <1>3, <1>4

\* A head can be read if its generation holds the history.
LEMMA ReadableIs ==
    ASSUME generations \in [Gens -> Seq(Commit)], NEW ref \in Reference
    PROVE  Readable(ref) <=> Held(ref)
<1>1. CASE ref.gen \notin Gens
  BY <1>1 DEF Readable, Held
<1>2. CASE ref.gen \in Gens
  <2> DEFINE commits == generations[ref.gen]
  <2>1. commits \in Seq(Commit)
    BY <1>2
  <2>2. DOMAIN commits = 1 .. Len(commits)
    BY <2>1, LenProperties
  <2>3. CASE ref.bytes \notin 1 .. Len(commits)
    BY <2>2, <2>3 DEF Readable, Held, Holds
  <2>4. CASE ref.bytes \in 1 .. Len(commits)
    <3>1. \A i \in 1 .. ref.count :
             KeepsRow(commits, ref.bytes, i) <=>
                /\ Writes(commits, ref.bytes, i) # {}
                /\ \A j \in Max(Writes(commits, ref.bytes, i)) .. ref.bytes :
                      commits[j].count >= i
      <4> HIDE DEF commits
      <4> QED
        BY <2>1, <2>4, KeepsRowIs
    <3>2. QED
      BY <1>2, <2>2, <2>4, <3>1 DEF Readable, Held, Holds
  <2>5. QED
    BY <2>3, <2>4
<1>3. QED
  BY <1>1, <1>2

\* The head of a generation with the same first commits holds the same.
LEMMA HoldsSame ==
    ASSUME NEW c \in Seq(Commit), NEW d \in Seq(Commit), NEW n \in Nat, NEW count,
           Holds(c, n, count), Len(d) >= n, \A k \in 1 .. n : d[k] = c[k]
    PROVE  Holds(d, n, count)
<1>1. Len(c) \in Nat /\ Len(d) \in Nat
  BY LenProperties
<1>2. n \in 1 .. Len(d) /\ d[n] = c[n]
  BY <1>1 DEF Holds
<1>3. ASSUME NEW i \in 1 .. count PROVE KeepsRow(d, n, i)
  <2>1. PICK j \in 1 .. n : /\ \E w \in c[j].wrote : w[1] = i
                            /\ \A k \in j .. n : c[k].count >= i
    BY DEF Holds, KeepsRow
  <2>2. \A k \in j .. n : d[k] = c[k]
    OBVIOUS
  <2>3. QED
    BY <2>1, <2>2 DEF KeepsRow
<1>4. QED
  BY <1>2, <1>3 DEF Holds

\* A commit after the head's holds what it writes and what the head held.
LEMMA HoldsAppended ==
    ASSUME NEW c \in Seq(Commit), NEW prev \in JournalCache, NEW rows \in Seq(Row),
           \/ prev.bytes = 0 /\ prev.rows = <<>>
           \/ Holds(c, prev.bytes, Len(prev.rows))
    PROVE  LET d == Append(First(c, prev.bytes), Written(prev, rows))
           IN /\ d \in Seq(Commit)
              /\ Len(d) = prev.bytes + 1
              /\ \A k \in 1 .. prev.bytes : d[k] = c[k]
              /\ Holds(d, prev.bytes + 1, Len(rows))
<1> DEFINE n == prev.bytes
           new == Written(prev, rows)
           d == Append(First(c, n), new)
<1>1. /\ n \in Nat /\ Len(c) \in Nat /\ Len(rows) \in Nat /\ DOMAIN rows = 1 .. Len(rows)
      /\ prev.rows \in Seq(Row) /\ Len(prev.rows) \in Nat
  BY LenProperties DEF JournalCache
<1>2. Least(n, Len(c)) = n
  BY <1>1 DEF Least, Holds
<1>3. First(c, n) \in Seq(Commit) /\ Len(First(c, n)) = n /\ \A k \in 1 .. n : First(c, n)[k] = c[k]
  BY <1>1, <1>2, FirstIs
<1>4. new \in Commit
  <2>1. \A i \in DOMAIN rows : i \in Nat /\ rows[i] \in Row
    BY <1>1, ElementOfSeq
  <2>2. new.wrote \in SUBSET (Nat \X Row)
    BY <2>1 DEF Written
  <2>3. QED
    BY <1>1, <2>2 DEF Written, Commit
<1>5. /\ d \in Seq(Commit) /\ Len(d) = n + 1 /\ d[n + 1] = new
      /\ \A k \in 1 .. n : d[k] = First(c, n)[k]
  BY <1>3, <1>4, AppendProperties
<1>6. \A k \in 1 .. n : d[k] = c[k]
  BY <1>3, <1>5
<1>7. /\ new.count = Len(rows)
       /\ \A i \in 1 .. Len(rows) :
             i > Len(prev.rows) \/ prev.rows[i] # rows[i] => <<i, rows[i]>> \in new.wrote
  BY <1>1 DEF Written
<1>8. ASSUME NEW i \in 1 .. Len(rows) PROVE KeepsRow(d, n + 1, i)
  <2> HIDE DEF d, new
  <2>1. d[n + 1].count >= i
    BY <1>1, <1>5, <1>7
  <2>2. CASE i > Len(prev.rows) \/ prev.rows[i] # rows[i]
    <3>1. <<i, rows[i]>> \in d[n + 1].wrote
      BY <1>5, <1>7, <2>2
    <3>2. \E w \in d[n + 1].wrote : w[1] = i
      BY <3>1
    <3>3. n + 1 \in 1 .. n + 1 /\ \A k \in n + 1 .. n + 1 : d[k].count >= i
      BY <1>1, <2>1
    <3>4. QED
      BY <3>2, <3>3 DEF KeepsRow
  <2>3. CASE i <= Len(prev.rows)
    <3>1. Len(prev.rows) # 0
      BY <2>3
    <3>2. Holds(c, n, Len(prev.rows))
      BY <3>1
    <3>3. i \in 1 .. Len(prev.rows)
      BY <1>1, <2>3
    <3>4. PICK j \in 1 .. n : /\ \E w \in c[j].wrote : w[1] = i
                              /\ \A k \in j .. n : c[k].count >= i
      BY <3>2, <3>3 DEF Holds, KeepsRow
    <3>5. ASSUME NEW k \in j .. n + 1 PROVE d[k].count >= i
      <4>1. CASE k = n + 1
        BY <2>1, <4>1
      <4>2. CASE k # n + 1
        <5>1. n \in Nat /\ j \in 1 .. n
          BY <1>1
        <5>2. k \in j .. n /\ k \in 1 .. n
          BY <4>2, <5>1
        <5>3. d[k] = c[k] /\ c[k].count >= i
          BY <1>6, <3>4, <5>2
        <5>4. QED
          BY <5>3
      <4>3. QED
        BY <4>1, <4>2
    <3>6. j \in 1 .. n + 1 /\ d[j] = c[j]
      BY <1>1, <1>6
    <3>7. QED
      BY <3>4, <3>5, <3>6 DEF KeepsRow
  <2>4. QED
    BY <1>1, <2>2, <2>3
<1>9. Holds(d, n + 1, Len(rows))
  <2> HIDE DEF d, new
  <2>1. n + 1 \in 1 .. Len(d) /\ d[n + 1].count = Len(rows)
    BY <1>1, <1>5, <1>7
  <2>2. QED
    BY <1>8, <2>1 DEF Holds
<1>10. QED
  BY <1>5, <1>6, <1>9

\* The rows of a head that can be read.
LEMMA RowsTyped ==
    ASSUME generations \in [Gens -> Seq(Commit)], NEW ref \in Reference, Held(ref)
    PROVE  RowsOfGeneration(ref) \in Seq(Row)
<1> DEFINE commits == generations[ref.gen]
           At(i) == commits[Max(Writes(commits, ref.bytes, i))].wrote
           row(i) == (CHOOSE w \in At(i) : w[1] = i)[2]
<1>1. /\ commits \in Seq(Commit) /\ ref.bytes \in 1 .. Len(commits) /\ ref.count \in Nat
      /\ \A i \in 1 .. ref.count : KeepsRow(commits, ref.bytes, i)
  BY DEF Held, Holds, Reference
<1>2. ASSUME NEW i \in 1 .. ref.count PROVE row(i) \in Row
  <2>1. Writes(commits, ref.bytes, i) # {}
    <3> HIDE DEF commits
    <3> QED
      BY <1>1, KeepsRowIs
  <2>2. PICK j \in 1 .. ref.bytes : /\ j = Max(Writes(commits, ref.bytes, i))
                                    /\ \E w \in commits[j].wrote : w[1] = i
    <3> HIDE DEF commits
    <3> QED
      BY <1>1, <2>1, LastWrite
  <2>3. commits[j] \in Commit
    <3>1. j \in 1 .. Len(commits)
      BY <1>1, <2>2, LenProperties
    <3>2. QED
      BY <1>1, <3>1, ElementOfSeq
  <2>4. At(i) \in SUBSET (Nat \X Row) /\ \E w \in At(i) : w[1] = i
    BY <2>2, <2>3 DEF Commit
  <2>5. (CHOOSE w \in At(i) : w[1] = i) \in Nat \X Row
    <3> HIDE DEF At
    <3> QED
      BY <2>4
  <2>6. QED
    BY <2>5
<1>3. RowsOfGeneration(ref) = [i \in 1 .. ref.count |-> row(i)]
  BY DEF RowsOfGeneration
<1>4. RowsOfGeneration(ref) \in [1 .. ref.count -> Row]
  <2> HIDE DEF row
  <2> QED
    BY <1>2, <1>3
<1>5. QED
  BY <1>1, <1>4, Tabulated

\* What a load returns.
LEMMA LoadsTyped ==
    ASSUME generations \in [Gens -> Seq(Commit)],
           hot \in [frozen : Nat, tail : Seq(Row), ref : Reference],
           hot.ref # NoReference => Held(hot.ref),
           NEW rows \in Seq(Row)
    PROVE  /\ Loads(rows) \in Seq(Row)
           /\ LoadsFrozen(rows) \in Nat
<1>1. hot.frozen \in Nat /\ hot.tail \in Seq(Row) /\ hot.ref \in Reference
  OBVIOUS
<1>2. Len(rows) \in Nat
  BY LenProperties
<1>3. CASE hot.ref # NoReference
  BY <1>1, <1>3, RowsTyped DEF Loads, LoadsFrozen, Reference
<1>4. CASE hot.ref = NoReference /\ hot.frozen = 0
  BY <1>1, <1>4 DEF Loads, LoadsFrozen
<1>5. CASE hot.ref = NoReference /\ hot.frozen > 0
  <2>1. ASSUME NEW n \in Nat PROVE rows \o From(hot.tail, n) \in Seq(Row)
    BY <1>1, FromIs, ConcatProperties
  <2>2. (IF Len(rows) > hot.frozen THEN Len(rows) - hot.frozen ELSE 0) \in Nat
    BY <1>1, <1>2
  <2>3. WithLog(hot.tail, hot.frozen, rows) \in Seq(Row)
    BY <2>1, <2>2 DEF WithLog
  <2>4. Loads(rows) = WithLog(hot.tail, hot.frozen, rows) /\ LoadsFrozen(rows) = Len(rows)
    BY <1>1, <1>5 DEF Loads, LoadsFrozen
  <2>5. QED
    BY <1>2, <2>3, <2>4
<1>6. QED
  BY <1>1, <1>3, <1>4, <1>5

-----------------------------------------------------------------------------
(***************************************************************************)
(* The session and its queue.                                              *)
(***************************************************************************)
\* The heads depend on nothing else.
LEMMA HeadsApart ==
    HeadInv /\ UNCHANGED <<writer, reference, cache, hot, generations, faults>> => HeadInv'
BY DEF HeadInv, FrozenWithin, HotAgrees, SmallAgrees, CacheAgrees, HeadsHeld, NewApart,
       LeaksCounted, Leaked, Held, HeadOf

\* An ordinary save.
LEMMA OrdinaryTyped ==
    ASSUME NEW c \in BOOLEAN
    PROVE  Ordinary(c) \in Request
<1>1. <<>> \in Seq(Ids)
  BY EmptySeq
<1>2. QED
  BY <1>1 DEF Ordinary, Request

\* A save that is queued.
LEMMA EnqueuedTyped ==
    ASSUME NEW q \in Seq(Request), NEW r \in Request
    PROVE  Enqueued(q, r) \in Seq(Request)
<1>1. Append(q, r) \in Seq(Request)
  BY AppendProperties
<1>2. q # <<>> => Append(Front(q), r) \in Seq(Request)
  BY FrontIs, AppendProperties
<1>3. QED
  BY <1>1, <1>2 DEF Enqueued

\* The queue is not empty then.
LEMMA EnqueuedNonempty ==
    ASSUME NEW q \in Seq(Request), NEW r \in Request
    PROVE  Enqueued(q, r) # <<>>
<1>1. Append(q, r) # <<>>
  BY AppendProperties
<1>2. q # <<>> => Append(Front(q), r) # <<>>
  BY FrontIs, AppendProperties
<1>3. QED
  BY <1>1, <1>2 DEF Enqueued

\* What the session and its saves look like after a step of theirs.
SessionTyped ==
    /\ live \in Seq(Ids) /\ version \in [Ids -> Nat]
    /\ debounced \in BOOLEAN /\ requested \in Nat /\ requests \in Seq(Request)
    /\ used \in 0 .. MaxRows /\ edits \in Nat /\ reverts \in Nat /\ spoiled \in BOOLEAN

\* A save under way stays in the queue.
QueueStays == requests # <<>> => requests' # <<>>

\* A save of the session.
LEMMA SaveTyped ==
    ASSUME TypeOK, live' \in Seq(Ids), Save \/ SaveImmediate
    PROVE  /\ requested' \in Nat /\ debounced' \in BOOLEAN /\ requests' \in Seq(Request)
           /\ QueueStays
<1>1. Len(live') \in Nat
  BY LenProperties
<1>2. requests \in Seq(Request) /\ Ordinary(FALSE) \in Request
  BY OrdinaryTyped DEF TypeOK
<1>3. CASE Save
  BY <1>1, <1>2, <1>3 DEF Save, QueueStays
<1>4. CASE SaveImmediate
  <2>1. /\ Append(requests, Ordinary(FALSE)) \in Seq(Request)
        /\ Append(requests, Ordinary(FALSE)) # <<>>
    BY <1>2, AppendProperties
  <2>2. QED
    BY <1>1, <1>4, <2>1 DEF SaveImmediate, QueueStays
<1>5. QED
  BY <1>3, <1>4

\* A row more.
LEMMA GrowTyped ==
    ASSUME TypeOK, Grow
    PROVE  SessionTyped' /\ QueueStays
<1>1. used' \in 0 .. MaxRows /\ used + 1 \in Ids
  BY SessionAssumption DEF TypeOK, Grow, Ids
<1>2. live' \in Seq(Ids)
  BY <1>1, AppendProperties DEF TypeOK, Grow
<1>3. /\ requested' \in Nat /\ debounced' \in BOOLEAN /\ requests' \in Seq(Request)
      /\ QueueStays
  BY <1>2, SaveTyped DEF Grow
<1>4. QED
  BY <1>1, <1>2, <1>3 DEF TypeOK, Grow, SessionTyped, history

\* Rows change.
LEMMA VersionTyped ==
    ASSUME TypeOK, NEW i \in DOMAIN live
    PROVE  [version EXCEPT ![live[i]] = @ + 1] \in [Ids -> Nat]
<1>1. live[i] \in Ids /\ version \in [Ids -> Nat]
  BY ElementOfSeq, LenProperties DEF TypeOK
<1>2. QED
  BY <1>1

\* A row of the running turn changes.
LEMMA MutateTyped ==
    ASSUME TypeOK, NEW i \in DOMAIN live, Mutate(i)
    PROVE  SessionTyped' /\ QueueStays
<1>1. version' \in [Ids -> Nat]
  BY VersionTyped DEF Mutate
<1>2. live' \in Seq(Ids)
  BY DEF Mutate, TypeOK
<1>3. /\ requested' \in Nat /\ debounced' \in BOOLEAN /\ requests' \in Seq(Request)
      /\ QueueStays
  BY <1>2, SaveTyped DEF Mutate
<1>4. edits' \in Nat /\ reverts' \in Nat /\ used' \in 0 .. MaxRows
  BY DEF Mutate, TypeOK
<1>5. spoiled' \in BOOLEAN
  BY DEF Mutate
<1>6. QED
  BY <1>1, <1>2, <1>3, <1>4, <1>5 DEF SessionTyped

\* Any row is edited.
LEMMA EditTyped ==
    ASSUME TypeOK, NEW i \in DOMAIN live, SaveHistoryEdits(i)
    PROVE  SessionTyped' /\ QueueStays
<1>1. version' \in [Ids -> Nat]
  BY VersionTyped DEF SaveHistoryEdits
<1>2. i \in Nat /\ Len(live) \in Nat
  BY LenProperties DEF TypeOK
<1>3. [Ordinary(FALSE) EXCEPT !.edited = i] \in Request
  BY <1>2, OrdinaryTyped DEF Request
<1>4. requests' \in Seq(Request) /\ QueueStays
  <2>1. PICK r \in Request : r = [Ordinary(FALSE) EXCEPT !.edited = i]
    BY <1>3
  <2>2. requests' = Append(requests, r) /\ requests \in Seq(Request)
    BY <2>1 DEF SaveHistoryEdits, TypeOK
  <2>3. Append(requests, r) \in Seq(Request) /\ Append(requests, r) # <<>>
    BY <2>2, AppendProperties
  <2>4. QED
    BY <2>2, <2>3 DEF QueueStays
<1>5. requested' \in Nat /\ edits' \in Nat
  BY <1>2 DEF SaveHistoryEdits, TypeOK
<1>6. debounced' \in BOOLEAN
  BY DEF SaveHistoryEdits
<1>7. QED
  BY <1>1, <1>4, <1>5, <1>6 DEF SaveHistoryEdits, TypeOK, SessionTyped, history

\* A revert, its copies of the arrays included.
LEMMA RevertTyped ==
    ASSUME TypeOK, NEW n \in 0 .. Len(live), Revert(n)
    PROVE  SessionTyped' /\ QueueStays
<1> DEFINE kept == [k \in DOMAIN requests |->
                       IF requests[k].own THEN requests[k]
                       ELSE [requests[k] EXCEPT !.own = TRUE, !.ids = live]]
           copy == [Ordinary(FALSE) EXCEPT !.own = TRUE, !.ids = live']
           r == IF n < requested THEN copy ELSE Ordinary(TRUE)
<1>1. /\ live \in Seq(Ids) /\ requests \in Seq(Request) /\ Len(live) \in Nat /\ n \in Nat
      /\ Len(requests) \in Nat /\ DOMAIN requests = 1 .. Len(requests)
  BY LenProperties DEF TypeOK
<1>2. live' \in Seq(Ids)
  BY <1>1, FirstIs DEF Revert
<1>3. ASSUME NEW k \in 1 .. Len(requests) PROVE kept[k] \in Request
  <2>1. requests[k] \in Request
    BY <1>1, ElementOfSeq
  <2>2. [requests[k] EXCEPT !.own = TRUE, !.ids = live] \in Request
    BY <1>1, <2>1 DEF Request
  <2>3. QED
    BY <1>1, <2>1, <2>2
<1>4. kept \in Seq(Request)
  <2>1. kept \in [1 .. Len(requests) -> Request]
    <3>1. DOMAIN kept = 1 .. Len(requests) /\ kept = [k \in DOMAIN kept |-> kept[k]]
      BY <1>1
    <3>2. QED
      BY <1>3, <3>1
  <2>2. QED
    BY <1>1, <2>1, Tabulated
<1>5. r \in Request
  <2>1. Ordinary(FALSE) \in Request /\ Ordinary(TRUE) \in Request
    BY OrdinaryTyped
  <2>2. QED
    BY <1>2, <2>1 DEF Request
<1>6. requests' \in Seq(Request) /\ QueueStays
  <2>1. requests' = Enqueued(kept, r)
    BY DEF Revert
  <2>2. QED
    BY <1>4, <1>5, <2>1, EnqueuedTyped, EnqueuedNonempty DEF QueueStays
<1>7. requested' \in Nat /\ reverts' \in Nat
  <2>1. requested' = n /\ reverts' = reverts + 1
    BY DEF Revert
  <2>2. reverts \in Nat
    BY DEF TypeOK
  <2>3. QED
    BY <1>1, <2>1, <2>2
<1>8. debounced' \in BOOLEAN
  BY DEF Revert
<1>9. QED
  BY <1>2, <1>6, <1>7, <1>8 DEF Revert, TypeOK, SessionTyped, history

\* A save of something else, and the end of a debounce.
LEMMA QueueTyped ==
    ASSUME TypeOK, SaveAgain \/ DebounceEnds
    PROVE  SessionTyped' /\ QueueStays
<1>1. CASE SaveAgain
  <2>1. live' \in Seq(Ids)
    BY <1>1 DEF SaveAgain, TypeOK, session
  <2>2. /\ requested' \in Nat /\ debounced' \in BOOLEAN /\ requests' \in Seq(Request)
        /\ QueueStays
    BY <1>1, <2>1, SaveTyped DEF SaveAgain
  <2>3. QED
    BY <1>1, <2>1, <2>2 DEF SaveAgain, TypeOK, SessionTyped, session, history
<1>2. CASE DebounceEnds
  <2>1. requests' \in Seq(Request) /\ QueueStays
    BY <1>2, OrdinaryTyped, EnqueuedTyped, EnqueuedNonempty DEF DebounceEnds, TypeOK, QueueStays
  <2>2. QED
    BY <1>2, <2>1 DEF DebounceEnds, TypeOK, SessionTyped, session, history
<1>3. QED
  BY <1>1, <1>2

\* What the session does leaves the files alone.
LEMMA SessionSteps ==
    ASSUME IInv, SessionStep
    PROVE  IInv'
<1>1. UNCHANGED <<writer, memory, disk, faults, saved, attempts>>
  BY DEF SessionStep, Grow, Mutate, SaveHistoryEdits, Revert, SaveAgain, DebounceEnds, history
<1>2. SessionTyped' /\ QueueStays
  BY GrowTyped, MutateTyped, EditTyped, RevertTyped, QueueTyped DEF SessionStep, IInv
<1>3. TypeOK'
  BY <1>1, <1>2 DEF IInv, TypeOK, SessionTyped, memory, disk
<1>4. HeadInv'
  BY <1>1, HeadsApart DEF IInv, memory, disk
<1>5. RunningFirst'
  BY <1>1, <1>2 DEF IInv, RunningFirst, QueueStays
<1>6. QED
  BY <1>3, <1>4, <1>5 DEF IInv

-----------------------------------------------------------------------------
(***************************************************************************)
(* Saves in the small format.                                              *)
(***************************************************************************)
\* There are finitely many generations.
LEMMA GensFinite == IsFiniteSet(Gens) /\ Cardinality(Gens) = MaxFaults + 3
<1>1. MaxFaults + 3 \in Nat
  BY SessionAssumption
<1>2. QED
  BY <1>1, FS_Interval DEF Gens

\* Those a crash left behind can be counted.
LEMMA LeakedFinite == IsFiniteSet(Leaked) /\ Cardinality(Leaked) \in Nat
<1>1. Leaked \subseteq Gens
  BY DEF Leaked
<1>2. QED
  BY <1>1, GensFinite, FS_Subset, FS_CardinalityType

\* A step that publishes nothing and leaves the head on disk in its place.
LEMMA HeadsStay ==
    ASSUME TypeOK, HeadInv, writer.step \notin {"publish", "retire"},
           writer'.step \notin {"publish", "retire"},
           UNCHANGED <<reference, cache, generations>>, hot'.ref = hot.ref,
           faults' \in faults .. MaxFaults, FrozenWithin', SmallAgrees'
    PROVE  HeadInv'
<1>1. HotAgrees'
  BY DEF HeadInv, HotAgrees
<1>2. CacheAgrees'
  BY DEF HeadInv, CacheAgrees, HeadOf
<1>3. HeadsHeld'
  BY DEF HeadInv, HeadsHeld, Held
<1>4. NewApart'
  BY DEF NewApart
<1>5. LeaksCounted'
  <2>1. Leaked' = Leaked
    BY DEF Leaked
  <2>2. Cardinality(Leaked) \in Nat /\ Cardinality(Leaked) <= faults /\ faults \in Nat
    BY LeakedFinite DEF HeadInv, LeaksCounted, TypeOK
  <2>3. faults' \in Nat /\ faults <= faults' /\ faults' <= MaxFaults
    BY <2>2, SessionAssumption
  <2>4. QED
    BY <2>1, <2>2, <2>3 DEF LeaksCounted
<1>6. QED
  BY <1>1, <1>2, <1>3, <1>4, <1>5 DEF HeadInv

\* No head and no commit.
LEMMA Head0Typed == Head0 \in JournalCache /\ NoReference \in Reference /\ Idle \in Writer
<1>1. <<>> \in Seq(Row)
  BY EmptySeq
<1>2. QED
  BY <1>1 DEF Head0, JournalCache, NoReference, Reference, Idle, Writer

\* The rows a save freezes are rows it has.
LEMMA CountWithin ==
    ASSUME frozen \in Nat, NEW ids \in Seq(Ids), NEW repair \in BOOLEAN,
           ~(repair /\ frozen > Len(ids))
    PROVE  (IF repair THEN frozen
            ELSE IF Rewrites(repair, Len(ids)) THEN Cutoff(ids)
            ELSE Max({frozen, Cutoff(ids)})) \in 0 .. Len(ids)
<1>1. Len(ids) \in Nat
  BY LenProperties
<1>2. Cutoff(ids) \in 0 .. Len(ids)
  BY CutoffWithin
<1>3. CASE repair
  BY <1>1, <1>3
<1>4. CASE ~repair /\ Rewrites(repair, Len(ids))
  BY <1>2, <1>4
<1>5. CASE ~repair /\ ~Rewrites(repair, Len(ids))
  <2>1. frozen \in 0 .. Len(ids)
    BY <1>1, <1>5 DEF Rewrites
  <2>2. Max({frozen, Cutoff(ids)}) \in 0 .. Len(ids)
    BY <1>1, <1>2, <2>1, GreaterWithin
  <2>3. QED
    BY <1>5, <2>2
<1>6. QED
  BY <1>3, <1>4, <1>5

\* A save begins, or the repair of an edit is dropped.
LEMMA StartWriteStep ==
    ASSUME IInv, StartWrite
    PROVE  IInv'
<1> DEFINE r == Head(requests)
           ids == IF r.own THEN r.ids ELSE live
           n == Len(ids)
           repair == r.edited # 0 /\ r.edited <= frozen
           count == IF repair THEN frozen
                    ELSE IF Rewrites(repair, n) THEN Cutoff(ids)
                    ELSE Max({frozen, Cutoff(ids)})
           w == [step |-> FirstStep(repair, n, count),
                 rows |-> Now(ids), shared |-> Unchanged(repair, n),
                 previous |-> frozen, frozen |-> count,
                 rewrite |-> Rewrites(repair, n), new |-> Head0]
<1>1. /\ requests \in Seq(Request) /\ requests # <<>> /\ live \in Seq(Ids)
      /\ frozen \in Nat /\ version \in [Ids -> Nat] /\ attempts \in SUBSET Seq(Ids)
  BY DEF StartWrite, IInv, TypeOK
<1>2. r \in Request /\ Tail(requests) \in Seq(Request)
  BY <1>1, HeadTailProperties
<1>3. ids \in Seq(Ids)
  BY <1>1, <1>2 DEF Request
<1>4. /\ writer.step = "idle"
      /\ UNCHANGED <<session, debounced, requested, memory, disk, faults, saved, spoiled>>
  BY DEF StartWrite
<1>5. CASE repair /\ frozen > n
  <2>1. requests' = Tail(requests) /\ UNCHANGED <<writer, attempts>>
    BY <1>5 DEF StartWrite
  <2>2. TypeOK'
    BY <1>2, <1>4, <2>1 DEF IInv, TypeOK, session, memory, disk
  <2>3. HeadInv'
    BY <1>4, <2>1, HeadsApart DEF IInv, memory, disk
  <2>4. RunningFirst'
    BY <1>4, <2>1 DEF RunningFirst
  <2>5. QED
    BY <2>2, <2>3, <2>4 DEF IInv
<1>6. CASE ~(repair /\ frozen > n)
  <2>1. writer' = w /\ attempts' = attempts \cup {ids} /\ requests' = requests
    BY <1>6 DEF StartWrite
  <2>2. count \in 0 .. n /\ n \in Nat
    <3>1. repair \in BOOLEAN
      OBVIOUS
    <3> HIDE DEF ids, repair
    <3>2. QED
      BY <1>1, <1>3, <1>6, <3>1, CountWithin, LenProperties
  <2>3. w.step \in {"whole", "log", "hot", "append"}
    BY DEF FirstStep
  <2>4. w.step \in {"whole", "log", "hot"} => reference = NoReference
    BY DEF FirstStep
  <2>5. Now(ids) \in Seq(Row) /\ Len(Now(ids)) = n
    <3> HIDE DEF ids
    <3> QED
      BY <1>1, <1>3, NowTyped
  <2>6. Unchanged(repair, n) \in Nat
    BY <1>1 DEF Unchanged
  <2>7. Rewrites(repair, n) \in BOOLEAN
    BY DEF Rewrites
  <2>8. w \in Writer
    <3> DEFINE first == FirstStep(repair, n, count)
               rows == Now(ids)
               shared == Unchanged(repair, n)
               rewrite == Rewrites(repair, n)
    <3>1. /\ first \in {"whole", "log", "hot", "append"} /\ rows \in Seq(Row)
          /\ shared \in Nat /\ rewrite \in BOOLEAN /\ count \in Nat
      BY <2>2, <2>3, <2>5, <2>6, <2>7
    <3>2. w = [step |-> first, rows |-> rows, shared |-> shared, previous |-> frozen,
               frozen |-> count, rewrite |-> rewrite, new |-> Head0]
      OBVIOUS
    <3> HIDE DEF w, first, rows, shared, rewrite, count
    <3>3. QED
      BY <1>1, <3>1, <3>2, Head0Typed DEF Writer
  <2>9. attempts' \in SUBSET Seq(Ids)
    BY <1>1, <1>3, <2>1
  <2>10. FrozenWithin'
    <3>1. w.frozen = count /\ w.rows = Now(ids) /\ w.new = Head0
      OBVIOUS
    <3>2. Head0.frozen <= Len(Head0.rows)
      BY EmptySeq DEF Head0
    <3>3. count <= Len(Now(ids))
      BY <2>2, <2>5
    <3>4. cache.frozen <= Len(cache.rows) /\ cache' = cache
      BY <1>4 DEF IInv, HeadInv, FrozenWithin, memory
    <3> HIDE DEF w, count, ids
    <3>5. QED
      BY <2>1, <3>1, <3>2, <3>3, <3>4 DEF FrozenWithin
  <2> HIDE DEF w, ids
  <2>11. TypeOK'
    BY <1>4, <2>1, <2>8, <2>9 DEF IInv, TypeOK, session, memory, disk
  <2>12. HeadInv'
    <3>1. SmallAgrees'
      BY <1>4, <2>1, <2>4 DEF SmallAgrees, memory
    <3>2. /\ UNCHANGED <<reference, cache, generations>> /\ hot' = hot /\ faults' = faults
      BY <1>4 DEF memory, disk
    <3>3. faults' \in faults .. MaxFaults
      BY <3>2, SessionAssumption DEF IInv, TypeOK, HeadInv, LeaksCounted
    <3>4. writer.step \notin {"publish", "retire"} /\ writer'.step \notin {"publish", "retire"}
      BY <1>4, <2>1, <2>3
    <3>5. QED
      BY <2>10, <3>1, <3>2, <3>3, <3>4, HeadsStay DEF IInv
  <2>13. RunningFirst'
    BY <1>1, <2>1 DEF RunningFirst
  <2>14. QED
    BY <2>11, <2>12, <2>13 DEF IInv
<1>7. QED
  BY <1>5, <1>6

\* Files a load can make something of.
Loadable ==
    /\ generations \in [Gens -> Seq(Commit)]
    /\ hot \in [frozen : Nat, tail : Seq(Row), ref : Reference]
    /\ hot.ref # NoReference => Held(hot.ref)
    /\ log.rows \in Seq(Row)

\* The next load.
LEMMA LoadedTyped == Loadable => Loaded \in Seq(Row)
BY LoadsTyped DEF Loadable, Loaded

\* The same after a step.
LEMMA LoadedTypedNext == Loadable' => (Loaded \in Seq(Row))'
BY LoadedTyped, PTL

\* The rows a save adds to the log.
LEMMA AddedTyped ==
    ASSUME TypeOK, FrozenWithin
    PROVE  Added \in Seq(Row)
<1>1. /\ writer.rows \in Seq(Row) /\ writer.previous + 1 \in Nat \ {0} /\ writer.frozen \in Nat
      /\ writer.frozen <= Len(writer.rows)
  BY DEF TypeOK, FrozenWithin, Writer
<1>2. QED
  BY <1>1, PartIs DEF Added

\* The save under way moves on.
LEMMA StepTyped ==
    ASSUME NEW w \in Writer, NEW step, step \in {"hot", "log"}
    PROVE  [w EXCEPT !.step = step] \in Writer
BY DEF Writer

\* The hot file is made whole.
LEMMA WriteWholeStep ==
    ASSUME IInv, WriteWhole
    PROVE  IInv'
<1>1. /\ writer \in Writer /\ writer.step = "whole" /\ writer.rows \in Seq(Row)
      /\ writer' = [writer EXCEPT !.step = "log"] /\ frozen' = 0
      /\ hot' = [frozen |-> 0, tail |-> writer.rows, ref |-> NoReference]
      /\ UNCHANGED <<threshold, session, queue, reference, cache, failures, log, generations,
                     faults, history>>
  BY DEF WriteWhole, IInv, TypeOK, Writer
<1>2. writer' \in Writer
  BY <1>1, StepTyped
<1>3. /\ writer'.step = "log" /\ writer'.frozen = writer.frozen /\ writer'.rows = writer.rows
      /\ writer'.new = writer.new
  BY <1>1 DEF Writer
<1>4. hot' \in [frozen : Nat, tail : Seq(Row), ref : Reference]
  BY <1>1, Head0Typed
<1>5. TypeOK'
  BY <1>1, <1>2, <1>4 DEF IInv, TypeOK, session, queue, history
<1>6. reference = NoReference /\ hot.ref = reference
  BY <1>1 DEF IInv, HeadInv, SmallAgrees, HotAgrees
<1>7. hot'.ref = hot.ref
  BY <1>1, <1>6
<1>8. SmallAgrees'
  BY <1>1, <1>6 DEF SmallAgrees
<1>9. FrozenWithin'
  BY <1>1, <1>3 DEF IInv, HeadInv, FrozenWithin
<1>10. faults' \in faults .. MaxFaults
  BY <1>1, SessionAssumption DEF IInv, TypeOK, HeadInv, LeaksCounted
<1>11. HeadInv'
  BY <1>1, <1>3, <1>7, <1>8, <1>9, <1>10, HeadsStay DEF IInv
<1>12. RunningFirst'
  BY <1>1 DEF IInv, RunningFirst, queue
<1>13. QED
  BY <1>5, <1>11, <1>12 DEF IInv

\* The log is replaced or extended.
LEMMA WriteLogStep ==
    ASSUME IInv, WriteLog
    PROVE  IInv'
<1>1. /\ writer \in Writer /\ writer.step = "log" /\ writer.rows \in Seq(Row)
      /\ writer.frozen \in Nat /\ log.rows \in Seq(Row)
      /\ writer' = [writer EXCEPT !.step = "hot"] /\ frozen' = writer.frozen
      /\ failures' = failures \ {"frozen"}
      /\ UNCHANGED <<threshold, session, queue, reference, cache, hot, generations, faults,
                     saved, attempts>>
  BY DEF WriteLog, IInv, TypeOK, Writer
<1>2. writer' \in Writer
  BY <1>1, StepTyped
<1>3. /\ writer'.step = "hot" /\ writer'.frozen = writer.frozen /\ writer'.rows = writer.rows
      /\ writer'.new = writer.new
  BY <1>1 DEF Writer
<1>4. log' \in [rows : Seq(Row), torn : BOOLEAN]
  <2>1. First(writer.rows, writer.frozen) \in Seq(Row)
    BY <1>1, FirstIs
  <2>2. Added \in Seq(Row)
    BY AddedTyped DEF IInv, HeadInv
  <2>3. From(Added, 1) \in Seq(Row)
    BY <2>2, FromIs
  <2>4. log.rows \o Added \in Seq(Row) /\ log.rows \o From(Added, 1) \in Seq(Row)
    BY <1>1, <2>2, <2>3, ConcatProperties
  <2>5. QED
    BY <2>1, <2>4 DEF WriteLog
<1>5. failures' \in SUBSET {"hot", "frozen"} /\ spoiled' \in BOOLEAN
  BY <1>1 DEF WriteLog, IInv, TypeOK
<1>6. TypeOK'
  BY <1>1, <1>2, <1>4, <1>5 DEF IInv, TypeOK, session, queue
<1>7. SmallAgrees'
  BY <1>1 DEF IInv, HeadInv, SmallAgrees
<1>8. FrozenWithin'
  BY <1>1, <1>3 DEF IInv, HeadInv, FrozenWithin
<1>9. faults' \in faults .. MaxFaults
  BY <1>1, SessionAssumption DEF IInv, TypeOK, HeadInv, LeaksCounted
<1>10. HeadInv'
  BY <1>1, <1>3, <1>7, <1>8, <1>9, HeadsStay DEF IInv
<1>11. RunningFirst'
  BY <1>1 DEF IInv, RunningFirst, queue
<1>12. QED
  BY <1>6, <1>10, <1>11 DEF IInv

\* Idle saves nothing.
LEMMA IdleWithin == Idle.step = "idle" /\ Idle.frozen <= Len(Idle.rows)
                       /\ Idle.new.frozen <= Len(Idle.new.rows)
<1>1. Len(<<>>) = 0
  BY EmptySeq
<1>2. QED
  BY <1>1 DEF Idle, Head0

\* The hot file is written and the save is answered.
LEMMA WriteHotStep ==
    ASSUME IInv, WriteHot
    PROVE  IInv'
<1>1. /\ writer \in Writer /\ writer.step = "hot" /\ writer.rows \in Seq(Row)
      /\ writer.frozen \in Nat
      /\ hot' = [frozen |-> writer.frozen, tail |-> From(writer.rows, writer.frozen),
                 ref |-> NoReference]
      /\ failures' = failures \ {"hot"} /\ writer' = Idle /\ requests' = Tail(requests)
      /\ saved' = Loaded' /\ attempts' = {}
      /\ UNCHANGED <<frozen, reference, cache, log, generations, threshold, session, debounced,
                     requested, spoiled, faults>>
  BY DEF WriteHot, Succeeds, Settles, IInv, TypeOK, Writer
<1>2. hot' \in [frozen : Nat, tail : Seq(Row), ref : Reference]
  <2>1. From(writer.rows, writer.frozen) \in Seq(Row)
    BY <1>1, FromIs
  <2>2. QED
    BY <1>1, <2>1, Head0Typed
<1>3. hot'.ref = NoReference
  BY <1>1
<1>4. /\ generations' \in [Gens -> Seq(Commit)] /\ log'.rows \in Seq(Row)
  BY <1>1 DEF IInv, TypeOK
<1>5. saved' \in Seq(Row)
  BY <1>1, <1>2, <1>3, <1>4, LoadedTypedNext DEF Loadable
<1>6. requests' \in Seq(Request)
  BY <1>1, HeadTailProperties DEF IInv, TypeOK, RunningFirst
<1>7. TypeOK'
  BY <1>1, <1>2, <1>5, <1>6, Head0Typed DEF IInv, TypeOK, session
<1>8. hot'.ref = hot.ref
  BY <1>1, <1>3 DEF IInv, HeadInv, SmallAgrees, HotAgrees
<1>9. SmallAgrees' /\ FrozenWithin'
  BY <1>1, IdleWithin DEF IInv, HeadInv, SmallAgrees, FrozenWithin
<1>10. faults' \in faults .. MaxFaults
  BY <1>1, SessionAssumption DEF IInv, TypeOK, HeadInv, LeaksCounted
<1>11. HeadInv'
  BY <1>1, <1>8, <1>9, <1>10, IdleWithin, HeadsStay DEF IInv
<1>12. RunningFirst'
  BY <1>1, IdleWithin DEF RunningFirst
<1>13. QED
  BY <1>7, <1>11, <1>12 DEF IInv

-----------------------------------------------------------------------------
(***************************************************************************)
(* Saves in the journal.                                                   *)
(***************************************************************************)
\* A generation that does not exist yet can be found.
LEMMA FreshIs ==
    ASSUME TypeOK, HeadInv, writer.step = "append"
    PROVE  /\ Fresh \in Gens /\ generations[Fresh] = <<>>
           /\ Fresh \notin {hot.ref.gen, reference.gen, cache.gen}
<1>1. \E g \in Gens : generations[g] = <<>> /\ g \notin {hot.ref.gen, reference.gen, cache.gen}
  <2> DEFINE bad == Leaked \cup {reference.gen}
  <2>1. SUFFICES ASSUME \A g \in Gens : \/ generations[g] # <<>>
                                        \/ g \in {hot.ref.gen, reference.gen, cache.gen}
                 PROVE  FALSE
    OBVIOUS
  <2>2. hot.ref = reference
    BY DEF HeadInv, HotAgrees
  <2>3. cache.gen \in Gens => cache.gen = reference.gen
    <3>1. CASE cache = Head0
      BY <3>1 DEF Head0, Gens
    <3>2. CASE cache # Head0
      BY <3>2 DEF HeadInv, CacheAgrees, HeadOf
    <3>3. QED
      BY <3>1, <3>2
  <2>4. Gens \subseteq bad
    BY <2>1, <2>2, <2>3 DEF Leaked
  <2>5. IsFiniteSet(bad) /\ Cardinality(bad) \in Nat /\ Cardinality(bad) <= Cardinality(Leaked) + 1
    BY LeakedFinite, FS_AddElement, FS_CardinalityType
  <2>6. Cardinality(Gens) <= Cardinality(bad)
    <3> HIDE DEF bad
    <3> QED
      BY <2>4, <2>5, FS_Subset
  <2>7. Cardinality(Leaked) <= faults /\ faults <= MaxFaults /\ faults \in Nat
    BY DEF HeadInv, LeaksCounted, TypeOK
  <2>8. MaxFaults \in Nat
    BY SessionAssumption
  <2>9. QED
    <3> HIDE DEF bad
    <3> QED
      BY <2>5, <2>6, <2>7, <2>8, GensFinite, LeakedFinite
<1>2. QED
  BY <1>1 DEF Fresh

\* What is committed is the history the save captured.
LEMMA CandidateIs ==
    ASSUME TypeOK, NEW prev \in JournalCache, prev.frozen <= Len(prev.rows), NEW gen \in Nat
    PROVE  /\ Candidate(prev, gen) \in JournalCache
           /\ Candidate(prev, gen).gen = gen
           /\ Candidate(prev, gen).bytes = prev.bytes + 1
           /\ Candidate(prev, gen).frozen = writer.frozen
           /\ Len(Candidate(prev, gen).rows) = Len(writer.rows)
<1> DEFINE row(i) == IF i <= Trusted(prev) THEN prev.rows[i] ELSE Content(i)
           rows == [i \in DOMAIN writer.rows |-> row(i)]
<1>1. /\ writer \in Writer /\ writer.rows \in Seq(Row) /\ writer.frozen \in Nat
      /\ Len(writer.rows) \in Nat /\ DOMAIN writer.rows = 1 .. Len(writer.rows)
      /\ version \in [Ids -> Nat] /\ prev.rows \in Seq(Row) /\ Len(prev.rows) \in Nat
      /\ prev.frozen \in Nat /\ prev.bytes \in Nat
  BY LenProperties DEF TypeOK, Writer, JournalCache
<1>2. Trusted(prev) \in 0 .. Len(prev.rows)
  BY <1>1 DEF Trusted
<1>3. ASSUME NEW i \in 1 .. Len(writer.rows) PROVE row(i) \in Row
  <2>1. writer.rows[i] \in Row
    BY <1>1, ElementOfSeq
  <2>2. Content(i) \in Row
    <3>1. writer.rows[i].id \in Ids
      BY <2>1 DEF Row
    <3>2. version[writer.rows[i].id] \in Nat
      BY <1>1, <3>1
    <3>3. [writer.rows[i] EXCEPT !.ver = version[writer.rows[i].id]] \in Row
      BY <2>1, <3>2 DEF Row
    <3>4. QED
      BY <2>1, <3>3 DEF Content
  <2>3. i <= Trusted(prev) => prev.rows[i] \in Row
    <3>1. i <= Trusted(prev) => i \in 1 .. Len(prev.rows)
      BY <1>1, <1>2
    <3>2. QED
      BY <1>1, <3>1, ElementOfSeq
  <2>4. QED
    BY <2>2, <2>3
<1>4. rows \in Seq(Row) /\ Len(rows) = Len(writer.rows)
  <2>1. rows \in [1 .. Len(writer.rows) -> Row]
    <3> HIDE DEF row
    <3> QED
      BY <1>1, <1>3
  <2>2. QED
    <3> HIDE DEF rows
    <3> QED
      BY <1>1, <2>1, Tabulated
<1>5. Candidate(prev, gen) = [gen |-> gen, bytes |-> prev.bytes + 1, frozen |-> writer.frozen,
                              rows |-> rows]
  BY DEF Candidate
<1>6. QED
  <2> HIDE DEF rows
  <2> QED
    BY <1>1, <1>4, <1>5 DEF JournalCache

\* Fewer generations are left behind than there were faults.
LEMMA LeaksFewer ==
    ASSUME TypeOK, LeaksCounted, Leaked' \subseteq Leaked, faults' \in faults .. MaxFaults
    PROVE  LeaksCounted'
<1>1. Cardinality(Leaked') \in Nat /\ Cardinality(Leaked') <= Cardinality(Leaked)
  BY LeakedFinite, FS_Subset, FS_CardinalityType
<1>2. QED
  BY <1>1, LeakedFinite, SessionAssumption DEF LeaksCounted, TypeOK

\* The head in memory is the one of the journal's cache.
LEMMA CacheHeld ==
    ASSUME TypeOK, HeadInv, writer.step # "retire", cache # Head0
    PROVE  /\ reference # NoReference /\ cache.gen = reference.gen /\ cache.bytes = reference.bytes
           /\ cache.gen \in Gens /\ Holds(generations[cache.gen], cache.bytes, Len(cache.rows))
<1>1. reference # NoReference /\ HeadOf(cache) = reference
  BY DEF HeadInv, CacheAgrees
<1>2. Held(HeadOf(cache))
  BY <1>1 DEF HeadInv, HeadsHeld
<1>3. /\ HeadOf(cache).gen = cache.gen /\ HeadOf(cache).bytes = cache.bytes
      /\ HeadOf(cache).count = Len(cache.rows)
  BY DEF HeadOf
<1>4. QED
  BY <1>1, <1>2, <1>3 DEF Held

\* A commit.
LEMMA AppendJournalStep ==
    ASSUME IInv, NEW obsolete \in BOOLEAN, AppendJournal(obsolete)
    PROVE  IInv'
<1> DEFINE anew == cache = Head0 \/ obsolete
<1>1. PICK prev : prev = IF anew THEN Head0 ELSE cache
  OBVIOUS
<1>2. PICK gen : gen = IF anew THEN Fresh ELSE cache.gen
  OBVIOUS
<1>3. PICK new : new = Candidate(prev, gen)
  OBVIOUS
<1>4. PICK c : c = generations[gen]
  OBVIOUS
<1>5. PICK d : d = Append(First(c, prev.bytes), Written(prev, new.rows))
  OBVIOUS
<1>6. /\ writer.step = "append"
      /\ generations' = [generations EXCEPT ![gen] =
                            Append(First(@, prev.bytes), Written(prev, new.rows))]
      /\ writer' = [writer EXCEPT !.step = "publish", !.new = new]
      /\ UNCHANGED <<session, queue, memory, hot, log, faults, history>>
  BY <1>1, <1>2, <1>3 DEF AppendJournal
<1>7. /\ TypeOK /\ HeadInv /\ generations \in [Gens -> Seq(Commit)] /\ writer \in Writer
      /\ cache \in JournalCache /\ writer.frozen <= Len(writer.rows)
      /\ cache.frozen <= Len(cache.rows)
  BY DEF IInv, TypeOK, HeadInv, FrozenWithin
<1>8. /\ Fresh \in Gens /\ generations[Fresh] = <<>>
      /\ Fresh \notin {hot.ref.gen, reference.gen, cache.gen}
  BY <1>6, <1>7, FreshIs
<1>9. ~anew => /\ cache # Head0 /\ cache.gen = reference.gen /\ cache.bytes = reference.bytes
               /\ cache.gen \in Gens
               /\ Holds(generations[cache.gen], cache.bytes, Len(cache.rows))
  BY <1>6, <1>7, CacheHeld
<1>10. gen \in Gens /\ gen \in Nat /\ c \in Seq(Commit)
  <2>1. gen \in Gens
    BY <1>2, <1>8, <1>9
  <2>2. QED
    BY <1>4, <1>7, <2>1, SessionAssumption DEF Gens
<1>11. prev \in JournalCache /\ prev.frozen <= Len(prev.rows)
  <2>1. Head0.frozen <= Len(Head0.rows)
    BY EmptySeq DEF Head0
  <2>2. QED
    BY <1>1, <1>7, <2>1, Head0Typed
<1>12. \/ prev.bytes = 0 /\ prev.rows = <<>>
       \/ Holds(c, prev.bytes, Len(prev.rows))
  <2>1. CASE anew
    BY <1>1, <2>1 DEF Head0
  <2>2. CASE ~anew
    BY <1>1, <1>2, <1>4, <1>9, <2>2
  <2>3. QED
    BY <2>1, <2>2
<1>13. /\ new \in JournalCache /\ new.gen = gen /\ new.bytes = prev.bytes + 1
       /\ new.frozen = writer.frozen /\ Len(new.rows) = Len(writer.rows)
  BY <1>3, <1>7, <1>10, <1>11, CandidateIs
<1>14. /\ d \in Seq(Commit) /\ Len(d) = prev.bytes + 1 /\ \A k \in 1 .. prev.bytes : d[k] = c[k]
       /\ Holds(d, prev.bytes + 1, Len(new.rows))
  <2>1. new.rows \in Seq(Row)
    BY <1>13 DEF JournalCache
  <2>2. QED
    BY <1>5, <1>10, <1>11, <1>12, <2>1, HoldsAppended
<1>15. /\ generations' = [generations EXCEPT ![gen] = d]
       /\ generations' \in [Gens -> Seq(Commit)] /\ generations'[gen] = d
       /\ \A g \in Gens \ {gen} : generations'[g] = generations[g]
  <2>1. generations' = [generations EXCEPT ![gen] = d]
    BY <1>4, <1>5, <1>6, <1>7, <1>10
  <2>2. QED
    BY <1>7, <1>10, <1>14, <2>1
<1>16. /\ writer' \in Writer /\ writer'.step = "publish" /\ writer'.new = new
       /\ writer'.frozen = writer.frozen /\ writer'.rows = writer.rows
  BY <1>6, <1>7, <1>13 DEF Writer
<1>17. TypeOK'
  BY <1>6, <1>7, <1>15, <1>16 DEF TypeOK, session, queue, memory, history
<1>18. FrozenWithin'
  BY <1>6, <1>7, <1>13, <1>16 DEF FrozenWithin, memory
<1>19. HotAgrees' /\ SmallAgrees' /\ CacheAgrees'
  BY <1>6, <1>7, <1>16 DEF HeadInv, HotAgrees, SmallAgrees, CacheAgrees, HeadOf, memory
<1>20. HeadsHeld'
  <2>1. reference' = reference
    BY <1>6 DEF memory
  <2>2. ASSUME reference # NoReference
        PROVE  reference.gen \in Gens /\ Holds(generations'[reference.gen], reference.bytes, reference.count)
    <3>1. reference.gen \in Gens /\ Holds(generations[reference.gen], reference.bytes, reference.count)
      BY <1>7, <2>2 DEF HeadInv, HeadsHeld, Held
    <3>2. CASE reference.gen # gen
      BY <1>15, <3>1, <3>2
    <3>3. CASE reference.gen = gen
      <4>1. ~anew
        BY <1>2, <1>8, <3>3
      <4>2. prev.bytes = reference.bytes /\ prev.bytes \in Nat
        BY <1>1, <1>9, <1>11, <4>1 DEF JournalCache
      <4>3. Holds(c, prev.bytes, reference.count)
        BY <1>4, <3>1, <3>3, <4>2
      <4>4. Holds(d, prev.bytes, reference.count)
        <5>1. Len(d) >= prev.bytes
          BY <1>14, <4>2
        <5>2. QED
          BY <1>10, <1>14, <4>2, <4>3, <5>1, HoldsSame
      <4>5. QED
        BY <1>15, <3>1, <3>3, <4>2, <4>4
    <3>4. QED
      BY <3>2, <3>3
  <2>3. /\ HeadOf(new).gen \in Gens
        /\ Holds(generations'[HeadOf(new).gen], HeadOf(new).bytes, HeadOf(new).count)
    BY <1>10, <1>13, <1>14, <1>15 DEF HeadOf
  <2>4. QED
    BY <1>16, <2>1, <2>2, <2>3 DEF HeadsHeld, Held, HeadOf
<1>21. NewApart'
  BY <1>2, <1>6, <1>8, <1>13, <1>16 DEF NewApart, memory
<1>22. LeaksCounted'
  <2>1. Leaked' \subseteq Leaked
    BY <1>6, <1>13, <1>15, <1>16 DEF Leaked, memory
  <2>2. faults' \in faults .. MaxFaults /\ LeaksCounted
    BY <1>6, <1>7, SessionAssumption DEF TypeOK, HeadInv, LeaksCounted
  <2>3. QED
    BY <1>7, <2>1, <2>2, LeaksFewer
<1>23. RunningFirst'
  BY <1>6, <1>16 DEF IInv, RunningFirst, queue
<1>24. QED
  BY <1>17, <1>18, <1>19, <1>20, <1>21, <1>22, <1>23 DEF IInv, HeadInv

\* The head is published.
LEMMA PublishStep ==
    ASSUME IInv, Publish
    PROVE  IInv'
<1>1. /\ writer \in Writer /\ writer.step = "publish" /\ writer.new \in JournalCache
      /\ writer.frozen \in Nat
      /\ hot' = [frozen |-> writer.frozen, tail |-> <<>>, ref |-> HeadOf(writer.new)]
      /\ cache' = writer.new /\ writer' = [writer EXCEPT !.step = "retire"]
      /\ UNCHANGED <<threshold, session, queue, frozen, reference, failures, log, generations,
                     faults, history>>
  BY DEF Publish, IInv, TypeOK, Writer
<1>2. /\ writer' \in Writer /\ writer'.step = "retire" /\ writer'.new = writer.new
      /\ writer'.frozen = writer.frozen /\ writer'.rows = writer.rows
  BY <1>1 DEF Writer
<1>3. HeadOf(writer.new) \in Reference
  BY <1>1, LenProperties DEF HeadOf, Reference, JournalCache
<1>4. hot' \in [frozen : Nat, tail : Seq(Row), ref : Reference]
  <2>1. <<>> \in Seq(Row)
    BY EmptySeq
  <2>2. QED
    BY <1>1, <1>3, <2>1
<1>5. TypeOK'
  BY <1>1, <1>2, <1>4 DEF IInv, TypeOK, session, queue, history
<1>6. FrozenWithin' /\ SmallAgrees' /\ NewApart'
  BY <1>1, <1>2 DEF IInv, HeadInv, FrozenWithin, SmallAgrees, NewApart
<1>7. HotAgrees' /\ CacheAgrees'
  BY <1>1, <1>2 DEF HotAgrees, CacheAgrees, HeadOf
<1>8. HeadsHeld'
  BY <1>1, <1>2 DEF IInv, HeadInv, HeadsHeld, Held, HeadOf
<1>9. LeaksCounted'
  <2>1. Leaked' \subseteq Leaked
    BY <1>1, <1>2 DEF Leaked
  <2>2. faults' \in faults .. MaxFaults /\ LeaksCounted
    BY <1>1, SessionAssumption DEF IInv, TypeOK, HeadInv, LeaksCounted
  <2>3. QED
    BY <2>1, <2>2, LeaksFewer DEF IInv
<1>10. RunningFirst'
  BY <1>1 DEF IInv, RunningFirst, queue
<1>11. QED
  BY <1>5, <1>6, <1>7, <1>8, <1>9, <1>10 DEF IInv, HeadInv

\* The generation before is removed and the save is answered.
LEMMA RetireStep ==
    ASSUME IInv, Retire
    PROVE  IInv'
<1>1. PICK new : new = writer.new
  OBVIOUS
<1>2. /\ writer \in Writer /\ writer.step = "retire" /\ new \in JournalCache
      /\ writer.frozen \in Nat /\ generations \in [Gens -> Seq(Commit)]
      /\ generations' = [g \in Gens |->
            IF g = reference.gen /\ g # new.gen THEN <<>> ELSE generations[g]]
      /\ frozen' = writer.frozen /\ reference' = HeadOf(new) /\ failures' = {}
      /\ requests' = Tail(requests) /\ writer' = Idle
      /\ saved' = Loaded' /\ attempts' = {}
      /\ UNCHANGED <<cache, hot, log, threshold, session, debounced, requested, spoiled, faults>>
  BY <1>1 DEF Retire, Succeeds, Settles, IInv, TypeOK, Writer
<1>3. /\ hot.ref = HeadOf(new) /\ cache = new /\ new.gen \in Gens
      /\ Holds(generations[new.gen], new.bytes, Len(new.rows))
  BY <1>1, <1>2 DEF IInv, HeadInv, HotAgrees, CacheAgrees, HeadsHeld, Held, HeadOf
<1>4. HeadOf(new) \in Reference /\ HeadOf(new) # NoReference
  <2>1. HeadOf(new) \in Reference
    BY <1>2, LenProperties DEF HeadOf, Reference, JournalCache
  <2>2. HeadOf(new).gen \in Gens /\ NoReference.gen \notin Gens
    BY <1>3 DEF HeadOf, NoReference, Gens
  <2>3. QED
    BY <2>1, <2>2
<1>5. generations' \in [Gens -> Seq(Commit)]
  <2>1. <<>> \in Seq(Commit)
    BY EmptySeq
  <2>2. QED
    BY <1>2, <2>1
<1>6. generations'[new.gen] = generations[new.gen]
  BY <1>2, <1>3
<1>7. saved' \in Seq(Row)
  <2>1. Loadable'
    <3>1. hot' \in [frozen : Nat, tail : Seq(Row), ref : Reference] /\ log'.rows \in Seq(Row)
      BY <1>2 DEF IInv, TypeOK
    <3>2. Held(hot.ref)'
      BY <1>2, <1>3, <1>6 DEF Held, HeadOf
    <3>3. QED
      BY <1>5, <3>1, <3>2 DEF Loadable
  <2>2. QED
    BY <1>2, <2>1, LoadedTypedNext
<1>8. requests' \in Seq(Request)
  BY <1>2, HeadTailProperties DEF IInv, TypeOK, RunningFirst
<1>9. TypeOK'
  BY <1>2, <1>4, <1>5, <1>7, <1>8, Head0Typed DEF IInv, TypeOK, session
<1>10. FrozenWithin' /\ SmallAgrees' /\ NewApart'
  BY <1>2, IdleWithin DEF IInv, HeadInv, FrozenWithin, SmallAgrees, NewApart
<1>11. HotAgrees' /\ CacheAgrees'
  BY <1>2, <1>3, <1>4, IdleWithin DEF HotAgrees, CacheAgrees, HeadOf
<1>12. HeadsHeld'
  BY <1>2, <1>3, <1>6, IdleWithin DEF HeadsHeld, Held, HeadOf
<1>13. LeaksCounted'
  <2>1. reference'.gen = new.gen
    BY <1>2 DEF HeadOf
  <2>2. Leaked' \subseteq Leaked
    BY <1>1, <1>2, <2>1, IdleWithin DEF Leaked
  <2>3. faults' \in faults .. MaxFaults /\ LeaksCounted
    BY <1>2, SessionAssumption DEF IInv, TypeOK, HeadInv, LeaksCounted
  <2>4. QED
    BY <2>2, <2>3, LeaksFewer DEF IInv
<1>14. RunningFirst'
  BY <1>2, IdleWithin DEF RunningFirst
<1>15. QED
  BY <1>9, <1>10, <1>11, <1>12, <1>13, <1>14 DEF IInv, HeadInv

-----------------------------------------------------------------------------
(***************************************************************************)
(* Failed writes and crashes.                                              *)
(***************************************************************************)
\* What an append leaves in the log.
LEMMA LeftoversTyped ==
    ASSUME TypeOK, FrozenWithin, NEW l \in Leftovers
    PROVE  l \in [rows : Seq(Row), torn : BOOLEAN]
<1>1. log \in [rows : Seq(Row), torn : BOOLEAN] /\ log.rows \in Seq(Row)
  BY DEF TypeOK
<1>2. Added \in Seq(Row) /\ Len(Added) \in Nat
  BY AddedTyped, LenProperties
<1>3. CASE l = log
  BY <1>1, <1>3
<1>4. CASE l # log
  <2>1. PICK n \in 0 .. Len(Added) - 1 :
           l = [rows |-> log.rows \o From(First(Added, n), IF log.torn THEN 1 ELSE 0),
                torn |-> TRUE]
    BY <1>4 DEF Leftovers
  <2>2. n \in Nat
    BY <1>2
  <2>3. From(First(Added, n), IF log.torn THEN 1 ELSE 0) \in Seq(Row)
    BY <1>2, <2>2, FirstIs, FromIs
  <2>4. log.rows \o From(First(Added, n), IF log.torn THEN 1 ELSE 0) \in Seq(Row)
    BY <1>1, <2>3, ConcatProperties
  <2>5. QED
    BY <2>1, <2>4
<1>5. QED
  BY <1>3, <1>4

\* A write fails.
LEMMA FailsStep ==
    ASSUME IInv, NEW l \in Leftovers, Fails(l)
    PROVE  IInv'
<1>1. /\ writer.step \in {"whole", "log", "hot", "append", "publish"}
      /\ faults < MaxFaults /\ faults' = faults + 1 /\ log' = l
      /\ failures' = failures \cup {FailureKey(writer.step)}
      /\ generations' =
            IF writer.step # "publish" THEN generations
            ELSE [generations EXCEPT ![writer.new.gen] = RolledBack(writer.new.gen)]
      /\ requests' = Tail(requests) /\ writer' = Idle
      /\ UNCHANGED <<threshold, session, debounced, requested>>
      /\ UNCHANGED <<frozen, reference, cache, hot, saved, attempts>>
  BY DEF Fails, Fault, Settles
<1>2. spoiled' \in BOOLEAN
  BY DEF Fails
<1>3. /\ TypeOK /\ HeadInv /\ generations \in [Gens -> Seq(Commit)]
      /\ cache \in JournalCache /\ faults \in Nat
      /\ cache.frozen <= Len(cache.rows)
  BY DEF IInv, TypeOK, HeadInv, FrozenWithin
<1>4. log' \in [rows : Seq(Row), torn : BOOLEAN]
  BY <1>1, <1>3, LeftoversTyped DEF HeadInv
<1>5. failures' \in SUBSET {"hot", "frozen"}
  BY <1>1, <1>3 DEF FailureKey, TypeOK
<1>6. requests' \in Seq(Request)
  <2>1. requests # <<>>
    BY <1>1 DEF IInv, RunningFirst
  <2>2. QED
    BY <1>1, <1>3, <2>1, HeadTailProperties DEF TypeOK
<1>7. faults' \in faults .. MaxFaults
  BY <1>1, <1>3, SessionAssumption
<1>8. FrozenWithin' /\ SmallAgrees'
  BY <1>1, <1>3, IdleWithin DEF FrozenWithin, SmallAgrees
<1>9. RunningFirst'
  BY <1>1, IdleWithin DEF RunningFirst
<1>10. ASSUME generations' \in [Gens -> Seq(Commit)]
       PROVE  TypeOK'
  <2>1. /\ threshold' \in Sizes /\ live' \in Seq(Ids) /\ version' \in [Ids -> Nat]
        /\ debounced' \in BOOLEAN /\ requested' \in Nat /\ used' \in 0 .. MaxRows
        /\ edits' \in Nat /\ reverts' \in Nat
    BY <1>1, <1>3 DEF TypeOK, session
  <2>2. /\ frozen' \in Nat /\ reference' \in Reference /\ cache' \in JournalCache
        /\ hot' \in [frozen : Nat, tail : Seq(Row), ref : Reference]
        /\ saved' \in Seq(Row) /\ attempts' \in SUBSET Seq(Ids)
    BY <1>1, <1>3 DEF TypeOK
  <2>3. writer' \in Writer
    BY <1>1, Head0Typed
  <2>4. faults' \in Nat
    BY <1>1, <1>3
  <2>5. QED
    BY <1>2, <1>4, <1>5, <1>6, <1>10, <2>1, <2>2, <2>3, <2>4 DEF TypeOK
<1>11. CASE writer.step # "publish"
  <2>1. generations' = generations
    BY <1>1, <1>11
  <2>2. writer.step \notin {"publish", "retire"} /\ writer'.step \notin {"publish", "retire"}
    BY <1>1, <1>11, IdleWithin
  <2>3. HeadInv'
    BY <1>1, <1>3, <1>7, <1>8, <2>1, <2>2, HeadsStay
  <2>4. QED
    BY <1>3, <1>9, <1>10, <2>1, <2>3 DEF IInv
<1>12. CASE writer.step = "publish"
  <2>1. PICK gen : gen = writer.new.gen
    OBVIOUS
  <2>2. PICK c : c = generations[gen]
    OBVIOUS
  <2>3. PICK d : d = RolledBack(gen)
    OBVIOUS
  <2>4. gen \in Gens /\ c \in Seq(Commit)
    BY <1>3, <1>12, <2>1, <2>2 DEF HeadInv, HeadsHeld, Held, HeadOf
  <2>5. gen = cache.gen => /\ reference # NoReference /\ cache.gen = reference.gen
                           /\ cache.bytes = reference.bytes
                           /\ Holds(generations[cache.gen], cache.bytes, Len(cache.rows))
    <3>1. gen = cache.gen => cache # Head0
      BY <2>4 DEF Head0, Gens
    <3>2. QED
      BY <1>3, <1>12, <3>1, CacheHeld
  <2>6. gen = reference.gen => gen = cache.gen
    BY <1>3, <1>12, <2>1 DEF HeadInv, NewApart
  <2>7. d = IF gen = cache.gen THEN First(c, cache.bytes) ELSE <<>>
    BY <2>2, <2>3 DEF RolledBack
  <2>8. cache.bytes \in Nat
    BY <1>3 DEF JournalCache
  <2>9. d \in Seq(Commit)
    BY <2>4, <2>7, <2>8, FirstIs, EmptySeq
  <2>10. /\ generations' \in [Gens -> Seq(Commit)] /\ generations'[gen] = d
         /\ \A g \in Gens \ {gen} : generations'[g] = generations[g]
    BY <1>1, <1>3, <1>12, <2>1, <2>3, <2>4, <2>9
  <2>11. HotAgrees' /\ CacheAgrees' /\ NewApart'
    BY <1>1, <1>3, <1>12, IdleWithin DEF HeadInv, HotAgrees, CacheAgrees, NewApart, HeadOf
  <2>12. HeadsHeld'
    <3>1. ASSUME reference # NoReference
          PROVE  /\ reference.gen \in Gens
                 /\ Holds(generations'[reference.gen], reference.bytes, reference.count)
      <4>1. reference.gen \in Gens /\ Holds(generations[reference.gen], reference.bytes, reference.count)
        BY <1>3, <3>1 DEF HeadInv, HeadsHeld, Held
      <4>2. CASE reference.gen # gen
        BY <2>10, <4>1, <4>2
      <4>3. CASE reference.gen = gen
        <5>1. gen = cache.gen /\ reference.bytes = cache.bytes
          BY <2>5, <2>6, <4>3
        <5>2. Holds(c, cache.bytes, reference.count)
          BY <2>2, <4>1, <4>3, <5>1
        <5>3. Least(cache.bytes, Len(c)) = cache.bytes
          BY <5>2, <2>8, <2>4, LenProperties DEF Holds, Least
        <5>4. Len(d) = cache.bytes /\ \A k \in 1 .. cache.bytes : d[k] = c[k]
          BY <2>4, <2>7, <2>8, <5>1, <5>3, FirstIs
        <5>5. Holds(d, cache.bytes, reference.count)
          <6>1. Len(d) >= cache.bytes
            BY <2>8, <5>4
          <6>2. QED
            BY <2>4, <2>8, <2>9, <5>2, <5>4, <6>1, HoldsSame
        <5>6. QED
          BY <2>10, <4>1, <4>3, <5>1, <5>5
      <4>4. QED
        BY <4>2, <4>3
    <3>2. QED
      BY <1>1, <3>1, IdleWithin DEF HeadsHeld, Held
  <2>13. LeaksCounted'
    <3>1. ASSUME NEW g \in Leaked' PROVE g \in Leaked
      <4>1. g \in Gens /\ generations'[g] # <<>> /\ g # reference.gen
        BY <1>1, <3>1 DEF Leaked
      <4>2. g # gen
        BY <2>5, <2>7, <2>10, <4>1
      <4>3. QED
        BY <2>1, <2>10, <4>1, <4>2 DEF Leaked
    <3>2. LeaksCounted
      BY <1>3 DEF HeadInv
    <3>3. QED
      BY <1>3, <1>7, <3>1, <3>2, LeaksFewer
  <2>14. QED
    BY <1>3, <1>8, <1>9, <1>10, <2>10, <2>11, <2>12, <2>13 DEF IInv, HeadInv
<1>13. QED
  BY <1>11, <1>12

\* The head on disk can be read.
LEMMA HotHeld ==
    ASSUME HeadInv
    PROVE  hot.ref # NoReference => Held(hot.ref)
BY DEF HeadInv, HotAgrees, HeadsHeld

\* The process ends and the next one loads the files.
LEMMA CrashStep ==
    ASSUME IInv, NEW l \in Leftovers, Crash(l)
    PROVE  IInv'
<1>1. PICK rows : rows = Loads(l.rows)
  OBVIOUS
<1>2. /\ faults < MaxFaults /\ faults' = faults + 1 /\ log' = l
      /\ live' = IdsOf(rows)
      /\ version' = [c \in Ids |->
            IF \E i \in DOMAIN rows : rows[i].id = c
            THEN rows[CHOOSE i \in DOMAIN rows : rows[i].id = c].ver ELSE 0]
      /\ debounced' = FALSE /\ requests' = <<>> /\ writer' = Idle
      /\ frozen' = LoadsFrozen(l.rows) /\ requested' = LoadsFrozen(l.rows)
      /\ reference' = hot.ref /\ cache' = Head0 /\ failures' = {}
      /\ saved' = rows /\ attempts' = {} /\ spoiled' \in BOOLEAN
      /\ UNCHANGED <<threshold, used, edits, reverts, hot, generations>>
  BY <1>1 DEF Crash, Fault
<1>3. /\ TypeOK /\ HeadInv /\ generations \in [Gens -> Seq(Commit)] /\ faults \in Nat
      /\ hot \in [frozen : Nat, tail : Seq(Row), ref : Reference]
  BY DEF IInv, TypeOK
<1>4. l \in [rows : Seq(Row), torn : BOOLEAN] /\ l.rows \in Seq(Row)
  BY <1>3, LeftoversTyped DEF HeadInv
<1>5. rows \in Seq(Row) /\ LoadsFrozen(l.rows) \in Nat
  BY <1>1, <1>3, <1>4, HotHeld, LoadsTyped
<1>6. live' \in Seq(Ids)
  BY <1>2, <1>5, IdsTyped
<1>7. version' \in [Ids -> Nat]
  <2>1. \A i \in DOMAIN rows : rows[i].ver \in Nat
    <3>1. \A i \in DOMAIN rows : rows[i] \in Row
      BY <1>5, ElementOfSeq, LenProperties
    <3>2. QED
      BY <3>1 DEF Row
  <2>2. ASSUME NEW c \in Ids, \E i \in DOMAIN rows : rows[i].id = c
        PROVE  rows[CHOOSE i \in DOMAIN rows : rows[i].id = c].ver \in Nat
    <3>1. (CHOOSE i \in DOMAIN rows : rows[i].id = c) \in DOMAIN rows
      BY <2>2
    <3>2. QED
      BY <2>1, <3>1
  <2>3. QED
    BY <1>2, <2>2
<1>8. /\ <<>> \in Seq(Request) /\ reference' \in Reference
  BY <1>2, <1>3, EmptySeq
<1>9. TypeOK'
  <2>1. /\ threshold' \in Sizes /\ hot' \in [frozen : Nat, tail : Seq(Row), ref : Reference]
        /\ generations' \in [Gens -> Seq(Commit)] /\ used' \in 0 .. MaxRows
        /\ edits' \in Nat /\ reverts' \in Nat
    BY <1>2, <1>3 DEF TypeOK
  <2>2. /\ requests' \in Seq(Request) /\ writer' \in Writer /\ cache' \in JournalCache
        /\ log' \in [rows : Seq(Row), torn : BOOLEAN] /\ saved' \in Seq(Row)
        /\ frozen' \in Nat /\ requested' \in Nat
    BY <1>2, <1>4, <1>5, <1>8, Head0Typed
  <2>3. failures' \in SUBSET {"hot", "frozen"} /\ attempts' \in SUBSET Seq(Ids)
    BY <1>2
  <2>4. faults' \in Nat
    BY <1>2, <1>3
  <2>5. debounced' \in BOOLEAN /\ spoiled' \in BOOLEAN
    BY <1>2
  <2>6. QED
    BY <1>6, <1>7, <1>8, <2>1, <2>2, <2>3, <2>4, <2>5 DEF TypeOK
<1>10. FrozenWithin' /\ SmallAgrees' /\ HotAgrees' /\ CacheAgrees' /\ NewApart' /\ RunningFirst'
  <2>1. Head0.frozen <= Len(Head0.rows)
    BY EmptySeq DEF Head0
  <2>2. QED
    BY <1>2, <2>1, IdleWithin DEF FrozenWithin, SmallAgrees, HotAgrees, CacheAgrees, NewApart,
                                  RunningFirst
<1>11. HeadsHeld'
  BY <1>2, <1>3, HotHeld, IdleWithin DEF HeadsHeld, Held
<1>12. LeaksCounted'
  <2>1. PICK x : x = IF writer.step = "publish" THEN writer.new.gen ELSE reference.gen
    OBVIOUS
  <2>2. ASSUME NEW g \in Leaked' PROVE g \in Leaked \cup {x}
    <3>1. g \in Gens /\ generations[g] # <<>> /\ g # hot.ref.gen
      BY <1>2, <2>2 DEF Leaked
    <3>2. CASE writer.step = "publish"
      BY <1>3, <2>1, <3>1, <3>2 DEF Leaked, HeadInv, HotAgrees
    <3>3. CASE writer.step = "retire"
      <4>1. hot.ref.gen = writer.new.gen
        BY <1>3, <3>3 DEF HeadInv, HotAgrees, HeadOf
      <4>2. QED
        BY <2>1, <3>1, <3>3, <4>1 DEF Leaked
    <3>4. CASE writer.step \notin {"publish", "retire"}
      BY <1>3, <3>1, <3>4 DEF Leaked, HeadInv, HotAgrees
    <3>5. QED
      BY <3>2, <3>3, <3>4
  <2>3. /\ IsFiniteSet(Leaked \cup {x}) /\ Cardinality(Leaked \cup {x}) \in Nat
        /\ Cardinality(Leaked \cup {x}) <= Cardinality(Leaked) + 1
    <3>1. IsFiniteSet(Leaked \cup {x})
      BY LeakedFinite, FS_AddElement
    <3>2. /\ Cardinality(Leaked \cup {x}) = Cardinality(Leaked)
             \/ Cardinality(Leaked \cup {x}) = Cardinality(Leaked) + 1
      BY LeakedFinite, FS_AddElement
    <3>3. QED
      BY <3>1, <3>2, LeakedFinite
  <2>4. Cardinality(Leaked') \in Nat /\ Cardinality(Leaked') <= Cardinality(Leaked \cup {x})
    BY <2>2, <2>3, FS_Subset, FS_CardinalityType
  <2>5. Cardinality(Leaked) <= faults /\ Cardinality(Leaked) \in Nat /\ MaxFaults \in Nat
    BY <1>3, LeakedFinite, SessionAssumption DEF HeadInv, LeaksCounted
  <2>6. Cardinality(Leaked') <= faults'
    BY <1>2, <1>3, <2>3, <2>4, <2>5
  <2>7. faults' <= MaxFaults
    BY <1>2, <1>3, <2>5
  <2>8. QED
    BY <2>6, <2>7 DEF LeaksCounted
<1>13. QED
  BY <1>9, <1>10, <1>11, <1>12 DEF IInv, HeadInv

-----------------------------------------------------------------------------
(***************************************************************************)
(* The theorems.                                                           *)
(***************************************************************************)
\* The program begins without a file.
LEMMA InitHolds == Init => IInv
<1> SUFFICES ASSUME Init PROVE IInv
  OBVIOUS
<1>1. /\ <<>> \in Seq(Ids) /\ <<>> \in Seq(Request) /\ <<>> \in Seq(Row) /\ <<>> \in Seq(Commit)
  BY EmptySeq
<1>2. TypeOK
  <2>1. /\ live \in Seq(Ids) /\ requests \in Seq(Request) /\ writer \in Writer
        /\ reference \in Reference /\ cache \in JournalCache /\ saved \in Seq(Row)
    BY <1>1, Head0Typed DEF Init
  <2>2. /\ hot \in [frozen : Nat, tail : Seq(Row), ref : Reference]
        /\ log \in [rows : Seq(Row), torn : BOOLEAN]
    BY <1>1, Head0Typed DEF Init
  <2>3. version \in [Ids -> Nat] /\ generations \in [Gens -> Seq(Commit)]
    BY <1>1 DEF Init
  <2>4. /\ threshold \in Sizes /\ requested \in Nat /\ frozen \in Nat
        /\ edits \in Nat /\ reverts \in Nat /\ faults \in Nat
        /\ failures \in SUBSET {"hot", "frozen"} /\ attempts \in SUBSET Seq(Ids)
    BY DEF Init
  <2>5. used \in 0 .. MaxRows
    BY SessionAssumption DEF Init
  <2>6. debounced \in BOOLEAN /\ spoiled \in BOOLEAN
    BY DEF Init
  <2>7. QED
    BY <2>1, <2>2, <2>3, <2>4, <2>5, <2>6 DEF TypeOK
<1>3. FrozenWithin
  BY IdleWithin DEF Init, FrozenWithin, Idle
<1>4. HotAgrees /\ SmallAgrees /\ CacheAgrees /\ HeadsHeld /\ NewApart /\ RunningFirst
  BY IdleWithin DEF Init, HotAgrees, SmallAgrees, CacheAgrees, HeadsHeld, NewApart, RunningFirst
<1>5. LeaksCounted
  <2>1. Leaked = {}
    BY DEF Init, Leaked
  <2>2. Cardinality(Leaked) = 0
    BY <2>1, FS_EmptySet
  <2>3. QED
    BY <2>2, SessionAssumption DEF Init, LeaksCounted
<1>6. QED
  BY <1>2, <1>3, <1>4, <1>5 DEF IInv, HeadInv

\* No step changes what the invariant says.
LEMMA NextHolds == IInv /\ [Next]_vars => IInv'
<1> SUFFICES ASSUME IInv, [Next]_vars PROVE IInv'
  OBVIOUS
<1>1. CASE SessionStep
  BY <1>1, SessionSteps
<1>2. CASE WriteStep
  BY <1>2, StartWriteStep, WriteWholeStep, WriteLogStep, WriteHotStep, AppendJournalStep,
     PublishStep, RetireStep DEF WriteStep
<1>3. CASE FaultStep
  BY <1>3, FailsStep, CrashStep DEF FaultStep
<1>4. CASE UNCHANGED vars
  <2>1. UNCHANGED <<threshold, live, version, debounced, requested, requests, writer, frozen,
                    reference, cache, failures, hot, log, generations, used, edits, reverts,
                    faults, saved, attempts, spoiled>>
    BY <1>4 DEF vars, session, queue, memory, disk, history
  <2>2. TypeOK'
    BY <2>1 DEF IInv, TypeOK
  <2>3. HeadInv'
    BY <2>1, HeadsApart DEF IInv
  <2>4. RunningFirst'
    BY <2>1 DEF IInv, RunningFirst
  <2>5. QED
    BY <2>2, <2>3, <2>4 DEF IInv
<1>5. QED
  BY <1>1, <1>2, <1>3, <1>4 DEF Next

\* The invariant holds throughout.
LEMMA InvariantHolds == Spec => []IInv
<1>1. QED
  BY InitHolds, NextHolds, PTL DEF Spec

\* The session's history, its saves, the files and what is known of them keep
\* their shapes, whatever fails and wherever the process ends.
THEOREM TypeCorrect == Spec => []TypeOK
<1>1. IInv => TypeOK
  BY DEF IInv
<1>2. QED
  BY <1>1, InvariantHolds, PTL

\* A head that was published can be read: no rollback of a commit that failed
\* (rollback), no compaction, no retirement of the generation before and no
\* crash in between takes a commit from it.
THEOREM HeadReadable == Spec => []HeadIsReadable
<1>1. IInv => HeadIsReadable
  <2> SUFFICES ASSUME IInv PROVE HeadIsReadable
    OBVIOUS
  <2>1. /\ generations \in [Gens -> Seq(Commit)] /\ reference \in Reference
        /\ hot.ref \in Reference
    BY DEF IInv, TypeOK
  <2>2. hot.ref # NoReference => Readable(hot.ref)
    BY <2>1, HotHeld, ReadableIs DEF IInv
  <2>3. reference # NoReference => Readable(reference)
    BY <2>1, ReadableIs DEF IInv, HeadInv, HeadsHeld
  <2>4. QED
    BY <2>2, <2>3 DEF HeadIsReadable, IsReadable
<1>2. QED
  BY <1>1, InvariantHolds, PTL
-----------------------------------------------------------------------------
(***************************************************************************)
(* What the files hold and what the queue still owes them.                 *)
(***************************************************************************)
\* The requests that wait behind the running one.
Waiting == IF writer.step = "idle" THEN requests ELSE Tail(requests)

\* The array a request saves, when the session has `a`.
ArrayOf(r, a) == IF r.own THEN r.ids ELSE a

\* The save of a revert to fewer than n rows.
Cuts(r, n) == r.own /\ r.edited = 0 /\ ~r.coalescible /\ Len(r.ids) < n

\* The arrays in turn, from the one in the files or of the running save.
Path(b, q, a, k) == IF k = 0 THEN b ELSE ArrayOf(q[k], a)

\* One array extends the other.
Agree(s, t) == \A i \in 1 .. Len(s) : i <= Len(t) => s[i] = t[i]

\* An array extends the one before, unless it is that of a revert.
Chained(b, q, a) ==
    \A k \in 1 .. Len(q) :
        /\ Agree(Path(b, q, a, k - 1), Path(b, q, a, k))
        /\ \/ Len(Path(b, q, a, k - 1)) <= Len(Path(b, q, a, k))
           \/ Cuts(q[k], Len(Path(b, q, a, k - 1)))

\* Rows the session does not have any more are cut off later.
Lasting(s, q, k, a) ==
    \A i \in 1 .. Len(s) : \/ i <= Len(a) /\ s[i] = a[i]
                           \/ \E m \in k + 1 .. Len(q) : Cuts(q[m], i)
AllLasting(b, q, a) == \A k \in 0 .. Len(q) : Lasting(Path(b, q, a, k), q, k, a)

\* Requests made before a revert have arrays of their own.
OwnFirst(q) ==
    \A k \in 1 .. Len(q) : /\ q[k].own => \A j \in 1 .. k : q[j].own
                           /\ q[k].coalescible => q[k].edited = 0

Ordered(b, q, a) == Chained(b, q, a) /\ AllLasting(b, q, a) /\ OwnFirst(q)

\* Row i of n frozen ones is written again before all is flushed.
Redone(q, i, n) == \E k \in 1 .. Len(q) : q[k].edited = i \/ Cuts(q[k], n)

\* Rows m + 1 to n are as they are now, or will be.
Kept(v, q, rows, m, n) ==
    \A i \in m + 1 .. n : rows[i].ver = v[rows[i].id] \/ Redone(q, i, n)

Busy == writer.step # "idle"

\* The frozen rows that the next save extends, unless it replaces them anyway.
FrozenIds == IF "frozen" \in failures THEN <<>> ELSE IdsOf(Stored)
Base == IF Busy THEN IdsOf(writer.rows) ELSE FrozenIds

LastIsLive == Waiting # <<>> /\ ~debounced => ArrayOf(Waiting[Len(Waiting)], live) = live
Requested ==
    \/ requested = Len(live)
    \/ requests = <<>> /\ ~debounced /\ requested = frozen /\ ~Busy
QueueInv == IsInjective(live) /\ Ordered(Base, Waiting, live) /\ LastIsLive /\ Requested

\* The frozen rows in the files may be extended, even if the running save fails.
Trusts ==
    /\ "frozen" \notin failures /\ writer.step # "retire"
    /\ Busy /\ writer.rewrite => writer.step = "hot"

\* The files hold as many frozen rows as the store takes them to hold, and those
\* of the running save.
StoredInv ==
    /\ "frozen" \notin failures /\ writer.step # "retire" =>
          /\ Len(Stored) = frozen
          /\ reference = NoReference /\ frozen > 0 => Len(log.rows) = frozen
    /\ Trusts /\ Busy =>
          frozen <= Len(writer.rows) /\ \A i \in 1 .. frozen : Stored[i].id = writer.rows[i].id

\* What is committed are the rows of the save.
NewInv ==
    writer.step \in {"publish", "retire"} =>
          /\ \A i \in 1 .. Len(writer.rows) : writer.new.rows[i].id = writer.rows[i].id
          /\ \A i \in writer.frozen + 1 .. Len(writer.rows) : writer.new.rows[i] = writer.rows[i]

\* No edit of a frozen row is forgotten.
KeptInv ==
    /\ Trusts => Kept(version, Waiting, Stored, 0, frozen)
    /\ Busy => Kept(version, Waiting, writer.rows, writer.shared, writer.frozen)
    /\ writer.step \in {"publish", "retire"} =>
          Kept(version, Waiting, writer.new.rows, 0, writer.frozen)

\* The last save saves the session, and a load returns what it saved.
Settled ==
    Waiting = <<>> /\ ~debounced =>
          /\ Busy => writer.rows = Now(live)
          /\ ~Busy /\ failures = {} => Loaded = Now(live)

SavedInv == QueueInv /\ StoredInv /\ NewInv /\ KeptInv /\ Settled

\* What a save captured fits the way it takes.
Captured ==
    /\ Busy /\ writer.step \notin {"log", "hot"} => writer.previous = frozen
    /\ Busy => IF writer.rewrite THEN writer.shared = 0
               ELSE /\ writer.shared = writer.previous /\ writer.frozen >= writer.previous
                    /\ writer.step # "retire" => "frozen" \notin failures
    /\ writer.step = "whole" => writer.rewrite
    /\ writer.step = "log" /\ ~writer.rewrite => writer.previous = frozen
    /\ writer.step = "hot" => writer.frozen = frozen /\ "frozen" \notin failures

\* The journal holds the rows that memory takes it to hold.
JournalInv ==
    /\ reference # NoReference /\ writer.step # "retire" =>
          frozen = reference.frozen /\ frozen <= reference.count
    /\ cache # Head0 /\ writer.step # "retire" => RowsOfGeneration(reference) = cache.rows
    /\ writer.step \in {"publish", "retire"} =>
          /\ writer.new.frozen = writer.frozen /\ Len(writer.new.rows) = Len(writer.rows)
          /\ RowsOfGeneration(HeadOf(writer.new)) = writer.new.rows

\* No row anywhere is newer than the last one the session got.
Got(ids, n) == \A i \in 1 .. Len(ids) : ids[i] <= n
GotRows(rows, n) == \A i \in 1 .. Len(rows) : rows[i].id <= n
UsedInv ==
    /\ Got(live, used) /\ \A k \in 1 .. Len(requests) : Got(requests[k].ids, used)
    /\ GotRows(writer.rows, used) /\ GotRows(writer.new.rows, used)
    /\ GotRows(hot.tail, used) /\ GotRows(log.rows, used)
    /\ reference # NoReference => GotRows(RowsOfGeneration(reference), used)

FInv == Captured /\ JournalInv /\ UsedInv /\ (~spoiled => SavedInv)

-----------------------------------------------------------------------------
(***************************************************************************)
(* Queues.                                                                 *)
(***************************************************************************)
\* The array of a request that waits.
LEMMA ArrayTyped ==
    ASSUME NEW q \in Seq(Request), NEW k \in 1 .. Len(q), NEW a \in Seq(Ids)
    PROVE  ArrayOf(q[k], a) \in Seq(Ids)
<1>1. q[k] \in Request
  BY ElementOfSeq
<1>2. QED
  BY <1>1 DEF ArrayOf, Request

\* The arrays in turn.
LEMMA PathTyped ==
    ASSUME NEW b \in Seq(Ids), NEW q \in Seq(Request), NEW a \in Seq(Ids), NEW k \in 0 .. Len(q)
    PROVE  Path(b, q, a, k) \in Seq(Ids)
<1>1. Len(q) \in Nat
  BY LenProperties
<1>2. CASE k = 0
  BY <1>2 DEF Path
<1>3. CASE k # 0
  <2>1. k \in 1 .. Len(q)
    BY <1>1, <1>3
  <2>2. QED
    BY <1>3, <2>1, ArrayTyped DEF Path
<1>4. QED
  BY <1>2, <1>3

\* The session gets a row.
LEMMA OrderedGrown ==
    ASSUME NEW b \in Seq(Ids), NEW q \in Seq(Request), NEW a \in Seq(Ids), NEW c \in Ids,
           Ordered(b, q, a)
    PROVE  Ordered(b, q, Append(a, c))
<1>1. PICK d : d = Append(a, c)
  OBVIOUS
<1>2. /\ d \in Seq(Ids) /\ Len(d) = Len(a) + 1 /\ Len(a) \in Nat /\ Len(q) \in Nat
      /\ \A i \in 1 .. Len(a) : d[i] = a[i]
  BY <1>1, AppendProperties, LenProperties
<1>3. OwnFirst(q)
  BY DEF Ordered
<1>4. Agree(a, d) /\ Agree(d, d)
  BY <1>2 DEF Agree
<1>5. ASSUME NEW k \in 1 .. Len(q)
      PROVE  /\ Agree(Path(b, q, d, k - 1), Path(b, q, d, k))
             /\ \/ Len(Path(b, q, d, k - 1)) <= Len(Path(b, q, d, k))
                \/ Cuts(q[k], Len(Path(b, q, d, k - 1)))
  <2>1. /\ Agree(Path(b, q, a, k - 1), Path(b, q, a, k))
        /\ \/ Len(Path(b, q, a, k - 1)) <= Len(Path(b, q, a, k))
           \/ Cuts(q[k], Len(Path(b, q, a, k - 1)))
    BY DEF Ordered, Chained
  <2>2. CASE q[k].own
    <3>1. Path(b, q, a, k) = Path(b, q, d, k)
      BY <2>2 DEF Path, ArrayOf
    <3>2. k - 1 \in 0 .. Len(q) /\ (k - 1 # 0 => k - 1 \in 1 .. k)
      BY <1>2
    <3>3. k - 1 # 0 => q[k - 1].own
      BY <1>3, <2>2, <3>2 DEF OwnFirst
    <3>4. Path(b, q, a, k - 1) = Path(b, q, d, k - 1)
      BY <3>3 DEF Path, ArrayOf
    <3>5. QED
      BY <2>1, <3>1, <3>4
  <2>3. CASE ~q[k].own
    <3>1. Path(b, q, a, k) = a /\ Path(b, q, d, k) = d
      BY <2>3 DEF Path, ArrayOf
    <3>2. Path(b, q, d, k - 1) = Path(b, q, a, k - 1) \/ Path(b, q, d, k - 1) = d
      BY DEF Path, ArrayOf
    <3>3. Len(Path(b, q, a, k - 1)) <= Len(a) /\ Agree(Path(b, q, a, k - 1), a)
      BY <2>1, <2>3, <3>1 DEF Cuts
    <3>4. PICK s : s = Path(b, q, a, k - 1)
      OBVIOUS
    <3>5. s \in Seq(Ids) /\ Len(s) \in Nat /\ Len(s) <= Len(a) /\ Agree(s, a)
      <4>1. k - 1 \in 0 .. Len(q)
        BY <1>2
      <4>2. QED
        BY <3>3, <3>4, <4>1, PathTyped, LenProperties
    <3>6. Agree(s, d) /\ Len(s) <= Len(d)
      BY <1>2, <3>5 DEF Agree
    <3>7. QED
      BY <1>2, <1>4, <3>1, <3>2, <3>4, <3>6
  <2>4. QED
    BY <2>2, <2>3
<1>6. ASSUME NEW k \in 0 .. Len(q) PROVE Lasting(Path(b, q, d, k), q, k, d)
  <2>1. Lasting(Path(b, q, a, k), q, k, a)
    BY DEF Ordered, AllLasting
  <2>2. CASE Path(b, q, d, k) = d
    BY <1>2, <2>2 DEF Lasting
  <2>3. CASE Path(b, q, d, k) = Path(b, q, a, k)
    <3>1. PICK s : s = Path(b, q, a, k)
      OBVIOUS
    <3>2. ASSUME NEW i \in 1 .. Len(s)
          PROVE  \/ i <= Len(d) /\ s[i] = d[i]
                 \/ \E m \in k + 1 .. Len(q) : Cuts(q[m], i)
      <4>1. CASE i <= Len(a) /\ s[i] = a[i]
        <5>1. i \in 1 .. Len(a)
          BY <1>2, <4>1
        <5>2. QED
          BY <1>2, <4>1, <5>1
      <4>2. CASE \E m \in k + 1 .. Len(q) : Cuts(q[m], i)
        BY <4>2
      <4>3. QED
        BY <2>1, <3>1, <4>1, <4>2 DEF Lasting
    <3>3. QED
      BY <2>3, <3>1, <3>2 DEF Lasting
  <2>4. QED
    BY <2>2, <2>3 DEF Path, ArrayOf
<1>7. QED
  BY <1>1, <1>3, <1>5, <1>6 DEF Ordered, Chained, AllLasting

\* The last array is the session's, or was before it grew.
LEMMA LastLasts ==
    ASSUME NEW b \in Seq(Ids), NEW q \in Seq(Request), NEW a \in Seq(Ids), Ordered(b, q, a)
    PROVE  /\ Len(Path(b, q, a, Len(q))) <= Len(a)
           /\ \A i \in 1 .. Len(Path(b, q, a, Len(q))) : Path(b, q, a, Len(q))[i] = a[i]
<1>1. Len(q) \in Nat /\ Len(a) \in Nat
  BY LenProperties
<1>2. PICK s : s = Path(b, q, a, Len(q))
  OBVIOUS
<1>3. s \in Seq(Ids) /\ Len(s) \in Nat
  <2>1. Len(q) \in 0 .. Len(q)
    BY <1>1
  <2>2. QED
    BY <1>2, <2>1, PathTyped, LenProperties
<1>4. Lasting(s, q, Len(q), a)
  BY <1>1, <1>2 DEF Ordered, AllLasting
<1>5. \A i \in 1 .. Len(s) : i <= Len(a) /\ s[i] = a[i]
  BY <1>1, <1>4 DEF Lasting
<1>6. Len(s) <= Len(a)
  BY <1>1, <1>3, <1>5
<1>7. QED
  BY <1>2, <1>5, <1>6

\* A save of the session's array is queued.
LEMMA OrderedAppended ==
    ASSUME NEW b \in Seq(Ids), NEW q \in Seq(Request), NEW a \in Seq(Ids), Ordered(b, q, a),
           NEW r \in Request, ~r.own, r.coalescible => r.edited = 0
    PROVE  Ordered(b, Append(q, r), a)
<1>1. PICK d : d = Append(q, r)
  OBVIOUS
<1>2. PICK n : n = Len(q)
  OBVIOUS
<1>3. /\ d \in Seq(Request) /\ Len(d) = n + 1 /\ n \in Nat /\ Len(a) \in Nat
      /\ d[n + 1] = r /\ \A k \in 1 .. n : d[k] = q[k]
  BY <1>1, <1>2, AppendProperties, LenProperties
<1>4. \A k \in 0 .. n : Path(b, d, a, k) = Path(b, q, a, k)
  BY <1>3 DEF Path
<1>5. Path(b, d, a, n + 1) = a
  BY <1>3 DEF Path, ArrayOf
<1>6. ASSUME NEW k \in 1 .. n + 1
      PROVE  /\ Agree(Path(b, d, a, k - 1), Path(b, d, a, k))
             /\ \/ Len(Path(b, d, a, k - 1)) <= Len(Path(b, d, a, k))
                \/ Cuts(d[k], Len(Path(b, d, a, k - 1)))
  <2>1. CASE k <= n
    <3>1. k \in 1 .. n /\ k - 1 \in 0 .. n /\ k \in 0 .. n
      BY <1>3, <2>1
    <3>2. QED
      BY <1>2, <1>3, <1>4, <3>1 DEF Ordered, Chained
  <2>2. CASE k = n + 1
    <3>1. k - 1 = n /\ n \in 0 .. n
      BY <1>3, <2>2
    <3>2. Path(b, d, a, k - 1) = Path(b, q, a, n) /\ Path(b, d, a, k) = a
      BY <1>4, <1>5, <2>2, <3>1
    <3>3. QED
      BY <1>2, <3>2, LastLasts DEF Agree
  <2>3. QED
    BY <1>3, <2>1, <2>2
<1>7. ASSUME NEW k \in 0 .. n + 1 PROVE Lasting(Path(b, d, a, k), d, k, a)
  <2>1. CASE k <= n
    <3>1. k \in 0 .. n
      BY <1>3, <2>1
    <3>2. Lasting(Path(b, q, a, k), q, k, a)
      BY <1>2, <3>1 DEF Ordered, AllLasting
    <3>3. \A i : (\E m \in k + 1 .. n : Cuts(q[m], i)) => \E m \in k + 1 .. n + 1 : Cuts(d[m], i)
      <4>1. \A m \in k + 1 .. n : m \in k + 1 .. n + 1 /\ m \in 1 .. n
        BY <1>3, <3>1
      <4>2. QED
        BY <1>3, <4>1
    <3>4. QED
      BY <1>2, <1>3, <1>4, <3>1, <3>2, <3>3 DEF Lasting
  <2>2. CASE k = n + 1
    BY <1>5, <2>2 DEF Lasting
  <2>3. QED
    BY <1>3, <2>1, <2>2
<1>8. OwnFirst(d)
  <2>1. ASSUME NEW k \in 1 .. n + 1, d[k].own PROVE \A j \in 1 .. k : d[j].own
    <3>1. k \in 1 .. n
      BY <1>3, <2>1
    <3>2. \A j \in 1 .. k : j \in 1 .. n
      BY <1>3, <3>1
    <3>3. QED
      BY <1>2, <1>3, <2>1, <3>1, <3>2 DEF Ordered, OwnFirst
  <2>2. ASSUME NEW k \in 1 .. n + 1, d[k].coalescible PROVE d[k].edited = 0
    <3>1. CASE k \in 1 .. n
      BY <1>2, <1>3, <2>2, <3>1 DEF Ordered, OwnFirst
    <3>2. CASE k = n + 1
      BY <1>3, <2>2, <3>2
    <3>3. QED
      BY <1>3, <3>1, <3>2
  <2>3. QED
    BY <1>3, <2>1, <2>2 DEF OwnFirst
<1>9. QED
  BY <1>1, <1>3, <1>6, <1>7, <1>8 DEF Ordered, Chained, AllLasting

\* A sequence without its last entry has the same ones before.
LEMMA FrontHas ==
    ASSUME NEW S, NEW s \in Seq(S), s # <<>>
    PROVE  /\ Front(s) \in Seq(S) /\ Len(Front(s)) = Len(s) - 1 /\ Len(s) \in Nat \ {0}
           /\ \A k \in 1 .. Len(s) - 1 : Front(s)[k] = s[k]
<1>1. Len(s) \in Nat \ {0}
  BY EmptySeq, LenProperties
<1>2. PICK n : n = Len(s) - 1
  OBVIOUS
<1>3. n \in Nat /\ \A k \in 1 .. n : s[k] \in S /\ k \in 1 .. Len(s)
  BY <1>1, <1>2, ElementOfSeq
<1>4. Front(s) = SubSeq(s, 1, n)
  BY <1>2 DEF Front
<1>5. /\ SubSeq(s, 1, n) \in Seq(S)
      /\ Len(SubSeq(s, 1, n)) = n
      /\ \A k \in 1 .. n : SubSeq(s, 1, n)[k] = s[k]
  <2>1. First(s, n) = SubSeq(s, 1, n) /\ Least(n, Len(s)) = n
    BY <1>1, <1>2, <1>3 DEF First, Least
  <2>2. /\ First(s, n) \in Seq(S)
        /\ Len(First(s, n)) = Least(n, Len(s))
        /\ \A i \in 1 .. Least(n, Len(s)) : First(s, n)[i] = s[i]
    <3>1. n \in Nat
      BY <1>3
    <3>2. QED
      BY <3>1, FirstIs
  <2>3. QED
    BY <2>1, <2>2
<1>6. QED
  BY <1>1, <1>2, <1>4, <1>5

\* A save that may be replaced leaves the queue.
LEMMA OrderedFront ==
    ASSUME NEW b \in Seq(Ids), NEW q \in Seq(Request), NEW a \in Seq(Ids), Ordered(b, q, a),
           q # <<>>, q[Len(q)].coalescible
    PROVE  Ordered(b, Front(q), a)
<1>1. PICK d : d = Front(q)
  OBVIOUS
<1>2. PICK n : n = Len(q) - 1
  OBVIOUS
<1>3. /\ d \in Seq(Request) /\ Len(d) = n /\ n \in Nat /\ Len(q) = n + 1
      /\ \A k \in 1 .. n : d[k] = q[k]
  <2>1. /\ d \in Seq(Request) /\ Len(d) = Len(q) - 1 /\ Len(q) \in Nat \ {0}
        /\ \A k \in 1 .. Len(q) - 1 : d[k] = q[k]
    BY <1>1, FrontHas
  <2>2. QED
    BY <1>2, <2>1
<1>4. \A k \in 0 .. n : Path(b, d, a, k) = Path(b, q, a, k)
  BY <1>3 DEF Path
<1>5. ASSUME NEW k \in 1 .. n
      PROVE  /\ Agree(Path(b, d, a, k - 1), Path(b, d, a, k))
             /\ \/ Len(Path(b, d, a, k - 1)) <= Len(Path(b, d, a, k))
                \/ Cuts(d[k], Len(Path(b, d, a, k - 1)))
  <2>1. k - 1 \in 0 .. n /\ k \in 0 .. n /\ k \in 1 .. Len(q)
    BY <1>3
  <2>2. QED
    BY <1>3, <1>4, <2>1 DEF Ordered, Chained
<1>6. ASSUME NEW k \in 0 .. n PROVE Lasting(Path(b, d, a, k), d, k, a)
  <2>1. Lasting(Path(b, q, a, k), q, k, a)
    BY <1>3 DEF Ordered, AllLasting
  <2>2. ASSUME NEW i, NEW m \in k + 1 .. n + 1, Cuts(q[m], i)
        PROVE  \E j \in k + 1 .. n : Cuts(d[j], i)
    <3>1. m # n + 1
      BY <1>3, <2>2 DEF Cuts
    <3>2. m \in k + 1 .. n /\ m \in 1 .. n
      BY <1>3, <3>1
    <3>3. QED
      BY <1>3, <2>2, <3>2
  <2>3. QED
    BY <1>3, <1>4, <2>1, <2>2 DEF Lasting
<1>7. OwnFirst(d)
  <2>1. ASSUME NEW k \in 1 .. n
        PROVE  /\ d[k].own => \A j \in 1 .. k : d[j].own
               /\ d[k].coalescible => d[k].edited = 0
    <3>1. k \in 1 .. Len(q) /\ \A j \in 1 .. k : j \in 1 .. n
      BY <1>3
    <3>2. QED
      BY <1>3, <3>1 DEF Ordered, OwnFirst
  <2>2. QED
    BY <1>3, <2>1 DEF OwnFirst
<1>8. QED
  BY <1>1, <1>3, <1>5, <1>6, <1>7 DEF Ordered, Chained, AllLasting

\* The requests waiting at a revert get copies of the array.
LEMMA OrderedOwned ==
    ASSUME NEW b \in Seq(Ids), NEW q \in Seq(Request), NEW a \in Seq(Ids), Ordered(b, q, a),
           NEW d \in Seq(Request), Len(d) = Len(q),
           \A k \in 1 .. Len(q) : /\ d[k].own /\ d[k].ids = ArrayOf(q[k], a)
                                  /\ d[k].edited = q[k].edited
                                  /\ d[k].coalescible = q[k].coalescible
    PROVE  Ordered(b, d, a)
<1>1. \A k \in 0 .. Len(q) : Path(b, d, a, k) = Path(b, q, a, k)
  BY LenProperties DEF Path, ArrayOf
<1>2. ASSUME NEW k \in 1 .. Len(q), NEW n, Cuts(q[k], n) PROVE Cuts(d[k], n)
  BY <1>2 DEF Cuts, ArrayOf
<1>3. Chained(b, d, a)
  <2>1. ASSUME NEW k \in 1 .. Len(q)
        PROVE  /\ Agree(Path(b, d, a, k - 1), Path(b, d, a, k))
               /\ \/ Len(Path(b, d, a, k - 1)) <= Len(Path(b, d, a, k))
                  \/ Cuts(d[k], Len(Path(b, d, a, k - 1)))
    <3>1. k - 1 \in 0 .. Len(q) /\ k \in 0 .. Len(q)
      BY LenProperties
    <3>2. Path(b, d, a, k - 1) = Path(b, q, a, k - 1) /\ Path(b, d, a, k) = Path(b, q, a, k)
      BY <1>1, <3>1
    <3>3. /\ Agree(Path(b, q, a, k - 1), Path(b, q, a, k))
          /\ \/ Len(Path(b, q, a, k - 1)) <= Len(Path(b, q, a, k))
             \/ Cuts(q[k], Len(Path(b, q, a, k - 1)))
      BY DEF Ordered, Chained
    <3>4. QED
      BY <1>2, <3>2, <3>3
  <2>2. QED
    BY <2>1 DEF Chained
<1>4. AllLasting(b, d, a)
  <2>1. ASSUME NEW k \in 0 .. Len(q) PROVE Lasting(Path(b, d, a, k), d, k, a)
    <3>1. Lasting(Path(b, q, a, k), q, k, a)
      BY DEF Ordered, AllLasting
    <3>2. \A m \in k + 1 .. Len(q) : m \in 1 .. Len(q)
      BY LenProperties
    <3>3. QED
      BY <1>1, <1>2, <3>1, <3>2 DEF Lasting
  <2>2. QED
    BY <2>1 DEF AllLasting
<1>5. OwnFirst(d)
  <2>1. \A k \in 1 .. Len(q) : \A j \in 1 .. k : j \in 1 .. Len(q)
    BY LenProperties
  <2>2. QED
    BY <2>1 DEF Ordered, OwnFirst
<1>6. QED
  BY <1>3, <1>4, <1>5 DEF Ordered

\* A queue loses its first entry and gets another one.
LEMMA TailAppended ==
    ASSUME NEW S, NEW q \in Seq(S), NEW r \in S, q # <<>>
    PROVE  Tail(Append(q, r)) = Append(Tail(q), r)
<1>1. Len(q) \in Nat \ {0}
  BY EmptySeq, LenProperties
<1>2. Tail(q) \in Seq(S) /\ Len(Tail(q)) = Len(q) - 1 /\ \A k \in 1 .. Len(q) - 1 : Tail(q)[k] = q[k + 1]
  BY HeadTailProperties
<1>3. PICK t : t = Tail(q)
  OBVIOUS
<1>4. PICK d : d = Append(q, r)
  OBVIOUS
<1>5. /\ d \in Seq(S) /\ Len(d) = Len(q) + 1 /\ d[Len(q) + 1] = r /\ d # <<>>
      /\ \A k \in 1 .. Len(q) : d[k] = q[k]
  BY <1>4, AppendProperties
<1>6. Tail(d) \in Seq(S) /\ Len(Tail(d)) = Len(d) - 1 /\ \A k \in 1 .. Len(d) - 1 : Tail(d)[k] = d[k + 1]
  BY <1>5, HeadTailProperties
<1>7. /\ Append(t, r) \in Seq(S) /\ Len(Append(t, r)) = Len(t) + 1 /\ Append(t, r)[Len(t) + 1] = r
      /\ \A k \in 1 .. Len(t) : Append(t, r)[k] = t[k]
  BY <1>2, <1>3, AppendProperties
<1>8. Len(Tail(d)) = Len(q) /\ Len(Append(t, r)) = Len(q)
  BY <1>1, <1>2, <1>3, <1>5, <1>6, <1>7
<1>9. ASSUME NEW k \in 1 .. Len(q) PROVE Tail(d)[k] = Append(t, r)[k]
  <2>1. Tail(d)[k] = d[k + 1]
    BY <1>1, <1>5, <1>6
  <2>2. CASE k = Len(q)
    <3>1. Append(t, r)[k] = r
      BY <1>1, <1>2, <1>3, <1>7, <2>2
    <3>2. QED
      BY <1>5, <2>1, <2>2, <3>1
  <2>3. CASE k # Len(q)
    <3>1. k \in 1 .. Len(q) - 1 /\ k + 1 \in 1 .. Len(q)
      BY <1>1, <2>3
    <3>2. Append(t, r)[k] = q[k + 1]
      BY <1>2, <1>3, <1>7, <3>1
    <3>3. QED
      BY <1>5, <2>1, <3>1, <3>2
  <2>4. QED
    BY <2>2, <2>3
<1>10. Tail(d) = Append(t, r)
  BY <1>6, <1>7, <1>8, <1>9, SeqEqual
<1>11. QED
  BY <1>3, <1>4, <1>10

\* A revert is queued behind copies.
LEMMA OrderedCut ==
    ASSUME NEW b \in Seq(Ids), NEW q \in Seq(Request), NEW a \in Seq(Ids), Ordered(b, q, a),
           \A k \in 1 .. Len(q) : q[k].own,
           NEW n \in Nat, n < Len(a),
           NEW r \in Request, r.own, r.edited = 0, ~r.coalescible, r.ids = First(a, n)
    PROVE  Ordered(b, Append(q, r), First(a, n))
<1>1. PICK d : d = Append(q, r)
  OBVIOUS
<1>2. PICK l : l = Len(q)
  OBVIOUS
<1>3. PICK c : c = First(a, n)
  OBVIOUS
<1>4. /\ d \in Seq(Request) /\ Len(d) = l + 1 /\ l \in Nat /\ Len(a) \in Nat
      /\ d[l + 1] = r /\ \A k \in 1 .. l : d[k] = q[k]
  BY <1>1, <1>2, AppendProperties, LenProperties
<1>5. c \in Seq(Ids) /\ Len(c) = n /\ \A i \in 1 .. n : c[i] = a[i]
  <2>1. Least(n, Len(a)) = n
    BY <1>4 DEF Least
  <2>2. /\ First(a, n) \in Seq(Ids) /\ Len(First(a, n)) = Least(n, Len(a))
        /\ \A i \in 1 .. Least(n, Len(a)) : First(a, n)[i] = a[i]
    BY FirstIs
  <2>3. QED
    BY <1>3, <2>1, <2>2
<1>6. \A k \in 0 .. l : Path(b, d, c, k) = Path(b, q, a, k)
  BY <1>2, <1>4 DEF Path, ArrayOf
<1>7. Path(b, d, c, l + 1) = c
  BY <1>3, <1>4 DEF Path, ArrayOf
<1>8. \A i : i > n => Cuts(d[l + 1], i)
  BY <1>3, <1>4, <1>5 DEF Cuts
<1>9. ASSUME NEW k \in 1 .. l + 1
      PROVE  /\ Agree(Path(b, d, c, k - 1), Path(b, d, c, k))
             /\ \/ Len(Path(b, d, c, k - 1)) <= Len(Path(b, d, c, k))
                \/ Cuts(d[k], Len(Path(b, d, c, k - 1)))
  <2>1. CASE k <= l
    <3>1. k \in 1 .. l /\ k - 1 \in 0 .. l /\ k \in 0 .. l
      BY <1>4, <2>1
    <3>2. QED
      BY <1>2, <1>4, <1>6, <3>1 DEF Ordered, Chained
  <2>2. CASE k = l + 1
    <3>1. k - 1 = l /\ l \in 0 .. l
      BY <1>4, <2>2
    <3>2. PICK s : s = Path(b, q, a, l)
      OBVIOUS
    <3>3. Len(s) <= Len(a) /\ \A i \in 1 .. Len(s) : s[i] = a[i]
      BY <1>2, <3>2, LastLasts
    <3>4. Len(s) \in Nat
      BY <1>2, <3>1, <3>2, PathTyped, LenProperties
    <3>5. Agree(s, c)
      <4>1. ASSUME NEW i \in 1 .. Len(s), i <= Len(c) PROVE s[i] = c[i]
        <5>1. i \in 1 .. n
          BY <1>5, <3>4, <4>1
        <5>2. QED
          BY <1>5, <3>3, <5>1
      <4>2. QED
        BY <4>1 DEF Agree
    <3>6. Len(s) <= Len(c) \/ Cuts(d[l + 1], Len(s))
      BY <1>5, <1>8, <3>4
    <3>7. Path(b, d, c, k - 1) = s /\ Path(b, d, c, k) = c
      BY <1>6, <1>7, <2>2, <3>1, <3>2
    <3>8. QED
      BY <2>2, <3>5, <3>6, <3>7
  <2>3. QED
    BY <1>4, <2>1, <2>2
<1>10. ASSUME NEW k \in 0 .. l + 1 PROVE Lasting(Path(b, d, c, k), d, k, c)
  <2>1. CASE k <= l
    <3>1. k \in 0 .. l
      BY <1>4, <2>1
    <3>2. PICK s : s = Path(b, q, a, k)
      OBVIOUS
    <3>3. Lasting(s, q, k, a) /\ Len(s) \in Nat
      BY <1>2, <3>1, <3>2, PathTyped, LenProperties DEF Ordered, AllLasting
    <3>4. ASSUME NEW i \in 1 .. Len(s)
          PROVE  (i <= Len(c) /\ s[i] = c[i]) \/ \E m \in k + 1 .. l + 1 : Cuts(d[m], i)
      <4>1. CASE i > n
        <5>1. l + 1 \in k + 1 .. l + 1
          BY <1>4, <3>1
        <5>2. QED
          BY <1>8, <4>1, <5>1
      <4>2. CASE i <= n
        <5>1. CASE i <= Len(a) /\ s[i] = a[i]
          BY <1>5, <4>2, <5>1
        <5>2. CASE \E m \in k + 1 .. l : Cuts(q[m], i)
          <6>1. PICK m \in k + 1 .. l : Cuts(q[m], i)
            BY <5>2
          <6>2. m \in k + 1 .. l + 1 /\ m \in 1 .. l
            BY <1>4, <3>1
          <6>3. QED
            BY <1>4, <6>1, <6>2
        <5>3. QED
          BY <1>2, <3>3, <5>1, <5>2 DEF Lasting
      <4>3. QED
        BY <1>5, <3>3, <4>1, <4>2
    <3>5. QED
      BY <1>4, <1>6, <3>1, <3>2, <3>4 DEF Lasting
  <2>2. CASE k = l + 1
    BY <1>5, <1>7, <2>2 DEF Lasting
  <2>3. QED
    BY <1>4, <2>1, <2>2
<1>11. OwnFirst(d)
  <2>1. ASSUME NEW k \in 1 .. l + 1 PROVE \A j \in 1 .. k : d[j].own
    <3>1. ASSUME NEW j \in 1 .. k PROVE d[j].own
      <4>1. j \in 1 .. l \/ j = l + 1
        BY <1>4
      <4>2. QED
        BY <1>2, <1>4, <4>1
    <3>2. QED
      BY <3>1
  <2>2. ASSUME NEW k \in 1 .. l + 1, d[k].coalescible PROVE d[k].edited = 0
    <3>1. k \in 1 .. l \/ k = l + 1
      BY <1>4
    <3>2. QED
      BY <1>2, <1>4, <2>2, <3>1 DEF Ordered, OwnFirst
  <2>3. QED
    BY <1>4, <2>1, <2>2 DEF OwnFirst
<1>12. QED
  BY <1>1, <1>3, <1>4, <1>9, <1>10, <1>11 DEF Ordered, Chained, AllLasting

\* A part of the first array is as good.
LEMMA OrderedFrom ==
    ASSUME NEW b \in Seq(Ids), NEW c \in Seq(Ids), NEW q \in Seq(Request), NEW a \in Seq(Ids),
           Ordered(b, q, a), Len(c) <= Len(b), \A i \in 1 .. Len(c) : c[i] = b[i]
    PROVE  Ordered(c, q, a)
<1>1. Len(q) \in Nat /\ Len(b) \in Nat /\ Len(c) \in Nat
  BY LenProperties
<1>2. \A k \in 1 .. Len(q) : Path(c, q, a, k) = Path(b, q, a, k)
  BY <1>1 DEF Path
<1>3. Path(c, q, a, 0) = c /\ Path(b, q, a, 0) = b
  BY DEF Path
<1>4. ASSUME NEW k \in 1 .. Len(q)
      PROVE  /\ Agree(Path(c, q, a, k - 1), Path(c, q, a, k))
             /\ \/ Len(Path(c, q, a, k - 1)) <= Len(Path(c, q, a, k))
                \/ Cuts(q[k], Len(Path(c, q, a, k - 1)))
  <2>1. /\ Agree(Path(b, q, a, k - 1), Path(b, q, a, k))
        /\ \/ Len(Path(b, q, a, k - 1)) <= Len(Path(b, q, a, k))
           \/ Cuts(q[k], Len(Path(b, q, a, k - 1)))
    BY DEF Ordered, Chained
  <2>2. CASE k # 1
    <3>1. k - 1 \in 1 .. Len(q)
      BY <1>1, <2>2
    <3>2. QED
      BY <1>2, <2>1, <3>1
  <2>3. CASE k = 1
    <3>1. PICK s : s = Path(b, q, a, 1)
      OBVIOUS
    <3>2. Path(c, q, a, 1) = s /\ Path(c, q, a, k - 1) = c /\ Path(b, q, a, k - 1) = b
      BY <1>2, <1>3, <2>3, <3>1
    <3>3. Agree(b, s) /\ (Len(b) <= Len(s) \/ Cuts(q[1], Len(b)))
      BY <2>1, <2>3, <3>1, <3>2
    <3>4. Len(s) \in Nat
      <4>1. 1 \in 0 .. Len(q)
        BY <1>1, <2>3
      <4>2. QED
        BY <3>1, <4>1, PathTyped, LenProperties
    <3>5. Agree(c, s)
      <4>1. \A i \in 1 .. Len(c) : i \in 1 .. Len(b)
        BY <1>1
      <4>2. QED
        BY <3>3, <4>1 DEF Agree
    <3>6. Len(c) <= Len(s) \/ Cuts(q[1], Len(c))
      <4>1. CASE Len(b) <= Len(s)
        BY <1>1, <3>4, <4>1
      <4>2. CASE Cuts(q[1], Len(b))
        <5>1. s = q[1].ids
          BY <3>1, <4>2 DEF Path, ArrayOf, Cuts
        <5>2. QED
          BY <1>1, <3>4, <4>2, <5>1 DEF Cuts
      <4>3. QED
        BY <3>3, <4>1, <4>2
    <3>7. QED
      BY <2>3, <3>1, <3>2, <3>5, <3>6
  <2>4. QED
    BY <2>2, <2>3
<1>5. ASSUME NEW k \in 0 .. Len(q) PROVE Lasting(Path(c, q, a, k), q, k, a)
  <2>1. Lasting(Path(b, q, a, k), q, k, a)
    BY DEF Ordered, AllLasting
  <2>2. CASE k # 0
    <3>1. k \in 1 .. Len(q)
      BY <1>1, <2>2
    <3>2. QED
      BY <1>2, <2>1, <3>1
  <2>3. CASE k = 0
    <3>1. \A i \in 1 .. Len(c) : i \in 1 .. Len(b)
      BY <1>1
    <3>2. QED
      BY <1>3, <2>1, <2>3, <3>1 DEF Lasting
  <2>4. QED
    BY <2>2, <2>3
<1>6. QED
  BY <1>4, <1>5 DEF Ordered, Chained, AllLasting

\* The first request is taken from the queue.
LEMMA OrderedTail ==
    ASSUME NEW b \in Seq(Ids), NEW q \in Seq(Request), NEW a \in Seq(Ids), Ordered(b, q, a),
           q # <<>>
    PROVE  Ordered(ArrayOf(q[1], a), Tail(q), a)
<1>1. PICK d : d = Tail(q)
  OBVIOUS
<1>2. PICK n : n = Len(q) - 1
  OBVIOUS
<1>3. PICK c : c = ArrayOf(q[1], a)
  OBVIOUS
<1>4. /\ d \in Seq(Request) /\ Len(d) = n /\ n \in Nat /\ Len(q) = n + 1
      /\ \A k \in 1 .. n : d[k] = q[k + 1]
  <2>1. Len(q) \in Nat \ {0}
    BY EmptySeq, LenProperties
  <2>2. Tail(q) \in Seq(Request) /\ Len(Tail(q)) = Len(q) - 1
        /\ \A k \in 1 .. Len(q) - 1 : Tail(q)[k] = q[k + 1]
    BY HeadTailProperties
  <2>3. QED
    BY <1>1, <1>2, <2>1, <2>2
<1>5. \A k \in 0 .. n : Path(c, d, a, k) = Path(b, q, a, k + 1)
  <2>1. ASSUME NEW k \in 0 .. n PROVE Path(c, d, a, k) = Path(b, q, a, k + 1)
    <3>1. CASE k = 0
      BY <1>3, <3>1 DEF Path
    <3>2. CASE k # 0
      <4>1. k \in 1 .. n /\ k + 1 # 0
        BY <1>4, <3>2
      <4>2. QED
        BY <1>4, <3>2, <4>1 DEF Path
    <3>3. QED
      BY <3>1, <3>2
  <2>2. QED
    BY <2>1
<1>6. ASSUME NEW k \in 1 .. n
      PROVE  /\ Agree(Path(c, d, a, k - 1), Path(c, d, a, k))
             /\ \/ Len(Path(c, d, a, k - 1)) <= Len(Path(c, d, a, k))
                \/ Cuts(d[k], Len(Path(c, d, a, k - 1)))
  <2>1. k - 1 \in 0 .. n /\ k \in 0 .. n /\ k + 1 \in 1 .. Len(q) /\ k - 1 + 1 = k /\ k + 1 - 1 = k
    BY <1>4
  <2>2. /\ Agree(Path(b, q, a, k), Path(b, q, a, k + 1))
        /\ \/ Len(Path(b, q, a, k)) <= Len(Path(b, q, a, k + 1))
           \/ Cuts(q[k + 1], Len(Path(b, q, a, k)))
    BY <2>1 DEF Ordered, Chained
  <2>3. Path(c, d, a, k - 1) = Path(b, q, a, k) /\ Path(c, d, a, k) = Path(b, q, a, k + 1)
    BY <1>5, <2>1
  <2>4. QED
    BY <1>4, <2>2, <2>3
<1>7. ASSUME NEW k \in 0 .. n PROVE Lasting(Path(c, d, a, k), d, k, a)
  <2>1. k + 1 \in 0 .. Len(q)
    BY <1>4
  <2>2. Lasting(Path(b, q, a, k + 1), q, k + 1, a)
    BY <2>1 DEF Ordered, AllLasting
  <2>3. ASSUME NEW i, NEW m \in k + 1 + 1 .. Len(q), Cuts(q[m], i)
        PROVE  \E j \in k + 1 .. Len(d) : Cuts(d[j], i)
    <3>1. m - 1 \in k + 1 .. n /\ m - 1 \in 1 .. n /\ m - 1 + 1 = m
      BY <1>4
    <3>2. d[m - 1] = q[m]
      BY <1>4, <3>1
    <3>3. QED
      BY <1>4, <2>3, <3>1, <3>2
  <2>4. Path(c, d, a, k) = Path(b, q, a, k + 1)
    BY <1>5
  <2>5. PICK s : s = Path(b, q, a, k + 1)
    OBVIOUS
  <2>6. ASSUME NEW i \in 1 .. Len(s)
        PROVE  (i <= Len(a) /\ s[i] = a[i]) \/ \E j \in k + 1 .. Len(d) : Cuts(d[j], i)
    <3>1. (i <= Len(a) /\ s[i] = a[i]) \/ \E m \in k + 1 + 1 .. Len(q) : Cuts(q[m], i)
      BY <2>2, <2>5 DEF Lasting
    <3>2. QED
      BY <2>3, <3>1
  <2>7. QED
    BY <2>4, <2>5, <2>6 DEF Lasting
<1>8. OwnFirst(d)
  <2>1. ASSUME NEW k \in 1 .. n
        PROVE  /\ d[k].own => \A j \in 1 .. k : d[j].own
               /\ d[k].coalescible => d[k].edited = 0
    <3>1. k + 1 \in 1 .. Len(q) /\ \A j \in 1 .. k : j + 1 \in 1 .. k + 1 /\ j \in 1 .. n
      BY <1>4
    <3>2. QED
      BY <1>4, <3>1 DEF Ordered, OwnFirst
  <2>2. QED
    BY <1>4, <2>1 DEF OwnFirst
<1>9. QED
  BY <1>1, <1>3, <1>4, <1>6, <1>7, <1>8 DEF Ordered, Chained, AllLasting

\* Without a queue only the first array counts.
LEMMA OrderedEmpty ==
    ASSUME NEW b \in Seq(Ids), NEW a \in Seq(Ids),
           Len(b) <= Len(a), \A i \in 1 .. Len(b) : b[i] = a[i]
    PROVE  Ordered(b, <<>>, a)
<1>1. Len(<<>>) = 0
  BY EmptySeq
<1>2. Chained(b, <<>>, a) /\ OwnFirst(<<>>)
  BY <1>1 DEF Chained, OwnFirst
<1>3. \A i \in 1 .. Len(b) : i <= Len(a)
  BY LenProperties
<1>4. AllLasting(b, <<>>, a)
  BY <1>1, <1>3 DEF AllLasting, Lasting, Path
<1>5. QED
  BY <1>2, <1>4 DEF Ordered

-----------------------------------------------------------------------------
(***************************************************************************)
(* The waiting requests.                                                   *)
(***************************************************************************)
LEMMA WaitingTyped ==
    ASSUME TypeOK, RunningFirst
    PROVE  Waiting \in Seq(Request)
BY HeadTailProperties DEF TypeOK, RunningFirst, Waiting

\* A request is queued.
LEMMA WaitingAppended ==
    ASSUME TypeOK, RunningFirst, UNCHANGED writer, NEW r \in Request,
           requests' = Append(requests, r)
    PROVE  Waiting' = Append(Waiting, r)
<1>1. requests \in Seq(Request)
  BY DEF TypeOK
<1>2. CASE writer.step = "idle"
  BY <1>2 DEF Waiting
<1>3. CASE writer.step # "idle"
  <2>1. requests # <<>>
    BY <1>3 DEF RunningFirst
  <2>2. Tail(Append(requests, r)) = Append(Tail(requests), r)
    BY <1>1, <2>1, TailAppended
  <2>3. QED
    BY <1>3, <2>2 DEF Waiting
<1>4. QED
  BY <1>2, <1>3

\* A request takes the place of the last one that waits, or follows it.
LEMMA WaitingEnqueued ==
    ASSUME TypeOK, RunningFirst, UNCHANGED writer, NEW r \in Request, NEW q \in Seq(Request),
           Len(q) = Len(requests), requests' = Enqueued(q, r)
    PROVE  LET w == IF writer.step = "idle" THEN q ELSE Tail(q)
           IN /\ w \in Seq(Request)
              /\ \/ Waiting' = Append(w, r)
                 \/ /\ w # <<>> /\ w[Len(w)].coalescible /\ r.coalescible
                    /\ Waiting' = Append(Front(w), r)
<1>1. requests \in Seq(Request) /\ Len(q) \in Nat
  BY LenProperties DEF TypeOK
<1>2. CASE writer.step = "idle"
  BY <1>2, <1>1 DEF Waiting, Enqueued, Last
<1>3. CASE writer.step # "idle"
  <2>1. requests # <<>> /\ Len(requests) # 0 /\ q # <<>> /\ Len(q) \in Nat \ {0}
    BY <1>1, <1>3, EmptySeq DEF RunningFirst
  <2>2. PICK w : w = Tail(q)
    OBVIOUS
  <2>3. w \in Seq(Request) /\ Len(w) = Len(q) - 1 /\ \A i \in 1 .. Len(w) : w[i] = q[i + 1]
    BY <2>1, <2>2, HeadTailProperties
  <2>4. Tail(Append(q, r)) = Append(w, r)
    BY <2>1, <2>2, TailAppended
  <2>5. CASE requests' = Append(q, r)
    BY <1>3, <2>2, <2>3, <2>4, <2>5 DEF Waiting
  <2>6. CASE /\ r.coalescible /\ Last(q).coalescible /\ Len(q) # 1
             /\ requests' = Append(Front(q), r)
    <3>1. Len(w) \in Nat \ {0} /\ w # <<>>
      BY <2>1, <2>3, <2>6, EmptySeq
    <3>2. w[Len(w)] = q[Len(q)]
      BY <2>1, <2>3, <3>1
    <3>3. Front(q) \in Seq(Request) /\ Front(q) # <<>>
      BY <2>1, <2>3, <3>1, FrontHas, EmptySeq
    <3>4. Tail(Append(Front(q), r)) = Append(Tail(Front(q)), r)
      BY <3>3, TailAppended
    <3>5. Tail(Front(q)) = Front(w)
      <4>1. PICK n : n = Len(q) - 1
        OBVIOUS
      <4>2. n \in Nat \ {0} /\ Len(q) = n + 1 /\ Len(w) = n
        BY <2>1, <2>3, <3>1, <4>1
      <4>3. Len(Front(q)) = n /\ \A k \in 1 .. n : Front(q)[k] = q[k]
        BY <2>1, <4>1, FrontHas
      <4>4. /\ Front(w) \in Seq(Request) /\ Len(Front(w)) = n - 1
            /\ \A k \in 1 .. n - 1 : Front(w)[k] = w[k]
        BY <2>3, <3>1, <4>2, FrontHas
      <4>5. /\ Tail(Front(q)) \in Seq(Request) /\ Len(Tail(Front(q))) = n - 1
            /\ \A k \in 1 .. n - 1 : Tail(Front(q))[k] = Front(q)[k + 1]
        BY <3>3, <4>3, HeadTailProperties
      <4>6. \A k \in 1 .. n - 1 : k + 1 \in 1 .. n /\ k \in 1 .. Len(w)
        BY <4>2
      <4>7. \A k \in 1 .. n - 1 : Tail(Front(q))[k] = Front(w)[k]
        BY <2>3, <4>3, <4>4, <4>5, <4>6
      <4>8. QED
        BY <4>4, <4>5, <4>7, SeqEqual
    <3>6. Waiting' = Append(Front(w), r)
      BY <1>3, <2>6, <3>4, <3>5 DEF Waiting
    <3>7. QED
      BY <1>3, <2>2, <2>3, <2>6, <3>1, <3>2, <3>6 DEF Last
  <2>7. QED
    BY <1>3, <2>1, <2>5, <2>6 DEF Enqueued
<1>4. QED
  BY <1>2, <1>3

-----------------------------------------------------------------------------
(***************************************************************************)
(* Rows that are written again.                                            *)
(***************************************************************************)
\* Nothing is owed any less.
Redoes(q, d) == \A i, n : Redone(q, i, n) => Redone(d, i, n)

LEMMA RedoesAppended ==
    ASSUME NEW q \in Seq(Request), NEW r \in Request
    PROVE  Redoes(q, Append(q, r))
<1>1. PICK d : d = Append(q, r)
  OBVIOUS
<1>2. Len(d) = Len(q) + 1 /\ Len(q) \in Nat /\ \A k \in 1 .. Len(q) : d[k] = q[k]
  BY <1>1, AppendProperties, LenProperties
<1>3. \A k \in 1 .. Len(q) : k \in 1 .. Len(d)
  BY <1>2
<1>4. QED
  BY <1>1, <1>2, <1>3 DEF Redoes, Redone

\* A save that may be replaced owes nothing.
LEMMA RedoesFront ==
    ASSUME NEW q \in Seq(Request), q # <<>>, q[Len(q)].coalescible, OwnFirst(q)
    PROVE  \A i \in Nat \ {0} : \A n : Redone(q, i, n) => Redone(Front(q), i, n)
<1>1. PICK d : d = Front(q)
  OBVIOUS
<1>2. Len(d) = Len(q) - 1 /\ Len(q) \in Nat \ {0} /\ \A k \in 1 .. Len(q) - 1 : d[k] = q[k]
  BY <1>1, FrontHas
<1>3. q[Len(q)].edited = 0
  BY <1>2 DEF OwnFirst
<1>4. ASSUME NEW i \in Nat \ {0}, NEW n, NEW k \in 1 .. Len(q), q[k].edited = i \/ Cuts(q[k], n)
      PROVE  k \in 1 .. Len(d) /\ (d[k].edited = i \/ Cuts(d[k], n))
  <2>1. k # Len(q)
    BY <1>3, <1>4 DEF Cuts
  <2>2. k \in 1 .. Len(q) - 1
    BY <1>2, <2>1
  <2>3. QED
    BY <1>2, <1>4, <2>2
<1>5. QED
  BY <1>1, <1>4 DEF Redone

\* Rows that are kept stay so while none changes.
LEMMA KeptMore ==
    ASSUME NEW v, NEW q, NEW d, NEW rows, NEW m \in Nat, NEW n, Kept(v, q, rows, m, n),
           \A i \in Nat \ {0} : Redone(q, i, n) => Redone(d, i, n)
    PROVE  Kept(v, d, rows, m, n)
<1>1. \A i \in m + 1 .. n : i \in Nat \ {0}
  OBVIOUS
<1>2. QED
  BY <1>1 DEF Kept

\* A row that is not where the session has it is cut off later.
LEMMA CutLater ==
    ASSUME NEW b \in Seq(Ids), NEW q \in Seq(Request), NEW a \in Seq(Ids), Ordered(b, q, a),
           NEW n \in Nat, NEW k \in 1 .. n, k <= Len(b), ~(k <= Len(a) /\ b[k] = a[k])
    PROVE  \E m \in 1 .. Len(q) : Cuts(q[m], n)
<1>1. Len(q) \in Nat /\ k \in 1 .. Len(b) /\ 0 \in 0 .. Len(q)
  BY LenProperties
<1>2. Lasting(b, q, 0, a)
  BY <1>1 DEF Ordered, AllLasting, Path
<1>3. PICK m \in 0 + 1 .. Len(q) : Cuts(q[m], k)
  BY <1>1, <1>2 DEF Lasting
<1>4. m \in 1 .. Len(q)
  BY <1>1
<1>5. Cuts(q[m], n)
  <2>1. q[m].ids \in Seq(Ids)
    <3>1. q[m] \in Request
      BY <1>4, ElementOfSeq
    <3>2. QED
      BY <3>1 DEF Request
  <2>2. Len(q[m].ids) \in Nat
    BY <2>1, LenProperties
  <2>3. QED
    BY <1>3, <2>2 DEF Cuts
<1>6. QED
  BY <1>4, <1>5

\* A row changes: the rows kept are, if its copy among them is written again.
LEMMA KeptEdited ==
    ASSUME NEW b \in Seq(Ids), NEW q \in Seq(Request), NEW a \in Seq(Ids), Ordered(b, q, a),
           IsInjective(a), NEW d, Redoes(q, d),
           NEW v \in [Ids -> Nat], NEW i \in 1 .. Len(a),
           NEW rows \in Seq(Row), NEW m \in Nat, NEW n \in Nat, n <= Len(b), n <= Len(rows),
           \A k \in 1 .. n : rows[k].id = b[k],
           i <= n /\ b[i] = a[i] => Redone(d, i, n),
           Kept(v, q, rows, m, n)
    PROVE  Kept([v EXCEPT ![a[i]] = @ + 1], d, rows, m, n)
<1>1. PICK w : w = [v EXCEPT ![a[i]] = @ + 1]
  OBVIOUS
<1>2. a[i] \in Ids /\ DOMAIN a = 1 .. Len(a) /\ Len(rows) \in Nat /\ Len(b) \in Nat /\ Len(a) \in Nat
  BY ElementOfSeq, LenProperties
<1>3. \A c \in Ids : c # a[i] => w[c] = v[c]
  BY <1>1, <1>2
<1>4. ASSUME NEW k \in m + 1 .. n
      PROVE  rows[k].ver = w[rows[k].id] \/ Redone(d, k, n)
  <2>1. k \in 1 .. n /\ k \in 1 .. Len(rows) /\ k \in 1 .. Len(b)
    <3>1. k \in Nat /\ 1 <= k /\ k <= n
      OBVIOUS
    <3>2. k <= Len(rows) /\ k <= Len(b)
      BY <1>2, <3>1
    <3>3. QED
      BY <1>2, <3>1, <3>2
  <2>2. rows[k].id = b[k] /\ b[k] \in Ids
    BY <2>1, ElementOfSeq
  <2>3. CASE b[k] # a[i]
    BY <1>3, <1>4, <2>2, <2>3 DEF Kept, Redoes
  <2>4. CASE b[k] = a[i] /\ k <= Len(a) /\ b[k] = a[k]
    <3>1. k \in DOMAIN a /\ i \in DOMAIN a /\ a[k] = a[i]
      BY <1>2, <2>1, <2>4
    <3>2. k = i
      BY <3>1 DEF IsInjective
    <3>3. QED
      BY <2>1, <2>4, <3>2
  <2>5. CASE ~(k <= Len(a) /\ b[k] = a[k])
    <3>1. PICK l \in 1 .. n : l = k
      BY <2>1
    <3>2. l <= Len(b) /\ ~(l <= Len(a) /\ b[l] = a[l])
      BY <1>2, <2>1, <2>5, <3>1
    <3>3. \E j \in 1 .. Len(q) : Cuts(q[j], n)
      BY <3>2, CutLater
    <3>4. QED
      BY <3>3 DEF Redoes, Redone
  <2>6. QED
    BY <2>3, <2>4, <2>5
<1>5. QED
  BY <1>1, <1>4 DEF Kept

\* The cutoff is at the last row that ends a turn.
LEMMA CutoffIs ==
    ASSUME NEW ids \in Seq(Ids)
    PROVE  /\ Cutoff(ids) # 0 => Cutoff(ids) \in 1 .. Len(ids) /\ ids[Cutoff(ids)] \in Results
           /\ \A i \in 1 .. Len(ids) : ids[i] \in Results => i <= Cutoff(ids)
<1> DEFINE S == {0} \cup {i \in DOMAIN ids : ids[i] \in Results}
<1>1. DOMAIN ids = 1 .. Len(ids) /\ Len(ids) \in Nat
  BY LenProperties
<1>2. S \subseteq 0 .. Len(ids) /\ S # {}
  BY <1>1
<1>3. Max(S) \in S /\ \A x \in S : Max(S) >= x
  <2> HIDE DEF S
  <2> QED
    BY <1>1, <1>2, Greatest
<1>4. Cutoff(ids) = Max(S)
  BY DEF Cutoff
<1>5. Cutoff(ids) \in 0 .. Len(ids)
  BY CutoffWithin
<1>6. Cutoff(ids) # 0 => Cutoff(ids) \in 1 .. Len(ids) /\ ids[Cutoff(ids)] \in Results
  BY <1>1, <1>3, <1>4, <1>5
<1>7. ASSUME NEW i \in 1 .. Len(ids), ids[i] \in Results PROVE i <= Cutoff(ids)
  <2>1. i \in S
    BY <1>1, <1>7
  <2>2. QED
    BY <1>3, <1>4, <1>5, <2>1
<1>8. QED
  BY <1>6, <1>7

\* A row of the running turn lies behind the frozen ones, or they are cut.
LEMMA MutatedRedone ==
    ASSUME NEW b \in Seq(Ids), NEW q \in Seq(Request), NEW a \in Seq(Ids), Ordered(b, q, a),
           NEW i \in 1 .. Len(a), i > Cutoff(a),
           NEW n \in Nat, i <= n, n <= Len(b),
           NEW ids \in Seq(Ids), Len(ids) = n, \A k \in 1 .. n : ids[k] = b[k],
           i <= Cutoff(ids)
    PROVE  Redone(q, i, n)
<1>1. PICK j : j = Cutoff(ids)
  OBVIOUS
<1>2. j \in 1 .. n /\ ids[j] \in Results /\ j >= i
  <2>1. Cutoff(ids) # 0
    BY CutoffWithin
  <2>2. QED
    BY <1>1, <2>1, CutoffIs
<1>3. ~(j <= Len(a) /\ b[j] = a[j])
  <2>1. SUFFICES ASSUME j <= Len(a), b[j] = a[j] PROVE FALSE
    OBVIOUS
  <2>2. j \in 1 .. Len(a) /\ a[j] \in Results
    BY <1>2, <2>1
  <2>3. j <= Cutoff(a)
    BY <2>2, CutoffIs
  <2>4. Cutoff(a) \in Nat
    BY CutoffWithin, LenProperties
  <2>5. QED
    BY <1>2, <2>3, <2>4
<1>4. j <= Len(b)
  BY <1>2, LenProperties
<1>5. \E m \in 1 .. Len(q) : Cuts(q[m], n)
  BY <1>2, <1>3, <1>4, CutLater
<1>6. QED
  BY <1>5 DEF Redone

-----------------------------------------------------------------------------
(***************************************************************************)
(* What the session does to what is saved.                                 *)
(***************************************************************************)
\* The frozen rows in the files.
LEMMA StoredTyped ==
    ASSUME IInv
    PROVE  Stored \in Seq(Row) /\ IdsOf(Stored) \in Seq(Ids) /\ Base \in Seq(Ids)
<1>1. /\ generations \in [Gens -> Seq(Commit)] /\ reference \in Reference /\ log.rows \in Seq(Row)
      /\ frozen \in Nat /\ writer.rows \in Seq(Row)
  BY DEF IInv, TypeOK, Writer
<1>2. reference # NoReference => RowsOfGeneration(reference) \in Seq(Row)
  BY <1>1, RowsTyped DEF IInv, HeadInv, HeadsHeld
<1>3. Stored \in Seq(Row)
  BY <1>1, <1>2, FirstIs DEF Stored
<1>4. IdsOf(Stored) \in Seq(Ids) /\ IdsOf(writer.rows) \in Seq(Ids) /\ <<>> \in Seq(Ids)
  BY <1>1, <1>3, IdsTyped, EmptySeq
<1>5. QED
  BY <1>3, <1>4 DEF Base, FrozenIds

\* The ids of rows, one by one.
LEMMA IdsAre ==
    ASSUME NEW rows \in Seq(Row)
    PROVE  /\ IdsOf(rows) \in Seq(Ids) /\ Len(IdsOf(rows)) = Len(rows) /\ Len(rows) \in Nat
           /\ \A i \in 1 .. Len(rows) : IdsOf(rows)[i] = rows[i].id
<1>1. DOMAIN rows = 1 .. Len(rows) /\ Len(rows) \in Nat
  BY LenProperties
<1>2. DOMAIN IdsOf(rows) = 1 .. Len(rows) /\ \A i \in 1 .. Len(rows) : IdsOf(rows)[i] = rows[i].id
  BY <1>1 DEF IdsOf
<1>3. IdsOf(rows) \in Seq(Ids)
  BY IdsTyped
<1>4. Len(IdsOf(rows)) = Len(rows)
  BY <1>1, <1>2, <1>3, LenProperties
<1>5. QED
  BY <1>1, <1>2, <1>3, <1>4

\* The files and what is known of them do not change with the session.
LEMMA SessionApart ==
    ASSUME UNCHANGED <<writer, memory, disk>>
    PROVE  /\ Stored' = Stored /\ Base' = Base /\ Busy' = Busy /\ Trusts' = Trusts
           /\ Captured => Captured'
           /\ JournalInv => JournalInv'
           /\ StoredInv => StoredInv'
           /\ NewInv => NewInv'
<1>1. UNCHANGED <<writer, frozen, reference, cache, failures, hot, log, generations>>
  BY DEF memory, disk
<1>2. Stored' = Stored
  BY <1>1 DEF Stored, RowsOfGeneration
<1>3. Busy' = Busy /\ Trusts' = Trusts /\ Base' = Base
  BY <1>1, <1>2 DEF Busy, Trusts, Base, FrozenIds
<1>4. Captured => Captured'
  BY <1>1, <1>3 DEF Captured
<1>5. JournalInv => JournalInv'
  BY <1>1 DEF JournalInv, RowsOfGeneration, HeadOf
<1>6. StoredInv => StoredInv'
  BY <1>1, <1>2, <1>3 DEF StoredInv
<1>7. NewInv => NewInv'
  BY <1>1 DEF NewInv
<1>8. QED
  BY <1>2, <1>3, <1>4, <1>5, <1>6, <1>7

\* More rows are in use than before.
LEMMA GotMore ==
    ASSUME NEW n \in Nat, NEW m \in Nat, m >= n
    PROVE  /\ \A s \in Seq(Ids) : Got(s, n) => Got(s, m)
           /\ \A rows \in Seq(Row) : GotRows(rows, n) => GotRows(rows, m)
<1>1. ASSUME NEW s \in Seq(Ids), Got(s, n) PROVE Got(s, m)
  <2>1. ASSUME NEW i \in 1 .. Len(s) PROVE s[i] <= m
    <3>1. s[i] \in Ids
      BY ElementOfSeq
    <3>2. QED
      BY <1>1, <3>1, SessionAssumption DEF Got, Ids
  <2>2. QED
    BY <2>1 DEF Got
<1>2. ASSUME NEW rows \in Seq(Row), GotRows(rows, n) PROVE GotRows(rows, m)
  <2>1. ASSUME NEW i \in 1 .. Len(rows) PROVE rows[i].id <= m
    <3>1. rows[i] \in Row
      BY ElementOfSeq
    <3>2. rows[i].id \in Ids
      BY <3>1 DEF Row
    <3>3. QED
      BY <1>2, <3>2, SessionAssumption DEF GotRows, Ids
  <2>2. QED
    BY <2>1 DEF GotRows
<1>3. QED
  BY <1>1, <1>2

\* A step of the session after which something waits.
LEMMA SessionKeeps ==
    ASSUME IInv, FInv, UNCHANGED <<writer, memory, disk>>,
           used' \in Nat, used' >= used,
           Got(live', used'), \A k \in 1 .. Len(requests') : Got(requests'[k].ids, used'),
           debounced' \/ Waiting' # <<>>,
           spoiled => spoiled',
           ~spoiled' => QueueInv' /\ KeptInv'
    PROVE  FInv'
<1>1. Captured' /\ JournalInv'
  BY SessionApart DEF FInv
<1>2. UsedInv'
  <2>1. UNCHANGED <<writer, reference, hot, log, generations>> /\ UsedInv
    BY DEF memory, disk, FInv
  <2>2. /\ writer.rows \in Seq(Row) /\ writer.new.rows \in Seq(Row) /\ hot.tail \in Seq(Row)
        /\ log.rows \in Seq(Row) /\ used \in Nat
        /\ reference # NoReference => RowsOfGeneration(reference) \in Seq(Row)
    <3>1. reference # NoReference => RowsOfGeneration(reference) \in Seq(Row)
      BY RowsTyped DEF IInv, TypeOK, HeadInv, HeadsHeld
    <3>2. QED
      BY <3>1, SessionAssumption DEF IInv, TypeOK, Writer, JournalCache
  <2>3. \A rows \in Seq(Row) : GotRows(rows, used) => GotRows(rows, used')
    BY <2>2, GotMore
  <2>4. RowsOfGeneration(reference)' = RowsOfGeneration(reference)
    BY <2>1 DEF RowsOfGeneration
  <2>5. QED
    BY <2>1, <2>2, <2>3, <2>4 DEF UsedInv
<1>3. ASSUME ~spoiled' PROVE SavedInv'
  <2>1. StoredInv' /\ NewInv'
    BY <1>3, SessionApart DEF FInv, SavedInv
  <2>2. Settled'
    BY DEF Settled
  <2>3. QED
    BY <1>3, <2>1, <2>2 DEF SavedInv
<1>4. QED
  BY <1>1, <1>2, <1>3 DEF FInv

\* The queue grows while no row changes.
LEMMA KeptQueued ==
    ASSUME IInv, KeptInv, UNCHANGED <<writer, memory, disk, version>>,
           \A i \in Nat \ {0} : \A n : Redone(Waiting, i, n) => Redone(Waiting', i, n)
    PROVE  KeptInv'
<1>1. UNCHANGED <<writer, frozen, version>> /\ Stored' = Stored /\ Busy' = Busy /\ Trusts' = Trusts
  BY SessionApart DEF memory
<1>2. writer.shared \in Nat
  BY DEF IInv, TypeOK, Writer
<1>3. ASSUME Trusts PROVE Kept(version, Waiting', Stored, 0, frozen)
  BY <1>3, KeptMore DEF KeptInv
<1>4. ASSUME Busy PROVE Kept(version, Waiting', writer.rows, writer.shared, writer.frozen)
  BY <1>2, <1>4, KeptMore DEF KeptInv
<1>5. ASSUME writer.step \in {"publish", "retire"}
      PROVE  Kept(version, Waiting', writer.new.rows, 0, writer.frozen)
  BY <1>5, KeptMore DEF KeptInv
<1>6. QED
  BY <1>1, <1>3, <1>4, <1>5 DEF KeptInv

\* The frozen rows, those of the save and those committed are those of the base.
LEMMA BaseHas ==
    ASSUME IInv, FInv, SavedInv
    PROVE  /\ Trusts => /\ frozen <= Len(Base) /\ frozen <= Len(Stored)
                        /\ \A k \in 1 .. frozen : Stored[k].id = Base[k]
           /\ Busy => /\ writer.frozen <= Len(Base) /\ writer.frozen <= Len(writer.rows)
                      /\ \A k \in 1 .. writer.frozen : writer.rows[k].id = Base[k]
           /\ writer.step \in {"publish", "retire"} =>
                 /\ writer.frozen <= Len(writer.new.rows)
                 /\ \A k \in 1 .. writer.frozen : writer.new.rows[k].id = Base[k]
<1>1. /\ writer.rows \in Seq(Row) /\ writer.frozen \in Nat /\ frozen \in Nat
      /\ writer.frozen <= Len(writer.rows) /\ Stored \in Seq(Row) /\ writer.new.frozen <= Len(writer.new.rows)
  BY StoredTyped DEF IInv, TypeOK, HeadInv, FrozenWithin, Writer
<1>2. /\ Len(IdsOf(writer.rows)) = Len(writer.rows) /\ Len(writer.rows) \in Nat
      /\ \A i \in 1 .. Len(writer.rows) : IdsOf(writer.rows)[i] = writer.rows[i].id
  BY <1>1, IdsAre
<1>3. /\ Len(IdsOf(Stored)) = Len(Stored) /\ Len(Stored) \in Nat
      /\ \A i \in 1 .. Len(Stored) : IdsOf(Stored)[i] = Stored[i].id
  BY <1>1, IdsAre
<1>4. Busy => /\ writer.frozen <= Len(Base) /\ writer.frozen <= Len(writer.rows)
              /\ \A k \in 1 .. writer.frozen : writer.rows[k].id = Base[k]
  BY <1>1, <1>2 DEF Base
<1>5. ASSUME Trusts
      PROVE  /\ frozen <= Len(Base) /\ frozen <= Len(Stored)
             /\ \A k \in 1 .. frozen : Stored[k].id = Base[k]
  <2>1. Len(Stored) = frozen
    BY <1>5 DEF SavedInv, StoredInv, Trusts
  <2>2. CASE Busy
    <3>1. frozen <= Len(writer.rows) /\ \A i \in 1 .. frozen : Stored[i].id = writer.rows[i].id
      BY <1>5, <2>2 DEF SavedInv, StoredInv
    <3>2. Base = IdsOf(writer.rows)
      BY <2>2 DEF Base
    <3>3. \A i \in 1 .. frozen : i \in 1 .. Len(writer.rows)
      BY <1>1, <1>2, <3>1
    <3>4. QED
      BY <1>1, <1>2, <2>1, <3>1, <3>2, <3>3
  <2>3. CASE ~Busy
    <3>1. Base = IdsOf(Stored)
      BY <1>5, <2>3 DEF Base, FrozenIds, Trusts
    <3>2. QED
      BY <1>1, <1>3, <2>1, <3>1
  <2>4. QED
    BY <2>2, <2>3
<1>6. ASSUME writer.step \in {"publish", "retire"}
      PROVE  /\ writer.frozen <= Len(writer.new.rows)
             /\ \A k \in 1 .. writer.frozen : writer.new.rows[k].id = Base[k]
  <2>1. /\ writer.new.frozen = writer.frozen /\ Busy
        /\ \A i \in 1 .. Len(writer.rows) : writer.new.rows[i].id = writer.rows[i].id
    BY <1>6 DEF FInv, JournalInv, SavedInv, NewInv, Busy
  <2>2. \A k \in 1 .. writer.frozen : k \in 1 .. Len(writer.rows)
    BY <1>1, <1>2
  <2>3. QED
    BY <1>1, <1>4, <2>1, <2>2
<1>7. QED
  BY <1>4, <1>5, <1>6

\* A row changes whose copies among the frozen rows are written again.
LEMMA KeptChanged ==
    ASSUME IInv, FInv, SavedInv, UNCHANGED <<writer, memory, disk>>,
           NEW i \in 1 .. Len(live), version' = [version EXCEPT ![live[i]] = @ + 1],
           Redoes(Waiting, Waiting'),
           Trusts /\ i <= frozen /\ Base[i] = live[i] => Redone(Waiting', i, frozen),
           Busy /\ i <= writer.frozen /\ Base[i] = live[i] => Redone(Waiting', i, writer.frozen)
    PROVE  KeptInv'
<1>1. UNCHANGED <<writer, frozen>> /\ Stored' = Stored /\ Busy' = Busy /\ Trusts' = Trusts
  BY SessionApart DEF memory
<1>2. /\ writer.rows \in Seq(Row) /\ writer.new.rows \in Seq(Row) /\ Stored \in Seq(Row)
      /\ writer.shared \in Nat /\ writer.frozen \in Nat /\ frozen \in Nat /\ Base \in Seq(Ids)
      /\ version \in [Ids -> Nat] /\ live \in Seq(Ids) /\ Waiting \in Seq(Request)
  BY StoredTyped, WaitingTyped DEF IInv, TypeOK, Writer, JournalCache
<1>3. Ordered(Base, Waiting, live) /\ IsInjective(live)
  BY DEF SavedInv, QueueInv
<1>4. PICK d : d = Waiting'
  OBVIOUS
<1>5. ASSUME Trusts PROVE Kept(version', d, Stored, 0, frozen)
  <2>1. /\ frozen <= Len(Base) /\ frozen <= Len(Stored)
        /\ \A k \in 1 .. frozen : Stored[k].id = Base[k]
    BY <1>5, BaseHas
  <2>2. Kept(version, Waiting, Stored, 0, frozen)
    BY <1>5 DEF SavedInv, KeptInv
  <2>3. Kept([version EXCEPT ![live[i]] = @ + 1], d, Stored, 0, frozen)
    BY <1>2, <1>3, <1>4, <1>5, <2>1, <2>2, KeptEdited
  <2>4. QED
    BY <2>3
<1>6. ASSUME Busy PROVE Kept(version', d, writer.rows, writer.shared, writer.frozen)
  <2>1. /\ writer.frozen <= Len(Base) /\ writer.frozen <= Len(writer.rows)
        /\ \A k \in 1 .. writer.frozen : writer.rows[k].id = Base[k]
    BY <1>6, BaseHas
  <2>2. Kept(version, Waiting, writer.rows, writer.shared, writer.frozen)
    BY <1>6 DEF SavedInv, KeptInv
  <2>3. Kept([version EXCEPT ![live[i]] = @ + 1], d, writer.rows, writer.shared, writer.frozen)
    BY <1>2, <1>3, <1>4, <1>6, <2>1, <2>2, KeptEdited
  <2>4. QED
    BY <2>3
<1>7. ASSUME writer.step \in {"publish", "retire"}
      PROVE  Kept(version', d, writer.new.rows, 0, writer.frozen)
  <2>1. /\ writer.frozen <= Len(Base) /\ writer.frozen <= Len(writer.new.rows) /\ Busy
        /\ \A k \in 1 .. writer.frozen : writer.new.rows[k].id = Base[k]
    <3>1. Busy
      BY <1>7 DEF Busy
    <3>2. QED
      BY <1>7, <3>1, BaseHas
  <2>2. Kept(version, Waiting, writer.new.rows, 0, writer.frozen)
    BY <1>7 DEF SavedInv, KeptInv
  <2>3. Kept([version EXCEPT ![live[i]] = @ + 1], d, writer.new.rows, 0, writer.frozen)
    BY <1>2, <1>3, <1>4, <2>1, <2>2, KeptEdited
  <2>4. QED
    BY <2>3
<1>8. QED
  BY <1>1, <1>4, <1>5, <1>6, <1>7 DEF KeptInv

\* After a save is requested it waits, in the queue or for the debounce.
LEMMA SaveWaits ==
    ASSUME TypeOK, RunningFirst, Save \/ SaveImmediate, UNCHANGED writer
    PROVE  /\ debounced' \/ Waiting' # <<>>
           /\ \/ Waiting' = Waiting /\ debounced'
              \/ Waiting' = Append(Waiting, Ordinary(FALSE))
           /\ \A k \in 1 .. Len(requests') : \/ k <= Len(requests) /\ requests'[k] = requests[k]
                                             \/ requests'[k] = Ordinary(FALSE)
<1>1. Waiting \in Seq(Request) /\ requests \in Seq(Request) /\ Len(requests) \in Nat
  BY WaitingTyped, LenProperties DEF TypeOK
<1>2. PICK r : r = Ordinary(FALSE)
  OBVIOUS
<1>3. r \in Request
  BY <1>2, OrdinaryTyped
<1>4. CASE Save
  <2>1. Waiting' = Waiting /\ requests' = requests /\ debounced'
    BY <1>4 DEF Save, Waiting
  <2>2. \A k \in 1 .. Len(requests) : k <= Len(requests)
    BY <1>1
  <2>3. QED
    BY <2>1, <2>2
<1>5. CASE SaveImmediate
  <2>1. requests' = Append(requests, r)
    BY <1>2, <1>5 DEF SaveImmediate
  <2>2. Waiting' = Append(Waiting, r)
    BY <1>1, <1>3, <2>1, WaitingAppended
  <2>3. Append(Waiting, r) # <<>>
    BY <1>1, <1>3, AppendProperties
  <2>4. PICK d : d = Append(requests, r)
    OBVIOUS
  <2>5. /\ Len(d) = Len(requests) + 1 /\ d[Len(requests) + 1] = r
        /\ \A k \in 1 .. Len(requests) : d[k] = requests[k]
    BY <1>1, <1>3, <2>4, AppendProperties
  <2>6. \A k \in 1 .. Len(d) : (k <= Len(requests) /\ d[k] = requests[k]) \/ d[k] = r
    BY <1>1, <2>5
  <2>7. QED
    BY <1>2, <2>1, <2>2, <2>3, <2>4, <2>6
<1>6. QED
  BY <1>4, <1>5

\* A save is requested and queued, or will be.
LEMMA QueueSaved ==
    ASSUME IInv, Save \/ SaveImmediate, UNCHANGED <<writer, memory, disk>>,
           live' \in Seq(Ids), IsInjective(live'), Ordered(Base, Waiting, live')
    PROVE  QueueInv' /\ Redoes(Waiting, Waiting')
<1>1. TypeOK /\ RunningFirst /\ Waiting \in Seq(Request) /\ Base \in Seq(Ids)
  BY WaitingTyped, StoredTyped DEF IInv
<1>2. Base' = Base /\ requested' = Len(live')
  BY SessionApart DEF Save, SaveImmediate
<1>3. PICK r : r = Ordinary(FALSE)
  OBVIOUS
<1>4. r \in Request /\ ~r.own /\ r.edited = 0 /\ ~r.coalescible
  BY <1>3, OrdinaryTyped DEF Ordinary
<1>5. CASE Waiting' = Waiting /\ debounced'
  BY <1>2, <1>5 DEF QueueInv, LastIsLive, Requested, Redoes
<1>6. CASE Waiting' = Append(Waiting, r)
  <2>1. Ordered(Base, Append(Waiting, r), live')
    BY <1>1, <1>4, OrderedAppended
  <2>2. /\ Len(Append(Waiting, r)) = Len(Waiting) + 1 /\ Append(Waiting, r)[Len(Waiting) + 1] = r
    BY <1>1, <1>4, AppendProperties
  <2>3. LastIsLive'
    BY <1>4, <1>6, <2>2 DEF LastIsLive, ArrayOf
  <2>4. QueueInv'
    BY <1>2, <1>6, <2>1, <2>3 DEF QueueInv, Requested
  <2>5. QED
    BY <1>1, <1>4, <1>6, <2>4, RedoesAppended
<1>7. QED
  BY <1>1, <1>3, <1>5, <1>6, SaveWaits

\* The requests have rows the session got.
LEMMA GotRequests ==
    ASSUME IInv, FInv, NEW n \in Nat, n >= used, NEW q,
           \A k \in 1 .. Len(q) : \/ k <= Len(requests) /\ q[k] = requests[k]
                                  \/ Got(q[k].ids, n)
    PROVE  \A k \in 1 .. Len(q) : Got(q[k].ids, n)
<1>1. used \in Nat /\ requests \in Seq(Request) /\ Len(requests) \in Nat
  BY SessionAssumption, LenProperties DEF IInv, TypeOK
<1>2. ASSUME NEW k \in 1 .. Len(q), k <= Len(requests), q[k] = requests[k]
      PROVE  Got(q[k].ids, n)
  <2>1. k \in 1 .. Len(requests)
    BY <1>1, <1>2
  <2>2. requests[k].ids \in Seq(Ids)
    <3>1. requests[k] \in Request
      BY <1>1, <2>1, ElementOfSeq
    <3>2. QED
      BY <3>1 DEF Request
  <2>3. Got(requests[k].ids, used)
    BY <2>1 DEF FInv, UsedInv
  <2>4. QED
    BY <1>1, <1>2, <2>2, <2>3, GotMore
<1>3. QED
  BY <1>2

\* An ordinary save has no array of its own.
LEMMA OrdinaryGot ==
    ASSUME NEW c \in BOOLEAN, NEW n
    PROVE  Got(Ordinary(c).ids, n)
<1>1. Len(<<>>) = 0
  BY EmptySeq
<1>2. QED
  BY <1>1 DEF Ordinary, Got

\* A requested save waits, and has rows the session got.
LEMMA SavedGot ==
    ASSUME IInv, FInv, used' \in Nat, used' >= used, Save \/ SaveImmediate, UNCHANGED writer
    PROVE  /\ debounced' \/ Waiting' # <<>>
           /\ \A k \in 1 .. Len(requests') : Got(requests'[k].ids, used')
<1>1. /\ debounced' \/ Waiting' # <<>>
      /\ \A k \in 1 .. Len(requests') : \/ k <= Len(requests) /\ requests'[k] = requests[k]
                                        \/ requests'[k] = Ordinary(FALSE)
  BY SaveWaits DEF IInv
<1>2. Got(Ordinary(FALSE).ids, used')
  BY OrdinaryGot
<1>3. PICK q : q = requests'
  OBVIOUS
<1>4. PICK n \in Nat : n = used' /\ n >= used
  OBVIOUS
<1>5. \A k \in 1 .. Len(q) : (k <= Len(requests) /\ q[k] = requests[k]) \/ Got(q[k].ids, n)
  BY <1>1, <1>2, <1>3, <1>4
<1>6. \A k \in 1 .. Len(q) : Got(q[k].ids, n)
  BY <1>4, <1>5, GotRequests
<1>7. QED
  BY <1>1, <1>3, <1>4, <1>6

\* A row more.
LEMMA GrowKeeps ==
    ASSUME IInv, FInv, Grow
    PROVE  FInv'
<1>1. /\ TypeOK /\ live \in Seq(Ids) /\ Waiting \in Seq(Request) /\ Base \in Seq(Ids)
      /\ used \in Nat /\ MaxRows \in Nat
  BY WaitingTyped, StoredTyped, SessionAssumption DEF IInv, TypeOK
<1>2. PICK c : c = used + 1
  OBVIOUS
<1>3. /\ c \in Ids /\ c \in Nat /\ used' = c /\ used < c /\ live' = Append(live, c)
      /\ Save \/ SaveImmediate
      /\ UNCHANGED <<version, writer, memory, disk, spoiled>>
  BY <1>1, <1>2 DEF Grow, Ids, history
<1>4. /\ live' \in Seq(Ids) /\ Len(live') = Len(live) + 1 /\ live'[Len(live) + 1] = c
      /\ \A i \in 1 .. Len(live) : live'[i] = live[i]
      /\ Len(live) \in Nat /\ DOMAIN live' = 1 .. Len(live') /\ DOMAIN live = 1 .. Len(live)
  BY <1>1, <1>3, AppendProperties, LenProperties
<1>5. \A i \in 1 .. Len(live) : live[i] <= used /\ live[i] \in Nat
  <2>1. \A i \in 1 .. Len(live) : live[i] \in Ids
    BY <1>1, ElementOfSeq
  <2>2. QED
    BY <1>1, <2>1 DEF FInv, UsedInv, Got, Ids
<1>6. Got(live', used')
  <2>1. ASSUME NEW i \in 1 .. Len(live') PROVE live'[i] <= c
    <3>1. i \in 1 .. Len(live) \/ i = Len(live) + 1
      BY <1>4
    <3>2. QED
      BY <1>1, <1>2, <1>3, <1>4, <1>5, <3>1
  <2>2. QED
    BY <1>3, <2>1 DEF Got
<1>7. ASSUME SavedInv
      PROVE  QueueInv' /\ KeptInv'
  <2>1. IsInjective(live')
    <3>1. ASSUME NEW i \in 1 .. Len(live'), NEW j \in 1 .. Len(live'), live'[i] = live'[j]
          PROVE  i = j
      <4>1. i \in 1 .. Len(live) \/ i = Len(live) + 1
        BY <1>4
      <4>2. j \in 1 .. Len(live) \/ j = Len(live) + 1
        BY <1>4
      <4>3. \A k \in 1 .. Len(live) : live[k] # c
        BY <1>1, <1>3, <1>5
      <4>4. \A k, l \in 1 .. Len(live) : live[k] = live[l] => k = l
        BY <1>4, <1>7 DEF SavedInv, QueueInv, IsInjective
      <4>5. QED
        BY <1>4, <3>1, <4>1, <4>2, <4>3, <4>4
    <3>2. QED
      BY <1>4, <3>1 DEF IsInjective
  <2>2. Ordered(Base, Waiting, live')
    <3>1. Ordered(Base, Waiting, live)
      BY <1>7 DEF SavedInv, QueueInv
    <3>2. QED
      BY <1>1, <1>3, <3>1, OrderedGrown
  <2>3. QueueInv' /\ Redoes(Waiting, Waiting')
    BY <1>3, <1>4, <1>7, <2>1, <2>2, QueueSaved
  <2>4. KeptInv'
    BY <1>3, <1>7, <2>3, KeptQueued DEF SavedInv, Redoes
  <2>5. QED
    BY <2>3, <2>4
<1>8. /\ debounced' \/ Waiting' # <<>>
      /\ \A k \in 1 .. Len(requests') : Got(requests'[k].ids, used')
  BY <1>1, <1>3, SavedGot
<1>9. QED
  BY <1>1, <1>3, <1>6, <1>7, <1>8, SessionKeeps DEF FInv

\* A row of the running turn changes.
LEMMA MutateKeeps ==
    ASSUME IInv, FInv, NEW i \in DOMAIN live, Mutate(i)
    PROVE  FInv'
<1>1. /\ TypeOK /\ live \in Seq(Ids) /\ Waiting \in Seq(Request) /\ Base \in Seq(Ids)
      /\ used \in Nat /\ writer.rows \in Seq(Row) /\ writer.frozen \in Nat /\ frozen \in Nat
      /\ Stored \in Seq(Row) /\ i \in 1 .. Len(live)
  <2>1. Waiting \in Seq(Request)
    BY WaitingTyped DEF IInv
  <2>2. Stored \in Seq(Row) /\ Base \in Seq(Ids)
    BY StoredTyped
  <2>3. /\ TypeOK /\ live \in Seq(Ids) /\ used \in Nat /\ writer.rows \in Seq(Row)
        /\ writer.frozen \in Nat /\ frozen \in Nat
    <3>1. TypeOK /\ live \in Seq(Ids) /\ used \in 0 .. MaxRows /\ frozen \in Nat
      BY DEF IInv, TypeOK
    <3>2. writer \in Writer
      BY DEF IInv, TypeOK
    <3>3. used \in Nat
      BY <3>1, SessionAssumption
    <3>4. writer.rows \in Seq(Row) /\ writer.frozen \in Nat
      BY <3>2 DEF Writer
    <3>5. QED
      BY <3>1, <3>3, <3>4
  <2>4. i \in 1 .. Len(live)
    BY <2>3, LenProperties
  <2>5. QED
    BY <2>1, <2>2, <2>3, <2>4
<1>2. /\ i > Cutoff(live) /\ version' = [version EXCEPT ![live[i]] = @ + 1] /\ live' = live
      /\ Save /\ spoiled' = (spoiled \/ FrozenEarly(i)) /\ used' = used
      /\ UNCHANGED <<writer, memory, disk>>
  BY DEF Mutate
<1>3. Got(live', used')
  BY <1>2 DEF FInv, UsedInv
<1>4. /\ debounced' \/ Waiting' # <<>>
      /\ \A k \in 1 .. Len(requests') : Got(requests'[k].ids, used')
  BY <1>1, <1>2, SavedGot
<1>5. ASSUME SavedInv, ~FrozenEarly(i)
      PROVE  QueueInv' /\ KeptInv'
  <2>1. Ordered(Base, Waiting, live) /\ IsInjective(live)
    BY <1>5 DEF SavedInv, QueueInv
  <2>2. QueueInv' /\ Redoes(Waiting, Waiting')
    BY <1>1, <1>2, <2>1, QueueSaved
  <2>3. ASSUME Trusts, i <= frozen PROVE Redone(Waiting, i, frozen)
    <3>1. PICK ids : ids = IdsOf(Stored)
      OBVIOUS
    <3>2. Len(Stored) = frozen
      BY <1>5, <2>3 DEF SavedInv, StoredInv, Trusts
    <3>3. ids \in Seq(Ids) /\ Len(ids) = frozen /\ \A k \in 1 .. frozen : ids[k] = Stored[k].id
      BY <1>1, <3>1, <3>2, IdsAre
    <3>4. frozen <= Len(Base) /\ \A k \in 1 .. frozen : ids[k] = Base[k]
      BY <1>5, <2>3, <3>3, BaseHas
    <3>5. i <= Cutoff(ids)
      <4>1. ~(i > Cutoff(ids))
        BY <1>5, <2>3, <3>1 DEF FrozenEarly, Trusts
      <4>2. Cutoff(ids) \in 0 .. Len(ids) /\ Len(ids) \in Nat
        BY <3>3, CutoffWithin, LenProperties
      <4>3. QED
        BY <1>1, <4>1, <4>2
    <3>6. QED
      BY <1>1, <1>2, <2>1, <2>3, <3>3, <3>4, <3>5, MutatedRedone
  <2>4. ASSUME Busy, i <= writer.frozen PROVE Redone(Waiting, i, writer.frozen)
    <3>1. PICK s : s = First(writer.rows, writer.frozen)
      OBVIOUS
    <3>2. PICK ids : ids = IdsOf(s)
      OBVIOUS
    <3>3. /\ writer.frozen <= Len(Base) /\ writer.frozen <= Len(writer.rows)
          /\ \A k \in 1 .. writer.frozen : writer.rows[k].id = Base[k]
      BY <1>5, <2>4, BaseHas
    <3>4. Least(writer.frozen, Len(writer.rows)) = writer.frozen
      BY <3>3 DEF Least
    <3>5. /\ s \in Seq(Row) /\ Len(s) = writer.frozen
          /\ \A k \in 1 .. writer.frozen : s[k] = writer.rows[k]
      <4>1. /\ s \in Seq(Row) /\ Len(s) = Least(writer.frozen, Len(writer.rows))
            /\ \A k \in 1 .. Least(writer.frozen, Len(writer.rows)) : s[k] = writer.rows[k]
        BY <1>1, <3>1, FirstIs
      <4>2. QED
        BY <3>4, <4>1
    <3>6. ids \in Seq(Ids) /\ Len(ids) = writer.frozen /\ \A k \in 1 .. writer.frozen : ids[k] = s[k].id
      BY <3>2, <3>5, IdsAre
    <3>7. \A k \in 1 .. writer.frozen : ids[k] = Base[k]
      BY <3>3, <3>5, <3>6
    <3>8. i <= Cutoff(ids)
      <4>1. ~(i > Cutoff(ids))
        BY <1>5, <2>4, <3>1, <3>2 DEF FrozenEarly
      <4>2. Cutoff(ids) \in 0 .. Len(ids) /\ Len(ids) \in Nat
        BY <3>6, CutoffWithin, LenProperties
      <4>3. QED
        BY <1>1, <4>1, <4>2
    <3>9. PICK n \in Nat : n = writer.frozen
      BY <1>1
    <3>10. Redone(Waiting, i, n)
      BY <1>1, <1>2, <2>1, <2>4, <3>3, <3>6, <3>7, <3>8, <3>9, MutatedRedone
    <3>11. QED
      BY <3>9, <3>10
  <2>5. KeptInv'
    BY <1>1, <1>2, <1>5, <2>2, <2>3, <2>4, KeptChanged DEF Redoes
  <2>6. QED
    BY <2>2, <2>5
<1>6. ~spoiled' => QueueInv' /\ KeptInv'
  BY <1>2, <1>5 DEF FInv
<1>7. spoiled => spoiled'
  BY <1>2
<1>8. used' \in Nat /\ used' >= used
  BY <1>1, <1>2
<1>9. QED
  BY <1>2, <1>3, <1>4, <1>6, <1>7, <1>8, SessionKeeps

\* Any row is edited: the save that is queued writes it again.
LEMMA EditKeeps ==
    ASSUME IInv, FInv, NEW i \in DOMAIN live, SaveHistoryEdits(i)
    PROVE  FInv'
<1>1. /\ TypeOK /\ RunningFirst /\ live \in Seq(Ids) /\ Waiting \in Seq(Request)
      /\ Base \in Seq(Ids) /\ used \in Nat /\ requests \in Seq(Request)
      /\ i \in 1 .. Len(live) /\ i \in Nat
  <2>1. Waiting \in Seq(Request)
    BY WaitingTyped DEF IInv
  <2>2. Base \in Seq(Ids)
    BY StoredTyped
  <2>3. /\ TypeOK /\ RunningFirst /\ live \in Seq(Ids) /\ used \in Nat /\ requests \in Seq(Request)
    BY SessionAssumption DEF IInv, TypeOK
  <2>4. i \in 1 .. Len(live) /\ i \in Nat
    BY <2>3, LenProperties
  <2>5. QED
    BY <2>1, <2>2, <2>3, <2>4
<1>2. PICK r : r = [Ordinary(FALSE) EXCEPT !.edited = i]
  OBVIOUS
<1>3. /\ version' = [version EXCEPT ![live[i]] = @ + 1] /\ requested' = Len(live)
      /\ requests' = Append(requests, r) /\ ~debounced'
      /\ UNCHANGED <<live, used, writer, memory, disk, spoiled>>
  BY <1>2 DEF SaveHistoryEdits, history
<1>4. /\ r \in Request /\ ~r.own /\ ~r.coalescible /\ r.edited = i /\ r.ids = <<>>
  <2>1. Ordinary(FALSE) \in Request
    BY OrdinaryTyped
  <2>2. QED
    BY <1>1, <1>2, <2>1 DEF Ordinary, Request
<1>5. Waiting' = Append(Waiting, r)
  BY <1>1, <1>3, <1>4, WaitingAppended
<1>6. PICK d : d = Append(Waiting, r)
  OBVIOUS
<1>7. d # <<>> /\ Len(d) = Len(Waiting) + 1 /\ Len(Waiting) \in Nat /\ d[Len(Waiting) + 1] = r
  BY <1>1, <1>4, <1>6, AppendProperties, LenProperties
<1>8. \A k \in 1 .. Len(requests') : Got(requests'[k].ids, used')
  <2>1. PICK q : q = Append(requests, r)
    OBVIOUS
  <2>2. /\ Len(q) = Len(requests) + 1 /\ Len(requests) \in Nat /\ q[Len(requests) + 1] = r
        /\ \A k \in 1 .. Len(requests) : q[k] = requests[k]
    BY <1>1, <1>4, <2>1, AppendProperties, LenProperties
  <2>3. Got(r.ids, used)
    BY <1>4, EmptySeq DEF Got
  <2>4. \A k \in 1 .. Len(q) : (k <= Len(requests) /\ q[k] = requests[k]) \/ Got(q[k].ids, used)
    BY <2>2, <2>3
  <2>5. PICK n \in Nat : n = used /\ n >= used
    BY <1>1
  <2>6. \A k \in 1 .. Len(q) : Got(q[k].ids, n)
    BY <2>4, <2>5, GotRequests
  <2>7. QED
    BY <1>3, <2>1, <2>5, <2>6
<1>9. ASSUME SavedInv
      PROVE  QueueInv' /\ KeptInv'
  <2>1. Ordered(Base, Waiting, live)
    BY <1>9 DEF SavedInv, QueueInv
  <2>2. Ordered(Base, d, live)
    BY <1>1, <1>4, <1>6, <2>1, OrderedAppended
  <2>3. Base' = Base
    BY <1>3, SessionApart
  <2>4. LastIsLive'
    BY <1>3, <1>4, <1>5, <1>6, <1>7 DEF LastIsLive, ArrayOf
  <2>5. QueueInv'
    BY <1>3, <1>5, <1>6, <1>9, <2>2, <2>3, <2>4 DEF SavedInv, QueueInv, Requested
  <2>6. Redoes(Waiting, Waiting')
    BY <1>1, <1>4, <1>5, RedoesAppended
  <2>7. \A n : Redone(Waiting', i, n)
    <3>1. Len(Waiting) + 1 \in 1 .. Len(d)
      BY <1>7
    <3>2. QED
      BY <1>4, <1>5, <1>6, <1>7, <3>1 DEF Redone
  <2>8. KeptInv'
    BY <1>1, <1>3, <1>9, <2>6, <2>7, KeptChanged
  <2>9. QED
    BY <2>5, <2>8
<1>10. Got(live', used')
  BY <1>3 DEF FInv, UsedInv
<1>11. QED
  BY <1>1, <1>3, <1>5, <1>6, <1>7, <1>8, <1>9, <1>10, SessionKeeps DEF FInv

\* Something else of the session is saved.
LEMMA SaveAgainKeeps ==
    ASSUME IInv, FInv, SaveAgain
    PROVE  FInv'
<1>1. /\ live' = live /\ version' = version /\ used' = used /\ Save
      /\ UNCHANGED <<writer, memory, disk, spoiled>>
  BY DEF SaveAgain, session, history
<1>2. live \in Seq(Ids) /\ used \in Nat
  BY SessionAssumption DEF IInv, TypeOK
<1>3. /\ debounced' \/ Waiting' # <<>>
      /\ \A k \in 1 .. Len(requests') : Got(requests'[k].ids, used')
  BY <1>1, <1>2, SavedGot
<1>4. ASSUME SavedInv
      PROVE  QueueInv' /\ KeptInv'
  <2>1. QueueInv' /\ Redoes(Waiting, Waiting')
    BY <1>1, <1>2, <1>4, QueueSaved DEF SavedInv, QueueInv
  <2>2. KeptInv'
    BY <1>1, <1>4, <2>1, KeptQueued DEF SavedInv, Redoes
  <2>3. QED
    BY <2>1, <2>2
<1>5. Got(live', used')
  BY <1>1 DEF FInv, UsedInv
<1>6. QED
  BY <1>1, <1>2, <1>3, <1>4, <1>5, SessionKeeps DEF FInv

\* What is in a queue after a request was put into it.
LEMMA EnqueuedHas ==
    ASSUME NEW q \in Seq(Request), NEW r \in Request
    PROVE  \A k \in 1 .. Len(Enqueued(q, r)) : \/ k <= Len(q) /\ Enqueued(q, r)[k] = q[k]
                                               \/ Enqueued(q, r)[k] = r
<1>1. PICK d : d = Enqueued(q, r)
  OBVIOUS
<1>2. Len(q) \in Nat
  BY LenProperties
<1>3. CASE d = Append(q, r)
  <2>1. Len(d) = Len(q) + 1 /\ d[Len(q) + 1] = r /\ \A k \in 1 .. Len(q) : d[k] = q[k]
    BY <1>3, AppendProperties
  <2>2. \A k \in 1 .. Len(d) : (k <= Len(q) /\ d[k] = q[k]) \/ d[k] = r
    BY <1>2, <2>1
  <2>3. QED
    BY <1>1, <2>2
<1>4. CASE q # <<>> /\ d = Append(Front(q), r)
  <2>1. PICK f : f = Front(q)
    OBVIOUS
  <2>2. /\ f \in Seq(Request) /\ Len(f) = Len(q) - 1 /\ Len(q) \in Nat \ {0}
        /\ \A k \in 1 .. Len(q) - 1 : f[k] = q[k]
    BY <1>4, <2>1, FrontHas
  <2>3. Len(d) = Len(f) + 1 /\ d[Len(f) + 1] = r /\ \A k \in 1 .. Len(f) : d[k] = f[k]
    BY <1>4, <2>1, <2>2, AppendProperties
  <2>4. \A k \in 1 .. Len(d) : (k <= Len(q) /\ d[k] = q[k]) \/ d[k] = r
    BY <2>2, <2>3
  <2>5. QED
    BY <1>1, <2>4
<1>5. QED
  BY <1>1, <1>3, <1>4 DEF Enqueued

\* A request put into a queue keeps its order, and what it owes.
LEMMA EnqueuedKeeps ==
    ASSUME NEW b \in Seq(Ids), NEW q \in Seq(Request), NEW a \in Seq(Ids), Ordered(b, q, a),
           NEW r \in Request, ~r.own, r.edited = 0, NEW d,
           \/ d = Append(q, r)
           \/ q # <<>> /\ q[Len(q)].coalescible /\ d = Append(Front(q), r)
    PROVE  /\ d \in Seq(Request) /\ Ordered(b, d, a) /\ d # <<>>
           /\ ArrayOf(d[Len(d)], a) = a
           /\ \A i \in Nat \ {0} : \A n : Redone(q, i, n) => Redone(d, i, n)
<1>1. ASSUME NEW f \in Seq(Request), Ordered(b, f, a), d = Append(f, r),
             \A i \in Nat \ {0} : \A n : Redone(q, i, n) => Redone(f, i, n)
      PROVE  /\ d \in Seq(Request) /\ Ordered(b, d, a) /\ d # <<>>
             /\ ArrayOf(d[Len(d)], a) = a
             /\ \A i \in Nat \ {0} : \A n : Redone(q, i, n) => Redone(d, i, n)
  <2>1. d \in Seq(Request) /\ d # <<>> /\ Len(d) = Len(f) + 1 /\ d[Len(f) + 1] = r
    BY <1>1, AppendProperties
  <2>2. Ordered(b, d, a)
    BY <1>1, OrderedAppended
  <2>3. ArrayOf(d[Len(d)], a) = a
    BY <2>1 DEF ArrayOf
  <2>4. \A i \in Nat \ {0} : \A n : Redone(q, i, n) => Redone(d, i, n)
    BY <1>1, RedoesAppended DEF Redoes
  <2>5. QED
    BY <2>1, <2>2, <2>3, <2>4
<1>2. CASE d = Append(q, r)
  BY <1>1, <1>2
<1>3. CASE q # <<>> /\ q[Len(q)].coalescible /\ d = Append(Front(q), r)
  <2>1. Front(q) \in Seq(Request)
    BY <1>3, FrontHas
  <2>2. Ordered(b, Front(q), a)
    BY <1>3, OrderedFront
  <2>3. \A i \in Nat \ {0} : \A n : Redone(q, i, n) => Redone(Front(q), i, n)
    BY <1>3, RedoesFront DEF Ordered
  <2>4. QED
    BY <1>1, <1>3, <2>1, <2>2, <2>3
<1>4. QED
  BY <1>2, <1>3

\* The debounce of a save ends.
LEMMA DebounceKeeps ==
    ASSUME IInv, FInv, DebounceEnds
    PROVE  FInv'
<1>1. PICK r : r = Ordinary(TRUE)
  OBVIOUS
<1>2. /\ debounced /\ ~debounced' /\ requests' = Enqueued(requests, r)
      /\ UNCHANGED <<live, version, used, requested, writer, memory, disk, spoiled>>
  BY <1>1 DEF DebounceEnds, session, history
<1>3. /\ TypeOK /\ RunningFirst /\ live \in Seq(Ids) /\ used \in Nat /\ requests \in Seq(Request)
  BY SessionAssumption DEF IInv, TypeOK
<1>4. Waiting \in Seq(Request) /\ Base \in Seq(Ids)
  BY <1>3, WaitingTyped, StoredTyped
<1>5. r \in Request /\ ~r.own /\ r.edited = 0
  BY <1>1, OrdinaryTyped DEF Ordinary
<1>6. \/ Waiting' = Append(Waiting, r)
      \/ /\ Waiting # <<>> /\ Waiting[Len(Waiting)].coalescible
         /\ Waiting' = Append(Front(Waiting), r)
  BY <1>2, <1>3, <1>5, WaitingEnqueued DEF Waiting
<1>7. Waiting' # <<>>
  BY <1>4, <1>5, <1>6, FrontHas, AppendProperties
<1>8. \A k \in 1 .. Len(requests') : Got(requests'[k].ids, used')
  <2>1. PICK q : q = Enqueued(requests, r)
    OBVIOUS
  <2>2. \A k \in 1 .. Len(q) : (k <= Len(requests) /\ q[k] = requests[k]) \/ q[k] = r
    BY <1>3, <1>5, <2>1, EnqueuedHas
  <2>3. PICK n \in Nat : n = used /\ n >= used
    BY <1>3
  <2>4. Got(r.ids, n)
    BY <1>1, OrdinaryGot
  <2>5. \A k \in 1 .. Len(q) : (k <= Len(requests) /\ q[k] = requests[k]) \/ Got(q[k].ids, n)
    BY <2>2, <2>4
  <2>6. \A k \in 1 .. Len(q) : Got(q[k].ids, n)
    BY <2>3, <2>5, GotRequests
  <2>7. QED
    BY <1>2, <2>1, <2>3, <2>6
<1>9. ASSUME SavedInv
      PROVE  QueueInv' /\ KeptInv'
  <2>1. Ordered(Base, Waiting, live)
    BY <1>9 DEF SavedInv, QueueInv
  <2>2. PICK d : d = Waiting'
    OBVIOUS
  <2>3. /\ Ordered(Base, d, live) /\ ArrayOf(d[Len(d)], live) = live
        /\ \A i \in Nat \ {0} : \A n : Redone(Waiting, i, n) => Redone(d, i, n)
    <3>1. \/ d = Append(Waiting, r)
          \/ /\ Waiting # <<>> /\ Waiting[Len(Waiting)].coalescible
             /\ d = Append(Front(Waiting), r)
      BY <1>6, <2>2
    <3>2. QED
      BY <1>3, <1>4, <1>5, <2>1, <3>1, EnqueuedKeeps
  <2>4. Base' = Base
    BY <1>2, SessionApart
  <2>5. requested = Len(live)
    BY <1>2, <1>9 DEF SavedInv, QueueInv, Requested
  <2>6. QueueInv'
    BY <1>2, <1>9, <2>2, <2>3, <2>4, <2>5 DEF SavedInv, QueueInv, LastIsLive, Requested
  <2>7. KeptInv'
    BY <1>2, <1>9, <2>2, <2>3, KeptQueued DEF SavedInv
  <2>8. QED
    BY <2>6, <2>7
<1>10. Got(live', used')
  BY <1>2 DEF FInv, UsedInv
<1>11. QED
  BY <1>2, <1>3, <1>7, <1>8, <1>9, <1>10, SessionKeeps DEF FInv

\* A revert.
LEMMA RevertKeeps ==
    ASSUME IInv, FInv, NEW n \in 0 .. Len(live), Revert(n)
    PROVE  FInv'
<1>1. /\ TypeOK /\ RunningFirst /\ live \in Seq(Ids) /\ used \in Nat /\ requests \in Seq(Request)
      /\ requested \in Nat /\ frozen \in Nat
  BY SessionAssumption DEF IInv, TypeOK
<1>2. Waiting \in Seq(Request) /\ Base \in Seq(Ids) /\ Stored \in Seq(Row)
  BY <1>1, WaitingTyped, StoredTyped
<1>3. PICK q : q = [k \in DOMAIN requests |->
                       IF requests[k].own THEN requests[k]
                       ELSE [requests[k] EXCEPT !.own = TRUE, !.ids = live]]
  OBVIOUS
<1>4. PICK c : c = First(live, n)
  OBVIOUS
<1>5. PICK copy : copy = [Ordinary(FALSE) EXCEPT !.own = TRUE, !.ids = c]
  OBVIOUS
<1>6. PICK r : r = IF n < requested THEN copy ELSE Ordinary(TRUE)
  OBVIOUS
<1>7. /\ n < Len(live) /\ live' = c /\ requested' = n /\ ~debounced'
      /\ requests' = Enqueued(q, r)
      /\ UNCHANGED <<version, used, writer, memory, disk, spoiled>>
  BY <1>3, <1>4, <1>5, <1>6 DEF Revert, history
<1>8. Len(live) \in Nat /\ Len(requests) \in Nat /\ DOMAIN requests = 1 .. Len(requests) /\ n \in Nat
  BY <1>1, LenProperties
<1>9. c \in Seq(Ids) /\ Len(c) = n /\ \A i \in 1 .. n : c[i] = live[i]
  <2>1. Least(n, Len(live)) = n
    BY <1>8 DEF Least
  <2>2. /\ First(live, n) \in Seq(Ids) /\ Len(First(live, n)) = Least(n, Len(live))
        /\ \A i \in 1 .. Least(n, Len(live)) : First(live, n)[i] = live[i]
    BY <1>1, <1>8, FirstIs
  <2>3. QED
    BY <1>4, <2>1, <2>2
<1>10. ASSUME NEW k \in 1 .. Len(requests)
       PROVE  /\ q[k] \in Request /\ q[k].own /\ q[k].ids = ArrayOf(requests[k], live)
              /\ q[k].edited = requests[k].edited
              /\ q[k].coalescible = requests[k].coalescible
  <2>1. requests[k] \in Request
    BY <1>1, ElementOfSeq
  <2>2. q[k] = IF requests[k].own THEN requests[k]
               ELSE [requests[k] EXCEPT !.own = TRUE, !.ids = live]
    BY <1>3, <1>8
  <2>3. QED
    BY <1>1, <2>1, <2>2 DEF Request, ArrayOf
<1>11. q \in Seq(Request) /\ Len(q) = Len(requests)
  <2>1. q \in [1 .. Len(requests) -> Request]
    BY <1>3, <1>8, <1>10
  <2>2. QED
    BY <1>8, <2>1, Tabulated
<1>12. /\ copy \in Request /\ copy.own /\ copy.ids = c /\ copy.edited = 0 /\ ~copy.coalescible
       /\ Ordinary(TRUE) \in Request /\ ~Ordinary(TRUE).own /\ Ordinary(TRUE).edited = 0
  <2>1. Ordinary(FALSE) \in Request /\ Ordinary(TRUE) \in Request
    BY OrdinaryTyped
  <2>2. copy \in Request
    BY <1>5, <1>9, <2>1 DEF Request
  <2>3. QED
    BY <1>5, <2>1, <2>2 DEF Ordinary
<1>13. r \in Request
  BY <1>6, <1>12
<1>14. PICK w : w = IF writer.step = "idle" THEN q ELSE Tail(q)
  OBVIOUS
<1>15. /\ w \in Seq(Request)
       /\ \/ Waiting' = Append(w, r)
          \/ /\ w # <<>> /\ w[Len(w)].coalescible /\ r.coalescible
             /\ Waiting' = Append(Front(w), r)
  BY <1>1, <1>7, <1>11, <1>13, <1>14, WaitingEnqueued
<1>16. /\ Len(w) = Len(Waiting) /\ Len(Waiting) \in Nat
       /\ \A k \in 1 .. Len(Waiting) : /\ w[k].own /\ w[k].ids = ArrayOf(Waiting[k], live)
                                       /\ w[k].edited = Waiting[k].edited
                                       /\ w[k].coalescible = Waiting[k].coalescible
  <2>1. CASE writer.step = "idle"
    BY <1>8, <1>10, <1>11, <1>14, <2>1 DEF Waiting
  <2>2. CASE writer.step # "idle"
    <3>1. requests # <<>> /\ Len(requests) # 0 /\ q # <<>>
      BY <1>1, <1>11, <2>2, EmptySeq DEF RunningFirst
    <3>2. PICK t : t = Tail(requests)
      OBVIOUS
    <3>3. Len(t) = Len(requests) - 1 /\ \A k \in 1 .. Len(t) : t[k] = requests[k + 1]
      BY <1>1, <3>1, <3>2, HeadTailProperties
    <3>4. Len(w) = Len(q) - 1 /\ \A k \in 1 .. Len(w) : w[k] = q[k + 1]
      BY <1>11, <1>14, <2>2, <3>1, HeadTailProperties
    <3>5. Len(w) = Len(t) /\ Len(t) \in Nat /\ \A k \in 1 .. Len(t) : k + 1 \in 1 .. Len(requests)
      BY <1>8, <1>11, <3>1, <3>3, <3>4
    <3>6. ASSUME NEW k \in 1 .. Len(t)
          PROVE  /\ w[k].own /\ w[k].ids = ArrayOf(t[k], live) /\ w[k].edited = t[k].edited
                 /\ w[k].coalescible = t[k].coalescible
      <4>1. w[k] = q[k + 1] /\ t[k] = requests[k + 1] /\ k + 1 \in 1 .. Len(requests)
        BY <3>3, <3>4, <3>5
      <4>2. QED
        BY <1>10, <4>1
    <3>7. Waiting = t
      BY <2>2, <3>2 DEF Waiting
    <3>8. QED
      BY <3>5, <3>6, <3>7
  <2>3. QED
    BY <2>1, <2>2
<1>17. Waiting' # <<>>
  BY <1>13, <1>15, FrontHas, AppendProperties
<1>18. Got(c, used)
  <2>1. Got(live, used)
    BY DEF FInv, UsedInv
  <2>2. \A i \in 1 .. Len(c) : i \in 1 .. Len(live)
    BY <1>7, <1>8, <1>9
  <2>3. QED
    BY <1>9, <2>1, <2>2 DEF Got
<1>19. \A k \in 1 .. Len(requests') : Got(requests'[k].ids, used')
  <2>1. PICK d : d = Enqueued(q, r)
    OBVIOUS
  <2>2. \A k \in 1 .. Len(d) : (k <= Len(q) /\ d[k] = q[k]) \/ d[k] = r
    BY <1>11, <1>13, <2>1, EnqueuedHas
  <2>3. Got(r.ids, used)
    BY <1>6, <1>12, <1>18, OrdinaryGot
  <2>4. \A k \in 1 .. Len(requests) : Got(q[k].ids, used)
    BY <1>10 DEF FInv, UsedInv, ArrayOf
  <2>5. ASSUME NEW k \in 1 .. Len(d) PROVE Got(d[k].ids, used)
    <3>1. CASE k <= Len(q) /\ d[k] = q[k]
      <4>1. k \in 1 .. Len(requests)
        BY <1>8, <1>11, <3>1
      <4>2. QED
        BY <2>4, <3>1, <4>1
    <3>2. QED
      BY <2>2, <2>3, <3>1
  <2>6. QED
    BY <1>7, <2>1, <2>5
<1>20. ASSUME SavedInv
       PROVE  QueueInv' /\ KeptInv'
  <2>1. Ordered(Base, Waiting, live) /\ IsInjective(live) /\ Requested
    BY <1>20 DEF SavedInv, QueueInv
  <2>2. Base' = Base
    BY <1>7, SessionApart
  <2>3. IsInjective(c)
    <3>1. DOMAIN c = 1 .. n /\ DOMAIN live = 1 .. Len(live)
      BY <1>1, <1>9, LenProperties
    <3>2. \A i \in 1 .. n : i \in 1 .. Len(live)
      BY <1>7, <1>8
    <3>3. QED
      BY <1>9, <2>1, <3>1, <3>2 DEF IsInjective
  <2>4. PICK d : d = Waiting'
    OBVIOUS
  <2>5. Ordered(Base, w, live)
    BY <1>1, <1>2, <1>15, <1>16, <2>1, OrderedOwned
  <2>6. \A i, m : Redone(Waiting, i, m) => Redone(w, i, m)
    BY <1>16 DEF Redone, Cuts, ArrayOf
  <2>7. /\ Ordered(Base, d, c) /\ ArrayOf(d[Len(d)], c) = c
        /\ \A i \in Nat \ {0} : \A m : Redone(Waiting, i, m) => Redone(d, i, m)
    <3>1. CASE n < requested
      <4>1. r = copy /\ d = Append(w, copy)
        BY <1>6, <1>12, <1>15, <2>4, <3>1
      <4>2. Ordered(Base, Append(w, copy), First(live, n))
        BY <1>1, <1>2, <1>4, <1>7, <1>8, <1>12, <1>15, <1>16, <2>5, OrderedCut
      <4>3. Len(d) = Len(w) + 1 /\ d[Len(w) + 1] = copy
        BY <1>12, <1>15, <4>1, AppendProperties
      <4>4. Redoes(w, d)
        BY <1>12, <1>15, <4>1, RedoesAppended
      <4>5. ArrayOf(d[Len(d)], c) = c
        BY <1>12, <4>3 DEF ArrayOf
      <4>6. QED
        BY <1>4, <2>6, <4>1, <4>2, <4>4, <4>5 DEF Redoes
    <3>2. CASE ~(n < requested)
      <4>1. requests = <<>> /\ requested = frozen /\ ~Busy
        BY <1>1, <1>7, <1>8, <2>1, <3>2 DEF Requested
      <4>2. Waiting = <<>> /\ Len(Waiting) = 0
        BY <4>1, EmptySeq DEF Waiting, Busy
      <4>3. w = <<>>
        BY <1>15, <1>16, <4>2, EmptySeq
      <4>4. Len(Base) <= frozen
        <5>1. Len(Stored) <= frozen
          <6>1. PICK s : s = IF reference = NoReference THEN log.rows ELSE RowsOfGeneration(reference)
            OBVIOUS
          <6>2. s \in Seq(Row)
            BY <6>1, RowsTyped DEF IInv, TypeOK, HeadInv, HeadsHeld
          <6>3. Stored = First(s, frozen)
            BY <6>1 DEF Stored
          <6>4. Len(Stored) = Least(frozen, Len(s)) /\ Len(s) \in Nat
            BY <1>1, <6>2, <6>3, FirstIs, LenProperties
          <6>5. QED
            BY <1>1, <6>4 DEF Least
        <5>2. Len(IdsOf(Stored)) = Len(Stored) /\ Len(<<>>) = 0
          BY <1>2, IdsAre, EmptySeq
        <5>3. QED
          BY <1>1, <4>1, <5>1, <5>2 DEF Base, FrozenIds
      <4>5. Len(Base) <= Len(live) /\ \A i \in 1 .. Len(Base) : Base[i] = live[i]
        <5>1. Path(Base, Waiting, live, Len(Waiting)) = Base
          BY <4>2 DEF Path
        <5>2. /\ Len(Path(Base, Waiting, live, Len(Waiting))) <= Len(live)
              /\ \A i \in 1 .. Len(Path(Base, Waiting, live, Len(Waiting))) :
                    Path(Base, Waiting, live, Len(Waiting))[i] = live[i]
          BY <1>1, <1>2, <2>1, LastLasts
        <5>3. QED
          BY <5>1, <5>2
      <4>6. Len(Base) <= n /\ \A i \in 1 .. Len(Base) : Base[i] = c[i]
        <5>1. Len(Base) \in Nat /\ Len(Base) <= n
          BY <1>1, <1>2, <1>8, <3>2, <4>1, <4>4, LenProperties
        <5>2. QED
          BY <1>9, <4>5, <5>1
      <4>7. Ordered(Base, <<>>, c)
        BY <1>2, <1>9, <4>6, OrderedEmpty
      <4>8. PICK o : o = Ordinary(TRUE)
        OBVIOUS
      <4>9. d = Append(w, o)
        BY <1>6, <1>15, <2>4, <3>2, <4>3, <4>8
      <4>10. /\ Ordered(Base, d, c) /\ ArrayOf(d[Len(d)], c) = c
             /\ \A i \in Nat \ {0} : \A m : Redone(w, i, m) => Redone(d, i, m)
        <5>1. Ordered(Base, w, c) /\ o \in Request /\ ~o.own /\ o.edited = 0
          BY <1>12, <4>3, <4>7, <4>8
        <5>2. \/ d = Append(w, o)
              \/ w # <<>> /\ w[Len(w)].coalescible /\ d = Append(Front(w), o)
          BY <4>9
        <5>3. QED
          BY <1>2, <1>9, <1>15, <5>1, <5>2, EnqueuedKeeps
      <4>11. QED
        BY <2>6, <4>10
    <3>3. QED
      BY <3>1, <3>2
  <2>8. QueueInv'
    BY <1>7, <1>9, <2>2, <2>3, <2>4, <2>7 DEF QueueInv, LastIsLive, Requested
  <2>9. KeptInv'
    BY <1>7, <1>20, <2>4, <2>7, KeptQueued DEF SavedInv
  <2>10. QED
    BY <2>8, <2>9
<1>21. QED
  BY <1>1, <1>7, <1>17, <1>18, <1>19, <1>20, SessionKeeps DEF FInv

-----------------------------------------------------------------------------
(***************************************************************************)
(* What saves make of what is saved.                                       *)
(***************************************************************************)
\* What a save captures.
LEMMA StartWriteHas ==
    ASSUME IInv, StartWrite
    PROVE  LET r == requests[1]
               ids == ArrayOf(r, live)
               repair == r.edited # 0 /\ r.edited <= frozen
           IN /\ writer.step = "idle" /\ requests # <<>> /\ r \in Request /\ ids \in Seq(Ids)
              /\ UNCHANGED <<session, debounced, requested, memory, disk, spoiled>>
              /\ repair /\ frozen > Len(ids) => requests' = Tail(requests) /\ UNCHANGED writer
              /\ ~(repair /\ frozen > Len(ids)) =>
                    /\ requests' = requests
                    /\ writer'.step \in {"whole", "log", "hot", "append"}
                    /\ writer'.rows = Now(ids) /\ writer'.new = Head0
                    /\ writer'.previous = frozen
                    /\ writer'.rewrite = Rewrites(repair, Len(ids))
                    /\ writer'.shared = Unchanged(repair, Len(ids))
                    /\ writer'.step = "whole" => writer'.rewrite
                    /\ writer'.step = "hot" => ~writer'.rewrite /\ writer'.frozen = frozen
                    /\ ~writer'.rewrite => writer'.frozen >= frozen
<1>1. /\ requests \in Seq(Request) /\ requests # <<>> /\ live \in Seq(Ids) /\ frozen \in Nat
      /\ writer.step = "idle"
      /\ UNCHANGED <<session, debounced, requested, memory, disk, spoiled>>
  BY DEF StartWrite, IInv, TypeOK
<1>2. PICK r : r = Head(requests)
  OBVIOUS
<1>3. r = requests[1] /\ r \in Request
  BY <1>1, <1>2, HeadTailProperties
<1>4. PICK ids : ids = IF r.own THEN r.ids ELSE live
  OBVIOUS
<1>5. ids = ArrayOf(r, live) /\ ids \in Seq(Ids) /\ Len(ids) \in Nat
  BY <1>1, <1>3, <1>4, LenProperties DEF ArrayOf, Request
<1>6. PICK repair \in BOOLEAN : repair <=> (r.edited # 0 /\ r.edited <= frozen)
  OBVIOUS
<1>7. PICK n : n = Len(ids)
  OBVIOUS
<1>8. PICK count : count = IF repair THEN frozen
                           ELSE IF Rewrites(repair, n) THEN Cutoff(ids)
                           ELSE Max({frozen, Cutoff(ids)})
  OBVIOUS
<1>9. CASE repair /\ frozen > n
  <2>1. requests' = Tail(requests) /\ UNCHANGED writer
    BY <1>2, <1>4, <1>6, <1>7, <1>9 DEF StartWrite
  <2>2. QED
    BY <1>1, <1>3, <1>5, <1>6, <1>7, <1>9, <2>1
<1>10. CASE ~(repair /\ frozen > n)
  <2>1. /\ requests' = requests
        /\ writer' = [step |-> FirstStep(repair, n, count),
                      rows |-> Now(ids), shared |-> Unchanged(repair, n),
                      previous |-> frozen, frozen |-> count,
                      rewrite |-> Rewrites(repair, n), new |-> Head0]
    <3>1. (r.edited # 0 /\ r.edited <= frozen) = repair
      BY <1>6
    <3>2. QED
      BY <1>2, <1>4, <1>7, <1>8, <1>10, <3>1 DEF StartWrite
  <2>2. /\ writer'.step = FirstStep(repair, n, count) /\ writer'.rows = Now(ids)
        /\ writer'.shared = Unchanged(repair, n) /\ writer'.previous = frozen
        /\ writer'.frozen = count /\ writer'.rewrite = Rewrites(repair, n) /\ writer'.new = Head0
    BY <2>1
  <2>3. ~Rewrites(repair, n) => count >= frozen /\ count \in Nat
    <3>1. SUFFICES ASSUME ~Rewrites(repair, n) PROVE count >= frozen /\ count \in Nat
      OBVIOUS
    <3>2. ~repair /\ frozen <= n
      BY <1>1, <1>5, <1>7, <3>1 DEF Rewrites
    <3>3. Cutoff(ids) \in 0 .. n
      BY <1>5, <1>7, CutoffWithin
    <3>4. {frozen, Cutoff(ids)} \subseteq 0 .. n /\ {frozen, Cutoff(ids)} # {} /\ n \in Nat
      BY <1>1, <1>5, <1>7, <3>2, <3>3
    <3>5. Max({frozen, Cutoff(ids)}) \in {frozen, Cutoff(ids)} /\ Max({frozen, Cutoff(ids)}) >= frozen
      BY <3>4, Greatest
    <3>6. QED
      BY <1>8, <3>1, <3>2, <3>4, <3>5
  <2>4. /\ FirstStep(repair, n, count) \in {"whole", "log", "hot", "append"}
        /\ FirstStep(repair, n, count) = "whole" => Rewrites(repair, n)
    BY DEF FirstStep
  <2>5. FirstStep(repair, n, count) = "hot" => ~Rewrites(repair, n) /\ ~(count > frozen)
    BY DEF FirstStep
  <2>6. writer'.step = "hot" => ~writer'.rewrite /\ writer'.frozen = frozen
    BY <1>1, <2>2, <2>3, <2>5
  <2>7. QED
    BY <1>1, <1>3, <1>5, <1>6, <1>7, <1>10, <2>1, <2>2, <2>3, <2>4, <2>6
<1>11. QED
  BY <1>9, <1>10

\* The rows of an array as they are now.
LEMMA NowIs ==
    ASSUME version \in [Ids -> Nat], NEW ids \in Seq(Ids)
    PROVE  /\ Now(ids) \in Seq(Row) /\ Len(Now(ids)) = Len(ids)
           /\ \A i \in 1 .. Len(ids) : Now(ids)[i].id = ids[i] /\ Now(ids)[i].ver = version[ids[i]]
           /\ IdsOf(Now(ids)) = ids
<1>1. Now(ids) \in Seq(Row) /\ Len(Now(ids)) = Len(ids)
  BY NowTyped
<1>2. DOMAIN ids = 1 .. Len(ids)
  BY LenProperties
<1>3. ASSUME NEW i \in 1 .. Len(ids)
      PROVE  Now(ids)[i].id = ids[i] /\ Now(ids)[i].ver = version[ids[i]]
  <2>1. Now(ids)[i] = [id |-> ids[i], ver |-> version[ids[i]]]
    BY <1>2 DEF Now
  <2>2. QED
    BY <2>1
<1>4. /\ IdsOf(Now(ids)) \in Seq(Ids) /\ Len(IdsOf(Now(ids))) = Len(ids)
      /\ \A i \in 1 .. Len(ids) : IdsOf(Now(ids))[i] = Now(ids)[i].id
  BY <1>1, IdsAre
<1>5. ASSUME NEW i \in 1 .. Len(ids) PROVE IdsOf(Now(ids))[i] = ids[i]
  <2>1. i \in 1 .. Len(Now(ids))
    BY <1>1
  <2>2. Now(ids)[i].id = ids[i]
    BY <1>3
  <2>3. QED
    BY <1>4, <2>1, <2>2
<1>6. IdsOf(Now(ids)) = ids
  BY <1>4, <1>5, SeqEqual
<1>7. QED
  BY <1>1, <1>3, <1>6

\* The requests behind the first one have rows the session got.
LEMMA GotTail ==
    ASSUME IInv, FInv, requests # <<>>
    PROVE  \A k \in 1 .. Len(Tail(requests)) : Got(Tail(requests)[k].ids, used)
<1>1. requests \in Seq(Request) /\ Len(requests) \in Nat \ {0}
  BY EmptySeq, LenProperties DEF IInv, TypeOK
<1>2. /\ Len(Tail(requests)) = Len(requests) - 1
      /\ \A k \in 1 .. Len(Tail(requests)) : Tail(requests)[k] = requests[k + 1]
  BY <1>1, HeadTailProperties
<1>3. \A k \in 1 .. Len(Tail(requests)) : k + 1 \in 1 .. Len(requests)
  BY <1>1, <1>2
<1>4. QED
  BY <1>2, <1>3 DEF FInv, UsedInv

\* The last request stays the last.
LEMMA LastStays ==
    ASSUME NEW q \in Seq(Request), q # <<>>, Tail(q) # <<>>
    PROVE  Tail(q)[Len(Tail(q))] = q[Len(q)]
<1>1. Len(q) \in Nat \ {0} /\ Tail(q) \in Seq(Request) /\ Len(Tail(q)) = Len(q) - 1
      /\ \A k \in 1 .. Len(Tail(q)) : Tail(q)[k] = q[k + 1]
  BY EmptySeq, LenProperties, HeadTailProperties
<1>2. Len(Tail(q)) # 0 /\ Len(Tail(q)) \in Nat
  BY <1>1, EmptySeq, LenProperties
<1>3. Len(Tail(q)) \in 1 .. Len(Tail(q)) /\ Len(Tail(q)) + 1 = Len(q)
  BY <1>1, <1>2
<1>4. QED
  BY <1>1, <1>3

\* The repair of a row is dropped.
LEMMA DroppedKeeps ==
    ASSUME IInv, FInv, StartWrite, UNCHANGED writer, requests' = Tail(requests),
           requests[1].edited # 0, frozen > Len(ArrayOf(requests[1], live))
    PROVE  FInv'
<1>1. /\ writer.step = "idle" /\ requests # <<>> /\ requests[1] \in Request
      /\ ArrayOf(requests[1], live) \in Seq(Ids)
      /\ UNCHANGED <<live, version, used, debounced, requested, memory, disk, spoiled>>
  BY StartWriteHas DEF session
<1>2. requests \in Seq(Request) /\ live \in Seq(Ids) /\ frozen \in Nat /\ Base \in Seq(Ids)
  BY StoredTyped DEF IInv, TypeOK
<1>3. Waiting = requests /\ Waiting' = Tail(requests) /\ ~Busy /\ ~Busy'
  BY <1>1 DEF Waiting, Busy
<1>4. Captured' /\ JournalInv'
  BY <1>1, SessionApart DEF FInv
<1>5. UsedInv'
  <2>1. RowsOfGeneration(reference)' = RowsOfGeneration(reference)
    BY <1>1 DEF RowsOfGeneration, memory, disk
  <2>2. \A k \in 1 .. Len(requests') : Got(requests'[k].ids, used')
    BY <1>1, GotTail
  <2>3. UsedInv
    BY DEF FInv
  <2>4. QED
    BY <1>1, <2>1, <2>2, <2>3 DEF UsedInv, memory, disk
<1>6. ASSUME ~spoiled' PROVE SavedInv'
  <2>1. SavedInv
    BY <1>1, <1>6 DEF FInv
  <2>2. Ordered(Base, requests, live)
    BY <1>3, <2>1 DEF SavedInv, QueueInv
  <2>3. PICK ids : ids = ArrayOf(requests[1], live)
    OBVIOUS
  <2>4. "frozen" \in failures
    <3>1. SUFFICES ASSUME "frozen" \notin failures PROVE FALSE
      OBVIOUS
    <3>2. Len(Stored) = frozen
      BY <1>1, <2>1, <3>1 DEF SavedInv, StoredInv
    <3>3. Len(Base) = frozen
      BY <1>3, <3>1, <3>2, StoredTyped, IdsAre DEF Base, FrozenIds
    <3>4. 1 \in 1 .. Len(requests)
      BY <1>1, <1>2, EmptySeq, LenProperties
    <3>5. \/ Len(Path(Base, requests, live, 1 - 1)) <= Len(Path(Base, requests, live, 1))
          \/ Cuts(requests[1], Len(Path(Base, requests, live, 1 - 1)))
      BY <2>2, <3>4 DEF Ordered, Chained
    <3>6. Path(Base, requests, live, 1 - 1) = Base /\ Path(Base, requests, live, 1) = ids
      BY <2>3 DEF Path
    <3>7. Len(ids) \in Nat
      BY <1>1, <2>3, LenProperties
    <3>8. QED
      BY <1>2, <2>3, <3>3, <3>5, <3>6, <3>7 DEF Cuts
  <2>5. Base = <<>> /\ Base' = <<>>
    BY <1>1, <1>3, <2>4, SessionApart DEF Base, FrozenIds
  <2>6. Ordered(<<>>, Tail(requests), live)
    <3>1. Ordered(ids, Tail(requests), live)
      BY <1>1, <1>2, <2>2, <2>3, OrderedTail
    <3>2. ids \in Seq(Ids) /\ <<>> \in Seq(Ids) /\ Len(<<>>) = 0 /\ Tail(requests) \in Seq(Request)
      BY <1>1, <1>2, <2>3, EmptySeq, HeadTailProperties
    <3>3. Len(<<>>) <= Len(ids) /\ \A i \in 1 .. Len(<<>>) : <<>>[i] = ids[i]
      BY <3>2, LenProperties
    <3>4. QED
      BY <1>2, <3>1, <3>2, <3>3, OrderedFrom
  <2>7. LastIsLive'
    BY <1>1, <1>2, <1>3, <2>1, LastStays DEF SavedInv, QueueInv, LastIsLive
  <2>8. Requested'
    BY <1>1, <2>1 DEF SavedInv, QueueInv, Requested
  <2>9. QueueInv'
    BY <1>1, <1>3, <2>1, <2>5, <2>6, <2>7, <2>8 DEF SavedInv, QueueInv
  <2>10. StoredInv' /\ NewInv' /\ Trusts' = Trusts
    BY <1>1, <2>1, SessionApart DEF SavedInv
  <2>11. KeptInv'
    BY <1>1, <1>3, <2>4, <2>10 DEF KeptInv, Trusts, Busy
  <2>12. Settled'
    BY <1>1, <1>3, <2>4 DEF Settled, memory
  <2>13. QED
    BY <2>9, <2>10, <2>11, <2>12 DEF SavedInv
<1>7. QED
  BY <1>4, <1>5, <1>6 DEF FInv

\* A save begins.
LEMMA BegunKeeps ==
    ASSUME IInv, FInv, StartWrite,
           ~(/\ requests[1].edited # 0 /\ requests[1].edited <= frozen
             /\ frozen > Len(ArrayOf(requests[1], live)))
    PROVE  FInv'
<1>1. PICK ids : ids = ArrayOf(requests[1], live)
  OBVIOUS
<1>2. PICK repair \in BOOLEAN : repair <=> requests[1].edited # 0 /\ requests[1].edited <= frozen
  OBVIOUS
<1>3. /\ writer.step = "idle" /\ requests # <<>> /\ requests[1] \in Request /\ ids \in Seq(Ids)
      /\ UNCHANGED <<live, version, used, debounced, requested, threshold, frozen, reference,
                     cache, failures, hot, log, generations, spoiled>>
  BY <1>1, StartWriteHas DEF session, memory, disk
<1>4. /\ requests' = requests
      /\ writer'.step \in {"whole", "log", "hot", "append"}
      /\ writer'.rows = Now(ids) /\ writer'.new = Head0
      /\ writer'.previous = frozen
      /\ writer'.rewrite = Rewrites(repair, Len(ids))
      /\ writer'.shared = Unchanged(repair, Len(ids))
      /\ writer'.step = "whole" => writer'.rewrite
      /\ writer'.step = "hot" => ~writer'.rewrite /\ writer'.frozen = frozen
      /\ ~writer'.rewrite => writer'.frozen >= frozen
  <2>1. (requests[1].edited # 0 /\ requests[1].edited <= frozen) = repair
    BY <1>2
  <2>2. QED
    BY <1>1, <2>1, StartWriteHas
<1>5. /\ requests \in Seq(Request) /\ live \in Seq(Ids) /\ frozen \in Nat /\ Base \in Seq(Ids)
      /\ version \in [Ids -> Nat] /\ Stored \in Seq(Row) /\ used \in Nat
  BY StoredTyped, SessionAssumption DEF IInv, TypeOK
<1>6. Waiting = requests /\ Waiting' = Tail(requests) /\ ~Busy /\ Busy'
  BY <1>3, <1>4 DEF Waiting, Busy
<1>7. /\ Now(ids) \in Seq(Row) /\ Len(Now(ids)) = Len(ids) /\ Len(ids) \in Nat
      /\ \A i \in 1 .. Len(ids) : Now(ids)[i].id = ids[i] /\ Now(ids)[i].ver = version[ids[i]]
      /\ IdsOf(Now(ids)) = ids
  BY <1>3, <1>5, NowIs, LenProperties
<1>8. /\ writer'.frozen \in Nat /\ writer'.frozen <= Len(ids) /\ writer'.shared \in Nat
  BY <1>4, <1>7, StartWriteStep DEF IInv, TypeOK, HeadInv, FrozenWithin, Writer
<1>9. Stored' = Stored
  BY <1>3 DEF Stored, RowsOfGeneration
<1>10. Base' = ids
  BY <1>4, <1>6, <1>7 DEF Base
<1>11. Captured'
  <2>1. writer'.rewrite => writer'.shared = 0
    BY <1>4 DEF Rewrites, Unchanged
  <2>2. ~writer'.rewrite => writer'.shared = frozen /\ "frozen" \notin failures
    BY <1>4 DEF Rewrites, Unchanged
  <2>3. QED
    BY <1>3, <1>4, <2>1, <2>2 DEF Captured
<1>12. JournalInv'
  <2>1. RowsOfGeneration(reference)' = RowsOfGeneration(reference)
    BY <1>3 DEF RowsOfGeneration
  <2>2. JournalInv
    BY DEF FInv
  <2>3. QED
    BY <1>3, <1>4, <2>1, <2>2 DEF JournalInv
<1>13. UsedInv'
  <2>1. RowsOfGeneration(reference)' = RowsOfGeneration(reference)
    BY <1>3 DEF RowsOfGeneration
  <2>2. UsedInv
    BY DEF FInv
  <2>3. Got(ids, used)
    <3>1. 1 \in 1 .. Len(requests)
      BY <1>3, <1>5, EmptySeq, LenProperties
    <3>2. QED
      BY <1>1, <2>2, <3>1 DEF UsedInv, ArrayOf
  <2>4. GotRows(Now(ids), used)
    <3>1. ASSUME NEW i \in 1 .. Len(Now(ids)) PROVE Now(ids)[i].id <= used
      <4>1. i \in 1 .. Len(ids)
        BY <1>7
      <4>2. Now(ids)[i].id = ids[i]
        BY <1>7, <4>1
      <4>3. QED
        BY <2>3, <4>1, <4>2 DEF Got
    <3>2. QED
      BY <3>1 DEF GotRows
  <2>5. GotRows(writer'.new.rows, used)
    BY <1>4, EmptySeq DEF GotRows, Head0
  <2>6. QED
    BY <1>3, <1>4, <2>1, <2>2, <2>4, <2>5 DEF UsedInv
<1>14. ASSUME ~spoiled' PROVE SavedInv'
  <2>1. SavedInv
    BY <1>3, <1>14 DEF FInv
  <2>2. Ordered(Base, requests, live)
    BY <1>6, <2>1 DEF SavedInv, QueueInv
  <2>3. 1 \in 1 .. Len(requests) /\ Len(requests) \in Nat
        /\ Tail(requests) \in Seq(Request) /\ Len(Tail(requests)) = Len(requests) - 1
        /\ \A k \in 1 .. Len(Tail(requests)) : Tail(requests)[k] = requests[k + 1]
    BY <1>3, <1>5, EmptySeq, LenProperties, HeadTailProperties
  <2>4. QueueInv'
    <3>1. Ordered(Base', Waiting', live')
      BY <1>1, <1>3, <1>5, <1>6, <1>10, <2>2, OrderedTail
    <3>2. LastIsLive'
      BY <1>3, <1>5, <1>6, <2>1, LastStays DEF SavedInv, QueueInv, LastIsLive
    <3>3. Requested'
      BY <1>3, <1>4, <2>1 DEF SavedInv, QueueInv, Requested
    <3>4. QED
      BY <1>3, <2>1, <3>1, <3>2, <3>3 DEF SavedInv, QueueInv
  <2>5. Trusts' => Trusts /\ ~repair /\ frozen <= Len(ids)
    <3>1. Trusts' => ~writer'.rewrite /\ "frozen" \notin failures
      BY <1>3, <1>4, <1>6 DEF Trusts
    <3>2. Trusts' => Trusts
      BY <1>3, <1>6, <3>1 DEF Trusts
    <3>3. Trusts' => ~repair /\ ~(frozen > Len(ids))
      BY <1>4, <3>1 DEF Rewrites
    <3>4. QED
      BY <1>5, <1>7, <3>2, <3>3
  <2>6. StoredInv'
    <3>1. /\ "frozen" \notin failures' /\ writer'.step # "retire" =>
             /\ Len(Stored') = frozen'
             /\ reference' = NoReference /\ frozen' > 0 => Len(log'.rows) = frozen'
      BY <1>3, <1>9, <2>1 DEF SavedInv, StoredInv
    <3>2. ASSUME Trusts'
          PROVE  /\ frozen <= Len(writer'.rows)
                 /\ \A i \in 1 .. frozen : Stored[i].id = writer'.rows[i].id
      <4>1. Len(Stored) = frozen /\ Base = IdsOf(Stored)
        BY <1>6, <2>1, <2>5, <3>2 DEF SavedInv, StoredInv, Trusts, Base, FrozenIds
      <4>2. Agree(Path(Base, requests, live, 1 - 1), Path(Base, requests, live, 1))
        BY <2>2, <2>3 DEF Ordered, Chained
      <4>3. Path(Base, requests, live, 1 - 1) = Base /\ Path(Base, requests, live, 1) = ids
        BY <1>1 DEF Path
      <4>4. Agree(Base, ids)
        BY <4>2, <4>3
      <4>5. ASSUME NEW i \in 1 .. frozen PROVE Stored[i].id = writer'.rows[i].id
        <5>1. i \in 1 .. Len(Stored) /\ i \in 1 .. Len(ids) /\ i <= Len(ids)
          BY <1>5, <1>7, <2>5, <3>2, <4>1
        <5>2. Base[i] = Stored[i].id /\ i \in 1 .. Len(Base)
          BY <1>5, <4>1, <5>1, IdsAre
        <5>3. Base[i] = ids[i]
          BY <4>4, <5>1, <5>2 DEF Agree
        <5>4. Now(ids)[i].id = ids[i]
          BY <1>7, <5>1
        <5>5. QED
          BY <1>4, <5>2, <5>3, <5>4
      <4>6. QED
        BY <1>4, <1>7, <2>5, <3>2, <4>5
    <3>3. QED
      BY <1>3, <1>9, <3>1, <3>2 DEF StoredInv
  <2>7. NewInv'
    BY <1>4 DEF NewInv
  <2>8. KeptInv'
    <3>1. ASSUME Trusts' PROVE Kept(version, Tail(requests), Stored, 0, frozen)
      <4>1. Kept(version, requests, Stored, 0, frozen)
        BY <1>6, <2>1, <2>5, <3>1 DEF SavedInv, KeptInv
      <4>2. ASSUME NEW i \in 1 .. frozen, Redone(requests, i, frozen)
            PROVE  Redone(Tail(requests), i, frozen)
        <5>1. PICK k \in 1 .. Len(requests) : requests[k].edited = i \/ Cuts(requests[k], frozen)
          BY <4>2 DEF Redone
        <5>2. k # 1
          <6>1. SUFFICES ASSUME k = 1 PROVE FALSE
            OBVIOUS
          <6>2. CASE requests[1].edited = i
            BY <1>2, <1>5, <2>5, <3>1, <6>2
          <6>3. CASE Cuts(requests[1], frozen)
            BY <1>1, <1>5, <1>7, <2>5, <3>1, <6>3 DEF Cuts, ArrayOf
          <6>4. QED
            BY <5>1, <6>1, <6>2, <6>3
        <5>3. k - 1 \in 1 .. Len(Tail(requests)) /\ (k - 1) + 1 = k
          BY <2>3, <5>2
        <5>4. Tail(requests)[k - 1] = requests[k]
          BY <2>3, <5>3
        <5>5. QED
          BY <5>1, <5>3, <5>4 DEF Redone
      <4>3. \A i \in 0 + 1 .. frozen : i \in 1 .. frozen
        BY <1>5
      <4>4. QED
        BY <4>1, <4>2, <4>3 DEF Kept
    <3>2. Kept(version, Tail(requests), Now(ids), writer'.shared, writer'.frozen)
      <4>1. ASSUME NEW i \in writer'.shared + 1 .. writer'.frozen
            PROVE  Now(ids)[i].ver = version[Now(ids)[i].id]
        <5>1. i \in 1 .. Len(ids)
          BY <1>7, <1>8
        <5>2. QED
          BY <1>7, <5>1
      <4>2. QED
        BY <4>1 DEF Kept
    <3>3. QED
      BY <1>3, <1>4, <1>6, <1>9, <3>1, <3>2 DEF KeptInv
  <2>9. Settled'
    <3>1. SUFFICES ASSUME Tail(requests) = <<>>, ~debounced
                   PROVE  writer'.rows = Now(live)'
      BY <1>3, <1>6 DEF Settled
    <3>2. Len(requests) = 1
      <4>1. Len(Tail(requests)) = 0
        BY <3>1, EmptySeq
      <4>2. Len(requests) \in Nat /\ Len(requests) - 1 = 0
        BY <2>3, <4>1
      <4>3. QED
        BY <4>2
    <3>3. ids = live
      BY <1>1, <1>3, <1>6, <2>1, <3>1, <3>2 DEF SavedInv, QueueInv, LastIsLive
    <3>4. Now(live)' = Now(live)
      BY <1>3 DEF Now
    <3>5. QED
      BY <1>4, <3>3, <3>4
  <2>10. QED
    BY <2>4, <2>6, <2>7, <2>8, <2>9 DEF SavedInv
<1>15. QED
  BY <1>11, <1>12, <1>13, <1>14 DEF FInv

\* A save begins, or a repair is dropped.
LEMMA StartWriteKeeps ==
    ASSUME IInv, FInv, StartWrite
    PROVE  FInv'
<1>1. CASE /\ requests[1].edited # 0 /\ requests[1].edited <= frozen
           /\ frozen > Len(ArrayOf(requests[1], live))
  <2>1. requests' = Tail(requests) /\ UNCHANGED writer
    BY <1>1, StartWriteHas
  <2>2. QED
    BY <1>1, <2>1, DroppedKeeps
<1>2. CASE ~(/\ requests[1].edited # 0 /\ requests[1].edited <= frozen
             /\ frozen > Len(ArrayOf(requests[1], live)))
  BY <1>2, BegunKeeps
<1>3. QED
  BY <1>1, <1>2

-----------------------------------------------------------------------------
(***************************************************************************)
(* The rows of commits.                                                    *)
(***************************************************************************)
\* Row i as it was written last for the first n commits.
RowOf(commits, n, i) == (CHOOSE w \in commits[Max(Writes(commits, n, i))].wrote : w[1] = i)[2]
RowsOf(commits, n, count) == [i \in 1 .. count |-> RowOf(commits, n, i)]

\* The rows of a head.
LEMMA RowsAre ==
    ASSUME NEW ref
    PROVE  RowsOfGeneration(ref) = RowsOf(generations[ref.gen], ref.bytes, ref.count)
BY DEF RowsOfGeneration, RowsOf, RowOf

\* Their number.
LEMMA RowsCount ==
    ASSUME generations \in [Gens -> Seq(Commit)], NEW ref \in Reference, Held(ref)
    PROVE  RowsOfGeneration(ref) \in Seq(Row) /\ Len(RowsOfGeneration(ref)) = ref.count
<1>1. PICK f : f = RowsOfGeneration(ref)
  OBVIOUS
<1>2. f \in Seq(Row) /\ DOMAIN f = 1 .. Len(f) /\ ref.count \in Nat
  BY <1>1, RowsTyped, LenProperties DEF Reference
<1>3. f = [i \in 1 .. ref.count |-> RowOf(generations[ref.gen], ref.bytes, i)]
  BY <1>1, RowsAre DEF RowsOf
<1>4. DOMAIN f = 1 .. ref.count
  BY <1>3
<1>5. \A i \in 1 .. ref.count : f[i] \in Row
  BY <1>2, <1>4, ElementOfSeq
<1>6. f = [i \in 1 .. ref.count |-> f[i]]
  BY <1>3
<1>7. f \in [1 .. ref.count -> Row]
  BY <1>5, <1>6
<1>8. Len(f) = ref.count
  BY <1>2, <1>7, Tabulated
<1>9. QED
  BY <1>1, <1>2, <1>8

\* The commits that wrote a row.
LEMMA WritesIs ==
    ASSUME NEW c \in Seq(Commit), NEW n \in Nat, n <= Len(c), NEW i
    PROVE  Writes(c, n, i) = {j \in 1 .. n : \E w \in c[j].wrote : w[1] = i}
<1>1. Len(c) \in Nat /\ Least(n, Len(c)) = n
  BY LenProperties DEF Least
<1>2. QED
  BY <1>1 DEF Writes

\* A row is the same after the same commits.
LEMMA RowSame ==
    ASSUME NEW c \in Seq(Commit), NEW d \in Seq(Commit), NEW n \in Nat \ {0}, NEW m \in Nat,
           n <= Len(c), m <= Len(d), m >= n, NEW i,
           \A k \in 1 .. n : d[k] = c[k],
           \A k \in n + 1 .. m : ~ \E w \in d[k].wrote : w[1] = i,
           Writes(c, n, i) # {}
    PROVE  RowOf(d, m, i) = RowOf(c, n, i)
<1>1. Writes(c, n, i) = {j \in 1 .. n : \E w \in c[j].wrote : w[1] = i}
  BY WritesIs
<1>2. Writes(d, m, i) = {j \in 1 .. m : \E w \in d[j].wrote : w[1] = i}
  BY WritesIs
<1>3. Writes(d, m, i) = Writes(c, n, i)
  <2>1. ASSUME NEW j \in Writes(d, m, i) PROVE j \in Writes(c, n, i)
    <3>1. j \in 1 .. m /\ \E w \in d[j].wrote : w[1] = i
      BY <1>2, <2>1
    <3>2. j \in 1 .. n
      BY <3>1
    <3>3. QED
      BY <1>1, <3>1, <3>2
  <2>2. ASSUME NEW j \in Writes(c, n, i) PROVE j \in Writes(d, m, i)
    <3>1. j \in 1 .. n /\ \E w \in c[j].wrote : w[1] = i
      BY <1>1, <2>2
    <3>2. j \in 1 .. m /\ d[j] = c[j]
      BY <3>1
    <3>3. QED
      BY <1>2, <3>1, <3>2
  <2>3. QED
    BY <2>1, <2>2
<1>4. n \in 1 .. Len(c)
  BY LenProperties
<1>5. Max(Writes(c, n, i)) \in 1 .. n
  BY <1>4, LastWrite
<1>6. d[Max(Writes(c, n, i))] = c[Max(Writes(c, n, i))]
  BY <1>5
<1>7. QED
  BY <1>3, <1>6 DEF RowOf

\* A head has the same rows after the same commits.
LEMMA RowsSame ==
    ASSUME NEW c \in Seq(Commit), NEW d \in Seq(Commit), NEW n \in Nat, NEW count \in Nat,
           Holds(c, n, count), Len(d) >= n, \A k \in 1 .. n : d[k] = c[k]
    PROVE  RowsOf(d, n, count) = RowsOf(c, n, count)
<1>1. n \in 1 .. Len(c) /\ n \in Nat \ {0} /\ n <= Len(c) /\ Len(c) \in Nat /\ Len(d) \in Nat
  BY LenProperties DEF Holds
<1>2. ASSUME NEW i \in 1 .. count PROVE RowOf(d, n, i) = RowOf(c, n, i)
  <2>1. Writes(c, n, i) # {}
    BY <1>1, KeepsRowIs DEF Holds
  <2>2. \A k \in n + 1 .. n : ~ \E w \in d[k].wrote : w[1] = i
    BY <1>1
  <2>3. n <= Len(d) /\ n >= n
    BY <1>1
  <2>4. QED
    BY <1>1, <2>1, <2>2, <2>3, RowSame
<1>3. QED
  BY <1>2 DEF RowsOf

\* After a commit the generation has the rows that were committed.
LEMMA RowsAppended ==
    ASSUME NEW c \in Seq(Commit), NEW prev \in JournalCache, NEW rows \in Seq(Row),
           \/ prev.bytes = 0 /\ prev.rows = <<>>
           \/ /\ Holds(c, prev.bytes, Len(prev.rows))
              /\ RowsOf(c, prev.bytes, Len(prev.rows)) = prev.rows
    PROVE  RowsOf(Append(First(c, prev.bytes), Written(prev, rows)), prev.bytes + 1, Len(rows))
              = rows
<1>1. PICK n : n = prev.bytes
  OBVIOUS
<1>2. PICK new : new = Written(prev, rows)
  OBVIOUS
<1>3. PICK d : d = Append(First(c, n), new)
  OBVIOUS
<1>4. /\ n \in Nat /\ Len(c) \in Nat /\ Len(rows) \in Nat /\ DOMAIN rows = 1 .. Len(rows)
      /\ prev.rows \in Seq(Row) /\ Len(prev.rows) \in Nat
  BY <1>1, LenProperties DEF JournalCache
<1>5. \/ prev.bytes = 0 /\ prev.rows = <<>>
      \/ Holds(c, prev.bytes, Len(prev.rows))
  OBVIOUS
<1>6. /\ d \in Seq(Commit) /\ Len(d) = n + 1 /\ \A k \in 1 .. n : d[k] = c[k]
      /\ Holds(d, n + 1, Len(rows))
  BY <1>1, <1>2, <1>3, <1>5, HoldsAppended
<1>7. d[n + 1] = new
  <2>1. Least(n, Len(c)) = n
    BY <1>1, <1>4, <1>5 DEF Least, Holds
  <2>2. First(c, n) \in Seq(Commit) /\ Len(First(c, n)) = n
    BY <1>4, <2>1, FirstIs
  <2>3. Append(First(c, n), new)[Len(First(c, n)) + 1] = new
    BY <2>2, AppendProperties
  <2>4. QED
    BY <1>3, <2>2, <2>3
<1>8. \A w \in new.wrote : w = <<w[1], rows[w[1]]>> /\ w[1] \in 1 .. Len(rows)
                             /\ (w[1] > Len(prev.rows) \/ prev.rows[w[1]] # rows[w[1]])
  BY <1>2, <1>4 DEF Written
<1>9. ASSUME NEW i \in 1 .. Len(rows) PROVE RowOf(d, n + 1, i) = rows[i]
  <2>1. n + 1 \in 1 .. Len(d) /\ n + 1 \in Nat /\ n + 1 <= Len(d)
    BY <1>4, <1>6
  <2>2. Writes(d, n + 1, i) # {}
    BY <1>6, <2>1, KeepsRowIs DEF Holds
  <2>3. CASE i > Len(prev.rows) \/ prev.rows[i] # rows[i]
    <3>1. <<i, rows[i]>> \in new.wrote
      BY <1>2, <1>4, <2>3 DEF Written
    <3>2. n + 1 \in Writes(d, n + 1, i)
      <4>1. \E w \in d[n + 1].wrote : w[1] = i
        BY <1>7, <3>1
      <4>2. n + 1 \in 1 .. n + 1
        BY <1>4
      <4>3. QED
        BY <1>6, <2>1, <4>1, <4>2, WritesIs
    <3>3. Max(Writes(d, n + 1, i)) = n + 1
      <4>1. Max(Writes(d, n + 1, i)) \in 1 .. n + 1 /\ Max(Writes(d, n + 1, i)) >= n + 1
        BY <1>6, <2>1, <2>2, <3>2, LastWrite
      <4>2. QED
        BY <1>4, <4>1
    <3>4. PICK w \in new.wrote : w = (CHOOSE x \in new.wrote : x[1] = i) /\ w[1] = i
      BY <3>1
    <3>5. w = <<i, rows[i]>>
      BY <1>8, <3>4
    <3>6. RowOf(d, n + 1, i) = (CHOOSE x \in new.wrote : x[1] = i)[2]
      BY <1>7, <3>3 DEF RowOf
    <3>7. RowOf(d, n + 1, i) = w[2]
      BY <3>4, <3>6
    <3>8. QED
      BY <3>5, <3>7
  <2>4. CASE i <= Len(prev.rows) /\ prev.rows[i] = rows[i]
    <3>1. i \in 1 .. Len(prev.rows) /\ Len(prev.rows) # 0
      BY <1>4, <2>4
    <3>2. Holds(c, n, Len(prev.rows)) /\ RowsOf(c, n, Len(prev.rows)) = prev.rows
      BY <1>1, <3>1, EmptySeq
    <3>3. n \in 1 .. Len(c) /\ n \in Nat \ {0} /\ n <= Len(c) /\ n + 1 >= n
      BY <1>4, <3>2 DEF Holds
    <3>4. Writes(c, n, i) # {}
      BY <3>1, <3>2, <3>3, KeepsRowIs DEF Holds
    <3>5. ASSUME NEW k \in n + 1 .. n + 1, NEW w \in d[k].wrote PROVE w[1] # i
      <4>1. k = n + 1
        BY <1>4
      <4>2. w \in new.wrote
        BY <1>7, <3>5, <4>1
      <4>3. w[1] > Len(prev.rows) \/ prev.rows[w[1]] # rows[w[1]]
        BY <1>8, <4>2
      <4>4. QED
        BY <1>4, <2>4, <4>3
    <3>6. RowOf(d, n + 1, i) = RowOf(c, n, i)
      BY <1>6, <2>1, <3>3, <3>4, <3>5, RowSame
    <3>7. RowOf(c, n, i) = prev.rows[i]
      BY <3>1, <3>2 DEF RowsOf
    <3>8. QED
      BY <2>4, <3>6, <3>7
  <2>5. QED
    BY <1>4, <2>3, <2>4
<1>10. RowsOf(d, n + 1, Len(rows)) = [i \in 1 .. Len(rows) |-> rows[i]]
  BY <1>9 DEF RowsOf
<1>11. rows = [i \in 1 .. Len(rows) |-> rows[i]]
  BY <1>4
<1>12. QED
  BY <1>1, <1>2, <1>3, <1>10, <1>11

-----------------------------------------------------------------------------
(***************************************************************************)
(* What a running save makes of what is saved.                             *)
(***************************************************************************)
\* A part of rows the session got.
LEMMA GotPart ==
    ASSUME NEW s \in Seq(Row), NEW m \in Nat \ {0}, NEW n \in Nat, n <= Len(s), NEW u,
           GotRows(s, u)
    PROVE  GotRows(SubSeq(s, m, n), u)
<1>1. Len(s) \in Nat
  BY LenProperties
<1>2. /\ Len(SubSeq(s, m, n)) = IF m <= n THEN n - m + 1 ELSE 0
      /\ \A i \in 1 .. n - m + 1 : SubSeq(s, m, n)[i] = s[m + i - 1]
  BY <1>1, SubSeqProperties
<1>3. ASSUME NEW i \in 1 .. Len(SubSeq(s, m, n)) PROVE SubSeq(s, m, n)[i].id <= u
  <2>1. i \in 1 .. n - m + 1 /\ m + i - 1 \in 1 .. Len(s)
    BY <1>1, <1>2
  <2>2. SubSeq(s, m, n)[i] = s[m + i - 1]
    BY <1>2, <2>1
  <2>3. QED
    BY <2>1, <2>2 DEF GotRows
<1>4. QED
  BY <1>3 DEF GotRows

\* Such rows joined.
LEMMA GotJoined ==
    ASSUME NEW s \in Seq(Row), NEW t \in Seq(Row), NEW u, GotRows(s, u), GotRows(t, u)
    PROVE  GotRows(s \o t, u)
<1>1. Len(s) \in Nat /\ Len(t) \in Nat
  BY LenProperties
<1>2. /\ Len(s \o t) = Len(s) + Len(t)
      /\ \A i \in 1 .. Len(s) + Len(t) : (s \o t)[i] = IF i <= Len(s) THEN s[i] ELSE t[i - Len(s)]
  BY ConcatProperties
<1>3. ASSUME NEW i \in 1 .. Len(s) + Len(t) PROVE (s \o t)[i].id <= u
  <2>1. CASE i <= Len(s)
    <3>1. i \in 1 .. Len(s) /\ (s \o t)[i] = s[i]
      BY <1>1, <1>2, <2>1
    <3>2. QED
      BY <3>1 DEF GotRows
  <2>2. CASE ~(i <= Len(s))
    <3>1. i - Len(s) \in 1 .. Len(t) /\ (s \o t)[i] = t[i - Len(s)]
      BY <1>1, <1>2, <2>2
    <3>2. QED
      BY <3>1 DEF GotRows
  <2>3. QED
    BY <2>1, <2>2
<1>4. QED
  BY <1>2, <1>3 DEF GotRows

\* The first of them, and those behind.
LEMMA GotSplit ==
    ASSUME NEW s \in Seq(Row), NEW n \in Nat, NEW u, GotRows(s, u)
    PROVE  GotRows(First(s, n), u) /\ GotRows(From(s, n), u)
<1>1. Len(s) \in Nat /\ Least(n, Len(s)) \in Nat /\ Least(n, Len(s)) <= Len(s) /\ n + 1 \in Nat \ {0}
  BY LenProperties DEF Least
<1>2. GotRows(SubSeq(s, 1, Least(n, Len(s))), u)
  BY <1>1, GotPart
<1>3. GotRows(SubSeq(s, n + 1, Len(s)), u)
  BY <1>1, GotPart
<1>4. QED
  BY <1>2, <1>3 DEF First, From

\* Nothing was captured when no save runs.
LEMMA IdleHas ==
    Idle.step = "idle" /\ \A u : GotRows(Idle.rows, u) /\ GotRows(Idle.new.rows, u)
<1>1. Len(<<>>) = 0
  BY EmptySeq
<1>2. QED
  BY <1>1 DEF Idle, Head0, GotRows

\* The running save goes on.
LEMMA GoesOn ==
    ASSUME SavedInv, Busy, Busy', writer'.rows = writer.rows,
           UNCHANGED <<live, version, debounced, requested, requests>>
    PROVE  QueueInv' /\ Waiting' = Waiting /\ Settled'
<1>1. Waiting' = Waiting
  BY DEF Waiting, Busy
<1>2. Base' = Base
  BY DEF Base
<1>3. QueueInv'
  <2>1. QueueInv
    BY DEF SavedInv
  <2>2. LastIsLive'
    BY <1>1, <2>1 DEF QueueInv, LastIsLive
  <2>3. Requested'
    BY <2>1 DEF QueueInv, Requested
  <2>4. QED
    BY <1>1, <1>2, <2>1, <2>2, <2>3 DEF QueueInv
<1>4. Settled'
  <2>1. SUFFICES ASSUME Waiting = <<>>, ~debounced PROVE writer'.rows = Now(live)'
    BY <1>1 DEF Settled
  <2>2. writer.rows = Now(live)
    BY <2>1 DEF SavedInv, Settled
  <2>3. Now(live)' = Now(live)
    BY DEF Now
  <2>4. QED
    BY <2>2, <2>3
<1>5. QED
  BY <1>1, <1>3, <1>4

\* The running save ends, with frozen rows that its array extends.
LEMMA SettlesQueue ==
    ASSUME IInv, SavedInv, Busy, Settles, Base' \in Seq(Ids), Len(Base') <= Len(Base),
           \A i \in 1 .. Len(Base') : Base'[i] = Base[i]
    PROVE  QueueInv' /\ Waiting' = Waiting /\ ~Busy'
<1>1. requests' = Tail(requests) /\ writer' = Idle
      /\ UNCHANGED <<live, version, debounced, requested>>
  BY DEF Settles, session
<1>2. Waiting = Tail(requests) /\ Waiting' = Tail(requests) /\ ~Busy'
  BY <1>1, IdleHas DEF Waiting, Busy
<1>3. Base \in Seq(Ids) /\ Waiting \in Seq(Request) /\ live \in Seq(Ids)
  BY StoredTyped, WaitingTyped DEF IInv, TypeOK
<1>4. QueueInv
  BY DEF SavedInv
<1>5. Ordered(Base', Waiting, live)
  BY <1>3, <1>4, OrderedFrom DEF QueueInv
<1>6. LastIsLive'
  BY <1>1, <1>2, <1>4 DEF QueueInv, LastIsLive
<1>7. Requested'
  BY <1>1, <1>4 DEF QueueInv, Requested
<1>8. QED
  BY <1>1, <1>2, <1>4, <1>5, <1>6, <1>7 DEF QueueInv

\* The hot file is made whole.
LEMMA WriteWholeKeeps ==
    ASSUME IInv, FInv, WriteWhole
    PROVE  FInv'
<1>1. /\ writer.step = "whole" /\ writer \in Writer
      /\ writer' = [writer EXCEPT !.step = "log"] /\ frozen' = 0
      /\ hot' = [frozen |-> 0, tail |-> writer.rows, ref |-> NoReference]
      /\ UNCHANGED <<live, version, used, debounced, requested, requests, reference, cache,
                     failures, log, generations, spoiled>>
  BY DEF WriteWhole, IInv, TypeOK, session, queue, history
<1>2. /\ writer'.step = "log" /\ writer'.rows = writer.rows /\ writer'.shared = writer.shared
      /\ writer'.previous = writer.previous /\ writer'.frozen = writer.frozen
      /\ writer'.rewrite = writer.rewrite /\ writer'.new = writer.new
  BY <1>1 DEF Writer
<1>3. Captured /\ JournalInv /\ UsedInv /\ writer.rewrite /\ Busy /\ Busy'
  BY <1>1, <1>2 DEF FInv, Captured, Busy
<1>4. reference = NoReference
  BY <1>1 DEF IInv, HeadInv, SmallAgrees
<1>5. RowsOfGeneration(reference)' = RowsOfGeneration(reference)
  BY <1>1 DEF RowsOfGeneration
<1>6. Captured'
  BY <1>1, <1>2, <1>3 DEF Captured
<1>7. JournalInv'
  BY <1>1, <1>2, <1>3, <1>4, <1>5 DEF JournalInv
<1>8. UsedInv'
  BY <1>1, <1>2, <1>3, <1>5 DEF UsedInv
<1>9. ASSUME ~spoiled' PROVE SavedInv'
  <2>1. SavedInv
    BY <1>1, <1>9 DEF FInv
  <2>2. QueueInv' /\ Waiting' = Waiting /\ Settled'
    BY <1>1, <1>2, <1>3, <2>1, GoesOn
  <2>3. ~Trusts'
    BY <1>2, <1>3 DEF Trusts
  <2>4. StoredInv'
    <3>1. Len(Stored') = 0
      <4>1. Stored' = First(log.rows, 0)
        BY <1>1, <1>4 DEF Stored
      <4>2. log.rows \in Seq(Row) /\ Len(log.rows) \in Nat
        BY LenProperties DEF IInv, TypeOK
      <4>3. QED
        BY <4>1, <4>2, FirstIs DEF Least
    <3>2. QED
      BY <1>1, <2>3, <3>1 DEF StoredInv
  <2>5. NewInv'
    BY <1>2 DEF NewInv
  <2>6. KeptInv'
    BY <1>1, <1>2, <1>3, <2>1, <2>2, <2>3 DEF SavedInv, KeptInv
  <2>7. QED
    BY <2>2, <2>4, <2>5, <2>6 DEF SavedInv
<1>10. QED
  BY <1>6, <1>7, <1>8, <1>9 DEF FInv

\* More of the rows are frozen, and those that are written again still are.
LEMMA RedoneMore ==
    ASSUME NEW q \in Seq(Request), NEW m \in Nat, NEW n \in Nat, m <= n, NEW i,
           Redone(q, i, m)
    PROVE  Redone(q, i, n)
<1>1. PICK k \in 1 .. Len(q) : q[k].edited = i \/ Cuts(q[k], m)
  BY DEF Redone
<1>2. q[k] \in Request
  BY ElementOfSeq
<1>3. Len(q[k].ids) \in Nat
  BY <1>2, LenProperties DEF Request
<1>4. Cuts(q[k], m) => Cuts(q[k], n)
  BY <1>3 DEF Cuts
<1>5. QED
  BY <1>1, <1>4 DEF Redone

\* What the log gets: the rows of the save, after those that are stored.
LEMMA LogHas ==
    ASSUME IInv, FInv, SavedInv, WriteLog, Replaces \/ ~log.torn
    PROVE  /\ Len(log.rows') = writer.frozen /\ Stored' = log.rows'
           /\ \A i \in 1 .. writer.frozen :
                 /\ log.rows'[i].id = writer.rows[i].id
                 /\ \/ i > writer.shared /\ log.rows'[i] = writer.rows[i]
                    \/ /\ Trusts /\ i <= frozen /\ frozen <= writer.frozen
                       /\ log.rows'[i] = Stored[i]
<1>1. /\ writer.step = "log" /\ writer \in Writer /\ writer.rows \in Seq(Row)
      /\ writer.frozen \in Nat /\ writer.shared \in Nat /\ writer.previous \in Nat
      /\ log.rows \in Seq(Row) /\ frozen \in Nat /\ reference = NoReference
      /\ writer.frozen <= Len(writer.rows) /\ Len(writer.rows) \in Nat /\ Len(log.rows) \in Nat
  BY LenProperties DEF WriteLog, IInv, TypeOK, Writer, HeadInv, SmallAgrees, FrozenWithin
<1>2. frozen' = writer.frozen /\ reference' = NoReference
  BY <1>1 DEF WriteLog
<1>3. Captured /\ Busy
  BY <1>1 DEF FInv, Busy
<1>4. PICK rows : rows = log.rows'
  OBVIOUS
<1>5. ASSUME Len(rows) = writer.frozen, rows \in Seq(Row) PROVE Stored' = rows
  <2>1. Stored' = First(rows, writer.frozen)
    BY <1>2, <1>4 DEF Stored
  <2>2. Least(writer.frozen, Len(rows)) = Len(rows)
    BY <1>1, <1>5 DEF Least
  <2>3. /\ First(rows, writer.frozen) \in Seq(Row)
        /\ Len(First(rows, writer.frozen)) = Len(rows)
        /\ \A i \in 1 .. Len(rows) : First(rows, writer.frozen)[i] = rows[i]
    BY <1>1, <1>5, <2>2, FirstIs
  <2>4. First(rows, writer.frozen) = rows
    BY <1>5, <2>3, SeqEqual
  <2>5. QED
    BY <2>1, <2>4
<1>6. CASE Replaces
  <2>1. rows = First(writer.rows, writer.frozen)
    BY <1>4, <1>6 DEF WriteLog
  <2>2. Least(writer.frozen, Len(writer.rows)) = writer.frozen
    BY <1>1 DEF Least
  <2>3. /\ rows \in Seq(Row) /\ Len(rows) = writer.frozen
        /\ \A i \in 1 .. writer.frozen : rows[i] = writer.rows[i]
    <3>1. /\ First(writer.rows, writer.frozen) \in Seq(Row)
          /\ Len(First(writer.rows, writer.frozen)) = Least(writer.frozen, Len(writer.rows))
          /\ \A i \in 1 .. Least(writer.frozen, Len(writer.rows)) :
                First(writer.rows, writer.frozen)[i] = writer.rows[i]
      BY <1>1, FirstIs
    <3>2. QED
      BY <2>1, <2>2, <3>1
  <2>4. writer.shared = 0
    BY <1>1, <1>3, <1>6 DEF Captured, Replaces
  <2>5. QED
    BY <1>1, <1>4, <1>5, <2>3, <2>4
<1>7. CASE ~Replaces
  <2>1. /\ ~writer.rewrite /\ writer.previous # 0 /\ writer.previous = frozen
        /\ writer.shared = frozen /\ frozen <= writer.frozen /\ "frozen" \notin failures
    BY <1>1, <1>3, <1>7 DEF Captured, Replaces
  <2>2. Trusts
    BY <1>1, <2>1 DEF Trusts
  <2>3. Len(log.rows) = frozen /\ Len(Stored) = frozen
    BY <1>1, <2>1 DEF SavedInv, StoredInv
  <2>4. \A i \in 1 .. frozen : Stored[i].id = writer.rows[i].id
    BY <1>3, <2>2 DEF SavedInv, StoredInv
  <2>5. \A i \in 1 .. frozen : Stored[i] = log.rows[i]
    <3>1. Stored = First(log.rows, frozen)
      BY <1>1 DEF Stored
    <3>2. Least(frozen, Len(log.rows)) = frozen
      BY <1>1, <2>3 DEF Least
    <3>3. QED
      BY <1>1, <3>1, <3>2, FirstIs
  <2>6. rows = log.rows \o Added
    BY <1>4, <1>7 DEF WriteLog
  <2>7. /\ Added \in Seq(Row) /\ Len(Added) = writer.frozen - frozen
        /\ \A i \in 1 .. writer.frozen - frozen : Added[i] = writer.rows[frozen + i]
    <3>1. \A i \in frozen + 1 .. writer.frozen : writer.rows[i] \in Row
      <4>1. \A i \in frozen + 1 .. writer.frozen : i \in 1 .. Len(writer.rows)
        BY <1>1
      <4>2. QED
        BY <1>1, <4>1, ElementOfSeq
    <3>2. Added = SubSeq(writer.rows, frozen + 1, writer.frozen)
      BY <2>1 DEF Added
    <3>3. frozen + 1 \in Int /\ writer.frozen \in Int
      BY <1>1
    <3>4. /\ SubSeq(writer.rows, frozen + 1, writer.frozen) \in Seq(Row)
          /\ Len(SubSeq(writer.rows, frozen + 1, writer.frozen))
                = IF frozen + 1 <= writer.frozen THEN writer.frozen - (frozen + 1) + 1 ELSE 0
          /\ \A i \in 1 .. writer.frozen - (frozen + 1) + 1 :
                SubSeq(writer.rows, frozen + 1, writer.frozen)[i] = writer.rows[(frozen + 1) + i - 1]
      BY <3>1, <3>3, SubSeqProperties
    <3>5. Len(Added) = writer.frozen - frozen
      BY <1>1, <2>1, <3>2, <3>4
    <3>6. ASSUME NEW i \in 1 .. writer.frozen - frozen PROVE Added[i] = writer.rows[frozen + i]
      <4>1. i \in 1 .. writer.frozen - (frozen + 1) + 1 /\ (frozen + 1) + i - 1 = frozen + i
        BY <1>1
      <4>2. QED
        BY <3>2, <3>4, <4>1
    <3>7. QED
      BY <3>2, <3>4, <3>5, <3>6
  <2>8. /\ rows \in Seq(Row) /\ Len(rows) = Len(log.rows) + Len(Added)
        /\ \A i \in 1 .. Len(log.rows) + Len(Added) :
              rows[i] = IF i <= Len(log.rows) THEN log.rows[i] ELSE Added[i - Len(log.rows)]
    <3>1. PICK old \in Seq(Row), new \in Seq(Row) : old = log.rows /\ new = Added
      BY <1>1, <2>7
    <3>2. /\ old \o new \in Seq(Row) /\ Len(old \o new) = Len(old) + Len(new)
          /\ \A i \in 1 .. Len(old) + Len(new) :
                (old \o new)[i] = IF i <= Len(old) THEN old[i] ELSE new[i - Len(old)]
      BY ConcatProperties
    <3>3. QED
      BY <2>6, <3>1, <3>2
  <2>9. Len(rows) = writer.frozen
    BY <1>1, <2>1, <2>3, <2>7, <2>8
  <2>10. ASSUME NEW i \in 1 .. writer.frozen
         PROVE  /\ rows[i].id = writer.rows[i].id
                /\ \/ i > writer.shared /\ rows[i] = writer.rows[i]
                   \/ i <= frozen /\ rows[i] = Stored[i]
    <3>1. i \in 1 .. Len(log.rows) + Len(Added)
      BY <1>1, <2>1, <2>3, <2>7
    <3>2. rows[i] = IF i <= frozen THEN log.rows[i] ELSE Added[i - frozen]
      BY <2>3, <2>8, <3>1
    <3>3. CASE i <= frozen
      <4>1. i \in 1 .. frozen
        BY <1>1, <3>3
      <4>2. rows[i] = Stored[i]
        BY <2>5, <3>2, <3>3, <4>1
      <4>3. QED
        BY <2>4, <3>3, <4>1, <4>2
    <3>4. CASE ~(i <= frozen)
      <4>1. i - frozen \in 1 .. writer.frozen - frozen /\ frozen + (i - frozen) = i
        BY <1>1, <3>4
      <4>2. Added[i - frozen] = writer.rows[frozen + (i - frozen)]
        BY <2>7, <4>1
      <4>3. rows[i] = writer.rows[i]
        BY <3>2, <3>4, <4>1, <4>2
      <4>4. QED
        BY <1>1, <2>1, <3>4, <4>3
    <3>5. QED
      BY <3>3, <3>4
  <2>11. QED
    BY <1>4, <1>5, <2>1, <2>2, <2>8, <2>9, <2>10
<1>8. QED
  BY <1>6, <1>7

\* The log is replaced or extended.
LEMMA WriteLogKeeps ==
    ASSUME IInv, FInv, WriteLog
    PROVE  FInv'
<1>1. /\ writer.step = "log" /\ writer \in Writer
      /\ writer' = [writer EXCEPT !.step = "hot"] /\ frozen' = writer.frozen
      /\ failures' = failures \ {"frozen"}
      /\ UNCHANGED <<live, version, used, debounced, requested, requests, reference, cache,
                     hot, generations>>
  BY DEF WriteLog, IInv, TypeOK, session, queue
<1>2. /\ writer'.step = "hot" /\ writer'.rows = writer.rows /\ writer'.shared = writer.shared
      /\ writer'.previous = writer.previous /\ writer'.frozen = writer.frozen
      /\ writer'.rewrite = writer.rewrite /\ writer'.new = writer.new
  BY <1>1 DEF Writer
<1>3. Captured /\ JournalInv /\ UsedInv /\ Busy /\ Busy'
  BY <1>1, <1>2 DEF FInv, Busy
<1>4. /\ reference = NoReference /\ writer.rows \in Seq(Row) /\ writer.frozen \in Nat
      /\ writer.frozen <= Len(writer.rows) /\ log.rows \in Seq(Row) /\ writer.shared \in Nat
      /\ frozen \in Nat /\ Waiting \in Seq(Request)
  BY <1>1, WaitingTyped DEF IInv, HeadInv, SmallAgrees, TypeOK, Writer, FrozenWithin
<1>5. RowsOfGeneration(reference)' = RowsOfGeneration(reference)
  BY <1>1 DEF RowsOfGeneration
<1>6. Captured'
  BY <1>1, <1>2, <1>3 DEF Captured
<1>7. JournalInv'
  BY <1>1, <1>2, <1>3, <1>4, <1>5 DEF JournalInv
<1>8. UsedInv'
  <2>1. GotRows(writer.rows, used) /\ GotRows(log.rows, used)
    BY <1>3 DEF UsedInv
  <2>2. Added \in Seq(Row)
    BY AddedTyped DEF IInv, HeadInv
  <2>3. GotRows(Added, used)
    <3>1. writer.previous + 1 \in Nat \ {0}
      BY <1>1 DEF Writer
    <3>2. QED
      BY <1>4, <2>1, <3>1, GotPart DEF Added
  <2>4. GotRows(First(writer.rows, writer.frozen), used)
    BY <1>4, <2>1, GotSplit
  <2>5. GotRows(From(Added, 1), used) /\ From(Added, 1) \in Seq(Row)
    BY <2>2, <2>3, GotSplit, FromIs
  <2>6. GotRows(log.rows \o Added, used) /\ GotRows(log.rows \o From(Added, 1), used)
    BY <1>4, <2>1, <2>2, <2>3, <2>5, GotJoined
  <2>7. GotRows(log.rows', used)
    BY <2>4, <2>6 DEF WriteLog
  <2>8. QED
    BY <1>1, <1>2, <1>3, <1>5, <2>7 DEF UsedInv
<1>9. ASSUME ~spoiled' PROVE SavedInv'
  <2>1. ~spoiled /\ (Replaces \/ ~log.torn)
    BY <1>9 DEF WriteLog
  <2>2. SavedInv
    BY <2>1 DEF FInv
  <2>3. QueueInv' /\ Waiting' = Waiting /\ Settled'
    BY <1>1, <1>2, <1>3, <2>2, GoesOn
  <2>4. /\ Len(log.rows') = writer.frozen /\ Stored' = log.rows'
        /\ \A i \in 1 .. writer.frozen :
              /\ log.rows'[i].id = writer.rows[i].id
              /\ \/ i > writer.shared /\ log.rows'[i] = writer.rows[i]
                 \/ /\ Trusts /\ i <= frozen /\ frozen <= writer.frozen
                    /\ log.rows'[i] = Stored[i]
    BY <2>1, <2>2, LogHas
  <2>5. StoredInv'
    <3>1. /\ Len(Stored') = frozen'
          /\ reference' = NoReference /\ frozen' > 0 => Len(log'.rows) = frozen'
      BY <1>1, <2>4
    <3>2. frozen' <= Len(writer'.rows) /\ \A i \in 1 .. frozen' : Stored'[i].id = writer'.rows[i].id
      BY <1>1, <1>2, <1>4, <2>4
    <3>3. QED
      BY <3>1, <3>2 DEF StoredInv
  <2>6. NewInv'
    BY <1>2 DEF NewInv
  <2>7. KeptInv'
    <3>1. ASSUME NEW i \in 1 .. writer.frozen
          PROVE  log.rows'[i].ver = version[log.rows'[i].id] \/ Redone(Waiting, i, writer.frozen)
      <4>1. CASE i > writer.shared /\ log.rows'[i] = writer.rows[i]
        <5>1. i \in writer.shared + 1 .. writer.frozen
          BY <1>4, <4>1
        <5>2. Kept(version, Waiting, writer.rows, writer.shared, writer.frozen)
          BY <1>3, <2>2 DEF SavedInv, KeptInv
        <5>3. QED
          BY <4>1, <5>1, <5>2 DEF Kept
      <4>2. CASE /\ Trusts /\ i <= frozen /\ frozen <= writer.frozen
                 /\ log.rows'[i] = Stored[i]
        <5>1. i \in 0 + 1 .. frozen
          BY <1>4, <4>2
        <5>2. Kept(version, Waiting, Stored, 0, frozen)
          BY <2>2, <4>2 DEF SavedInv, KeptInv
        <5>3. Stored[i].ver = version[Stored[i].id] \/ Redone(Waiting, i, frozen)
          BY <5>1, <5>2 DEF Kept
        <5>4. Redone(Waiting, i, frozen) => Redone(Waiting, i, writer.frozen)
          BY <1>4, <4>2, RedoneMore
        <5>5. QED
          BY <4>2, <5>3, <5>4
      <4>3. QED
        BY <2>4, <4>1, <4>2
    <3>2. Kept(version, Waiting, log.rows', 0, writer.frozen)
      <4>1. \A i \in 0 + 1 .. writer.frozen : i \in 1 .. writer.frozen
        BY <1>4
      <4>2. QED
        BY <3>1, <4>1 DEF Kept
    <3>3. Kept(version, Waiting, writer.rows, writer.shared, writer.frozen)
      BY <1>3, <2>2 DEF SavedInv, KeptInv
    <3>4. QED
      BY <1>1, <1>2, <2>3, <2>4, <3>2, <3>3 DEF KeptInv
  <2>8. QED
    BY <2>3, <2>5, <2>6, <2>7 DEF SavedInv
<1>10. QED
  BY <1>6, <1>7, <1>8, <1>9 DEF FInv

\* Rows that are the same row as it was edited the same number of times.
LEMMA SameRow ==
    ASSUME NEW r \in Row, NEW s \in Row, r.id = s.id, r.ver = s.ver
    PROVE  r = s
BY DEF Row

\* Frozen rows that nothing waiting writes again are those of the session.
LEMMA CurrentRow ==
    ASSUME NEW a \in Seq(Ids), version \in [Ids -> Nat], NEW rows \in Seq(Row), NEW n \in Nat,
           NEW i \in 1 .. n, i <= Len(rows), i <= Len(a), rows[i].id = a[i],
           Kept(version, <<>>, rows, 0, n)
    PROVE  rows[i] = Now(a)[i]
<1>1. /\ Now(a) \in Seq(Row) /\ Len(Now(a)) = Len(a) /\ Len(a) \in Nat
      /\ \A k \in 1 .. Len(a) : Now(a)[k].id = a[k] /\ Now(a)[k].ver = version[a[k]]
  BY NowIs, LenProperties
<1>2. i \in 0 + 1 .. n
  OBVIOUS
<1>3. Len(<<>>) = 0
  BY EmptySeq
<1>4. ~Redone(<<>>, i, n)
  BY <1>3 DEF Redone
<1>5. rows[i].ver = version[rows[i].id]
  BY <1>2, <1>4 DEF Kept
<1>6. i \in 1 .. Len(rows) /\ i \in 1 .. Len(a)
  BY <1>1, LenProperties
<1>7. rows[i] \in Row
  BY <1>6, ElementOfSeq
<1>8. Now(a)[i].id = a[i] /\ Now(a)[i].ver = version[a[i]]
  BY <1>1, <1>6
<1>9. i \in 1 .. Len(Now(a))
  BY <1>1, <1>6
<1>10. Now(a)[i] \in Row
  BY <1>1, <1>9, ElementOfSeq
<1>11. QED
  BY <1>5, <1>7, <1>8, <1>10, SameRow

\* The rows behind the first n.
LEMMA FromHas ==
    ASSUME NEW s \in Seq(Row), NEW n \in Nat, n <= Len(s)
    PROVE  /\ From(s, n) \in Seq(Row) /\ Len(From(s, n)) = Len(s) - n
           /\ \A i \in 1 .. Len(s) - n : From(s, n)[i] = s[n + i]
<1>1. Len(s) \in Nat /\ n + 1 \in Int /\ Len(s) \in Int
  BY LenProperties
<1>2. \A i \in n + 1 .. Len(s) : s[i] \in Row
  <2>1. \A i \in n + 1 .. Len(s) : i \in 1 .. Len(s)
    BY <1>1
  <2>2. QED
    BY <2>1, ElementOfSeq
<1>3. /\ SubSeq(s, n + 1, Len(s)) \in Seq(Row)
      /\ Len(SubSeq(s, n + 1, Len(s))) = IF n + 1 <= Len(s) THEN Len(s) - (n + 1) + 1 ELSE 0
      /\ \A i \in 1 .. Len(s) - (n + 1) + 1 : SubSeq(s, n + 1, Len(s))[i] = s[(n + 1) + i - 1]
  BY <1>1, <1>2, SubSeqProperties
<1>4. Len(From(s, n)) = Len(s) - n
  BY <1>1, <1>3 DEF From
<1>5. ASSUME NEW i \in 1 .. Len(s) - n PROVE From(s, n)[i] = s[n + i]
  <2>1. i \in 1 .. Len(s) - (n + 1) + 1 /\ (n + 1) + i - 1 = n + i
    BY <1>1
  <2>2. QED
    BY <1>3, <2>1 DEF From
<1>6. QED
  BY <1>3, <1>4, <1>5 DEF From

\* All of them.
LEMMA FromAll ==
    ASSUME NEW s \in Seq(Row)
    PROVE  From(s, 0) = s
<1>1. PICK n : n = 0
  OBVIOUS
<1>2. Len(s) \in Nat /\ n \in Nat /\ n <= Len(s)
  BY <1>1, LenProperties
<1>3. /\ From(s, n) \in Seq(Row) /\ Len(From(s, n)) = Len(s) - n
      /\ \A i \in 1 .. Len(s) - n : From(s, n)[i] = s[n + i]
  BY <1>2, FromHas
<1>4. Len(From(s, n)) = Len(s)
  BY <1>1, <1>2, <1>3
<1>5. ASSUME NEW i \in 1 .. Len(From(s, n)) PROVE From(s, n)[i] = s[i]
  <2>1. i \in 1 .. Len(s) - n /\ n + i = i
    BY <1>1, <1>2, <1>4
  <2>2. QED
    BY <1>3, <2>1
<1>6. From(s, n) = s
  BY <1>3, <1>4, <1>5, SeqEqual
<1>7. QED
  BY <1>1, <1>6

\* The rows of a log and those behind them.
LEMMA Rejoined ==
    ASSUME NEW s \in Seq(Row), NEW t \in Seq(Row), NEW n \in Nat, Len(s) = n, n <= Len(t),
           \A i \in 1 .. n : s[i] = t[i]
    PROVE  WithLog(From(t, n), n, s) = t
<1>1. PICK u : u = From(t, n)
  OBVIOUS
<1>2. /\ u \in Seq(Row) /\ Len(u) = Len(t) - n /\ Len(t) \in Nat
      /\ \A i \in 1 .. Len(t) - n : u[i] = t[n + i]
  BY <1>1, FromHas, LenProperties
<1>3. Len(u) \in Nat /\ 0 <= Len(u)
  BY <1>2
<1>4. From(u, 0) = u
  BY <1>2, FromAll
<1>5. ~(Len(s) > n)
  OBVIOUS
<1>6. WithLog(u, n, s) = s \o u
  BY <1>4, <1>5 DEF WithLog
<1>7. /\ s \o u \in Seq(Row) /\ Len(s \o u) = Len(s) + Len(u)
      /\ \A i \in 1 .. Len(s) + Len(u) : (s \o u)[i] = IF i <= Len(s) THEN s[i] ELSE u[i - Len(s)]
  BY <1>2, ConcatProperties
<1>8. Len(s) + Len(u) = Len(t)
  BY <1>2
<1>9. ASSUME NEW i \in 1 .. Len(t) PROVE (s \o u)[i] = t[i]
  <2>1. (s \o u)[i] = IF i <= n THEN s[i] ELSE u[i - n]
    BY <1>7, <1>8
  <2>2. CASE i <= n
    BY <2>1, <2>2
  <2>3. CASE ~(i <= n)
    <3>1. i - n \in 1 .. Len(t) - n /\ n + (i - n) = i
      BY <1>2, <2>3
    <3>2. u[i - n] = t[n + (i - n)]
      BY <1>2, <3>1
    <3>3. QED
      BY <2>1, <2>3, <3>1, <3>2
  <2>4. QED
    BY <2>2, <2>3
<1>10. s \o u = t
  BY <1>7, <1>8, <1>9, SeqEqual
<1>11. QED
  BY <1>1, <1>6, <1>10

\* The requests behind the running one, and no save any more.
LEMMA IdleGot ==
    ASSUME IInv, FInv, Busy, Settles
    PROVE  /\ \A k \in 1 .. Len(requests') : Got(requests'[k].ids, used)
           /\ GotRows(writer'.rows, used) /\ GotRows(writer'.new.rows, used)
           /\ UNCHANGED <<live, version, used, debounced, requested>>
           /\ requests' = Tail(requests) /\ ~Busy' /\ writer'.step = "idle"
<1>1. /\ requests' = Tail(requests) /\ writer' = Idle /\ requests # <<>>
      /\ UNCHANGED <<live, version, used, debounced, requested>>
  BY DEF Settles, session, IInv, RunningFirst, Busy
<1>2. \A k \in 1 .. Len(requests') : Got(requests'[k].ids, used)
  BY <1>1, GotTail
<1>3. QED
  BY <1>1, <1>2, IdleHas DEF Busy

\* The hot file is written and the save is answered.
LEMMA WriteHotKeeps ==
    ASSUME IInv, FInv, WriteHot
    PROVE  FInv'
<1>1. /\ writer.step = "hot" /\ Settles
      /\ hot' = [frozen |-> writer.frozen, tail |-> From(writer.rows, writer.frozen),
                 ref |-> NoReference]
      /\ failures' = failures \ {"hot"}
      /\ UNCHANGED <<frozen, reference, cache, log, generations, spoiled>>
  BY DEF WriteHot, Succeeds
<1>2. Captured /\ JournalInv /\ UsedInv /\ Busy
  BY <1>1 DEF FInv, Busy
<1>3. /\ \A k \in 1 .. Len(requests') : Got(requests'[k].ids, used)
      /\ GotRows(writer'.rows, used) /\ GotRows(writer'.new.rows, used)
      /\ UNCHANGED <<live, version, used, debounced, requested>>
      /\ requests' = Tail(requests) /\ ~Busy' /\ writer'.step = "idle"
  BY <1>1, <1>2, IdleGot
<1>4. /\ reference = NoReference /\ writer.rows \in Seq(Row) /\ writer.frozen \in Nat
      /\ writer.frozen <= Len(writer.rows) /\ log.rows \in Seq(Row)
      /\ frozen \in Nat /\ live \in Seq(Ids) /\ version \in [Ids -> Nat]
  BY <1>1 DEF IInv, HeadInv, SmallAgrees, TypeOK, Writer, FrozenWithin
<1>5. writer.frozen = frozen /\ "frozen" \notin failures /\ "frozen" \notin failures'
  BY <1>1, <1>2 DEF Captured
<1>6. RowsOfGeneration(reference)' = RowsOfGeneration(reference) /\ Stored' = Stored
  BY <1>1 DEF RowsOfGeneration, Stored
<1>7. Captured'
  BY <1>3 DEF Captured
<1>8. JournalInv'
  BY <1>1, <1>2, <1>3, <1>4, <1>6 DEF JournalInv
<1>9. UsedInv'
  <2>1. GotRows(From(writer.rows, writer.frozen), used)
    BY <1>2, <1>4, GotSplit DEF UsedInv
  <2>2. QED
    BY <1>1, <1>2, <1>3, <1>6, <2>1 DEF UsedInv
<1>10. ASSUME ~spoiled' PROVE SavedInv'
  <2>1. SavedInv
    BY <1>1, <1>10 DEF FInv
  <2>2. Trusts
    BY <1>1, <1>5 DEF Trusts
  <2>3. /\ Len(Stored) = frozen /\ (frozen > 0 => Len(log.rows) = frozen)
        /\ frozen <= Len(writer.rows) /\ \A i \in 1 .. frozen : Stored[i].id = writer.rows[i].id
    BY <1>1, <1>2, <1>4, <1>5, <2>1, <2>2 DEF SavedInv, StoredInv
  <2>4. Base' = IdsOf(Stored) /\ Base = IdsOf(writer.rows)
    BY <1>2, <1>3, <1>5, <1>6 DEF Base, FrozenIds
  <2>5. /\ IdsOf(Stored) \in Seq(Ids) /\ Len(IdsOf(Stored)) = frozen /\ Stored \in Seq(Row)
        /\ Len(IdsOf(writer.rows)) = Len(writer.rows) /\ Len(writer.rows) \in Nat
    BY <1>4, <2>3, StoredTyped, IdsAre
  <2>6. ASSUME NEW i \in 1 .. frozen PROVE IdsOf(Stored)[i] = IdsOf(writer.rows)[i]
    <3>1. i \in 1 .. Len(Stored) /\ i \in 1 .. Len(writer.rows)
      BY <1>4, <2>3, <2>5
    <3>2. IdsOf(Stored)[i] = Stored[i].id
      BY <2>5, <3>1, IdsAre
    <3>3. IdsOf(writer.rows)[i] = writer.rows[i].id
      BY <1>4, <3>1, IdsAre
    <3>4. QED
      BY <2>3, <3>2, <3>3
  <2>7. QueueInv' /\ Waiting' = Waiting /\ ~Busy'
    <3>1. Base' \in Seq(Ids) /\ Len(Base') <= Len(Base)
      BY <2>3, <2>4, <2>5
    <3>2. \A i \in 1 .. Len(Base') : Base'[i] = Base[i]
      BY <2>4, <2>5, <2>6
    <3>3. QED
      BY <1>1, <1>2, <2>1, <3>1, <3>2, SettlesQueue
  <2>8. StoredInv'
    BY <1>1, <1>3, <1>6, <2>3, <2>7 DEF StoredInv
  <2>9. NewInv'
    BY <1>3 DEF NewInv
  <2>10. Kept(version, Waiting, Stored, 0, frozen)
    BY <2>1, <2>2 DEF SavedInv, KeptInv
  <2>11. KeptInv'
    BY <1>1, <1>3, <1>6, <2>7, <2>10 DEF KeptInv
  <2>12. Settled'
    <3>1. SUFFICES ASSUME Waiting = <<>>, ~debounced PROVE Loaded' = Now(live)'
      BY <1>3, <2>7 DEF Settled
    <3>2. writer.rows = Now(live)
      BY <1>2, <2>1, <3>1 DEF SavedInv, Settled
    <3>3. Now(live)' = Now(live)
      BY <1>3 DEF Now
    <3>4. hot'.ref = NoReference /\ hot'.frozen = frozen /\ hot'.tail = From(writer.rows, frozen)
      BY <1>1, <1>5
    <3>5. CASE frozen = 0
      <4>1. Loaded' = From(writer.rows, frozen)
        BY <3>4, <3>5 DEF Loaded, Loads
      <4>2. From(writer.rows, 0) = writer.rows
        BY <1>4, FromAll
      <4>3. QED
        BY <3>2, <3>3, <3>5, <4>1, <4>2
    <3>6. CASE frozen > 0
      <4>1. Loaded' = WithLog(From(writer.rows, frozen), frozen, log.rows)
        BY <1>1, <1>4, <3>4, <3>6 DEF Loaded, Loads
      <4>2. Stored = First(log.rows, frozen) /\ Least(frozen, Len(log.rows)) = frozen
        BY <1>4, <2>3, <3>6 DEF Stored, Least
      <4>3. \A i \in 1 .. frozen : Stored[i] = log.rows[i]
        BY <1>4, <4>2, FirstIs
      <4>4. /\ Len(Now(live)) = Len(live) /\ Len(live) \in Nat
            /\ \A k \in 1 .. Len(live) : Now(live)[k].id = live[k]
        BY <1>4, NowIs, LenProperties
      <4>5. ASSUME NEW i \in 1 .. frozen PROVE log.rows[i] = writer.rows[i]
        <5>1. i \in 1 .. Len(live) /\ i <= Len(live) /\ i <= Len(Stored)
          BY <1>4, <2>3, <3>2, <4>4
        <5>2. Stored[i].id = live[i]
          BY <2>3, <3>2, <4>4, <5>1
        <5>3. Kept(version, <<>>, Stored, 0, frozen)
          BY <2>10, <3>1
        <5>4. Stored[i] = Now(live)[i]
          BY <1>4, <2>5, <5>1, <5>2, <5>3, CurrentRow
        <5>5. QED
          BY <3>2, <4>3, <5>4
      <4>6. WithLog(From(writer.rows, frozen), frozen, log.rows) = writer.rows
        BY <1>4, <2>3, <3>6, <4>5, Rejoined
      <4>7. QED
        BY <3>2, <3>3, <4>1, <4>6
    <3>7. QED
      BY <1>4, <3>5, <3>6
  <2>13. QED
    BY <2>7, <2>8, <2>9, <2>11, <2>12 DEF SavedInv
<1>11. QED
  BY <1>7, <1>8, <1>9, <1>10 DEF FInv

-----------------------------------------------------------------------------
(***************************************************************************)
(* What the journal makes of what is saved.                                *)
(***************************************************************************)
\* The head is published.
LEMMA PublishKeeps ==
    ASSUME IInv, FInv, Publish
    PROVE  FInv'
<1>1. /\ writer.step = "publish" /\ writer \in Writer
      /\ hot' = [frozen |-> writer.frozen, tail |-> <<>>, ref |-> HeadOf(writer.new)]
      /\ writer' = [writer EXCEPT !.step = "retire"]
      /\ UNCHANGED <<live, version, used, debounced, requested, requests, frozen, reference,
                     failures, log, generations, spoiled>>
  BY DEF Publish, IInv, TypeOK, session, queue, history
<1>2. /\ writer'.step = "retire" /\ writer'.rows = writer.rows /\ writer'.shared = writer.shared
      /\ writer'.previous = writer.previous /\ writer'.frozen = writer.frozen
      /\ writer'.rewrite = writer.rewrite /\ writer'.new = writer.new
  BY <1>1 DEF Writer
<1>3. Captured /\ JournalInv /\ UsedInv /\ Busy /\ Busy'
  BY <1>1, <1>2 DEF FInv, Busy
<1>4. RowsOfGeneration(reference)' = RowsOfGeneration(reference)
  BY <1>1 DEF RowsOfGeneration
<1>5. RowsOfGeneration(HeadOf(writer.new))' = RowsOfGeneration(HeadOf(writer.new))
  BY <1>1, <1>2 DEF RowsOfGeneration, HeadOf
<1>6. Captured'
  BY <1>1, <1>2, <1>3 DEF Captured
<1>7. JournalInv'
  BY <1>1, <1>2, <1>3, <1>5 DEF JournalInv
<1>8. UsedInv'
  <2>1. GotRows(<<>>, used)
    BY EmptySeq DEF GotRows
  <2>2. QED
    BY <1>1, <1>2, <1>3, <1>4, <2>1 DEF UsedInv
<1>9. ASSUME ~spoiled' PROVE SavedInv'
  <2>1. SavedInv
    BY <1>1, <1>9 DEF FInv
  <2>2. QueueInv' /\ Waiting' = Waiting /\ Settled'
    BY <1>1, <1>2, <1>3, <2>1, GoesOn
  <2>3. StoredInv' /\ ~Trusts'
    BY <1>2 DEF StoredInv, Trusts
  <2>4. NewInv'
    BY <1>1, <1>2, <2>1 DEF SavedInv, NewInv
  <2>5. KeptInv'
    BY <1>1, <1>2, <1>3, <2>1, <2>2, <2>3 DEF SavedInv, KeptInv
  <2>6. QED
    BY <2>2, <2>3, <2>4, <2>5 DEF SavedInv
<1>10. QED
  BY <1>6, <1>7, <1>8, <1>9 DEF FInv

\* The ids of rows that others begin with.
LEMMA IdsBegin ==
    ASSUME NEW s \in Seq(Row), NEW t \in Seq(Row), Len(s) <= Len(t),
           \A i \in 1 .. Len(s) : s[i].id = t[i].id
    PROVE  /\ IdsOf(s) \in Seq(Ids) /\ Len(IdsOf(s)) <= Len(IdsOf(t))
           /\ \A i \in 1 .. Len(IdsOf(s)) : IdsOf(s)[i] = IdsOf(t)[i]
<1>1. /\ IdsOf(s) \in Seq(Ids) /\ Len(IdsOf(s)) = Len(s) /\ Len(s) \in Nat
      /\ \A i \in 1 .. Len(s) : IdsOf(s)[i] = s[i].id
  BY IdsAre
<1>2. /\ Len(IdsOf(t)) = Len(t) /\ Len(t) \in Nat
      /\ \A i \in 1 .. Len(t) : IdsOf(t)[i] = t[i].id
  BY IdsAre
<1>3. ASSUME NEW i \in 1 .. Len(IdsOf(s)) PROVE IdsOf(s)[i] = IdsOf(t)[i]
  <2>1. i \in 1 .. Len(s) /\ i \in 1 .. Len(t)
    BY <1>1, <1>2
  <2>2. QED
    BY <1>1, <1>2, <2>1
<1>4. QED
  BY <1>1, <1>2, <1>3

\* The generation before is removed and the save is answered.
LEMMA RetireKeeps ==
    ASSUME IInv, FInv, Retire
    PROVE  FInv'
<1>1. PICK new : new = writer.new
  OBVIOUS
<1>2. /\ writer.step = "retire" /\ Settles
      /\ generations' = [g \in Gens |->
            IF g = reference.gen /\ g # new.gen THEN <<>> ELSE generations[g]]
      /\ frozen' = writer.frozen /\ reference' = HeadOf(new) /\ failures' = {}
      /\ UNCHANGED <<cache, hot, log, spoiled>>
  BY <1>1 DEF Retire, Succeeds
<1>3. Captured /\ JournalInv /\ UsedInv /\ Busy
  BY <1>2 DEF FInv, Busy
<1>4. /\ \A k \in 1 .. Len(requests') : Got(requests'[k].ids, used)
      /\ GotRows(writer'.rows, used) /\ GotRows(writer'.new.rows, used)
      /\ UNCHANGED <<live, version, used, debounced, requested>>
      /\ requests' = Tail(requests) /\ ~Busy' /\ writer'.step = "idle"
  BY <1>2, <1>3, IdleGot
<1>5. /\ hot.ref = HeadOf(new) /\ cache = new /\ new.gen \in Gens
      /\ new \in JournalCache /\ new.rows \in Seq(Row) /\ new.frozen <= Len(new.rows)
  <2>1. hot.ref = HeadOf(new) /\ cache = new
    BY <1>1, <1>2 DEF IInv, HeadInv, HotAgrees, CacheAgrees
  <2>2. new.gen \in Gens
    BY <1>1, <1>2 DEF IInv, HeadInv, HeadsHeld, Held, HeadOf
  <2>3. new \in JournalCache /\ new.rows \in Seq(Row)
    BY <1>1 DEF IInv, TypeOK, Writer, JournalCache
  <2>4. new.frozen <= Len(new.rows)
    BY <1>1 DEF IInv, HeadInv, FrozenWithin
  <2>5. QED
    BY <2>1, <2>2, <2>3, <2>4
<1>6. /\ writer.rows \in Seq(Row) /\ writer.frozen \in Nat /\ live \in Seq(Ids)
      /\ version \in [Ids -> Nat] /\ Len(writer.rows) \in Nat
  BY LenProperties DEF IInv, TypeOK, Writer
<1>7. /\ new.frozen = writer.frozen /\ Len(new.rows) = Len(writer.rows)
      /\ RowsOfGeneration(HeadOf(new)) = new.rows
  BY <1>1, <1>2, <1>3 DEF JournalInv
<1>8. HeadOf(new).gen = new.gen /\ HeadOf(new) # NoReference
      /\ HeadOf(new).frozen = new.frozen /\ HeadOf(new).count = Len(new.rows)
  BY <1>5 DEF HeadOf, NoReference, Gens
<1>9. generations'[HeadOf(new).gen] = generations[HeadOf(new).gen]
  BY <1>2, <1>5, <1>8
<1>10. RowsOfGeneration(reference)' = new.rows /\ RowsOfGeneration(hot.ref)' = new.rows
  <2>1. PICK ref : ref = HeadOf(new)
    OBVIOUS
  <2>2. RowsOf(generations[ref.gen], ref.bytes, ref.count) = new.rows
    BY <1>7, <2>1, RowsAre
  <2>3. RowsOf(generations'[ref.gen], ref.bytes, ref.count) = new.rows
    BY <1>9, <2>1, <2>2
  <2>4. reference' = ref /\ hot.ref' = ref
    BY <1>2, <1>5, <2>1
  <2>5. RowsOfGeneration(reference)'
           = RowsOf(generations'[reference'.gen], reference'.bytes, reference'.count)
    BY DEF RowsOfGeneration, RowsOf, RowOf
  <2>6. RowsOfGeneration(hot.ref)'
           = RowsOf(generations'[hot.ref'.gen], hot.ref'.bytes, hot.ref'.count)
    BY DEF RowsOfGeneration, RowsOf, RowOf
  <2>7. QED
    BY <2>3, <2>4, <2>5, <2>6
<1>11. /\ Stored' \in Seq(Row) /\ Len(Stored') = writer.frozen
       /\ \A i \in 1 .. writer.frozen : Stored'[i] = new.rows[i]
  <2>1. Stored' = First(new.rows, writer.frozen)
    BY <1>2, <1>8, <1>10 DEF Stored
  <2>2. Least(writer.frozen, Len(new.rows)) = writer.frozen
    BY <1>5, <1>6, <1>7 DEF Least
  <2>3. QED
    BY <1>5, <1>6, <2>1, <2>2, FirstIs
<1>12. Captured'
  BY <1>4 DEF Captured
<1>13. JournalInv'
  BY <1>2, <1>4, <1>5, <1>7, <1>8, <1>10 DEF JournalInv
<1>14. UsedInv'
  <2>1. GotRows(new.rows, used)
    BY <1>1, <1>3 DEF UsedInv
  <2>2. QED
    BY <1>2, <1>3, <1>4, <1>10, <2>1 DEF UsedInv
<1>15. ASSUME ~spoiled' PROVE SavedInv'
  <2>1. SavedInv
    BY <1>2, <1>15 DEF FInv
  <2>2. /\ \A i \in 1 .. Len(writer.rows) : new.rows[i].id = writer.rows[i].id
        /\ \A i \in writer.frozen + 1 .. Len(writer.rows) : new.rows[i] = writer.rows[i]
    BY <1>1, <1>2, <2>1 DEF SavedInv, NewInv
  <2>3. Base' = IdsOf(Stored') /\ Base = IdsOf(writer.rows)
    BY <1>2, <1>3, <1>4 DEF Base, FrozenIds
  <2>4. QueueInv' /\ Waiting' = Waiting /\ ~Busy'
    <3>1. PICK stored : stored = Stored'
      OBVIOUS
    <3>2. \A i \in 1 .. Len(stored) : i \in 1 .. Len(writer.rows) /\ stored[i] = new.rows[i]
      BY <1>5, <1>6, <1>7, <1>11, <3>1
    <3>3. stored \in Seq(Row) /\ Len(stored) <= Len(writer.rows)
      BY <1>5, <1>7, <1>11, <3>1
    <3>4. \A i \in 1 .. Len(stored) : stored[i].id = writer.rows[i].id
      BY <2>2, <3>2
    <3>5. /\ IdsOf(stored) \in Seq(Ids) /\ Len(IdsOf(stored)) <= Len(IdsOf(writer.rows))
          /\ \A i \in 1 .. Len(IdsOf(stored)) : IdsOf(stored)[i] = IdsOf(writer.rows)[i]
      BY <1>6, <3>3, <3>4, IdsBegin
    <3>6. Base' = IdsOf(stored)
      BY <2>3, <3>1
    <3>7. QED
      BY <1>2, <1>3, <2>1, <2>3, <3>5, <3>6, SettlesQueue
  <2>5. StoredInv'
    BY <1>2, <1>4, <1>8, <1>11 DEF StoredInv
  <2>6. NewInv'
    BY <1>4 DEF NewInv
  <2>7. Kept(version, Waiting, new.rows, 0, writer.frozen)
    BY <1>1, <1>2, <2>1 DEF SavedInv, KeptInv
  <2>8. KeptInv'
    <3>1. Kept(version, Waiting, Stored', 0, writer.frozen)
      <4>1. \A i \in 0 + 1 .. writer.frozen : Stored'[i] = new.rows[i]
        BY <1>6, <1>11
      <4>2. QED
        BY <2>7, <4>1 DEF Kept
    <3>2. QED
      BY <1>2, <1>4, <2>4, <3>1 DEF KeptInv
  <2>9. Settled'
    <3>1. SUFFICES ASSUME Waiting = <<>>, ~debounced PROVE Loaded' = Now(live)'
      BY <1>4, <2>4 DEF Settled
    <3>2. writer.rows = Now(live)
      BY <1>3, <2>1, <3>1 DEF SavedInv, Settled
    <3>3. Now(live)' = Now(live)
      BY <1>4 DEF Now
    <3>4. Loaded' = new.rows
      BY <1>2, <1>5, <1>8, <1>10 DEF Loaded, Loads
    <3>5. /\ Len(Now(live)) = Len(live) /\ Len(live) \in Nat
          /\ \A k \in 1 .. Len(live) : Now(live)[k].id = live[k]
      BY <1>6, NowIs, LenProperties
    <3>6. ASSUME NEW i \in 1 .. Len(new.rows) PROVE new.rows[i] = writer.rows[i]
      <4>1. CASE i <= writer.frozen
        <5>1. i \in 1 .. writer.frozen /\ i <= Len(new.rows) /\ i <= Len(live) /\ i \in 1 .. Len(live)
          BY <1>6, <1>7, <3>2, <3>5, <4>1
        <5>2. new.rows[i].id = live[i]
          BY <1>7, <2>2, <3>2, <3>5, <5>1
        <5>3. Kept(version, <<>>, new.rows, 0, writer.frozen)
          BY <2>7, <3>1
        <5>4. new.rows[i] = Now(live)[i]
          BY <1>5, <1>6, <5>1, <5>2, <5>3, CurrentRow
        <5>5. QED
          BY <3>2, <5>4
      <4>2. CASE ~(i <= writer.frozen)
        <5>1. i \in writer.frozen + 1 .. Len(writer.rows)
          BY <1>6, <1>7, <4>2
        <5>2. QED
          BY <2>2, <5>1
      <4>3. QED
        BY <4>1, <4>2
    <3>7. new.rows = writer.rows
      BY <1>5, <1>6, <1>7, <3>6, SeqEqual
    <3>8. QED
      BY <3>2, <3>3, <3>4, <3>7
  <2>10. QED
    BY <2>4, <2>5, <2>6, <2>8, <2>9 DEF SavedInv
<1>16. QED
  BY <1>12, <1>13, <1>14, <1>15 DEF FInv

\* The frozen rows of the head that are not read are those that are stored.
LEMMA TrustedAre ==
    ASSUME IInv, FInv, SavedInv, writer.step = "append",
           NEW prev, \/ prev = Head0
                     \/ prev = cache /\ cache # Head0,
           Trusted(prev) # 0
    PROVE  /\ Trusts /\ Trusted(prev) = frozen /\ frozen <= writer.frozen
           /\ \A i \in 1 .. frozen :
                 prev.rows[i] = Stored[i] /\ Stored[i].id = writer.rows[i].id
<1>1. /\ writer \in Writer /\ writer.shared \in Nat /\ writer.frozen \in Nat /\ frozen \in Nat
      /\ cache \in JournalCache /\ cache.frozen \in Nat /\ TypeOK /\ HeadInv
  BY DEF IInv, TypeOK, Writer, JournalCache
<1>2. Captured /\ JournalInv /\ Busy
  BY DEF FInv, Busy
<1>3. prev = cache /\ cache # Head0
  <2>1. Trusted(Head0) = 0
    BY DEF Trusted, Head0
  <2>2. QED
    BY <2>1
<1>4. /\ Trusted(prev) = cache.frozen /\ cache.frozen # 0
      /\ writer.shared >= cache.frozen /\ writer.frozen >= cache.frozen
  BY <1>3 DEF Trusted
<1>5. reference # NoReference /\ HeadOf(cache) = reference /\ RowsOfGeneration(reference) = cache.rows
  BY <1>2, <1>3 DEF IInv, HeadInv, CacheAgrees, JournalInv
<1>6. cache.frozen = frozen
  <2>1. reference.frozen = cache.frozen
    BY <1>5 DEF HeadOf
  <2>2. QED
    BY <1>2, <1>5, <2>1 DEF JournalInv
<1>7. ~writer.rewrite
  BY <1>1, <1>2, <1>4 DEF Captured
<1>8. Trusts
  BY <1>2, <1>7 DEF Trusts, Captured
<1>9. Len(Stored) = frozen
  BY <1>8 DEF SavedInv, StoredInv, Trusts
<1>10. \A i \in 1 .. frozen : Stored[i].id = writer.rows[i].id
  BY <1>2, <1>8 DEF SavedInv, StoredInv
<1>11. ASSUME NEW i \in 1 .. frozen PROVE cache.rows[i] = Stored[i]
  <2>1. Stored = First(cache.rows, frozen) /\ cache.rows \in Seq(Row) /\ Len(cache.rows) \in Nat
    BY <1>1, <1>5, LenProperties DEF Stored, JournalCache
  <2>2. Least(frozen, Len(cache.rows)) = frozen
    BY <1>1, <1>9, <2>1, FirstIs
  <2>3. QED
    BY <1>1, <2>1, <2>2, FirstIs
<1>12. QED
  BY <1>1, <1>3, <1>4, <1>6, <1>8, <1>10, <1>11

\* The rows that are committed.
LEMMA CandidateRows ==
    ASSUME TypeOK, NEW prev, NEW gen, NEW i \in 1 .. Len(writer.rows)
    PROVE  /\ i <= Trusted(prev) => Candidate(prev, gen).rows[i] = prev.rows[i]
           /\ ~(i <= Trusted(prev)) =>
                 /\ Candidate(prev, gen).rows[i].id = writer.rows[i].id
                 /\ IF i <= writer.shared
                    THEN Candidate(prev, gen).rows[i].ver = version[writer.rows[i].id]
                    ELSE Candidate(prev, gen).rows[i] = writer.rows[i]
<1>1. writer.rows \in Seq(Row) /\ DOMAIN writer.rows = 1 .. Len(writer.rows)
  BY LenProperties DEF TypeOK, Writer
<1>2. writer.rows[i] \in Row
  BY <1>1, ElementOfSeq
<1>3. Candidate(prev, gen).rows[i] = IF i <= Trusted(prev) THEN prev.rows[i] ELSE Content(i)
  BY <1>1 DEF Candidate
<1>4. PICK r : r = writer.rows[i]
  OBVIOUS
<1>5. r \in Row /\ [r EXCEPT !.ver = version[r.id]].id = r.id
      /\ [r EXCEPT !.ver = version[r.id]].ver = version[r.id]
  BY <1>2, <1>4 DEF Row
<1>6. Content(i) = IF i <= writer.shared THEN [r EXCEPT !.ver = version[r.id]] ELSE r
  BY <1>4 DEF Content
<1>7. CASE i <= Trusted(prev)
  BY <1>3, <1>7
<1>8. CASE ~(i <= Trusted(prev))
  <2>1. Candidate(prev, gen).rows[i] = Content(i)
    BY <1>3, <1>8
  <2>2. CASE i <= writer.shared
    <3>1. Candidate(prev, gen).rows[i] = [r EXCEPT !.ver = version[r.id]]
      BY <1>6, <2>1, <2>2
    <3>2. QED
      BY <1>4, <1>5, <1>8, <2>2, <3>1
  <2>3. CASE ~(i <= writer.shared)
    <3>1. Candidate(prev, gen).rows[i] = r
      BY <1>6, <2>1, <2>3
    <3>2. QED
      BY <1>4, <1>8, <2>3, <3>1
  <2>4. QED
    BY <2>2, <2>3
<1>9. QED
  BY <1>7, <1>8

\* The state that is committed and what holds it.
LEMMA AppendHas ==
    ASSUME IInv, FInv, NEW obsolete \in BOOLEAN, AppendJournal(obsolete)
    PROVE  \E prev \in JournalCache, gen \in Gens, new \in JournalCache :
              /\ \/ prev = Head0
                 \/ prev = cache /\ cache # Head0
              /\ new = Candidate(prev, gen) /\ Len(new.rows) = Len(writer.rows)
              /\ new.frozen = writer.frozen
              /\ writer' = [writer EXCEPT !.step = "publish", !.new = new]
              /\ RowsOfGeneration(HeadOf(new))' = new.rows
              /\ reference # NoReference =>
                    RowsOfGeneration(reference)' = RowsOfGeneration(reference)
<1> DEFINE anew == cache = Head0 \/ obsolete
<1>1. PICK prev : prev = IF anew THEN Head0 ELSE cache
  OBVIOUS
<1>2. PICK gen : gen = IF anew THEN Fresh ELSE cache.gen
  OBVIOUS
<1>3. PICK new : new = Candidate(prev, gen)
  OBVIOUS
<1>4. PICK c : c = generations[gen]
  OBVIOUS
<1>5. PICK d : d = Append(First(c, prev.bytes), Written(prev, new.rows))
  OBVIOUS
<1>6. /\ writer.step = "append"
      /\ generations' = [generations EXCEPT ![gen] =
                            Append(First(@, prev.bytes), Written(prev, new.rows))]
      /\ writer' = [writer EXCEPT !.step = "publish", !.new = new]
      /\ UNCHANGED <<session, queue, memory, hot, log, faults, history>>
  BY <1>1, <1>2, <1>3 DEF AppendJournal
<1>7. /\ TypeOK /\ HeadInv /\ generations \in [Gens -> Seq(Commit)] /\ writer \in Writer
      /\ cache \in JournalCache /\ cache.frozen <= Len(cache.rows)
      /\ reference \in Reference
  BY DEF IInv, TypeOK, HeadInv, FrozenWithin
<1>8. /\ Fresh \in Gens /\ generations[Fresh] = <<>>
      /\ Fresh \notin {hot.ref.gen, reference.gen, cache.gen}
  BY <1>6, <1>7, FreshIs
<1>9. ~anew => /\ cache # Head0 /\ cache.gen = reference.gen /\ cache.bytes = reference.bytes
               /\ cache.gen \in Gens /\ reference # NoReference
               /\ Holds(generations[cache.gen], cache.bytes, Len(cache.rows))
  BY <1>6, <1>7, CacheHeld
<1>10. gen \in Gens /\ gen \in Nat /\ c \in Seq(Commit)
  <2>1. gen \in Gens
    BY <1>2, <1>8, <1>9
  <2>2. QED
    BY <1>4, <1>7, <2>1, SessionAssumption DEF Gens
<1>11. prev \in JournalCache /\ prev.frozen <= Len(prev.rows)
  <2>1. Head0.frozen <= Len(Head0.rows)
    BY EmptySeq DEF Head0
  <2>2. QED
    BY <1>1, <1>7, <2>1, Head0Typed
<1>12. ASSUME ~anew
       PROVE  /\ Holds(c, prev.bytes, Len(prev.rows))
              /\ RowsOf(c, prev.bytes, Len(prev.rows)) = prev.rows
  <2>1. prev = cache /\ gen = cache.gen /\ c = generations[cache.gen]
    BY <1>1, <1>2, <1>4, <1>12
  <2>2. HeadOf(cache) = reference
    BY <1>6, <1>7, <1>9, <1>12 DEF HeadInv, CacheAgrees
  <2>3. reference.count = Len(cache.rows)
    BY <2>2 DEF HeadOf
  <2>4. RowsOfGeneration(reference) = cache.rows
    BY <1>6, <1>9, <1>12 DEF FInv, JournalInv
  <2>5. RowsOfGeneration(reference)
           = RowsOf(generations[reference.gen], reference.bytes, reference.count)
    BY RowsAre
  <2>6. QED
    BY <1>9, <1>12, <2>1, <2>3, <2>4, <2>5
<1>13. \/ prev.bytes = 0 /\ prev.rows = <<>>
       \/ /\ Holds(c, prev.bytes, Len(prev.rows))
          /\ RowsOf(c, prev.bytes, Len(prev.rows)) = prev.rows
  <2>1. CASE anew
    BY <1>1, <2>1 DEF Head0
  <2>2. CASE ~anew
    BY <1>12, <2>2
  <2>3. QED
    BY <2>1, <2>2
<1>14. /\ new \in JournalCache /\ new.gen = gen /\ new.bytes = prev.bytes + 1
       /\ new.frozen = writer.frozen /\ Len(new.rows) = Len(writer.rows)
       /\ new.rows \in Seq(Row)
  <2>1. /\ Candidate(prev, gen) \in JournalCache
        /\ Candidate(prev, gen).gen = gen
        /\ Candidate(prev, gen).bytes = prev.bytes + 1
        /\ Candidate(prev, gen).frozen = writer.frozen
        /\ Len(Candidate(prev, gen).rows) = Len(writer.rows)
    BY <1>7, <1>10, <1>11, CandidateIs
  <2>2. QED
    BY <1>3, <2>1 DEF JournalCache
<1>15. /\ d \in Seq(Commit) /\ Len(d) = prev.bytes + 1 /\ \A k \in 1 .. prev.bytes : d[k] = c[k]
  <2>1. \/ prev.bytes = 0 /\ prev.rows = <<>>
        \/ Holds(c, prev.bytes, Len(prev.rows))
    BY <1>13
  <2>2. QED
    BY <1>5, <1>10, <1>11, <1>14, <2>1, HoldsAppended
<1>16. RowsOf(d, new.bytes, Len(new.rows)) = new.rows
  <2>1. RowsOf(Append(First(c, prev.bytes), Written(prev, new.rows)), prev.bytes + 1, Len(new.rows))
           = new.rows
    BY <1>10, <1>11, <1>13, <1>14, RowsAppended
  <2>2. QED
    BY <1>5, <1>14, <2>1
<1>17. /\ generations'[gen] = d
       /\ \A g \in Gens \ {gen} : generations'[g] = generations[g]
  <2>1. generations' = [generations EXCEPT ![gen] = d]
    BY <1>4, <1>5, <1>6, <1>7, <1>10
  <2>2. QED
    BY <1>7, <1>10, <2>1
<1>18. RowsOfGeneration(HeadOf(new))' = new.rows
  <2>1. PICK ref : ref = HeadOf(new)
    OBVIOUS
  <2>2. ref.gen = gen /\ ref.bytes = new.bytes /\ ref.count = Len(new.rows)
    BY <1>14, <2>1 DEF HeadOf
  <2>3. RowsOfGeneration(ref)' = RowsOf(generations'[ref.gen], ref.bytes, ref.count)
    BY DEF RowsOfGeneration, RowsOf, RowOf
  <2>4. RowsOfGeneration(ref)' = new.rows
    BY <1>16, <1>17, <2>2, <2>3
  <2>5. QED
    BY <2>1, <2>4
<1>19. ASSUME reference # NoReference
       PROVE  RowsOfGeneration(reference)' = RowsOfGeneration(reference)
  <2>1. PICK ref : ref = reference
    OBVIOUS
  <2>2. reference' = ref
    BY <1>6, <2>1 DEF memory
  <2>3. RowsOfGeneration(reference)' = RowsOf(generations'[ref.gen], ref.bytes, ref.count)
    <3>1. RowsOfGeneration(reference)'
             = RowsOf(generations'[reference'.gen], reference'.bytes, reference'.count)
      BY DEF RowsOfGeneration, RowsOf, RowOf
    <3>2. QED
      BY <2>2, <3>1
  <2>4. RowsOfGeneration(reference) = RowsOf(generations[ref.gen], ref.bytes, ref.count)
    BY <2>1, RowsAre
  <2>5. ref.gen \in Gens /\ Holds(generations[ref.gen], ref.bytes, ref.count)
        /\ ref.bytes \in Nat /\ ref.count \in Nat
    BY <1>7, <1>19, <2>1 DEF HeadInv, HeadsHeld, Held, Reference
  <2>6. CASE ref.gen # gen
    BY <1>17, <2>3, <2>4, <2>5, <2>6
  <2>7. CASE ref.gen = gen
    <3>1. ~anew
      BY <1>2, <1>8, <2>1, <2>7
    <3>2. prev.bytes = ref.bytes
      BY <1>1, <1>9, <2>1, <3>1
    <3>3. Len(d) >= ref.bytes /\ \A k \in 1 .. ref.bytes : d[k] = c[k]
      BY <1>15, <2>5, <3>2
    <3>4. RowsOf(d, ref.bytes, ref.count) = RowsOf(c, ref.bytes, ref.count)
      BY <1>4, <1>10, <1>15, <2>5, <2>7, <3>3, RowsSame
    <3>5. QED
      BY <1>4, <1>17, <2>3, <2>4, <2>7, <3>4
  <2>8. QED
    BY <2>6, <2>7
<1>20. \/ prev = Head0
       \/ prev = cache /\ cache # Head0
  BY <1>1
<1>21. QED
  BY <1>3, <1>6, <1>10, <1>11, <1>14, <1>18, <1>19, <1>20

\* A commit.
LEMMA AppendJournalKeeps ==
    ASSUME IInv, FInv, NEW obsolete \in BOOLEAN, AppendJournal(obsolete)
    PROVE  FInv'
<1>1. /\ writer.step = "append" /\ writer \in Writer
      /\ UNCHANGED <<live, version, used, debounced, requested, requests, frozen, reference,
                     cache, failures, hot, log, spoiled>>
  BY DEF AppendJournal, IInv, TypeOK, session, queue, memory, history
<1>2. PICK prev \in JournalCache, gen \in Gens, new \in JournalCache :
              /\ \/ prev = Head0
                 \/ prev = cache /\ cache # Head0
              /\ new = Candidate(prev, gen) /\ Len(new.rows) = Len(writer.rows)
              /\ new.frozen = writer.frozen
              /\ writer' = [writer EXCEPT !.step = "publish", !.new = new]
              /\ RowsOfGeneration(HeadOf(new))' = new.rows
              /\ reference # NoReference =>
                    RowsOfGeneration(reference)' = RowsOfGeneration(reference)
  BY AppendHas
<1>3. /\ writer'.step = "publish" /\ writer'.rows = writer.rows /\ writer'.shared = writer.shared
      /\ writer'.previous = writer.previous /\ writer'.frozen = writer.frozen
      /\ writer'.rewrite = writer.rewrite /\ writer'.new = new
  BY <1>1, <1>2 DEF Writer
<1>4. Captured /\ JournalInv /\ UsedInv /\ Busy /\ Busy'
  BY <1>1, <1>3 DEF FInv, Busy
<1>5. /\ writer.rows \in Seq(Row) /\ Len(writer.rows) \in Nat /\ writer.frozen \in Nat
      /\ writer.frozen <= Len(writer.rows) /\ writer.shared \in Nat /\ writer.previous \in Nat
      /\ frozen \in Nat /\ new.rows \in Seq(Row) /\ Waiting \in Seq(Request)
      /\ cache.rows \in Seq(Row) /\ prev.rows \in Seq(Row) /\ version \in [Ids -> Nat]
  BY <1>2, WaitingTyped, LenProperties DEF IInv, TypeOK, Writer, JournalCache, HeadInv, FrozenWithin
<1>6. Stored' = Stored
  <2>1. CASE reference = NoReference
    BY <1>1, <2>1 DEF Stored
  <2>2. CASE reference # NoReference
    BY <1>1, <1>2, <2>2 DEF Stored
  <2>3. QED
    BY <2>1, <2>2
<1>7. cache # Head0 => /\ reference # NoReference /\ RowsOfGeneration(reference) = cache.rows
                       /\ Len(cache.rows) = reference.count
  <2>1. SUFFICES ASSUME cache # Head0
                 PROVE  /\ reference # NoReference /\ RowsOfGeneration(reference) = cache.rows
                        /\ Len(cache.rows) = reference.count
    OBVIOUS
  <2>2. reference # NoReference /\ HeadOf(cache) = reference
    BY <1>1, <2>1 DEF IInv, HeadInv, CacheAgrees
  <2>3. QED
    BY <1>1, <1>4, <2>1, <2>2 DEF JournalInv, HeadOf
<1>8. Captured'
  BY <1>1, <1>3, <1>4 DEF Captured
<1>9. JournalInv'
  <2>1. /\ reference' # NoReference /\ writer'.step # "retire" =>
           frozen' = reference'.frozen /\ frozen' <= reference'.count
    BY <1>1, <1>4 DEF JournalInv
  <2>2. cache' # Head0 => RowsOfGeneration(reference)' = cache'.rows
    BY <1>1, <1>2, <1>7
  <2>3. RowsOfGeneration(HeadOf(writer.new))' = new.rows
    <3>1. PICK ref : ref = HeadOf(new)
      OBVIOUS
    <3>2. RowsOfGeneration(ref)' = RowsOf(generations'[ref.gen], ref.bytes, ref.count)
      BY DEF RowsOfGeneration, RowsOf, RowOf
    <3>3. RowsOfGeneration(HeadOf(new))' = RowsOf(generations'[ref.gen], ref.bytes, ref.count)
      BY <3>1, <3>2
    <3>4. HeadOf(writer.new)' = ref
      BY <1>3, <3>1 DEF HeadOf
    <3>5. RowsOfGeneration(HeadOf(writer.new))' = RowsOf(generations'[ref.gen], ref.bytes, ref.count)
      BY <3>4 DEF RowsOfGeneration, RowsOf, RowOf
    <3>6. QED
      BY <1>2, <3>3, <3>5
  <2>4. writer'.new.frozen = writer'.frozen /\ Len(writer'.new.rows) = Len(writer'.rows)
    BY <1>2, <1>3
  <2>5. QED
    BY <1>3, <2>1, <2>2, <2>3, <2>4 DEF JournalInv
<1>10. UsedInv'
  <2>1. GotRows(prev.rows, used)
    <3>1. GotRows(Head0.rows, used)
      BY EmptySeq DEF GotRows, Head0
    <3>2. cache # Head0 => GotRows(cache.rows, used)
      BY <1>4, <1>7 DEF UsedInv
    <3>3. QED
      BY <1>2, <3>1, <3>2
  <2>2. ASSUME NEW i \in 1 .. Len(new.rows) PROVE new.rows[i].id <= used
    <3>1. i \in 1 .. Len(writer.rows)
      BY <1>2
    <3>2. CASE i <= Trusted(prev)
      <4>1. new.rows[i] = prev.rows[i]
        BY <1>2, <3>1, <3>2, CandidateRows DEF IInv
      <4>2. Trusted(prev) <= Len(prev.rows)
        <5>1. prev.frozen <= Len(prev.rows)
          <6>1. Head0.frozen <= Len(Head0.rows)
            BY EmptySeq DEF Head0
          <6>2. QED
            BY <1>2, <6>1 DEF IInv, HeadInv, FrozenWithin
        <5>2. Len(prev.rows) \in Nat
          BY <1>5, LenProperties
        <5>3. QED
          BY <5>1, <5>2 DEF Trusted
      <4>3. Trusted(prev) \in Nat /\ Len(prev.rows) \in Nat
        BY <1>5, LenProperties DEF Trusted, JournalCache
      <4>4. i \in 1 .. Len(prev.rows)
        BY <3>2, <4>2, <4>3
      <4>5. QED
        BY <2>1, <4>1, <4>4 DEF GotRows
    <3>3. CASE ~(i <= Trusted(prev))
      <4>1. new.rows[i].id = writer.rows[i].id
        BY <1>2, <3>1, <3>3, CandidateRows DEF IInv
      <4>2. GotRows(writer.rows, used)
        BY <1>4 DEF UsedInv
      <4>3. QED
        BY <3>1, <4>1, <4>2 DEF GotRows
    <3>4. QED
      BY <3>2, <3>3
  <2>3. GotRows(new.rows, used)
    BY <2>2 DEF GotRows
  <2>4. reference # NoReference => GotRows(RowsOfGeneration(reference)', used)
    BY <1>2, <1>4 DEF UsedInv
  <2>5. QED
    BY <1>1, <1>3, <1>4, <2>3, <2>4 DEF UsedInv
<1>11. ASSUME ~spoiled' PROVE SavedInv'
  <2>1. SavedInv
    BY <1>1, <1>11 DEF FInv
  <2>2. QueueInv' /\ Waiting' = Waiting /\ Settled'
    BY <1>1, <1>3, <1>4, <2>1, GoesOn
  <2>3. Trusts' => Trusts
    BY <1>1, <1>3, <1>4 DEF Trusts
  <2>4. StoredInv'
    <3>1. /\ "frozen" \notin failures' =>
             /\ Len(Stored') = frozen'
             /\ reference' = NoReference /\ frozen' > 0 => Len(log'.rows) = frozen'
      BY <1>1, <1>6, <2>1 DEF SavedInv, StoredInv
    <3>2. Trusts' =>
             /\ frozen' <= Len(writer'.rows)
             /\ \A i \in 1 .. frozen' : Stored'[i].id = writer'.rows[i].id
      BY <1>1, <1>3, <1>4, <1>6, <2>1, <2>3 DEF SavedInv, StoredInv
    <3>3. QED
      BY <3>1, <3>2 DEF StoredInv
  <2>5. Trusted(prev) # 0 =>
           /\ Trusts /\ Trusted(prev) = frozen /\ frozen <= writer.frozen
           /\ \A i \in 1 .. frozen :
                 prev.rows[i] = Stored[i] /\ Stored[i].id = writer.rows[i].id
    <3>1. \/ prev = Head0
          \/ prev = cache /\ cache # Head0
      BY <1>2
    <3>2. QED
      BY <1>1, <2>1, <3>1, TrustedAre
  <2>6. ASSUME NEW i \in 1 .. Len(writer.rows), i <= Trusted(prev)
        PROVE  /\ Trusts /\ i \in 1 .. frozen /\ frozen <= writer.frozen
               /\ new.rows[i] = Stored[i] /\ new.rows[i].id = writer.rows[i].id
    <3>1. new.rows[i] = prev.rows[i]
      BY <1>2, <2>6, CandidateRows DEF IInv
    <3>2. Trusted(prev) # 0
      BY <2>6
    <3>3. i \in 1 .. frozen
      BY <1>5, <2>5, <2>6, <3>2
    <3>4. QED
      BY <2>5, <3>1, <3>2, <3>3
  <2>7. ASSUME NEW i \in 1 .. Len(writer.rows), ~(i <= Trusted(prev))
        PROVE  /\ new.rows[i].id = writer.rows[i].id
               /\ i <= writer.shared => new.rows[i].ver = version[writer.rows[i].id]
               /\ ~(i <= writer.shared) => new.rows[i] = writer.rows[i]
    BY <1>2, <2>7, CandidateRows DEF IInv
  <2>8. NewInv'
    <3>1. \A i \in 1 .. Len(writer.rows) : new.rows[i].id = writer.rows[i].id
      BY <2>6, <2>7
    <3>2. ASSUME NEW i \in writer.frozen + 1 .. Len(writer.rows) PROVE new.rows[i] = writer.rows[i]
      <4>1. i \in 1 .. Len(writer.rows) /\ ~(i <= writer.frozen)
        BY <1>5
      <4>2. ~(i <= Trusted(prev))
        <5>1. SUFFICES ASSUME i <= Trusted(prev) PROVE FALSE
          OBVIOUS
        <5>2. i \in 1 .. frozen /\ frozen <= writer.frozen
          BY <2>6, <4>1, <5>1
        <5>3. QED
          BY <1>5, <4>1, <5>2
      <4>3. writer.shared <= writer.frozen
        BY <1>4, <1>5 DEF Captured
      <4>4. ~(i <= writer.shared)
        BY <1>5, <4>1, <4>3
      <4>5. QED
        BY <2>7, <4>1, <4>2, <4>4
    <3>3. QED
      BY <1>3, <3>1, <3>2 DEF NewInv
  <2>9. KeptInv'
    <3>1. Trusts => Kept(version, Waiting, Stored, 0, frozen)
      BY <2>1 DEF SavedInv, KeptInv
    <3>2. Kept(version, Waiting, writer.rows, writer.shared, writer.frozen)
      BY <1>4, <2>1 DEF SavedInv, KeptInv
    <3>3. ASSUME NEW i \in 1 .. writer.frozen
          PROVE  new.rows[i].ver = version[new.rows[i].id] \/ Redone(Waiting, i, writer.frozen)
      <4>1. i \in 1 .. Len(writer.rows)
        BY <1>5
      <4>2. CASE i <= Trusted(prev)
        <5>1. /\ Trusts /\ i \in 1 .. frozen /\ frozen <= writer.frozen /\ new.rows[i] = Stored[i]
          BY <2>6, <4>1, <4>2
        <5>2. i \in 0 + 1 .. frozen
          BY <5>1
        <5>3. Stored[i].ver = version[Stored[i].id] \/ Redone(Waiting, i, frozen)
          BY <3>1, <5>1, <5>2 DEF Kept
        <5>4. Redone(Waiting, i, frozen) => Redone(Waiting, i, writer.frozen)
          BY <1>5, <5>1, RedoneMore
        <5>5. QED
          BY <5>1, <5>3, <5>4
      <4>3. CASE ~(i <= Trusted(prev)) /\ i <= writer.shared
        BY <2>7, <4>1, <4>3
      <4>4. CASE ~(i <= Trusted(prev)) /\ ~(i <= writer.shared)
        <5>1. new.rows[i] = writer.rows[i]
          BY <2>7, <4>1, <4>4
        <5>2. i \in writer.shared + 1 .. writer.frozen
          BY <1>5, <4>4
        <5>3. QED
          BY <3>2, <5>1, <5>2 DEF Kept
      <4>5. QED
        BY <4>2, <4>3, <4>4
    <3>4. Kept(version, Waiting, new.rows, 0, writer.frozen)
      <4>1. \A i \in 0 + 1 .. writer.frozen : i \in 1 .. writer.frozen
        BY <1>5
      <4>2. QED
        BY <3>3, <4>1 DEF Kept
    <3>5. QED
      BY <1>1, <1>3, <1>6, <2>2, <2>3, <3>1, <3>2, <3>4 DEF KeptInv
  <2>10. QED
    BY <2>2, <2>4, <2>8, <2>9 DEF SavedInv
<1>12. QED
  BY <1>8, <1>9, <1>10, <1>11 DEF FInv

-----------------------------------------------------------------------------
(***************************************************************************)
(* What failures and crashes make of what is saved.                        *)
(***************************************************************************)
\* What an append leaves are rows the session got.
LEMMA LeftoversGot ==
    ASSUME IInv, FInv, NEW l \in Leftovers
    PROVE  GotRows(l.rows, used) /\ (writer.step # "log" => l = log)
<1>1. /\ log.rows \in Seq(Row) /\ GotRows(log.rows, used) /\ Added \in Seq(Row)
      /\ writer.rows \in Seq(Row) /\ GotRows(writer.rows, used)
  <2>1. UsedInv
    BY DEF FInv
  <2>2. Added \in Seq(Row)
    BY AddedTyped DEF IInv, HeadInv
  <2>3. log.rows \in Seq(Row) /\ writer.rows \in Seq(Row)
    BY DEF IInv, TypeOK, Writer
  <2>4. QED
    BY <2>1, <2>2, <2>3 DEF UsedInv
<1>2. GotRows(Added, used)
  <2>1. /\ writer.previous + 1 \in Nat \ {0} /\ writer.frozen \in Nat
        /\ writer.frozen <= Len(writer.rows)
    BY DEF IInv, TypeOK, Writer, HeadInv, FrozenWithin
  <2>2. QED
    BY <1>1, <2>1, GotPart DEF Added
<1>3. CASE l = log
  BY <1>1, <1>3
<1>4. CASE l # log
  <2>1. PICK n \in 0 .. Len(Added) - 1 :
           l = [rows |-> log.rows \o From(First(Added, n), IF log.torn THEN 1 ELSE 0),
                torn |-> TRUE]
    BY <1>4 DEF Leftovers
  <2>2. PICK m \in Nat : m = IF log.torn THEN 1 ELSE 0
    OBVIOUS
  <2>3. n \in Nat
    BY <1>1, LenProperties
  <2>4. First(Added, n) \in Seq(Row) /\ GotRows(First(Added, n), used)
    BY <1>1, <1>2, <2>3, FirstIs, GotSplit
  <2>5. From(First(Added, n), m) \in Seq(Row) /\ GotRows(From(First(Added, n), m), used)
    BY <2>4, FromIs, GotSplit
  <2>6. GotRows(log.rows \o From(First(Added, n), m), used)
    BY <1>1, <2>5, GotJoined
  <2>7. writer.step = "log"
    BY <1>4 DEF Leftovers
  <2>8. QED
    BY <2>1, <2>2, <2>6, <2>7
<1>5. QED
  BY <1>3, <1>4

\* A failed publication leaves the head its rows.
LEMMA FailsRows ==
    ASSUME IInv, NEW l \in Leftovers, Fails(l), reference # NoReference
    PROVE  RowsOfGeneration(reference)' = RowsOfGeneration(reference)
<1>1. PICK ref : ref = reference
  OBVIOUS
<1>2. /\ writer.step \in {"whole", "log", "hot", "append", "publish"}
      /\ reference' = ref
      /\ generations' =
            IF writer.step # "publish" THEN generations
            ELSE [generations EXCEPT ![writer.new.gen] = RolledBack(writer.new.gen)]
  BY <1>1 DEF Fails
<1>3. /\ TypeOK /\ HeadInv /\ generations \in [Gens -> Seq(Commit)]
      /\ cache \in JournalCache /\ cache.bytes \in Nat
      /\ ref \in Reference /\ ref.gen \in Gens /\ ref.bytes \in Nat /\ ref.count \in Nat
      /\ Holds(generations[ref.gen], ref.bytes, ref.count)
  BY <1>1 DEF IInv, TypeOK, HeadInv, HeadsHeld, Held, JournalCache, Reference
<1>4. RowsOfGeneration(reference)' = RowsOf(generations'[ref.gen], ref.bytes, ref.count)
  <2>1. RowsOfGeneration(reference)'
           = RowsOf(generations'[reference'.gen], reference'.bytes, reference'.count)
    BY DEF RowsOfGeneration, RowsOf, RowOf
  <2>2. QED
    BY <1>2, <2>1
<1>5. RowsOfGeneration(reference) = RowsOf(generations[ref.gen], ref.bytes, ref.count)
  BY <1>1, RowsAre
<1>6. CASE writer.step # "publish"
  BY <1>2, <1>4, <1>5, <1>6
<1>7. CASE writer.step = "publish" /\ ref.gen # writer.new.gen
  BY <1>2, <1>3, <1>4, <1>5, <1>7
<1>8. CASE writer.step = "publish" /\ ref.gen = writer.new.gen
  <2>1. PICK c : c = generations[ref.gen]
    OBVIOUS
  <2>2. ref.gen = cache.gen
    BY <1>1, <1>3, <1>8 DEF HeadInv, NewApart
  <2>3. cache # Head0
    BY <1>3, <2>2 DEF Head0, Gens
  <2>4. cache.bytes = ref.bytes
    BY <1>1, <1>3, <1>8, <2>3, CacheHeld
  <2>5. generations'[ref.gen] = First(c, ref.bytes)
    BY <1>2, <1>3, <1>8, <2>1, <2>2, <2>4 DEF RolledBack
  <2>6. c \in Seq(Commit) /\ Len(c) \in Nat /\ Holds(c, ref.bytes, ref.count)
    BY <1>3, <2>1, LenProperties
  <2>7. Least(ref.bytes, Len(c)) = ref.bytes
    BY <1>3, <2>6 DEF Holds, Least
  <2>8. /\ First(c, ref.bytes) \in Seq(Commit) /\ Len(First(c, ref.bytes)) = ref.bytes
        /\ \A k \in 1 .. ref.bytes : First(c, ref.bytes)[k] = c[k]
    BY <1>3, <2>6, <2>7, FirstIs
  <2>9. Len(First(c, ref.bytes)) >= ref.bytes
    BY <1>3, <2>8
  <2>10. RowsOf(First(c, ref.bytes), ref.bytes, ref.count) = RowsOf(c, ref.bytes, ref.count)
    BY <1>3, <2>6, <2>8, <2>9, RowsSame
  <2>11. QED
    BY <1>4, <1>5, <2>1, <2>5, <2>10
<1>9. QED
  BY <1>6, <1>7, <1>8

\* A write fails.
LEMMA FailsKeeps ==
    ASSUME IInv, FInv, NEW l \in Leftovers, Fails(l)
    PROVE  FInv'
<1>1. /\ writer.step \in {"whole", "log", "hot", "append", "publish"} /\ Settles
      /\ log' = l /\ failures' = failures \cup {FailureKey(writer.step)}
      /\ UNCHANGED <<frozen, reference, cache, hot>>
  BY DEF Fails
<1>2. Captured /\ JournalInv /\ UsedInv /\ Busy
  BY <1>1 DEF FInv, Busy
<1>3. /\ \A k \in 1 .. Len(requests') : Got(requests'[k].ids, used)
      /\ GotRows(writer'.rows, used) /\ GotRows(writer'.new.rows, used)
      /\ UNCHANGED <<live, version, used, debounced, requested>>
      /\ requests' = Tail(requests) /\ ~Busy' /\ writer'.step = "idle"
  BY <1>1, <1>2, IdleGot
<1>4. reference # NoReference => RowsOfGeneration(reference)' = RowsOfGeneration(reference)
  BY FailsRows
<1>5. GotRows(l.rows, used) /\ (writer.step # "log" => l = log)
  BY LeftoversGot
<1>6. Captured'
  BY <1>3 DEF Captured
<1>7. JournalInv'
  <2>1. /\ reference' # NoReference /\ writer'.step # "retire" =>
           frozen' = reference'.frozen /\ frozen' <= reference'.count
    BY <1>1, <1>2 DEF JournalInv
  <2>2. cache' # Head0 => RowsOfGeneration(reference)' = cache'.rows
    <3>1. SUFFICES ASSUME cache # Head0 PROVE RowsOfGeneration(reference)' = cache.rows
      BY <1>1
    <3>2. reference # NoReference
      BY <1>1, <3>1 DEF IInv, HeadInv, CacheAgrees
    <3>3. QED
      BY <1>1, <1>2, <1>4, <3>1, <3>2 DEF JournalInv
  <2>3. QED
    BY <1>3, <2>1, <2>2 DEF JournalInv
<1>8. UsedInv'
  <2>1. GotRows(hot.tail, used) /\ Got(live, used)
    BY <1>2 DEF UsedInv
  <2>2. reference # NoReference => GotRows(RowsOfGeneration(reference)', used)
    BY <1>2, <1>4 DEF UsedInv
  <2>3. QED
    BY <1>1, <1>3, <1>5, <2>1, <2>2 DEF UsedInv
<1>9. ASSUME ~spoiled' PROVE SavedInv'
  <2>1. /\ ~spoiled
        /\ ~(writer.rewrite /\ "frozen" \notin failures /\ writer.step \in {"whole", "append", "publish"})
    BY <1>9 DEF Fails
  <2>2. SavedInv
    BY <2>1 DEF FInv
  <2>3. ASSUME "frozen" \notin failures'
        PROVE  Trusts /\ "frozen" \notin failures /\ log' = log /\ Stored' = Stored
    <3>1. "frozen" \notin failures /\ writer.step # "log"
      BY <1>1, <2>3 DEF FailureKey
    <3>2. log' = log
      BY <1>1, <1>5, <3>1
    <3>3. Trusts
      BY <1>1, <2>1, <3>1 DEF Trusts
    <3>4. Stored' = Stored
      <4>1. CASE reference = NoReference
        BY <1>1, <3>2, <4>1 DEF Stored
      <4>2. CASE reference # NoReference
        BY <1>1, <1>4, <4>2 DEF Stored
      <4>3. QED
        BY <4>1, <4>2
    <3>5. QED
      BY <3>1, <3>2, <3>3, <3>4
  <2>4. QueueInv' /\ Waiting' = Waiting /\ ~Busy'
    <3>1. Base = IdsOf(writer.rows) /\ writer.rows \in Seq(Row)
      BY <1>2 DEF Base, IInv, TypeOK, Writer
    <3>2. Len(IdsOf(writer.rows)) \in Nat
      BY <3>1, IdsAre
    <3>3. /\ Base' \in Seq(Ids) /\ Len(Base') <= Len(Base)
          /\ \A i \in 1 .. Len(Base') : Base'[i] = Base[i]
      <4>1. CASE "frozen" \in failures'
        <5>1. Base' = <<>> /\ <<>> \in Seq(Ids) /\ Len(<<>>) = 0
          BY <1>3, <4>1, EmptySeq DEF Base, FrozenIds
        <5>2. QED
          BY <3>1, <3>2, <5>1
      <4>2. CASE "frozen" \notin failures'
        <5>1. Base' = IdsOf(Stored)
          BY <1>3, <2>3, <4>2 DEF Base, FrozenIds
        <5>2. Stored \in Seq(Row)
          BY StoredTyped
        <5>3. Len(Stored) <= Len(writer.rows) /\ \A i \in 1 .. Len(Stored) : Stored[i].id = writer.rows[i].id
          <6>1. Trusts /\ "frozen" \notin failures /\ writer.step # "retire"
            BY <1>1, <2>3, <4>2
          <6>2. Len(Stored) = frozen
            BY <2>2, <6>1 DEF SavedInv, StoredInv
          <6>3. frozen <= Len(writer.rows) /\ \A i \in 1 .. frozen : Stored[i].id = writer.rows[i].id
            BY <1>2, <2>2, <6>1 DEF SavedInv, StoredInv
          <6>4. QED
            BY <6>2, <6>3
        <5>4. QED
          BY <3>1, <5>1, <5>2, <5>3, IdsBegin
      <4>3. QED
        BY <4>1, <4>2
    <3>4. QED
      BY <1>1, <1>2, <2>2, <3>3, SettlesQueue
  <2>5. StoredInv'
    <3>1. "frozen" \notin failures' =>
             /\ Len(Stored') = frozen'
             /\ reference' = NoReference /\ frozen' > 0 => Len(log'.rows) = frozen'
      BY <1>1, <2>2, <2>3 DEF SavedInv, StoredInv
    <3>2. QED
      BY <1>3, <3>1 DEF StoredInv
  <2>6. NewInv'
    BY <1>3 DEF NewInv
  <2>7. KeptInv'
    <3>1. Trusts' => Kept(version, Waiting, Stored', 0, frozen)
      <4>1. Trusts' => "frozen" \notin failures'
        BY DEF Trusts
      <4>2. QED
        BY <2>2, <2>3, <4>1 DEF SavedInv, KeptInv
    <3>2. QED
      BY <1>1, <1>3, <2>4, <3>1 DEF KeptInv
  <2>8. Settled'
    BY <1>1, <1>3 DEF Settled
  <2>9. QED
    BY <2>4, <2>5, <2>6, <2>7, <2>8 DEF SavedInv
<1>10. QED
  BY <1>6, <1>7, <1>8, <1>9 DEF FInv

\* The head on disk.
LEMMA HotHas ==
    ASSUME IInv, FInv, hot.ref # NoReference
    PROVE  /\ hot.ref \in Reference /\ hot.ref.frozen \in Nat /\ hot.ref.frozen <= hot.ref.count
           /\ RowsOfGeneration(hot.ref) \in Seq(Row)
           /\ Len(RowsOfGeneration(hot.ref)) = hot.ref.count
           /\ GotRows(RowsOfGeneration(hot.ref), used)
<1>1. TypeOK /\ HeadInv /\ JournalInv /\ UsedInv
  BY DEF IInv, FInv
<1>2. hot.ref \in Reference /\ generations \in [Gens -> Seq(Commit)]
  BY <1>1 DEF TypeOK
<1>3. hot.ref.frozen \in Nat
  BY <1>2 DEF Reference
<1>4. RowsOfGeneration(hot.ref) \in Seq(Row) /\ Len(RowsOfGeneration(hot.ref)) = hot.ref.count
  BY <1>1, <1>2, HotHeld, RowsCount
<1>5. hot.ref.frozen <= hot.ref.count /\ GotRows(RowsOfGeneration(hot.ref), used)
  <2>1. CASE writer.step = "retire"
    <3>1. PICK new : new = writer.new
      OBVIOUS
    <3>2. hot.ref = HeadOf(new)
      BY <1>1, <2>1, <3>1 DEF HeadInv, HotAgrees
    <3>3. RowsOfGeneration(HeadOf(new)) = new.rows
      BY <1>1, <2>1, <3>1 DEF JournalInv
    <3>4. GotRows(new.rows, used)
      BY <1>1, <3>1 DEF UsedInv
    <3>5. new.frozen <= Len(new.rows)
      BY <1>1, <3>1 DEF HeadInv, FrozenWithin
    <3>6. hot.ref.frozen = new.frozen /\ hot.ref.count = Len(new.rows)
      BY <3>2 DEF HeadOf
    <3>7. RowsOfGeneration(hot.ref) = new.rows
      BY <3>2, <3>3
    <3>8. QED
      BY <3>4, <3>5, <3>6, <3>7
  <2>2. CASE writer.step # "retire"
    <3>1. hot.ref = reference
      BY <1>1, <2>2 DEF HeadInv, HotAgrees
    <3>2. reference.frozen <= reference.count
      BY <1>1, <2>2, <3>1 DEF JournalInv
    <3>3. GotRows(RowsOfGeneration(reference), used)
      BY <1>1, <3>1 DEF UsedInv
    <3>4. QED
      BY <3>1, <3>2, <3>3
  <2>3. QED
    BY <2>1, <2>2
<1>6. QED
  BY <1>2, <1>3, <1>4, <1>5

\* What the next process loads, and which of it it takes as saved.
LEMMA CrashHas ==
    ASSUME IInv, FInv, NEW l \in Leftovers, Crash(l)
    PROVE  LET rows == Loads(l.rows)
           IN /\ rows \in Seq(Row) /\ GotRows(rows, used) /\ Loaded' = rows
              /\ Stored' \in Seq(Row) /\ Len(Stored') = frozen' /\ frozen' <= Len(rows)
              /\ frozen' \in Nat
              /\ \A i \in 1 .. frozen' : Stored'[i] = rows[i]
              /\ reference' = NoReference /\ frozen' > 0 => Len(log'.rows) = frozen'
              /\ reference' # NoReference =>
                    /\ frozen' = reference'.frozen /\ frozen' <= reference'.count
                    /\ GotRows(RowsOfGeneration(reference)', used)
<1>1. PICK rows : rows = Loads(l.rows)
  OBVIOUS
<1>2. /\ log' = l /\ frozen' = LoadsFrozen(l.rows) /\ reference' = hot.ref
      /\ UNCHANGED <<hot, generations>>
  BY DEF Crash
<1>3. /\ generations \in [Gens -> Seq(Commit)] /\ HeadInv
      /\ hot \in [frozen : Nat, tail : Seq(Row), ref : Reference]
      /\ hot.frozen \in Nat /\ hot.tail \in Seq(Row)
  BY DEF IInv, TypeOK
<1>4. l.rows \in Seq(Row) /\ Len(l.rows) \in Nat /\ GotRows(l.rows, used) /\ GotRows(hot.tail, used)
  <2>1. l \in [rows : Seq(Row), torn : BOOLEAN]
    BY LeftoversTyped DEF IInv, HeadInv
  <2>2. l.rows \in Seq(Row)
    BY <2>1
  <2>3. GotRows(l.rows, used) /\ GotRows(hot.tail, used)
    BY LeftoversGot DEF FInv, UsedInv
  <2>4. QED
    BY <2>2, <2>3, LenProperties
<1>5. rows \in Seq(Row) /\ frozen' \in Nat /\ Len(rows) \in Nat
  BY <1>1, <1>2, <1>3, <1>4, HotHeld, LoadsTyped, LenProperties
<1>6. RowsOfGeneration(hot.ref)' = RowsOfGeneration(hot.ref)
      /\ RowsOfGeneration(reference)' = RowsOfGeneration(hot.ref)
  <2>1. PICK ref : ref = hot.ref
    OBVIOUS
  <2>2. RowsOfGeneration(reference)'
           = RowsOf(generations'[reference'.gen], reference'.bytes, reference'.count)
    BY DEF RowsOfGeneration, RowsOf, RowOf
  <2>3. RowsOfGeneration(hot.ref)'
           = RowsOf(generations'[hot.ref'.gen], hot.ref'.bytes, hot.ref'.count)
    BY DEF RowsOfGeneration, RowsOf, RowOf
  <2>4. RowsOfGeneration(hot.ref) = RowsOf(generations[ref.gen], ref.bytes, ref.count)
    BY <2>1, RowsAre
  <2>5. QED
    BY <1>2, <2>1, <2>2, <2>3, <2>4
<1>7. Loaded' = rows
  <2>1. Loaded' = CASE hot'.ref # NoReference -> RowsOfGeneration(hot.ref)'
                    [] hot'.ref = NoReference /\ hot'.frozen = 0 -> hot'.tail
                    [] hot'.ref = NoReference /\ hot'.frozen > 0
                          -> WithLog(hot'.tail, hot'.frozen, log'.rows)
    BY DEF Loaded, Loads
  <2>2. QED
    BY <1>1, <1>2, <1>6, <2>1 DEF Loads
<1>8. CASE hot.ref # NoReference
  <2>1. PICK all : all = RowsOfGeneration(hot.ref)
    OBVIOUS
  <2>2. rows = all /\ frozen' = hot.ref.frozen
    BY <1>1, <1>2, <1>8, <2>1 DEF Loads, LoadsFrozen
  <2>3. /\ hot.ref.frozen <= hot.ref.count /\ Len(all) = hot.ref.count /\ GotRows(all, used)
    BY <1>8, <2>1, HotHas
  <2>4. Stored' = First(all, frozen')
    BY <1>2, <1>6, <1>8, <2>1 DEF Stored
  <2>5. Least(frozen', Len(all)) = frozen'
    BY <1>5, <2>2, <2>3 DEF Least
  <2>6. /\ Stored' \in Seq(Row) /\ Len(Stored') = frozen'
        /\ \A i \in 1 .. frozen' : Stored'[i] = all[i]
    BY <1>5, <2>2, <2>4, <2>5, FirstIs
  <2>7. QED
    BY <1>1, <1>2, <1>5, <1>6, <1>7, <1>8, <2>1, <2>2, <2>3, <2>6
<1>9. CASE hot.ref = NoReference /\ hot.frozen = 0
  <2>1. rows = hot.tail /\ frozen' = 0
    BY <1>1, <1>2, <1>9 DEF Loads, LoadsFrozen
  <2>2. Stored' = First(l.rows, 0)
    BY <1>2, <1>9, <2>1 DEF Stored
  <2>3. Stored' \in Seq(Row) /\ Len(Stored') = 0
    BY <1>4, <2>2, FirstIs DEF Least
  <2>4. QED
    BY <1>1, <1>2, <1>4, <1>5, <1>7, <1>9, <2>1, <2>3
<1>10. CASE hot.ref = NoReference /\ hot.frozen > 0
  <2>1. rows = WithLog(hot.tail, hot.frozen, l.rows) /\ frozen' = Len(l.rows)
    BY <1>1, <1>2, <1>3, <1>10 DEF Loads, LoadsFrozen
  <2>2. PICK m \in Nat : m = IF Len(l.rows) > hot.frozen THEN Len(l.rows) - hot.frozen ELSE 0
    BY <1>3, <1>4
  <2>3. PICK rest : rest = From(hot.tail, m)
    OBVIOUS
  <2>4. rows = l.rows \o rest
    BY <2>1, <2>2, <2>3 DEF WithLog
  <2>5. rest \in Seq(Row) /\ GotRows(rest, used) /\ Len(rest) \in Nat
    BY <1>3, <1>4, <2>3, FromIs, GotSplit, LenProperties
  <2>6. GotRows(rows, used)
    BY <1>4, <2>4, <2>5, GotJoined
  <2>7. /\ Len(rows) = Len(l.rows) + Len(rest)
        /\ \A i \in 1 .. Len(l.rows) + Len(rest) :
              rows[i] = IF i <= Len(l.rows) THEN l.rows[i] ELSE rest[i - Len(l.rows)]
    BY <1>4, <2>4, <2>5, ConcatProperties
  <2>8. Stored' = First(l.rows, frozen')
    BY <1>2, <1>10 DEF Stored
  <2>9. Least(frozen', Len(l.rows)) = frozen'
    BY <1>4, <2>1 DEF Least
  <2>10. /\ Stored' \in Seq(Row) /\ Len(Stored') = frozen'
         /\ \A i \in 1 .. frozen' : Stored'[i] = l.rows[i]
    BY <1>4, <1>5, <2>8, <2>9, FirstIs
  <2>11. ASSUME NEW i \in 1 .. frozen' PROVE Stored'[i] = rows[i]
    <3>1. i \in 1 .. Len(l.rows) + Len(rest) /\ i <= Len(l.rows)
      BY <1>4, <2>1, <2>5
    <3>2. QED
      BY <2>7, <2>10, <3>1
  <2>12. frozen' <= Len(rows)
    BY <1>4, <2>1, <2>5, <2>7
  <2>13. QED
    BY <1>1, <1>2, <1>5, <1>7, <1>10, <2>1, <2>6, <2>10, <2>11, <2>12
<1>11. QED
  BY <1>3, <1>8, <1>9, <1>10

\* The process ends and the next one loads the files.
LEMMA CrashKeeps ==
    ASSUME IInv, FInv, NEW l \in Leftovers, Crash(l)
    PROVE  FInv'
<1>1. PICK rows : rows = Loads(l.rows)
  OBVIOUS
<1>2. /\ log' = l /\ live' = IdsOf(rows)
      /\ version' = [c \in Ids |->
            IF \E i \in DOMAIN rows : rows[i].id = c
            THEN rows[CHOOSE i \in DOMAIN rows : rows[i].id = c].ver ELSE 0]
      /\ debounced' = FALSE /\ requests' = <<>> /\ writer' = Idle
      /\ frozen' = LoadsFrozen(l.rows) /\ requested' = LoadsFrozen(l.rows)
      /\ reference' = hot.ref /\ cache' = Head0 /\ failures' = {}
      /\ spoiled' = ~IsInjective(live')
      /\ UNCHANGED <<used, hot, generations>>
  BY <1>1 DEF Crash
<1>3. /\ rows \in Seq(Row) /\ GotRows(rows, used) /\ Loaded' = rows
      /\ Stored' \in Seq(Row) /\ Len(Stored') = frozen' /\ frozen' <= Len(rows)
      /\ frozen' \in Nat
      /\ \A i \in 1 .. frozen' : Stored'[i] = rows[i]
      /\ reference' = NoReference /\ frozen' > 0 => Len(log'.rows) = frozen'
      /\ reference' # NoReference =>
            /\ frozen' = reference'.frozen /\ frozen' <= reference'.count
            /\ GotRows(RowsOfGeneration(reference)', used)
  BY <1>1, CrashHas
<1>4. /\ writer'.step = "idle" /\ ~Busy' /\ Waiting' = <<>>
  BY <1>2, IdleHas DEF Busy, Waiting
<1>5. /\ Len(live') = Len(rows) /\ Len(rows) \in Nat /\ DOMAIN rows = 1 .. Len(rows)
      /\ live' \in Seq(Ids) /\ \A i \in 1 .. Len(rows) : live'[i] = rows[i].id
  BY <1>2, <1>3, IdsAre, LenProperties
<1>6. Captured'
  BY <1>4 DEF Captured
<1>7. JournalInv'
  BY <1>2, <1>3, <1>4 DEF JournalInv
<1>8. UsedInv'
  <2>1. Got(live', used)
    BY <1>3, <1>5 DEF Got, GotRows
  <2>2. \A k \in 1 .. Len(requests') : Got(requests'[k].ids, used)
    BY <1>2, EmptySeq
  <2>3. GotRows(writer'.rows, used) /\ GotRows(writer'.new.rows, used)
    BY <1>2, IdleHas
  <2>4. GotRows(hot.tail, used) /\ GotRows(l.rows, used)
    BY LeftoversGot DEF FInv, UsedInv
  <2>5. QED
    BY <1>2, <1>3, <2>1, <2>2, <2>3, <2>4 DEF UsedInv
<1>9. ASSUME ~spoiled' PROVE SavedInv'
  <2>1. IsInjective(live')
    BY <1>2, <1>9
  <2>2. ASSUME NEW i \in 1 .. Len(rows) PROVE version'[rows[i].id] = rows[i].ver
    <3>1. rows[i].id \in Ids
      <4>1. rows[i] \in Row
        BY <1>3, ElementOfSeq
      <4>2. QED
        BY <4>1 DEF Row
    <3>2. PICK k : k = CHOOSE j \in DOMAIN rows : rows[j].id = rows[i].id
      OBVIOUS
    <3>3. k \in DOMAIN rows /\ rows[k].id = rows[i].id
      BY <1>5, <3>2
    <3>4. k = i
      <4>1. k \in DOMAIN live' /\ i \in DOMAIN live' /\ live'[k] = live'[i]
        BY <1>5, <3>3, LenProperties
      <4>2. QED
        BY <2>1, <4>1 DEF IsInjective
    <3>5. \E j \in DOMAIN rows : rows[j].id = rows[i].id
      BY <1>5
    <3>6. version'[rows[i].id] = rows[CHOOSE j \in DOMAIN rows : rows[j].id = rows[i].id].ver
      BY <1>2, <3>1, <3>5
    <3>7. QED
      BY <3>2, <3>4, <3>6
  <2>3. Base' = IdsOf(Stored')
    BY <1>2, <1>4 DEF Base, FrozenIds
  <2>4. QueueInv'
    <3>1. PICK stored : stored = Stored'
      OBVIOUS
    <3>2. stored \in Seq(Row) /\ Len(stored) <= Len(rows)
      BY <1>3, <3>1
    <3>3. \A i \in 1 .. Len(stored) : stored[i].id = rows[i].id
      BY <1>3, <3>1
    <3>4. /\ IdsOf(stored) \in Seq(Ids) /\ Len(IdsOf(stored)) <= Len(IdsOf(rows))
          /\ \A i \in 1 .. Len(IdsOf(stored)) : IdsOf(stored)[i] = IdsOf(rows)[i]
      BY <1>3, <3>2, <3>3, IdsBegin
    <3>5. PICK a \in Seq(Ids) : a = live'
      BY <1>5
    <3>6. Ordered(IdsOf(stored), <<>>, a)
      BY <1>2, <3>4, <3>5, OrderedEmpty
    <3>7. Ordered(Base', Waiting', live')
      BY <1>4, <2>3, <3>1, <3>5, <3>6
    <3>8. LastIsLive'
      BY <1>4 DEF LastIsLive
    <3>9. Requested'
      BY <1>2, <1>4 DEF Requested
    <3>10. QED
      BY <2>1, <3>7, <3>8, <3>9 DEF QueueInv
  <2>5. StoredInv'
    BY <1>3, <1>4 DEF StoredInv
  <2>6. NewInv'
    BY <1>4 DEF NewInv
  <2>7. KeptInv'
    <3>1. ASSUME NEW i \in 0 + 1 .. frozen' PROVE Stored'[i].ver = version'[Stored'[i].id]
      <4>1. i \in 1 .. frozen' /\ i \in 1 .. Len(rows)
        BY <1>3, <1>5
      <4>2. QED
        BY <1>3, <2>2, <4>1
    <3>2. Kept(version', Waiting', Stored', 0, frozen')
      BY <3>1 DEF Kept
    <3>3. QED
      BY <1>4, <3>2 DEF KeptInv
  <2>8. Settled'
    <3>1. Now(live)' = rows
      <4>1. PICK a \in Seq(Ids) : a = live'
        BY <1>5
      <4>2. PICK v : v = version'
        OBVIOUS
      <4>3. PICK now : now = [i \in 1 .. Len(rows) |-> [id |-> a[i], ver |-> v[a[i]]]]
        OBVIOUS
      <4>4. Now(live)' = now
        <5>1. DOMAIN a = 1 .. Len(rows)
          BY <1>5, <4>1, LenProperties
        <5>2. QED
          BY <4>1, <4>2, <4>3, <5>1 DEF Now
      <4>5. ASSUME NEW i \in 1 .. Len(rows) PROVE now[i] = rows[i]
        <5>1. now[i] = [id |-> a[i], ver |-> v[a[i]]]
          BY <4>3
        <5>2. a[i] = rows[i].id
          BY <1>5, <4>1
        <5>3. v[a[i]] = rows[i].ver
          BY <2>2, <4>2, <5>2
        <5>4. rows[i] \in Row
          BY <1>3, ElementOfSeq
        <5>5. rows[i] = [id |-> rows[i].id, ver |-> rows[i].ver]
          BY <5>4 DEF Row
        <5>6. QED
          BY <5>1, <5>2, <5>3, <5>5
      <4>6. now = [i \in 1 .. Len(rows) |-> rows[i]]
        BY <4>3, <4>5
      <4>7. rows = [i \in 1 .. Len(rows) |-> rows[i]]
        BY <1>3, <1>5
      <4>8. QED
        BY <4>4, <4>6, <4>7
    <3>2. QED
      BY <1>3, <1>4, <3>1 DEF Settled
  <2>9. QED
    BY <2>4, <2>5, <2>6, <2>7, <2>8 DEF SavedInv
<1>10. QED
  BY <1>6, <1>7, <1>8, <1>9 DEF FInv

-----------------------------------------------------------------------------
(***************************************************************************)
(* The invariant of what is saved.                                         *)
(***************************************************************************)
\* Nothing is saved and nothing waits at first.
LEMMA InitSaved == Init => FInv
<1>1. SUFFICES ASSUME Init PROVE FInv
  OBVIOUS
<1>2. /\ live = <<>> /\ debounced = FALSE /\ requested = 0 /\ requests = <<>> /\ writer = Idle
      /\ frozen = 0 /\ reference = NoReference /\ cache = Head0 /\ failures = {}
      /\ hot = [frozen |-> 0, tail |-> <<>>, ref |-> NoReference]
      /\ log = [rows |-> <<>>, torn |-> FALSE] /\ spoiled = FALSE
  BY <1>1 DEF Init
<1>3. writer.step = "idle" /\ ~Busy /\ Waiting = <<>>
  BY <1>2, IdleHas DEF Busy, Waiting
<1>4. /\ <<>> \in Seq(Ids) /\ <<>> \in Seq(Row) /\ Len(<<>>) = 0
      /\ \A i \in 1 .. Len(<<>>) : FALSE
  BY EmptySeq
<1>5. Captured /\ JournalInv
  BY <1>2, <1>3 DEF Captured, JournalInv
<1>6. UsedInv
  BY <1>2, <1>4, IdleHas DEF UsedInv, Got, GotRows
<1>7. Stored = <<>>
  <2>1. Stored = First(<<>>, 0)
    BY <1>2 DEF Stored
  <2>2. First(<<>>, 0) \in Seq(Row) /\ Len(First(<<>>, 0)) = 0
    BY <1>4, FirstIs DEF Least
  <2>3. QED
    BY <2>1, <2>2, EmptySeq
<1>8. IdsOf(<<>>) = <<>> /\ Base = <<>>
  <2>1. IdsOf(<<>>) \in Seq(Ids) /\ Len(IdsOf(<<>>)) = Len(<<>>)
    BY <1>4, IdsAre
  <2>2. IdsOf(<<>>) = <<>>
    BY <1>4, <2>1, EmptySeq
  <2>3. QED
    BY <1>2, <1>3, <1>7, <2>2 DEF Base, FrozenIds
<1>9. QueueInv
  <2>1. IsInjective(live)
    BY <1>2, <1>4 DEF IsInjective
  <2>2. Ordered(Base, Waiting, live)
    <3>1. Len(<<>>) <= Len(<<>>)
      BY <1>4
    <3>2. Ordered(<<>>, <<>>, <<>>)
      BY <1>4, <3>1, OrderedEmpty
    <3>3. QED
      BY <1>2, <1>3, <1>8, <3>2
  <2>3. LastIsLive
    BY <1>3 DEF LastIsLive
  <2>4. Requested
    BY <1>2, <1>4 DEF Requested
  <2>5. QED
    BY <2>1, <2>2, <2>3, <2>4 DEF QueueInv
<1>10. StoredInv /\ NewInv
  BY <1>2, <1>3, <1>4, <1>7 DEF StoredInv, NewInv
<1>11. KeptInv
  <2>1. Kept(version, Waiting, Stored, 0, frozen)
    BY <1>2 DEF Kept
  <2>2. QED
    BY <1>3, <2>1 DEF KeptInv
<1>12. Settled
  <2>1. Loaded = <<>>
    BY <1>2 DEF Loaded, Loads
  <2>2. Now(live) = <<>>
    <3>1. version \in [Ids -> Nat]
      BY <1>1 DEF Init
    <3>2. Now(live) \in Seq(Row) /\ Len(Now(live)) = 0
      BY <1>2, <1>4, <3>1, NowTyped
    <3>3. QED
      BY <3>2, EmptySeq
  <2>3. QED
    BY <1>3, <2>1, <2>2 DEF Settled
<1>13. QED
  BY <1>5, <1>6, <1>9, <1>10, <1>11, <1>12 DEF FInv, SavedInv

\* Every step keeps it.
LEMMA NextSaved == IInv /\ FInv /\ [Next]_vars => FInv'
<1>1. SUFFICES ASSUME IInv, FInv, [Next]_vars PROVE FInv'
  OBVIOUS
<1>2. CASE Grow
  BY <1>1, <1>2, GrowKeeps
<1>3. CASE \E i \in DOMAIN live : Mutate(i) \/ SaveHistoryEdits(i)
  BY <1>1, <1>3, MutateKeeps, EditKeeps
<1>4. CASE \E n \in 0 .. Len(live) : Revert(n)
  BY <1>1, <1>4, RevertKeeps
<1>5. CASE SaveAgain \/ DebounceEnds
  BY <1>1, <1>5, SaveAgainKeeps, DebounceKeeps
<1>6. CASE StartWrite
  BY <1>1, <1>6, StartWriteKeeps
<1>7. CASE WriteWhole \/ WriteLog \/ WriteHot
  BY <1>1, <1>7, WriteWholeKeeps, WriteLogKeeps, WriteHotKeeps
<1>8. CASE \E obsolete \in BOOLEAN : AppendJournal(obsolete)
  BY <1>1, <1>8, AppendJournalKeeps
<1>9. CASE Publish \/ Retire
  BY <1>1, <1>9, PublishKeeps, RetireKeeps
<1>10. CASE \E l \in Leftovers : Fails(l) \/ Crash(l)
  BY <1>1, <1>10, FailsKeeps, CrashKeeps
<1>11. CASE UNCHANGED vars
  <2>1. /\ UNCHANGED <<writer, memory, disk>>
        /\ UNCHANGED <<live, version, used, debounced, requested, requests, spoiled>>
    BY <1>11 DEF vars, session, queue, history
  <2>2. UNCHANGED <<frozen, reference, cache, failures, hot, log, generations>>
    BY <2>1 DEF memory, disk
  <2>3. Waiting' = Waiting /\ Base' = Base /\ Stored' = Stored /\ Busy' = Busy /\ Trusts' = Trusts
    BY <2>1, SessionApart DEF Waiting
  <2>4. Captured' /\ JournalInv'
    BY <1>1, <2>1, SessionApart DEF FInv
  <2>5. RowsOfGeneration(reference)' = RowsOfGeneration(reference)
    BY <2>2 DEF RowsOfGeneration
  <2>6. UsedInv'
    BY <1>1, <2>1, <2>2, <2>5 DEF FInv, UsedInv
  <2>7. ASSUME ~spoiled PROVE SavedInv'
    <3>1. SavedInv
      BY <1>1, <2>7 DEF FInv
    <3>2. StoredInv' /\ NewInv'
      BY <2>1, <3>1, SessionApart DEF SavedInv
    <3>3. LastIsLive' /\ Requested'
      BY <2>1, <2>2, <2>3, <3>1 DEF SavedInv, QueueInv, LastIsLive, Requested
    <3>4. QueueInv'
      BY <2>1, <2>3, <3>1, <3>3 DEF SavedInv, QueueInv
    <3>5. KeptInv'
      BY <2>1, <2>2, <2>3, <3>1 DEF SavedInv, KeptInv
    <3>6. Now(live)' = Now(live)
      BY <2>1 DEF Now
    <3>7. Loaded' = Loaded
      BY <2>2 DEF Loaded, Loads, RowsOfGeneration
    <3>8. Settled'
      BY <2>1, <2>2, <2>3, <3>1, <3>6, <3>7 DEF SavedInv, Settled
    <3>9. QED
      BY <3>2, <3>4, <3>5, <3>8 DEF SavedInv
  <2>8. QED
    BY <2>1, <2>4, <2>6, <2>7 DEF FInv
<1>12. QED
  BY <1>1, <1>2, <1>3, <1>4, <1>5, <1>6, <1>7, <1>8, <1>9, <1>10, <1>11
     DEF Next, SessionStep, WriteStep, FaultStep

\* When nothing waits, runs or has failed, a load returns the history.
LEMMA SavedFlushed == IInv /\ FInv => FlushedUnlessSpoiled
<1>1. SUFFICES ASSUME IInv, FInv, ~spoiled, Flushed PROVE IsReadable /\ Loaded = Now(live)
  BY DEF FlushedUnlessSpoiled, FlushedIsSaved
<1>2. IsReadable
  <2>1. generations \in [Gens -> Seq(Commit)] /\ hot.ref \in Reference
    BY <1>1 DEF IInv, TypeOK
  <2>2. hot.ref # NoReference => Held(hot.ref)
    BY <1>1, HotHeld DEF IInv
  <2>3. QED
    BY <2>1, <2>2, ReadableIs DEF IsReadable
<1>3. Waiting = <<>> /\ ~Busy /\ ~debounced /\ failures = {}
  BY <1>1 DEF Flushed, Waiting, Busy
<1>4. Loaded = Now(live)
  BY <1>1, <1>3 DEF FInv, SavedInv, Settled
<1>5. QED
  BY <1>2, <1>4

\* "Flush accepted state ... Reject on unsaved data" (flushAll): when it resolves,
\* a load returns the rows of the session, each as it was edited last, whatever
\* was saved, reverted, repaired, failed and made up for, or loaded after a crash
\* before; unless what a failure or a crash cost is noted where it happens.
THEOREM FlushKeepsHistory == Spec => []FlushedUnlessSpoiled
<1>1. Spec => []IInv
  BY InvariantHolds
<1>2. Init => FInv
  BY InitSaved
<1>3. IInv /\ FInv /\ [Next]_vars => FInv'
  BY NextSaved
<1>4. IInv /\ FInv => FlushedUnlessSpoiled
  BY SavedFlushed
<1>5. QED
  BY <1>1, <1>2, <1>3, <1>4, PTL DEF Spec
=============================================================================
