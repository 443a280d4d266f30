------------------------ MODULE SyncedProjectionsProofs ------------------------
(***************************************************************************)
(* Theorems about SyncedProjections, for every value of its constants.     *)
(***************************************************************************)
EXTENDS SyncedProjections, TLAPS, FiniteSetTheorems, SequenceTheorems

-----------------------------------------------------------------------------
(***************************************************************************)
(* Counting the messages of a kind.                                        *)
(***************************************************************************)
\* Which of the first n messages of s are of kind k, and how many.
Those(s, k, n) == {i \in 1 .. n : s[i].kind = k}
Count(s, k, n) == Cardinality(Those(s, k, n))

\* One message more counts for one if it is of that kind.
LEMMA CountStep ==
    ASSUME NEW s, NEW k, NEW n \in Nat
    PROVE  /\ IsFiniteSet(Those(s, k, n))
           /\ Count(s, k, n) \in 0 .. n
           /\ Count(s, k, 0) = 0
           /\ Count(s, k, n + 1) = Count(s, k, n) + IF s[n + 1].kind = k THEN 1 ELSE 0
<1>1. IsFiniteSet(1 .. n) /\ Cardinality(1 .. n) = n
  BY FS_Interval
<1>2. /\ IsFiniteSet(Those(s, k, n)) /\ Cardinality(Those(s, k, n)) <= n
      /\ Cardinality(Those(s, k, n)) \in Nat
  <2>1. Those(s, k, n) \in SUBSET (1 .. n)
    BY DEF Those
  <2>2. QED
    BY <1>1, <2>1, FS_Subset, FS_CardinalityType
<1>3. Those(s, k, 0) = {}
  BY DEF Those
<1>4. Count(s, k, n + 1) = Count(s, k, n) + IF s[n + 1].kind = k THEN 1 ELSE 0
  <2>1. CASE s[n + 1].kind = k
    <3>1. Those(s, k, n + 1) = Those(s, k, n) \cup {n + 1} /\ n + 1 \notin Those(s, k, n)
      BY <2>1 DEF Those
    <3>2. QED
      BY <1>2, <2>1, <3>1, FS_AddElement DEF Count
  <2>2. CASE s[n + 1].kind # k
    <3>1. Those(s, k, n + 1) = Those(s, k, n)
      BY <2>2 DEF Those
    <3>2. QED
      BY <1>2, <2>2, <3>1 DEF Count
  <2>3. QED
    BY <2>1, <2>2
<1>5. QED
  BY <1>2, <1>3, <1>4, FS_EmptySet DEF Count

\* Where messages agree in their kinds, so do the counts.
LEMMA CountSame ==
    ASSUME NEW s, NEW t, NEW k, NEW n \in Nat,
           \A i \in 1 .. n : (s[i].kind = k) <=> (t[i].kind = k)
    PROVE  Count(s, k, n) = Count(t, k, n)
BY DEF Count, Those

\* A later message of the kind has a higher number.
LEMMA CountGrows ==
    ASSUME NEW s, NEW k, NEW m \in Nat, NEW n \in Nat, m <= n
    PROVE  /\ Count(s, k, m) <= Count(s, k, n)
           /\ m < n /\ s[n].kind = k => Count(s, k, m) < Count(s, k, n)
<1>1. Those(s, k, m) \in SUBSET Those(s, k, n)
  BY DEF Those
<1>2. /\ IsFiniteSet(Those(s, k, n)) /\ Count(s, k, n) \in Nat /\ Count(s, k, m) \in Nat
  BY CountStep
<1>3. /\ Count(s, k, m) <= Count(s, k, n)
      /\ Count(s, k, m) = Count(s, k, n) => Those(s, k, m) = Those(s, k, n)
  BY <1>1, <1>2, FS_Subset DEF Count
<1>4. m < n /\ s[n].kind = k => n \in Those(s, k, n) /\ n \notin Those(s, k, m)
  BY DEF Those
<1>5. QED
  BY <1>2, <1>3, <1>4

\* What is left when the first message is taken.
LEMMA CountTail ==
    ASSUME NEW S, NEW s \in Seq(S), s # <<>>, NEW k, NEW n \in 0 .. Len(s) - 1
    PROVE  Count(s, k, n + 1) = Count(Tail(s), k, n) + IF s[1].kind = k THEN 1 ELSE 0
<1> DEFINE T == Those(Tail(s), k, n)
           U == Those(s, k, n + 1) \ {1}
           f == [i \in T |-> i + 1]
<1>1. /\ IsFiniteSet(T) /\ IsFiniteSet(Those(s, k, n + 1))
      /\ Count(Tail(s), k, n) \in Nat /\ Count(s, k, n + 1) \in Nat
  <2>1. n \in Nat /\ n + 1 \in Nat
    OBVIOUS
  <2>2. IsFiniteSet(T) /\ Count(Tail(s), k, n) \in 0 .. n
    BY ONLY <2>1, CountStep
  <2>3. IsFiniteSet(Those(s, k, n + 1)) /\ Count(s, k, n + 1) \in 0 .. n + 1
    BY ONLY <2>1, CountStep
  <2>4. QED
    BY <2>1, <2>2, <2>3
<1>2. \A i \in 1 .. n : Tail(s)[i] = s[i + 1]
  BY HeadTailProperties
<1>3. f \in Bijection(T, U)
  <2>1. \A i \in T : i \in 1 .. n /\ s[i + 1].kind = k
    BY <1>2 DEF Those
  <2>2. \A i \in T : i + 1 \in U
    BY <2>1 DEF Those
  <2>3. f \in Injection(T, U)
    BY <2>1, <2>2 DEF Injection, IsInjective, Those
  <2>4. \A j \in U : j - 1 \in T /\ (j - 1) + 1 = j
    BY <1>2 DEF Those
  <2>5. f \in Surjection(T, U)
    BY <2>2, <2>4 DEF Surjection
  <2>6. QED
    BY <2>3, <2>5 DEF Bijection
<1>4. Cardinality(U) = Cardinality(T)
  <2>1. ExistsBijection(T, U)
    BY <1>3 DEF ExistsBijection
  <2>2. QED
    BY <1>1, <2>1, FS_Bijection
<1>5. (1 \in Those(s, k, n + 1)) <=> (s[1].kind = k)
  BY DEF Those
<1>6. QED
  <2>1. CASE s[1].kind = k
    <3>1. Cardinality(U) = Cardinality(Those(s, k, n + 1)) - 1
      BY <1>1, <1>5, <2>1, FS_RemoveElement
    <3>2. QED
      BY <1>1, <1>4, <2>1, <3>1 DEF Count
  <2>2. CASE s[1].kind # k
    <3>1. Cardinality(U) = Cardinality(Those(s, k, n + 1))
      BY <1>1, <1>5, <2>2, FS_RemoveElement
    <3>2. QED
      BY <1>1, <1>4, <2>2, <3>1 DEF Count
  <2>3. QED
    BY <2>1, <2>2

\* t is s with more messages behind it.
Extends(t, s) == Len(s) <= Len(t) /\ \A i \in 1 .. Len(s) : t[i] = s[i]

\* More messages do not change the count of those before.
LEMMA CountPrefix ==
    ASSUME NEW s, NEW t, Len(s) \in Nat, Len(t) \in Nat, Extends(t, s), NEW k,
           NEW n \in Len(s) .. Len(t),
           \A i \in Len(s) + 1 .. n : t[i].kind # k
    PROVE  /\ \A m \in 0 .. Len(s) : Count(t, k, m) = Count(s, k, m)
           /\ Count(t, k, n) = Count(s, k, Len(s))
<1>1. ASSUME NEW m \in 0 .. Len(s) PROVE Count(t, k, m) = Count(s, k, m)
  <2>1. m \in Nat /\ \A i \in 1 .. m : t[i] = s[i]
    BY DEF Extends
  <2>2. QED
    BY <2>1, CountSame
<1>2. Those(t, k, n) = Those(s, k, Len(s))
  BY DEF Those, Extends
<1>3. QED
  BY <1>1, <1>2 DEF Count

\* What is appended to messages.
LEMMA Concatenated ==
    ASSUME NEW S, NEW s \in Seq(S), NEW u \in Seq(S)
    PROVE  /\ s \o u \in Seq(S) /\ Extends(s \o u, s)
           /\ Len(s \o u) = Len(s) + Len(u)
           /\ \A i \in 1 .. Len(u) : (s \o u)[Len(s) + i] = u[i]
           /\ \A i \in Len(s) + 1 .. Len(s) + Len(u) : (s \o u)[i] = u[i - Len(s)]
<1>1. /\ s \o u \in Seq(S) /\ Len(s \o u) = Len(s) + Len(u)
      /\ \A i \in 1 .. Len(s) + Len(u) :
            (s \o u)[i] = IF i <= Len(s) THEN s[i] ELSE u[i - Len(s)]
  BY ConcatProperties
<1>2. Len(s) \in Nat /\ Len(u) \in Nat
  OBVIOUS
<1>3. QED
  BY <1>1, <1>2 DEF Extends

-----------------------------------------------------------------------------
(***************************************************************************)
(* Types.                                                                  *)
(***************************************************************************)
\* How many of the first n messages to the browser are acknowledgements.
Acked(n) == Count(toBrowser, "ack", n)

\* Every subscription that was sent waits for its acknowledgement, made or still
\* to be made; a socket that is not up carries nothing.
Matched ==
    /\ socket = "up" =>
         Len(acks) = Acked(Len(toBrowser)) + Count(toServer, "subscribe", Len(toServer))
    /\ socket # "up" => toServer = <<>> /\ toBrowser = <<>> /\ ~subscribed
    /\ socket = "none" => acks = <<>>
    /\ generation <= faults + 1

TInv == TypeOK /\ Matched

\* Nor do more messages to the browser, if none of them is an acknowledgement.
LEMMA AckedPrefix ==
    ASSUME toBrowser \in Seq(ToBrowser), toBrowser' \in Seq(ToBrowser),
           Extends(toBrowser', toBrowser), NEW n \in Len(toBrowser) .. Len(toBrowser'),
           \A i \in Len(toBrowser) + 1 .. n : toBrowser'[i].kind # "ack"
    PROVE  /\ \A m \in 0 .. Len(toBrowser) : Count(toBrowser', "ack", m) = Acked(m)
           /\ Count(toBrowser', "ack", n) = Acked(Len(toBrowser))
<1>1. PICK s \in Seq(ToBrowser) : s = toBrowser
  OBVIOUS
<1>2. PICK t \in Seq(ToBrowser) : t = toBrowser'
  OBVIOUS
<1>3. /\ Len(s) \in Nat /\ Len(t) \in Nat /\ Extends(t, s)
      /\ n \in Len(s) .. Len(t) /\ \A i \in Len(s) + 1 .. n : t[i].kind # "ack"
  BY <1>1, <1>2
<1>4. /\ \A m \in 0 .. Len(s) : Count(t, "ack", m) = Count(s, "ack", m)
      /\ Count(t, "ack", n) = Count(s, "ack", Len(s))
  BY ONLY <1>3, CountPrefix
<1>5. QED
  BY <1>1, <1>2, <1>4 DEF Acked

\* What a message to the browser carries.
LEMMA MessageTypes ==
    ASSUME TypeOK, NEW i \in DOMAIN toBrowser
    PROVE  /\ toBrowser[i] \in ToBrowser
           /\ toBrowser[i].kind \in {"snapshot", "update", "patch", "ack", "archived"}
           /\ toBrowser[i].kind \in {"snapshot", "update"} =>
                 /\ toBrowser[i].gen \in Nat /\ toBrowser[i].rev \in Nat
                 /\ toBrowser[i].change \in Value
           /\ toBrowser[i].kind = "patch" =>
                 /\ toBrowser[i].gen \in Nat /\ toBrowser[i].rev \in Nat
                 /\ DOMAIN toBrowser[i].change \subseteq Fields
                 /\ \A f \in DOMAIN toBrowser[i].change : toBrowser[i].change[f] \in BOOLEAN
           /\ toBrowser[i].kind = "ack" =>
                 toBrowser[i].accepted \in BOOLEAN /\ toBrowser[i].current \in BOOLEAN
<1>1. toBrowser[i] \in ToBrowser
  BY ElementOfSeq DEF TypeOK, RuntimeTypeOK
<1>2. QED
  BY <1>1 DEF ToBrowser

\* A value under a patch is a value.
LEMMA PatchedType ==
    ASSUME NEW v \in Value, NEW p, \A f \in DOMAIN p : p[f] \in BOOLEAN
    PROVE  Patched(v, p) \in Value
BY DEF Patched, Value

Entries == [rev : Nat, value : Value]

\* What a read returns and what it sends.
LEMMA ReadTypes ==
    ASSUME TypeOK
    PROVE  /\ NoEntry \in Entries /\ cache \in Entries
           /\ Recomputed \in Entries /\ Current \in Entries
           /\ \A new \in Entries :
                     /\ SnapshotOf(new) \in ToBrowser /\ SnapshotOf(new).kind = "snapshot"
                     /\ Publication(new) \in Seq(ToBrowser)
                     /\ Len(Publication(new)) <= 1
                     /\ \A j \in 1 .. Len(Publication(new)) :
                           Publication(new)[j].kind \in {"update", "patch"}
<1>1. /\ generation \in Nat /\ source \in Value /\ cache \in Entries
  BY DEF TypeOK, RuntimeTypeOK, Entries
<1>2. NoEntry \in Entries
  BY DEF NoEntry, Entries, Blank, Value
<1>3. Recomputed \in Entries
  BY <1>1, <1>2 DEF Recomputed, Entries
<1>4. Current \in Entries
  BY <1>1, <1>3 DEF Current
<1>5. ASSUME NEW new \in Entries
      PROVE  /\ SnapshotOf(new) \in ToBrowser /\ SnapshotOf(new).kind = "snapshot"
             /\ Publication(new) \in Seq(ToBrowser)
             /\ Len(Publication(new)) <= 1
             /\ \A j \in 1 .. Len(Publication(new)) :
                   Publication(new)[j].kind \in {"update", "patch"}
  <2>1. SnapshotOf(new) \in ToBrowser /\ SnapshotOf(new).kind = "snapshot"
    BY <1>1, <1>5 DEF SnapshotOf, ToBrowser, Entries
  <2> DEFINE patch == PatchFrom(cache.value, new.value)
             whole == cache = NoEntry \/ DOMAIN patch = Fields
             m == [kind |-> IF whole THEN "update" ELSE "patch",
                   gen |-> generation, rev |-> new.rev,
                   change |-> IF whole THEN new.value ELSE patch]
  <2>2. patch \in UNION {[fs -> BOOLEAN] : fs \in SUBSET Fields}
    <3>1. new.value \in [Fields -> BOOLEAN]
      BY <1>5 DEF Entries, Value
    <3>2. DOMAIN patch \in SUBSET Fields /\ patch \in [DOMAIN patch -> BOOLEAN]
      BY <3>1 DEF PatchFrom
    <3>3. QED
      BY <3>2
  <2>3. m \in ToBrowser /\ m.kind \in {"update", "patch"}
    <3>1. CASE whole
      BY <1>1, <1>5, <3>1 DEF ToBrowser, Entries
    <3>2. CASE ~whole
      <4> HIDE DEF patch
      <4>1. QED
        BY <1>1, <1>5, <2>2, <3>2 DEF ToBrowser, Entries
    <3>3. QED
      BY <3>1, <3>2
  <2>4. Publication(new) = <<>> \/ Publication(new) = <<m>>
    BY DEF Publication
  <2> HIDE DEF m
  <2>5. CASE Publication(new) = <<>>
    <3>1. <<>> \in Seq(ToBrowser) /\ Len(<<>>) = 0
      BY EmptySeq
    <3>2. QED
      BY <2>1, <2>5, <3>1
  <2>6. CASE Publication(new) = <<m>>
    <3>1. <<m>> \in Seq(ToBrowser) /\ Len(<<m>>) = 1 /\ <<m>>[1] = m
      BY <2>3
    <3>2. QED
      BY <2>1, <2>3, <2>6, <3>1
  <2>7. QED
    BY <2>4, <2>5, <2>6
<1>6. QED
  BY <1>1, <1>2, <1>3, <1>4, <1>5

\* What a read leaves is well-formed.
LEMMA KeepTypes ==
    ASSUME TypeOK, NEW new \in Entries, Keep(new)
    PROVE  /\ cache' \in Entries /\ dirty' \in BOOLEAN /\ pending' \in BOOLEAN
           /\ published' \in Seq([gen : Nat, rev : Nat, value : Value])
<1>1. [gen |-> generation, rev |-> new.rev, value |-> new.value]
         \in [gen : Nat, rev : Nat, value : Value]
  BY DEF TypeOK, RuntimeTypeOK, Entries
<1>2. published \in Seq([gen : Nat, rev : Nat, value : Value])
  BY DEF TypeOK, RuntimeTypeOK
<1>3. published' \in Seq([gen : Nat, rev : Nat, value : Value])
  <2>1. CASE new \in {cache, NoEntry}
    BY <1>2, <2>1 DEF Keep
  <2>2. CASE new \notin {cache, NoEntry}
    <3>1. published' = Append(published, [gen |-> generation, rev |-> new.rev,
                                          value |-> new.value])
      BY <2>2 DEF Keep
    <3>2. QED
      BY <1>1, <1>2, <3>1
  <2>3. QED
    BY <2>1, <2>2
<1>4. QED
  BY <1>3 DEF Keep

\* A publication adds no acknowledgement, and nothing without a subscriber.
LEMMA PushTypes ==
    ASSUME TInv, NEW new \in Entries, Push(new)
    PROVE  /\ toBrowser' \in Seq(ToBrowser) /\ Extends(toBrowser', toBrowser)
           /\ Len(toBrowser') <= Len(toBrowser) + 1
           /\ \A i \in Len(toBrowser) + 1 .. Len(toBrowser') :
                 toBrowser'[i].kind \in {"update", "patch"}
           /\ \A m \in 0 .. Len(toBrowser) : Count(toBrowser', "ack", m) = Acked(m)
           /\ Count(toBrowser', "ack", Len(toBrowser')) = Acked(Len(toBrowser))
           /\ ~subscribed => toBrowser' = toBrowser
<1> DEFINE u == IF subscribed THEN Publication(new) ELSE <<>>
<1>1. /\ u \in Seq(ToBrowser) /\ Len(u) <= 1
      /\ \A j \in 1 .. Len(u) : u[j].kind \in {"update", "patch"}
  <2>1. <<>> \in Seq(ToBrowser) /\ Len(<<>>) = 0
    BY EmptySeq
  <2>2. QED
    BY <2>1, ReadTypes DEF TInv
<1>2. toBrowser \in Seq(ToBrowser) /\ Len(toBrowser) \in Nat /\ Len(u) \in Nat
  BY <1>1 DEF TInv, TypeOK, RuntimeTypeOK
<1>3. toBrowser' = toBrowser \o u
  BY DEF Push
<1>4. ~subscribed => toBrowser' = toBrowser
  BY <1>2, <1>3, ConcatEmptySeq
<1> HIDE DEF u
<1>5. /\ toBrowser' \in Seq(ToBrowser) /\ Extends(toBrowser', toBrowser)
      /\ Len(toBrowser') = Len(toBrowser) + Len(u)
      /\ \A i \in Len(toBrowser) + 1 .. Len(toBrowser) + Len(u) :
            toBrowser'[i] = u[i - Len(toBrowser)]
  BY <1>1, <1>2, <1>3, Concatenated
<1>6. \A i \in Len(toBrowser) + 1 .. Len(toBrowser') :
         toBrowser'[i].kind \in {"update", "patch"}
  <2>1. ASSUME NEW i \in Len(toBrowser) + 1 .. Len(toBrowser')
        PROVE  toBrowser'[i].kind \in {"update", "patch"}
    <3>1. i - Len(toBrowser) \in 1 .. Len(u)
      BY <1>2, <1>5
    <3>2. QED
      BY <1>1, <1>5, <3>1
  <2>2. QED
    BY <2>1
<1>7. /\ \A m \in 0 .. Len(toBrowser) : Count(toBrowser', "ack", m) = Acked(m)
      /\ Count(toBrowser', "ack", Len(toBrowser')) = Acked(Len(toBrowser))
  <2>1. Len(toBrowser') \in Len(toBrowser) .. Len(toBrowser')
    BY <1>2, <1>5
  <2>2. \A i \in Len(toBrowser) + 1 .. Len(toBrowser') : toBrowser'[i].kind # "ack"
    BY <1>6
  <2>3. QED
    <3>1. /\ toBrowser \in Seq(ToBrowser) /\ toBrowser' \in Seq(ToBrowser)
          /\ Extends(toBrowser', toBrowser)
      BY <1>2, <1>5
    <3>2. QED
      BY ONLY <2>1, <2>2, <3>1, AckedPrefix
<1>8. QED
  BY <1>1, <1>2, <1>4, <1>5, <1>6, <1>7

\* A message is taken: the counts go down by it.
LEMMA TakeTypes ==
    ASSUME TInv, toBrowser # <<>>, toBrowser' = Tail(toBrowser)
    PROVE  /\ socket = "up" /\ 1 \in DOMAIN toBrowser /\ Head(toBrowser) = toBrowser[1]
           /\ toBrowser' \in Seq(ToBrowser) /\ Len(toBrowser') = Len(toBrowser) - 1
           /\ \A i \in DOMAIN toBrowser' : /\ i + 1 \in DOMAIN toBrowser
                                           /\ toBrowser'[i] = toBrowser[i + 1]
           /\ \A n \in 0 .. Len(toBrowser') :
                 /\ Count(toBrowser', "ack", n) \in Nat
                 /\ Acked(n + 1) = Count(toBrowser', "ack", n)
                                     + IF toBrowser[1].kind = "ack" THEN 1 ELSE 0
<1>1. toBrowser \in Seq(ToBrowser) /\ Len(toBrowser) \in Nat \ {0}
  BY EmptySeq DEF TInv, TypeOK, RuntimeTypeOK
<1>2. socket = "up"
  BY DEF TInv, Matched
<1>3. /\ Head(toBrowser) = toBrowser[1] /\ toBrowser' \in Seq(ToBrowser)
      /\ Len(toBrowser') = Len(toBrowser) - 1
      /\ \A i \in 1 .. Len(toBrowser') : toBrowser'[i] = toBrowser[i + 1]
  BY <1>1, HeadTailProperties
<1>4. DOMAIN toBrowser' = 1 .. Len(toBrowser') /\ DOMAIN toBrowser = 1 .. Len(toBrowser)
  BY <1>1, <1>3
<1>5. ASSUME NEW n \in 0 .. Len(toBrowser')
      PROVE  /\ Count(toBrowser', "ack", n) \in Nat
             /\ Acked(n + 1) = Count(toBrowser', "ack", n)
                                 + IF toBrowser[1].kind = "ack" THEN 1 ELSE 0
  <2>1. n \in 0 .. Len(toBrowser) - 1 /\ n \in Nat
    BY <1>1, <1>3
  <2>2. Count(toBrowser', "ack", n) \in 0 .. n
    BY <2>1, CountStep
  <2>3. QED
    BY <1>1, <2>1, <2>2, CountTail DEF Acked
<1>6. QED
  BY <1>1, <1>2, <1>3, <1>4, <1>5

\* A message to the server is counted if it subscribes.
LEMMA SendTypes ==
    ASSUME TypeOK, NEW m \in ToServer, toServer' = Append(toServer, m)
    PROVE  /\ toServer' \in Seq(ToServer) /\ Len(toServer') = Len(toServer) + 1
           /\ toServer'[Len(toServer')] = m /\ Extends(toServer', toServer)
           /\ Count(toServer, "subscribe", Len(toServer)) \in Nat
           /\ Count(toServer', "subscribe", Len(toServer')) =
                 Count(toServer, "subscribe", Len(toServer))
                    + IF m.kind = "subscribe" THEN 1 ELSE 0
<1>1. toServer \in Seq(ToServer) /\ Len(toServer) \in Nat
  BY DEF TypeOK, RuntimeTypeOK
<1>2. /\ toServer' \in Seq(ToServer) /\ Len(toServer') = Len(toServer) + 1
      /\ toServer'[Len(toServer')] = m /\ \A i \in 1 .. Len(toServer) : toServer'[i] = toServer[i]
  BY <1>1
<1>3. Count(toServer', "subscribe", Len(toServer)) = Count(toServer, "subscribe", Len(toServer))
  <2>1. \A i \in 1 .. Len(toServer) :
           (toServer'[i].kind = "subscribe") <=> (toServer[i].kind = "subscribe")
    BY <1>2
  <2>2. QED
    BY ONLY <1>1, <2>1, CountSame
<1>4. Count(toServer, "subscribe", Len(toServer)) \in Nat
  BY <1>1, CountStep
<1>5. Count(toServer', "subscribe", Len(toServer) + 1) =
         Count(toServer', "subscribe", Len(toServer))
            + IF toServer'[Len(toServer) + 1].kind = "subscribe" THEN 1 ELSE 0
  BY <1>1, CountStep
<1>6. QED
  BY <1>1, <1>2, <1>3, <1>4, <1>5 DEF Extends

\* A resync is no subscription.
LEMMA ResyncTypes ==
    ASSUME TypeOK, NEW asked \in BOOLEAN, Resync(asked)
    PROVE  /\ toServer' \in Seq(ToServer) /\ resyncing' \in BOOLEAN
           /\ Count(toServer', "subscribe", Len(toServer')) =
                 Count(toServer, "subscribe", Len(toServer))
<1>1. [kind |-> "resync"] \in ToServer
  BY DEF ToServer
<1>2. resyncing' \in BOOLEAN
  BY DEF Resync, TypeOK, CacheTypeOK
<1>3. CASE toServer' = toServer
  BY <1>2, <1>3 DEF TypeOK, RuntimeTypeOK
<1>4. CASE toServer' = Append(toServer, [kind |-> "resync"])
  <2> DEFINE m == [kind |-> "resync"]
  <2>1. m \in ToServer /\ m.kind # "subscribe" /\ toServer' = Append(toServer, m)
    BY <1>1, <1>4
  <2> HIDE DEF m
  <2>2. QED
    BY <1>2, <2>1, SendTypes
<1>5. QED
  BY <1>3, <1>4 DEF Resync

\* The steps of the server that send nothing.
LEMMA QuietTypes ==
    ASSUME TInv, UNCHANGED cacheVars,
           \/ \E origin \in Origins, value \in Value : Change(origin, value)
           \/ Archive \/ Restore
    PROVE  TInv'
<1>1. TypeOK /\ Matched
  BY DEF TInv
<1>2. UNCHANGED <<generation, cache, published, subscribed, wire>>
  BY DEF Change, Archive, Restore, entry
<1>3. Matched'
  BY <1>1, <1>2 DEF Matched, Acked, wire, cacheVars, transport
<1>4. CacheTypeOK'
  BY <1>1 DEF TypeOK, CacheTypeOK, cacheVars, store, ordering, transport, lists
<1>5. life' \in Lives /\ source' \in Value /\ dirty' \in BOOLEAN /\ pending' \in BOOLEAN
      /\ changes' \in 0 .. MaxChanges
  <2>1. /\ life \in Lives /\ source \in Value /\ dirty \in BOOLEAN /\ pending \in BOOLEAN
        /\ changes \in 0 .. MaxChanges /\ subscribed \in BOOLEAN
    BY <1>1 DEF TypeOK, RuntimeTypeOK
  <2>2. CASE \E origin \in Origins, value \in Value : Change(origin, value)
    <3>1. PICK origin \in Origins, value \in Value : Change(origin, value)
      BY <2>2
    <3>2. dirty' \in BOOLEAN /\ pending' \in BOOLEAN
      BY <2>1, <3>1 DEF Change
    <3>3. life' \in Lives /\ source' \in Value /\ changes' \in 0 .. MaxChanges
      BY <2>1, <3>1, RuntimeAssumption DEF Change
    <3>4. QED
      BY <3>2, <3>3
  <2>3. CASE Archive \/ Restore
    BY <2>1, <2>3 DEF Archive, Restore, entry, Lives
  <2>4. QED
    BY <2>2, <2>3
<1>6. RuntimeTypeOK'
  BY <1>1, <1>2, <1>5 DEF TypeOK, RuntimeTypeOK, wire
<1>7. QED
  BY <1>3, <1>4, <1>6 DEF TInv, TypeOK

\* Every browser is told of the archiving.
LEMMA AnnounceTypes ==
    ASSUME TInv, Announce, UNCHANGED cacheVars
    PROVE  /\ TInv'
           /\ Extends(toBrowser', toBrowser)
           /\ Len(toBrowser') <= Len(toBrowser) + 1
           /\ \A i \in Len(toBrowser) + 1 .. Len(toBrowser') : toBrowser'[i].kind = "archived"
           /\ \A m \in 0 .. Len(toBrowser) : Count(toBrowser', "ack", m) = Acked(m)
           /\ Count(toBrowser', "ack", Len(toBrowser')) = Acked(Len(toBrowser))
<1> DEFINE m == [kind |-> "archived"]
<1>1. TypeOK /\ Matched
  BY DEF TInv
<1>2. toBrowser \in Seq(ToBrowser) /\ Len(toBrowser) \in Nat
  BY <1>1 DEF TypeOK, RuntimeTypeOK
<1>3. m \in ToBrowser /\ m.kind = "archived"
  BY DEF ToBrowser
<1>4. toBrowser' = toBrowser \/ toBrowser' = Append(toBrowser, m)
  BY DEF Announce
<1> HIDE DEF m
<1>5. /\ toBrowser' \in Seq(ToBrowser) /\ Extends(toBrowser', toBrowser)
      /\ Len(toBrowser') \in Len(toBrowser) .. Len(toBrowser) + 1
      /\ \A i \in Len(toBrowser) + 1 .. Len(toBrowser') : toBrowser'[i] = m
  BY <1>2, <1>3, <1>4 DEF Extends
<1>6. /\ \A n \in 0 .. Len(toBrowser) : Count(toBrowser', "ack", n) = Acked(n)
      /\ Count(toBrowser', "ack", Len(toBrowser')) = Acked(Len(toBrowser))
  <2> DEFINE n == Len(toBrowser')
  <2>1. n \in Len(toBrowser) .. Len(toBrowser')
        /\ \A i \in Len(toBrowser) + 1 .. n : toBrowser'[i].kind # "ack"
    BY <1>2, <1>3, <1>5
  <2> HIDE DEF n
  <2>2. /\ \A k \in 0 .. Len(toBrowser) : Count(toBrowser', "ack", k) = Acked(k)
        /\ Count(toBrowser', "ack", n) = Acked(Len(toBrowser))
    BY ONLY <1>2, <1>5, <2>1, AckedPrefix
  <2>3. QED
    BY <2>2 DEF n
<1>7. Matched'
  BY <1>1, <1>6 DEF Matched, Acked, Announce, cacheVars, transport
<1>8. RuntimeTypeOK'
  BY <1>1, <1>5 DEF TypeOK, RuntimeTypeOK, Announce, entry, Lives
<1>9. CacheTypeOK'
  BY <1>1 DEF TypeOK, CacheTypeOK, cacheVars, store, ordering, transport, lists
<1>10. QED
  BY <1>3, <1>5, <1>6, <1>7, <1>8, <1>9 DEF TInv, TypeOK

\* A read by anybody.
LEMMA ReadKeepsTypes ==
    ASSUME TInv, NEW new \in Entries, Keep(new), Push(new),
           UNCHANGED <<generation, session, subscribed, socket, toServer, faults>>
    PROVE  RuntimeTypeOK' /\ (acks' = acks => Matched')
<1>1. TypeOK /\ Matched
  BY DEF TInv
<1>2. /\ cache' \in Entries /\ dirty' \in BOOLEAN /\ pending' \in BOOLEAN
      /\ published' \in Seq([gen : Nat, rev : Nat, value : Value])
  BY <1>1, KeepTypes
<1>3. /\ toBrowser' \in Seq(ToBrowser)
      /\ Count(toBrowser', "ack", Len(toBrowser')) = Acked(Len(toBrowser))
      /\ ~subscribed => toBrowser' = toBrowser
  BY PushTypes
<1>4. RuntimeTypeOK'
  BY <1>1, <1>2, <1>3 DEF TypeOK, RuntimeTypeOK, session, Entries
<1>5. acks' = acks => Matched'
  BY <1>1, <1>3 DEF Matched, Acked
<1>6. QED
  BY <1>4, <1>5

\* A flush, or a read for somebody else.
LEMMA FlushTypes ==
    ASSUME TInv, Flush \/ Peek, UNCHANGED cacheVars
    PROVE  TInv'
<1>1. TypeOK /\ Matched /\ Recomputed \in Entries /\ Current \in Entries
  BY ReadTypes DEF TInv
<1>2. CacheTypeOK' /\ acks' = acks
  BY <1>1 DEF TypeOK, CacheTypeOK, cacheVars, store, ordering, transport, lists
<1>3. CASE Flush /\ subscribed
  <2>1. /\ Keep(Recomputed) /\ Push(Recomputed)
        /\ UNCHANGED <<generation, session, subscribed, socket, toServer, faults>>
    BY <1>3 DEF Flush
  <2>2. QED
    BY <1>1, <1>2, <2>1, ReadKeepsTypes DEF TInv, TypeOK
<1>4. CASE Peek
  <2>1. /\ Keep(Current) /\ Push(Current)
        /\ UNCHANGED <<generation, session, subscribed, socket, toServer, faults>>
    BY <1>4 DEF Peek
  <2>2. QED
    BY <1>1, <1>2, <2>1, ReadKeepsTypes DEF TInv, TypeOK
<1>5. CASE Flush /\ ~subscribed
  <2>1. /\ pending' = FALSE
        /\ UNCHANGED <<generation, session, cache, dirty, published, subscribed, socket,
                       toServer, toBrowser, faults>>
    BY <1>5 DEF Flush
  <2>2. Matched'
    BY <1>1, <1>2, <2>1 DEF Matched, Acked
  <2>3. RuntimeTypeOK'
    BY <1>1, <2>1 DEF TypeOK, RuntimeTypeOK, session
  <2>4. QED
    BY <1>2, <2>2, <2>3 DEF TInv, TypeOK
<1>6. QED
  BY <1>3, <1>4, <1>5

\* What the server makes of a subscription.
Accepting(m) == m.wants /\ Visible
Confirming(m) == Accepting(m) /\ m.known = [gen |-> generation, rev |-> Current.rev]
Answer(m) == [kind |-> "ack", accepted |-> Accepting(m), current |-> Confirming(m)]

\* The reply to a subscription: an acknowledgement, after the snapshot if the
\* browser needs one.
LEMMA Replies ==
    ASSUME TInv, NEW m \in ToServer, m.kind = "subscribe", ReplaceSubscriptions(m)
    PROVE  /\ Answer(m) \in ToBrowser
           /\ toBrowser' \in Seq(ToBrowser) /\ Extends(toBrowser', toBrowser)
           /\ IF Accepting(m) /\ ~Confirming(m)
              THEN /\ Len(toBrowser') = Len(toBrowser) + 2
                   /\ toBrowser'[Len(toBrowser) + 1] = SnapshotOf(Current)
              ELSE Len(toBrowser') = Len(toBrowser) + 1
           /\ toBrowser'[Len(toBrowser')] = Answer(m)
           /\ \A k \in 0 .. Len(toBrowser) : Count(toBrowser', "ack", k) = Acked(k)
           /\ Count(toBrowser', "ack", Len(toBrowser')) = Acked(Len(toBrowser)) + 1
<1> DEFINE a == Answer(m)
           u == IF Accepting(m) /\ ~Confirming(m) THEN <<SnapshotOf(Current)>> ELSE <<>>
           v == u \o <<a>>
<1>1. TypeOK /\ toBrowser \in Seq(ToBrowser) /\ Len(toBrowser) \in Nat
  BY DEF TInv, TypeOK, RuntimeTypeOK
<1>2. SnapshotOf(Current) \in ToBrowser /\ SnapshotOf(Current).kind = "snapshot"
  BY <1>1, ReadTypes
<1>3. a \in ToBrowser /\ a.kind = "ack"
  <2>1. m.wants \in BOOLEAN
    BY DEF ToServer
  <2>2. Accepting(m) \in BOOLEAN /\ Confirming(m) \in BOOLEAN
    BY <2>1 DEF Accepting, Confirming
  <2>3. QED
    BY <2>2 DEF ToBrowser, Answer
<1>4. toBrowser' = toBrowser \o u \o <<a>>
  <2>1. (m.wants /\ Visible) = Accepting(m)
    BY DEF Accepting
  <2>2. (m.wants /\ Visible /\ ~(m.known = [gen |-> generation, rev |-> Current.rev]))
           = (Accepting(m) /\ ~Confirming(m))
    BY DEF Accepting, Confirming
  <2>3. QED
    BY <2>1, <2>2 DEF ReplaceSubscriptions, Answer, Accepting, Confirming
<1> HIDE DEF a
<1>5. /\ u \in Seq(ToBrowser) /\ <<a>> \in Seq(ToBrowser)
      /\ Len(<<a>>) = 1 /\ <<a>>[1] = a
      /\ IF Accepting(m) /\ ~Confirming(m)
         THEN Len(u) = 1 /\ u[1] = SnapshotOf(Current) ELSE Len(u) = 0
  BY <1>2, <1>3, EmptySeq
<1> HIDE DEF u
<1>6. /\ toBrowser \o u \in Seq(ToBrowser) /\ Extends(toBrowser \o u, toBrowser)
      /\ Len(toBrowser \o u) = Len(toBrowser) + Len(u)
      /\ \A i \in 1 .. Len(u) : (toBrowser \o u)[Len(toBrowser) + i] = u[i]
  BY <1>1, <1>5, Concatenated
<1> DEFINE w == toBrowser \o u
<1>7. /\ w \o <<a>> \in Seq(ToBrowser) /\ Extends(w \o <<a>>, w)
      /\ Len(w \o <<a>>) = Len(w) + 1 /\ (w \o <<a>>)[Len(w) + 1] = a
  <2> HIDE DEF w
  <2>1. w \in Seq(ToBrowser)
    BY <1>6 DEF w
  <2> DEFINE t == <<a>>
  <2>2. t \in Seq(ToBrowser) /\ Len(t) = 1 /\ t[1] = a
    BY <1>5
  <2> HIDE DEF t
  <2>3. /\ w \o t \in Seq(ToBrowser) /\ Extends(w \o t, w)
        /\ Len(w \o t) = Len(w) + Len(t)
        /\ \A i \in 1 .. Len(t) : (w \o t)[Len(w) + i] = t[i]
    BY ONLY <2>1, <2>2, Concatenated
  <2>4. /\ w \o t \in Seq(ToBrowser) /\ Extends(w \o t, w)
        /\ Len(w \o t) = Len(w) + 1 /\ (w \o t)[Len(w) + 1] = a
    BY <2>2, <2>3
  <2>5. QED
    BY <2>4 DEF t
<1>8. Len(u) \in Nat /\ Len(w) \in Nat
  BY <1>5, <1>6
<1>9. /\ toBrowser' \in Seq(ToBrowser) /\ Extends(toBrowser', toBrowser)
      /\ Len(toBrowser') = Len(toBrowser) + Len(u) + 1
      /\ toBrowser'[Len(toBrowser')] = a
      /\ \A i \in 1 .. Len(u) : toBrowser'[Len(toBrowser) + i] = u[i]
  <2>1. toBrowser' = w \o <<a>>
    BY <1>4
  <2>2. Len(w) = Len(toBrowser) + Len(u)
    BY <1>6
  <2>3. \A i \in 1 .. Len(toBrowser) : w[i] = toBrowser[i]
    BY <1>6 DEF Extends
  <2>4. \A i \in 1 .. Len(u) : w[Len(toBrowser) + i] = u[i]
    BY <1>6
  <2> HIDE DEF w
  <2>5. QED
    BY <1>1, <1>7, <1>8, <2>1, <2>2, <2>3, <2>4 DEF Extends
<1>10. /\ \A k \in 0 .. Len(toBrowser) : Count(toBrowser', "ack", k) = Acked(k)
       /\ Count(toBrowser', "ack", Len(toBrowser')) = Acked(Len(toBrowser)) + 1
  <2> DEFINE n == Len(toBrowser) + Len(u)
  <2>1. n \in Nat /\ n \in Len(toBrowser) .. Len(toBrowser') /\ Len(toBrowser') = n + 1
    BY <1>1, <1>8, <1>9
  <2>2. \A i \in Len(toBrowser) + 1 .. n : toBrowser'[i].kind # "ack"
    <3>1. ASSUME NEW i \in Len(toBrowser) + 1 .. n PROVE toBrowser'[i].kind # "ack"
      <4>1. Len(u) = 1 /\ u[1] = SnapshotOf(Current) /\ i = Len(toBrowser) + 1
        <5>1. Len(u) # 0
          BY <1>1, <3>1
        <5>2. Accepting(m) /\ ~Confirming(m)
          BY <1>5, <5>1
        <5>3. Len(u) = 1 /\ u[1] = SnapshotOf(Current)
          BY <1>5, <5>2
        <5>4. QED
          BY <1>1, <3>1, <5>3
      <4>2. toBrowser'[i] = SnapshotOf(Current)
        BY <1>9, <4>1
      <4>3. QED
        BY <1>2, <4>2
    <3>2. QED
      BY <3>1
  <2> HIDE DEF n
  <2>3. /\ \A k \in 0 .. Len(toBrowser) : Count(toBrowser', "ack", k) = Acked(k)
        /\ Count(toBrowser', "ack", n) = Acked(Len(toBrowser))
    BY ONLY <1>1, <1>9, <2>1, <2>2, AckedPrefix
  <2>4. toBrowser'[n + 1].kind = "ack"
    BY <1>3, <1>9, <2>1
  <2>5. Count(toBrowser', "ack", n + 1) = Count(toBrowser', "ack", n) + 1
    <3>1. Count(toBrowser', "ack", n + 1) =
             Count(toBrowser', "ack", n) + IF toBrowser'[n + 1].kind = "ack" THEN 1 ELSE 0
      BY ONLY <2>1, CountStep
    <3>2. QED
      BY ONLY <2>4, <3>1
  <2>6. QED
    BY <2>1, <2>3, <2>5
<1>11. QED
  BY <1>1, <1>3, <1>5, <1>9, <1>10 DEF a

\* The counts when the server takes a message.
LEMMA HandleCounts ==
    ASSUME TypeOK, toServer # <<>>, toServer' = Tail(toServer)
    PROVE  /\ Head(toServer) = toServer[1] /\ Head(toServer) \in ToServer
           /\ Head(toServer).kind \in {"subscribe", "resync"}
           /\ toServer' \in Seq(ToServer) /\ Len(toServer') = Len(toServer) - 1
           /\ \A i \in DOMAIN toServer' : /\ i + 1 \in DOMAIN toServer
                                          /\ toServer'[i] = toServer[i + 1]
           /\ Count(toServer', "subscribe", Len(toServer')) \in Nat
           /\ Count(toServer, "subscribe", Len(toServer)) =
                 Count(toServer', "subscribe", Len(toServer'))
                    + IF Head(toServer).kind = "subscribe" THEN 1 ELSE 0
<1>1. toServer \in Seq(ToServer) /\ Len(toServer) \in Nat \ {0}
  BY EmptySeq DEF TypeOK, RuntimeTypeOK
<1>2. /\ Head(toServer) = toServer[1] /\ toServer' \in Seq(ToServer)
      /\ Len(toServer') = Len(toServer) - 1
      /\ \A i \in 1 .. Len(toServer') : toServer'[i] = toServer[i + 1]
  BY <1>1, HeadTailProperties
<1>3. DOMAIN toServer' = 1 .. Len(toServer') /\ DOMAIN toServer = 1 .. Len(toServer)
  BY <1>1, <1>2
<1>4. Head(toServer) \in ToServer /\ Head(toServer).kind \in {"subscribe", "resync"}
  <2>1. Head(toServer) \in ToServer
    BY <1>1
  <2>2. QED
    BY <2>1 DEF ToServer
<1>5. Count(toServer', "subscribe", Len(toServer')) \in 0 .. Len(toServer')
  <2>1. Len(toServer') \in Nat
    BY <1>1, <1>2
  <2>2. QED
    BY ONLY <2>1, CountStep
<1>6. Count(toServer, "subscribe", Len(toServer)) =
         Count(toServer', "subscribe", Len(toServer'))
            + IF Head(toServer).kind = "subscribe" THEN 1 ELSE 0
  <2> DEFINE n == Len(toServer) - 1
  <2>1. n \in 0 .. Len(toServer) - 1 /\ n + 1 = Len(toServer) /\ Len(toServer') = n
    BY <1>1, <1>2
  <2> HIDE DEF n
  <2>2. Count(toServer, "subscribe", n + 1) =
           Count(Tail(toServer), "subscribe", n)
              + IF toServer[1].kind = "subscribe" THEN 1 ELSE 0
    BY ONLY <1>1, <2>1, CountTail
  <2>3. QED
    BY <1>2, <2>1, <2>2
<1>7. QED
  BY <1>2, <1>3, <1>4, <1>5, <1>6

\* A resync is answered without an acknowledgement.
LEMMA ResyncReplies ==
    ASSUME TInv, AnswerResync
    PROVE  /\ toBrowser' \in Seq(ToBrowser)
           /\ Count(toBrowser', "ack", Len(toBrowser')) = Acked(Len(toBrowser))
<1> DEFINE u == Publication(Current)
           w == toBrowser \o u
           t == <<SnapshotOf(Current)>>
<1>1. TypeOK /\ toBrowser \in Seq(ToBrowser)
  BY DEF TInv, TypeOK, RuntimeTypeOK
<1>2. CASE subscribed'
  <2>1. toBrowser' = w \o t
    BY <1>2 DEF AnswerResync
  <2>2. /\ u \in Seq(ToBrowser) /\ \A j \in 1 .. Len(u) : u[j].kind \in {"update", "patch"}
        /\ t \in Seq(ToBrowser) /\ Len(t) = 1 /\ t[1].kind = "snapshot"
    <3>1. SnapshotOf(Current) \in ToBrowser /\ SnapshotOf(Current).kind = "snapshot"
      BY <1>1, ReadTypes
    <3>2. u \in Seq(ToBrowser) /\ \A j \in 1 .. Len(u) : u[j].kind \in {"update", "patch"}
      BY <1>1, ReadTypes
    <3>3. QED
      BY <3>1, <3>2
  <2> HIDE DEF u, t
  <2>3. /\ w \in Seq(ToBrowser) /\ Extends(w, toBrowser) /\ Len(w) = Len(toBrowser) + Len(u)
        /\ \A i \in Len(toBrowser) + 1 .. Len(toBrowser) + Len(u) : w[i] = u[i - Len(toBrowser)]
    BY <1>1, <2>2, Concatenated
  <2>4. Len(toBrowser) \in Nat /\ Len(u) \in Nat
    BY <1>1, <2>2
  <2>5. \A i \in Len(toBrowser) + 1 .. Len(w) : w[i].kind # "ack"
    <3>1. ASSUME NEW i \in Len(toBrowser) + 1 .. Len(w) PROVE w[i].kind # "ack"
      <4>1. i - Len(toBrowser) \in 1 .. Len(u) /\ w[i] = u[i - Len(toBrowser)]
        BY <2>3, <2>4
      <4>2. QED
        BY <2>2, <4>1
    <3>2. QED
      BY <3>1
  <2> HIDE DEF w
  <2>6. Count(w, "ack", Len(w)) = Count(toBrowser, "ack", Len(toBrowser))
    <3> DEFINE n == Len(w)
    <3>1. n \in Len(toBrowser) .. Len(w) /\ \A i \in Len(toBrowser) + 1 .. n : w[i].kind # "ack"
      BY <2>3, <2>4, <2>5
    <3> HIDE DEF n
    <3>2. Count(w, "ack", n) = Count(toBrowser, "ack", Len(toBrowser))
      BY ONLY <1>1, <2>3, <3>1, CountPrefix
    <3>3. QED
      BY <3>2 DEF n
  <2>7. /\ w \o t \in Seq(ToBrowser) /\ Extends(w \o t, w) /\ Len(w \o t) = Len(w) + Len(t)
        /\ \A i \in 1 .. Len(t) : (w \o t)[Len(w) + i] = t[i]
    BY <2>2, <2>3, Concatenated
  <2>8. Count(w \o t, "ack", Len(w \o t)) = Count(w, "ack", Len(w))
    <3> DEFINE x == w \o t
               n == Len(x)
    <3>1. x \in Seq(ToBrowser) /\ Extends(x, w) /\ n = Len(w) + 1 /\ x[n].kind = "snapshot"
      BY <2>2, <2>3, <2>7
    <3>2. n \in Len(w) .. Len(x) /\ \A i \in Len(w) + 1 .. n : x[i].kind # "ack"
      BY <2>3, <3>1
    <3> HIDE DEF n, x
    <3>3. Count(x, "ack", n) = Count(w, "ack", Len(w))
      BY ONLY <2>3, <3>1, <3>2, CountPrefix
    <3>4. QED
      BY <3>3 DEF n, x
  <2>9. QED
    BY <2>1, <2>6, <2>7, <2>8 DEF Acked
<1>3. CASE ~subscribed'
  BY <1>1, <1>3 DEF AnswerResync, Acked
<1>4. QED
  BY <1>2, <1>3

\* A message from the browser is handled.
LEMMA HandleTypes ==
    ASSUME TInv, Handle, UNCHANGED cacheVars
    PROVE  TInv'
<1>1. TypeOK /\ Matched
  BY DEF TInv
<1>2. CacheTypeOK' /\ acks' = acks
  BY <1>1 DEF TypeOK, CacheTypeOK, cacheVars, store, ordering, transport, lists
<1> DEFINE m == Head(toServer)
<1>3. /\ toServer # <<>> /\ toServer' = Tail(toServer)
      /\ UNCHANGED <<generation, session, socket, faults>>
  BY DEF Handle
<1>4. /\ m \in ToServer /\ m.kind \in {"subscribe", "resync"}
      /\ toServer' \in Seq(ToServer)
      /\ Count(toServer', "subscribe", Len(toServer')) \in Nat
      /\ Count(toServer, "subscribe", Len(toServer)) =
            Count(toServer', "subscribe", Len(toServer'))
               + IF m.kind = "subscribe" THEN 1 ELSE 0
  BY <1>1, <1>3, HandleCounts
<1>5. socket = "up" /\ Acked(Len(toBrowser)) \in Nat
  <2>1. Len(toBrowser) \in Nat
    BY <1>1 DEF TypeOK, RuntimeTypeOK
  <2>2. Acked(Len(toBrowser)) \in 0 .. Len(toBrowser)
    BY <2>1, CountStep DEF Acked
  <2>3. QED
    BY <1>1, <1>3, <2>1, <2>2 DEF Matched
<1>6. /\ toBrowser' \in Seq(ToBrowser) /\ subscribed' \in BOOLEAN
      /\ Count(toBrowser', "ack", Len(toBrowser')) =
            Acked(Len(toBrowser)) + IF m.kind = "subscribe" THEN 1 ELSE 0
      /\ \/ Keep(Current)
         \/ UNCHANGED entry
  <2>1. CASE m.kind = "subscribe"
    <3>1. ReplaceSubscriptions(m)
      BY <2>1 DEF Handle
    <3>2. m.wants \in BOOLEAN
      BY <1>4, <2>1 DEF ToServer
    <3>3. subscribed' \in BOOLEAN /\ (Keep(Current) \/ UNCHANGED entry)
      BY <3>1, <3>2 DEF ReplaceSubscriptions
    <3> HIDE DEF m
    <3>4. /\ toBrowser' \in Seq(ToBrowser)
          /\ Count(toBrowser', "ack", Len(toBrowser')) = Acked(Len(toBrowser)) + 1
      BY <1>4, <2>1, <3>1, Replies
    <3>5. QED
      BY <2>1, <3>3, <3>4
  <2>2. CASE m.kind = "resync"
    <3>1. AnswerResync
      BY <2>2 DEF Handle
    <3>2. subscribed' \in BOOLEAN /\ (Keep(Current) \/ UNCHANGED entry)
      BY <1>1, <3>1 DEF AnswerResync, TypeOK, RuntimeTypeOK
    <3>3. /\ toBrowser' \in Seq(ToBrowser)
          /\ Count(toBrowser', "ack", Len(toBrowser')) = Acked(Len(toBrowser))
      BY <3>1, ResyncReplies
    <3>4. QED
      BY <1>5, <2>2, <3>2, <3>3
  <2>3. QED
    BY <1>4, <2>1, <2>2
<1> HIDE DEF m
<1>7. Matched'
  <2>1. Len(acks) = Count(toBrowser', "ack", Len(toBrowser'))
                      + Count(toServer', "subscribe", Len(toServer'))
    <3>1. Len(acks) = Acked(Len(toBrowser)) + Count(toServer, "subscribe", Len(toServer))
      BY <1>1, <1>5 DEF Matched
    <3>2. CASE m.kind = "subscribe"
      BY <1>4, <1>5, <1>6, <3>1, <3>2
    <3>3. CASE m.kind # "subscribe"
      BY <1>4, <1>5, <1>6, <3>1, <3>3
    <3>4. QED
      BY <3>2, <3>3
  <2>2. QED
    BY <1>1, <1>2, <1>3, <1>5, <2>1 DEF Matched, Acked
<1>8. /\ cache' \in Entries /\ dirty' \in BOOLEAN /\ pending' \in BOOLEAN
      /\ published' \in Seq([gen : Nat, rev : Nat, value : Value])
  <2>1. CASE Keep(Current)
    BY <1>1, <2>1, ReadTypes, KeepTypes
  <2>2. CASE UNCHANGED entry
    BY <1>1, <2>2 DEF TypeOK, RuntimeTypeOK, entry, Entries
  <2>3. QED
    BY <1>6, <2>1, <2>2
<1>9. RuntimeTypeOK'
  BY <1>1, <1>3, <1>4, <1>6, <1>8 DEF TypeOK, RuntimeTypeOK, session, Entries
<1>10. QED
  BY <1>2, <1>7, <1>9 DEF TInv, TypeOK

\* Sockets break, and servers restart.
LEMMA SeverTypes ==
    ASSUME TInv, (Break /\ UNCHANGED cacheVars) \/ Restart
    PROVE  TInv'
<1>1. TypeOK /\ Matched
  BY DEF TInv
<1>2. /\ Severed /\ acks' = acks /\ faults < MaxFaults /\ faults' = faults + 1
      /\ generation' \in {generation, generation + 1}
  BY DEF Break, Restart, RestartServer, cacheVars, transport
<1>3. /\ faults \in Nat /\ MaxFaults \in Nat /\ generation \in 1 .. MaxFaults + 1
      /\ socket \in {"up", "cut", "none"} /\ generation <= faults + 1
  BY <1>1, RuntimeAssumption DEF TypeOK, RuntimeTypeOK, Matched
<1>4. /\ toServer' = <<>> /\ toBrowser' = <<>> /\ subscribed' = FALSE
      /\ socket' \in {"cut", "none"} /\ (socket' = "none" => socket = "none")
  BY <1>2, <1>3 DEF Severed
<1>5. generation' \in 1 .. MaxFaults + 1 /\ generation' <= faults' + 1
      /\ faults' \in 0 .. MaxFaults
  <2>1. CASE Break /\ UNCHANGED cacheVars
    BY <1>3, <2>1 DEF Break
  <2>2. CASE Restart
    BY <1>3, <2>2 DEF Restart, RestartServer
  <2>3. QED
    BY <2>1, <2>2
<1>6. Matched'
  BY <1>1, <1>2, <1>4, <1>5 DEF Matched
<1>7. toServer' \in Seq(ToServer) /\ toBrowser' \in Seq(ToBrowser)
  BY <1>4, EmptySeq
<1>8. RuntimeTypeOK'
  <2>1. /\ life' \in Lives /\ source' \in Value /\ changes' \in 0 .. MaxChanges
        /\ cache' \in [rev : Nat, value : Value] /\ dirty' \in BOOLEAN /\ pending' \in BOOLEAN
        /\ published' \in Seq([gen : Nat, rev : Nat, value : Value])
    <3>1. CASE Break
      BY <1>1, <3>1 DEF Break, TypeOK, RuntimeTypeOK, session, entry
    <3>2. CASE Restart
      <4>1. NoEntry \in [rev : Nat, value : Value]
        BY DEF NoEntry, Blank, Value
      <4>2. QED
        BY <1>1, <3>2, <4>1 DEF Restart, RestartServer, TypeOK, RuntimeTypeOK, Lives
    <3>3. QED
      BY <3>1, <3>2
  <2>2. socket' \in {"up", "cut", "none"} /\ subscribed' \in BOOLEAN
    BY <1>4
  <2>3. QED
    BY <1>5, <1>7, <2>1, <2>2 DEF RuntimeTypeOK
<1>9. CacheTypeOK'
  <2>1. requests' \in SUBSET Request
    BY <1>1 DEF Break, Restart, cacheVars, lists, TypeOK, CacheTypeOK
  <2>2. UNCHANGED <<store, transport, sequence>>
    BY DEF Break, Restart, cacheVars, lists
  <2>3. QED
    BY <1>1, <2>1, <2>2 DEF TypeOK, CacheTypeOK, store, ordering, transport
<1>10. QED
  BY <1>6, <1>8, <1>9 DEF TInv, TypeOK

\* A subscription and the acknowledgement it waits for.
LEMMA SubscribeTypes ==
    ASSUME TypeOK, Subscribe
    PROVE  /\ Subscription \in ToServer /\ Subscription.kind = "subscribe"
           /\ toServer' \in Seq(ToServer) /\ acks' \in Seq(Ack) /\ sent' \in {"without", "with"}
           /\ Len(acks') = Len(acks) + 1
           /\ Count(toServer, "subscribe", Len(toServer)) \in Nat
           /\ Count(toServer', "subscribe", Len(toServer')) =
                 Count(toServer, "subscribe", Len(toServer)) + 1
<1>1. held \in Held /\ acks \in Seq(Ack)
  BY DEF TypeOK, CacheTypeOK
<1>2. /\ Subscription \in ToServer /\ Subscription.kind = "subscribe"
      /\ Subscription.known \in Version /\ Wanted \in BOOLEAN
  <2>1. (IF Wanted THEN VersionOf(held) ELSE NoVersion) \in Version /\ Wanted \in BOOLEAN
    BY <1>1 DEF VersionOf, Held, NoVersion, Version, Wanted
  <2>2. QED
    BY <2>1 DEF Subscription, ToServer
<1>3. toServer' = Append(toServer, Subscription) /\ sent' \in {"without", "with"}
  BY DEF Subscribe, Inventory
<1>4. acks' \in Seq(Ack) /\ Len(acks') = Len(acks) + 1
  <2> DEFINE a == [wants |-> Wanted, known |-> Subscription.known, noted |-> FALSE]
  <2>1. a \in Ack
    BY <1>2 DEF Ack
  <2>2. acks' = Append(acks, a)
    BY DEF Subscribe
  <2> HIDE DEF a
  <2>3. QED
    BY <1>1, <2>1, <2>2
<1>5. QED
  BY <1>2, <1>3, <1>4, SendTypes

\* A browser opens its socket, subscribes anew, or asks for everything.
LEMMA RequestTypes ==
    ASSUME TInv, Connect \/ Refresh \/ Reload
    PROVE  TInv'
<1>1. TypeOK /\ Matched
  BY DEF TInv
<1>2. /\ Subscribe /\ UNCHANGED <<generation, session, entry, subscribed, toBrowser>>
      /\ UNCHANGED <<store, partial, lists>>
      /\ socket \in {"up", "none"} /\ socket' = "up"
  BY DEF Connect, Refresh, Reload
<1>3. /\ toServer' \in Seq(ToServer) /\ acks' \in Seq(Ack) /\ sent' \in {"without", "with"}
      /\ Len(acks') = Len(acks) + 1
      /\ Count(toServer, "subscribe", Len(toServer)) \in Nat
      /\ Count(toServer', "subscribe", Len(toServer')) =
            Count(toServer, "subscribe", Len(toServer)) + 1
  BY <1>1, <1>2, SubscribeTypes
<1>4. faults' \in 0 .. MaxFaults /\ faults <= faults' /\ resyncing' \in BOOLEAN
  <2>1. faults \in 0 .. MaxFaults /\ resyncing \in BOOLEAN /\ MaxFaults \in Nat
    BY <1>1, RuntimeAssumption DEF TypeOK, RuntimeTypeOK, CacheTypeOK
  <2>2. faults' \in {faults, faults + 1} /\ (faults' = faults \/ faults < MaxFaults)
    BY DEF Connect, Refresh, Reload
  <2>3. faults' \in 0 .. MaxFaults /\ faults <= faults'
    BY <2>1, <2>2
  <2>4. resyncing' = resyncing \/ resyncing' = (resyncing /\ Wanted)
    BY DEF Connect, Refresh, Reload
  <2>5. resyncing' \in BOOLEAN
    BY <2>1, <2>4 DEF Wanted
  <2>6. QED
    BY <2>3, <2>5
<1>5. Len(acks) = Acked(Len(toBrowser)) + Count(toServer, "subscribe", Len(toServer))
  <2>1. CASE socket = "up"
    BY <1>1, <2>1 DEF Matched
  <2>2. CASE socket = "none"
    <3>1. toServer = <<>> /\ toBrowser = <<>> /\ acks = <<>>
      BY <1>1, <2>2 DEF Matched
    <3>2. Count(toServer, "subscribe", 0) = 0 /\ Acked(0) = 0
      BY CountStep DEF Acked
    <3>3. QED
      BY <3>1, <3>2
  <2>3. QED
    BY <1>2, <2>1, <2>2
<1>6. Matched'
  <2>1. Len(toBrowser) \in Nat
    BY <1>1 DEF TypeOK, RuntimeTypeOK
  <2>2. Acked(Len(toBrowser)) \in 0 .. Len(toBrowser)
    BY <2>1, CountStep DEF Acked
  <2>3. Acked(Len(toBrowser))' = Acked(Len(toBrowser))
    BY <1>2 DEF Acked
  <2>4. Len(acks') = Acked(Len(toBrowser))' + Count(toServer', "subscribe", Len(toServer'))
    BY <1>3, <1>5, <2>1, <2>2, <2>3
  <2>5. generation' <= faults' + 1
    <3>1. generation \in Nat /\ faults \in Nat /\ faults' \in Nat
      BY <1>1, <1>4, RuntimeAssumption DEF TypeOK, RuntimeTypeOK
    <3>2. generation <= faults + 1
      BY <1>1 DEF Matched
    <3>3. generation' = generation
      BY <1>2
    <3>4. faults <= faults'
      BY <1>4
    <3>5. generation <= faults' + 1
      <4>1. \A a, b, c \in Nat : a <= b + 1 /\ b <= c => a <= c + 1
        OBVIOUS
      <4>2. QED
        BY <3>1, <3>2, <3>4, <4>1
    <3>6. QED
      BY ONLY <3>3, <3>5
  <2>6. QED
    BY <1>2, <2>4, <2>5 DEF Matched
<1>7. RuntimeTypeOK'
  BY <1>1, <1>2, <1>3, <1>4 DEF TypeOK, RuntimeTypeOK, session, entry
<1>8. CacheTypeOK'
  BY <1>1, <1>2, <1>3, <1>4 DEF TypeOK, CacheTypeOK, store, ordering, lists
<1>9. QED
  BY <1>6, <1>7, <1>8 DEF TInv, TypeOK

\* A browser notices that its socket is broken.
LEMMA NoticeTypes ==
    ASSUME TInv, Notice
    PROVE  TInv'
<1>1. TypeOK /\ Matched
  BY DEF TInv
<1>2. Matched'
  BY <1>1 DEF Notice, Matched
<1>3. RuntimeTypeOK'
  BY <1>1 DEF Notice, TypeOK, RuntimeTypeOK, session, entry
<1>4. CacheTypeOK'
  <2>1. acks' \in Seq(Ack)
    BY EmptySeq DEF Notice
  <2>2. QED
    BY <1>1, <2>1 DEF Notice, TypeOK, CacheTypeOK, store, ordering, lists
<1>5. QED
  BY <1>2, <1>3, <1>4 DEF TInv, TypeOK

\* Taking a message changes the runtime only by its leaving the queue and a resync
\* that is asked for.
LEMMA TakingTypes ==
    ASSUME TInv, toBrowser # <<>>, toBrowser' = Tail(toBrowser),
           UNCHANGED <<generation, session, entry, subscribed, socket, faults>>,
           toServer' \in Seq(ToServer),
           Count(toServer', "subscribe", Len(toServer')) =
              Count(toServer, "subscribe", Len(toServer)),
           Len(acks') = Len(acks) - IF toBrowser[1].kind = "ack" THEN 1 ELSE 0,
           CacheTypeOK'
    PROVE  TInv'
<1>1. TypeOK /\ Matched
  BY DEF TInv
<1>2. /\ socket = "up" /\ toBrowser' \in Seq(ToBrowser) /\ Len(toBrowser') = Len(toBrowser) - 1
      /\ \A n \in 0 .. Len(toBrowser') :
            /\ Count(toBrowser', "ack", n) \in Nat
            /\ Acked(n + 1) = Count(toBrowser', "ack", n)
                                + IF toBrowser[1].kind = "ack" THEN 1 ELSE 0
  BY TakeTypes
<1>3. Len(toBrowser') \in Nat /\ Len(toBrowser) \in Nat
  BY <1>1, <1>2 DEF TypeOK, RuntimeTypeOK
<1>4. /\ Count(toBrowser', "ack", Len(toBrowser')) \in Nat
      /\ Acked(Len(toBrowser)) = Count(toBrowser', "ack", Len(toBrowser'))
                                   + IF toBrowser[1].kind = "ack" THEN 1 ELSE 0
  <2> DEFINE n == Len(toBrowser')
  <2>1. n \in 0 .. Len(toBrowser') /\ n + 1 = Len(toBrowser)
    BY <1>2, <1>3
  <2> HIDE DEF n
  <2>2. /\ Count(toBrowser', "ack", n) \in Nat
        /\ Acked(n + 1) = Count(toBrowser', "ack", n)
                            + IF toBrowser[1].kind = "ack" THEN 1 ELSE 0
    BY <1>2, <2>1
  <2>3. QED
    BY <2>1, <2>2 DEF n
<1>5. Len(acks') = Count(toBrowser', "ack", Len(toBrowser'))
                     + Count(toServer', "subscribe", Len(toServer'))
  <2>1. Len(acks) = Acked(Len(toBrowser)) + Count(toServer, "subscribe", Len(toServer))
    BY <1>1, <1>2 DEF Matched
  <2>2. Count(toServer, "subscribe", Len(toServer)) \in Nat
    <3>1. Len(toServer) \in Nat
      BY <1>1 DEF TypeOK, RuntimeTypeOK
    <3>2. QED
      BY <3>1, CountStep
  <2>3. QED
    BY <1>4, <2>1, <2>2
<1>6. Matched'
  BY <1>1, <1>2, <1>5 DEF Matched, Acked
<1>7. RuntimeTypeOK'
  BY <1>1, <1>2 DEF TypeOK, RuntimeTypeOK, session, entry
<1>8. QED
  BY <1>6, <1>7 DEF TInv, TypeOK

\* What a browser holds, and what it knows of it, is well-formed.
LEMMA HoldTypes ==
    ASSUME NEW h \in Held, Hold(h), last \in Version
    PROVE  held' \in Held /\ last' \in Version
BY DEF Hold, Held, Version, VersionOf

\* Noting a snapshot keeps the acknowledgements that are waited for.
LEMMA NotedTypes ==
    ASSUME NEW queue \in Seq(Ack)
    PROVE  Noted(queue) \in Seq(Ack) /\ Len(Noted(queue)) = Len(queue)
<1>1. CASE queue # <<>> /\ Head(queue).wants
  <2>1. Len(queue) \in Nat \ {0} /\ queue[1] \in Ack
    BY <1>1, EmptySeq, ElementOfSeq
  <2>2. Noted(queue) = [queue EXCEPT ![1].noted = TRUE]
    BY <1>1 DEF Noted
  <2>3. [queue[1] EXCEPT !.noted = TRUE] \in Ack
    BY <2>1 DEF Ack
  <2>4. QED
    BY <2>1, <2>2, <2>3
<1>2. CASE ~(queue # <<>> /\ Head(queue).wants)
  BY <1>2 DEF Noted
<1>3. QED
  BY <1>1, <1>2

\* A message is received.
LEMMA ReceiveTypes ==
    ASSUME TInv, Receive
    PROVE  TInv'
<1> DEFINE m == Head(toBrowser)
<1>1. TypeOK /\ Matched
  BY DEF TInv
<1>2. /\ toBrowser # <<>> /\ toBrowser' = Tail(toBrowser)
      /\ UNCHANGED <<generation, session, entry, subscribed, socket, faults>>
      /\ UNCHANGED <<sent, lists>>
  BY DEF Receive, ReceiveSnapshot, ReceiveUpdate, ReceiveAck, ReceiveArchived, Reads, transport
<1>3. /\ m = toBrowser[1] /\ m \in ToBrowser
      /\ m.kind \in {"snapshot", "update"} =>
            m.gen \in Nat /\ m.rev \in Nat /\ m.change \in Value
      /\ m.kind = "patch" => /\ m.gen \in Nat /\ m.rev \in Nat
                             /\ \A f \in DOMAIN m.change : m.change[f] \in BOOLEAN
      /\ m.kind = "ack" => m.accepted \in BOOLEAN /\ m.current \in BOOLEAN
  <2>1. m = toBrowser[1] /\ 1 \in DOMAIN toBrowser
    BY <1>2, TakeTypes
  <2>2. QED
    BY <1>1, <2>1, MessageTypes
<1> DEFINE Sound ==
             /\ row' \in {"none", "active", "archived"} /\ fence' \in 0 .. MaxRequests
             /\ held' \in Held /\ last' \in Version
             /\ latest' \in 0 .. MaxRequests /\ barrier' \in 0 .. MaxRequests
             /\ rejected' \in BOOLEAN /\ acks' \in Seq(Ack) /\ partial' \in BOOLEAN
             /\ Len(acks') = Len(acks) - IF m.kind = "ack" THEN 1 ELSE 0
           Sent == /\ toServer' \in Seq(ToServer) /\ resyncing' \in BOOLEAN
                   /\ Count(toServer', "subscribe", Len(toServer')) =
                         Count(toServer, "subscribe", Len(toServer))
<1>4. Sent
  <2>1. \/ UNCHANGED toServer /\ resyncing' \in BOOLEAN
        \/ \E asked \in BOOLEAN : Resync(asked)
    <3>1. CASE ReceiveSnapshot
      BY <3>1 DEF ReceiveSnapshot
    <3>2. CASE ReceiveUpdate
      <4>1. PICK asked : Resync(asked) /\ asked \in BOOLEAN
        <5> DEFINE a == LET n == Head(toBrowser)
                            next == IF n.kind = "update" THEN n.change
                                    ELSE Patched(held.value, n.change)
                            contiguous == n.rev = held.rev + 1
                            newer == SameGeneration(n) /\ n.rev > held.rev
                            applies == newer /\ (n.kind = "update" \/ contiguous)
                            covered == SameGeneration(n)
                                /\ (n.rev < held.rev \/ (n.rev = held.rev /\ next = held.value))
                        IN  ~covered /\ ~(applies /\ contiguous)
        <5>1. Resync(a) /\ a \in BOOLEAN
          BY <3>2 DEF ReceiveUpdate
        <5>2. QED
          BY <5>1
      <4>2. QED
        BY <4>1
    <3>3. CASE ReceiveAck
      <4>1. PICK asked : Resync(asked) /\ asked \in BOOLEAN
        <5> DEFINE a == LET n == Head(toBrowser)
                            ask == Head(acks)
                            covers == n.current /\ ask.known # NoVersion
                                /\ held # NoHeld /\ held.gen = ask.known.gen
                                /\ held.rev >= ask.known.rev
                            accepted == n.accepted /\ (ask.noted \/ covers)
                            settles == Len(acks) = 1 /\ ask.wants = Wanted
                        IN  settles /\ n.accepted /\ ~accepted
        <5>1. Resync(a) /\ a \in BOOLEAN
          BY <3>3 DEF ReceiveAck
        <5>2. QED
          BY <5>1
      <4>2. QED
        BY <4>1
    <3>4. CASE ReceiveArchived
      BY <1>1, <3>4 DEF ReceiveArchived, transport, TypeOK, CacheTypeOK
    <3>5. QED
      BY <3>1, <3>2, <3>3, <3>4 DEF Receive
  <2>2. CASE UNCHANGED toServer /\ resyncing' \in BOOLEAN
    BY <1>1, <2>2 DEF TypeOK, RuntimeTypeOK
  <2>3. CASE \E asked \in BOOLEAN : Resync(asked)
    BY <1>1, <2>3, ResyncTypes
  <2>4. QED
    BY <2>1, <2>2, <2>3
<1>5. /\ row \in {"none", "active", "archived"} /\ fence \in 0 .. MaxRequests
      /\ held \in Held /\ last \in Version
      /\ latest \in 0 .. MaxRequests /\ barrier \in 0 .. MaxRequests
      /\ rejected \in BOOLEAN /\ acks \in Seq(Ack) /\ partial \in BOOLEAN
      /\ sequence \in 0 .. MaxRequests /\ 0 \in 0 .. MaxRequests
      /\ NoHeld \in Held /\ NoVersion \in Version
  <2>1. 0 \in 0 .. MaxRequests
    BY CacheAssumption
  <2>2. NoHeld \in Held /\ NoVersion \in Version
    BY DEF NoHeld, Held, Blank, Value, NoVersion, Version
  <2>3. QED
    BY <1>1, <2>1, <2>2 DEF TypeOK, CacheTypeOK
<1>6. Sound
  <2>1. CASE ReceiveSnapshot
    <3>1. m.kind = "snapshot"
      BY <2>1 DEF ReceiveSnapshot, Reads
    <3>2. Entry(m) \in Held
      BY <1>3, <3>1 DEF Entry, Held
    <3>3. PICK h \in {held, Entry(m)} : Hold(h)
      BY <2>1 DEF ReceiveSnapshot
    <3>4. held' \in Held /\ last' \in Version
      BY <1>5, <3>2, <3>3, HoldTypes
    <3>5. acks' \in Seq(Ack) /\ Len(acks') = Len(acks)
      <4>1. acks' = acks \/ acks' = Noted(acks)
        BY <2>1 DEF ReceiveSnapshot
      <4>2. QED
        BY <1>5, <4>1, NotedTypes
    <3>6. UNCHANGED <<row, fence, latest, partial>> /\ barrier' = sequence /\ rejected' = FALSE
      BY <2>1 DEF ReceiveSnapshot, OrderLive
    <3>7. Len(acks') = Len(acks) - IF m.kind = "ack" THEN 1 ELSE 0
      BY <1>5, <3>1, <3>5
    <3>8. QED
      BY <1>5, <3>4, <3>5, <3>6, <3>7
  <2>2. CASE ReceiveUpdate
    <3>1. m.kind \in {"update", "patch"}
      BY <2>2 DEF ReceiveUpdate, Reads
    <3> DEFINE next == IF m.kind = "update" THEN m.change ELSE Patched(held.value, m.change)
               h == [gen |-> m.gen, rev |-> m.rev, value |-> next]
    <3>2. next \in Value
      <4>1. held.value \in Value
        BY <1>5 DEF Held
      <4>2. QED
        BY <1>3, <3>1, <4>1, PatchedType
    <3>3. h \in Held
      <4> HIDE DEF next
      <4>1. QED
        BY <1>3, <3>1, <3>2 DEF Held
    <3>4. PICK g \in {held, h} : Hold(g)
      BY <2>2 DEF ReceiveUpdate
    <3> HIDE DEF h
    <3>5. held' \in Held /\ last' \in Version
      BY <1>5, <3>3, <3>4, HoldTypes
    <3>6. /\ UNCHANGED <<row, fence, latest, acks, partial>> /\ barrier' \in {barrier, sequence}
          /\ rejected' = rejected \/ rejected' = FALSE
      BY <2>2 DEF ReceiveUpdate, OrderLive, ordering
    <3>7. Len(acks') = Len(acks) - IF m.kind = "ack" THEN 1 ELSE 0
      BY <1>5, <3>1, <3>6
    <3>8. QED
      BY <1>5, <3>5, <3>6, <3>7
  <2>3. CASE ReceiveAck
    <3> DEFINE ask == Head(acks)
               covers == m.current /\ ask.known # NoVersion
                   /\ held # NoHeld /\ held.gen = ask.known.gen /\ held.rev >= ask.known.rev
               accepted == m.accepted /\ (ask.noted \/ covers)
               settles == Len(acks) = 1 /\ ask.wants = Wanted
    <3>1. m.kind = "ack"
      BY <2>3 DEF ReceiveAck, Reads
    <3>2. acks' = Tail(acks) /\ UNCHANGED <<row, fence>>
      BY <2>3 DEF ReceiveAck
    <3>3. acks # <<>>
      <4>1. /\ socket = "up"
            /\ Acked(1) = Count(toBrowser', "ack", 0) + 1 /\ Count(toBrowser', "ack", 0) \in Nat
        <5>1. Len(toBrowser') \in Nat
          BY <1>1, <1>2, TakeTypes DEF TypeOK, RuntimeTypeOK
        <5>2. 0 \in 0 .. Len(toBrowser')
          BY <5>1
        <5>3. /\ Count(toBrowser', "ack", 0) \in Nat
              /\ Acked(0 + 1) = Count(toBrowser', "ack", 0)
                                  + IF toBrowser[1].kind = "ack" THEN 1 ELSE 0
          BY <1>2, <5>2, TakeTypes
        <5>4. socket = "up"
          BY <1>2, TakeTypes
        <5>5. QED
          BY <1>3, <3>1, <5>3, <5>4
      <4>2. Len(toBrowser) \in Nat \ {0}
        BY <1>1, <1>2, EmptySeq DEF TypeOK, RuntimeTypeOK
      <4>3. Acked(1) <= Acked(Len(toBrowser)) /\ Acked(Len(toBrowser)) \in Nat
        BY <4>2, CountGrows, CountStep DEF Acked
      <4>4. Count(toServer, "subscribe", Len(toServer)) \in Nat
        <5>1. Len(toServer) \in Nat
          BY <1>1 DEF TypeOK, RuntimeTypeOK
        <5>2. QED
          BY <5>1, CountStep
      <4>5. Len(acks) = Acked(Len(toBrowser)) + Count(toServer, "subscribe", Len(toServer))
        BY <1>1, <4>1 DEF Matched
      <4>6. Len(acks) # 0
        BY <4>1, <4>3, <4>4, <4>5
      <4>7. QED
        BY <4>6, EmptySeq
    <3>4. acks' \in Seq(Ack) /\ Len(acks') = Len(acks) - 1 /\ Head(acks) \in Ack
      BY <1>5, <3>2, <3>3, HeadTailProperties
    <3>5. Len(acks') = Len(acks) - IF m.kind = "ack" THEN 1 ELSE 0
      BY <3>1, <3>4
    <3>6. partial' \in BOOLEAN
      <4>1. partial' = IF settles THEN ask.wants /\ ~accepted ELSE partial
        BY <2>3 DEF ReceiveAck
      <4>2. ask.wants \in BOOLEAN
        BY <3>4 DEF Ack
      <4> HIDE DEF ask, accepted, settles
      <4>3. CASE settles
        BY <4>1, <4>2, <4>3
      <4>4. CASE ~settles
        BY <1>5, <4>1, <4>4
      <4>5. QED
        BY <4>3, <4>4
    <3>7. /\ held' \in Held /\ last' \in Version
          /\ latest' \in 0 .. MaxRequests /\ barrier' \in 0 .. MaxRequests
          /\ rejected' \in BOOLEAN
      <4>1. Refuse \/ Forget \/ UNCHANGED <<held, last, ordering>>
        BY <2>3 DEF ReceiveAck
      <4>2. CASE Refuse
        BY <1>5, <4>2 DEF Refuse, Hold
      <4>3. CASE Forget
        BY <1>5, <4>3 DEF Forget
      <4>4. CASE UNCHANGED <<held, last, ordering>>
        BY <1>5, <4>4 DEF ordering
      <4>5. QED
        BY <4>1, <4>2, <4>3, <4>4
    <3> HIDE DEF ask, covers, accepted, settles
    <3>8. row' \in {"none", "active", "archived"} /\ fence' \in 0 .. MaxRequests
      BY <1>5, <3>2
    <3>9. QED
      BY <3>4, <3>5, <3>6, <3>7, <3>8
  <2>4. CASE ReceiveArchived
    <3>1. m.kind = "archived" /\ acks' = acks /\ partial' = partial
      BY <2>4 DEF ReceiveArchived, Reads, transport
    <3>2. Len(acks') = Len(acks) - IF m.kind = "ack" THEN 1 ELSE 0
      BY <1>5, <3>1
    <3>3. /\ held' = NoHeld /\ last' = NoVersion /\ latest' = 0 /\ barrier' = 0
          /\ rejected' = FALSE /\ fence' = sequence /\ row' \in {row, "archived"}
      BY <2>4 DEF ReceiveArchived, Forget
    <3>4. QED
      BY <1>5, <3>1, <3>2, <3>3
  <2>5. QED
    BY <2>1, <2>2, <2>3, <2>4 DEF Receive
<1>7. CacheTypeOK'
  <2> HIDE DEF m
  <2>1. sent' \in {"none", "without", "with"} /\ sequence' \in 0 .. MaxRequests
        /\ requests' \in SUBSET Request
    BY <1>1, <1>2 DEF TypeOK, CacheTypeOK, lists
  <2>2. QED
    BY <1>4, <1>6, <2>1 DEF CacheTypeOK
<1>8. Len(acks') = Len(acks) - IF toBrowser[1].kind = "ack" THEN 1 ELSE 0
  BY <1>3, <1>6
<1>9. QED
  BY <1>2, <1>4, <1>7, <1>8, TakingTypes

\* Lists are asked for, answered, taken and lost.
LEMMA ListTypes ==
    ASSUME TInv, Ask \/ \E r \in requests : Serve(r) \/ Hydrate(r) \/ Lose(r)
    PROVE  TInv'
<1>1. TypeOK /\ Matched
  BY DEF TInv
<1>2. /\ sequence \in 0 .. MaxRequests /\ requests \in SUBSET Request /\ MaxRequests \in Nat
      /\ NoHeld \in Held /\ held \in Held /\ last \in Version /\ latest \in 0 .. MaxRequests
  BY <1>1, CacheAssumption DEF TypeOK, CacheTypeOK, NoHeld, Held, Blank, Value
<1>3. CASE Ask
  <2>1. UNCHANGED <<runtimeVars, store, transport>>
    BY <1>3 DEF Ask
  <2>2. sequence' \in 0 .. MaxRequests /\ sequence' \in 1 .. MaxRequests
    BY <1>2, <1>3 DEF Ask
  <2>3. requests' \in SUBSET Request
    <3>1. PICK full \in {TRUE, ~Live} :
             requests' = requests \cup {[seq |-> sequence', full |-> full, answered |-> FALSE,
                                         listed |-> FALSE, snapshot |-> NoHeld]}
      BY <1>3 DEF Ask
    <3>2. full \in BOOLEAN
      BY DEF Live
    <3>3. [seq |-> sequence', full |-> full, answered |-> FALSE,
           listed |-> FALSE, snapshot |-> NoHeld] \in Request
      BY <1>2, <2>2, <3>2 DEF Request
    <3>4. QED
      BY <1>2, <3>1, <3>3
  <2>4. Matched'
    BY <1>1, <2>1 DEF Matched, Acked, runtimeVars, wire, transport
  <2>5. RuntimeTypeOK'
    BY <1>1, <2>1 DEF TypeOK, RuntimeTypeOK, runtimeVars, session, entry, wire
  <2>6. CacheTypeOK'
    BY <1>1, <2>1, <2>2, <2>3 DEF TypeOK, CacheTypeOK, store, ordering, transport
  <2>7. QED
    BY <2>4, <2>5, <2>6 DEF TInv, TypeOK
<1>4. ASSUME NEW r \in requests, Serve(r) PROVE TInv'
  <2>1. /\ UNCHANGED <<generation, session, subscribed, socket, toServer, faults>>
        /\ UNCHANGED <<store, transport, sequence>>
    BY <1>4 DEF Serve
  <2>2. r \in Request
    BY <1>2
  <2>3. requests' \in SUBSET Request
    <3>1. \/ requests' = (requests \ {r}) \cup {[r EXCEPT !.answered = TRUE]}
          \/ requests' = (requests \ {r}) \cup
                 {[r EXCEPT !.answered = TRUE, !.listed = TRUE,
                            !.snapshot = IF r.full THEN [gen |-> generation, rev |-> Current.rev,
                                                         value |-> Current.value]
                                         ELSE NoHeld]}
      BY <1>4 DEF Serve
    <3>2. [gen |-> generation, rev |-> Current.rev, value |-> Current.value] \in Held
      <4>1. Current \in Entries /\ generation \in Nat
        BY <1>1, ReadTypes DEF TypeOK, RuntimeTypeOK
      <4>2. QED
        BY <4>1 DEF Held, Entries
    <3> DEFINE now == [gen |-> generation, rev |-> Current.rev, value |-> Current.value]
               s == IF r.full THEN now ELSE NoHeld
    <3>3. s \in Held
      BY <1>2, <3>2
    <3> HIDE DEF s
    <3>4. /\ [r EXCEPT !.answered = TRUE] \in Request
          /\ [r EXCEPT !.answered = TRUE, !.listed = TRUE, !.snapshot = s] \in Request
      BY <2>2, <3>3 DEF Request
    <3>5. \/ requests' = (requests \ {r}) \cup {[r EXCEPT !.answered = TRUE]}
          \/ requests' = (requests \ {r}) \cup
                 {[r EXCEPT !.answered = TRUE, !.listed = TRUE, !.snapshot = s]}
      BY <3>1 DEF s
    <3>6. QED
      BY <1>2, <3>4, <3>5
  <2>4. /\ cache' \in Entries /\ dirty' \in BOOLEAN /\ pending' \in BOOLEAN
        /\ published' \in Seq([gen : Nat, rev : Nat, value : Value])
        /\ toBrowser' \in Seq(ToBrowser)
        /\ Count(toBrowser', "ack", Len(toBrowser')) = Acked(Len(toBrowser))
        /\ ~subscribed => toBrowser' = toBrowser
    <3>1. CASE Visible
      <4>1. Keep(Current) /\ Push(Current) /\ Current \in Entries
        BY <1>1, <1>4, <3>1, ReadTypes DEF Serve
      <4>2. QED
        BY <1>1, <4>1, KeepTypes, PushTypes
    <3>2. CASE ~Visible
      <4>1. UNCHANGED <<entry, toBrowser>>
        BY <1>4, <3>2 DEF Serve
      <4>2. QED
        BY <1>1, <4>1 DEF TypeOK, RuntimeTypeOK, entry, Entries, Acked
    <3>3. QED
      BY <3>1, <3>2
  <2>5. Matched'
    BY <1>1, <2>1, <2>4 DEF Matched, Acked, transport
  <2>6. RuntimeTypeOK'
    BY <1>1, <2>1, <2>4 DEF TypeOK, RuntimeTypeOK, session, Entries
  <2>7. CacheTypeOK'
    BY <1>1, <2>1, <2>3 DEF TypeOK, CacheTypeOK, store, ordering, transport
  <2>8. QED
    BY <2>5, <2>6, <2>7 DEF TInv, TypeOK
<1>5. ASSUME NEW r \in requests, Hydrate(r) \/ Lose(r) PROVE TInv'
  <2>1. /\ UNCHANGED <<runtimeVars, fence, transport, sequence>>
        /\ requests' = requests \ {r}
    BY <1>5 DEF Hydrate, Lose, store
  <2>2. requests' \in SUBSET Request
    BY <1>2, <2>1
  <2>3. /\ row' \in {"none", "active", "archived"} /\ held' \in Held /\ last' \in Version
        /\ latest' \in 0 .. MaxRequests /\ UNCHANGED <<barrier, rejected>>
    <3>1. row \in {"none", "active", "archived"}
      BY <1>1 DEF TypeOK, CacheTypeOK
    <3>2. CASE Lose(r)
      BY <1>2, <3>1, <3>2 DEF Lose, store, ordering
    <3>3. CASE Hydrate(r)
      <4>1. r.seq \in 0 .. MaxRequests /\ r.snapshot \in Held
        BY <1>2 DEF Request
      <4>2. row' \in {"none", "active", "archived"}
        BY <3>1, <3>3 DEF Hydrate
      <4>3. HydrateSnapshot(r.seq, r.snapshot) \/ UNCHANGED <<held, last, ordering>>
        BY <3>3 DEF Hydrate
      <4>4. CASE UNCHANGED <<held, last, ordering>>
        BY <1>2, <4>2, <4>4 DEF ordering
      <4>5. CASE HydrateSnapshot(r.seq, r.snapshot)
        <5>1. CASE UNCHANGED <<held, last, ordering>>
          BY <1>2, <4>2, <5>1 DEF ordering
        <5>2. CASE ~(UNCHANGED <<held, last, ordering>>)
          <6>1. latest' = r.seq /\ UNCHANGED <<barrier, rejected>>
            BY <4>5, <5>2 DEF HydrateSnapshot
          <6>2. PICK h \in {held, r.snapshot} : Hold(h)
            BY <4>5, <5>2 DEF HydrateSnapshot
          <6>3. held' \in Held /\ last' \in Version
            BY <1>2, <4>1, <6>2, HoldTypes
          <6>4. QED
            BY <4>1, <4>2, <6>1, <6>3
        <5>3. QED
          BY <5>1, <5>2
      <4>6. QED
        BY <4>3, <4>4, <4>5
    <3>4. QED
      BY <1>5, <3>2, <3>3
  <2>4. Matched'
    BY <1>1, <2>1 DEF Matched, Acked, runtimeVars, wire, transport
  <2>5. RuntimeTypeOK'
    BY <1>1, <2>1 DEF TypeOK, RuntimeTypeOK, runtimeVars, session, entry, wire
  <2>6. CacheTypeOK'
    BY <1>1, <2>1, <2>2, <2>3 DEF TypeOK, CacheTypeOK, transport
  <2>7. QED
    BY <2>4, <2>5, <2>6 DEF TInv, TypeOK
<1>6. QED
  BY <1>3, <1>4, <1>5

\* What is true before anything happens.
LEMMA InitTypes ==
    ASSUME Init
    PROVE  TInv
<1>1. /\ <<>> \in Seq(ToServer) /\ <<>> \in Seq(ToBrowser) /\ <<>> \in Seq(Ack)
      /\ <<>> \in Seq([gen : Nat, rev : Nat, value : Value])
  BY EmptySeq
<1>2. NoEntry \in [rev : Nat, value : Value] /\ Blank \in Value /\ NoHeld \in Held
      /\ NoVersion \in Version
  BY DEF NoEntry, Blank, Value, NoHeld, Held, NoVersion, Version
<1>3. RuntimeTypeOK
  <2>1. 1 \in 1 .. MaxFaults + 1 /\ 0 \in 0 .. MaxChanges /\ 0 \in 0 .. MaxFaults
    BY RuntimeAssumption
  <2>2. dirty \in BOOLEAN /\ pending \in BOOLEAN /\ subscribed \in BOOLEAN
    BY DEF Init, RuntimeInit
  <2>3. /\ generation = 1 /\ life = "active" /\ source = Blank /\ cache = NoEntry
        /\ socket = "none" /\ toServer = <<>> /\ toBrowser = <<>>
        /\ changes = 0 /\ faults = 0 /\ published = <<>>
    BY DEF Init, RuntimeInit
  <2>4. QED
    BY <1>1, <1>2, <2>1, <2>2, <2>3 DEF RuntimeTypeOK, Lives
<1>4. CacheTypeOK
  <2>1. 0 \in 0 .. MaxRequests
    BY CacheAssumption
  <2>2. rejected \in BOOLEAN /\ partial \in BOOLEAN /\ resyncing \in BOOLEAN
    BY DEF Init, CacheInit
  <2>3. /\ row = "none" /\ fence = 0 /\ held = NoHeld /\ last = NoVersion
        /\ latest = 0 /\ barrier = 0 /\ sent = "none" /\ acks = <<>>
        /\ sequence = 0 /\ requests = {}
    BY DEF Init, CacheInit
  <2>4. QED
    BY <1>1, <1>2, <2>1, <2>2, <2>3 DEF CacheTypeOK
<1>5. Matched
  BY DEF Init, RuntimeInit, CacheInit, Matched
<1>6. QED
  BY <1>3, <1>4, <1>5 DEF TInv, TypeOK

\* Every step keeps everything well-formed.
LEMMA NextTypes ==
    ASSUME TInv, [Next]_vars
    PROVE  TInv'
<1>1. CASE ServerStep
  <2>1. UNCHANGED cacheVars
    BY <1>1 DEF ServerStep
  <2>2. CASE \/ \E origin \in Origins, value \in Value : Change(origin, value)
             \/ Archive \/ Restore
    BY <2>1, <2>2, QuietTypes
  <2>3. CASE Announce
    BY <2>1, <2>3, AnnounceTypes
  <2>4. CASE Flush \/ Peek
    BY <2>1, <2>4, FlushTypes
  <2>5. CASE Handle
    BY <2>1, <2>5, HandleTypes
  <2>6. CASE Break
    BY <2>1, <2>6, SeverTypes
  <2>7. QED
    BY <1>1, <2>2, <2>3, <2>4, <2>5, <2>6 DEF ServerStep
<1>2. CASE Restart
  BY <1>2, SeverTypes
<1>3. CASE Connect \/ Refresh \/ Reload
  BY <1>3, RequestTypes
<1>4. CASE Notice
  BY <1>4, NoticeTypes
<1>5. CASE Receive
  BY <1>5, ReceiveTypes
<1>6. CASE Ask \/ \E r \in requests : Serve(r) \/ Hydrate(r) \/ Lose(r)
  BY <1>6, ListTypes
<1>7. CASE UNCHANGED vars
  BY <1>7 DEF vars, runtimeVars, cacheVars, session, entry, wire, store, ordering, transport,
              lists, TInv, Matched, Acked, TypeOK, RuntimeTypeOK, CacheTypeOK
<1>8. QED
  BY <1>1, <1>2, <1>3, <1>4, <1>5, <1>6, <1>7 DEF Next

\* Every variable of the server's runtime, the socket and the browser's cache is
\* well-formed in every reachable state, and every subscription that is under way
\* waits for exactly one acknowledgement.
THEOREM TypeCorrect == Spec => []TypeOK
<1>1. Init => TInv
  BY InitTypes
<1>2. TInv /\ [Next]_vars => TInv'
  BY NextTypes
<1>3. TInv => TypeOK
  BY DEF TInv
<1>4. QED
  BY <1>1, <1>2, <1>3, PTL DEF Spec

-----------------------------------------------------------------------------
(***************************************************************************)
(* The invariant, where a restored session was loaded by a later process.  *)
(***************************************************************************)
\* An archived session comes back under a generation of its own only.
RestoredLater == Restorable \subseteq {"loaded"}

Before(v, w) == v.gen < w.gen \/ (v.gen = w.gen /\ v.rev < w.rev)

\* The server had this entry, or one of this version.
Was(h) == \E i \in DOMAIN published : published[i] = h
Named(v) == \E i \in DOMAIN published : VersionOf(published[i]) = v

\* Versions only go up.
Ordered ==
    /\ \A i, j \in DOMAIN published : i < j => Before(published[i], published[j])
    /\ \A i \in DOMAIN published : published[i].gen \in 1 .. generation /\ published[i].rev >= 1

\* The cache is the newest entry, and an empty one starts a generation.
Cached ==
    /\ cache # NoEntry =>
         /\ published # <<>>
         /\ published[Len(published)] =
              [gen |-> generation, rev |-> cache.rev, value |-> cache.value]
    /\ cache = NoEntry /\ life \in {"active", "loaded"} =>
         \A i \in DOMAIN published : published[i].gen < generation
    /\ life = "loaded" => cache = NoEntry

Full(r) == r.answered /\ r.listed /\ r.full

\* Lists carry what the server had, and of two lists the one asked for later has
\* no older generation.
Asked ==
    /\ \A r \in requests :
         /\ r.seq <= sequence
         /\ ~r.answered => ~r.listed
         /\ Full(r) => Was(r.snapshot)
    /\ \A r, s \in requests : r.seq = s.seq => r = s
    /\ \A r, s \in requests :
         /\ r.seq < s.seq /\ Full(s) /\ ~r.answered => s.snapshot.gen = generation
         /\ r.seq < s.seq /\ Full(s) /\ Full(r) => r.snapshot.gen <= s.snapshot.gen

\* What a browser holds the server had, a key without a value is refused, and what
\* is held keeps lists of older generations out.
Kept ==
    /\ latest <= sequence /\ barrier <= sequence
    /\ held # NoHeld => Was(held) /\ last = VersionOf(held)
    /\ held = NoHeld /\ last # NoVersion => rejected /\ Named(last)
    /\ held # NoHeld => \A r \in requests :
         Full(r) /\ r.snapshot.gen < held.gen => r.seq < latest \/ r.seq <= barrier

Datum(m) == m.kind \in {"snapshot", "update", "patch"}
Delta(m) == m.kind \in {"update", "patch"}
Accepts(m) == m.kind = "ack" /\ m.accepted
Refuses(m) == m.kind = "ack" /\ ~m.accepted

\* The browser holds the nth revision of this generation, or a later one.
Holds(n) == held # NoHeld /\ held.gen = generation /\ n \in Int /\ held.rev >= n

\* A patch leads from one entry to the next, and does nothing to that one.
Leads(m) ==
    \E v, w \in Value :
        /\ Was([gen |-> m.gen, rev |-> m.rev - 1, value |-> v])
        /\ Was([gen |-> m.gen, rev |-> m.rev, value |-> w])
        /\ Patched(v, m.change) = w /\ Patched(w, m.change) = w

\* A message carries what the server has had in this generation, and nothing older
\* than what a refused key had.
Carries(m) ==
    Datum(m) =>
        /\ m.gen = generation /\ m.rev >= 1
        /\ m.kind \in {"snapshot", "update"} => Was(Entry(m))
        /\ m.kind = "patch" => Leads(m)
        /\ held = NoHeld /\ last # NoVersion => ~Before(m, last)

Genuine == \A i \in DOMAIN toBrowser : Carries(toBrowser[i])

\* A subscription that says what the browser holds is right to the end.
InFlight ==
    \A i \in DOMAIN toServer :
        /\ toServer[i].kind = "subscribe"
        /\ acks[Acked(Len(toBrowser)) + i].wants = toServer[i].wants
        /\ acks[Acked(Len(toBrowser)) + i].known = toServer[i].known
        /\ life \in {"active", "loaded"} /\ toServer[i].known.gen = generation =>
              Holds(toServer[i].known.rev)

\* An acceptance comes with its snapshot or confirms what is held, and a snapshot
\* with its acceptance.
Answered ==
    \A i \in DOMAIN toBrowser :
        /\ Accepts(toBrowser[i]) =>
             /\ acks[Acked(i)].wants
             /\ \/ toBrowser[i].current
                \/ i > 1 /\ toBrowser[i - 1].kind = "snapshot"
                \/ i = 1 /\ acks[1].noted
        /\ Accepts(toBrowser[i]) /\ toBrowser[i].current =>
             acks[Acked(i)].known.gen = generation /\ Holds(acks[Acked(i)].known.rev)
        /\ toBrowser[i].kind = "snapshot" =>
             i + 1 \in DOMAIN toBrowser /\ Accepts(toBrowser[i + 1])

\* After a refusal or the announcement of an archiving, nothing comes until a
\* subscription is accepted.
Silent ==
    /\ \A i, k \in DOMAIN toBrowser : i < k /\ Refuses(toBrowser[i]) /\ Delta(toBrowser[k]) =>
         \E j \in DOMAIN toBrowser : i < j /\ j < k /\ Accepts(toBrowser[j])
    /\ \A i, k \in DOMAIN toBrowser : i < k /\ toBrowser[i].kind = "archived" =>
         ~Datum(toBrowser[k]) /\ ~Accepts(toBrowser[k])
    /\ \A i \in DOMAIN toBrowser : Refuses(toBrowser[i]) /\ subscribed =>
         \E j \in DOMAIN toBrowser : i < j /\ Accepts(toBrowser[j])
    /\ \A i \in DOMAIN toBrowser :
         toBrowser[i].kind = "archived" => life \in {"archiving", "archived"}
    /\ life = "loaded" => ~subscribed

\* Every update continues what is held or what comes before it, and what the
\* server has continues what a subscriber has.
Continued ==
    /\ \A i \in DOMAIN toBrowser : Delta(toBrowser[i]) =>
         \/ Holds(toBrowser[i].rev - 1)
         \/ \E j \in DOMAIN toBrowser :
               j < i /\ Datum(toBrowser[j]) /\ toBrowser[j].rev + 1 >= toBrowser[i].rev
    /\ subscribed /\ Visible =>
         /\ cache # NoEntry
         /\ \/ Holds(cache.rev)
            \/ \E j \in DOMAIN toBrowser : Datum(toBrowser[j]) /\ toBrowser[j].rev >= cache.rev

Stream == Genuine /\ InFlight /\ Answered /\ Silent /\ Continued

PInv == TInv /\ NoResync /\ Ordered /\ Cached /\ Asked /\ Kept /\ Stream

-----------------------------------------------------------------------------
(***************************************************************************)
(* Entries and versions.                                                   *)
(***************************************************************************)
\* What is published is an entry of a generation that has begun.
LEMMA EntryTypes ==
    ASSUME TypeOK, Ordered, NEW i \in DOMAIN published
    PROVE  /\ published[i] \in Held
           /\ published[i].gen \in 1 .. generation /\ published[i].rev \in Nat \ {0}
           /\ generation \in Nat \ {0}
           /\ published[i] # NoHeld /\ VersionOf(published[i]) # NoVersion
<1>1. published[i] \in Held /\ generation \in Nat \ {0}
  <2>1. published \in Seq(Held) /\ generation \in Nat \ {0}
    BY RuntimeAssumption DEF TypeOK, RuntimeTypeOK, Held
  <2>2. QED
    BY <2>1, ElementOfSeq
<1>2. published[i].gen \in 1 .. generation /\ published[i].rev \in Nat \ {0}
  BY <1>1 DEF Ordered, Held
<1>3. QED
  BY <1>1, <1>2 DEF NoHeld, NoVersion, VersionOf

\* No two entries have one version.
LEMMA Unique ==
    ASSUME TypeOK, Ordered, NEW i \in DOMAIN published, NEW j \in DOMAIN published,
           published[i].gen = published[j].gen, published[i].rev = published[j].rev
    PROVE  i = j /\ published[i] = published[j]
<1>1. /\ published[i].gen \in Nat /\ published[i].rev \in Nat
      /\ published[j].gen \in Nat /\ published[j].rev \in Nat
      /\ i \in Nat /\ j \in Nat
  BY EntryTypes DEF Held, TypeOK, RuntimeTypeOK
<1>2. ~(i < j) /\ ~(j < i)
  BY <1>1 DEF Ordered, Before
<1>3. QED
  BY <1>1, <1>2

\* What was, is one value for a version.
LEMMA OneValue ==
    ASSUME TypeOK, Ordered, NEW g, NEW h, Was(g), Was(h), g.gen = h.gen, g.rev = h.rev
    PROVE  g = h
BY Unique DEF Was

\* What was, stays.
LEMMA WasStays ==
    ASSUME TypeOK, published' \in Seq(Held), Extends(published', published)
    PROVE  /\ \A h : Was(h) => Was(h)'
           /\ \A v : Named(v) => Named(v)'
<1>1. /\ published \in Seq(Held) /\ DOMAIN published = 1 .. Len(published)
      /\ DOMAIN published' = 1 .. Len(published') /\ Len(published) \in Nat
  BY DEF TypeOK, RuntimeTypeOK, Held
<1>2. \A i \in DOMAIN published : i \in DOMAIN published' /\ published'[i] = published[i]
  BY <1>1 DEF Extends
<1>3. QED
  BY <1>2 DEF Was, Named

\* What a patch between two values does.
LEMMA PatchLeads ==
    ASSUME NEW v \in Value, NEW w \in Value
    PROVE  /\ Patched(v, PatchFrom(v, w)) = w
           /\ Patched(w, PatchFrom(v, w)) = w
BY DEF Value, Patched, PatchFrom

\* The newest entry is that of the cache.
LEMMA CacheIsNewest ==
    ASSUME TInv, Ordered, Cached, cache # NoEntry
    PROVE  /\ Len(published) \in DOMAIN published
           /\ published[Len(published)] =
                [gen |-> generation, rev |-> cache.rev, value |-> cache.value]
           /\ cache.rev \in Nat \ {0}
           /\ \A i \in DOMAIN published :
                 published[i].gen < generation
                    \/ (published[i].gen = generation /\ published[i].rev <= cache.rev)
<1> DEFINE n == Len(published)
           e == [gen |-> generation, rev |-> cache.rev, value |-> cache.value]
<1>1. /\ TypeOK /\ published \in Seq(Held) /\ published # <<>>
      /\ n \in Nat /\ DOMAIN published = 1 .. n
  BY DEF TInv, TypeOK, RuntimeTypeOK, Held, Cached
<1>2. n \in DOMAIN published
  BY <1>1, EmptySeq
<1>3. published[n] = e
  BY DEF Cached
<1>4. cache.rev \in Nat \ {0}
  <2>1. published[n].rev \in Nat \ {0}
    BY <1>1, <1>2, EntryTypes
  <2>2. QED
    BY <1>3, <2>1
<1>5. ASSUME NEW i \in DOMAIN published
      PROVE  published[i].gen < generation
                \/ (published[i].gen = generation /\ published[i].rev <= cache.rev)
  <2>1. CASE i = n
    <3>1. published[i].gen = generation /\ published[i].rev = cache.rev
      BY <1>3, <2>1
    <3>2. QED
      BY <1>4, <3>1
  <2>2. CASE i # n
    <3>1. i < n
      BY <1>1, <2>2
    <3>2. Before(published[i], published[n])
      BY <1>2, <3>1 DEF Ordered
    <3>3. published[i].rev \in Nat
      BY <1>1, EntryTypes
    <3>4. Before(published[i], e)
      BY <1>3, <3>2
    <3>5. published[i].gen < generation
             \/ (published[i].gen = generation /\ published[i].rev < cache.rev)
      BY <3>4 DEF Before
    <3>6. QED
      BY <1>4, <3>3, <3>5
  <2>3. QED
    BY <2>1, <2>2
<1>6. QED
  BY <1>2, <1>3, <1>4, <1>5

\* A read for a visible session finds or makes the newest entry.
LEMMA Reading ==
    ASSUME TInv, Ordered, Cached, Visible, NEW new \in {Current, Recomputed}, Keep(new),
           generation' = generation, life' = life
    PROVE  /\ new \in Entries /\ new # NoEntry /\ new.rev \in Nat \ {0} /\ cache' = new
           /\ published' \in Seq(Held) /\ Extends(published', published)
           /\ Ordered' /\ Cached'
           /\ Was([gen |-> generation, rev |-> new.rev, value |-> new.value])'
           /\ new = cache => published' = published
           /\ new # cache => new.rev = cache.rev + 1
           /\ \A i \in DOMAIN published :
                 ~Before([gen |-> generation, rev |-> new.rev], published[i])
<1> DEFINE e == [gen |-> generation, rev |-> new.rev, value |-> new.value]
           n == Len(published)
<1>1. /\ TypeOK /\ published \in Seq(Held) /\ n \in Nat /\ DOMAIN published = 1 .. n
      /\ generation \in Nat \ {0} /\ life = "active" /\ cache \in Entries
  BY RuntimeAssumption DEF TInv, TypeOK, RuntimeTypeOK, Held, Visible, Entries
<1>2. new \in Entries
  BY <1>1, ReadTypes
<1>3. cache.rev \in Nat /\ (cache # NoEntry => cache.rev # 0) /\ (cache = NoEntry => cache.rev = 0)
  BY <1>1, CacheIsNewest DEF Entries, NoEntry
<1>4. /\ new = cache \/ new = [rev |-> cache.rev + 1, value |-> source]
      /\ new # NoEntry
  <2>1. /\ Recomputed = cache \/ Recomputed = [rev |-> cache.rev + 1, value |-> source]
        /\ Recomputed = cache => cache # NoEntry
    <3>1. [rev |-> cache.rev + 1, value |-> source] # NoEntry
      BY <1>3 DEF NoEntry
    <3>2. QED
      BY <3>1 DEF Recomputed
  <2>2. [rev |-> cache.rev + 1, value |-> source] # NoEntry
    BY <1>3 DEF NoEntry
  <2>3. QED
    BY <2>1, <2>2 DEF Current
<1>5. new # cache => new.rev = cache.rev + 1
  BY <1>4
<1>6. new.rev \in Nat \ {0}
  BY <1>3, <1>4, <1>5
<1>7. /\ cache' = new
      /\ published' = IF new = cache THEN published ELSE Append(published, e)
  BY <1>4 DEF Keep
<1>8. \A i \in DOMAIN published :
         /\ published[i].gen \in 1 .. generation /\ published[i].rev \in Nat \ {0}
         /\ published[i].gen < generation
               \/ (published[i].gen = generation /\ published[i].rev <= cache.rev)
  BY <1>1, CacheIsNewest, EntryTypes DEF Cached
<1>9. \A i \in DOMAIN published : ~Before([gen |-> generation, rev |-> new.rev], published[i])
  <2>1. cache.rev <= new.rev
    BY <1>3, <1>5
  <2>2. ASSUME NEW i \in DOMAIN published
        PROVE  ~Before([gen |-> generation, rev |-> new.rev], published[i])
    BY <1>1, <1>3, <1>6, <1>8, <2>1 DEF Before
  <2>3. QED
    BY <2>2
<1>10. CASE new = cache
  <2>1. published' = published /\ cache # NoEntry
    BY <1>4, <1>7, <1>10
  <2>2. Ordered' /\ Cached'
    BY <1>1, <1>7, <1>10, <2>1 DEF Ordered, Cached
  <2>3. Extends(published', published)
    BY <1>1, <2>1 DEF Extends
  <2>4. Was(e)'
    <3>1. n \in DOMAIN published /\ published[n] = e
      BY <1>10, <2>1, CacheIsNewest
    <3>2. QED
      BY <2>1, <3>1 DEF Was
  <2>5. QED
    BY <1>1, <1>2, <1>4, <1>5, <1>6, <1>7, <1>9, <1>10, <2>1, <2>2, <2>3, <2>4
<1>11. CASE new # cache
  <2>1. published' = Append(published, e)
    BY <1>7, <1>11
  <2>2. e \in Held /\ e.gen = generation /\ e.rev = new.rev /\ e.value = new.value
    BY <1>1, <1>2 DEF Held, Entries
  <2> HIDE DEF e
  <2>3. /\ published' \in Seq(Held) /\ Len(published') = n + 1 /\ published'[n + 1] = e
        /\ \A i \in 1 .. n : published'[i] = published[i]
        /\ DOMAIN published' = 1 .. n + 1
    BY <1>1, <2>1, <2>2
  <2>4. Extends(published', published)
    BY <1>1, <2>3 DEF Extends
  <2>5. \A i \in 1 .. n : Before(published[i], e)
    <3>1. ASSUME NEW i \in 1 .. n PROVE Before(published[i], e)
      <4>1. published[i].rev \in Nat /\ cache.rev < new.rev
        BY <1>1, <1>3, <1>5, <1>8, <1>11
      <4>2. QED
        BY <1>1, <1>3, <1>6, <1>8, <2>2, <4>1 DEF Before
    <3>2. QED
      BY <3>1
  <2>6. Ordered'
    <3>1. ASSUME NEW i \in 1 .. n + 1, NEW j \in 1 .. n + 1, i < j
          PROVE  Before(published'[i], published'[j])
      <4>1. i \in 1 .. n /\ published'[i] = published[i]
        BY <1>1, <2>3, <3>1
      <4>2. CASE j = n + 1
        BY <2>3, <2>5, <4>1, <4>2
      <4>3. CASE j # n + 1
        <5>1. j \in 1 .. n /\ published'[j] = published[j]
          BY <1>1, <2>3, <4>3
        <5>2. Before(published[i], published[j])
          BY <1>1, <3>1, <4>1, <5>1 DEF Ordered
        <5>3. QED
          BY <4>1, <5>1, <5>2
      <4>4. QED
        BY <4>2, <4>3
    <3>2. ASSUME NEW i \in 1 .. n + 1
          PROVE  published'[i].gen \in 1 .. generation /\ published'[i].rev >= 1
      <4>1. CASE i = n + 1
        BY <1>1, <1>6, <2>2, <2>3, <4>1
      <4>2. CASE i # n + 1
        <5>1. i \in 1 .. n
          BY <1>1, <4>2
        <5>2. QED
          BY <1>1, <1>8, <2>3, <5>1
      <4>3. QED
        BY <4>1, <4>2
    <3>3. QED
      BY <2>3, <3>1, <3>2 DEF Ordered
  <2>7. Cached'
    <3>1. cache' # NoEntry /\ published' # <<>> /\ cache' = new
      BY <1>4, <1>7, <2>3, EmptySeq
    <3>2. published'[Len(published')] =
             [gen |-> generation', rev |-> cache'.rev, value |-> cache'.value]
      BY <1>7, <2>3 DEF e
    <3>3. NoEntry' = NoEntry /\ life' = "active"
      BY <1>1
    <3>4. QED
      BY <3>1, <3>2, <3>3 DEF Cached
  <2>8. Was(e)'
    <3>1. e' = e
      BY DEF e
    <3>2. n + 1 \in DOMAIN published' /\ published'[n + 1] = e'
      BY <1>1, <2>3, <3>1
    <3>3. QED
      BY <3>2 DEF Was
  <2>9. QED
    BY <1>2, <1>4, <1>5, <1>6, <1>7, <1>9, <1>11, <2>3, <2>4, <2>6, <2>7, <2>8 DEF e
<1>12. QED
  BY <1>10, <1>11

\* Where the entries, the generation and the session stay, so does their order.
LEMMA EntriesKept ==
    ASSUME TypeOK, Ordered, Cached, generation' = generation, cache' = cache,
           published' = published, life' = life \/ life' \notin {"active", "loaded"}
    PROVE  /\ Ordered' /\ Cached' /\ published' \in Seq(Held)
           /\ Extends(published', published)
<1>1. published \in Seq(Held)
  BY DEF TypeOK, RuntimeTypeOK, Held
<1>2. QED
  BY <1>1 DEF Ordered, Cached, Extends

\* Every step keeps the order of the entries.
LEMMA EntriesStep ==
    ASSUME TInv, RestoredLater, Ordered, Cached, life = "loaded" => ~subscribed, [Next]_vars
    PROVE  /\ Ordered' /\ Cached' /\ published' \in Seq(Held)
           /\ Extends(published', published)
<1>1. /\ TypeOK /\ published \in Seq(Held) /\ generation \in Nat \ {0}
      /\ life \in Lives
  BY RuntimeAssumption DEF TInv, TypeOK, RuntimeTypeOK, Held
<1>2. CASE /\ UNCHANGED <<generation, cache, published>>
           /\ life' = life \/ life' \notin {"active", "loaded"}
  BY <1>1, <1>2, EntriesKept
<1>3. CASE Visible /\ (Keep(Current) \/ Keep(Recomputed)) /\ UNCHANGED <<generation, life>>
  <2>1. PICK new \in {Current, Recomputed} : Keep(new)
    BY <1>3
  <2>2. QED
    BY <1>3, <2>1, Reading
<1>4. CASE Restore
  <2>1. life = "loaded" /\ life' = "active" /\ UNCHANGED <<generation, cache, published>>
    BY <1>4 DEF Restore, RestoredLater, entry
  <2>2. QED
    BY <1>1, <2>1 DEF Ordered, Cached, Extends
<1>5. CASE Flush
  <2>1. UNCHANGED <<generation, life>>
    BY <1>5 DEF Flush, session
  <2>2. CASE ~subscribed
    BY <1>2, <1>5, <2>1, <2>2 DEF Flush
  <2>3. CASE subscribed /\ Visible
    BY <1>3, <1>5, <2>1, <2>3 DEF Flush
  <2>4. CASE subscribed /\ ~Visible
    <3>1. Keep(Recomputed) /\ Recomputed = NoEntry
      BY <1>5, <2>4 DEF Flush, Recomputed
    <3>2. published' = published
      BY <3>1 DEF Keep
    <3>3. life' \notin {"active", "loaded"} /\ cache' = NoEntry
      BY <2>1, <2>4, <3>1 DEF Visible, Keep
    <3>4. Ordered' /\ Extends(published', published)
      BY <1>1, <2>1, <3>2 DEF Ordered, Extends
    <3>5. Cached'
      BY <3>3 DEF Cached
    <3>6. QED
      BY <1>1, <3>2, <3>4, <3>5
  <2>5. QED
    BY <2>2, <2>3, <2>4
<1>6. CASE Handle
  <2>1. UNCHANGED <<generation, life>>
    BY <1>6 DEF Handle, session
  <2>2. (Visible /\ Keep(Current)) \/ UNCHANGED entry
    BY <1>6 DEF Handle, ReplaceSubscriptions, AnswerResync
  <2>3. QED
    BY <1>2, <1>3, <2>1, <2>2 DEF entry
<1>7. CASE Restart
  <2>1. /\ generation' = generation + 1 /\ published' = published /\ cache' = NoEntry
    BY <1>7 DEF Restart, RestartServer
  <2>2. \A i \in DOMAIN published : published[i].gen \in 1 .. generation /\ published[i].rev >= 1
    BY DEF Ordered
  <2>3. \A i \in DOMAIN published :
           published[i].gen \in 1 .. generation' /\ published[i].gen < generation'
    BY <1>1, <2>1, <2>2
  <2>4. Ordered'
    BY <2>1, <2>2, <2>3 DEF Ordered
  <2>5. Cached'
    BY <2>1, <2>3 DEF Cached, NoEntry, Blank
  <2>6. QED
    BY <1>1, <2>1, <2>4, <2>5 DEF Extends
<1>8. CASE \E r \in requests : Serve(r)
  <2>1. PICK r \in requests : Serve(r)
    BY <1>8
  <2>2. UNCHANGED <<generation, life>> /\ ((Visible /\ Keep(Current)) \/ UNCHANGED entry)
    BY <2>1 DEF Serve, session
  <2>3. QED
    BY <1>2, <1>3, <2>2 DEF entry
<1>9. CASE Peek
  BY <1>3, <1>9 DEF Peek, session
<1>10. CASE (\E origin \in Origins, value \in Value : Change(origin, value)) \/ Archive
               \/ Announce \/ Break
  BY <1>2, <1>10 DEF Change, Archive, Announce, Break, entry, session
<1>11. CASE \/ Connect \/ Notice \/ Refresh \/ Reload \/ Receive
            \/ Ask \/ \E r \in requests : Hydrate(r) \/ Lose(r)
  <2>1. UNCHANGED <<generation, session, entry>>
    BY <1>11 DEF Connect, Notice, Refresh, Reload, Receive, ReceiveSnapshot, ReceiveUpdate,
       ReceiveAck, ReceiveArchived, Ask, Hydrate, Lose, runtimeVars
  <2>2. QED
    BY <1>2, <2>1 DEF entry, session
<1>12. CASE UNCHANGED vars
  BY <1>2, <1>12 DEF vars, runtimeVars, entry, session
<1>13. QED
  BY <1>4, <1>5, <1>6, <1>7, <1>8, <1>9, <1>10, <1>11, <1>12 DEF Next, ServerStep

-----------------------------------------------------------------------------
(***************************************************************************)
(* What is on its way.                                                     *)
(***************************************************************************)
\* What a message carries stays true while the key keeps its value, or gets one.
LEMMA CarriesStays ==
    ASSUME TypeOK, published' \in Seq(Held), Extends(published', published),
           generation' = generation,
           held' # NoHeld \/ (held' = held /\ last' = last),
           NEW m, Carries(m)
    PROVE  Carries(m)'
<1>1. \A h : Was(h) => Was(h)'
  BY WasStays
<1>2. Leads(m) => Leads(m)'
  BY <1>1 DEF Leads
<1>3. NoHeld' = NoHeld /\ NoVersion' = NoVersion
  OBVIOUS
<1>4. Datum(m)' <=> Datum(m)
  BY DEF Datum
<1>5. Was(Entry(m)) => Was(Entry(m))'
  BY <1>1 DEF Entry
<1>6. CASE ~Datum(m)
  BY <1>4, <1>6 DEF Carries
<1>7. CASE Datum(m)
  <2>1. /\ m.gen = generation /\ m.rev >= 1
        /\ m.kind \in {"snapshot", "update"} => Was(Entry(m))
        /\ m.kind = "patch" => Leads(m)
        /\ held = NoHeld /\ last # NoVersion => ~Before(m, last)
    BY <1>7 DEF Carries
  <2>2. held' = NoHeld /\ last' # NoVersion => ~Before(m, last')
    BY <2>1
  <2>3. QED
    BY <1>2, <1>5, <2>1, <2>2 DEF Carries, Before
<1>8. QED
  BY <1>6, <1>7

\* Nothing is on its way, and the browser is not subscribed.
LEMMA Emptied ==
    ASSUME toBrowser' = <<>>, toServer' = <<>>, ~subscribed'
    PROVE  Stream'
<1>1. DOMAIN toBrowser' = {} /\ DOMAIN toServer' = {}
  OBVIOUS
<1>2. Genuine'
  BY <1>1 DEF Genuine
<1>3. InFlight'
  BY <1>1 DEF InFlight
<1>4. Answered'
  BY <1>1 DEF Answered
<1>5. Silent'
  BY <1>1 DEF Silent
<1>6. Continued'
  BY <1>1 DEF Continued
<1>7. QED
  BY <1>2, <1>3, <1>4, <1>5, <1>6 DEF Stream

\* The same is on its way, and the browser holds at least as much.
LEMMA SameStream ==
    ASSUME TypeOK, published' \in Seq(Held), Extends(published', published), Stream,
           UNCHANGED <<generation, toBrowser, toServer, acks, subscribed>>,
           held' # NoHeld \/ (held' = held /\ last' = last),
           \A n : Holds(n) => Holds(n)',
           life' \in {"active", "loaded"} => life \in {"active", "loaded"},
           life' \in Lives,
           life' = "loaded" => ~subscribed,
           subscribed /\ life' = "active" => life = "active" /\ cache' = cache
    PROVE  Stream'
<1>1. \A n : Acked(n)' = Acked(n)
  BY DEF Acked
<1>2. Genuine'
  <2>1. ASSUME NEW i \in DOMAIN toBrowser' PROVE Carries(toBrowser[i])'
    <3>1. i \in DOMAIN toBrowser /\ toBrowser'[i] = toBrowser[i]
      OBVIOUS
    <3> DEFINE m == toBrowser[i]
    <3>2. Carries(m)
      BY <3>1 DEF Stream, Genuine
    <3>3. PICK x : x = m
      OBVIOUS
    <3>4. Carries(x)
      BY <3>2, <3>3
    <3>5. Carries(x)'
      BY ONLY <3>4, CarriesStays, TypeOK, published' \in Seq(Held),
        Extends(published', published), generation' = generation,
        held' # NoHeld \/ (held' = held /\ last' = last)
    <3>6. x = toBrowser'[i]
      BY <3>1, <3>3
    <3>7. QED
      BY <3>5, <3>6
  <2>2. QED
    BY <2>1 DEF Genuine
<1>3. InFlight'
  <2>1. Acked(Len(toBrowser))' = Acked(Len(toBrowser))
    BY DEF Acked
  <2>2. ASSUME NEW i \in DOMAIN toServer
        PROVE  life' \in {"active", "loaded"} /\ toServer[i].known.gen = generation =>
                  Holds(toServer[i].known.rev)'
    BY DEF Stream, InFlight, Holds
  <2>3. QED
    BY <2>1, <2>2 DEF Stream, InFlight, Holds
<1>4. Answered'
  <2>1. ASSUME NEW i \in DOMAIN toBrowser, Accepts(toBrowser[i]), toBrowser[i].current
        PROVE  /\ acks[Acked(i)].known.gen = generation
               /\ Holds(acks[Acked(i)].known.rev)'
    BY <1>1, <2>1 DEF Stream, Answered, Holds
  <2>2. QED
    BY <1>1, <2>1 DEF Stream, Answered, Accepts, Holds
<1>5. Silent'
  BY DEF Stream, Silent, Refuses, Accepts, Delta, Datum, Lives
<1>6. Continued'
  <2>1. ASSUME NEW i \in DOMAIN toBrowser, Delta(toBrowser[i])
        PROVE  \/ Holds(toBrowser[i].rev - 1)'
               \/ \E j \in DOMAIN toBrowser :
                     j < i /\ Datum(toBrowser[j]) /\ toBrowser[j].rev + 1 >= toBrowser[i].rev
    BY <2>1 DEF Stream, Continued, Holds
  <2>2. ASSUME subscribed, life' = "active"
        PROVE  /\ cache' = cache /\ cache # NoEntry
               /\ \/ Holds(cache.rev)'
                  \/ \E j \in DOMAIN toBrowser :
                        Datum(toBrowser[j]) /\ toBrowser[j].rev >= cache.rev
    <3>1. life = "active" /\ cache' = cache /\ Visible
      BY <2>2 DEF Visible
    <3>2. /\ cache # NoEntry
          /\ \/ Holds(cache.rev)
             \/ \E j \in DOMAIN toBrowser :
                   Datum(toBrowser[j]) /\ toBrowser[j].rev >= cache.rev
      BY <2>2, <3>1 DEF Stream, Continued
    <3>3. PICK n : n = cache.rev
      OBVIOUS
    <3>4. Holds(n) => Holds(n)'
      OBVIOUS
    <3>5. Holds(cache.rev) => Holds(cache.rev)'
      BY <3>1, <3>3, <3>4 DEF Holds
    <3>6. QED
      BY <3>1, <3>2, <3>5
  <2>3. NoEntry' = NoEntry
    OBVIOUS
  <2>4. QED
    BY <2>1, <2>2, <2>3 DEF Continued, Visible, Datum, Delta, Holds
<1>7. QED
  BY <1>2, <1>3, <1>4, <1>5, <1>6 DEF Stream

\* The number of a message among those of its kind.
LEMMA CountIndex ==
    ASSUME NEW S, NEW s \in Seq(S), NEW k
    PROVE  /\ Count(s, k, Len(s)) \in Nat
           /\ \A i \in DOMAIN s : /\ Count(s, k, i) \in Nat
                                  /\ Count(s, k, i) <= Count(s, k, Len(s))
                                  /\ s[i].kind = k => Count(s, k, i) >= 1
<1>1. Len(s) \in Nat /\ DOMAIN s = 1 .. Len(s)
  OBVIOUS
<1>2. Count(s, k, Len(s)) \in Nat
  BY <1>1, CountStep
<1>3. ASSUME NEW i \in DOMAIN s
      PROVE  /\ Count(s, k, i) \in Nat
             /\ Count(s, k, i) <= Count(s, k, Len(s))
             /\ s[i].kind = k => Count(s, k, i) >= 1
  <2>1. i \in Nat /\ 0 \in Nat /\ 0 < i /\ i <= Len(s)
    BY <1>1
  <2>2. Count(s, k, i) \in Nat
    BY <2>1, CountStep
  <2>3. Count(s, k, i) <= Count(s, k, Len(s))
    BY <1>1, <2>1, CountGrows
  <2>4. s[i].kind = k => Count(s, k, 0) < Count(s, k, i)
    BY <2>1, CountGrows
  <2>5. Count(s, k, 0) = 0
    BY <2>1, CountStep
  <2>6. QED
    BY <2>2, <2>3, <2>4, <2>5
<1>4. QED
  BY <1>2, <1>3

\* Where all messages are of a kind, all are counted.
LEMMA CountAll ==
    ASSUME NEW S, NEW s \in Seq(S), NEW k, \A i \in DOMAIN s : s[i].kind = k
    PROVE  Count(s, k, Len(s)) = Len(s)
<1>1. Len(s) \in Nat /\ DOMAIN s = 1 .. Len(s)
  OBVIOUS
<1>2. Those(s, k, Len(s)) = 1 .. Len(s)
  BY <1>1 DEF Those
<1>3. ASSUME NEW n \in Nat PROVE Cardinality(1 .. n) = n
  BY FS_Interval
<1>4. QED
  BY <1>1, <1>2, <1>3 DEF Count

\* Acknowledgements on their way, subscriptions on theirs, and who waits for them.
LEMMA Waiting ==
    ASSUME TInv, InFlight
    PROVE  /\ Acked(Len(toBrowser)) \in Nat /\ Len(toServer) \in Nat /\ Len(acks) \in Nat
           /\ socket = "up" => Len(acks) = Acked(Len(toBrowser)) + Len(toServer)
           /\ \A i \in DOMAIN toBrowser :
                 /\ Acked(i) \in Nat /\ Acked(i) <= Acked(Len(toBrowser))
                 /\ toBrowser[i].kind = "ack" => Acked(i) >= 1 /\ Acked(i) <= Len(acks)
<1>1. /\ toBrowser \in Seq(ToBrowser) /\ toServer \in Seq(ToServer) /\ acks \in Seq(Ack)
  BY DEF TInv, TypeOK, RuntimeTypeOK, CacheTypeOK
<1>2. /\ Acked(Len(toBrowser)) \in Nat
      /\ \A i \in DOMAIN toBrowser :
            /\ Acked(i) \in Nat /\ Acked(i) <= Acked(Len(toBrowser))
            /\ toBrowser[i].kind = "ack" => Acked(i) >= 1
  BY <1>1, CountIndex DEF Acked
<1>3. Count(toServer, "subscribe", Len(toServer)) = Len(toServer)
  BY <1>1, CountAll DEF InFlight
<1>4. Len(toServer) \in Nat /\ Len(acks) \in Nat
  BY <1>1
<1>5. socket = "up" => Len(acks) = Acked(Len(toBrowser)) + Len(toServer)
  BY <1>3 DEF TInv, Matched
<1>6. \A i \in DOMAIN toBrowser : socket = "up"
  BY <1>1 DEF TInv, Matched
<1>7. ASSUME NEW i \in DOMAIN toBrowser PROVE Acked(i) <= Len(acks)
  BY <1>2, <1>4, <1>5, <1>6
<1>8. QED
  BY <1>2, <1>4, <1>5, <1>7

\* The first message is taken, and the key has a value or stays without one.
LEMMA TailStream ==
    ASSUME TInv, TInv', Stream, toBrowser # <<>>, toBrowser' = Tail(toBrowser),
           UNCHANGED <<generation, session, entry, subscribed, toServer>>,
           held' # NoHeld \/ (held' = held /\ last' = last),
           \A n : Holds(n) => Holds(n)',
           NEW m, m = toBrowser[1],
           Datum(m) => Holds(m.rev)',
           NEW d \in {0, 1}, (d = 1) <=> (m.kind = "ack"),
           \A j \in DOMAIN acks' : /\ acks'[j].wants = acks[j + d].wants
                                   /\ acks'[j].known = acks[j + d].known,
           m.kind = "snapshot" /\ acks # <<>> /\ acks[1].wants => acks'[1].noted
    PROVE  Stream'
<1>1. /\ socket = "up"
      /\ toBrowser \in Seq(ToBrowser) /\ toBrowser' \in Seq(ToBrowser)
      /\ Len(toBrowser') = Len(toBrowser) - 1 /\ Len(toBrowser) \in Nat /\ Len(toBrowser') \in Nat
      /\ DOMAIN toBrowser = 1 .. Len(toBrowser) /\ DOMAIN toBrowser' = 1 .. Len(toBrowser')
      /\ \A i \in DOMAIN toBrowser' : /\ i + 1 \in DOMAIN toBrowser
                                      /\ toBrowser'[i] = toBrowser[i + 1]
      /\ \A n \in 0 .. Len(toBrowser') :
            /\ Count(toBrowser', "ack", n) \in Nat
            /\ Acked(n + 1) = Count(toBrowser', "ack", n)
                                + IF toBrowser[1].kind = "ack" THEN 1 ELSE 0
  BY TakeTypes DEF TInv, TypeOK, RuntimeTypeOK
<1>2. /\ \A n \in 0 .. Len(toBrowser') :
            /\ Acked(n)' \in Nat /\ Acked(n + 1) = Acked(n)' + d
      /\ Acked(Len(toBrowser))' \in Nat /\ Acked(Len(toBrowser)) = Acked(Len(toBrowser))' + d
  <2>1. \A n \in 0 .. Len(toBrowser') : Acked(n)' \in Nat /\ Acked(n + 1) = Acked(n)' + d
    BY <1>1 DEF Acked
  <2>2. PICK n : n = Len(toBrowser')
    OBVIOUS
  <2>3. n \in 0 .. Len(toBrowser') /\ n + 1 = Len(toBrowser)
    BY <1>1, <2>2
  <2>4. Acked(n)' \in Nat /\ Acked(n + 1) = Acked(n)' + d
    BY <2>1, <2>3
  <2>5. QED
    BY <2>1, <2>2, <2>3, <2>4
<1>3. /\ published \in Seq(Held) /\ published' \in Seq(Held) /\ Extends(published', published)
      /\ TypeOK
  BY DEF TInv, TypeOK, RuntimeTypeOK, Held, Extends, entry
<1>4. Genuine'
  <2>1. ASSUME NEW i \in DOMAIN toBrowser' PROVE Carries(toBrowser[i])'
    <3>1. PICK x : x = toBrowser'[i]
      OBVIOUS
    <3>2. Carries(x)
      BY <1>1, <3>1 DEF Stream, Genuine
    <3>3. Carries(x)'
      <4>1. generation' = generation
        OBVIOUS
      <4>2. held' # NoHeld \/ (held' = held /\ last' = last)
        OBVIOUS
      <4>3. QED
        BY ONLY <1>3, <3>2, <4>1, <4>2, CarriesStays
    <3>4. QED
      BY <3>1, <3>3
  <2>2. QED
    BY <2>1 DEF Genuine
<1>5. Answered'
  <2>1. Len(acks') \in Nat /\ DOMAIN acks' = 1 .. Len(acks')
    BY DEF TInv, TypeOK, CacheTypeOK
  <2>2. ASSUME NEW i \in DOMAIN toBrowser', toBrowser'[i].kind = "ack"
        PROVE  /\ Acked(i)' \in DOMAIN acks' /\ Acked(i + 1) = Acked(i)' + d
               /\ acks'[Acked(i)'].wants = acks[Acked(i + 1)].wants
               /\ acks'[Acked(i)'].known = acks[Acked(i + 1)].known
    <3>1. Acked(i)' >= 1 /\ Acked(i)' \in Nat /\ Acked(i)' <= Acked(Len(toBrowser))'
      <4>1. /\ Count(toBrowser', "ack", i) \in Nat
            /\ Count(toBrowser', "ack", i) <= Count(toBrowser', "ack", Len(toBrowser'))
            /\ Count(toBrowser', "ack", i) >= 1
        BY <1>1, <2>2, CountIndex
      <4>2. QED
        BY <4>1 DEF Acked
    <3>2. Len(acks') = Acked(Len(toBrowser))' + Count(toServer', "subscribe", Len(toServer'))
      BY <1>1 DEF TInv, Matched, Acked
    <3>3. Count(toServer', "subscribe", Len(toServer')) \in Nat
      <4>1. toServer' \in Seq(ToServer)
        BY DEF TInv, TypeOK, RuntimeTypeOK
      <4>2. QED
        BY <4>1, CountIndex
    <3>4. Acked(i)' \in DOMAIN acks'
      BY <1>2, <2>1, <3>1, <3>2, <3>3
    <3>5. i \in 0 .. Len(toBrowser')
      BY <1>1
    <3>6. QED
      BY <1>2, <3>4, <3>5
  <2>3. ASSUME NEW i \in DOMAIN toBrowser', Accepts(toBrowser'[i])
        PROVE  /\ acks'[Acked(i)'].wants
               /\ \/ toBrowser'[i].current
                  \/ i > 1 /\ toBrowser'[i - 1].kind = "snapshot"
                  \/ i = 1 /\ acks'[1].noted
    <3>1. toBrowser'[i].kind = "ack" /\ toBrowser'[i] = toBrowser[i + 1] /\ i + 1 \in DOMAIN toBrowser
          /\ i \in Nat \ {0}
      BY <1>1, <2>3 DEF Accepts
    <3>2. acks[Acked(i + 1)].wants
      BY <2>3, <3>1 DEF Stream, Answered
    <3>3. acks'[Acked(i)'].wants
      BY <2>2, <3>1, <3>2
    <3>4. \/ toBrowser[i + 1].current
          \/ i + 1 > 1 /\ toBrowser[(i + 1) - 1].kind = "snapshot"
          \/ i + 1 = 1 /\ acks[1].noted
      BY <2>3, <3>1 DEF Stream, Answered
    <3>5. toBrowser[i + 1].current \/ toBrowser[i].kind = "snapshot"
      <4>1. (i + 1) - 1 = i /\ i + 1 # 1
        BY <3>1
      <4>2. QED
        BY ONLY <3>4, <4>1
    <3>6. CASE i > 1
      <4>1. i - 1 \in DOMAIN toBrowser'
        BY <1>1, <3>1, <3>6
      <4>2. toBrowser'[i - 1] = toBrowser[(i - 1) + 1] /\ (i - 1) + 1 = i
        BY <1>1, <3>1, <4>1
      <4>3. QED
        BY <3>1, <3>3, <3>5, <3>6, <4>2
    <3>7. CASE i = 1 /\ m.kind = "snapshot"
      <4>1. d = 0
        BY <3>7
      <4>2. Acked(1)' \in DOMAIN acks' /\ Acked(1 + 1) = Acked(1)'
        BY <1>2, <2>2, <3>1, <3>7, <4>1
      <4>3. Acked(1)' = 1
        <5>1. 0 \in Nat
          OBVIOUS
        <5>2. /\ Count(toBrowser', "ack", 0) = 0
              /\ Count(toBrowser', "ack", 0 + 1) =
                    Count(toBrowser', "ack", 0) + IF toBrowser'[0 + 1].kind = "ack" THEN 1 ELSE 0
          BY ONLY <5>1, CountStep
        <5>3. Count(toBrowser', "ack", 1) = 1
          BY <3>1, <3>7, <5>2
        <5>4. QED
          BY <5>3 DEF Acked
      <4>4. acks[1].wants
        <5>1. Acked(1 + 1) = 1
          BY <4>2, <4>3
        <5>2. QED
          BY <3>2, <3>7, <5>1
      <4>5. acks # <<>>
        <5>1. i + 1 \in DOMAIN toBrowser /\ toBrowser[i + 1].kind = "ack"
          BY <3>1
        <5>2. Len(acks) >= 1
          <6>1. InFlight
            BY DEF Stream
          <6>2. Acked(i + 1) >= 1 /\ Acked(i + 1) <= Len(acks) /\ Len(acks) \in Nat
                /\ Acked(i + 1) \in Nat
            BY <5>1, <6>1, Waiting
          <6>3. QED
            BY <6>2
        <5>3. QED
          BY <5>2, EmptySeq
      <4>6. QED
        BY <3>3, <3>7, <4>4, <4>5
    <3>8. CASE i = 1 /\ m.kind # "snapshot"
      BY <3>1, <3>3, <3>5, <3>8
    <3>9. QED
      BY <3>1, <3>6, <3>7, <3>8
  <2>4. ASSUME NEW i \in DOMAIN toBrowser', Accepts(toBrowser'[i]), toBrowser'[i].current
        PROVE  /\ acks'[Acked(i)'].known.gen = generation'
               /\ Holds(acks[Acked(i)].known.rev)'
    <3>1. toBrowser'[i].kind = "ack" /\ toBrowser'[i] = toBrowser[i + 1] /\ i + 1 \in DOMAIN toBrowser
      BY <1>1, <2>4 DEF Accepts
    <3>2. /\ acks[Acked(i + 1)].known.gen = generation
          /\ Holds(acks[Acked(i + 1)].known.rev)
      BY <2>4, <3>1 DEF Stream, Answered
    <3>3. PICK n : n = acks[Acked(i + 1)].known.rev
      OBVIOUS
    <3>4. Holds(n)'
      BY <3>2, <3>3
    <3>5. acks'[Acked(i)'].known = acks[Acked(i + 1)].known
      BY <2>2, <3>1
    <3>6. QED
      BY <3>2, <3>3, <3>4, <3>5 DEF Holds
  <2>5. ASSUME NEW i \in DOMAIN toBrowser', toBrowser'[i].kind = "snapshot"
        PROVE  i + 1 \in DOMAIN toBrowser' /\ Accepts(toBrowser'[i + 1])
    <3>1. toBrowser'[i] = toBrowser[i + 1] /\ i + 1 \in DOMAIN toBrowser
      BY <1>1
    <3>2. (i + 1) + 1 \in DOMAIN toBrowser /\ Accepts(toBrowser[(i + 1) + 1])
      BY <2>5, <3>1 DEF Stream, Answered
    <3>3. i + 1 \in DOMAIN toBrowser'
      BY <1>1, <3>2
    <3>4. QED
      BY <1>1, <3>2, <3>3
  <2>6. QED
    BY <2>3, <2>4, <2>5 DEF Answered, Accepts
<1>6. \A i \in DOMAIN toBrowser : i # 1 =>
         /\ i - 1 \in DOMAIN toBrowser' /\ toBrowser'[i - 1] = toBrowser[i] /\ i \in Nat
  <2>1. ASSUME NEW i \in DOMAIN toBrowser, i # 1
        PROVE  i - 1 \in DOMAIN toBrowser' /\ toBrowser'[i - 1] = toBrowser[i] /\ i \in Nat
    <3>1. i - 1 \in DOMAIN toBrowser' /\ i \in Nat /\ (i - 1) + 1 = i
      BY <1>1, <2>1
    <3>2. toBrowser'[i - 1] = toBrowser[(i - 1) + 1]
      BY <1>1, <3>1
    <3>3. QED
      BY <3>1, <3>2
  <2>2. QED
    BY <2>1
<1>7. InFlight'
  <2>1. ASSUME NEW i \in DOMAIN toServer
        PROVE  /\ Acked(Len(toBrowser))' + i \in DOMAIN acks'
               /\ Acked(Len(toBrowser)) + i = (Acked(Len(toBrowser))' + i) + d
    <3>1. /\ Len(acks') = Acked(Len(toBrowser))' + Count(toServer, "subscribe", Len(toServer))
          /\ DOMAIN acks' = 1 .. Len(acks')
      <4>1. Matched' /\ acks' \in Seq(Ack)
        BY DEF TInv, TypeOK, CacheTypeOK
      <4>2. Len(acks') = Acked(Len(toBrowser))' + Count(toServer, "subscribe", Len(toServer))
        BY <1>1, <4>1 DEF Matched, Acked
      <4>3. QED
        BY <4>1, <4>2
    <3>2. /\ toServer \in Seq(ToServer) /\ \A j \in DOMAIN toServer : toServer[j].kind = "subscribe"
      BY DEF TInv, TypeOK, RuntimeTypeOK, Stream, InFlight
    <3>3. Count(toServer, "subscribe", Len(toServer)) = Len(toServer)
      BY <3>2, CountAll
    <3>4. i \in 1 .. Len(toServer) /\ Len(toServer) \in Nat
      BY <3>2
    <3>5. QED
      BY <1>2, <3>1, <3>3, <3>4
  <2>2. ASSUME NEW i \in DOMAIN toServer
        PROVE  /\ toServer[i].kind = "subscribe"
               /\ acks'[Acked(Len(toBrowser))' + i].wants = toServer[i].wants
               /\ acks'[Acked(Len(toBrowser))' + i].known = toServer[i].known
    BY <2>1 DEF Stream, InFlight
  <2>3. ASSUME NEW i \in DOMAIN toServer, life \in {"active", "loaded"},
               toServer[i].known.gen = generation
        PROVE  Holds(toServer[i].known.rev)'
    <3>1. PICK n : n = toServer[i].known.rev
      OBVIOUS
    <3>2. Holds(n)'
      BY <2>3, <3>1 DEF Stream, InFlight
    <3>3. QED
      BY <3>1, <3>2 DEF Holds
  <2>4. toServer' = toServer /\ life' = life /\ generation' = generation
    BY DEF session
  <2>5. QED
    BY <2>2, <2>3, <2>4 DEF InFlight, Holds
<1>8. Silent'
  <2>1. life' = life /\ subscribed' = subscribed
    BY DEF session
  <2>2. ASSUME NEW i \in DOMAIN toBrowser', NEW k \in DOMAIN toBrowser', i < k,
               Refuses(toBrowser'[i]), Delta(toBrowser'[k])
        PROVE  \E j \in DOMAIN toBrowser' : i < j /\ j < k /\ Accepts(toBrowser'[j])
    <3>1. PICK j \in DOMAIN toBrowser : i + 1 < j /\ j < k + 1 /\ Accepts(toBrowser[j])
      <4>1. /\ i + 1 \in DOMAIN toBrowser /\ k + 1 \in DOMAIN toBrowser /\ i + 1 < k + 1
            /\ toBrowser'[i] = toBrowser[i + 1] /\ toBrowser'[k] = toBrowser[k + 1]
        BY <1>1, <2>2
      <4>2. QED
        BY <2>2, <4>1 DEF Stream, Silent
    <3>2. j # 1 /\ i \in Nat /\ k \in Nat /\ j \in Nat
      BY <1>1, <3>1
    <3>3. j - 1 \in DOMAIN toBrowser' /\ i < j - 1 /\ j - 1 < k /\ Accepts(toBrowser'[j - 1])
      BY <1>6, <3>1, <3>2
    <3>4. QED
      BY <3>3
  <2>3. ASSUME NEW i \in DOMAIN toBrowser', NEW k \in DOMAIN toBrowser', i < k,
               toBrowser'[i].kind = "archived"
        PROVE  ~Datum(toBrowser'[k]) /\ ~Accepts(toBrowser'[k])
    <3>1. /\ i + 1 \in DOMAIN toBrowser /\ k + 1 \in DOMAIN toBrowser /\ i + 1 < k + 1
          /\ toBrowser'[i] = toBrowser[i + 1] /\ toBrowser'[k] = toBrowser[k + 1]
      BY <1>1, <2>3
    <3>2. QED
      BY <2>3, <3>1 DEF Stream, Silent
  <2>4. ASSUME NEW i \in DOMAIN toBrowser', Refuses(toBrowser'[i]), subscribed
        PROVE  \E j \in DOMAIN toBrowser' : i < j /\ Accepts(toBrowser'[j])
    <3>1. PICK j \in DOMAIN toBrowser : i + 1 < j /\ Accepts(toBrowser[j])
      BY <1>1, <2>4 DEF Stream, Silent
    <3>2. j # 1 /\ i \in Nat /\ j \in Nat
      BY <1>1, <3>1
    <3>3. j - 1 \in DOMAIN toBrowser' /\ i < j - 1 /\ Accepts(toBrowser'[j - 1])
      BY <1>6, <3>1, <3>2
    <3>4. QED
      BY <3>3
  <2>5. ASSUME NEW i \in DOMAIN toBrowser', toBrowser'[i].kind = "archived"
        PROVE  life \in {"archiving", "archived"}
    BY <1>1, <2>5 DEF Stream, Silent
  <2>6. life = "loaded" => ~subscribed
    BY DEF Stream, Silent
  <2>7. QED
    BY <2>1, <2>2, <2>3, <2>4, <2>5, <2>6 DEF Silent, Refuses, Accepts, Delta, Datum
<1>9. Continued'
  <2>1. cache' = cache /\ (Visible' <=> Visible) /\ subscribed' = subscribed /\ NoEntry' = NoEntry
    BY DEF entry, session, Visible
  <2>2. \A i \in DOMAIN toBrowser : Datum(toBrowser[i]) => toBrowser[i].rev \in Nat
    BY <1>3, MessageTypes DEF Datum
  <2>3. ASSUME NEW x \in Int, NEW n, n = x, Holds(n) \/ (Datum(m) /\ m.rev >= n)
        PROVE  Holds(n)'
    <3>1. CASE Holds(n)
      BY <3>1
    <3>2. CASE Datum(m) /\ m.rev >= n
      <4>1. Holds(m.rev)' /\ m.rev \in Nat
        <5>1. 1 \in DOMAIN toBrowser
          BY TakeTypes
        <5>2. QED
          BY <2>2, <3>2, <5>1
      <4>2. held'.rev \in Nat
        BY DEF TInv, TypeOK, CacheTypeOK, Held
      <4>3. QED
        BY <2>3, <3>2, <4>1, <4>2 DEF Holds
    <3>3. QED
      BY <2>3, <3>1, <3>2
  <2>4. ASSUME NEW i \in DOMAIN toBrowser', Delta(toBrowser'[i])
        PROVE  \/ Holds(toBrowser[i].rev - 1)'
               \/ \E j \in DOMAIN toBrowser' :
                     j < i /\ Datum(toBrowser'[j]) /\ toBrowser'[j].rev + 1 >= toBrowser'[i].rev
    <3>1. i + 1 \in DOMAIN toBrowser /\ toBrowser'[i] = toBrowser[i + 1] /\ i \in Nat
      BY <1>1
    <3>2. PICK n : n = toBrowser'[i].rev
      OBVIOUS
    <3>3. n \in Nat /\ n = toBrowser[i + 1].rev
      BY <2>2, <2>4, <3>1, <3>2 DEF Delta, Datum
    <3>4. \/ Holds(n - 1)
          \/ \E j \in DOMAIN toBrowser :
                j < i + 1 /\ Datum(toBrowser[j]) /\ toBrowser[j].rev + 1 >= n
      BY <2>4, <3>1, <3>3 DEF Stream, Continued
    <3>5. CASE Holds(n - 1) \/ (Datum(m) /\ m.rev + 1 >= n)
      <4>1. Holds(n - 1)'
        <5>1. Datum(m) => m.rev \in Nat
          <6>1. 1 \in DOMAIN toBrowser
            BY TakeTypes
          <6>2. QED
            BY <2>2, <6>1
        <5>2. Holds(n - 1) \/ (Datum(m) /\ m.rev >= n - 1)
          BY <3>3, <3>5, <5>1
        <5>3. n - 1 \in Int
          BY <3>3
        <5>4. QED
          BY <2>3, <5>2, <5>3
      <4>2. QED
        BY <3>2, <4>1 DEF Holds
    <3>6. ASSUME NEW j \in DOMAIN toBrowser, j # 1,
                 j < i + 1, Datum(toBrowser[j]), toBrowser[j].rev + 1 >= n
          PROVE  \E k \in DOMAIN toBrowser' :
                    k < i /\ Datum(toBrowser'[k]) /\ toBrowser'[k].rev + 1 >= toBrowser'[i].rev
      <4>1. j - 1 \in DOMAIN toBrowser' /\ toBrowser'[j - 1] = toBrowser[j] /\ j \in Nat
        BY <1>6, <3>6
      <4>2. j - 1 < i
        BY <3>1, <3>6, <4>1
      <4>3. QED
        BY <3>2, <3>6, <4>1, <4>2
    <3>7. QED
      BY <3>4, <3>5, <3>6
  <2>5. ASSUME subscribed, Visible
        PROVE  /\ cache # NoEntry
               /\ \/ Holds(cache.rev)'
                  \/ \E j \in DOMAIN toBrowser' :
                        Datum(toBrowser'[j]) /\ toBrowser'[j].rev >= cache.rev
    <3>1. /\ cache # NoEntry
          /\ \/ Holds(cache.rev)
             \/ \E j \in DOMAIN toBrowser : Datum(toBrowser[j]) /\ toBrowser[j].rev >= cache.rev
      BY <2>5 DEF Stream, Continued
    <3>2. PICK n : n = cache.rev
      OBVIOUS
    <3>3. n \in Int
      BY <3>2 DEF TInv, TypeOK, RuntimeTypeOK
    <3>4. CASE Holds(n) \/ (Datum(m) /\ m.rev >= n)
      <4>1. Holds(n)'
        BY <2>3, <3>3, <3>4
      <4>2. QED
        BY <2>1, <3>1, <3>2, <4>1 DEF Holds
    <3>5. ASSUME NEW j \in DOMAIN toBrowser, j # 1, Datum(toBrowser[j]), toBrowser[j].rev >= n
          PROVE  \E k \in DOMAIN toBrowser' :
                    Datum(toBrowser'[k]) /\ toBrowser'[k].rev >= cache.rev
      BY <1>6, <3>2, <3>5
    <3>6. QED
      BY <3>1, <3>2, <3>4, <3>5
  <2>6. QED
    BY <2>1, <2>4, <2>5 DEF Continued, Delta, Datum, Holds
<1>10. QED
  BY <1>4, <1>5, <1>7, <1>8, <1>9 DEF Stream

\* The first message is taken, and nothing that is left needs what is forgotten.
LEMMA ClearStream ==
    ASSUME TInv, TInv', Stream, toBrowser # <<>>, toBrowser' = Tail(toBrowser),
           UNCHANGED <<generation, session, entry, subscribed, toServer>>,
           \A i \in DOMAIN toBrowser : i # 1 =>
              ~Datum(toBrowser[i]) /\ ~Accepts(toBrowser[i]),
           \/ toServer = <<>>
           \/ life \in {"archiving", "archived"} /\ acks' = acks /\ toBrowser[1].kind # "ack",
           ~(subscribed /\ Visible)
    PROVE  Stream'
<1>1. /\ toBrowser \in Seq(ToBrowser) /\ toBrowser' \in Seq(ToBrowser)
      /\ Len(toBrowser') = Len(toBrowser) - 1 /\ Len(toBrowser) \in Nat /\ Len(toBrowser') \in Nat
      /\ DOMAIN toBrowser = 1 .. Len(toBrowser) /\ DOMAIN toBrowser' = 1 .. Len(toBrowser')
      /\ \A i \in DOMAIN toBrowser' : /\ i + 1 \in DOMAIN toBrowser
                                      /\ toBrowser'[i] = toBrowser[i + 1]
      /\ \A n \in 0 .. Len(toBrowser') :
            /\ Count(toBrowser', "ack", n) \in Nat
            /\ Acked(n + 1) = Count(toBrowser', "ack", n)
                                + IF toBrowser[1].kind = "ack" THEN 1 ELSE 0
  BY TakeTypes DEF TInv, TypeOK, RuntimeTypeOK
<1>2. \A i \in DOMAIN toBrowser' : ~Datum(toBrowser'[i]) /\ ~Accepts(toBrowser'[i])
  <2>1. ASSUME NEW i \in DOMAIN toBrowser'
        PROVE  ~Datum(toBrowser'[i]) /\ ~Accepts(toBrowser'[i])
    <3>1. i + 1 \in DOMAIN toBrowser /\ i + 1 # 1 /\ toBrowser'[i] = toBrowser[i + 1]
      BY <1>1
    <3>2. QED
      BY <3>1
  <2>2. QED
    BY <2>1
<1>3. Genuine'
  BY <1>2 DEF Genuine, Carries, Datum
<1>4. Answered'
  BY <1>2 DEF Answered, Accepts, Datum
<1>5. /\ life' = life /\ (Visible' <=> Visible) /\ subscribed' = subscribed
      /\ toServer' = toServer /\ generation' = generation
  BY DEF session, Visible
<1>6. Continued'
  BY <1>2, <1>5 DEF Continued, Delta, Datum
<1>7. Silent'
  <2>1. \A i \in DOMAIN toBrowser' : ~(Refuses(toBrowser'[i]) /\ subscribed)
    <3>1. ASSUME NEW i \in DOMAIN toBrowser', Refuses(toBrowser'[i]), subscribed
          PROVE  FALSE
      <4>1. PICK j \in DOMAIN toBrowser : i + 1 < j /\ Accepts(toBrowser[j])
        BY <1>1, <3>1 DEF Stream, Silent
      <4>2. j # 1
        BY <1>1, <4>1
      <4>3. QED
        BY <4>1, <4>2
    <3>2. QED
      BY <3>1
  <2>2. \A i \in DOMAIN toBrowser' :
           toBrowser'[i].kind = "archived" => life \in {"archiving", "archived"}
    BY <1>1 DEF Stream, Silent
  <2>3. life = "loaded" => ~subscribed
    BY DEF Stream, Silent
  <2>4. QED
    BY <1>2, <1>5, <2>1, <2>2, <2>3 DEF Silent, Refuses, Accepts, Delta, Datum
<1>8. InFlight'
  <2>1. CASE toServer = <<>>
    BY <1>5, <2>1 DEF InFlight
  <2>2. CASE life \in {"archiving", "archived"} /\ acks' = acks /\ toBrowser[1].kind # "ack"
    <3>1. Acked(Len(toBrowser))' = Acked(Len(toBrowser))
      <4>1. PICK n : n = Len(toBrowser')
        OBVIOUS
      <4>2. n \in 0 .. Len(toBrowser') /\ n + 1 = Len(toBrowser)
        BY <1>1, <4>1
      <4>3. Acked(n + 1) = Count(toBrowser', "ack", n) /\ Count(toBrowser', "ack", n) \in Nat
        BY <1>1, <2>2, <4>2
      <4>4. QED
        BY <4>1, <4>2, <4>3 DEF Acked
    <3>2. QED
      BY <1>5, <2>2, <3>1 DEF InFlight, Stream
  <2>3. QED
    BY <2>1, <2>2
<1>9. QED
  BY <1>3, <1>4, <1>6, <1>7, <1>8 DEF Stream

\* What holds of messages that come behind the others, for the whole stream.
LEMMA MoreStream ==
    ASSUME TypeOK, Stream, published' \in Seq(Held), Extends(published', published),
           UNCHANGED <<generation, acks, held, last>>,
           toBrowser' \in Seq(ToBrowser), Extends(toBrowser', toBrowser),
           life' = life \/ (life = "archiving" /\ life' = "archived"),
           life' = "loaded" => ~subscribed',
           subscribed' => subscribed \/ Accepts(toBrowser'[Len(toBrowser')]),
           NEW N, N = Len(toBrowser) + 1 .. Len(toBrowser'),
           \A i \in N : Carries(toBrowser[i])',
           \A i \in N : Accepts(toBrowser'[i]) =>
              /\ acks[Acked(i)'].wants
              /\ toBrowser'[i].current \/ (i > 1 /\ toBrowser'[i - 1].kind = "snapshot"),
           \A i \in N : Accepts(toBrowser'[i]) /\ toBrowser'[i].current =>
              acks[Acked(i)'].known.gen = generation /\ Holds(acks[Acked(i)'].known.rev),
           \A i \in N : toBrowser'[i].kind = "snapshot" =>
              i + 1 \in N /\ Accepts(toBrowser'[i + 1]),
           \A i \in N : Refuses(toBrowser'[i]) => i = Len(toBrowser') /\ ~subscribed',
           \A i \in N : toBrowser'[i].kind = "archived" =>
              i = Len(toBrowser') /\ life' \in {"archiving", "archived"},
           \A i \in N : Delta(toBrowser'[i]) => subscribed,
           \A i \in N : Datum(toBrowser'[i]) \/ Accepts(toBrowser'[i]) => life = "active",
           \A i \in N : Delta(toBrowser'[i]) =>
              \/ Holds(toBrowser'[i].rev - 1)
              \/ \E j \in DOMAIN toBrowser' :
                    j < i /\ Datum(toBrowser'[j]) /\ toBrowser'[j].rev + 1 >= toBrowser'[i].rev,
           subscribed' /\ Visible' =>
              /\ cache' # NoEntry
              /\ \/ Holds(cache'.rev)
                 \/ \E j \in DOMAIN toBrowser' :
                       Datum(toBrowser'[j]) /\ toBrowser'[j].rev >= cache'.rev,
           InFlight'
    PROVE  Stream'
<1>1. /\ Len(toBrowser) \in Nat /\ Len(toBrowser') \in Nat /\ Len(toBrowser) <= Len(toBrowser')
      /\ DOMAIN toBrowser = 1 .. Len(toBrowser) /\ DOMAIN toBrowser' = 1 .. Len(toBrowser')
      /\ \A i \in DOMAIN toBrowser : i \in DOMAIN toBrowser' /\ toBrowser'[i] = toBrowser[i]
      /\ \A i \in DOMAIN toBrowser' : i \in DOMAIN toBrowser \/ i \in N
      /\ \A i \in DOMAIN toBrowser, k \in N : i < k
      /\ \A i, k \in DOMAIN toBrowser' : i < k => i # Len(toBrowser')
      /\ \A i \in DOMAIN toBrowser : /\ i \in Nat /\ 1 .. i \subseteq DOMAIN toBrowser
                                     /\ i > 1 => i - 1 \in DOMAIN toBrowser
      /\ \A i \in DOMAIN toBrowser' : /\ Len(toBrowser') \in DOMAIN toBrowser'
                                      /\ i # Len(toBrowser') => i < Len(toBrowser')
  <2>1. toBrowser \in Seq(ToBrowser)
    BY DEF TypeOK, RuntimeTypeOK
  <2>2. PICK a, b : a = Len(toBrowser) /\ b = Len(toBrowser')
    OBVIOUS
  <2>3. a \in Nat /\ b \in Nat /\ DOMAIN toBrowser = 1 .. a /\ DOMAIN toBrowser' = 1 .. b
    BY <2>1, <2>2
  <2>4. a <= b /\ \A i \in 1 .. a : toBrowser'[i] = toBrowser[i]
    BY <2>2 DEF Extends
  <2>5. N = a + 1 .. b
    BY <2>2
  <2>6. /\ \A i \in 1 .. a : i \in 1 .. b
        /\ \A i \in 1 .. b : i \in 1 .. a \/ i \in N
        /\ \A i \in 1 .. a, k \in N : i < k
        /\ \A i, k \in 1 .. b : i < k => i # b
        /\ \A i \in 1 .. a : i \in Nat /\ 1 .. i \subseteq 1 .. a /\ (i > 1 => i - 1 \in 1 .. a)
        /\ \A i \in 1 .. b : b \in 1 .. b /\ (i # b => i < b)
    BY ONLY <2>3, <2>4, <2>5
  <2>7. QED
    BY <2>2, <2>3, <2>4, <2>6
<1>2. \A n : Holds(n)' <=> Holds(n)
  BY DEF Holds
<1>3. \A i \in DOMAIN toBrowser : Acked(i)' = Acked(i)
  <2>1. ASSUME NEW i \in DOMAIN toBrowser PROVE Acked(i)' = Acked(i)
    <3>1. i \in Nat /\ \A j \in 1 .. i : toBrowser'[j] = toBrowser[j]
      BY <1>1
    <3>2. \A j \in 1 .. i : (toBrowser'[j].kind = "ack") <=> (toBrowser[j].kind = "ack")
      BY <3>1
    <3>3. Count(toBrowser', "ack", i) = Count(toBrowser, "ack", i)
      BY ONLY <3>1, <3>2, CountSame
    <3>4. QED
      BY <3>3 DEF Acked
  <2>2. QED
    BY <2>1
<1>4. Genuine'
  <2>1. ASSUME NEW i \in DOMAIN toBrowser PROVE Carries(toBrowser[i])'
    <3>1. PICK x : x = toBrowser[i]
      OBVIOUS
    <3>2. Carries(x)
      BY <3>1 DEF Stream, Genuine
    <3>3. generation' = generation /\ held' = held /\ last' = last
      OBVIOUS
    <3>4. Carries(x)'
      BY ONLY <3>2, <3>3, TypeOK, published' \in Seq(Held), Extends(published', published),
        CarriesStays
    <3>5. x = toBrowser'[i]
      BY <1>1, <3>1
    <3>6. QED
      BY <3>4, <3>5
  <2>2. QED
    BY <1>1, <2>1 DEF Genuine
<1>5. Answered'
  <2>1. ASSUME NEW i \in DOMAIN toBrowser', Accepts(toBrowser'[i])
        PROVE  /\ acks'[Acked(i)'].wants
               /\ \/ toBrowser'[i].current
                  \/ i > 1 /\ toBrowser'[i - 1].kind = "snapshot"
                  \/ i = 1 /\ acks'[1].noted
    <3>1. CASE i \in N
      BY <2>1, <3>1
    <3>2. CASE i \in DOMAIN toBrowser
      <4>1. /\ acks[Acked(i)].wants
            /\ \/ toBrowser[i].current
               \/ i > 1 /\ toBrowser[i - 1].kind = "snapshot"
               \/ i = 1 /\ acks[1].noted
        BY <1>1, <2>1, <3>2 DEF Stream, Answered
      <4>2. i > 1 => toBrowser'[i - 1] = toBrowser[i - 1]
        BY <1>1, <3>2
      <4>3. QED
        BY <1>1, <1>3, <3>2, <4>1, <4>2
    <3>3. QED
      BY <1>1, <3>1, <3>2
  <2>2. ASSUME NEW i \in DOMAIN toBrowser', Accepts(toBrowser'[i]), toBrowser'[i].current
        PROVE  /\ acks[Acked(i)'].known.gen = generation
               /\ Holds(acks[Acked(i)'].known.rev)
    <3>1. CASE i \in N
      BY <2>2, <3>1
    <3>2. CASE i \in DOMAIN toBrowser
      <4>1. Accepts(toBrowser[i]) /\ toBrowser[i].current /\ Acked(i)' = Acked(i)
        BY <1>1, <1>3, <2>2, <3>2
      <4>2. acks[Acked(i)].known.gen = generation /\ Holds(acks[Acked(i)].known.rev)
        BY <3>2, <4>1 DEF Stream, Answered
      <4>3. QED
        BY <4>1, <4>2
    <3>3. QED
      BY <1>1, <3>1, <3>2
  <2>3. ASSUME NEW i \in DOMAIN toBrowser', toBrowser'[i].kind = "snapshot"
        PROVE  i + 1 \in DOMAIN toBrowser' /\ Accepts(toBrowser'[i + 1])
    <3>1. CASE i \in N
      BY <1>1, <2>3, <3>1
    <3>2. CASE i \in DOMAIN toBrowser
      BY <1>1, <2>3, <3>2 DEF Stream, Answered
    <3>3. QED
      BY <1>1, <3>1, <3>2
  <2>4. ASSUME NEW i \in DOMAIN toBrowser', Accepts(toBrowser'[i]), toBrowser'[i].current
        PROVE  /\ acks'[Acked(i)'].known.gen = generation'
               /\ Holds(acks[Acked(i)].known.rev)'
    BY <2>2, <2>4 DEF Holds
  <2>5. QED
    BY <2>1, <2>3, <2>4 DEF Answered, Accepts
<1>6. Silent'
  <2>1. ASSUME NEW i \in DOMAIN toBrowser', NEW k \in DOMAIN toBrowser', i < k,
               Refuses(toBrowser'[i]), Delta(toBrowser'[k])
        PROVE  \E j \in DOMAIN toBrowser' : i < j /\ j < k /\ Accepts(toBrowser'[j])
    <3>1. i \notin N
      BY <1>1, <2>1
    <3>2. i \in DOMAIN toBrowser /\ toBrowser'[i] = toBrowser[i]
      BY <1>1, <3>1
    <3>3. CASE k \in N
      <4>1. subscribed
        BY <2>1, <3>3
      <4>2. PICK j \in DOMAIN toBrowser : i < j /\ Accepts(toBrowser[j])
        BY <2>1, <3>2, <4>1 DEF Stream, Silent
      <4>3. QED
        BY <1>1, <3>3, <4>2
    <3>4. CASE k \in DOMAIN toBrowser
      <4>1. PICK j \in DOMAIN toBrowser : i < j /\ j < k /\ Accepts(toBrowser[j])
        BY <1>1, <2>1, <3>2, <3>4 DEF Stream, Silent
      <4>2. QED
        BY <1>1, <4>1
    <3>5. QED
      BY <1>1, <3>3, <3>4
  <2>2. ASSUME NEW i \in DOMAIN toBrowser', NEW k \in DOMAIN toBrowser', i < k,
               toBrowser'[i].kind = "archived"
        PROVE  ~Datum(toBrowser'[k]) /\ ~Accepts(toBrowser'[k])
    <3>1. i \notin N
      BY <1>1, <2>2
    <3>2. i \in DOMAIN toBrowser /\ toBrowser'[i] = toBrowser[i]
      BY <1>1, <3>1
    <3>3. life # "active"
      BY <2>2, <3>2 DEF Stream, Silent
    <3>4. CASE k \in N
      BY <3>3, <3>4
    <3>5. CASE k \in DOMAIN toBrowser
      BY <1>1, <2>2, <3>2, <3>5 DEF Stream, Silent
    <3>6. QED
      BY <1>1, <3>4, <3>5
  <2>3. ASSUME NEW i \in DOMAIN toBrowser', Refuses(toBrowser'[i]), subscribed'
        PROVE  \E j \in DOMAIN toBrowser' : i < j /\ Accepts(toBrowser'[j])
    <3>1. i \in DOMAIN toBrowser /\ toBrowser'[i] = toBrowser[i]
      BY <1>1, <2>3
    <3>2. CASE subscribed
      BY <1>1, <2>3, <3>1, <3>2 DEF Stream, Silent
    <3>3. CASE ~subscribed /\ Accepts(toBrowser'[Len(toBrowser')])
      <4>1. toBrowser'[i].kind = "ack" /\ ~toBrowser'[i].accepted
        BY <2>3 DEF Refuses
      <4>2. i # Len(toBrowser')
        BY <3>3, <4>1 DEF Accepts
      <4>3. Len(toBrowser') \in DOMAIN toBrowser' /\ i < Len(toBrowser')
        BY <1>1, <3>1, <4>2
      <4>4. QED
        BY <3>3, <4>3
    <3>4. QED
      BY <2>3, <3>2, <3>3
  <2>4. ASSUME NEW i \in DOMAIN toBrowser', toBrowser'[i].kind = "archived"
        PROVE  life' \in {"archiving", "archived"}
    <3>1. CASE i \in N
      BY <2>4, <3>1
    <3>2. CASE i \in DOMAIN toBrowser
      BY <1>1, <2>4, <3>2 DEF Stream, Silent
    <3>3. QED
      BY <1>1, <3>1, <3>2
  <2>5. QED
    BY <2>1, <2>2, <2>3, <2>4 DEF Silent, Refuses, Accepts, Delta, Datum
<1>7. Continued'
  <2>1. ASSUME NEW i \in DOMAIN toBrowser', Delta(toBrowser'[i])
        PROVE  \/ Holds(toBrowser'[i].rev - 1)
               \/ \E j \in DOMAIN toBrowser' :
                     j < i /\ Datum(toBrowser'[j]) /\ toBrowser'[j].rev + 1 >= toBrowser'[i].rev
    <3>1. CASE i \in N
      BY <2>1, <3>1
    <3>2. CASE i \in DOMAIN toBrowser
      <4>1. toBrowser'[i] = toBrowser[i]
        BY <1>1, <3>2
      <4>2. \/ Holds(toBrowser[i].rev - 1)
            \/ \E j \in DOMAIN toBrowser :
                  j < i /\ Datum(toBrowser[j]) /\ toBrowser[j].rev + 1 >= toBrowser[i].rev
        BY <2>1, <3>2, <4>1 DEF Stream, Continued
      <4>3. QED
        BY <1>1, <4>1, <4>2
    <3>3. QED
      BY <1>1, <3>1, <3>2
  <2>2. QED
    BY <2>1 DEF Continued, Delta, Datum, Holds
<1>8. QED
  BY <1>4, <1>5, <1>6, <1>7 DEF Stream

\* Subscriptions under way, where no acknowledgement was added or taken.
LEMMA FlightStays ==
    ASSUME InFlight, UNCHANGED <<generation, toServer, acks, held>>,
           Acked(Len(toBrowser))' = Acked(Len(toBrowser)),
           life' \in {"active", "loaded"} => life \in {"active", "loaded"}
    PROVE  InFlight'
BY DEF InFlight, Holds

\* The announcement of an archiving.
LEMMA AnnounceStream ==
    ASSUME TInv, Stream, Announce, UNCHANGED cacheVars
    PROVE  Stream'
<1>1. /\ TypeOK /\ published \in Seq(Held) /\ published' = published /\ published' \in Seq(Held)
      /\ Extends(published', published)
  BY DEF TInv, TypeOK, RuntimeTypeOK, Held, Announce, entry, Extends
<1>2. /\ life = "archiving" /\ life' = "archived"
      /\ UNCHANGED <<generation, subscribed, toServer, acks, held, last, cache>>
  BY DEF Announce, cacheVars, store, transport, entry
<1>3. InFlight'
  <2>1. Acked(Len(toBrowser))' = Acked(Len(toBrowser))
    BY AnnounceTypes DEF Acked
  <2>2. QED
    BY <1>2, <2>1, FlightStays DEF Stream
<1> DEFINE N == Len(toBrowser) + 1 .. Len(toBrowser')
<1>4. /\ toBrowser' \in Seq(ToBrowser) /\ Extends(toBrowser', toBrowser)
      /\ \A i \in N : toBrowser'[i].kind = "archived"
      /\ \A i \in N : i = Len(toBrowser')
  <2>1. Extends(toBrowser', toBrowser) /\ Len(toBrowser') <= Len(toBrowser) + 1
        /\ \A i \in N : toBrowser'[i].kind = "archived"
    BY AnnounceTypes
  <2>2. toBrowser' \in Seq(ToBrowser) /\ Len(toBrowser) \in Nat /\ Len(toBrowser') \in Nat
    BY AnnounceTypes DEF TInv, TypeOK, RuntimeTypeOK
  <2>3. QED
    BY <2>1, <2>2
<1> HIDE DEF N
<1>5. PICK M : M = N
  OBVIOUS
<1>6. \A i \in M : ~Datum(toBrowser'[i]) /\ ~Accepts(toBrowser'[i]) /\ ~Refuses(toBrowser'[i])
                     /\ ~Delta(toBrowser'[i]) /\ toBrowser'[i].kind # "snapshot"
  BY <1>4, <1>5 DEF Datum, Accepts, Refuses, Delta
<1>7. \A i \in M : Carries(toBrowser[i])'
  BY <1>6 DEF Carries, Datum
<1>8. /\ subscribed' => subscribed
      /\ ~Visible' /\ life' # "loaded"
      /\ \A i \in M : i = Len(toBrowser') /\ life' \in {"archiving", "archived"}
      /\ M = Len(toBrowser) + 1 .. Len(toBrowser')
  BY <1>2, <1>4, <1>5 DEF Visible, N
<1>9. QED
  BY ONLY <1>1, <1>2, <1>3, <1>4, <1>6, <1>7, <1>8, Stream, MoreStream

\* A publication continues what the subscriber has.
LEMMA PushStream ==
    ASSUME TInv, Ordered, Cached, Kept, Stream, Visible, NEW new \in {Current, Recomputed},
           Keep(new), Push(new),
           UNCHANGED <<generation, life, subscribed, toServer, acks, held, last>>
    PROVE  Stream'
<1>1. /\ new \in Entries /\ new # NoEntry /\ new.rev \in Nat \ {0} /\ cache' = new
      /\ published' \in Seq(Held) /\ Extends(published', published)
      /\ Was([gen |-> generation, rev |-> new.rev, value |-> new.value])'
      /\ new # cache => new.rev = cache.rev + 1
      /\ \A i \in DOMAIN published :
            ~Before([gen |-> generation, rev |-> new.rev], published[i])
  BY Reading
<1>2. TypeOK /\ toBrowser \in Seq(ToBrowser) /\ cache \in Entries
      /\ life = "active" /\ generation \in Nat
  BY DEF TInv, TypeOK, RuntimeTypeOK, Entries, Visible
<1>3. /\ toBrowser' \in Seq(ToBrowser) /\ Extends(toBrowser', toBrowser)
      /\ Len(toBrowser') <= Len(toBrowser) + 1
      /\ Count(toBrowser', "ack", Len(toBrowser')) = Acked(Len(toBrowser))
      /\ ~subscribed => toBrowser' = toBrowser
  BY <1>1, PushTypes
<1>4. CASE ~subscribed \/ new = cache
  <2>1. toBrowser' = toBrowser
    <3>1. CASE ~subscribed
      BY <1>3, <3>1
    <3>2. CASE new = cache
      <4>1. toBrowser' = toBrowser \o <<>>
        BY <3>2 DEF Push, Publication
      <4>2. QED
        BY <1>2, <4>1, ConcatEmptySeq
    <3>3. QED
      BY <1>4, <3>1, <3>2
  <2>2. /\ life' \in {"active", "loaded"} => life \in {"active", "loaded"}
        /\ life' \in Lives /\ life' # "loaded"
        /\ subscribed /\ life' = "active" => life = "active" /\ cache' = cache
        /\ \A n : Holds(n) => Holds(n)'
    BY <1>1, <1>2, <1>4 DEF Lives, Holds
  <2>3. QED
    BY <1>1, <1>2, <2>1, <2>2, SameStream
<1>5. CASE subscribed /\ new # cache
  <2> DEFINE patch == PatchFrom(cache.value, new.value)
             whole == cache = NoEntry \/ DOMAIN patch = Fields
             e == [kind |-> IF whole THEN "update" ELSE "patch",
                   gen |-> generation, rev |-> new.rev,
                   change |-> IF whole THEN new.value ELSE patch]
  <2>1. PICK m : m = e
    OBVIOUS
  <2>2. toBrowser' = toBrowser \o <<m>>
    BY <1>1, <1>5, <2>1 DEF Push, Publication
  <2>3. /\ m.gen = generation /\ m.rev = new.rev /\ m.kind \in {"update", "patch"}
        /\ m.kind = "update" => m.change = new.value
        /\ m.kind = "patch" => m.change = patch /\ cache # NoEntry
    BY <2>1
  <2>4. Carries(m)'
    <3>1. Datum(m) /\ generation' = generation /\ m.rev >= 1
      BY <1>1, <2>3 DEF Datum
    <3>2. m.kind \in {"snapshot", "update"} => Was(Entry(m))'
      <4>1. m.kind = "update" => Entry(m) = [gen |-> generation, rev |-> new.rev,
                                             value |-> new.value]
        BY <2>3 DEF Entry
      <4>2. PICK x : x = [gen |-> generation, rev |-> new.rev, value |-> new.value]
        OBVIOUS
      <4>3. Was(x)'
        BY <1>1, <4>2
      <4>4. QED
        BY <2>3, <4>1, <4>2, <4>3
    <3>3. m.kind = "patch" => Leads(m)'
      <4>1. ASSUME m.kind = "patch" PROVE Leads(m)'
        <5>1. PICK v, w : v = cache.value /\ w = new.value
          OBVIOUS
        <5>2. v \in Value /\ w \in Value
          BY <1>1, <1>2, <5>1 DEF Entries
        <5>3. Patched(v, m.change) = w /\ Patched(w, m.change) = w
          BY <2>3, <4>1, <5>1, <5>2, PatchLeads
        <5>4. m.rev - 1 = cache.rev
          BY <1>1, <1>2, <1>5, <2>3 DEF Entries
        <5>5. Was([gen |-> m.gen, rev |-> m.rev - 1, value |-> v])'
          <6>1. PICK x : x = [gen |-> generation, rev |-> cache.rev, value |-> cache.value]
            OBVIOUS
          <6>2. Was(x)
            <7>1. /\ Len(published) \in DOMAIN published
                  /\ published[Len(published)] =
                       [gen |-> generation, rev |-> cache.rev, value |-> cache.value]
              BY <2>3, <4>1, CacheIsNewest
            <7>2. QED
              BY <6>1, <7>1 DEF Was
          <6>3. Was(x)'
            BY <1>1, <1>2, <6>2, WasStays
          <6>4. x = [gen |-> m.gen, rev |-> m.rev - 1, value |-> v]
            BY <2>3, <5>1, <5>4, <6>1
          <6>5. QED
            BY <6>3, <6>4
        <5>6. Was([gen |-> m.gen, rev |-> m.rev, value |-> w])'
          BY <1>1, <2>3, <5>1 DEF Was
        <5>7. QED
          BY <5>2, <5>3, <5>5, <5>6 DEF Leads
      <4>2. QED
        BY <4>1
    <3>4. held' = NoHeld /\ last' # NoVersion => ~Before(m, last')
      <4>1. ASSUME held = NoHeld, last # NoVersion PROVE ~Before(m, last)
        <5>1. PICK i \in DOMAIN published : VersionOf(published[i]) = last
          BY <4>1 DEF Kept, Named
        <5>2. last.gen = published[i].gen /\ last.rev = published[i].rev
          BY <5>1 DEF VersionOf
        <5>3. ~Before([gen |-> generation, rev |-> new.rev], published[i])
          BY <1>1
        <5>4. QED
          BY <2>3, <5>2, <5>3 DEF Before
      <4>2. QED
        BY <4>1
    <3>5. QED
      BY <2>3, <3>1, <3>2, <3>3, <3>4 DEF Carries
  <2>5. PICK n : n = Len(toBrowser')
    OBVIOUS
  <2>6. m \in ToBrowser
    <3>1. toBrowser' = Append(toBrowser, m)
      BY <1>2, <2>2
    <3>2. Len(toBrowser') = Len(toBrowser) + 1 /\ toBrowser'[Len(toBrowser) + 1] = m
      BY <1>2, <3>1
    <3>3. Len(toBrowser) \in Nat
      BY <1>2
    <3>4. Len(toBrowser) + 1 \in DOMAIN toBrowser'
      BY <1>3, <3>2, <3>3
    <3>5. QED
      BY <1>3, <3>2, <3>4, ElementOfSeq
  <2>7. /\ n = Len(toBrowser) + 1 /\ n \in DOMAIN toBrowser' /\ toBrowser'[n] = m
        /\ Len(toBrowser) + 1 .. Len(toBrowser') = {n}
        /\ \A j \in DOMAIN toBrowser : j < n /\ j \in DOMAIN toBrowser' /\ toBrowser'[j] = toBrowser[j]
    <3>1. toBrowser' = Append(toBrowser, m) /\ Len(toBrowser) \in Nat
      BY <1>2, <2>2
    <3>2. Len(toBrowser') = Len(toBrowser) + 1 /\ toBrowser'[Len(toBrowser) + 1] = m
      BY <1>2, <2>6, <3>1
    <3>3. DOMAIN toBrowser = 1 .. Len(toBrowser) /\ DOMAIN toBrowser' = 1 .. Len(toBrowser')
      BY <1>2, <1>3
    <3>4. \A j \in 1 .. Len(toBrowser) : toBrowser'[j] = toBrowser[j]
      BY <1>3 DEF Extends
    <3>5. QED
      BY <2>5, <3>1, <3>2, <3>3, <3>4
  <2>8. /\ cache # NoEntry
        /\ Holds(cache.rev) \/ \E j \in DOMAIN toBrowser :
                                  Datum(toBrowser[j]) /\ toBrowser[j].rev >= cache.rev
    BY <1>5 DEF Stream, Continued
  <2>9. Delta(m) => \/ Holds(m.rev - 1)
                    \/ \E j \in DOMAIN toBrowser' :
                          j < n /\ Datum(toBrowser'[j]) /\ toBrowser'[j].rev + 1 >= m.rev
    <3>1. m.rev - 1 = cache.rev /\ m.rev = cache.rev + 1 /\ cache.rev \in Nat
      BY <1>1, <1>2, <1>5, <2>3 DEF Entries
    <3>2. CASE Holds(cache.rev)
      BY <3>1, <3>2
    <3>3. ASSUME NEW j \in DOMAIN toBrowser, Datum(toBrowser[j]), toBrowser[j].rev >= cache.rev
          PROVE  \E k \in DOMAIN toBrowser' :
                    k < n /\ Datum(toBrowser'[k]) /\ toBrowser'[k].rev + 1 >= m.rev
      <4>1. toBrowser[j].rev \in Nat
        BY <1>2, <3>3, MessageTypes DEF Datum
      <4>2. QED
        BY <2>7, <3>1, <3>3, <4>1
    <3>4. QED
      BY <2>8, <3>2, <3>3
  <2>10. InFlight'
    <3>1. Acked(Len(toBrowser))' = Acked(Len(toBrowser))
      BY <1>3 DEF Acked
    <3>2. QED
      BY <3>1, FlightStays DEF Stream
  <2>11. PICK M : M = {n}
    OBVIOUS
  <2>12. /\ ~Accepts(m) /\ ~Refuses(m) /\ m.kind # "snapshot" /\ m.kind # "archived" /\ Datum(m)
    BY <2>3 DEF Accepts, Refuses, Datum
  <2>13. \A i \in M : Carries(toBrowser[i])'
    BY <2>4, <2>7, <2>11
  <2>14. /\ \A i \in M : /\ ~Accepts(toBrowser'[i]) /\ ~Refuses(toBrowser'[i])
                         /\ toBrowser'[i].kind # "snapshot" /\ toBrowser'[i].kind # "archived"
         /\ \A i \in M : Delta(toBrowser'[i]) => subscribed
         /\ \A i \in M : Datum(toBrowser'[i]) \/ Accepts(toBrowser'[i]) => life = "active"
         /\ \A i \in M : Delta(toBrowser'[i]) =>
              \/ Holds(toBrowser'[i].rev - 1)
              \/ \E j \in DOMAIN toBrowser' :
                    j < i /\ Datum(toBrowser'[j]) /\ toBrowser'[j].rev + 1 >= toBrowser'[i].rev
         /\ M = Len(toBrowser) + 1 .. Len(toBrowser')
    BY <1>2, <1>5, <2>7, <2>9, <2>11, <2>12
  <2>15. subscribed' /\ Visible' =>
              /\ cache' # NoEntry
              /\ \/ Holds(cache'.rev)
                 \/ \E j \in DOMAIN toBrowser' :
                       Datum(toBrowser'[j]) /\ toBrowser'[j].rev >= cache'.rev
    BY <1>1, <2>3, <2>7, <2>12
  <2>16. /\ UNCHANGED <<generation, acks, held, last>> /\ life' = life /\ life' # "loaded"
         /\ subscribed' => subscribed
    BY <1>2
  <2>17. QED
    BY ONLY <1>1, <1>2, <1>3, <2>10, <2>13, <2>14, <2>15, <2>16, Stream, MoreStream
<1>6. QED
  BY <1>4, <1>5

\* A subscription is answered: with the acknowledgement the browser waits for, and
\* the snapshot it needs.
LEMMA HandleStream ==
    ASSUME TInv, Ordered, Cached, Kept, Stream, Handle, UNCHANGED cacheVars
    PROVE  Stream'
<1>1. PICK m : m = Head(toServer)
  OBVIOUS
<1>2. /\ TypeOK /\ toServer # <<>> /\ toServer' = Tail(toServer)
      /\ UNCHANGED <<generation, session, socket, faults>>
  BY DEF TInv, Handle
<1>3. /\ m = toServer[1] /\ m \in ToServer
      /\ toServer' \in Seq(ToServer) /\ Len(toServer') = Len(toServer) - 1
      /\ \A i \in DOMAIN toServer' : i + 1 \in DOMAIN toServer /\ toServer'[i] = toServer[i + 1]
      /\ 1 \in DOMAIN toServer /\ \A i \in DOMAIN toServer' : i \in Nat
  <2>1. /\ m = toServer[1] /\ m \in ToServer
        /\ toServer' \in Seq(ToServer) /\ Len(toServer') = Len(toServer) - 1
        /\ \A i \in DOMAIN toServer' : i + 1 \in DOMAIN toServer /\ toServer'[i] = toServer[i + 1]
    BY <1>1, <1>2, HandleCounts
  <2>2. toServer \in Seq(ToServer)
    BY <1>2 DEF TypeOK, RuntimeTypeOK
  <2>3. Len(toServer) \in Nat \ {0} /\ DOMAIN toServer = 1 .. Len(toServer)
    BY <1>2, <2>2, EmptySeq
  <2>4. QED
    BY <2>1, <2>3
<1>4. PICK a : a = Acked(Len(toBrowser)) /\ a \in Nat
  BY Waiting DEF Stream
<1>5. /\ m.kind = "subscribe"
      /\ acks[a + 1].wants = m.wants /\ acks[a + 1].known = m.known
      /\ life \in {"active", "loaded"} /\ m.known.gen = generation => Holds(m.known.rev)
  BY <1>3, <1>4 DEF Stream, InFlight
<1>6. ReplaceSubscriptions(m)
  BY <1>1, <1>5 DEF Handle
<1>7. PICK n : n = Len(toBrowser')
  OBVIOUS
<1>8. /\ toBrowser' \in Seq(ToBrowser) /\ Extends(toBrowser', toBrowser)
      /\ IF Accepting(m) /\ ~Confirming(m)
         THEN n = Len(toBrowser) + 2 /\ toBrowser'[Len(toBrowser) + 1] = SnapshotOf(Current)
         ELSE n = Len(toBrowser) + 1
      /\ toBrowser'[n] = Answer(m)
      /\ Count(toBrowser', "ack", n) = a + 1
  BY <1>3, <1>4, <1>5, <1>6, <1>7, Replies
<1>9. /\ acks' = acks /\ held' = held /\ last' = last /\ generation' = generation /\ life' = life
      /\ \A x : Holds(x)' <=> Holds(x)
  BY <1>2 DEF cacheVars, store, transport, session, Holds
<1>10. Acked(n)' = a + 1 /\ Acked(Len(toBrowser))' = a + 1
  BY <1>7, <1>8 DEF Acked
<1>11. InFlight'
  <2>1. ASSUME NEW i \in DOMAIN toServer'
        PROVE  /\ toServer'[i].kind = "subscribe"
               /\ acks[(a + 1) + i].wants = toServer'[i].wants
               /\ acks[(a + 1) + i].known = toServer'[i].known
               /\ life \in {"active", "loaded"} /\ toServer'[i].known.gen = generation =>
                     Holds(toServer'[i].known.rev)
    <3>1. i + 1 \in DOMAIN toServer /\ toServer'[i] = toServer[i + 1] /\ i \in Nat
      BY <1>3
    <3>2. a + (i + 1) = (a + 1) + i
      BY <1>4, <3>1
    <3>3. QED
      BY <1>4, <3>1, <3>2 DEF Stream, InFlight
  <2>2. QED
    BY <1>9, <1>10, <2>1 DEF InFlight, Holds
<1>12. /\ Answer(m).kind = "ack" /\ Answer(m).accepted = Accepting(m)
       /\ Answer(m).current = Confirming(m)
       /\ Datum(Answer(m)) = FALSE /\ Delta(Answer(m)) = FALSE
  BY DEF Answer, Datum, Delta
<1>13. Len(toBrowser) \in Nat /\ toBrowser \in Seq(ToBrowser) /\ life \in Lives
  BY <1>2 DEF TypeOK, RuntimeTypeOK
<1>14. CASE ~Accepting(m)
  <2>1. subscribed' = FALSE /\ published' = published
    BY <1>6, <1>14 DEF ReplaceSubscriptions, Accepting, entry
  <2>2. published' \in Seq(Held) /\ Extends(published', published)
    BY <1>2, <2>1 DEF TypeOK, RuntimeTypeOK, Held, Extends
  <2>3. PICK M : M = {n}
    OBVIOUS
  <2>4. M = Len(toBrowser) + 1 .. Len(toBrowser')
    BY <1>7, <1>8, <1>13, <1>14, <2>3
  <2>5. /\ \A i \in M : i = n /\ toBrowser'[i] = Answer(m)
        /\ ~Datum(Answer(m)) /\ ~Delta(Answer(m)) /\ ~Accepts(Answer(m))
        /\ Answer(m).kind # "snapshot" /\ Answer(m).kind # "archived"
    BY <1>8, <1>12, <1>14, <2>3 DEF Accepts
  <2>6. \A i \in M : Carries(toBrowser[i])'
    BY <2>5 DEF Carries, Datum
  <2>7. /\ \A i \in M : ~Accepts(toBrowser'[i]) /\ ~Datum(toBrowser'[i]) /\ ~Delta(toBrowser'[i])
        /\ \A i \in M : toBrowser'[i].kind # "snapshot" /\ toBrowser'[i].kind # "archived"
        /\ \A i \in M : i = Len(toBrowser')
        /\ ~subscribed'
    BY <1>7, <2>1, <2>5
  <2>8. UNCHANGED <<generation, acks, held, last>> /\ life' = life
    BY <1>9
  <2>9. QED
    BY ONLY <1>2, <1>8, <1>11, <2>2, <2>4, <2>6, <2>7, <2>8, Stream, MoreStream
<1>15. CASE Accepting(m)
  <2>1. subscribed' = TRUE /\ Keep(Current) /\ Visible /\ m.wants /\ life = "active"
    BY <1>6, <1>15 DEF ReplaceSubscriptions, Accepting, Visible
  <2>2. PICK new \in {Current, Recomputed} : new = Current
    OBVIOUS
  <2>3. /\ new \in Entries /\ new # NoEntry /\ new.rev \in Nat \ {0} /\ cache' = new
        /\ published' \in Seq(Held) /\ Extends(published', published)
        /\ Was([gen |-> generation, rev |-> new.rev, value |-> new.value])'
        /\ \A i \in DOMAIN published :
              ~Before([gen |-> generation, rev |-> new.rev], published[i])
    BY <1>9, <2>1, <2>2, Reading
  <2>4. PICK s : s = SnapshotOf(Current)
    OBVIOUS
  <2>5. /\ s.kind = "snapshot" /\ s.gen = generation /\ s.rev = new.rev /\ s.change = new.value
        /\ Datum(s) /\ ~Delta(s) /\ ~Accepts(s) /\ ~Refuses(s)
    BY <2>2, <2>4 DEF SnapshotOf, Datum, Delta, Accepts, Refuses
  <2>6. Carries(s)'
    <3>1. generation' = generation /\ s.rev >= 1
      BY <1>9, <2>3, <2>5
    <3>2. Was(Entry(s))'
      <4>1. PICK x : x = [gen |-> generation, rev |-> new.rev, value |-> new.value]
        OBVIOUS
      <4>2. Was(x)'
        BY <1>9, <2>3, <4>1
      <4>3. x = Entry(s)
        BY <2>5, <4>1 DEF Entry
      <4>4. QED
        BY <4>2, <4>3
    <3>3. held = NoHeld /\ last # NoVersion => ~Before(s, last)
      <4>1. ASSUME held = NoHeld, last # NoVersion PROVE ~Before(s, last)
        <5>1. PICK i \in DOMAIN published : VersionOf(published[i]) = last
          BY <4>1 DEF Kept, Named
        <5>2. last.gen = published[i].gen /\ last.rev = published[i].rev
          BY <5>1 DEF VersionOf
        <5>3. QED
          BY <2>3, <2>5, <5>2 DEF Before
      <4>2. QED
        BY <4>1
    <3>4. QED
      BY <1>9, <2>5, <3>1, <3>2, <3>3 DEF Carries, Before
  <2>7. Confirming(m) => m.known.gen = generation /\ Holds(m.known.rev) /\ m.known.rev = new.rev
    <3>1. ASSUME Confirming(m)
          PROVE  m.known.gen = generation /\ Holds(m.known.rev) /\ m.known.rev = new.rev
      <4>1. m.known = [gen |-> generation, rev |-> Current.rev]
        BY <3>1 DEF Confirming
      <4>2. m.known.gen = generation /\ m.known.rev = new.rev
        BY <2>2, <4>1
      <4>3. QED
        BY <1>5, <2>1, <4>2
    <3>2. QED
      BY <3>1
  <2>8. PICK M : M = Len(toBrowser) + 1 .. Len(toBrowser')
    OBVIOUS
  <2>9. /\ n \in M /\ n \in DOMAIN toBrowser' /\ n \in Nat
        /\ \A i \in M : i # n => /\ ~Confirming(m) /\ i + 1 = n
                                 /\ toBrowser'[i] = s
        /\ ~Confirming(m) => /\ n - 1 \in M /\ n - 1 \in DOMAIN toBrowser'
                             /\ toBrowser'[n - 1] = s /\ n > 1
    <3>1. PICK b : b = Len(toBrowser)
      OBVIOUS
    <3>2. DOMAIN toBrowser' = 1 .. n /\ M = b + 1 .. n /\ b \in Nat
      BY <1>7, <1>8, <1>13, <2>8, <3>1
    <3>3. CASE Confirming(m)
      BY <1>8, <3>1, <3>2, <3>3
    <3>4. CASE ~Confirming(m)
      <4>1. n = b + 2 /\ toBrowser'[b + 1] = s
        BY <1>8, <1>15, <2>4, <3>1, <3>4
      <4>2. QED
        BY <3>2, <3>4, <4>1
    <3>5. QED
      BY <3>3, <3>4
  <2>10. /\ toBrowser'[n] = Answer(m) /\ Accepts(Answer(m)) /\ ~Refuses(Answer(m))
         /\ Answer(m).kind # "snapshot" /\ Answer(m).kind # "archived"
         /\ ~Datum(Answer(m)) /\ ~Delta(Answer(m))
         /\ Answer(m).current => Confirming(m)
         /\ Confirming(m) => Answer(m).current
    BY <1>8, <1>12, <1>15 DEF Accepts, Refuses
  <2>11. \A i \in M : Carries(toBrowser[i])'
    <3>1. ASSUME NEW i \in M PROVE Carries(toBrowser[i])'
      <4>1. CASE i = n
        BY <2>10, <4>1 DEF Carries, Datum
      <4>2. CASE i # n
        BY <2>6, <2>9, <4>2
      <4>3. QED
        BY <4>1, <4>2
    <3>2. QED
      BY <3>1
  <2>12. /\ \A i \in M : Accepts(toBrowser'[i]) => i = n
         /\ \A i \in M : ~Refuses(toBrowser'[i]) /\ ~Delta(toBrowser'[i])
                            /\ toBrowser'[i].kind # "archived"
         /\ \A i \in M : toBrowser'[i].kind = "snapshot" => i + 1 = n
    <3>1. s.kind # "archived"
      BY <2>5
    <3>2. ASSUME NEW i \in M
          PROVE  /\ Accepts(toBrowser'[i]) => i = n
                 /\ ~Refuses(toBrowser'[i]) /\ ~Delta(toBrowser'[i])
                 /\ toBrowser'[i].kind # "archived"
                 /\ toBrowser'[i].kind = "snapshot" => i + 1 = n
      <4>1. CASE i = n
        BY <2>10, <4>1
      <4>2. CASE i # n
        BY <2>5, <2>9, <3>1, <4>2
      <4>3. QED
        BY <4>1, <4>2
    <3>3. QED
      BY <3>2
  <2>13. \A i \in M : Accepts(toBrowser'[i]) =>
              /\ acks[Acked(i)'].wants
              /\ toBrowser'[i].current \/ (i > 1 /\ toBrowser'[i - 1].kind = "snapshot")
    <3>1. acks[Acked(n)'].wants
      BY <1>5, <1>10, <2>1
    <3>2. toBrowser'[n].current \/ (n > 1 /\ toBrowser'[n - 1].kind = "snapshot")
      BY <2>5, <2>9, <2>10
    <3>3. QED
      BY <2>12, <3>1, <3>2
  <2>14. \A i \in M : Accepts(toBrowser'[i]) /\ toBrowser'[i].current =>
              acks[Acked(i)'].known.gen = generation /\ Holds(acks[Acked(i)'].known.rev)
    <3>1. toBrowser'[n].current =>
             acks[Acked(n)'].known.gen = generation /\ Holds(acks[Acked(n)'].known.rev)
      BY <1>5, <1>10, <2>7, <2>10
    <3>2. QED
      BY <2>12, <3>1
  <2>15. \A i \in M : toBrowser'[i].kind = "snapshot" =>
              i + 1 \in M /\ Accepts(toBrowser'[i + 1])
    BY <2>9, <2>10, <2>12
  <2>16. subscribed' /\ Visible' =>
              /\ cache' # NoEntry
              /\ \/ Holds(cache'.rev)
                 \/ \E j \in DOMAIN toBrowser' :
                       Datum(toBrowser'[j]) /\ toBrowser'[j].rev >= cache'.rev
    <3>1. CASE Confirming(m)
      BY <2>3, <2>7, <3>1
    <3>2. CASE ~Confirming(m)
      BY <2>3, <2>5, <2>9, <3>2
    <3>3. QED
      BY <3>1, <3>2
  <2>17. /\ \A i \in M : Refuses(toBrowser'[i]) => i = Len(toBrowser') /\ ~subscribed'
         /\ \A i \in M : toBrowser'[i].kind = "archived" =>
              i = Len(toBrowser') /\ life' \in {"archiving", "archived"}
         /\ \A i \in M : Delta(toBrowser'[i]) => subscribed
         /\ \A i \in M : Delta(toBrowser'[i]) =>
              \/ Holds(toBrowser'[i].rev - 1)
              \/ \E j \in DOMAIN toBrowser' :
                    j < i /\ Datum(toBrowser'[j]) /\ toBrowser'[j].rev + 1 >= toBrowser'[i].rev
    BY <2>12
  <2>18. /\ UNCHANGED <<generation, acks, held, last>> /\ life' = life /\ life' # "loaded"
         /\ life = "active" /\ subscribed' => subscribed \/ Accepts(toBrowser'[Len(toBrowser')])
    BY <1>7, <1>9, <2>1, <2>10
  <2>19. subscribed' => subscribed \/ Accepts(toBrowser'[Len(toBrowser')])
    BY <1>7, <2>10
  <2>20. life = "active"
    BY <2>1
  <2>21. QED
    BY ONLY <1>2, <1>8, <1>11, <2>3, <2>8, <2>11, <2>13, <2>14, <2>15, <2>16, <2>17, <2>18,
      <2>19, <2>20, Stream, MoreStream
<1>16. QED
  BY <1>14, <1>15

\* A new subscription says what the browser holds.
LEMMA SubscribeStream ==
    ASSUME TInv, Stream, Connect \/ Refresh \/ Reload
    PROVE  Stream'
<1>1. /\ TypeOK /\ Subscribe /\ socket \in {"up", "none"}
      /\ UNCHANGED <<generation, session, entry, subscribed, toBrowser, store>>
  BY DEF TInv, Connect, Refresh, Reload
<1>2. /\ UNCHANGED <<generation, life, cache, published, subscribed, toBrowser, held, last>>
      /\ \A x : Holds(x)' <=> Holds(x)
      /\ \A x : Acked(x)' = Acked(x)
  BY <1>1 DEF session, entry, store, Holds, Acked
<1>3. /\ toServer \in Seq(ToServer) /\ acks \in Seq(Ack) /\ held \in Held
      /\ generation \in Nat \ {0}
  BY <1>1, RuntimeAssumption DEF TypeOK, RuntimeTypeOK, CacheTypeOK
<1>4. PICK a, b, c : a = Acked(Len(toBrowser)) /\ b = Len(toServer) /\ c = Len(acks)
  OBVIOUS
<1>5. /\ a \in Nat /\ b \in Nat /\ c \in Nat /\ c = a + b
      /\ \A i \in DOMAIN toBrowser : toBrowser[i].kind = "ack" => Acked(i) \in 1 .. c
  <2>1. /\ a \in Nat /\ b \in Nat /\ c \in Nat
        /\ socket = "up" => c = a + b
        /\ \A i \in DOMAIN toBrowser :
              /\ Acked(i) \in Nat
              /\ toBrowser[i].kind = "ack" => Acked(i) >= 1 /\ Acked(i) <= c
    BY <1>4, Waiting DEF Stream
  <2>2. socket = "none" => c = a + b
    <3>1. ASSUME socket = "none" PROVE c = a + b
      <4>1. toServer = <<>> /\ toBrowser = <<>> /\ acks = <<>>
        BY <3>1 DEF TInv, Matched
      <4>2. Acked(0) = 0
        BY CountStep DEF Acked
      <4>3. QED
        BY <1>4, <4>1, <4>2
    <3>2. QED
      BY <3>1
  <2>3. QED
    BY <1>1, <2>1, <2>2
<1>6. PICK s, k : s = Subscription /\ k = [wants |-> Wanted, known |-> Subscription.known,
                                           noted |-> FALSE]
  OBVIOUS
<1>7. /\ s.kind = "subscribe" /\ k.wants = s.wants /\ k.known = s.known
      /\ s \in ToServer /\ k \in Ack
      /\ s.known = VersionOf(held) \/ s.known = NoVersion
  <2>1. Subscription \in ToServer
    BY <1>1, SubscribeTypes
  <2>2. Subscription.known \in Version /\ Wanted \in BOOLEAN
    <3>1. (IF Wanted THEN VersionOf(held) ELSE NoVersion) \in Version /\ Wanted \in BOOLEAN
      BY <1>3 DEF VersionOf, Held, NoVersion, Version, Wanted
    <3>2. QED
      BY <3>1 DEF Subscription
  <2>3. k \in Ack
    BY <1>6, <2>2 DEF Ack
  <2>4. QED
    BY <1>6, <2>1, <2>3 DEF Subscription
<1>8. /\ DOMAIN toServer' = 1 .. b + 1 /\ toServer'[b + 1] = s
      /\ \A i \in 1 .. b : i \in DOMAIN toServer /\ toServer'[i] = toServer[i]
      /\ acks'[c + 1] = k /\ \A i \in 1 .. c : acks'[i] = acks[i]
  <2>1. toServer' = Append(toServer, s) /\ acks' = Append(acks, k)
    BY <1>1, <1>6 DEF Subscribe
  <2>2. /\ DOMAIN toServer' = 1 .. b + 1 /\ toServer'[b + 1] = s
        /\ \A i \in 1 .. b : i \in DOMAIN toServer /\ toServer'[i] = toServer[i]
    BY <1>3, <1>4, <1>7, <2>1
  <2>3. acks'[c + 1] = k /\ \A i \in 1 .. c : acks'[i] = acks[i]
    BY <1>3, <1>4, <1>7, <2>1
  <2>4. QED
    BY <2>2, <2>3
<1>9. InFlight'
  <2>1. ASSUME NEW i \in DOMAIN toServer'
        PROVE  /\ toServer'[i].kind = "subscribe"
               /\ acks'[a + i].wants = toServer'[i].wants
               /\ acks'[a + i].known = toServer'[i].known
               /\ life \in {"active", "loaded"} /\ toServer'[i].known.gen = generation =>
                     Holds(toServer'[i].known.rev)
    <3>1. CASE i \in 1 .. b
      <4>1. i \in DOMAIN toServer /\ toServer'[i] = toServer[i] /\ acks'[a + i] = acks[a + i]
        BY <1>5, <1>8, <3>1
      <4>2. QED
        BY <1>4, <4>1 DEF Stream, InFlight
    <3>2. CASE i = b + 1
      <4>1. toServer'[i] = s /\ acks'[a + i] = k
        BY <1>5, <1>8, <3>2
      <4>2. s.known.gen = generation => Holds(s.known.rev)
        <5>1. ASSUME s.known.gen = generation PROVE Holds(s.known.rev)
          <6>1. s.known = VersionOf(held)
            BY <1>3, <1>7, <5>1 DEF NoVersion
          <6>2. held.gen = generation /\ held # NoHeld /\ s.known.rev = held.rev
                /\ held.rev \in Nat
            BY <1>3, <5>1, <6>1 DEF VersionOf, NoHeld, Held
          <6>3. QED
            BY <6>2 DEF Holds
        <5>2. QED
          BY <5>1
      <4>3. QED
        BY <1>7, <4>1, <4>2
    <3>3. QED
      BY <1>5, <1>8, <3>1, <3>2
  <2>2. Acked(Len(toBrowser))' = a
    BY <1>2, <1>4 DEF Acked
  <2>3. QED
    BY <1>2, <2>1, <2>2 DEF InFlight, Holds
<1>10. Answered'
  <2>1. ASSUME NEW i \in DOMAIN toBrowser, Accepts(toBrowser[i])
        PROVE  /\ acks'[Acked(i)] = acks[Acked(i)] /\ acks'[1] = acks[1]
    <3>1. Acked(i) \in 1 .. c /\ 1 \in 1 .. c
      BY <1>5, <2>1 DEF Accepts
    <3>2. QED
      BY <1>8, <3>1
  <2>2. QED
    BY <1>2, <2>1 DEF Stream, Answered, Accepts, Holds
<1>11. Genuine'
  <2>1. ASSUME NEW i \in DOMAIN toBrowser PROVE Carries(toBrowser[i])'
    BY <1>2 DEF Stream, Genuine, Carries, Leads, Was, Datum, Entry, Before
  <2>2. QED
    BY <1>2, <2>1 DEF Genuine
<1>12. Silent' /\ Continued'
  BY <1>2 DEF Stream, Silent, Continued, Visible, Refuses, Accepts, Delta, Datum, Holds
<1>13. QED
  BY <1>9, <1>10, <1>11, <1>12 DEF Stream

-----------------------------------------------------------------------------
(***************************************************************************)
(* What the browser holds.                                                 *)
(***************************************************************************)
\* What is held was published in a generation that has begun.
LEMMA HeldWas ==
    ASSUME TypeOK, Ordered, NEW h, Was(h)
    PROVE  /\ h \in Held /\ h # NoHeld /\ h.gen \in 1 .. generation /\ h.rev \in Nat \ {0}
           /\ h.gen \in Nat /\ Named(VersionOf(h)) /\ VersionOf(h) # NoVersion
           /\ generation \in Nat \ {0}
<1>1. PICK i \in DOMAIN published : published[i] = h
  BY DEF Was
<1>2. /\ h \in Held /\ h.gen \in 1 .. generation /\ h.rev \in Nat \ {0}
      /\ generation \in Nat \ {0} /\ h # NoHeld /\ VersionOf(h) # NoVersion
  BY <1>1, EntryTypes
<1>3. Named(VersionOf(h))
  BY <1>1 DEF Named
<1>4. QED
  BY <1>2, <1>3 DEF Held

\* Where nothing of what the browser holds changes, nor which lists are on their
\* way, what it holds stays right.
LEMMA KeptStays ==
    ASSUME TypeOK, published' \in Seq(Held), Extends(published', published),
           Kept, UNCHANGED <<held, last, ordering>>,
           sequence' \in {sequence, sequence + 1},
           \A r \in requests' : Full(r) => r \in requests \/ ~(r.snapshot.gen < held.gen)
    PROVE  Kept'
<1>1. /\ \A h : Was(h) => Was(h)'
      /\ \A v : Named(v) => Named(v)'
  BY WasStays
<1>2. /\ latest' = latest /\ barrier' = barrier /\ rejected' = rejected
      /\ latest \in Nat /\ barrier \in Nat /\ sequence \in Nat
  BY CacheAssumption DEF ordering, TypeOK, CacheTypeOK
<1>3. latest' <= sequence' /\ barrier' <= sequence'
  <2>1. latest <= sequence /\ barrier <= sequence
    BY DEF Kept
  <2>2. QED
    BY <1>2, <2>1
<1>4. held' # NoHeld => Was(held)' /\ last' = VersionOf(held')
  <2>1. ASSUME held # NoHeld PROVE Was(held)' /\ last' = VersionOf(held')
    <3>1. PICK h : h = held
      OBVIOUS
    <3>2. Was(h)'
      BY <1>1, <2>1, <3>1 DEF Kept
    <3>3. QED
      BY <2>1, <3>1, <3>2 DEF Kept
  <2>2. QED
    BY <2>1
<1>5. held' = NoHeld /\ last' # NoVersion => rejected' /\ Named(last)'
  <2>1. ASSUME held = NoHeld, last # NoVersion PROVE rejected' /\ Named(last)'
    <3>1. PICK v : v = last
      OBVIOUS
    <3>2. Named(v)'
      BY <1>1, <2>1, <3>1 DEF Kept
    <3>3. rejected
      BY <2>1 DEF Kept
    <3>4. last' = v
      BY <3>1
    <3>5. QED
      BY <1>2, <3>2, <3>3, <3>4
  <2>2. QED
    BY <2>1
<1>6. held' # NoHeld => \A r \in requests' :
         Full(r) /\ r.snapshot.gen < held'.gen => r.seq < latest' \/ r.seq <= barrier'
  <2>1. ASSUME held # NoHeld, NEW r \in requests', Full(r), r.snapshot.gen < held.gen
        PROVE  r.seq < latest \/ r.seq <= barrier
    <3>1. r \in requests
      BY <2>1
    <3>2. QED
      BY <2>1, <3>1 DEF Kept
  <2>2. QED
    BY <1>2, <2>1
<1>7. QED
  BY <1>3, <1>4, <1>5, <1>6 DEF Kept, Full

\* Where no list is added and the generation stays, the lists stay in order.
LEMMA AskedStays ==
    ASSUME TypeOK, published' \in Seq(Held), Extends(published', published), Asked,
           UNCHANGED <<generation, sequence>>, requests' \subseteq requests
    PROVE  Asked'
<1>1. \A h : Was(h) => Was(h)'
  BY WasStays
<1>2. ASSUME NEW r \in requests'
      PROVE  /\ r.seq <= sequence'
             /\ ~r.answered => ~r.listed
             /\ Full(r) => Was(r.snapshot)'
  <2>1. PICK h : h = r.snapshot
    OBVIOUS
  <2>2. Full(r) => Was(h)'
    BY <1>1, <2>1 DEF Asked
  <2>3. (Full(r) => Was(r.snapshot)')
    BY <2>1, <2>2
  <2>4. r.seq <= sequence' /\ (~r.answered => ~r.listed)
    BY DEF Asked
  <2>5. QED
    BY <2>3, <2>4
<1>3. \A r, s \in requests' : r.seq = s.seq => r = s
  BY DEF Asked
<1>4. ASSUME NEW r \in requests', NEW s \in requests', r.seq < s.seq, Full(s)
      PROVE  /\ ~r.answered => s.snapshot.gen = generation'
             /\ Full(r) => r.snapshot.gen <= s.snapshot.gen
  BY <1>4 DEF Asked
<1>5. QED
  <2>1. \A r \in requests' : Full(r)' <=> Full(r)
    BY DEF Full
  <2>2. QED
    BY <1>2, <1>3, <1>4, <2>1 DEF Asked

\* A server's step that leaves the browser alone.
LEMMA ServerStepKeeps ==
    ASSUME PInv, RestoredLater, ServerStep, published' \in Seq(Held), Extends(published', published),
           TInv'
    PROVE  NoResync' /\ Asked' /\ Kept' /\ Stream'
<1>1. /\ TInv /\ TypeOK /\ Ordered /\ Cached /\ Asked /\ Kept /\ Stream /\ NoResync
      /\ UNCHANGED cacheVars
      /\ published' \in Seq(Held) /\ Extends(published', published)
  BY DEF PInv, TInv, ServerStep
<1>2. /\ UNCHANGED <<held, last, ordering, sequence, requests, acks, resyncing>>
      /\ held' = held /\ last' = last /\ acks' = acks /\ requests' = requests
      /\ sequence' = sequence
  BY <1>1 DEF cacheVars, store, lists, transport
<1>3. generation' = generation
  BY DEF ServerStep, Change, Archive, Announce, Restore, Flush, Peek, Handle, Break
<1>4. NoResync'
  BY <1>1, <1>2 DEF NoResync
<1>5. Asked'
  BY <1>1, <1>2, <1>3, AskedStays
<1>6. Kept'
  <2>1. \A r \in requests' : Full(r) => r \in requests \/ ~(r.snapshot.gen < held.gen)
    BY <1>2
  <2>2. QED
    BY <1>1, <1>2, <2>1, KeptStays
<1> SUFFICES Stream'
  BY <1>4, <1>5, <1>6
<1>7. life = "loaded" => ~subscribed
  BY <1>1 DEF Stream, Silent
<1>8. \A n : Holds(n) => Holds(n)'
  BY <1>2, <1>3 DEF Holds
<1>9. life' \in Lives /\ life \in Lives
  BY <1>1 DEF TInv, TypeOK, RuntimeTypeOK
<1>10. ASSUME UNCHANGED <<toBrowser, toServer, subscribed>>,
              life' \in {"active", "loaded"} => life \in {"active", "loaded"},
              life' = "loaded" => ~subscribed,
              subscribed /\ life' = "active" => life = "active" /\ cache' = cache
       PROVE  Stream'
  <2>1. UNCHANGED <<generation, toBrowser, toServer, acks, subscribed>>
    BY <1>2, <1>3, <1>10
  <2>2. held' # NoHeld \/ (held' = held /\ last' = last)
    BY <1>2
  <2>3. QED
    BY ONLY <1>1, <1>8, <1>9, <1>10, <2>1, <2>2, SameStream
<1>11. CASE \E origin \in Origins, value \in Value : Change(origin, value)
  BY <1>7, <1>10, <1>11 DEF Change, wire
<1>12. CASE Archive
  BY <1>7, <1>10, <1>12 DEF Archive, wire, entry
<1>13. CASE Announce
  BY <1>1, <1>13, AnnounceStream
<1>14. CASE Restore
  <2>1. life = "loaded" /\ life' = "active" /\ UNCHANGED <<toBrowser, toServer, subscribed>>
    BY <1>14 DEF Restore, RestoredLater, wire
  <2>2. QED
    BY <1>7, <1>10, <2>1
<1>15. CASE Flush
  <2>1. UNCHANGED <<generation, life, subscribed, toServer>>
    BY <1>15 DEF Flush, session
  <2>2. CASE ~subscribed
    <3>1. UNCHANGED <<cache, toBrowser>>
      BY <1>15, <2>2 DEF Flush
    <3>2. QED
      BY <1>10, <2>1, <2>2, <3>1
  <2>3. CASE subscribed /\ Visible
    <3>1. Keep(Recomputed) /\ Push(Recomputed) /\ Visible
      BY <1>15, <2>3 DEF Flush
    <3>2. PICK new \in {Current, Recomputed} : Keep(new) /\ Push(new)
      BY <3>1
    <3>3. UNCHANGED <<generation, life, subscribed, toServer, acks, held, last>>
      BY <1>2, <2>1
    <3>4. QED
      BY ONLY <1>1, <3>1, <3>2, <3>3, PushStream
  <2>4. CASE subscribed /\ ~Visible
    <3>1. Push(Recomputed) /\ Recomputed = NoEntry
      BY <1>15, <2>4 DEF Flush, Recomputed
    <3>2. toBrowser' = toBrowser \o <<>>
      BY <3>1 DEF Push, Publication
    <3>3. toBrowser \in Seq(ToBrowser)
      BY <1>1 DEF TypeOK, RuntimeTypeOK
    <3>4. toBrowser' = toBrowser
      BY <3>2, <3>3, ConcatEmptySeq
    <3>5. life' # "active" /\ life' # "loaded"
      BY <1>7, <2>1, <2>4 DEF Visible
    <3>6. QED
      BY <1>10, <2>1, <3>4, <3>5
  <2>5. QED
    BY <2>2, <2>3, <2>4
<1>16. CASE Peek
  <2>1. /\ Visible /\ Keep(Current) /\ Push(Current)
        /\ UNCHANGED <<generation, life, subscribed, toServer>>
    BY <1>16 DEF Peek, session
  <2>2. PICK new \in {Current, Recomputed} : Keep(new) /\ Push(new)
    BY <2>1
  <2>3. UNCHANGED <<generation, life, subscribed, toServer, acks, held, last>>
    BY <1>2, <2>1
  <2>4. QED
    BY ONLY <1>1, <2>1, <2>2, <2>3, PushStream
<1>17. CASE Handle
  BY <1>1, <1>17, HandleStream
<1>18. CASE Break
  BY <1>18, Emptied DEF Break, Severed
<1>19. QED
  BY <1>11, <1>12, <1>13, <1>14, <1>15, <1>16, <1>17, <1>18 DEF ServerStep

\* A later process has a generation of its own, and fails what was not answered.
LEMMA RestartKeeps ==
    ASSUME PInv, Restart, published' \in Seq(Held), Extends(published', published)
    PROVE  NoResync' /\ Asked' /\ Kept' /\ Stream'
<1>1. /\ TypeOK /\ Asked /\ Kept /\ NoResync
      /\ published' \in Seq(Held) /\ Extends(published', published)
  BY DEF PInv, TInv
<1>2. /\ UNCHANGED <<held, last, ordering, sequence, resyncing>>
      /\ requests' = {r \in requests : r.answered}
      /\ toServer' = <<>> /\ toBrowser' = <<>> /\ ~subscribed'
  BY DEF Restart, RestartServer, Severed, store, transport
<1>3. NoResync'
  BY <1>1, <1>2 DEF NoResync
<1>4. Stream'
  BY <1>2, Emptied
<1>5. Asked'
  <2>1. \A h : Was(h) => Was(h)'
    BY <1>1, WasStays
  <2>2. ASSUME NEW r \in requests'
        PROVE  /\ r.seq <= sequence' /\ r.answered
               /\ Full(r) => Was(r.snapshot)'
    <3>1. PICK h : h = r.snapshot
      OBVIOUS
    <3>2. Full(r) => Was(h)'
      BY <1>1, <1>2, <2>1, <3>1 DEF Asked
    <3>3. Full(r) => Was(r.snapshot)'
      BY <3>1, <3>2
    <3>4. r.seq <= sequence' /\ r.answered
      BY <1>1, <1>2 DEF Asked
    <3>5. QED
      BY <3>3, <3>4
  <2>3. \A r, s \in requests' : r.seq = s.seq => r = s
    BY <1>1, <1>2 DEF Asked
  <2>4. \A r, s \in requests' :
           r.seq < s.seq /\ Full(s) /\ Full(r) => r.snapshot.gen <= s.snapshot.gen
    BY <1>1, <1>2 DEF Asked
  <2>5. QED
    BY <2>2, <2>3, <2>4 DEF Asked, Full
<1>6. Kept'
  <2>1. \A r \in requests' : Full(r) => r \in requests \/ ~(r.snapshot.gen < held.gen)
    BY <1>2
  <2>2. QED
    BY <1>1, <1>2, <2>1, KeptStays
<1>7. QED
  BY <1>3, <1>4, <1>5, <1>6

\* The browser opens a socket, loses one, or subscribes again.
LEMMA SocketKeeps ==
    ASSUME PInv, Connect \/ Notice \/ Refresh \/ Reload,
           published' \in Seq(Held), Extends(published', published)
    PROVE  NoResync' /\ Asked' /\ Kept' /\ Stream'
<1>1. /\ TInv /\ TypeOK /\ Asked /\ Kept /\ NoResync /\ Stream
      /\ published' \in Seq(Held) /\ Extends(published', published)
  BY DEF PInv, TInv
<1>2. /\ UNCHANGED <<generation, held, last, ordering, sequence, requests>>
      /\ sequence' = sequence /\ requests' = requests
  BY DEF Connect, Notice, Refresh, Reload, store, lists
<1>3. NoResync'
  BY <1>1 DEF NoResync, Connect, Notice, Refresh, Reload
<1>4. Asked'
  BY <1>1, <1>2, AskedStays
<1>5. Kept'
  <2>1. \A r \in requests' : Full(r) => r \in requests \/ ~(r.snapshot.gen < held.gen)
    BY <1>2
  <2>2. QED
    BY <1>1, <1>2, <2>1, KeptStays
<1>6. Stream'
  <2>1. CASE Connect \/ Refresh \/ Reload
    BY <1>1, <2>1, SubscribeStream
  <2>2. CASE Notice
    <3>1. socket = "cut" /\ UNCHANGED <<subscribed, toServer, toBrowser>>
      BY <2>2 DEF Notice
    <3>2. toServer' = <<>> /\ toBrowser' = <<>> /\ ~subscribed'
      BY <1>1, <3>1 DEF TInv, Matched
    <3>3. QED
      BY <3>2, Emptied
  <2>3. QED
    BY <2>1, <2>2
<1>7. QED
  BY <1>3, <1>4, <1>5, <1>6

\* A list is asked for, or none comes.
LEMMA AskingKeeps ==
    ASSUME PInv, Ask \/ \E r \in requests : Lose(r),
           published' \in Seq(Held), Extends(published', published)
    PROVE  NoResync' /\ Asked' /\ Kept' /\ Stream'
<1>1. /\ TInv /\ TypeOK /\ Asked /\ Kept /\ NoResync /\ Stream
      /\ published' \in Seq(Held) /\ Extends(published', published)
  BY DEF PInv, TInv
<1>2. /\ UNCHANGED <<runtimeVars, store, transport>>
      /\ UNCHANGED <<held, last, ordering, resyncing, life, cache>>
      /\ UNCHANGED <<generation, toBrowser, toServer, acks, subscribed>>
      /\ published' = published /\ generation' = generation
  BY DEF Ask, Lose, runtimeVars, store, transport, session, entry, wire
<1>3. NoResync'
  BY <1>1, <1>2 DEF NoResync
<1>4. Stream'
  <2>1. /\ life' \in {"active", "loaded"} => life \in {"active", "loaded"}
        /\ life' \in Lives
        /\ life' = "loaded" => ~subscribed
        /\ subscribed /\ life' = "active" => life = "active" /\ cache' = cache
        /\ \A n : Holds(n) => Holds(n)'
        /\ held' # NoHeld \/ (held' = held /\ last' = last)
    BY <1>1, <1>2 DEF TypeOK, RuntimeTypeOK, Stream, Silent, Holds
  <2>2. QED
    BY ONLY <1>1, <1>2, <2>1, SameStream
<1>5. CASE \E r \in requests : Lose(r)
  <2>1. requests' \subseteq requests /\ sequence' = sequence
    BY <1>5 DEF Lose
  <2>2. Asked'
    BY <1>1, <1>2, <2>1, AskedStays
  <2>3. \A r \in requests' : Full(r) => r \in requests \/ ~(r.snapshot.gen < held.gen)
    BY <2>1
  <2>4. Kept'
    BY <1>1, <1>2, <2>1, <2>3, KeptStays
  <2>5. QED
    BY <1>3, <1>4, <2>2, <2>4
<1>6. CASE Ask
  <2>1. PICK n : /\ requests' = requests \cup {n}
                 /\ n.seq = sequence' /\ ~n.answered /\ ~n.listed
    <3>1. PICK full \in {TRUE, ~Live} :
             requests' = requests \cup {[seq |-> sequence', full |-> full, answered |-> FALSE,
                                         listed |-> FALSE, snapshot |-> NoHeld]}
      BY <1>6 DEF Ask
    <3>2. PICK n : n = [seq |-> sequence', full |-> full, answered |-> FALSE,
                        listed |-> FALSE, snapshot |-> NoHeld]
      OBVIOUS
    <3>3. n.seq = sequence' /\ ~n.answered /\ ~n.listed
      BY <3>2
    <3>4. requests' = requests \cup {n}
      BY <3>1, <3>2
    <3>5. QED
      BY <3>3, <3>4
  <2>2. sequence' = sequence + 1 /\ sequence \in Nat
    BY <1>1, <1>6, CacheAssumption DEF Ask, TypeOK, CacheTypeOK
  <2>3. \A r \in requests : r.seq \in Nat /\ r.seq <= sequence /\ r.seq < n.seq
    <3>1. requests \subseteq Request
      BY <1>1 DEF TypeOK, CacheTypeOK
    <3>2. \A r \in requests : r.seq \in Nat /\ r.seq <= sequence
      BY <1>1, <3>1 DEF Asked, Request
    <3>3. QED
      BY <2>1, <2>2, <3>2
  <2>4. ~Full(n)
    BY <2>1 DEF Full
  <2>5. Asked'
    <3>1. ASSUME NEW r \in requests'
          PROVE  /\ r.seq <= sequence'
                 /\ ~r.answered => ~r.listed
                 /\ Full(r) => Was(r.snapshot)
      <4>1. CASE r \in requests
        BY <1>1, <2>2, <2>3, <4>1 DEF Asked
      <4>2. CASE r = n
        BY <2>1, <2>2, <2>4, <4>2
      <4>3. QED
        BY <2>1, <4>1, <4>2
    <3>2. ASSUME NEW r \in requests', NEW s \in requests', r.seq = s.seq PROVE r = s
      <4>1. CASE r \in requests /\ s \in requests
        BY <1>1, <3>2, <4>1 DEF Asked
      <4>2. CASE r \notin requests \/ s \notin requests
        BY <2>1, <2>2, <2>3, <3>2, <4>2
      <4>3. QED
        BY <4>1, <4>2
    <3>3. ASSUME NEW r \in requests', NEW s \in requests', r.seq < s.seq, Full(s)
          PROVE  /\ ~r.answered => s.snapshot.gen = generation
                 /\ Full(r) => r.snapshot.gen <= s.snapshot.gen
      <4>1. s \in requests
        BY <2>1, <2>4, <3>3
      <4>2. r \in requests
        BY <2>1, <2>2, <2>3, <3>3, <4>1
      <4>3. QED
        BY <1>1, <3>3, <4>1, <4>2 DEF Asked
    <3>4. \A r \in requests' : Was(r.snapshot)' <=> Was(r.snapshot)
      BY <1>2 DEF Was
    <3>5. \A r \in requests' : Full(r)' <=> Full(r)
      BY DEF Full
    <3>7. \A r, s \in requests' :
             /\ r.seq < s.seq /\ Full(s) /\ ~r.answered => s.snapshot.gen = generation'
             /\ r.seq < s.seq /\ Full(s) /\ Full(r) => r.snapshot.gen <= s.snapshot.gen
      BY <1>2, <3>3
    <3>8. \A r, s \in requests' : r.seq = s.seq => r = s
      BY <3>2
    <3>9. ASSUME NEW r \in requests'
          PROVE  /\ r.seq <= sequence'
                 /\ ~r.answered => ~r.listed
                 /\ Full(r)' => Was(r.snapshot)'
      BY <3>1, <3>4, <3>5
    <3>10. \A r, s \in requests' :
              /\ r.seq < s.seq /\ Full(s)' /\ ~r.answered => s.snapshot.gen = generation'
              /\ r.seq < s.seq /\ Full(s)' /\ Full(r)' => r.snapshot.gen <= s.snapshot.gen
      BY <3>5, <3>7
    <3>11. QED
      BY <3>8, <3>9, <3>10 DEF Asked
  <2>6. \A r \in requests' : Full(r) => r \in requests \/ ~(r.snapshot.gen < held.gen)
    BY <2>1, <2>4
  <2>7. Kept'
    BY <1>1, <1>2, <2>2, <2>6, KeptStays
  <2>8. QED
    BY <1>3, <1>4, <2>5, <2>7
<1>7. QED
  BY <1>5, <1>6

\* A list is answered with the present entry, which no list before it is ahead of.
LEMMA ServeKeeps ==
    ASSUME PInv, NEW r \in requests, Serve(r),
           published' \in Seq(Held), Extends(published', published)
    PROVE  NoResync' /\ Asked' /\ Kept' /\ Stream'
<1>1. /\ TInv /\ TypeOK /\ Asked /\ Kept /\ NoResync /\ Stream /\ Ordered /\ Cached
      /\ published' \in Seq(Held) /\ Extends(published', published)
      /\ life \in Lives /\ requests \subseteq Request /\ generation \in Nat \ {0}
  BY RuntimeAssumption DEF PInv, TInv, TypeOK, RuntimeTypeOK, CacheTypeOK
<1>2. /\ UNCHANGED <<held, last, ordering, sequence, resyncing, life>>
      /\ UNCHANGED <<generation, toServer, acks, subscribed>>
      /\ generation' = generation /\ sequence' = sequence
  BY DEF Serve, session, store, transport
<1>3. NoResync'
  BY <1>1, <1>2 DEF NoResync
<1> PICK e : e = [gen |-> generation, rev |-> Current.rev, value |-> Current.value]
  OBVIOUS
<1>4. PICK n : /\ requests' = (requests \ {r}) \cup {n}
               /\ n.seq = r.seq /\ n.answered
               /\ Full(n) => Visible /\ n.snapshot = e
  <2>1. r \in Request
    BY <1>1
  <2>2. CASE Visible
    <3>1. PICK n : n = [r EXCEPT !.answered = TRUE, !.listed = TRUE,
                            !.snapshot = IF r.full THEN e ELSE NoHeld]
      OBVIOUS
    <3>2. requests' = (requests \ {r}) \cup {n}
      BY <2>2, <3>1 DEF Serve
    <3>3. n.seq = r.seq /\ n.answered /\ n.full = r.full
      BY <2>1, <3>1 DEF Request
    <3>4. r.full => n.snapshot = e
      BY <2>1, <3>1 DEF Request
    <3>5. QED
      BY <2>2, <3>2, <3>3, <3>4 DEF Full
  <2>3. CASE ~Visible
    <3>1. PICK n : n = [r EXCEPT !.answered = TRUE]
      OBVIOUS
    <3>2. requests' = (requests \ {r}) \cup {n} /\ ~r.answered
      BY <2>3, <3>1 DEF Serve
    <3>3. n.seq = r.seq /\ n.answered /\ n.listed = r.listed
      BY <2>1, <3>1 DEF Request
    <3>4. ~r.listed
      BY <1>1, <3>2 DEF Asked
    <3>5. QED
      BY <3>2, <3>3, <3>4 DEF Full
  <2>4. QED
    BY <2>2, <2>3
<1>5. Visible => Keep(Current) /\ Push(Current) /\ Was(e)'
  <2>1. ASSUME Visible
        PROVE  Keep(Current) /\ Push(Current) /\ Was(e)'
    <3>1. Keep(Current) /\ Push(Current)
      BY <2>1 DEF Serve
    <3>2. PICK new \in {Current, Recomputed} : new = Current
      OBVIOUS
    <3>3. Keep(new) /\ generation' = generation /\ life' = life
      BY <1>2, <3>1, <3>2
    <3>4. Was([gen |-> generation, rev |-> new.rev, value |-> new.value])'
      BY ONLY <1>1, <2>1, <3>3, Reading
    <3>5. e = [gen |-> generation, rev |-> new.rev, value |-> new.value]
      BY <3>2
    <3>6. Was(e)'
      BY <1>2, <3>4, <3>5 DEF Was
    <3>7. QED
      BY <3>1, <3>6
  <2>2. QED
    BY <2>1
<1>6. Stream'
  <2>1. CASE Visible
    <3>1. PICK new \in {Current, Recomputed} : Keep(new) /\ Push(new)
      BY <1>5, <2>1
    <3>2. UNCHANGED <<generation, life, subscribed, toServer, acks, held, last>>
      BY <1>2
    <3>3. QED
      BY ONLY <1>1, <2>1, <3>1, <3>2, PushStream
  <2>2. CASE ~Visible
    <3>1. UNCHANGED <<cache, toBrowser>>
      BY <2>2 DEF Serve, entry
    <3>2. UNCHANGED <<generation, toBrowser, toServer, acks, subscribed>>
      BY <1>2, <3>1
    <3>3. /\ life' \in {"active", "loaded"} => life \in {"active", "loaded"}
          /\ life' \in Lives
          /\ life' = "loaded" => ~subscribed
          /\ subscribed /\ life' = "active" => life = "active" /\ cache' = cache
          /\ \A x : Holds(x) => Holds(x)'
          /\ held' # NoHeld \/ (held' = held /\ last' = last)
      BY <1>1, <1>2, <3>1 DEF Stream, Silent, Holds
    <3>4. QED
      BY ONLY <1>1, <3>2, <3>3, SameStream
  <2>3. QED
    BY <2>1, <2>2
<1>7. \A q \in requests : /\ q.seq = r.seq => q = r
                          /\ Full(q) => q.snapshot.gen <= generation
  <2>1. ASSUME NEW q \in requests, Full(q) PROVE q.snapshot.gen <= generation
    <3>1. PICK h : h = q.snapshot
      OBVIOUS
    <3>2. Was(h)
      BY <1>1, <2>1, <3>1 DEF Asked
    <3>3. QED
      BY <1>1, <3>1, <3>2, HeldWas
  <2>2. QED
    BY <1>1, <2>1 DEF Asked
<1>8. ~r.answered /\ e.gen = generation
  BY DEF Serve
<1>9. \A q \in requests' : q # n => q \in requests /\ q.seq # n.seq
  BY <1>4, <1>7
<1>10. Kept'
  <2>1. ~(generation < held.gen)
    <3>1. CASE held = NoHeld
      BY <1>1, <3>1 DEF NoHeld
    <3>2. CASE held # NoHeld
      <4>1. PICK h : h = held
        OBVIOUS
      <4>2. Was(h)
        BY <1>1, <3>2, <4>1 DEF Kept
      <4>3. QED
        BY <1>1, <4>1, <4>2, HeldWas
    <3>3. QED
      BY <3>1, <3>2
  <2>2. \A q \in requests' : Full(q) => q \in requests \/ ~(q.snapshot.gen < held.gen)
    BY <1>4, <1>8, <1>9, <2>1
  <2>3. QED
    BY <1>1, <1>2, <2>2, KeptStays
<1>11. Asked'
  <2>1. \A h : Was(h) => Was(h)'
    BY <1>1, WasStays
  <2>2. ASSUME NEW q \in requests'
        PROVE  /\ q.seq <= sequence'
               /\ ~q.answered => ~q.listed
               /\ Full(q)' => Was(q.snapshot)'
    <3>1. CASE q = n
      <4>1. q.seq <= sequence' /\ q.answered
        BY <1>1, <1>2, <1>4, <3>1 DEF Asked
      <4>2. Full(q) => q.snapshot = e /\ Was(e)'
        BY <1>4, <1>5, <3>1
      <4>3. QED
        BY <4>1, <4>2 DEF Full
    <3>2. CASE q # n
      <4>1. q \in requests
        BY <1>9, <3>2
      <4>2. PICK h : h = q.snapshot
        OBVIOUS
      <4>3. Full(q) => Was(h)'
        BY <1>1, <2>1, <4>1, <4>2 DEF Asked
      <4>4. Full(q)' => Was(q.snapshot)'
        BY <4>2, <4>3 DEF Full
      <4>5. q.seq <= sequence' /\ (~q.answered => ~q.listed)
        BY <1>1, <1>2, <4>1 DEF Asked
      <4>6. QED
        BY <4>4, <4>5
    <3>3. QED
      BY <3>1, <3>2
  <2>3. \A p, q \in requests' : p.seq = q.seq => p = q
    BY <1>1, <1>9 DEF Asked
  <2>4. ASSUME NEW p \in requests', NEW q \in requests', p.seq < q.seq, Full(q)
        PROVE  /\ ~p.answered => q.snapshot.gen = generation'
               /\ Full(p) => p.snapshot.gen <= q.snapshot.gen
    <3>1. CASE q = n
      <4>1. p \in requests /\ q.snapshot.gen = generation
        <5>1. n.seq \in Nat
          BY <1>1, <1>4, CacheAssumption DEF Request
        <5>2. p # n
          BY <2>4, <3>1, <5>1
        <5>3. q.snapshot.gen = generation
          BY <1>4, <1>8, <2>4, <3>1
        <5>4. QED
          BY <1>9, <5>2, <5>3
      <4>2. QED
        BY <1>2, <1>7, <4>1
    <3>2. CASE q # n /\ p = n
      <4>1. q \in requests /\ r.seq < q.seq
        BY <1>4, <1>9, <2>4, <3>2
      <4>2. q.snapshot.gen = generation
        BY <1>1, <1>8, <2>4, <4>1 DEF Asked
      <4>3. Full(p) => p.snapshot.gen = generation
        BY <1>4, <1>8, <3>2
      <4>4. QED
        BY <1>1, <1>2, <1>4, <3>2, <4>2, <4>3
    <3>3. CASE q # n /\ p # n
      <4>1. q \in requests /\ p \in requests
        BY <1>9, <3>3
      <4>2. QED
        BY <1>1, <1>2, <2>4, <4>1 DEF Asked
    <3>4. QED
      BY <3>1, <3>2, <3>3
  <2>5. \A p, q \in requests' :
           /\ p.seq < q.seq /\ Full(q)' /\ ~p.answered => q.snapshot.gen = generation'
           /\ p.seq < q.seq /\ Full(q)' /\ Full(p)' => p.snapshot.gen <= q.snapshot.gen
    BY <2>4 DEF Full
  <2>6. QED
    BY <2>2, <2>3, <2>5 DEF Asked
<1>12. QED
  BY <1>3, <1>6, <1>10, <1>11

\* What a step may do to what is shown: put an entry that is not older there, take
\* the entry away, or forget that there was one.
Climbs == IF held' = NoHeld THEN last' \in {last, NoVersion} ELSE ~Before(last', last)

\* Where what is held stays, nothing is shown anew.
LEMMA ClimbsStays ==
    ASSUME TypeOK, UNCHANGED <<held, last>>
    PROVE  Climbs
<1>1. last \in Version
  BY DEF TypeOK, CacheTypeOK
<1>2. ~Before(last, last)
  BY <1>1 DEF Before, Version
<1>3. QED
  BY <1>2 DEF Climbs, Before

\* A list's snapshot replaces what is held if it is newer: lists that carry an older
\* generation are kept out by their number, whichever order they come in.
LEMMA SnapshotHydrated ==
    ASSUME PInv, NEW r \in requests, Full(r), HydrateSnapshot(r.seq, r.snapshot),
           UNCHANGED <<generation, sequence, published>>, requests' = requests \ {r}
    PROVE  /\ Kept' /\ Climbs
           /\ held' # NoHeld \/ (held' = held /\ last' = last)
           /\ \A n : Holds(n) => Holds(n)'
<1>1. /\ TypeOK /\ Ordered /\ Asked /\ Kept
      /\ published' \in Seq(Held) /\ Extends(published', published)
      /\ requests \subseteq Request /\ generation \in Nat \ {0}
      /\ latest \in Nat /\ barrier \in Nat /\ sequence \in Nat /\ held \in Held /\ last \in Version
  BY RuntimeAssumption, CacheAssumption
  DEF PInv, TInv, TypeOK, RuntimeTypeOK, CacheTypeOK, Held, Extends
<1>2. PICK h, seq : h = r.snapshot /\ seq = r.seq
  OBVIOUS
<1>3. /\ Was(h) /\ h \in Held /\ h # NoHeld /\ h.gen \in 1 .. generation /\ h.rev \in Nat \ {0}
      /\ h.gen \in Nat /\ seq \in Nat /\ seq <= sequence
  <2>1. Was(h)
    BY <1>1, <1>2 DEF Asked
  <2>2. seq \in Nat /\ seq <= sequence
    BY <1>1, <1>2, CacheAssumption DEF Asked, Request
  <2>3. QED
    BY <1>1, <2>1, <2>2, HeldWas
<1>4. CASE UNCHANGED <<held, last, ordering>>
  <2>1. \A q \in requests' : Full(q) => q \in requests \/ ~(q.snapshot.gen < held.gen)
    OBVIOUS
  <2>2. Kept'
    BY <1>1, <1>4, <2>1, KeptStays
  <2>3. Climbs
    BY <1>1, <1>4, ClimbsStays
  <2>4. QED
    BY <1>4, <2>2, <2>3 DEF Holds
<1>5. CASE ~rejected /\ ~(seq < latest)
  <2> DEFINE fenced == seq <= barrier /\ ~(held # NoHeld /\ held.gen = h.gen)
             behind == held # NoHeld /\ held.gen = h.gen /\ h.rev <= held.rev
  <2>1. /\ latest' = seq /\ UNCHANGED <<barrier, rejected>>
        /\ Hold(IF fenced \/ behind THEN held ELSE h)
    BY <1>2, <1>5 DEF HydrateSnapshot
  <2>2. latest' <= sequence' /\ barrier' <= sequence' /\ latest <= latest' /\ latest' \in Nat
    BY <1>1, <1>3, <1>5, <2>1 DEF Kept
  <2>3. \A q \in requests' : q \in requests /\ q # r
    OBVIOUS
  <2>4. CASE fenced \/ behind
    <3>1. held' = held /\ last' = last
      <4>1. held' = held /\ last' = (IF held = NoHeld THEN last ELSE VersionOf(held))
        BY <2>1, <2>4 DEF Hold
      <4>2. QED
        BY <1>1, <4>1 DEF Kept
    <3>2. held # NoHeld => Was(held)' /\ last' = VersionOf(held)
      BY <1>1, <3>1 DEF Kept, Was
    <3>3. held = NoHeld /\ last # NoVersion => rejected' /\ Named(last)'
      BY <1>1, <1>5, <3>1 DEF Kept
    <3>4. held # NoHeld => \A q \in requests' :
             Full(q) /\ q.snapshot.gen < held.gen => q.seq < latest' \/ q.seq <= barrier'
      <4>1. ASSUME held # NoHeld, NEW q \in requests', Full(q), q.snapshot.gen < held.gen
            PROVE  q.seq < latest' \/ q.seq <= barrier'
        <5>1. q.seq < latest \/ q.seq <= barrier
          BY <1>1, <2>3, <4>1 DEF Kept
        <5>2. q.seq \in Nat
          BY <1>1, <2>3, CacheAssumption DEF Request
        <5>3. QED
          BY <1>1, <2>1, <2>2, <5>1, <5>2
      <4>2. QED
        BY <4>1
    <3>5. Kept'
      BY <2>2, <3>1, <3>2, <3>3, <3>4 DEF Kept, Full, Was
    <3>6. Climbs
      BY <1>1, <3>1, ClimbsStays
    <3>7. QED
      BY <3>1, <3>5, <3>6 DEF Holds
  <2>5. CASE ~(fenced \/ behind)
    <3>1. held' = h /\ last' = VersionOf(h)
      BY <1>3, <2>1, <2>5 DEF Hold
    <3>2. Was(h)'
      BY <1>3 DEF Was
    <3>3. \A q \in requests' : Full(q) /\ q.snapshot.gen < h.gen => q.seq < seq
      <4>1. ASSUME NEW q \in requests', Full(q), q.snapshot.gen < h.gen PROVE q.seq < seq
        <5>1. q.seq \in Nat /\ q.snapshot.gen \in Nat
          BY <1>1, <2>3, CacheAssumption DEF Request, Held
        <5>2. q.seq # seq
          BY <1>1, <1>2, <2>3 DEF Asked
        <5>3. ~(seq < q.seq)
          <6>1. seq < q.seq => h.gen <= q.snapshot.gen
            BY <1>1, <1>2, <2>3, <4>1 DEF Asked
          <6>2. QED
            BY <1>3, <4>1, <5>1, <6>1
        <5>4. QED
          BY <1>3, <5>1, <5>2, <5>3
      <4>2. QED
        BY <4>1
    <3>4. Kept'
      <4>1. held' # NoHeld /\ Was(held)' /\ last' = VersionOf(held')
        BY <1>3, <3>1, <3>2 DEF Was
      <4>2. \A q \in requests' :
               Full(q) /\ q.snapshot.gen < held'.gen => q.seq < latest' \/ q.seq <= barrier'
        BY <2>1, <3>1, <3>3
      <4>3. QED
        BY <2>2, <4>1, <4>2 DEF Kept, Full
    <3>5. held # NoHeld =>
             held.gen < h.gen \/ (held.gen = h.gen /\ held.rev < h.rev)
      <4>1. ASSUME held # NoHeld, held.gen # h.gen PROVE held.gen < h.gen
        <5>1. ~(seq <= barrier)
          BY <2>5, <4>1
        <5>2. ~(h.gen < held.gen)
          BY <1>1, <1>2, <1>5, <4>1, <5>1 DEF Kept
        <5>3. QED
          BY <1>1, <1>3, <4>1, <5>2 DEF Held
      <4>2. ASSUME held # NoHeld, held.gen = h.gen PROVE held.rev < h.rev
        BY <1>1, <1>3, <2>5, <4>2 DEF Held
      <4>3. QED
        BY <4>1, <4>2
    <3>6. Climbs
      <4>1. CASE held # NoHeld
        <5>1. last = VersionOf(held) /\ last' = VersionOf(h)
          BY <1>1, <3>1, <4>1 DEF Kept
        <5>2. ~Before(last', last)
          BY <1>1, <1>3, <3>5, <4>1, <5>1 DEF Before, VersionOf, Held
        <5>3. QED
          BY <1>3, <3>1, <5>2 DEF Climbs
      <4>2. CASE held = NoHeld
        <5>1. last = NoVersion
          BY <1>1, <1>5, <4>2 DEF Kept
        <5>2. ~Before(last', last)
          BY <1>3, <3>1, <5>1 DEF Before, VersionOf, NoVersion
        <5>3. QED
          BY <1>3, <3>1, <5>2 DEF Climbs
      <4>3. QED
        BY <4>1, <4>2
    <3>7. ASSUME NEW n, Holds(n) PROVE Holds(n)'
      <4>1. held # NoHeld /\ held.gen = generation /\ n \in Int /\ held.rev >= n
        BY <3>7 DEF Holds
      <4>2. held.gen = h.gen /\ held.rev < h.rev
        BY <1>1, <1>3, <3>5, <4>1
      <4>3. h.rev >= n
        BY <1>1, <1>3, <4>1, <4>2 DEF Held
      <4>4. QED
        BY <1>3, <3>1, <4>1, <4>2, <4>3 DEF Holds
    <3>8. QED
      BY <1>3, <3>1, <3>4, <3>6, <3>7
  <2>6. QED
    BY <2>4, <2>5
<1>6. QED
  BY <1>2, <1>4, <1>5 DEF HydrateSnapshot

\* A list is taken into the browser's state.
LEMMA HydrateKeeps ==
    ASSUME PInv, NEW r \in requests, Hydrate(r)
    PROVE  NoResync' /\ Asked' /\ Kept' /\ Stream' /\ Climbs
<1>1. /\ TInv /\ TypeOK /\ Asked /\ Kept /\ NoResync /\ Stream
      /\ published \in Seq(Held) /\ life \in Lives
  BY DEF PInv, TInv, TypeOK, RuntimeTypeOK, Held
<1>2. /\ UNCHANGED <<generation, toBrowser, toServer, acks, subscribed>>
      /\ UNCHANGED <<generation, sequence, published>>
      /\ UNCHANGED <<resyncing, life, cache>>
      /\ sequence' = sequence
      /\ requests' = requests \ {r}
  BY DEF Hydrate, runtimeVars, transport, entry, session, wire
<1>3. published' \in Seq(Held) /\ Extends(published', published)
  BY <1>1, <1>2 DEF Extends
<1>4. NoResync'
  BY <1>1, <1>2 DEF NoResync
<1>5. Asked'
  <2>1. requests' \subseteq requests
    BY <1>2
  <2>2. UNCHANGED <<generation, sequence>>
    BY <1>2
  <2>3. QED
    BY <1>1, <1>3, <2>1, <2>2, AskedStays
<1>6. /\ Kept' /\ Climbs
      /\ held' # NoHeld \/ (held' = held /\ last' = last)
      /\ \A n : Holds(n) => Holds(n)'
  <2>1. CASE UNCHANGED <<held, last, ordering>>
    <3>1. \A q \in requests' : Full(q) => q \in requests \/ ~(q.snapshot.gen < held.gen)
      BY <1>2
    <3>2. Kept'
      BY <1>1, <1>2, <1>3, <2>1, <3>1, KeptStays
    <3>3. Climbs
      BY <1>1, <2>1, ClimbsStays
    <3>4. QED
      BY <1>2, <2>1, <3>2, <3>3 DEF Holds
  <2>2. CASE Full(r) /\ HydrateSnapshot(r.seq, r.snapshot)
    BY <1>2, <2>2, SnapshotHydrated
  <2>3. QED
    BY <2>1, <2>2 DEF Hydrate, Full
<1>7. Stream'
  <2>1. /\ life' \in {"active", "loaded"} => life \in {"active", "loaded"}
        /\ life' \in Lives
        /\ life' = "loaded" => ~subscribed
        /\ subscribed /\ life' = "active" => life = "active" /\ cache' = cache
    BY <1>1, <1>2 DEF Stream, Silent
  <2>2. QED
    BY ONLY <1>1, <1>2, <1>3, <1>6, <2>1, SameStream
<1>8. QED
  BY <1>4, <1>5, <1>6, <1>7

-----------------------------------------------------------------------------
(***************************************************************************)
(* What comes over the socket.                                             *)
(***************************************************************************)
\* The message that is received, and what no message changes.
LEMMA Receiving ==
    ASSUME PInv, Receive
    PROVE  /\ TInv /\ TypeOK /\ NoResync /\ Ordered /\ Asked /\ Kept /\ Stream
           /\ toBrowser # <<>> /\ toBrowser' = Tail(toBrowser)
           /\ 1 \in DOMAIN toBrowser /\ Head(toBrowser) = toBrowser[1] /\ socket = "up"
           /\ UNCHANGED <<generation, session, entry, subscribed>>
           /\ generation' = generation /\ published' = published
           /\ requests' = requests /\ sequence' = sequence
           /\ published' \in Seq(Held) /\ Extends(published', published)
           /\ Asked' /\ Carries(toBrowser[1])
           /\ held \in Held /\ last \in Version /\ generation \in Nat \ {0}
<1>1. TInv /\ TypeOK /\ NoResync /\ Ordered /\ Asked /\ Kept /\ Stream
  BY DEF PInv, TInv
<1>2. /\ toBrowser # <<>> /\ toBrowser' = Tail(toBrowser)
      /\ UNCHANGED <<generation, session, entry, subscribed>> /\ UNCHANGED lists
  BY DEF Receive, ReceiveSnapshot, ReceiveUpdate, ReceiveAck, ReceiveArchived, Reads, transport
<1>3. /\ generation' = generation /\ published' = published
      /\ requests' = requests /\ sequence' = sequence
  BY <1>2 DEF entry, lists
<1>4. /\ published' \in Seq(Held) /\ Extends(published', published)
      /\ held \in Held /\ last \in Version /\ generation \in Nat \ {0}
  BY <1>1, <1>3, RuntimeAssumption DEF TypeOK, RuntimeTypeOK, CacheTypeOK, Held, Extends
<1>5. 1 \in DOMAIN toBrowser /\ Head(toBrowser) = toBrowser[1] /\ socket = "up"
  BY <1>1, <1>2, TakeTypes
<1>6. Asked'
  BY <1>1, <1>3, <1>4, AskedStays
<1>7. Carries(toBrowser[1])
  BY <1>1, <1>5 DEF Stream, Genuine
<1>8. QED
  BY <1>1, <1>2, <1>3, <1>4, <1>5, <1>6, <1>7

\* What comes over the socket keeps every list out that was asked for before.
LEMMA LiveKept ==
    ASSUME TypeOK, Ordered, Asked, Kept, published' = published,
           UNCHANGED <<requests, sequence>>, OrderLive,
           NEW h, Was(h), held' = h, last' = VersionOf(h)
    PROVE  Kept'
<1>1. h # NoHeld
  BY HeldWas
<1>2. sequence \in Nat /\ latest' = latest /\ barrier' = sequence
  BY CacheAssumption DEF TypeOK, CacheTypeOK, OrderLive
<1>3. latest' <= sequence' /\ barrier' <= sequence'
  BY <1>2 DEF Kept
<1>4. Was(held)' /\ last' = VersionOf(held')
  BY DEF Was
<1>5. \A r \in requests' : r.seq <= barrier'
  BY <1>2 DEF Asked
<1>6. QED
  BY <1>1, <1>3, <1>4, <1>5 DEF Kept

\* A snapshot never contradicts what is held under its version.
LEMMA SnapshotKeeps ==
    ASSUME PInv, ReceiveSnapshot, TInv'
    PROVE  NoResync' /\ Asked' /\ Kept' /\ Stream' /\ Climbs
<1>1. /\ TInv /\ TypeOK /\ NoResync /\ Ordered /\ Asked /\ Kept /\ Stream
      /\ toBrowser # <<>> /\ toBrowser' = Tail(toBrowser)
      /\ 1 \in DOMAIN toBrowser /\ Head(toBrowser) = toBrowser[1]
      /\ UNCHANGED <<generation, session, entry, subscribed>>
      /\ generation' = generation /\ published' = published
      /\ requests' = requests /\ sequence' = sequence
      /\ Asked' /\ Carries(toBrowser[1])
      /\ held \in Held /\ last \in Version /\ generation \in Nat \ {0}
  BY Receiving DEF Receive
<1>2. PICK m : m = toBrowser[1]
  OBVIOUS
<1>3. /\ m.kind = "snapshot" /\ m.gen \in Nat /\ m.rev \in Nat /\ m.change \in Value
      /\ m.gen = generation /\ m.rev >= 1 /\ Was(Entry(m))
      /\ held = NoHeld /\ last # NoVersion => ~Before(m, last)
      /\ Datum(m)
  <2>1. m.kind = "snapshot" /\ Datum(m)
    BY <1>1, <1>2 DEF ReceiveSnapshot, Reads, Datum
  <2>2. m.gen \in Nat /\ m.rev \in Nat /\ m.change \in Value
    BY <1>1, <1>2, <2>1, MessageTypes
  <2>3. Carries(m)
    BY <1>1, <1>2
  <2>4. QED
    BY <2>1, <2>2, <2>3 DEF Carries
<1>4. held # NoHeld => Was(held) /\ last = VersionOf(held) /\ held.gen \in 1 .. generation
  <2>1. ASSUME held # NoHeld
        PROVE  Was(held) /\ last = VersionOf(held) /\ held.gen \in 1 .. generation
    <3>1. PICK h : h = held
      OBVIOUS
    <3>2. Was(h) /\ last = VersionOf(held)
      BY <1>1, <2>1, <3>1 DEF Kept
    <3>3. QED
      BY <1>1, <3>1, <3>2, HeldWas
  <2>2. QED
    BY <2>1
<1>5. ~Contradicts(m)
  <2>1. ASSUME Contradicts(m) PROVE FALSE
    <3>1. held # NoHeld /\ held.gen = m.gen /\ m.rev = held.rev /\ m.change # held.value
      BY <2>1 DEF Contradicts, SameGeneration
    <3>2. PICK g, h : g = held /\ h = Entry(m)
      OBVIOUS
    <3>3. Was(g) /\ Was(h) /\ g.gen = h.gen /\ g.rev = h.rev
      BY <1>3, <1>4, <3>1, <3>2 DEF Entry
    <3>4. g = h
      BY <1>1, <3>3, OneValue
    <3>5. QED
      BY <3>1, <3>2, <3>4 DEF Entry
  <2>2. QED
    BY <2>1
<1>6. PICK h : h = IF Older(m) THEN held ELSE Entry(m)
  OBVIOUS
<1>7. /\ Hold(h) /\ acks' = Noted(acks) /\ resyncing' = FALSE /\ toServer' = toServer /\ OrderLive
  BY <1>1, <1>2, <1>5, <1>6 DEF ReceiveSnapshot
<1>8. /\ Was(h) /\ h # NoHeld /\ h \in Held /\ held' = h /\ last' = VersionOf(h)
      /\ h.gen = generation /\ h.rev >= m.rev
      /\ held # NoHeld /\ held.gen = generation => h.rev >= held.rev
  <2>1. CASE Older(m)
    <3>1. h = held /\ held # NoHeld /\ held.gen = m.gen /\ m.rev < held.rev
      BY <1>6, <2>1 DEF Older, SameGeneration
    <3>2. QED
      BY <1>1, <1>3, <1>4, <1>7, <3>1 DEF Hold, Held
  <2>2. CASE ~Older(m)
    <3>1. h = [gen |-> m.gen, rev |-> m.rev, value |-> m.change] /\ Was(h)
      BY <1>3, <1>6, <2>2 DEF Entry
    <3>2. held # NoHeld /\ held.gen = generation => m.rev >= held.rev
      BY <1>1, <1>3, <2>2 DEF Older, SameGeneration, Held
    <3>3. h # NoHeld /\ h \in Held
      BY <1>1, <3>1, HeldWas
    <3>4. QED
      BY <1>3, <1>7, <3>1, <3>2, <3>3 DEF Hold
  <2>3. QED
    BY <2>1, <2>2
<1>9. NoResync'
  BY <1>7 DEF NoResync
<1>10. Kept'
  BY <1>1, <1>7, <1>8, LiveKept
<1>11. Climbs
  <2>1. last' = [gen |-> generation, rev |-> h.rev] /\ h.rev \in Nat
    BY <1>8 DEF VersionOf, Held
  <2>2. CASE held # NoHeld
    <3>1. last = [gen |-> held.gen, rev |-> held.rev] /\ held.gen \in 1 .. generation
      BY <1>4, <2>2 DEF VersionOf
    <3>2. ~Before(last', last)
      BY <1>1, <1>8, <2>1, <2>2, <3>1 DEF Before, Held
    <3>3. QED
      BY <1>8, <3>2 DEF Climbs
  <2>3. CASE held = NoHeld
    <3>1. h = Entry(m)
      BY <1>6, <2>3 DEF Older, SameGeneration
    <3>2. last' = [gen |-> m.gen, rev |-> m.rev]
      BY <1>3, <2>1, <3>1 DEF Entry
    <3>3. last = NoVersion => ~Before(last', last)
      BY <1>3, <3>2 DEF Before, NoVersion
    <3>4. last # NoVersion => ~Before(last', last)
      BY <1>3, <2>3, <3>2 DEF Before
    <3>5. QED
      BY <1>8, <3>3, <3>4 DEF Climbs
  <2>4. QED
    BY <2>2, <2>3
<1>12. Stream'
  <2>1. ASSUME NEW n, Holds(n) PROVE Holds(n)'
    <3>1. held # NoHeld /\ held.gen = generation /\ n \in Int /\ held.rev >= n
      BY <2>1 DEF Holds
    <3>2. h.rev >= n
      BY <1>1, <1>8, <3>1 DEF Held
    <3>3. QED
      BY <1>1, <1>8, <3>1, <3>2 DEF Holds
  <2>2. Holds(m.rev)'
    BY <1>1, <1>3, <1>8 DEF Holds
  <2>3. held' # NoHeld \/ (held' = held /\ last' = last)
    BY <1>8
  <2>4. PICK d \in {0, 1} : d = 0
    OBVIOUS
  <2>5. /\ \A j \in DOMAIN acks' : /\ acks'[j].wants = acks[j + d].wants
                                   /\ acks'[j].known = acks[j + d].known
        /\ m.kind = "snapshot" /\ acks # <<>> /\ acks[1].wants => acks'[1].noted
    <3>1. acks \in Seq(Ack)
      BY <1>1 DEF TypeOK, CacheTypeOK
    <3>2. CASE acks # <<>> /\ Head(acks).wants
      <4>1. Len(acks) \in Nat \ {0} /\ acks[1] \in Ack /\ DOMAIN acks = 1 .. Len(acks)
        BY <3>1, <3>2, EmptySeq, ElementOfSeq
      <4>2. acks' = [acks EXCEPT ![1].noted = TRUE]
        BY <1>7, <3>2 DEF Noted
      <4>3. DOMAIN acks' = DOMAIN acks /\ acks'[1] = [acks[1] EXCEPT !.noted = TRUE]
            /\ \A j \in DOMAIN acks : j # 1 => acks'[j] = acks[j]
        <5>1. 1 \in DOMAIN acks
          BY <4>1
        <5>2. DOMAIN acks' = DOMAIN acks
          BY <4>2
        <5>3. acks'[1] = [acks[1] EXCEPT !.noted = TRUE]
          BY <4>2, <5>1
        <5>4. \A j \in DOMAIN acks : j # 1 => acks'[j] = acks[j]
          BY <4>2
        <5>5. QED
          BY <5>2, <5>3, <5>4
      <4>4. acks'[1].noted /\ acks'[1].wants = acks[1].wants /\ acks'[1].known = acks[1].known
        BY <4>1, <4>3 DEF Ack
      <4>5. \A j \in DOMAIN acks' : j + d = j /\ j \in DOMAIN acks
        BY <2>4, <4>1, <4>3
      <4>6. QED
        BY <4>3, <4>4, <4>5
    <3>3. CASE ~(acks # <<>> /\ Head(acks).wants)
      <4>1. acks' = acks /\ ~(acks # <<>> /\ acks[1].wants)
        BY <1>7, <3>1, <3>3 DEF Noted
      <4>2. \A j \in DOMAIN acks' : j + d = j
        BY <2>4, <3>1, <4>1
      <4>3. QED
        BY <4>1, <4>2
    <3>4. QED
      BY <3>2, <3>3
  <2>6. (d = 1) <=> (m.kind = "ack")
    BY <1>3, <2>4
  <2>7. UNCHANGED <<generation, session, entry, subscribed, toServer>>
    BY <1>1, <1>7
  <2>8. Datum(m) => Holds(m.rev)'
    BY <2>2
  <2>9. QED
    BY ONLY <1>1, <1>2, <2>1, <2>3, <2>5, <2>6, <2>7, <2>8, TInv', TailStream
<1>13. QED
  BY <1>1, <1>9, <1>10, <1>11, <1>12

\* An update applies to what is held, or is covered by it.
LEMMA UpdateKeeps ==
    ASSUME PInv, ReceiveUpdate, TInv'
    PROVE  NoResync' /\ Asked' /\ Kept' /\ Stream' /\ Climbs
<1>1. /\ TInv /\ TypeOK /\ NoResync /\ Ordered /\ Asked /\ Kept /\ Stream
      /\ toBrowser # <<>> /\ toBrowser' = Tail(toBrowser)
      /\ 1 \in DOMAIN toBrowser /\ Head(toBrowser) = toBrowser[1]
      /\ UNCHANGED <<generation, session, entry, subscribed>>
      /\ generation' = generation /\ published' = published
      /\ requests' = requests /\ sequence' = sequence
      /\ Asked' /\ Carries(toBrowser[1])
      /\ held \in Held /\ last \in Version /\ generation \in Nat \ {0}
  BY Receiving DEF Receive
<1>2. PICK m : m = toBrowser[1]
  OBVIOUS
<1>3. /\ m.kind \in {"update", "patch"} /\ m.gen = generation
      /\ m.rev \in Nat /\ m.rev >= 1
      /\ m.kind = "update" => Was(Entry(m))
      /\ m.kind = "patch" => Leads(m)
  <2>1. m.kind \in {"update", "patch"}
    BY <1>1, <1>2 DEF ReceiveUpdate, Reads
  <2>2. m.rev \in Nat
    BY <1>1, <1>2, <2>1, MessageTypes
  <2>3. Carries(m) /\ Datum(m)
    BY <1>1, <1>2, <2>1 DEF Datum
  <2>4. QED
    BY <2>1, <2>2, <2>3 DEF Carries
<1>4. /\ held # NoHeld /\ held.gen = generation /\ held.rev >= m.rev - 1
      /\ held.rev \in Nat /\ held.gen \in Nat
      /\ last = VersionOf(held) /\ \A h : h = held => Was(h)
  <2>1. Delta(toBrowser[1])
    BY <1>2, <1>3 DEF Delta
  <2>2. \/ Holds(toBrowser[1].rev - 1)
        \/ \E j \in DOMAIN toBrowser : j < 1
    BY <1>1, <2>1 DEF Stream, Continued
  <2>3. ~\E j \in DOMAIN toBrowser : j < 1
    BY <1>1 DEF TypeOK, RuntimeTypeOK
  <2>4. Holds(m.rev - 1)
    BY <1>2, <2>2, <2>3
  <2>5. held # NoHeld /\ held.gen = generation /\ held.rev >= m.rev - 1
    BY <2>4 DEF Holds
  <2>6. held.rev \in Nat /\ held.gen \in Nat
    BY <1>1 DEF Held
  <2>7. Was(held) /\ last = VersionOf(held)
    BY <1>1, <2>5 DEF Kept
  <2>8. QED
    BY <2>5, <2>6, <2>7
<1>5. PICK next : next = IF m.kind = "update" THEN m.change ELSE Patched(held.value, m.change)
  OBVIOUS
<1> DEFINE contiguous == m.rev = held.rev + 1
           newer == SameGeneration(m) /\ m.rev > held.rev
           applies == newer /\ (m.kind = "update" \/ contiguous)
           covered == SameGeneration(m)
               /\ (m.rev < held.rev \/ (m.rev = held.rev /\ next = held.value))
<1>6. PICK h : h = IF applies THEN [gen |-> m.gen, rev |-> m.rev, value |-> next] ELSE held
  OBVIOUS
<1>7. /\ Hold(h) /\ Resync(~covered /\ ~(applies /\ contiguous))
      /\ OrderLive /\ UNCHANGED acks
  BY <1>1, <1>2, <1>4, <1>5, <1>6 DEF ReceiveUpdate
<1>8. SameGeneration(m)
  BY <1>3, <1>4 DEF SameGeneration
<1>9. \A g, k : Was(g) /\ Was(k) /\ g.gen = k.gen /\ g.rev = k.rev => g = k
  BY <1>1, OneValue
<1>10. m.rev = held.rev => next = held.value
  <2>1. ASSUME m.rev = held.rev, m.kind = "update" PROVE next = held.value
    <3>1. Was(Entry(m)) /\ Entry(m).gen = held.gen /\ Entry(m).rev = held.rev
      BY <1>3, <1>4, <2>1 DEF Entry
    <3>2. Entry(m) = held
      BY <1>4, <1>9, <3>1
    <3>3. QED
      BY <1>5, <2>1, <3>2 DEF Entry
  <2>2. ASSUME m.rev = held.rev, m.kind = "patch" PROVE next = held.value
    <3>1. PICK w \in Value : /\ Was([gen |-> m.gen, rev |-> m.rev, value |-> w])
                             /\ Patched(w, m.change) = w
      BY <1>3, <2>2 DEF Leads
    <3>2. [gen |-> m.gen, rev |-> m.rev, value |-> w] = held
      BY <1>3, <1>4, <1>9, <2>2, <3>1
    <3>3. held.value = w
      BY <3>2
    <3>4. next = Patched(held.value, m.change)
      BY <1>5, <2>2
    <3>5. QED
      BY <3>1, <3>3, <3>4
  <2>3. QED
    BY <1>3, <2>1, <2>2
<1>11. m.rev > held.rev => contiguous /\ Was([gen |-> m.gen, rev |-> m.rev, value |-> next])
  <2>1. ASSUME m.rev > held.rev PROVE contiguous
    BY <1>3, <1>4, <2>1
  <2>2. ASSUME m.rev > held.rev, m.kind = "update"
        PROVE  Was([gen |-> m.gen, rev |-> m.rev, value |-> next])
    BY <1>3, <1>5, <2>2 DEF Entry
  <2>3. ASSUME m.rev > held.rev, m.kind = "patch"
        PROVE  Was([gen |-> m.gen, rev |-> m.rev, value |-> next])
    <3>1. PICK v \in Value, w \in Value :
             /\ Was([gen |-> m.gen, rev |-> m.rev - 1, value |-> v])
             /\ Was([gen |-> m.gen, rev |-> m.rev, value |-> w])
             /\ Patched(v, m.change) = w
      BY <1>3, <2>3 DEF Leads
    <3>2. held.rev = m.rev - 1
      BY <1>3, <1>4, <2>1, <2>3
    <3>3. [gen |-> m.gen, rev |-> m.rev - 1, value |-> v] = held
      BY <1>3, <1>4, <1>9, <3>1, <3>2
    <3>4. held.value = v
      BY <3>3
    <3>5. next = w
      BY <1>5, <2>3, <3>1, <3>4
    <3>6. QED
      BY <3>1, <3>5
  <2>4. QED
    BY <1>3, <2>1, <2>2, <2>3
<1>12. covered \/ (applies /\ contiguous)
  BY <1>3, <1>4, <1>8, <1>10, <1>11
<1>13. UNCHANGED <<toServer, resyncing>>
  <2>1. PICK asked : asked = (~covered /\ ~(applies /\ contiguous))
    OBVIOUS
  <2>2. asked = FALSE
    BY <1>12, <2>1
  <2>3. Resync(asked)
    BY <1>7, <2>1
  <2>4. resyncing \in BOOLEAN
    BY <1>1 DEF TypeOK, CacheTypeOK
  <2>5. toServer' = toServer
    BY <2>2, <2>3 DEF Resync
  <2>6. resyncing' = (resyncing \/ (asked /\ Wanted))
    BY <2>3 DEF Resync
  <2>7. resyncing' = resyncing
    BY <2>2, <2>4, <2>6
  <2>8. QED
    BY <2>5, <2>7
<1>14. /\ Was(h) /\ h.gen = generation /\ h.rev \in Nat /\ h.rev >= m.rev /\ h.rev >= held.rev
  <2>1. CASE applies
    <3>1. h = [gen |-> m.gen, rev |-> m.rev, value |-> next] /\ m.rev > held.rev
      BY <1>6, <2>1
    <3>2. QED
      BY <1>3, <1>4, <1>11, <3>1
  <2>2. CASE ~applies
    <3>1. h = held
      BY <1>6, <2>2
    <3>2. held.rev >= m.rev
      BY <1>3, <1>4, <1>8, <1>11, <2>2
    <3>3. QED
      BY <1>4, <3>1, <3>2
  <2>3. QED
    BY <2>1, <2>2
<1> HIDE DEF contiguous, newer, applies, covered
<1>15. h # NoHeld /\ held' = h /\ last' = VersionOf(h)
  <2>1. h # NoHeld
    BY <1>1, <1>14, HeldWas
  <2>2. QED
    BY <1>7, <2>1 DEF Hold
<1>16. NoResync'
  BY <1>1, <1>13 DEF NoResync
<1>17. Kept'
  BY <1>1, <1>7, <1>14, <1>15, LiveKept
<1>18. Climbs
  <2>1. last' = [gen |-> generation, rev |-> h.rev] /\ last = [gen |-> generation, rev |-> held.rev]
    BY <1>4, <1>14, <1>15 DEF VersionOf
  <2>2. ~Before(last', last)
    BY <1>1, <1>4, <1>14, <2>1 DEF Before
  <2>3. QED
    BY <1>15, <2>2 DEF Climbs
<1>19. Stream'
  <2>1. ASSUME NEW n, Holds(n) PROVE Holds(n)'
    <3>1. n \in Int /\ held.rev >= n
      BY <2>1 DEF Holds
    <3>2. h.rev >= n
      BY <1>4, <1>14, <3>1
    <3>3. QED
      BY <1>1, <1>14, <1>15, <3>1, <3>2 DEF Holds
  <2>2. Datum(m) => Holds(m.rev)'
    BY <1>1, <1>3, <1>14, <1>15 DEF Holds
  <2>3. held' # NoHeld \/ (held' = held /\ last' = last)
    BY <1>15
  <2>4. PICK d \in {0, 1} : d = 0
    OBVIOUS
  <2>5. /\ \A j \in DOMAIN acks' : /\ acks'[j].wants = acks[j + d].wants
                                   /\ acks'[j].known = acks[j + d].known
        /\ m.kind = "snapshot" /\ acks # <<>> /\ acks[1].wants => acks'[1].noted
    <3>1. acks \in Seq(Ack)
      BY <1>1 DEF TypeOK, CacheTypeOK
    <3>2. \A j \in DOMAIN acks : j + d = j
      BY <2>4, <3>1
    <3>3. QED
      BY <1>3, <1>7, <3>2
  <2>6. (d = 1) <=> (m.kind = "ack")
    BY <1>3, <2>4
  <2>7. UNCHANGED <<generation, session, entry, subscribed, toServer>>
    BY <1>1, <1>13
  <2>8. QED
    BY ONLY <1>1, <1>2, <2>1, <2>2, <2>3, <2>5, <2>6, <2>7, TInv', TailStream
<1>20. QED
  BY <1>1, <1>16, <1>17, <1>18, <1>19

\* A key whose value was taken away is a refused one, or one that is forgotten.
LEMMA ClearedKept ==
    ASSUME TypeOK, Ordered, Kept, published' = published, sequence' = sequence,
           Refuse \/ Forget
    PROVE  Kept' /\ Climbs
<1>1. /\ sequence \in Nat /\ latest \in Nat /\ latest <= sequence
      /\ held' = NoHeld /\ NoHeld' = NoHeld /\ NoVersion' = NoVersion
  BY CacheAssumption DEF TypeOK, CacheTypeOK, Kept, Refuse, Forget, Hold
<1>2. CASE Refuse
  <2>1. last' = last /\ barrier' = sequence /\ rejected' = TRUE /\ latest' = latest
    BY <1>2 DEF Refuse, Hold
  <2>2. last # NoVersion => Named(last)
    <3>1. CASE held = NoHeld
      BY <3>1 DEF Kept
    <3>2. CASE held # NoHeld
      <4>1. PICK h : h = held
        OBVIOUS
      <4>2. Was(h) /\ last = VersionOf(h)
        BY <3>2, <4>1 DEF Kept
      <4>3. QED
        BY <4>2, HeldWas
    <3>3. QED
      BY <3>1, <3>2
  <2>3. last' # NoVersion => rejected' /\ Named(last)'
    BY <2>1, <2>2 DEF Named
  <2>4. Kept'
    BY <1>1, <2>1, <2>3 DEF Kept
  <2>5. QED
    BY <1>1, <2>1, <2>4 DEF Climbs
<1>3. CASE Forget
  <2>1. last' = NoVersion /\ latest' = 0 /\ barrier' = 0
    BY <1>3 DEF Forget
  <2>2. Kept'
    BY <1>1, <2>1 DEF Kept
  <2>3. QED
    BY <1>1, <2>1, <2>2 DEF Climbs
<1>4. QED
  BY <1>2, <1>3

\* An accepted subscription has its snapshot, or what was held covers it; a refused
\* one that settles leaves nothing on its way for the key.
LEMMA AckKeeps ==
    ASSUME PInv, ReceiveAck, TInv'
    PROVE  NoResync' /\ Asked' /\ Kept' /\ Stream' /\ Climbs
<1>1. /\ TInv /\ TypeOK /\ NoResync /\ Ordered /\ Asked /\ Kept /\ Stream
      /\ toBrowser # <<>> /\ toBrowser' = Tail(toBrowser)
      /\ 1 \in DOMAIN toBrowser /\ Head(toBrowser) = toBrowser[1] /\ socket = "up"
      /\ UNCHANGED <<generation, session, entry, subscribed>>
      /\ generation' = generation /\ published' = published
      /\ requests' = requests /\ sequence' = sequence
      /\ published' \in Seq(Held) /\ Extends(published', published)
      /\ Asked' /\ generation \in Nat \ {0}
  BY Receiving DEF Receive
<1>2. PICK m, ask : m = toBrowser[1] /\ ask = acks[1]
  OBVIOUS
<1>3. m.kind = "ack"
  BY <1>1, <1>2 DEF ReceiveAck, Reads
<1>4. /\ Acked(1) = 1 /\ Len(acks) >= 1 /\ Len(acks) \in Nat /\ acks \in Seq(Ack)
      /\ Len(acks) = Acked(Len(toBrowser)) + Len(toServer)
      /\ Acked(Len(toBrowser)) >= 1 /\ Acked(Len(toBrowser)) \in Nat /\ Len(toServer) \in Nat
      /\ acks # <<>> /\ Head(acks) = ask /\ ask \in Ack
      /\ \A i \in DOMAIN toBrowser : /\ i \in Nat /\ Acked(i) \in Nat
                                     /\ toBrowser[i].kind = "ack" => Acked(i) <= Len(acks)
  <2>1. 0 \in Nat /\ Count(toBrowser, "ack", 0) = 0
        /\ Count(toBrowser, "ack", 0 + 1) =
              Count(toBrowser, "ack", 0) + IF toBrowser[0 + 1].kind = "ack" THEN 1 ELSE 0
    BY CountStep
  <2>2. Acked(1) = 1
    BY <1>2, <1>3, <2>1 DEF Acked
  <2>3. /\ Acked(Len(toBrowser)) \in Nat /\ Len(toServer) \in Nat /\ Len(acks) \in Nat
        /\ Len(acks) = Acked(Len(toBrowser)) + Len(toServer)
        /\ \A i \in DOMAIN toBrowser :
              /\ Acked(i) \in Nat /\ Acked(i) <= Acked(Len(toBrowser))
              /\ toBrowser[i].kind = "ack" => Acked(i) >= 1 /\ Acked(i) <= Len(acks)
    <3>1. InFlight
      BY <1>1 DEF Stream
    <3>2. QED
      BY <1>1, <3>1, Waiting
  <2>4. Len(acks) >= 1 /\ Acked(Len(toBrowser)) >= 1
    BY <1>1, <1>2, <1>3, <2>2, <2>3
  <2>5. acks \in Seq(Ack) /\ \A i \in DOMAIN toBrowser : i \in Nat
    BY <1>1 DEF TypeOK, CacheTypeOK, RuntimeTypeOK
  <2>6. acks # <<>> /\ Head(acks) = ask /\ ask \in Ack
    BY <1>2, <2>3, <2>4, <2>5, EmptySeq, ElementOfSeq
  <2>7. QED
    BY <2>2, <2>3, <2>4, <2>5, <2>6
<1> DEFINE covers == m.current /\ ask.known # NoVersion
               /\ held # NoHeld /\ held.gen = ask.known.gen /\ held.rev >= ask.known.rev
           accepted == m.accepted /\ (ask.noted \/ covers)
           settles == Len(acks) = 1 /\ ask.wants = Wanted
<1>5. /\ acks' = Tail(acks)
      /\ IF settles /\ ~accepted
         THEN IF Wanted THEN Refuse ELSE Forget
         ELSE UNCHANGED <<held, last, ordering>>
      /\ Resync(settles /\ m.accepted /\ ~accepted)
  BY <1>1, <1>2, <1>4 DEF ReceiveAck
<1>6. m.accepted => accepted
  <2>1. ASSUME m.accepted PROVE ask.noted \/ covers
    <3>1. Accepts(toBrowser[1])
      BY <1>2, <1>3, <2>1 DEF Accepts
    <3>2. toBrowser[1].current \/ acks[1].noted
      BY <1>1, <3>1 DEF Stream, Answered
    <3>3. toBrowser[1].current =>
             acks[Acked(1)].known.gen = generation /\ Holds(acks[Acked(1)].known.rev)
      BY <1>1, <3>1 DEF Stream, Answered
    <3>4. m.current => ask.known.gen = generation /\ Holds(ask.known.rev)
      BY <1>2, <1>4, <3>3
    <3>5. m.current => ask.known # NoVersion
      BY <1>1, <3>4 DEF NoVersion
    <3>6. QED
      BY <1>2, <3>2, <3>4, <3>5 DEF Holds
  <2>2. QED
    BY <2>1
<1>7. UNCHANGED <<toServer, resyncing>>
  <2>1. PICK asked : asked = (settles /\ m.accepted /\ ~accepted)
    OBVIOUS
  <2>2. asked = FALSE
    BY <1>6, <2>1
  <2>3. Resync(asked)
    BY <1>5, <2>1
  <2>4. resyncing \in BOOLEAN
    BY <1>1 DEF TypeOK, CacheTypeOK
  <2>5. toServer' = toServer
    BY <2>2, <2>3 DEF Resync
  <2>6. resyncing' = (resyncing \/ (asked /\ Wanted))
    BY <2>3 DEF Resync
  <2>7. resyncing' = resyncing
    BY <2>2, <2>4, <2>6
  <2>8. QED
    BY <2>5, <2>7
<1>8. NoResync'
  BY <1>1, <1>7 DEF NoResync
<1>9. UNCHANGED <<generation, session, entry, subscribed, toServer>>
  BY <1>1, <1>7
<1>10. CASE ~(settles /\ ~accepted)
  <2>1. UNCHANGED <<held, last, ordering>>
    BY <1>5, <1>10
  <2>2. Kept'
    <3>1. \A r \in requests' : Full(r) => r \in requests \/ ~(r.snapshot.gen < held.gen)
      BY <1>1
    <3>2. QED
      BY <1>1, <2>1, <3>1, KeptStays
  <2>3. Climbs
    BY <1>1, <2>1, ClimbsStays
  <2>4. held' # NoHeld \/ (held' = held /\ last' = last)
    BY <2>1
  <2>5. \A n : Holds(n) => Holds(n)'
    BY <1>1, <2>1 DEF Holds
  <2>6. PICK d \in {0, 1} : d = 1
    OBVIOUS
  <2>7. /\ \A j \in DOMAIN acks' : /\ acks'[j].wants = acks[j + d].wants
                                   /\ acks'[j].known = acks[j + d].known
        /\ m.kind = "snapshot" /\ acks # <<>> /\ acks[1].wants => acks'[1].noted
    <3>1. \A j \in DOMAIN acks' : acks'[j] = acks[j + 1]
      BY <1>4, <1>5, HeadTailProperties
    <3>2. QED
      BY <1>3, <2>6, <3>1
  <2>8. (d = 1) <=> (m.kind = "ack")
    BY <1>3, <2>6
  <2>9. Datum(m) => Holds(m.rev)'
    BY <1>3 DEF Datum
  <2>10. Stream'
    BY ONLY <1>1, <1>2, <1>9, <2>4, <2>5, <2>7, <2>8, <2>9, TInv', TailStream
  <2>11. QED
    BY <1>1, <1>8, <2>2, <2>3, <2>10
<1>11. CASE settles /\ ~accepted
  <2>1. Refuse \/ Forget
    BY <1>5, <1>11
  <2>2. Kept' /\ Climbs
    BY <1>1, <2>1, ClearedKept
  <2>3. Refuses(toBrowser[1]) /\ Len(acks) = 1
    BY <1>2, <1>3, <1>6, <1>11 DEF Refuses
  <2>4. toServer = <<>>
    <3>1. Len(toServer) = 0
      <4>1. \A a, b, c \in Nat : c = a + b /\ a >= 1 /\ c = 1 => b = 0
        OBVIOUS
      <4>2. QED
        BY <1>4, <2>3, <4>1
    <3>2. toServer \in Seq(ToServer)
      BY <1>1 DEF TypeOK, RuntimeTypeOK
    <3>3. QED
      BY <3>1, <3>2, EmptySeq
  <2>5. ASSUME NEW i \in DOMAIN toBrowser, i # 1 PROVE toBrowser[i].kind # "ack"
    <3>1. ASSUME toBrowser[i].kind = "ack" PROVE FALSE
      <4>1. i \in Nat /\ 1 \in Nat /\ 1 < i
        BY <1>1, <1>4, <2>5 DEF TypeOK, RuntimeTypeOK
      <4>2. Count(toBrowser, "ack", 1) < Count(toBrowser, "ack", i)
        BY <3>1, <4>1, CountGrows
      <4>3. 1 < Acked(i) /\ Acked(i) <= 1 /\ Acked(i) \in Nat
        BY <1>4, <2>3, <3>1, <4>2 DEF Acked
      <4>4. QED
        BY <4>3
    <3>2. QED
      BY <3>1
  <2>6. \A j \in DOMAIN toBrowser : 1 < j => ~Accepts(toBrowser[j])
    BY <2>5 DEF Accepts
  <2>7. ASSUME NEW i \in DOMAIN toBrowser, i # 1
        PROVE  ~Datum(toBrowser[i]) /\ ~Accepts(toBrowser[i])
    <3>1. i \in Nat /\ 1 < i /\ 1 < i + 1
      BY <1>1, <2>7 DEF TypeOK, RuntimeTypeOK
    <3>2. toBrowser[i].kind # "snapshot"
      <4>1. toBrowser[i].kind = "snapshot" =>
               i + 1 \in DOMAIN toBrowser /\ Accepts(toBrowser[i + 1])
        BY <1>1 DEF Stream, Answered
      <4>2. QED
        BY <2>6, <3>1, <4>1
    <3>3. ~Delta(toBrowser[i])
      <4>1. Delta(toBrowser[i]) =>
               \E j \in DOMAIN toBrowser : 1 < j /\ j < i /\ Accepts(toBrowser[j])
        BY <1>1, <2>3, <3>1 DEF Stream, Silent
      <4>2. QED
        BY <2>6, <4>1
    <3>4. QED
      BY <2>6, <3>1, <3>2, <3>3 DEF Datum, Delta
  <2>8. ~subscribed
    <3>1. subscribed => \E j \in DOMAIN toBrowser : 1 < j /\ Accepts(toBrowser[j])
      BY <1>1, <2>3 DEF Stream, Silent
    <3>2. QED
      BY <2>6, <3>1
  <2>9. /\ \A i \in DOMAIN toBrowser : i # 1 =>
              ~Datum(toBrowser[i]) /\ ~Accepts(toBrowser[i])
        /\ \/ toServer = <<>>
           \/ life \in {"archiving", "archived"} /\ acks' = acks /\ toBrowser[1].kind # "ack"
        /\ ~(subscribed /\ Visible)
    BY <2>4, <2>7, <2>8
  <2>10. Stream'
    BY ONLY <1>1, <1>9, <2>9, TInv', ClearStream
  <2>11. QED
    BY <1>1, <1>8, <2>2, <2>10
<1>12. QED
  BY <1>10, <1>11

\* After the announcement of an archiving, nothing is on its way for the key.
LEMMA ArchivedKeeps ==
    ASSUME PInv, ReceiveArchived, TInv'
    PROVE  NoResync' /\ Asked' /\ Kept' /\ Stream' /\ Climbs
<1>1. /\ TInv /\ TypeOK /\ NoResync /\ Ordered /\ Asked /\ Kept /\ Stream
      /\ toBrowser # <<>> /\ toBrowser' = Tail(toBrowser)
      /\ 1 \in DOMAIN toBrowser /\ Head(toBrowser) = toBrowser[1]
      /\ UNCHANGED <<generation, session, entry, subscribed>>
      /\ published' = published /\ sequence' = sequence
      /\ Asked'
  BY Receiving DEF Receive
<1>2. /\ toBrowser[1].kind = "archived" /\ Forget
      /\ UNCHANGED <<toServer, acks, resyncing>>
  BY <1>1 DEF ReceiveArchived, Reads, transport
<1>3. Kept' /\ Climbs
  BY <1>1, <1>2, ClearedKept
<1>4. NoResync'
  BY <1>1, <1>2 DEF NoResync
<1>5. /\ \A i \in DOMAIN toBrowser : i # 1 =>
            ~Datum(toBrowser[i]) /\ ~Accepts(toBrowser[i])
      /\ \/ toServer = <<>>
         \/ life \in {"archiving", "archived"} /\ acks' = acks /\ toBrowser[1].kind # "ack"
      /\ ~(subscribed /\ Visible)
  <2>1. life \in {"archiving", "archived"}
    BY <1>1, <1>2 DEF Stream, Silent
  <2>2. \A i \in DOMAIN toBrowser : i # 1 => 1 < i
    BY <1>1 DEF TypeOK, RuntimeTypeOK
  <2>3. \A i \in DOMAIN toBrowser : 1 < i => ~Datum(toBrowser[i]) /\ ~Accepts(toBrowser[i])
    BY <1>1, <1>2 DEF Stream, Silent
  <2>4. QED
    BY <1>2, <2>1, <2>2, <2>3 DEF Visible
<1>6. UNCHANGED <<generation, session, entry, subscribed, toServer>>
  BY <1>1, <1>2
<1>7. Stream'
  BY ONLY <1>1, <1>5, <1>6, TInv', ClearStream
<1>8. QED
  BY <1>1, <1>3, <1>4, <1>7

-----------------------------------------------------------------------------
(***************************************************************************)
(* The invariant holds.                                                    *)
(***************************************************************************)
\* The first state.
LEMMA InitKeeps ==
    ASSUME Init
    PROVE  PInv
<1>1. /\ generation = 1 /\ life = "active" /\ cache = NoEntry /\ ~subscribed
      /\ toServer = <<>> /\ toBrowser = <<>> /\ published = <<>>
      /\ held = NoHeld /\ last = NoVersion /\ latest = 0 /\ barrier = 0
      /\ resyncing = FALSE /\ sequence = 0 /\ requests = {}
  BY DEF Init, RuntimeInit, CacheInit
<1>2. TInv
  BY InitTypes
<1>3. NoResync
  BY <1>1 DEF NoResync
<1>4. DOMAIN published = {} /\ DOMAIN toBrowser = {} /\ DOMAIN toServer = {}
  BY <1>1
<1>5. Ordered
  BY <1>4 DEF Ordered
<1>6. Cached
  BY <1>1, <1>4 DEF Cached
<1>7. Asked /\ Kept
  BY <1>1 DEF Asked, Kept
<1>8. Genuine /\ InFlight /\ Answered
  BY <1>4 DEF Genuine, InFlight, Answered
<1>9. Silent /\ Continued
  BY <1>1, <1>4 DEF Silent, Continued
<1>10. QED
  BY <1>2, <1>3, <1>5, <1>6, <1>7, <1>8, <1>9 DEF PInv, Stream

\* Every step.
LEMMA NextKeeps ==
    ASSUME PInv, RestoredLater, [Next]_vars
    PROVE  PInv' /\ Climbs
<1>1. TInv /\ TypeOK /\ Ordered /\ Cached /\ NoResync /\ Asked /\ Kept /\ Stream
  BY DEF PInv, TInv
<1>2. TInv'
  BY <1>1, NextTypes
<1>3. life = "loaded" => ~subscribed
  BY <1>1 DEF Stream, Silent
<1>4. Ordered' /\ Cached' /\ published' \in Seq(Held) /\ Extends(published', published)
  BY <1>1, <1>3, EntriesStep
<1>5. SUFFICES NoResync' /\ Asked' /\ Kept' /\ Stream' /\ Climbs
  BY <1>2, <1>4, <1>5 DEF PInv
<1>6. CASE ServerStep
  <2>1. NoResync' /\ Asked' /\ Kept' /\ Stream'
    BY <1>2, <1>4, <1>6, ServerStepKeeps
  <2>2. UNCHANGED <<held, last>>
    BY <1>6 DEF ServerStep, cacheVars, store
  <2>3. QED
    BY <1>1, <2>1, <2>2, ClimbsStays
<1>7. CASE Restart
  <2>1. NoResync' /\ Asked' /\ Kept' /\ Stream'
    BY <1>4, <1>7, RestartKeeps
  <2>2. UNCHANGED <<held, last>>
    BY <1>7 DEF Restart, store
  <2>3. QED
    BY <1>1, <2>1, <2>2, ClimbsStays
<1>8. CASE Connect \/ Notice \/ Refresh \/ Reload
  <2>1. NoResync' /\ Asked' /\ Kept' /\ Stream'
    BY <1>4, <1>8, SocketKeeps
  <2>2. UNCHANGED <<held, last>>
    BY <1>8 DEF Connect, Notice, Refresh, Reload, store
  <2>3. QED
    BY <1>1, <2>1, <2>2, ClimbsStays
<1>9. CASE Receive
  BY <1>2, <1>9, SnapshotKeeps, UpdateKeeps, AckKeeps, ArchivedKeeps DEF Receive
<1>10. CASE Ask \/ \E r \in requests : Lose(r)
  <2>1. NoResync' /\ Asked' /\ Kept' /\ Stream'
    BY <1>4, <1>10, AskingKeeps
  <2>2. UNCHANGED <<held, last>>
    BY <1>10 DEF Ask, Lose, store
  <2>3. QED
    BY <1>1, <2>1, <2>2, ClimbsStays
<1>11. CASE \E r \in requests : Serve(r)
  <2>1. PICK r \in requests : Serve(r)
    BY <1>11
  <2>2. NoResync' /\ Asked' /\ Kept' /\ Stream'
    BY <1>4, <2>1, ServeKeeps
  <2>3. UNCHANGED <<held, last>>
    BY <2>1 DEF Serve, store
  <2>4. QED
    BY <1>1, <2>2, <2>3, ClimbsStays
<1>12. CASE \E r \in requests : Hydrate(r)
  BY <1>12, HydrateKeeps
<1>13. CASE UNCHANGED vars
  <2>1. /\ UNCHANGED <<held, last, ordering>>
        /\ UNCHANGED <<generation, sequence>>
        /\ UNCHANGED <<generation, toBrowser, toServer, acks, subscribed>>
        /\ UNCHANGED <<resyncing, life, cache>>
        /\ requests' = requests /\ sequence' = sequence /\ life \in Lives
    BY <1>1, <1>13
    DEF vars, runtimeVars, cacheVars, store, ordering, transport, lists, session, entry, wire,
        TypeOK, RuntimeTypeOK
  <2>2. NoResync'
    BY <1>1, <2>1 DEF NoResync
  <2>3. Asked'
    BY <1>1, <1>4, <2>1, AskedStays
  <2>4. Kept'
    <3>1. \A r \in requests' : Full(r) => r \in requests \/ ~(r.snapshot.gen < held.gen)
      BY <2>1
    <3>2. QED
      BY <1>1, <1>4, <2>1, <3>1, KeptStays
  <2>5. Climbs
    BY <1>1, <2>1, ClimbsStays
  <2>6. /\ life' \in {"active", "loaded"} => life \in {"active", "loaded"}
        /\ life' \in Lives
        /\ life' = "loaded" => ~subscribed
        /\ subscribed /\ life' = "active" => life = "active" /\ cache' = cache
        /\ \A n : Holds(n) => Holds(n)'
        /\ held' # NoHeld \/ (held' = held /\ last' = last)
    BY <1>3, <2>1 DEF Holds
  <2>7. Stream'
    BY ONLY <1>1, <1>4, <2>1, <2>6, SameStream
  <2>8. QED
    BY <2>2, <2>3, <2>4, <2>5, <2>7
<1>14. QED
  BY <1>6, <1>7, <1>8, <1>9, <1>10, <1>11, <1>12, <1>13 DEF Next

\* Where an archived session is only restored by a later process, the invariant
\* holds in every state.
LEMMA PInvHolds ==
    ASSUME RestoredLater
    PROVE  Spec => []PInv
<1>1. Init => PInv
  BY InitKeeps
<1>2. PInv /\ [Next]_vars => PInv'
  BY NextKeeps
<1>3. QED
  BY <1>1, <1>2, PTL DEF Spec

\* A browser never finds a gap, an update it has no value for, or an acknowledgement
\* without its snapshot: replaceSubscriptions sends the snapshot before the
\* acknowledgement and publish continues it (synced-projection-runtime.ts), however
\* the socket breaks, the server restarts, and lists come over HTTP in between.
THEOREM NeverResyncs ==
    ASSUME RestoredLater
    PROVE  Spec => []NoResync
<1>1. PInv => NoResync
  BY DEF PInv
<1>2. QED
  BY <1>1, PInvHolds, PTL

-----------------------------------------------------------------------------
(***************************************************************************)
(* The refinement of ProjectionMirror.                                     *)
(***************************************************************************)
Log == [i \in DOMAIN published |-> published[i].value]
Shown == IF held = NoHeld THEN {} ELSE {held.value}

\* Where every version is there once, it has an index.
LEMMA Indexed ==
    ASSUME NEW s, NEW v, NEW i \in DOMAIN s, VersionOf(s[i]) = v,
           \A j \in DOMAIN s : VersionOf(s[j]) = v => j = i
    PROVE  (CHOOSE j \in DOMAIN s : [gen |-> s[j].gen, rev |-> s[j].rev] = v) = i
BY DEF VersionOf

\* The index of an entry's version.
LEMMA IndexFound ==
    ASSUME TypeOK, Ordered, NEW i \in DOMAIN published
    PROVE  IndexOf(VersionOf(published[i])) = i
<1>1. PICK v : v = VersionOf(published[i])
  OBVIOUS
<1>2. v # NoVersion
  BY <1>1, EntryTypes
<1>3. \A j \in DOMAIN published : VersionOf(published[j]) = v => j = i
  <2>1. ASSUME NEW j \in DOMAIN published, VersionOf(published[j]) = v PROVE j = i
    <3>1. published[j].gen = published[i].gen /\ published[j].rev = published[i].rev
      BY <1>1, <2>1 DEF VersionOf
    <3>2. QED
      BY <3>1, Unique
  <2>2. QED
    BY <2>1
<1>4. (CHOOSE j \in DOMAIN published :
          [gen |-> published[j].gen, rev |-> published[j].rev] = v) = i
  BY <1>1, <1>3, Indexed
<1>5. IndexOf(v) = i
  BY <1>2, <1>4 DEF IndexOf
<1>6. QED
  BY <1>1, <1>5

\* What was held last is no entry, or one that was published; and every version
\* was published once.
LastFound ==
    \/ last = NoVersion /\ IndexOf(last) = 0
    \/ /\ last # NoVersion /\ IndexOf(last) \in DOMAIN published
       /\ VersionOf(published[IndexOf(last)]) = last
       /\ held # NoHeld => published[IndexOf(last)] = held
Distinct ==
    \A i, j \in DOMAIN published :
        VersionOf(published[i]) = VersionOf(published[j]) => i = j

LEMMA LastIndexed ==
    ASSUME PInv
    PROVE  LastFound
<1>1. TypeOK /\ Ordered /\ Kept
  BY DEF PInv, TInv
<1>2. CASE last = NoVersion
  BY <1>2 DEF IndexOf, LastFound
<1>3. CASE last # NoVersion
  <2>1. CASE held # NoHeld
    <3>1. PICK i \in DOMAIN published : published[i] = held
      BY <1>1, <2>1 DEF Kept, Was
    <3>2. last = VersionOf(published[i])
      BY <1>1, <2>1, <3>1 DEF Kept
    <3>3. IndexOf(last) = i
      BY <1>1, <3>2, IndexFound
    <3>4. QED
      BY <1>3, <3>1, <3>2, <3>3 DEF LastFound
  <2>2. CASE held = NoHeld
    <3>1. PICK i \in DOMAIN published : VersionOf(published[i]) = last
      BY <1>1, <1>3, <2>2 DEF Kept, Named
    <3>2. IndexOf(last) = i
      <4>1. PICK v : v = last
        OBVIOUS
      <4>2. IndexOf(v) = i
        BY <1>1, <3>1, <4>1, IndexFound
      <4>3. QED
        BY <4>1, <4>2
    <3>3. QED
      BY <1>3, <2>2, <3>1, <3>2 DEF LastFound
  <2>3. QED
    BY <2>1, <2>2
<1>4. QED
  BY <1>2, <1>3

\* A step publishes an entry and shows what was shown, or publishes none.
LEMMA Publishing ==
    ASSUME TInv, [Next]_vars
    PROVE  \/ published' = published
           \/ /\ UNCHANGED <<held, last>>
              /\ \E e \in Held : published' = Append(published, e)
<1>1. /\ TypeOK /\ Recomputed \in Entries /\ Current \in Entries /\ generation \in Nat
  BY ReadTypes, RuntimeAssumption DEF TInv, TypeOK, RuntimeTypeOK
<1>2. ASSUME NEW new \in Entries, Keep(new)
      PROVE  published' = published \/ \E e \in Held : published' = Append(published, e)
  <2>1. [gen |-> generation, rev |-> new.rev, value |-> new.value] \in Held
    BY <1>1 DEF Entries, Held
  <2>2. QED
    BY <1>2, <2>1 DEF Keep
<1>3. CASE ServerStep
  <2>1. UNCHANGED <<held, last>>
    BY <1>3 DEF ServerStep, cacheVars, store
  <2>2. published' = published \/ Keep(Recomputed) \/ Keep(Current)
    BY <1>3 DEF ServerStep, Change, Archive, Announce, Restore, Flush, Peek, Handle, Break,
       ReplaceSubscriptions, AnswerResync, entry
  <2>3. QED
    BY <1>1, <1>2, <2>1, <2>2
<1>4. CASE \E r \in requests : Serve(r)
  <2>1. UNCHANGED <<held, last>> /\ (published' = published \/ Keep(Current))
    BY <1>4 DEF Serve, entry, store
  <2>2. QED
    BY <1>1, <1>2, <2>1
<1>5. CASE \/ Restart \/ Connect \/ Notice \/ Refresh \/ Reload \/ Receive \/ Ask
           \/ \E r \in requests : Hydrate(r) \/ Lose(r)
  BY <1>5 DEF Restart, RestartServer, Connect, Notice, Refresh, Reload, Receive, ReceiveSnapshot,
     ReceiveUpdate, ReceiveAck, ReceiveArchived, Ask, Hydrate, Lose, runtimeVars, entry
<1>6. CASE UNCHANGED vars
  BY <1>6 DEF vars, runtimeVars, entry
<1>7. QED
  BY <1>3, <1>4, <1>5, <1>6 DEF Next

\* Both hold in the state after a step, too.
LEMMA Found == PInv => LastFound /\ Distinct
<1> SUFFICES ASSUME PInv PROVE LastFound /\ Distinct
  OBVIOUS
<1>1. LastFound
  BY LastIndexed
<1>2. Distinct
  <2>1. ASSUME NEW i \in DOMAIN published, NEW j \in DOMAIN published,
               VersionOf(published[i]) = VersionOf(published[j])
        PROVE  i = j
    <3>1. published[i].gen = published[j].gen /\ published[i].rev = published[j].rev
      BY <2>1 DEF VersionOf
    <3>2. QED
      BY <3>1, Unique DEF PInv, TInv
  <2>2. QED
    BY <2>1 DEF Distinct
<1>3. QED
  BY <1>1, <1>2

LEMMA FoundNext == PInv' => LastFound' /\ Distinct'
BY Found, PTL

\* An entry is published: nothing else that the browser shows is.
LEMMA PublishShows ==
    ASSUME PInv, PInv', UNCHANGED <<held, last>>,
           NEW e \in Held, published' = Append(published, e)
    PROVE  Mirror!Publish
<1>1. /\ published \in Seq(Held) /\ Len(published) \in Nat
      /\ DOMAIN published = 1 .. Len(published)
  BY DEF PInv, TInv, TypeOK, RuntimeTypeOK, Held
<1>2. PICK n : n = Len(published)
  OBVIOUS
<1>3. /\ DOMAIN published' = 1 .. n + 1 /\ n \in Nat /\ DOMAIN published = 1 .. n
      /\ published'[n + 1] = e /\ \A i \in 1 .. n : published'[i] = published[i]
  BY <1>1, <1>2
<1>4. Log \in Seq(Value) /\ Len(Log) = n
  <2>1. \A i \in DOMAIN published : published[i].value \in Value
    <3>1. \A i \in DOMAIN published : published[i] \in Held
      BY <1>1, ElementOfSeq
    <3>2. QED
      BY <3>1 DEF Held
  <2>2. QED
    BY <1>1, <1>2, <2>1 DEF Log
<1>5. Log' = Append(Log, e.value) /\ e.value \in Value
  <2>1. e.value \in Value
    BY DEF Held
  <2>2. Append(Log, e.value) = [i \in 1 .. n + 1 |-> IF i = n + 1 THEN e.value ELSE Log[i]]
    BY <1>3, <1>4, <2>1
  <2>3. Log' = [i \in 1 .. n + 1 |-> published'[i].value]
    BY <1>3 DEF Log
  <2>4. \A i \in 1 .. n + 1 :
           published'[i].value = IF i = n + 1 THEN e.value ELSE Log[i]
    <3>1. ASSUME NEW i \in 1 .. n + 1, i # n + 1 PROVE published'[i].value = Log[i]
      <4>1. i \in 1 .. n
        BY <1>3, <3>1
      <4>2. QED
        BY <1>3, <4>1 DEF Log
    <3>2. QED
      BY <1>3, <3>1
  <2>5. QED
    BY <2>1, <2>2, <2>3, <2>4
<1>6. IndexOf(last)' = IndexOf(last)
  <2>1. LastFound /\ LastFound' /\ Distinct'
    BY Found, FoundNext
  <2>2. CASE last = NoVersion
    <3>1. IndexOf(last) = 0
      BY <2>1, <2>2 DEF LastFound
    <3>2. IndexOf(last)' = 0
      BY <2>1, <2>2 DEF LastFound
    <3>3. QED
      BY <3>1, <3>2
  <2>3. CASE last # NoVersion
    <3>1. PICK i, j : i = IndexOf(last) /\ j = IndexOf(last)'
      OBVIOUS
    <3>2. i \in DOMAIN published /\ VersionOf(published[i]) = last
      BY <2>1, <2>3, <3>1 DEF LastFound
    <3>3. j \in DOMAIN published' /\ VersionOf(published'[j]) = last
      BY <2>1, <2>3, <3>1 DEF LastFound, VersionOf
    <3>4. i \in DOMAIN published' /\ VersionOf(published'[i]) = last
      BY <1>3, <3>2
    <3>5. i = j
      BY <2>1, <3>3, <3>4 DEF Distinct, VersionOf
    <3>6. QED
      BY <3>1, <3>5
  <2>4. QED
    BY <2>2, <2>3
<1>7. Shown' = Shown
  BY DEF Shown
<1>8. \E value \in Value : Log' = Append(Log, value) /\ UNCHANGED <<IndexOf(last), Shown>>
  BY <1>5, <1>6, <1>7
<1>9. QED
  BY <1>8 DEF Mirror!Publish, Log, Shown

\* No entry is published: an entry that is not older is shown, or none.
LEMMA OtherShows ==
    ASSUME PInv, PInv', Climbs, published' = published
    PROVE  Mirror!Show \/ Mirror!Clear \/ Mirror!Forget
<1>1. LastFound /\ LastFound' /\ Distinct
  BY Found, FoundNext
<1>2. Log' = Log /\ DOMAIN Log = DOMAIN published
  BY DEF Log
<1>3. TypeOK /\ Ordered /\ published \in Seq(Held) /\ DOMAIN published = 1 .. Len(published)
      /\ Len(published) \in Nat
  <2>1. TypeOK /\ Ordered
    BY DEF PInv, TInv
  <2>2. published \in Seq(Held)
    BY <2>1 DEF TypeOK, RuntimeTypeOK, Held
  <2>3. QED
    BY <2>1, <2>2
<1>4. CASE held' = NoHeld
  <2>1. Shown' = {} /\ last' \in {last, NoVersion}
    BY <1>4 DEF Shown, Climbs
  <2>2. CASE last' = last
    <3>1. IndexOf(last)' = IndexOf(last)
      BY <2>2 DEF IndexOf
    <3>2. QED
      BY <1>2, <2>1, <3>1 DEF Mirror!Clear, Log, Shown
  <2>3. CASE last' = NoVersion
    <3>1. IndexOf(last)' = 0
      BY <2>3 DEF IndexOf
    <3>2. QED
      BY <1>2, <2>1, <3>1 DEF Mirror!Forget, Log, Shown
  <2>4. QED
    BY <2>1, <2>2, <2>3
<1>5. CASE held' # NoHeld
  <2>1. PICK i, j : i = IndexOf(last)' /\ j = IndexOf(last)
    OBVIOUS
  <2>2. i \in DOMAIN published /\ VersionOf(published[i]) = last' /\ published[i] = held'
    <3>1. last' # NoVersion
      <4>1. last' = VersionOf(held') /\ Was(held)'
        BY <1>5 DEF PInv, Kept
      <4>2. PICK k \in DOMAIN published : published[k] = held'
        BY <4>1 DEF Was
      <4>3. QED
        BY <1>3, <4>1, <4>2, EntryTypes
    <3>2. QED
      BY <1>1, <1>5, <2>1, <3>1 DEF LastFound, VersionOf
  <2>3. i >= j
    <3>1. CASE last = NoVersion
      <4>1. j = 0
        BY <1>1, <2>1, <3>1 DEF LastFound
      <4>2. QED
        BY <1>3, <2>2, <4>1
    <3>2. CASE last # NoVersion
      <4>1. j \in DOMAIN published /\ VersionOf(published[j]) = last
        BY <1>1, <2>1, <3>2 DEF LastFound
      <4>2. ~(i < j)
        <5>1. ASSUME i < j PROVE FALSE
          <6>1. Before(published[i], published[j])
            BY <1>3, <2>2, <4>1, <5>1 DEF Ordered
          <6>2. Before(last', last)
            BY <2>2, <4>1, <6>1 DEF Before, VersionOf
          <6>3. QED
            BY <1>5, <6>2 DEF Climbs
        <5>2. QED
          BY <5>1
      <4>3. QED
        BY <1>3, <2>2, <4>1, <4>2
    <3>3. QED
      BY <3>1, <3>2
  <2>4. Shown' = {Log[i]} /\ i \in DOMAIN Log
    <3>1. Log[i] = published[i].value
      BY <2>2 DEF Log
    <3>2. Shown' = {held'.value}
      BY <1>5 DEF Shown
    <3>3. QED
      BY <1>2, <2>2, <3>1, <3>2
  <2>5. \E k \in DOMAIN Log : /\ k >= IndexOf(last) /\ IndexOf(last)' = k
                              /\ Shown' = {Log[k]} /\ UNCHANGED Log
    BY <1>2, <2>1, <2>3, <2>4
  <2>6. QED
    BY <2>5 DEF Mirror!Show, Log, Shown
<1>6. QED
  BY <1>4, <1>5

\* The first state of both.
LEMMA MirrorInit == Init => Mirror!Init
<1> SUFFICES ASSUME Init PROVE Mirror!Init
  OBVIOUS
<1>1. published = <<>> /\ held = NoHeld /\ last = NoVersion
  BY DEF Init, RuntimeInit, CacheInit
<1>2. Log = <<>>
  BY <1>1 DEF Log
<1>3. IndexOf(last) = 0 /\ Shown = {}
  BY <1>1 DEF IndexOf, Shown
<1>4. QED
  BY <1>2, <1>3 DEF Mirror!Init, Log, Shown

\* Every step of the projection is one of the mirror, or none.
LEMMA MirrorStep ==
    ASSUME RestoredLater, PInv, PInv', [Next]_vars
    PROVE  Mirror!Next
<1>1. Climbs
  BY NextKeeps
<1>2. CASE published' = published
  BY <1>1, <1>2, OtherShows DEF Mirror!Next
<1>3. CASE /\ UNCHANGED <<held, last>>
           /\ \E e \in Held : published' = Append(published, e)
  BY <1>3, PublishShows DEF Mirror!Next
<1>4. QED
  BY <1>2, <1>3, Publishing DEF PInv

\* A browser shows a value the server had under that generation and revision, and
\* never an older one after a newer one (applyOrderingMetadata and
\* applySyncedProjectionSnapshot, store-synced-projections.ts), in whichever order
\* snapshots, updates, acknowledgements and lists come: the projection implements
\* ProjectionMirror.
THEOREM NeverBackwards ==
    ASSUME RestoredLater
    PROVE  Spec => Mirrors
<1>1. Init => Mirror!Init
  BY MirrorInit
<1>2. PInv /\ PInv' /\ [Next]_vars => Mirror!Next
  BY MirrorStep
<1>3. QED
  BY <1>1, <1>2, PInvHolds, PTL DEF Spec, Mirrors, Mirror!Spec

-----------------------------------------------------------------------------
(***************************************************************************)
(* A live browser is current, where no other session's board changes the   *)
(* source and the browser subscribes as soon as its list changed.          *)
(***************************************************************************)
OwnChanges == Origins \subseteq {"own"}

\* The effect that subscribes runs before the browser's next event (App.tsx:973).
Rendering == socket = "up" /\ sent # Inventory => Refresh \/ UNCHANGED <<store, transport>>

\* A cached value that is not dirty is current, and a subscriber gets what is dirty.
Clean == CleanIsCurrent /\ (subscribed /\ dirty => pending)

\* The browser wants what it subscribed to last; if the server does not have the
\* subscription, the browser knows, or its refusal is on its way.
Told ==
    /\ socket = "up" /\ acks # <<>> => (sent = "with") = acks[Len(acks)].wants
    /\ socket = "up" /\ sent = "with" /\ toServer = <<>> /\ ~subscribed =>
         \/ acks = <<>> /\ partial
         \/ \E i \in DOMAIN toBrowser : Refuses(toBrowser[i]) /\ Acked(i) = Len(acks)

LInv == PInv /\ Clean /\ Told

\* A read leaves a current value.
LEMMA KeepClean ==
    ASSUME Clean, NEW new \in {Current, Recomputed}, Keep(new), Visible \/ new = NoEntry,
           UNCHANGED <<life, source>>
    PROVE  Clean'
<1>1. cache' = new /\ dirty' = FALSE
  BY DEF Keep
<1>2. NoEntry' = NoEntry
  OBVIOUS
<1>3. CASE new = NoEntry
  BY <1>1, <1>2, <1>3 DEF Clean, CleanIsCurrent
<1>4. CASE Visible
  <2>1. Recomputed.value = source
    <3>1. [rev |-> cache.rev + 1, value |-> source].value = source
      OBVIOUS
    <3>2. QED
      BY <1>4, <3>1 DEF Recomputed
  <2>2. Current = Recomputed \/ (Current = cache /\ ~dirty /\ cache # NoEntry)
    BY DEF Current
  <2>3. Current.value = source
    BY <1>4, <2>1, <2>2 DEF Clean, CleanIsCurrent
  <2>4. new.value = source
    BY <2>1, <2>3
  <2>5. QED
    BY <1>1, <2>4 DEF Clean, CleanIsCurrent
<1>5. QED
  BY <1>3, <1>4

\* Every step keeps the cache clean.
LEMMA CleanStep ==
    ASSUME PInv, Clean, RestoredLater, OwnChanges, [Next]_vars
    PROVE  Clean'
<1>1. CASE UNCHANGED <<life, source, cache, dirty, pending, subscribed>>
  BY <1>1 DEF Clean, CleanIsCurrent, Visible
<1>2. ASSUME Visible, Keep(Current), UNCHANGED <<life, source>> PROVE Clean'
  <2>1. PICK new \in {Current, Recomputed} : new = Current
    OBVIOUS
  <2>2. Keep(new) /\ (Visible \/ new = NoEntry)
    BY <1>2, <2>1
  <2>3. QED
    BY <1>2, <2>2, KeepClean
<1>3. CASE \E origin \in Origins, value \in Value : Change(origin, value)
  <2>1. PICK origin \in Origins, value \in Value : Change(origin, value)
    BY <1>3
  <2>2. dirty' = TRUE
    BY <2>1 DEF Change, OwnChanges
  <2>3. subscribed' /\ dirty' => pending'
    BY <2>1 DEF Change
  <2>4. QED
    BY <2>2, <2>3 DEF Clean, CleanIsCurrent
<1>4. CASE Archive \/ Announce
  <2>1. life' # "active" /\ UNCHANGED <<dirty, pending, subscribed>>
    BY <1>4 DEF Archive, Announce, entry
  <2>2. QED
    BY <2>1 DEF Clean, CleanIsCurrent, Visible
<1>5. CASE Restore
  <2>1. life = "loaded" /\ UNCHANGED <<cache, dirty, pending, subscribed>>
    BY <1>5 DEF Restore, RestoredLater, entry
  <2>2. cache = NoEntry /\ NoEntry' = NoEntry
    BY <2>1 DEF PInv, Cached
  <2>3. QED
    BY <2>1, <2>2 DEF Clean, CleanIsCurrent
<1>6. CASE Flush
  <2>1. UNCHANGED <<life, source>> /\ subscribed' = subscribed
    BY <1>6 DEF Flush, session
  <2>2. CASE ~subscribed
    <3>1. UNCHANGED <<cache, dirty>>
      BY <1>6, <2>2 DEF Flush
    <3>2. QED
      BY <2>1, <2>2, <3>1 DEF Clean, CleanIsCurrent, Visible
  <2>3. CASE subscribed
    <3>1. Keep(Recomputed)
      BY <1>6, <2>3 DEF Flush
    <3>2. PICK new \in {Current, Recomputed} : new = Recomputed
      OBVIOUS
    <3>3. Visible \/ new = NoEntry
      BY <3>2 DEF Recomputed
    <3>4. Keep(new)
      BY <3>1, <3>2
    <3>5. QED
      BY <2>1, <3>3, <3>4, KeepClean
  <2>4. QED
    BY <2>2, <2>3
<1>7. CASE Peek
  BY <1>2, <1>7 DEF Peek, session
<1>8. CASE Handle
  <2>1. UNCHANGED <<life, source>>
    BY <1>8 DEF Handle, session
  <2>2. \/ Visible /\ Keep(Current)
        \/ UNCHANGED entry /\ ~subscribed'
    <3>1. CASE Head(toServer).kind = "subscribe"
      BY <1>8, <3>1 DEF Handle, ReplaceSubscriptions
    <3>2. CASE Head(toServer).kind # "subscribe"
      BY <1>8, <3>2 DEF Handle, AnswerResync
    <3>3. QED
      BY <3>1, <3>2
  <2>3. CASE UNCHANGED entry /\ ~subscribed'
    BY <2>1, <2>3 DEF Clean, CleanIsCurrent, Visible, entry
  <2>4. QED
    BY <1>2, <2>1, <2>2, <2>3
<1>9. CASE Break
  BY <1>9 DEF Break, Severed, session, entry, Clean, CleanIsCurrent, Visible
<1>10. CASE Restart
  <2>1. cache' = NoEntry /\ NoEntry' = NoEntry /\ dirty' = FALSE
    BY <1>10 DEF Restart, RestartServer
  <2>2. QED
    BY <2>1 DEF Clean, CleanIsCurrent
<1>11. CASE \E r \in requests : Serve(r)
  <2>1. PICK r \in requests : Serve(r)
    BY <1>11
  <2>2. UNCHANGED <<life, source, subscribed>> /\ ((Visible /\ Keep(Current)) \/ UNCHANGED entry)
    BY <2>1 DEF Serve, session
  <2>3. CASE UNCHANGED entry
    BY <1>1, <2>2, <2>3 DEF entry
  <2>4. QED
    BY <1>2, <2>2, <2>3
<1>12. CASE \/ Connect \/ Notice \/ Refresh \/ Reload \/ Receive \/ Ask
            \/ \E r \in requests : Hydrate(r) \/ Lose(r)
  <2>1. UNCHANGED <<session, entry, subscribed>>
    BY <1>12 DEF Connect, Notice, Refresh, Reload, Receive, ReceiveSnapshot, ReceiveUpdate,
       ReceiveAck, ReceiveArchived, Ask, Hydrate, Lose, runtimeVars
  <2>2. QED
    BY <1>1, <2>1 DEF session, entry
<1>13. CASE UNCHANGED vars
  BY <1>1, <1>13 DEF vars, runtimeVars, session, entry
<1>14. QED
  BY <1>3, <1>4, <1>5, <1>6, <1>7, <1>8, <1>9, <1>10, <1>11, <1>12, <1>13 DEF Next, ServerStep

\* What comes behind the messages of the server does not matter.
LEMMA ToldStays ==
    ASSUME PInv, PInv', Told, UNCHANGED <<sent, partial, acks, subscribed, toServer>>,
           socket' = socket, Extends(toBrowser', toBrowser),
           \A m \in 0 .. Len(toBrowser) : Count(toBrowser', "ack", m) = Acked(m)
    PROVE  Told'
<1>1. toBrowser \in Seq(ToBrowser) /\ toBrowser' \in Seq(ToBrowser)
  BY DEF PInv, TInv, TypeOK, RuntimeTypeOK
<1>2. ASSUME NEW i \in DOMAIN toBrowser, Refuses(toBrowser[i]), Acked(i) = Len(acks)
      PROVE  \E j \in DOMAIN toBrowser' : Refuses(toBrowser'[j]) /\ Acked(j)' = Len(acks')
  <2>1. i \in 1 .. Len(toBrowser) /\ i \in 0 .. Len(toBrowser)
    BY <1>1
  <2>2. i \in DOMAIN toBrowser' /\ toBrowser'[i] = toBrowser[i]
    BY <1>1, <2>1 DEF Extends
  <2>3. Acked(i)' = Count(toBrowser', "ack", i)
    BY DEF Acked
  <2>4. QED
    BY <1>2, <2>1, <2>2, <2>3
<1>3. socket' = "up" /\ acks' # <<>> => (sent' = "with") = acks'[Len(acks')].wants
  BY DEF Told
<1>4. ASSUME socket' = "up", sent' = "with", toServer' = <<>>, ~subscribed'
      PROVE  \/ acks' = <<>> /\ partial'
             \/ \E i \in DOMAIN toBrowser' : Refuses(toBrowser'[i]) /\ Acked(i)' = Len(acks')
  <2>1. \/ acks = <<>> /\ partial
        \/ \E i \in DOMAIN toBrowser : Refuses(toBrowser[i]) /\ Acked(i) = Len(acks)
    BY <1>4 DEF Told
  <2>2. QED
    BY <1>2, <2>1
<1>5. QED
  BY <1>3, <1>4 DEF Told, Refuses, Acked

\* The last subscription waits for what it wants.
LEMMA ToldSubscribing ==
    ASSUME PInv, Subscribe
    PROVE  Told'
<1>1. acks \in Seq(Ack) /\ toServer \in Seq(ToServer) /\ Wanted \in BOOLEAN
  BY DEF PInv, TInv, TypeOK, RuntimeTypeOK, CacheTypeOK, Wanted
<1>2. toServer' # <<>>
  <2>1. PICK t : t = Subscription
    OBVIOUS
  <2>2. toServer' = Append(toServer, t)
    BY <2>1 DEF Subscribe
  <2>3. Subscription \in ToServer
    BY DEF Subscription, ToServer, PInv, TInv, TypeOK, CacheTypeOK, Wanted, VersionOf, Held,
       Version, NoVersion
  <2>4. Len(toServer') = Len(toServer) + 1 /\ Len(toServer) \in Nat
    BY <1>1, <2>1, <2>2, <2>3
  <2>5. QED
    BY <2>4, EmptySeq
<1>3. acks'[Len(acks')].wants = Wanted
  <2>1. PICK a : a = [wants |-> Wanted, known |-> Subscription.known, noted |-> FALSE]
    OBVIOUS
  <2>2. acks' = Append(acks, a) /\ a.wants = Wanted
    BY <2>1 DEF Subscribe
  <2>3. acks'[Len(acks) + 1] = a /\ Len(acks') = Len(acks) + 1
    BY <1>1, <2>2
  <2>4. QED
    BY <2>2, <2>3
<1>4. (sent' = "with") = Wanted
  BY <1>1 DEF Subscribe, Inventory
<1>5. QED
  BY <1>2, <1>3, <1>4 DEF Told

\* A subscription that is not taken gets a refusal.
LEMMA ToldHandling ==
    ASSUME PInv, PInv', Told, Handle, UNCHANGED cacheVars
    PROVE  Told'
<1> DEFINE m == Head(toServer)
<1>1. /\ TInv /\ TypeOK /\ InFlight /\ toServer # <<>> /\ toServer' = Tail(toServer)
      /\ socket' = socket /\ UNCHANGED <<sent, acks, partial>>
  BY DEF PInv, TInv, Stream, Handle, cacheVars, transport
<1>2. toServer \in Seq(ToServer) /\ toBrowser' \in Seq(ToBrowser) /\ toBrowser \in Seq(ToBrowser)
  BY DEF PInv, TInv, TypeOK, RuntimeTypeOK
<1>3. /\ m \in ToServer /\ m = toServer[1] /\ 1 \in DOMAIN toServer
      /\ Len(toServer') = Len(toServer) - 1
  BY <1>1, <1>2, HandleCounts, EmptySeq
<1>4. m.kind = "subscribe"
  BY <1>1, <1>3 DEF InFlight
<1>5. ReplaceSubscriptions(m)
  BY <1>4 DEF Handle
<1>6. (sent' = "with") = (sent = "with") /\ acks' = acks
  BY <1>1
<1>7. socket' = "up" /\ acks' # <<>> => (sent' = "with") = acks'[Len(acks')].wants
  BY <1>1, <1>6 DEF Told
<1>8. ASSUME socket' = "up", toServer' = <<>>, ~subscribed'
      PROVE  \E i \in DOMAIN toBrowser' : Refuses(toBrowser'[i]) /\ Acked(i)' = Len(acks')
  <2>0. PICK n : n = Len(toBrowser')
    OBVIOUS
  <2>1. m.wants \in BOOLEAN
    BY <1>3, <1>4 DEF ToServer
  <2>2. ~Accepting(m)
    BY <1>5, <1>8, <2>1 DEF ReplaceSubscriptions, Accepting
  <2> HIDE DEF m
  <2>3. /\ toBrowser'[n] = Answer(m)
        /\ n = Len(toBrowser) + 1
        /\ Count(toBrowser', "ack", n) = Acked(Len(toBrowser)) + 1
    BY <1>1, <1>3, <1>4, <1>5, <2>0, <2>2, Replies
  <2>4. Refuses(toBrowser'[n])
    BY <2>2, <2>3 DEF Refuses, Answer
  <2>5. Len(toServer') = 0
    BY <1>8, EmptySeq
  <2>6. /\ Acked(Len(toBrowser)) \in Nat /\ Len(toServer) \in Nat
        /\ Len(acks) = Acked(Len(toBrowser)) + Len(toServer)
    BY <1>1, <1>8, Waiting
  <2>7. Len(acks) = Acked(Len(toBrowser)) + 1
    <3>1. Len(toServer) - 1 = 0
      BY <1>3, <2>5
    <3>2. Len(toServer) = 1
      BY <2>6, <3>1
    <3>3. QED
      BY <2>6, <3>2
  <2>8. n \in DOMAIN toBrowser'
    <3>1. n \in Nat /\ n >= 1
      <4>1. Len(toBrowser) \in Nat
        BY <1>2
      <4>2. QED
        BY <2>3, <4>1
    <3>2. n \in 1 .. Len(toBrowser')
      BY <2>0, <3>1
    <3>3. QED
      BY <1>2, <3>2
  <2>9. Acked(n)' = Count(toBrowser', "ack", n)
    BY DEF Acked
  <2>10. QED
    BY <1>6, <2>3, <2>4, <2>7, <2>8, <2>9
<1>9. QED
  BY <1>7, <1>8 DEF Told, Refuses, Acked

\* A refusal that comes is remembered until it settles what is wanted.
LEMMA ToldReceiving ==
    ASSUME PInv, PInv', Told, Receive, Rendering
    PROVE  Told'
<1>1. /\ TInv /\ InFlight /\ toBrowser # <<>> /\ toBrowser' = Tail(toBrowser)
      /\ 1 \in DOMAIN toBrowser /\ Head(toBrowser) = toBrowser[1] /\ socket = "up"
      /\ subscribed' = subscribed
  BY Receiving DEF Stream
<1>2. socket' = socket /\ sent' = sent
  BY DEF Receive, ReceiveSnapshot, ReceiveUpdate, ReceiveAck, ReceiveArchived, transport
<1>3. toServer \in Seq(ToServer) /\ acks \in Seq(Ack) /\ toBrowser \in Seq(ToBrowser)
  BY DEF PInv, TInv, TypeOK, RuntimeTypeOK, CacheTypeOK
<1>4. /\ \A i \in DOMAIN toBrowser' : /\ i + 1 \in DOMAIN toBrowser
                                      /\ toBrowser'[i] = toBrowser[i + 1]
      /\ Len(toBrowser') = Len(toBrowser) - 1 /\ toBrowser' \in Seq(ToBrowser)
      /\ \A n \in 0 .. Len(toBrowser') :
            /\ Count(toBrowser', "ack", n) \in Nat
            /\ Acked(n + 1) = Count(toBrowser', "ack", n)
                                + IF toBrowser[1].kind = "ack" THEN 1 ELSE 0
  BY <1>1, TakeTypes
<1>5. toServer' = <<>> => toServer = <<>>
  <2>1. toServer' \in {toServer, Append(toServer, [kind |-> "resync"])}
    BY DEF Receive, ReceiveSnapshot, ReceiveUpdate, ReceiveAck, ReceiveArchived, Resync
  <2>2. PICK t : t = [kind |-> "resync"]
    OBVIOUS
  <2>3. t \in ToServer
    BY <2>2 DEF ToServer
  <2>4. Append(toServer, t) # <<>>
    <3>1. Len(Append(toServer, t)) = Len(toServer) + 1 /\ Len(toServer) \in Nat
      BY <1>3, <2>3
    <3>2. QED
      BY <3>1, EmptySeq
  <2>5. QED
    BY <2>1, <2>2, <2>4
\* A message behind the first one moves up.
<1>6. ASSUME NEW i \in DOMAIN toBrowser, i # 1, Refuses(toBrowser[i])
      PROVE  \E j \in DOMAIN toBrowser' :
                /\ Refuses(toBrowser'[j])
                /\ Acked(i) = Count(toBrowser', "ack", j)
                                + IF toBrowser[1].kind = "ack" THEN 1 ELSE 0
  <2>1. PICK j \in Nat : i = j + 1
    BY <1>3
  <2>2. j \in 1 .. Len(toBrowser') /\ j \in 0 .. Len(toBrowser')
    <3>1. i \in 1 .. Len(toBrowser) /\ Len(toBrowser) \in Nat
      BY <1>3
    <3>2. QED
      BY <1>4, <1>6, <2>1, <3>1
  <2>3. j \in DOMAIN toBrowser'
    BY <1>4, <2>2
  <2>4. toBrowser'[j] = toBrowser[i]
    BY <1>4, <2>1, <2>3
  <2>5. Acked(i) = Count(toBrowser', "ack", j) + IF toBrowser[1].kind = "ack" THEN 1 ELSE 0
    BY <1>4, <2>1, <2>2
  <2>6. QED
    BY <1>6, <2>3, <2>4, <2>5
<1>7. CASE toBrowser[1].kind # "ack"
  <2>1. ReceiveSnapshot \/ ReceiveUpdate \/ ReceiveArchived
    BY <1>1, <1>7 DEF Receive, ReceiveAck, Reads
  <2>2. partial' = partial /\ (acks' = acks \/ acks' = Noted(acks))
    BY <2>1 DEF ReceiveSnapshot, ReceiveUpdate, ReceiveArchived, transport
  <2>3. /\ Len(acks') = Len(acks) /\ acks' \in Seq(Ack)
        /\ \A i \in DOMAIN acks : acks'[i].wants = acks[i].wants
    <3>1. CASE acks' = acks
      BY <1>3, <3>1
    <3>2. CASE acks' # acks
      <4>1. acks # <<>> /\ acks' = [acks EXCEPT ![1].noted = TRUE]
        BY <2>2, <3>2 DEF Noted
      <4>2. acks' \in Seq(Ack)
        BY DEF PInv, TInv, TypeOK, CacheTypeOK
      <4>3. QED
        BY <1>3, <4>1, <4>2 DEF Ack
    <3>3. QED
      BY <3>1, <3>2
  <2>4. acks' # <<>> => acks # <<>> /\ Len(acks) \in DOMAIN acks
    BY <1>3, <2>3, EmptySeq
  <2>5. acks' # <<>> => (sent' = "with") = acks'[Len(acks')].wants
    BY <1>1, <1>2, <2>3, <2>4 DEF Told
  <2>6. ASSUME sent' = "with", toServer' = <<>>, ~subscribed'
        PROVE  \/ acks' = <<>> /\ partial'
               \/ \E i \in DOMAIN toBrowser' :
                     Refuses(toBrowser'[i]) /\ Count(toBrowser', "ack", i) = Len(acks')
    <3>1. \/ acks = <<>> /\ partial
          \/ \E i \in DOMAIN toBrowser : Refuses(toBrowser[i]) /\ Acked(i) = Len(acks)
      BY <1>1, <1>2, <1>5, <2>6 DEF Told
    <3>2. CASE acks = <<>> /\ partial
      BY <2>2, <2>4, <3>2
    <3>3. CASE \E i \in DOMAIN toBrowser : Refuses(toBrowser[i]) /\ Acked(i) = Len(acks)
      <4>1. PICK i \in DOMAIN toBrowser : Refuses(toBrowser[i]) /\ Acked(i) = Len(acks)
        BY <3>3
      <4>2. i # 1
        BY <1>7, <4>1 DEF Refuses
      <4>3. PICK j \in DOMAIN toBrowser' :
               /\ Refuses(toBrowser'[j])
               /\ Acked(i) = Count(toBrowser', "ack", j)
                               + IF toBrowser[1].kind = "ack" THEN 1 ELSE 0
        BY <1>6, <4>1, <4>2
      <4>4. Count(toBrowser', "ack", j) \in Nat
        BY <1>4
      <4>5. Acked(i) = Count(toBrowser', "ack", j)
        BY <1>7, <4>3, <4>4
      <4>6. QED
        BY <2>3, <4>1, <4>3, <4>5
    <3>4. QED
      BY <3>1, <3>2, <3>3
  <2>7. QED
    BY <2>5, <2>6 DEF Told, Refuses, Acked
<1>8. CASE toBrowser[1].kind = "ack"
  <2>1. ReceiveAck
    BY <1>1, <1>8 DEF Receive, ReceiveSnapshot, ReceiveUpdate, ReceiveArchived, Reads
  <2>2. acks' = Tail(acks)
    BY <2>1 DEF ReceiveAck
  <2>3. Len(acks) \in Nat \ {0}
    <3>1. Acked(1) >= 1 /\ Acked(1) <= Len(acks) /\ Acked(1) \in Nat /\ Len(acks) \in Nat
      BY <1>1, <1>8, Waiting
    <3>2. QED
      BY <3>1
  <2>4. acks # <<>>
    BY <2>3, EmptySeq
  <2>5. /\ Len(acks') = Len(acks) - 1 /\ acks' \in Seq(Ack)
        /\ \A i \in 1 .. Len(acks') : acks'[i] = acks[i + 1]
    BY <1>3, <2>2, <2>4, HeadTailProperties
  <2>6. acks' # <<>> => acks'[Len(acks')] = acks[Len(acks)]
    <3>1. ASSUME acks' # <<>> PROVE acks'[Len(acks')] = acks[Len(acks)]
      <4>1. Len(acks') \in 1 .. Len(acks') /\ Len(acks') + 1 = Len(acks)
        BY <2>3, <2>5, <3>1, EmptySeq
      <4>2. QED
        BY <2>5, <4>1
    <3>2. QED
      BY <3>1
  <2>7. acks' # <<>> => (sent' = "with") = acks'[Len(acks')].wants
    BY <1>1, <1>2, <2>4, <2>6 DEF Told
  <2>8. sent = Inventory
    <3>1. ~Refresh
      <4>1. Len(toBrowser') # Len(toBrowser)
        BY <1>3, <1>4
      <4>2. QED
        BY <4>1 DEF Refresh
    <3>2. ~UNCHANGED <<store, transport>>
      <4>1. Len(acks') # Len(acks)
        BY <2>3, <2>5
      <4>2. QED
        BY <4>1 DEF transport
    <3>3. QED
      BY <1>1, <3>1, <3>2 DEF Rendering
  <2>9. ASSUME sent' = "with", toServer' = <<>>, ~subscribed'
        PROVE  \/ acks' = <<>> /\ partial'
               \/ \E i \in DOMAIN toBrowser' :
                     Refuses(toBrowser'[i]) /\ Count(toBrowser', "ack", i) = Len(acks')
    <3>1. PICK i \in DOMAIN toBrowser : Refuses(toBrowser[i]) /\ Acked(i) = Len(acks)
      BY <1>1, <1>2, <1>5, <2>4, <2>9 DEF Told
    <3>2. CASE i = 1
      <4>1. Acked(1) = 1
        <5>1. 0 \in 0 .. Len(toBrowser')
          BY <1>4
        <5>2. Count(toBrowser', "ack", 0) = 0
          BY CountStep
        <5>3. Acked(0 + 1) = 0 + 1
          BY <1>4, <1>8, <5>1, <5>2
        <5>4. QED
          BY <5>3
      <4>2. Len(acks) = 1
        BY <3>1, <3>2, <4>1
      <4>3. Wanted
        BY <1>2, <2>8, <2>9 DEF Inventory
      <4>4. Head(acks) = acks[1]
        BY <1>3, <2>4
      <4>5. (sent = "with") = acks[1].wants
        BY <1>1, <2>4, <4>2 DEF Told
      <4>6. acks[1] \in Ack
        <5>1. 1 \in DOMAIN acks
          BY <1>3, <4>2
        <5>2. QED
          BY <1>3, <5>1, ElementOfSeq
      <4>7. acks[1].wants = TRUE
        BY <1>2, <2>9, <4>5, <4>6 DEF Ack
      <4>8. ~toBrowser[1].accepted
        BY <3>1, <3>2 DEF Refuses
      <4>9. Wanted = TRUE
        BY <4>3 DEF Wanted
      <4>10. partial' = TRUE
        BY <1>1, <2>1, <4>2, <4>4, <4>7, <4>8, <4>9 DEF ReceiveAck
      <4>11. acks' = <<>>
        BY <2>5, <4>2, EmptySeq
      <4>12. QED
        BY <4>10, <4>11
    <3>3. CASE i # 1
      <4>1. PICK j \in DOMAIN toBrowser' :
               /\ Refuses(toBrowser'[j])
               /\ Acked(i) = Count(toBrowser', "ack", j)
                               + IF toBrowser[1].kind = "ack" THEN 1 ELSE 0
        BY <1>6, <3>1, <3>3
      <4>2. Count(toBrowser', "ack", j) \in Nat
        BY <1>4
      <4>3. Len(acks) = Count(toBrowser', "ack", j) + 1
        BY <1>8, <3>1, <4>1
      <4>4. Count(toBrowser', "ack", j) = Len(acks')
        BY <2>5, <4>2, <4>3
      <4>5. QED
        BY <4>1, <4>4
    <3>4. QED
      BY <3>2, <3>3
  <2>10. QED
    BY <2>7, <2>9 DEF Told, Refuses, Acked
<1>9. QED
  BY <1>7, <1>8

\* What is published to a subscriber comes behind the rest.
LEMMA ToldPushing ==
    ASSUME PInv, PInv', Told, UNCHANGED <<sent, partial, acks, subscribed, toServer>>,
           socket' = socket,
           \/ UNCHANGED toBrowser
           \/ \E new \in {Current, Recomputed} : Push(new)
    PROVE  Told'
<1>1. TInv /\ TypeOK /\ toBrowser \in Seq(ToBrowser)
  BY DEF PInv, TInv, TypeOK, RuntimeTypeOK
<1>2. CASE UNCHANGED toBrowser
  <2>1. Extends(toBrowser', toBrowser)
    BY <1>1, <1>2 DEF Extends
  <2>2. \A m \in 0 .. Len(toBrowser) : Count(toBrowser', "ack", m) = Acked(m)
    BY <1>2 DEF Acked
  <2>3. QED
    BY <2>1, <2>2, ToldStays
<1>3. CASE \E new \in {Current, Recomputed} : Push(new)
  <2>1. PICK new \in {Current, Recomputed} : Push(new)
    BY <1>3
  <2>2. new \in Entries
    BY <1>1, ReadTypes
  <2>3. /\ Extends(toBrowser', toBrowser)
        /\ \A m \in 0 .. Len(toBrowser) : Count(toBrowser', "ack", m) = Acked(m)
    BY <1>1, <2>1, <2>2, PushTypes
  <2>4. QED
    BY <2>3, ToldStays
<1>4. QED
  BY <1>2, <1>3

\* Every step keeps the browser told, if it renders before the next event.
LEMMA ToldStep ==
    ASSUME PInv, PInv', Told, [Next]_vars, Rendering \/ UNCHANGED vars
    PROVE  Told'
<1>1. TInv
  BY DEF PInv
<1>2. CASE socket' # "up"
  BY <1>2 DEF Told
<1>3. CASE Connect \/ Refresh \/ Reload
  BY <1>3, ToldSubscribing DEF Connect, Refresh, Reload
<1>4. CASE Receive
  <2>1. CASE Rendering
    BY <1>4, <2>1, ToldReceiving
  <2>2. CASE UNCHANGED vars
    <3>1. UNCHANGED <<sent, partial, acks, subscribed, toServer>> /\ socket' = socket
          /\ UNCHANGED toBrowser
      BY <2>2 DEF vars, runtimeVars, cacheVars, wire, transport
    <3>2. QED
      BY <3>1, ToldPushing
  <2>3. QED
    BY <2>1, <2>2
<1>5. CASE ServerStep
  <2>1. UNCHANGED <<sent, partial, acks>>
    BY <1>5 DEF ServerStep, cacheVars, transport
  <2>2. CASE \/ \E origin \in Origins, value \in Value : Change(origin, value)
             \/ Archive \/ Restore
    <3>1. UNCHANGED <<subscribed, toServer, toBrowser>> /\ socket' = socket
      BY <2>2 DEF Change, Archive, Restore, wire
    <3>2. QED
      BY <2>1, <3>1, ToldPushing
  <2>3. CASE Flush \/ Peek
    <3>1. UNCHANGED <<subscribed, toServer>> /\ socket' = socket
      BY <2>3 DEF Flush, Peek
    <3>2. UNCHANGED toBrowser \/ \E new \in {Current, Recomputed} : Push(new)
      BY <2>3 DEF Flush, Peek
    <3>3. QED
      BY <2>1, <3>1, <3>2, ToldPushing
  <2>4. CASE Announce
    <3>1. UNCHANGED <<subscribed, toServer>> /\ socket' = socket /\ UNCHANGED cacheVars
      BY <1>5, <2>4 DEF Announce, ServerStep
    <3>2. /\ Extends(toBrowser', toBrowser)
          /\ \A m \in 0 .. Len(toBrowser) : Count(toBrowser', "ack", m) = Acked(m)
      BY <1>1, <2>4, <3>1, AnnounceTypes
    <3>3. QED
      BY <2>1, <3>1, <3>2, ToldStays
  <2>5. CASE Handle
    BY <1>5, <2>5, ToldHandling DEF ServerStep
  <2>6. CASE Break
    BY <1>2, <2>6 DEF Break, Severed
  <2>7. QED
    BY <1>5, <2>2, <2>3, <2>4, <2>5, <2>6 DEF ServerStep
<1>6. CASE Restart
  <2>1. socket' # "up"
    BY <1>6 DEF Restart, RestartServer, Severed
  <2>2. QED
    BY <1>2, <2>1
<1>7. CASE Notice
  BY <1>2, <1>7 DEF Notice
<1>8. CASE \E r \in requests : Serve(r)
  <2>1. PICK r \in requests : Serve(r)
    BY <1>8
  <2>2. UNCHANGED <<sent, partial, acks, subscribed, toServer>> /\ socket' = socket
    BY <2>1 DEF Serve, transport
  <2>3. UNCHANGED toBrowser \/ \E new \in {Current, Recomputed} : Push(new)
    BY <2>1 DEF Serve
  <2>4. QED
    BY <2>2, <2>3, ToldPushing
<1>9. CASE Ask \/ \E r \in requests : Hydrate(r) \/ Lose(r)
  <2>1. UNCHANGED <<sent, partial, acks, subscribed, toServer, toBrowser>> /\ socket' = socket
    BY <1>9 DEF Ask, Hydrate, Lose, runtimeVars, wire, transport
  <2>2. QED
    BY <2>1, ToldPushing
<1>10. CASE UNCHANGED vars
  <2>1. UNCHANGED <<sent, partial, acks, subscribed, toServer, toBrowser>> /\ socket' = socket
    BY <1>10 DEF vars, runtimeVars, cacheVars, wire, transport
  <2>2. QED
    BY <2>1, ToldPushing
<1>11. QED
  BY <1>3, <1>4, <1>5, <1>6, <1>7, <1>8, <1>9, <1>10 DEF Next

\* With nothing on its way, a live browser holds the newest entry.
LEMMA LiveCurrent == LInv => LiveMeansCurrent
<1>1. SUFFICES ASSUME LInv, Live, Wanted, socket = "up", life = "active",
                      toServer = <<>>, toBrowser = <<>>, ~pending
               PROVE  /\ subscribed
                      /\ held = [gen |-> generation, rev |-> cache.rev, value |-> source]
  BY DEF LiveMeansCurrent
<1>2. /\ TInv /\ TypeOK /\ Ordered /\ Cached /\ Kept /\ Continued /\ Clean /\ Told
      /\ Visible /\ DOMAIN toBrowser = {}
  BY <1>1 DEF LInv, PInv, TInv, Stream, Visible
<1>3. subscribed
  <2>1. sent = "with" /\ ~partial
    BY <1>1 DEF Live, Inventory
  <2>2. QED
    BY <1>1, <1>2, <2>1 DEF Told
<1>4. cache # NoEntry /\ Holds(cache.rev)
  BY <1>2, <1>3 DEF Continued
<1>5. cache.value = source
  BY <1>1, <1>2, <1>3, <1>4 DEF Clean, CleanIsCurrent
<1> DEFINE e == [gen |-> generation, rev |-> cache.rev, value |-> cache.value]
<1>6. /\ Len(published) \in DOMAIN published /\ published[Len(published)] = e
      /\ cache.rev \in Nat
      /\ \A i \in DOMAIN published :
            published[i].gen < generation
               \/ (published[i].gen = generation /\ published[i].rev <= cache.rev)
  BY <1>2, <1>4, CacheIsNewest
<1>7. Was(held) /\ held.gen = generation /\ held.rev >= cache.rev
  BY <1>2, <1>4 DEF Kept, Holds
<1>8. held.rev = cache.rev
  <2>1. PICK i \in DOMAIN published : published[i] = held
    BY <1>7 DEF Was
  <2>2. held.rev \in Nat /\ generation \in Nat
    BY <1>2, RuntimeAssumption DEF TypeOK, RuntimeTypeOK, CacheTypeOK, Held
  <2>3. ~(held.gen < generation)
    BY <1>7, <2>2
  <2>4. held.rev <= cache.rev
    BY <1>6, <2>1, <2>3
  <2>5. QED
    BY <1>6, <1>7, <2>2, <2>4
<1>9. Was(e)
  BY <1>6 DEF Was
<1>10. held = e
  <2>1. e.gen = held.gen /\ e.rev = held.rev
    BY <1>7, <1>8
  <2> HIDE DEF e
  <2>2. QED
    BY <1>2, <1>7, <1>9, <2>1, OneValue
<1>11. QED
  BY <1>3, <1>5, <1>10

\* A browser that takes its socket to keep it current is right to
\* (syncedProjectionsLive): with nothing on its way it holds the server's value and
\* version and is subscribed, where only the session's own changes reach its value
\* (invalidateLeaderThreadTabsForQuestIds leaves a key without subscribers alone)
\* and the browser subscribes again before its next event.
THEOREM LiveAgrees ==
    ASSUME RestoredLater, OwnChanges
    PROVE  Spec /\ [][Rendering]_vars => []LiveMeansCurrent
<1>1. Init => Clean /\ Told
  BY DEF Init, RuntimeInit, CacheInit, Clean, CleanIsCurrent, Told
<1>2. Clean /\ PInv /\ [Next]_vars => Clean'
  BY CleanStep
<1>3. Told /\ PInv /\ PInv' /\ [Next]_vars /\ [Rendering]_vars => Told'
  BY ToldStep
<1>4. PInv /\ Clean /\ Told => LiveMeansCurrent
  BY LiveCurrent DEF LInv
<1>5. QED
  BY <1>1, <1>2, <1>3, <1>4, PInvHolds, PTL DEF Spec
=============================================================================
