------------------------ MODULE ResourceLeasesProofs ------------------------
(***************************************************************************)
(* Theorems about ResourceLeases for every value of its constants.         *)
(***************************************************************************)
EXTENDS ResourceLeases, SubsequencesProofs

-----------------------------------------------------------------------------
(***************************************************************************)
(* Promotion: ranks of free slots match places in the queue.               *)
(***************************************************************************)
\* The free slots are finitely many, and their ranks number them from 1 in order.
LEMMA Ranks ==
    ASSUME NEW p \in Pool
    PROVE  /\ IsFiniteSet(Free(p)) /\ Cardinality(Free(p)) \in Nat
           /\ \A f \in Free(p) : Rank(p, f) \in 1..Cardinality(Free(p))
           /\ \A f, g \in Free(p) : f < g => Rank(p, f) < Rank(p, g)
<1> DEFINE F == Free(p)
           Upto(f) == {g \in F : g <= f}
<1>1. F \in SUBSET Nat /\ F \in SUBSET (1..p.capacity) /\ p.capacity \in Nat
  BY DEF Pool, Free
<1>2. IsFiniteSet(F) /\ Cardinality(F) \in Nat
  <2>1. p.capacity \in Int /\ 1 \in Int
    BY <1>1
  <2>2. IsFiniteSet(1..p.capacity)
    BY <2>1, FS_Interval
  <2>3. IsFiniteSet(F)
    BY <1>1, <2>2, FS_Subset
  <2>4. QED
    BY <2>3, FS_CardinalityType
<1>3. ASSUME NEW f \in F
      PROVE  /\ IsFiniteSet(Upto(f)) /\ Cardinality(Upto(f)) \in Nat
             /\ Cardinality(Upto(f)) <= Cardinality(F)
             /\ f \in Upto(f)
  <2>1. Upto(f) \in SUBSET F
    OBVIOUS
  <2>2. f \in Upto(f)
    BY <1>1
  <2>3. IsFiniteSet(Upto(f)) /\ Cardinality(Upto(f)) <= Cardinality(F)
    BY <1>2, <2>1, FS_Subset
  <2>4. QED
    BY <2>2, <2>3, FS_CardinalityType
<1>4. ASSUME NEW f \in F PROVE Rank(p, f) \in 1..Cardinality(F)
  <2>1. Upto(f) # {}
    BY <1>3
  <2>2. Cardinality(Upto(f)) # 0
    BY <1>3, <2>1, FS_EmptySet
  <2>3. Rank(p, f) = Cardinality(Upto(f))
    BY DEF Rank
  <2>4. QED
    BY <1>2, <1>3, <2>2, <2>3
<1>5. ASSUME NEW f \in F, NEW g \in F, f < g PROVE Rank(p, f) < Rank(p, g)
  <2>1. Upto(f) \in SUBSET Upto(g)
    BY <1>1, <1>5
  <2>2. g \in Upto(g) /\ g \notin Upto(f)
    BY <1>1, <1>5
  <2>3. /\ Cardinality(Upto(f)) <= Cardinality(Upto(g))
        /\ Cardinality(Upto(g)) = Cardinality(Upto(f)) => Upto(g) = Upto(f)
    BY <1>3, <2>1, FS_Subset
  <2>4. Cardinality(Upto(f)) # Cardinality(Upto(g))
    BY <2>2, <2>3
  <2>5. Cardinality(Upto(f)) \in Nat /\ Cardinality(Upto(g)) \in Nat
    BY <1>3
  <2>6. Rank(p, f) = Cardinality(Upto(f)) /\ Rank(p, g) = Cardinality(Upto(g))
    BY DEF Rank
  <2>7. QED
    BY <2>3, <2>4, <2>5, <2>6
<1>6. QED
  BY <1>2, <1>4, <1>5

\* The slots filled are as many as the waiters promoted; if any waiter is left
\* over, every free slot was filled.
LEMMA FilledSlots ==
    ASSUME NEW p \in Pool
    PROVE  /\ Cardinality(Filled(p)) \in 0..Len(p.waiters)
           /\ \A f \in Filled(p) : Rank(p, f) \in 1..Cardinality(Filled(p))
           /\ Cardinality(Filled(p)) < Len(p.waiters) => Filled(p) = Free(p)
<1> DEFINE F == Free(p)
           D == Filled(p)
           m == Len(p.waiters)
           c == Cardinality(F)
           rank == [f \in F |-> Rank(p, f)]
           short == [f \in D |-> Rank(p, f)]
<1>1. /\ IsFiniteSet(F) /\ c \in Nat /\ m \in Nat
      /\ \A f \in F : Rank(p, f) \in 1..c
      /\ \A f, g \in F : f < g => Rank(p, f) < Rank(p, g)
      /\ F \in SUBSET Nat
  <2>1. F \in SUBSET Nat /\ m \in Nat
    BY DEF Pool, Free
  <2>2. QED
    BY <2>1, Ranks
<1>2. D \in SUBSET F /\ IsFiniteSet(D) /\ Cardinality(D) \in Nat
  BY <1>1, FS_Subset, FS_CardinalityType DEF Filled
<1>3. \A f, g \in F : Rank(p, f) = Rank(p, g) => f = g
  BY <1>1
<1>4. Cardinality(D) <= m
  <2>1. short \in Injection(D, 1..m)
    <3>1. \A f \in D : Rank(p, f) \in 1..m
      BY <1>1, <1>2 DEF Filled
    <3>2. QED
      BY <1>2, <1>3, <3>1 DEF Injection, IsInjective
  <2>2. IsFiniteSet(1..m) /\ Cardinality(1..m) = m
    <3>1. m \in Int /\ 1 \in Int /\ (IF 1 > m THEN 0 ELSE m - 1 + 1) = m
      BY <1>1
    <3>2. QED
      BY <3>1, FS_Interval
  <2>3. QED
    BY <2>1, <2>2, FS_Injection
<1>5. ASSUME NEW f \in D PROVE Rank(p, f) \in 1..Cardinality(D)
  <2> DEFINE U == {g \in F : g <= f}
  <2>1. U \in SUBSET D
    <3>1. SUFFICES ASSUME NEW g \in F, g <= f PROVE g \in D
      OBVIOUS
    <3>2. Rank(p, g) <= Rank(p, f)
      BY <1>1, <1>2, <3>1
    <3>3. Rank(p, f) <= m
      BY DEF Filled
    <3>4. QED
      BY <1>1, <1>2, <3>2, <3>3 DEF Filled
  <2>2. Cardinality(U) <= Cardinality(D)
    BY <1>2, <2>1, FS_Subset
  <2>3. Rank(p, f) = Cardinality(U)
    BY DEF Rank
  <2>4. QED
    BY <1>1, <1>2, <2>2, <2>3
<1>6. ASSUME Cardinality(D) < m PROVE D = F
  <2>1. CASE c <= m
    <3>1. \A f \in F : Rank(p, f) <= m
      BY <1>1, <2>1
    <3>2. QED
      BY <3>1 DEF Filled
  <2>2. CASE c > m
    <3>1. rank \in Injection(F, 1..c)
      BY <1>1, <1>3 DEF Injection, IsInjective
    <3>2. IsFiniteSet(1..c) /\ Cardinality(1..c) = c
      <4>1. c \in Int /\ 1 \in Int /\ (IF 1 > c THEN 0 ELSE c - 1 + 1) = c
        BY <1>1
      <4>2. QED
        BY <4>1, FS_Interval
    <3>3. rank \in Surjection(F, 1..c)
      BY <3>1, <3>2, FS_Injection
    <3>4. \A k \in 1..m : \E f \in D : Rank(p, f) = k
      <4>1. SUFFICES ASSUME NEW k \in 1..m PROVE \E f \in D : Rank(p, f) = k
        OBVIOUS
      <4>2. k \in 1..c
        BY <1>1, <2>2
      <4>3. PICK f \in F : rank[f] = k
        BY <3>3, <4>2 DEF Surjection
      <4>4. QED
        BY <1>1, <4>3 DEF Filled
    <3>5. short \in Surjection(D, 1..m)
      <4>1. \A f \in D : Rank(p, f) \in 1..m
        BY <1>1, <1>2 DEF Filled
      <4>2. QED
        BY <3>4, <4>1 DEF Surjection
    <3>6. Cardinality(1..m) = m /\ Cardinality(1..m) <= Cardinality(D)
      <4>1. m \in Int /\ 1 \in Int /\ (IF 1 > m THEN 0 ELSE m - 1 + 1) = m
        BY <1>1
      <4>2. Cardinality(1..m) = m
        BY <4>1, FS_Interval
      <4>3. QED
        BY <1>2, <3>5, <4>2, FS_Surjection
    <3>7. QED
      BY <1>1, <1>2, <1>6, <3>6
  <2>3. QED
    BY <1>1, <2>1, <2>2
<1>7. QED
  BY <1>1, <1>2, <1>4, <1>5, <1>6

-----------------------------------------------------------------------------
(***************************************************************************)
(* What the operations do to a pool.                                       *)
(***************************************************************************)
\* A pool that satisfies both invariants.
Sound(p) == p \in Pool /\ Reserved(p) /\ QueuesWhenFull(p)

\* A promoted lease fills a free slot for the waiter of the same rank.
LEMMA PromotedLeases ==
    ASSUME NEW p \in Pool, NEW l \in Promoted(p)
    PROVE  /\ l \in Lease /\ l.slot \in Filled(p) /\ l.slot \in Free(p)
           /\ Rank(p, l.slot) \in 1..Cardinality(Filled(p))
           /\ Rank(p, l.slot) \in DOMAIN p.waiters
           /\ l.owner = p.waiters[Rank(p, l.slot)].session
           /\ l.left = p.waiters[Rank(p, l.slot)].ttl
<1>1. PICK f \in Filled(p) :
        l = [slot |-> f, owner |-> p.waiters[Rank(p, f)].session,
             left |-> p.waiters[Rank(p, f)].ttl]
  BY DEF Promoted
<1>2. f \in Free(p) /\ f \in Nat \ {0}
  BY DEF Filled, Free, Pool
<1>3. Rank(p, f) \in 1..Cardinality(Filled(p)) /\ Cardinality(Filled(p)) \in 0..Len(p.waiters)
  BY FilledSlots
<1>4. p.waiters \in Seq(Waiter)
  BY DEF Pool
<1>5. Rank(p, f) \in 1..Len(p.waiters)
  BY <1>3, <1>4
<1>6. p.waiters[Rank(p, f)] \in Waiter /\ Rank(p, f) \in DOMAIN p.waiters
  BY <1>4, <1>5
<1>7. p.waiters[Rank(p, f)].session \in Sessions /\ p.waiters[Rank(p, f)].ttl \in Nat
  BY <1>6, TtlsAssumption DEF Waiter
<1>8. l \in Lease
  BY <1>1, <1>2, <1>7 DEF Lease
<1>9. QED
  BY <1>1, <1>2, <1>3, <1>6, <1>8

\* What is left of the queue is its tail.
LEMMA RestOfQueue ==
    ASSUME NEW W \in Seq(Waiter), NEW n \in 0..Len(W)
    PROVE  /\ SubSeq(W, n + 1, Len(W)) \in Seq(Waiter)
           /\ Len(SubSeq(W, n + 1, Len(W))) = Len(W) - n
           /\ \A j \in 1..Len(W) - n :
                n + j \in 1..Len(W) /\ SubSeq(W, n + 1, Len(W))[j] = W[n + j]
<1>1. Len(W) \in Nat /\ n \in Nat /\ n <= Len(W)
  OBVIOUS
<1>2. \A i \in n + 1..Len(W) : W[i] \in Waiter
  BY <1>1
<1>3. SubSeq(W, n + 1, Len(W)) \in Seq(Waiter)
  BY <1>1, <1>2
<1>4. QED
  BY <1>1, <1>3

\* promoteWaiters fills every slot it can and keeps the reservations apart.
LEMMA RefilledSound ==
    ASSUME NEW p \in Pool, Reserved(p)
    PROVE  Sound(Refilled(p)) /\ Promoted(p) \in SUBSET Lease
<1> DEFINE q == Refilled(p)
           n == Cardinality(Filled(p))
           W == p.waiters
           rest == SubSeq(W, n + 1, Len(W))
<1>1. /\ p.leases \in SUBSET Lease /\ W \in Seq(Waiter)
      /\ p.capacity \in Nat \ {0} /\ Len(W) \in Nat
  BY DEF Pool
<1>2. n \in 0..Len(W) /\ n \in Nat
  BY <1>1, FilledSlots
<1>3. /\ q.capacity = p.capacity /\ q.leases = p.leases \cup Promoted(p)
      /\ q.waiters = rest
      /\ q = [capacity |-> p.capacity, leases |-> p.leases \cup Promoted(p), waiters |-> rest]
  <2>1. /\ q = [[p EXCEPT !.leases = p.leases \cup Promoted(p)] EXCEPT !.waiters = rest]
        /\ DOMAIN p = {"capacity", "leases", "waiters"}
        /\ p = [capacity |-> p.capacity, leases |-> p.leases, waiters |-> p.waiters]
    BY DEF Refilled, Pool
  <2> HIDE DEF rest, q
  <2>2. QED
    BY <2>1
<1>4. /\ rest \in Seq(Waiter) /\ Len(rest) = Len(W) - n
      /\ \A j \in 1..Len(W) - n : n + j \in 1..Len(W) /\ rest[j] = W[n + j]
  BY <1>1, <1>2, RestOfQueue
<1>5. DOMAIN rest = 1..Len(W) - n /\ DOMAIN W = 1..Len(W)
  BY <1>1, <1>4
<1>6. Promoted(p) \in SUBSET Lease
  BY PromotedLeases
<1>7. q \in Pool
  BY <1>1, <1>3, <1>4, <1>6 DEF Pool
<1>8. /\ \A l \in p.leases : l.slot <= p.capacity /\ l.owner \notin Queued(p)
      /\ \A l, m \in p.leases : l.slot = m.slot \/ l.owner = m.owner => l = m
      /\ \A i, j \in DOMAIN W : W[i].session = W[j].session => i = j
  BY DEF Reserved
<1>9. Queued(q) \in SUBSET Queued(p)
  <2>1. \A j \in DOMAIN rest : n + j \in DOMAIN W /\ rest[j] = W[n + j]
    BY <1>4, <1>5
  <2>2. Queued(q) = {rest[j].session : j \in DOMAIN rest}
    BY <1>3 DEF Queued
  <2>3. \A j \in DOMAIN rest : rest[j].session \in Queued(p)
    BY <2>1 DEF Queued
  <2>4. QED
    BY <2>2, <2>3
<1>10. ASSUME NEW l \in Promoted(p)
       PROVE  /\ l.slot <= p.capacity /\ l.slot \in Free(p)
              /\ l.owner \in Queued(p) /\ l.owner \notin Queued(q)
  <2>1. /\ l.slot \in Free(p) /\ Rank(p, l.slot) \in 1..n
        /\ Rank(p, l.slot) \in DOMAIN W /\ l.owner = W[Rank(p, l.slot)].session
    BY PromotedLeases
  <2>2. l.slot <= p.capacity
    BY <1>1, <2>1 DEF Free
  <2>3. l.owner \in Queued(p)
    BY <2>1 DEF Queued
  <2>4. ASSUME NEW j \in DOMAIN rest PROVE l.owner # rest[j].session
    <3>1. rest[j] = W[n + j] /\ n + j \in DOMAIN W
      BY <1>4, <1>5
    <3>2. n + j # Rank(p, l.slot)
      BY <1>2, <1>5, <2>1
    <3>3. QED
      BY <1>8, <2>1, <3>1, <3>2
  <2>5. QED
    BY <1>3, <2>1, <2>2, <2>3, <2>4 DEF Queued
<1>11. ASSUME NEW l \in Promoted(p), NEW m \in Promoted(p),
              l.slot = m.slot \/ l.owner = m.owner
       PROVE  l = m
  <2>1. /\ l.slot \in Free(p) /\ m.slot \in Free(p)
        /\ Rank(p, l.slot) \in DOMAIN W /\ l.owner = W[Rank(p, l.slot)].session
        /\ Rank(p, m.slot) \in DOMAIN W /\ m.owner = W[Rank(p, m.slot)].session
        /\ l.left = W[Rank(p, l.slot)].ttl /\ m.left = W[Rank(p, m.slot)].ttl
        /\ l \in Lease /\ m \in Lease
    BY PromotedLeases
  <2>2. l.slot = m.slot
    <3>1. CASE l.owner = m.owner
      <4>1. Rank(p, l.slot) = Rank(p, m.slot)
        BY <1>8, <2>1, <3>1
      <4>2. /\ l.slot \in Nat /\ m.slot \in Nat
            /\ \A f \in Free(p) : Rank(p, f) \in Nat
            /\ \A f, g \in Free(p) : f < g => Rank(p, f) < Rank(p, g)
        BY <2>1, Ranks DEF Lease
      <4>3. QED
        BY <2>1, <4>1, <4>2
    <3>2. QED
      BY <1>11, <3>1
  <2>3. l.owner = m.owner /\ l.left = m.left
    BY <2>1, <2>2
  <2>4. QED
    BY <2>1, <2>2, <2>3 DEF Lease
<1>12. ASSUME NEW l \in p.leases, NEW m \in Promoted(p)
       PROVE  l.slot # m.slot /\ l.owner # m.owner
  BY <1>8, <1>10 DEF Free
<1>13. Reserved(q)
  <2>1. \A l \in q.leases : l.slot <= q.capacity /\ l.owner \notin Queued(q)
    BY <1>3, <1>8, <1>9, <1>10
  <2>2. \A l, m \in q.leases : l.slot = m.slot \/ l.owner = m.owner => l = m
    BY <1>3, <1>8, <1>11, <1>12
  <2>3. \A i, j \in DOMAIN rest : rest[i].session = rest[j].session => i = j
    <3>1. SUFFICES ASSUME NEW i \in DOMAIN rest, NEW j \in DOMAIN rest,
                          rest[i].session = rest[j].session
                   PROVE  i = j
      OBVIOUS
    <3>2. /\ rest[i] = W[n + i] /\ n + i \in DOMAIN W
          /\ rest[j] = W[n + j] /\ n + j \in DOMAIN W
      BY <1>4, <1>5
    <3>3. n + i = n + j
      BY <1>8, <3>1, <3>2
    <3>4. QED
      BY <1>2, <1>5, <3>3
  <2>4. QED
    BY <1>3, <2>1, <2>2, <2>3 DEF Reserved
<1>14. QueuesWhenFull(q)
  <2>1. SUFFICES ASSUME rest # <<>> PROVE Free(q) = {}
    BY <1>3 DEF QueuesWhenFull
  <2>2. n < Len(W)
    BY <1>2, <1>4, <2>1
  <2>3. Filled(p) = Free(p)
    BY <2>2, FilledSlots
  <2>4. ASSUME NEW f \in Free(p) PROVE \E l \in Promoted(p) : l.slot = f
    <3> DEFINE l == [slot |-> f, owner |-> W[Rank(p, f)].session,
                     left |-> W[Rank(p, f)].ttl]
    <3>1. l \in Promoted(p)
      BY <2>3, <2>4 DEF Promoted
    <3>2. l.slot = f
      OBVIOUS
    <3>3. QED
      BY <3>1, <3>2
  <2>5. QED
    BY <1>3, <2>4 DEF Free
<1>15. QED
  BY <1>6, <1>7, <1>13, <1>14 DEF Sound

\* Changing one field of a pool.
LEMMA PoolFields ==
    ASSUME NEW p \in Pool
    PROVE  /\ \A L : [p EXCEPT !.leases = L] =
                     [capacity |-> p.capacity, leases |-> L, waiters |-> p.waiters]
           /\ \A w : [p EXCEPT !.waiters = w] =
                     [capacity |-> p.capacity, leases |-> p.leases, waiters |-> w]
           /\ \A c : [p EXCEPT !.capacity = c] =
                     [capacity |-> c, leases |-> p.leases, waiters |-> p.waiters]
           /\ p.capacity \in Nat \ {0} /\ p.leases \in SUBSET Lease
           /\ p.waiters \in Seq(Waiter)
  BY DEF Pool

\* Taking leases away keeps the reservations apart.
LEMMA ShrunkReserved ==
    ASSUME NEW p \in Pool, Reserved(p), NEW L \in SUBSET p.leases
    PROVE  [p EXCEPT !.leases = L] \in Pool /\ Reserved([p EXCEPT !.leases = L])
<1> DEFINE q == [capacity |-> p.capacity, leases |-> L, waiters |-> p.waiters]
<1>1. q = [p EXCEPT !.leases = L]
  BY PoolFields
<1>2. q \in Pool
  BY PoolFields DEF Pool
<1>3. /\ q.leases = L /\ q.waiters = p.waiters /\ q.capacity = p.capacity
      /\ Queued(q) = Queued(p)
  BY DEF Queued
<1>4. Reserved(q)
  BY <1>3 DEF Reserved
<1>5. QED
  BY <1>1, <1>2, <1>4

\* expireDueLeases
LEMMA SweptSound ==
    ASSUME NEW p \in Pool, Reserved(p)
    PROVE  Sound(Swept(p)) /\ Promoted(Expired(p)) \in SUBSET Lease
<1>1. Expired(p) \in Pool /\ Reserved(Expired(p))
  <2>1. {l \in p.leases : l.left > 0} \in SUBSET p.leases
    OBVIOUS
  <2>2. QED
    BY <2>1, ShrunkReserved DEF Expired
<1>2. QED
  BY <1>1, RefilledSound DEF Swept

\* A release, by its owner or by force.
LEMMA RemovedSound ==
    ASSUME NEW p \in Pool, Reserved(p), NEW l
    PROVE  Sound(Removed(p, l)) /\ Successors(p, l) \in SUBSET Lease
<1>1. [p EXCEPT !.leases = p.leases \ {l}] \in Pool
      /\ Reserved([p EXCEPT !.leases = p.leases \ {l}])
  <2>1. p.leases \ {l} \in SUBSET p.leases
    OBVIOUS
  <2>2. QED
    BY <2>1, ShrunkReserved
<1>2. QED
  BY <1>1, RefilledSound DEF Removed, Successors

\* A free slot means an empty queue, so a newcomer passes nobody by.
LEMMA GivenSound ==
    ASSUME NEW p, Sound(p), NEW s \in Sessions, NEW ttl \in Ttls,
           Held(p, s) = {}, NEW lease \in Given(p, s, ttl)
    PROVE  Sound([p EXCEPT !.leases = p.leases \cup {lease}]) /\ lease \in Lease
<1> DEFINE q == [capacity |-> p.capacity, leases |-> p.leases \cup {lease},
                 waiters |-> p.waiters]
<1>1. p \in Pool /\ Reserved(p) /\ QueuesWhenFull(p)
  BY DEF Sound
<1>2. q = [p EXCEPT !.leases = p.leases \cup {lease}]
  BY <1>1, PoolFields
<1>3. lease.slot \in Free(p) /\ lease.owner = s /\ lease.left = ttl
      /\ lease = [slot |-> lease.slot, owner |-> s, left |-> ttl]
  BY DEF Given
<1>4. lease \in Lease
  <2>1. lease.slot \in Nat \ {0} /\ ttl \in Nat
    BY <1>1, <1>3, TtlsAssumption, PoolFields DEF Free
  <2>2. QED
    BY <1>3, <2>1 DEF Lease
<1>5. p.waiters = <<>> /\ Queued(p) = {} /\ Queued(q) = {}
  <2>1. p.waiters = <<>>
    BY <1>1, <1>3 DEF QueuesWhenFull
  <2>2. q.waiters = <<>>
    BY <2>1
  <2>3. QED
    BY <2>1, <2>2 DEF Queued
<1>6. q \in Pool
  BY <1>1, <1>4, PoolFields DEF Pool
<1>7. Reserved(q)
  <2>1. /\ \A l \in p.leases : l.slot <= p.capacity
        /\ \A l, m \in p.leases : l.slot = m.slot \/ l.owner = m.owner => l = m
    BY <1>1 DEF Reserved
  <2>2. \A l \in p.leases : l.slot # lease.slot /\ l.owner # lease.owner
    BY <1>3 DEF Free, Held
  <2>3. lease.slot <= p.capacity
    BY <1>1, <1>3, PoolFields DEF Free
  <2>4. \A l \in q.leases : l.slot <= q.capacity /\ l.owner \notin Queued(q)
    BY <1>5, <2>1, <2>3
  <2>5. \A l, m \in q.leases : l.slot = m.slot \/ l.owner = m.owner => l = m
    BY <2>1, <2>2
  <2>6. \A i, j \in DOMAIN q.waiters : q.waiters[i].session = q.waiters[j].session => i = j
    BY <1>5
  <2>7. QED
    BY <2>4, <2>5, <2>6 DEF Reserved
<1>8. QueuesWhenFull(q)
  BY <1>5 DEF QueuesWhenFull
<1>9. QED
  BY <1>2, <1>4, <1>6, <1>7, <1>8 DEF Sound

\* A session joins the queue of a full pool.
LEMMA QueuedSound ==
    ASSUME NEW p, Sound(p), NEW s \in Sessions, NEW ttl \in Ttls,
           Held(p, s) = {}, Free(p) = {}, s \notin Queued(p)
    PROVE  Sound([p EXCEPT !.waiters = Append(p.waiters, [session |-> s, ttl |-> ttl])])
<1> DEFINE w == [session |-> s, ttl |-> ttl]
           W == Append(p.waiters, w)
           q == [capacity |-> p.capacity, leases |-> p.leases, waiters |-> W]
<1>1. p \in Pool /\ Reserved(p)
  BY DEF Sound
<1>2. q = [p EXCEPT !.waiters = W]
  BY <1>1, PoolFields
<1>3. w \in Waiter /\ p.waiters \in Seq(Waiter)
  BY <1>1, PoolFields DEF Waiter
<1>4. /\ W \in Seq(Waiter) /\ Len(p.waiters) \in Nat
      /\ DOMAIN W = 1..Len(p.waiters) + 1 /\ DOMAIN p.waiters = 1..Len(p.waiters)
      /\ W[Len(p.waiters) + 1] = w
      /\ \A i \in 1..Len(p.waiters) : W[i] = p.waiters[i]
  BY <1>3
<1>5. q \in Pool
  BY <1>1, <1>4, PoolFields DEF Pool
<1>6. Queued(q) = Queued(p) \cup {s}
  <2>1. Queued(q) = {W[i].session : i \in DOMAIN W}
    BY DEF Queued
  <2>2. DOMAIN W = DOMAIN p.waiters \cup {Len(p.waiters) + 1}
    BY <1>4
  <2>3. W[Len(p.waiters) + 1].session = s
    BY <1>4
  <2>4. \A i \in DOMAIN p.waiters : W[i].session = p.waiters[i].session
    BY <1>4
  <2> HIDE DEF W
  <2>5. QED
    BY <2>1, <2>2, <2>3, <2>4 DEF Queued
<1>7. Reserved(q)
  <2>1. \A l \in q.leases : l.slot <= q.capacity /\ l.owner \notin Queued(q)
    BY <1>1, <1>6 DEF Reserved, Held
  <2>2. \A l, m \in q.leases : l.slot = m.slot \/ l.owner = m.owner => l = m
    BY <1>1 DEF Reserved
  <2>3. \A i, j \in DOMAIN W : W[i].session = W[j].session => i = j
    <3>1. \A i, j \in DOMAIN p.waiters : p.waiters[i].session = p.waiters[j].session => i = j
      BY <1>1 DEF Reserved
    <3>2. \A i \in DOMAIN p.waiters : p.waiters[i].session # s
      BY DEF Queued
    <3> HIDE DEF W
    <3>3. SUFFICES ASSUME NEW i \in DOMAIN W, NEW j \in DOMAIN W,
                          W[i].session = W[j].session
                   PROVE  i = j
      OBVIOUS
    <3>4. W[Len(p.waiters) + 1].session = s
      BY <1>4
    <3>5. \A k \in DOMAIN p.waiters : W[k].session = p.waiters[k].session
      BY <1>4
    <3>6. i \in DOMAIN p.waiters \/ i = Len(p.waiters) + 1
      BY <1>4
    <3>7. j \in DOMAIN p.waiters \/ j = Len(p.waiters) + 1
      BY <1>4
    <3>8. QED
      BY <3>1, <3>2, <3>3, <3>4, <3>5, <3>6, <3>7
  <2>4. QED
    BY <2>1, <2>2, <2>3 DEF Reserved
<1>8. Free(q) = Free(p)
  BY DEF Free
<1>9. QED
  BY <1>2, <1>5, <1>7, <1>8 DEF Sound, QueuesWhenFull

\* withdraw
LEMMA WithdrawnSound ==
    ASSUME NEW p, Sound(p), NEW I \in SUBSET DOMAIN p.waiters,
           NEW rest \in Filtered(p.waiters, I)
    PROVE  Sound([p EXCEPT !.waiters = rest])
<1> DEFINE q == [capacity |-> p.capacity, leases |-> p.leases, waiters |-> rest]
<1>1. p \in Pool /\ Reserved(p) /\ QueuesWhenFull(p) /\ p.waiters \in Seq(Waiter)
  BY PoolFields DEF Sound
<1>2. q = [p EXCEPT !.waiters = rest]
  BY <1>1, PoolFields
<1>3. rest \in Seq(Waiter) /\ Len(rest) \in Nat
  BY <1>1, FilteredEmbeds
<1>4. PICK g \in [1..Len(rest) -> I] :
        /\ \A a, b \in 1..Len(rest) : a < b => g[a] < g[b]
        /\ \A j \in 1..Len(rest) : rest[j] = p.waiters[g[j]]
  BY <1>1, FilteredEmbeds
<1>5. DOMAIN rest = 1..Len(rest) /\ \A j \in DOMAIN rest : g[j] \in DOMAIN p.waiters
  BY <1>3, <1>4
<1>6. q \in Pool
  BY <1>1, <1>3, PoolFields DEF Pool
<1>7. Queued(q) \in SUBSET Queued(p)
  BY <1>4, <1>5 DEF Queued
<1>8. Reserved(q)
  <2>1. \A l \in q.leases : l.slot <= q.capacity /\ l.owner \notin Queued(q)
    BY <1>1, <1>7 DEF Reserved
  <2>2. \A l, m \in q.leases : l.slot = m.slot \/ l.owner = m.owner => l = m
    BY <1>1 DEF Reserved
  <2>3. ASSUME NEW i \in DOMAIN rest, NEW j \in DOMAIN rest,
               rest[i].session = rest[j].session
        PROVE  i = j
    <3>1. g[i] = g[j]
      BY <1>1, <1>4, <1>5, <2>3 DEF Reserved
    <3>2. g[i] \in Nat /\ g[j] \in Nat
      BY <1>1, <1>5
    <3>3. QED
      BY <1>3, <1>4, <1>5, <3>1, <3>2
  <2>4. QED
    BY <2>1, <2>2, <2>3 DEF Reserved
<1>9. QueuesWhenFull(q)
  <2>1. rest # <<>> => p.waiters # <<>>
    <3>1. SUFFICES ASSUME rest # <<>> PROVE DOMAIN p.waiters # {}
      BY <1>1
    <3>2. 1 \in DOMAIN rest
      BY <1>3, <3>1
    <3>3. QED
      BY <1>5, <3>2
  <2>2. Free(q) = Free(p)
    BY DEF Free
  <2>3. QED
    BY <1>1, <2>1, <2>2 DEF QueuesWhenFull
<1>10. QED
  BY <1>2, <1>6, <1>8, <1>9 DEF Sound

\* renew: one lease gets a new lifetime.
LEMMA RenewedSound ==
    ASSUME NEW p, Sound(p), NEW l \in p.leases, NEW ttl \in Ttls
    PROVE  /\ [l EXCEPT !.left = ttl] \in Lease
           /\ Sound([p EXCEPT !.leases = (p.leases \ {l}) \cup {[l EXCEPT !.left = ttl]}])
<1> DEFINE r == [l EXCEPT !.left = ttl]
           L == (p.leases \ {l}) \cup {r}
           q == [capacity |-> p.capacity, leases |-> L, waiters |-> p.waiters]
<1>1. p \in Pool /\ Reserved(p) /\ QueuesWhenFull(p) /\ p.leases \in SUBSET Lease
  BY PoolFields DEF Sound
<1>2. q = [p EXCEPT !.leases = L]
  BY <1>1, PoolFields
<1>3. r \in Lease /\ r.slot = l.slot /\ r.owner = l.owner
  BY <1>1, TtlsAssumption DEF Lease
<1> HIDE DEF r
<1>4. q \in Pool
  BY <1>1, <1>3, PoolFields DEF Pool
<1>5. Queued(q) = Queued(p)
  BY DEF Queued
<1>6. Reserved(q)
  <2>1. \A m \in L : m.slot <= p.capacity /\ m.owner \notin Queued(q)
    BY <1>1, <1>3, <1>5 DEF Reserved
  <2>2. \A m, n \in L : m.slot = n.slot \/ m.owner = n.owner => m = n
    BY <1>1, <1>3 DEF Reserved
  <2>3. QED
    BY <1>1, <2>1, <2>2 DEF Reserved
<1>7. {m.slot : m \in L} = {m.slot : m \in p.leases}
  BY <1>3
<1>8. Free(q) = Free(p)
  BY <1>7 DEF Free
<1>9. QED
  BY <1>1, <1>2, <1>3, <1>4, <1>6, <1>8 DEF Sound, QueuesWhenFull, r

\* configure: no held slot lies outside the new capacity.
LEMMA ReconfiguredSound ==
    ASSUME NEW p \in Pool, Reserved(p), NEW c \in Nat \ {0},
           \A l \in p.leases : l.slot <= c
    PROVE  /\ Sound(Refilled([p EXCEPT !.capacity = c]))
           /\ Promoted([p EXCEPT !.capacity = c]) \in SUBSET Lease
<1> DEFINE q == [capacity |-> c, leases |-> p.leases, waiters |-> p.waiters]
<1>1. q = [p EXCEPT !.capacity = c]
  BY PoolFields
<1>2. q \in Pool
  BY PoolFields DEF Pool
<1>3. Queued(q) = Queued(p)
  BY DEF Queued
<1>4. Reserved(q)
  BY <1>3 DEF Reserved
<1>5. QED
  BY <1>1, <1>2, <1>4, RefilledSound

\* Time passes: lifetimes shrink, nothing else changes.
LEMMA OlderSound ==
    ASSUME NEW p, Sound(p)
    PROVE  Sound([p EXCEPT !.leases = Older(p.leases)])
<1> DEFINE older(l) == [l EXCEPT !.left = IF @ = 0 THEN 0 ELSE @ - 1]
           L == Older(p.leases)
           q == [capacity |-> p.capacity, leases |-> L, waiters |-> p.waiters]
<1>1. p \in Pool /\ Reserved(p) /\ QueuesWhenFull(p) /\ p.leases \in SUBSET Lease
  BY PoolFields DEF Sound
<1>2. q = [p EXCEPT !.leases = L]
  BY <1>1, PoolFields
<1>3. \A l \in p.leases : older(l) \in Lease /\ older(l).slot = l.slot /\ older(l).owner = l.owner
  BY <1>1 DEF Lease
<1>4. L = {older(l) : l \in p.leases}
  BY DEF Older
<1> HIDE DEF L, older
<1>5. q \in Pool
  BY <1>1, <1>3, <1>4, PoolFields DEF Pool
<1>6. Queued(q) = Queued(p)
  BY DEF Queued
<1>7. Reserved(q)
  <2>1. \A m \in L : m.slot <= p.capacity /\ m.owner \notin Queued(q)
    BY <1>1, <1>3, <1>4, <1>6 DEF Reserved
  <2>2. \A m, n \in L : m.slot = n.slot \/ m.owner = n.owner => m = n
    BY <1>1, <1>3, <1>4 DEF Reserved
  <2>3. QED
    BY <1>1, <2>1, <2>2 DEF Reserved
<1>8. {m.slot : m \in L} = {m.slot : m \in p.leases}
  BY <1>3, <1>4
<1>9. Free(q) = Free(p)
  BY <1>8 DEF Free
<1>10. QED
  BY <1>1, <1>2, <1>5, <1>7, <1>9 DEF Sound, QueuesWhenFull, L

\* Leases stay leases as time passes.
LEMMA OlderType ==
    ASSUME NEW L \in SUBSET Lease
    PROVE  Older(L) \in SUBSET Lease /\ Counting(L) \in SUBSET Lease
<1>1. \A l \in L : [l EXCEPT !.left = IF @ = 0 THEN 0 ELSE @ - 1] \in Lease
  BY DEF Lease
<1>2. Older(L) \in SUBSET Lease
  BY <1>1 DEF Older
<1>3. QED
  BY <1>2 DEF Counting

-----------------------------------------------------------------------------
(***************************************************************************)
(* The inductive invariant.  Reservations in the pool and its full queue   *)
(* need each other: a newcomer is given a free slot without a look at the  *)
(* queue.  The file is part of it, for a restart takes the pool from it.   *)
(***************************************************************************)
IInv == TypeOK /\ Sound(pool) /\ Sound(file)

\* A pool never used is sound.
LEMMA EmptySound == Sound(EmptyPool)
<1>1. EmptyPool \in Pool
  BY DEF EmptyPool, Pool
<1>2. EmptyPool.leases = {} /\ EmptyPool.waiters = <<>> /\ DOMAIN EmptyPool.waiters = {}
  BY DEF EmptyPool
<1>3. Reserved(EmptyPool) /\ QueuesWhenFull(EmptyPool)
  BY <1>2 DEF Reserved, QueuesWhenFull
<1>4. QED
  BY <1>1, <1>3 DEF Sound

\* The operands of an operation under way.
LEMMA StepFields ==
    ASSUME step \in Step
    PROVE  /\ step.kind = "renew" => step.who \in Sessions /\ step.ttl \in Ttls
           /\ step.kind = "release" => step.who \in Sessions
           /\ step.kind = "configure" => step.capacity \in Nat \ {0}
<1>1. CASE step = Idle
  BY <1>1 DEF Idle
<1>2. CASE step = Answer
  BY <1>2 DEF Answer
<1>3. CASE step \in [kind : {"release"}, who : Sessions]
  BY <1>3
<1>4. CASE step \in [kind : {"renew"}, who : Sessions, ttl : Ttls]
  BY <1>4
<1>5. CASE step \in [kind : {"configure"}, capacity : Nat \ {0}]
  BY <1>5
<1>6. QED
  BY <1>1, <1>2, <1>3, <1>4, <1>5 DEF Step

\* The initial states satisfy the invariant.
LEMMA InitSound == Init => IInv
<1>1. SUFFICES ASSUME Init PROVE IInv
  OBVIOUS
<1>2. Sound(pool) /\ Sound(file)
  BY <1>1, EmptySound DEF Init
<1>3. TypeOK
  BY <1>1, EmptySound DEF Init, TypeOK, Sound, Step
<1>4. QED
  BY <1>2, <1>3 DEF IInv

\* An operation that begins keeps the invariant if the pool it makes is sound.
LEMMA BeginsSound ==
    ASSUME IInv, NEW p, NEW next, NEW given, NEW changed,
           Begins(p, next, given, changed),
           Sound(p), next \in Step, given \in SUBSET Lease, changed \in BOOLEAN,
           told' \in SUBSET Lease, noticed' \in SUBSET Lease, renewals' \in Nat
    PROVE  IInv'
<1>1. /\ pool' = p /\ step' = next /\ granted' = given /\ dirty' = changed
      /\ file' = file /\ writable' = writable /\ crashes' = crashes
  BY DEF Begins
<1>2. p \in Pool
  BY DEF Sound
<1>3. TypeOK'
  BY <1>1, <1>2 DEF IInv, TypeOK
<1>4. Sound(pool)' /\ Sound(file)'
  BY <1>1 DEF IInv, Sound, Reserved, QueuesWhenFull, Queued, Free
<1>5. QED
  BY <1>3, <1>4 DEF IInv

\* An operation that goes on or ends keeps the invariant likewise.
LEMMA SettlesSound ==
    ASSUME IInv, Settles, NEW gone, Told(gone), NEW p, NEW given,
           GoesOn(p, given) \/ (Ends /\ p = pool),
           Sound(p), given \in SUBSET Lease,
           noticed' \in SUBSET Lease, renewals' \in Nat
    PROVE  IInv'
<1>1. /\ pool' = p
      /\ step' \in {Idle, Answer} /\ dirty' \in BOOLEAN /\ granted' \in SUBSET Lease
  BY DEF GoesOn, Ends
<1>2. /\ file' \in {file, pool}
      /\ writable' = writable /\ crashes' = crashes
  BY DEF Settles
<1>3. told' \in SUBSET Lease
  BY DEF Told, IInv, TypeOK
<1>4. Sound(pool) /\ Sound(file)
  BY DEF IInv
<1>5. p \in Pool /\ pool \in Pool
  BY <1>4 DEF Sound
<1>6. TypeOK'
  BY <1>1, <1>2, <1>3, <1>5 DEF IInv, TypeOK, Step
<1>7. Sound(pool)' /\ Sound(file)'
  BY <1>1, <1>2, <1>4 DEF Sound, Reserved, QueuesWhenFull, Queued, Free
<1>8. QED
  BY <1>6, <1>7 DEF IInv

\* Sweeping the pool under the invariant.
LEMMA Sweeping ==
    ASSUME IInv
    PROVE  Sound(Swept(pool)) /\ Promoted(Expired(pool)) \in SUBSET Lease
  BY SweptSound DEF IInv, Sound

\* Sessions that are told of a lease hold one.
LEMMA Notified ==
    ASSUME IInv, NEW promoted \in SUBSET Lease, Notify(promoted)
    PROVE  noticed' \in SUBSET Lease
  BY DEF Notify, IInv, TypeOK

\* acquire and wait, one case per answer.
LEMMA AcquireSound ==
    ASSUME IInv, NEW s \in Sessions, NEW waits \in BOOLEAN, NEW ttl \in Ttls,
           Acquire(s, waits, ttl)
    PROVE  IInv'
<1> DEFINE p == Swept(pool)
           promoted == Promoted(Expired(pool))
           queue == IF s \in Queued(p) THEN p.waiters
                    ELSE Append(p.waiters, [session |-> s, ttl |-> ttl])
<1>1. Sound(p) /\ promoted \in SUBSET Lease
  BY Sweeping
<1>2. Notify(promoted) /\ told' = told /\ renewals' = renewals
  BY DEF Acquire
<1>3. /\ told' \in SUBSET Lease /\ noticed' \in SUBSET Lease /\ renewals' \in Nat
      /\ Answer \in Step
  BY <1>1, <1>2, Notified DEF IInv, TypeOK, Step
<1>4. \/ /\ Held(p, s) # {}
         /\ Begins(p, Answer, promoted \cup Held(p, s), p # pool)
      \/ /\ Held(p, s) = {}
         /\ \E lease \in Given(p, s, ttl) :
              Begins([p EXCEPT !.leases = p.leases \cup {lease}], Answer,
                     promoted \cup {lease}, TRUE)
      \/ Begins(p, Answer, promoted, p # pool)
      \/ /\ Held(p, s) = {} /\ Free(p) = {}
         /\ Begins([p EXCEPT !.waiters = queue], Answer, promoted, TRUE)
  BY DEF Acquire
<1> HIDE DEF p, promoted, queue
<1>5. CASE Begins(p, Answer, promoted \cup Held(p, s), p # pool)
  <2>1. Held(p, s) \in SUBSET Lease
    BY <1>1, PoolFields DEF Sound, Held
  <2>2. promoted \cup Held(p, s) \in SUBSET Lease /\ (p # pool) \in BOOLEAN
    BY <1>1, <2>1
  <2>3. QED
    BY <1>1, <1>3, <1>5, <2>2, BeginsSound
<1>6. ASSUME Held(p, s) = {}, NEW lease \in Given(p, s, ttl),
             Begins([p EXCEPT !.leases = p.leases \cup {lease}], Answer,
                    promoted \cup {lease}, TRUE)
      PROVE  IInv'
  <2>1. Sound([p EXCEPT !.leases = p.leases \cup {lease}]) /\ lease \in Lease
    BY <1>1, <1>6, GivenSound
  <2>2. promoted \cup {lease} \in SUBSET Lease
    BY <1>1, <2>1
  <2>3. QED
    BY <1>3, <1>6, <2>1, <2>2, BeginsSound
<1>7. CASE Begins(p, Answer, promoted, p # pool)
  <2>1. (p # pool) \in BOOLEAN
    OBVIOUS
  <2>2. QED
    BY <1>1, <1>3, <1>7, <2>1, BeginsSound
<1>8. CASE /\ Held(p, s) = {} /\ Free(p) = {}
           /\ Begins([p EXCEPT !.waiters = queue], Answer, promoted, TRUE)
  <2>1. CASE s \in Queued(p)
    <3>1. [p EXCEPT !.waiters = queue] = p
      <4>1. queue = p.waiters
        BY <2>1 DEF queue
      <4>2. p = [capacity |-> p.capacity, leases |-> p.leases, waiters |-> p.waiters]
        BY <1>1 DEF Sound, Pool
      <4>3. QED
        BY <1>1, <4>1, <4>2, PoolFields DEF Sound
    <3>2. QED
      BY <1>1, <1>3, <1>8, <3>1, BeginsSound
  <2>2. CASE s \notin Queued(p)
    <3>1. queue = Append(p.waiters, [session |-> s, ttl |-> ttl])
      BY <2>2 DEF queue
    <3>2. Sound([p EXCEPT !.waiters = queue])
      BY <1>1, <1>8, <2>2, <3>1, QueuedSound
    <3>3. QED
      BY <1>1, <1>3, <1>8, <3>2, BeginsSound
  <2>3. QED
    BY <2>1, <2>2
<1>9. QED
  BY <1>4, <1>5, <1>6, <1>7, <1>8

\* renew, configure, release and the sweep begin by letting leases expire.
LEMMA ExpiresFirstSound ==
    ASSUME IInv, NEW next \in Step, ExpiresFirst(next),
           told' \in SUBSET Lease, renewals' \in Nat
    PROVE  IInv'
<1>1. Sound(Swept(pool)) /\ Promoted(Expired(pool)) \in SUBSET Lease
  BY Sweeping
<1>2. /\ Begins(Swept(pool), next, Promoted(Expired(pool)), Swept(pool) # pool)
      /\ Notify(Promoted(Expired(pool)))
      /\ (Swept(pool) # pool) \in BOOLEAN
  BY DEF ExpiresFirst
<1>3. noticed' \in SUBSET Lease
  BY <1>1, <1>2, Notified
<1>4. QED
  BY <1>1, <1>2, <1>3, BeginsSound

\* release with force
LEMMA ForceReleaseSound ==
    ASSUME IInv, NEW l, ForceRelease(l)
    PROVE  IInv'
<1>1. Sound(Removed(pool, l)) /\ Successors(pool, l) \in SUBSET Lease
  BY RemovedSound DEF IInv, Sound
<1>2. /\ Begins(Removed(pool, l), Answer, Successors(pool, l), TRUE)
      /\ told' \in SUBSET Lease /\ noticed' \in SUBSET Lease
      /\ renewals' \in Nat /\ Answer \in Step
  BY <1>1 DEF ForceRelease, IInv, TypeOK, Step
<1>3. QED
  BY <1>1, <1>2, BeginsSound

\* withdraw, as an operation
LEMMA WithdrawSound ==
    ASSUME IInv, NEW s \in Sessions, Withdraw(s)
    PROVE  IInv'
<1> DEFINE I == {i \in DOMAIN pool.waiters : pool.waiters[i].session # s}
<1>1. PICK rest \in Filtered(pool.waiters, I) :
        Begins([pool EXCEPT !.waiters = rest], Answer, {}, TRUE)
  BY DEF Withdraw
<1>2. I \in SUBSET DOMAIN pool.waiters
  OBVIOUS
<1>3. Sound([pool EXCEPT !.waiters = rest])
  BY <1>2, WithdrawnSound DEF IInv
<1>4. /\ told' \in SUBSET Lease /\ noticed' \in SUBSET Lease
      /\ renewals' \in Nat /\ Answer \in Step /\ {} \in SUBSET Lease
  BY DEF Withdraw, IInv, TypeOK, Step
<1>5. QED
  BY <1>1, <1>3, <1>4, BeginsSound

\* renew, once its first save has settled
LEMMA RenewsSound ==
    ASSUME IInv, Renews
    PROVE  IInv'
<1>1. /\ step.kind = "renew" /\ Settles /\ Told({step.who})
      /\ Sound(pool) /\ step \in Step /\ renewals' \in Nat /\ noticed' \in SUBSET Lease
  BY DEF Renews, IInv, TypeOK
<1>2. step.ttl \in Ttls
  BY <1>1, StepFields
<1>3. ASSUME NEW l \in Held(pool, step.who),
             GoesOn([pool EXCEPT !.leases = (pool.leases \ {l}) \cup {[l EXCEPT !.left = step.ttl]}],
                    {[l EXCEPT !.left = step.ttl]})
      PROVE  IInv'
  <2>1. l \in pool.leases
    BY DEF Held
  <2>2. /\ [l EXCEPT !.left = step.ttl] \in Lease
        /\ Sound([pool EXCEPT !.leases = (pool.leases \ {l}) \cup {[l EXCEPT !.left = step.ttl]}])
    BY <1>1, <1>2, <2>1, RenewedSound
  <2>3. {[l EXCEPT !.left = step.ttl]} \in SUBSET Lease
    BY <2>2
  <2>4. QED
    BY <1>1, <1>3, <2>2, <2>3, SettlesSound
<1>4. CASE Ends
  <2>1. {} \in SUBSET Lease
    OBVIOUS
  <2>2. QED
    BY <1>1, <1>4, <2>1, SettlesSound
<1>5. QED
  BY <1>3, <1>4 DEF Renews

\* release, once its first save has settled
LEMMA ReleasesSound ==
    ASSUME IInv, Releases
    PROVE  IInv'
<1>1. /\ Settles /\ Told({step.who})
      /\ Sound(pool) /\ pool \in Pool /\ Reserved(pool) /\ renewals' \in Nat
      /\ noticed \in SUBSET Lease
  BY DEF Releases, IInv, TypeOK, Sound
<1>2. ASSUME NEW l, GoesOn(Removed(pool, l), Successors(pool, l)),
             noticed' = {n \in noticed : n.owner # l.owner} \cup Successors(pool, l)
      PROVE  IInv'
  <2>1. Sound(Removed(pool, l)) /\ Successors(pool, l) \in SUBSET Lease
    BY <1>1, RemovedSound
  <2>2. noticed' \in SUBSET Lease
    BY <1>1, <1>2, <2>1
  <2>3. QED
    BY <1>1, <1>2, <2>1, <2>2, SettlesSound
<1>3. ASSUME Ends, UNCHANGED noticed PROVE IInv'
  <2>1. {} \in SUBSET Lease /\ noticed' \in SUBSET Lease
    BY <1>1, <1>3
  <2>2. QED
    BY <1>1, <1>3, <2>1, SettlesSound
<1>4. QED
  BY <1>2, <1>3 DEF Releases

\* configure, once its first save has settled
LEMMA ConfiguresSound ==
    ASSUME IInv, Configures
    PROVE  IInv'
<1> DEFINE c == step.capacity
           p == [pool EXCEPT !.capacity = c]
<1>1. /\ step.kind = "configure" /\ Settles /\ Told({}) /\ step \in Step
      /\ Sound(pool) /\ pool \in Pool /\ Reserved(pool) /\ renewals' \in Nat
      /\ noticed \in SUBSET Lease
  BY DEF Configures, IInv, TypeOK, Sound
<1>2. c \in Nat \ {0}
  BY <1>1, StepFields
<1>3. ASSUME \A l \in pool.leases : l.slot <= c,
             GoesOn(Refilled(p), Promoted(p)), Notify(Promoted(p))
      PROVE  IInv'
  <2>1. Sound(Refilled(p)) /\ Promoted(p) \in SUBSET Lease
    BY <1>1, <1>2, <1>3, ReconfiguredSound
  <2>2. noticed' \in SUBSET Lease
    BY <1>3, <2>1, Notified
  <2>3. QED
    BY <1>1, <1>3, <2>1, <2>2, SettlesSound
<1>4. ASSUME Ends, UNCHANGED noticed PROVE IInv'
  <2>1. {} \in SUBSET Lease /\ noticed' \in SUBSET Lease
    BY <1>1, <1>4
  <2>2. QED
    BY <1>1, <1>4, <2>1, SettlesSound
<1>5. QED
  BY <1>3, <1>4 DEF Configures

\* An operation with nothing more to do answers.
LEMMA AnswersSound ==
    ASSUME IInv, Answers
    PROVE  IInv'
<1>1. /\ Settles /\ Told({}) /\ Ends /\ Sound(pool) /\ {} \in SUBSET Lease
      /\ renewals' \in Nat /\ noticed' \in SUBSET Lease
  BY DEF Answers, IInv, TypeOK
<1>2. QED
  BY <1>1, SettlesSound

\* The file is as sound as the pool, so a restart finds a sound one.
LEMMA RestartSound ==
    ASSUME IInv, Restart
    PROVE  IInv'
<1>1. PICK found \in {file, pool, EmptyPool} :
        /\ file' = found /\ pool' = Swept(found)
        /\ dirty' = (Swept(found) # found)
        /\ granted' = Promoted(Expired(found))
        /\ Notify(Promoted(Expired(found)))
  BY DEF Restart
<1>2. Sound(found)
  BY <1>1, EmptySound DEF IInv
<1>3. found \in Pool /\ Reserved(found)
  BY <1>2 DEF Sound
<1>4. Sound(Swept(found)) /\ Promoted(Expired(found)) \in SUBSET Lease
  BY <1>3, SweptSound
<1>5. Swept(found) \in Pool
  BY <1>4 DEF Sound
<1>6. noticed' \in SUBSET Lease
  BY <1>1, <1>4, Notified
<1>7. /\ step' = Answer /\ Answer \in Step /\ writable' = TRUE
      /\ told' \in SUBSET Lease /\ renewals' \in Nat /\ crashes' \in Nat
  BY DEF Restart, IInv, TypeOK, Step
<1>8. dirty' \in BOOLEAN
  BY <1>1
<1>9. TypeOK'
  BY <1>1, <1>3, <1>4, <1>5, <1>6, <1>7, <1>8 DEF TypeOK
<1>10. Sound(pool)' /\ Sound(file)'
  BY <1>1, <1>2, <1>4 DEF Sound, Reserved, QueuesWhenFull, Queued, Free
<1>11. QED
  BY <1>9, <1>10 DEF IInv

\* Time passes.
LEMMA TickSound ==
    ASSUME IInv, Tick
    PROVE  IInv'
<1>1. /\ pool' = [pool EXCEPT !.leases = Older(pool.leases)]
      /\ file' = [file EXCEPT !.leases = Older(file.leases)]
      /\ granted' = Older(granted)
      /\ told' = Counting(told) /\ noticed' = Counting(noticed)
      /\ UNCHANGED <<step, dirty, writable, renewals, crashes>>
  BY DEF Tick
<1>2. /\ Sound([pool EXCEPT !.leases = Older(pool.leases)])
      /\ Sound([file EXCEPT !.leases = Older(file.leases)])
  BY OlderSound DEF IInv
<1>3. pool' \in Pool /\ file' \in Pool
  BY <1>1, <1>2 DEF Sound
<1>4. granted' \in SUBSET Lease /\ told' \in SUBSET Lease /\ noticed' \in SUBSET Lease
  BY <1>1, OlderType DEF IInv, TypeOK
<1>5. TypeOK'
  BY <1>1, <1>3, <1>4 DEF IInv, TypeOK
<1>6. Sound(pool)' /\ Sound(file)'
  BY <1>1, <1>2 DEF Sound, Reserved, QueuesWhenFull, Queued, Free
<1>7. QED
  BY <1>5, <1>6 DEF IInv

\* A rejected write changes nothing but the file, which it may leave empty.
LEMMA WriteFailsSound ==
    ASSUME IInv, WriteFails
    PROVE  IInv'
<1>1. /\ pool' = pool /\ file' \in {file, EmptyPool} /\ writable' = FALSE
      /\ step' = Idle /\ dirty' = FALSE /\ granted' = {}
      /\ told' = told /\ noticed' = noticed /\ renewals' = renewals
      /\ crashes' = crashes
  BY DEF WriteFails, Ends
<1>2. TypeOK'
  <2>1. file' \in Pool
    BY <1>1, EmptySound DEF IInv, TypeOK, Sound
  <2>2. Idle \in Step
    BY DEF Idle, Step
  <2>3. QED
    BY <1>1, <2>1, <2>2 DEF IInv, TypeOK
<1>3. Sound(pool)' /\ Sound(file)'
  BY <1>1, EmptySound DEF IInv, Sound, Reserved, QueuesWhenFull, Queued, Free
<1>4. QED
  BY <1>2, <1>3 DEF IInv

\* Every step keeps the invariant.
LEMMA NextSound == IInv /\ [Next]_vars => IInv'
<1>1. SUFFICES ASSUME IInv, [Next]_vars PROVE IInv'
  OBVIOUS
<1>2. ASSUME NEW s \in Sessions, NEW ttl \in Ttls, NEW waits \in BOOLEAN,
             Acquire(s, waits, ttl)
      PROVE  IInv'
  BY <1>1, <1>2, AcquireSound
<1>3. ASSUME NEW s \in Sessions, NEW ttl \in Ttls, Renew(s, ttl) PROVE IInv'
  <2>1. [kind |-> "renew", who |-> s, ttl |-> ttl] \in Step
    BY DEF Step
  <2>2. /\ ExpiresFirst([kind |-> "renew", who |-> s, ttl |-> ttl])
        /\ told' \in SUBSET Lease /\ renewals' \in Nat
    BY <1>1, <1>3 DEF Renew, IInv, TypeOK
  <2>3. QED
    BY <1>1, <2>1, <2>2, ExpiresFirstSound
<1>4. ASSUME NEW s \in Sessions, Release(s) PROVE IInv'
  <2>1. [kind |-> "release", who |-> s] \in Step
    BY DEF Step
  <2>2. /\ ExpiresFirst([kind |-> "release", who |-> s])
        /\ told' \in SUBSET Lease /\ renewals' \in Nat
    BY <1>1, <1>4 DEF Release, IInv, TypeOK
  <2>3. QED
    BY <1>1, <2>1, <2>2, ExpiresFirstSound
<1>5. ASSUME NEW s \in Sessions, Withdraw(s) PROVE IInv'
  BY <1>1, <1>5, WithdrawSound
<1>6. ASSUME NEW l \in pool.leases, ForceRelease(l) PROVE IInv'
  BY <1>1, <1>6, ForceReleaseSound
<1>7. ASSUME NEW c \in 1..MaxCapacity, Configure(c) PROVE IInv'
  <2>1. c \in Nat \ {0}
    BY LeaseBoundsAssumption
  <2>2. [kind |-> "configure", capacity |-> c] \in Step
    BY <2>1 DEF Step
  <2>3. /\ ExpiresFirst([kind |-> "configure", capacity |-> c])
        /\ told' \in SUBSET Lease /\ renewals' \in Nat
    BY <1>1, <1>7 DEF Configure, IInv, TypeOK
  <2>4. QED
    BY <1>1, <2>2, <2>3, ExpiresFirstSound
<1>8. CASE Begin
  BY <1>2, <1>3, <1>4, <1>5, <1>6, <1>7, <1>8 DEF Begin
<1>9. CASE Sweep
  <2>1. /\ ExpiresFirst(Answer) /\ Answer \in Step
        /\ told' \in SUBSET Lease /\ renewals' \in Nat
    BY <1>1, <1>9 DEF Sweep, IInv, TypeOK, Step
  <2>2. QED
    BY <1>1, <2>1, ExpiresFirstSound
<1>10. CASE Proceed
  BY <1>1, <1>10, AnswersSound, RenewsSound, ReleasesSound, ConfiguresSound DEF Proceed
<1>11. CASE WriteFails
  BY <1>1, <1>11, WriteFailsSound
<1>12. CASE Tick
  BY <1>1, <1>12, TickSound
<1>13. CASE Restart
  BY <1>1, <1>13, RestartSound
<1>14. CASE UNCHANGED vars
  BY <1>1, <1>14
     DEF vars, IInv, TypeOK, Sound, Reserved, QueuesWhenFull, Queued, Free
<1>15. QED
  BY <1>1, <1>8, <1>9, <1>10, <1>11, <1>12, <1>13, <1>14 DEF Next

\* The invariant holds throughout.
LEMMA InvariantHolds == Spec => []IInv
  BY InitSound, NextSound, PTL DEF Spec

-----------------------------------------------------------------------------
\* Every value has its type in every reachable state, the fields that the
\* continuation of an operation reads included.
THEOREM TypeCorrect == Spec => []TypeOK
<1>1. IInv => TypeOK
  BY DEF IInv
<1>2. QED
  BY <1>1, InvariantHolds, PTL

\* One reservation per session and per slot, through any interleaving of
\* operations, time, failing and torn writes, and restarts.
THEOREM OneReservationHolds == Spec => []OneReservation
<1>1. IInv => OneReservation
  BY DEF IInv, Sound, OneReservation
<1>2. QED
  BY <1>1, InvariantHolds, PTL

\* No slot is free while a session waits (promoteWaiters), in memory and in the
\* file, however the capacity changes.
THEOREM NoIdleSlotHolds == Spec => []NoIdleSlot
<1>1. IInv => NoIdleSlot
  BY DEF IInv, Sound, NoIdleSlot
<1>2. QED
  BY <1>1, InvariantHolds, PTL

-----------------------------------------------------------------------------
(***************************************************************************)
(* What promoteWaiters does to the queue.                                  *)
(***************************************************************************)
\* The first waiters, as many as slots are filled, each get one.
LEMMA FirstServed ==
    ASSUME NEW p \in Pool, NEW k \in 1..Cardinality(Filled(p))
    PROVE  \E l \in Promoted(p) : l.owner = p.waiters[k].session
<1> DEFINE D == Filled(p)
           n == Cardinality(D)
           rank == [f \in D |-> Rank(p, f)]
<1>1. n \in Nat /\ \A f \in D : Rank(p, f) \in 1..n
  BY FilledSlots DEF Pool
<1>2. \A f, g \in D : Rank(p, f) = Rank(p, g) => f = g
  <2>1. /\ \A f \in D : f \in Free(p) /\ f \in Nat /\ Rank(p, f) \in Nat
        /\ \A f, g \in Free(p) : f < g => Rank(p, f) < Rank(p, g)
    <3>1. \A f, g \in Free(p) : f < g => Rank(p, f) < Rank(p, g)
      BY Ranks
    <3>2. \A f \in D : f \in Free(p) /\ f \in Nat
      BY DEF Filled, Free, Pool
    <3>3. QED
      BY <1>1, <3>1, <3>2
  <2> HIDE DEF D
  <2>2. SUFFICES ASSUME NEW f \in D, NEW g \in D, Rank(p, f) = Rank(p, g), f # g PROVE FALSE
    OBVIOUS
  <2>3. f < g \/ g < f
    BY <2>1, <2>2
  <2>4. QED
    BY <2>1, <2>2, <2>3
<1>3. rank \in Injection(D, 1..n)
  BY <1>1, <1>2 DEF Injection, IsInjective
<1>4. IsFiniteSet(1..n) /\ Cardinality(1..n) = n
  <2>1. n \in Int /\ 1 \in Int /\ (IF 1 > n THEN 0 ELSE n - 1 + 1) = n
    BY <1>1
  <2>2. QED
    BY <2>1, FS_Interval
<1>5. rank \in Surjection(D, 1..n)
  BY <1>3, <1>4, FS_Injection
<1>6. PICK f \in D : rank[f] = k
  BY <1>5 DEF Surjection
<1>7. Rank(p, f) = k
  BY <1>6
<1>8. [slot |-> f, owner |-> p.waiters[k].session, left |-> p.waiters[k].ttl] \in Promoted(p)
  BY <1>7 DEF Promoted
<1>9. QED
  BY <1>8

\* What p becomes in q is fair to its queue: nobody is passed over ...
Fifo(p, q) ==
    \A l \in q.leases : Held(p, l.owner) = {} =>
        \A i \in DOMAIN p.waiters :
            p.waiters[i].session \in Queued(q) =>
                \E j \in 1..i - 1 : p.waiters[j].session = l.owner

\* ... and nobody is dropped.
Serves(p, q) == \A s \in Queued(p) : s \in Queued(q) \/ Held(q, s) # {}

\* promoteWaiters on p, which has the queue of `before` and leases of its owners only.
LEMMA RefilledFair ==
    ASSUME NEW p \in Pool, Reserved(p), NEW before,
           before.waiters = p.waiters,
           \A l \in p.leases : Held(before, l.owner) # {}
    PROVE  /\ Refilled(p).leases = p.leases \cup Promoted(p)
           /\ Fifo(before, Refilled(p)) /\ Serves(before, Refilled(p))
<1> DEFINE q == Refilled(p)
           n == Cardinality(Filled(p))
           W == p.waiters
           rest == SubSeq(W, n + 1, Len(W))
<1>1. W \in Seq(Waiter) /\ Len(W) \in Nat /\ DOMAIN W = 1..Len(W)
  BY DEF Pool
<1>2. n \in 0..Len(W) /\ n \in Nat
  BY <1>1, FilledSlots
<1>3. q.leases = p.leases \cup Promoted(p) /\ q.waiters = rest
  <2>1. /\ q = [[p EXCEPT !.leases = p.leases \cup Promoted(p)] EXCEPT !.waiters = rest]
        /\ p = [capacity |-> p.capacity, leases |-> p.leases, waiters |-> p.waiters]
    BY DEF Refilled, Pool
  <2> HIDE DEF rest, q
  <2>2. QED
    BY <2>1
<1>4. /\ rest \in Seq(Waiter) /\ Len(rest) = Len(W) - n
      /\ \A j \in 1..Len(W) - n : n + j \in 1..Len(W) /\ rest[j] = W[n + j]
  BY <1>1, <1>2, RestOfQueue
<1>5. DOMAIN rest = 1..Len(W) - n
  BY <1>1, <1>4
<1> HIDE DEF q, n, W, rest
<1>6. \A i, j \in DOMAIN W : W[i].session = W[j].session => i = j
  BY DEF Reserved, W
<1>7. ASSUME NEW i \in DOMAIN W
      PROVE  W[i].session \in Queued(q) <=> i > n
  <2>1. ASSUME W[i].session \in Queued(q) PROVE i > n
    <3>1. PICK j \in DOMAIN rest : rest[j].session = W[i].session
      BY <1>3, <2>1 DEF Queued
    <3>2. n + j \in DOMAIN W /\ W[n + j].session = W[i].session /\ j \in Nat /\ j > 0
      BY <1>1, <1>2, <1>4, <1>5, <3>1
    <3>3. i = n + j
      BY <1>6, <3>2
    <3>4. QED
      BY <1>2, <3>2, <3>3
  <2>2. ASSUME i > n PROVE W[i].session \in Queued(q)
    <3>1. i - n \in DOMAIN rest /\ n + (i - n) = i
      BY <1>1, <1>2, <1>5, <2>2
    <3>2. rest[i - n].session = W[i].session
      BY <1>4, <1>5, <3>1
    <3>3. QED
      BY <1>3, <3>1, <3>2 DEF Queued
  <2>3. QED
    BY <2>1, <2>2
<1>8. Fifo(before, q)
  <2>1. SUFFICES ASSUME NEW l \in q.leases, Held(before, l.owner) = {},
                        NEW i \in DOMAIN W, W[i].session \in Queued(q)
                 PROVE  \E j \in 1..i - 1 : W[j].session = l.owner
    BY DEF Fifo, W
  <2>2. l \in Promoted(p)
    BY <1>3, <2>1
  <2>3. Rank(p, l.slot) \in 1..n /\ l.owner = W[Rank(p, l.slot)].session
    BY <2>2, PromotedLeases DEF W, n
  <2>4. i > n /\ i \in Nat
    BY <1>1, <1>7, <2>1
  <2>5. Rank(p, l.slot) \in 1..i - 1
    BY <1>2, <2>3, <2>4
  <2>6. QED
    BY <2>3, <2>5
<1>9. Serves(before, q)
  <2>1. SUFFICES ASSUME NEW s \in Queued(before), s \notin Queued(q)
                 PROVE  Held(q, s) # {}
    BY DEF Serves
  <2>2. PICK i \in DOMAIN W : W[i].session = s
    BY <2>1 DEF Queued, W
  <2>3. i \in 1..n
    BY <1>1, <1>2, <1>7, <2>1, <2>2
  <2>4. PICK l \in Promoted(p) : l.owner = s
    BY <2>2, <2>3, FirstServed DEF n, W
  <2>5. QED
    BY <1>3, <2>4 DEF Held
<1>10. QED
  BY <1>3, <1>8, <1>9 DEF q

\* expireDueLeases is fair to the queue, and drops no lease that has time left.
LEMMA SweptFair ==
    ASSUME NEW p \in Pool, Reserved(p)
    PROVE  /\ Swept(p).leases = {l \in p.leases : l.left > 0} \cup Promoted(Expired(p))
           /\ Fifo(p, Swept(p)) /\ Serves(p, Swept(p))
<1> DEFINE L == {l \in p.leases : l.left > 0}
<1>1. Expired(p) = [p EXCEPT !.leases = L] /\ L \in SUBSET p.leases
  BY DEF Expired
<1>2. Expired(p) \in Pool /\ Reserved(Expired(p))
  BY <1>1, ShrunkReserved
<1>3. Expired(p).leases = L /\ Expired(p).waiters = p.waiters
  BY <1>1, PoolFields
<1>4. \A l \in Expired(p).leases : Held(p, l.owner) # {}
  BY <1>3 DEF Held
<1>5. QED
  BY <1>2, <1>3, <1>4, RefilledFair DEF Swept

\* So is taking a lease away, which drops no other one.
LEMMA RemovedFair ==
    ASSUME NEW p \in Pool, Reserved(p), NEW l
    PROVE  /\ Removed(p, l).leases = (p.leases \ {l}) \cup Successors(p, l)
           /\ Fifo(p, Removed(p, l)) /\ Serves(p, Removed(p, l))
<1> DEFINE q == [p EXCEPT !.leases = p.leases \ {l}]
<1>1. q \in Pool /\ Reserved(q)
  <2>1. p.leases \ {l} \in SUBSET p.leases
    OBVIOUS
  <2>2. QED
    BY <2>1, ShrunkReserved
<1>2. q.leases = p.leases \ {l} /\ q.waiters = p.waiters
  BY PoolFields
<1> HIDE DEF q
<1>3. \A m \in q.leases : Held(p, m.owner) # {}
  BY <1>2 DEF Held
<1>4. Refilled(q) = Removed(p, l) /\ Promoted(q) = Successors(p, l)
  BY DEF Removed, Successors, q
<1>5. QED
  BY <1>1, <1>2, <1>3, <1>4, RefilledFair

\* A pool whose leases keep their owners and whose queue stays is fair.
LEMMA SameFair ==
    ASSUME NEW p, NEW q, q.waiters = p.waiters,
           \A l \in q.leases : Held(p, l.owner) # {}
    PROVE  Fifo(p, q) /\ Serves(p, q)
BY DEF Fifo, Serves, Queued

\* A newcomer is given a slot only when nobody waits, and waits behind the others.
LEMMA AcquireFair ==
    ASSUME IInv, NEW s \in Sessions, NEW waits \in BOOLEAN, NEW ttl \in Ttls,
           Acquire(s, waits, ttl)
    PROVE  Fifo(pool, pool') /\ Serves(pool, pool')
<1> DEFINE p == Swept(pool)
           w == [session |-> s, ttl |-> ttl]
<1>1. /\ Sound(p) /\ p \in Pool /\ Fifo(pool, p) /\ Serves(pool, p) /\ QueuesWhenFull(p)
      /\ pool.waiters \in Seq(Waiter)
  BY Sweeping, SweptFair, PoolFields DEF IInv, Sound
<1> HIDE DEF p
<1>2. CASE pool' = p
  BY <1>1, <1>2
<1>3. ASSUME Held(p, s) = {}, NEW lease \in Given(p, s, ttl),
             pool' = [p EXCEPT !.leases = p.leases \cup {lease}]
      PROVE  Fifo(pool, pool') /\ Serves(pool, pool')
  <2>1. pool'.leases = p.leases \cup {lease} /\ pool'.waiters = p.waiters
    BY <1>1, <1>3, PoolFields
  <2>2. p.waiters = <<>>
    BY <1>1, <1>3 DEF Given, QueuesWhenFull
  <2>3. Queued(pool') = {} /\ Queued(p) = {}
    BY <2>1, <2>2 DEF Queued
  <2>4. \A r : Held(p, r) # {} => Held(pool', r) # {}
    BY <2>1 DEF Held
  <2>5. QED
    BY <1>1, <2>3, <2>4 DEF Fifo, Serves
<1>4. ASSUME Held(p, s) = {}, Free(p) = {},
             pool' = [p EXCEPT !.waiters = IF s \in Queued(p) THEN p.waiters
                                           ELSE Append(p.waiters, w)]
      PROVE  Fifo(pool, pool') /\ Serves(pool, pool')
  <2>1. CASE s \in Queued(p)
    <3>1. pool' = p
      BY <1>1, <1>4, <2>1, PoolFields DEF Pool
    <3>2. QED
      BY <1>1, <3>1
  <2>2. CASE s \notin Queued(p)
    <3>1. pool'.leases = p.leases /\ pool'.waiters = Append(p.waiters, w)
      BY <1>1, <1>4, <2>2, PoolFields
    <3>2. p.waiters \in Seq(Waiter) /\ w \in Waiter
      BY <1>1, PoolFields DEF Waiter
    <3>3. Queued(pool') = Queued(p) \cup {s}
      <4>1. w.session = s
        OBVIOUS
      <4> HIDE DEF w
      <4>2. /\ DOMAIN p.waiters = 1..Len(p.waiters) /\ Len(p.waiters) \in Nat
            /\ DOMAIN Append(p.waiters, w) = 1..Len(p.waiters) + 1
            /\ \A i \in 1..Len(p.waiters) : Append(p.waiters, w)[i] = p.waiters[i]
            /\ Append(p.waiters, w)[Len(p.waiters) + 1] = w
        BY <3>2
      <4>3. /\ \A i \in DOMAIN pool'.waiters : i \in DOMAIN p.waiters \/ i = Len(p.waiters) + 1
            /\ \A i \in DOMAIN p.waiters : i \in DOMAIN pool'.waiters
            /\ Len(p.waiters) + 1 \in DOMAIN pool'.waiters
        BY <3>1, <4>2
      <4>4. QED
        BY <3>1, <4>1, <4>2, <4>3 DEF Queued
    <3>4. s \notin Queued(pool)
      BY <1>1, <1>4, <2>2 DEF Serves
    <3>5. \A i \in DOMAIN pool.waiters : pool.waiters[i].session # s
      BY <3>4 DEF Queued
    <3>6. Fifo(pool, pool')
      BY <1>1, <3>1, <3>3, <3>5 DEF Fifo
    <3>7. Serves(pool, pool')
      BY <1>1, <3>1, <3>3 DEF Serves, Held
    <3>8. QED
      BY <3>6, <3>7
  <2>3. QED
    BY <2>1, <2>2
<1>5. QED
  BY <1>2, <1>3, <1>4 DEF Acquire, Begins, p

\* A withdrawal takes nobody else out of the queue.
LEMMA WithdrawFair ==
    ASSUME IInv, NEW s \in Sessions, Withdraw(s)
    PROVE  /\ Fifo(pool, pool')
           /\ \A r \in Queued(pool) : r # s => r \in Queued(pool')
<1> DEFINE W == pool.waiters
           I == {i \in DOMAIN W : W[i].session # s}
<1>1. PICK rest \in Filtered(W, I) : pool' = [pool EXCEPT !.waiters = rest]
  BY DEF Withdraw, Begins
<1>2. pool'.leases = pool.leases /\ pool'.waiters = rest /\ W \in Seq(Waiter)
  BY <1>1, PoolFields DEF IInv, TypeOK
<1>3. Fifo(pool, pool')
  BY <1>2 DEF Fifo, Held
<1>4. IsFiniteSet(I) /\ Cardinality(I) \in Nat
  <2>1. IsFiniteSet(1..Len(W)) /\ DOMAIN W = 1..Len(W)
    <3>1. Len(W) \in Int /\ 1 \in Int /\ DOMAIN W = 1..Len(W)
      BY <1>2
    <3>2. QED
      BY <3>1, FS_Interval
  <2>2. I \in SUBSET (1..Len(W))
    BY <2>1
  <2> HIDE DEF I, W
  <2>3. QED
    BY <2>1, <2>2, FS_Subset, FS_CardinalityType
<1>5. PICK f \in [1..Cardinality(I) -> I] :
        /\ \A a, b \in 1..Cardinality(I) : a < b => f[a] < f[b]
        /\ rest = [j \in 1..Cardinality(I) |-> W[f[j]]]
  BY <1>1 DEF Filtered
<1>6. \A i \in I : i \in Nat /\ i \in DOMAIN W
  BY <1>2
<1>7. ASSUME NEW r \in Queued(pool), r # s PROVE r \in Queued(pool')
  <2>1. PICK i \in DOMAIN W : W[i].session = r
    BY DEF Queued
  <2>2. i \in I
    BY <1>7, <2>1
  <2> HIDE DEF I, W
  <2>3. f \in Injection(1..Cardinality(I), I)
    <3>1. ASSUME NEW a \in 1..Cardinality(I), NEW b \in 1..Cardinality(I), f[a] = f[b]
          PROVE  a = b
      <4>1. f[a] \in Nat /\ f[b] \in Nat /\ (a < b \/ b < a \/ a = b)
        BY <1>4, <1>5, <1>6
      <4>2. QED
        BY <1>5, <3>1, <4>1
    <3>2. QED
      BY <1>5, <3>1 DEF Injection, IsInjective
  <2>4. Cardinality(1..Cardinality(I)) = Cardinality(I)
    <3>1. /\ Cardinality(I) \in Int /\ 1 \in Int
          /\ (IF 1 > Cardinality(I) THEN 0 ELSE Cardinality(I) - 1 + 1) = Cardinality(I)
      BY <1>4
    <3>2. QED
      BY <3>1, FS_Interval
  <2>5. f \in Surjection(1..Cardinality(I), I)
    BY <1>4, <2>3, <2>4, FS_Injection
  <2>6. PICK j \in 1..Cardinality(I) : f[j] = i
    BY <2>2, <2>5 DEF Surjection
  <2>7. j \in DOMAIN rest /\ rest[j].session = r
    BY <1>5, <2>1, <2>6
  <2>8. QED
    BY <1>2, <2>7 DEF Queued
<1>8. QED
  BY <1>3, <1>7

\* What the operations do to the queue after their save.
LEMMA ProceedFair ==
    ASSUME IInv, Proceed
    PROVE  Fifo(pool, pool') /\ Serves(pool, pool')
<1>1. pool \in Pool /\ Reserved(pool) /\ step \in Step
  BY DEF IInv, TypeOK, Sound
<1>2. CASE pool' = pool
  BY <1>2, SameFair DEF Held
<1>3. ASSUME NEW l \in Held(pool, step.who), NEW renewed, renewed.owner = l.owner,
             pool' = [pool EXCEPT !.leases = (pool.leases \ {l}) \cup {renewed}]
      PROVE  Fifo(pool, pool') /\ Serves(pool, pool')
  <2>1. pool'.leases = (pool.leases \ {l}) \cup {renewed} /\ pool'.waiters = pool.waiters
    BY <1>1, <1>3, PoolFields
  <2>2. l \in Held(pool, l.owner)
    BY DEF Held
  <2>3. \A m \in pool'.leases : Held(pool, m.owner) # {}
    BY <1>3, <2>1, <2>2 DEF Held
  <2>4. QED
    BY <2>1, <2>3, SameFair
<1>4. ASSUME NEW l, pool' = Removed(pool, l)
      PROVE  Fifo(pool, pool') /\ Serves(pool, pool')
  BY <1>1, <1>4, RemovedFair
<1>5. ASSUME step.kind = "configure", \A l \in pool.leases : l.slot <= step.capacity,
             pool' = Refilled([pool EXCEPT !.capacity = step.capacity])
      PROVE  Fifo(pool, pool') /\ Serves(pool, pool')
  <2> DEFINE p == [pool EXCEPT !.capacity = step.capacity]
  <2>1. step.capacity \in Nat \ {0}
    BY <1>1, <1>5, StepFields
  <2>2. p = [capacity |-> step.capacity, leases |-> pool.leases, waiters |-> pool.waiters]
    BY <1>1, PoolFields
  <2>3. p \in Pool /\ p.leases = pool.leases /\ p.waiters = pool.waiters
        /\ p.capacity = step.capacity
    BY <1>1, <2>1, <2>2 DEF Pool
  <2> HIDE DEF p
  <2>4. Reserved(p)
    BY <1>1, <1>5, <2>3 DEF Reserved, Queued
  <2>5. \A m \in p.leases : Held(pool, m.owner) # {}
    BY <2>3 DEF Held
  <2>6. QED
    BY <1>5, <2>3, <2>4, <2>5, RefilledFair DEF p
<1>6. CASE Renews
  <2>1. CASE Ends
    BY <1>2, <2>1 DEF Ends
  <2>2. ASSUME NEW l \in Held(pool, step.who),
               LET renewed == [l EXCEPT !.left = step.ttl]
               IN  GoesOn([pool EXCEPT !.leases = (@ \ {l}) \cup {renewed}], {renewed})
        PROVE  Fifo(pool, pool') /\ Serves(pool, pool')
    <3>1. pool' = [pool EXCEPT !.leases = (pool.leases \ {l}) \cup {[l EXCEPT !.left = step.ttl]}]
      BY <2>2 DEF GoesOn
    <3>2. [l EXCEPT !.left = step.ttl].owner = l.owner
      BY <1>1, PoolFields DEF Held, Lease
    <3>3. QED
      BY <1>3, <3>1, <3>2
  <2>3. QED
    BY <1>6, <2>1, <2>2 DEF Renews
<1>7. CASE Releases
  BY <1>2, <1>4, <1>7 DEF Releases, GoesOn, Ends
<1>8. CASE Configures
  BY <1>2, <1>5, <1>8 DEF Configures, GoesOn, Ends
<1>9. CASE Answers
  BY <1>2, <1>9 DEF Answers, Ends
<1>10. QED
  BY <1>6, <1>7, <1>8, <1>9 DEF Proceed

\* Every step that is no restart is fair to the queue.
LEMMA NextFair ==
    ASSUME IInv, [Next]_vars, crashes' = crashes
    PROVE  /\ Fifo(pool, pool')
           /\ \A s \in Queued(pool) :
                 s \in Queued(pool') \/ Held(pool', s) # {} \/ Withdraw(s)
<1>1. pool \in Pool /\ Reserved(pool) /\ Fifo(pool, Swept(pool)) /\ Serves(pool, Swept(pool))
  BY SweptFair DEF IInv, TypeOK, Sound
<1>2. SUFFICES \/ Fifo(pool, pool') /\ Serves(pool, pool')
               \/ \E s \in Sessions : Withdraw(s)
  BY WithdrawFair DEF Serves
<1>3. ASSUME NEW s \in Sessions, NEW ttl \in Ttls, NEW waits \in BOOLEAN,
             Acquire(s, waits, ttl)
      PROVE  Fifo(pool, pool') /\ Serves(pool, pool')
  BY <1>3, AcquireFair
<1>4. ASSUME NEW next, ExpiresFirst(next) PROVE Fifo(pool, pool') /\ Serves(pool, pool')
  BY <1>1, <1>4 DEF ExpiresFirst, Begins
<1>5. ASSUME NEW l \in pool.leases, ForceRelease(l)
      PROVE  Fifo(pool, pool') /\ Serves(pool, pool')
  BY <1>1, <1>5, RemovedFair DEF ForceRelease, Begins
<1>6. CASE Begin
  BY <1>3, <1>4, <1>5, <1>6 DEF Begin, Renew, Release, Configure
<1>7. CASE Sweep
  BY <1>4, <1>7 DEF Sweep
<1>8. CASE Proceed
  BY <1>8, ProceedFair
<1>9. CASE Tick
  <2>1. pool' = [pool EXCEPT !.leases = Older(pool.leases)]
    BY <1>9 DEF Tick
  <2>2. pool'.leases = Older(pool.leases) /\ pool'.waiters = pool.waiters
    BY <1>1, <2>1, PoolFields
  <2>3. ASSUME NEW m \in Older(pool.leases) PROVE Held(pool, m.owner) # {}
    <3>1. PICK l \in pool.leases : m = [l EXCEPT !.left = IF @ = 0 THEN 0 ELSE @ - 1]
      BY <2>3 DEF Older
    <3>2. m.owner = l.owner
      BY <1>1, <3>1, PoolFields DEF Lease
    <3>3. QED
      BY <3>2 DEF Held
  <2>4. QED
    BY <2>2, <2>3, SameFair
<1>10. CASE UNCHANGED pool
  BY <1>10, SameFair DEF Held
<1>11. CASE Restart
  <2>1. crashes' = crashes + 1 /\ crashes \in Nat
    BY <1>11 DEF Restart, IInv, TypeOK
  <2>2. QED
    BY <2>1
<1>12. QED
  BY <1>6, <1>7, <1>8, <1>9, <1>10, <1>11 DEF Next, WriteFails, Ends, vars

\* FifoHolds: whoever gets a lease while another session goes on waiting stood
\* before it in the queue, through expiry, renewals, forced releases and changes
\* of the capacity (promoteWaiters, "Newcomers cannot bypass it").
THEOREM FifoHolds == Spec => FifoGrants
<1>1. IInv /\ [Next]_vars =>
        [crashes' = crashes =>
           \A l \in pool'.leases : Held(pool, l.owner) = {} =>
             \A i \in DOMAIN pool.waiters :
               pool.waiters[i].session \in Queued(pool') =>
                 \E j \in 1..i - 1 : pool.waiters[j].session = l.owner]_vars
  BY NextFair DEF Fifo
<1>2. QED
  BY <1>1, InvariantHolds, PTL DEF Spec, FifoGrants

\* NobodyDropped: a session leaves the queue with a lease or by withdrawing, unless
\* the server restarts (the action part of Served).
THEOREM NobodyDropped ==
    Spec => [][\A s \in Queued(pool) :
                  \/ s \in Queued(pool') \/ Held(pool', s) # {}
                  \/ Withdraw(s) \/ crashes' # crashes]_vars
<1>1. IInv /\ [Next]_vars =>
        [\A s \in Queued(pool) :
            \/ s \in Queued(pool') \/ Held(pool', s) # {}
            \/ Withdraw(s) \/ crashes' # crashes]_vars
  BY NextFair
<1>2. QED
  BY <1>1, InvariantHolds, PTL DEF Spec

-----------------------------------------------------------------------------
(***************************************************************************)
(* Answers survive restarts, where every write of the file completes.      *)
(***************************************************************************)
\* Some lease of L gives what l promises, for at least as long.
Covers(L, l) == \E m \in L : m.slot = l.slot /\ m.owner = l.owner /\ m.left >= l.left

\* Whatever a caller counts on is both in memory and in the file, whichever of the
\* two a restart finds; a lease just given is in memory until its save has settled;
\* and with no save to wait for, memory and file agree.
Durable ==
    /\ writable
    /\ (step = Idle => ~dirty) /\ (~dirty => file = pool)
    /\ granted \in SUBSET pool.leases
    /\ \A l \in told : /\ l.left > 0
                       /\ Covers(pool.leases, l) /\ Covers(file.leases, l)

DInv == IInv /\ Durable

\* A pool that keeps the leases with time left keeps covering what it covered.
LEMMA CoversMore ==
    ASSUME NEW K \in SUBSET Lease, NEW L, NEW l \in Lease, l.left > 0, Covers(K, l),
           \A m \in K : m.left > 0 /\ m.owner = l.owner => m \in L
    PROVE  Covers(L, l)
<1>1. PICK m \in K : m.slot = l.slot /\ m.owner = l.owner /\ m.left >= l.left
  BY DEF Covers
<1>2. m.left > 0
  <2>1. m.left \in Nat /\ l.left \in Nat
    BY DEF Lease
  <2>2. QED
    BY <1>1, <2>1
<1>3. QED
  BY <1>1, <1>2 DEF Covers

\* An operation begins: what callers counted on stays in the pool, and the file waits.
LEMMA BeginsDurable ==
    ASSUME DInv, NEW p, NEW next, NEW given, NEW changed \in BOOLEAN,
           Begins(p, next, given, changed), next # Idle, ~changed => p = pool,
           given \in SUBSET p.leases, told' \in SUBSET told,
           \A t \in told' : \A m \in pool.leases : m.left > 0 /\ m.owner = t.owner => m \in p.leases
    PROVE  Durable'
<1>1. /\ pool' = p /\ step' = next /\ granted' = given /\ dirty' = changed
      /\ file' = file /\ writable' = writable /\ step = Idle
  BY DEF Begins
<1>2. /\ writable /\ ~dirty /\ file = pool
      /\ \A l \in told : l.left > 0 /\ Covers(pool.leases, l) /\ Covers(file.leases, l)
      /\ told \in SUBSET Lease /\ pool.leases \in SUBSET Lease
  BY <1>1, PoolFields DEF DInv, Durable, IInv, TypeOK
<1>3. \A l \in told' : l.left > 0 /\ Covers(p.leases, l) /\ Covers(file.leases, l)
  BY <1>2, CoversMore
<1>4. writable'
  BY <1>1, <1>2
<1>5. (step' = Idle => ~dirty') /\ (~dirty' => file' = pool')
  BY <1>1, <1>2
<1>6. QED
  BY <1>1, <1>3, <1>4, <1>5 DEF Durable

\* What a save that settles leaves in the file, and what it lets callers know.
LEMMA SettlesDurable ==
    ASSUME DInv, Settles, NEW gone, Told(gone)
    PROVE  /\ file' = pool /\ writable' = writable
           /\ \A l \in told' : /\ l \in Lease /\ l.left > 0 /\ l.owner \notin gone
                               /\ Covers(pool.leases, l)
<1>1. /\ (~dirty => file = pool) /\ dirty \in BOOLEAN /\ granted \in SUBSET pool.leases
      /\ told \in SUBSET Lease /\ pool.leases \in SUBSET Lease
      /\ \A l \in told : l.left > 0 /\ Covers(pool.leases, l)
  BY PoolFields DEF DInv, Durable, IInv, TypeOK
<1>2. file' = pool /\ writable' = writable
  BY <1>1 DEF Settles
<1>3. ASSUME NEW l \in told'
      PROVE  l \in Lease /\ l.left > 0 /\ l.owner \notin gone /\ Covers(pool.leases, l)
  <2>1. CASE l \in told /\ l.owner \notin gone
    BY <1>1, <2>1
  <2>2. CASE l \in granted /\ l.left > 0 /\ l.owner \notin gone
    <3>1. l \in pool.leases /\ l \in Lease
      BY <1>1, <2>2
    <3>2. l.left >= l.left
      BY <3>1 DEF Lease
    <3>3. QED
      BY <2>2, <3>1, <3>2 DEF Covers
  <2>3. QED
    BY <2>1, <2>2 DEF Told
<1>4. QED
  BY <1>2, <1>3

\* An operation goes on after its save: what callers count on by now is in the file,
\* and stays in the pool.
LEMMA GoesOnDurable ==
    ASSUME DInv, Settles, NEW gone, Told(gone), NEW p, NEW given, GoesOn(p, given),
           given \in SUBSET p.leases,
           \A m \in pool.leases : m.owner \notin gone => m \in p.leases
    PROVE  Durable'
<1>1. pool' = p /\ granted' = given /\ dirty' = TRUE /\ step' = Answer
  BY DEF GoesOn
<1>2. /\ file' = pool /\ writable' = writable /\ writable /\ pool.leases \in SUBSET Lease
      /\ \A l \in told' : /\ l \in Lease /\ l.left > 0 /\ l.owner \notin gone
                          /\ Covers(pool.leases, l)
  BY SettlesDurable, PoolFields DEF DInv, Durable, IInv, TypeOK
<1>3. \A l \in told' : Covers(p.leases, l)
  BY <1>2, CoversMore
<1>4. Answer # Idle
  BY DEF Answer, Idle
<1>5. writable'
  BY <1>2
<1>6. (step' = Idle => ~dirty') /\ (~dirty' => file' = pool')
  BY <1>1, <1>4
<1>7. QED
  BY <1>1, <1>2, <1>3, <1>5, <1>6 DEF Durable

\* An operation ends after its save.
LEMMA EndsDurable ==
    ASSUME DInv, Settles, NEW gone, Told(gone), Ends
    PROVE  Durable'
<1>1. pool' = pool /\ granted' = {} /\ dirty' = FALSE /\ step' = Idle
  BY DEF Ends
<1>2. /\ file' = pool /\ writable' = writable /\ writable
      /\ \A l \in told' : l.left > 0 /\ Covers(pool.leases, l)
  BY SettlesDurable DEF DInv, Durable
<1>3. writable'
  BY <1>2
<1>4. (step' = Idle => ~dirty') /\ (~dirty' => file' = pool')
  BY <1>1, <1>2
<1>5. QED
  BY <1>1, <1>2, <1>3, <1>4 DEF Durable

\* acquire and wait.
LEMMA AcquireDurable ==
    ASSUME DInv, NEW s \in Sessions, NEW waits \in BOOLEAN, NEW ttl \in Ttls,
           Acquire(s, waits, ttl)
    PROVE  Durable'
<1> DEFINE p == Swept(pool)
           promoted == Promoted(Expired(pool))
<1>1. /\ p \in Pool /\ p.leases = {l \in pool.leases : l.left > 0} \cup promoted
      /\ Answer # Idle /\ told' = told /\ TRUE \in BOOLEAN
  BY Sweeping, SweptFair DEF DInv, IInv, Sound, TypeOK, Answer, Idle, Acquire
<1> HIDE DEF p, promoted
<1>2. \A m \in pool.leases : m.left > 0 => m \in p.leases
  BY <1>1
<1>3. promoted \in SUBSET p.leases /\ Held(p, s) \in SUBSET p.leases
  BY <1>1 DEF Held
<1>4. ASSUME NEW given \in SUBSET p.leases, Begins(p, Answer, given, p # pool)
      PROVE  Durable'
  <2>1. (p # pool) \in BOOLEAN /\ (~(p # pool) => p = pool)
    OBVIOUS
  <2>2. QED
    BY <1>1, <1>2, <1>4, <2>1, BeginsDurable
<1>5. ASSUME NEW q, q.leases \in SUBSET Lease, NEW given \in SUBSET q.leases,
             p.leases \in SUBSET q.leases, Begins(q, Answer, given, TRUE)
      PROVE  Durable'
  BY <1>1, <1>2, <1>5, BeginsDurable
<1>6. ASSUME NEW lease \in Given(p, s, ttl), Held(p, s) = {},
             Begins([p EXCEPT !.leases = p.leases \cup {lease}], Answer,
                    promoted \cup {lease}, TRUE)
      PROVE  Durable'
  <2>1. [p EXCEPT !.leases = p.leases \cup {lease}].leases = p.leases \cup {lease}
    BY <1>1, PoolFields
  <2>2. lease \in Lease /\ p.leases \in SUBSET Lease
    BY <1>1, <1>6, Sweeping, GivenSound, PoolFields DEF DInv, p
  <2>3. QED
    BY <1>3, <1>5, <1>6, <2>1, <2>2
<1>7. ASSUME NEW queue, Begins([p EXCEPT !.waiters = queue], Answer, promoted, TRUE)
      PROVE  Durable'
  <2>1. [p EXCEPT !.waiters = queue].leases = p.leases /\ p.leases \in SUBSET Lease
    BY <1>1, PoolFields
  <2>2. QED
    BY <1>3, <1>5, <1>7, <2>1
<1>8. QED
  BY <1>3, <1>4, <1>6, <1>7 DEF Acquire, p, promoted

\* Every operation that expires leases first.
LEMMA ExpiresFirstDurable ==
    ASSUME DInv, NEW next, next # Idle, ExpiresFirst(next), told' \in SUBSET told
    PROVE  Durable'
<1>1. /\ Swept(pool).leases = {l \in pool.leases : l.left > 0} \cup Promoted(Expired(pool))
  BY SweptFair DEF DInv, IInv, Sound
<1>2. /\ (Swept(pool) # pool) \in BOOLEAN /\ (~(Swept(pool) # pool) => Swept(pool) = pool)
      /\ Begins(Swept(pool), next, Promoted(Expired(pool)), Swept(pool) # pool)
  BY DEF ExpiresFirst
<1>3. QED
  BY <1>1, <1>2, BeginsDurable

\* Time that passes for all of them alike.
LEMMA CoversOlder ==
    ASSUME NEW L \in SUBSET Lease, NEW T \in SUBSET Lease,
           \A l \in T : Covers(L, l), NEW k \in Counting(T)
    PROVE  k.left > 0 /\ Covers(Older(L), k)
<1> DEFINE older(l) == [l EXCEPT !.left = IF @ = 0 THEN 0 ELSE @ - 1]
<1>1. ASSUME NEW l \in Lease
      PROVE  /\ older(l).slot = l.slot /\ older(l).owner = l.owner
             /\ older(l).left = (IF l.left = 0 THEN 0 ELSE l.left - 1) /\ l.left \in Nat
  BY DEF Lease
<1>2. /\ \A S : Older(S) = {older(l) : l \in S}
      /\ k \in Older(T) /\ k.left > 0
  BY DEF Older, Counting
<1> HIDE DEF older
<1>3. PICK l \in T : k = older(l)
  BY <1>2
<1>4. PICK m \in L : m.slot = l.slot /\ m.owner = l.owner /\ m.left >= l.left
  BY DEF Covers
<1>5. older(m) \in Older(L) /\ older(m).slot = k.slot /\ older(m).owner = k.owner
  BY <1>1, <1>2, <1>3, <1>4
<1>6. older(m).left >= k.left
  <2>1. /\ k.left = (IF l.left = 0 THEN 0 ELSE l.left - 1) /\ l.left \in Nat
        /\ older(m).left = (IF m.left = 0 THEN 0 ELSE m.left - 1) /\ m.left \in Nat
    BY <1>1, <1>3
  <2>2. QED
    BY <1>4, <2>1
<1>7. QED
  BY <1>2, <1>5, <1>6 DEF Covers

\* Each operation's start.
LEMMA BeginDurable ==
    ASSUME DInv, Begin
    PROVE  Durable'
<1>1. pool \in Pool /\ Reserved(pool) /\ pool.leases \in SUBSET Lease /\ Answer # Idle
  BY PoolFields DEF DInv, IInv, Sound, Answer, Idle
<1>2. ASSUME NEW s \in Sessions, NEW ttl \in Ttls, Renew(s, ttl) PROVE Durable'
  <2>1. [kind |-> "renew", who |-> s, ttl |-> ttl] # Idle
    BY DEF Idle
  <2>2. QED
    BY <1>2, <2>1, ExpiresFirstDurable DEF Renew
<1>3. ASSUME NEW s \in Sessions, Release(s) PROVE Durable'
  <2>1. [kind |-> "release", who |-> s] # Idle
    BY DEF Idle
  <2>2. QED
    BY <1>3, <2>1, ExpiresFirstDurable DEF Release
<1>4. ASSUME NEW c, Configure(c) PROVE Durable'
  <2>1. [kind |-> "configure", capacity |-> c] # Idle
    BY DEF Idle
  <2>2. QED
    BY <1>4, <2>1, ExpiresFirstDurable DEF Configure
<1>5. ASSUME NEW s \in Sessions, Withdraw(s) PROVE Durable'
  <2>1. PICK rest : Begins([pool EXCEPT !.waiters = rest], Answer, {}, TRUE)
    BY <1>5 DEF Withdraw
  <2>2. [pool EXCEPT !.waiters = rest].leases = pool.leases /\ told' = told
    BY <1>1, <1>5, PoolFields DEF Withdraw
  <2>3. QED
    BY <1>1, <2>1, <2>2, BeginsDurable
<1>6. ASSUME NEW l \in pool.leases, ForceRelease(l) PROVE Durable'
  <2>1. /\ Begins(Removed(pool, l), Answer, Successors(pool, l), TRUE)
        /\ told' = {t \in told : t.owner # l.owner}
    BY <1>6 DEF ForceRelease
  <2>2. Removed(pool, l).leases = (pool.leases \ {l}) \cup Successors(pool, l)
    BY <1>1, RemovedFair
  <2>3. \A t \in told' : \A m \in pool.leases :
            m.owner = t.owner => m \in Removed(pool, l).leases
    BY <2>1, <2>2
  <2>4. QED
    BY <1>1, <2>1, <2>2, <2>3, BeginsDurable
<1>7. QED
  BY <1>2, <1>3, <1>4, <1>5, <1>6, AcquireDurable DEF Begin

\* Each operation's end.
LEMMA ProceedDurable ==
    ASSUME DInv, Proceed
    PROVE  Durable'
<1>1. /\ pool \in Pool /\ Reserved(pool) /\ pool.leases \in SUBSET Lease /\ step \in Step
      /\ \A l, m \in pool.leases : l.owner = m.owner => l = m
  BY PoolFields DEF DInv, IInv, Sound, TypeOK, Reserved
<1>2. CASE Answers
  BY <1>2, EndsDurable DEF Answers
<1>3. CASE Renews
  <2>1. Settles /\ Told({step.who})
    BY <1>3 DEF Renews
  <2>2. CASE Ends
    BY <2>1, <2>2, EndsDurable
  <2>3. ASSUME NEW l \in Held(pool, step.who),
               LET renewed == [l EXCEPT !.left = step.ttl]
               IN  GoesOn([pool EXCEPT !.leases = (@ \ {l}) \cup {renewed}], {renewed})
        PROVE  Durable'
    <3> DEFINE renewed == [l EXCEPT !.left = step.ttl]
               p == [pool EXCEPT !.leases = (pool.leases \ {l}) \cup {renewed}]
    <3>1. GoesOn(p, {renewed})
      BY <2>3
    <3>2. p.leases = (pool.leases \ {l}) \cup {renewed}
      BY <1>1, PoolFields
    <3>3. l.owner = step.who
      BY DEF Held
    <3> HIDE DEF p, renewed
    <3>4. \A m \in pool.leases : m.owner \notin {step.who} => m \in p.leases
      BY <3>2, <3>3
    <3>5. {renewed} \in SUBSET p.leases
      BY <3>2
    <3>6. QED
      BY <2>1, <3>1, <3>4, <3>5, GoesOnDurable
  <2>4. QED
    BY <1>3, <2>2, <2>3 DEF Renews
<1>4. CASE Releases
  <2>1. Settles /\ Told({step.who})
    BY <1>4 DEF Releases
  <2>2. CASE Ends
    BY <2>1, <2>2, EndsDurable
  <2>3. ASSUME NEW l \in Held(pool, step.who),
               GoesOn(Removed(pool, l), Successors(pool, l))
        PROVE  Durable'
    <3>1. Removed(pool, l).leases = (pool.leases \ {l}) \cup Successors(pool, l)
      BY <1>1, RemovedFair
    <3>2. \A m \in pool.leases : m.owner \notin {step.who} => m \in Removed(pool, l).leases
      BY <3>1 DEF Held
    <3>3. QED
      BY <2>1, <2>3, <3>1, <3>2, GoesOnDurable
  <2>4. QED
    BY <1>4, <2>2, <2>3 DEF Releases
<1>5. CASE Configures
  <2> DEFINE p == [pool EXCEPT !.capacity = step.capacity]
  <2>1. Settles /\ Told({}) /\ step.kind = "configure"
    BY <1>5 DEF Configures
  <2>2. CASE Ends
    BY <2>1, <2>2, EndsDurable
  <2>3. ASSUME \A l \in pool.leases : l.slot <= step.capacity,
               GoesOn(Refilled(p), Promoted(p))
        PROVE  Durable'
    <3>1. step.capacity \in Nat \ {0}
      BY <1>1, <2>1, StepFields
    <3>2. p = [capacity |-> step.capacity, leases |-> pool.leases, waiters |-> pool.waiters]
      BY <1>1, PoolFields
    <3>3. p \in Pool /\ p.leases = pool.leases /\ p.waiters = pool.waiters
          /\ p.capacity = step.capacity
      BY <1>1, <3>1, <3>2 DEF Pool
    <3> HIDE DEF p
    <3>4. Reserved(p)
      BY <1>1, <2>3, <3>3 DEF Reserved, Queued
    <3>5. \A m \in p.leases : Held(pool, m.owner) # {}
      BY <3>3 DEF Held
    <3>6. Refilled(p).leases = pool.leases \cup Promoted(p)
      BY <3>3, <3>4, <3>5, RefilledFair
    <3>7. QED
      BY <2>1, <2>3, <3>6, GoesOnDurable
  <2>4. QED
    BY <1>5, <2>2, <2>3 DEF Configures
<1>6. QED
  BY <1>2, <1>3, <1>4, <1>5 DEF Proceed

\* Time passes.
LEMMA TickDurable ==
    ASSUME DInv, Tick
    PROVE  Durable'
<1>1. /\ pool' = [pool EXCEPT !.leases = Older(pool.leases)]
      /\ file' = [file EXCEPT !.leases = Older(file.leases)]
      /\ granted' = Older(granted) /\ told' = Counting(told)
      /\ UNCHANGED <<step, dirty, writable>>
  BY DEF Tick
<1>2. /\ pool \in Pool /\ file \in Pool /\ told \in SUBSET Lease /\ writable
      /\ (step = Idle => ~dirty) /\ (~dirty => file = pool)
      /\ granted \in SUBSET pool.leases
      /\ \A l \in told : Covers(pool.leases, l) /\ Covers(file.leases, l)
  BY DEF DInv, IInv, TypeOK, Durable
<1>3. pool'.leases = Older(pool.leases) /\ file'.leases = Older(file.leases)
      /\ pool.leases \in SUBSET Lease /\ file.leases \in SUBSET Lease
  BY <1>1, <1>2, PoolFields
<1>4. \A k \in told' : k.left > 0 /\ Covers(pool'.leases, k) /\ Covers(file'.leases, k)
  BY <1>1, <1>2, <1>3, CoversOlder
<1>5. granted' \in SUBSET pool'.leases
  BY <1>1, <1>2, <1>3 DEF Older
<1>6. writable'
  BY <1>1, <1>2
<1>7. (step' = Idle => ~dirty') /\ (~dirty' => file' = pool')
  BY <1>1, <1>2
<1>8. QED
  BY <1>4, <1>5, <1>6, <1>7 DEF Durable

\* A restart finds the file, or the pool that was being written; both hold what
\* callers count on.
LEMMA RestartDurable ==
    ASSUME DInv, ~TornWrites, Restart
    PROVE  Durable'
<1>1. PICK found \in {file, pool} :
        /\ file' = found /\ pool' = Swept(found)
        /\ dirty' = (Swept(found) # found)
        /\ granted' = Promoted(Expired(found))
        /\ step' = Answer /\ writable' = TRUE /\ told' = told
  <2>1. PICK found \in {file} \cup (IF dirty /\ writable THEN {pool} ELSE {})
                     \cup (IF dirty /\ writable /\ TornWrites THEN {EmptyPool} ELSE {}) :
          /\ file' = found /\ pool' = Swept(found)
          /\ dirty' = (Swept(found) # found)
          /\ granted' = Promoted(Expired(found))
    BY DEF Restart
  <2>2. found \in {file, pool}
    BY <2>1
  <2>3. step' = Answer /\ writable' = TRUE /\ told' = told
    BY DEF Restart
  <2>4. QED
    BY <2>1, <2>2, <2>3
<1>2. /\ found \in Pool /\ Reserved(found) /\ found.leases \in SUBSET Lease
      /\ told \in SUBSET Lease
      /\ \A l \in told : l.left > 0 /\ Covers(found.leases, l)
  BY <1>1, PoolFields DEF DInv, IInv, Sound, TypeOK, Durable
<1>3. Swept(found).leases = {l \in found.leases : l.left > 0} \cup Promoted(Expired(found))
  BY <1>2, SweptFair
<1>4. \A l \in told : Covers(Swept(found).leases, l)
  BY <1>2, <1>3, CoversMore
<1>5. Answer # Idle /\ granted' \in SUBSET pool'.leases
  BY <1>1, <1>3 DEF Answer, Idle
<1>6. writable'
  BY <1>1
<1>7. (step' = Idle => ~dirty') /\ (~dirty' => file' = pool')
  <2>1. step' # Idle
    BY <1>1, <1>5
  <2>2. Swept(found) = found => file' = pool'
    BY <1>1
  <2>3. ~dirty' => Swept(found) = found
    BY <1>1
  <2>4. QED
    BY <2>1, <2>2, <2>3
<1>8. QED
  BY <1>1, <1>2, <1>4, <1>5, <1>6, <1>7 DEF Durable

\* Every step, where writes complete.
LEMMA NextDurable ==
    ASSUME ~FailingWrites, ~TornWrites, DInv, [Next]_vars
    PROVE  DInv'
<1>1. SUFFICES Durable'
  BY NextSound DEF DInv
<1>2. CASE Begin
  BY <1>2, BeginDurable
<1>3. CASE Sweep
  <2>1. ExpiresFirst(Answer) /\ told' = told /\ Answer # Idle
    BY <1>3 DEF Sweep, Answer, Idle
  <2>2. QED
    BY <2>1, ExpiresFirstDurable
<1>4. CASE Proceed
  BY <1>4, ProceedDurable
<1>5. CASE WriteFails
  BY <1>5 DEF WriteFails, DInv, Durable
<1>6. CASE Tick
  BY <1>6, TickDurable
<1>7. CASE Restart
  BY <1>7, RestartDurable
<1>8. CASE UNCHANGED vars
  BY <1>8 DEF vars, DInv, Durable
<1>9. QED
  BY <1>2, <1>3, <1>4, <1>5, <1>6, <1>7, <1>8 DEF Next

\* AnswersHold: where no write fails and none is cut off, whatever a caller was
\* answered, or a saved promotion gave it, the manager honours at least as long as it
\* said, through any operations of others and any number of restarts.
THEOREM AnswersHold ==
    ASSUME ~FailingWrites, ~TornWrites
    PROVE  Spec => []AnswersKept
<1>1. Init => DInv
  <2>1. SUFFICES ASSUME Init PROVE Durable
    BY InitSound DEF DInv
  <2>2. writable /\ ~dirty
    BY <2>1 DEF Init
  <2>3. file = pool /\ granted = {} /\ told = {}
    BY <2>1 DEF Init
  <2>4. QED
    BY <2>2, <2>3 DEF Durable
<1>2. DInv /\ [Next]_vars => DInv'
  BY NextDurable
<1>3. DInv => AnswersKept
  BY DEF DInv, Durable, Covers, AnswersKept, Honoured
<1>4. QED
  BY <1>1, <1>2, <1>3, PTL DEF Spec
=============================================================================
