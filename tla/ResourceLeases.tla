--------------------------- MODULE ResourceLeases ---------------------------
(***************************************************************************)
(* One pool of leases: the manager                                         *)
(* (src/web/server/resource-lease-manager.ts) and the file it is saved to  *)
(* (src/web/server/resource-lease-store.ts).  Pools share only the file    *)
(* and the order of operations.                                            *)
(*                                                                         *)
(* runExclusive runs one operation at a time.  An operation changes the    *)
(* pool in memory, awaits the save, may go on with a second change and     *)
(* save, and answers; only time, a failing write or the end of the process *)
(* can come in between.                                                    *)
(***************************************************************************)
EXTENDS Naturals, Sequences, FiniteSets, Subsequences

CONSTANTS
    Sessions,      \* callers
    Ttls,          \* lifetimes a lease may be asked for, in ticks
    MaxCapacity,   \* bound: capacities a leader configures
    MaxRenewals,   \* bound: renewals in a behaviour
    MaxCrashes,    \* bound: restarts in a behaviour
    FailingWrites, \* a write of the file may be rejected (disk full)
    TornWrites     \* writeFile may fail, or the process end in it, once it truncated

ASSUME TtlsAssumption == Ttls \in SUBSET (Nat \ {0})
ASSUME LeaseBoundsAssumption ==
    /\ MaxCapacity \in Nat \ {0} /\ MaxRenewals \in Nat /\ MaxCrashes \in Nat
    /\ FailingWrites \in BOOLEAN /\ TornWrites \in BOOLEAN

\* `left` is expiresAt less the time now; a lease with none left is due.
Lease == [slot : Nat \ {0}, owner : Sessions, left : Nat]
Waiter == [session : Sessions, ttl : Ttls]
Pool == [capacity : Nat \ {0}, leases : SUBSET Lease, waiters : Seq(Waiter)]

\* emptyResourceLeaseFile; getCapacity takes 1 for a pool never configured.
EmptyPool == [capacity |-> 1, leases |-> {}, waiters |-> <<>>]

VARIABLES
    pool,     \* this.data, of this pool
    file,     \* what load would return
    step,     \* what the operation under way does once its save has settled
    dirty,    \* it has a save to wait for
    granted,  \* leases it gave that no settled save holds yet
    writable, \* pendingWrite is not rejected
    told,     \* history: leases callers hold by an answer, or by a saved promotion
    noticed,  \* history: leases sessions hold by a promotion's message
    renewals, \* history: renewals asked for
    crashes   \* history: restarts

vars == <<pool, file, step, dirty, granted, writable, told, noticed, renewals,
          crashes>>

Idle == [kind |-> "idle"]
Answer == [kind |-> "answer"]
Step ==
    {Idle, Answer} \cup [kind : {"release"}, who : Sessions]
        \cup [kind : {"renew"}, who : Sessions, ttl : Ttls]
        \cup [kind : {"configure"}, capacity : Nat \ {0}]

TypeOK ==
    /\ pool \in Pool /\ file \in Pool
    /\ step \in Step /\ dirty \in BOOLEAN /\ writable \in BOOLEAN
    /\ granted \in SUBSET Lease /\ told \in SUBSET Lease /\ noticed \in SUBSET Lease
    /\ renewals \in Nat /\ crashes \in Nat

Init ==
    /\ pool = EmptyPool /\ file = EmptyPool
    /\ step = Idle /\ dirty = FALSE /\ granted = {} /\ writable = TRUE
    /\ told = {} /\ noticed = {}
    /\ renewals = 0 /\ crashes = 0

-----------------------------------------------------------------------------
(***************************************************************************)
(* The pool.                                                               *)
(***************************************************************************)
\* Mutant: slots counted from 0.
FreeFromZero(p) == (0..p.capacity - 1) \ {l.slot : l \in p.leases}

Free(p) == (1..p.capacity) \ {l.slot : l \in p.leases}
Held(p, s) == {l \in p.leases : l.owner = s}
Queued(p) == {p.waiters[i].session : i \in DOMAIN p.waiters}

\* Mutant: the pool ignores its queue.
NoneFilled(p) == {}

(***************************************************************************)
(* promoteWaiters: the first waiter gets the lowest free slot, the second  *)
(* the next one, until either runs out.                                    *)
(***************************************************************************)
Rank(p, f) == Cardinality({g \in Free(p) : g <= f})
Filled(p) == {f \in Free(p) : Rank(p, f) <= Len(p.waiters)}
Promoted(p) ==
    {[slot |-> f, owner |-> p.waiters[Rank(p, f)].session,
      left |-> p.waiters[Rank(p, f)].ttl] : f \in Filled(p)}

Refilled(p) ==
    [p EXCEPT !.leases = @ \cup Promoted(p),
              !.waiters = SubSeq(@, Cardinality(Filled(p)) + 1, Len(@))]

\* expireDueLeases, before it promotes.
Expired(p) == [p EXCEPT !.leases = {l \in @ : l.left > 0}]
Swept(p) == Refilled(Expired(p))

-----------------------------------------------------------------------------
(***************************************************************************)
(* Operations.  `promoted` are told of their lease before the save.        *)
(***************************************************************************)
Notify(promoted) ==
    noticed' = {l \in noticed : \A g \in promoted : g.owner # l.owner} \cup promoted

Begins(p, next, given, changed) ==
    /\ step = Idle
    /\ pool' = p /\ step' = next /\ granted' = given /\ dirty' = changed
    /\ UNCHANGED <<file, writable, crashes>>

\* What an operation that expires first starts with.
ExpiresFirst(next) ==
    /\ Begins(Swept(pool), next, Promoted(Expired(pool)), Swept(pool) # pool)
    /\ Notify(Promoted(Expired(pool)))

\* A slot for s where it is free in p: the lowest one.
Given(p, s, ttl) ==
    {[slot |-> f, owner |-> s, left |-> ttl] :
        f \in {g \in Free(p) : \A h \in Free(p) : g <= h}}

\* Mutant: a newcomer is served before the queue.
AcquireFirst(s, waits, ttl) ==
    LET p == Expired(pool)
        queued == [p EXCEPT !.waiters = Append(@, [session |-> s, ttl |-> ttl])]
    IN  /\ Held(p, s) = {} /\ s \notin Queued(p)
        /\ \/ \E lease \in Given(p, s, ttl) :
                Begins(Refilled([p EXCEPT !.leases = @ \cup {lease}]), Answer,
                       {lease}, TRUE)
           \/ waits /\ Free(p) = {} /\ Begins(queued, Answer, {}, TRUE)
        /\ UNCHANGED <<told, noticed, renewals>>

\* Mutant: a session is queued once per request.
AcquireQueuesAgain(s, waits, ttl) ==
    LET p == Swept(pool)
        queued == [p EXCEPT !.waiters = Append(@, [session |-> s, ttl |-> ttl])]
    IN  /\ Held(p, s) = {}
        /\ \/ \E lease \in Given(p, s, ttl) :
                Begins([p EXCEPT !.leases = @ \cup {lease}], Answer, {lease}, TRUE)
           \/ waits /\ Free(p) = {} /\ Begins(queued, Answer, {}, TRUE)
        /\ Notify(Promoted(Expired(pool)))
        /\ UNCHANGED <<told, renewals>>

\* acquire (waits = FALSE) and wait.
Acquire(s, waits, ttl) ==
    LET p == Swept(pool)
        promoted == Promoted(Expired(pool))
        queue == IF s \in Queued(p) THEN p.waiters
                 ELSE Append(p.waiters, [session |-> s, ttl |-> ttl])
    IN  /\ \/ /\ Held(p, s) # {}
              /\ Begins(p, Answer, promoted \cup Held(p, s), p # pool)
           \/ /\ Held(p, s) = {}
              /\ \E lease \in Given(p, s, ttl) :
                   Begins([p EXCEPT !.leases = @ \cup {lease}], Answer,
                          promoted \cup {lease}, TRUE)
           \/ /\ Held(p, s) = {} /\ Free(p) = {} /\ ~waits
              /\ Begins(p, Answer, promoted, p # pool)
           \/ /\ Held(p, s) = {} /\ Free(p) = {} /\ waits
              /\ Begins([p EXCEPT !.waiters = queue], Answer, promoted, TRUE)
        /\ Notify(promoted)
        /\ UNCHANGED <<told, renewals>>

\* The new lifetime may be shorter: a caller counts on the answer alone.
Renew(s, ttl) ==
    /\ renewals < MaxRenewals
    /\ renewals' = renewals + 1
    /\ ExpiresFirst([kind |-> "renew", who |-> s, ttl |-> ttl])
    /\ told' = {l \in told : l.owner # s}

Configure(c) ==
    /\ ExpiresFirst([kind |-> "configure", capacity |-> c])
    /\ UNCHANGED <<told, renewals>>

\* A caller that releases no longer counts on its lease.
Release(s) ==
    /\ ExpiresFirst([kind |-> "release", who |-> s])
    /\ told' = {l \in told : l.owner # s}
    /\ UNCHANGED renewals

Removed(p, l) == Refilled([p EXCEPT !.leases = @ \ {l}])
Successors(p, l) == Promoted([p EXCEPT !.leases = @ \ {l}])

\* release with force: no expiry first, so the record named is the one ended.
ForceRelease(l) ==
    /\ l \in pool.leases
    /\ Begins(Removed(pool, l), Answer, Successors(pool, l), TRUE)
    /\ told' = {t \in told : t.owner # l.owner}
    /\ noticed' = {n \in noticed : n.owner # l.owner} \cup Successors(pool, l)
    /\ UNCHANGED renewals

Withdraw(s) ==
    /\ s \in Queued(pool)
    /\ \E rest \in Filtered(pool.waiters, {i \in DOMAIN pool.waiters :
                                           pool.waiters[i].session # s}) :
         Begins([pool EXCEPT !.waiters = rest], Answer, {}, TRUE)
    /\ UNCHANGED <<told, noticed, renewals>>

\* sweepExpiredNow, getStatus, listStatuses
Sweep ==
    /\ Swept(pool) # pool
    /\ ExpiresFirst(Answer)
    /\ UNCHANGED <<told, renewals>>

-----------------------------------------------------------------------------
(***************************************************************************)
(* After the save.                                                         *)
(***************************************************************************)
\* Mutant: an operation goes on without waiting for its write.
SettlesEarly ==
    /\ UNCHANGED file
    /\ UNCHANGED <<writable, crashes>>

Settles ==
    /\ IF dirty THEN writable /\ file' = pool ELSE UNCHANGED file
    /\ UNCHANGED <<writable, crashes>>

\* What `granted` holds is told; a session in `gone` counts on nothing any more.
Told(gone) ==
    LET new == {g \in granted : g.left > 0 /\ g.owner \notin gone}
    IN  told' = {t \in told : t.owner \notin gone \cup {g.owner : g \in granted}}
                  \cup new

GoesOn(p, given) == pool' = p /\ granted' = given /\ dirty' = TRUE /\ step' = Answer
Ends == step' = Idle /\ dirty' = FALSE /\ granted' = {} /\ UNCHANGED pool

Answers == step = Answer /\ Settles /\ Told({}) /\ Ends /\ UNCHANGED <<noticed, renewals>>

\* selectLease fails: s has no lease, or names a slot that is not its own.
Missed(s) == Held(pool, s) = {} \/ pool.capacity > 1

\* renew, once expired leases are gone.
Renews ==
    /\ step.kind = "renew"
    /\ Settles
    /\ Told({step.who})
    /\ \/ \E l \in Held(pool, step.who) :
            LET renewed == [l EXCEPT !.left = step.ttl]
            IN  GoesOn([pool EXCEPT !.leases = (@ \ {l}) \cup {renewed}], {renewed})
       \/ Missed(step.who) /\ Ends
    /\ UNCHANGED <<noticed, renewals>>

Releases ==
    /\ step.kind = "release"
    /\ Settles
    /\ Told({step.who})
    /\ \/ \E l \in Held(pool, step.who) :
            /\ GoesOn(Removed(pool, l), Successors(pool, l))
            /\ noticed' = {n \in noticed : n.owner # l.owner} \cup Successors(pool, l)
       \/ Missed(step.who) /\ Ends /\ UNCHANGED noticed
    /\ UNCHANGED renewals

\* Mutant: new slots wait for the next sweep.
ConfiguresOnly ==
    /\ step.kind = "configure"
    /\ Settles
    /\ Told({})
    /\ IF \A l \in pool.leases : l.slot <= step.capacity
       THEN GoesOn([pool EXCEPT !.capacity = step.capacity], {})
       ELSE Ends
    /\ UNCHANGED <<noticed, renewals>>

\* configure: held slots keep their numbers, new slots go to the queue.
Configures ==
    LET p == [pool EXCEPT !.capacity = step.capacity]
        fits == \A l \in pool.leases : l.slot <= step.capacity
    IN  /\ step.kind = "configure"
        /\ Settles
        /\ Told({})
        /\ \/ /\ fits /\ step.capacity # pool.capacity
              /\ GoesOn(Refilled(p), Promoted(p))
              /\ Notify(Promoted(p))
           \/ /\ ~fits \/ step.capacity = pool.capacity
              /\ Ends
              /\ UNCHANGED noticed
        /\ UNCHANGED renewals

\* save rejects; pendingWrite stays rejected, so every later save does too, without
\* touching the file.  The first failure may leave the file torn.
WriteFails ==
    /\ dirty
    /\ FailingWrites \/ ~writable
    /\ writable' = FALSE
    /\ file' \in {file} \cup (IF writable /\ TornWrites THEN {EmptyPool} ELSE {})
    /\ Ends
    /\ UNCHANGED <<told, noticed, renewals, crashes>>

-----------------------------------------------------------------------------
Older(leases) == {[l EXCEPT !.left = IF @ = 0 THEN 0 ELSE @ - 1] : l \in leases}
Counting(leases) == {l \in Older(leases) : l.left > 0}

\* Time passes, also for what the file and the callers know.
Tick ==
    /\ pool' = [pool EXCEPT !.leases = Older(@)]
    /\ file' = [file EXCEPT !.leases = Older(@)]
    /\ granted' = Older(granted)
    /\ told' = Counting(told) /\ noticed' = Counting(noticed)
    /\ UNCHANGED <<step, dirty, writable, renewals, crashes>>

(***************************************************************************)
(* The server ends, also amid a write, and starts again: startAll loads    *)
(* the file and sweeps.  A torn file loads as empty.                       *)
(***************************************************************************)
Restart ==
    /\ crashes < MaxCrashes
    /\ crashes' = crashes + 1
    /\ \E found \in {file} \cup (IF dirty /\ writable THEN {pool} ELSE {})
                     \cup (IF dirty /\ writable /\ TornWrites THEN {EmptyPool} ELSE {}) :
         /\ file' = found
         /\ pool' = Swept(found)
         /\ dirty' = (Swept(found) # found)
         /\ granted' = Promoted(Expired(found))
         /\ Notify(Promoted(Expired(found)))
    /\ step' = Answer /\ writable' = TRUE
    /\ UNCHANGED <<told, renewals>>

Begin ==
    \/ \E s \in Sessions :
         \/ \E ttl \in Ttls, waits \in BOOLEAN : Acquire(s, waits, ttl)
         \/ \E ttl \in Ttls : Renew(s, ttl)
         \/ Release(s) \/ Withdraw(s)
    \/ \E l \in pool.leases : ForceRelease(l)
    \/ \E c \in 1..MaxCapacity : Configure(c)

Proceed == Answers \/ Renews \/ Releases \/ Configures

Next == Begin \/ Sweep \/ Proceed \/ WriteFails \/ Tick \/ Restart

Spec == Init /\ [][Next]_vars

\* A write resolves or rejects, the sweep's interval goes off, time passes.
FairSpec == Spec /\ WF_vars(Proceed \/ WriteFails) /\ WF_vars(Sweep) /\ WF_vars(Tick)

-----------------------------------------------------------------------------
(***************************************************************************)
(* No slot is free while a session waits (promoteWaiters: "Newcomers       *)
(* cannot bypass it"), in memory and in the file a restart finds.          *)
(***************************************************************************)
QueuesWhenFull(p) == p.waiters # <<>> => Free(p) = {}
NoIdleSlot == QueuesWhenFull(pool) /\ QueuesWhenFull(file)

(***************************************************************************)
(* "One reservation per session" (CHANGELOG.md:694): a slot has one lease, *)
(* a session at most one lease or one place in the queue, and no lease     *)
(* lies outside the pool, whatever capacity was configured meanwhile.      *)
(***************************************************************************)
Reserved(p) ==
    /\ \A l \in p.leases : l.slot <= p.capacity /\ l.owner \notin Queued(p)
    /\ \A l, m \in p.leases : l.slot = m.slot \/ l.owner = m.owner => l = m
    /\ \A i, j \in DOMAIN p.waiters : p.waiters[i].session = p.waiters[j].session => i = j
OneReservation == Reserved(pool) /\ Reserved(file)

(***************************************************************************)
(* "FIFO waiting" (CHANGELOG.md:694): who gets a lease while another       *)
(* session goes on waiting stood before it in the queue.                   *)
(***************************************************************************)
FifoGrants ==
    [][crashes' = crashes =>
         \A l \in pool'.leases : Held(pool, l.owner) = {} =>
           \A i \in DOMAIN pool.waiters :
             pool.waiters[i].session \in Queued(pool') =>
               \E j \in 1..i - 1 : pool.waiters[j].session = l.owner]_vars

(***************************************************************************)
(* Leases persist through a restart (resource-lease-manager.test.ts:298):  *)
(* what a caller was answered, or a saved promotion gave it, the manager   *)
(* honours at least as long as it said.                                    *)
(***************************************************************************)
Honoured(l) == \E m \in pool.leases :
    m.slot = l.slot /\ m.owner = l.owner /\ m.left >= l.left
AnswersKept == \A l \in told : Honoured(l)

(***************************************************************************)
(* "Preserving FIFO and persisted ownership"                               *)
(* (resource-lease-manager.test.ts:322): a session told that it now holds  *)
(* a lease holds it, also after a restart.                                 *)
(* The code does not keep this, and no run checks it (README.md).          *)
(***************************************************************************)
NoticesKept == \A l \in noticed :
    \E m \in pool.leases : m.slot = l.slot /\ m.owner = l.owner

(***************************************************************************)
(* "You now hold" (promoteWaiters, notifyPromotedWaiter): nobody waits for *)
(* ever once renewals end, and a session leaves the queue with a lease,    *)
(* unless it withdraws or the server restarts.                             *)
(***************************************************************************)
Served ==
    /\ \A s \in Sessions : s \in Queued(pool) ~> s \notin Queued(pool)
    /\ [][\A s \in Queued(pool) :
             \/ s \in Queued(pool') \/ Held(pool', s) # {}
             \/ Withdraw(s) \/ crashes' # crashes]_vars
=============================================================================
