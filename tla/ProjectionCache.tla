--------------------------- MODULE ProjectionCache ---------------------------
(***************************************************************************)
(* The browser's side of a synced projection: its cache                    *)
(* (src/web/src/store-synced-projections.ts), its socket (ws-transport.ts, *)
(* ws-synced-projection-handler.ts), and the lists of sessions it asks for *)
(* over HTTP (session-list-hydration.ts), whose answers may come late and  *)
(* out of order.                                                           *)
(***************************************************************************)
EXTENDS ProjectionRuntime

CONSTANTS
    MaxRequests  \* bound: lists asked for

ASSUME CacheAssumption == MaxRequests \in Nat

VARIABLES
    row,       \* the session's row in the browser's list
    fence,     \* the request sequence when its archiving was announced
    held,      \* value and version in the cache
    latest,    \* latestRestRequestSequence
    barrier,   \* liveRequestSequenceBarrier
    rejected,  \* subscriptionRejected
    sent,      \* the inventory last subscribed to on this socket
    acks,      \* pendingSyncedProjectionSubscriptionAcks
    partial,   \* partialSyncedProjectionAcks
    resyncing, \* pendingSyncedProjectionResyncs
    sequence,  \* activeSessionListRequestSequence
    requests,  \* the lists asked for and not yet hydrated
    last       \* history: the version held last since the key had an ordering

ordering == <<latest, barrier, rejected>>
store == <<row, fence, held, ordering, last>>
transport == <<sent, acks, partial, resyncing>>
lists == <<sequence, requests>>
cacheVars == <<store, transport, lists>>

Held == [gen : Nat, rev : Nat, value : Value]
NoHeld == [gen |-> 0, rev |-> 0, value |-> Blank]
VersionOf(h) == [gen |-> h.gen, rev |-> h.rev]

\* A list asked for: whether it carries projections, and once it is answered,
\* whether the session is in it and with what snapshot.
Request == [seq : 1 .. MaxRequests, full : BOOLEAN, answered : BOOLEAN,
            listed : BOOLEAN, snapshot : Held]
Ack == [wants : BOOLEAN, known : Version, noted : BOOLEAN]

CacheTypeOK ==
    /\ row \in {"none", "active", "archived"} /\ fence \in 0 .. MaxRequests
    /\ held \in Held /\ last \in Version
    /\ latest \in 0 .. MaxRequests /\ barrier \in 0 .. MaxRequests
    /\ rejected \in BOOLEAN /\ sent \in {"none", "without", "with"}
    /\ acks \in Seq(Ack) /\ partial \in BOOLEAN /\ resyncing \in BOOLEAN
    /\ sequence \in 0 .. MaxRequests /\ requests \in SUBSET Request

CacheInit ==
    /\ row = "none" /\ fence = 0 /\ held = NoHeld /\ last = NoVersion
    /\ latest = 0 /\ barrier = 0 /\ rejected = FALSE
    /\ sent = "none" /\ acks = <<>> /\ partial = FALSE /\ resyncing = FALSE
    /\ sequence = 0 /\ requests = {}

-----------------------------------------------------------------------------
(* The cache.                                                              *)

Hold(h) ==
    /\ held' = h
    /\ last' = IF h = NoHeld THEN last ELSE VersionOf(h)

\* An authoritative snapshot meets what is held: it is older, it contradicts it
\* under the same version, or neither.
SameGeneration(m) == held # NoHeld /\ held.gen = m.gen
Older(m) == SameGeneration(m) /\ m.rev < held.rev
Contradicts(m) == SameGeneration(m) /\ m.rev = held.rev /\ m.change # held.value
Entry(m) == [gen |-> m.gen, rev |-> m.rev, value |-> m.change]

\* applyOrderingMetadata for what came over the socket.
OrderLive == barrier' = sequence /\ rejected' = FALSE /\ UNCHANGED latest

\* removeSyncedProjectionEntries: a key that is still wanted keeps its ordering,
\* any other one goes with it.
Refuse ==
    /\ Hold(NoHeld)
    /\ barrier' = sequence /\ rejected' = TRUE /\ UNCHANGED latest
Forget ==
    /\ held' = NoHeld /\ last' = NoVersion
    /\ latest' = 0 /\ barrier' = 0 /\ rejected' = FALSE

-----------------------------------------------------------------------------
(* The socket.                                                             *)

\* getSyncedProjectionSubscriptions: what the browser wants, naming what it has.
Wanted == row = "active"
Inventory == IF Wanted THEN "with" ELSE "without"
Subscription ==
    [kind |-> "subscribe", wants |-> Wanted,
     known |-> IF Wanted THEN VersionOf(held) ELSE NoVersion]

\* enqueueSyncedProjectionSubscriptionAck, with the message it is for.
Subscribe ==
    /\ toServer' = Append(toServer, Subscription)
    /\ sent' = Inventory
    /\ acks' = Append(acks, [wants |-> Wanted, known |-> Subscription.known,
                             noted |-> FALSE])

\* requestSyncedProjectionResync, if `asked`.
Resync(asked) ==
    /\ toServer' = IF asked /\ Wanted /\ ~resyncing
                   THEN Append(toServer, [kind |-> "resync"]) ELSE toServer
    /\ resyncing' = (resyncing \/ (asked /\ Wanted))

\* The browser opens a socket and subscribes.
Connect ==
    /\ socket = "none" /\ socket' = "up"
    /\ Subscribe
    /\ UNCHANGED <<generation, session, entry, subscribed, toBrowser, faults,
                   store, partial, resyncing, lists>>

\* clearSocketState.
Notice ==
    /\ socket = "cut" /\ socket' = "none"
    /\ sent' = "none" /\ acks' = <<>> /\ resyncing' = FALSE
    /\ UNCHANGED <<generation, session, entry, subscribed, toServer, toBrowser, faults,
                   store, partial, lists>>

\* refreshSyncedProjectionSubscriptions, after the list of sessions changed.
Refresh ==
    /\ socket = "up" /\ sent # Inventory
    /\ Subscribe
    /\ resyncing' = (resyncing /\ Wanted)
    /\ UNCHANGED <<generation, session, entry, subscribed, socket, toBrowser, faults,
                   store, partial, lists>>

\* requestFullHistorySync.
Reload ==
    /\ socket = "up" /\ faults < MaxFaults /\ faults' = faults + 1
    /\ Subscribe
    /\ UNCHANGED <<generation, session, entry, subscribed, socket, toBrowser,
                   store, partial, resyncing, lists>>

\* syncedProjectionsLive: the browser takes the socket to keep it current.
Live == socket # "none" /\ acks = <<>> /\ ~partial /\ sent = Inventory

-----------------------------------------------------------------------------
(* What comes over the socket.                                             *)

Reads(kinds) == toBrowser # <<>> /\ Head(toBrowser).kind \in kinds

\* noteAcceptedSyncedProjectionSnapshot.
Noted(queue) ==
    IF queue # <<>> /\ Head(queue).wants THEN [queue EXCEPT ![1].noted = TRUE] ELSE queue

\* synced_projection_snapshot.
ReceiveSnapshot ==
    /\ Reads({"snapshot"})
    /\ LET m == Head(toBrowser)
           conflict == Contradicts(m) /\ ~resyncing
       IN  /\ Hold(IF Older(m) \/ conflict THEN held ELSE Entry(m))
           /\ acks' = IF conflict THEN acks ELSE Noted(acks)
           /\ IF conflict THEN Resync(TRUE) ELSE resyncing' = FALSE /\ UNCHANGED toServer
    /\ OrderLive
    /\ toBrowser' = Tail(toBrowser)
    /\ UNCHANGED <<generation, session, entry, subscribed, socket, faults,
                   row, fence, sent, partial, lists>>

\* synced_projection_update: a full value may skip revisions, a patch may not,
\* and neither may establish a key or change its generation.
ReceiveUpdate ==
    /\ Reads({"update", "patch"})
    /\ LET m == Head(toBrowser)
           next == IF m.kind = "update" THEN m.change ELSE Patched(held.value, m.change)
           contiguous == m.rev = held.rev + 1
           newer == SameGeneration(m) /\ m.rev > held.rev
           applies == newer /\ (m.kind = "update" \/ contiguous)
           covered == SameGeneration(m)
               /\ (m.rev < held.rev \/ (m.rev = held.rev /\ next = held.value))
       IN  /\ Hold(IF applies THEN [gen |-> m.gen, rev |-> m.rev, value |-> next] ELSE held)
           /\ Resync(~covered /\ ~(applies /\ contiguous))
    /\ IF held = NoHeld THEN UNCHANGED ordering ELSE OrderLive
    /\ toBrowser' = Tail(toBrowser)
    /\ UNCHANGED <<generation, session, entry, subscribed, socket, faults,
                   row, fence, sent, acks, partial, lists>>

\* Mutant: a refused key keeps its value.
ReceiveAckOfRevocation ==
    /\ Reads({"ack"})
    /\ LET m == Head(toBrowser)
           ask == Head(acks)
           covers == m.current /\ ask.known # NoVersion
               /\ held # NoHeld /\ held.gen = ask.known.gen /\ held.rev >= ask.known.rev
           accepted == m.accepted /\ (ask.noted \/ covers)
           settles == Len(acks) = 1 /\ ask.wants = Wanted
       IN  /\ acks' = Tail(acks)
           /\ partial' = IF settles THEN ask.wants /\ ~accepted ELSE partial
           /\ IF settles /\ ~accepted
              THEN /\ UNCHANGED <<held, last>>
                   /\ latest' = IF Wanted THEN latest ELSE 0
                   /\ barrier' = IF Wanted THEN sequence ELSE 0
                   /\ rejected' = Wanted
              ELSE UNCHANGED <<held, last, ordering>>
           /\ Resync(settles /\ m.accepted /\ ~accepted)
    /\ toBrowser' = Tail(toBrowser)
    /\ UNCHANGED <<generation, session, entry, subscribed, socket, faults,
                   row, fence, sent, lists>>

\* synced_projection_subscriptions_ack.  It settles the subscription if no other
\* one is under way and the browser still wants the same: the key stays if the
\* server took it and its snapshot has come, or what is held covers it.
ReceiveAck ==
    /\ Reads({"ack"})
    /\ LET m == Head(toBrowser)
           ask == Head(acks)
           covers == m.current /\ ask.known # NoVersion
               /\ held # NoHeld /\ held.gen = ask.known.gen /\ held.rev >= ask.known.rev
           accepted == m.accepted /\ (ask.noted \/ covers)
           settles == Len(acks) = 1 /\ ask.wants = Wanted
       IN  /\ acks' = Tail(acks)
           /\ partial' = IF settles THEN ask.wants /\ ~accepted ELSE partial
           /\ IF settles /\ ~accepted
              THEN IF Wanted THEN Refuse ELSE Forget
              ELSE UNCHANGED <<held, last, ordering>>
           /\ Resync(settles /\ m.accepted /\ ~accepted)
    /\ toBrowser' = Tail(toBrowser)
    /\ UNCHANGED <<generation, session, entry, subscribed, socket, faults,
                   row, fence, sent, lists>>

\* session_archived (applyAuthoritativeSessionArchive).
ReceiveArchived ==
    /\ Reads({"archived"})
    /\ row' = IF row = "none" THEN row ELSE "archived"
    /\ fence' = sequence
    /\ Forget
    /\ toBrowser' = Tail(toBrowser)
    /\ UNCHANGED <<generation, session, entry, subscribed, socket, toServer, faults,
                   transport, lists>>

-----------------------------------------------------------------------------
(* Lists of sessions.                                                      *)

\* A list is asked for, without projections only by a browser that is live.
Ask ==
    /\ sequence < MaxRequests /\ sequence' = sequence + 1
    /\ \E full \in {TRUE, ~Live} :
          requests' = requests \cup {[seq |-> sequence', full |-> full, answered |-> FALSE,
                                      listed |-> FALSE, snapshot |-> NoHeld]}
    /\ UNCHANGED <<runtimeVars, store, transport>>

\* GET /sessions?includeArchived=false.
Serve(r) ==
    /\ ~r.answered
    /\ IF Visible
       THEN /\ Keep(Current) /\ Push(Current)
            /\ requests' = (requests \ {r}) \cup
                 {[r EXCEPT !.answered = TRUE, !.listed = TRUE,
                            !.snapshot = IF r.full THEN [gen |-> generation, rev |-> Current.rev,
                                                         value |-> Current.value]
                                         ELSE NoHeld]}
       ELSE /\ requests' = (requests \ {r}) \cup {[r EXCEPT !.answered = TRUE]}
            /\ UNCHANGED <<entry, toBrowser>>
    /\ UNCHANGED <<generation, session, subscribed, socket, toServer, faults,
                   store, transport, sequence>>

\* Mutant: lists are taken in the order they come.
HydrateInAnyOrder(seq, h) ==
    IF rejected THEN UNCHANGED <<held, last, ordering>>
    ELSE LET fenced == seq <= barrier /\ ~(held # NoHeld /\ held.gen = h.gen)
             behind == held # NoHeld /\ held.gen = h.gen /\ h.rev <= held.rev
         IN  /\ latest' = seq
             /\ Hold(IF fenced \/ behind THEN held ELSE h)
             /\ UNCHANGED <<barrier, rejected>>

\* applyOrderingMetadata and applySyncedProjectionSnapshot for a list's snapshot.
HydrateSnapshot(seq, h) ==
    IF rejected \/ seq < latest THEN UNCHANGED <<held, last, ordering>>
    ELSE LET fenced == seq <= barrier /\ ~(held # NoHeld /\ held.gen = h.gen)
             behind == held # NoHeld /\ held.gen = h.gen /\ h.rev <= held.rev
         IN  /\ latest' = seq
             /\ Hold(IF fenced \/ behind THEN held ELSE h)
             /\ UNCHANGED <<barrier, rejected>>

\* hydrateSessionList.  A list asked for before the session's archiving was
\* announced does not bring its row back.
Hydrate(r) ==
    /\ r.answered
    /\ requests' = requests \ {r}
    /\ LET stale == row = "archived" /\ r.seq <= fence
       IN  IF r.listed /\ ~stale
           THEN /\ row' = "active"
                /\ IF r.full THEN HydrateSnapshot(r.seq, r.snapshot)
                   ELSE UNCHANGED <<held, last, ordering>>
           ELSE /\ row' = IF ~r.listed /\ row = "active" THEN "none" ELSE row
                /\ UNCHANGED <<held, last, ordering>>
    /\ UNCHANGED <<runtimeVars, fence, transport, sequence>>

\* A request fails, or nothing changed since the last list (304).
Lose(r) ==
    /\ requests' = requests \ {r}
    /\ UNCHANGED <<runtimeVars, store, transport, sequence>>
=============================================================================
