-------------------------- MODULE ProjectionRuntime --------------------------
(***************************************************************************)
(* The server's side of one synced projection of one session               *)
(* (src/web/server/synced-projection-runtime.ts), as one browser sees it   *)
(* over its socket: the thread tabs of a leader, a projection with patches *)
(* whose source is gone while the session is archived.  Other browsers     *)
(* only read: what they subscribe to and ask for is Peek.                  *)
(***************************************************************************)
EXTENDS Naturals, Sequences

CONSTANTS
    Fields,       \* the parts of a value that a patch may carry on their own
    MaxChanges,   \* bound: changes of the source
    MaxFaults,    \* bound: restarts of the server, broken sockets and reloads
    Origins,      \* whose change it may be: the session's own, or that of a row
                  \* on another session's board
    Restorable    \* when archiving may be undone: while it is under way (the kill
                  \* fails), after it, or only when a later process loaded it

Lives == {"active", "archiving", "archived", "loaded"}

ASSUME RuntimeAssumption ==
    /\ MaxChanges \in Nat /\ MaxFaults \in Nat
    /\ Origins \subseteq {"own", "other"} /\ Restorable \subseteq Lives \ {"active"}

Value == [Fields -> BOOLEAN]
Blank == [f \in Fields |-> FALSE]
\* Mutant: a patch is taken for a value.
PatchedWhole(value, patch) == patch

Patched(value, patch) == [f \in Fields |-> IF f \in DOMAIN patch THEN patch[f] ELSE value[f]]
PatchFrom(old, new) == [f \in {g \in Fields : old[g] # new[g]} |-> new[f]]

\* Generations and revisions start at 1; 0 stands for none.
Version == [gen : Nat, rev : Nat]
NoVersion == [gen |-> 0, rev |-> 0]
NoEntry == [rev |-> 0, value |-> Blank]

VARIABLES
    generation, \* of the running server
    life,       \* whether the session is archived, or on the way there
    source,     \* what the projection is derived from
    cache,      \* the key's entry of `cache`
    dirty,      \* whether the key is in `dirty`
    pending,    \* whether it is in `pending`, and a flush scheduled
    subscribed, \* whether this browser's socket has the key's id
    socket,     \* the browser's socket
    toServer,   \* messages on it
    toBrowser,
    changes, faults, \* history: how many there were
    published   \* history: the entries there were, oldest first

entry == <<cache, dirty, pending, published>>
session == <<life, source, changes>>
wire == <<socket, toServer, toBrowser, faults>>
runtimeVars == <<generation, session, entry, subscribed, wire>>

Visible == life = "active"

ToServer ==
    [kind : {"subscribe"}, wants : BOOLEAN, known : Version]
        \cup [kind : {"resync"}]
ToBrowser ==
    [kind : {"snapshot", "update"}, gen : Nat, rev : Nat, change : Value]
        \cup [kind : {"patch"}, gen : Nat, rev : Nat,
              change : UNION {[fs -> BOOLEAN] : fs \in SUBSET Fields}]
        \cup [kind : {"ack"}, accepted : BOOLEAN, current : BOOLEAN]
        \cup [kind : {"archived"}]

RuntimeTypeOK ==
    /\ generation \in 1 .. MaxFaults + 1
    /\ life \in Lives /\ source \in Value
    /\ cache \in [rev : Nat, value : Value]
    /\ dirty \in BOOLEAN /\ pending \in BOOLEAN /\ subscribed \in BOOLEAN
    /\ socket \in {"up", "cut", "none"}
    /\ toServer \in Seq(ToServer) /\ toBrowser \in Seq(ToBrowser)
    /\ changes \in 0 .. MaxChanges /\ faults \in 0 .. MaxFaults
    /\ published \in Seq([gen : Nat, rev : Nat, value : Value])

RuntimeInit ==
    /\ generation = 1 /\ life = "active" /\ source = Blank
    /\ cache = NoEntry /\ dirty = FALSE /\ pending = FALSE /\ subscribed = FALSE
    /\ socket = "none" /\ toServer = <<>> /\ toBrowser = <<>>
    /\ changes = 0 /\ faults = 0 /\ published = <<>>

-----------------------------------------------------------------------------
(* The cache.                                                              *)

\* What recompute leaves in the cache.
Recomputed ==
    IF ~Visible THEN NoEntry
    ELSE IF cache # NoEntry /\ cache.value = source THEN cache
    ELSE [rev |-> cache.rev + 1, value |-> source]

\* Mutant: a key is taken to be current as long as it is cached.
CurrentCached == IF cache = NoEntry THEN Recomputed ELSE cache

\* What getSnapshot returns, NoEntry for null.
Current == IF dirty \/ cache = NoEntry THEN Recomputed ELSE cache

\* A read of `new`: keys that are pending are dirty, so none is pending after it.
Keep(new) ==
    /\ cache' = new /\ dirty' = FALSE /\ pending' = FALSE
    /\ published' = IF new \in {cache, NoEntry} THEN published
                    ELSE Append(published, [gen |-> generation, rev |-> new.rev,
                                            value |-> new.value])

\* publish, for a subscriber: a patch, if that is smaller than the value.
Publication(new) ==
    LET patch == PatchFrom(cache.value, new.value)
        whole == cache = NoEntry \/ DOMAIN patch = Fields
    IN  IF new \in {cache, NoEntry} THEN <<>>
        ELSE <<[kind |-> IF whole THEN "update" ELSE "patch",
                gen |-> generation, rev |-> new.rev,
                change |-> IF whole THEN new.value ELSE patch]>>

SnapshotOf(new) ==
    [kind |-> "snapshot", gen |-> generation, rev |-> new.rev, change |-> new.value]

\* The subscriber's share of a read by anybody.
Push(new) ==
    toBrowser' = toBrowser \o (IF subscribed THEN Publication(new) ELSE <<>>)

-----------------------------------------------------------------------------
(* The session.                                                            *)

\* The source changes, or nothing does, and the key is invalidated.  A change on
\* another session's board (invalidateLeaderThreadTabsForQuestIds) leaves keys
\* without subscribers alone.
Change(origin, value) ==
    /\ Visible \/ value = source
    /\ changes < MaxChanges /\ changes' = changes + 1
    /\ source' = value
    /\ dirty' = (dirty \/ origin = "own" \/ subscribed)
    /\ pending' = (pending \/ subscribed)
    /\ UNCHANGED <<generation, life, cache, published, subscribed, wire>>

\* archiveSingleSession up to its await: the session is archived, and nobody
\* is told yet.
Archive ==
    /\ life = "active" /\ life' = "archiving"
    /\ UNCHANGED <<generation, source, changes, entry, subscribed, wire>>

\* Its end: every browser is told.
Announce ==
    /\ life = "archiving" /\ life' = "archived"
    /\ toBrowser' = IF socket = "up" THEN Append(toBrowser, [kind |-> "archived"])
                    ELSE toBrowser
    /\ UNCHANGED <<generation, source, changes, entry, subscribed, socket, toServer, faults>>

\* kill fails, or the session is restored.
Restore ==
    /\ life \in Restorable /\ life' = "active"
    /\ UNCHANGED <<generation, source, changes, entry, subscribed, wire>>

-----------------------------------------------------------------------------
(* The runtime.                                                            *)

\* flush.
Flush ==
    /\ pending
    /\ IF subscribed THEN Keep(Recomputed) /\ Push(Recomputed)
       ELSE pending' = FALSE /\ UNCHANGED <<cache, dirty, published, toBrowser>>
    /\ UNCHANGED <<generation, session, subscribed, socket, toServer, faults>>

\* getSnapshot for somebody else: another subscriber, or a list of sessions.
Peek ==
    /\ Visible /\ Current # cache
    /\ Keep(Current) /\ Push(Current)
    /\ UNCHANGED <<generation, session, subscribed, socket, toServer, faults>>

\* Mutant: the acknowledgement goes ahead of its snapshot.
AcknowledgeFirst(m) ==
    LET accepted == m.wants /\ Visible
        current == m.known = [gen |-> generation, rev |-> Current.rev]
    IN  /\ subscribed' = accepted
        /\ IF accepted THEN Keep(Current) ELSE UNCHANGED entry
        /\ toBrowser' = toBrowser
             \o <<[kind |-> "ack", accepted |-> accepted,
                   current |-> accepted /\ current]>>
             \o (IF accepted /\ ~current THEN <<SnapshotOf(Current)>> ELSE <<>>)

\* replaceSubscriptions.  The socket is detached while the snapshot is taken.
ReplaceSubscriptions(m) ==
    LET accepted == m.wants /\ Visible
        current == m.known = [gen |-> generation, rev |-> Current.rev]
    IN  /\ subscribed' = accepted
        /\ IF accepted THEN Keep(Current) ELSE UNCHANGED entry
        /\ toBrowser' = toBrowser
             \o (IF accepted /\ ~current THEN <<SnapshotOf(Current)>> ELSE <<>>)
             \o <<[kind |-> "ack", accepted |-> accepted,
                   current |-> accepted /\ current]>>

\* resync.
AnswerResync ==
    /\ subscribed' = (subscribed /\ Visible)
    /\ IF subscribed'
       THEN /\ Keep(Current)
            /\ toBrowser' = toBrowser \o Publication(Current) \o <<SnapshotOf(Current)>>
       ELSE UNCHANGED <<entry, toBrowser>>

\* A message from the browser.
Handle ==
    /\ toServer # <<>> /\ toServer' = Tail(toServer)
    /\ LET m == Head(toServer)
       IN  IF m.kind = "subscribe" THEN ReplaceSubscriptions(m) ELSE AnswerResync
    /\ UNCHANGED <<generation, session, socket, faults>>

\* The socket breaks, and the server notices (removeSubscriber): what is on its
\* way is lost.
Severed ==
    /\ socket' = IF socket = "up" THEN "cut" ELSE socket
    /\ toServer' = <<>> /\ toBrowser' = <<>>
    /\ subscribed' = FALSE

Break ==
    /\ socket = "up" /\ faults < MaxFaults /\ faults' = faults + 1
    /\ Severed
    /\ UNCHANGED <<generation, session, entry>>

\* A new process, with a generation of its own.
RestartServer ==
    /\ faults < MaxFaults /\ faults' = faults + 1
    /\ generation' = generation + 1
    /\ life' = IF Visible THEN life ELSE "loaded"
    /\ cache' = NoEntry /\ dirty' = FALSE /\ pending' = FALSE
    /\ Severed
    /\ UNCHANGED <<source, changes, published>>
=============================================================================
