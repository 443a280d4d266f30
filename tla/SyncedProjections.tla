-------------------------- MODULE SyncedProjections --------------------------
(***************************************************************************)
(* A synced projection of one session between the server and one browser:  *)
(* the runtime's cache and subscriptions, the socket, the browser's cache, *)
(* and the lists of sessions it also gets snapshots from.                  *)
(***************************************************************************)
EXTENDS ProjectionCache

vars == <<runtimeVars, cacheVars>>

TypeOK == RuntimeTypeOK /\ CacheTypeOK

Init == RuntimeInit /\ CacheInit

\* The server's steps that leave the browser alone.
ServerStep ==
    /\ \/ \E origin \in Origins, value \in Value : Change(origin, value)
       \/ Archive \/ Announce \/ Restore
       \/ Flush \/ Peek \/ Handle \/ Break
    /\ UNCHANGED cacheVars

\* A restart fails the requests that are not answered.
Restart ==
    /\ RestartServer
    /\ requests' = {r \in requests : r.answered}
    /\ UNCHANGED <<store, transport, sequence>>

Receive == ReceiveSnapshot \/ ReceiveUpdate \/ ReceiveAck \/ ReceiveArchived

Next ==
    \/ ServerStep \/ Restart
    \/ Connect \/ Notice \/ Refresh \/ Reload \/ Receive
    \/ Ask \/ \E r \in requests : Serve(r) \/ Hydrate(r) \/ Lose(r)

Spec == Init /\ [][Next]_vars

\* Nothing makes the source change, a list be asked for or served.  Microtasks run, messages on a living socket arrive, a dead one is noticed and
\* replaced (scheduleReconnect), and a changed list is rendered.
Fairness ==
    /\ WF_vars(Flush /\ UNCHANGED cacheVars)
    /\ WF_vars(Handle /\ UNCHANGED cacheVars)
    /\ WF_vars(Receive)
    /\ WF_vars(Notice) /\ WF_vars(Connect) /\ WF_vars(Refresh)
    /\ WF_vars(\E r \in requests : Hydrate(r) \/ Lose(r))

FairSpec == Spec /\ Fairness

-----------------------------------------------------------------------------

\* "Keys whose source changed and must be recomputed before the next snapshot or
\* publication" (synced-projection-runtime.ts:164): a cached value that is not
\* marked dirty is what would be derived now.  It does not hold when another
\* session's board may change the source.
CleanIsCurrent == cache # NoEntry /\ Visible /\ ~dirty => cache.value = source

\* A browser that takes its socket to keep it current (syncedProjectionsLive, by
\* which it leaves snapshots out of the lists it asks for) is right to: with nothing
\* on its way it holds the server's present value and version and is subscribed,
\* whatever lists, breaks, restarts and subscriptions came before.
LiveMeansCurrent ==
    /\ Live /\ Wanted /\ socket = "up" /\ life = "active"
    /\ toServer = <<>> /\ toBrowser = <<>> /\ ~pending
    => /\ subscribed
       /\ held = [gen |-> generation, rev |-> cache.rev, value |-> source]

\* "The replacing subscriber receives each accepted revision exactly once through the
\* returned snapshot set" (synced-projection-runtime.ts:277), and the later ones as
\* updates: a browser never finds a gap, an update it has no value for, or an
\* acknowledgement without its snapshot, which would make it ask for a resync.
NoResync == ~resyncing

\* Where the entry that the browser held last is among the server's.
IndexOf(version) ==
    IF version = NoVersion THEN 0
    ELSE CHOOSE i \in DOMAIN published :
        [gen |-> published[i].gen, rev |-> published[i].rev] = version

Mirror == INSTANCE ProjectionMirror WITH
    log <- [i \in DOMAIN published |-> published[i].value],
    at <- IndexOf(last),
    shown <- IF held = NoHeld THEN {} ELSE {held.value}

\* A browser shows a value the server had under that very generation and revision,
\* and never an older one after a newer one, in whichever order snapshots, updates,
\* acknowledgements and lists come, for as long as it keeps the key's ordering
\* metadata (store-synced-projections.ts): the projection implements ProjectionMirror.
Mirrors == Mirror!Spec

\* "Reconnect convergence always comes from snapshots" (synced-projection-runtime.ts:155):
\* a browser that keeps listing a session finally shows its last value, and it shows
\* nothing of an archived session, even if it missed the announcement or a late list
\* brought the row back.
Converges ==
    /\ [](life = "active") /\ <>[]Wanted => <>[](held # NoHeld /\ held.value = source)
    /\ <>[](life \in {"archived", "loaded"}) => <>[](Wanted => held = NoHeld)
=============================================================================
