----------------------------- MODULE HostAgent -----------------------------
(***************************************************************************)
(* The host's end of the link: the `takode node` of one machine            *)
(* (src/web/server/remote-host/host-agent.ts).                             *)
(*                                                                         *)
(* It applies the coordinator's commands in order, runs the processes and  *)
(* keeps their events until the coordinator acknowledged them.  A restart  *)
(* of the node loses its processes and everything else.                    *)
(***************************************************************************)
EXTENDS HostProtocol

VARIABLES
    agentId,               \* this.instanceId: which node instance runs (1, 2, ...)
    coordinatorInstanceId, \* this.coordinatorInstanceId; 0 is null
    highestEpoch,          \* this.highestEpoch
    appliedCommandSeq,     \* this.appliedCommandSeq
    phase,                 \* each process; the host keeps those not "absent"
    nextSeq,               \* hosted.nextSeq
    pending,               \* hosted.pending, numbered up to nextSeq - 1
    unfinishedLine,        \* hosted.unfinishedLine
    written,               \* history: stdout units the process wrote
    updating,              \* this.updating
    replaying,             \* processes a welcome being handled still replays
    ran                    \* history: commands this instance applied

agentVars ==
    <<agentId, coordinatorInstanceId, highestEpoch, appliedCommandSeq, phase,
      nextSeq, pending, unfinishedLine, written, updating, replaying, ran>>

(***************************************************************************)
(* "starting" the child runs but has not reported its spawn; "exited" its  *)
(* exit event was recorded (hosted.exited).                                *)
(***************************************************************************)
Phase == {"absent", "starting", "running", "exited"}

AgentTypeOK ==
    /\ agentId \in Nat \ {0}
    /\ coordinatorInstanceId \in Nat
    /\ highestEpoch \in Nat
    /\ appliedCommandSeq \in Nat
    /\ phase \in [Procs -> Phase]
    /\ nextSeq \in [Procs -> Nat \ {0}]
    /\ pending \in [Procs -> Seq(Event)]
    /\ unfinishedLine \in [Procs -> SUBSET Unit]
    /\ written \in [Procs -> Nat]
    /\ updating \in BOOLEAN
    /\ replaying \in SUBSET Procs
    /\ ran \in Seq([coord : Nat, id : Nat])


AgentInit ==
    /\ agentId = 1
    /\ coordinatorInstanceId = 0
    /\ highestEpoch = 0
    /\ appliedCommandSeq = 0
    /\ phase = [p \in Procs |-> "absent"]
    /\ nextSeq = [p \in Procs |-> 1]
    /\ pending = [p \in Procs |-> <<>>]
    /\ unfinishedLine = [p \in Procs |-> {}]
    /\ written = [p \in Procs |-> 0]
    /\ updating = FALSE
    /\ replaying = {}
    /\ ran = <<>>

\* this.processes
Hosted == {p \in Procs : phase[p] # "absent"}

\* Sequence number of the oldest event kept.
FirstPending(p) == nextSeq[p] - Len(pending[p])

EventMessages(p, first, events) ==
    [i \in DOMAIN events |-> [t |-> "event", proc |-> p,
                              seq |-> first + i - 1, event |-> events[i]]]

OnlyReports == UNCHANGED <<linkSocket, agentSocket, paired, toHost, breaks>>

-----------------------------------------------------------------------------
(***************************************************************************)
(* The socket.                                                             *)
(***************************************************************************)
\* onopen
HelloMessage ==
    [t |-> "hello", inst |-> agentId, applied |-> appliedCommandSeq,
     from |-> coordinatorInstanceId, procs |-> Hosted]

\* onclose, the stale check of tick, an undecodable frame.
SocketDown ==
    /\ agentSocket
    /\ replaying = {}
    /\ HostLetsGo
    /\ UNCHANGED agentVars

AgentReceives(type) ==
    /\ agentSocket
    /\ replaying = {}
    /\ toHost # <<>>
    /\ Head(toHost).t = type

AgentConsumes ==
    /\ toHost' = Tail(toHost)
    /\ UNCHANGED <<linkSocket, agentSocket, paired, breaks>>

-----------------------------------------------------------------------------
(***************************************************************************)
(* Welcome.  Each kept process replays its pending events; Replay sends    *)
(* those of one process, and no other step of the node comes in between.   *)
(***************************************************************************)
\* Mutant: the welcome is refused, but its socket is not closed.
IgnoreWelcome ==
    /\ AgentReceives("welcome")
    /\ Head(toHost).epoch < highestEpoch
    /\ AgentConsumes
    /\ UNCHANGED <<toCoord, agentVars>>

\* An older coordinator than one already seen must not drive processes here.
RefuseWelcome ==
    /\ AgentReceives("welcome")
    /\ Head(toHost).epoch < highestEpoch
    /\ HostLetsGo
    /\ UNCHANGED <<breaks, agentVars>>

\* Ends the processes the coordinator does not list.
KeepListed(listed) ==
    phase' = [p \in Procs |-> IF p \in listed THEN phase[p] ELSE "absent"]

\* The same coordinator: drop what it received.
Resume(welcome) ==
    /\ KeepListed(welcome.listed)
    /\ pending' = [p \in Procs |->
         IF p \notin welcome.listed THEN <<>>
         ELSE IF welcome.received[p] < FirstPending(p) THEN pending[p]
         ELSE SubSeq(pending[p], welcome.received[p] - FirstPending(p) + 2,
                     Len(pending[p]))]
    /\ nextSeq' = [p \in Procs |-> IF p \in welcome.listed THEN nextSeq[p] ELSE 1]
    /\ unfinishedLine' = [p \in Procs |->
         IF p \in welcome.listed THEN unfinishedLine[p] ELSE {}]
    /\ UNCHANGED <<coordinatorInstanceId, appliedCommandSeq>>

\* Mutant: new events keep counting from the old numbers.
AdoptByOldNumbers(welcome) ==
    /\ coordinatorInstanceId' = welcome.coord
    /\ appliedCommandSeq' = 0
    /\ KeepListed(welcome.listed)
    /\ pending' = [p \in Procs |-> IF p \in welcome.listed THEN pending[p] ELSE <<>>]
    /\ UNCHANGED nextSeq
    /\ unfinishedLine' = [p \in Procs |-> {}]

\* adoptBy: a new coordinator: number everything from 1 again, after the
\* partial line the last one saw only part of.
AdoptBy(welcome) ==
    /\ coordinatorInstanceId' = welcome.coord
    /\ appliedCommandSeq' = 0
    /\ KeepListed(welcome.listed)
    /\ pending' = [p \in Procs |->
         IF p \notin welcome.listed THEN <<>>
         ELSE IF unfinishedLine[p] = {} THEN pending[p]
         ELSE <<Stdout(unfinishedLine[p])>> \o pending[p]]
    /\ nextSeq' = [p \in Procs |-> Len(pending'[p]) + 1]
    /\ unfinishedLine' = [p \in Procs |-> {}]

TakeWelcome ==
    /\ AgentConsumes
    /\ highestEpoch' = Head(toHost).epoch
    /\ LET welcome == Head(toHost)
       IN  /\ IF welcome.coord = coordinatorInstanceId THEN Resume(welcome)
                                                       ELSE AdoptBy(welcome)
           /\ replaying' = {p \in Hosted \cap welcome.listed : pending'[p] # <<>>}
    /\ UNCHANGED <<toCoord, agentId, written, updating, ran>>

ReceiveWelcome ==
    /\ AgentReceives("welcome")
    /\ Head(toHost).epoch >= highestEpoch
    /\ TakeWelcome

Replay(p) ==
    /\ p \in replaying
    /\ replaying' = replaying \ {p}
    /\ HostSends(EventMessages(p, FirstPending(p), pending[p]))
    /\ OnlyReports
    /\ UNCHANGED <<agentId, coordinatorInstanceId, highestEpoch,
                   appliedCommandSeq, phase, nextSeq, pending, unfinishedLine,
                   written, updating, ran>>

-----------------------------------------------------------------------------
(***************************************************************************)
(* Commands.                                                               *)
(***************************************************************************)
Ack(seq) == [t |-> "command_ack", seq |-> seq]

\* Applied before, or after a gap the next welcome resends.
ReceiveOldCommand ==
    /\ AgentReceives("command")
    /\ Head(toHost).seq # appliedCommandSeq + 1
    /\ AgentConsumes
    /\ IF Head(toHost).seq <= appliedCommandSeq
         THEN HostSends(<<Ack(Head(toHost).seq)>>)
         ELSE UNCHANGED toCoord
    /\ UNCHANGED agentVars

Applies(seq, cmd) ==
    /\ appliedCommandSeq' = seq
    /\ ran' = Append(ran, [coord |-> cmd.coord, id |-> cmd.id])
    /\ UNCHANGED <<agentId, coordinatorInstanceId, highestEpoch, updating,
                   replaying>>

Opened == <<Plain("spawned")>>
CannotStart == <<Plain("error"), Plain("exit")>>

\* spawn, spawnTerminal: a fresh entry for the process.  A child reports its
\* spawn later; a terminal at once; what cannot start (or whose prepared launch
\* is gone) an error and its exit at once.
Spawn(p, seq, events) ==
    /\ phase' = [phase EXCEPT ![p] = IF events = <<>> THEN "starting"
                                       ELSE IF events = Opened THEN "running"
                                       ELSE "exited"]
    /\ nextSeq' = [nextSeq EXCEPT ![p] = Len(events) + 1]
    /\ pending' = [pending EXCEPT ![p] = events]
    /\ unfinishedLine' = [unfinishedLine EXCEPT ![p] = {}]
    /\ written' = [written EXCEPT ![p] = 0]
    /\ HostSends((IF coordinatorInstanceId # 0 THEN EventMessages(p, 1, events)
                                               ELSE <<>>) \o <<Ack(seq)>>)

ApplyCommand ==
    /\ AgentConsumes
    /\ LET seq == Head(toHost).seq
           cmd == Head(toHost).cmd
       IN  /\ Applies(seq, cmd)
           /\ IF cmd.kind = "spawn"
                THEN \E events \in {<<>>, Opened, CannotStart} :
                       Spawn(cmd.proc, seq, events)
                ELSE /\ HostSends(<<Ack(seq)>>)
                     /\ UNCHANGED <<phase, nextSeq, pending, unfinishedLine, written>>

\* Mutant: a command the node applied before is applied again.
ReceiveCommandAgain ==
    /\ AgentReceives("command")
    /\ Head(toHost).seq <= appliedCommandSeq + 1
    /\ ApplyCommand

ReceiveCommand ==
    /\ AgentReceives("command")
    /\ Head(toHost).seq = appliedCommandSeq + 1
    /\ ApplyCommand

-----------------------------------------------------------------------------
(***************************************************************************)
(* Events.                                                                 *)
(***************************************************************************)
\* emit, once per event
Emit(p, events) ==
    /\ replaying = {}
    /\ nextSeq' = [nextSeq EXCEPT ![p] = @ + Len(events)]
    /\ pending' = [pending EXCEPT ![p] = @ \o events]
    /\ IF coordinatorInstanceId # 0
         THEN HostSends(EventMessages(p, nextSeq[p], events))
         ELSE UNCHANGED toCoord
    /\ OnlyReports
    /\ UNCHANGED <<agentId, coordinatorInstanceId, highestEpoch,
                   appliedCommandSeq, unfinishedLine, updating, replaying, ran>>

ProcessSpawned(p) ==
    /\ phase[p] = "starting"
    /\ phase' = [phase EXCEPT ![p] = "running"]
    /\ Emit(p, <<Plain("spawned")>>)
    /\ UNCHANGED written

\* The child reports an error before it started (no such program).
ProcessFails(p) ==
    /\ phase[p] = "starting"
    /\ phase' = [phase EXCEPT ![p] = "exited"]
    /\ Emit(p, CannotStart)
    /\ UNCHANGED written

ProcessOutput(p) ==
    /\ phase[p] = "running"
    /\ \E k \in 1..MaxChunk : \E ends \in [written[p] + 1..written[p] + k -> BOOLEAN] :
         /\ written[p] + k <= MaxUnits
         /\ written' = [written EXCEPT ![p] = @ + k]
         /\ Emit(p, <<Stdout({[n |-> i, eol |-> ends[i]] : i \in DOMAIN ends})>>)
    /\ UNCHANGED phase

ProcessExit(p) ==
    /\ phase[p] = "running"
    /\ phase' = [phase EXCEPT ![p] = "exited"]
    /\ Emit(p, <<Plain("exit")>>)
    /\ UNCHANGED written

\* lineRemainder over acknowledged chunks: the units after the last newline.
LineRemainder(units) ==
    {u \in units : ~u.eol /\ \A e \in units : e.eol => e.n < u.n}

\* Units of the first k pending events of p.
FirstUnits(p, k) == UNION {pending[p][i].units : i \in 1..k}

ReceiveEventAck ==
    /\ AgentReceives("event_ack")
    /\ AgentConsumes
    /\ LET p == Head(toHost).proc
           seq == Head(toHost).seq
           acked == IF seq < FirstPending(p) THEN 0
                    ELSE IF seq >= nextSeq[p] THEN Len(pending[p])
                    ELSE seq - FirstPending(p) + 1
           rest == SubSeq(pending[p], acked + 1, Len(pending[p]))
           forget == phase[p] = "exited" /\ rest = <<>>
       IN  IF p \notin Hosted
             THEN UNCHANGED <<pending, nextSeq, unfinishedLine, phase>>
             ELSE /\ pending' = [pending EXCEPT ![p] = rest]
                  /\ unfinishedLine' = [unfinishedLine EXCEPT ![p] =
                       IF forget THEN {} ELSE LineRemainder(@ \cup FirstUnits(p, acked))]
                  /\ phase' = [phase EXCEPT ![p] = IF forget THEN "absent" ELSE @]
                  /\ nextSeq' = [nextSeq EXCEPT ![p] = IF forget THEN 1 ELSE @]
    /\ UNCHANGED <<toCoord, agentId, coordinatorInstanceId, highestEpoch,
                   appliedCommandSeq, written, updating, replaying, ran>>

-----------------------------------------------------------------------------
(***************************************************************************)
(* Updating and restarting the node.                                       *)
(***************************************************************************)
\* applyUpdate: one at a time; success restarts the node.
ReceiveUpdate ==
    /\ AgentReceives("update")
    /\ AgentConsumes
    /\ updating' = TRUE
    /\ UNCHANGED <<toCoord, agentId, coordinatorInstanceId, highestEpoch,
                   appliedCommandSeq, phase, nextSeq, pending, unfinishedLine,
                   written, replaying, ran>>

UpdateFails ==
    /\ updating
    /\ replaying = {}
    /\ updating' = FALSE
    /\ HostSends(<<[t |-> "update_failed"]>>)
    /\ OnlyReports
    /\ UNCHANGED <<agentId, coordinatorInstanceId, highestEpoch,
                   appliedCommandSeq, phase, nextSeq, pending, unfinishedLine,
                   written, replaying, ran>>

\* The node ends (update, crash, replacement) and a new instance starts.
NodeRestart ==
    /\ agentId < MaxHosts
    /\ agentId' = agentId + 1
    /\ agentSocket' = FALSE /\ paired' = FALSE /\ toHost' = <<>>
    /\ UNCHANGED <<linkSocket, toCoord, breaks>>
    /\ coordinatorInstanceId' = 0
    /\ highestEpoch' = 0
    /\ appliedCommandSeq' = 0
    /\ phase' = [p \in Procs |-> "absent"]
    /\ nextSeq' = [p \in Procs |-> 1]
    /\ pending' = [p \in Procs |-> <<>>]
    /\ unfinishedLine' = [p \in Procs |-> {}]
    /\ updating' = FALSE
    /\ replaying' = {}
    /\ ran' = <<>>
    /\ UNCHANGED written
=============================================================================
