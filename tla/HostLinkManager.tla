-------------------------- MODULE HostLinkManager --------------------------
(***************************************************************************)
(* The coordinator's end of one host link                                  *)
(* (src/web/server/remote-host/host-link-manager.ts).                      *)
(*                                                                         *)
(* Sessions enqueue commands and read process output without seeing        *)
(* whether the host is connected.  Queued commands wait in `unacked` until *)
(* the host acknowledges them; events are applied in order and             *)
(* acknowledged.  A restart of the coordinator loses all of it, except the *)
(* process ids the sessions saved.                                         *)
(***************************************************************************)
EXTENDS HostProtocol

VARIABLES
    instanceId,     \* which coordinator instance runs (1, 2, ...)
    online,         \* link.online
    hostInstanceId, \* link.hostInstanceId; 0 is null
    unacked,        \* link.unacked
    nextCommandSeq, \* link.nextCommandSeq
    commandCount,   \* history: commands ever enqueued
    remote,         \* state of each RemoteProcess; link.processes is the live ones
    started,        \* processes with proc.started
    lastEventSeq,   \* proc.lastEventSeq of the live processes
    stdout,         \* what this coordinator read of each process
    seen,           \* history: units some coordinator read of each process
    used,           \* history: process ids ever given out
    adoptable,      \* process ids saved before the restart, not yet adopted
    pendingAcks,    \* acknowledgements the next setImmediate sends; 0 is none
    update,         \* stage of the update asked of the current host instance
    asking,         \* host instances whose prepareHostUpdate is under way
    updateCount     \* history: updates ever asked for

linkVars == <<instanceId, online, hostInstanceId>>
queueVars == <<unacked, nextCommandSeq, commandCount>>
processVars == <<remote, started, lastEventSeq, stdout, seen, used, adoptable>>
updateVars == <<update, asking, updateCount>>
managerVars == <<linkVars, queueVars, processVars, pendingAcks, updateVars>>

(***************************************************************************)
(* link.updateRequested, updateSent and updateError as one stage:          *)
(* "none"   nothing requested                                              *)
(* "asked"  requested; its sessions are being stopped                      *)
(* "sent"   the node was told and will restart: commands wait              *)
(* "failed" it could not be prepared, or the node reported a failure or    *)
(*          never came back: not asked again                               *)
(***************************************************************************)
Stage == {"none", "asked", "sent", "failed"}

ManagerTypeOK ==
    /\ instanceId \in 1..MaxCoords
    /\ online \in BOOLEAN
    /\ hostInstanceId \in Nat
    /\ unacked \in Seq(QueuedCommand)
    /\ nextCommandSeq \in Nat \ {0}
    /\ commandCount \in Nat
    /\ remote \in [Procs -> {"none", "live", "exited", "failed"}]
    /\ started \in SUBSET Procs
    /\ lastEventSeq \in [Procs -> Nat]
    /\ stdout \in [Procs -> Seq(SUBSET Unit)]
    /\ seen \in [Procs -> SUBSET Unit]
    /\ used \in SUBSET Procs
    /\ adoptable \in SUBSET Procs
    /\ pendingAcks \in [Procs -> Nat]
    /\ update \in Stage
    /\ asking \in SUBSET Nat
    /\ updateCount \in Nat

ManagerInit ==
    /\ instanceId = 1
    /\ online = FALSE
    /\ hostInstanceId = 0
    /\ unacked = <<>>
    /\ nextCommandSeq = 1
    /\ commandCount = 0
    /\ remote = [p \in Procs |-> "none"]
    /\ started = {}
    /\ lastEventSeq = [p \in Procs |-> 0]
    /\ stdout = [p \in Procs |-> <<>>]
    /\ seen = [p \in Procs |-> {}]
    /\ used = {}
    /\ adoptable = {}
    /\ pendingAcks = [p \in Procs |-> 0]
    /\ update = "none"
    /\ asking = {}
    /\ updateCount = 0

\* link.processes
Live == {p \in Procs : remote[p] = "live"}

\* A step that only sends to the host leaves the rest of the wire alone.
OnlySends == UNCHANGED <<linkSocket, agentSocket, paired, toCoord, breaks>>

-----------------------------------------------------------------------------
(***************************************************************************)
(* Commands from the sessions.                                             *)
(***************************************************************************)
Queues(queued) ==
    /\ commandCount < MaxCommands
    /\ commandCount' = commandCount + 1
    /\ nextCommandSeq' = nextCommandSeq + 1
    /\ unacked' = Append(unacked, queued)
    /\ OnlySends

\* Mutant: a command goes out although the node was told to update.
EnqueueDuringUpdate(kind, p) ==
    LET queued == [seq |-> nextCommandSeq,
                   cmd |-> [id |-> commandCount + 1, coord |-> instanceId,
                            kind |-> kind, proc |-> p]]
    IN  /\ Queues(queued)
        /\ IF online THEN CoordinatorSends(CommandMessages(<<queued>>))
                     ELSE UNCHANGED toHost

Enqueue(kind, p) ==
    LET cmd == [id |-> commandCount + 1, coord |-> instanceId,
                kind |-> kind, proc |-> p]
        queued == [seq |-> nextCommandSeq, cmd |-> cmd]
    IN  /\ Queues(queued)
        /\ IF online /\ linkSocket /\ update # "sent"
             THEN CoordinatorSends(CommandMessages(<<queued>>))
             ELSE UNCHANGED toHost

\* spawn, spawnTerminal: a process under a new id.
StartProcess(p) ==
    /\ p \notin used
    /\ Enqueue("spawn", p)
    /\ used' = used \cup {p}
    /\ remote' = [remote EXCEPT ![p] = "live"]
    /\ UNCHANGED <<linkVars, started, lastEventSeq, stdout, seen, adoptable,
                   pendingAcks, updateVars>>

\* Stdin, kill and resize; stdin may still be written after the process ended.
Control(p) ==
    /\ remote[p] # "none"
    /\ Enqueue("control", p)
    /\ UNCHANGED <<linkVars, processVars, pendingAcks, updateVars>>

WriteFileInOrder ==
    /\ Enqueue("write_file", NoProc)
    /\ UNCHANGED <<linkVars, processVars, pendingAcks, updateVars>>

(***************************************************************************)
(* Take over a process an earlier coordinator started.  It fails at once   *)
(* (a microtask) when the host has already connected without it.           *)
(***************************************************************************)
Adopt(p) ==
    /\ p \in adoptable
    /\ adoptable' = adoptable \ {p}
    /\ IF hostInstanceId # 0
         THEN /\ remote' = [remote EXCEPT ![p] = "failed"]
              /\ UNCHANGED started
         ELSE /\ remote' = [remote EXCEPT ![p] = "live"]
              /\ started' = started \cup {p}
    /\ UNCHANGED <<wireVars, linkVars, queueVars, lastEventSeq, stdout, seen,
                   used, pendingAcks, updateVars>>

\* What ends processes from this side: proc.fail for each of `ps`.
FailProcesses(ps) ==
    /\ remote' = [p \in Procs |-> IF p \in ps THEN "failed" ELSE remote[p]]
    /\ lastEventSeq' = [p \in Procs |-> IF p \in ps THEN 0 ELSE lastEventSeq[p]]
    /\ started' = started \ ps

\* Give up on an offline host that will not connect again (local-node.ts).
Release ==
    /\ ~online
    /\ \E kept \in Filtered(unacked, {i \in DOMAIN unacked :
                                        unacked[i].cmd.proc = NoProc}) :
         unacked' = kept
    /\ FailProcesses(Live)
    /\ UNCHANGED <<wireVars, linkVars, nextCommandSeq, commandCount, stdout,
                   seen, used, adoptable, pendingAcks, updateVars>>

-----------------------------------------------------------------------------
(***************************************************************************)
(* The socket.                                                             *)
(***************************************************************************)
\* attach: a newer socket replaces the old one; `online` stays as it was.
Attach ==
    /\ linkSocket' = TRUE
    /\ pendingAcks' = [p \in Procs |-> 0]
    /\ UNCHANGED <<linkVars, queueVars, processVars, updateVars>>

\* detach, disconnect, the stale check of tick, an undecodable frame.
LinkDown ==
    /\ linkSocket
    /\ CoordinatorLetsGo
    /\ online' = FALSE
    /\ pendingAcks' = [p \in Procs |-> 0]
    /\ UNCHANGED <<instanceId, hostInstanceId, queueVars, processVars,
                   updateVars>>

-----------------------------------------------------------------------------
(***************************************************************************)
(* Frames from the host.                                                   *)
(***************************************************************************)
ManagerReceives(type) == linkSocket /\ toCoord # <<>> /\ Head(toCoord).t = type

ManagerConsumes ==
    /\ toCoord' = Tail(toCoord)
    /\ UNCHANGED <<linkSocket, agentSocket, paired, breaks>>

(***************************************************************************)
(* A host instance this link did not know: the first one since this        *)
(* coordinator started keeps the processes it reports, a later one has     *)
(* lost them all.  Commands for processes that are left, and file writes,  *)
(* are numbered anew; commands for ended processes go.                     *)
(***************************************************************************)
\* Mutant: a restarted node keeps its processes.
LostNone(hello) == {}

Lost(hello) ==
    LET running == IF hostInstanceId = 0 THEN hello.procs ELSE {}
    IN  {p \in Live : p \in started /\ p \notin running}

\* Mutant: the kept commands keep their old numbers.
NotRenumbered(queue) == queue

Renumbered(queue) ==
    [i \in DOMAIN queue |-> [seq |-> i, cmd |-> queue[i].cmd]]

Kept(hello) ==
    Filtered(unacked, {i \in DOMAIN unacked :
                         unacked[i].cmd.proc \in {NoProc} \cup (Live \ Lost(hello))})

\* Mutant: numbering resumes one too low.
NewInstanceOffByOne(hello) ==
    /\ FailProcesses(Lost(hello))
    /\ \E kept \in Kept(hello) :
         /\ unacked' = Renumbered(kept)
         /\ nextCommandSeq' = Len(kept)
    /\ hostInstanceId' = hello.inst
    /\ update' = "none"

NewInstance(hello) ==
    /\ FailProcesses(Lost(hello))
    /\ \E kept \in Kept(hello) :
         /\ unacked' = Renumbered(kept)
         /\ nextCommandSeq' = Len(kept) + 1
    /\ hostInstanceId' = hello.inst
    /\ update' = "none"

WelcomeMessage ==
    [t |-> "welcome", coord |-> instanceId, epoch |-> Epoch[instanceId],
     listed |-> {p \in Procs : remote'[p] = "live"}, received |-> lastEventSeq']

\* Mutant: numbers another coordinator gave count as well.
AppliedWhoever(hello) == hello.applied

\* Applied numbers mean something only for the coordinator that gave them.
Applied(hello) == IF hello.from = instanceId THEN hello.applied ELSE 0

ReceiveHello ==
    /\ ManagerReceives("hello")
    /\ ManagerConsumes
    /\ LET hello == Head(toCoord)
           same == hostInstanceId = hello.inst
           held == same /\ update = "sent"
       IN  /\ IF same
                THEN UNCHANGED <<remote, lastEventSeq, started, unacked,
                                 nextCommandSeq, hostInstanceId, update>>
                ELSE NewInstance(hello)
           /\ IF held
                THEN CoordinatorSends(<<WelcomeMessage, [t |-> "update"]>>)
                ELSE \E rest \in Filtered(unacked', {i \in DOMAIN unacked' :
                                                  unacked'[i].seq > Applied(hello)}) :
                       CoordinatorSends(<<WelcomeMessage>> \o CommandMessages(rest))
    /\ online' = TRUE
    /\ UNCHANGED <<instanceId, commandCount, stdout, seen, used, adoptable,
                   pendingAcks, asking, updateCount>>

\* RemoteProcess.apply
Apply(p, event) ==
    /\ started' = IF event.kind = "spawned" THEN started \cup {p}
                  ELSE IF event.kind = "exit" THEN started \ {p} ELSE started
    /\ stdout' = IF event.kind = "stdout"
                   THEN [stdout EXCEPT ![p] = Append(@, event.units)] ELSE stdout
    /\ seen' = [seen EXCEPT ![p] = @ \cup event.units]
    /\ remote' = IF event.kind = "exit"
                   THEN [remote EXCEPT ![p] = "exited"] ELSE remote

Acknowledge(p, seq) ==
    pendingAcks' = [pendingAcks EXCEPT ![p] = IF seq > @ THEN seq ELSE @]

\* Mutants: a repeated event, or one after a gap, is taken for the next.
IsNextOrRepeated(p, seq) == p \in Live /\ seq <= lastEventSeq[p] + 1
IsNextOrLater(p, seq) == p \in Live /\ seq > lastEventSeq[p]

IsNext(p, seq) == p \in Live /\ seq = lastEventSeq[p] + 1

\* The next event of a process is applied; a gap waits for the host's replay.
ReceiveEvent ==
    /\ ManagerReceives("event")
    /\ ManagerConsumes
    /\ LET p == Head(toCoord).proc
           seq == Head(toCoord).seq
           next == IsNext(p, seq)
           exits == next /\ Head(toCoord).event.kind = "exit"
       IN  /\ IF next THEN Apply(p, Head(toCoord).event)
                      ELSE UNCHANGED <<started, stdout, seen, remote>>
           /\ lastEventSeq' = IF next
                THEN [lastEventSeq EXCEPT ![p] = IF exits THEN 0 ELSE seq]
                ELSE lastEventSeq
           /\ IF next \/ p \notin Live \/ seq <= lastEventSeq[p]
                THEN Acknowledge(p, seq) ELSE UNCHANGED pendingAcks
    /\ UNCHANGED <<toHost, linkVars, queueVars, used, adoptable, updateVars>>

\* Mutant: an acknowledgement drops the command after it too.
ReceiveCommandAckTooFar ==
    /\ ManagerReceives("command_ack")
    /\ ManagerConsumes
    /\ \E rest \in Filtered(unacked, {i \in DOMAIN unacked :
                                        unacked[i].seq > Head(toCoord).seq + 1}) :
         unacked' = rest
    /\ UNCHANGED <<toHost, linkVars, nextCommandSeq, commandCount, processVars,
                   pendingAcks, updateVars>>

ReceiveCommandAck ==
    /\ ManagerReceives("command_ack")
    /\ ManagerConsumes
    /\ \E rest \in Filtered(unacked, {i \in DOMAIN unacked :
                                        unacked[i].seq > Head(toCoord).seq}) :
         unacked' = rest
    /\ UNCHANGED <<toHost, linkVars, nextCommandSeq, commandCount, processVars,
                   pendingAcks, updateVars>>

\* flushAcks, one process at a time.
FlushAck(p) ==
    /\ linkSocket
    /\ pendingAcks[p] # 0
    /\ CoordinatorSends(<<[t |-> "event_ack", proc |-> p, seq |-> pendingAcks[p]]>>)
    /\ pendingAcks' = [pendingAcks EXCEPT ![p] = 0]
    /\ OnlySends
    /\ UNCHANGED <<linkVars, queueVars, processVars, updateVars>>

-----------------------------------------------------------------------------
(***************************************************************************)
(* Updating the node.                                                      *)
(***************************************************************************)
\* maybeUpdate: request the update and have its sessions stopped.
AskUpdate ==
    /\ online /\ linkSocket
    /\ update = "none"
    /\ updateCount < MaxUpdates
    /\ updateCount' = updateCount + 1
    /\ update' = "asked"
    /\ asking' = asking \cup {hostInstanceId}
    /\ UNCHANGED <<wireVars, linkVars, queueVars, processVars, pendingAcks>>

\* prepareUpdate gives up: the host is not asked until it restarts.
PrepareFails ==
    /\ hostInstanceId # 0
    /\ update = "none"
    /\ updateCount < MaxUpdates
    /\ updateCount' = updateCount + 1
    /\ update' = "failed"
    /\ UNCHANGED <<wireVars, linkVars, queueVars, processVars, pendingAcks, asking>>

\* What maybeUpdate does once prepareHostUpdate settled, `ready` or not.
FinishAsk(inst, ready) ==
    /\ inst \in asking
    /\ asking' = asking \ {inst}
    /\ IF hostInstanceId # inst \/ update = "none" THEN UNCHANGED <<update, toHost>>
       ELSE IF ready /\ online /\ linkSocket
              THEN update' = "sent" /\ CoordinatorSends(<<[t |-> "update"]>>)
              ELSE update' = "none" /\ UNCHANGED toHost
    /\ OnlySends
    /\ UNCHANGED <<linkVars, queueVars, processVars, pendingAcks, updateCount>>

\* Mutant: what waited for the restart keeps waiting.
AbandonSilently == update' = "failed" /\ UNCHANGED toHost

\* abandonUpdate: what waited for the restart goes to the running node.
Abandon ==
    /\ update' = "failed"
    /\ IF online /\ linkSocket THEN CoordinatorSends(CommandMessages(unacked))
                               ELSE UNCHANGED toHost

ReceiveUpdateFailed ==
    /\ ManagerReceives("update_failed")
    /\ ManagerConsumes
    /\ IF update = "none" THEN UNCHANGED <<update, toHost>> ELSE Abandon
    /\ UNCHANGED <<linkVars, queueVars, processVars, pendingAcks, asking,
                   updateCount>>

\* tick: HOST_UPDATE_RESTART_TIMEOUT_MS passed.
UpdateTimeout ==
    /\ update = "sent"
    /\ Abandon
    /\ OnlySends
    /\ UNCHANGED <<linkVars, queueVars, processVars, pendingAcks, asking,
                   updateCount>>

-----------------------------------------------------------------------------
(***************************************************************************)
(* The coordinator restarts.  Sessions saved the ids of some of their      *)
(* processes; everything else starts over.                                 *)
(***************************************************************************)
CoordinatorRestart ==
    /\ instanceId < MaxCoords
    /\ instanceId' = instanceId + 1
    /\ \E saved \in SUBSET used : adoptable' = saved
    /\ linkSocket' = FALSE /\ paired' = FALSE /\ toCoord' = <<>>
    /\ UNCHANGED <<agentSocket, toHost, breaks>>
    /\ online' = FALSE
    /\ hostInstanceId' = 0
    /\ unacked' = <<>>
    /\ nextCommandSeq' = 1
    /\ remote' = [p \in Procs |-> "none"]
    /\ started' = {}
    /\ lastEventSeq' = [p \in Procs |-> 0]
    /\ stdout' = [p \in Procs |-> <<>>]
    /\ pendingAcks' = [p \in Procs |-> 0]
    /\ update' = "none"
    /\ asking' = {}
    /\ UNCHANGED <<commandCount, seen, used, updateCount>>
=============================================================================
