------------------------------ MODULE HostLink ------------------------------
(***************************************************************************)
(* One host link: the coordinator's HostLinkManager and the host's         *)
(* HostAgent over the wire of HostProtocol, with sockets that die, nodes   *)
(* that restart and coordinators that restart.                             *)
(***************************************************************************)
EXTENDS HostLinkManager, HostAgent

vars == <<wireVars, managerVars, agentVars>>

TypeOK == WireTypeOK /\ ManagerTypeOK /\ AgentTypeOK

Init == WireInit /\ ManagerInit /\ AgentInit

(***************************************************************************)
(* The host dials and its hello is the first frame.  The upgrade request   *)
(* (attach) and the open event of the host are one step: frames the        *)
(* coordinator sends in between reach the host after it opened.            *)
(***************************************************************************)
Connect ==
    /\ ~agentSocket
    /\ replaying = {}
    /\ linkSocket /\ online /\ coordinatorInstanceId # instanceId => EarlyReplaces
    /\ Attach
    /\ agentSocket' = TRUE /\ paired' = TRUE
    /\ toHost' = <<>> /\ toCoord' = <<HelloMessage>>
    /\ UNCHANGED <<breaks, agentVars>>

\* The two ways a socket goes: the ends share it and it dies, or one end
\* notices that the other is gone.
LinkBreaks == paired /\ Breaks /\ LinkDown /\ UNCHANGED agentVars
LinkNoticed == ~paired /\ Breaks /\ LinkDown /\ UNCHANGED agentVars
SocketBreaks == paired /\ Breaks /\ SocketDown /\ UNCHANGED managerVars
SocketNoticed == ~paired /\ Breaks /\ SocketDown /\ UNCHANGED managerVars

\* local-node.ts releases its host only once the node the link knew has ended.
NodeReleased == hostInstanceId # agentId /\ Release /\ UNCHANGED agentVars

Sessions ==
    /\ \/ \E p \in Procs : StartProcess(p) \/ Control(p) \/ Adopt(p)
       \/ WriteFileInOrder
    /\ UNCHANGED agentVars

ManagerDelivers ==
    /\ \/ ReceiveHello \/ ReceiveEvent \/ ReceiveCommandAck
       \/ ReceiveUpdateFailed
    /\ UNCHANGED agentVars

Flush == (\E p \in Procs : FlushAck(p)) /\ UNCHANGED agentVars

Updates ==
    /\ \/ AskUpdate \/ PrepareFails
       \/ \E inst \in asking, ready \in BOOLEAN : FinishAsk(inst, ready)
    /\ UNCHANGED agentVars

TimesOut == UpdateTimeout /\ UNCHANGED agentVars

AgentDelivers ==
    /\ \/ ReceiveWelcome \/ RefuseWelcome \/ ReceiveCommand \/ ReceiveOldCommand
       \/ ReceiveEventAck \/ ReceiveUpdate
    /\ UNCHANGED managerVars

Replays == (\E p \in Procs : Replay(p)) /\ UNCHANGED managerVars

HostRuns ==
    /\ \/ \E p \in Procs : \/ ProcessSpawned(p) \/ ProcessFails(p)
                           \/ ProcessOutput(p) \/ ProcessExit(p)
       \/ UpdateFails
    /\ UNCHANGED managerVars

Restarts ==
    \/ CoordinatorRestart /\ UNCHANGED agentVars
    \/ NodeRestart /\ UNCHANGED managerVars

Next ==
    \/ Connect \/ LinkBreaks \/ LinkNoticed \/ SocketBreaks \/ SocketNoticed
    \/ NodeReleased \/ Sessions \/ ManagerDelivers \/ Flush \/ Updates
    \/ TimesOut \/ AgentDelivers \/ Replays \/ HostRuns \/ Restarts

Spec == Init /\ [][Next]_vars

(***************************************************************************)
(* Fairness.  Timers, socket callbacks and the event loops of both ends    *)
(* run on: the host redials, frames on a living socket are read, a dead    *)
(* socket is noticed (the heartbeat's stale check), acknowledgements are   *)
(* flushed, prepareHostUpdate settles and the update timeout fires.        *)
(* Nothing makes a session start a process or a socket break.              *)
(***************************************************************************)
Fairness ==
    /\ WF_vars(Connect) /\ WF_vars(LinkNoticed) /\ WF_vars(SocketNoticed)
    /\ WF_vars(ManagerDelivers) /\ WF_vars(AgentDelivers)
    /\ WF_vars(Flush) /\ WF_vars(Replays) /\ WF_vars(TimesOut)
    /\ \A inst \in 1..MaxHosts :
         WF_vars((\E ready \in BOOLEAN : FinishAsk(inst, ready)) /\ UNCHANGED agentVars)

FairSpec == Spec /\ Fairness

-----------------------------------------------------------------------------
(***************************************************************************)
(* Properties.                                                             *)
(***************************************************************************)
\* The coordinator knows this node instance and the node took this coordinator.
Joined == hostInstanceId = agentId /\ coordinatorInstanceId = instanceId

(***************************************************************************)
(* "The host applies each command once" (host-protocol.ts:9): over its     *)
(* whole life a node instance applies the commands in the order sessions   *)
(* enqueued them, none twice, whatever was resent, renumbered or handed to *)
(* a new coordinator.                                                      *)
(***************************************************************************)
AppliedOnce == \A i, j \in DOMAIN ran : i < j => ran[i].id < ran[j].id

(***************************************************************************)
(* Every command the node has yet to apply is still queued, so the next    *)
(* resend (handleHello) can close the gap the node waits on: the two ends  *)
(* never disagree about the next sequence number for good.                 *)
(***************************************************************************)
NoCommandGap ==
    Joined => \A s \in appliedCommandSeq + 1..nextCommandSeq - 1 :
                 \E i \in DOMAIN unacked : unacked[i].seq = s

(***************************************************************************)
(* The node keeps every event the coordinator has not applied: an          *)
(* acknowledgement never reaches past what was applied, through replays    *)
(* and renumbering (handleEvent, handleWelcome, adoptBy).                  *)
(***************************************************************************)
KeptUntilReceived ==
    Joined => \A p \in Live \cap started \cap Hosted :
                 FirstPending(p) <= lastEventSeq[p] + 1 /\ lastEventSeq[p] < nextSeq[p]

(***************************************************************************)
(* The same for every process, started or not: "the host keeps events      *)
(* until the coordinator acknowledges them" (host-protocol.ts:12), so the  *)
(* coordinator never counts an event as read that the host did not emit.   *)
(* The code does not keep this, and no run checks it (README.md).          *)
(***************************************************************************)
NeverAhead ==
    Joined => \A p \in Live \cap Hosted : lastEventSeq[p] < nextSeq[p]

(***************************************************************************)
(* Output is "delivered in order exactly once" (host-protocol.ts:14): one  *)
(* coordinator never reads a unit twice or out of order.                   *)
(***************************************************************************)
ExactlyOnce ==
    \A p \in Procs : \A i, j \in DOMAIN stdout[p] :
        i < j => \A u \in stdout[p][i], v \in stdout[p][j] : u.n < v.n

(***************************************************************************)
(* The queue is in order: sequence numbers and the order of enqueuing      *)
(* agree, through acknowledgements, renumbering and dropped commands, so   *)
(* every resend goes out in order.                                         *)
(***************************************************************************)
QueueInOrder ==
    /\ \A i, j \in DOMAIN unacked : i < j =>
         /\ unacked[i].seq < unacked[j].seq
         /\ unacked[i].cmd.id < unacked[j].cmd.id
    /\ \A i \in DOMAIN unacked :
         /\ unacked[i].seq < nextCommandSeq
         /\ unacked[i].cmd.id <= commandCount

(***************************************************************************)
(* A process that counts as started is on the node, and what the node runs *)
(* the coordinator tracks: no session waits for output of a process that   *)
(* is gone, and none runs unattended (handleHello, handleWelcome, adopt).  *)
(***************************************************************************)
ListsAgree ==
    Joined => /\ \A p \in Live \cap started : p \in Hosted
              /\ \A p \in Hosted : phase[p] # "exited" => p \in Live

(***************************************************************************)
(* "A new host instance has lost its processes, so the coordinator ends    *)
(* them" (host-protocol.ts:17): every tracked process is on the node, or   *)
(* its spawn still waits to be applied there.                              *)
(* The code does not keep this, and no run checks it (README.md).          *)
(***************************************************************************)
NoLostProcess ==
    Joined => \A p \in Live : \/ p \in Hosted
                              \/ \E i \in DOMAIN unacked :
                                   /\ unacked[i].cmd.kind = "spawn"
                                   /\ unacked[i].cmd.proc = p

(***************************************************************************)
(* A new coordinator receives an unfinished line again whole               *)
(* (host-agent.ts:112): what a coordinator reads of a process starts at    *)
(* the start of a line.                                                    *)
(* The code does not keep this, and no run checks it (README.md).          *)
(***************************************************************************)
StartsAtLine ==
    \A p \in Procs : stdout[p] # <<>> =>
        \E u \in stdout[p][1] :
            /\ \A v \in stdout[p][1] : u.n <= v.n
            /\ u.n = 1 \/ [n |-> u.n - 1, eol |-> TRUE] \in seen[p]

(***************************************************************************)
(* A coordinator whose epoch is older than one a node has seen "cannot     *)
(* drive" its processes (coordinator-lock.ts:21): once the node has taken  *)
(* a coordinator it takes and applies nothing of an older one, although    *)
(* handleCommand looks at the sequence number alone (host-agent.ts:313).   *)
(***************************************************************************)
NotStale ==
    /\ agentId' = agentId => highestEpoch' >= highestEpoch
    /\ \A i \in DOMAIN ran' \ DOMAIN ran : Epoch[ran'[i].coord] >= highestEpoch
NoStaleDriver == [][NotStale]_vars

(***************************************************************************)
(* "Commands wait for its next instance, so nothing starts on the old one  *)
(* only to end with it" (host-link-manager.ts:149): while the coordinator  *)
(* holds commands for a node that is updating, that node applies none.     *)
(***************************************************************************)
HeldWhileUpdating ==
    [][Joined /\ update = "sent" /\ updating /\ agentId' = agentId
         => ran' = ran]_vars

(***************************************************************************)
(* The link keeps the promises ReliableLink states: commands applied in    *)
(* order and at most once, output read in order and without a gap.         *)
(***************************************************************************)
Promised == INSTANCE ReliableLink WITH
    enqueued <- commandCount,
    applied <- [i \in DOMAIN ran |-> ran[i].id],
    read <- [p \in Procs |-> {u.n : u \in seen[p]}]
KeepsPromises == Promised!Spec

(***************************************************************************)
(* Once sockets stop breaking and nothing restarts any more, both          *)
(* directions drain: the node applied every queued command and the         *)
(* coordinator every event of the processes it tracks.                     *)
(***************************************************************************)
Drained ==
    /\ Joined
    /\ \A i \in DOMAIN unacked : unacked[i].seq <= appliedCommandSeq
    /\ \A p \in Procs : pending[p] = <<>>
EventuallyDrained == <>[]Drained
=============================================================================
