--------------------------- MODULE HostLinkProofs ---------------------------
(***************************************************************************)
(* Theorems about HostLink for every value of its constants: types, the    *)
(* queue, and (Punctual, below) the commands a node applies.               *)
(***************************************************************************)
EXTENDS HostLink, SubsequencesProofs, SequenceTheorems

-----------------------------------------------------------------------------
(***************************************************************************)
(* Lemmas about the operators.                                             *)
(***************************************************************************)
LEMMA CommandMessagesType ==
    ASSUME NEW q \in Seq(QueuedCommand)
    PROVE  CommandMessages(q) \in Seq(CoordinatorToHost)
<1> DEFINE msg(i) == [t |-> "command", seq |-> q[i].seq, cmd |-> q[i].cmd]
<1>1. ASSUME NEW i \in 1..Len(q) PROVE msg(i) \in CoordinatorToHost
  <2>1. q[i] \in QueuedCommand
    OBVIOUS
  <2>2. q[i].seq \in Nat /\ q[i].cmd \in Command
    BY <2>1 DEF QueuedCommand
  <2>3. msg(i) \in CommandMsg
    BY <2>2 DEF CommandMsg
  <2>4. QED
    BY <2>3 DEF CoordinatorToHost
<1>2. DOMAIN q = 1..Len(q) /\ Len(q) \in Nat
  OBVIOUS
<1>3. CommandMessages(q) = [i \in 1..Len(q) |-> msg(i)]
  BY <1>2 DEF CommandMessages
<1> HIDE DEF msg
<1>4. QED
  BY <1>1, <1>2, <1>3

LEMMA RenumberedType ==
    ASSUME NEW q \in Seq(QueuedCommand)
    PROVE  /\ Renumbered(q) \in Seq(QueuedCommand)
           /\ Len(Renumbered(q)) = Len(q)
           /\ \A i \in 1..Len(q) :
                Renumbered(q)[i].seq = i /\ Renumbered(q)[i].cmd = q[i].cmd
<1> DEFINE entry(i) == [seq |-> i, cmd |-> q[i].cmd]
<1>1. ASSUME NEW i \in 1..Len(q) PROVE entry(i) \in QueuedCommand
  <2>1. q[i] \in QueuedCommand
    OBVIOUS
  <2>2. QED
    BY <2>1 DEF QueuedCommand
<1>2. DOMAIN q = 1..Len(q) /\ Len(q) \in Nat
  OBVIOUS
<1>3. Renumbered(q) = [i \in 1..Len(q) |-> entry(i)]
  BY <1>2 DEF Renumbered
<1>4. \A i \in 1..Len(q) : entry(i).seq = i /\ entry(i).cmd = q[i].cmd
  OBVIOUS
<1> HIDE DEF entry
<1>5. QED
  BY <1>1, <1>2, <1>3, <1>4

LEMMA EventMessagesType ==
    ASSUME NEW p \in Procs, NEW first \in Nat \ {0}, NEW events \in Seq(Event)
    PROVE  EventMessages(p, first, events) \in Seq(HostToCoordinator)
<1> DEFINE msg(i) == [t |-> "event", proc |-> p,
                      seq |-> first + i - 1, event |-> events[i]]
<1>1. ASSUME NEW i \in 1..Len(events) PROVE msg(i) \in HostToCoordinator
  <2>1. events[i] \in Event /\ first + i - 1 \in Nat
    OBVIOUS
  <2>2. msg(i) \in EventMsg
    BY <2>1 DEF EventMsg
  <2>3. QED
    BY <2>2 DEF HostToCoordinator
<1>2. DOMAIN events = 1..Len(events) /\ Len(events) \in Nat
  OBVIOUS
<1>3. EventMessages(p, first, events) = [i \in 1..Len(events) |-> msg(i)]
  BY <1>2 DEF EventMessages
<1> HIDE DEF msg
<1>4. QED
  BY <1>1, <1>2, <1>3

LEMMA HostFrame ==
    ASSUME NEW m \in CoordinatorToHost
    PROVE  /\ m.t = "welcome" => m \in Welcome
           /\ m.t = "command" => m \in CommandMsg
           /\ m.t = "event_ack" => m \in EventAck
           /\ m.t = "update" => m \in Update
  BY DEF CoordinatorToHost, Welcome, CommandMsg, EventAck, Update

LEMMA CoordinatorFrame ==
    ASSUME NEW m \in HostToCoordinator
    PROVE  /\ m.t = "hello" => m \in Hello
           /\ m.t = "event" => m \in EventMsg
           /\ m.t = "command_ack" => m \in CommandAck
           /\ m.t = "update_failed" => m \in UpdateFailed
  BY DEF HostToCoordinator, Hello, EventMsg, CommandAck, UpdateFailed

LEMMA CoordinatorSendsType ==
    ASSUME WireTypeOK, NEW msgs \in Seq(CoordinatorToHost), CoordinatorSends(msgs)
    PROVE  toHost' \in Seq(CoordinatorToHost)
  BY DEF WireTypeOK, CoordinatorSends

LEMMA HostSendsType ==
    ASSUME WireTypeOK, NEW msgs \in Seq(HostToCoordinator), HostSends(msgs)
    PROVE  toCoord' \in Seq(HostToCoordinator)
  BY DEF WireTypeOK, HostSends

-----------------------------------------------------------------------------
(***************************************************************************)
(* Type correctness.  An event's number is FirstPending(p) and on, so that *)
(* it is one at all needs that a process never keeps more events than it   *)
(* numbered: the second conjunct of AgentInv.                              *)
(***************************************************************************)
AgentInv ==
    /\ AgentTypeOK
    /\ \A p \in Procs : Len(pending[p]) < nextSeq[p]

TypeInv == WireTypeOK /\ ManagerTypeOK /\ AgentInv

LEMMA AgentStays ==
    ASSUME AgentInv, UNCHANGED agentVars
    PROVE  AgentInv'
  BY DEF AgentInv, AgentTypeOK, agentVars

LEMMA ManagerStays ==
    ASSUME ManagerTypeOK, UNCHANGED managerVars
    PROVE  ManagerTypeOK'
  BY DEF ManagerTypeOK, managerVars, linkVars, queueVars, processVars, updateVars

LEMMA InitTyped == Init => TypeInv
<1> SUFFICES ASSUME Init PROVE TypeInv
  OBVIOUS
<1>1. WireTypeOK
  <2>1. /\ toHost \in Seq(CoordinatorToHost)
        /\ toCoord \in Seq(HostToCoordinator)
    BY DEF Init, WireInit
  <2>2. QED
    BY <2>1 DEF Init, WireInit, WireTypeOK
<1>2. ManagerTypeOK
  <2>1. /\ unacked \in Seq(QueuedCommand)
        /\ stdout \in [Procs -> Seq(SUBSET Unit)]
    BY DEF Init, ManagerInit
  <2>2. instanceId \in 1..MaxCoords
    BY BoundsAssumption DEF Init, ManagerInit
  <2>3. online \in BOOLEAN
    BY DEF Init, ManagerInit
  <2>4. /\ hostInstanceId \in Nat /\ nextCommandSeq \in Nat \ {0}
        /\ commandCount \in Nat /\ update \in Stage /\ updateCount \in Nat
    BY DEF Init, ManagerInit, Stage
  <2>5. /\ remote \in [Procs -> {"none", "live", "exited", "failed"}]
        /\ lastEventSeq \in [Procs -> Nat]
        /\ seen \in [Procs -> SUBSET Unit]
        /\ pendingAcks \in [Procs -> Nat]
    BY DEF Init, ManagerInit
  <2>6. /\ started \in SUBSET Procs /\ used \in SUBSET Procs
        /\ adoptable \in SUBSET Procs /\ asking \in SUBSET Nat
    BY DEF Init, ManagerInit
  <2>7. QED
    BY <2>1, <2>2, <2>3, <2>4, <2>5, <2>6 DEF ManagerTypeOK
<1>3. AgentInv
  <2>1. /\ pending \in [Procs -> Seq(Event)]
        /\ ran \in Seq([coord : Nat, id : Nat])
        /\ \A p \in Procs : Len(pending[p]) < nextSeq[p]
    BY DEF Init, AgentInit
  <2>2. /\ phase \in [Procs -> Phase]
        /\ nextSeq \in [Procs -> Nat \ {0}]
        /\ unfinishedLine \in [Procs -> SUBSET Unit]
        /\ written \in [Procs -> Nat]
    BY DEF Init, AgentInit, Phase
  <2>3. /\ agentId \in Nat \ {0} /\ coordinatorInstanceId \in Nat
        /\ highestEpoch \in Nat /\ appliedCommandSeq \in Nat
        /\ replaying \in SUBSET Procs
    BY DEF Init, AgentInit
  <2>4. updating \in BOOLEAN
    BY DEF Init, AgentInit
  <2>5. QED
    BY <2>1, <2>2, <2>3, <2>4 DEF AgentInv, AgentTypeOK
<1>4. QED
  BY <1>1, <1>2, <1>3 DEF TypeInv

\* Enqueue adds one command and sends at most that one.
LEMMA EnqueueTyped ==
    ASSUME WireTypeOK, ManagerTypeOK,
           NEW kind \in {"spawn", "control", "write_file"},
           NEW p \in Procs \cup {NoProc},
           (kind = "write_file" /\ p = NoProc) \/ (kind # "write_file" /\ p \in Procs),
           Enqueue(kind, p)
    PROVE  /\ WireTypeOK'
           /\ unacked' \in Seq(QueuedCommand)
           /\ nextCommandSeq' \in Nat \ {0}
           /\ commandCount' \in Nat
<1> DEFINE cmd == [id |-> commandCount + 1, coord |-> instanceId,
                   kind |-> kind, proc |-> p]
           queued == [seq |-> nextCommandSeq, cmd |-> cmd]
<1>1. cmd \in Command
  BY BoundsAssumption DEF ManagerTypeOK, Command
<1>2. queued \in QueuedCommand
  BY <1>1 DEF QueuedCommand, ManagerTypeOK
<1>3. /\ Queues(queued)
      /\ toHost' = toHost \/ CoordinatorSends(CommandMessages(<<queued>>))
  BY DEF Enqueue
<1> HIDE DEF queued
<1>4. CommandMessages(<<queued>>) \in Seq(CoordinatorToHost)
  <2>1. <<queued>> \in Seq(QueuedCommand)
    BY <1>2
  <2>2. QED
    BY <2>1, CommandMessagesType
<1>5. toHost' \in Seq(CoordinatorToHost)
  BY <1>3, <1>4, CoordinatorSendsType DEF WireTypeOK
<1>6. WireTypeOK'
  BY <1>3, <1>5 DEF Queues, OnlySends, WireTypeOK
<1>7. QED
  BY <1>2, <1>3, <1>6 DEF Queues, ManagerTypeOK

LEMMA WriteFileTyped ==
    ASSUME WireTypeOK, ManagerTypeOK, WriteFileInOrder
    PROVE  WireTypeOK' /\ ManagerTypeOK'
<1>1. Enqueue("write_file", NoProc)
  BY DEF WriteFileInOrder
<1>2. /\ WireTypeOK' /\ unacked' \in Seq(QueuedCommand)
      /\ nextCommandSeq' \in Nat \ {0} /\ commandCount' \in Nat
  BY <1>1, EnqueueTyped
<1>3. QED
  BY <1>2 DEF WriteFileInOrder, ManagerTypeOK, linkVars, processVars, updateVars

LEMMA SessionsTyped ==
    ASSUME WireTypeOK, ManagerTypeOK, NEW p \in Procs,
           StartProcess(p) \/ Control(p) \/ Adopt(p)
    PROVE  WireTypeOK' /\ ManagerTypeOK'
<1>1. CASE StartProcess(p)
  <2>1. Enqueue("spawn", p)
    BY <1>1 DEF StartProcess
  <2>2. /\ WireTypeOK' /\ unacked' \in Seq(QueuedCommand)
        /\ nextCommandSeq' \in Nat \ {0} /\ commandCount' \in Nat
    BY <2>1, EnqueueTyped
  <2>3. QED
    BY <1>1, <2>2 DEF StartProcess, ManagerTypeOK, linkVars, updateVars
<1>2. CASE Control(p)
  <2>1. Enqueue("control", p)
    BY <1>2 DEF Control
  <2>2. /\ WireTypeOK' /\ unacked' \in Seq(QueuedCommand)
        /\ nextCommandSeq' \in Nat \ {0} /\ commandCount' \in Nat
    BY <2>1, EnqueueTyped
  <2>3. QED
    BY <1>2, <2>2 DEF Control, ManagerTypeOK, linkVars, processVars, updateVars
<1>3. CASE Adopt(p)
  <2>1. WireTypeOK'
    BY <1>3 DEF Adopt, wireVars, WireTypeOK
  <2>2. ManagerTypeOK'
    BY <1>3 DEF Adopt, ManagerTypeOK, linkVars, queueVars, updateVars
  <2>3. QED
    BY <2>1, <2>2
<1>4. QED
  BY <1>1, <1>2, <1>3

\* What stays of a queue after a filter is a queue.
LEMMA FilteredQueue ==
    ASSUME NEW q \in Seq(QueuedCommand), NEW I \in SUBSET DOMAIN q,
           NEW r \in Filtered(q, I)
    PROVE  r \in Seq(QueuedCommand)
  BY FilteredEmbeds

LEMMA FailProcessesTyped ==
    ASSUME ManagerTypeOK, NEW ps, FailProcesses(ps)
    PROVE  /\ remote' \in [Procs -> {"none", "live", "exited", "failed"}]
           /\ lastEventSeq' \in [Procs -> Nat]
           /\ started' \in SUBSET Procs
  BY DEF ManagerTypeOK, FailProcesses

LEMMA ReleaseTyped ==
    ASSUME WireTypeOK, ManagerTypeOK, Release
    PROVE  WireTypeOK' /\ ManagerTypeOK'
<1>1. WireTypeOK'
  BY DEF Release, wireVars, WireTypeOK
<1>2. unacked' \in Seq(QueuedCommand)
  <2>1. PICK r \in Filtered(unacked, {i \in DOMAIN unacked :
                                        unacked[i].cmd.proc = NoProc}) :
          unacked' = r
    BY DEF Release
  <2>2. QED
    BY <2>1, FilteredQueue DEF ManagerTypeOK
<1>3. ManagerTypeOK'
  BY <1>2, FailProcessesTyped DEF Release, ManagerTypeOK, linkVars, updateVars
<1>4. QED
  BY <1>1, <1>3

LEMMA LinkDownTyped ==
    ASSUME WireTypeOK, ManagerTypeOK, LinkDown, Breaks
    PROVE  WireTypeOK' /\ ManagerTypeOK'
<1>1. toCoord' \in Seq(HostToCoordinator) /\ toHost' \in Seq(CoordinatorToHost)
  BY DEF LinkDown, CoordinatorLetsGo, WireTypeOK
<1>2. breaks' \in Nat
  BY DEF Breaks, WireTypeOK
<1>3. WireTypeOK'
  BY <1>1, <1>2 DEF LinkDown, CoordinatorLetsGo, WireTypeOK
<1>4. ManagerTypeOK'
  BY DEF LinkDown, ManagerTypeOK, queueVars, processVars, updateVars
<1>5. QED
  BY <1>3, <1>4

\* A frame leaves the head of toCoord.
LEMMA ManagerConsumesTyped ==
    ASSUME WireTypeOK, toCoord # <<>>, ManagerConsumes,
           toHost' \in Seq(CoordinatorToHost)
    PROVE  WireTypeOK' /\ Head(toCoord) \in HostToCoordinator
<1>1. toCoord' \in Seq(HostToCoordinator) /\ Head(toCoord) \in HostToCoordinator
  BY DEF ManagerConsumes, WireTypeOK
<1>2. QED
  BY <1>1 DEF ManagerConsumes, WireTypeOK

LEMMA ReceiveCommandAckTyped ==
    ASSUME WireTypeOK, ManagerTypeOK, ReceiveCommandAck
    PROVE  WireTypeOK' /\ ManagerTypeOK'
<1>1. WireTypeOK'
  BY ManagerConsumesTyped DEF ReceiveCommandAck, ManagerReceives, WireTypeOK
<1>2. unacked' \in Seq(QueuedCommand)
  <2>1. PICK r \in Filtered(unacked, {i \in DOMAIN unacked :
                                        unacked[i].seq > Head(toCoord).seq}) :
          unacked' = r
    BY DEF ReceiveCommandAck
  <2>2. QED
    BY <2>1, FilteredQueue DEF ManagerTypeOK
<1>3. ManagerTypeOK'
  BY <1>2 DEF ReceiveCommandAck, ManagerTypeOK, linkVars, processVars, updateVars
<1>4. QED
  BY <1>1, <1>3

LEMMA FlushAckTyped ==
    ASSUME WireTypeOK, ManagerTypeOK, NEW p \in Procs, FlushAck(p)
    PROVE  WireTypeOK' /\ ManagerTypeOK'
<1> DEFINE ack == [t |-> "event_ack", proc |-> p, seq |-> pendingAcks[p]]
<1>1. ack \in CoordinatorToHost
  BY DEF ManagerTypeOK, CoordinatorToHost, EventAck
<1>2. CoordinatorSends(<<ack>>)
  BY DEF FlushAck
<1> HIDE DEF ack
<1>3. <<ack>> \in Seq(CoordinatorToHost)
  BY <1>1
<1>4. toHost' \in Seq(CoordinatorToHost)
  BY <1>2, <1>3, CoordinatorSendsType
<1>5. WireTypeOK'
  BY <1>4 DEF FlushAck, OnlySends, WireTypeOK
<1>6. ManagerTypeOK'
  BY DEF FlushAck, ManagerTypeOK, linkVars, queueVars, processVars, updateVars
<1>7. QED
  BY <1>5, <1>6

LEMMA UpdatesTyped ==
    ASSUME WireTypeOK, ManagerTypeOK,
           \/ AskUpdate \/ PrepareFails
           \/ \E inst \in asking, ready \in BOOLEAN : FinishAsk(inst, ready)
    PROVE  WireTypeOK' /\ ManagerTypeOK'
<1>1. CASE AskUpdate \/ PrepareFails
  <2>1. WireTypeOK'
    BY <1>1 DEF AskUpdate, PrepareFails, wireVars, WireTypeOK
  <2>2. update' \in Stage /\ updateCount' \in Nat
    BY <1>1 DEF AskUpdate, PrepareFails, ManagerTypeOK, Stage
  <2>3. asking' = asking \/ asking' = asking \cup {hostInstanceId}
    BY <1>1 DEF AskUpdate, PrepareFails
  <2>4. UNCHANGED <<linkVars, queueVars, processVars, pendingAcks>>
    BY <1>1 DEF AskUpdate, PrepareFails
  <2>5. ManagerTypeOK'
    BY <2>2, <2>3, <2>4 DEF ManagerTypeOK, linkVars, queueVars, processVars
  <2>6. QED
    BY <2>1, <2>5
<1>2. ASSUME NEW inst \in asking, NEW ready \in BOOLEAN, FinishAsk(inst, ready)
      PROVE  WireTypeOK' /\ ManagerTypeOK'
  <2>1. <<[t |-> "update"]>> \in Seq(CoordinatorToHost)
    <3>1. [t |-> "update"] \in CoordinatorToHost
      BY DEF CoordinatorToHost, Update
    <3>2. QED
      BY <3>1
  <2>2. toHost' = toHost \/ CoordinatorSends(<<[t |-> "update"]>>)
    BY <1>2 DEF FinishAsk
  <2>3. toHost' \in Seq(CoordinatorToHost)
    BY <2>1, <2>2, CoordinatorSendsType DEF WireTypeOK
  <2>4. WireTypeOK'
    BY <1>2, <2>3 DEF FinishAsk, OnlySends, WireTypeOK
  <2>5. update' \in {update, "sent", "none"}
    BY <1>2 DEF FinishAsk
  <2>6. ManagerTypeOK'
    BY <1>2, <2>5 DEF FinishAsk, ManagerTypeOK, Stage, linkVars, queueVars, processVars
  <2>7. QED
    BY <2>4, <2>6
<1>3. QED
  BY <1>1, <1>2

LEMMA AbandonTyped ==
    ASSUME WireTypeOK, ManagerTypeOK, Abandon
    PROVE  toHost' \in Seq(CoordinatorToHost) /\ update' \in Stage
<1>1. CommandMessages(unacked) \in Seq(CoordinatorToHost)
  BY CommandMessagesType DEF ManagerTypeOK
<1>2. toHost' = toHost \/ CoordinatorSends(CommandMessages(unacked))
  BY DEF Abandon
<1>3. toHost' \in Seq(CoordinatorToHost)
  BY <1>1, <1>2, CoordinatorSendsType DEF WireTypeOK
<1>4. QED
  BY <1>3 DEF Abandon, Stage

LEMMA UpdateTimeoutTyped ==
    ASSUME WireTypeOK, ManagerTypeOK, UpdateTimeout
    PROVE  WireTypeOK' /\ ManagerTypeOK'
<1>1. toHost' \in Seq(CoordinatorToHost) /\ update' \in Stage
  BY AbandonTyped DEF UpdateTimeout
<1>2. WireTypeOK'
  BY <1>1 DEF UpdateTimeout, OnlySends, WireTypeOK
<1>3. ManagerTypeOK'
  BY <1>1 DEF UpdateTimeout, ManagerTypeOK, linkVars, queueVars, processVars
<1>4. QED
  BY <1>2, <1>3

LEMMA ReceiveUpdateFailedTyped ==
    ASSUME WireTypeOK, ManagerTypeOK, ReceiveUpdateFailed
    PROVE  WireTypeOK' /\ ManagerTypeOK'
<1>1. toHost' \in Seq(CoordinatorToHost) /\ update' \in Stage
  BY AbandonTyped DEF ReceiveUpdateFailed, WireTypeOK, ManagerTypeOK
<1>2. WireTypeOK'
  BY <1>1, ManagerConsumesTyped DEF ReceiveUpdateFailed, ManagerReceives
<1>3. ManagerTypeOK'
  BY <1>1 DEF ReceiveUpdateFailed, ManagerTypeOK, linkVars, queueVars, processVars
<1>4. QED
  BY <1>2, <1>3

LEMMA NewInstanceTyped ==
    ASSUME ManagerTypeOK, NEW hello \in Hello, NewInstance(hello)
    PROVE  /\ remote' \in [Procs -> {"none", "live", "exited", "failed"}]
           /\ lastEventSeq' \in [Procs -> Nat]
           /\ started' \in SUBSET Procs
           /\ unacked' \in Seq(QueuedCommand)
           /\ nextCommandSeq' \in Nat \ {0}
           /\ hostInstanceId' \in Nat
           /\ update' \in Stage
<1>1. /\ remote' \in [Procs -> {"none", "live", "exited", "failed"}]
      /\ lastEventSeq' \in [Procs -> Nat]
      /\ started' \in SUBSET Procs
  BY FailProcessesTyped DEF NewInstance
<1>2. PICK kept \in Kept(hello) :
        unacked' = Renumbered(kept) /\ nextCommandSeq' = Len(kept) + 1
  BY DEF NewInstance
<1>3. kept \in Seq(QueuedCommand)
  BY FilteredQueue DEF Kept, ManagerTypeOK
<1>4. unacked' \in Seq(QueuedCommand) /\ nextCommandSeq' \in Nat \ {0}
  BY <1>2, <1>3, RenumberedType
<1>5. hostInstanceId' \in Nat /\ update' \in Stage
  BY DEF NewInstance, Hello, Stage
<1>6. QED
  BY <1>1, <1>4, <1>5

LEMMA ReceiveHelloTyped ==
    ASSUME WireTypeOK, ManagerTypeOK, ReceiveHello
    PROVE  WireTypeOK' /\ ManagerTypeOK'
<1> DEFINE hello == Head(toCoord)
<1>1. hello \in Hello
  BY CoordinatorFrame DEF ReceiveHello, ManagerReceives, WireTypeOK
<1>2. \/ NewInstance(hello)
      \/ UNCHANGED <<remote, lastEventSeq, started, unacked,
                     nextCommandSeq, hostInstanceId, update>>
  BY DEF ReceiveHello
<1>3. /\ remote' \in [Procs -> {"none", "live", "exited", "failed"}]
      /\ lastEventSeq' \in [Procs -> Nat]
      /\ started' \in SUBSET Procs
      /\ unacked' \in Seq(QueuedCommand)
      /\ nextCommandSeq' \in Nat \ {0}
      /\ hostInstanceId' \in Nat
      /\ update' \in Stage
  <2>1. CASE NewInstance(hello)
    BY <1>1, <2>1, NewInstanceTyped
  <2>2. CASE UNCHANGED <<remote, lastEventSeq, started, unacked,
                         nextCommandSeq, hostInstanceId, update>>
    BY <2>2 DEF ManagerTypeOK
  <2>3. QED
    BY <1>2, <2>1, <2>2
<1>4. WelcomeMessage \in CoordinatorToHost
  <2>1. WelcomeMessage \in Welcome
    BY <1>3, EpochAssumption, BoundsAssumption
       DEF WelcomeMessage, Welcome, ManagerTypeOK
  <2>2. QED
    BY <2>1 DEF CoordinatorToHost
<1>5. \E msgs \in Seq(CoordinatorToHost) : CoordinatorSends(msgs)
  <2>1. CASE CoordinatorSends(<<WelcomeMessage, [t |-> "update"]>>)
    <3>1. [t |-> "update"] \in CoordinatorToHost
      BY DEF CoordinatorToHost, Update
    <3>2. <<WelcomeMessage, [t |-> "update"]>> \in Seq(CoordinatorToHost)
      BY <1>4, <3>1
    <3>3. QED
      BY <2>1, <3>2
  <2>2. ASSUME NEW rest \in Filtered(unacked', {i \in DOMAIN unacked' :
                                        unacked'[i].seq > Applied(hello)}),
               CoordinatorSends(<<WelcomeMessage>> \o CommandMessages(rest))
        PROVE  \E msgs \in Seq(CoordinatorToHost) : CoordinatorSends(msgs)
    <3>1. rest \in Seq(QueuedCommand)
      BY <1>3, FilteredQueue
    <3>2. CommandMessages(rest) \in Seq(CoordinatorToHost)
      BY <3>1, CommandMessagesType
    <3>3. <<WelcomeMessage>> \in Seq(CoordinatorToHost)
      BY <1>4
    <3>4. <<WelcomeMessage>> \o CommandMessages(rest) \in Seq(CoordinatorToHost)
      BY <3>2, <3>3
    <3>5. QED
      BY <2>2, <3>4
  <2>3. QED
    BY <2>1, <2>2 DEF ReceiveHello
<1>6. toHost' \in Seq(CoordinatorToHost)
  BY <1>5, CoordinatorSendsType
<1>7. WireTypeOK'
  BY <1>6, ManagerConsumesTyped DEF ReceiveHello, ManagerReceives
<1>8. online' \in BOOLEAN
  BY DEF ReceiveHello
<1>9. ManagerTypeOK'
  BY <1>3, <1>8 DEF ReceiveHello, ManagerTypeOK
<1>10. QED
  BY <1>7, <1>9

LEMMA ReceiveEventTyped ==
    ASSUME WireTypeOK, ManagerTypeOK, ReceiveEvent
    PROVE  WireTypeOK' /\ ManagerTypeOK'
<1> DEFINE p == Head(toCoord).proc
           seq == Head(toCoord).seq
           event == Head(toCoord).event
<1>1. Head(toCoord) \in EventMsg
  BY CoordinatorFrame DEF ReceiveEvent, ManagerReceives, WireTypeOK
<1>2. p \in Procs /\ seq \in Nat /\ event.units \in SUBSET Unit
  BY <1>1 DEF EventMsg, Event
<1>3. WireTypeOK'
  BY ManagerConsumesTyped DEF ReceiveEvent, ManagerReceives, WireTypeOK
<1>4. Apply(p, event) \/ UNCHANGED <<started, stdout, seen, remote>>
  BY DEF ReceiveEvent
<1>5. pendingAcks' \in [Procs -> Nat]
  BY <1>2 DEF ReceiveEvent, Acknowledge, ManagerTypeOK
<1>6. lastEventSeq' \in [Procs -> Nat]
  <2>1. \/ lastEventSeq' = lastEventSeq
        \/ lastEventSeq' = [lastEventSeq EXCEPT ![p] = 0]
        \/ lastEventSeq' = [lastEventSeq EXCEPT ![p] = seq]
    BY DEF ReceiveEvent
  <2>2. QED
    BY <1>2, <2>1 DEF ManagerTypeOK
<1> HIDE DEF p, seq, event
<1>7. /\ started' \in SUBSET Procs
      /\ seen' \in [Procs -> SUBSET Unit]
      /\ remote' \in [Procs -> {"none", "live", "exited", "failed"}]
  BY <1>2, <1>4 DEF Apply, ManagerTypeOK
<1>8. stdout' \in [Procs -> Seq(SUBSET Unit)]
  <2>1. stdout' = stdout \/ stdout' = [stdout EXCEPT ![p] = Append(@, event.units)]
    BY <1>4 DEF Apply
  <2>2. stdout \in [Procs -> Seq(SUBSET Unit)]
    BY DEF ManagerTypeOK
  <2>3. Append(stdout[p], event.units) \in Seq(SUBSET Unit)
    BY <1>2, <2>2
  <2>4. QED
    BY <1>2, <2>1, <2>2, <2>3
<1>9. ManagerTypeOK'
  BY <1>5, <1>6, <1>7, <1>8
     DEF ReceiveEvent, ManagerTypeOK, linkVars, queueVars, updateVars
<1>10. QED
  BY <1>3, <1>9

LEMMA CoordinatorRestartTyped ==
    ASSUME WireTypeOK, ManagerTypeOK, CoordinatorRestart
    PROVE  WireTypeOK' /\ ManagerTypeOK'
<1>1. /\ toCoord' \in Seq(HostToCoordinator) /\ toHost' \in Seq(CoordinatorToHost)
      /\ unacked' \in Seq(QueuedCommand)
      /\ stdout' \in [Procs -> Seq(SUBSET Unit)]
  BY DEF CoordinatorRestart, WireTypeOK
<1>2. /\ instanceId' \in 1..MaxCoords
      /\ hostInstanceId' \in Nat /\ nextCommandSeq' \in Nat \ {0}
      /\ update' \in Stage
  BY BoundsAssumption DEF CoordinatorRestart, ManagerTypeOK, Stage
<1>3. /\ remote' \in [Procs -> {"none", "live", "exited", "failed"}]
      /\ lastEventSeq' \in [Procs -> Nat]
      /\ pendingAcks' \in [Procs -> Nat]
  BY DEF CoordinatorRestart
<1>4. /\ started' \in SUBSET Procs /\ adoptable' \in SUBSET Procs
      /\ asking' \in SUBSET Nat
  BY DEF CoordinatorRestart, ManagerTypeOK
<1>5. linkSocket' \in BOOLEAN /\ paired' \in BOOLEAN /\ online' \in BOOLEAN
  BY DEF CoordinatorRestart
<1>6. WireTypeOK'
  BY <1>1, <1>5 DEF CoordinatorRestart, WireTypeOK
<1>7. ManagerTypeOK'
  BY <1>1, <1>2, <1>3, <1>4, <1>5 DEF CoordinatorRestart, ManagerTypeOK
<1>8. QED
  BY <1>6, <1>7

LEMMA ConnectTyped ==
    ASSUME TypeInv, Connect
    PROVE  WireTypeOK' /\ ManagerTypeOK' /\ AgentInv'
<1>1. HelloMessage \in HostToCoordinator
  <2>1. HelloMessage \in Hello
    BY DEF HelloMessage, Hello, Hosted, TypeInv, AgentInv, AgentTypeOK
  <2>2. QED
    BY <2>1 DEF HostToCoordinator
<1>2. toHost' \in Seq(CoordinatorToHost) /\ toCoord' \in Seq(HostToCoordinator)
  BY <1>1 DEF Connect
<1>3. WireTypeOK'
  BY <1>2 DEF Connect, Attach, WireTypeOK, TypeInv
<1>4. ManagerTypeOK'
  BY DEF Connect, Attach, TypeInv, ManagerTypeOK, linkVars, queueVars,
         processVars, updateVars
<1>5. AgentInv'
  BY AgentStays DEF Connect, TypeInv
<1>6. QED
  BY <1>3, <1>4, <1>5

-----------------------------------------------------------------------------
(***************************************************************************)
(* The steps of the host keep the types.                                   *)
(***************************************************************************)
LEMMA AgentConsumesTyped ==
    ASSUME WireTypeOK, toHost # <<>>, AgentConsumes,
           toCoord' \in Seq(HostToCoordinator)
    PROVE  WireTypeOK'
<1>1. toHost' \in Seq(CoordinatorToHost)
  BY DEF AgentConsumes, WireTypeOK
<1>2. QED
  BY <1>1 DEF AgentConsumes, WireTypeOK

\* The frame an agent's step handles.
LEMMA AgentFrame ==
    ASSUME WireTypeOK, NEW type, AgentReceives(type)
    PROVE  /\ toHost # <<>>
           /\ Head(toHost) \in CoordinatorToHost
           /\ Head(toHost).t = type
  BY DEF AgentReceives, WireTypeOK

LEMMA SocketDownTyped ==
    ASSUME WireTypeOK, AgentInv, SocketDown, Breaks
    PROVE  WireTypeOK' /\ AgentInv'
<1>1. toCoord' \in Seq(HostToCoordinator) /\ toHost' \in Seq(CoordinatorToHost)
  BY DEF SocketDown, HostLetsGo, WireTypeOK
<1>2. breaks' \in Nat
  BY DEF Breaks, WireTypeOK
<1>3. WireTypeOK'
  BY <1>1, <1>2 DEF SocketDown, HostLetsGo, WireTypeOK
<1>4. QED
  BY <1>3, AgentStays DEF SocketDown

LEMMA RefuseWelcomeTyped ==
    ASSUME WireTypeOK, AgentInv, RefuseWelcome
    PROVE  WireTypeOK' /\ AgentInv'
<1>1. toCoord' \in Seq(HostToCoordinator) /\ toHost' \in Seq(CoordinatorToHost)
  BY DEF RefuseWelcome, HostLetsGo, WireTypeOK
<1>2. WireTypeOK'
  BY <1>1 DEF RefuseWelcome, HostLetsGo, WireTypeOK
<1>3. QED
  BY <1>2, AgentStays DEF RefuseWelcome

\* Every process keeps a sequence of events it has numbered.
LEMMA ResumeTyped ==
    ASSUME AgentInv, NEW welcome \in Welcome, Resume(welcome)
    PROVE  /\ phase' \in [Procs -> Phase]
           /\ pending' \in [Procs -> Seq(Event)]
           /\ nextSeq' \in [Procs -> Nat \ {0}]
           /\ unfinishedLine' \in [Procs -> SUBSET Unit]
           /\ coordinatorInstanceId' \in Nat
           /\ appliedCommandSeq' \in Nat
           /\ \A p \in Procs : Len(pending'[p]) < nextSeq'[p]
<1> DEFINE kept(p) ==
      IF p \notin welcome.listed THEN <<>>
      ELSE IF welcome.received[p] < FirstPending(p) THEN pending[p]
      ELSE SubSeq(pending[p], welcome.received[p] - FirstPending(p) + 2,
                  Len(pending[p]))
<1>1. ASSUME NEW p \in Procs
      PROVE  /\ kept(p) \in Seq(Event)
             /\ Len(kept(p)) < IF p \in welcome.listed THEN nextSeq[p] ELSE 1
  <2>1. /\ pending[p] \in Seq(Event) /\ nextSeq[p] \in Nat \ {0}
        /\ Len(pending[p]) < nextSeq[p]
        /\ welcome.received[p] \in Nat
    BY DEF AgentInv, AgentTypeOK, Welcome
  <2>2. FirstPending(p) \in Nat \ {0}
    BY <2>1 DEF FirstPending
  <2>3. CASE p \in welcome.listed /\ welcome.received[p] >= FirstPending(p)
    <3> DEFINE from == welcome.received[p] - FirstPending(p) + 2
    <3>1. from \in Nat /\ from >= 2
      BY <2>1, <2>2, <2>3
    <3>2. /\ SubSeq(pending[p], from, Len(pending[p])) \in Seq(Event)
          /\ Len(SubSeq(pending[p], from, Len(pending[p]))) <= Len(pending[p])
      <4> HIDE DEF from
      <4>1. QED
        BY <2>1, <3>1
    <3>3. kept(p) = SubSeq(pending[p], from, Len(pending[p]))
      <4>1. ~(welcome.received[p] < FirstPending(p))
        BY <2>1, <2>2, <2>3
      <4>2. QED
        BY <2>3, <4>1, Zenon
    <3>4. QED
      BY <2>1, <2>3, <3>2, <3>3
  <2>4. CASE p \in welcome.listed /\ welcome.received[p] < FirstPending(p)
    BY <2>1, <2>4
  <2>5. CASE p \notin welcome.listed
    BY <2>5
  <2>6. QED
    BY <2>1, <2>2, <2>3, <2>4, <2>5
<1>2. /\ pending' = [p \in Procs |-> kept(p)]
      /\ nextSeq' = [p \in Procs |-> IF p \in welcome.listed THEN nextSeq[p] ELSE 1]
  BY DEF Resume
<1> HIDE DEF kept
<1>3. /\ pending' \in [Procs -> Seq(Event)]
      /\ \A p \in Procs : Len(pending'[p]) < nextSeq'[p]
  BY <1>1, <1>2
<1>4. nextSeq' \in [Procs -> Nat \ {0}]
  BY <1>2 DEF AgentInv, AgentTypeOK
<1>5. /\ phase' \in [Procs -> Phase]
      /\ unfinishedLine' \in [Procs -> SUBSET Unit]
  BY DEF Resume, KeepListed, AgentInv, AgentTypeOK, Phase
<1>6. QED
  BY <1>3, <1>4, <1>5 DEF Resume, AgentInv, AgentTypeOK

LEMMA StdoutTyped ==
    ASSUME NEW us \in SUBSET Unit
    PROVE  Stdout(us) \in Event
  BY DEF Stdout, Event

LEMMA PlainTyped ==
    ASSUME NEW kind \in {"spawned", "error", "exit"}
    PROVE  Plain(kind) \in Event
  BY DEF Plain, Event

LEMMA AdoptByTyped ==
    ASSUME AgentInv, NEW welcome \in Welcome, AdoptBy(welcome)
    PROVE  /\ phase' \in [Procs -> Phase]
           /\ pending' \in [Procs -> Seq(Event)]
           /\ nextSeq' \in [Procs -> Nat \ {0}]
           /\ unfinishedLine' \in [Procs -> SUBSET Unit]
           /\ coordinatorInstanceId' \in Nat
           /\ appliedCommandSeq' \in Nat
           /\ \A p \in Procs : Len(pending'[p]) < nextSeq'[p]
<1> DEFINE kept(p) ==
      IF p \notin welcome.listed THEN <<>>
      ELSE IF unfinishedLine[p] = {} THEN pending[p]
      ELSE <<Stdout(unfinishedLine[p])>> \o pending[p]
<1>1. ASSUME NEW p \in Procs
      PROVE  kept(p) \in Seq(Event)
  <2>1. pending[p] \in Seq(Event) /\ unfinishedLine[p] \in SUBSET Unit
    BY DEF AgentInv, AgentTypeOK
  <2>2. Stdout(unfinishedLine[p]) \in Event
    BY <2>1, StdoutTyped
  <2>3. <<Stdout(unfinishedLine[p])>> \o pending[p] \in Seq(Event)
    BY <2>1, <2>2
  <2>4. QED
    BY <2>1, <2>3
<1>2. /\ pending' = [p \in Procs |-> kept(p)]
      /\ nextSeq' = [p \in Procs |-> Len(pending'[p]) + 1]
  BY DEF AdoptBy
<1> HIDE DEF kept
<1>3. pending' \in [Procs -> Seq(Event)]
  BY <1>1, <1>2
<1>4. /\ nextSeq' \in [Procs -> Nat \ {0}]
      /\ \A p \in Procs : Len(pending'[p]) < nextSeq'[p]
  <2>1. \A p \in Procs : Len(pending'[p]) \in Nat
    BY <1>3
  <2>2. QED
    BY <1>2, <2>1
<1>5. /\ phase' \in [Procs -> Phase]
      /\ unfinishedLine' \in [Procs -> SUBSET Unit]
  BY DEF AdoptBy, KeepListed, AgentInv, AgentTypeOK, Phase
<1>6. coordinatorInstanceId' \in Nat /\ appliedCommandSeq' \in Nat
  BY DEF AdoptBy, Welcome
<1>7. QED
  BY <1>3, <1>4, <1>5, <1>6

LEMMA ReceiveWelcomeTyped ==
    ASSUME WireTypeOK, AgentInv, ReceiveWelcome
    PROVE  WireTypeOK' /\ AgentInv'
<1> DEFINE welcome == Head(toHost)
<1>1. toHost # <<>> /\ welcome \in Welcome
  BY AgentFrame, HostFrame DEF ReceiveWelcome
<1>2. Resume(welcome) \/ AdoptBy(welcome)
  BY DEF ReceiveWelcome, TakeWelcome
<1>3. /\ phase' \in [Procs -> Phase]
      /\ pending' \in [Procs -> Seq(Event)]
      /\ nextSeq' \in [Procs -> Nat \ {0}]
      /\ unfinishedLine' \in [Procs -> SUBSET Unit]
      /\ coordinatorInstanceId' \in Nat
      /\ appliedCommandSeq' \in Nat
      /\ \A p \in Procs : Len(pending'[p]) < nextSeq'[p]
  <2>1. CASE Resume(welcome)
    BY <1>1, <2>1, ResumeTyped
  <2>2. CASE AdoptBy(welcome)
    BY <1>1, <2>2, AdoptByTyped
  <2>3. QED
    BY <1>2, <2>1, <2>2
<1>4. replaying' \in SUBSET Procs /\ highestEpoch' \in Nat
  BY <1>1 DEF ReceiveWelcome, TakeWelcome, Hosted, Welcome
<1>5. AgentInv'
  BY <1>3, <1>4 DEF ReceiveWelcome, TakeWelcome, AgentInv, AgentTypeOK
<1>6. WireTypeOK'
  BY <1>1, AgentConsumesTyped DEF ReceiveWelcome, TakeWelcome, WireTypeOK
<1>7. QED
  BY <1>5, <1>6

LEMMA ReplayTyped ==
    ASSUME WireTypeOK, AgentInv, NEW p \in Procs, Replay(p)
    PROVE  WireTypeOK' /\ AgentInv'
<1>1. FirstPending(p) \in Nat \ {0} /\ pending[p] \in Seq(Event)
  BY DEF FirstPending, AgentInv, AgentTypeOK
<1>2. EventMessages(p, FirstPending(p), pending[p]) \in Seq(HostToCoordinator)
  BY <1>1, EventMessagesType
<1>3. toCoord' \in Seq(HostToCoordinator)
  BY <1>2, HostSendsType DEF Replay
<1>4. WireTypeOK'
  BY <1>3 DEF Replay, OnlyReports, WireTypeOK
<1>5. AgentInv'
  BY DEF Replay, AgentInv, AgentTypeOK
<1>6. QED
  BY <1>4, <1>5

LEMMA AckTyped ==
    ASSUME NEW seq \in Nat
    PROVE  <<Ack(seq)>> \in Seq(HostToCoordinator)
<1>1. Ack(seq) \in HostToCoordinator
  BY DEF Ack, HostToCoordinator, CommandAck
<1>2. QED
  BY <1>1

LEMMA ReceiveOldCommandTyped ==
    ASSUME WireTypeOK, AgentInv, ReceiveOldCommand
    PROVE  WireTypeOK' /\ AgentInv'
<1>1. toHost # <<>> /\ Head(toHost) \in CommandMsg
  BY AgentFrame, HostFrame DEF ReceiveOldCommand
<1>2. <<Ack(Head(toHost).seq)>> \in Seq(HostToCoordinator)
  BY <1>1, AckTyped DEF CommandMsg
<1>3. toCoord' = toCoord \/ HostSends(<<Ack(Head(toHost).seq)>>)
  BY DEF ReceiveOldCommand
<1>4. toCoord' \in Seq(HostToCoordinator)
  BY <1>2, <1>3, HostSendsType DEF WireTypeOK
<1>5. QED
  BY <1>1, <1>4, AgentConsumesTyped, AgentStays DEF ReceiveOldCommand

LEMMA SpawnTyped ==
    ASSUME WireTypeOK, AgentInv, NEW p \in Procs, NEW seq \in Nat,
           NEW events \in {<<>>, Opened, CannotStart}, Spawn(p, seq, events)
    PROVE  /\ toCoord' \in Seq(HostToCoordinator)
           /\ phase' \in [Procs -> Phase]
           /\ pending' \in [Procs -> Seq(Event)]
           /\ nextSeq' \in [Procs -> Nat \ {0}]
           /\ unfinishedLine' \in [Procs -> SUBSET Unit]
           /\ written' \in [Procs -> Nat]
           /\ \A q \in Procs : Len(pending'[q]) < nextSeq'[q]
<1>1. events \in Seq(Event)
  <2>1. Plain("error") \in Event /\ Plain("exit") \in Event
    BY PlainTyped
  <2>2. CannotStart \in Seq(Event)
    BY <2>1 DEF CannotStart
  <2>3. <<>> \in Seq(Event)
    OBVIOUS
  <2>4. Opened \in Seq(Event)
    <3>1. Plain("spawned") \in Event
      BY PlainTyped
    <3>2. QED
      BY <3>1 DEF Opened
  <2>5. QED
    BY <2>2, <2>3, <2>4, Zenon
<1>2. Len(events) \in Nat
  BY <1>1
<1>3. EventMessages(p, 1, events) \in Seq(HostToCoordinator)
  BY <1>1, EventMessagesType
<1> DEFINE msgs == (IF coordinatorInstanceId # 0 THEN EventMessages(p, 1, events)
                                                 ELSE <<>>) \o <<Ack(seq)>>
<1>4. msgs \in Seq(HostToCoordinator)
  BY <1>3, AckTyped
<1>5. HostSends(msgs)
  BY DEF Spawn
<1> HIDE DEF msgs
<1>6. toCoord' \in Seq(HostToCoordinator)
  BY <1>4, <1>5, HostSendsType
<1>7. /\ pending' = [pending EXCEPT ![p] = events]
      /\ nextSeq' = [nextSeq EXCEPT ![p] = Len(events) + 1]
  BY DEF Spawn
<1>8. /\ pending' \in [Procs -> Seq(Event)]
      /\ nextSeq' \in [Procs -> Nat \ {0}]
      /\ \A q \in Procs : Len(pending'[q]) < nextSeq'[q]
  <2>1. pending \in [Procs -> Seq(Event)] /\ nextSeq \in [Procs -> Nat \ {0}]
    BY DEF AgentInv, AgentTypeOK
  <2>2. pending' \in [Procs -> Seq(Event)]
    BY <1>1, <1>7, <2>1
  <2>3. nextSeq' \in [Procs -> Nat \ {0}]
    BY <1>2, <1>7, <2>1
  <2>4. \A q \in Procs : Len(pending'[q]) < nextSeq'[q]
    BY <1>2, <1>7, <2>1 DEF AgentInv
  <2>5. QED
    BY <2>2, <2>3, <2>4
<1>9. /\ phase' \in [Procs -> Phase]
      /\ unfinishedLine' \in [Procs -> SUBSET Unit]
      /\ written' \in [Procs -> Nat]
  <2>1. \/ phase' = [phase EXCEPT ![p] = "starting"]
        \/ phase' = [phase EXCEPT ![p] = "running"]
        \/ phase' = [phase EXCEPT ![p] = "exited"]
    BY DEF Spawn
  <2>2. QED
    BY <2>1 DEF Spawn, AgentInv, AgentTypeOK, Phase
<1>10. QED
  BY <1>6, <1>8, <1>9

LEMMA ReceiveCommandTyped ==
    ASSUME WireTypeOK, AgentInv, ReceiveCommand
    PROVE  WireTypeOK' /\ AgentInv'
<1> DEFINE seq == Head(toHost).seq
           cmd == Head(toHost).cmd
<1>1. toHost # <<>> /\ Head(toHost) \in CommandMsg
  BY AgentFrame, HostFrame DEF ReceiveCommand
<1>2. seq \in Nat /\ cmd \in Command
  BY <1>1 DEF CommandMsg
<1>3. Applies(seq, cmd) /\ AgentConsumes
  BY DEF ReceiveCommand, ApplyCommand
<1>4. /\ appliedCommandSeq' \in Nat
      /\ ran' \in Seq([coord : Nat, id : Nat])
  <2>1. [coord |-> cmd.coord, id |-> cmd.id] \in [coord : Nat, id : Nat]
    BY <1>2 DEF Command
  <2>2. ran' = Append(ran, [coord |-> cmd.coord, id |-> cmd.id])
    BY <1>3 DEF Applies
  <2>3. ran \in Seq([coord : Nat, id : Nat])
    BY DEF AgentInv, AgentTypeOK
  <2>4. ran' \in Seq([coord : Nat, id : Nat])
    BY <2>1, <2>2, <2>3
  <2>5. QED
    BY <1>2, <1>3, <2>4 DEF Applies
<1>5. /\ toCoord' \in Seq(HostToCoordinator)
      /\ phase' \in [Procs -> Phase]
      /\ pending' \in [Procs -> Seq(Event)]
      /\ nextSeq' \in [Procs -> Nat \ {0}]
      /\ unfinishedLine' \in [Procs -> SUBSET Unit]
      /\ written' \in [Procs -> Nat]
      /\ \A q \in Procs : Len(pending'[q]) < nextSeq'[q]
  <2>1. CASE cmd.kind = "spawn"
    <3>1. cmd.proc \in Procs
      BY <1>2, <2>1 DEF Command
    <3>2. PICK events \in {<<>>, Opened, CannotStart} : Spawn(cmd.proc, seq, events)
      BY <2>1 DEF ReceiveCommand, ApplyCommand
    <3>3. QED
      BY <1>2, <3>1, <3>2, SpawnTyped
  <2>2. CASE cmd.kind # "spawn"
    <3>1. /\ HostSends(<<Ack(seq)>>)
          /\ UNCHANGED <<phase, nextSeq, pending, unfinishedLine, written>>
      BY <2>2 DEF ReceiveCommand, ApplyCommand
    <3>2. toCoord' \in Seq(HostToCoordinator)
      BY <1>2, <3>1, AckTyped, HostSendsType
    <3>3. QED
      BY <3>1, <3>2 DEF AgentInv, AgentTypeOK
  <2>3. QED
    BY <2>1, <2>2
<1>6. WireTypeOK'
  BY <1>1, <1>3, <1>5, AgentConsumesTyped
<1>7. AgentInv'
  BY <1>3, <1>4, <1>5 DEF Applies, AgentInv, AgentTypeOK
<1>8. QED
  BY <1>6, <1>7

LEMMA EmitTyped ==
    ASSUME WireTypeOK, AgentInv, NEW p \in Procs, NEW events \in Seq(Event),
           Emit(p, events), phase' \in [Procs -> Phase], written' \in [Procs -> Nat]
    PROVE  WireTypeOK' /\ AgentInv'
<1>1. /\ pending \in [Procs -> Seq(Event)] /\ nextSeq \in [Procs -> Nat \ {0}]
      /\ \A q \in Procs : Len(pending[q]) < nextSeq[q]
  BY DEF AgentInv, AgentTypeOK
<1>2. /\ pending[p] \o events \in Seq(Event)
      /\ Len(pending[p] \o events) = Len(pending[p]) + Len(events)
      /\ Len(events) \in Nat
  BY <1>1
<1>3. /\ nextSeq' = [nextSeq EXCEPT ![p] = nextSeq[p] + Len(events)]
      /\ pending' = [pending EXCEPT ![p] = pending[p] \o events]
  BY DEF Emit
<1>4. pending' \in [Procs -> Seq(Event)]
  BY <1>1, <1>2, <1>3
<1>5. nextSeq' \in [Procs -> Nat \ {0}]
  BY <1>1, <1>2, <1>3
<1>6. \A q \in Procs : Len(pending'[q]) < nextSeq'[q]
  <2>1. ASSUME NEW q \in Procs, q # p PROVE Len(pending'[q]) < nextSeq'[q]
    BY <1>1, <1>3, <2>1
  <2>2. Len(pending'[p]) < nextSeq'[p]
    <3>1. /\ Len(pending[p]) \in Nat /\ nextSeq[p] \in Nat
          /\ Len(pending[p]) < nextSeq[p]
      BY <1>1
    <3>2. pending'[p] = pending[p] \o events /\ nextSeq'[p] = nextSeq[p] + Len(events)
      BY <1>1, <1>3
    <3>3. QED
      BY <1>2, <3>1, <3>2
  <2>3. QED
    BY <2>1, <2>2
<1>7. EventMessages(p, nextSeq[p], events) \in Seq(HostToCoordinator)
  BY <1>1, EventMessagesType
<1>8. toCoord' = toCoord \/ HostSends(EventMessages(p, nextSeq[p], events))
  BY DEF Emit
<1>9. toCoord' \in Seq(HostToCoordinator)
  BY <1>7, <1>8, HostSendsType DEF WireTypeOK
<1>10. WireTypeOK'
  BY <1>9 DEF Emit, OnlyReports, WireTypeOK
<1>11. AgentInv'
  BY <1>4, <1>5, <1>6 DEF Emit, AgentInv, AgentTypeOK
<1>12. QED
  BY <1>10, <1>11

LEMMA ProcessesTyped ==
    ASSUME WireTypeOK, AgentInv, NEW p \in Procs,
           \/ ProcessSpawned(p) \/ ProcessFails(p)
           \/ ProcessOutput(p) \/ ProcessExit(p)
    PROVE  WireTypeOK' /\ AgentInv'
<1>1. /\ Plain("spawned") \in Event /\ Plain("error") \in Event
      /\ Plain("exit") \in Event
  BY PlainTyped
<1>2. CASE ProcessSpawned(p)
  <2>1. phase' \in [Procs -> Phase] /\ written' \in [Procs -> Nat]
    BY <1>2 DEF ProcessSpawned, AgentInv, AgentTypeOK, Phase
  <2>2. <<Plain("spawned")>> \in Seq(Event)
    BY <1>1
  <2>3. QED
    BY <1>2, <2>1, <2>2, EmitTyped DEF ProcessSpawned
<1>3. CASE ProcessFails(p)
  <2>1. phase' \in [Procs -> Phase] /\ written' \in [Procs -> Nat]
    BY <1>3 DEF ProcessFails, AgentInv, AgentTypeOK, Phase
  <2>2. CannotStart \in Seq(Event)
    BY <1>1 DEF CannotStart
  <2>3. QED
    BY <1>3, <2>1, <2>2, EmitTyped DEF ProcessFails
<1>4. CASE ProcessExit(p)
  <2>1. phase' \in [Procs -> Phase] /\ written' \in [Procs -> Nat]
    BY <1>4 DEF ProcessExit, AgentInv, AgentTypeOK, Phase
  <2>2. <<Plain("exit")>> \in Seq(Event)
    BY <1>1
  <2>3. QED
    BY <1>4, <2>1, <2>2, EmitTyped DEF ProcessExit
<1>5. CASE ProcessOutput(p)
  <2> DEFINE us(ends) == {[n |-> i, eol |-> ends[i]] : i \in DOMAIN ends}
  <2>0. PICK k \in 1..MaxChunk :
          \E ends \in [written[p] + 1..written[p] + k -> BOOLEAN] :
            /\ written' = [written EXCEPT ![p] = written[p] + k]
            /\ Emit(p, <<Stdout(us(ends))>>)
    BY <1>5 DEF ProcessOutput
  <2>1. PICK ends \in [written[p] + 1..written[p] + k -> BOOLEAN] :
          /\ written' = [written EXCEPT ![p] = written[p] + k]
          /\ Emit(p, <<Stdout(us(ends))>>)
    BY <2>0
  <2>2. k \in Nat /\ written \in [Procs -> Nat]
    BY BoundsAssumption DEF AgentInv, AgentTypeOK
  <2>3. phase' \in [Procs -> Phase] /\ written' \in [Procs -> Nat]
    BY <1>5, <2>1, <2>2 DEF ProcessOutput, AgentInv, AgentTypeOK
  <2>4. us(ends) \in SUBSET Unit
    <3>1. \A i \in DOMAIN ends : i \in Nat /\ ends[i] \in BOOLEAN
      BY <2>2
    <3>2. QED
      BY <3>1 DEF Unit
  <2> HIDE DEF us
  <2>5. <<Stdout(us(ends))>> \in Seq(Event)
    <3>1. Stdout(us(ends)) \in Event
      BY <2>4, StdoutTyped
    <3>2. QED
      BY <3>1
  <2>6. QED
    BY <2>1, <2>3, <2>5, EmitTyped
<1>6. QED
  BY <1>2, <1>3, <1>4, <1>5

\* The partial line is made of units the process wrote.
LEMMA FirstUnitsTyped ==
    ASSUME AgentInv, NEW p \in Procs, NEW k \in Nat, k <= Len(pending[p])
    PROVE  FirstUnits(p, k) \in SUBSET Unit
<1>1. pending[p] \in Seq(Event)
  BY DEF AgentInv, AgentTypeOK
<1>2. \A i \in 1..k : pending[p][i] \in Event
  BY <1>1
<1>3. \A i \in 1..k : pending[p][i].units \in SUBSET Unit
  BY <1>2 DEF Event
<1>4. QED
  BY <1>3 DEF FirstUnits

LEMMA ReceiveEventAckTyped ==
    ASSUME WireTypeOK, AgentInv, ReceiveEventAck
    PROVE  WireTypeOK' /\ AgentInv'
<1> DEFINE p == Head(toHost).proc
           seq == Head(toHost).seq
           acked == IF seq < FirstPending(p) THEN 0
                    ELSE IF seq >= nextSeq[p] THEN Len(pending[p])
                    ELSE seq - FirstPending(p) + 1
           rest == SubSeq(pending[p], acked + 1, Len(pending[p]))
           forget == phase[p] = "exited" /\ rest = <<>>
<1>1. toHost # <<>> /\ Head(toHost) \in EventAck
  BY AgentFrame, HostFrame DEF ReceiveEventAck
<1>2. p \in Procs /\ seq \in Nat
  BY <1>1 DEF EventAck
<1>3. /\ pending \in [Procs -> Seq(Event)] /\ nextSeq \in [Procs -> Nat \ {0}]
      /\ \A q \in Procs : Len(pending[q]) < nextSeq[q]
  BY DEF AgentInv, AgentTypeOK
<1>4. acked \in Nat /\ acked <= Len(pending[p])
  BY <1>2, <1>3 DEF FirstPending
<1>5. \/ UNCHANGED <<pending, nextSeq, unfinishedLine, phase>>
      \/ /\ pending' = [pending EXCEPT ![p] = rest]
         /\ unfinishedLine' = [unfinishedLine EXCEPT ![p] =
              IF forget THEN {}
              ELSE LineRemainder(unfinishedLine[p] \cup FirstUnits(p, acked))]
         /\ phase' = [phase EXCEPT ![p] = IF forget THEN "absent" ELSE phase[p]]
         /\ nextSeq' = [nextSeq EXCEPT ![p] = IF forget THEN 1 ELSE nextSeq[p]]
  BY DEF ReceiveEventAck
<1> HIDE DEF p, seq, acked
<1>6. rest \in Seq(Event) /\ Len(rest) = Len(pending[p]) - acked
  BY <1>2, <1>3, <1>4
<1>7. forget => Len(rest) = 0
  <2>1. Len(<<>>) = 0
    OBVIOUS
  <2>2. QED
    BY <2>1, Zenon
<1> HIDE DEF rest, forget
<1>8. phase' \in [Procs -> Phase]
  BY <1>2, <1>5 DEF AgentInv, AgentTypeOK, Phase
<1>9. unfinishedLine' \in [Procs -> SUBSET Unit]
  <2>1. unfinishedLine \in [Procs -> SUBSET Unit]
    BY DEF AgentInv, AgentTypeOK
  <2>2. LineRemainder(unfinishedLine[p] \cup FirstUnits(p, acked)) \in SUBSET Unit
    BY <1>2, <1>4, <2>1, FirstUnitsTyped DEF LineRemainder
  <2>3. QED
    BY <1>2, <1>5, <2>1, <2>2
<1>10. pending' \in [Procs -> Seq(Event)]
  BY <1>2, <1>3, <1>5, <1>6
<1>11. nextSeq' \in [Procs -> Nat \ {0}]
  BY <1>2, <1>3, <1>5
<1>12. \A q \in Procs : Len(pending'[q]) < nextSeq'[q]
  <2>1. ASSUME NEW q \in Procs, q # p PROVE Len(pending'[q]) < nextSeq'[q]
    BY <1>2, <1>3, <1>5, <2>1
  <2>2. Len(pending'[p]) < nextSeq'[p]
    <3>1. /\ Len(pending[p]) \in Nat /\ nextSeq[p] \in Nat
          /\ Len(pending[p]) < nextSeq[p]
      BY <1>2, <1>3
    <3>2. \/ pending'[p] = pending[p] /\ nextSeq'[p] = nextSeq[p]
          \/ pending'[p] = rest /\ nextSeq'[p] = IF forget THEN 1 ELSE nextSeq[p]
      BY <1>2, <1>3, <1>5
    <3>3. Len(rest) <= Len(pending[p]) /\ (forget => Len(rest) = 0)
      BY <1>4, <1>6, <1>7, <3>1
    <3>4. Len(rest) \in Nat
      BY <1>6
    <3>5. QED
      BY <3>1, <3>2, <3>3, <3>4
  <2>3. QED
    BY <2>1, <2>2
<1>13. AgentInv'
  BY <1>8, <1>9, <1>10, <1>11, <1>12 DEF ReceiveEventAck, AgentInv, AgentTypeOK
<1>14. WireTypeOK'
  BY <1>1, AgentConsumesTyped DEF ReceiveEventAck, WireTypeOK
<1>15. QED
  BY <1>13, <1>14

LEMMA NodeUpdatesTyped ==
    ASSUME WireTypeOK, AgentInv, ReceiveUpdate \/ UpdateFails
    PROVE  WireTypeOK' /\ AgentInv'
<1>1. CASE ReceiveUpdate
  <2>1. WireTypeOK'
    BY <1>1, AgentFrame, AgentConsumesTyped DEF ReceiveUpdate, WireTypeOK
  <2>2. AgentInv'
    BY <1>1 DEF ReceiveUpdate, AgentInv, AgentTypeOK
  <2>3. QED
    BY <2>1, <2>2
<1>2. CASE UpdateFails
  <2>1. <<[t |-> "update_failed"]>> \in Seq(HostToCoordinator)
    <3>1. [t |-> "update_failed"] \in HostToCoordinator
      BY DEF HostToCoordinator, UpdateFailed
    <3>2. QED
      BY <3>1
  <2>2. toCoord' \in Seq(HostToCoordinator)
    BY <1>2, <2>1, HostSendsType DEF UpdateFails
  <2>3. WireTypeOK'
    BY <1>2, <2>2 DEF UpdateFails, OnlyReports, WireTypeOK
  <2>4. AgentInv'
    BY <1>2 DEF UpdateFails, AgentInv, AgentTypeOK
  <2>5. QED
    BY <2>3, <2>4
<1>3. QED
  BY <1>1, <1>2

LEMMA NodeRestartTyped ==
    ASSUME WireTypeOK, AgentInv, NodeRestart
    PROVE  WireTypeOK' /\ AgentInv'
<1>1. /\ toHost' \in Seq(CoordinatorToHost)
      /\ pending' \in [Procs -> Seq(Event)]
      /\ ran' \in Seq([coord : Nat, id : Nat])
      /\ \A p \in Procs : Len(pending'[p]) < nextSeq'[p]
  BY DEF NodeRestart
<1>2. /\ phase' \in [Procs -> Phase]
      /\ nextSeq' \in [Procs -> Nat \ {0}]
      /\ unfinishedLine' \in [Procs -> SUBSET Unit]
  BY DEF NodeRestart, Phase
<1>3. /\ agentId' \in Nat \ {0} /\ coordinatorInstanceId' \in Nat
      /\ highestEpoch' \in Nat /\ appliedCommandSeq' \in Nat
      /\ replaying' \in SUBSET Procs
  BY DEF NodeRestart, AgentInv, AgentTypeOK
<1>4. updating' \in BOOLEAN /\ agentSocket' \in BOOLEAN /\ paired' \in BOOLEAN
  BY DEF NodeRestart
<1>5. WireTypeOK'
  BY <1>1, <1>4 DEF NodeRestart, WireTypeOK
<1>6. AgentInv'
  BY <1>1, <1>2, <1>3, <1>4 DEF NodeRestart, AgentInv, AgentTypeOK
<1>7. QED
  BY <1>5, <1>6

-----------------------------------------------------------------------------
LEMMA NextTyped == TypeInv /\ [Next]_vars => TypeInv'
<1> SUFFICES ASSUME TypeInv, [Next]_vars PROVE TypeInv'
  OBVIOUS
<1> USE DEF TypeInv
<1>1. ASSUME UNCHANGED agentVars, WireTypeOK' /\ ManagerTypeOK'
      PROVE  TypeInv'
  BY <1>1, AgentStays
<1>2. ASSUME UNCHANGED managerVars, WireTypeOK' /\ AgentInv'
      PROVE  TypeInv'
  BY <1>2, ManagerStays
<1>3. CASE Connect
  BY <1>3, ConnectTyped
<1>4. CASE LinkBreaks \/ LinkNoticed
  BY <1>1, <1>4, LinkDownTyped DEF LinkBreaks, LinkNoticed
<1>5. CASE SocketBreaks \/ SocketNoticed
  BY <1>2, <1>5, SocketDownTyped DEF SocketBreaks, SocketNoticed
<1>6. CASE NodeReleased
  BY <1>1, <1>6, ReleaseTyped DEF NodeReleased
<1>7. CASE Sessions
  BY <1>1, <1>7, SessionsTyped, WriteFileTyped DEF Sessions
<1>8. CASE ManagerDelivers
  BY <1>1, <1>8, ReceiveHelloTyped, ReceiveEventTyped, ReceiveCommandAckTyped,
     ReceiveUpdateFailedTyped DEF ManagerDelivers
<1>9. CASE Flush
  BY <1>1, <1>9, FlushAckTyped DEF Flush
<1>10. CASE Updates
  BY <1>1, <1>10, UpdatesTyped DEF Updates
<1>11. CASE TimesOut
  BY <1>1, <1>11, UpdateTimeoutTyped DEF TimesOut
<1>12. CASE AgentDelivers
  BY <1>2, <1>12, ReceiveWelcomeTyped, RefuseWelcomeTyped, ReceiveCommandTyped,
     ReceiveOldCommandTyped, ReceiveEventAckTyped, NodeUpdatesTyped
     DEF AgentDelivers
<1>13. CASE Replays
  BY <1>2, <1>13, ReplayTyped DEF Replays
<1>14. CASE HostRuns
  BY <1>2, <1>14, ProcessesTyped, NodeUpdatesTyped DEF HostRuns
<1>15. CASE Restarts
  BY <1>1, <1>2, <1>15, CoordinatorRestartTyped, NodeRestartTyped DEF Restarts
<1>16. CASE UNCHANGED vars
  <2>1. WireTypeOK'
    BY <1>16 DEF vars, wireVars, WireTypeOK
  <2>2. QED
    BY <1>16, <2>1, AgentStays, ManagerStays DEF vars
<1>17. QED
  BY <1>3, <1>4, <1>5, <1>6, <1>7, <1>8, <1>9, <1>10, <1>11, <1>12, <1>13,
     <1>14, <1>15, <1>16 DEF Next

(***************************************************************************)
(* Every variable keeps its type and no frame on the wire is malformed:    *)
(* what handleMessage of either end reads has the shape its case expects,  *)
(* and every event carries a number its process gave out.                  *)
(***************************************************************************)
THEOREM TypeCorrect == Spec => []TypeOK
<1>1. TypeInv => TypeOK
  BY DEF TypeInv, TypeOK, AgentInv
<1>2. QED
  BY <1>1, InitTyped, NextTyped, PTL DEF Spec

-----------------------------------------------------------------------------
(***************************************************************************)
(* The queue of the coordinator is in order.  QueueInOrder is inductive    *)
(* once the types are known; Ordered is its body for any queue, next       *)
(* number and count.                                                       *)
(***************************************************************************)
Ordered(q, next, count) ==
    /\ \A i, j \in DOMAIN q : i < j =>
         q[i].seq < q[j].seq /\ q[i].cmd.id < q[j].cmd.id
    /\ \A i \in DOMAIN q : q[i].seq < next /\ q[i].cmd.id <= count

LEMMA FilteredOrdered ==
    ASSUME NEW q \in Seq(QueuedCommand), NEW I \in SUBSET DOMAIN q,
           NEW r \in Filtered(q, I), NEW next, NEW count, Ordered(q, next, count)
    PROVE  Ordered(r, next, count)
<1>1. PICK g \in [1..Len(r) -> I] :
        /\ \A a, b \in 1..Len(r) : a < b => g[a] < g[b]
        /\ \A j \in 1..Len(r) : r[j] = q[g[j]]
  BY FilteredEmbeds
<1>2. DOMAIN r = 1..Len(r)
  BY FilteredEmbeds
<1>3. QED
  BY <1>1, <1>2 DEF Ordered

LEMMA RenumberedOrdered ==
    ASSUME NEW q \in Seq(QueuedCommand), NEW next, NEW count \in Nat,
           Ordered(q, next, count)
    PROVE  Ordered(Renumbered(q), Len(q) + 1, count)
<1> DEFINE r == Renumbered(q)
<1>1. /\ Len(q) \in Nat /\ DOMAIN q = 1..Len(q) /\ DOMAIN r = 1..Len(q)
      /\ \A i \in 1..Len(q) : r[i].seq = i /\ r[i].cmd = q[i].cmd
  BY RenumberedType
<1> HIDE DEF r
<1>2. Ordered(r, Len(q) + 1, count)
  BY <1>1 DEF Ordered
<1>3. QED
  BY <1>2 DEF r

LEMMA AppendOrdered ==
    ASSUME NEW q \in Seq(QueuedCommand), NEW e \in QueuedCommand,
           NEW count \in Nat, Ordered(q, e.seq, count), e.cmd.id = count + 1
    PROVE  Ordered(Append(q, e), e.seq + 1, count + 1)
<1> DEFINE r == Append(q, e)
<1>1. /\ Len(q) \in Nat /\ DOMAIN q = 1..Len(q) /\ DOMAIN r = 1..Len(q) + 1
      /\ \A i \in 1..Len(q) : r[i] = q[i]
      /\ r[Len(q) + 1] = e
  OBVIOUS
<1>2. ASSUME NEW i \in 1..Len(q)
      PROVE  q[i].seq \in Nat /\ q[i].cmd.id \in Nat
  <2>1. q[i] \in QueuedCommand
    OBVIOUS
  <2>2. QED
    BY <2>1 DEF QueuedCommand, Command
<1>3. e.seq \in Nat
  BY DEF QueuedCommand
<1> HIDE DEF r
<1>4. ASSUME NEW i \in DOMAIN r
      PROVE  r[i].seq < e.seq + 1 /\ r[i].cmd.id <= count + 1
  <2>1. CASE i \in 1..Len(q)
    BY <1>1, <1>2, <1>3, <2>1 DEF Ordered
  <2>2. CASE i = Len(q) + 1
    BY <1>1, <1>3, <2>2
  <2>3. QED
    BY <1>1, <2>1, <2>2
<1>5. ASSUME NEW i \in DOMAIN r, NEW j \in DOMAIN r, i < j
      PROVE  r[i].seq < r[j].seq /\ r[i].cmd.id < r[j].cmd.id
  <2>1. i \in 1..Len(q)
    BY <1>1, <1>5
  <2>2. CASE j \in 1..Len(q)
    BY <1>1, <1>5, <2>1, <2>2 DEF Ordered
  <2>3. CASE j = Len(q) + 1
    BY <1>1, <1>2, <1>3, <2>1, <2>3 DEF Ordered
  <2>4. QED
    BY <1>1, <2>2, <2>3
<1>6. Ordered(r, e.seq + 1, count + 1)
  BY <1>4, <1>5 DEF Ordered
<1>7. QED
  BY <1>6 DEF r

LEMMA EnqueueOrdered ==
    ASSUME ManagerTypeOK, QueueInOrder,
           NEW kind \in {"spawn", "control", "write_file"},
           NEW p \in Procs \cup {NoProc},
           (kind = "write_file" /\ p = NoProc) \/ (kind # "write_file" /\ p \in Procs),
           Enqueue(kind, p)
    PROVE  QueueInOrder'
<1> DEFINE cmd == [id |-> commandCount + 1, coord |-> instanceId,
                   kind |-> kind, proc |-> p]
           queued == [seq |-> nextCommandSeq, cmd |-> cmd]
<1>1. cmd \in Command
  BY BoundsAssumption DEF ManagerTypeOK, Command
<1>2. queued \in QueuedCommand /\ queued.seq = nextCommandSeq
      /\ queued.cmd.id = commandCount + 1
  BY <1>1 DEF QueuedCommand, ManagerTypeOK
<1>3. Queues(queued)
  BY DEF Enqueue
<1> HIDE DEF queued
<1>4. Ordered(unacked, queued.seq, commandCount)
  BY <1>2 DEF QueueInOrder, Ordered
<1>5. Ordered(Append(unacked, queued), queued.seq + 1, commandCount + 1)
  BY <1>2, <1>4, AppendOrdered DEF ManagerTypeOK
<1>6. QED
  BY <1>2, <1>3, <1>5 DEF Queues, QueueInOrder, Ordered

\* A step that only drops commands, or none, keeps the queue in order.
LEMMA DropsOrdered ==
    ASSUME ManagerTypeOK, QueueInOrder, NEW I \in SUBSET DOMAIN unacked,
           NEW r \in Filtered(unacked, I), unacked' = r,
           UNCHANGED <<nextCommandSeq, commandCount>>
    PROVE  QueueInOrder'
<1>1. Ordered(unacked, nextCommandSeq, commandCount)
  BY DEF QueueInOrder, Ordered
<1>2. Ordered(r, nextCommandSeq, commandCount)
  BY <1>1, FilteredOrdered DEF ManagerTypeOK
<1>3. QED
  BY <1>2 DEF QueueInOrder, Ordered

LEMMA QueueStays ==
    ASSUME QueueInOrder, UNCHANGED queueVars
    PROVE  QueueInOrder'
  BY DEF QueueInOrder, queueVars

LEMMA NewInstanceOrdered ==
    ASSUME ManagerTypeOK, QueueInOrder, NEW hello, NewInstance(hello),
           commandCount' = commandCount
    PROVE  QueueInOrder'
<1>1. PICK kept \in Kept(hello) :
        unacked' = Renumbered(kept) /\ nextCommandSeq' = Len(kept) + 1
  BY DEF NewInstance
<1>2. Ordered(unacked, nextCommandSeq, commandCount)
  BY DEF QueueInOrder, Ordered
<1>3. kept \in Seq(QueuedCommand) /\ Ordered(kept, nextCommandSeq, commandCount)
  BY <1>2, FilteredQueue, FilteredOrdered DEF Kept, ManagerTypeOK
<1>4. Ordered(Renumbered(kept), Len(kept) + 1, commandCount)
  BY <1>3, RenumberedOrdered DEF ManagerTypeOK
<1>5. QED
  BY <1>1, <1>4 DEF QueueInOrder, Ordered

LEMMA InitOrdered == Init => QueueInOrder
  BY DEF Init, ManagerInit, QueueInOrder

LEMMA NextOrdered == TypeInv /\ QueueInOrder /\ [Next]_vars => QueueInOrder'
<1> SUFFICES ASSUME TypeInv, QueueInOrder, [Next]_vars PROVE QueueInOrder'
  OBVIOUS
<1>1. ManagerTypeOK
  BY DEF TypeInv
<1>2. ASSUME UNCHANGED queueVars PROVE QueueInOrder'
  BY <1>2, QueueStays
<1>3. ASSUME UNCHANGED managerVars PROVE QueueInOrder'
  BY <1>2, <1>3 DEF managerVars
<1>4. CASE Connect
  BY <1>2, <1>4 DEF Connect, Attach
<1>5. CASE LinkBreaks \/ LinkNoticed
  BY <1>2, <1>5 DEF LinkBreaks, LinkNoticed, LinkDown
<1>6. CASE SocketBreaks \/ SocketNoticed \/ AgentDelivers \/ Replays \/ HostRuns
  BY <1>3, <1>6 DEF SocketBreaks, SocketNoticed, AgentDelivers, Replays, HostRuns
<1>7. CASE NodeReleased
  BY <1>1, <1>7, DropsOrdered DEF NodeReleased, Release
<1>8. CASE Sessions
  <2>1. ASSUME NEW p \in Procs, StartProcess(p) PROVE QueueInOrder'
    BY <1>1, <2>1, EnqueueOrdered DEF StartProcess
  <2>2. ASSUME NEW p \in Procs, Control(p) PROVE QueueInOrder'
    BY <1>1, <2>2, EnqueueOrdered DEF Control
  <2>3. ASSUME NEW p \in Procs, Adopt(p) PROVE QueueInOrder'
    BY <1>2, <2>3 DEF Adopt
  <2>4. CASE WriteFileInOrder
    BY <1>1, <2>4, EnqueueOrdered DEF WriteFileInOrder
  <2>5. QED
    BY <1>8, <2>1, <2>2, <2>3, <2>4 DEF Sessions
<1>9. CASE ManagerDelivers
  <2>1. CASE ReceiveHello
    <3>1. CASE NewInstance(Head(toCoord))
      BY <1>1, <2>1, <3>1, NewInstanceOrdered DEF ReceiveHello
    <3>2. CASE UNCHANGED <<unacked, nextCommandSeq>>
      BY <1>2, <2>1, <3>2 DEF ReceiveHello, queueVars
    <3>3. QED
      BY <2>1, <3>1, <3>2 DEF ReceiveHello
  <2>2. CASE ReceiveCommandAck
    BY <1>1, <2>2, DropsOrdered DEF ReceiveCommandAck
  <2>3. CASE ReceiveEvent \/ ReceiveUpdateFailed
    BY <1>2, <2>3 DEF ReceiveEvent, ReceiveUpdateFailed
  <2>4. QED
    BY <1>9, <2>1, <2>2, <2>3 DEF ManagerDelivers
<1>10. CASE Flush \/ Updates \/ TimesOut
  BY <1>2, <1>10 DEF Flush, FlushAck, Updates, AskUpdate, PrepareFails,
     FinishAsk, TimesOut,
     UpdateTimeout
<1>11. CASE CoordinatorRestart
  <2>1. unacked' = <<>>
    BY <1>11 DEF CoordinatorRestart
  <2>2. QED
    BY <2>1 DEF QueueInOrder
<1>12. CASE NodeRestart /\ UNCHANGED managerVars
  BY <1>3, <1>12
<1>13. CASE UNCHANGED vars
  BY <1>3, <1>13 DEF vars
<1>14. QED
  BY <1>4, <1>5, <1>6, <1>7, <1>8, <1>9, <1>10, <1>11, <1>12, <1>13
     DEF Next, Restarts

(***************************************************************************)
(* QueueInOrder for every number of processes, coordinators, hosts and     *)
(* commands: what handleHello, release and command_ack drop or renumber    *)
(* leaves a queue that every resend sends in the order of enqueuing.       *)
(***************************************************************************)
THEOREM QueueStaysInOrder == Spec => []QueueInOrder
<1>1. Init => TypeInv /\ QueueInOrder
  BY InitTyped, InitOrdered
<1>2. TypeInv /\ QueueInOrder /\ [Next]_vars => (TypeInv /\ QueueInOrder)'
  BY NextTyped, NextOrdered
<1>3. QED
  BY <1>1, <1>2, PTL DEF Spec

-----------------------------------------------------------------------------
(***************************************************************************)
(* Commands.  From here on a node does not dial over a socket that is      *)
(* still online with a coordinator it has not taken.                       *)
(***************************************************************************)
-----------------------------------------------------------------------------
(***************************************************************************)
(* The inductive invariant: where the frames on the wire, the queue and    *)
(* the numbers of both ends stand to each other.                           *)
(***************************************************************************)
\* The setting of the theorems and of the run link_commands.
Punctual == ~EarlyReplaces

\* Frames that name the coordinator they come from, and which one that is.
Marked(m) == m.t \in {"welcome", "command"}
From(m) == IF m.t = "welcome" THEN m.coord ELSE m.cmd.coord

\* What each end may hold of the other.
Ends ==
    /\ online => linkSocket
    /\ paired => linkSocket /\ agentSocket
    /\ coordinatorInstanceId <= instanceId

\* Queued commands are the running coordinator's own, numbered from 1.
Own ==
    \A i \in DOMAIN unacked :
        unacked[i].seq # 0 /\ unacked[i].cmd.coord = instanceId

\* All frames on their way to the node come from one coordinator: the running
\* one when it holds a socket, or when the node has taken it.
Sources ==
    /\ \A i \in DOMAIN toHost : Marked(toHost[i]) =>
         /\ From(toHost[i]) \in 1..instanceId
         /\ linkSocket \/ coordinatorInstanceId = instanceId =>
                From(toHost[i]) = instanceId
         /\ toHost[i].t = "welcome" => toHost[i].epoch = Epoch[toHost[i].coord]
    /\ \A i, j \in DOMAIN toHost : Marked(toHost[i]) /\ Marked(toHost[j]) =>
                From(toHost[i]) = From(toHost[j])

\* No command gets to a node that has not taken its coordinator.
Introduced ==
    /\ \A i \in DOMAIN toHost : toHost[i].t = "command" =>
         \/ From(toHost[i]) = coordinatorInstanceId
         \/ \E j \in 1..i - 1 : toHost[j].t = "welcome"
    /\ paired /\ online =>
         \/ coordinatorInstanceId = instanceId
         \/ \E j \in DOMAIN toHost : toHost[j].t = "welcome"

\* The newest epoch a node knows is that of the coordinator it took last, and what
\* it applied came from coordinators that have run.
EpochKnown ==
    /\ coordinatorInstanceId # 0 => highestEpoch = Epoch[coordinatorInstanceId]
    /\ \A i \in DOMAIN ran : ran[i].coord \in 1..instanceId

DriverInv == Ends /\ Own /\ Sources /\ Introduced /\ EpochKnown

\* The coordinator the node has taken, or greets, knows this node instance.
Recognised ==
    /\ coordinatorInstanceId = instanceId => hostInstanceId = agentId
    /\ \A i \in DOMAIN toHost :
          Marked(toHost[i]) /\ From(toHost[i]) = instanceId => hostInstanceId = agentId

\* A hello is its node's, until that has restarted.
Hellos ==
    /\ hostInstanceId <= agentId
    /\ \A i \in DOMAIN toCoord : toCoord[i].t = "hello" =>
          /\ toCoord[i].inst <= agentId
          /\ toCoord[i].inst # agentId =>
                /\ coordinatorInstanceId = 0 /\ ~paired
                /\ \A j \in DOMAIN toHost : ~Marked(toHost[j])

\* How far the node is in the numbers of coordinator k.
Reached(k) == IF coordinatorInstanceId = k THEN appliedCommandSeq ELSE 0

\* The queue goes on from there without a gap.
Contiguous ==
    hostInstanceId = agentId =>
       /\ Reached(instanceId) < nextCommandSeq
       /\ \A s \in Reached(instanceId) + 1 .. nextCommandSeq - 1 :
             \E i \in DOMAIN unacked : unacked[i].seq = s

\* An acknowledgement is of what was applied, or of a node that has restarted.
Acknowledged ==
    \A i \in DOMAIN toCoord : toCoord[i].t = "command_ack" =>
        \/ coordinatorInstanceId = instanceId /\ toCoord[i].seq <= appliedCommandSeq
        \/ /\ hostInstanceId # agentId
           /\ \A j \in DOMAIN toCoord : toCoord[j].t = "hello" => toCoord[j].inst # agentId

\* A command on its way that the node has yet to apply.
Fresh(m) == m.t = "command" /\ m.seq > Reached(m.cmd.coord)

\* Such a command of the running coordinator is queued under that number.
FromQueue ==
    \A i \in DOMAIN toHost :
        Fresh(toHost[i]) /\ toHost[i].cmd.coord = instanceId =>
            \E j \in DOMAIN unacked :
               unacked[j].seq = toHost[i].seq /\ unacked[j].cmd = toHost[i].cmd

\* What was applied is older than what the queue has beyond it.
RanFirst ==
    /\ \A i \in DOMAIN ran : ran[i].id <= commandCount
    /\ \A i \in DOMAIN ran, j \in DOMAIN unacked :
          unacked[j].seq > Reached(instanceId) => ran[i].id < unacked[j].cmd.id

\* What is on its way is younger than what was applied; that of an earlier
\* coordinator is older than the queue.
SentBetween ==
    \A i \in DOMAIN toHost : toHost[i].t = "command" =>
        /\ toHost[i].cmd.id <= commandCount
        /\ toHost[i].cmd.coord # instanceId =>
              \A j \in DOMAIN unacked : toHost[i].cmd.id < unacked[j].cmd.id
        /\ Fresh(toHost[i]) => \A j \in DOMAIN ran : ran[j].id < toHost[i].cmd.id

\* The numbers of what is on its way follow the order of enqueuing.
SentInOrder ==
    \A i, j \in DOMAIN toHost :
        Fresh(toHost[i]) /\ toHost[j].t = "command" /\ toHost[i].seq < toHost[j].seq
        => toHost[i].cmd.id < toHost[j].cmd.id

CommandInv ==
    DriverInv /\ QueueInOrder /\ Recognised /\ Hellos /\ Contiguous /\ Acknowledged
      /\ FromQueue /\ RanFirst /\ SentBetween /\ SentInOrder /\ AppliedOnce

-----------------------------------------------------------------------------
(***************************************************************************)
(* Frames.                                                                 *)
(***************************************************************************)
\* The parts of a frame the invariant compares.
LEMMA FrameFacts ==
    ASSUME NEW m \in CoordinatorToHost
    PROVE  /\ Marked(m) => From(m) \in Nat
           /\ m.t = "welcome" => m.coord = From(m) /\ m.epoch \in Nat
           /\ m.t = "command" => /\ m.seq \in Nat /\ m.cmd.id \in Nat
                                 /\ m.cmd.coord = From(m)
<1>1. CASE m.t = "welcome"
  <2>1. m \in Welcome
    BY <1>1, HostFrame
  <2>2. QED
    BY <1>1, <2>1 DEF Welcome, From
<1>2. CASE m.t = "command"
  <2>1. m \in CommandMsg
    BY <1>2, HostFrame
  <2>2. m.seq \in Nat /\ m.cmd \in Command
    BY <2>1 DEF CommandMsg
  <2>3. m.cmd.id \in Nat /\ m.cmd.coord \in Nat
    BY <2>2 DEF Command
  <2>4. QED
    BY <1>2, <2>2, <2>3 DEF From
<1>3. QED
  BY <1>1, <1>2 DEF Marked

\* Each frame on its way is one of those.
LEMMA WireFrames ==
    ASSUME WireTypeOK
    PROVE  /\ Len(toHost) \in Nat /\ DOMAIN toHost = 1..Len(toHost)
           /\ \A i \in DOMAIN toHost : toHost[i] \in CoordinatorToHost
BY LenProperties, ElementOfSeq DEF WireTypeOK

\* Marked frames stay where they were, d frames further on.
Passed(d) ==
    /\ \A i \in DOMAIN toHost' : Marked(toHost'[i]) =>
          i + d \in DOMAIN toHost /\ toHost'[i] = toHost[i + d]
    /\ \A j \in DOMAIN toHost : toHost[j].t = "welcome" =>
          j - d \in DOMAIN toHost' /\ toHost'[j - d] = toHost[j]

\* No marked frame is sent, and no welcome read.
Fewer == (toHost' = <<>> /\ ~paired') \/ Passed(0) \/ Passed(1)

\* What the steps do to the frames on their way.
LEMMA PassedKinds ==
    ASSUME WireTypeOK
    PROVE  /\ toHost' = toHost => Passed(0)
           /\ toHost # <<>> /\ Head(toHost).t # "welcome" /\ toHost' = Tail(toHost)
                 => Passed(1)
           /\ \A m : ~Marked(m) /\ toHost' = toHost \o <<m>> => Passed(0)
<1>1. Len(toHost) \in Nat /\ DOMAIN toHost = 1..Len(toHost)
  BY WireFrames
<1>2. ASSUME toHost' = toHost PROVE Passed(0)
  BY <1>1, <1>2 DEF Passed
<1>3. ASSUME toHost # <<>>, Head(toHost).t # "welcome", toHost' = Tail(toHost)
      PROVE  Passed(1)
  <2>1. /\ Head(toHost) = toHost[1] /\ Len(toHost) # 0
        /\ DOMAIN Tail(toHost) = 1..Len(toHost) - 1
        /\ \A i \in 1..Len(toHost) - 1 : Tail(toHost)[i] = toHost[i + 1]
    BY <1>3, HeadTailProperties, EmptySeq DEF WireTypeOK
  <2>2. QED
    BY <1>1, <1>3, <2>1 DEF Passed
<1>4. ASSUME NEW m, ~Marked(m), toHost' = toHost \o <<m>> PROVE Passed(0)
  <2>1. /\ DOMAIN toHost' = 1..Len(toHost) + 1 /\ toHost'[Len(toHost) + 1] = m
        /\ \A i \in 1..Len(toHost) : toHost'[i] = toHost[i]
    BY <1>4 DEF WireTypeOK
  <2>2. QED
    BY <1>1, <1>4, <2>1 DEF Passed
<1>5. QED
  BY <1>2, <1>3, <1>4

-----------------------------------------------------------------------------
(***************************************************************************)
(* Which coordinator drives the node.                                      *)
(***************************************************************************)
\* A step that introduces nobody and applies nothing.
LEMMA QuietDrives ==
    ASSUME TypeInv, TypeInv', DriverInv, Fewer, Own',
           UNCHANGED <<instanceId, coordinatorInstanceId, highestEpoch, ran>>,
           linkSocket' => linkSocket,
           paired' => paired /\ linkSocket' /\ agentSocket',
           online' => online /\ linkSocket'
    PROVE  DriverInv'
<1> USE DEF DriverInv
<1>1. Ends'
  BY DEF Ends
<1>2. WireTypeOK /\ WireTypeOK'
  BY DEF TypeInv
<1>3. /\ DOMAIN toHost = 1..Len(toHost) /\ Len(toHost) \in Nat
      /\ DOMAIN toHost' = 1..Len(toHost') /\ Len(toHost') \in Nat
      /\ \A i \in DOMAIN toHost' : toHost'[i] \in CoordinatorToHost
  BY <1>2, WireFrames, LenProperties, ElementOfSeq DEF WireTypeOK
<1>4. toHost' = <<>> => DOMAIN toHost' = {}
  OBVIOUS
<1>5. \A i \in DOMAIN toHost' : Marked(toHost'[i]) =>
         \E k \in DOMAIN toHost : toHost'[i] = toHost[k]
  BY <1>3, <1>4 DEF Fewer, Passed
<1>6. Sources'
  BY <1>5 DEF Sources
<1>7. Introduced'
  <2>1. ASSUME NEW i \in DOMAIN toHost', toHost'[i].t = "command",
               From(toHost'[i]) # coordinatorInstanceId
        PROVE  \E j \in 1..i - 1 : toHost'[j].t = "welcome"
    <3>1. Marked(toHost'[i])
      BY <2>1 DEF Marked
    <3>2. PICK d \in {0, 1} : Passed(d)
      BY <1>4 DEF Fewer
    <3>3. PICK k \in DOMAIN toHost : k = i + d /\ toHost'[i] = toHost[k]
      BY <3>1, <3>2 DEF Passed
    <3>4. PICK j \in 1..k - 1 : toHost[j].t = "welcome"
      BY <2>1, <3>3 DEF Introduced
    <3>5. j \in DOMAIN toHost
      BY <1>3
    <3>6. j - d \in DOMAIN toHost' /\ toHost'[j - d].t = "welcome"
      BY <3>2, <3>4, <3>5 DEF Passed
    <3>7. j - d \in 1..i - 1
      BY <1>3, <3>3, <3>4, <3>6
    <3>8. QED
      BY <3>6, <3>7
  <2>2. ASSUME paired', online', coordinatorInstanceId' # instanceId'
        PROVE  \E j \in DOMAIN toHost' : toHost'[j].t = "welcome"
    <3>1. PICK j \in DOMAIN toHost : toHost[j].t = "welcome"
      BY <2>2 DEF Introduced
    <3>2. PICK d \in {0, 1} : Passed(d)
      BY <2>2 DEF Fewer
    <3>3. QED
      BY <3>1, <3>2 DEF Passed
  <2>3. QED
    BY <2>1, <2>2 DEF Introduced
<1>8. EpochKnown'
  BY DEF EpochKnown
<1>9. QED
  BY <1>1, <1>6, <1>7, <1>8

\* A step in which the running coordinator sends: commands to a node that has
\* taken it, or anything after its welcome.
LEMMA SendsDrive ==
    ASSUME TypeInv, TypeInv', DriverInv, Own', linkSocket,
           UNCHANGED <<linkSocket, agentSocket, paired, instanceId,
                       coordinatorInstanceId, highestEpoch, ran>>,
           NEW msgs \in Seq(CoordinatorToHost), CoordinatorSends(msgs),
           \A i \in DOMAIN msgs : Marked(msgs[i]) =>
              /\ From(msgs[i]) = instanceId
              /\ msgs[i].t = "welcome" => msgs[i].epoch = Epoch[msgs[i].coord],
           \/ online
           \/ msgs # <<>> /\ msgs[1].t = "welcome"
    PROVE  DriverInv'
<1> USE DEF DriverInv
<1> DEFINE n == Len(toHost)
<1>1. Ends'
  BY DEF Ends
<1>2. WireTypeOK /\ WireTypeOK'
  BY DEF TypeInv
<1>3. /\ n \in Nat /\ DOMAIN toHost = 1..n
      /\ Len(msgs) \in Nat /\ DOMAIN msgs = 1..Len(msgs)
      /\ \A i \in DOMAIN toHost : toHost[i] \in CoordinatorToHost
      /\ \A i \in DOMAIN msgs : msgs[i] \in CoordinatorToHost
  BY <1>2, WireFrames, LenProperties, ElementOfSeq
<1>4. \/ toHost' = toHost /\ ~paired
      \/ paired /\ toHost' = toHost \o msgs
  BY <1>2 DEF CoordinatorSends, WireTypeOK
<1>5. instanceId \in Nat \ {0}
  BY BoundsAssumption DEF TypeInv, ManagerTypeOK
<1>6. EpochKnown'
  BY DEF EpochKnown
<1>7. CASE toHost' = toHost /\ ~paired
  <2>1. Sources'
    BY <1>7 DEF Sources
  <2>2. Introduced'
    BY <1>7 DEF Introduced
  <2>3. QED
    BY <1>1, <1>6, <2>1, <2>2
<1>8. CASE paired /\ toHost' = toHost \o msgs
  <2>1. /\ DOMAIN toHost' = 1..n + Len(msgs)
        /\ \A i \in 1..n : toHost'[i] = toHost[i]
        /\ \A i \in 1..Len(msgs) : toHost'[n + i] = msgs[i]
    BY <1>2, <1>8 DEF WireTypeOK
  <2>2. \A i \in DOMAIN toHost' : \/ i \in 1..n
                                   \/ (i - n \in 1..Len(msgs) /\ i = n + (i - n))
    BY <1>3, <2>1
  <2>3. \A i \in DOMAIN toHost' : Marked(toHost'[i]) =>
           /\ From(toHost'[i]) = instanceId
           /\ toHost'[i].t = "welcome" => toHost'[i].epoch = Epoch[toHost'[i].coord]
    <3>1. ASSUME NEW i \in 1..n, Marked(toHost[i])
          PROVE  /\ From(toHost[i]) = instanceId
                 /\ toHost[i].t = "welcome" => toHost[i].epoch = Epoch[toHost[i].coord]
      BY <1>3, <3>1 DEF Sources
    <3>2. QED
      BY <1>3, <2>1, <2>2, <3>1
  <2>4. Sources'
    BY <1>5, <2>3 DEF Sources
  <2>5. online => \/ coordinatorInstanceId = instanceId
                  \/ \E j \in DOMAIN toHost : toHost[j].t = "welcome"
    BY <1>8 DEF Introduced
  <2>6. Introduced'
    <3>1. ASSUME NEW i \in DOMAIN toHost', toHost'[i].t = "command"
          PROVE  \/ From(toHost'[i]) = coordinatorInstanceId
                 \/ \E j \in 1..i - 1 : toHost'[j].t = "welcome"
      <4>1. CASE i \in 1..n
        <5>1. \/ From(toHost[i]) = coordinatorInstanceId
              \/ \E j \in 1..i - 1 : toHost[j].t = "welcome"
          BY <1>3, <2>1, <3>1, <4>1 DEF Introduced
        <5>2. \A j \in 1..i - 1 : j \in 1..n
          BY <1>3, <4>1
        <5>3. QED
          BY <2>1, <4>1, <5>1, <5>2
      <4>2. CASE i \notin 1..n
        <5>1. i - n \in 1..Len(msgs) /\ toHost'[i] = msgs[i - n] /\ i > n
          BY <1>3, <2>1, <2>2, <4>2
        <5>2. CASE msgs # <<>> /\ msgs[1].t = "welcome"
          <6>1. i - n # 1
            BY <3>1, <5>1, <5>2
          <6>2. 1 \in 1..Len(msgs) /\ n + 1 \in 1..i - 1
            <7>1. i \in 1..n + Len(msgs)
              BY <2>1
            <7>2. QED
              BY <1>3, <5>1, <6>1, <7>1
          <6>3. QED
            BY <2>1, <5>2, <6>2
        <5>3. CASE online
          <6>1. From(toHost'[i]) = instanceId
            BY <2>3, <3>1 DEF Marked
          <6>2. \A j \in DOMAIN toHost : j \in 1..i - 1 /\ toHost'[j] = toHost[j]
            BY <1>3, <2>1, <5>1
          <6>3. QED
            BY <2>5, <5>3, <6>1, <6>2
        <5>4. QED
          BY <5>2, <5>3
      <4>3. QED
        BY <4>1, <4>2
    <3>2. \/ coordinatorInstanceId = instanceId
          \/ \E j \in DOMAIN toHost' : toHost'[j].t = "welcome"
      <4>1. CASE msgs # <<>> /\ msgs[1].t = "welcome"
        <5>1. 1 \in 1..Len(msgs) /\ n + 1 \in DOMAIN toHost'
          BY <1>3, <2>1, <4>1, EmptySeq
        <5>2. QED
          BY <2>1, <4>1, <5>1
      <4>2. CASE online
        <5>1. \A j \in DOMAIN toHost : j \in DOMAIN toHost' /\ toHost'[j] = toHost[j]
          BY <1>3, <2>1
        <5>2. QED
          BY <2>5, <4>2, <5>1
      <4>3. QED
        BY <4>1, <4>2
    <3>3. QED
      BY <3>1, <3>2 DEF Introduced
  <2>7. QED
    BY <1>1, <1>6, <2>4, <2>6
<1>9. QED
  BY <1>4, <1>7, <1>8
-----------------------------------------------------------------------------
(***************************************************************************)
(* What the steps do to the queue.                                         *)
(***************************************************************************)
\* Dropping and renumbering keep the commands and number them from 1.
LEMMA DropsOwn ==
    ASSUME ManagerTypeOK, Own, NEW I \in SUBSET DOMAIN unacked,
           NEW r \in Filtered(unacked, I),
           unacked' = r \/ unacked' = Renumbered(r), instanceId' = instanceId
    PROVE  Own'
<1>1. \A i \in DOMAIN r : \E k \in I : r[i] = unacked[k]
  BY FilteredEntries DEF ManagerTypeOK
<1>2. \A i \in DOMAIN r : r[i].seq # 0 /\ r[i].cmd.coord = instanceId
  BY <1>1 DEF Own
<1>3. r \in Seq(QueuedCommand) /\ DOMAIN r = 1..Len(r) /\ Len(r) \in Nat
  <2>1. r \in Seq(QueuedCommand)
    BY FilteredQueue DEF ManagerTypeOK
  <2>2. QED
    BY <2>1
<1>4. CASE unacked' = r
  BY <1>2, <1>4 DEF Own
<1>5. CASE unacked' = Renumbered(r)
  <2>1. /\ DOMAIN unacked' = DOMAIN r
        /\ \A i \in 1..Len(r) : unacked'[i].seq = i /\ unacked'[i].cmd = r[i].cmd
    BY <1>3, <1>5, RenumberedType DEF Renumbered
  <2>2. \A i \in DOMAIN r : unacked'[i].seq # 0 /\ unacked'[i].cmd.coord = instanceId
    BY <1>2, <1>3, <2>1
  <2>3. QED
    BY <2>1, <2>2 DEF Own
<1>6. QED
  BY <1>4, <1>5

\* What a session enqueues is the running coordinator's.
LEMMA EnqueueOwn ==
    ASSUME ManagerTypeOK, Own, NEW kind, NEW p, Enqueue(kind, p),
           instanceId' = instanceId
    PROVE  Own'
<1> DEFINE cmd == [id |-> commandCount + 1, coord |-> instanceId,
                   kind |-> kind, proc |-> p]
           queued == [seq |-> nextCommandSeq, cmd |-> cmd]
<1>1. queued.seq # 0 /\ queued.cmd.coord = instanceId
  BY DEF ManagerTypeOK
<1>2. unacked' = Append(unacked, queued)
  BY DEF Enqueue, Queues
<1> HIDE DEF queued
<1>3. /\ DOMAIN unacked' = 1..Len(unacked) + 1 /\ DOMAIN unacked = 1..Len(unacked)
      /\ \A i \in 1..Len(unacked) : unacked'[i] = unacked[i]
      /\ unacked'[Len(unacked) + 1] = queued /\ Len(unacked) \in Nat
  BY <1>2 DEF ManagerTypeOK
<1>4. \A i \in 1..Len(unacked) + 1 : i \in 1..Len(unacked) \/ i = Len(unacked) + 1
  BY <1>3
<1>5. QED
  BY <1>1, <1>3, <1>4 DEF Own

LEMMA OwnStays ==
    ASSUME Own, UNCHANGED <<instanceId, unacked>>
    PROVE  Own'
  BY DEF Own

LEMMA NextOwn == TypeInv /\ Own /\ [Next]_vars => Own'
<1> SUFFICES ASSUME TypeInv, Own, [Next]_vars PROVE Own'
  OBVIOUS
<1>1. ManagerTypeOK
  BY DEF TypeInv
<1>2. ASSUME UNCHANGED <<linkVars, queueVars>> PROVE Own'
  BY <1>2, OwnStays DEF linkVars, queueVars
<1>3. ASSUME UNCHANGED managerVars PROVE Own'
  BY <1>2, <1>3 DEF managerVars
<1>4. CASE Connect
  BY <1>2, <1>4 DEF Connect, Attach
<1>5. CASE LinkBreaks \/ LinkNoticed
  BY <1>5, OwnStays DEF LinkBreaks, LinkNoticed, LinkDown, queueVars
<1>6. CASE SocketBreaks \/ SocketNoticed \/ AgentDelivers \/ Replays \/ HostRuns
  BY <1>3, <1>6 DEF SocketBreaks, SocketNoticed, AgentDelivers, Replays, HostRuns
<1>7. CASE NodeReleased
  BY <1>1, <1>7, DropsOwn DEF NodeReleased, Release, linkVars
<1>8. CASE Sessions
  <2>1. ASSUME NEW p \in Procs, StartProcess(p) PROVE Own'
    BY <1>1, <2>1, EnqueueOwn DEF StartProcess, linkVars
  <2>2. ASSUME NEW p \in Procs, Control(p) PROVE Own'
    BY <1>1, <2>2, EnqueueOwn DEF Control, linkVars
  <2>3. ASSUME NEW p \in Procs, Adopt(p) PROVE Own'
    BY <1>2, <2>3 DEF Adopt
  <2>4. CASE WriteFileInOrder
    BY <1>1, <2>4, EnqueueOwn DEF WriteFileInOrder, linkVars
  <2>5. QED
    BY <1>8, <2>1, <2>2, <2>3, <2>4 DEF Sessions
<1>9. CASE ManagerDelivers
  <2>1. CASE ReceiveHello
    <3>1. CASE NewInstance(Head(toCoord))
      <4>1. PICK kept \in Kept(Head(toCoord)) : unacked' = Renumbered(kept)
        BY <3>1 DEF NewInstance
      <4>2. QED
        BY <1>1, <2>1, <4>1, DropsOwn DEF Kept, ReceiveHello
    <3>2. CASE UNCHANGED <<unacked, nextCommandSeq>>
      BY <2>1, <3>2, OwnStays DEF ReceiveHello
    <3>3. QED
      BY <2>1, <3>1, <3>2 DEF ReceiveHello
  <2>2. CASE ReceiveCommandAck
    BY <1>1, <2>2, DropsOwn DEF ReceiveCommandAck, linkVars
  <2>3. CASE ReceiveEvent \/ ReceiveUpdateFailed
    BY <1>2, <2>3 DEF ReceiveEvent, ReceiveUpdateFailed
  <2>4. QED
    BY <1>9, <2>1, <2>2, <2>3 DEF ManagerDelivers
<1>10. CASE Flush \/ Updates \/ TimesOut
  BY <1>2, <1>10 DEF Flush, FlushAck, Updates, AskUpdate, PrepareFails,
     FinishAsk, TimesOut, UpdateTimeout
<1>11. CASE CoordinatorRestart
  <2>1. unacked' = <<>>
    BY <1>11 DEF CoordinatorRestart
  <2>2. QED
    BY <2>1 DEF Own
<1>12. CASE NodeRestart /\ UNCHANGED managerVars
  BY <1>3, <1>12
<1>13. CASE UNCHANGED vars
  BY <1>3, <1>13 DEF vars
<1>14. QED
  BY <1>4, <1>5, <1>6, <1>7, <1>8, <1>9, <1>10, <1>11, <1>12, <1>13
     DEF Next, Restarts
-----------------------------------------------------------------------------
(***************************************************************************)
(* What the coordinator sends.                                             *)
(***************************************************************************)
\* Its own welcome, and commands as they stand in its queue.
Fits(msgs) ==
    \A i \in DOMAIN msgs :
        /\ msgs[i].t = "welcome" =>
              msgs[i].coord = instanceId /\ msgs[i].epoch = Epoch[instanceId]
        /\ msgs[i].t = "command" =>
              \E k \in DOMAIN unacked' :
                 unacked'[k].seq = msgs[i].seq /\ unacked'[k].cmd = msgs[i].cmd

\* It sends them to a node that answered, or after a welcome.
Sending(msgs) ==
    /\ linkSocket /\ CoordinatorSends(msgs) /\ Fits(msgs)
    /\ \/ online
       \/ msgs # <<>> /\ msgs[1].t = "welcome"

LEMMA CommandsFit ==
    ASSUME NEW q \in Seq(QueuedCommand),
           \A i \in DOMAIN q : \E k \in DOMAIN unacked' : unacked'[k] = q[i]
    PROVE  /\ CommandMessages(q) \in Seq(CoordinatorToHost)
           /\ DOMAIN CommandMessages(q) = DOMAIN q
           /\ \A i \in DOMAIN q : CommandMessages(q)[i].t = "command"
           /\ Fits(CommandMessages(q))
<1>1. CommandMessages(q) \in Seq(CoordinatorToHost)
  BY CommandMessagesType
<1>2. /\ DOMAIN CommandMessages(q) = DOMAIN q
      /\ \A i \in DOMAIN q : /\ CommandMessages(q)[i].t = "command"
                             /\ CommandMessages(q)[i].seq = q[i].seq
                             /\ CommandMessages(q)[i].cmd = q[i].cmd
  BY DEF CommandMessages
<1>3. \A i \in DOMAIN q : \E k \in DOMAIN unacked' :
         unacked'[k].seq = q[i].seq /\ unacked'[k].cmd = q[i].cmd
  OBVIOUS
<1>4. Fits(CommandMessages(q))
  BY <1>2, <1>3 DEF Fits
<1>5. QED
  BY <1>1, <1>2, <1>4

LEMMA EnqueueSends ==
    ASSUME ManagerTypeOK,
           NEW kind \in {"spawn", "control", "write_file"},
           NEW p \in Procs \cup {NoProc},
           (kind = "write_file" /\ p = NoProc) \/ (kind # "write_file" /\ p \in Procs),
           Enqueue(kind, p)
    PROVE  toHost' = toHost \/ \E msgs \in Seq(CoordinatorToHost) : Sending(msgs)
<1> DEFINE cmd == [id |-> commandCount + 1, coord |-> instanceId,
                   kind |-> kind, proc |-> p]
           queued == [seq |-> nextCommandSeq, cmd |-> cmd]
<1>1. cmd \in Command
  BY BoundsAssumption DEF ManagerTypeOK, Command
<1>2. queued \in QueuedCommand
  BY <1>1 DEF QueuedCommand, ManagerTypeOK
<1>3. /\ unacked' = Append(unacked, queued)
      /\ \/ toHost' = toHost
         \/ online /\ linkSocket /\ CoordinatorSends(CommandMessages(<<queued>>))
  BY DEF Enqueue, Queues
<1> HIDE DEF queued
<1>4. <<queued>> \in Seq(QueuedCommand) /\ DOMAIN <<queued>> = {1}
      /\ <<queued>>[1] = queued
  BY <1>2
<1>5. Len(unacked) + 1 \in DOMAIN unacked' /\ unacked'[Len(unacked) + 1] = queued
  BY <1>2, <1>3 DEF ManagerTypeOK
<1>6. \A i \in DOMAIN <<queued>> : \E k \in DOMAIN unacked' : unacked'[k] = <<queued>>[i]
  BY <1>4, <1>5
<1>7. /\ CommandMessages(<<queued>>) \in Seq(CoordinatorToHost)
      /\ Fits(CommandMessages(<<queued>>))
  BY <1>4, <1>6, CommandsFit
<1>8. QED
  BY <1>3, <1>7 DEF Sending

LEMMA AbandonSends ==
    ASSUME ManagerTypeOK, Abandon, UNCHANGED queueVars
    PROVE  toHost' = toHost \/ \E msgs \in Seq(CoordinatorToHost) : Sending(msgs)
<1>1. unacked \in Seq(QueuedCommand) /\ unacked' = unacked
  BY DEF ManagerTypeOK, queueVars
<1>2. /\ CommandMessages(unacked) \in Seq(CoordinatorToHost)
      /\ Fits(CommandMessages(unacked))
  BY <1>1, CommandsFit
<1>3. QED
  BY <1>2 DEF Abandon, Sending

LEMMA HelloSends ==
    ASSUME WireTypeOK, ManagerTypeOK, ManagerTypeOK', ReceiveHello
    PROVE  \E msgs \in Seq(CoordinatorToHost) :
              /\ Sending(msgs)
              /\ msgs # <<>> /\ msgs[1] = WelcomeMessage
              /\ \A i \in DOMAIN msgs : i = 1 \/ msgs[i].t \in {"command", "update"}
<1>1. /\ WelcomeMessage \in CoordinatorToHost /\ WelcomeMessage.t = "welcome"
      /\ WelcomeMessage.coord = instanceId
      /\ WelcomeMessage.epoch = Epoch[instanceId]
  <2>1. lastEventSeq' \in [Procs -> Nat] /\ Epoch[instanceId] \in Nat
        /\ instanceId \in Nat
    BY EpochAssumption, BoundsAssumption DEF ManagerTypeOK
  <2>2. WelcomeMessage \in Welcome
    BY <2>1 DEF WelcomeMessage, Welcome
  <2>3. QED
    BY <2>2 DEF CoordinatorToHost, WelcomeMessage
<1>2. linkSocket
  BY DEF ReceiveHello, ManagerReceives
<1>3. CASE CoordinatorSends(<<WelcomeMessage, [t |-> "update"]>>)
  <2>1. [t |-> "update"] \in CoordinatorToHost
    BY DEF CoordinatorToHost, Update
  <2> DEFINE u == [t |-> "update"]
             w == WelcomeMessage
  <2>2. u.t = "update" /\ u \in CoordinatorToHost
    BY <2>1
  <2>3. CoordinatorSends(<<w, u>>)
    BY <1>3
  <2>4. w \in CoordinatorToHost /\ w.t = "welcome" /\ w.coord = instanceId
        /\ w.epoch = Epoch[instanceId]
    BY <1>1
  <2> HIDE DEF u, w
  <2>5. /\ <<w, u>> \in Seq(CoordinatorToHost)
        /\ <<w, u>> # <<>> /\ <<w, u>>[1] = w /\ <<w, u>>[2] = u
        /\ DOMAIN <<w, u>> = {1, 2}
    BY <2>2, <2>4
  <2>6. Fits(<<w, u>>)
    BY <2>2, <2>4, <2>5 DEF Fits
  <2>7. Sending(<<w, u>>)
    BY <1>2, <2>3, <2>4, <2>5, <2>6 DEF Sending
  <2>8. \A i \in DOMAIN <<w, u>> : i = 1 \/ <<w, u>>[i].t \in {"command", "update"}
    BY <2>2, <2>5
  <2>9. QED
    BY <2>5, <2>7, <2>8 DEF w
<1>4. ASSUME NEW rest \in Filtered(unacked', {i \in DOMAIN unacked' :
                                 unacked'[i].seq > Applied(Head(toCoord))}),
             CoordinatorSends(<<WelcomeMessage>> \o CommandMessages(rest))
      PROVE  \E msgs \in Seq(CoordinatorToHost) :
                /\ Sending(msgs) /\ msgs # <<>> /\ msgs[1] = WelcomeMessage
                /\ \A i \in DOMAIN msgs : i = 1 \/ msgs[i].t \in {"command", "update"}
  <2> DEFINE w == WelcomeMessage
             c == CommandMessages(rest)
             msgs == <<w>> \o c
  <2>1. unacked' \in Seq(QueuedCommand)
    BY DEF ManagerTypeOK
  <2>2. /\ rest \in Seq(QueuedCommand)
        /\ \A i \in DOMAIN rest : \E k \in DOMAIN unacked' : unacked'[k] = rest[i]
    BY <2>1, FilteredQueue, FilteredEntries
  <2>3. /\ c \in Seq(CoordinatorToHost) /\ Fits(c)
        /\ \A i \in DOMAIN c : c[i].t = "command"
    BY <2>2, CommandsFit
  <2>4. w \in CoordinatorToHost /\ w.t = "welcome" /\ w.coord = instanceId
        /\ w.epoch = Epoch[instanceId]
    BY <1>1
  <2>5. CoordinatorSends(<<w>> \o c)
    BY <1>4
  <2> HIDE DEF w, c
  <2>6. /\ msgs \in Seq(CoordinatorToHost) /\ msgs[1] = w /\ msgs # <<>>
        /\ Len(c) \in Nat /\ DOMAIN c = 1..Len(c) /\ DOMAIN msgs = 1..Len(c) + 1
        /\ \A i \in 1..Len(c) : msgs[i + 1] = c[i]
    BY <2>3, <2>4
  <2>7. \A i \in DOMAIN msgs : i = 1 \/ (i - 1 \in DOMAIN c /\ i = (i - 1) + 1)
    BY <2>6
  <2>8. \A i \in DOMAIN msgs : i = 1 \/ \E j \in DOMAIN c : msgs[i] = c[j]
    BY <2>6, <2>7
  <2> HIDE DEF msgs
  <2>9. Fits(msgs)
    <3>1. msgs[1].t # "command" /\ msgs[1].coord = instanceId /\ msgs[1].epoch = Epoch[instanceId]
      BY <2>4, <2>6
    <3>2. QED
      BY ONLY <2>3, <2>8, <3>1 DEF Fits
  <2>10. Sending(msgs)
    BY <1>2, <2>4, <2>5, <2>6, <2>9 DEF Sending, msgs
  <2>11. \A i \in DOMAIN msgs : i = 1 \/ msgs[i].t \in {"command", "update"}
    <3>1. \A i \in DOMAIN msgs : i = 1 \/ (i - 1 \in DOMAIN c /\ msgs[i] = c[i - 1])
      BY <2>6, <2>7 DEF msgs
    <3>2. QED
      BY <2>3, <3>1
  <2>12. QED
    BY <2>6, <2>10, <2>11 DEF w
<1>5. QED
  BY <1>3, <1>4 DEF ReceiveHello
-----------------------------------------------------------------------------
(***************************************************************************)
(* DriverInv is kept by every step.                                        *)
(***************************************************************************)
\* What the coordinator sends names it.
LEMMA SendingDrives ==
    ASSUME TypeInv, TypeInv', DriverInv, Own',
           UNCHANGED <<linkSocket, agentSocket, paired, instanceId,
                       coordinatorInstanceId, highestEpoch, ran>>,
           NEW msgs \in Seq(CoordinatorToHost), Sending(msgs)
    PROVE  DriverInv'
<1>1. \A i \in DOMAIN msgs : Marked(msgs[i]) =>
         /\ From(msgs[i]) = instanceId
         /\ msgs[i].t = "welcome" => msgs[i].epoch = Epoch[msgs[i].coord]
  <2>1. SUFFICES ASSUME NEW i \in DOMAIN msgs, Marked(msgs[i])
                 PROVE  /\ From(msgs[i]) = instanceId
                        /\ msgs[i].t = "welcome" => msgs[i].epoch = Epoch[msgs[i].coord]
    OBVIOUS
  <2>2. CASE msgs[i].t = "welcome"
    BY <2>2 DEF Sending, Fits, From
  <2>3. CASE msgs[i].t = "command"
    BY <2>3 DEF Sending, Fits, From, Own
  <2>4. QED
    BY <2>1, <2>2, <2>3 DEF Marked
<1>2. QED
  BY <1>1, SendsDrive DEF Sending

\* The node takes a coordinator at least as new as the last.
LEMMA WelcomeDrives ==
    ASSUME TypeInv, TypeInv', DriverInv, Own', ReceiveWelcome, UNCHANGED managerVars
    PROVE  DriverInv'
<1> USE DEF DriverInv
<1> DEFINE w == toHost[1]
<1>1. WireTypeOK /\ WireTypeOK'
  BY DEF TypeInv
<1>2. /\ toHost # <<>> /\ Head(toHost) = toHost[1] /\ Len(toHost) \in Nat \ {0}
      /\ DOMAIN toHost = 1..Len(toHost) /\ DOMAIN toHost' = 1..Len(toHost) - 1
      /\ \A i \in 1..Len(toHost) - 1 : toHost'[i] = toHost[i + 1]
  BY <1>1, HeadTailProperties, LenProperties, EmptySeq
     DEF WireTypeOK, ReceiveWelcome, AgentReceives, TakeWelcome, AgentConsumes
<1>3. /\ w.t = "welcome" /\ w.epoch >= highestEpoch /\ highestEpoch' = w.epoch
      /\ UNCHANGED <<linkSocket, agentSocket, paired, ran, online, instanceId>>
      /\ agentSocket
      /\ coordinatorInstanceId' = w.coord
  BY <1>2 DEF ReceiveWelcome, AgentReceives, TakeWelcome, AgentConsumes, Resume,
     AdoptBy, managerVars, linkVars
<1>4. Marked(w) /\ From(w) = w.coord /\ 1 \in DOMAIN toHost
  BY <1>2, <1>3 DEF Marked, From
<1>5. /\ w.coord \in 1..instanceId /\ w.epoch = Epoch[w.coord]
      /\ linkSocket => w.coord = instanceId
      /\ \A i \in DOMAIN toHost : Marked(toHost[i]) => From(toHost[i]) = w.coord
  BY <1>3, <1>4 DEF Sources
<1>6. instanceId \in Nat /\ w.epoch \in Nat /\ highestEpoch \in Nat
  BY <1>3, BoundsAssumption DEF TypeInv, ManagerTypeOK, AgentInv, AgentTypeOK
<1>7. Ends'
  BY <1>3, <1>5, <1>6 DEF Ends
<1> HIDE DEF w
<1>8. \A i \in DOMAIN toHost' : i + 1 \in DOMAIN toHost /\ toHost'[i] = toHost[i + 1]
  BY <1>2
<1>9. \A i \in DOMAIN toHost' : Marked(toHost'[i]) => From(toHost'[i]) = w.coord
  BY <1>5, <1>8
<1>10. Sources'
  <2>1. ASSUME NEW i \in DOMAIN toHost', Marked(toHost'[i])
        PROVE  /\ From(toHost'[i]) \in 1..instanceId'
               /\ linkSocket' \/ coordinatorInstanceId' = instanceId' =>
                     From(toHost'[i]) = instanceId'
               /\ toHost'[i].t = "welcome" =>
                     toHost'[i].epoch = Epoch[toHost'[i].coord]
    <3>1. From(toHost'[i]) = w.coord
      BY <1>9, <2>1
    <3>2. PICK k \in DOMAIN toHost : toHost'[i] = toHost[k]
      BY <1>8
    <3>3. toHost'[i].t = "welcome" => toHost'[i].epoch = Epoch[toHost'[i].coord]
      BY <2>1, <3>2 DEF Sources
    <3>4. QED
      BY <1>3, <1>5, <3>1, <3>3
  <2>2. QED
    BY <1>9, <2>1 DEF Sources
<1>11. Introduced'
  <2>1. \A i \in DOMAIN toHost' : toHost'[i].t = "command" =>
           From(toHost'[i]) = coordinatorInstanceId'
    BY <1>3, <1>9 DEF Marked
  <2>2. paired' => coordinatorInstanceId' = instanceId'
    BY <1>3, <1>5 DEF Ends
  <2>3. QED
    BY <2>1, <2>2 DEF Introduced
<1>12. EpochKnown'
  <2>1. \A i \in DOMAIN ran : ran[i].coord \in 1..instanceId
    BY DEF EpochKnown
  <2>2. QED
    BY <1>3, <1>5, <2>1 DEF EpochKnown
<1>13. QED
  BY <1>7, <1>10, <1>11, <1>12, <1>13
\* A command the node applies is its coordinator's.
LEMMA AppliedByTaken ==
    ASSUME WireTypeOK, Introduced, ReceiveCommand
    PROVE  /\ toHost[1] \in CommandMsg /\ toHost[1].t = "command"
           /\ toHost[1].cmd.coord = coordinatorInstanceId
           /\ ran' = Append(ran, [coord |-> toHost[1].cmd.coord,
                                  id |-> toHost[1].cmd.id])
           /\ toHost' = Tail(toHost) /\ toHost # <<>> /\ Head(toHost) = toHost[1]
           /\ 1 \in DOMAIN toHost
<1>1. /\ toHost # <<>> /\ Head(toHost) = toHost[1] /\ 1 \in DOMAIN toHost
      /\ toHost[1].t = "command"
  BY WireFrames, HeadTailProperties, EmptySeq
     DEF WireTypeOK, ReceiveCommand, AgentReceives
<1>2. From(toHost[1]) = coordinatorInstanceId
  BY <1>1 DEF Introduced
<1>3. toHost[1].cmd.coord = coordinatorInstanceId
  BY <1>1, <1>2 DEF From
<1>4. toHost[1] \in CommandMsg
  BY <1>1, WireFrames, HostFrame
<1>5. /\ ran' = Append(ran, [coord |-> toHost[1].cmd.coord, id |-> toHost[1].cmd.id])
      /\ toHost' = Tail(toHost)
  BY <1>1 DEF ReceiveCommand, ApplyCommand, Applies, AgentConsumes
<1>6. QED
  BY <1>1, <1>3, <1>4, <1>5

LEMMA CommandDrives ==
    ASSUME TypeInv, TypeInv', DriverInv, Own', ReceiveCommand, UNCHANGED managerVars
    PROVE  DriverInv'
<1> USE DEF DriverInv
<1> DEFINE m == toHost[1]
           r == [coord |-> m.cmd.coord, id |-> m.cmd.id]
<1>1. WireTypeOK /\ WireTypeOK'
  BY DEF TypeInv
<1>2. /\ m.t = "command" /\ m.cmd.coord = coordinatorInstanceId
      /\ ran' = Append(ran, r) /\ m \in CommandMsg
      /\ toHost' = Tail(toHost) /\ toHost # <<>> /\ Head(toHost) = m
      /\ 1 \in DOMAIN toHost
  BY <1>1, AppliedByTaken
<1>3. UNCHANGED <<linkSocket, agentSocket, paired, online, instanceId,
                  coordinatorInstanceId, highestEpoch>>
  BY DEF ReceiveCommand, ApplyCommand, Applies, AgentConsumes, managerVars, linkVars
<1>4. m.cmd.coord \in 1..instanceId
  <2>1. Marked(m) /\ From(m) = m.cmd.coord
    BY <1>2 DEF Marked, From
  <2>2. QED
    BY <1>2, <2>1 DEF Sources
<1>5. r.coord = coordinatorInstanceId /\ r.coord \in 1..instanceId
      /\ coordinatorInstanceId # 0 /\ Epoch[coordinatorInstanceId] = highestEpoch
      /\ highestEpoch \in Nat
  BY <1>2, <1>4, SMTT(30) DEF EpochKnown, TypeInv, AgentInv, AgentTypeOK, CommandMsg, Command
<1> HIDE DEF r
<1>6. /\ Len(ran) \in Nat /\ DOMAIN ran = 1..Len(ran)
      /\ DOMAIN ran' = 1..Len(ran) + 1 /\ ran'[Len(ran) + 1] = r
      /\ \A i \in 1..Len(ran) : ran'[i] = ran[i]
  BY <1>2 DEF TypeInv, AgentInv, AgentTypeOK
<1>7. \A i \in 1..Len(ran) + 1 : i \in 1..Len(ran) \/ i = Len(ran) + 1
  BY <1>6
<1>9. EpochKnown'
  <2>1. \A i \in DOMAIN ran' : ran'[i].coord \in 1..instanceId
    BY <1>5, <1>6, <1>7 DEF EpochKnown
  <2>2. QED
    BY <1>3, <2>1 DEF EpochKnown
<1>10. Ends'
  BY <1>3 DEF Ends
<1>11. /\ Len(toHost) \in Nat \ {0} /\ DOMAIN toHost = 1..Len(toHost)
       /\ DOMAIN toHost' = 1..Len(toHost) - 1
       /\ \A i \in 1..Len(toHost) - 1 : toHost'[i] = toHost[i + 1]
  BY <1>1, <1>2, HeadTailProperties, LenProperties, EmptySeq DEF WireTypeOK
<1>12. \A i \in DOMAIN toHost' : i + 1 \in DOMAIN toHost /\ toHost'[i] = toHost[i + 1]
  BY <1>11
<1>13. Sources'
  BY <1>3, <1>12 DEF Sources
<1> HIDE DEF m
<1>14. \A j \in DOMAIN toHost : toHost[j].t = "welcome" =>
          j - 1 \in DOMAIN toHost' /\ toHost'[j - 1].t = "welcome"
  <2>1. toHost[1].t # "welcome"
    BY <1>2 DEF m
  <2>2. SUFFICES ASSUME NEW j \in DOMAIN toHost, toHost[j].t = "welcome"
                 PROVE  j - 1 \in DOMAIN toHost' /\ toHost'[j - 1].t = "welcome"
    OBVIOUS
  <2>3. j # 1 /\ j - 1 \in 1..Len(toHost) - 1 /\ (j - 1) + 1 = j
    BY <1>11, <2>1, <2>2
  <2>4. toHost'[j - 1] = toHost[(j - 1) + 1]
    BY <1>11, <2>3
  <2>5. QED
    BY <1>11, <2>2, <2>3, <2>4
<1>15. Introduced'
  <2>1. ASSUME NEW i \in DOMAIN toHost', toHost'[i].t = "command",
               From(toHost'[i]) # coordinatorInstanceId
        PROVE  \E j \in 1..i - 1 : toHost'[j].t = "welcome"
    <3>1. PICK k \in DOMAIN toHost : k = i + 1 /\ toHost'[i] = toHost[k]
      BY <1>12
    <3>2. PICK j \in 1..k - 1 : toHost[j].t = "welcome"
      BY <2>1, <3>1 DEF Introduced
    <3>3. j \in DOMAIN toHost
      BY <1>11
    <3>4. j - 1 \in 1..i - 1
      BY <1>11, <1>14, <3>1, <3>2, <3>3
    <3>5. QED
      BY <1>14, <3>2, <3>3, <3>4
  <2>2. paired /\ online /\ coordinatorInstanceId # instanceId =>
           \E j \in DOMAIN toHost' : toHost'[j].t = "welcome"
    BY <1>14 DEF Introduced
  <2>3. QED
    BY <1>3, <2>1, <2>2 DEF Introduced
<1>16. QED
  BY <1>9, <1>10, <1>13, <1>15

\* A new socket starts empty, and only a dead one or a known node's is replaced.
LEMMA ConnectDrives ==
    ASSUME Punctual, TypeInv, DriverInv, Own', Connect
    PROVE  DriverInv'
<1> USE DEF DriverInv
<1>1. /\ toHost' = <<>> /\ linkSocket' /\ agentSocket' /\ ~agentSocket
      /\ UNCHANGED <<online, instanceId, coordinatorInstanceId, highestEpoch, ran>>
      /\ linkSocket /\ online /\ coordinatorInstanceId # instanceId => EarlyReplaces
  BY DEF Connect, Attach, linkVars, agentVars
<1>2. DOMAIN toHost' = {}
  BY <1>1
<1>3. Ends' /\ Sources' /\ EpochKnown'
  BY <1>1, <1>2 DEF Ends, Sources, EpochKnown
<1>4. Introduced'
  BY <1>1, <1>2 DEF Introduced, Ends, Punctual
<1>5. QED
  BY <1>3, <1>4

\* A new coordinator has sent nothing and no node has taken it.
LEMMA CoordinatorRestartDrives ==
    ASSUME TypeInv, DriverInv, Own', CoordinatorRestart, UNCHANGED agentVars
    PROVE  DriverInv'
<1> USE DEF DriverInv
<1>1. /\ ~linkSocket' /\ ~paired' /\ ~online' /\ instanceId' = instanceId + 1
      /\ UNCHANGED <<toHost, coordinatorInstanceId, highestEpoch, ran>>
  BY DEF CoordinatorRestart, agentVars
<1>2. instanceId \in Nat /\ coordinatorInstanceId \in Nat
  BY BoundsAssumption DEF TypeInv, ManagerTypeOK, AgentInv, AgentTypeOK
<1>3. Ends' /\ coordinatorInstanceId' # instanceId'
  BY <1>1, <1>2 DEF Ends
<1>4. \A k \in 1..instanceId : k \in 1..instanceId'
  BY <1>1, <1>2
<1>5. Sources' /\ EpochKnown'
  BY <1>1, <1>3, <1>4 DEF Sources, EpochKnown
<1>6. Introduced'
  BY <1>1 DEF Introduced
<1>7. QED
  BY <1>3, <1>5, <1>6

\* A new node has taken nobody and run nothing.
LEMMA NodeRestartDrives ==
    ASSUME TypeInv, DriverInv, Own', NodeRestart, UNCHANGED managerVars
    PROVE  DriverInv'
<1> USE DEF DriverInv
<1>1. /\ ~paired' /\ toHost' = <<>> /\ ran' = <<>> /\ coordinatorInstanceId' = 0
      /\ UNCHANGED <<linkSocket, online, instanceId>>
  BY DEF NodeRestart, managerVars, linkVars
<1>2. instanceId \in Nat /\ DOMAIN toHost' = {} /\ DOMAIN ran' = {}
  BY <1>1, BoundsAssumption DEF TypeInv, ManagerTypeOK
<1>3. QED
  BY <1>1, <1>2 DEF Ends, Sources, Introduced, EpochKnown

\* A step that sends no marked frame, reads no welcome and applies nothing.
LEMMA AsideDrives ==
    ASSUME TypeInv, TypeInv', DriverInv, Own',
           UNCHANGED <<linkSocket, agentSocket, paired, online, instanceId,
                       coordinatorInstanceId, highestEpoch, ran>>,
           \/ toHost' = toHost
           \/ \E m : ~Marked(m) /\ CoordinatorSends(<<m>>)
           \/ toHost # <<>> /\ Head(toHost).t # "welcome" /\ toHost' = Tail(toHost)
    PROVE  DriverInv'
<1>1. Fewer
  BY PassedKinds DEF Fewer, TypeInv, CoordinatorSends
<1>2. QED
  BY <1>1, QuietDrives DEF DriverInv, Ends

LEMMA InitDrives == Init => DriverInv
<1> SUFFICES ASSUME Init PROVE DriverInv
  OBVIOUS
<1> USE DEF Init, WireInit, ManagerInit, AgentInit
<1>1. Ends /\ EpochKnown
  BY DEF Ends, EpochKnown
<1>2. Own /\ Sources /\ Introduced
  BY DEF Own, Sources, Introduced
<1>3. QED
  BY <1>1, <1>2 DEF DriverInv

LEMMA SessionsDrive ==
    ASSUME TypeInv, TypeInv', DriverInv, Own', Sessions
    PROVE  DriverInv'
<1>1. ManagerTypeOK
  BY DEF TypeInv
<1>2. UNCHANGED <<coordinatorInstanceId, highestEpoch, ran>>
  BY DEF Sessions, agentVars
<1>3. ASSUME NEW kind \in {"spawn", "control", "write_file"},
             NEW p \in Procs \cup {NoProc},
             (kind = "write_file" /\ p = NoProc) \/ (kind # "write_file" /\ p \in Procs),
             Enqueue(kind, p), UNCHANGED linkVars
      PROVE  DriverInv'
  <2>1. UNCHANGED <<linkSocket, agentSocket, paired, online, instanceId>>
    BY <1>3 DEF Enqueue, Queues, OnlySends, linkVars
  <2>2. toHost' = toHost \/ \E msgs \in Seq(CoordinatorToHost) : Sending(msgs)
    BY <1>1, <1>3, EnqueueSends
  <2>3. QED
    BY <1>2, <2>1, <2>2, AsideDrives, SendingDrives
<1>4. ASSUME NEW p \in Procs, StartProcess(p) PROVE DriverInv'
  BY <1>3, <1>4 DEF StartProcess
<1>5. ASSUME NEW p \in Procs, Control(p) PROVE DriverInv'
  BY <1>3, <1>5 DEF Control
<1>6. ASSUME NEW p \in Procs, Adopt(p) PROVE DriverInv'
  <2>1. UNCHANGED <<linkSocket, agentSocket, paired, toHost, online, instanceId>>
    BY <1>6 DEF Adopt, wireVars, linkVars
  <2>2. QED
    BY <1>2, <2>1, AsideDrives
<1>7. CASE WriteFileInOrder
  BY <1>3, <1>7 DEF WriteFileInOrder
<1>8. QED
  BY <1>4, <1>5, <1>6, <1>7 DEF Sessions

\* Abandon sends what is queued to a node that answered.
LEMMA AbandonDrives ==
    ASSUME TypeInv, TypeInv', DriverInv, Own', Abandon, UNCHANGED queueVars,
           UNCHANGED <<linkSocket, agentSocket, paired, online, instanceId,
                       coordinatorInstanceId, highestEpoch, ran>>
    PROVE  DriverInv'
<1>1. toHost' = toHost \/ \E msgs \in Seq(CoordinatorToHost) : Sending(msgs)
  BY AbandonSends DEF TypeInv
<1>2. QED
  BY <1>1, AsideDrives, SendingDrives

LEMMA DeliversDrive ==
    ASSUME TypeInv, TypeInv', DriverInv, Own', ManagerDelivers
    PROVE  DriverInv'
<1>1. UNCHANGED <<coordinatorInstanceId, highestEpoch, ran>>
  BY DEF ManagerDelivers, agentVars
<1>2. CASE ReceiveHello
  <2>1. PICK msgs \in Seq(CoordinatorToHost) : Sending(msgs)
    BY <1>2, HelloSends DEF TypeInv
  <2>2. UNCHANGED <<linkSocket, agentSocket, paired, instanceId>>
    BY <1>2 DEF ReceiveHello, ManagerConsumes
  <2>3. QED
    BY <1>1, <2>1, <2>2, SendingDrives
<1>3. CASE ReceiveEvent \/ ReceiveCommandAck
  <2>1. UNCHANGED <<linkSocket, agentSocket, paired, toHost, online, instanceId>>
    BY <1>3 DEF ReceiveEvent, ReceiveCommandAck, ManagerConsumes, linkVars
  <2>2. QED
    BY <1>1, <2>1, AsideDrives
<1>4. CASE ReceiveUpdateFailed
  <2>1. UNCHANGED <<linkSocket, agentSocket, paired, online, instanceId>>
        /\ UNCHANGED queueVars
    BY <1>4 DEF ReceiveUpdateFailed, ManagerConsumes, linkVars
  <2>2. toHost' = toHost \/ Abandon
    BY <1>4 DEF ReceiveUpdateFailed
  <2>3. QED
    BY <1>1, <2>1, <2>2, AsideDrives, AbandonDrives
<1>5. QED
  BY <1>2, <1>3, <1>4 DEF ManagerDelivers

\* Acknowledgements, and everything about updating the node.
LEMMA UpdatesDrive ==
    ASSUME TypeInv, TypeInv', DriverInv, Own', Flush \/ Updates \/ TimesOut
    PROVE  DriverInv'
<1>1. UNCHANGED <<coordinatorInstanceId, highestEpoch, ran>>
  BY DEF Flush, Updates, TimesOut, agentVars
<1>2. CASE Flush
  <2>1. PICK p \in Procs : FlushAck(p)
    BY <1>2 DEF Flush
  <2> DEFINE m == [t |-> "event_ack", proc |-> p, seq |-> pendingAcks[p]]
  <2>2. ~Marked(m)
    BY DEF Marked
  <2>3. CoordinatorSends(<<m>>)
    BY <2>1 DEF FlushAck
  <2>4. UNCHANGED <<linkSocket, agentSocket, paired, online, instanceId>>
    BY <2>1 DEF FlushAck, OnlySends, linkVars
  <2> HIDE DEF m
  <2>5. QED
    BY <1>1, <2>2, <2>3, <2>4, AsideDrives
<1>3. CASE Updates
  <2>1. CASE AskUpdate \/ PrepareFails
    <3>1. UNCHANGED <<linkSocket, agentSocket, paired, toHost, online, instanceId>>
      BY <2>1 DEF AskUpdate, PrepareFails, wireVars, linkVars
    <3>2. QED
      BY <1>1, <3>1, AsideDrives
  <2>2. ASSUME NEW inst \in asking, NEW ready \in BOOLEAN, FinishAsk(inst, ready)
        PROVE  DriverInv'
    <3> DEFINE m == [t |-> "update"]
    <3>1. ~Marked(m)
      BY DEF Marked
    <3>2. toHost' = toHost \/ CoordinatorSends(<<m>>)
      BY <2>2 DEF FinishAsk
    <3>3. UNCHANGED <<linkSocket, agentSocket, paired, online, instanceId>>
      BY <2>2 DEF FinishAsk, OnlySends, linkVars
    <3> HIDE DEF m
    <3>4. QED
      BY <1>1, <3>1, <3>2, <3>3, AsideDrives
  <2>3. QED
    BY <1>3, <2>1, <2>2 DEF Updates
<1>4. CASE TimesOut
  <2>1. UNCHANGED <<linkSocket, agentSocket, paired, online, instanceId>>
        /\ UNCHANGED queueVars /\ Abandon
    BY <1>4 DEF TimesOut, UpdateTimeout, OnlySends, linkVars
  <2>2. QED
    BY <1>1, <2>1, AbandonDrives
<1>5. QED
  BY <1>2, <1>3, <1>4
\* A socket that goes takes the frames its end had yet to read.
LEMMA SocketsDrive ==
    ASSUME TypeInv, TypeInv', DriverInv, Own',
           \/ LinkBreaks \/ LinkNoticed
           \/ SocketBreaks \/ SocketNoticed
           \/ RefuseWelcome /\ UNCHANGED managerVars
    PROVE  DriverInv'
<1>1. CASE LinkBreaks \/ LinkNoticed
  <2>1. /\ ~linkSocket' /\ ~paired' /\ ~online'
        /\ UNCHANGED <<toHost, instanceId, coordinatorInstanceId, highestEpoch, ran>>
    BY <1>1 DEF LinkBreaks, LinkNoticed, LinkDown, CoordinatorLetsGo, agentVars
  <2>2. Fewer
    BY <2>1, PassedKinds DEF Fewer, TypeInv
  <2>3. QED
    BY <2>1, <2>2, QuietDrives
<1>2. CASE SocketBreaks \/ SocketNoticed \/ (RefuseWelcome /\ UNCHANGED managerVars)
  <2>1. /\ ~paired' /\ toHost' = <<>>
        /\ UNCHANGED <<linkSocket, online, instanceId, coordinatorInstanceId,
                       highestEpoch, ran>>
    BY <1>2 DEF SocketBreaks, SocketNoticed, SocketDown, RefuseWelcome, HostLetsGo,
       managerVars, linkVars, agentVars
  <2>2. Fewer
    BY <2>1 DEF Fewer
  <2>3. QED
    BY <2>1, <2>2, QuietDrives DEF DriverInv, Ends
<1>3. QED
  BY <1>1, <1>2

LEMMA AgentDrives ==
    ASSUME TypeInv, TypeInv', DriverInv, Own',
           AgentDelivers \/ Replays \/ HostRuns
    PROVE  DriverInv'
<1>1. UNCHANGED managerVars
  BY DEF AgentDelivers, Replays, HostRuns
<1>2. UNCHANGED <<online, instanceId>>
  BY <1>1 DEF managerVars, linkVars
<1>3. CASE ReceiveOldCommand \/ ReceiveEventAck \/ ReceiveUpdate
  <2>1. /\ toHost # <<>> /\ Head(toHost).t # "welcome" /\ toHost' = Tail(toHost)
        /\ UNCHANGED <<linkSocket, agentSocket, paired, coordinatorInstanceId,
                       highestEpoch, ran>>
    BY <1>3 DEF ReceiveOldCommand, ReceiveEventAck, ReceiveUpdate, AgentReceives,
       AgentConsumes, agentVars
  <2>2. QED
    BY <1>2, <2>1, AsideDrives
<1>4. CASE AgentDelivers
  BY <1>1, <1>3, <1>4, SocketsDrive, WelcomeDrives, CommandDrives DEF AgentDelivers
<1>5. CASE Replays
  <2>1. UNCHANGED <<linkSocket, agentSocket, paired, toHost, coordinatorInstanceId,
                    highestEpoch, ran>>
    BY <1>5 DEF Replays, Replay, OnlyReports
  <2>2. QED
    BY <1>2, <2>1, AsideDrives
<1>6. CASE HostRuns
  <2>1. UNCHANGED <<linkSocket, agentSocket, paired, toHost, coordinatorInstanceId,
                    highestEpoch, ran>>
    BY <1>6 DEF HostRuns, ProcessSpawned, ProcessFails, ProcessOutput, ProcessExit,
       UpdateFails, Emit, OnlyReports
  <2>2. QED
    BY <1>2, <2>1, AsideDrives
<1>7. QED
  BY <1>4, <1>5, <1>6

LEMMA NextDrives ==
    ASSUME Punctual
    PROVE  TypeInv /\ DriverInv /\ [Next]_vars => DriverInv'
<1> SUFFICES ASSUME TypeInv, DriverInv, [Next]_vars PROVE DriverInv'
  OBVIOUS
<1>1. TypeInv' /\ Own'
  BY NextTyped, NextOwn DEF DriverInv
<1>2. CASE NodeReleased
  <2>1. UNCHANGED <<linkSocket, agentSocket, paired, toHost, online, instanceId,
                    coordinatorInstanceId, highestEpoch, ran>>
    BY <1>2 DEF NodeReleased, Release, wireVars, linkVars, agentVars
  <2>2. QED
    BY <1>1, <2>1, AsideDrives
<1>3. CASE Restarts
  BY <1>1, <1>3, CoordinatorRestartDrives, NodeRestartDrives DEF Restarts
<1>4. CASE UNCHANGED vars
  <2>1. UNCHANGED <<linkSocket, agentSocket, paired, toHost, online, instanceId,
                    coordinatorInstanceId, highestEpoch, ran>>
    BY <1>4 DEF vars, wireVars, managerVars, linkVars, agentVars
  <2>2. QED
    BY <1>1, <2>1, AsideDrives
<1>5. QED
  BY <1>1, <1>2, <1>3, <1>4, ConnectDrives, SocketsDrive, SessionsDrive,
     DeliversDrive, UpdatesDrive, AgentDrives DEF Next

\* Only ReceiveCommand adds to what the node applied, and what it adds is its
\* coordinator's; only a welcome, or a new node, moves highestEpoch.
LEMMA StillNotStale ==
    ASSUME TypeInv, UNCHANGED <<highestEpoch, ran>>
    PROVE  NotStale
<1>1. highestEpoch \in Nat
  BY DEF TypeInv, AgentInv, AgentTypeOK
<1>2. QED
  BY <1>1 DEF NotStale

LEMMA CommandNotStale ==
    ASSUME TypeInv, DriverInv, ReceiveCommand
    PROVE  NotStale
<1> USE DEF DriverInv
<1> DEFINE m == toHost[1]
           r == [coord |-> m.cmd.coord, id |-> m.cmd.id]
<1>1. /\ m.t = "command" /\ m.cmd.coord = coordinatorInstanceId
      /\ ran' = Append(ran, r) /\ 1 \in DOMAIN toHost
  BY AppliedByTaken DEF TypeInv
<1>2. highestEpoch' = highestEpoch /\ highestEpoch \in Nat
  BY DEF ReceiveCommand, ApplyCommand, Applies, TypeInv, AgentInv, AgentTypeOK
<1>3. Marked(m) /\ From(m) = coordinatorInstanceId
  BY <1>1 DEF Marked, From
<1>4. coordinatorInstanceId \in 1..instanceId
  BY <1>1, <1>3 DEF Sources
<1>5. Epoch[r.coord] = highestEpoch
  BY <1>1, <1>4 DEF EpochKnown
<1> HIDE DEF r
<1>6. /\ DOMAIN ran = 1..Len(ran) /\ DOMAIN ran' = 1..Len(ran) + 1
      /\ Len(ran) \in Nat /\ ran'[Len(ran) + 1] = r
  BY <1>1 DEF TypeInv, AgentInv, AgentTypeOK
<1>7. \A i \in DOMAIN ran' \ DOMAIN ran : ran'[i] = r
  BY <1>6
<1>8. QED
  BY <1>2, <1>5, <1>7 DEF NotStale

LEMMA WelcomeNotStale ==
    ASSUME TypeInv, ReceiveWelcome
    PROVE  NotStale
<1>1. Head(toHost) \in Welcome
  BY HeadTailProperties, HostFrame DEF ReceiveWelcome, AgentReceives, TypeInv, WireTypeOK
<1>2. highestEpoch' >= highestEpoch /\ ran' = ran
  BY DEF ReceiveWelcome, TakeWelcome
<1>3. QED
  BY <1>2 DEF NotStale

LEMMA NextNotStale ==
    ASSUME TypeInv, DriverInv, [Next]_vars
    PROVE  NotStale
<1>1. CASE Restarts
  <2>1. CASE CoordinatorRestart /\ UNCHANGED agentVars
    BY <2>1, StillNotStale DEF agentVars
  <2>2. CASE NodeRestart
    <3>1. agentId' # agentId /\ ran' = <<>>
      BY <2>2 DEF NodeRestart, TypeInv, AgentInv, AgentTypeOK
    <3>2. QED
      BY <3>1 DEF NotStale
  <2>3. QED
    BY <1>1, <2>1, <2>2 DEF Restarts
<1>2. CASE AgentDelivers
  <2>1. CASE RefuseWelcome \/ ReceiveOldCommand \/ ReceiveEventAck \/ ReceiveUpdate
    BY <2>1, StillNotStale DEF RefuseWelcome, ReceiveOldCommand, ReceiveEventAck,
       ReceiveUpdate, agentVars
  <2>2. QED
    BY <1>2, <2>1, CommandNotStale, WelcomeNotStale DEF AgentDelivers
<1>3. CASE Replays \/ HostRuns
  BY <1>3, StillNotStale DEF Replays, Replay, HostRuns, ProcessSpawned,
     ProcessFails, ProcessOutput, ProcessExit, UpdateFails, Emit
<1>4. CASE \/ Connect \/ LinkBreaks \/ LinkNoticed \/ NodeReleased \/ Sessions
           \/ ManagerDelivers \/ Flush \/ Updates \/ TimesOut
  BY <1>4, StillNotStale DEF Connect, LinkBreaks, LinkNoticed, NodeReleased, Sessions,
     ManagerDelivers, Flush, Updates, TimesOut, agentVars
<1>5. CASE SocketBreaks \/ SocketNoticed
  BY <1>5, StillNotStale DEF SocketBreaks, SocketNoticed, SocketDown, agentVars
<1>6. CASE UNCHANGED vars
  BY <1>6, StillNotStale DEF vars, agentVars
<1>7. QED
  BY <1>1, <1>2, <1>3, <1>4, <1>5, <1>6 DEF Next

(***************************************************************************)
(* NoStaleDriver for every number of coordinators with whatever epochs:    *)
(* once a node has taken a coordinator it applies nothing of an older one, *)
(* although handleCommand looks at the sequence number alone, because a    *)
(* command never reaches the node before the welcome of the coordinator    *)
(* that sent it, and handleWelcome refuses the older ones.                 *)
(***************************************************************************)
THEOREM NobodyStaleDrives ==
    ASSUME Punctual
    PROVE  Spec => NoStaleDriver
<1>1. Init => TypeInv /\ DriverInv
  BY InitTyped, InitDrives
<1>2. TypeInv /\ DriverInv /\ [Next]_vars => (TypeInv /\ DriverInv)'
  BY NextTyped, NextDrives
<1>3. TypeInv /\ DriverInv /\ [Next]_vars => [NotStale]_vars
  BY NextNotStale
<1>4. QED
  BY <1>1, <1>2, <1>3, PTL DEF Spec, NoStaleDriver

-----------------------------------------------------------------------------
(***************************************************************************)
(* Commands: frames sent and not yet read.                                 *)
(***************************************************************************)
\* Every marked frame was on its way already.
Shown ==
    \A i \in DOMAIN toHost' : Marked(toHost'[i]) =>
        \E k \in DOMAIN toHost : toHost'[i] = toHost[k]

\* Or it is the running coordinator's: its welcome or a command of its queue.
Offers(m) ==
    /\ m.t = "welcome" => m.coord = instanceId
    /\ m.t = "command" =>
          \E k \in DOMAIN unacked' : unacked'[k].seq = m.seq /\ unacked'[k].cmd = m.cmd

Offered ==
    \A i \in DOMAIN toHost' : Marked(toHost'[i]) =>
        \/ \E k \in DOMAIN toHost : toHost'[i] = toHost[k]
        \/ Offers(toHost'[i])

\* Every hello and every acknowledgement was on its way already.
Heard ==
    \A i \in DOMAIN toCoord' : toCoord'[i].t \in {"hello", "command_ack"} =>
        \E k \in DOMAIN toCoord : toCoord'[i] = toCoord[k]

LEMMA SendingOffers ==
    ASSUME WireTypeOK, NEW msgs \in Seq(CoordinatorToHost), Sending(msgs)
    PROVE  Offered
<1>1. CASE toHost' = toHost
  BY <1>1 DEF Offered
<1>2. CASE toHost' = toHost \o msgs
  <2>1. /\ Len(toHost) \in Nat /\ Len(msgs) \in Nat
        /\ DOMAIN toHost = 1..Len(toHost) /\ DOMAIN msgs = 1..Len(msgs)
        /\ DOMAIN toHost' = 1..Len(toHost) + Len(msgs)
        /\ \A i \in 1..Len(toHost) : toHost'[i] = toHost[i]
        /\ \A i \in 1..Len(msgs) : toHost'[Len(toHost) + i] = msgs[i]
    BY <1>2 DEF WireTypeOK
  <2>2. \A i \in DOMAIN toHost' :
           \/ i \in 1..Len(toHost)
           \/ i - Len(toHost) \in 1..Len(msgs) /\ i = Len(toHost) + (i - Len(toHost))
    BY <2>1
  <2>3. \A i \in DOMAIN toHost' :
           \/ \E k \in DOMAIN toHost : toHost'[i] = toHost[k]
           \/ \E k \in DOMAIN msgs : toHost'[i] = msgs[k]
    BY <2>1, <2>2
  <2>4. \A k \in DOMAIN msgs : Offers(msgs[k])
    BY DEF Sending, Fits, Offers
  <2>5. QED
    BY <2>3, <2>4 DEF Offered
<1>3. QED
  BY <1>1, <1>2 DEF Sending, CoordinatorSends

\* The host's reports other than acknowledgements.
LEMMA ReportsHeard ==
    ASSUME WireTypeOK, NEW S, NEW msgs \in Seq(S), HostSends(msgs),
           \A i \in DOMAIN msgs : msgs[i].t \notin {"hello", "command_ack"}
    PROVE  Heard
<1>1. CASE toCoord' = toCoord
  BY <1>1 DEF Heard
<1>2. CASE toCoord' = toCoord \o msgs
  <2>1. /\ Len(toCoord) \in Nat /\ Len(msgs) \in Nat
        /\ DOMAIN toCoord = 1..Len(toCoord) /\ DOMAIN msgs = 1..Len(msgs)
        /\ DOMAIN toCoord' = 1..Len(toCoord) + Len(msgs)
        /\ \A i \in 1..Len(toCoord) : toCoord'[i] = toCoord[i]
        /\ \A i \in 1..Len(msgs) : toCoord'[Len(toCoord) + i] = msgs[i]
    BY <1>2 DEF WireTypeOK
  <2>2. \A i \in DOMAIN toCoord' :
           \/ i \in 1..Len(toCoord)
           \/ i - Len(toCoord) \in 1..Len(msgs) /\ i = Len(toCoord) + (i - Len(toCoord))
    BY <2>1
  <2>3. \A i \in DOMAIN toCoord' :
           \/ \E k \in DOMAIN toCoord : toCoord'[i] = toCoord[k]
           \/ \E k \in DOMAIN msgs : toCoord'[i] = msgs[k]
    BY <2>1, <2>2
  <2>4. QED
    BY <2>3 DEF Heard
<1>3. QED
  BY <1>1, <1>2 DEF HostSends

\* Reading a frame loses no other.
LEMMA TailHeard ==
    ASSUME WireTypeOK, toCoord # <<>>, toCoord' = Tail(toCoord)
    PROVE  /\ Heard
           /\ Head(toCoord) = toCoord[1] /\ 1 \in DOMAIN toCoord
           /\ toCoord[1] \in HostToCoordinator
<1>1. /\ Head(toCoord) = toCoord[1] /\ Len(toCoord) \in Nat \ {0}
      /\ DOMAIN toCoord = 1..Len(toCoord) /\ DOMAIN toCoord' = 1..Len(toCoord) - 1
      /\ \A i \in 1..Len(toCoord) - 1 : toCoord'[i] = toCoord[i + 1]
  BY HeadTailProperties, LenProperties, EmptySeq DEF WireTypeOK
<1>2. \A i \in DOMAIN toCoord' : i + 1 \in DOMAIN toCoord /\ toCoord'[i] = toCoord[i + 1]
  BY <1>1
<1>3. QED
  BY <1>1, <1>2, ElementOfSeq DEF Heard, WireTypeOK

\* A command is a marked frame with numbers.
LEMMA CommandFrames ==
    ASSUME WireTypeOK, NEW i \in DOMAIN toHost, toHost[i].t = "command"
    PROVE  /\ Marked(toHost[i]) /\ From(toHost[i]) = toHost[i].cmd.coord
           /\ toHost[i].seq \in Nat /\ toHost[i].cmd.id \in Nat
<1>1. toHost[i] \in CoordinatorToHost
  BY WireFrames
<1>2. QED
  BY <1>1, FrameFacts DEF Marked

\* Queued commands have numbers.
LEMMA QueueFrames ==
    ASSUME ManagerTypeOK
    PROVE  /\ Len(unacked) \in Nat /\ DOMAIN unacked = 1..Len(unacked)
           /\ \A i \in DOMAIN unacked : /\ unacked[i].seq \in Nat
                                        /\ unacked[i].cmd.id \in Nat
           /\ nextCommandSeq \in Nat \ {0} /\ commandCount \in Nat
           /\ instanceId \in Nat \ {0}
<1>1. unacked \in Seq(QueuedCommand)
  BY DEF ManagerTypeOK
<1>2. /\ Len(unacked) \in Nat /\ DOMAIN unacked = 1..Len(unacked)
      /\ \A i \in DOMAIN unacked : unacked[i] \in QueuedCommand
  BY <1>1, LenProperties, ElementOfSeq
<1>3. \A i \in DOMAIN unacked : unacked[i].seq \in Nat /\ unacked[i].cmd \in Command
  BY <1>2 DEF QueuedCommand
<1>4. \A i \in DOMAIN unacked : unacked[i].cmd.id \in Nat
  BY <1>3 DEF Command
<1>5. QED
  BY <1>2, <1>3, <1>4, BoundsAssumption DEF ManagerTypeOK

LEMMA NodeNumbers ==
    ASSUME AgentInv
    PROVE  /\ agentId \in Nat \ {0} /\ coordinatorInstanceId \in Nat
           /\ appliedCommandSeq \in Nat /\ \A k : Reached(k) \in Nat
           /\ Len(ran) \in Nat /\ DOMAIN ran = 1..Len(ran)
           /\ \A i \in DOMAIN ran : ran[i].id \in Nat
<1>1. /\ agentId \in Nat \ {0} /\ coordinatorInstanceId \in Nat
      /\ appliedCommandSeq \in Nat /\ ran \in Seq([coord : Nat, id : Nat])
  BY DEF AgentInv, AgentTypeOK
<1>2. \A i \in DOMAIN ran : ran[i] \in [coord : Nat, id : Nat]
  BY <1>1, ElementOfSeq, LenProperties
<1>3. QED
  BY <1>1, <1>2 DEF Reached
-----------------------------------------------------------------------------
(***************************************************************************)
(* Steps that leave the node's numbers alone.                              *)
(***************************************************************************)
\* What they send comes from the queue, and the queue only grows at its end.
LEMMA FramesOrdered ==
    ASSUME TypeInv, TypeInv', CommandInv, DriverInv', QueueInOrder', RanFirst',
           UNCHANGED <<instanceId, coordinatorInstanceId, appliedCommandSeq, ran>>,
           Offered, commandCount <= commandCount',
           \A i \in DOMAIN toHost :
              Fresh(toHost[i]) /\ toHost[i].cmd.coord = instanceId =>
                 \E k \in DOMAIN unacked' :
                    unacked'[k].seq = toHost[i].seq /\ unacked'[k].cmd = toHost[i].cmd,
           \A k \in DOMAIN unacked' :
              \/ commandCount < unacked'[k].cmd.id
              \/ \E j \in DOMAIN unacked : unacked[j].cmd = unacked'[k].cmd
    PROVE  FromQueue' /\ SentBetween' /\ SentInOrder' /\ AppliedOnce'
<1>1. WireTypeOK /\ WireTypeOK' /\ ManagerTypeOK /\ ManagerTypeOK' /\ AgentInv
  BY DEF TypeInv
<1>2. /\ \A i \in DOMAIN toHost' : toHost'[i].t = "command" =>
            /\ Marked(toHost'[i]) /\ From(toHost'[i]) = toHost'[i].cmd.coord
            /\ toHost'[i].seq \in Nat /\ toHost'[i].cmd.id \in Nat
  <2>1. \A i \in DOMAIN toHost' : toHost'[i] \in CoordinatorToHost
    BY <1>1, LenProperties, ElementOfSeq DEF WireTypeOK
  <2>2. QED
    BY <2>1, FrameFacts DEF Marked
<1>3. \A i \in DOMAIN toHost' : toHost'[i].t = "command" =>
         \/ \E k \in DOMAIN toHost : toHost'[i] = toHost[k]
         \/ \E k \in DOMAIN unacked' :
               unacked'[k].seq = toHost'[i].seq /\ unacked'[k].cmd = toHost'[i].cmd
  BY <1>2 DEF Offered, Offers
<1>4. \A k \in DOMAIN unacked' : unacked'[k].cmd.coord = instanceId
  BY DEF DriverInv, Own
<1>5. FromQueue'
  <2>1. SUFFICES ASSUME NEW i \in DOMAIN toHost', Fresh(toHost'[i]),
                        toHost'[i].cmd.coord = instanceId
                 PROVE  \E k \in DOMAIN unacked' :
                           /\ unacked'[k].seq = toHost'[i].seq
                           /\ unacked'[k].cmd = toHost'[i].cmd
    BY DEF FromQueue, Fresh, Reached
  <2>2. QED
    BY <1>3, <2>1 DEF Fresh
<1>6. SentBetween'
  <2>1. SUFFICES ASSUME NEW i \in DOMAIN toHost', toHost'[i].t = "command"
                 PROVE  /\ toHost'[i].cmd.id <= commandCount'
                        /\ toHost'[i].cmd.coord # instanceId' =>
                              \A j \in DOMAIN unacked' :
                                 toHost'[i].cmd.id < unacked'[j].cmd.id
                        /\ Fresh(toHost'[i]) =>
                              \A j \in DOMAIN ran : ran[j].id < toHost'[i].cmd.id
    BY DEF SentBetween, Fresh, Reached
  <2>2. ASSUME NEW k \in DOMAIN toHost, toHost'[i] = toHost[k]
        PROVE  /\ toHost'[i].cmd.id <= commandCount'
               /\ toHost'[i].cmd.coord # instanceId' =>
                     \A j \in DOMAIN unacked' : toHost'[i].cmd.id < unacked'[j].cmd.id
               /\ Fresh(toHost'[i]) =>
                     \A j \in DOMAIN ran : ran[j].id < toHost'[i].cmd.id
    <3>1. /\ toHost[k].cmd.id <= commandCount
          /\ toHost[k].cmd.coord # instanceId =>
                \A j \in DOMAIN unacked : toHost[k].cmd.id < unacked[j].cmd.id
          /\ Fresh(toHost[k]) => \A j \in DOMAIN ran : ran[j].id < toHost[k].cmd.id
      BY <2>1, <2>2 DEF CommandInv, SentBetween
    <3>2. toHost[k].cmd.id \in Nat /\ commandCount \in Nat /\ commandCount' \in Nat
      BY <1>1, <1>2, <2>1, <2>2 DEF ManagerTypeOK
    <3>3. toHost[k].cmd.id <= commandCount'
      BY <3>1, <3>2
    <3>4. ASSUME toHost[k].cmd.coord # instanceId, NEW j \in DOMAIN unacked'
          PROVE  toHost[k].cmd.id < unacked'[j].cmd.id
      <4>1. CASE commandCount < unacked'[j].cmd.id
        <5>1. unacked'[j].cmd.id \in Nat
          <6>1. unacked'[j] \in QueuedCommand
            BY <1>1, ElementOfSeq, LenProperties DEF ManagerTypeOK
          <6>2. unacked'[j].cmd \in Command
            BY <6>1 DEF QueuedCommand
          <6>3. QED
            BY <6>2 DEF Command
        <5>2. QED
          BY <3>1, <3>2, <4>1, <5>1
      <4>2. ASSUME NEW l \in DOMAIN unacked, unacked[l].cmd = unacked'[j].cmd
            PROVE  toHost[k].cmd.id < unacked'[j].cmd.id
        BY <3>1, <3>4, <4>2
      <4>3. QED
        BY <4>1, <4>2
    <3>5. QED
      BY <2>2, <3>1, <3>3, <3>4
  <2>3. ASSUME NEW k \in DOMAIN unacked', unacked'[k].seq = toHost'[i].seq,
               unacked'[k].cmd = toHost'[i].cmd
        PROVE  /\ toHost'[i].cmd.id <= commandCount'
               /\ toHost'[i].cmd.coord = instanceId'
               /\ Fresh(toHost'[i]) =>
                     \A j \in DOMAIN ran : ran[j].id < toHost'[i].cmd.id
    <3>1. toHost'[i].cmd.id <= commandCount'
      BY <2>3 DEF QueueInOrder
    <3>2. toHost'[i].cmd.coord = instanceId
      BY <1>4, <2>3
    <3>3. ASSUME Fresh(toHost'[i]), NEW j \in DOMAIN ran
          PROVE  ran[j].id < toHost'[i].cmd.id
      BY <2>3, <3>2, <3>3 DEF Fresh, RanFirst, Reached
    <3>4. QED
      BY <3>1, <3>2, <3>3
  <2>4. QED
    BY <1>3, <2>1, <2>2, <2>3
<1>7. SentInOrder'
  <2>1. SUFFICES ASSUME NEW i \in DOMAIN toHost', NEW j \in DOMAIN toHost',
                        Fresh(toHost'[i]), toHost'[j].t = "command",
                        toHost'[i].seq < toHost'[j].seq
                 PROVE  toHost'[i].cmd.id < toHost'[j].cmd.id
    BY DEF SentInOrder, Fresh, Reached
  <2>2. toHost'[i].t = "command"
    BY <2>1 DEF Fresh
  <2>3. toHost'[i].cmd.coord = toHost'[j].cmd.coord
    <3>1. From(toHost'[i]) = From(toHost'[j])
      BY <1>2, <2>1, <2>2 DEF DriverInv, Sources
    <3>2. QED
      BY <1>2, <2>1, <2>2, <3>1
  <2>4. CASE toHost'[i].cmd.coord = instanceId
    <3>1. Fresh(toHost'[j])
      <4>1. Reached(instanceId) \in Nat
        BY <1>1, NodeNumbers
      <4>2. QED
        BY <1>2, <2>1, <2>2, <2>3, <2>4, <4>1 DEF Fresh
    <3>2. PICK k \in DOMAIN unacked' :
            unacked'[k].seq = toHost'[i].seq /\ unacked'[k].cmd = toHost'[i].cmd
      BY <1>5, <2>1, <2>4 DEF FromQueue, Fresh, Reached
    <3>3. PICK l \in DOMAIN unacked' :
            unacked'[l].seq = toHost'[j].seq /\ unacked'[l].cmd = toHost'[j].cmd
      BY <1>5, <2>3, <2>4, <3>1 DEF FromQueue, Fresh, Reached
    <3>4. k \in Nat /\ l \in Nat
      BY <1>1 DEF ManagerTypeOK
    <3>5. ~(l < k) /\ l # k
      BY <1>2, <2>1, <2>2, <3>2, <3>3 DEF QueueInOrder
    <3>6. k < l
      BY <3>4, <3>5
    <3>7. QED
      BY <3>2, <3>3, <3>6 DEF QueueInOrder
  <2>5. CASE toHost'[i].cmd.coord # instanceId
    <3>1. PICK k \in DOMAIN toHost : toHost'[i] = toHost[k]
      BY <1>3, <1>4, <2>2, <2>5
    <3>2. PICK l \in DOMAIN toHost : toHost'[j] = toHost[l]
      BY <1>3, <1>4, <2>1, <2>3, <2>5
    <3>3. QED
      BY <2>1, <3>1, <3>2 DEF CommandInv, SentInOrder
  <2>6. QED
    BY <2>4, <2>5
<1>8. AppliedOnce'
  BY DEF CommandInv, AppliedOnce
<1>9. QED
  BY <1>5, <1>6, <1>7, <1>8
\* Steps without commands: nothing new on the wire that the invariant looks at.
LEMMA AsideCommands ==
    ASSUME TypeInv, TypeInv', CommandInv, DriverInv', QueueInOrder',
           UNCHANGED <<instanceId, hostInstanceId, agentId, coordinatorInstanceId,
                       appliedCommandSeq, ran>>,
           UNCHANGED queueVars, Shown, Heard, paired' => paired
    PROVE  CommandInv'
<1> USE DEF CommandInv
<1>1. UNCHANGED <<unacked, nextCommandSeq, commandCount>>
  BY DEF queueVars
<1>2. Recognised'
  BY DEF Recognised, Shown
<1>3. Hellos'
  <2>1. (\A j \in DOMAIN toHost : ~Marked(toHost[j])) =>
           \A j \in DOMAIN toHost' : ~Marked(toHost'[j])
    BY DEF Shown
  <2>2. ASSUME NEW i \in DOMAIN toCoord', toCoord'[i].t = "hello"
        PROVE  /\ toCoord'[i].inst <= agentId
               /\ toCoord'[i].inst # agentId =>
                     /\ coordinatorInstanceId = 0 /\ ~paired'
                     /\ \A j \in DOMAIN toHost' : ~Marked(toHost'[j])
    <3>1. PICK k \in DOMAIN toCoord : toCoord'[i] = toCoord[k]
      BY <2>2 DEF Heard
    <3>2. QED
      BY <2>1, <2>2, <3>1 DEF Hellos
  <2>3. QED
    BY <2>2 DEF Hellos
<1>4. Contiguous' /\ RanFirst'
  BY <1>1 DEF Contiguous, RanFirst, Reached
<1>5. Acknowledged'
  BY DEF Acknowledged, Heard
<1>6. FromQueue' /\ SentBetween' /\ SentInOrder' /\ AppliedOnce'
  <2>1. Offered
    BY DEF Offered, Shown
  <2>2. commandCount <= commandCount'
    BY <1>1 DEF TypeInv, ManagerTypeOK
  <2>3. /\ \A i \in DOMAIN toHost :
              Fresh(toHost[i]) /\ toHost[i].cmd.coord = instanceId =>
                 \E k \in DOMAIN unacked' :
                    unacked'[k].seq = toHost[i].seq /\ unacked'[k].cmd = toHost[i].cmd
        /\ \A k \in DOMAIN unacked' : \E j \in DOMAIN unacked :
              unacked[j].cmd = unacked'[k].cmd
    BY <1>1 DEF FromQueue
  <2>4. QED
    BY <1>4, <2>1, <2>2, <2>3, FramesOrdered
<1>7. QED
  BY <1>2, <1>3, <1>4, <1>5, <1>6

\* A node that the coordinator reaches online is the one it knows.
LEMMA OnlineKnown ==
    ASSUME CommandInv, online, paired
    PROVE  hostInstanceId = agentId
<1>1. linkSocket
  BY DEF CommandInv, DriverInv, Ends
<1>2. CASE coordinatorInstanceId = instanceId
  BY <1>2 DEF CommandInv, Recognised
<1>3. ASSUME NEW j \in DOMAIN toHost, toHost[j].t = "welcome"
      PROVE  hostInstanceId = agentId
  <2>1. Marked(toHost[j])
    BY <1>3 DEF Marked
  <2>2. From(toHost[j]) = instanceId
    BY <1>1, <2>1 DEF CommandInv, DriverInv, Sources
  <2>3. QED
    BY <2>1, <2>2 DEF CommandInv, Recognised
<1>4. QED
  BY <1>2, <1>3 DEF CommandInv, DriverInv, Introduced

\* One more command, the youngest, under the next number.
Grows ==
    \E e \in QueuedCommand :
        /\ unacked' = Append(unacked, e)
        /\ e.seq = nextCommandSeq /\ nextCommandSeq' = nextCommandSeq + 1
        /\ e.cmd.id = commandCount + 1 /\ commandCount' = commandCount + 1

LEMMA QueueGrows ==
    ASSUME TypeInv, CommandInv, Grows,
           UNCHANGED <<instanceId, hostInstanceId, agentId, coordinatorInstanceId,
                       appliedCommandSeq, ran>>
    PROVE  /\ commandCount <= commandCount' /\ Contiguous' /\ RanFirst'
           /\ \A j \in DOMAIN unacked : j \in DOMAIN unacked' /\ unacked'[j] = unacked[j]
           /\ \A k \in DOMAIN unacked' :
                 \/ commandCount < unacked'[k].cmd.id
                 \/ \E j \in DOMAIN unacked : unacked[j].cmd = unacked'[k].cmd
<1> USE DEF CommandInv
<1>1. PICK e \in QueuedCommand :
        /\ unacked' = Append(unacked, e)
        /\ e.seq = nextCommandSeq /\ nextCommandSeq' = nextCommandSeq + 1
        /\ e.cmd.id = commandCount + 1 /\ commandCount' = commandCount + 1
  BY DEF Grows
<1>2. /\ Len(unacked) \in Nat /\ DOMAIN unacked = 1..Len(unacked)
      /\ \A i \in DOMAIN unacked : unacked[i].seq \in Nat /\ unacked[i].cmd.id \in Nat
      /\ nextCommandSeq \in Nat \ {0} /\ commandCount \in Nat
  BY QueueFrames DEF TypeInv
<1>3. /\ Reached(instanceId) \in Nat
      /\ \A i \in DOMAIN ran : ran[i].id \in Nat
  BY NodeNumbers DEF TypeInv
<1>4. /\ DOMAIN unacked' = 1..Len(unacked) + 1
      /\ \A i \in 1..Len(unacked) : unacked'[i] = unacked[i]
      /\ unacked'[Len(unacked) + 1] = e
  BY <1>1 DEF TypeInv, ManagerTypeOK
<1>5. \A j \in DOMAIN unacked : j \in DOMAIN unacked' /\ unacked'[j] = unacked[j]
  BY <1>2, <1>4
<1>6. \A k \in DOMAIN unacked' : k \in DOMAIN unacked \/ unacked'[k] = e
  BY <1>2, <1>4
<1>7. \A k \in DOMAIN unacked' :
         \/ commandCount < unacked'[k].cmd.id
         \/ \E j \in DOMAIN unacked : unacked[j].cmd = unacked'[k].cmd
  <2>1. commandCount < e.cmd.id
    BY <1>1, <1>2
  <2>2. QED
    BY <1>5, <1>6, <2>1
<1>8. Contiguous'
  <2>1. SUFFICES ASSUME hostInstanceId = agentId
                 PROVE  /\ Reached(instanceId) < nextCommandSeq'
                        /\ \A s \in Reached(instanceId) + 1 .. nextCommandSeq' - 1 :
                              \E i \in DOMAIN unacked' : unacked'[i].seq = s
    BY DEF Contiguous, Reached
  <2>2. /\ Reached(instanceId) < nextCommandSeq
        /\ \A s \in Reached(instanceId) + 1 .. nextCommandSeq - 1 :
              \E i \in DOMAIN unacked : unacked[i].seq = s
    BY <2>1 DEF Contiguous
  <2>3. ASSUME NEW s \in Reached(instanceId) + 1 .. nextCommandSeq' - 1
        PROVE  \E i \in DOMAIN unacked' : unacked'[i].seq = s
    <3>1. CASE s = nextCommandSeq
      <4>1. Len(unacked) + 1 \in DOMAIN unacked'
        BY <1>2, <1>4
      <4>2. QED
        BY <1>1, <1>4, <3>1, <4>1
    <3>2. CASE s # nextCommandSeq
      <4>1. s \in Reached(instanceId) + 1 .. nextCommandSeq - 1
        BY <1>1, <1>2, <1>3, <3>2
      <4>2. QED
        BY <1>5, <2>2, <4>1
    <3>3. QED
      BY <3>1, <3>2
  <2>4. QED
    BY <1>1, <1>2, <1>3, <2>2, <2>3
<1>9. RanFirst'
  <2>1. \A i \in DOMAIN ran : ran[i].id <= commandCount'
    BY <1>1, <1>2, <1>3 DEF RanFirst
  <2>2. ASSUME NEW i \in DOMAIN ran, NEW j \in DOMAIN unacked',
               unacked'[j].seq > Reached(instanceId)
        PROVE  ran[i].id < unacked'[j].cmd.id
    <3>1. CASE j \in DOMAIN unacked
      BY <1>5, <2>2, <3>1 DEF RanFirst
    <3>2. CASE unacked'[j] = e
      <4>1. ran[i].id <= commandCount
        BY DEF RanFirst
      <4>2. QED
        BY <1>1, <1>2, <1>3, <3>2, <4>1
    <3>3. QED
      BY <1>6, <3>1, <3>2
  <2>3. QED
    BY <2>1, <2>2 DEF RanFirst, Reached
<1>10. commandCount <= commandCount'
  BY <1>1, <1>2
<1>11. QED
  BY <1>5, <1>7, <1>8, <1>9, <1>10

\* The coordinator sends to the node it knows; its queue may grow.
LEMMA SendsCommands ==
    ASSUME TypeInv, TypeInv', CommandInv, DriverInv', QueueInOrder',
           UNCHANGED <<instanceId, hostInstanceId, agentId, coordinatorInstanceId,
                       appliedCommandSeq, ran, paired>>,
           Heard, Grows \/ UNCHANGED queueVars,
           \/ toHost' = toHost
           \/ /\ paired => hostInstanceId = agentId
              /\ \E msgs \in Seq(CoordinatorToHost) : Sending(msgs)
    PROVE  CommandInv'
<1> USE DEF CommandInv
<1>1. /\ commandCount <= commandCount' /\ Contiguous' /\ RanFirst'
      /\ \A j \in DOMAIN unacked : j \in DOMAIN unacked' /\ unacked'[j] = unacked[j]
      /\ \A k \in DOMAIN unacked' :
            \/ commandCount < unacked'[k].cmd.id
            \/ \E j \in DOMAIN unacked : unacked[j].cmd = unacked'[k].cmd
  <2>1. CASE Grows
    BY <2>1, QueueGrows
  <2>2. CASE UNCHANGED queueVars
    <3>1. UNCHANGED <<unacked, nextCommandSeq, commandCount>>
      BY <2>2 DEF queueVars
    <3>2. Contiguous' /\ RanFirst'
      BY <3>1 DEF Contiguous, RanFirst, Reached
    <3>3. commandCount <= commandCount'
      BY <3>1 DEF TypeInv, ManagerTypeOK
    <3>4. QED
      BY <3>1, <3>2, <3>3
  <2>3. QED
    BY <2>1, <2>2
<1>2. Offered
  BY SendingOffers DEF Offered, TypeInv
<1>3. toHost' = toHost \/ (paired /\ hostInstanceId = agentId)
  BY DEF Sending, CoordinatorSends
<1>4. Recognised'
  BY <1>3 DEF Recognised
<1>5. Hellos'
  <2>1. SUFFICES ASSUME NEW i \in DOMAIN toCoord', toCoord'[i].t = "hello"
                 PROVE  /\ toCoord'[i].inst <= agentId
                        /\ toCoord'[i].inst # agentId =>
                              /\ coordinatorInstanceId = 0 /\ ~paired'
                              /\ \A j \in DOMAIN toHost' : ~Marked(toHost'[j])
    BY DEF Hellos
  <2>2. PICK k \in DOMAIN toCoord : toCoord'[i] = toCoord[k]
    BY <2>1 DEF Heard
  <2>3. QED
    BY <1>3, <2>1, <2>2 DEF Hellos
<1>6. Acknowledged'
  BY DEF Acknowledged, Heard
<1>7. FromQueue' /\ SentBetween' /\ SentInOrder' /\ AppliedOnce'
  <2>1. \A i \in DOMAIN toHost :
           Fresh(toHost[i]) /\ toHost[i].cmd.coord = instanceId =>
              \E k \in DOMAIN unacked' :
                 unacked'[k].seq = toHost[i].seq /\ unacked'[k].cmd = toHost[i].cmd
    BY <1>1 DEF FromQueue
  <2>2. QED
    BY <1>1, <1>2, <2>1, FramesOrdered
<1>8. QED
  BY <1>1, <1>4, <1>5, <1>6, <1>7
\* Commands go only when applied, or for a node that is gone.
LEMMA DropsCommands ==
    ASSUME TypeInv, TypeInv', CommandInv, DriverInv', QueueInOrder',
           UNCHANGED <<instanceId, hostInstanceId, agentId, coordinatorInstanceId,
                       appliedCommandSeq, ran, paired, toHost, nextCommandSeq,
                       commandCount>>,
           Heard, NEW I \in SUBSET DOMAIN unacked,
           NEW r \in Filtered(unacked, I), unacked' = r,
           \/ hostInstanceId # agentId
           \/ \A k \in DOMAIN unacked : unacked[k].seq > Reached(instanceId) => k \in I
    PROVE  CommandInv'
<1> USE DEF CommandInv
<1>1. /\ \A i \in DOMAIN r : \E k \in I : r[i] = unacked[k]
      /\ \A k \in I : \E i \in DOMAIN r : r[i] = unacked[k]
  BY FilteredEntries DEF TypeInv, ManagerTypeOK
<1>2. Recognised' /\ Hellos' /\ Acknowledged'
  <2>1. Recognised'
    BY DEF Recognised
  <2>2. Hellos'
    <3>1. SUFFICES ASSUME NEW i \in DOMAIN toCoord', toCoord'[i].t = "hello"
                   PROVE  /\ toCoord'[i].inst <= agentId
                          /\ toCoord'[i].inst # agentId =>
                                /\ coordinatorInstanceId = 0 /\ ~paired'
                                /\ \A j \in DOMAIN toHost' : ~Marked(toHost'[j])
      BY DEF Hellos
    <3>2. PICK k \in DOMAIN toCoord : toCoord'[i] = toCoord[k]
      BY <3>1 DEF Heard
    <3>3. QED
      BY <3>1, <3>2 DEF Hellos
  <2>3. Acknowledged'
    BY DEF Acknowledged, Heard
  <2>4. QED
    BY <2>1, <2>2, <2>3
<1>3. /\ Reached(instanceId) \in Nat /\ nextCommandSeq \in Nat
  BY NodeNumbers, QueueFrames DEF TypeInv
<1>4. Contiguous'
  <2>1. SUFFICES ASSUME hostInstanceId = agentId
                 PROVE  /\ Reached(instanceId) < nextCommandSeq
                        /\ \A s \in Reached(instanceId) + 1 .. nextCommandSeq - 1 :
                              \E i \in DOMAIN unacked' : unacked'[i].seq = s
    BY DEF Contiguous, Reached
  <2>2. ASSUME NEW s \in Reached(instanceId) + 1 .. nextCommandSeq - 1
        PROVE  \E i \in DOMAIN unacked' : unacked'[i].seq = s
    <3>1. PICK k \in DOMAIN unacked : unacked[k].seq = s
      BY <2>1 DEF Contiguous
    <3>2. s > Reached(instanceId)
      BY <1>3
    <3>3. k \in I
      BY <2>1, <3>1, <3>2
    <3>4. QED
      BY <1>1, <3>1, <3>3
  <2>3. QED
    BY <2>1, <2>2 DEF Contiguous
<1>5. RanFirst'
  <2>1. ASSUME NEW i \in DOMAIN ran, NEW j \in DOMAIN unacked',
               unacked'[j].seq > Reached(instanceId)
        PROVE  ran[i].id < unacked'[j].cmd.id
    <3>1. PICK k \in I : unacked'[j] = unacked[k]
      BY <1>1
    <3>2. QED
      BY <2>1, <3>1 DEF RanFirst
  <2>2. QED
    BY <2>1 DEF RanFirst, Reached
<1>6. FromQueue' /\ SentBetween' /\ SentInOrder' /\ AppliedOnce'
  <2>1. Offered
    BY DEF Offered
  <2>2. commandCount <= commandCount'
    BY DEF TypeInv, ManagerTypeOK
  <2>3. ASSUME NEW i \in DOMAIN toHost, Fresh(toHost[i]),
               toHost[i].cmd.coord = instanceId
        PROVE  \E k \in DOMAIN unacked' :
                  unacked'[k].seq = toHost[i].seq /\ unacked'[k].cmd = toHost[i].cmd
    <3>1. hostInstanceId = agentId
      <4>1. Marked(toHost[i]) /\ From(toHost[i]) = instanceId
        BY <2>3 DEF Fresh, Marked, From
      <4>2. QED
        BY <4>1 DEF Recognised
    <3>2. PICK k \in DOMAIN unacked :
            unacked[k].seq = toHost[i].seq /\ unacked[k].cmd = toHost[i].cmd
      BY <2>3 DEF FromQueue
    <3>3. k \in I
      BY <2>3, <3>1, <3>2 DEF Fresh
    <3>4. QED
      BY <1>1, <3>2, <3>3
  <2>4. \A k \in DOMAIN unacked' : \E j \in DOMAIN unacked :
           unacked[j].cmd = unacked'[k].cmd
    BY <1>1
  <2>5. QED
    BY <1>5, <2>1, <2>2, <2>3, <2>4, FramesOrdered
<1>7. QED
  BY <1>2, <1>4, <1>5, <1>6

\* The hello at the head of the queue.
LEMMA HelloRead ==
    ASSUME TypeInv, CommandInv, ReceiveHello
    PROVE  /\ toCoord[1] \in Hello /\ Head(toCoord) = toCoord[1] /\ Heard
           /\ toCoord[1].inst <= agentId /\ 1 \in DOMAIN toCoord
           /\ toCoord[1].t = "hello"
           /\ toCoord[1].inst # agentId =>
                 /\ coordinatorInstanceId = 0 /\ ~paired
                 /\ \A j \in DOMAIN toHost : ~Marked(toHost[j])
           /\ UNCHANGED <<instanceId, commandCount, linkSocket, agentSocket, paired>>
<1>1. toCoord # <<>> /\ toCoord' = Tail(toCoord) /\ Head(toCoord).t = "hello"
  BY DEF ReceiveHello, ManagerReceives, ManagerConsumes
<1>2. /\ Heard /\ Head(toCoord) = toCoord[1] /\ 1 \in DOMAIN toCoord
      /\ toCoord[1] \in HostToCoordinator
  BY <1>1, TailHeard DEF TypeInv
<1>3. toCoord[1] \in Hello
  BY <1>1, <1>2, CoordinatorFrame
<1>4. QED
  BY <1>1, <1>2, <1>3 DEF CommandInv, Hellos, ReceiveHello, ManagerConsumes

\* A node the link did not know: what is left of the queue is numbered anew.
LEMMA NewInstanceCommands ==
    ASSUME TypeInv, TypeInv', CommandInv, DriverInv', QueueInOrder',
           ReceiveHello, hostInstanceId # Head(toCoord).inst,
           NewInstance(Head(toCoord)), UNCHANGED agentVars
    PROVE  CommandInv'
<1> USE DEF CommandInv
<1> DEFINE hello == toCoord[1]
<1>1. UNCHANGED <<agentId, coordinatorInstanceId, appliedCommandSeq, ran>>
  BY DEF agentVars
<1>2. /\ hello \in Hello /\ Head(toCoord) = hello /\ Heard
      /\ hello.inst <= agentId /\ 1 \in DOMAIN toCoord /\ hello.t = "hello"
      /\ hello.inst # agentId =>
            /\ coordinatorInstanceId = 0 /\ ~paired
            /\ \A j \in DOMAIN toHost : ~Marked(toHost[j])
      /\ UNCHANGED <<instanceId, commandCount, linkSocket, agentSocket, paired>>
  BY HelloRead
<1>3. hostInstanceId' = hello.inst /\ hostInstanceId # hello.inst
  BY <1>2 DEF NewInstance
<1>4. instanceId \in Nat \ {0} /\ commandCount \in Nat
  BY QueueFrames DEF TypeInv
<1>5. coordinatorInstanceId # instanceId /\ Reached(instanceId) = 0
  BY <1>2, <1>3, <1>4 DEF Recognised, Reached
<1>6. \A i \in DOMAIN toHost : ~(Marked(toHost[i]) /\ From(toHost[i]) = instanceId)
  BY <1>2, <1>3 DEF Recognised
<1>7. PICK kept \in Kept(hello) :
        unacked' = Renumbered(kept) /\ nextCommandSeq' = Len(kept) + 1
  BY <1>2 DEF NewInstance
<1>8. /\ kept \in Seq(QueuedCommand)
      /\ \A i \in DOMAIN kept : \E k \in DOMAIN unacked : kept[i] = unacked[k]
  <2> DEFINE I == {i \in DOMAIN unacked :
                     unacked[i].cmd.proc \in {NoProc} \cup (Live \ Lost(hello))}
  <2>1. unacked \in Seq(QueuedCommand) /\ I \in SUBSET DOMAIN unacked
    BY DEF TypeInv, ManagerTypeOK
  <2>2. kept \in Filtered(unacked, I)
    BY <1>7 DEF Kept
  <2> HIDE DEF I
  <2>3. QED
    BY <2>1, <2>2, FilteredQueue, FilteredEntries
<1>9. /\ Len(kept) \in Nat /\ DOMAIN kept = 1..Len(kept)
      /\ DOMAIN unacked' = 1..Len(kept)
      /\ \A i \in 1..Len(kept) : unacked'[i].seq = i /\ unacked'[i].cmd = kept[i].cmd
  BY <1>7, <1>8, RenumberedType DEF Renumbered
<1> HIDE DEF hello
<1>10. \A i \in DOMAIN unacked' : \E k \in DOMAIN unacked :
          unacked[k].cmd = unacked'[i].cmd
  BY <1>8, <1>9
<1>11. PICK msgs \in Seq(CoordinatorToHost) : Sending(msgs)
  BY HelloSends DEF TypeInv
<1>12. toHost' = toHost \/ (paired /\ hello.inst = agentId)
  BY <1>2, <1>11 DEF Sending, CoordinatorSends
<1>13. Recognised'
  <2>1. CASE toHost' = toHost
    BY <1>1, <1>2, <1>5, <1>6, <2>1 DEF Recognised
  <2>2. CASE hello.inst = agentId
    BY <1>1, <1>3, <2>2 DEF Recognised
  <2>3. QED
    BY <1>12, <2>1, <2>2
<1>14. Hellos'
  <2>1. SUFFICES ASSUME NEW i \in DOMAIN toCoord', toCoord'[i].t = "hello"
                 PROVE  /\ toCoord'[i].inst <= agentId
                        /\ toCoord'[i].inst # agentId =>
                              /\ coordinatorInstanceId = 0 /\ ~paired'
                              /\ \A j \in DOMAIN toHost' : ~Marked(toHost'[j])
    BY <1>1, <1>2, <1>3 DEF Hellos
  <2>2. PICK k \in DOMAIN toCoord : toCoord'[i] = toCoord[k]
    BY <1>2, <2>1 DEF Heard
  <2>3. QED
    BY <1>2, <1>12, <2>1, <2>2 DEF Hellos
<1>15. Contiguous'
  <2>1. 0 < nextCommandSeq' /\ nextCommandSeq' - 1 = Len(kept)
    BY <1>7, <1>9
  <2>2. \A s \in 0 + 1 .. nextCommandSeq' - 1 : \E i \in DOMAIN unacked' : unacked'[i].seq = s
    BY <1>9, <2>1
  <2>3. Reached(instanceId)' = 0
    BY <1>1, <1>2, <1>5 DEF Reached
  <2>4. QED
    BY <2>1, <2>2, <2>3 DEF Contiguous
<1>16. Acknowledged'
  <2>1. SUFFICES ASSUME NEW i \in DOMAIN toCoord', toCoord'[i].t = "command_ack"
                 PROVE  /\ hostInstanceId' # agentId
                        /\ \A j \in DOMAIN toCoord' :
                              toCoord'[j].t = "hello" => toCoord'[j].inst # agentId
    BY <1>1 DEF Acknowledged
  <2>2. PICK k \in DOMAIN toCoord : toCoord'[i] = toCoord[k]
    BY <1>2, <2>1 DEF Heard
  <2>3. \A j \in DOMAIN toCoord : toCoord[j].t = "hello" => toCoord[j].inst # agentId
    BY <1>5, <2>1, <2>2 DEF Acknowledged
  <2>4. hello.inst # agentId
    BY <1>2, <2>3 DEF hello
  <2>5. QED
    BY <1>2, <1>3, <2>3, <2>4 DEF Heard
<1>17. RanFirst'
  <2>1. ASSUME NEW i \in DOMAIN ran, NEW j \in DOMAIN unacked'
        PROVE  ran[i].id < unacked'[j].cmd.id
    <3>1. PICK k \in DOMAIN unacked : unacked[k].cmd = unacked'[j].cmd
      BY <1>10
    <3>2. unacked[k].seq > 0
      <4>1. unacked[k].seq \in Nat /\ unacked[k].seq # 0
        BY QueueFrames DEF TypeInv, DriverInv, Own
      <4>2. QED
        BY <4>1
    <3>3. QED
      BY <1>5, <3>1, <3>2 DEF RanFirst
  <2>2. QED
    BY <1>1, <1>2, <2>1 DEF RanFirst
<1>18. FromQueue' /\ SentBetween' /\ SentInOrder' /\ AppliedOnce'
  <2>1. Offered
    BY <1>11, SendingOffers DEF TypeInv
  <2>2. commandCount <= commandCount'
    BY <1>2, <1>4
  <2>3. \A i \in DOMAIN toHost : ~(Fresh(toHost[i]) /\ toHost[i].cmd.coord = instanceId)
    BY <1>6 DEF Fresh, Marked, From
  <2>4. QED
    BY <1>1, <1>2, <1>10, <1>17, <2>1, <2>2, <2>3, FramesOrdered
<1>19. QED
  BY <1>13, <1>14, <1>15, <1>16, <1>17, <1>18

LEMMA HelloCommands ==
    ASSUME TypeInv, TypeInv', CommandInv, DriverInv', QueueInOrder',
           ReceiveHello, UNCHANGED agentVars
    PROVE  CommandInv'
<1>1. CASE hostInstanceId # Head(toCoord).inst
  BY <1>1, NewInstanceCommands DEF ReceiveHello
<1>2. CASE hostInstanceId = Head(toCoord).inst
  <2>1. /\ toCoord[1].inst # agentId => ~paired
        /\ Head(toCoord) = toCoord[1] /\ Heard
        /\ UNCHANGED <<instanceId, commandCount, linkSocket, agentSocket, paired>>
    BY HelloRead
  <2>2. UNCHANGED <<unacked, nextCommandSeq, hostInstanceId>>
    BY <1>2 DEF ReceiveHello
  <2>3. UNCHANGED <<agentId, coordinatorInstanceId, appliedCommandSeq, ran>>
    BY DEF agentVars
  <2>4. \E msgs \in Seq(CoordinatorToHost) : Sending(msgs)
    BY HelloSends DEF TypeInv
  <2>5. UNCHANGED queueVars
    BY <2>1, <2>2 DEF queueVars
  <2>6. QED
    BY <1>2, <2>1, <2>2, <2>3, <2>4, <2>5, SendsCommands
<1>3. QED
  BY <1>1, <1>2
-----------------------------------------------------------------------------
(***************************************************************************)
(* Steps that change the node's numbers.                                   *)
(***************************************************************************)
\* The welcome at the head of the queue, of the coordinator of all frames.
LEMMA WelcomeRead ==
    ASSUME TypeInv, DriverInv, ReceiveWelcome
    PROVE  /\ 1 \in DOMAIN toHost /\ Marked(toHost[1]) /\ Shown
           /\ From(toHost[1]) = coordinatorInstanceId'
           /\ coordinatorInstanceId = instanceId => coordinatorInstanceId' = instanceId
           /\ \A i \in DOMAIN toHost : Marked(toHost[i]) =>
                 From(toHost[i]) = coordinatorInstanceId'
           /\ \/ UNCHANGED <<coordinatorInstanceId, appliedCommandSeq>>
              \/ /\ coordinatorInstanceId # coordinatorInstanceId'
                 /\ appliedCommandSeq' = 0
           /\ UNCHANGED <<agentId, ran, toCoord, paired>>
<1> DEFINE w == toHost[1]
<1>1. /\ toHost # <<>> /\ Head(toHost) = w /\ Len(toHost) \in Nat \ {0}
      /\ DOMAIN toHost = 1..Len(toHost) /\ DOMAIN toHost' = 1..Len(toHost) - 1
      /\ \A i \in 1..Len(toHost) - 1 : toHost'[i] = toHost[i + 1]
  BY HeadTailProperties, LenProperties, EmptySeq
     DEF WireTypeOK, ReceiveWelcome, AgentReceives, TakeWelcome, AgentConsumes, TypeInv
<1>2. \A i \in DOMAIN toHost' : i + 1 \in DOMAIN toHost /\ toHost'[i] = toHost[i + 1]
  BY <1>1
<1>3. /\ w.t = "welcome" /\ coordinatorInstanceId' = w.coord
      /\ \/ UNCHANGED <<coordinatorInstanceId, appliedCommandSeq>>
         \/ coordinatorInstanceId # w.coord /\ appliedCommandSeq' = 0
      /\ UNCHANGED <<agentId, ran, toCoord, paired>>
  BY <1>1 DEF ReceiveWelcome, AgentReceives, TakeWelcome, AgentConsumes, Resume, AdoptBy
<1>4. Marked(w) /\ From(w) = w.coord /\ 1 \in DOMAIN toHost
  BY <1>1, <1>3 DEF Marked, From
<1>5. /\ coordinatorInstanceId = instanceId => w.coord = instanceId
      /\ \A i \in DOMAIN toHost : Marked(toHost[i]) => From(toHost[i]) = w.coord
  BY <1>4 DEF DriverInv, Sources
<1>6. QED
  BY <1>2, <1>3, <1>4, <1>5 DEF Shown

LEMMA WelcomeCommands ==
    ASSUME TypeInv, TypeInv', CommandInv, DriverInv', QueueInOrder',
           ReceiveWelcome, UNCHANGED managerVars
    PROVE  CommandInv'
<1> USE DEF CommandInv
<1>1. /\ 1 \in DOMAIN toHost /\ Marked(toHost[1]) /\ Shown
      /\ From(toHost[1]) = coordinatorInstanceId'
      /\ coordinatorInstanceId = instanceId => coordinatorInstanceId' = instanceId
      /\ \A i \in DOMAIN toHost : Marked(toHost[i]) =>
            From(toHost[i]) = coordinatorInstanceId'
      /\ \/ UNCHANGED <<coordinatorInstanceId, appliedCommandSeq>>
         \/ /\ coordinatorInstanceId # coordinatorInstanceId'
            /\ appliedCommandSeq' = 0
      /\ UNCHANGED <<agentId, ran, toCoord, paired>>
  BY WelcomeRead
<1>2. UNCHANGED <<instanceId, hostInstanceId, unacked, nextCommandSeq, commandCount>>
  BY DEF managerVars, linkVars, queueVars
<1>3. /\ Reached(instanceId)' = Reached(instanceId)
      /\ (IF coordinatorInstanceId = coordinatorInstanceId'
            THEN appliedCommandSeq ELSE 0) = appliedCommandSeq'
  BY <1>1, <1>2 DEF Reached
<1>4. \A i \in DOMAIN toHost' : toHost'[i].t = "command" =>
         \E k \in DOMAIN toHost :
            /\ toHost'[i] = toHost[k] /\ toHost[k].t = "command"
            /\ toHost[k].cmd.coord = coordinatorInstanceId'
            /\ Fresh(toHost[k]) <=> toHost[k].seq > appliedCommandSeq'
  <2>1. SUFFICES ASSUME NEW i \in DOMAIN toHost', toHost'[i].t = "command"
                 PROVE  \E k \in DOMAIN toHost :
                           /\ toHost'[i] = toHost[k] /\ toHost[k].t = "command"
                           /\ toHost[k].cmd.coord = coordinatorInstanceId'
                           /\ Fresh(toHost[k]) <=> toHost[k].seq > appliedCommandSeq'
    OBVIOUS
  <2>2. PICK k \in DOMAIN toHost : toHost'[i] = toHost[k]
    BY <1>1, <2>1 DEF Shown, Marked
  <2>3. toHost[k].t = "command" /\ toHost[k].cmd.coord = coordinatorInstanceId'
    BY <1>1, <2>1, <2>2 DEF Marked, From
  <2>4. Fresh(toHost[k]) <=> toHost[k].seq > appliedCommandSeq'
    BY <1>3, <2>3 DEF Fresh, Reached
  <2>5. QED
    BY <2>2, <2>3, <2>4
<1>5. Recognised'
  <2>1. coordinatorInstanceId' = instanceId => hostInstanceId = agentId
    BY <1>1 DEF Recognised
  <2>2. QED
    BY <1>1, <1>2, <2>1 DEF Recognised, Shown
<1>6. Hellos'
  <2>1. \A i \in DOMAIN toCoord : toCoord[i].t = "hello" => toCoord[i].inst = agentId
    BY <1>1 DEF Hellos
  <2>2. agentId \in Nat
    BY NodeNumbers DEF TypeInv
  <2>3. QED
    BY <1>1, <1>2, <2>1, <2>2 DEF Hellos
<1>7. Contiguous' /\ RanFirst'
  BY <1>1, <1>2, <1>3 DEF Contiguous, RanFirst
<1>8. Acknowledged'
  BY <1>1, <1>2 DEF Acknowledged
<1>9. FromQueue'
  <2>1. SUFFICES ASSUME NEW i \in DOMAIN toHost', toHost'[i].t = "command",
                        toHost'[i].cmd.coord = coordinatorInstanceId' =>
                           toHost'[i].seq > appliedCommandSeq',
                        toHost'[i].cmd.coord = instanceId
                 PROVE  \E j \in DOMAIN unacked :
                           /\ unacked[j].seq = toHost'[i].seq
                           /\ unacked[j].cmd = toHost'[i].cmd
    BY <1>2 DEF FromQueue, Fresh, Reached
  <2>2. QED
    BY <1>4, <2>1 DEF FromQueue
<1>10. SentBetween'
  <2>1. SUFFICES ASSUME NEW i \in DOMAIN toHost', toHost'[i].t = "command"
                 PROVE  /\ toHost'[i].cmd.id <= commandCount
                        /\ toHost'[i].cmd.coord # instanceId =>
                              \A j \in DOMAIN unacked :
                                 toHost'[i].cmd.id < unacked[j].cmd.id
                        /\ (toHost'[i].cmd.coord = coordinatorInstanceId' =>
                                toHost'[i].seq > appliedCommandSeq') =>
                              \A j \in DOMAIN ran : ran[j].id < toHost'[i].cmd.id
    BY <1>1, <1>2 DEF SentBetween, Fresh, Reached
  <2>2. QED
    BY <1>4, <2>1 DEF SentBetween
<1>11. SentInOrder'
  <2>1. SUFFICES ASSUME NEW i \in DOMAIN toHost', NEW j \in DOMAIN toHost',
                        toHost'[i].t = "command", toHost'[j].t = "command",
                        toHost'[i].cmd.coord = coordinatorInstanceId' =>
                           toHost'[i].seq > appliedCommandSeq',
                        toHost'[i].seq < toHost'[j].seq
                 PROVE  toHost'[i].cmd.id < toHost'[j].cmd.id
    BY DEF SentInOrder, Fresh, Reached
  <2>2. PICK k \in DOMAIN toHost : toHost'[i] = toHost[k] /\ Fresh(toHost[k])
    BY <1>4, <2>1
  <2>3. PICK l \in DOMAIN toHost : toHost'[j] = toHost[l] /\ toHost[l].t = "command"
    BY <1>4, <2>1
  <2>4. QED
    BY <2>1, <2>2, <2>3 DEF SentInOrder
<1>12. AppliedOnce'
  BY <1>1 DEF AppliedOnce
<1>13. QED
  BY <1>5, <1>6, <1>7, <1>8, <1>9, <1>10, <1>11, <1>12
\* Every hello and acknowledgement was on its way, or is the one of command s.
HeardOr(s) ==
    \A i \in DOMAIN toCoord' : toCoord'[i].t \in {"hello", "command_ack"} =>
        \/ \E k \in DOMAIN toCoord : toCoord'[i] = toCoord[k]
        \/ paired /\ toCoord'[i].t = "command_ack" /\ toCoord'[i].seq = s

LEMMA AckHeard ==
    ASSUME WireTypeOK, NEW s \in Nat, NEW msgs \in Seq(HostToCoordinator),
           HostSends(msgs),
           \A i \in DOMAIN msgs : msgs[i].t = "event" \/ msgs[i] = Ack(s)
    PROVE  HeardOr(s)
<1>1. CASE toCoord' = toCoord
  BY <1>1 DEF HeardOr
<1>2. CASE paired /\ toCoord' = toCoord \o msgs
  <2>1. /\ Len(toCoord) \in Nat /\ Len(msgs) \in Nat
        /\ DOMAIN toCoord = 1..Len(toCoord) /\ DOMAIN msgs = 1..Len(msgs)
        /\ DOMAIN toCoord' = 1..Len(toCoord) + Len(msgs)
        /\ \A i \in 1..Len(toCoord) : toCoord'[i] = toCoord[i]
        /\ \A i \in 1..Len(msgs) : toCoord'[Len(toCoord) + i] = msgs[i]
    BY <1>2 DEF WireTypeOK
  <2>2. \A i \in DOMAIN toCoord' :
           \/ i \in 1..Len(toCoord)
           \/ i - Len(toCoord) \in 1..Len(msgs) /\ i = Len(toCoord) + (i - Len(toCoord))
    BY <2>1
  <2>3. \A i \in DOMAIN toCoord' :
           \/ \E k \in DOMAIN toCoord : toCoord'[i] = toCoord[k]
           \/ \E k \in DOMAIN msgs : toCoord'[i] = msgs[k]
    BY <2>1, <2>2
  <2>4. Ack(s).t = "command_ack" /\ Ack(s).seq = s
    BY DEF Ack
  <2>5. QED
    BY <1>2, <2>3, <2>4 DEF HeardOr
<1>3. QED
  BY <1>1, <1>2 DEF HostSends

\* An acknowledgement goes out for what is applied, and only for that.
LEMMA AcksRight ==
    ASSUME TypeInv, CommandInv, NEW s, HeardOr(s), s <= appliedCommandSeq',
           appliedCommandSeq <= appliedCommandSeq', appliedCommandSeq' \in Nat,
           paired => coordinatorInstanceId = instanceId,
           UNCHANGED <<instanceId, hostInstanceId, agentId, coordinatorInstanceId>>
    PROVE  Acknowledged'
<1>1. SUFFICES ASSUME NEW i \in DOMAIN toCoord', toCoord'[i].t = "command_ack"
               PROVE  \/ /\ coordinatorInstanceId = instanceId
                         /\ toCoord'[i].seq <= appliedCommandSeq'
                      \/ /\ hostInstanceId # agentId
                         /\ \A j \in DOMAIN toCoord' : toCoord'[j].t = "hello" =>
                               toCoord'[j].inst # agentId
  BY DEF Acknowledged
<1>2. \A j \in DOMAIN toCoord' : toCoord'[j].t = "hello" =>
         \E k \in DOMAIN toCoord : toCoord'[j] = toCoord[k]
  BY DEF HeardOr
<1>3. CASE paired /\ toCoord'[i].seq = s
  BY <1>3
<1>4. ASSUME NEW k \in DOMAIN toCoord, toCoord'[i] = toCoord[k]
      PROVE  \/ /\ coordinatorInstanceId = instanceId
                /\ toCoord'[i].seq <= appliedCommandSeq'
             \/ /\ hostInstanceId # agentId
                /\ \A j \in DOMAIN toCoord' : toCoord'[j].t = "hello" =>
                      toCoord'[j].inst # agentId
  <2>1. toCoord[k].seq \in Nat /\ appliedCommandSeq \in Nat
    <3>1. toCoord[k] \in HostToCoordinator
      BY ElementOfSeq, LenProperties DEF TypeInv, WireTypeOK
    <3>2. toCoord[k] \in CommandAck
      BY <1>1, <1>4, <3>1, CoordinatorFrame
    <3>3. QED
      BY <3>2, NodeNumbers DEF CommandAck, TypeInv
  <2>2. \/ coordinatorInstanceId = instanceId /\ toCoord[k].seq <= appliedCommandSeq
        \/ /\ hostInstanceId # agentId
           /\ \A j \in DOMAIN toCoord : toCoord[j].t = "hello" => toCoord[j].inst # agentId
    BY <1>1, <1>4 DEF CommandInv, Acknowledged
  <2>3. CASE coordinatorInstanceId = instanceId /\ toCoord[k].seq <= appliedCommandSeq
    BY <1>4, <2>1, <2>3
  <2>4. CASE /\ hostInstanceId # agentId
             /\ \A j \in DOMAIN toCoord : toCoord[j].t = "hello" => toCoord[j].inst # agentId
    BY <1>2, <2>4
  <2>5. QED
    BY <2>2, <2>3, <2>4
<1>5. QED
  BY <1>1, <1>3, <1>4 DEF HeardOr

\* A command the node reads while the coordinator hears it is the running one's.
LEMMA CommandRead ==
    ASSUME TypeInv, DriverInv, AgentReceives("command"), toHost' = Tail(toHost)
    PROVE  /\ 1 \in DOMAIN toHost /\ toHost[1].t = "command" /\ Head(toHost) = toHost[1]
           /\ toHost[1].cmd.coord = coordinatorInstanceId /\ Shown
           /\ toHost[1].seq \in Nat /\ toHost[1].cmd.id \in Nat
           /\ \A i \in DOMAIN toHost : toHost[i].t = "command" =>
                 toHost[i].cmd.coord = coordinatorInstanceId
           /\ paired => coordinatorInstanceId = instanceId
<1>1. /\ toHost # <<>> /\ Head(toHost) = toHost[1] /\ Len(toHost) \in Nat \ {0}
      /\ DOMAIN toHost = 1..Len(toHost) /\ DOMAIN toHost' = 1..Len(toHost) - 1
      /\ \A i \in 1..Len(toHost) - 1 : toHost'[i] = toHost[i + 1]
  BY HeadTailProperties, LenProperties, EmptySeq DEF WireTypeOK, AgentReceives, TypeInv
<1>2. \A i \in DOMAIN toHost' : i + 1 \in DOMAIN toHost /\ toHost'[i] = toHost[i + 1]
  BY <1>1
<1>3. 1 \in DOMAIN toHost /\ toHost[1].t = "command"
  BY <1>1 DEF AgentReceives
<1>4. /\ Marked(toHost[1]) /\ From(toHost[1]) = toHost[1].cmd.coord
      /\ toHost[1].seq \in Nat /\ toHost[1].cmd.id \in Nat
  BY <1>3, CommandFrames DEF TypeInv
<1>5. From(toHost[1]) = coordinatorInstanceId
  BY <1>3 DEF DriverInv, Introduced
<1>6. \A i \in DOMAIN toHost : Marked(toHost[i]) =>
         From(toHost[i]) = coordinatorInstanceId
  BY <1>3, <1>4, <1>5 DEF DriverInv, Sources
<1>7. paired => coordinatorInstanceId = instanceId
  BY <1>3, <1>4, <1>5 DEF DriverInv, Sources, Ends
<1>8. \A i \in DOMAIN toHost : toHost[i].t = "command" =>
         toHost[i].cmd.coord = coordinatorInstanceId
  BY <1>6 DEF Marked, From
<1>9. QED
  BY <1>1, <1>2, <1>3, <1>4, <1>5, <1>7, <1>8 DEF Shown

\* A command that was applied before is acknowledged again.
LEMMA OldCommands ==
    ASSUME TypeInv, TypeInv', CommandInv, DriverInv', QueueInOrder',
           ReceiveOldCommand, UNCHANGED managerVars
    PROVE  CommandInv'
<1> USE DEF CommandInv
<1>1. /\ toHost' = Tail(toHost) /\ AgentReceives("command")
      /\ UNCHANGED <<paired, instanceId, hostInstanceId>> /\ UNCHANGED queueVars
      /\ UNCHANGED <<agentId, coordinatorInstanceId, appliedCommandSeq, ran>>
  BY DEF ReceiveOldCommand, AgentConsumes, agentVars, managerVars, linkVars
<1>2. /\ Head(toHost) = toHost[1] /\ toHost[1].seq \in Nat /\ Shown
      /\ paired => coordinatorInstanceId = instanceId
  BY <1>1, CommandRead
<1>3. appliedCommandSeq \in Nat
  BY NodeNumbers DEF TypeInv
<1>4. CASE toCoord' = toCoord
  <2>1. Heard
    BY <1>4 DEF Heard
  <2>2. QED
    BY <1>1, <1>2, <2>1, AsideCommands
<1>5. CASE toHost[1].seq <= appliedCommandSeq /\ HostSends(<<Ack(toHost[1].seq)>>)
  <2> DEFINE s == toHost[1].seq
             msgs == <<Ack(s)>>
  <2>1. Ack(s) \in HostToCoordinator
    BY <1>2 DEF Ack, HostToCoordinator, CommandAck
  <2>2. /\ msgs \in Seq(HostToCoordinator)
        /\ \A i \in DOMAIN msgs : msgs[i].t = "event" \/ msgs[i] = Ack(s)
    BY <2>1
  <2>3. HostSends(msgs) /\ s <= appliedCommandSeq /\ s \in Nat
    BY <1>2, <1>5
  <2> HIDE DEF s, msgs
  <2>4. HeardOr(s)
    BY <2>2, <2>3, AckHeard DEF TypeInv
  <2>5. Acknowledged'
    BY <1>1, <1>2, <1>3, <2>3, <2>4, AcksRight
  <2>6. Recognised'
    BY <1>1, <1>2 DEF Recognised, Shown
  <2>7. Hellos'
    <3>1. (\A j \in DOMAIN toHost : ~Marked(toHost[j])) =>
             \A j \in DOMAIN toHost' : ~Marked(toHost'[j])
      BY <1>2 DEF Shown
    <3>2. ASSUME NEW i \in DOMAIN toCoord', toCoord'[i].t = "hello"
          PROVE  /\ toCoord'[i].inst <= agentId
                 /\ toCoord'[i].inst # agentId =>
                       /\ coordinatorInstanceId = 0 /\ ~paired
                       /\ \A j \in DOMAIN toHost' : ~Marked(toHost'[j])
      <4>1. PICK k \in DOMAIN toCoord : toCoord'[i] = toCoord[k]
        BY <2>4, <3>2 DEF HeardOr
      <4>2. QED
        BY <3>1, <3>2, <4>1 DEF Hellos
    <3>3. QED
      BY <1>1, <3>2 DEF Hellos
  <2>8. UNCHANGED <<unacked, nextCommandSeq, commandCount>>
    BY <1>1 DEF queueVars
  <2>9. Contiguous' /\ RanFirst'
    BY <1>1, <2>8 DEF Contiguous, RanFirst, Reached
  <2>10. FromQueue' /\ SentBetween' /\ SentInOrder' /\ AppliedOnce'
    <3>1. Offered
      BY <1>2 DEF Offered, Shown
    <3>2. commandCount <= commandCount'
      BY <2>8 DEF TypeInv, ManagerTypeOK
    <3>3. /\ \A i \in DOMAIN toHost :
                Fresh(toHost[i]) /\ toHost[i].cmd.coord = instanceId =>
                   \E k \in DOMAIN unacked' :
                      unacked'[k].seq = toHost[i].seq /\ unacked'[k].cmd = toHost[i].cmd
          /\ \A k \in DOMAIN unacked' : \E j \in DOMAIN unacked :
                unacked[j].cmd = unacked'[k].cmd
      BY <2>8 DEF FromQueue
    <3>4. QED
      BY <1>1, <2>9, <3>1, <3>2, <3>3, FramesOrdered
  <2>11. QED
    BY <2>5, <2>6, <2>7, <2>9, <2>10
<1>6. QED
  BY <1>2, <1>4, <1>5 DEF ReceiveOldCommand
\* What applying the next command does to the numbers and to the reports.
LEMMA CommandTaken ==
    ASSUME TypeInv, DriverInv, ReceiveCommand
    PROVE  /\ toHost' = Tail(toHost) /\ AgentReceives("command")
           /\ toHost[1].seq = appliedCommandSeq + 1
           /\ appliedCommandSeq' = appliedCommandSeq + 1
           /\ ran' = Append(ran, [coord |-> toHost[1].cmd.coord,
                                  id |-> toHost[1].cmd.id])
           /\ HeardOr(toHost[1].seq)
           /\ UNCHANGED <<agentId, coordinatorInstanceId, paired>>
<1>1. toHost' = Tail(toHost) /\ AgentReceives("command")
  BY DEF ReceiveCommand, ApplyCommand, AgentConsumes
<1>2. /\ Head(toHost) = toHost[1] /\ toHost[1].seq \in Nat /\ 1 \in DOMAIN toHost
      /\ toHost[1].t = "command"
  BY <1>1, CommandRead
<1>3. /\ toHost[1].seq = appliedCommandSeq + 1
      /\ appliedCommandSeq' = toHost[1].seq
      /\ ran' = Append(ran, [coord |-> toHost[1].cmd.coord, id |-> toHost[1].cmd.id])
      /\ UNCHANGED <<agentId, coordinatorInstanceId, paired>>
  BY <1>2 DEF ReceiveCommand, ApplyCommand, Applies, AgentConsumes
<1> DEFINE s == toHost[1].seq
           p == toHost[1].cmd.proc
<1>4. Ack(s) \in HostToCoordinator
  BY <1>2 DEF Ack, HostToCoordinator, CommandAck
<1>5. CASE HostSends(<<Ack(s)>>)
  <2>1. /\ <<Ack(s)>> \in Seq(HostToCoordinator)
        /\ \A i \in DOMAIN <<Ack(s)>> : <<Ack(s)>>[i] = Ack(s)
    BY <1>4
  <2>2. QED
    BY <1>1, <1>2, <1>3, <1>5, <2>1, AckHeard DEF TypeInv
<1>6. ASSUME toHost[1].cmd.kind = "spawn",
             NEW events \in {<<>>, Opened, CannotStart}, Spawn(p, s, events)
      PROVE  HeardOr(s)
  <2>1. events \in Seq(Event)
    <3>1. \A kind \in {"spawned", "error", "exit"} : Plain(kind) \in Event
      BY PlainTyped
    <3>2. Plain("spawned") \in Event /\ Plain("error") \in Event /\ Plain("exit") \in Event
      BY <3>1
    <3>3. /\ <<>> \in Seq(Event)
          /\ <<Plain("spawned")>> \in Seq(Event)
          /\ <<Plain("error"), Plain("exit")>> \in Seq(Event)
      BY <3>2
    <3>4. QED
      BY <3>3 DEF Opened, CannotStart
  <2>2. p \in Procs
    <3>1. toHost[1] \in CommandMsg
      BY <1>2, WireFrames, HostFrame DEF TypeInv
    <3>2. toHost[1].cmd \in Command
      BY <3>1 DEF CommandMsg
    <3>3. QED
      BY <1>6, <3>2 DEF Command
  <2> DEFINE e == EventMessages(p, 1, events)
             pre == IF coordinatorInstanceId # 0 THEN e ELSE <<>>
  <2>3. e \in Seq(HostToCoordinator)
    BY <2>1, <2>2, EventMessagesType
  <2>4. \A i \in DOMAIN e : e[i].t = "event"
    BY DEF EventMessages
  <2>5. HostSends(pre \o <<Ack(s)>>)
    BY <1>6 DEF Spawn
  <2> HIDE DEF e
  <2>6. pre \in Seq(HostToCoordinator) /\ \A i \in DOMAIN pre : pre[i].t = "event"
    BY <2>3, <2>4
  <2> HIDE DEF pre, s
  <2>7. /\ pre \o <<Ack(s)>> \in Seq(HostToCoordinator)
        /\ DOMAIN (pre \o <<Ack(s)>>) = 1..Len(pre) + 1 /\ Len(pre) \in Nat
        /\ DOMAIN pre = 1..Len(pre)
        /\ \A i \in 1..Len(pre) : (pre \o <<Ack(s)>>)[i] = pre[i]
        /\ (pre \o <<Ack(s)>>)[Len(pre) + 1] = Ack(s)
    BY <1>4, <2>6
  <2>8. \A i \in DOMAIN (pre \o <<Ack(s)>>) :
           (pre \o <<Ack(s)>>)[i].t = "event" \/ (pre \o <<Ack(s)>>)[i] = Ack(s)
    <3>1. \A i \in 1..Len(pre) + 1 : i \in 1..Len(pre) \/ i = Len(pre) + 1
      BY <2>7
    <3>2. QED
      BY <2>6, <2>7, <3>1
  <2>9. s \in Nat
    BY <1>2 DEF s
  <2>10. QED
    BY <2>5, <2>7, <2>8, <2>9, AckHeard DEF TypeInv
<1>7. HeardOr(s)
  BY <1>2, <1>5, <1>6 DEF ReceiveCommand, ApplyCommand
<1>8. QED
  BY <1>1, <1>3, <1>7

\* The command the node applies is the oldest it has yet to apply.
LEMMA NextCommands ==
    ASSUME TypeInv, TypeInv', CommandInv, DriverInv', QueueInOrder',
           ReceiveCommand, UNCHANGED managerVars
    PROVE  CommandInv'
<1> USE DEF CommandInv
<1> DEFINE m == toHost[1]
           r == [coord |-> m.cmd.coord, id |-> m.cmd.id]
<1>1. /\ toHost' = Tail(toHost) /\ AgentReceives("command")
      /\ m.seq = appliedCommandSeq + 1 /\ appliedCommandSeq' = appliedCommandSeq + 1
      /\ ran' = Append(ran, r) /\ HeardOr(m.seq)
      /\ UNCHANGED <<agentId, coordinatorInstanceId, paired>>
  BY CommandTaken
<1>2. /\ 1 \in DOMAIN toHost /\ m.t = "command"
      /\ m.cmd.coord = coordinatorInstanceId /\ Shown
      /\ m.seq \in Nat /\ m.cmd.id \in Nat
      /\ \A i \in DOMAIN toHost : toHost[i].t = "command" =>
            toHost[i].cmd.coord = coordinatorInstanceId
      /\ paired => coordinatorInstanceId = instanceId
  BY <1>1, CommandRead
<1>3. UNCHANGED <<instanceId, hostInstanceId, unacked, nextCommandSeq, commandCount>>
  BY DEF managerVars, linkVars, queueVars
<1>4. /\ appliedCommandSeq \in Nat
      /\ Len(ran) \in Nat /\ DOMAIN ran = 1..Len(ran)
      /\ \A i \in DOMAIN ran : ran[i].id \in Nat
  BY NodeNumbers DEF TypeInv
<1>5. /\ \A i \in DOMAIN unacked : unacked[i].seq \in Nat /\ unacked[i].cmd.id \in Nat
      /\ DOMAIN unacked \in SUBSET Nat /\ nextCommandSeq \in Nat
  BY QueueFrames DEF TypeInv
<1>6. r.id = m.cmd.id
  OBVIOUS
<1>7. Fresh(m)
  BY <1>1, <1>2, <1>4 DEF Fresh, Reached
<1> HIDE DEF r
<1>8. /\ DOMAIN ran' = 1..Len(ran) + 1 /\ ran'[Len(ran) + 1] = r
      /\ \A i \in 1..Len(ran) : ran'[i] = ran[i]
  BY <1>1 DEF TypeInv, AgentInv, AgentTypeOK
<1>9. \A i \in DOMAIN ran' : i \in DOMAIN ran \/ ran'[i] = r
  BY <1>4, <1>8
<1>10. m.cmd.id <= commandCount
  BY <1>2 DEF SentBetween
<1>11. \A j \in DOMAIN ran : ran[j].id < m.cmd.id
  BY <1>2, <1>7 DEF SentBetween
<1>12. coordinatorInstanceId = instanceId =>
          /\ hostInstanceId = agentId
          /\ \E k \in DOMAIN unacked : unacked[k].seq = m.seq /\ unacked[k].cmd = m.cmd
  BY <1>2, <1>7 DEF Recognised, FromQueue
<1> HIDE DEF m
<1>13. Recognised'
  BY <1>1, <1>2, <1>3 DEF Recognised, Shown
<1>14. Hellos'
  <2>1. (\A j \in DOMAIN toHost : ~Marked(toHost[j])) =>
           \A j \in DOMAIN toHost' : ~Marked(toHost'[j])
    BY <1>2 DEF Shown
  <2>2. ASSUME NEW i \in DOMAIN toCoord', toCoord'[i].t = "hello"
        PROVE  /\ toCoord'[i].inst <= agentId
               /\ toCoord'[i].inst # agentId =>
                     /\ coordinatorInstanceId = 0 /\ ~paired
                     /\ \A j \in DOMAIN toHost' : ~Marked(toHost'[j])
    <3>1. PICK k \in DOMAIN toCoord : toCoord'[i] = toCoord[k]
      BY <1>1, <2>2 DEF HeardOr
    <3>2. QED
      BY <2>1, <2>2, <3>1 DEF Hellos
  <2>3. QED
    BY <1>1, <1>3, <2>2 DEF Hellos
<1>15. Acknowledged'
  <2>1. /\ m.seq <= appliedCommandSeq' /\ appliedCommandSeq <= appliedCommandSeq'
        /\ appliedCommandSeq' \in Nat
    BY <1>1, <1>4
  <2>2. QED
    BY <1>1, <1>2, <1>3, <2>1, AcksRight
<1>16. Contiguous'
  <2>1. SUFFICES ASSUME hostInstanceId = agentId, coordinatorInstanceId = instanceId
                 PROVE  /\ appliedCommandSeq + 1 < nextCommandSeq
                        /\ \A s \in appliedCommandSeq + 1 + 1 .. nextCommandSeq - 1 :
                              \E i \in DOMAIN unacked : unacked[i].seq = s
    BY <1>1, <1>3 DEF Contiguous, Reached
  <2>2. appliedCommandSeq + 1 < nextCommandSeq
    BY <1>1, <1>12, <2>1 DEF QueueInOrder
  <2>3. \A s \in appliedCommandSeq + 1 .. nextCommandSeq - 1 :
           \E i \in DOMAIN unacked : unacked[i].seq = s
    BY <2>1 DEF Contiguous, Reached
  <2>4. \A s \in appliedCommandSeq + 1 + 1 .. nextCommandSeq - 1 :
           s \in appliedCommandSeq + 1 .. nextCommandSeq - 1
    BY <1>4, <1>5
  <2>5. QED
    BY <2>2, <2>3, <2>4
<1>17. RanFirst'
  <2>1. \A i \in DOMAIN ran' : ran'[i].id <= commandCount
    BY <1>6, <1>9, <1>8, <1>4, <1>10 DEF RanFirst
  <2>2. ASSUME NEW j \in DOMAIN unacked,
               unacked[j].seq > IF coordinatorInstanceId = instanceId
                                  THEN appliedCommandSeq + 1 ELSE 0
        PROVE  m.cmd.id < unacked[j].cmd.id
    <3>1. CASE coordinatorInstanceId = instanceId
      <4>1. PICK k \in DOMAIN unacked : unacked[k].seq = m.seq /\ unacked[k].cmd = m.cmd
        BY <1>12, <3>1
      <4>2. unacked[k].seq < unacked[j].seq
        BY <1>1, <2>2, <3>1, <4>1
      <4>3. ~(j < k) /\ j # k
        BY <1>5, <4>2 DEF QueueInOrder
      <4>4. k < j
        BY <1>5, <4>3
      <4>5. QED
        BY <4>1, <4>4 DEF QueueInOrder
    <3>2. CASE coordinatorInstanceId # instanceId
      BY <1>2, <3>2 DEF SentBetween, m
    <3>3. QED
      BY <3>1, <3>2
  <2>3. ASSUME NEW i \in DOMAIN ran', NEW j \in DOMAIN unacked,
               unacked[j].seq > IF coordinatorInstanceId = instanceId
                                  THEN appliedCommandSeq + 1 ELSE 0
        PROVE  ran'[i].id < unacked[j].cmd.id
    <3>1. m.cmd.id < unacked[j].cmd.id
      BY <2>2, <2>3
    <3>2. ran'[i].id <= m.cmd.id /\ ran'[i].id \in Nat
      BY <1>2, <1>4, <1>6, <1>8, <1>9, <1>11
    <3>3. QED
      BY <1>2, <1>5, <3>1, <3>2
  <2>4. QED
    BY <1>1, <1>3, <2>1, <2>3 DEF RanFirst, Reached
<1>18. \A i \in DOMAIN toHost' : toHost'[i].t = "command" =>
          \E k \in DOMAIN toHost :
             /\ toHost'[i] = toHost[k] /\ toHost[k].t = "command"
             /\ toHost[k].cmd.coord = coordinatorInstanceId
             /\ toHost[k].seq \in Nat /\ toHost[k].cmd.id \in Nat
             /\ toHost[k].seq > appliedCommandSeq + 1 =>
                   Fresh(toHost[k]) /\ m.seq < toHost[k].seq
  <2>1. SUFFICES ASSUME NEW i \in DOMAIN toHost', toHost'[i].t = "command"
                 PROVE  \E k \in DOMAIN toHost :
                           /\ toHost'[i] = toHost[k] /\ toHost[k].t = "command"
                           /\ toHost[k].cmd.coord = coordinatorInstanceId
                           /\ toHost[k].seq \in Nat /\ toHost[k].cmd.id \in Nat
                           /\ toHost[k].seq > appliedCommandSeq + 1 =>
                                 Fresh(toHost[k]) /\ m.seq < toHost[k].seq
    OBVIOUS
  <2>2. PICK k \in DOMAIN toHost : toHost'[i] = toHost[k]
    BY <1>2, <2>1 DEF Shown, Marked
  <2>3. /\ toHost[k].t = "command" /\ toHost[k].cmd.coord = coordinatorInstanceId
        /\ toHost[k].seq \in Nat /\ toHost[k].cmd.id \in Nat
    BY <1>2, <2>1, <2>2, CommandFrames DEF TypeInv
  <2>4. toHost[k].seq > appliedCommandSeq + 1 =>
           Fresh(toHost[k]) /\ m.seq < toHost[k].seq
    BY <1>1, <1>4, <2>3 DEF Fresh, Reached
  <2>5. QED
    BY <2>2, <2>3, <2>4
<1>19. FromQueue'
  <2>1. SUFFICES ASSUME NEW i \in DOMAIN toHost', toHost'[i].t = "command",
                        toHost'[i].cmd.coord = coordinatorInstanceId =>
                           toHost'[i].seq > appliedCommandSeq + 1,
                        toHost'[i].cmd.coord = instanceId
                 PROVE  \E j \in DOMAIN unacked :
                           /\ unacked[j].seq = toHost'[i].seq
                           /\ unacked[j].cmd = toHost'[i].cmd
    BY <1>1, <1>3 DEF FromQueue, Fresh, Reached
  <2>2. QED
    BY <1>18, <2>1 DEF FromQueue
<1>20. SentBetween'
  <2>1. SUFFICES ASSUME NEW i \in DOMAIN toHost', toHost'[i].t = "command"
                 PROVE  /\ toHost'[i].cmd.id <= commandCount
                        /\ toHost'[i].cmd.coord # instanceId =>
                              \A j \in DOMAIN unacked :
                                 toHost'[i].cmd.id < unacked[j].cmd.id
                        /\ (toHost'[i].cmd.coord = coordinatorInstanceId =>
                                toHost'[i].seq > appliedCommandSeq + 1) =>
                              \A j \in DOMAIN ran' : ran'[j].id < toHost'[i].cmd.id
    BY <1>1, <1>3 DEF SentBetween, Fresh, Reached
  <2>2. PICK k \in DOMAIN toHost :
             /\ toHost'[i] = toHost[k] /\ toHost[k].t = "command"
             /\ toHost[k].cmd.coord = coordinatorInstanceId
             /\ toHost[k].seq \in Nat /\ toHost[k].cmd.id \in Nat
             /\ toHost[k].seq > appliedCommandSeq + 1 =>
                   Fresh(toHost[k]) /\ m.seq < toHost[k].seq
    BY <1>18, <2>1
  <2>3. ASSUME toHost[k].seq > appliedCommandSeq + 1, NEW j \in DOMAIN ran'
        PROVE  ran'[j].id < toHost[k].cmd.id
    <3>1. m.cmd.id < toHost[k].cmd.id
      BY <1>2, <1>7, <2>2, <2>3 DEF SentInOrder, m
    <3>2. \A l \in DOMAIN ran : ran[l].id < toHost[k].cmd.id
      BY <2>2, <2>3 DEF SentBetween
    <3>3. QED
      BY <1>4, <1>6, <1>8, <1>9, <3>1, <3>2
  <2>4. QED
    BY <2>2, <2>3 DEF SentBetween
<1>21. SentInOrder'
  <2>1. SUFFICES ASSUME NEW i \in DOMAIN toHost', NEW j \in DOMAIN toHost',
                        toHost'[i].t = "command", toHost'[j].t = "command",
                        toHost'[i].cmd.coord = coordinatorInstanceId =>
                           toHost'[i].seq > appliedCommandSeq + 1,
                        toHost'[i].seq < toHost'[j].seq
                 PROVE  toHost'[i].cmd.id < toHost'[j].cmd.id
    BY <1>1 DEF SentInOrder, Fresh, Reached
  <2>2. PICK k \in DOMAIN toHost : toHost'[i] = toHost[k] /\ Fresh(toHost[k])
    BY <1>18, <2>1
  <2>3. PICK l \in DOMAIN toHost : toHost'[j] = toHost[l] /\ toHost[l].t = "command"
    BY <1>18, <2>1
  <2>4. QED
    BY <2>1, <2>2, <2>3 DEF SentInOrder
<1>22. AppliedOnce'
  <2>1. SUFFICES ASSUME NEW i \in DOMAIN ran', NEW j \in DOMAIN ran', i < j
                 PROVE  ran'[i].id < ran'[j].id
    BY DEF AppliedOnce
  <2>2. i \in 1..Len(ran)
    BY <1>4, <1>8, <2>1
  <2>3. CASE j \in 1..Len(ran)
    BY <1>4, <1>8, <2>1, <2>2, <2>3 DEF AppliedOnce
  <2>4. CASE j = Len(ran) + 1
    BY <1>4, <1>6, <1>8, <1>11, <2>2, <2>4
  <2>5. QED
    BY <1>4, <1>8, <2>3, <2>4
<1>23. QED
  BY <1>13, <1>14, <1>15, <1>16, <1>17, <1>19, <1>20, <1>21, <1>22
\* A new socket: its hello tells the coordinator the node and its numbers.
LEMMA ConnectCommands ==
    ASSUME TypeInv, TypeInv', CommandInv, DriverInv', QueueInOrder', Connect
    PROVE  CommandInv'
<1> USE DEF CommandInv
<1>1. /\ toHost' = <<>> /\ toCoord' = <<HelloMessage>>
      /\ UNCHANGED <<instanceId, hostInstanceId, unacked, nextCommandSeq, commandCount>>
      /\ UNCHANGED <<agentId, coordinatorInstanceId, appliedCommandSeq, ran>>
  BY DEF Connect, Attach, linkVars, queueVars, agentVars
<1>2. HelloMessage.t = "hello" /\ HelloMessage.inst = agentId
  BY DEF HelloMessage
<1>3. DOMAIN toHost' = {} /\ DOMAIN toCoord' = {1} /\ toCoord'[1] = HelloMessage
  BY <1>1
<1>4. Recognised' /\ Acknowledged'
  BY <1>1, <1>2, <1>3 DEF Recognised, Acknowledged
<1>5. Hellos'
  <2>1. agentId \in Nat
    BY NodeNumbers DEF TypeInv
  <2>2. QED
    BY <1>1, <1>2, <1>3, <2>1 DEF Hellos
<1>6. Contiguous' /\ RanFirst' /\ AppliedOnce'
  BY <1>1 DEF Contiguous, RanFirst, Reached, AppliedOnce
<1>7. FromQueue' /\ SentBetween' /\ SentInOrder'
  BY <1>3 DEF FromQueue, SentBetween, SentInOrder
<1>8. QED
  BY <1>4, <1>5, <1>6, <1>7

\* A new coordinator has queued nothing; what the old one sent is older.
LEMMA CoordinatorRestartCommands ==
    ASSUME TypeInv, TypeInv', CommandInv, DriverInv', QueueInOrder',
           CoordinatorRestart, UNCHANGED agentVars
    PROVE  CommandInv'
<1> USE DEF CommandInv
<1>1. /\ instanceId' = instanceId + 1 /\ hostInstanceId' = 0 /\ unacked' = <<>>
      /\ toCoord' = <<>> /\ UNCHANGED <<toHost, commandCount>>
      /\ UNCHANGED <<agentId, coordinatorInstanceId, appliedCommandSeq, ran>>
  BY DEF CoordinatorRestart, agentVars
<1>2. DOMAIN unacked' = {} /\ DOMAIN toCoord' = {}
  BY <1>1
<1>3. instanceId \in Nat /\ coordinatorInstanceId \in Nat /\ agentId \in Nat \ {0}
  BY NodeNumbers, QueueFrames DEF TypeInv
<1>4. coordinatorInstanceId # instanceId'
  BY <1>1, <1>3 DEF DriverInv, Ends
<1>5. \A i \in DOMAIN toHost : Marked(toHost[i]) => From(toHost[i]) # instanceId'
  BY <1>1, <1>3 DEF DriverInv, Sources
<1>6. \A i \in DOMAIN toHost : toHost[i].t = "command" =>
         toHost[i].cmd.coord # instanceId'
  BY <1>5 DEF Marked, From
<1>7. Recognised' /\ Hellos' /\ Acknowledged' /\ Contiguous'
  BY <1>1, <1>2, <1>3, <1>4, <1>5 DEF Recognised, Hellos, Acknowledged, Contiguous
<1>8. FromQueue'
  BY <1>1, <1>6 DEF FromQueue, Fresh
<1>9. RanFirst' /\ AppliedOnce'
  BY <1>1, <1>2 DEF RanFirst, AppliedOnce
<1>10. SentBetween'
  BY <1>1, <1>2 DEF SentBetween, Fresh, Reached
<1>11. SentInOrder'
  BY <1>1 DEF SentInOrder, Fresh, Reached
<1>12. QED
  BY <1>7, <1>8, <1>9, <1>10, <1>11

\* A new node has applied nothing, and the coordinator does not know it yet.
LEMMA NodeRestartCommands ==
    ASSUME TypeInv, TypeInv', CommandInv, DriverInv', QueueInOrder',
           NodeRestart, UNCHANGED managerVars
    PROVE  CommandInv'
<1> USE DEF CommandInv
<1>1. /\ agentId' = agentId + 1 /\ ~paired' /\ toHost' = <<>> /\ ran' = <<>>
      /\ coordinatorInstanceId' = 0 /\ UNCHANGED toCoord
      /\ UNCHANGED <<instanceId, hostInstanceId, unacked, nextCommandSeq, commandCount>>
  BY DEF NodeRestart, managerVars, linkVars, queueVars
<1>2. DOMAIN toHost' = {} /\ DOMAIN ran' = {}
  BY <1>1
<1>3. instanceId \in Nat \ {0} /\ agentId \in Nat /\ hostInstanceId \in Nat
  BY NodeNumbers, QueueFrames DEF TypeInv, ManagerTypeOK
<1>4. hostInstanceId # agentId' /\ hostInstanceId <= agentId'
  BY <1>1, <1>3 DEF Hellos
<1>5. ASSUME NEW i \in DOMAIN toCoord, toCoord[i].t = "hello"
      PROVE  toCoord[i].inst <= agentId' /\ toCoord[i].inst # agentId'
  <2>1. toCoord[i].inst \in Nat
    <3>1. toCoord[i] \in HostToCoordinator
      BY ElementOfSeq, LenProperties DEF TypeInv, WireTypeOK
    <3>2. toCoord[i] \in Hello
      BY <1>5, <3>1, CoordinatorFrame
    <3>3. QED
      BY <3>2 DEF Hello
  <2>2. toCoord[i].inst <= agentId
    BY <1>5 DEF Hellos
  <2>3. QED
    BY <1>1, <1>3, <2>1, <2>2
<1>6. Recognised' /\ Hellos'
  BY <1>1, <1>2, <1>3, <1>4, <1>5 DEF Recognised, Hellos
<1>7. Acknowledged' /\ Contiguous'
  BY <1>1, <1>4, <1>5 DEF Acknowledged, Contiguous
<1>8. FromQueue' /\ SentBetween' /\ SentInOrder'
  BY <1>2 DEF FromQueue, SentBetween, SentInOrder
<1>9. RanFirst' /\ AppliedOnce'
  BY <1>2 DEF RanFirst, AppliedOnce
<1>10. QED
  BY <1>6, <1>7, <1>8, <1>9

-----------------------------------------------------------------------------
(***************************************************************************)
(* CommandInv is kept by every step.                                       *)
(***************************************************************************)
\* The ways the wire changes that show nothing new.
LEMMA WireAside ==
    ASSUME WireTypeOK
    PROVE  /\ toHost' = toHost \/ toHost' = <<>> => Shown
           /\ toHost # <<>> /\ toHost' = Tail(toHost) => Shown
           /\ \A m : ~Marked(m) /\ CoordinatorSends(<<m>>) => Shown
           /\ toCoord' = toCoord \/ toCoord' = <<>> => Heard
<1>1. toHost' = toHost \/ toHost' = <<>> => Shown
  BY DEF Shown
<1>2. toCoord' = toCoord \/ toCoord' = <<>> => Heard
  BY DEF Heard
<1>3. ASSUME toHost # <<>>, toHost' = Tail(toHost) PROVE Shown
  <2>1. /\ Len(toHost) \in Nat \ {0}
        /\ DOMAIN toHost = 1..Len(toHost) /\ DOMAIN toHost' = 1..Len(toHost) - 1
        /\ \A i \in 1..Len(toHost) - 1 : toHost'[i] = toHost[i + 1]
    BY <1>3, HeadTailProperties, LenProperties, EmptySeq DEF WireTypeOK
  <2>2. \A i \in DOMAIN toHost' : i + 1 \in DOMAIN toHost /\ toHost'[i] = toHost[i + 1]
    BY <2>1
  <2>3. QED
    BY <2>2 DEF Shown
<1>4. ASSUME NEW m, ~Marked(m), CoordinatorSends(<<m>>) PROVE Shown
  <2>1. CASE toHost' = toHost
    BY <1>1, <2>1
  <2>2. CASE toHost' = toHost \o <<m>>
    <3>1. Passed(0)
      BY <1>4, <2>2, PassedKinds
    <3>2. \A i \in DOMAIN toHost' : i + 0 = i
      BY <2>2 DEF WireTypeOK
    <3>3. QED
      BY <3>1, <3>2 DEF Passed, Shown
  <2>3. QED
    BY <1>4, <2>1, <2>2 DEF CoordinatorSends
<1>5. QED
  BY <1>1, <1>2, <1>3, <1>4

LEMMA SessionsCommands ==
    ASSUME TypeInv, TypeInv', CommandInv, DriverInv', QueueInOrder', Sessions
    PROVE  CommandInv'
<1>1. ManagerTypeOK /\ WireTypeOK
  BY DEF TypeInv
<1>2. UNCHANGED <<agentId, coordinatorInstanceId, appliedCommandSeq, ran>>
  BY DEF Sessions, agentVars
<1>3. ASSUME NEW kind \in {"spawn", "control", "write_file"},
             NEW p \in Procs \cup {NoProc},
             (kind = "write_file" /\ p = NoProc) \/ (kind # "write_file" /\ p \in Procs),
             Enqueue(kind, p), UNCHANGED linkVars
      PROVE  CommandInv'
  <2> DEFINE cmd == [id |-> commandCount + 1, coord |-> instanceId,
                     kind |-> kind, proc |-> p]
             e == [seq |-> nextCommandSeq, cmd |-> cmd]
  <2>1. cmd \in Command
    BY <1>1, <1>3, BoundsAssumption DEF ManagerTypeOK, Command
  <2>2. e \in QueuedCommand /\ e.seq = nextCommandSeq /\ e.cmd.id = commandCount + 1
    BY <1>1, <2>1 DEF QueuedCommand, ManagerTypeOK
  <2>3. Queues(e)
    BY <1>3 DEF Enqueue
  <2>4. toHost' = toHost \/ online
    BY <1>3 DEF Enqueue
  <2> HIDE DEF e
  <2>5. Grows /\ UNCHANGED <<paired, toCoord, instanceId, hostInstanceId>>
    BY <1>3, <2>2, <2>3 DEF Grows, Queues, OnlySends, linkVars
  <2>6. toHost' = toHost \/ \E msgs \in Seq(CoordinatorToHost) : Sending(msgs)
    BY <1>1, <1>3, EnqueueSends
  <2>7. Heard
    BY <1>1, <2>5, WireAside
  <2>8. QED
    BY <1>2, <2>4, <2>5, <2>6, <2>7, OnlineKnown, SendsCommands
<1>4. ASSUME NEW p \in Procs, StartProcess(p) PROVE CommandInv'
  BY <1>3, <1>4 DEF StartProcess
<1>5. ASSUME NEW p \in Procs, Control(p) PROVE CommandInv'
  BY <1>3, <1>5 DEF Control
<1>6. ASSUME NEW p \in Procs, Adopt(p) PROVE CommandInv'
  <2>1. /\ UNCHANGED <<paired, toHost, toCoord, instanceId, hostInstanceId>>
        /\ UNCHANGED queueVars
    BY <1>6 DEF Adopt, wireVars, linkVars
  <2>2. Shown /\ Heard
    BY <1>1, <2>1, WireAside
  <2>3. QED
    BY <1>2, <2>1, <2>2, AsideCommands
<1>7. CASE WriteFileInOrder
  BY <1>3, <1>7 DEF WriteFileInOrder
<1>8. QED
  BY <1>4, <1>5, <1>6, <1>7 DEF Sessions

\* Abandon sends the queue to a node the coordinator knows.
LEMMA AbandonCommands ==
    ASSUME TypeInv, TypeInv', CommandInv, DriverInv', QueueInOrder', Abandon,
           UNCHANGED queueVars, Heard,
           UNCHANGED <<instanceId, hostInstanceId, agentId, coordinatorInstanceId,
                       appliedCommandSeq, ran, paired>>
    PROVE  CommandInv'
<1>1. toHost' = toHost \/ \E msgs \in Seq(CoordinatorToHost) : Sending(msgs)
  BY AbandonSends DEF TypeInv
<1>2. toHost' = toHost \/ online
  BY DEF Abandon
<1>3. QED
  BY <1>1, <1>2, OnlineKnown, SendsCommands

LEMMA DeliversCommands ==
    ASSUME TypeInv, TypeInv', CommandInv, DriverInv', QueueInOrder', ManagerDelivers
    PROVE  CommandInv'
<1>1. UNCHANGED agentVars
      /\ UNCHANGED <<agentId, coordinatorInstanceId, appliedCommandSeq, ran>>
  BY DEF ManagerDelivers, agentVars
<1>2. WireTypeOK
  BY DEF TypeInv
<1>3. CASE ReceiveHello
  BY <1>1, <1>3, HelloCommands
<1>4. CASE ReceiveEvent
  <2>1. /\ UNCHANGED <<paired, toHost, instanceId, hostInstanceId>>
        /\ UNCHANGED queueVars /\ toCoord # <<>> /\ toCoord' = Tail(toCoord)
    BY <1>4 DEF ReceiveEvent, ManagerReceives, ManagerConsumes, linkVars
  <2>2. Shown /\ Heard
    BY <1>2, <2>1, WireAside, TailHeard
  <2>3. QED
    BY <1>1, <2>1, <2>2, AsideCommands
<1>5. CASE ReceiveCommandAck
  <2>1. /\ UNCHANGED <<paired, toHost, instanceId, hostInstanceId, nextCommandSeq,
                       commandCount>>
        /\ toCoord # <<>> /\ toCoord' = Tail(toCoord) /\ Head(toCoord).t = "command_ack"
    BY <1>5 DEF ReceiveCommandAck, ManagerReceives, ManagerConsumes, linkVars
  <2>2. /\ Heard /\ Head(toCoord) = toCoord[1] /\ 1 \in DOMAIN toCoord
        /\ toCoord[1] \in HostToCoordinator
    BY <1>2, <2>1, TailHeard
  <2>3. toCoord[1].seq \in Nat
    BY <2>1, <2>2, CoordinatorFrame DEF CommandAck
  <2> DEFINE I == {i \in DOMAIN unacked : unacked[i].seq > Head(toCoord).seq}
  <2>4. PICK r \in Filtered(unacked, I) : unacked' = r
    BY <1>5 DEF ReceiveCommandAck
  <2>5. I \in SUBSET DOMAIN unacked
    OBVIOUS
  <2>6. \/ hostInstanceId # agentId
        \/ \A k \in DOMAIN unacked : unacked[k].seq > Reached(instanceId) => k \in I
    <3>1. CASE hostInstanceId = agentId
      <4>1. Reached(instanceId) \in Nat /\ toCoord[1].seq <= Reached(instanceId)
        BY <2>1, <2>2, <3>1, NodeNumbers DEF CommandInv, Acknowledged, Reached, TypeInv
      <4>2. \A k \in DOMAIN unacked : unacked[k].seq \in Nat
        BY QueueFrames DEF TypeInv
      <4>3. QED
        BY <2>2, <2>3, <4>1, <4>2
    <3>2. QED
      BY <3>1
  <2> HIDE DEF I
  <2>7. QED
    BY <1>1, <2>1, <2>2, <2>4, <2>5, <2>6, DropsCommands
<1>6. CASE ReceiveUpdateFailed
  <2>1. /\ UNCHANGED <<paired, instanceId, hostInstanceId>>
        /\ UNCHANGED queueVars /\ toCoord # <<>> /\ toCoord' = Tail(toCoord)
    BY <1>6 DEF ReceiveUpdateFailed, ManagerReceives, ManagerConsumes, linkVars
  <2>2. Heard
    BY <1>2, <2>1, TailHeard
  <2>3. CASE toHost' = toHost
    <3>1. Shown
      BY <1>2, <2>3, WireAside
    <3>2. QED
      BY <1>1, <2>1, <2>2, <2>3, <3>1, AsideCommands
  <2>4. CASE Abandon
    BY <1>1, <2>1, <2>2, <2>4, AbandonCommands
  <2>5. QED
    BY <1>6, <2>3, <2>4 DEF ReceiveUpdateFailed
<1>7. QED
  BY <1>3, <1>4, <1>5, <1>6 DEF ManagerDelivers

LEMMA UpdatesCommands ==
    ASSUME TypeInv, TypeInv', CommandInv, DriverInv', QueueInOrder',
           Flush \/ Updates \/ TimesOut
    PROVE  CommandInv'
<1>1. UNCHANGED <<agentId, coordinatorInstanceId, appliedCommandSeq, ran>>
  BY DEF Flush, Updates, TimesOut, agentVars
<1>2. WireTypeOK
  BY DEF TypeInv
<1>3. CASE Flush
  <2>1. PICK p \in Procs : FlushAck(p)
    BY <1>3 DEF Flush
  <2> DEFINE m == [t |-> "event_ack", proc |-> p, seq |-> pendingAcks[p]]
  <2>2. ~Marked(m)
    BY DEF Marked
  <2>3. CoordinatorSends(<<m>>)
    BY <2>1 DEF FlushAck
  <2>4. /\ UNCHANGED <<paired, toCoord, instanceId, hostInstanceId>>
        /\ UNCHANGED queueVars
    BY <2>1 DEF FlushAck, OnlySends, linkVars
  <2> HIDE DEF m
  <2>5. Shown /\ Heard
    BY <1>2, <2>2, <2>3, <2>4, WireAside
  <2>6. QED
    BY <1>1, <2>4, <2>5, AsideCommands
<1>4. CASE AskUpdate \/ PrepareFails
  <2>1. /\ UNCHANGED <<paired, toHost, toCoord, instanceId, hostInstanceId>>
        /\ UNCHANGED queueVars
    BY <1>4 DEF AskUpdate, PrepareFails, wireVars, linkVars
  <2>2. Shown /\ Heard
    BY <1>2, <2>1, WireAside
  <2>3. QED
    BY <1>1, <2>1, <2>2, AsideCommands
<1>5. ASSUME NEW inst \in asking, NEW ready \in BOOLEAN, FinishAsk(inst, ready)
      PROVE  CommandInv'
  <2> DEFINE m == [t |-> "update"]
  <2>1. ~Marked(m)
    BY DEF Marked
  <2>2. toHost' = toHost \/ CoordinatorSends(<<m>>)
    BY <1>5 DEF FinishAsk
  <2>3. /\ UNCHANGED <<paired, toCoord, instanceId, hostInstanceId>>
        /\ UNCHANGED queueVars
    BY <1>5 DEF FinishAsk, OnlySends, linkVars
  <2> HIDE DEF m
  <2>4. Shown /\ Heard
    BY <1>2, <2>1, <2>2, <2>3, WireAside
  <2>5. QED
    BY <1>1, <2>3, <2>4, AsideCommands
<1>6. CASE TimesOut
  <2>1. /\ UNCHANGED <<paired, toCoord, instanceId, hostInstanceId>>
        /\ UNCHANGED queueVars /\ Abandon
    BY <1>6 DEF TimesOut, UpdateTimeout, OnlySends, linkVars
  <2>2. Heard
    BY <1>2, <2>1, WireAside
  <2>3. QED
    BY <1>1, <2>1, <2>2, AbandonCommands
<1>7. QED
  BY <1>3, <1>4, <1>5, <1>6 DEF Updates
\* Events are neither a hello nor an acknowledgement.
LEMMA EventsHeard ==
    ASSUME WireTypeOK, NEW S, NEW p, NEW first, NEW events \in Seq(S),
           toCoord' = toCoord \/ HostSends(EventMessages(p, first, events))
    PROVE  Heard
<1> DEFINE msg(i) == [t |-> "event", proc |-> p,
                      seq |-> first + i - 1, event |-> events[i]]
           msgs == [i \in 1..Len(events) |-> msg(i)]
           T == {msg(i) : i \in 1..Len(events)}
<1>1. DOMAIN events = 1..Len(events) /\ Len(events) \in Nat
  OBVIOUS
<1>2. EventMessages(p, first, events) = msgs
  BY <1>1 DEF EventMessages
<1>3. \A i \in 1..Len(events) : msg(i) \in T /\ msg(i).t = "event"
  OBVIOUS
<1> HIDE DEF msg, T
<1>4. msgs \in Seq(T) /\ \A i \in DOMAIN msgs : msgs[i].t = "event"
  BY <1>1, <1>3
<1> HIDE DEF msgs
<1>5. CASE HostSends(msgs)
  BY <1>4, <1>5, ReportsHeard
<1>6. CASE toCoord' = toCoord
  BY <1>6, WireAside
<1>7. QED
  BY <1>2, <1>5, <1>6

LEMMA AgentCommands ==
    ASSUME TypeInv, TypeInv', CommandInv, DriverInv', QueueInOrder',
           AgentDelivers \/ Replays \/ HostRuns
    PROVE  CommandInv'
<1>1. UNCHANGED managerVars /\ UNCHANGED <<instanceId, hostInstanceId>>
      /\ UNCHANGED queueVars
  BY DEF AgentDelivers, Replays, HostRuns, managerVars, linkVars
<1>2. WireTypeOK
  BY DEF TypeInv
<1>3. CASE ReceiveEventAck \/ ReceiveUpdate
  <2>1. /\ toHost # <<>> /\ toHost' = Tail(toHost) /\ UNCHANGED <<paired, toCoord>>
        /\ UNCHANGED <<agentId, coordinatorInstanceId, appliedCommandSeq, ran>>
    BY <1>3 DEF ReceiveEventAck, ReceiveUpdate, AgentReceives, AgentConsumes
  <2>2. Shown /\ Heard
    BY <1>2, <2>1, WireAside
  <2>3. QED
    BY <1>1, <2>1, <2>2, AsideCommands
<1>4. CASE RefuseWelcome
  <2>1. /\ toHost' = <<>> /\ ~paired' /\ UNCHANGED toCoord
        /\ UNCHANGED <<agentId, coordinatorInstanceId, appliedCommandSeq, ran>>
    BY <1>4 DEF RefuseWelcome, HostLetsGo, agentVars
  <2>2. Shown /\ Heard
    BY <1>2, <2>1, WireAside
  <2>3. QED
    BY <1>1, <2>1, <2>2, AsideCommands
<1>5. CASE AgentDelivers
  BY <1>1, <1>3, <1>4, <1>5, WelcomeCommands, NextCommands, OldCommands
     DEF AgentDelivers
<1>6. ASSUME NEW S, NEW p, NEW first, NEW events \in Seq(S),
             toCoord' = toCoord \/ HostSends(EventMessages(p, first, events)),
             UNCHANGED <<paired, toHost>>,
             UNCHANGED <<agentId, coordinatorInstanceId, appliedCommandSeq, ran>>
      PROVE  CommandInv'
  <2>1. Shown /\ Heard
    BY <1>2, <1>6, WireAside, EventsHeard
  <2>2. QED
    BY <1>1, <1>6, <2>1, AsideCommands
<1>7. CASE Replays
  <2>1. PICK p \in Procs : Replay(p)
    BY <1>7 DEF Replays
  <2>2. pending[p] \in Seq(Event)
    BY DEF TypeInv, AgentInv, AgentTypeOK
  <2>3. /\ HostSends(EventMessages(p, FirstPending(p), pending[p]))
        /\ UNCHANGED <<paired, toHost>>
        /\ UNCHANGED <<agentId, coordinatorInstanceId, appliedCommandSeq, ran>>
    BY <2>1 DEF Replay, OnlyReports
  <2>4. QED
    BY <1>6, <2>2, <2>3
<1>8. CASE HostRuns
  <2>1. ASSUME NEW p \in Procs, NEW S, NEW events \in Seq(S), Emit(p, events)
        PROVE  CommandInv'
    <3>1. /\ toCoord' = toCoord \/ HostSends(EventMessages(p, nextSeq[p], events))
          /\ UNCHANGED <<paired, toHost>>
          /\ UNCHANGED <<agentId, coordinatorInstanceId, appliedCommandSeq, ran>>
      BY <2>1 DEF Emit, OnlyReports
    <3>2. QED
      BY <1>6, <2>1, <3>1
  <2>2. ASSUME NEW p \in Procs, NEW x, Emit(p, <<x>>) PROVE CommandInv'
    <3>1. <<x>> \in Seq({x})
      OBVIOUS
    <3>2. QED
      BY <2>1, <2>2, <3>1
  <2>3. ASSUME NEW p \in Procs, ProcessSpawned(p) \/ ProcessExit(p) \/ ProcessOutput(p)
        PROVE  CommandInv'
    BY <2>2, <2>3 DEF ProcessSpawned, ProcessExit, ProcessOutput
  <2>4. ASSUME NEW p \in Procs, ProcessFails(p) PROVE CommandInv'
    <3>1. CannotStart \in Seq({Plain("error"), Plain("exit")})
      BY DEF CannotStart
    <3>2. QED
      BY <2>1, <2>4, <3>1 DEF ProcessFails
  <2>5. CASE UpdateFails
    <3> DEFINE m == [t |-> "update_failed"]
    <3>1. HostSends(<<m>>) /\ UNCHANGED <<paired, toHost>>
          /\ UNCHANGED <<agentId, coordinatorInstanceId, appliedCommandSeq, ran>>
      BY <2>5 DEF UpdateFails, OnlyReports
    <3>2. m.t = "update_failed"
      OBVIOUS
    <3> HIDE DEF m
    <3>3. <<m>> \in Seq({m}) /\ \A i \in DOMAIN <<m>> : <<m>>[i] = m
      OBVIOUS
    <3>4. Heard
      BY <1>2, <3>1, <3>2, <3>3, ReportsHeard
    <3>5. Shown
      BY <1>2, <3>1, WireAside
    <3>6. QED
      BY <1>1, <3>1, <3>4, <3>5, AsideCommands
  <2>6. QED
    BY <1>8, <2>3, <2>4, <2>5 DEF HostRuns
<1>9. QED
  BY <1>5, <1>7, <1>8

LEMMA SocketsCommands ==
    ASSUME TypeInv, TypeInv', CommandInv, DriverInv', QueueInOrder',
           \/ LinkBreaks \/ LinkNoticed
           \/ SocketBreaks \/ SocketNoticed
           \/ UNCHANGED vars
    PROVE  CommandInv'
<1>1. /\ paired' => paired
      /\ toHost' = toHost \/ toHost' = <<>>
      /\ toCoord' = toCoord \/ toCoord' = <<>>
      /\ UNCHANGED <<instanceId, hostInstanceId, agentId, coordinatorInstanceId,
                     appliedCommandSeq, ran>>
      /\ UNCHANGED queueVars
  <2>1. CASE LinkBreaks \/ LinkNoticed
    BY <2>1 DEF LinkBreaks, LinkNoticed, LinkDown, CoordinatorLetsGo, agentVars
  <2>2. CASE SocketBreaks \/ SocketNoticed
    BY <2>2 DEF SocketBreaks, SocketNoticed, SocketDown, HostLetsGo, agentVars,
       managerVars, linkVars
  <2>3. CASE UNCHANGED vars
    BY <2>3 DEF vars, wireVars, managerVars, linkVars, agentVars
  <2>4. QED
    BY <2>1, <2>2, <2>3
<1>2. Shown /\ Heard
  BY <1>1, WireAside DEF TypeInv
<1>3. QED
  BY <1>1, <1>2, AsideCommands

LEMMA ReleaseCommands ==
    ASSUME TypeInv, TypeInv', CommandInv, DriverInv', QueueInOrder', NodeReleased
    PROVE  CommandInv'
<1>1. /\ UNCHANGED <<instanceId, hostInstanceId, agentId, coordinatorInstanceId,
                     appliedCommandSeq, ran, paired, toHost, toCoord,
                     nextCommandSeq, commandCount>>
      /\ hostInstanceId # agentId
  BY DEF NodeReleased, Release, wireVars, linkVars, agentVars
<1>2. Heard
  BY <1>1, WireAside DEF TypeInv
<1> DEFINE I == {i \in DOMAIN unacked : unacked[i].cmd.proc = NoProc}
<1>3. PICK r \in Filtered(unacked, I) : unacked' = r
  BY DEF NodeReleased, Release
<1>4. I \in SUBSET DOMAIN unacked
  OBVIOUS
<1> HIDE DEF I
<1>5. QED
  BY <1>1, <1>2, <1>3, <1>4, DropsCommands

LEMMA InitCommands == Init => CommandInv
<1> SUFFICES ASSUME Init PROVE CommandInv
  OBVIOUS
<1>1. DriverInv /\ QueueInOrder
  BY InitDrives, InitOrdered
<1> USE DEF Init, WireInit, ManagerInit, AgentInit
<1>2. Recognised /\ Hellos /\ Acknowledged /\ Contiguous
  BY DEF Recognised, Hellos, Acknowledged, Contiguous
<1>3. FromQueue /\ RanFirst /\ SentBetween /\ SentInOrder /\ AppliedOnce
  BY DEF FromQueue, RanFirst, SentBetween, SentInOrder, AppliedOnce
<1>4. QED
  BY <1>1, <1>2, <1>3 DEF CommandInv

LEMMA NextKeepsCommands ==
    ASSUME Punctual
    PROVE  TypeInv /\ CommandInv /\ [Next]_vars => CommandInv'
<1> SUFFICES ASSUME TypeInv, CommandInv, [Next]_vars PROVE CommandInv'
  OBVIOUS
<1>1. TypeInv' /\ DriverInv' /\ QueueInOrder'
  BY NextTyped, NextDrives, NextOrdered DEF CommandInv
<1>2. CASE Restarts
  BY <1>1, <1>2, CoordinatorRestartCommands, NodeRestartCommands DEF Restarts
<1>3. QED
  BY <1>1, <1>2, ConnectCommands, SocketsCommands, ReleaseCommands, SessionsCommands,
     DeliversCommands, UpdatesCommands, AgentCommands DEF Next

\* The two numbers of a joined pair are Reached and the next of the queue.
LEMMA NothingMissing == CommandInv => NoCommandGap
  BY DEF CommandInv, Contiguous, NoCommandGap, Joined, Reached

LEMMA CommandsHold ==
    ASSUME Punctual
    PROVE  Spec => [](TypeInv /\ CommandInv)
<1>1. Init => TypeInv /\ CommandInv
  BY InitTyped, InitCommands
<1>2. TypeInv /\ CommandInv /\ [Next]_vars => (TypeInv /\ CommandInv)'
  BY NextTyped, NextKeepsCommands
<1>3. QED
  BY <1>1, <1>2, PTL DEF Spec

(***************************************************************************)
(* AppliedOnce for every number of processes, commands, node and           *)
(* coordinator instances: whatever handleHello and abandonUpdate resend    *)
(* or renumber, handleCommand applies the commands in the order sessions   *)
(* enqueued them and none twice.                                           *)
(***************************************************************************)
THEOREM EachAppliedOnce ==
    ASSUME Punctual
    PROVE  Spec => []AppliedOnce
<1>1. CommandInv => AppliedOnce
  BY DEF CommandInv
<1>2. QED
  BY <1>1, CommandsHold, PTL

(***************************************************************************)
(* NoCommandGap for every value of the constants: acknowledgements,        *)
(* dropped commands and renumbering never lose a command the node waits    *)
(* for, so the next hello can have it resent.                              *)
(***************************************************************************)
THEOREM NoneMissing ==
    ASSUME Punctual
    PROVE  Spec => []NoCommandGap
<1>1. QED
  BY NothingMissing, CommandsHold, PTL
=============================================================================
