-------------------------- MODULE HostOutputProofs --------------------------
(***************************************************************************)
(* Theorems about the output of HostLink: what the node keeps of its       *)
(* processes' events, what the coordinator has read of them, and which     *)
(* processes each end holds.  They hold in the setting of the commands in  *)
(* HostLinkProofs (Punctual).                                              *)
(***************************************************************************)
EXTENDS HostLinkProofs

-----------------------------------------------------------------------------
(***************************************************************************)
(* What a node keeps of its processes.  `all` tells whether the end of a   *)
(* failed start is always read before the node's (EndsRead below).         *)
(***************************************************************************)
\* A process begins with "spawned" or an error, and its last event is "exit".
Shape(all) == \A p \in Procs :
    /\ phase[p] \in {"absent", "starting"} => nextSeq[p] = 1 /\ unfinishedLine[p] = {}
    /\ \A i \in DOMAIN pending[p] :
         /\ pending[p][i].kind = "spawned" =>
               i = 1 /\ FirstPending(p) = 1 /\ unfinishedLine[p] = {}
         /\ pending[p][i].kind = "exit" => phase[p] = "exited"
         /\ all /\ phase[p] = "exited" /\ pending[p][i].kind # "exit" =>
               i < Len(pending[p])
    /\ all /\ phase[p] = "exited" => pending[p] # <<>>

\* Processes come from a coordinator.
Parented ==
    /\ coordinatorInstanceId = 0 => Hosted = {}
    /\ replaying \subseteq Hosted

-----------------------------------------------------------------------------
(***************************************************************************)
(* Who knows whom.                                                         *)
(***************************************************************************)
\* The node has not taken the running coordinator.
Foreign == coordinatorInstanceId # instanceId

\* The coordinator knows the running node, or its hello is on its way.
Known == hostInstanceId = agentId
Greeted == \E i \in DOMAIN toCoord : toCoord[i].t = "hello" /\ toCoord[i].inst = agentId
Near == Known \/ Greeted

\* A hello is the first frame of its socket, before anything is confirmed.
HelloFirst ==
    /\ \A i \in DOMAIN toCoord : toCoord[i].t = "hello" =>
         /\ i = 1 /\ toCoord[i].inst # 0
         /\ \A p \in Procs : pendingAcks[p] = 0
         /\ \A j \in DOMAIN toHost : toHost[j].t \notin {"welcome", "event_ack"}
    /\ linkSocket /\ ~online => toCoord # <<>> /\ toCoord[1].t = "hello"
    /\ ~linkSocket => toCoord = <<>> /\ \A p \in Procs : pendingAcks[p] = 0

\* The hello of a node that has not taken this coordinator names its processes.
HelloLists ==
    \A i \in DOMAIN toCoord :
        toCoord[i].t = "hello" /\ toCoord[i].inst = agentId /\ Foreign => toCoord[i].procs = Hosted

\* A node that replaced the one the coordinator knows has nothing yet.
Replaced ==
    hostInstanceId \notin {0, agentId} =>
        coordinatorInstanceId = 0 /\ \A i \in DOMAIN toHost : ~Marked(toHost[i])

\* A coordinator has read nothing before its first hello, and talks to no other's
\* node afterwards.
Unmet == hostInstanceId = 0 => ~online /\ \A p \in Procs : lastEventSeq[p] = 0
Fellow ==
    hostInstanceId # 0 =>
       /\ \A i \in DOMAIN toHost : Marked(toHost[i]) => From(toHost[i]) = instanceId
       /\ Foreign => \A i \in DOMAIN toHost : toHost[i].t = "event_ack" =>
             \E j \in 1..i - 1 : toHost[j].t = "welcome"
OneWelcome ==
    \A i, j \in DOMAIN toHost : toHost[i].t = "welcome" /\ toHost[j].t = "welcome" => i = j

MeetInv == HelloFirst /\ HelloLists /\ Replaced /\ Unmet /\ Fellow /\ OneWelcome

-----------------------------------------------------------------------------
(***************************************************************************)
(* Processes and the commands that spawn them.                             *)
(***************************************************************************)
\* Where events of p are on their way.
Reports(p) == {i \in DOMAIN toCoord : toCoord[i].t = "event" /\ toCoord[i].proc = p}

\* A command that spawns p, and a frame that carries one.
Spawns(c, p) == c.kind = "spawn" /\ c.proc = p
Carries(m, p) == m.t = "command" /\ Spawns(m.cmd, p)

\* Nothing is known of a process that was never given out.
Unused ==
    \A p \in Procs \ used :
        /\ remote[p] = "none" /\ p \notin adoptable /\ p \notin Hosted /\ Reports(p) = {}
        /\ pendingAcks[p] = 0
        /\ \A i \in DOMAIN toHost :
             /\ toHost[i].t = "event_ack" => toHost[i].proc # p
             /\ toHost[i].t = "welcome" => p \notin toHost[i].listed
             /\ ~Carries(toHost[i], p)
        /\ \A i \in DOMAIN unacked : ~Spawns(unacked[i].cmd, p)

\* Only a live process has started, and only of one the coordinator has read.
LiveOnly ==
    /\ started \subseteq Live
    /\ \A p \in Procs : p \notin Live => lastEventSeq[p] = 0
    /\ \A p \in adoptable : remote[p] = "none"

\* A process that this coordinator spawns is no other coordinator's.
Separate ==
    /\ \A i \in DOMAIN toHost, p \in Live \ started :
          Carries(toHost[i], p) => toHost[i].cmd.coord = instanceId
    /\ Foreign => Hosted \cap (Live \ started) = {}
    /\ \A i \in DOMAIN unacked, p \in Procs : Spawns(unacked[i].cmd, p) =>
         /\ p \notin adoptable
         /\ hostInstanceId = 0 => p \notin started
         /\ \A j \in DOMAIN unacked : Spawns(unacked[j].cmd, p) => i = j

\* A process that is yet to be spawned is live and has done nothing.
Unspawned(all) ==
    Known => \A i \in DOMAIN unacked, p \in Procs :
        Spawns(unacked[i].cmd, p) /\ unacked[i].seq > Reached(instanceId) =>
            /\ p \in Live /\ p \notin started /\ p \notin Hosted /\ Reports(p) = {}
            /\ all => lastEventSeq[p] = 0

SpawnInv(all) == Unused /\ LiveOnly /\ Separate /\ Unspawned(all)

-----------------------------------------------------------------------------
(***************************************************************************)
(* What the two ends know of each other's numbers.                         *)
(***************************************************************************)
\* The coordinator has read nothing of p, or all up to lastEventSeq[p].  Only
\* the number that a failed start left behind may be wrong.
Counted(p, all) == p \in Live /\ (all \/ p \in started \/ lastEventSeq[p] = 0)

\* A welcome lists what runs and what is yet to be spawned, and has not confirmed
\* what was not read.
Welcomed(all) ==
    \A i \in DOMAIN toHost : toHost[i].t = "welcome" =>
        /\ \A j \in 1..i - 1, p \in Procs :
              Carries(toHost[j], p) /\ Fresh(toHost[j]) =>
                 p \in toHost[i].listed /\ (all => toHost[i].received[p] = 0)
        /\ all /\ toHost[i].coord = coordinatorInstanceId =>
              \A p \in toHost[i].listed \cap Hosted :
                 /\ toHost[i].received[p] < nextSeq[p]
                 /\ phase[p] = "exited" => toHost[i].received[p] + 1 < nextSeq[p]
        /\ toHost[i].coord = instanceId =>
              /\ \A p \in toHost[i].listed \cap Hosted : phase[p] # "exited" => p \in Live
              /\ \A p \in toHost[i].listed :
                    Counted(p, all) => toHost[i].received[p] <= lastEventSeq[p]
              /\ all => \A p \in Live \ toHost[i].listed :
                    p \notin Hosted /\ p \notin started /\ lastEventSeq[p] = 0

\* Nothing is confirmed that was not read.
Acked(all) ==
    /\ \A p \in Procs : Counted(p, all) => pendingAcks[p] <= lastEventSeq[p]
    /\ \A i \in DOMAIN toHost : toHost[i].t = "event_ack" =>
         /\ toHost[i].seq # 0
         /\ hostInstanceId # 0 /\ Counted(toHost[i].proc, all) =>
               toHost[i].seq <= lastEventSeq[toHost[i].proc]

\* The first event has number 1, and one that says that a process ended is true.
Numbered ==
    \A i \in DOMAIN toCoord : toCoord[i].t = "event" =>
        /\ toCoord[i].seq # 0
        /\ toCoord[i].event.kind = "spawned" => toCoord[i].seq = 1
        /\ Near /\ toCoord[i].event.kind = "exit" =>
               phase[toCoord[i].proc] \in {"absent", "exited"}

\* The node gave out the number of frame i, and as its last only that of "exit".
Given(p, i, all) ==
    /\ toCoord[i].seq < nextSeq[p]
    /\ all /\ phase[p] = "exited" /\ toCoord[i].event.kind # "exit" =>
          toCoord[i].seq + 1 < nextSeq[p]

\* Frame i has an old number, and comes before the first one with a new number.
Dead(p, i) == lastEventSeq[p] = 0 /\ \A k \in Reports(p) : k <= i => toCoord[k].seq # 1

\* Numbers a node gave out for another coordinator mean the same to this one when
\* they begin with 1.
BeforeAdoption(all) ==
    Foreign /\ Near =>
       \A p \in Procs : \A i \in Reports(p) :
          p \in Hosted /\ FirstPending(p) <= toCoord[i].seq /\ Given(p, i, all)
ReadEarly(all) ==
    Foreign /\ Known =>
       \A p \in Hosted : Counted(p, all) /\ lastEventSeq[p] # 0 =>
          FirstPending(p) = 1 /\ lastEventSeq[p] < nextSeq[p]

\* Once the node has taken the coordinator, it keeps what was not read.
InStep(all) ==
    Joined =>
       \A p \in Hosted : Counted(p, all) =>
          /\ FirstPending(p) <= lastEventSeq[p] + 1 /\ lastEventSeq[p] < nextSeq[p]
          /\ \A i \in Reports(p) : Dead(p, i) \/ Given(p, i, all)

\* What runs is tracked.
Attended == Joined => \A p \in Hosted : phase[p] # "exited" => p \in Live

\* What has started is on the node, and its end is not read.
Present ==
    Known =>
       /\ started \subseteq Hosted
       /\ \A p \in Live \ Hosted : Reports(p) = {}
       /\ \A p \in Live \cap Hosted : phase[p] = "exited" => lastEventSeq[p] + 1 < nextSeq[p]

NumberInv(all) ==
    /\ Welcomed(all) /\ Acked(all) /\ Numbered /\ BeforeAdoption(all) /\ ReadEarly(all)
    /\ InStep(all) /\ Attended /\ (all => Present)

OutputInv(all) ==
    Shape(all) /\ Parented /\ MeetInv /\ SpawnInv(all) /\ NumberInv(all)

-----------------------------------------------------------------------------
(***************************************************************************)
(* Steps that leave the processes alone.                                   *)
(***************************************************************************)
\* Events and hellos stay in the order they had, and go only with the socket.
CoordCarried(d) ==
    /\ \A i \in DOMAIN toCoord' : toCoord'[i].t \in {"hello", "event"} =>
          i + d \in DOMAIN toCoord /\ toCoord'[i] = toCoord[i + d]
    /\ linkSocket' => \A j \in DOMAIN toCoord : toCoord[j].t = "hello" =>
          j - d \in DOMAIN toCoord' /\ toCoord'[j - d] = toCoord[j]
    /\ ~linkSocket' => toCoord' = <<>>

\* So do the frames to the node, unless all go; only queued commands come behind.
HostCarried(e) ==
    /\ \A i \in DOMAIN toHost' : toHost'[i].t \in {"welcome", "command", "event_ack"} =>
          \/ i + e \in DOMAIN toHost /\ toHost'[i] = toHost[i + e]
          \/ /\ toHost'[i].t = "command" /\ i + e > Len(toHost)
             /\ \E k \in DOMAIN unacked' :
                   unacked'[k].seq = toHost'[i].seq /\ unacked'[k].cmd = toHost'[i].cmd
    /\ \/ toHost' = <<>>
       \/ \A j \in DOMAIN toHost : toHost[j].t = "welcome" =>
             j - e \in DOMAIN toHost' /\ toHost'[j - e] = toHost[j]

\* No process, and no end's identity, changes; no spawn is queued.
Quiet ==
    /\ UNCHANGED <<instanceId, hostInstanceId, agentId, coordinatorInstanceId>>
    /\ UNCHANGED <<remote, started, lastEventSeq, used, adoptable>>
    /\ UNCHANGED <<phase, nextSeq, pending, unfinishedLine, replaying>>
    /\ appliedCommandSeq <= appliedCommandSeq'
    /\ pendingAcks' = pendingAcks \/ pendingAcks' = [p \in Procs |-> 0]
    /\ linkSocket' => linkSocket /\ online' = online
    /\ ~linkSocket' => ~online' /\ pendingAcks' = [p \in Procs |-> 0]
    /\ \E d \in Nat : CoordCarried(d)
    /\ \E e \in Nat : HostCarried(e)
    /\ \A k \in DOMAIN unacked', p \in Procs : Spawns(unacked'[k].cmd, p) =>
          \E j \in DOMAIN unacked : unacked[j] = unacked'[k]

\* The part of it that the acquaintance of the two ends rests on.
HelloCarried(d) ==
    /\ \A i \in DOMAIN toCoord' : toCoord'[i].t = "hello" =>
          i + d \in DOMAIN toCoord /\ toCoord'[i] = toCoord[i + d]
    /\ linkSocket' => \A j \in DOMAIN toCoord : toCoord[j].t = "hello" =>
          j - d \in DOMAIN toCoord' /\ toCoord'[j - d] = toCoord[j]
    /\ ~linkSocket' => toCoord' = <<>>
Meets ==
    /\ UNCHANGED <<instanceId, hostInstanceId, agentId, coordinatorInstanceId>>
    /\ Foreign /\ Greeted => Hosted' = Hosted
    /\ hostInstanceId = 0 => \A p \in Procs : lastEventSeq'[p] = 0
    /\ ~linkSocket' \/ (\E i \in DOMAIN toCoord : toCoord[i].t = "hello") =>
          \A p \in Procs : pendingAcks'[p] = 0
    /\ linkSocket' => linkSocket /\ online' = online
    /\ ~linkSocket' => ~online'
    /\ \E d \in Nat : HelloCarried(d)
    /\ \E e \in Nat : HostCarried(e)

LEMMA MeetsKept ==
    ASSUME TypeInv, TypeInv', CommandInv, CommandInv', MeetInv, Meets
    PROVE  MeetInv'
<1> USE DEF MeetInv
<1>1. PICK d \in Nat : HelloCarried(d)
  BY DEF Meets
<1>2. PICK e \in Nat : HostCarried(e)
  BY DEF Meets
<1>3. /\ DOMAIN toHost = 1..Len(toHost) /\ Len(toHost) \in Nat
      /\ DOMAIN toHost' = 1..Len(toHost') /\ Len(toHost') \in Nat
      /\ DOMAIN toCoord = 1..Len(toCoord) /\ Len(toCoord) \in Nat
      /\ DOMAIN toCoord' = 1..Len(toCoord') /\ Len(toCoord') \in Nat
      /\ toCoord' = <<>> <=> Len(toCoord') = 0
  BY DEF TypeInv, WireTypeOK
<1>4. HelloFirst'
  <2>1. ASSUME NEW i \in DOMAIN toCoord', toCoord'[i].t = "hello"
        PROVE  /\ i = 1 /\ toCoord'[i].inst # 0
               /\ \A p \in Procs : pendingAcks'[p] = 0
               /\ \A j \in DOMAIN toHost' : toHost'[j].t \notin {"welcome", "event_ack"}
    <3>1. i + d \in DOMAIN toCoord /\ toCoord'[i] = toCoord[i + d]
      BY <1>1, <2>1 DEF HelloCarried
    <3>2. /\ i + d = 1 /\ toCoord[i + d].inst # 0
          /\ \A p \in Procs : pendingAcks[p] = 0
          /\ \A j \in DOMAIN toHost : toHost[j].t \notin {"welcome", "event_ack"}
      BY <2>1, <3>1 DEF HelloFirst
    <3>3. i = 1 /\ toCoord'[i].inst # 0
      BY <1>3, <3>1, <3>2
    <3>4. \A p \in Procs : pendingAcks'[p] = 0
      BY <1>1, <2>1, <3>1, <3>2 DEF Meets
    <3>5. \A j \in DOMAIN toHost' : toHost'[j].t \notin {"welcome", "event_ack"}
      BY <1>2, <3>2 DEF HostCarried
    <3>6. QED
      BY <3>3, <3>4, <3>5
  <2>2. ASSUME linkSocket', ~online' PROVE toCoord' # <<>> /\ toCoord'[1].t = "hello"
    <3>1. toCoord # <<>> /\ toCoord[1].t = "hello" /\ 1 \in DOMAIN toCoord
      BY <1>3, <2>2 DEF Meets, HelloFirst, TypeInv, WireTypeOK
    <3>2. 1 - d \in DOMAIN toCoord' /\ toCoord'[1 - d] = toCoord[1]
      BY <1>1, <2>2, <3>1 DEF HelloCarried
    <3>3. d = 0 /\ 1 \in DOMAIN toCoord'
      BY <1>3, <3>2
    <3>4. QED
      BY <1>3, <3>1, <3>2, <3>3
  <2>3. ASSUME ~linkSocket' PROVE toCoord' = <<>> /\ \A p \in Procs : pendingAcks'[p] = 0
    BY <1>1, <2>3 DEF Meets, HelloCarried
  <2>4. QED
    BY <2>1, <2>2, <2>3 DEF HelloFirst
<1>5. HelloLists'
  <2>1. ASSUME NEW i \in DOMAIN toCoord', toCoord'[i].t = "hello",
               toCoord'[i].inst = agentId', Foreign'
        PROVE  toCoord'[i].procs = Hosted'
    <3>1. i + d \in DOMAIN toCoord /\ toCoord'[i] = toCoord[i + d]
      BY <1>1, <2>1 DEF HelloCarried
    <3>2. agentId' = agentId /\ Foreign
      BY <2>1 DEF Meets, Foreign
    <3>3. toCoord[i + d].procs = Hosted /\ Greeted
      BY <2>1, <3>1, <3>2 DEF HelloLists, Greeted
    <3>4. Hosted' = Hosted
      BY <3>2, <3>3 DEF Meets
    <3>5. QED
      BY <3>1, <3>3, <3>4
  <2>2. QED
    BY <2>1 DEF HelloLists
<1>6. Replaced'
  <2>1. ASSUME hostInstanceId' \notin {0, agentId'}
        PROVE  /\ coordinatorInstanceId' = 0
               /\ \A i \in DOMAIN toHost' : ~Marked(toHost'[i])
    <3>1. coordinatorInstanceId = 0 /\ \A i \in DOMAIN toHost : ~Marked(toHost[i])
      BY <2>1 DEF Replaced, Meets
    <3>2. ASSUME NEW i \in DOMAIN toHost', Marked(toHost'[i]) PROVE FALSE
      <4>1. From(toHost'[i]) \in 1..instanceId'
        BY <3>2 DEF CommandInv, DriverInv, Sources
      <4>2. toHost'[i].t = "command" /\ i + e > Len(toHost)
        BY <1>2, <3>1, <3>2 DEF HostCarried, Marked
      <4>3. \E k \in DOMAIN unacked' : unacked'[k].cmd = toHost'[i].cmd
        BY <1>2, <3>1, <3>2 DEF HostCarried, Marked
      <4>4. From(toHost'[i]) = instanceId'
        BY <4>2, <4>3 DEF CommandInv, DriverInv, Own, From
      <4>5. QED
        BY <2>1, <3>2, <4>4 DEF CommandInv, Recognised
    <3>3. QED
      BY <3>1, <3>2 DEF Meets
  <2>2. QED
    BY <2>1 DEF Replaced
<1>7. Unmet'
  BY DEF Unmet, Meets
<1>8. Fellow'
  <2>1. ASSUME hostInstanceId' # 0, NEW i \in DOMAIN toHost', Marked(toHost'[i])
        PROVE  From(toHost'[i]) = instanceId'
    <3>1. CASE i + e \in DOMAIN toHost /\ toHost'[i] = toHost[i + e]
      BY <2>1, <3>1 DEF Fellow, Meets
    <3>2. CASE /\ toHost'[i].t = "command"
               /\ \E k \in DOMAIN unacked' : unacked'[k].cmd = toHost'[i].cmd
      BY <3>2 DEF CommandInv, DriverInv, Own, From
    <3>3. QED
      BY <1>2, <2>1, <3>1, <3>2 DEF HostCarried, Marked
  <2>2. ASSUME hostInstanceId' # 0, Foreign', NEW i \in DOMAIN toHost',
               toHost'[i].t = "event_ack"
        PROVE  \E j \in 1..i - 1 : toHost'[j].t = "welcome"
    <3>1. i + e \in DOMAIN toHost /\ toHost'[i] = toHost[i + e]
      BY <1>2, <2>2 DEF HostCarried
    <3>2. hostInstanceId # 0 /\ Foreign
      BY <2>2 DEF Foreign, Meets
    <3>3. PICK j \in 1..(i + e) - 1 : toHost[j].t = "welcome"
      BY <2>2, <3>1, <3>2 DEF Fellow
    <3>4. j \in DOMAIN toHost /\ toHost' # <<>>
      BY <1>3, <2>2, <3>1, <3>3
    <3>5. j - e \in DOMAIN toHost' /\ toHost'[j - e] = toHost[j]
      BY <1>2, <3>3, <3>4 DEF HostCarried
    <3>6. j - e \in 1..i - 1
      BY <1>3, <3>3, <3>5
    <3>7. QED
      BY <3>3, <3>5, <3>6
  <2>3. QED
    BY <2>1, <2>2 DEF Fellow
<1>9. OneWelcome'
  <2>1. ASSUME NEW i \in DOMAIN toHost', NEW j \in DOMAIN toHost',
               toHost'[i].t = "welcome", toHost'[j].t = "welcome"
        PROVE  i = j
    <3>1. /\ i + e \in DOMAIN toHost /\ toHost'[i] = toHost[i + e]
          /\ j + e \in DOMAIN toHost /\ toHost'[j] = toHost[j + e]
      BY <1>2, <2>1 DEF HostCarried
    <3>2. i + e = j + e
      BY <2>1, <3>1 DEF OneWelcome
    <3>3. QED
      BY <1>3, <3>2
  <2>2. QED
    BY <2>1 DEF OneWelcome
<1>10. QED
  BY <1>4, <1>5, <1>6, <1>7, <1>8, <1>9


LEMMA QuietMeets ==
    ASSUME TypeInv, TypeInv', CommandInv, CommandInv', MeetInv, Quiet
    PROVE  MeetInv'
<1>1. Hosted' = Hosted
  BY DEF Hosted, Quiet
<1>2. /\ hostInstanceId = 0 => \A p \in Procs : lastEventSeq'[p] = 0
      /\ (\E i \in DOMAIN toCoord : toCoord[i].t = "hello") =>
            \A p \in Procs : pendingAcks'[p] = 0
  BY DEF MeetInv, Unmet, HelloFirst, Quiet
<1>3. \A d : CoordCarried(d) => HelloCarried(d)
  BY DEF CoordCarried, HelloCarried
<1>4. Meets
  BY <1>1, <1>2, <1>3 DEF Meets, Quiet
<1>5. QED
  BY <1>4, MeetsKept
LEMMA QuietSpawns ==
    ASSUME TypeInv, TypeInv', CommandInv, CommandInv', NEW all \in BOOLEAN,
           SpawnInv(all), Quiet
    PROVE  SpawnInv(all)'
<1> USE DEF SpawnInv
<1>1. PICK d \in Nat : CoordCarried(d)
  BY DEF Quiet
<1>2. PICK e \in Nat : HostCarried(e)
  BY DEF Quiet
<1>3. Live' = Live /\ Hosted' = Hosted
  BY DEF Live, Hosted, Quiet
<1>4. ASSUME NEW p, Reports(p) = {} PROVE Reports(p)' = {}
  BY <1>1, <1>4 DEF Reports, CoordCarried
<1>5. ASSUME NEW k \in DOMAIN unacked', NEW p \in Procs, Spawns(unacked'[k].cmd, p)
      PROVE  \E j \in DOMAIN unacked : unacked[j] = unacked'[k]
  BY <1>5 DEF Quiet
<1>6. ASSUME NEW i \in DOMAIN toHost', NEW p \in Procs, Carries(toHost'[i], p)
      PROVE  \/ \E j \in DOMAIN toHost : toHost[j] = toHost'[i]
             \/ /\ \E j \in DOMAIN unacked : Spawns(unacked[j].cmd, p)
                /\ toHost'[i].cmd.coord = instanceId
  <2>1. CASE i + e \in DOMAIN toHost /\ toHost'[i] = toHost[i + e]
    BY <2>1
  <2>2. CASE \E k \in DOMAIN unacked' : unacked'[k].cmd = toHost'[i].cmd
    <3>1. PICK k \in DOMAIN unacked' : unacked'[k].cmd = toHost'[i].cmd
      BY <2>2
    <3>2. \E j \in DOMAIN unacked : unacked[j] = unacked'[k]
      BY <1>5, <1>6, <3>1 DEF Carries
    <3>3. toHost'[i].cmd.coord = instanceId'
      BY <3>1 DEF CommandInv, DriverInv, Own
    <3>4. QED
      BY <1>6, <3>1, <3>2, <3>3 DEF Carries, Quiet
  <2>3. QED
    BY <1>2, <1>6, <2>1, <2>2 DEF HostCarried, Carries
<1>7. Unused'
  <2> SUFFICES ASSUME NEW p \in Procs \ used
               PROVE  /\ remote'[p] = "none" /\ p \notin adoptable' /\ p \notin Hosted'
                      /\ Reports(p)' = {} /\ pendingAcks'[p] = 0
                      /\ \A i \in DOMAIN toHost' :
                           /\ toHost'[i].t = "event_ack" => toHost'[i].proc # p
                           /\ toHost'[i].t = "welcome" => p \notin toHost'[i].listed
                           /\ ~Carries(toHost'[i], p)
                      /\ \A i \in DOMAIN unacked' : ~Spawns(unacked'[i].cmd, p)
    BY DEF Unused, Quiet
  <2>1. /\ remote'[p] = "none" /\ p \notin adoptable' /\ p \notin Hosted'
        /\ pendingAcks'[p] = 0
    BY <1>3 DEF Unused, Quiet
  <2>2. Reports(p)' = {}
    BY <1>4 DEF Unused
  <2>3. \A i \in DOMAIN unacked' : ~Spawns(unacked'[i].cmd, p)
    BY <1>5 DEF Unused
  <2>4. ASSUME NEW i \in DOMAIN toHost'
        PROVE  /\ toHost'[i].t = "event_ack" => toHost'[i].proc # p
               /\ toHost'[i].t = "welcome" => p \notin toHost'[i].listed
    BY <1>2 DEF Unused, HostCarried
  <2>5. ASSUME NEW i \in DOMAIN toHost' PROVE ~Carries(toHost'[i], p)
    BY <1>6 DEF Unused
  <2>6. QED
    BY <2>1, <2>2, <2>3, <2>4, <2>5
<1>8. LiveOnly'
  BY <1>3 DEF LiveOnly, Quiet
<1>9. Separate'
  <2>1. ASSUME NEW i \in DOMAIN toHost', NEW p \in Live' \ started',
               Carries(toHost'[i], p)
        PROVE  toHost'[i].cmd.coord = instanceId'
    BY <1>3, <1>6, <2>1 DEF Separate, Quiet, Live
  <2>2. Foreign' => Hosted' \cap (Live' \ started') = {}
    BY <1>3 DEF Separate, Quiet, Foreign
  <2>3. ASSUME NEW i \in DOMAIN unacked', NEW p \in Procs, Spawns(unacked'[i].cmd, p)
        PROVE  /\ p \notin adoptable'
               /\ hostInstanceId' = 0 => p \notin started'
               /\ \A j \in DOMAIN unacked' : Spawns(unacked'[j].cmd, p) => i = j
    <3>1. p \notin adoptable' /\ (hostInstanceId' = 0 => p \notin started')
      BY <1>5, <2>3 DEF Separate, Quiet
    <3>2. ASSUME NEW j \in DOMAIN unacked', Spawns(unacked'[j].cmd, p)
          PROVE  i = j
      <4>1. PICK k \in DOMAIN unacked : unacked[k] = unacked'[i]
        BY <1>5, <2>3
      <4>2. PICK l \in DOMAIN unacked : unacked[l] = unacked'[j]
        BY <1>5, <3>2
      <4>3. k = l
        BY <2>3, <3>2, <4>1, <4>2 DEF Separate
      <4>4. unacked'[i].seq = unacked'[j].seq /\ unacked'[i].seq \in Nat
        BY <4>1, <4>2, <4>3, QueueFrames DEF TypeInv
      <4>5. ~(i < j) /\ ~(j < i)
        BY <4>4 DEF CommandInv, QueueInOrder
      <4>6. i \in Nat /\ j \in Nat
        <5>1. unacked' \in Seq(QueuedCommand)
          BY DEF TypeInv, ManagerTypeOK
        <5>2. DOMAIN unacked' = 1..Len(unacked') /\ Len(unacked') \in Nat
          BY <5>1
        <5>3. QED
          BY <5>2
      <4>7. QED
        BY <4>5, <4>6
    <3>3. QED
      BY <3>1, <3>2
  <2>4. QED
    BY <2>1, <2>2, <2>3 DEF Separate
<1>10. Unspawned(all)'
  <2>1. ASSUME Known', NEW i \in DOMAIN unacked', NEW p \in Procs,
               Spawns(unacked'[i].cmd, p), unacked'[i].seq > Reached(instanceId)'
        PROVE  /\ p \in Live' /\ p \notin started' /\ p \notin Hosted' /\ Reports(p)' = {}
               /\ all => lastEventSeq'[p] = 0
    <3>1. PICK j \in DOMAIN unacked : unacked[j] = unacked'[i]
      BY <1>5, <2>1
    <3>2. /\ Reached(instanceId) \in Nat /\ Reached(instanceId)' \in Nat
          /\ Reached(instanceId) <= Reached(instanceId)'
      BY DEF Quiet, Reached, TypeInv, AgentInv, AgentTypeOK
    <3>3. unacked[j].seq > Reached(instanceId)
      BY <2>1, <3>1, <3>2, QueueFrames DEF TypeInv
    <3>4. /\ p \in Live /\ p \notin started /\ p \notin Hosted /\ Reports(p) = {}
          /\ all => lastEventSeq[p] = 0
      BY <2>1, <3>1, <3>3 DEF Unspawned, Known, Quiet
    <3>5. QED
      BY <1>3, <1>4, <3>4 DEF Quiet
  <2>2. QED
    BY <2>1 DEF Unspawned
<1>11. QED
  BY <1>7, <1>8, <1>9, <1>10

LEMMA QuietNumbers ==
    ASSUME TypeInv, TypeInv', CommandInv, CommandInv', NEW all \in BOOLEAN,
           Unused, NumberInv(all), Quiet
    PROVE  NumberInv(all)'
<1> USE DEF NumberInv
<1>1. PICK d \in Nat : CoordCarried(d)
  BY DEF Quiet
<1>2. PICK e \in Nat : HostCarried(e)
  BY DEF Quiet
<1>3. Live' = Live /\ Hosted' = Hosted /\ (Known' => Known) /\ (Foreign' <=> Foreign)
  BY DEF Live, Hosted, Known, Foreign, Quiet
<1>4. Joined' => Joined
  BY DEF Joined, Quiet
<1>5. Near' => Near
  BY <1>1, <1>3 DEF Near, Greeted, CoordCarried, Quiet
<1>6. ASSUME NEW p
      PROVE  /\ Counted(p, all)' <=> Counted(p, all)
             /\ FirstPending(p)' = FirstPending(p)
  BY <1>3 DEF Counted, FirstPending, Quiet
<1>7. ASSUME NEW p, NEW i \in Reports(p)'
      PROVE  /\ i + d \in Reports(p) /\ toCoord'[i] = toCoord[i + d]
             /\ Given(p, i + d, all) => Given(p, i, all)'
  <2>1. i + d \in Reports(p) /\ toCoord'[i] = toCoord[i + d]
    BY <1>1, <1>7 DEF Reports, CoordCarried
  <2>2. QED
    BY <2>1 DEF Given, Quiet
<1>8. ASSUME NEW p, NEW i \in Reports(p)', Dead(p, i + d)
      PROVE  Dead(p, i)'
  <2>1. ASSUME NEW k \in Reports(p)', k <= i PROVE toCoord'[k].seq # 1
    <3>1. k + d \in Reports(p) /\ toCoord'[k] = toCoord[k + d]
      BY <1>7
    <3>2. k \in Nat /\ i \in Nat
      BY DEF Reports, TypeInv, WireTypeOK
    <3>3. k + d <= i + d
      BY <2>1, <3>2
    <3>4. QED
      BY <1>8, <3>1, <3>3 DEF Dead
  <2>2. QED
    BY <1>8, <2>1 DEF Dead, Quiet
<1>9. DOMAIN toHost = 1..Len(toHost) /\ Len(toHost) \in Nat
      /\ DOMAIN toHost' = 1..Len(toHost') /\ Len(toHost') \in Nat
  BY DEF TypeInv, WireTypeOK
<1>10. ASSUME NEW i \in DOMAIN toHost', toHost'[i].t \in {"welcome", "event_ack"}
       PROVE  i + e \in DOMAIN toHost /\ toHost'[i] = toHost[i + e]
  BY <1>2, <1>10 DEF HostCarried
<1>11. Welcomed(all)'
  <2> SUFFICES ASSUME NEW i \in DOMAIN toHost', toHost'[i].t = "welcome"
               PROVE  /\ \A j \in 1..i - 1, p \in Procs :
                            Carries(toHost'[j], p) /\ Fresh(toHost[j])' =>
                               /\ p \in toHost'[i].listed
                               /\ all => toHost'[i].received[p] = 0
                      /\ all /\ toHost'[i].coord = coordinatorInstanceId' =>
                            \A p \in toHost'[i].listed \cap Hosted' :
                               /\ toHost'[i].received[p] < nextSeq'[p]
                               /\ phase'[p] = "exited" =>
                                     toHost'[i].received[p] + 1 < nextSeq'[p]
                      /\ toHost'[i].coord = instanceId' =>
                            /\ \A p \in toHost'[i].listed \cap Hosted' :
                                  phase'[p] # "exited" => p \in Live'
                            /\ \A p \in toHost'[i].listed : Counted(p, all)' =>
                                  toHost'[i].received[p] <= lastEventSeq'[p]
                            /\ all => \A p \in Live' \ toHost'[i].listed :
                                  /\ p \notin Hosted' /\ p \notin started'
                                  /\ lastEventSeq'[p] = 0
    BY DEF Welcomed
  <2>1. i + e \in DOMAIN toHost /\ toHost'[i] = toHost[i + e]
    BY <1>10
  <2>2. ASSUME NEW j \in 1..i - 1, NEW p \in Procs, Carries(toHost'[j], p),
               Fresh(toHost[j])'
        PROVE  p \in toHost'[i].listed /\ (all => toHost'[i].received[p] = 0)
    <3>1. j \in DOMAIN toHost' /\ toHost'[j].t = "command"
      BY <1>9, <2>2 DEF Carries
    <3>2. j + e < i + e /\ i + e <= Len(toHost)
      BY <1>9, <2>1, <2>2
    <3>3. j + e \in DOMAIN toHost /\ toHost'[j] = toHost[j + e]
      BY <1>2, <3>1, <3>2 DEF HostCarried
    <3>4. Fresh(toHost[j + e])
      <4>1. toHost[j + e].seq \in Nat
        BY <3>1, <3>3, CommandFrames DEF TypeInv
      <4>2. QED
        BY <2>2, <3>3, <4>1 DEF Fresh, Reached, Quiet, TypeInv, AgentInv, AgentTypeOK
    <3>5. j + e \in 1..(i + e) - 1
      BY <1>9, <3>2, <3>3
    <3>6. QED
      BY <2>1, <2>2, <3>3, <3>4, <3>5 DEF Welcomed
  <2>3. QED
    BY <1>3, <1>6, <2>1, <2>2 DEF Welcomed, Quiet
<1>12. Acked(all)'
  <2>1. \A p \in Procs : Counted(p, all)' => pendingAcks'[p] <= lastEventSeq'[p]
    <3>1. lastEventSeq \in [Procs -> Nat]
      BY DEF TypeInv, ManagerTypeOK
    <3>2. QED
      BY <1>6, <3>1 DEF Acked, Quiet
  <2>2. QED
    BY <1>6, <1>10, <2>1 DEF Acked, Quiet
<1>13. Numbered'
  BY <1>1, <1>5 DEF Numbered, CoordCarried, Quiet
<1>14. BeforeAdoption(all)'
  BY <1>3, <1>5, <1>6, <1>7 DEF BeforeAdoption
<1>15. ReadEarly(all)'
  BY <1>3, <1>6 DEF ReadEarly, Quiet
<1>16. InStep(all)'
  BY <1>3, <1>4, <1>6, <1>7, <1>8 DEF InStep, Quiet
<1>17. Attended'
  BY <1>3, <1>4 DEF Attended, Quiet
<1>18. all => Present'
  BY <1>3, <1>7 DEF Present, Quiet
<1>19. QED
  BY <1>11, <1>12, <1>13, <1>14, <1>15, <1>16, <1>17, <1>18

LEMMA QuietKeeps ==
    ASSUME TypeInv, TypeInv', CommandInv, CommandInv', NEW all \in BOOLEAN,
           OutputInv(all), Quiet
    PROVE  OutputInv(all)'
<1>1. Shape(all)'
  BY DEF OutputInv, Shape, FirstPending, Quiet
<1>2. Parented'
  BY DEF OutputInv, Parented, Hosted, Quiet
<1>3. QED
  BY <1>1, <1>2, QuietMeets, QuietSpawns, QuietNumbers DEF OutputInv, SpawnInv

-----------------------------------------------------------------------------
(***************************************************************************)
(* Which steps those are.                                                  *)
(***************************************************************************)
LEMMA CoordFrames ==
    ASSUME WireTypeOK
    PROVE  /\ DOMAIN toCoord = 1..Len(toCoord) /\ Len(toCoord) \in Nat
           /\ \A i \in DOMAIN toCoord : toCoord[i] \in HostToCoordinator
           /\ toCoord # <<>> => 1 \in DOMAIN toCoord /\ Head(toCoord) = toCoord[1]
           /\ toCoord # <<>> /\ toCoord' = Tail(toCoord) =>
                 /\ DOMAIN toCoord' = 1..Len(toCoord) - 1
                 /\ Len(toCoord') = Len(toCoord) - 1
                 /\ \A i \in DOMAIN toCoord' : toCoord'[i] = toCoord[i + 1]
<1>1. ASSUME toCoord # <<>>
      PROVE  /\ 1 \in DOMAIN toCoord /\ Head(toCoord) = toCoord[1]
             /\ DOMAIN Tail(toCoord) = 1..Len(toCoord) - 1
             /\ Len(Tail(toCoord)) = Len(toCoord) - 1
             /\ \A i \in 1..Len(toCoord) - 1 : Tail(toCoord)[i] = toCoord[i + 1]
  BY <1>1, HeadTailProperties, EmptySeq DEF WireTypeOK
<1>2. QED
  BY <1>1 DEF WireTypeOK

LEMMA HostFrames ==
    ASSUME WireTypeOK
    PROVE  /\ DOMAIN toHost = 1..Len(toHost) /\ Len(toHost) \in Nat
           /\ \A i \in DOMAIN toHost : toHost[i] \in CoordinatorToHost
           /\ toHost # <<>> => 1 \in DOMAIN toHost /\ Head(toHost) = toHost[1]
           /\ toHost # <<>> /\ toHost' = Tail(toHost) =>
                 /\ DOMAIN toHost' = 1..Len(toHost) - 1
                 /\ Len(toHost') = Len(toHost) - 1
                 /\ \A i \in DOMAIN toHost' : toHost'[i] = toHost[i + 1]
<1>1. ASSUME toHost # <<>>
      PROVE  /\ 1 \in DOMAIN toHost /\ Head(toHost) = toHost[1]
             /\ DOMAIN Tail(toHost) = 1..Len(toHost) - 1
             /\ Len(Tail(toHost)) = Len(toHost) - 1
             /\ \A i \in 1..Len(toHost) - 1 : Tail(toHost)[i] = toHost[i + 1]
  BY <1>1, HeadTailProperties, EmptySeq DEF WireTypeOK
<1>2. QED
  BY <1>1 DEF WireTypeOK

\* What each end sends comes behind what is on its way.
LEMMA SentBehind ==
    ASSUME WireTypeOK, NEW msgs \in Seq(CoordinatorToHost), CoordinatorSends(msgs)
    PROVE  \/ toHost' = toHost
           \/ /\ linkSocket /\ paired
              /\ DOMAIN toHost' = 1..Len(toHost) + Len(msgs)
              /\ DOMAIN msgs = 1..Len(msgs) /\ Len(msgs) \in Nat
              /\ \A i \in DOMAIN toHost : i \in DOMAIN toHost' /\ toHost'[i] = toHost[i]
              /\ \A i \in DOMAIN toHost' : i > Len(toHost) =>
                    /\ i - Len(toHost) \in DOMAIN msgs
                    /\ toHost'[i] = msgs[i - Len(toHost)]
<1>1. CASE linkSocket /\ paired
  <2>1. toHost' = toHost \o msgs
    BY <1>1 DEF CoordinatorSends
  <2>2. QED
    BY <1>1, <2>1 DEF WireTypeOK
<1>2. CASE ~(linkSocket /\ paired)
  BY <1>2 DEF CoordinatorSends
<1>3. QED
  BY <1>1, <1>2

LEMMA ReportedBehind ==
    ASSUME WireTypeOK, NEW msgs \in Seq(HostToCoordinator), HostSends(msgs)
    PROVE  \/ ~(agentSocket /\ paired) /\ toCoord' = toCoord
           \/ /\ agentSocket /\ paired
              /\ DOMAIN toCoord' = 1..Len(toCoord) + Len(msgs)
              /\ DOMAIN msgs = 1..Len(msgs) /\ Len(msgs) \in Nat
              /\ \A i \in DOMAIN toCoord : i \in DOMAIN toCoord' /\ toCoord'[i] = toCoord[i]
              /\ \A i \in DOMAIN toCoord' : i > Len(toCoord) =>
                    /\ i - Len(toCoord) \in DOMAIN msgs
                    /\ toCoord'[i] = msgs[i - Len(toCoord)]
<1>1. CASE agentSocket /\ paired
  <2>1. toCoord' = toCoord \o msgs
    BY <1>1 DEF HostSends
  <2>2. QED
    BY <1>1, <2>1 DEF WireTypeOK
<1>2. CASE ~(agentSocket /\ paired)
  BY <1>2 DEF HostSends
<1>3. QED
  BY <1>1, <1>2

LEMMA CoordKinds ==
    ASSUME WireTypeOK, Ends, HelloFirst
    PROVE  /\ UNCHANGED <<toCoord, linkSocket>> => CoordCarried(0)
           /\ toCoord' = <<>> /\ ~linkSocket' => CoordCarried(0)
           /\ (/\ linkSocket /\ linkSocket' /\ toCoord # <<>>
               /\ Head(toCoord).t # "hello" /\ toCoord' = Tail(toCoord))
                 => CoordCarried(1)
           /\ \A m \in HostToCoordinator :
                 (/\ m.t \notin {"hello", "event"} /\ HostSends(<<m>>)
                  /\ linkSocket' = linkSocket) => CoordCarried(0)
<1>1. DOMAIN toCoord = 1..Len(toCoord) /\ Len(toCoord) \in Nat
  BY CoordFrames
<1>2. ASSUME UNCHANGED <<toCoord, linkSocket>> PROVE CoordCarried(0)
  BY <1>1, <1>2 DEF CoordCarried, HelloFirst
<1>3. ASSUME toCoord' = <<>>, ~linkSocket' PROVE CoordCarried(0)
  BY <1>3 DEF CoordCarried
<1>4. ASSUME linkSocket, linkSocket', toCoord # <<>>, Head(toCoord).t # "hello",
             toCoord' = Tail(toCoord)
      PROVE  CoordCarried(1)
  <2>1. /\ DOMAIN toCoord' = 1..Len(toCoord) - 1 /\ Head(toCoord) = toCoord[1]
        /\ \A i \in DOMAIN toCoord' : toCoord'[i] = toCoord[i + 1]
    BY <1>4, CoordFrames
  <2>2. \A j \in DOMAIN toCoord : toCoord[j].t = "hello" => j = 1
    BY DEF HelloFirst
  <2>3. QED
    BY <1>1, <1>4, <2>1, <2>2 DEF CoordCarried
<1>5. ASSUME NEW m \in HostToCoordinator, m.t \notin {"hello", "event"},
             HostSends(<<m>>), linkSocket' = linkSocket
      PROVE  CoordCarried(0)
  <2> DEFINE msgs == <<m>>
  <2>1. msgs \in Seq(HostToCoordinator) /\ \A i \in DOMAIN msgs : msgs[i] = m
    OBVIOUS
  <2>2. HostSends(msgs)
    BY <1>5
  <2> HIDE DEF msgs
  <2>3. CASE toCoord' = toCoord
    BY <1>2, <1>5, <2>3
  <2>4. CASE agentSocket /\ paired
    <3>1. /\ \A i \in DOMAIN toCoord : i \in DOMAIN toCoord' /\ toCoord'[i] = toCoord[i]
          /\ \A i \in DOMAIN toCoord' : i > Len(toCoord) => toCoord'[i] = m
          /\ DOMAIN toCoord' = 1..Len(toCoord) + Len(msgs) /\ Len(msgs) \in Nat
      BY <2>1, <2>2, <2>4, ReportedBehind
    <3>2. \A i \in DOMAIN toCoord' : i + 0 \in DOMAIN toCoord \/ toCoord'[i] = m
      BY <1>1, <3>1
    <3>3. linkSocket'
      BY <1>5, <2>4 DEF Ends
    <3>4. QED
      BY <1>1, <1>5, <3>1, <3>2, <3>3 DEF CoordCarried
  <2>5. QED
    BY <2>1, <2>2, <2>3, <2>4, ReportedBehind
<1>6. QED
  BY <1>2, <1>3, <1>4, <1>5

LEMMA HostKinds ==
    ASSUME WireTypeOK
    PROVE  /\ toHost' = toHost => HostCarried(0)
           /\ toHost' = <<>> => HostCarried(0)
           /\ toHost # <<>> /\ Head(toHost).t # "welcome" /\ toHost' = Tail(toHost)
                 => HostCarried(1)
           /\ \A msgs \in Seq(CoordinatorToHost) :
                 (/\ CoordinatorSends(msgs)
                  /\ \A i \in DOMAIN msgs :
                       \/ msgs[i].t = "update"
                       \/ /\ msgs[i].t = "command"
                          /\ \E k \in DOMAIN unacked' : /\ unacked'[k].seq = msgs[i].seq
                                                        /\ unacked'[k].cmd = msgs[i].cmd)
                 => HostCarried(0)
<1>1. DOMAIN toHost = 1..Len(toHost) /\ Len(toHost) \in Nat
  BY HostFrames
<1>2. ASSUME toHost' = toHost PROVE HostCarried(0)
  BY <1>1, <1>2 DEF HostCarried
<1>3. ASSUME toHost' = <<>> PROVE HostCarried(0)
  BY <1>3 DEF HostCarried
<1>4. ASSUME toHost # <<>>, Head(toHost).t # "welcome", toHost' = Tail(toHost)
      PROVE  HostCarried(1)
  <2>1. /\ DOMAIN toHost' = 1..Len(toHost) - 1 /\ Head(toHost) = toHost[1]
        /\ \A i \in DOMAIN toHost' : toHost'[i] = toHost[i + 1]
    BY <1>4, HostFrames
  <2>2. QED
    BY <1>1, <1>4, <2>1 DEF HostCarried
<1>5. ASSUME NEW msgs \in Seq(CoordinatorToHost), CoordinatorSends(msgs),
             \A i \in DOMAIN msgs :
                \/ msgs[i].t = "update"
                \/ /\ msgs[i].t = "command"
                   /\ \E k \in DOMAIN unacked' : /\ unacked'[k].seq = msgs[i].seq
                                                 /\ unacked'[k].cmd = msgs[i].cmd
      PROVE  HostCarried(0)
  <2>1. CASE toHost' = toHost
    BY <1>2, <2>1
  <2>2. CASE /\ DOMAIN toHost' = 1..Len(toHost) + Len(msgs) /\ Len(msgs) \in Nat
             /\ \A i \in DOMAIN toHost : i \in DOMAIN toHost' /\ toHost'[i] = toHost[i]
             /\ \A i \in DOMAIN toHost' : i > Len(toHost) =>
                    /\ i - Len(toHost) \in DOMAIN msgs
                    /\ toHost'[i] = msgs[i - Len(toHost)]
    <3>1. ASSUME NEW i \in DOMAIN toHost',
                 toHost'[i].t \in {"welcome", "command", "event_ack"}
          PROVE  \/ i + 0 \in DOMAIN toHost /\ toHost'[i] = toHost[i + 0]
                 \/ /\ toHost'[i].t = "command" /\ i + 0 > Len(toHost)
                    /\ \E k \in DOMAIN unacked' : /\ unacked'[k].seq = toHost'[i].seq
                                                  /\ unacked'[k].cmd = toHost'[i].cmd
      BY <1>1, <1>5, <2>2, <3>1
    <3>2. \A j \in DOMAIN toHost : j - 0 \in DOMAIN toHost' /\ toHost'[j - 0] = toHost[j]
      BY <1>1, <2>2
    <3>3. QED
      BY <3>1, <3>2 DEF HostCarried
  <2>3. QED
    BY <1>5, <2>1, <2>2, SentBehind
<1>6. QED
  BY <1>2, <1>3, <1>4, <1>5

\* A queue without new spawns.
NoNewSpawn ==
    \A k \in DOMAIN unacked', p \in Procs : Spawns(unacked'[k].cmd, p) =>
        \E j \in DOMAIN unacked : unacked[j] = unacked'[k]

LEMMA NoNewSpawnKinds ==
    ASSUME ManagerTypeOK
    PROVE  /\ unacked' = unacked => NoNewSpawn
           /\ \A I \in SUBSET DOMAIN unacked : \A r \in Filtered(unacked, I) :
                 unacked' = r => NoNewSpawn
<1>1. unacked \in Seq(QueuedCommand)
  BY DEF ManagerTypeOK
<1>2. ASSUME NEW I \in SUBSET DOMAIN unacked, NEW r \in Filtered(unacked, I),
             unacked' = r
      PROVE  NoNewSpawn
  <2>1. \A i \in DOMAIN r : \E k \in I : r[i] = unacked[k]
    BY <1>1, FilteredEntries
  <2>2. QED
    BY <1>2, <2>1 DEF NoNewSpawn
<1>3. QED
  BY <1>2 DEF NoNewSpawn

\* Steps of the coordinator that are quiet.
LEMMA ManagerQuiet ==
    ASSUME AgentTypeOK, UNCHANGED agentVars,
           UNCHANGED <<instanceId, hostInstanceId>>,
           UNCHANGED <<remote, started, lastEventSeq, used, adoptable>>,
           \/ UNCHANGED <<pendingAcks, online, linkSocket>>
           \/ pendingAcks' = [p \in Procs |-> 0] /\ ~linkSocket' /\ ~online',
           Ends, HelloFirst, ManagerTypeOK, NoNewSpawn,
           NEW d \in Nat, CoordCarried(d), NEW e \in Nat, HostCarried(e)
    PROVE  Quiet
<1>1. appliedCommandSeq <= appliedCommandSeq'
  BY DEF agentVars, AgentTypeOK
<1>2. /\ pendingAcks' = pendingAcks \/ pendingAcks' = [p \in Procs |-> 0]
      /\ linkSocket' => linkSocket /\ online' = online
      /\ ~linkSocket' => ~online' /\ pendingAcks' = [p \in Procs |-> 0]
  <2>1. pendingAcks \in [Procs -> Nat]
    BY DEF ManagerTypeOK
  <2>2. ASSUME ~linkSocket PROVE pendingAcks = [p \in Procs |-> 0]
    BY <2>1, <2>2 DEF HelloFirst
  <2>3. QED
    BY <2>2 DEF Ends
<1>3. QED
  BY <1>1, <1>2 DEF Quiet, NoNewSpawn, agentVars

\* Steps of the node that are quiet.
LEMMA AgentQuiet ==
    ASSUME AgentTypeOK, UNCHANGED managerVars, linkSocket' = linkSocket,
           UNCHANGED <<agentId, coordinatorInstanceId>>,
           UNCHANGED <<phase, nextSeq, pending, unfinishedLine, replaying>>,
           appliedCommandSeq <= appliedCommandSeq',
           Ends, HelloFirst, ManagerTypeOK,
           NEW d \in Nat, CoordCarried(d), NEW e \in Nat, HostCarried(e)
    PROVE  Quiet
<1>1. ASSUME ~linkSocket PROVE ~online /\ pendingAcks = [p \in Procs |-> 0]
  BY <1>1 DEF HelloFirst, Ends, ManagerTypeOK
<1>2. NoNewSpawn
  BY NoNewSpawnKinds DEF managerVars, queueVars
<1>3. QED
  BY <1>1, <1>2 DEF Quiet, NoNewSpawn, managerVars, linkVars, processVars

LEMMA EnqueueQuiet ==
    ASSUME WireTypeOK, ManagerTypeOK, ManagerTypeOK', NEW kind \in {"spawn", "control", "write_file"},
           NEW p \in Procs \cup {NoProc},
           (kind = "write_file" /\ p = NoProc) \/ (kind # "write_file" /\ p \in Procs),
           Enqueue(kind, p)
    PROVE  /\ HostCarried(0)
           /\ kind # "spawn" => NoNewSpawn
           /\ \A k \in DOMAIN unacked' :
                 \/ k \in DOMAIN unacked /\ unacked'[k] = unacked[k]
                 \/ /\ k = Len(unacked) + 1
                    /\ unacked'[k].cmd.kind = kind /\ unacked'[k].cmd.proc = p
           /\ \A k \in DOMAIN unacked : k \in DOMAIN unacked' /\ unacked'[k] = unacked[k]
           /\ UNCHANGED <<linkSocket, agentSocket, paired, toCoord>>
<1> DEFINE cmd == [id |-> commandCount + 1, coord |-> instanceId,
                   kind |-> kind, proc |-> p]
           queued == [seq |-> nextCommandSeq, cmd |-> cmd]
<1>1. queued \in QueuedCommand /\ queued.cmd.kind = kind /\ queued.cmd.proc = p
  BY DEF ManagerTypeOK, QueuedCommand, Command
<1>2. /\ unacked' = Append(unacked, queued)
      /\ UNCHANGED <<linkSocket, agentSocket, paired, toCoord>>
      /\ toHost' = toHost \/ CoordinatorSends(CommandMessages(<<queued>>))
  BY DEF Enqueue, Queues, OnlySends
<1> HIDE DEF queued
<1>3. /\ DOMAIN unacked = 1..Len(unacked) /\ Len(unacked) \in Nat
      /\ DOMAIN unacked' = 1..Len(unacked) + 1
      /\ unacked'[Len(unacked) + 1] = queued
      /\ \A k \in DOMAIN unacked : unacked'[k] = unacked[k]
  BY <1>1, <1>2 DEF ManagerTypeOK
<1>4. \A k \in DOMAIN unacked' :
         \/ k \in DOMAIN unacked /\ unacked'[k] = unacked[k]
         \/ /\ k = Len(unacked) + 1
            /\ unacked'[k].cmd.kind = kind /\ unacked'[k].cmd.proc = p
  BY <1>1, <1>3
<1>5. kind # "spawn" => NoNewSpawn
  BY <1>4 DEF NoNewSpawn, Spawns
<1>6. HostCarried(0)
  <2>1. CASE toHost' = toHost
    BY <2>1, HostKinds
  <2>2. CASE CoordinatorSends(CommandMessages(<<queued>>))
    <3> DEFINE q == <<queued>>
    <3>1. q \in Seq(QueuedCommand) /\ \A i \in DOMAIN q : q[i] = queued
      BY <1>1
    <3>2. \A i \in DOMAIN q : \E k \in DOMAIN unacked' : unacked'[k] = q[i]
      BY <1>3, <3>1
    <3>3. CoordinatorSends(CommandMessages(q))
      BY <2>2
    <3> HIDE DEF q
    <3>4. QED
      BY <3>1, <3>2, <3>3, CommandsFit, HostKinds DEF Fits
  <2>3. QED
    BY <1>2, <2>1, <2>2
<1>7. QED
  BY <1>2, <1>3, <1>4, <1>5, <1>6

\* The sockets, and what is told about updating the node.
LEMMA SocketsQuiet ==
    ASSUME TypeInv, TypeInv', Ends, HelloFirst,
           \/ LinkBreaks \/ LinkNoticed \/ SocketBreaks \/ SocketNoticed
           \/ RefuseWelcome /\ UNCHANGED managerVars
           \/ UNCHANGED vars
    PROVE  Quiet
<1>1. WireTypeOK /\ ManagerTypeOK /\ AgentTypeOK
  BY DEF TypeInv, AgentInv
<1>2. CASE LinkBreaks \/ LinkNoticed
  <2>1. /\ UNCHANGED agentVars /\ UNCHANGED <<instanceId, hostInstanceId>>
        /\ UNCHANGED <<remote, started, lastEventSeq, used, adoptable, unacked>>
        /\ pendingAcks' = [p \in Procs |-> 0] /\ ~linkSocket' /\ ~online'
        /\ toCoord' = <<>> /\ toHost' = toHost
    BY <1>2 DEF LinkBreaks, LinkNoticed, LinkDown, CoordinatorLetsGo, queueVars, processVars
  <2>2. CoordCarried(0) /\ HostCarried(0) /\ NoNewSpawn
    BY <1>1, <2>1, CoordKinds, HostKinds, NoNewSpawnKinds
  <2>3. QED
    BY <1>1, <2>1, <2>2, ManagerQuiet
<1>3. CASE \/ SocketBreaks \/ SocketNoticed
           \/ RefuseWelcome /\ UNCHANGED managerVars
  <2>1. /\ UNCHANGED agentVars /\ UNCHANGED managerVars
        /\ toHost' = <<>> /\ UNCHANGED <<toCoord, linkSocket>>
    BY <1>3 DEF SocketBreaks, SocketNoticed, SocketDown, RefuseWelcome, HostLetsGo
  <2>2. CoordCarried(0) /\ HostCarried(0)
    BY <1>1, <2>1, CoordKinds, HostKinds
  <2>3. QED
    BY <1>1, <2>1, <2>2, AgentQuiet DEF agentVars, AgentTypeOK
<1>4. CASE UNCHANGED vars
  <2>1. CoordCarried(0) /\ HostCarried(0)
    BY <1>1, <1>4, CoordKinds, HostKinds DEF vars, wireVars
  <2>2. QED
    BY <1>1, <1>4, <2>1, AgentQuiet DEF vars, wireVars, agentVars, AgentTypeOK
<1>5. QED
  BY <1>2, <1>3, <1>4

LEMMA AbandonQuiet ==
    ASSUME WireTypeOK, ManagerTypeOK, Abandon, unacked' = unacked
    PROVE  HostCarried(0)
<1>1. CASE toHost' = toHost
  BY <1>1, HostKinds
<1>2. CASE CoordinatorSends(CommandMessages(unacked))
  <2>1. /\ unacked \in Seq(QueuedCommand)
        /\ \A i \in DOMAIN unacked : \E k \in DOMAIN unacked' : unacked'[k] = unacked[i]
    BY DEF ManagerTypeOK
  <2> DEFINE msgs == CommandMessages(unacked)
  <2>2. /\ msgs \in Seq(CoordinatorToHost) /\ Fits(msgs)
        /\ \A i \in DOMAIN msgs : msgs[i].t = "command"
    BY <2>1, CommandsFit
  <2>3. CoordinatorSends(msgs)
    BY <1>2
  <2> HIDE DEF msgs
  <2>4. QED
    BY <2>2, <2>3, HostKinds DEF Fits
<1>3. QED
  BY <1>1, <1>2 DEF Abandon

LEMMA UpdatesQuiet ==
    ASSUME TypeInv, TypeInv', Ends, HelloFirst, Updates \/ TimesOut
    PROVE  Quiet
<1>1. WireTypeOK /\ ManagerTypeOK /\ AgentTypeOK
  BY DEF TypeInv, AgentInv
<1>2. /\ UNCHANGED agentVars /\ UNCHANGED <<instanceId, hostInstanceId>>
      /\ UNCHANGED <<remote, started, lastEventSeq, used, adoptable, unacked>>
      /\ UNCHANGED <<pendingAcks, online, linkSocket, toCoord>>
  BY DEF Updates, TimesOut, AskUpdate, PrepareFails, FinishAsk, UpdateTimeout, OnlySends,
         wireVars, linkVars, queueVars, processVars
<1>3. HostCarried(0)
  <2>1. CASE AskUpdate \/ PrepareFails
    BY <1>1, <2>1, HostKinds DEF AskUpdate, PrepareFails, wireVars
  <2>2. ASSUME NEW inst, NEW ready, FinishAsk(inst, ready) PROVE HostCarried(0)
    <3>1. CASE toHost' = toHost
      BY <1>1, <3>1, HostKinds
    <3>2. CASE CoordinatorSends(<<[t |-> "update"]>>)
      <4> DEFINE m == [t |-> "update"]
      <4>1. m \in CoordinatorToHost /\ m.t = "update"
        BY DEF CoordinatorToHost, Update
      <4> HIDE DEF m
      <4>2. <<m>> \in Seq(CoordinatorToHost) /\ \A i \in DOMAIN <<m>> : <<m>>[i] = m
        BY <4>1
      <4>3. CoordinatorSends(<<m>>)
        BY <3>2 DEF m
      <4>4. QED
        BY <1>1, <4>1, <4>2, <4>3, HostKinds
    <3>3. QED
      BY <2>2, <3>1, <3>2 DEF FinishAsk
  <2>3. CASE TimesOut
    BY <1>1, <1>2, <2>3, AbandonQuiet DEF TimesOut, UpdateTimeout
  <2>4. QED
    BY <2>1, <2>2, <2>3 DEF Updates
<1>4. CoordCarried(0) /\ NoNewSpawn
  BY <1>1, <1>2, CoordKinds, NoNewSpawnKinds
<1>5. QED
  BY <1>1, <1>2, <1>3, <1>4, ManagerQuiet

\* What the coordinator reads besides hellos and events.
LEMMA DeliversQuiet ==
    ASSUME TypeInv, TypeInv', Ends, HelloFirst, UNCHANGED agentVars,
           ReceiveCommandAck \/ ReceiveUpdateFailed
    PROVE  Quiet
<1>1. WireTypeOK /\ ManagerTypeOK /\ AgentTypeOK
  BY DEF TypeInv, AgentInv
<1>2. /\ UNCHANGED <<instanceId, hostInstanceId>>
      /\ UNCHANGED <<remote, started, lastEventSeq, used, adoptable>>
      /\ UNCHANGED <<pendingAcks, online, linkSocket>>
      /\ linkSocket /\ toCoord # <<>> /\ Head(toCoord).t # "hello"
      /\ toCoord' = Tail(toCoord)
  BY DEF ReceiveCommandAck, ReceiveUpdateFailed, ManagerReceives, ManagerConsumes,
         linkVars, processVars
<1>3. CoordCarried(1)
  BY <1>1, <1>2, CoordKinds
<1>4. HostCarried(0) /\ NoNewSpawn
  <2>1. CASE ReceiveCommandAck
    <3>1. /\ toHost' = toHost
          /\ \E I \in SUBSET DOMAIN unacked : unacked' \in Filtered(unacked, I)
      BY <2>1 DEF ReceiveCommandAck
    <3>2. QED
      BY <1>1, <3>1, HostKinds, NoNewSpawnKinds
  <2>2. CASE ReceiveUpdateFailed
    <3>1. unacked' = unacked
      BY <2>2 DEF ReceiveUpdateFailed, queueVars
    <3>2. toHost' = toHost \/ Abandon
      BY <2>2 DEF ReceiveUpdateFailed
    <3>3. QED
      BY <1>1, <3>1, <3>2, AbandonQuiet, HostKinds, NoNewSpawnKinds
  <2>3. QED
    BY <2>1, <2>2
<1>5. QED
  BY <1>1, <1>2, <1>3, <1>4, ManagerQuiet

\* What the node reads that touches no process.
LEMMA AgentDeliversQuiet ==
    ASSUME TypeInv, TypeInv', Ends, HelloFirst, UNCHANGED managerVars,
           \/ ReceiveOldCommand \/ ReceiveUpdate \/ UpdateFails
           \/ ReceiveCommand /\ Head(toHost).cmd.kind # "spawn"
    PROVE  Quiet
<1>1. WireTypeOK /\ ManagerTypeOK /\ AgentTypeOK
  BY DEF TypeInv, AgentInv
<1>2. /\ UNCHANGED <<agentId, coordinatorInstanceId, linkSocket>>
      /\ UNCHANGED <<phase, nextSeq, pending, unfinishedLine, replaying>>
  BY DEF ReceiveOldCommand, ReceiveUpdate, UpdateFails, ReceiveCommand, ApplyCommand,
         Applies, AgentConsumes, OnlyReports, agentVars
<1>3. appliedCommandSeq <= appliedCommandSeq'
  BY <1>1 DEF ReceiveOldCommand, ReceiveUpdate, UpdateFails, ReceiveCommand, ApplyCommand,
              Applies, agentVars, AgentTypeOK
<1>4. HostCarried(0) \/ HostCarried(1)
  <2>1. \/ toHost' = toHost
        \/ toHost # <<>> /\ Head(toHost).t # "welcome" /\ toHost' = Tail(toHost)
    BY DEF ReceiveOldCommand, ReceiveUpdate, UpdateFails, ReceiveCommand, ApplyCommand,
           AgentReceives, AgentConsumes, OnlyReports
  <2>2. QED
    BY <1>1, <2>1, HostKinds
<1>5. CoordCarried(0)
  <2>1. CASE toCoord' = toCoord
    BY <1>1, <1>2, <2>1, CoordKinds
  <2>2. ASSUME NEW s \in Nat, HostSends(<<Ack(s)>>) PROVE CoordCarried(0)
    <3>1. Ack(s) \in HostToCoordinator /\ Ack(s).t = "command_ack"
      BY DEF Ack, HostToCoordinator, CommandAck
    <3>2. QED
      BY <1>1, <1>2, <2>2, <3>1, CoordKinds
  <2>3. CASE UpdateFails
    <3> DEFINE m == [t |-> "update_failed"]
    <3>1. m \in HostToCoordinator /\ m.t = "update_failed" /\ HostSends(<<m>>)
      BY <2>3 DEF UpdateFails, HostToCoordinator, UpdateFailed
    <3> HIDE DEF m
    <3>2. QED
      BY <1>1, <1>2, <3>1, CoordKinds
  <2>4. ASSUME \/ ReceiveOldCommand
               \/ ReceiveCommand /\ Head(toHost).cmd.kind # "spawn"
        PROVE  CoordCarried(0)
    <3>1. Head(toHost).seq \in Nat
      <4>1. Head(toHost) \in CommandMsg
        BY <1>1, <2>4, AgentFrame, HostFrame DEF ReceiveOldCommand, ReceiveCommand
      <4>2. QED
        BY <4>1 DEF CommandMsg
    <3>2. toCoord' = toCoord \/ HostSends(<<Ack(Head(toHost).seq)>>)
      BY <2>4 DEF ReceiveOldCommand, ReceiveCommand, ApplyCommand
    <3>3. QED
      BY <2>1, <2>2, <3>1, <3>2
  <2>5. ReceiveUpdate => CoordCarried(0)
    BY <2>1 DEF ReceiveUpdate
  <2>6. \/ ReceiveUpdate \/ UpdateFails
        \/ ReceiveOldCommand
        \/ ReceiveCommand /\ Head(toHost).cmd.kind # "spawn"
    OBVIOUS
  <2>7. QED
    BY <2>3, <2>4, <2>5, <2>6
<1>6. QED
  BY <1>1, <1>2, <1>3, <1>4, <1>5, AgentQuiet


-----------------------------------------------------------------------------
(***************************************************************************)
(* The sessions.                                                           *)
(***************************************************************************)
LEMMA QueueingQuiet ==
    ASSUME TypeInv, TypeInv', Ends, HelloFirst, UNCHANGED agentVars,
           WriteFileInOrder \/ \E p \in Procs : Control(p)
    PROVE  Quiet
<1>1. WireTypeOK /\ ManagerTypeOK /\ ManagerTypeOK' /\ AgentTypeOK
  BY DEF TypeInv, AgentInv
<1>2. HostCarried(0) /\ NoNewSpawn /\ UNCHANGED <<linkSocket, toCoord>>
  <2>1. CASE WriteFileInOrder
    BY <1>1, <2>1, EnqueueQuiet DEF WriteFileInOrder
  <2>2. ASSUME NEW p \in Procs, Control(p)
        PROVE  HostCarried(0) /\ NoNewSpawn /\ UNCHANGED <<linkSocket, toCoord>>
    BY <1>1, <2>2, EnqueueQuiet DEF Control
  <2>3. QED
    BY <2>1, <2>2
<1>3. /\ UNCHANGED <<instanceId, hostInstanceId, pendingAcks, online>>
      /\ UNCHANGED <<remote, started, lastEventSeq, used, adoptable>>
  BY DEF WriteFileInOrder, Control, linkVars, processVars
<1>4. CoordCarried(0)
  BY <1>1, <1>2, CoordKinds
<1>5. QED
  BY <1>1, <1>2, <1>3, <1>4, ManagerQuiet

\* What the steps of the coordinator alone leave as it was.
LEMMA NodeStays ==
    ASSUME UNCHANGED agentVars
    PROVE  /\ UNCHANGED <<agentId, coordinatorInstanceId, appliedCommandSeq, phase>>
           /\ UNCHANGED <<nextSeq, pending, unfinishedLine, replaying>>
           /\ Hosted' = Hosted /\ \A p : FirstPending(p)' = FirstPending(p)
           /\ Shape(TRUE)' = Shape(TRUE) /\ Shape(FALSE)' = Shape(FALSE)
           /\ Parented' = Parented
           /\ (hostInstanceId' = hostInstanceId => Known' = Known)
           /\ (instanceId' = instanceId => Foreign' = Foreign)
           /\ (UNCHANGED <<hostInstanceId, instanceId>> => Joined' = Joined)
           /\ (instanceId' = instanceId => Reached(instanceId)' = Reached(instanceId))
BY DEF agentVars, Hosted, FirstPending, Shape, Parented, Known, Foreign, Joined, Reached

LEMMA ReportsStay ==
    ASSUME toCoord' = toCoord
    PROVE  /\ \A p : Reports(p)' = Reports(p)
           /\ (agentId' = agentId => Greeted' = Greeted)
           /\ \A p, i, all : UNCHANGED <<nextSeq, phase>> =>
                 Given(p, i, all)' = Given(p, i, all)
           /\ \A p, i : lastEventSeq'[p] = lastEventSeq[p] => Dead(p, i)' = Dead(p, i)
BY DEF Reports, Greeted, Given, Dead

\* A new process is queued for its spawn.
LEMMA StartKeeps ==
    ASSUME TypeInv, TypeInv', CommandInv, CommandInv', NEW all \in BOOLEAN,
           OutputInv(all), UNCHANGED agentVars, NEW q \in Procs, StartProcess(q)
    PROVE  OutputInv(all)'
<1> USE DEF OutputInv
<1>1. WireTypeOK /\ ManagerTypeOK /\ ManagerTypeOK' /\ AgentTypeOK
  BY DEF TypeInv, AgentInv
<1>2. /\ HostCarried(0) /\ UNCHANGED <<linkSocket, agentSocket, paired, toCoord>>
      /\ \A k \in DOMAIN unacked' :
            \/ k \in DOMAIN unacked /\ unacked'[k] = unacked[k]
            \/ /\ k = Len(unacked) + 1
               /\ unacked'[k].cmd.kind = "spawn" /\ unacked'[k].cmd.proc = q
      /\ \A k \in DOMAIN unacked : k \in DOMAIN unacked' /\ unacked'[k] = unacked[k]
  BY <1>1, EnqueueQuiet DEF StartProcess
<1>3. /\ q \notin used /\ used' = used \cup {q}
      /\ remote' = [remote EXCEPT ![q] = "live"]
      /\ UNCHANGED <<instanceId, online, hostInstanceId, started, lastEventSeq,
                     adoptable, pendingAcks>>
  BY DEF StartProcess, linkVars
<1>4. /\ remote[q] = "none" /\ q \notin adoptable /\ q \notin Hosted /\ Reports(q) = {}
      /\ pendingAcks[q] = 0
      /\ \A i \in DOMAIN toHost :
           /\ toHost[i].t = "event_ack" => toHost[i].proc # q
           /\ toHost[i].t = "welcome" => q \notin toHost[i].listed
           /\ ~Carries(toHost[i], q)
      /\ \A i \in DOMAIN unacked : ~Spawns(unacked[i].cmd, q)
  BY <1>3 DEF SpawnInv, Unused
<1>5. /\ Live' = Live \cup {q} /\ q \notin Live /\ q \notin started
      /\ lastEventSeq[q] = 0
  BY <1>1, <1>3, <1>4 DEF Live, LiveOnly, SpawnInv, ManagerTypeOK
<1>6. /\ UNCHANGED <<phase, nextSeq, coordinatorInstanceId>>
      /\ Hosted' = Hosted /\ Known' = Known /\ Foreign' = Foreign /\ Joined' = Joined
      /\ Near' = Near /\ Reached(instanceId)' = Reached(instanceId)
      /\ \A p : Reports(p)' = Reports(p) /\ FirstPending(p)' = FirstPending(p)
      /\ \A p, i : /\ Given(p, i, all)' = Given(p, i, all)
                   /\ Dead(p, i)' = Dead(p, i)
  BY <1>2, <1>3, NodeStays, ReportsStay DEF Near
<1>7. ASSUME NEW p \in Procs \ {q}
      PROVE  /\ p \in Live' <=> p \in Live
             /\ Counted(p, all)' <=> Counted(p, all)
  BY <1>3, <1>5 DEF Counted
<1>8. ASSUME NEW i \in DOMAIN toHost', toHost'[i].t \in {"welcome", "event_ack"}
      PROVE  i \in DOMAIN toHost /\ toHost'[i] = toHost[i]
  <2>1. i + 0 \in DOMAIN toHost /\ toHost'[i] = toHost[i + 0]
    BY <1>2, <1>8 DEF HostCarried
  <2>2. i \in Nat
    BY DEF TypeInv, WireTypeOK
  <2>3. QED
    BY <2>1, <2>2
<1>9. ASSUME NEW i \in DOMAIN toHost', NEW p \in Procs, Carries(toHost'[i], p)
      PROVE  \/ i \in DOMAIN toHost /\ toHost'[i] = toHost[i] /\ p # q
             \/ toHost'[i].cmd.coord = instanceId /\ i > Len(toHost)
                /\ \E k \in DOMAIN unacked' : Spawns(unacked'[k].cmd, p)
  <2>1. i \in Nat
    BY DEF TypeInv, WireTypeOK
  <2>2. CASE i + 0 \in DOMAIN toHost /\ toHost'[i] = toHost[i + 0]
    BY <1>4, <1>9, <2>1, <2>2
  <2>3. CASE i + 0 > Len(toHost) /\ \E k \in DOMAIN unacked' :
                unacked'[k].cmd = toHost'[i].cmd
    <3>1. PICK k \in DOMAIN unacked' : unacked'[k].cmd = toHost'[i].cmd
      BY <2>3
    <3>2. toHost'[i].cmd.coord = instanceId'
      BY <3>1 DEF CommandInv, DriverInv, Own
    <3>3. QED
      BY <1>3, <1>9, <2>1, <2>3, <3>1, <3>2 DEF Carries
  <2>4. QED
    BY <1>2, <1>9, <2>2, <2>3 DEF HostCarried, Carries
<1>10. MeetInv'
  <2>1. HelloCarried(0)
    BY <1>1, <1>2, CoordKinds DEF MeetInv, CommandInv, DriverInv, CoordCarried, HelloCarried
  <2>2. Meets
    BY <1>2, <1>3, <1>6, <2>1, NodeStays DEF Meets, MeetInv, Unmet, HelloFirst, CommandInv, DriverInv, Ends
  <2>3. QED
    BY <2>2, MeetsKept
<1>11. SpawnInv(all)'
  <2>1. Unused'
    <3> SUFFICES ASSUME NEW p \in Procs \ used'
                 PROVE  /\ remote'[p] = "none" /\ p \notin adoptable' /\ p \notin Hosted'
                        /\ Reports(p)' = {} /\ pendingAcks'[p] = 0
                        /\ \A i \in DOMAIN toHost' :
                             /\ toHost'[i].t = "event_ack" => toHost'[i].proc # p
                             /\ toHost'[i].t = "welcome" => p \notin toHost'[i].listed
                             /\ ~Carries(toHost'[i], p)
                        /\ \A i \in DOMAIN unacked' : ~Spawns(unacked'[i].cmd, p)
      BY DEF Unused
    <3>1. p \in Procs \ used /\ p # q
      BY <1>3
    <3>2. /\ remote'[p] = "none" /\ p \notin adoptable' /\ p \notin Hosted'
          /\ Reports(p)' = {} /\ pendingAcks'[p] = 0
      BY <1>3, <1>6, <3>1 DEF SpawnInv, Unused
    <3>3. \A i \in DOMAIN unacked' : ~Spawns(unacked'[i].cmd, p)
      BY <1>2, <3>1 DEF SpawnInv, Unused, Spawns
    <3>4. \A i \in DOMAIN toHost' :
             /\ toHost'[i].t = "event_ack" => toHost'[i].proc # p
             /\ toHost'[i].t = "welcome" => p \notin toHost'[i].listed
      BY <1>8, <3>1 DEF SpawnInv, Unused
    <3>5. \A i \in DOMAIN toHost' : ~Carries(toHost'[i], p)
      BY <1>9, <3>1, <3>3 DEF SpawnInv, Unused
    <3>6. QED
      BY <3>2, <3>3, <3>4, <3>5
  <2>2. LiveOnly'
    BY <1>1, <1>3, <1>4, <1>5 DEF SpawnInv, LiveOnly, ManagerTypeOK
  <2>3. Separate'
    <3>1. ASSUME NEW i \in DOMAIN toHost', NEW p \in Live' \ started', Carries(toHost'[i], p)
          PROVE  toHost'[i].cmd.coord = instanceId'
      BY <1>3, <1>5, <1>9, <3>1 DEF SpawnInv, Separate, Live
    <3>2. Foreign' => Hosted' \cap (Live' \ started') = {}
      BY <1>3, <1>4, <1>5, <1>6 DEF SpawnInv, Separate
    <3>3. ASSUME NEW i \in DOMAIN unacked', NEW p \in Procs, Spawns(unacked'[i].cmd, p)
          PROVE  /\ p \notin adoptable'
                 /\ hostInstanceId' = 0 => p \notin started'
                 /\ \A j \in DOMAIN unacked' : Spawns(unacked'[j].cmd, p) => i = j
      <4>1. CASE p = q
        BY <1>2, <1>3, <1>4, <1>5, <3>3, <4>1
      <4>2. CASE p # q
        BY <1>2, <1>3, <3>3, <4>2 DEF SpawnInv, Separate, Spawns
      <4>3. QED
        BY <4>1, <4>2
    <3>4. QED
      BY <3>1, <3>2, <3>3 DEF Separate
  <2>4. Unspawned(all)'
    <3>1. ASSUME Known', NEW i \in DOMAIN unacked', NEW p \in Procs,
                 Spawns(unacked'[i].cmd, p), unacked'[i].seq > Reached(instanceId)'
          PROVE  /\ p \in Live' /\ p \notin started' /\ p \notin Hosted' /\ Reports(p)' = {}
                 /\ all => lastEventSeq'[p] = 0
      <4>1. CASE p = q
        BY <1>3, <1>4, <1>5, <1>6, <4>1
      <4>2. CASE p # q
        BY <1>2, <1>3, <1>5, <1>6, <3>1, <4>2 DEF SpawnInv, Unspawned, Spawns
      <4>3. QED
        BY <4>1, <4>2
    <3>2. QED
      BY <3>1 DEF Unspawned
  <2>5. QED
    BY <2>1, <2>2, <2>3, <2>4 DEF SpawnInv
<1>12. NumberInv(all)'
  <2>1. Welcomed(all)'
    <3> SUFFICES ASSUME NEW i \in DOMAIN toHost', toHost'[i].t = "welcome"
                 PROVE  /\ \A j \in 1..i - 1, p \in Procs :
                              Carries(toHost'[j], p) /\ Fresh(toHost[j])' =>
                                 /\ p \in toHost'[i].listed
                                 /\ all => toHost'[i].received[p] = 0
                        /\ all /\ toHost'[i].coord = coordinatorInstanceId' =>
                              \A p \in toHost'[i].listed \cap Hosted' :
                                 /\ toHost'[i].received[p] < nextSeq'[p]
                                 /\ phase'[p] = "exited" =>
                                       toHost'[i].received[p] + 1 < nextSeq'[p]
                        /\ toHost'[i].coord = instanceId' =>
                              /\ \A p \in toHost'[i].listed \cap Hosted' :
                                    phase'[p] # "exited" => p \in Live'
                              /\ \A p \in toHost'[i].listed : Counted(p, all)' =>
                                    toHost'[i].received[p] <= lastEventSeq'[p]
                              /\ all => \A p \in Live' \ toHost'[i].listed :
                                    /\ p \notin Hosted' /\ p \notin started'
                                    /\ lastEventSeq'[p] = 0
      BY DEF Welcomed
    <3>1. i \in DOMAIN toHost /\ toHost'[i] = toHost[i] /\ q \notin toHost[i].listed
      BY <1>4, <1>8
    <3>2. ASSUME NEW j \in 1..i - 1, NEW p \in Procs, Carries(toHost'[j], p), Fresh(toHost[j])'
          PROVE  p \in toHost'[i].listed /\ (all => toHost'[i].received[p] = 0)
      <4>1. j \in DOMAIN toHost' /\ ~(j > Len(toHost))
        BY <3>1 DEF TypeInv, WireTypeOK
      <4>2. j \in DOMAIN toHost /\ toHost'[j] = toHost[j]
        BY <1>9, <3>2, <4>1
      <4>3. Fresh(toHost[j])
        BY <1>6, <3>2, <4>2, NodeStays DEF Fresh, Reached
      <4>4. QED
        BY <3>1, <3>2, <4>2, <4>3 DEF NumberInv, Welcomed
    <3>3. toHost[i].listed \in SUBSET Procs
      <4>1. toHost[i] \in Welcome
        BY <1>1, <3>1, HostFrames, HostFrame
      <4>2. QED
        BY <4>1 DEF Welcome
    <3>4. QED
      BY <1>3, <1>4, <1>5, <1>6, <1>7, <3>1, <3>2, <3>3 DEF NumberInv, Welcomed
  <2>2. Acked(all)'
    <3>1. ASSUME NEW p \in Procs, Counted(p, all)' PROVE pendingAcks'[p] <= lastEventSeq'[p]
      BY <1>3, <1>4, <1>5, <1>7, <3>1 DEF NumberInv, Acked
    <3>2. ASSUME NEW i \in DOMAIN toHost', toHost'[i].t = "event_ack"
          PROVE  /\ toHost'[i].seq # 0
                 /\ hostInstanceId' # 0 /\ Counted(toHost[i].proc, all)' =>
                       toHost'[i].seq <= lastEventSeq'[toHost'[i].proc]
      <4>1. i \in DOMAIN toHost /\ toHost'[i] = toHost[i] /\ toHost[i].proc # q
        BY <1>4, <1>8, <3>2
      <4>2. ASSUME Counted(toHost[i].proc, all)' PROVE Counted(toHost[i].proc, all)
        BY <1>3, <1>5, <4>1, <4>2 DEF Counted
      <4>3. QED
        BY <1>3, <3>2, <4>1, <4>2 DEF NumberInv, Acked
    <3>3. QED
      BY <3>1, <3>2 DEF Acked
  <2>3. Numbered'
    BY <1>2, <1>6 DEF NumberInv, Numbered
  <2>4. BeforeAdoption(all)' /\ ReadEarly(all)'
    BY <1>2, <1>3, <1>4, <1>6, <1>7 DEF NumberInv, BeforeAdoption, ReadEarly, Hosted
  <2>5. InStep(all)'
    BY <1>3, <1>4, <1>6, <1>7 DEF NumberInv, InStep, Hosted
  <2>6. Attended' /\ (all => Present')
    BY <1>3, <1>4, <1>5, <1>6 DEF NumberInv, Attended, Present
  <2>7. QED
    BY <2>1, <2>2, <2>3, <2>4, <2>5, <2>6 DEF NumberInv
<1>13. Shape(all)' /\ Parented'
  BY NodeStays
<1>14. QED
  BY <1>10, <1>11, <1>12, <1>13

\* An adopted process has started, or fails at once.
LEMMA AdoptKeeps ==
    ASSUME TypeInv, TypeInv', CommandInv, CommandInv', NEW all \in BOOLEAN,
           OutputInv(all), UNCHANGED agentVars, NEW q \in Procs, Adopt(q)
    PROVE  OutputInv(all)'
<1> USE DEF OutputInv
<1>1. WireTypeOK /\ ManagerTypeOK /\ ManagerTypeOK' /\ AgentTypeOK
  BY DEF TypeInv, AgentInv
<1>2. /\ UNCHANGED <<linkSocket, agentSocket, paired, toCoord, toHost, unacked>>
      /\ UNCHANGED <<instanceId, online, hostInstanceId, lastEventSeq, used, pendingAcks>>
      /\ UNCHANGED <<phase, nextSeq, coordinatorInstanceId>>
      /\ adoptable' = adoptable \ {q} /\ q \in adoptable
  BY DEF Adopt, wireVars, linkVars, queueVars, agentVars
<1>3. /\ Hosted' = Hosted /\ Known' = Known /\ Foreign' = Foreign /\ Joined' = Joined
      /\ Near' = Near /\ Reached(instanceId)' = Reached(instanceId)
      /\ \A p : Reports(p)' = Reports(p) /\ FirstPending(p)' = FirstPending(p)
      /\ \A p, i : /\ Given(p, i, all)' = Given(p, i, all)
                   /\ Dead(p, i)' = Dead(p, i)
      /\ \A i : Fresh(toHost[i])' = Fresh(toHost[i])
  BY <1>2, NodeStays, ReportsStay DEF Near, Fresh, Reached, agentVars
<1>4. remote[q] = "none" /\ q \in used
  BY <1>2 DEF SpawnInv, LiveOnly, Unused
<1>5. MeetInv'
  <2>1. HelloCarried(0) /\ HostCarried(0)
    BY <1>1, <1>2, CoordKinds, HostKinds
       DEF MeetInv, CommandInv, DriverInv, CoordCarried, HelloCarried
  <2>2. Meets
    BY <1>2, <1>3, <2>1, NodeStays
       DEF Meets, MeetInv, Unmet, HelloFirst, CommandInv, DriverInv, Ends
  <2>3. QED
    BY <2>2, MeetsKept
<1>6. Shape(all)' /\ Parented'
  BY NodeStays
<1>7. ASSUME \A p \in Procs : remote'[p] # remote[p] => p = q
      PROVE  Unused'
  BY <1>2, <1>3, <1>4, <1>7 DEF SpawnInv, Unused
<1>8. CASE hostInstanceId # 0
  <2>1. remote' = [remote EXCEPT ![q] = "failed"] /\ started' = started
    BY <1>8 DEF Adopt
  <2>2. Live' = Live /\ \A p : Counted(p, all)' = Counted(p, all)
    BY <1>1, <1>2, <1>4, <2>1 DEF Live, Counted, ManagerTypeOK
  <2>3. Unused'
    BY <1>1, <1>7, <2>1 DEF ManagerTypeOK
  <2>4. LiveOnly' /\ Separate' /\ Unspawned(all)'
    BY <1>1, <1>2, <1>3, <2>1, <2>2, SMTT(30)
       DEF SpawnInv, LiveOnly, Separate, Unspawned, ManagerTypeOK
  <2>5. Welcomed(all)' /\ Acked(all)'
    BY <1>2, <1>3, <2>1, <2>2 DEF NumberInv, Welcomed, Acked
  <2>6. Numbered' /\ BeforeAdoption(all)' /\ ReadEarly(all)'
    BY <1>2, <1>3, <2>2 DEF NumberInv, Numbered, BeforeAdoption, ReadEarly
  <2>7. InStep(all)' /\ Attended' /\ (all => Present')
    BY <1>2, <1>3, <2>1, <2>2 DEF NumberInv, InStep, Attended, Present
  <2>8. QED
    BY <1>5, <1>6, <2>3, <2>4, <2>5, <2>6, <2>7 DEF SpawnInv, NumberInv
<1>9. CASE hostInstanceId = 0
  <2>1. remote' = [remote EXCEPT ![q] = "live"] /\ started' = started \cup {q}
    BY <1>9 DEF Adopt
  <2>2. Live' = Live \cup {q} /\ lastEventSeq[q] = 0
    BY <1>1, <1>9, <2>1 DEF Live, MeetInv, Unmet, ManagerTypeOK
  <2>3. ~Known /\ ~Joined /\ Foreign
    BY <1>1, <1>9 DEF Known, Joined, Foreign, CommandInv, Recognised, AgentTypeOK
  <2>4. \A i \in DOMAIN toHost : toHost[i].t = "welcome" => toHost[i].coord # instanceId
    BY <2>3 DEF CommandInv, Recognised, Marked, From, Known
  <2>5. \A p \in Procs : pendingAcks[p] = 0
    <3>1. CASE linkSocket
      <4>1. toCoord # <<>> /\ toCoord[1].t = "hello" /\ 1 \in DOMAIN toCoord
        BY <1>1, <1>9, <3>1, CoordFrames DEF MeetInv, Unmet, HelloFirst
      <4>2. QED
        BY <4>1 DEF MeetInv, HelloFirst
    <3>2. CASE ~linkSocket
      BY <3>2 DEF MeetInv, HelloFirst
    <3>3. QED
      BY <3>1, <3>2
  <2>6. Unused'
    BY <1>1, <1>7, <2>1 DEF ManagerTypeOK
  <2>7. LiveOnly'
    BY <1>1, <1>2, <2>1, <2>2 DEF SpawnInv, LiveOnly, ManagerTypeOK
  <2>8. Separate' /\ Unspawned(all)'
    BY <1>2, <1>3, <2>1, <2>2, <2>3 DEF SpawnInv, Separate, Unspawned
  <2>9. Welcomed(all)'
    BY <1>2, <1>3, <2>4 DEF NumberInv, Welcomed
  <2>10. Acked(all)'
    <3>1. \A p \in Procs : pendingAcks'[p] <= lastEventSeq'[p]
      BY <1>1, <1>2, <2>5 DEF ManagerTypeOK
    <3>2. QED
      BY <1>2, <1>9, <3>1 DEF NumberInv, Acked
  <2>11. Numbered' /\ BeforeAdoption(all)' /\ ReadEarly(all)'
    BY <1>2, <1>3, <2>3 DEF NumberInv, Numbered, BeforeAdoption, ReadEarly
  <2>12. InStep(all)' /\ Attended' /\ (all => Present')
    BY <1>3, <2>3 DEF NumberInv, InStep, Attended, Present
  <2>13. QED
    BY <1>5, <1>6, <2>6, <2>7, <2>8, <2>9, <2>10, <2>11, <2>12 DEF SpawnInv, NumberInv
<1>10. QED
  BY <1>8, <1>9

\* What was of a process that stays queued is queued once.
LEMMA StillOnce ==
    ASSUME TypeInv, CommandInv', Separate, NoNewSpawn, TypeInv',
           NEW i \in DOMAIN unacked', NEW p \in Procs, Spawns(unacked'[i].cmd, p)
    PROVE  /\ p \notin adoptable /\ (hostInstanceId = 0 => p \notin started)
           /\ \A j \in DOMAIN unacked' : Spawns(unacked'[j].cmd, p) => i = j
<1>1. PICK k \in DOMAIN unacked : unacked[k] = unacked'[i]
  BY DEF NoNewSpawn
<1>2. p \notin adoptable /\ (hostInstanceId = 0 => p \notin started)
  BY <1>1 DEF Separate
<1>3. ASSUME NEW j \in DOMAIN unacked', Spawns(unacked'[j].cmd, p) PROVE i = j
  <2>1. PICK l \in DOMAIN unacked : unacked[l] = unacked'[j]
    BY <1>3 DEF NoNewSpawn
  <2>2. k = l
    BY <1>1, <1>3, <2>1 DEF Separate
  <2>3. unacked'[i].seq = unacked'[j].seq /\ unacked'[i].seq \in Nat
    BY <1>1, <2>1, <2>2, QueueFrames DEF TypeInv
  <2>4. ~(i < j) /\ ~(j < i)
    BY <2>3 DEF CommandInv, QueueInOrder
  <2>5. i \in Nat /\ j \in Nat
    <3>1. unacked' \in Seq(QueuedCommand)
      BY DEF TypeInv, ManagerTypeOK
    <3>2. DOMAIN unacked' = 1..Len(unacked') /\ Len(unacked') \in Nat
      BY <3>1
    <3>3. QED
      BY <3>2
  <2>6. QED
    BY <2>4, <2>5
<1>4. QED
  BY <1>2, <1>3

\* Giving up on the node ends every process.
LEMMA ReleaseKeeps ==
    ASSUME TypeInv, TypeInv', CommandInv, CommandInv', NEW all \in BOOLEAN,
           OutputInv(all), NodeReleased
    PROVE  OutputInv(all)'
<1> USE DEF OutputInv
<1>1. WireTypeOK /\ ManagerTypeOK /\ ManagerTypeOK' /\ AgentTypeOK
  BY DEF TypeInv, AgentInv
<1>2. /\ UNCHANGED <<linkSocket, agentSocket, paired, toCoord, toHost>>
      /\ UNCHANGED <<instanceId, online, hostInstanceId, used, adoptable, pendingAcks>>
      /\ UNCHANGED <<phase, nextSeq, coordinatorInstanceId, agentId>>
      /\ UNCHANGED agentVars
      /\ hostInstanceId # agentId /\ FailProcesses(Live)
      /\ \E I \in SUBSET DOMAIN unacked : unacked' \in Filtered(unacked, I)
  BY DEF NodeReleased, Release, wireVars, linkVars, agentVars
<1>3. NoNewSpawn
  BY <1>1, <1>2, NoNewSpawnKinds
<1>4. /\ Live' = {} /\ started' = {} /\ lastEventSeq' = [p \in Procs |-> 0]
      /\ \A p \in Procs : remote[p] = "none" => remote'[p] = "none"
  BY <1>1, <1>2 DEF FailProcesses, Live, SpawnInv, LiveOnly, ManagerTypeOK
<1>5. /\ Hosted' = Hosted /\ Near' = Near
      /\ Reached(instanceId)' = Reached(instanceId)
      /\ \A p : Reports(p)' = Reports(p) /\ FirstPending(p)' = FirstPending(p)
      /\ \A p, i : /\ Given(p, i, all)' = Given(p, i, all)
      /\ \A i : Fresh(toHost[i])' = Fresh(toHost[i])
      /\ Known' = Known /\ Foreign' = Foreign /\ Joined' = Joined
  BY <1>2, NodeStays, ReportsStay DEF Near, Fresh, Reached, agentVars
<1>6. ~Known /\ ~Joined
  BY <1>2 DEF Known, Joined
<1>7. \A i \in DOMAIN toHost : toHost[i].t = "welcome" => toHost[i].coord # instanceId
  BY <1>6 DEF CommandInv, Recognised, Marked, From, Known
<1>8. MeetInv'
  <2>1. HelloCarried(0) /\ HostCarried(0)
    BY <1>1, <1>2, CoordKinds, HostKinds
       DEF MeetInv, CommandInv, DriverInv, CoordCarried, HelloCarried
  <2>2. Meets
    BY <1>2, <1>4, <1>5, <2>1, NodeStays
       DEF Meets, MeetInv, Unmet, HelloFirst, CommandInv, DriverInv, Ends
  <2>3. QED
    BY <2>2, MeetsKept
<1>9. Shape(all)' /\ Parented'
  BY <1>2, NodeStays
<1>10. Unused'
  <2>1. ASSUME NEW p \in Procs \ used, NEW i \in DOMAIN unacked' PROVE ~Spawns(unacked'[i].cmd, p)
    BY <1>3 DEF NoNewSpawn, SpawnInv, Unused
  <2>2. QED
    BY <1>2, <1>4, <1>5, <2>1 DEF SpawnInv, Unused
<1>11. LiveOnly'
  BY <1>1, <1>2, <1>4 DEF SpawnInv, LiveOnly, ManagerTypeOK
<1>12. Separate'
  <2>1. ASSUME NEW i \in DOMAIN unacked', NEW p \in Procs, Spawns(unacked'[i].cmd, p)
        PROVE  /\ p \notin adoptable /\ (hostInstanceId = 0 => p \notin started)
               /\ \A j \in DOMAIN unacked' : Spawns(unacked'[j].cmd, p) => i = j
    BY <1>3, <2>1, StillOnce DEF SpawnInv
  <2>2. QED
    BY <1>2, <1>4, <2>1 DEF Separate
<1>13. Unspawned(all)' /\ InStep(all)' /\ Attended' /\ Present' /\ ReadEarly(all)'
  BY <1>5, <1>6 DEF Unspawned, InStep, Attended, Present, ReadEarly
<1>14. Welcomed(all)'
  BY <1>2, <1>5, <1>7 DEF NumberInv, Welcomed
<1>15. Acked(all)'
  BY <1>2, <1>4 DEF NumberInv, Acked, Counted
<1>16. Numbered' /\ BeforeAdoption(all)'
  BY <1>2, <1>5 DEF NumberInv, Numbered, BeforeAdoption
<1>17. QED
  BY <1>8, <1>9, <1>10, <1>11, <1>12, <1>13, <1>14, <1>15, <1>16 DEF SpawnInv, NumberInv

-----------------------------------------------------------------------------
(***************************************************************************)
(* Restarts, and the connection after them.                                *)
(***************************************************************************)
LEMMA CoordinatorRestartKeeps ==
    ASSUME TypeInv, TypeInv', CommandInv, CommandInv', NEW all \in BOOLEAN,
           OutputInv(all), UNCHANGED agentVars, CoordinatorRestart
    PROVE  OutputInv(all)'
<1> USE DEF OutputInv
<1>1. WireTypeOK /\ ManagerTypeOK /\ ManagerTypeOK' /\ AgentTypeOK
  BY DEF TypeInv, AgentInv
<1>2. /\ instanceId' = instanceId + 1 /\ adoptable' \in SUBSET used /\ used' = used
      /\ ~linkSocket' /\ toCoord' = <<>> /\ toHost' = toHost /\ ~online'
      /\ hostInstanceId' = 0 /\ unacked' = <<>> /\ started' = {}
      /\ remote' = [p \in Procs |-> "none"]
      /\ lastEventSeq' = [p \in Procs |-> 0] /\ pendingAcks' = [p \in Procs |-> 0]
      /\ UNCHANGED <<phase, nextSeq, coordinatorInstanceId, appliedCommandSeq, agentId>>
  BY DEF CoordinatorRestart, agentVars
<1>3. /\ Live' = {} /\ Hosted' = Hosted /\ \A p : Reports(p)' = {}
      /\ \A i : Fresh(toHost[i])' = Fresh(toHost[i])
  BY <1>2, NodeStays DEF Live, Reports, Fresh, Reached
<1>4. ~Known' /\ ~Joined'
  BY <1>1, <1>2 DEF Known, Joined, AgentTypeOK
<1>5. \A i \in DOMAIN toHost' : toHost'[i].t = "welcome" => toHost'[i].coord # instanceId'
  <2>1. ASSUME NEW i \in DOMAIN toHost, toHost[i].t = "welcome"
        PROVE  toHost[i].coord # instanceId + 1
    <3>1. toHost[i].coord \in 1..instanceId
      BY <2>1 DEF CommandInv, DriverInv, Sources, Marked, From
    <3>2. instanceId \in Nat
      BY QueueFrames, <1>1
    <3>3. QED
      BY <3>1, <3>2
  <2>2. QED
    BY <1>2, <2>1
<1>6. MeetInv'
  <2>1. HelloFirst' /\ HelloLists' /\ Replaced' /\ Unmet' /\ Fellow'
    BY <1>2 DEF HelloFirst, HelloLists, Replaced, Unmet, Fellow
  <2>2. OneWelcome'
    BY <1>2 DEF MeetInv, OneWelcome
  <2>3. QED
    BY <2>1, <2>2 DEF MeetInv
<1>7. Shape(all)' /\ Parented'
  BY NodeStays
<1>8. SpawnInv(all)'
  <2>1. Unused'
    BY <1>2, <1>3 DEF SpawnInv, Unused
  <2>2. LiveOnly'
    BY <1>1, <1>2, <1>3 DEF LiveOnly, ManagerTypeOK
  <2>3. Separate' /\ Unspawned(all)'
    BY <1>2, <1>3 DEF Separate, Unspawned
  <2>4. QED
    BY <2>1, <2>2, <2>3 DEF SpawnInv
<1>9. Welcomed(all)'
  BY <1>2, <1>3, <1>5 DEF NumberInv, Welcomed
<1>10. Acked(all)'
  BY <1>2, <1>3 DEF NumberInv, Acked, Counted
<1>11. Numbered' /\ BeforeAdoption(all)' /\ ReadEarly(all)' /\ InStep(all)' /\ Attended' /\ Present'
  BY <1>2, <1>3, <1>4 DEF Numbered, BeforeAdoption, ReadEarly, InStep, Attended, Present
<1>12. QED
  BY <1>6, <1>7, <1>8, <1>9, <1>10, <1>11 DEF NumberInv

LEMMA NodeRestartKeeps ==
    ASSUME TypeInv, TypeInv', CommandInv, CommandInv', NEW all \in BOOLEAN,
           OutputInv(all), UNCHANGED managerVars, NodeRestart
    PROVE  OutputInv(all)'
<1> USE DEF OutputInv
<1>1. WireTypeOK /\ ManagerTypeOK /\ AgentTypeOK
  BY DEF TypeInv, AgentInv
<1>2. /\ agentId' = agentId + 1 /\ toHost' = <<>> /\ coordinatorInstanceId' = 0
      /\ UNCHANGED <<linkSocket, toCoord>>
      /\ phase' = [p \in Procs |-> "absent"] /\ nextSeq' = [p \in Procs |-> 1]
      /\ pending' = [p \in Procs |-> <<>>] /\ unfinishedLine' = [p \in Procs |-> {}]
      /\ replaying' = {}
      /\ UNCHANGED <<instanceId, online, hostInstanceId, unacked, remote, started>>
      /\ UNCHANGED <<lastEventSeq, used, adoptable, pendingAcks>>
  BY DEF NodeRestart, managerVars, linkVars, queueVars, processVars
<1>3. /\ Live' = Live /\ Hosted' = {} /\ \A p : Reports(p)' = Reports(p)
      /\ \A p : Counted(p, all)' = Counted(p, all)
  BY <1>2, ReportsStay DEF Live, Hosted, Counted
<1>4. ~Known' /\ ~Joined' /\ ~Near'
  <2>1. agentId \in Nat /\ agentId # 0 /\ hostInstanceId \in Nat
    BY <1>1 DEF AgentTypeOK, ManagerTypeOK
  <2>2. hostInstanceId <= agentId
    BY DEF CommandInv, Hellos
  <2>3. ~Known' /\ ~Joined'
    BY <1>2, <2>1, <2>2 DEF Known, Joined
  <2>4. ~Greeted'
    BY <1>2, <2>1 DEF Greeted, CommandInv, Hellos
  <2>5. QED
    BY <2>3, <2>4 DEF Near
<1>5. MeetInv'
  <2>1. HelloFirst' /\ Replaced' /\ Unmet' /\ Fellow' /\ OneWelcome'
    BY <1>2 DEF MeetInv, HelloFirst, Replaced, Unmet, Fellow, OneWelcome
  <2>2. HelloLists'
    BY <1>4 DEF HelloLists, Near, Greeted
  <2>3. QED
    BY <2>1, <2>2 DEF MeetInv
<1>6. Shape(all)'
  BY <1>2 DEF Shape
<1>7. Parented'
  BY <1>2, <1>3 DEF Parented
<1>8. SpawnInv(all)'
  <2>1. Unused' /\ LiveOnly' /\ Separate'
    BY <1>2, <1>3 DEF SpawnInv, Unused, LiveOnly, Separate
  <2>2. Unspawned(all)'
    BY <1>4 DEF Unspawned
  <2>3. QED
    BY <2>1, <2>2 DEF SpawnInv
<1>9. Welcomed(all)' /\ Acked(all)'
  BY <1>2, <1>3 DEF NumberInv, Welcomed, Acked
<1>10. Numbered'
  BY <1>2, <1>4 DEF NumberInv, Numbered
<1>11. BeforeAdoption(all)' /\ ReadEarly(all)' /\ InStep(all)' /\ Attended' /\ Present'
  BY <1>3, <1>4 DEF BeforeAdoption, ReadEarly, InStep, Attended, Present
<1>12. QED
  BY <1>5, <1>6, <1>7, <1>8, <1>9, <1>10, <1>11 DEF NumberInv

LEMMA ConnectKeeps ==
    ASSUME TypeInv, TypeInv', CommandInv, CommandInv', NEW all \in BOOLEAN,
           OutputInv(all), Connect
    PROVE  OutputInv(all)'
<1> USE DEF OutputInv
<1>1. WireTypeOK /\ ManagerTypeOK /\ AgentTypeOK
  BY DEF TypeInv, AgentInv
<1>2. /\ linkSocket' /\ pendingAcks' = [p \in Procs |-> 0]
      /\ toHost' = <<>> /\ toCoord' = <<HelloMessage>> /\ UNCHANGED agentVars
      /\ UNCHANGED <<phase, nextSeq, coordinatorInstanceId, appliedCommandSeq, agentId>>
      /\ UNCHANGED <<instanceId, online, hostInstanceId, unacked, remote, started>>
      /\ UNCHANGED <<lastEventSeq, used, adoptable>>
  BY DEF Connect, Attach, agentVars, linkVars, queueVars, processVars
<1>3. /\ DOMAIN toCoord' = {1} /\ toCoord' # <<>> /\ toCoord'[1].t = "hello"
      /\ toCoord'[1].inst = agentId /\ toCoord'[1].procs = Hosted
  BY <1>2 DEF HelloMessage
<1>4. /\ Live' = Live /\ Hosted' = Hosted /\ \A p : Reports(p)' = {}
      /\ \A p : Counted(p, all)' = Counted(p, all)
      /\ \A p : FirstPending(p)' = FirstPending(p)
      /\ Known' = Known /\ Joined' = Joined /\ Foreign' = Foreign
      /\ Reached(instanceId)' = Reached(instanceId)
  BY <1>2, <1>3, NodeStays DEF Live, Counted, Reports
<1>5. MeetInv'
  <2>1. HelloFirst'
    BY <1>1, <1>2, <1>3 DEF HelloFirst, AgentTypeOK
  <2>2. HelloLists'
    BY <1>2, <1>3, <1>4 DEF HelloLists
  <2>3. Replaced' /\ Unmet' /\ Fellow' /\ OneWelcome'
    BY <1>2 DEF MeetInv, Replaced, Unmet, Fellow, OneWelcome
  <2>4. QED
    BY <2>1, <2>2, <2>3 DEF MeetInv
<1>6. Shape(all)' /\ Parented'
  BY <1>2, NodeStays
<1>7. SpawnInv(all)'
  <2>1. Unused' /\ LiveOnly' /\ Separate' /\ Unspawned(all)'
    BY <1>2, <1>4 DEF SpawnInv, Unused, LiveOnly, Separate, Unspawned
  <2>2. QED
    BY <2>1 DEF SpawnInv
<1>8. Welcomed(all)'
  BY <1>2 DEF Welcomed
<1>9. Acked(all)'
  BY <1>1, <1>2 DEF Acked, ManagerTypeOK
<1>10. Numbered' /\ BeforeAdoption(all)' /\ ReadEarly(all)'
  BY <1>2, <1>3, <1>4 DEF NumberInv, Numbered, BeforeAdoption, ReadEarly
<1>11. InStep(all)' /\ Attended' /\ (all => Present')
  BY <1>2, <1>4 DEF NumberInv, InStep, Attended, Present
<1>12. QED
  BY <1>5, <1>6, <1>7, <1>8, <1>9, <1>10, <1>11 DEF NumberInv

-----------------------------------------------------------------------------
(***************************************************************************)
(* What the node reports.                                                  *)
(***************************************************************************)
\* Behind what is on its way come events of q, numbered from first, and no hello.
Reported(q, first, events) ==
    /\ \A i \in DOMAIN toCoord : i \in DOMAIN toCoord' /\ toCoord'[i] = toCoord[i]
    /\ \A i \in DOMAIN toCoord' :
          \/ i \in DOMAIN toCoord
          \/ /\ i > Len(toCoord) /\ toCoord'[i].t # "hello"
             /\ toCoord'[i].t = "event" => \E k \in DOMAIN events :
                   /\ toCoord'[i].proc = q /\ toCoord'[i].seq = first + k - 1
                   /\ toCoord'[i].event = events[k]
    /\ toCoord' = toCoord \/ (agentSocket /\ paired)

LEMMA EventsReported ==
    ASSUME WireTypeOK, NEW q \in Procs, NEW first \in Nat \ {0}, NEW events \in Seq(Event),
           NEW rest \in Seq(CommandAck),
           HostSends(EventMessages(q, first, events) \o rest)
    PROVE  Reported(q, first, events)
<1> DEFINE msgs == EventMessages(q, first, events)
<1>1. msgs \in Seq(HostToCoordinator)
  BY EventMessagesType
<1>2. /\ DOMAIN msgs = DOMAIN events
      /\ \A k \in DOMAIN events :
            /\ msgs[k].t = "event" /\ msgs[k].proc = q /\ msgs[k].seq = first + k - 1
            /\ msgs[k].event = events[k]
  BY DEF EventMessages
<1>3. HostSends(msgs \o rest)
  OBVIOUS
<1> HIDE DEF msgs
<1>4. rest \in Seq(HostToCoordinator) /\ \A k \in DOMAIN rest : rest[k].t = "command_ack"
  <2>1. \A m \in CommandAck : m \in HostToCoordinator /\ m.t = "command_ack"
    BY DEF HostToCoordinator, CommandAck
  <2>2. \A k \in DOMAIN rest : rest[k] \in CommandAck
    OBVIOUS
  <2>3. rest \in Seq(HostToCoordinator)
    BY <2>1, <2>2
  <2>4. QED
    BY <2>1, <2>2, <2>3
<1> DEFINE sent == msgs \o rest
<1>5. /\ sent \in Seq(HostToCoordinator)
      /\ \A k \in DOMAIN sent :
            \/ k \in DOMAIN msgs /\ sent[k] = msgs[k]
            \/ sent[k].t = "command_ack"
  <2>1. /\ sent \in Seq(HostToCoordinator) /\ Len(msgs) \in Nat /\ Len(rest) \in Nat
        /\ DOMAIN sent = 1..Len(msgs) + Len(rest)
        /\ DOMAIN msgs = 1..Len(msgs) /\ DOMAIN rest = 1..Len(rest)
        /\ \A k \in 1..Len(msgs) : sent[k] = msgs[k]
        /\ \A k \in 1..Len(rest) : sent[Len(msgs) + k] = rest[k]
    BY <1>1, <1>4
  <2>2. ASSUME NEW k \in DOMAIN sent, k \notin DOMAIN msgs PROVE sent[k].t = "command_ack"
    <3>1. k - Len(msgs) \in DOMAIN rest /\ Len(msgs) + (k - Len(msgs)) = k
      BY <2>1, <2>2
    <3>2. QED
      BY <1>4, <2>1, <3>1
  <2>3. QED
    BY <2>1, <2>2
<1>6. HostSends(sent)
  BY <1>3
<1> HIDE DEF sent
<1>7. CASE toCoord' = toCoord
  BY <1>7 DEF Reported
<1>8. CASE /\ agentSocket /\ paired
           /\ \A i \in DOMAIN toCoord : i \in DOMAIN toCoord' /\ toCoord'[i] = toCoord[i]
           /\ DOMAIN toCoord' = 1..Len(toCoord) + Len(sent) /\ Len(sent) \in Nat
           /\ \A i \in DOMAIN toCoord' : i > Len(toCoord) =>
                 /\ i - Len(toCoord) \in DOMAIN sent
                 /\ toCoord'[i] = sent[i - Len(toCoord)]
  <2>1. ASSUME NEW i \in DOMAIN toCoord', i \notin DOMAIN toCoord
        PROVE  i > Len(toCoord) /\ \E k \in DOMAIN sent : toCoord'[i] = sent[k]
    <3>1. DOMAIN toCoord = 1..Len(toCoord) /\ Len(toCoord) \in Nat
      BY CoordFrames
    <3>2. i \in 1..Len(toCoord) + Len(sent) /\ i \notin 1..Len(toCoord)
      BY <1>8, <2>1, <3>1
    <3>3. i > Len(toCoord)
      BY <1>8, <3>1, <3>2
    <3>4. QED
      BY <1>8, <3>3
  <2>2. ASSUME NEW k \in DOMAIN sent
        PROVE  /\ sent[k].t # "hello"
               /\ sent[k].t = "event" => \E j \in DOMAIN events :
                     /\ sent[k].proc = q /\ sent[k].seq = first + j - 1
                     /\ sent[k].event = events[j]
    BY <1>2, <1>5
  <2>3. ASSUME NEW i \in DOMAIN toCoord', i \notin DOMAIN toCoord
        PROVE  /\ i > Len(toCoord) /\ toCoord'[i].t # "hello"
               /\ toCoord'[i].t = "event" => \E k \in DOMAIN events :
                     /\ toCoord'[i].proc = q /\ toCoord'[i].seq = first + k - 1
                     /\ toCoord'[i].event = events[k]
    <3>1. PICK k \in DOMAIN sent : toCoord'[i] = sent[k]
      BY <2>1, <2>3
    <3>2. i > Len(toCoord)
      BY <2>1, <2>3
    <3>3. QED
      BY <2>2, <3>1, <3>2
  <2>4. QED
    BY <1>8, <2>3 DEF Reported
<1>9. QED
  BY <1>5, <1>6, <1>7, <1>8, ReportedBehind

LEMMA ReportsGrow ==
    ASSUME WireTypeOK, WireTypeOK', NEW q, NEW first, NEW events,
           Reported(q, first, events)
    PROVE  /\ \A p : p # q => Reports(p)' = Reports(p)
           /\ \A p, i : i \in Reports(p) => i \in Reports(p)' /\ toCoord'[i] = toCoord[i]
           /\ \A p : \A i \in Reports(p)' :
                 \/ i \in Reports(p)
                 \/ /\ i > Len(toCoord) /\ p = q
                    /\ \E k \in DOMAIN events : /\ toCoord'[i].seq = first + k - 1
                                                /\ toCoord'[i].event = events[k]
           /\ \A p : lastEventSeq'[p] = lastEventSeq[p] =>
                 \A i \in Reports(p) : Dead(p, i) => Dead(p, i)'
<1>1. DOMAIN toCoord = 1..Len(toCoord) /\ Len(toCoord) \in Nat
  BY CoordFrames
<1>2. \A p, i : i \in Reports(p) => i \in Reports(p)' /\ toCoord'[i] = toCoord[i]
  BY DEF Reported, Reports
<1>3. ASSUME NEW p, NEW i \in Reports(p)', i \notin Reports(p)
      PROVE  /\ i > Len(toCoord) /\ p = q
             /\ \E k \in DOMAIN events : /\ toCoord'[i].seq = first + k - 1
                                         /\ toCoord'[i].event = events[k]
  <2>1. i \in DOMAIN toCoord' /\ toCoord'[i].t = "event" /\ toCoord'[i].proc = p
    BY DEF Reports
  <2>2. i \notin DOMAIN toCoord
    BY <1>3, <2>1 DEF Reported, Reports
  <2>3. QED
    BY <2>1, <2>2 DEF Reported
<1>4. ASSUME NEW p, lastEventSeq'[p] = lastEventSeq[p], NEW i \in Reports(p), Dead(p, i)
      PROVE  Dead(p, i)'
  <2>1. ASSUME NEW k \in Reports(p)', k <= i PROVE toCoord'[k].seq # 1
    <3>1. i \in 1..Len(toCoord)
      BY <1>1 DEF Reports
    <3>2. CASE k \in Reports(p)
      BY <1>2, <1>4, <2>1, <3>2 DEF Dead
    <3>3. CASE k \notin Reports(p)
      <4>1. k > Len(toCoord) /\ k \in DOMAIN toCoord'
        BY <1>3, <3>3 DEF Reports
      <4>2. k \notin DOMAIN toCoord
        BY <1>1, <4>1
      <4>3. k \in Nat
        BY <2>1 DEF WireTypeOK, Reports
      <4>4. QED
        BY <1>1, <2>1, <3>1, <4>1, <4>3
    <3>4. QED
      BY <3>2, <3>3
  <2>2. QED
    BY <1>4, <2>1 DEF Dead
<1>5. QED
  BY <1>2, <1>3, <1>4

\* Reports leave the two ends' acquaintance alone.
LEMMA ReportedMeets ==
    ASSUME TypeInv, TypeInv', CommandInv, CommandInv', MeetInv,
           NEW q, NEW first, NEW events, Reported(q, first, events),
           UNCHANGED managerVars, UNCHANGED <<linkSocket, agentId, coordinatorInstanceId>>,
           HostCarried(0) \/ HostCarried(1), Foreign /\ Greeted => Hosted' = Hosted
    PROVE  MeetInv'
<1>1. DOMAIN toCoord = 1..Len(toCoord) /\ Len(toCoord) \in Nat
  BY CoordFrames DEF TypeInv
<1>2. HelloCarried(0)
  <2>1. \A i \in DOMAIN toCoord' : toCoord'[i].t = "hello" =>
           i + 0 \in DOMAIN toCoord /\ toCoord'[i] = toCoord[i + 0]
    BY <1>1 DEF Reported
  <2>2. \A j \in DOMAIN toCoord : j - 0 \in DOMAIN toCoord' /\ toCoord'[j - 0] = toCoord[j]
    BY <1>1 DEF Reported
  <2>3. ~linkSocket => toCoord' = <<>>
    BY DEF Reported, MeetInv, HelloFirst, CommandInv, DriverInv, Ends
  <2>4. QED
    BY <2>1, <2>2, <2>3 DEF HelloCarried
<1>3. \E e \in Nat : HostCarried(e)
  OBVIOUS
<1>4. UNCHANGED <<instanceId, hostInstanceId, online, lastEventSeq, pendingAcks>>
  BY DEF managerVars, linkVars, processVars
<1>5. Meets
  BY <1>2, <1>3, <1>4 DEF Meets, MeetInv, Unmet, HelloFirst, CommandInv, DriverInv, Ends
<1>6. QED
  BY <1>5, MeetsKept

\* A process goes on only by new events, and reports what it kept or keeps.
Progress(q, first, events, all) ==
    /\ Hosted' = Hosted /\ q \in Hosted
    /\ \A p \in Procs :
         /\ FirstPending(p)' = FirstPending(p) /\ nextSeq[p] <= nextSeq'[p]
         /\ phase'[p] = "exited" =>
               \/ phase[p] = "exited" /\ nextSeq'[p] = nextSeq[p]
               \/ nextSeq[p] < nextSeq'[p]
         /\ phase[p] \in {"absent", "exited"} => phase'[p] \in {"absent", "exited"}
         /\ phase'[p] # "exited" => phase[p] # "exited"
    /\ FirstPending(q) <= first
    /\ \A k \in DOMAIN events :
         /\ events[k].kind = "spawned" => first + k - 1 = 1
         /\ events[k].kind = "exit" => phase'[q] = "exited"
         /\ first + k - 1 < nextSeq'[q]
         /\ all /\ phase'[q] = "exited" /\ events[k].kind # "exit" => first + k < nextSeq'[q]

LEMMA ProgressKeeps ==
    ASSUME TypeInv, TypeInv', CommandInv, CommandInv', NEW all \in BOOLEAN,
           OutputInv(all), Shape(all)', Parented',
           UNCHANGED managerVars, UNCHANGED <<linkSocket, toHost>>,
           UNCHANGED <<agentId, coordinatorInstanceId, appliedCommandSeq>>,
           NEW q \in Procs, NEW first \in Nat \ {0}, NEW events \in Seq(Event),
           Reported(q, first, events), Progress(q, first, events, all)
    PROVE  OutputInv(all)'
<1> USE DEF OutputInv
<1>1. /\ WireTypeOK /\ ManagerTypeOK /\ AgentTypeOK
      /\ WireTypeOK' /\ ManagerTypeOK' /\ AgentTypeOK'
  BY DEF TypeInv, AgentInv
<1>2. /\ UNCHANGED <<instanceId, online, hostInstanceId, unacked, remote, started>>
      /\ UNCHANGED <<lastEventSeq, used, adoptable, pendingAcks>>
      /\ Hosted' = Hosted /\ q \in Hosted
  BY DEF managerVars, linkVars, queueVars, processVars, Progress
<1>3. /\ \A p : p # q => Reports(p)' = Reports(p)
      /\ \A p, i : i \in Reports(p) => i \in Reports(p)' /\ toCoord'[i] = toCoord[i]
      /\ \A p : \A i \in Reports(p)' :
            \/ i \in Reports(p)
            \/ /\ i > Len(toCoord) /\ p = q
               /\ \E k \in DOMAIN events : /\ toCoord'[i].seq = first + k - 1
                                           /\ toCoord'[i].event = events[k]
      /\ \A p : \A i \in Reports(p) : Dead(p, i) => Dead(p, i)'
  BY <1>1, <1>2, ReportsGrow
<1>4. /\ Known' = Known /\ Foreign' = Foreign /\ Joined' = Joined
      /\ Reached(instanceId)' = Reached(instanceId)
      /\ \A i : Fresh(toHost[i])' = Fresh(toHost[i])
      /\ Live' = Live
      /\ \A p : Counted(p, all)' = Counted(p, all)
  BY <1>2 DEF Known, Foreign, Joined, Reached, Fresh, Live, Counted
<1>5. Near' => Near
  BY <1>2, <1>4 DEF Near, Greeted, Reported
<1>6. MeetInv'
  <2>1. HostCarried(0)
    BY <1>1, HostKinds
  <2>2. QED
    BY <1>2, <2>1, ReportedMeets
<1>7. SpawnInv(all)'
  <2>1. Unused'
    BY <1>2, <1>3 DEF SpawnInv, Unused
  <2>2. LiveOnly' /\ Separate'
    BY <1>2, <1>4 DEF SpawnInv, LiveOnly, Separate
  <2>3. Unspawned(all)'
    BY <1>2, <1>3, <1>4 DEF SpawnInv, Unspawned
  <2>4. QED
    BY <2>1, <2>2, <2>3 DEF SpawnInv
<1>8. ASSUME NEW p \in Procs, NEW n \in Nat, n < nextSeq[p]
      PROVE  /\ n < nextSeq'[p]
             /\ (phase[p] = "exited" => n + 1 < nextSeq[p]) =>
                   (phase'[p] = "exited" => n + 1 < nextSeq'[p])
  <2>1. nextSeq[p] \in Nat /\ nextSeq'[p] \in Nat
    BY <1>1 DEF AgentTypeOK
  <2>2. QED
    BY <1>8, <2>1 DEF Progress
<1>9. ASSUME NEW p \in Procs, NEW i \in Reports(p), Given(p, i, all)
      PROVE  Given(p, i, all)'
  <2>1. toCoord'[i] = toCoord[i] /\ toCoord[i].seq \in Nat
    <3>1. toCoord[i] \in EventMsg
      BY <1>1, CoordFrames, CoordinatorFrame DEF Reports
    <3>2. QED
      BY <1>3, <3>1 DEF EventMsg
  <2>2. QED
    BY <1>8, <1>9, <2>1 DEF Given
<1>10. ASSUME NEW i \in Reports(q)', i \notin Reports(q)
       PROVE  Given(q, i, all)' /\ FirstPending(q)' <= toCoord'[i].seq
  <2>1. PICK k \in DOMAIN events :
           toCoord'[i].seq = first + k - 1 /\ toCoord'[i].event = events[k]
    BY <1>3, <1>10
  <2>2. k \in Nat \ {0}
    OBVIOUS
  <2>3. Given(q, i, all)'
    <3>1. toCoord'[i].seq + 1 = first + k
      BY <2>1, <2>2
    <3>2. QED
      BY <2>1, <3>1 DEF Progress, Given
  <2>4. FirstPending(q)' <= toCoord'[i].seq
    <3>1. FirstPending(q) \in Nat
      BY DEF FirstPending, TypeInv, AgentInv, AgentTypeOK
    <3>2. QED
      BY <2>1, <2>2, <3>1 DEF Progress
  <2>5. QED
    BY <2>3, <2>4
<1>11. Welcomed(all)'
  <2>1. ASSUME all, NEW i \in DOMAIN toHost, toHost[i].t = "welcome",
               toHost[i].coord = coordinatorInstanceId,
               NEW p \in toHost[i].listed \cap Hosted
        PROVE  /\ toHost[i].received[p] < nextSeq'[p]
               /\ phase'[p] = "exited" => toHost[i].received[p] + 1 < nextSeq'[p]
    <3>1. toHost[i].received[p] \in Nat /\ p \in Procs
      <4>1. toHost[i] \in Welcome /\ p \in Procs
        BY <1>1, <2>1, HostFrames, HostFrame DEF Hosted
      <4>2. QED
        BY <4>1 DEF Welcome
    <3>2. /\ toHost[i].received[p] < nextSeq[p]
          /\ phase[p] = "exited" => toHost[i].received[p] + 1 < nextSeq[p]
      BY <2>1 DEF NumberInv, Welcomed
    <3>3. QED
      BY <1>8, <3>1, <3>2
  <2>2. ASSUME NEW i \in DOMAIN toHost, toHost[i].t = "welcome",
               toHost[i].coord = instanceId
        PROVE  \A p \in toHost[i].listed \cap Hosted : phase'[p] # "exited" => p \in Live
    BY <2>2 DEF NumberInv, Welcomed, Progress, Hosted
  <2>3. QED
    BY <1>2, <1>4, <2>1, <2>2 DEF NumberInv, Welcomed
<1>12. Acked(all)'
  BY <1>2, <1>4 DEF NumberInv, Acked
<1>13. Numbered'
  <2>1. ASSUME NEW i \in DOMAIN toCoord', toCoord'[i].t = "event"
        PROVE  /\ toCoord'[i].seq # 0
               /\ toCoord'[i].event.kind = "spawned" => toCoord'[i].seq = 1
               /\ Near' /\ toCoord'[i].event.kind = "exit" =>
                     phase'[toCoord'[i].proc] \in {"absent", "exited"}
    <3>1. CASE i \in DOMAIN toCoord
      <4>1. toCoord'[i] = toCoord[i]
        BY <3>1 DEF Reported
      <4>2. toCoord[i].proc \in Procs
        <5>1. toCoord[i] \in EventMsg
          BY <1>1, <2>1, <3>1, <4>1, CoordFrames, CoordinatorFrame
        <5>2. QED
          BY <5>1 DEF EventMsg
      <4>3. QED
        BY <1>5, <2>1, <3>1, <4>1, <4>2 DEF NumberInv, Numbered, Progress
    <3>2. CASE i \notin DOMAIN toCoord
      <4>1. PICK k \in DOMAIN events :
               /\ toCoord'[i].proc = q /\ toCoord'[i].seq = first + k - 1
               /\ toCoord'[i].event = events[k]
        BY <2>1, <3>2 DEF Reported
      <4>2. k \in Nat \ {0}
        OBVIOUS
      <4>3. QED
        BY <4>1, <4>2 DEF Progress
    <3>3. QED
      BY <3>1, <3>2
  <2>2. QED
    BY <2>1 DEF Numbered
<1>14. BeforeAdoption(all)'
  <2>1. ASSUME Foreign, Near, NEW p \in Procs, NEW i \in Reports(p)'
        PROVE  p \in Hosted /\ FirstPending(p)' <= toCoord'[i].seq /\ Given(p, i, all)'
    <3>1. CASE i \in Reports(p)
      BY <1>3, <1>9, <2>1, <3>1 DEF NumberInv, BeforeAdoption, Progress
    <3>2. CASE i \notin Reports(p)
      BY <1>2, <1>3, <1>10, <3>2
    <3>3. QED
      BY <3>1, <3>2
  <2>2. QED
    BY <1>2, <1>4, <1>5, <2>1 DEF BeforeAdoption
<1>15. ReadEarly(all)'
  <2>1. ASSUME Foreign, Known, NEW p \in Hosted, Counted(p, all), lastEventSeq[p] # 0
        PROVE  FirstPending(p)' = 1 /\ lastEventSeq[p] < nextSeq'[p]
    <3>1. p \in Procs /\ lastEventSeq[p] \in Nat
      BY <1>1 DEF Hosted, ManagerTypeOK
    <3>2. FirstPending(p) = 1 /\ lastEventSeq[p] < nextSeq[p]
      BY <2>1 DEF NumberInv, ReadEarly
    <3>3. QED
      BY <1>8, <3>1, <3>2 DEF Progress
  <2>2. QED
    BY <1>2, <1>4, <2>1 DEF ReadEarly
<1>16. InStep(all)'
  <2>1. ASSUME Joined, NEW p \in Hosted, Counted(p, all)
        PROVE  /\ FirstPending(p)' <= lastEventSeq[p] + 1 /\ lastEventSeq[p] < nextSeq'[p]
               /\ \A i \in Reports(p)' : Dead(p, i)' \/ Given(p, i, all)'
    <3>1. p \in Procs /\ lastEventSeq[p] \in Nat
      BY <1>1 DEF Hosted, ManagerTypeOK
    <3>2. /\ FirstPending(p) <= lastEventSeq[p] + 1 /\ lastEventSeq[p] < nextSeq[p]
          /\ \A i \in Reports(p) : Dead(p, i) \/ Given(p, i, all)
      BY <2>1 DEF NumberInv, InStep
    <3>3. \A i \in Reports(p)' : Dead(p, i)' \/ Given(p, i, all)'
      BY <1>3, <1>9, <1>10, <3>1, <3>2
    <3>4. QED
      BY <1>8, <3>1, <3>2, <3>3 DEF Progress
  <2>2. QED
    BY <1>2, <1>4, <2>1 DEF InStep
<1>17. Attended'
  BY <1>2, <1>4 DEF NumberInv, Attended, Progress, Hosted
<1>18. ASSUME all PROVE Present'
  <2>1. ASSUME Known, NEW p \in Live \cap Hosted, phase'[p] = "exited"
        PROVE  lastEventSeq[p] + 1 < nextSeq'[p]
    <3>1. /\ p \in Procs /\ lastEventSeq[p] \in Nat
          /\ nextSeq[p] \in Nat \ {0} /\ nextSeq'[p] \in Nat
      BY <1>1 DEF Hosted, ManagerTypeOK, AgentTypeOK
    <3>2. Counted(p, all)
      BY <1>18 DEF Counted
    <3>3. lastEventSeq[p] < nextSeq[p]
      <4>1. CASE lastEventSeq[p] = 0
        BY <3>1, <4>1
      <4>2. CASE lastEventSeq[p] # 0 /\ Foreign
        BY <2>1, <3>2, <4>2 DEF NumberInv, ReadEarly
      <4>3. CASE ~Foreign
        BY <2>1, <3>2, <4>3 DEF NumberInv, InStep, Joined, Foreign, Known
      <4>4. QED
        BY <4>1, <4>2, <4>3
    <3>4. phase[p] = "exited" => lastEventSeq[p] + 1 < nextSeq[p]
      BY <1>18, <2>1 DEF NumberInv, Present
    <3>5. QED
      BY <1>8, <2>1, <3>1, <3>3, <3>4
  <2>2. ASSUME Known, NEW p \in Live \ Hosted PROVE Reports(p)' = {}
    BY <1>2, <1>3, <1>18, <2>2 DEF NumberInv, Present
  <2>3. QED
    BY <1>2, <1>4, <1>18, <2>1, <2>2 DEF NumberInv, Present
<1>19. QED
  BY <1>6, <1>7, <1>11, <1>12, <1>13, <1>14, <1>15, <1>16, <1>17, <1>18 DEF NumberInv

LEMMA ReplayKeeps ==
    ASSUME TypeInv, TypeInv', CommandInv, CommandInv', NEW all \in BOOLEAN,
           OutputInv(all), UNCHANGED managerVars, NEW q \in Procs, Replay(q)
    PROVE  OutputInv(all)'
<1> USE DEF OutputInv
<1>1. /\ WireTypeOK /\ ManagerTypeOK /\ AgentTypeOK
      /\ Len(pending[q]) < nextSeq[q]
  BY DEF TypeInv, AgentInv
<1>2. /\ UNCHANGED <<linkSocket, toHost, agentId, coordinatorInstanceId, appliedCommandSeq>>
      /\ UNCHANGED <<phase, nextSeq, pending, unfinishedLine>>
      /\ q \in replaying /\ replaying' = replaying \ {q}
      /\ HostSends(EventMessages(q, FirstPending(q), pending[q]))
  BY DEF Replay, OnlyReports
<1>3. /\ Shape(all)' /\ Hosted' = Hosted /\ \A p : FirstPending(p)' = FirstPending(p)
  BY <1>2 DEF Shape, Hosted, FirstPending
<1>4. Parented' /\ q \in Hosted
  BY <1>2, <1>3 DEF Parented
<1>5. /\ pending[q] \in Seq(Event) /\ nextSeq[q] \in Nat \ {0}
      /\ FirstPending(q) \in Nat \ {0}
      /\ nextSeq[q] = FirstPending(q) + Len(pending[q]) /\ Len(pending[q]) \in Nat
      /\ DOMAIN pending[q] = 1..Len(pending[q])
  <2>1. pending[q] \in Seq(Event) /\ nextSeq[q] \in Nat \ {0}
    BY <1>1 DEF AgentTypeOK
  <2>2. Len(pending[q]) \in Nat /\ DOMAIN pending[q] = 1..Len(pending[q])
    BY <2>1
  <2>3. QED
    BY <1>1, <2>1, <2>2 DEF FirstPending
<1>6. Reported(q, FirstPending(q), pending[q])
  <2> DEFINE msgs == EventMessages(q, FirstPending(q), pending[q])
  <2>1. msgs \in Seq(HostToCoordinator)
    BY <1>5, EventMessagesType
  <2>2. HostSends(msgs)
    BY <1>2
  <2> HIDE DEF msgs
  <2>3. msgs \o <<>> = msgs /\ <<>> \in Seq(CommandAck)
    BY <2>1
  <2>4. HostSends(msgs \o <<>>)
    BY <2>2, <2>3
  <2>5. QED
    BY <1>1, <1>5, <2>3, <2>4, EventsReported DEF msgs
<1>7. Progress(q, FirstPending(q), pending[q], all)
  <2>1. \A p \in Procs : nextSeq[p] \in Nat
    BY <1>1 DEF AgentTypeOK
  <2>2. ASSUME NEW k \in DOMAIN pending[q]
        PROVE  /\ pending[q][k].kind = "spawned" => FirstPending(q) + k - 1 = 1
               /\ pending[q][k].kind = "exit" => phase'[q] = "exited"
               /\ FirstPending(q) + k - 1 < nextSeq'[q]
               /\ all /\ phase'[q] = "exited" /\ pending[q][k].kind # "exit" =>
                     FirstPending(q) + k < nextSeq'[q]
    <3>1. /\ pending[q][k].kind = "spawned" => k = 1 /\ FirstPending(q) = 1
          /\ pending[q][k].kind = "exit" => phase[q] = "exited"
          /\ all /\ phase[q] = "exited" /\ pending[q][k].kind # "exit" => k < Len(pending[q])
      BY DEF Shape
    <3>2. k \in 1..Len(pending[q])
      BY <1>5
    <3>3. QED
      BY <1>2, <1>5, <3>1, <3>2
  <2>3. QED
    BY <1>2, <1>3, <1>4, <1>5, <2>1, <2>2 DEF Progress
<1>8. QED
  BY <1>2, <1>3, <1>4, <1>5, <1>6, <1>7, ProgressKeeps

\* A process emits: its start, its output, or its end.
LEMMA EmitKeeps ==
    ASSUME TypeInv, TypeInv', CommandInv, CommandInv', NEW all \in BOOLEAN,
           OutputInv(all), UNCHANGED managerVars, NEW q \in Procs,
           NEW events \in Seq(Event), Emit(q, events), NEW ph \in {"running", "exited"},
           phase[q] \in {"starting", "running"}, phase' = [phase EXCEPT ![q] = ph],
           events # <<>>,
           \A k \in DOMAIN events :
              /\ events[k].kind = "spawned" => phase[q] = "starting" /\ k = 1
              /\ events[k].kind = "exit" => ph = "exited"
              /\ ph = "exited" /\ events[k].kind # "exit" => k < Len(events)
    PROVE  OutputInv(all)'
<1> USE DEF OutputInv
<1>1. /\ WireTypeOK /\ ManagerTypeOK /\ AgentTypeOK
      /\ Len(pending[q]) < nextSeq[q]
  BY DEF TypeInv, AgentInv
<1>2. /\ UNCHANGED <<linkSocket, toHost, agentId, coordinatorInstanceId, appliedCommandSeq>>
      /\ UNCHANGED <<unfinishedLine, replaying>>
      /\ nextSeq' = [nextSeq EXCEPT ![q] = nextSeq[q] + Len(events)]
      /\ pending' = [pending EXCEPT ![q] = pending[q] \o events]
  BY DEF Emit, OnlyReports
<1>3. q \in Hosted /\ Hosted' = Hosted
  BY <1>1 DEF Hosted, AgentTypeOK
<1>4. Parented' /\ coordinatorInstanceId # 0
  BY <1>2, <1>3 DEF Parented
<1>5. /\ pending[q] \in Seq(Event) /\ nextSeq[q] \in Nat \ {0}
      /\ FirstPending(q) \in Nat \ {0}
      /\ nextSeq[q] = FirstPending(q) + Len(pending[q]) /\ Len(pending[q]) \in Nat
      /\ DOMAIN pending[q] = 1..Len(pending[q])
      /\ Len(events) \in Nat \ {0} /\ DOMAIN events = 1..Len(events)
  BY <1>1, EmptySeq DEF AgentTypeOK, FirstPending
<1>6. /\ nextSeq'[q] = nextSeq[q] + Len(events)
      /\ pending'[q] = pending[q] \o events
      /\ Len(pending'[q]) = Len(pending[q]) + Len(events)
      /\ DOMAIN pending'[q] = 1..Len(pending[q]) + Len(events)
      /\ \A i \in 1..Len(pending[q]) : pending'[q][i] = pending[q][i]
      /\ \A i \in 1..Len(events) : pending'[q][Len(pending[q]) + i] = events[i]
      /\ phase'[q] = ph
      /\ \A p \in Procs : p # q => /\ nextSeq'[p] = nextSeq[p] /\ pending'[p] = pending[p]
                                   /\ phase'[p] = phase[p]
  BY <1>1, <1>2, <1>5 DEF AgentTypeOK
<1>7. \A p \in Procs : FirstPending(p)' = FirstPending(p)
  <2>1. FirstPending(q)' = FirstPending(q)
    BY <1>5, <1>6 DEF FirstPending
  <2>2. \A p \in Procs : p # q => FirstPending(p)' = FirstPending(p)
    BY <1>6 DEF FirstPending
  <2>3. QED
    BY <2>1, <2>2
<1>8. phase[q] = "starting" => FirstPending(q) = 1 /\ pending[q] = <<>> /\ nextSeq[q] = 1
                               /\ unfinishedLine[q] = {}
  <2>1. ASSUME phase[q] = "starting" PROVE nextSeq[q] = 1 /\ unfinishedLine[q] = {}
    BY <2>1 DEF Shape
  <2>2. ASSUME phase[q] = "starting" PROVE Len(pending[q]) = 0 /\ FirstPending(q) = 1
    BY <1>1, <1>5, <2>1, <2>2
  <2>3. QED
    BY <1>5, <2>1, <2>2, EmptySeq
<1>9. Shape(all)'
  <2>1. ASSUME NEW i \in DOMAIN pending'[q]
        PROVE  /\ pending'[q][i].kind = "spawned" =>
                     i = 1 /\ FirstPending(q)' = 1 /\ unfinishedLine'[q] = {}
               /\ pending'[q][i].kind = "exit" => phase'[q] = "exited"
               /\ all /\ phase'[q] = "exited" /\ pending'[q][i].kind # "exit" =>
                     i < Len(pending'[q])
    <3>1. CASE i \in 1..Len(pending[q])
      <4>1. /\ pending[q][i].kind = "spawned" =>
                  i = 1 /\ FirstPending(q) = 1 /\ unfinishedLine[q] = {}
            /\ pending[q][i].kind = "exit" => phase[q] = "exited"
        BY <1>5, <3>1 DEF Shape
      <4>2. pending[q][i].kind # "exit"
        BY <4>1
      <4>3. i < Len(pending'[q])
        BY <1>5, <1>6, <3>1
      <4>4. QED
        BY <1>2, <1>6, <1>7, <3>1, <4>1, <4>2, <4>3
    <3>2. CASE i - Len(pending[q]) \in 1..Len(events)
      <4> DEFINE k == i - Len(pending[q])
      <4>1. pending'[q][i] = events[k] /\ k \in DOMAIN events /\ i = Len(pending[q]) + k
        BY <1>5, <1>6, <3>2, SMTT(30)
      <4>2. events[k].kind = "spawned" => i = 1 /\ FirstPending(q) = 1
        BY <1>5, <1>8, <4>1, EmptySeq
      <4>3. ph = "exited" /\ events[k].kind # "exit" => i < Len(pending'[q])
        BY <1>5, <1>6, <4>1
      <4>4. QED
        BY <1>2, <1>6, <1>7, <1>8, <4>1, <4>2, <4>3
    <3>3. QED
      BY <1>5, <1>6, <3>1, <3>2, SMTT(30)
  <2>2. all /\ phase'[q] = "exited" => pending'[q] # <<>>
    BY <1>5, <1>6, EmptySeq
  <2>3. ASSUME NEW p \in Procs, p # q
        PROVE  /\ phase'[p] \in {"absent", "starting"} => nextSeq'[p] = 1 /\ unfinishedLine'[p] = {}
               /\ \A i \in DOMAIN pending'[p] :
                    /\ pending'[p][i].kind = "spawned" =>
                          i = 1 /\ FirstPending(p)' = 1 /\ unfinishedLine'[p] = {}
                    /\ pending'[p][i].kind = "exit" => phase'[p] = "exited"
                    /\ all /\ phase'[p] = "exited" /\ pending'[p][i].kind # "exit" =>
                          i < Len(pending'[p])
               /\ all /\ phase'[p] = "exited" => pending'[p] # <<>>
    BY <1>2, <1>6, <1>7, <2>3 DEF Shape
  <2>4. phase'[q] \notin {"absent", "starting"}
    BY <1>6
  <2>5. QED
    BY <2>1, <2>2, <2>3, <2>4 DEF Shape
<1>10. Reported(q, nextSeq[q], events)
  <2> DEFINE msgs == EventMessages(q, nextSeq[q], events)
  <2>1. msgs \in Seq(HostToCoordinator)
    BY <1>5, EventMessagesType
  <2>2. HostSends(msgs)
    BY <1>4 DEF Emit
  <2> HIDE DEF msgs
  <2>3. msgs \o <<>> = msgs /\ <<>> \in Seq(CommandAck)
    BY <2>1
  <2>4. HostSends(msgs \o <<>>)
    BY <2>2, <2>3
  <2>5. QED
    BY <1>1, <1>5, <2>3, <2>4, EventsReported DEF msgs
<1>11. Progress(q, nextSeq[q], events, all)
  <2>1. \A p \in Procs : nextSeq[p] \in Nat
    BY <1>1 DEF AgentTypeOK
  <2>2. ASSUME NEW k \in DOMAIN events
        PROVE  /\ events[k].kind = "spawned" => nextSeq[q] + k - 1 = 1
               /\ events[k].kind = "exit" => phase'[q] = "exited"
               /\ nextSeq[q] + k - 1 < nextSeq'[q]
               /\ phase'[q] = "exited" /\ events[k].kind # "exit" =>
                     nextSeq[q] + k < nextSeq'[q]
    <3>1. k \in 1..Len(events)
      BY <1>5
    <3>2. QED
      BY <1>5, <1>6, <1>8, <3>1
  <2>3. FirstPending(q) <= nextSeq[q]
    BY <1>5
  <2>4. ASSUME NEW p \in Procs
        PROVE  /\ FirstPending(p)' = FirstPending(p) /\ nextSeq[p] <= nextSeq'[p]
               /\ phase'[p] = "exited" =>
                     \/ phase[p] = "exited" /\ nextSeq'[p] = nextSeq[p]
                     \/ nextSeq[p] < nextSeq'[p]
               /\ phase[p] \in {"absent", "exited"} => phase'[p] \in {"absent", "exited"}
               /\ phase'[p] # "exited" => phase[p] # "exited"
    <3>1. CASE p = q
      BY <1>5, <1>6, <1>7, <3>1
    <3>2. CASE p # q
      BY <1>6, <1>7, <2>1, <3>2
    <3>3. QED
      BY <3>1, <3>2
  <2>5. QED
    BY <1>3, <2>2, <2>3, <2>4 DEF Progress
<1>12. QED
  BY <1>2, <1>4, <1>5, <1>9, <1>10, <1>11, ProgressKeeps

LEMMA HostRunsKeeps ==
    ASSUME TypeInv, TypeInv', CommandInv, CommandInv', NEW all \in BOOLEAN,
           OutputInv(all), UNCHANGED managerVars, NEW q \in Procs,
           \/ ProcessSpawned(q) \/ ProcessFails(q) \/ ProcessOutput(q) \/ ProcessExit(q)
    PROVE  OutputInv(all)'
<1>1. /\ phase \in [Procs -> Phase] /\ Plain("spawned") \in Event
      /\ Plain("error") \in Event /\ Plain("exit") \in Event
  BY PlainTyped DEF TypeInv, AgentInv, AgentTypeOK
<1>2. CASE ProcessSpawned(q)
  <2> DEFINE events == <<Plain("spawned")>>
  <2>1. /\ events \in Seq(Event) /\ events # <<>>
        /\ \A k \in DOMAIN events : k = 1 /\ events[k].kind = "spawned"
    BY <1>1 DEF Plain
  <2>2. Emit(q, events) /\ phase[q] = "starting" /\ phase' = [phase EXCEPT ![q] = "running"]
    BY <1>2 DEF ProcessSpawned
  <2> HIDE DEF events
  <2>3. QED
    BY <2>1, <2>2, EmitKeeps
<1>3. CASE ProcessFails(q)
  <2>1. /\ CannotStart \in Seq(Event) /\ CannotStart # <<>> /\ Len(CannotStart) = 2
        /\ \A k \in DOMAIN CannotStart :
              \/ k = 1 /\ CannotStart[k].kind = "error"
              \/ k = 2 /\ CannotStart[k].kind = "exit"
    BY <1>1 DEF CannotStart, Plain
  <2>2. Emit(q, CannotStart) /\ phase[q] = "starting" /\ phase' = [phase EXCEPT ![q] = "exited"]
    BY <1>3 DEF ProcessFails
  <2>3. \A k \in DOMAIN CannotStart :
           /\ CannotStart[k].kind # "spawned"
           /\ CannotStart[k].kind # "exit" => k < Len(CannotStart)
    BY <2>1
  <2> DEFINE events == CannotStart
  <2>4. /\ events \in Seq(Event) /\ events # <<>> /\ Emit(q, events)
        /\ \A k \in DOMAIN events :
              /\ events[k].kind # "spawned"
              /\ events[k].kind # "exit" => k < Len(events)
    BY <2>1, <2>2, <2>3
  <2> HIDE DEF events
  <2>5. QED
    BY <2>2, <2>4, EmitKeeps
<1>4. CASE ProcessOutput(q)
  <2>1. PICK units : Emit(q, <<Stdout(units)>>) /\ phase[q] = "running" /\ phase' = phase
               /\ Stdout(units) \in Event
    <3>1. PICK k \in 1..MaxChunk : \E ends \in [written[q] + 1..written[q] + k -> BOOLEAN] :
             Emit(q, <<Stdout({[n |-> i, eol |-> ends[i]] : i \in DOMAIN ends})>>)
      BY <1>4 DEF ProcessOutput
    <3>2. PICK ends \in [written[q] + 1..written[q] + k -> BOOLEAN] :
             Emit(q, <<Stdout({[n |-> i, eol |-> ends[i]] : i \in DOMAIN ends})>>)
      BY <3>1
    <3>3. written[q] \in Nat /\ k \in Nat
      BY BoundsAssumption DEF TypeInv, AgentInv, AgentTypeOK
    <3>4. \A i \in written[q] + 1..written[q] + k : i \in Nat
      BY <3>3
    <3>5. {[n |-> i, eol |-> ends[i]] : i \in DOMAIN ends} \in SUBSET Unit
      BY <3>4 DEF Unit
    <3>6. Stdout({[n |-> i, eol |-> ends[i]] : i \in DOMAIN ends}) \in Event
      BY <3>5, StdoutTyped
    <3>7. QED
      BY <1>4, <3>2, <3>6 DEF ProcessOutput
  <2> DEFINE events == <<Stdout(units)>>
  <2>2. /\ events \in Seq(Event) /\ events # <<>>
        /\ \A k \in DOMAIN events : events[k].kind = "stdout"
    BY <2>1 DEF Stdout
  <2>3. Emit(q, events)
    BY <2>1
  <2>4. phase' = [phase EXCEPT ![q] = "running"]
    BY <1>1, <2>1
  <2> HIDE DEF events
  <2>5. QED
    BY <2>1, <2>2, <2>3, <2>4, EmitKeeps
<1>5. CASE ProcessExit(q)
  <2> DEFINE events == <<Plain("exit")>>
  <2>1. /\ events \in Seq(Event) /\ events # <<>>
        /\ \A k \in DOMAIN events : events[k].kind = "exit"
    BY <1>1 DEF Plain
  <2>2. Emit(q, events) /\ phase[q] = "running" /\ phase' = [phase EXCEPT ![q] = "exited"]
    BY <1>5 DEF ProcessExit
  <2> HIDE DEF events
  <2>3. QED
    BY <2>1, <2>2, EmitKeeps
<1>6. QED
  BY <1>2, <1>3, <1>4, <1>5


-----------------------------------------------------------------------------
(***************************************************************************)
(* A spawn the node applies.                                               *)
(***************************************************************************)
\* What a new process begins with.
LEMMA OpeningEvents ==
    ASSUME NEW events \in {<<>>, Opened, CannotStart}
    PROVE  /\ events \in Seq(Event) /\ Len(events) \in Nat
           /\ DOMAIN events = 1..Len(events)
           /\ events = <<>> => Len(events) = 0
           /\ events = Opened => Len(events) = 1
           /\ events = CannotStart => Len(events) = 2
           /\ \A k \in DOMAIN events :
                 /\ events[k].kind = "spawned" => k = 1 /\ events = Opened
                 /\ events[k].kind = "exit" => events = CannotStart
                 /\ events = CannotStart /\ events[k].kind # "exit" => k = 1
<1>1. Plain("spawned") \in Event /\ Plain("error") \in Event /\ Plain("exit") \in Event
  BY PlainTyped
<1>2. CASE events = <<>>
  <2>1. events \in Seq(Event) /\ Len(events) = 0 /\ DOMAIN events = {}
    BY <1>2
  <2>2. Len(Opened) = 1 /\ Len(CannotStart) = 2
    BY DEF Opened, CannotStart
  <2>3. QED
    BY <2>1, <2>2
<1>3. CASE events = Opened
  <2>1. /\ events \in Seq(Event) /\ Len(events) = 1 /\ DOMAIN events = 1..1
        /\ events[1].kind = "spawned"
    BY <1>1, <1>3 DEF Opened, Plain
  <2>2. events # <<>> /\ events # CannotStart
    <3>1. Len(CannotStart) = 2
      BY DEF CannotStart
    <3>2. QED
      BY <2>1, <3>1, SMTT(30)
  <2>3. QED
    BY <1>3, <2>1, <2>2
<1>4. CASE events = CannotStart
  <2>1. /\ events \in Seq(Event) /\ Len(events) = 2 /\ DOMAIN events = 1..2
        /\ events[1].kind = "error" /\ events[2].kind = "exit"
    BY <1>1, <1>4 DEF CannotStart, Plain
  <2>2. events # <<>> /\ events # Opened
    BY <2>1 DEF Opened
  <2>3. \A k \in DOMAIN events : k = 1 \/ k = 2
    BY <2>1
  <2>4. QED
    BY <1>4, <2>1, <2>2, <2>3
<1>5. QED
  BY <1>2, <1>3, <1>4

\* The new process, and what is reported of it.
Opening(q, events) ==
    /\ nextSeq' = [nextSeq EXCEPT ![q] = Len(events) + 1]
    /\ pending' = [pending EXCEPT ![q] = events]
    /\ unfinishedLine' = [unfinishedLine EXCEPT ![q] = {}]
    /\ phase' = [phase EXCEPT ![q] = IF events = <<>> THEN "starting"
                                     ELSE IF events = Opened THEN "running" ELSE "exited"]
    /\ Reported(q, 1, events)

LEMMA SpawnApplied ==
    ASSUME TypeInv, CommandInv, ReceiveCommand, Head(toHost).cmd.kind = "spawn"
    PROVE  /\ toHost[1].cmd.proc \in Procs /\ Carries(toHost[1], toHost[1].cmd.proc)
           /\ 1 \in DOMAIN toHost /\ Fresh(toHost[1]) /\ Marked(toHost[1])
           /\ From(toHost[1]) = coordinatorInstanceId /\ coordinatorInstanceId # 0
           /\ toHost[1].seq = appliedCommandSeq + 1
           /\ toHost # <<>> /\ toHost' = Tail(toHost) /\ Head(toHost) = toHost[1]
           /\ replaying = {}
           /\ appliedCommandSeq' = appliedCommandSeq + 1
           /\ UNCHANGED <<linkSocket, agentId, coordinatorInstanceId, replaying>>
           /\ \E events \in {<<>>, Opened, CannotStart} :
                 Opening(toHost[1].cmd.proc, events)
<1>1. WireTypeOK /\ AgentTypeOK /\ AgentInv
  BY DEF TypeInv, AgentInv
<1>2. /\ toHost[1] \in CommandMsg /\ toHost[1].t = "command"
      /\ toHost[1].cmd.coord = coordinatorInstanceId
      /\ toHost' = Tail(toHost) /\ toHost # <<>> /\ Head(toHost) = toHost[1]
      /\ 1 \in DOMAIN toHost
  BY <1>1, AppliedByTaken DEF CommandInv, DriverInv
<1>3. /\ toHost[1].seq = appliedCommandSeq + 1
      /\ appliedCommandSeq' = appliedCommandSeq + 1 /\ replaying = {}
      /\ UNCHANGED <<linkSocket, agentId, coordinatorInstanceId, replaying>>
  BY <1>2 DEF ReceiveCommand, AgentReceives, ApplyCommand, AgentConsumes, Applies
<1>4. /\ toHost[1].seq \in Nat /\ toHost[1].cmd \in Command
  BY <1>2 DEF CommandMsg
<1>5. toHost[1].cmd.proc \in Procs /\ toHost[1].cmd.kind = "spawn"
  BY <1>2, <1>4 DEF Command
<1>6. Marked(toHost[1]) /\ From(toHost[1]) = coordinatorInstanceId
  BY <1>2 DEF Marked, From
<1>7. coordinatorInstanceId # 0
  BY <1>2, <1>6 DEF CommandInv, DriverInv, Sources
<1>8. appliedCommandSeq \in Nat
  BY <1>1 DEF AgentTypeOK
<1>9. Fresh(toHost[1])
  BY <1>2, <1>3, <1>8 DEF Fresh, Reached
<1> DEFINE q == toHost[1].cmd.proc
           seq == toHost[1].seq
<1>10. PICK events \in {<<>>, Opened, CannotStart} : Spawn(q, seq, events)
  BY <1>2, <1>5 DEF ReceiveCommand, ApplyCommand
<1>11. Reported(q, 1, events)
  <2>1. HostSends(EventMessages(q, 1, events) \o <<Ack(seq)>>)
    BY <1>7, <1>10 DEF Spawn
  <2>2. Ack(seq) \in CommandAck
    BY <1>4 DEF Ack, CommandAck
  <2>3. <<Ack(seq)>> \in Seq(CommandAck)
    BY <2>2
  <2>4. events \in Seq(Event)
    BY OpeningEvents
  <2> HIDE DEF q, seq
  <2>5. q \in Procs /\ 1 \in Nat \ {0}
    BY <1>5 DEF q
  <2>6. QED
    BY <1>1, <2>1, <2>3, <2>4, <2>5, EventsReported
<1>12. Opening(q, events)
  BY <1>10, <1>11 DEF Spawn, Opening
<1>13. QED
  BY <1>2, <1>3, <1>5, <1>6, <1>7, <1>9, <1>12 DEF Carries, Spawns

LEMMA SpawnsKeep ==
    ASSUME TypeInv, TypeInv', CommandInv, CommandInv', NEW all \in BOOLEAN,
           OutputInv(all), UNCHANGED managerVars,
           ReceiveCommand, Head(toHost).cmd.kind = "spawn"
    PROVE  OutputInv(all)'
<1> USE DEF OutputInv
<1>1. /\ WireTypeOK /\ ManagerTypeOK /\ AgentTypeOK
      /\ WireTypeOK' /\ ManagerTypeOK' /\ AgentTypeOK'
  BY DEF TypeInv, AgentInv
<1>2. /\ UNCHANGED <<instanceId, online, hostInstanceId, unacked, remote, started>>
      /\ UNCHANGED <<lastEventSeq, used, adoptable, pendingAcks>>
      /\ Live' = Live /\ \A p : Counted(p, all)' = Counted(p, all)
  BY DEF managerVars, linkVars, queueVars, processVars, Live, Counted
<1>0. PICK q : q = toHost[1].cmd.proc
  OBVIOUS
<1>3. /\ q \in Procs /\ Carries(toHost[1], q)
      /\ 1 \in DOMAIN toHost /\ Fresh(toHost[1]) /\ Marked(toHost[1])
      /\ From(toHost[1]) = coordinatorInstanceId /\ coordinatorInstanceId # 0
      /\ toHost[1].seq = appliedCommandSeq + 1
      /\ toHost # <<>> /\ toHost' = Tail(toHost) /\ Head(toHost) = toHost[1]
      /\ replaying = {} /\ appliedCommandSeq' = appliedCommandSeq + 1
      /\ UNCHANGED <<linkSocket, agentId, coordinatorInstanceId, replaying>>
  BY <1>0, SpawnApplied
<1>4. PICK events \in {<<>>, Opened, CannotStart} : Opening(q, events)
  BY <1>0, SpawnApplied
<1>5. /\ toHost[1].t = "command" /\ toHost[1].cmd.coord = coordinatorInstanceId
      /\ Spawns(toHost[1].cmd, q)
  BY <1>3 DEF Carries, From
<1>6. /\ nextSeq'[q] = Len(events) + 1 /\ pending'[q] = events /\ unfinishedLine'[q] = {}
      /\ phase'[q] = IF events = <<>> THEN "starting"
                     ELSE IF events = Opened THEN "running" ELSE "exited"
      /\ \A p \in Procs : p # q =>
            /\ nextSeq'[p] = nextSeq[p] /\ pending'[p] = pending[p]
            /\ unfinishedLine'[p] = unfinishedLine[p] /\ phase'[p] = phase[p]
  BY <1>1, <1>3, <1>4 DEF Opening, AgentTypeOK
<1>7. /\ Len(events) \in Nat /\ DOMAIN events = 1..Len(events)
      /\ events = <<>> => Len(events) = 0
      /\ phase'[q] = "exited" => events = CannotStart /\ Len(events) = 2
      /\ \A k \in DOMAIN events :
            /\ events[k].kind = "spawned" => k = 1
            /\ events[k].kind = "exit" => phase'[q] = "exited"
            /\ phase'[q] = "exited" /\ events[k].kind # "exit" => k = 1
  <2>1. events = CannotStart => events # <<>> /\ events # Opened
    BY OpeningEvents, SMTT(30)
  <2>2. phase'[q] = "exited" <=> events = CannotStart
    BY <1>6, <2>1
  <2>3. QED
    BY <2>2, OpeningEvents
<1>8. /\ FirstPending(q)' = 1 /\ q \in Hosted' /\ Hosted' = Hosted \cup {q}
      /\ \A p \in Procs : p # q => FirstPending(p)' = FirstPending(p)
  <2>1. FirstPending(q)' = 1
    BY <1>6, <1>7 DEF FirstPending
  <2>2. phase'[q] # "absent"
    BY <1>6
  <2>3. q \in Hosted' /\ Hosted' = Hosted \cup {q}
    BY <1>3, <1>6, <2>2 DEF Hosted
  <2>4. \A p \in Procs : p # q => FirstPending(p)' = FirstPending(p)
    BY <1>6 DEF FirstPending
  <2>5. QED
    BY <2>1, <2>3, <2>4
<1>9. /\ DOMAIN toHost' = 1..Len(toHost) - 1 /\ Len(toHost) \in Nat
      /\ DOMAIN toHost = 1..Len(toHost)
      /\ \A i \in DOMAIN toHost' : i + 1 \in DOMAIN toHost /\ toHost'[i] = toHost[i + 1]
  BY <1>1, <1>3, HostFrames
<1>10. /\ \A p : p # q => Reports(p)' = Reports(p)
       /\ \A p, i : i \in Reports(p) => i \in Reports(p)' /\ toCoord'[i] = toCoord[i]
       /\ \A p : \A i \in Reports(p)' :
             \/ i \in Reports(p)
             \/ /\ p = q
                /\ \E k \in DOMAIN events : toCoord'[i].seq = k /\ toCoord'[i].event = events[k]
       /\ \A p : \A i \in Reports(p) : Dead(p, i) => Dead(p, i)'
  <2> DEFINE first == 1
  <2>1. Reported(q, first, events)
    BY <1>4 DEF Opening
  <2>2. \A k \in DOMAIN events : first + k - 1 = k
    BY <1>7
  <2> HIDE DEF first
  <2>3. QED
    BY <1>1, <1>2, <2>1, <2>2, ReportsGrow
<1>11. /\ Known' = Known /\ Foreign' = Foreign /\ Joined' = Joined
       /\ Near' => Near
  BY <1>2, <1>3, <1>4 DEF Known, Foreign, Joined, Near, Greeted, Opening, Reported
<1>12. appliedCommandSeq \in Nat /\ agentId # 0
  BY <1>1 DEF AgentTypeOK
\* A spawn of a coordinator that is gone.
<1>13. ASSUME Foreign PROVE toCoord = <<>> /\ ~Known /\ ~Near /\ ~Near' /\ q \notin Live \ started
  <2>1. ~linkSocket
    BY <1>3, <1>13 DEF CommandInv, DriverInv, Sources, Foreign
  <2>2. toCoord = <<>> /\ toCoord' = <<>>
    BY <1>4, <2>1 DEF MeetInv, HelloFirst, Opening, Reported, CommandInv, DriverInv, Ends
  <2>3. hostInstanceId = 0
    BY <1>3, <1>13 DEF MeetInv, Fellow, Foreign
  <2>4. ~Known /\ ~Greeted /\ ~Greeted'
    BY <1>12, <2>2, <2>3 DEF Known, Greeted
  <2>5. q \notin Live \ started
    BY <1>3, <1>5, <1>13 DEF SpawnInv, Separate, Foreign
  <2>6. QED
    BY <1>11, <2>2, <2>4, <2>5 DEF Near
\* A spawn of the running one.
<1>14. ASSUME ~Foreign
       PROVE  /\ Known /\ Joined /\ q \in Live /\ q \notin started /\ q \notin Hosted
              /\ Reports(q) = {} /\ (all => lastEventSeq[q] = 0)
              /\ \E j \in DOMAIN unacked : /\ unacked[j].seq = appliedCommandSeq + 1
                                           /\ Spawns(unacked[j].cmd, q)
  <2>1. Known /\ Joined
    BY <1>14 DEF CommandInv, Recognised, Foreign, Known, Joined
  <2>2. PICK j \in DOMAIN unacked :
           unacked[j].seq = toHost[1].seq /\ unacked[j].cmd = toHost[1].cmd
    BY <1>3, <1>5, <1>14 DEF CommandInv, FromQueue, Foreign
  <2>3. Spawns(unacked[j].cmd, q) /\ unacked[j].seq > Reached(instanceId)
    BY <1>3, <1>5, <1>12, <1>14, <2>2 DEF Reached, Foreign
  <2>4. QED
    BY <1>3, <2>1, <2>2, <2>3 DEF SpawnInv, Unspawned
<1>15. \A i \in DOMAIN toHost' : Fresh(toHost[i])' => Fresh(toHost[i + 1])
  <2>1. ASSUME NEW i \in DOMAIN toHost', Fresh(toHost[i])' PROVE Fresh(toHost[i + 1])
    <3>1. toHost'[i] = toHost[i + 1] /\ i + 1 \in DOMAIN toHost
      BY <1>9
    <3>2. toHost[i + 1].t = "command" /\ toHost[i + 1].seq \in Nat
      BY <1>1, <2>1, <3>1, CommandFrames DEF Fresh
    <3>3. toHost[i + 1].seq > (IF coordinatorInstanceId = toHost[i + 1].cmd.coord
                               THEN appliedCommandSeq + 1 ELSE 0)
      BY <1>3, <2>1, <3>1 DEF Fresh, Reached
    <3>4. QED
      BY <1>12, <3>2, <3>3 DEF Fresh, Reached
  <2>2. QED
    BY <2>1
<1>16. MeetInv'
  <2>1. HostCarried(1)
    BY <1>1, <1>3, <1>5, HostKinds
  <2>2. Foreign => ~Greeted
    BY <1>13 DEF Near
  <2>3. QED
    BY <1>3, <1>4, <2>1, <2>2, ReportedMeets DEF Opening
<1>17. Shape(all)'
  <2>1. ASSUME NEW p \in Procs, p # q
        PROVE  /\ phase'[p] \in {"absent", "starting"} => nextSeq'[p] = 1 /\ unfinishedLine'[p] = {}
               /\ \A i \in DOMAIN pending'[p] :
                    /\ pending'[p][i].kind = "spawned" =>
                          i = 1 /\ FirstPending(p)' = 1 /\ unfinishedLine'[p] = {}
                    /\ pending'[p][i].kind = "exit" => phase'[p] = "exited"
                    /\ all /\ phase'[p] = "exited" /\ pending'[p][i].kind # "exit" =>
                          i < Len(pending'[p])
               /\ all /\ phase'[p] = "exited" => pending'[p] # <<>>
    BY <1>6, <1>8, <2>1 DEF Shape
  <2>2. phase'[q] \in {"absent", "starting"} => nextSeq'[q] = 1
    BY <1>6, <1>7
  <2>3. \A i \in DOMAIN events :
           /\ events[i].kind = "spawned" => i = 1
           /\ events[i].kind = "exit" => phase'[q] = "exited"
           /\ phase'[q] = "exited" /\ events[i].kind # "exit" => i < Len(events)
    BY <1>7
  <2>4. phase'[q] = "exited" => events # <<>>
    BY <1>7
  <2>5. pending'[q] = events /\ unfinishedLine'[q] = {} /\ FirstPending(q)' = 1
    BY <1>6, <1>8
  <2>6. QED
    BY <2>1, <2>2, <2>3, <2>4, <2>5 DEF Shape
<1>18. Parented'
  BY <1>3 DEF Parented
<1>19. SpawnInv(all)'
  <2>1. q \in used
    BY <1>3 DEF SpawnInv, Unused
  <2>2. Unused'
    BY <1>2, <1>8, <1>9, <1>10, <2>1 DEF SpawnInv, Unused
  <2>3. LiveOnly'
    BY <1>2 DEF SpawnInv, LiveOnly
  <2>4. Separate'
    <3>1. ASSUME NEW i \in DOMAIN toHost', NEW p \in Live \ started, Carries(toHost'[i], p)
          PROVE  toHost'[i].cmd.coord = instanceId
      BY <1>9, <3>1 DEF SpawnInv, Separate
    <3>2. Foreign => Hosted' \cap (Live \ started) = {}
      BY <1>8, <1>13 DEF SpawnInv, Separate
    <3>3. QED
      BY <1>2, <1>11, <3>1, <3>2 DEF SpawnInv, Separate
  <2>5. Unspawned(all)'
    <3>1. ASSUME Known, NEW i \in DOMAIN unacked, NEW p \in Procs,
                 Spawns(unacked[i].cmd, p), unacked[i].seq > Reached(instanceId)'
          PROVE  /\ p \in Live /\ p \notin started /\ p \notin Hosted' /\ Reports(p)' = {}
                 /\ all => lastEventSeq[p] = 0
      <4>1. ~Foreign
        BY <1>13, <3>1
      <4>2. unacked[i].seq > appliedCommandSeq + 1 /\ unacked[i].seq \in Nat
        BY <1>1, <1>2, <1>3, <3>1, <4>1, QueueFrames DEF Reached, Foreign
      <4>3. unacked[i].seq > Reached(instanceId)
        BY <1>12, <4>1, <4>2 DEF Reached, Foreign
      <4>4. p # q
        <5>1. ASSUME p = q PROVE FALSE
          <6>1. PICK j \in DOMAIN unacked : unacked[j].seq = appliedCommandSeq + 1
                                            /\ Spawns(unacked[j].cmd, q)
            BY <1>14, <4>1
          <6>2. i = j
            BY <3>1, <5>1, <6>1 DEF SpawnInv, Separate
          <6>3. QED
            BY <1>12, <4>2, <6>1, <6>2
        <5>2. QED
          BY <5>1
      <4>5. QED
        BY <1>8, <1>10, <3>1, <4>3, <4>4 DEF SpawnInv, Unspawned
    <3>2. QED
      BY <1>2, <1>11, <3>1 DEF Unspawned
  <2>6. QED
    BY <2>2, <2>3, <2>4, <2>5 DEF SpawnInv
<1>20. ASSUME NEW i \in Reports(q)', i \notin Reports(q)
       PROVE  Given(q, i, all)'
  <2>1. PICK k \in DOMAIN events :
           toCoord'[i].seq = k /\ toCoord'[i].event = events[k]
    BY <1>10, <1>20
  <2>2. k \in 1..Len(events) /\ toCoord'[i].seq = k
    BY <1>7, <2>1
  <2>3. phase'[q] = "exited" /\ toCoord'[i].event.kind # "exit" => k = 1 /\ Len(events) = 2
    BY <1>7, <2>1
  <2>4. nextSeq'[q] = Len(events) + 1 /\ k < Len(events) + 1
    BY <1>6, <1>7, <2>2
  <2>5. phase'[q] = "exited" /\ toCoord'[i].event.kind # "exit" => k + 1 < nextSeq'[q]
    <3>1. k = 1 /\ Len(events) = 2 => k + 1 < Len(events) + 1
      OBVIOUS
    <3>2. QED
      BY <2>3, <2>4, <3>1
  <2>6. QED
    BY <2>2, <2>4, <2>5 DEF Given
<1>21. ASSUME NEW p \in Procs, p # q
       PROVE  \A i \in Reports(p) : Given(p, i, all)' = Given(p, i, all)
  BY <1>6, <1>10, <1>21 DEF Given
<1>22. Welcomed(all)'
  <2> SUFFICES ASSUME NEW i \in DOMAIN toHost', toHost'[i].t = "welcome"
               PROVE  /\ \A j \in 1..i - 1, p \in Procs :
                            Carries(toHost'[j], p) /\ Fresh(toHost[j])' =>
                               /\ p \in toHost'[i].listed
                               /\ all => toHost'[i].received[p] = 0
                      /\ all /\ toHost'[i].coord = coordinatorInstanceId' =>
                            \A p \in toHost'[i].listed \cap Hosted' :
                               /\ toHost'[i].received[p] < nextSeq'[p]
                               /\ phase'[p] = "exited" =>
                                     toHost'[i].received[p] + 1 < nextSeq'[p]
                      /\ toHost'[i].coord = instanceId' =>
                            /\ \A p \in toHost'[i].listed \cap Hosted' :
                                  phase'[p] # "exited" => p \in Live'
                            /\ \A p \in toHost'[i].listed : Counted(p, all)' =>
                                  toHost'[i].received[p] <= lastEventSeq'[p]
                            /\ all => \A p \in Live' \ toHost'[i].listed :
                                  /\ p \notin Hosted' /\ p \notin started'
                                  /\ lastEventSeq'[p] = 0
    BY DEF Welcomed
  <2> DEFINE w == toHost[i + 1]
  <2>1. i + 1 \in DOMAIN toHost /\ toHost'[i] = w /\ w.t = "welcome" /\ 1 \in 1..(i + 1) - 1
    BY <1>9
  <2>2. w.listed \in SUBSET Procs
    <3>1. w \in Welcome
      BY <1>1, <2>1, HostFrames, HostFrame
    <3>2. QED
      BY <3>1 DEF Welcome
  <2>3. q \in w.listed /\ (all => w.received[q] = 0)
    BY <1>3, <2>1 DEF NumberInv, Welcomed
  <2>4. w.coord = coordinatorInstanceId
    <3>1. Marked(w) /\ From(w) = w.coord
      BY <2>1 DEF Marked, From
    <3>2. QED
      BY <1>3, <2>1, <3>1 DEF CommandInv, DriverInv, Sources
  <2>5. ASSUME NEW j \in 1..i - 1, NEW p \in Procs, Carries(toHost'[j], p), Fresh(toHost[j])'
        PROVE  p \in w.listed /\ (all => w.received[p] = 0)
    <3>1. j \in DOMAIN toHost' /\ j + 1 \in 1..(i + 1) - 1
      BY <1>9
    <3>2. toHost'[j] = toHost[j + 1] /\ j + 1 \in DOMAIN toHost
      BY <1>9, <3>1
    <3>3. Fresh(toHost[j + 1])
      BY <1>15, <2>5, <3>1
    <3>4. QED
      BY <2>1, <2>5, <3>1, <3>2, <3>3 DEF NumberInv, Welcomed
  <2>6. ASSUME all, NEW p \in w.listed \cap Hosted'
        PROVE  /\ w.received[p] < nextSeq'[p]
               /\ phase'[p] = "exited" => w.received[p] + 1 < nextSeq'[p]
    <3>1. CASE p = q
      BY <1>6, <1>7, <2>3, <2>6, <3>1
    <3>2. CASE p # q
      BY <1>6, <1>8, <2>1, <2>2, <2>4, <2>6, <3>2 DEF NumberInv, Welcomed
    <3>3. QED
      BY <3>1, <3>2
  <2>7. ASSUME w.coord = instanceId
        PROVE  /\ \A p \in w.listed \cap Hosted' : phase'[p] # "exited" => p \in Live
               /\ \A p \in w.listed : Counted(p, all) => w.received[p] <= lastEventSeq[p]
               /\ all => \A p \in Live \ w.listed :
                     p \notin Hosted' /\ p \notin started /\ lastEventSeq[p] = 0
    <3>1. q \in Live
      BY <1>14, <2>4, <2>7 DEF Foreign
    <3>2. ASSUME NEW p \in w.listed \cap Hosted', phase'[p] # "exited" PROVE p \in Live
      <4>1. CASE p = q
        BY <3>1, <4>1
      <4>2. CASE p # q
        BY <1>6, <1>8, <2>1, <2>2, <2>7, <3>2, <4>2 DEF NumberInv, Welcomed
      <4>3. QED
        BY <4>1, <4>2
    <3>3. \A p \in w.listed : Counted(p, all) => w.received[p] <= lastEventSeq[p]
      BY <2>1, <2>7 DEF NumberInv, Welcomed
    <3>4. all => \A p \in Live \ w.listed :
                     p \notin Hosted' /\ p \notin started /\ lastEventSeq[p] = 0
      BY <1>8, <2>1, <2>3, <2>7 DEF NumberInv, Welcomed
    <3>5. QED
      BY <3>2, <3>3, <3>4
  <2>8. QED
    BY <1>2, <2>1, <2>5, <2>6, <2>7
<1>23. Acked(all)'
  BY <1>2, <1>9 DEF NumberInv, Acked
<1>24. Numbered'
  <2>1. ASSUME NEW i \in DOMAIN toCoord', toCoord'[i].t = "event"
        PROVE  /\ toCoord'[i].seq # 0
               /\ toCoord'[i].event.kind = "spawned" => toCoord'[i].seq = 1
               /\ Near' /\ toCoord'[i].event.kind = "exit" =>
                     phase'[toCoord'[i].proc] \in {"absent", "exited"}
    <3>1. CASE i \in DOMAIN toCoord
      <4>1. toCoord'[i] = toCoord[i]
        BY <1>4, <3>1 DEF Opening, Reported
      <4>2. toCoord[i].proc \in Procs
        <5>1. toCoord[i] \in EventMsg
          BY <1>1, <2>1, <3>1, <4>1, CoordFrames, CoordinatorFrame
        <5>2. QED
          BY <5>1 DEF EventMsg
      <4>3. toCoord[i].proc # q
        <5>1. i \in Reports(toCoord[i].proc)
          BY <2>1, <3>1, <4>1 DEF Reports
        <5>2. toCoord # <<>>
          BY <3>1
        <5>3. ~Foreign
          BY <1>13, <5>2
        <5>4. Reports(q) = {}
          BY <1>14, <5>3
        <5>5. QED
          BY <5>1, <5>4
      <4>4. QED
        BY <1>6, <1>11, <2>1, <3>1, <4>1, <4>2, <4>3 DEF NumberInv, Numbered
    <3>2. CASE i \notin DOMAIN toCoord
      <4>1. PICK k \in DOMAIN events :
               /\ toCoord'[i].proc = q /\ toCoord'[i].seq = k
               /\ toCoord'[i].event = events[k]
        <5>1. \A k \in DOMAIN events : 1 + k - 1 = k
          BY <1>7
        <5>2. QED
          BY <1>4, <2>1, <3>2, <5>1 DEF Opening, Reported
      <4>2. k \in Nat \ {0} /\ toCoord'[i].seq = k
        BY <1>7, <4>1
      <4>3. QED
        BY <1>7, <4>1, <4>2
    <3>3. QED
      BY <3>1, <3>2
  <2>2. QED
    BY <2>1 DEF Numbered
<1>25. BeforeAdoption(all)' /\ ReadEarly(all)'
  BY <1>11, <1>13 DEF BeforeAdoption, ReadEarly
<1>26. InStep(all)'
  <2>1. ASSUME Joined, NEW p \in Hosted', Counted(p, all)
        PROVE  /\ FirstPending(p)' <= lastEventSeq[p] + 1 /\ lastEventSeq[p] < nextSeq'[p]
               /\ \A i \in Reports(p)' : Dead(p, i)' \/ Given(p, i, all)'
    <3>1. CASE p = q
      <4>1. ~Foreign
        BY <2>1 DEF Joined, Foreign
      <4>2. q \notin started /\ (all => lastEventSeq[q] = 0) /\ Reports(q) = {}
        BY <1>14, <4>1
      <4>3. lastEventSeq[q] = 0
        BY <2>1, <3>1, <4>2 DEF Counted
      <4>4. \A i \in Reports(q)' : Given(q, i, all)'
        BY <1>20, <4>2
      <4>5. 0 < nextSeq'[q] /\ FirstPending(q)' <= 0 + 1
        BY <1>6, <1>7, <1>8
      <4>6. QED
        BY <3>1, <4>3, <4>4, <4>5
    <3>2. CASE p # q
      BY <1>6, <1>8, <1>10, <1>21, <2>1, <3>2 DEF NumberInv, InStep, Hosted
    <3>3. QED
      BY <3>1, <3>2
  <2>2. QED
    BY <1>2, <1>11, <2>1 DEF InStep
<1>27. Attended'
  <2>1. ASSUME Joined, NEW p \in Hosted', phase'[p] # "exited" PROVE p \in Live
    <3>1. CASE p = q
      BY <1>14, <2>1, <3>1 DEF Joined, Foreign
    <3>2. CASE p # q
      BY <1>6, <1>8, <2>1, <3>2 DEF NumberInv, Attended, Hosted
    <3>3. QED
      BY <3>1, <3>2
  <2>2. QED
    BY <1>2, <1>11, <2>1 DEF Attended
<1>28. ASSUME all PROVE Present'
  <2>1. ASSUME Known, NEW p \in Live \cap Hosted', phase'[p] = "exited"
        PROVE  lastEventSeq[p] + 1 < nextSeq'[p]
    <3>1. CASE p = q
      <4>1. lastEventSeq[q] = 0
        BY <1>13, <1>14, <1>28, <2>1
      <4>2. QED
        BY <1>6, <1>7, <2>1, <3>1, <4>1
    <3>2. CASE p # q
      BY <1>6, <1>8, <1>28, <2>1, <3>2 DEF NumberInv, Present, Hosted
    <3>3. QED
      BY <3>1, <3>2
  <2>2. ASSUME Known, NEW p \in Live \ Hosted' PROVE Reports(p)' = {}
    BY <1>8, <1>10, <1>28, <2>2 DEF NumberInv, Present
  <2>3. QED
    BY <1>2, <1>8, <1>11, <1>28, <2>1, <2>2 DEF NumberInv, Present
<1>29. QED
  BY <1>16, <1>17, <1>18, <1>19, <1>22, <1>23, <1>24, <1>25, <1>26, <1>27, <1>28 DEF NumberInv

-----------------------------------------------------------------------------
(***************************************************************************)
(* What the coordinator reads, and what it confirms.                       *)
(***************************************************************************)
\* Once the coordinator reads something else there is no hello left to read.
LEMMA NoHelloLeft ==
    ASSUME TypeInv, Ends, HelloFirst, linkSocket,
           \/ toCoord # <<>> /\ toCoord[1].t # "hello"
           \/ \E p \in Procs : pendingAcks[p] # 0
    PROVE  online /\ \A i \in DOMAIN toCoord : toCoord[i].t # "hello"
<1>1. \A i \in DOMAIN toCoord : toCoord[i].t # "hello"
  BY DEF HelloFirst
<1>2. toCoord # <<>> => 1 \in DOMAIN toCoord
  BY CoordFrames DEF TypeInv
<1>3. online
  BY <1>1, <1>2 DEF HelloFirst
<1>4. QED
  BY <1>1, <1>3

\* An acknowledgement goes out.
LEMMA FlushKeeps ==
    ASSUME TypeInv, TypeInv', CommandInv, CommandInv', NEW all \in BOOLEAN,
           OutputInv(all), UNCHANGED agentVars, NEW q \in Procs, FlushAck(q)
    PROVE  OutputInv(all)'
<1> USE DEF OutputInv
<1>1. WireTypeOK /\ ManagerTypeOK /\ AgentTypeOK /\ WireTypeOK'
  BY DEF TypeInv, AgentInv
<1>2. /\ linkSocket /\ pendingAcks[q] # 0 /\ pendingAcks[q] \in Nat
      /\ pendingAcks' = [pendingAcks EXCEPT ![q] = 0]
      /\ UNCHANGED <<linkSocket, agentSocket, paired, toCoord>>
      /\ UNCHANGED <<instanceId, online, hostInstanceId, unacked, remote, started>>
      /\ UNCHANGED <<lastEventSeq, used, adoptable>>
      /\ UNCHANGED <<phase, nextSeq, coordinatorInstanceId, appliedCommandSeq, agentId>>
      /\ Live' = Live /\ \A p : Counted(p, all)' = Counted(p, all)
  BY <1>1 DEF FlushAck, OnlySends, linkVars, queueVars, processVars, agentVars, Live, Counted,
     ManagerTypeOK
<1>3. /\ Hosted' = Hosted /\ Known' = Known /\ Foreign' = Foreign /\ Joined' = Joined
      /\ Near' = Near /\ Reached(instanceId)' = Reached(instanceId)
      /\ \A p : Reports(p)' = Reports(p) /\ FirstPending(p)' = FirstPending(p)
      /\ \A p, i : /\ Given(p, i, all)' = Given(p, i, all)
                   /\ Dead(p, i)' = Dead(p, i)
  BY <1>2, NodeStays, ReportsStay DEF Near
<1>4. online /\ \A i \in DOMAIN toCoord : toCoord[i].t # "hello"
  BY <1>2, NoHelloLeft DEF MeetInv, CommandInv, DriverInv
<1>5. DOMAIN toHost = 1..Len(toHost) /\ Len(toHost) \in Nat
  BY <1>1, HostFrames
<1>6. ASSUME NEW i \in DOMAIN toHost'
      PROVE  \/ i \in DOMAIN toHost /\ toHost'[i] = toHost[i]
             \/ /\ linkSocket /\ paired /\ i = Len(toHost) + 1
                /\ toHost'[i].t = "event_ack" /\ toHost'[i].proc = q
                /\ toHost'[i].seq = pendingAcks[q]
  <2> DEFINE m == [t |-> "event_ack", proc |-> q, seq |-> pendingAcks[q]]
             msgs == <<m>>
  <2>1. m \in CoordinatorToHost
    BY <1>2 DEF CoordinatorToHost, EventAck
  <2>2. /\ msgs \in Seq(CoordinatorToHost) /\ DOMAIN msgs = {1}
        /\ \A k \in DOMAIN msgs : msgs[k] = m
    BY <2>1
  <2>3. CoordinatorSends(msgs)
    BY DEF FlushAck
  <2>4. m.t = "event_ack" /\ m.proc = q /\ m.seq = pendingAcks[q]
    OBVIOUS
  <2> HIDE DEF msgs, m
  <2>5. CASE toHost' = toHost
    BY <2>5
  <2>6. CASE /\ linkSocket /\ paired
             /\ DOMAIN toHost' = 1..Len(toHost) + Len(msgs)
             /\ \A k \in DOMAIN toHost : toHost'[k] = toHost[k]
             /\ \A k \in DOMAIN toHost' : k > Len(toHost) =>
                   /\ k - Len(toHost) \in DOMAIN msgs
                   /\ toHost'[k] = msgs[k - Len(toHost)]
    <3>1. CASE i > Len(toHost)
      <4>1. i - Len(toHost) = 1 /\ toHost'[i] = m
        BY <2>2, <2>6, <3>1
      <4>2. i = Len(toHost) + 1
        BY <1>5, <2>2, <2>6, <4>1
      <4>3. QED
        BY <2>4, <2>6, <4>1, <4>2
    <3>2. CASE ~(i > Len(toHost))
      <4>1. i \in DOMAIN toHost
        BY <1>1, <1>5, <2>6, <3>2 DEF WireTypeOK
      <4>2. QED
        BY <2>6, <4>1
    <3>3. QED
      BY <3>1, <3>2
  <2>7. QED
    BY <1>1, <2>2, <2>3, <2>5, <2>6, SentBehind
<1>7. \A i \in DOMAIN toHost : toHost'[i] = toHost[i] /\ i \in DOMAIN toHost'
  <2> DEFINE m == [t |-> "event_ack", proc |-> q, seq |-> pendingAcks[q]]
             msgs == <<m>>
  <2>1. m \in CoordinatorToHost
    BY <1>2 DEF CoordinatorToHost, EventAck
  <2>2. msgs \in Seq(CoordinatorToHost)
    BY <2>1
  <2>3. CoordinatorSends(msgs)
    BY DEF FlushAck
  <2> HIDE DEF msgs, m
  <2>4. QED
    BY <1>1, <2>2, <2>3, SentBehind
<1>8. MeetInv'
  <2>1. HelloFirst'
    BY <1>2, <1>4 DEF HelloFirst
  <2>2. HelloLists'
    BY <1>2, <1>4 DEF HelloLists
  <2>3. Replaced'
    BY <1>2, <1>6 DEF MeetInv, Replaced, Marked
  <2>4. Unmet'
    BY <1>2 DEF MeetInv, Unmet
  <2>5. Fellow'
    <3>1. ASSUME hostInstanceId # 0, NEW i \in DOMAIN toHost', Marked(toHost'[i])
          PROVE  From(toHost'[i]) = instanceId
      BY <1>6, <3>1 DEF MeetInv, Fellow, Marked
    <3>2. ASSUME hostInstanceId # 0, Foreign, NEW i \in DOMAIN toHost',
                 toHost'[i].t = "event_ack"
          PROVE  \E j \in 1..i - 1 : toHost'[j].t = "welcome"
      <4>1. CASE i \in DOMAIN toHost /\ toHost'[i] = toHost[i]
        <5>1. PICK j \in 1..i - 1 : toHost[j].t = "welcome"
          BY <3>2, <4>1 DEF MeetInv, Fellow
        <5>2. j \in DOMAIN toHost
          BY <1>5, <4>1, <5>1
        <5>3. QED
          BY <1>7, <5>1, <5>2
      <4>2. CASE paired /\ i = Len(toHost) + 1
        <5>1. PICK j \in DOMAIN toHost : toHost[j].t = "welcome"
          BY <1>4, <3>2, <4>2 DEF CommandInv, DriverInv, Introduced, Foreign
        <5>2. j \in 1..i - 1
          BY <1>5, <4>2
        <5>3. QED
          BY <1>7, <5>1, <5>2
      <4>3. QED
        BY <1>6, <4>1, <4>2
    <3>3. QED
      BY <1>2, <1>3, <3>1, <3>2 DEF Fellow
  <2>6. OneWelcome'
    BY <1>6 DEF MeetInv, OneWelcome
  <2>7. QED
    BY <2>1, <2>2, <2>3, <2>4, <2>5, <2>6 DEF MeetInv
<1>9. Shape(all)' /\ Parented'
  BY NodeStays
<1>10. SpawnInv(all)'
  <2>1. Unused'
    <3> SUFFICES ASSUME NEW p \in Procs \ used
                 PROVE  /\ pendingAcks'[p] = 0
                        /\ \A i \in DOMAIN toHost' :
                             /\ toHost'[i].t = "event_ack" => toHost'[i].proc # p
                             /\ toHost'[i].t = "welcome" => p \notin toHost'[i].listed
                             /\ ~Carries(toHost'[i], p)
      BY <1>2, <1>3 DEF SpawnInv, Unused
    <3>1. p # q
      BY <1>2 DEF SpawnInv, Unused
    <3>2. pendingAcks'[p] = 0
      BY <1>1, <1>2, <3>1 DEF SpawnInv, Unused, ManagerTypeOK
    <3>3. QED
      BY <1>6, <3>1, <3>2 DEF SpawnInv, Unused, Carries
  <2>2. LiveOnly'
    BY <1>2 DEF SpawnInv, LiveOnly
  <2>3. Separate'
    BY <1>2, <1>3, <1>6 DEF SpawnInv, Separate, Carries
  <2>4. Unspawned(all)'
    BY <1>2, <1>3 DEF SpawnInv, Unspawned
  <2>5. QED
    BY <2>1, <2>2, <2>3, <2>4 DEF SpawnInv
<1>11. Welcomed(all)'
  <2> SUFFICES ASSUME NEW i \in DOMAIN toHost', toHost'[i].t = "welcome"
               PROVE  /\ \A j \in 1..i - 1, p \in Procs :
                            Carries(toHost'[j], p) /\ Fresh(toHost[j])' =>
                               /\ p \in toHost'[i].listed
                               /\ all => toHost'[i].received[p] = 0
                      /\ all /\ toHost'[i].coord = coordinatorInstanceId' =>
                            \A p \in toHost'[i].listed \cap Hosted' :
                               /\ toHost'[i].received[p] < nextSeq'[p]
                               /\ phase'[p] = "exited" =>
                                     toHost'[i].received[p] + 1 < nextSeq'[p]
                      /\ toHost'[i].coord = instanceId' =>
                            /\ \A p \in toHost'[i].listed \cap Hosted' :
                                  phase'[p] # "exited" => p \in Live'
                            /\ \A p \in toHost'[i].listed : Counted(p, all)' =>
                                  toHost'[i].received[p] <= lastEventSeq'[p]
                            /\ all => \A p \in Live' \ toHost'[i].listed :
                                  /\ p \notin Hosted' /\ p \notin started'
                                  /\ lastEventSeq'[p] = 0
    BY DEF Welcomed
  <2>1. i \in DOMAIN toHost /\ toHost'[i] = toHost[i]
    BY <1>6
  <2>2. ASSUME NEW j \in 1..i - 1, NEW p \in Procs, Carries(toHost'[j], p), Fresh(toHost[j])'
        PROVE  p \in toHost[i].listed /\ (all => toHost[i].received[p] = 0)
    <3>1. j \in DOMAIN toHost
      BY <1>5, <2>1
    <3>2. toHost'[j] = toHost[j]
      BY <1>7, <3>1
    <3>3. Fresh(toHost[j])
      BY <1>2, <2>2, <3>2 DEF Fresh, Reached
    <3>4. QED
      BY <2>1, <2>2, <3>2, <3>3 DEF NumberInv, Welcomed
  <2>3. QED
    BY <1>2, <1>3, <2>1, <2>2 DEF NumberInv, Welcomed
<1>12. Acked(all)'
  <2>1. ASSUME NEW p \in Procs, Counted(p, all) PROVE pendingAcks'[p] <= lastEventSeq[p]
    <3>1. pendingAcks'[p] = 0 \/ pendingAcks'[p] = pendingAcks[p]
      BY <1>1, <1>2 DEF ManagerTypeOK
    <3>2. lastEventSeq[p] \in Nat
      BY <1>1 DEF ManagerTypeOK
    <3>3. QED
      BY <2>1, <3>1, <3>2 DEF NumberInv, Acked
  <2>2. Counted(q, all) => pendingAcks[q] <= lastEventSeq[q]
    BY DEF NumberInv, Acked
  <2>3. ASSUME NEW i \in DOMAIN toHost', toHost'[i].t = "event_ack"
        PROVE  /\ toHost'[i].seq # 0
               /\ hostInstanceId # 0 /\ Counted(toHost'[i].proc, all) =>
                     toHost'[i].seq <= lastEventSeq[toHost'[i].proc]
    BY <1>2, <1>6, <2>2, <2>3 DEF NumberInv, Acked
  <2>4. QED
    BY <1>2, <2>1, <2>3 DEF Acked, Counted, Live
<1>13. Numbered' /\ BeforeAdoption(all)' /\ ReadEarly(all)'
  BY <1>2, <1>3 DEF NumberInv, Numbered, BeforeAdoption, ReadEarly
<1>14. InStep(all)' /\ Attended' /\ (all => Present')
  BY <1>2, <1>3 DEF NumberInv, InStep, Attended, Present
<1>15. QED
  BY <1>8, <1>9, <1>10, <1>11, <1>12, <1>13, <1>14 DEF NumberInv

\* What reading an event of q with number s changes.
Reading(q, s, kind) ==
    /\ \A p \in Procs : p # q =>
         /\ remote'[p] = remote[p] /\ (p \in started' <=> p \in started)
         /\ lastEventSeq'[p] = lastEventSeq[p] /\ pendingAcks'[p] = pendingAcks[p]
    /\ ~IsNext(q, s) =>
         /\ remote'[q] = remote[q] /\ (q \in started' <=> q \in started)
         /\ lastEventSeq'[q] = lastEventSeq[q]
         /\ pendingAcks'[q] # pendingAcks[q] =>
               pendingAcks'[q] = s /\ (q \notin Live \/ s <= lastEventSeq[q])
    /\ IsNext(q, s) /\ kind = "exit" =>
         remote'[q] = "exited" /\ q \notin started' /\ lastEventSeq'[q] = 0
    /\ IsNext(q, s) /\ kind # "exit" =>
         /\ remote'[q] = remote[q] /\ lastEventSeq'[q] = s
         /\ q \in started' => q \in started \/ kind = "spawned"
         /\ pendingAcks'[q] = pendingAcks[q] \/ pendingAcks'[q] = s

LEMMA EventRead ==
    ASSUME TypeInv, ReceiveEvent
    PROVE  /\ 1 \in DOMAIN toCoord /\ toCoord[1] \in EventMsg /\ toCoord[1].t = "event"
           /\ toCoord # <<>> /\ toCoord' = Tail(toCoord) /\ linkSocket
           /\ UNCHANGED <<linkSocket, agentSocket, paired, toHost>>
           /\ UNCHANGED <<instanceId, online, hostInstanceId, unacked, used, adoptable>>
           /\ Reading(toCoord[1].proc, toCoord[1].seq, toCoord[1].event.kind)
<1>1. WireTypeOK /\ ManagerTypeOK
  BY DEF TypeInv
<1>2. /\ toCoord # <<>> /\ Head(toCoord).t = "event" /\ linkSocket
      /\ toCoord' = Tail(toCoord)
      /\ UNCHANGED <<linkSocket, agentSocket, paired, toHost>>
      /\ UNCHANGED <<instanceId, online, hostInstanceId, unacked, used, adoptable>>
  BY DEF ReceiveEvent, ManagerReceives, ManagerConsumes, linkVars, queueVars
<1>3. 1 \in DOMAIN toCoord /\ Head(toCoord) = toCoord[1] /\ toCoord[1] \in EventMsg
  BY <1>1, <1>2, CoordFrames, CoordinatorFrame
<1> DEFINE q == toCoord[1].proc
           s == toCoord[1].seq
           kind == toCoord[1].event.kind
<1>4. q \in Procs /\ s \in Nat
  BY <1>3 DEF EventMsg
<1>5. /\ remote \in [Procs -> {"none", "live", "exited", "failed"}]
      /\ lastEventSeq \in [Procs -> Nat] /\ pendingAcks \in [Procs -> Nat]
  BY <1>1 DEF ManagerTypeOK
<1>6. /\ ~IsNext(q, s) => UNCHANGED <<started, remote, lastEventSeq>>
      /\ IsNext(q, s) => Apply(q, toCoord[1].event)
      /\ lastEventSeq' = IF IsNext(q, s)
            THEN [lastEventSeq EXCEPT ![q] = IF IsNext(q, s) /\ kind = "exit" THEN 0 ELSE s]
            ELSE lastEventSeq
      /\ IF IsNext(q, s) \/ q \notin Live \/ s <= lastEventSeq[q]
            THEN Acknowledge(q, s) ELSE UNCHANGED pendingAcks
  BY <1>3 DEF ReceiveEvent
<1> HIDE DEF q, s, kind
<1>7. \A p \in Procs : p # q => pendingAcks'[p] = pendingAcks[p]
  BY <1>4, <1>5, <1>6 DEF Acknowledge
<1>8. /\ pendingAcks'[q] = pendingAcks[q] \/ pendingAcks'[q] = s
      /\ ~IsNext(q, s) /\ pendingAcks'[q] # pendingAcks[q] =>
            q \notin Live \/ s <= lastEventSeq[q]
  BY <1>4, <1>5, <1>6 DEF Acknowledge
<1>9. ASSUME ~IsNext(q, s) PROVE Reading(q, s, kind)
  BY <1>4, <1>6, <1>7, <1>8, <1>9 DEF Reading
<1>10. ASSUME IsNext(q, s) PROVE Reading(q, s, kind)
  <2>1. /\ started' = IF kind = "spawned" THEN started \cup {q}
                      ELSE IF kind = "exit" THEN started \ {q} ELSE started
        /\ remote' = IF kind = "exit" THEN [remote EXCEPT ![q] = "exited"] ELSE remote
    BY <1>6, <1>10 DEF Apply, kind
  <2>2. lastEventSeq' = [lastEventSeq EXCEPT ![q] = IF kind = "exit" THEN 0 ELSE s]
    BY <1>6, <1>10
  <2>3. ASSUME NEW p \in Procs, p # q
        PROVE  /\ remote'[p] = remote[p] /\ (p \in started' <=> p \in started)
               /\ lastEventSeq'[p] = lastEventSeq[p]
    BY <1>5, <2>1, <2>2, <2>3
  <2>4. kind = "exit" => remote'[q] = "exited" /\ q \notin started' /\ lastEventSeq'[q] = 0
    BY <1>4, <1>5, <2>1, <2>2
  <2>5. kind # "exit" => /\ remote'[q] = remote[q] /\ lastEventSeq'[q] = s
                         /\ q \in started' => q \in started \/ kind = "spawned"
    BY <1>4, <1>5, <2>1, <2>2
  <2>6. QED
    BY <1>7, <1>8, <1>10, <2>3, <2>4, <2>5 DEF Reading
<1>11. Reading(q, s, kind)
  BY <1>9, <1>10
<1>12. QED
  BY <1>2, <1>3, <1>11 DEF q, s, kind

LEMMA EventKeeps ==
    ASSUME TypeInv, TypeInv', CommandInv, CommandInv', NEW all \in BOOLEAN,
           OutputInv(all), UNCHANGED agentVars, ReceiveEvent
    PROVE  OutputInv(all)'
<1> USE DEF OutputInv
<1>1. WireTypeOK /\ ManagerTypeOK /\ ManagerTypeOK' /\ AgentTypeOK /\ WireTypeOK'
  BY DEF TypeInv, AgentInv
<1>2. /\ 1 \in DOMAIN toCoord /\ toCoord[1] \in EventMsg /\ toCoord[1].t = "event"
      /\ toCoord # <<>> /\ toCoord' = Tail(toCoord) /\ linkSocket
      /\ UNCHANGED <<linkSocket, agentSocket, paired, toHost>>
      /\ UNCHANGED <<instanceId, online, hostInstanceId, unacked, used, adoptable>>
      /\ UNCHANGED <<phase, nextSeq, coordinatorInstanceId, appliedCommandSeq, agentId>>
  BY EventRead DEF agentVars
<1>3. PICK q, s, kind : q = toCoord[1].proc /\ s = toCoord[1].seq /\ kind = toCoord[1].event.kind
  OBVIOUS
<1>4. Reading(q, s, kind) /\ q \in Procs /\ s \in Nat /\ 1 \in Reports(q)
  BY <1>2, <1>3, EventRead DEF EventMsg, Reports
<1>5. /\ Hosted' = Hosted /\ Known' = Known /\ Foreign' = Foreign /\ Joined' = Joined
      /\ Reached(instanceId)' = Reached(instanceId)
      /\ \A p : FirstPending(p)' = FirstPending(p)
      /\ \A i : Fresh(toHost[i])' = Fresh(toHost[i])
  BY <1>2, NodeStays DEF Fresh, Reached
<1>6. online /\ \A i \in DOMAIN toCoord : toCoord[i].t # "hello"
  BY <1>2, NoHelloLeft DEF MeetInv, CommandInv, DriverInv
<1>7. hostInstanceId # 0 /\ ~Greeted
  BY <1>6 DEF MeetInv, Unmet, Greeted
<1>8. /\ DOMAIN toCoord = 1..Len(toCoord) /\ Len(toCoord) \in Nat
      /\ DOMAIN toCoord' = 1..Len(toCoord) - 1
      /\ \A i \in DOMAIN toCoord' : i + 1 \in DOMAIN toCoord /\ toCoord'[i] = toCoord[i + 1]
  <2>1. /\ DOMAIN toCoord = 1..Len(toCoord) /\ Len(toCoord) \in Nat
        /\ DOMAIN toCoord' = 1..Len(toCoord) - 1
        /\ \A i \in DOMAIN toCoord' : toCoord'[i] = toCoord[i + 1]
    BY <1>1, <1>2, CoordFrames
  <2>2. QED
    BY <2>1
<1>9. \A p : \A i \in Reports(p)' : i + 1 \in Reports(p) /\ toCoord'[i] = toCoord[i + 1]
  BY <1>8 DEF Reports
<1>10. Near' <=> Known
  <2>1. ~Greeted'
    BY <1>6, <1>8 DEF Greeted
  <2>2. QED
    BY <1>5, <2>1 DEF Near
<1>11. \A p : \A i \in Reports(p)' : Given(p, i + 1, all) => Given(p, i, all)'
  BY <1>2, <1>9 DEF Given
<1>12. Near <=> Known
  BY <1>7 DEF Near
\* The number of an event that is next follows on what was read.
<1>13. IsNext(q, s) => /\ q \in Live /\ s = lastEventSeq[q] + 1 /\ lastEventSeq[q] \in Nat
                       /\ ~Dead(q, 1)
  <2>1. ASSUME IsNext(q, s)
        PROVE  q \in Live /\ s = lastEventSeq[q] + 1 /\ lastEventSeq[q] \in Nat
    BY <1>1, <1>4, <2>1 DEF IsNext, ManagerTypeOK
  <2>2. ASSUME IsNext(q, s), Dead(q, 1) PROVE FALSE
    <3>1. toCoord[1].seq # 1 /\ lastEventSeq[q] = 0
      BY <1>4, <2>2 DEF Dead
    <3>2. QED
      BY <1>3, <2>1, <2>2, <3>1
  <2>3. QED
    BY <2>1, <2>2
<1>14. kind = "spawned" => s = 1
  BY <1>2, <1>3 DEF NumberInv, Numbered
<1>15. Known /\ kind = "exit" => phase[q] \in {"absent", "exited"}
  BY <1>2, <1>3, <1>12 DEF NumberInv, Numbered
<1>16. ASSUME NEW p \in Procs, p # q \/ ~IsNext(q, s)
       PROVE  /\ remote'[p] = remote[p] /\ (p \in started' <=> p \in started)
              /\ lastEventSeq'[p] = lastEventSeq[p]
              /\ (p \in Live' <=> p \in Live)
              /\ Counted(p, all)' = Counted(p, all)
  <2>1. /\ remote'[p] = remote[p] /\ (p \in started' <=> p \in started)
        /\ lastEventSeq'[p] = lastEventSeq[p]
    BY <1>4, <1>16 DEF Reading
  <2>2. QED
    BY <2>1 DEF Live, Counted
<1>17. ASSUME IsNext(q, s), kind = "exit"
       PROVE  q \notin Live' /\ q \notin started' /\ lastEventSeq'[q] = 0
  BY <1>4, <1>17 DEF Reading, Live
<1>18. ASSUME IsNext(q, s), kind # "exit"
       PROVE  /\ q \in Live' /\ lastEventSeq'[q] = s /\ lastEventSeq[q] < s /\ s # 0
              /\ remote'[q] = remote[q]
              /\ (q \in started' => q \in started \/ lastEventSeq[q] = 0)
              /\ (Counted(q, all)' => Counted(q, all))
  <2>1. /\ remote'[q] = remote[q] /\ lastEventSeq'[q] = s
        /\ q \in started' => q \in started \/ kind = "spawned"
    BY <1>4, <1>18 DEF Reading
  <2>2. lastEventSeq[q] < s /\ s # 0 /\ q \in Live
    BY <1>13, <1>18
  <2>3. kind = "spawned" => lastEventSeq[q] = 0
    BY <1>13, <1>14, <1>18
  <2>4. q \in Live'
    BY <1>4, <2>1, <2>2 DEF Live
  <2>5. Counted(q, all)' => Counted(q, all)
    BY <2>1, <2>2, <2>3 DEF Counted
  <2>6. QED
    BY <2>1, <2>2, <2>3, <2>4, <2>5
<1>19. ASSUME NEW p \in Procs, Counted(p, all)'
       PROVE  /\ Counted(p, all) /\ lastEventSeq[p] <= lastEventSeq'[p]
              /\ p = q /\ IsNext(q, s) => kind # "exit"
  <2>1. CASE p # q \/ ~IsNext(q, s)
    BY <1>1, <1>16, <1>19, <2>1 DEF ManagerTypeOK
  <2>2. CASE p = q /\ IsNext(q, s)
    <3>1. kind # "exit"
      BY <1>17, <1>19, <2>2 DEF Counted
    <3>2. lastEventSeq[q] \in Nat
      BY <1>13, <2>2
    <3>3. QED
      BY <1>4, <1>18, <1>19, <2>2, <3>1, <3>2
  <2>3. QED
    BY <2>1, <2>2
<1>20. Live' \subseteq Live /\ Live' \ started' \subseteq Live \ started /\ started' \subseteq Live'
  <2>1. ASSUME NEW p \in Live' PROVE p \in Live /\ (p \in started => p \in started')
    <3>0. p \in Procs
      BY DEF Live
    <3>1. CASE p # q \/ ~IsNext(q, s)
      BY <1>16, <2>1, <3>0, <3>1
    <3>2. CASE p = q /\ IsNext(q, s)
      <4>1. kind # "exit"
        BY <1>17, <2>1, <3>2
      <4>2. p \in Live
        BY <1>13, <3>2
      <4>3. q \in started => q \in started'
        BY <1>1, <1>2, <1>3, <3>2, <4>1, <1>7, CoordFrames DEF ReceiveEvent, Apply
      <4>4. QED
        BY <3>2, <4>2, <4>3
    <3>3. QED
      BY <3>1, <3>2
  <2>2. ASSUME NEW p \in started' PROVE p \in Live'
    <3>0. p \in Procs
      BY <1>1, <2>2 DEF ManagerTypeOK
    <3>1. CASE p # q \/ ~IsNext(q, s)
      BY <1>16, <2>2, <3>0, <3>1 DEF SpawnInv, LiveOnly
    <3>2. CASE p = q /\ IsNext(q, s)
      BY <1>17, <1>18, <2>2, <3>2
    <3>3. QED
      BY <3>1, <3>2
  <2>3. QED
    BY <2>1, <2>2
<1>21. MeetInv'
  <2>1. HelloCarried(1) /\ HostCarried(0)
    BY <1>1, <1>2, <1>6, CoordKinds, HostKinds
       DEF MeetInv, CommandInv, DriverInv, CoordCarried, HelloCarried
  <2>2. Meets
    BY <1>2, <1>5, <1>6, <1>7, <2>1 DEF Meets, MeetInv, HelloFirst
  <2>3. QED
    BY <2>2, MeetsKept
<1>22. Shape(all)' /\ Parented'
  BY NodeStays
<1>23. SpawnInv(all)'
  <2>1. Unused'
    <3> SUFFICES ASSUME NEW p \in Procs \ used
                 PROVE  remote'[p] = "none" /\ Reports(p)' = {} /\ pendingAcks'[p] = 0
      BY <1>2, <1>5 DEF SpawnInv, Unused
    <3>1. p # q /\ Reports(p) = {} /\ remote[p] = "none" /\ pendingAcks[p] = 0
      BY <1>4 DEF SpawnInv, Unused
    <3>2. Reports(p)' = {}
      BY <1>9, <3>1
    <3>3. QED
      BY <1>4, <3>1, <3>2 DEF Reading
  <2>2. LiveOnly'
    <3>1. ASSUME NEW p \in Procs, p \notin Live' PROVE lastEventSeq'[p] = 0
      <4>1. CASE p # q \/ ~IsNext(q, s)
        BY <1>16, <3>1, <4>1 DEF SpawnInv, LiveOnly
      <4>2. CASE p = q /\ IsNext(q, s)
        BY <1>17, <1>18, <3>1, <4>2
      <4>3. QED
        BY <4>1, <4>2
    <3>2. ASSUME NEW p \in adoptable PROVE remote'[p] = "none"
      <4>1. p \in Procs /\ remote[p] = "none"
        BY <1>1 DEF SpawnInv, LiveOnly, ManagerTypeOK
      <4>2. p # q \/ ~IsNext(q, s)
        BY <1>13, <4>1 DEF Live
      <4>3. QED
        BY <1>16, <4>1, <4>2
    <3>3. QED
      BY <1>2, <1>20, <3>1, <3>2 DEF LiveOnly
  <2>3. Separate'
    BY <1>2, <1>5, <1>7, <1>20 DEF SpawnInv, Separate
  <2>4. Unspawned(all)'
    <3>1. ASSUME Known, NEW i \in DOMAIN unacked, NEW p \in Procs,
                 Spawns(unacked[i].cmd, p), unacked[i].seq > Reached(instanceId)
          PROVE  /\ p \in Live' /\ p \notin started' /\ p \notin Hosted /\ Reports(p)' = {}
                 /\ all => lastEventSeq'[p] = 0
      <4>1. /\ p \in Live /\ p \notin started /\ p \notin Hosted /\ Reports(p) = {}
            /\ all => lastEventSeq[p] = 0
        BY <3>1 DEF SpawnInv, Unspawned
      <4>2. p # q
        BY <1>4, <4>1
      <4>3. Reports(p)' = {}
        BY <1>9, <4>1
      <4>4. QED
        BY <1>16, <4>1, <4>2, <4>3
    <3>2. QED
      BY <1>2, <1>5, <3>1 DEF Unspawned
  <2>5. QED
    BY <2>1, <2>2, <2>3, <2>4 DEF SpawnInv
<1>24. Known /\ IsNext(q, s) /\ kind = "exit" /\ q \in Hosted => phase[q] = "exited"
  BY <1>15 DEF Hosted
<1>25. all /\ Known /\ IsNext(q, s) => q \in Hosted
  BY <1>4, <1>13 DEF NumberInv, Present
<1>26. Welcomed(all)'
  <2>1. ASSUME NEW i \in DOMAIN toHost, toHost[i].t = "welcome", toHost[i].coord = instanceId
        PROVE  /\ \A p \in toHost[i].listed \cap Hosted : phase[p] # "exited" => p \in Live'
               /\ \A p \in toHost[i].listed :
                     Counted(p, all)' => toHost[i].received[p] <= lastEventSeq'[p]
               /\ all => \A p \in Live' \ toHost[i].listed :
                     p \notin Hosted /\ p \notin started' /\ lastEventSeq'[p] = 0
    <3>1. Known
      BY <2>1 DEF CommandInv, Recognised, Marked, From, Known
    <3>2. toHost[i].listed \in SUBSET Procs /\ toHost[i].received \in [Procs -> Nat]
      <4>1. toHost[i] \in Welcome
        BY <1>1, <2>1, HostFrames, HostFrame
      <4>2. QED
        BY <4>1 DEF Welcome
    <3>3. ASSUME NEW p \in toHost[i].listed \cap Hosted, phase[p] # "exited" PROVE p \in Live'
      <4>1. p \in Live /\ p \in Procs
        BY <2>1, <3>2, <3>3 DEF NumberInv, Welcomed
      <4>2. CASE p # q \/ ~IsNext(q, s)
        BY <1>16, <4>1, <4>2
      <4>3. CASE p = q /\ IsNext(q, s)
        BY <1>18, <1>24, <3>1, <3>3, <4>3
      <4>4. QED
        BY <4>2, <4>3
    <3>4. ASSUME NEW p \in toHost[i].listed, Counted(p, all)'
          PROVE  toHost[i].received[p] <= lastEventSeq'[p]
      <4>1. Counted(p, all) /\ lastEventSeq[p] <= lastEventSeq'[p] /\ p \in Procs
        BY <1>19, <3>2, <3>4
      <4>2. toHost[i].received[p] <= lastEventSeq[p]
        BY <2>1, <4>1 DEF NumberInv, Welcomed
      <4>3. lastEventSeq[p] \in Nat /\ lastEventSeq'[p] \in Nat /\ toHost[i].received[p] \in Nat
        BY <1>1, <3>2, <4>1 DEF ManagerTypeOK
      <4>4. QED
        BY <4>1, <4>2, <4>3
    <3>5. ASSUME all, NEW p \in Live' \ toHost[i].listed
          PROVE  p \notin Hosted /\ p \notin started' /\ lastEventSeq'[p] = 0
      <4>1. p \in Live /\ p \in Procs
        BY <1>20 DEF Live
      <4>2. p \notin Hosted /\ p \notin started /\ lastEventSeq[p] = 0
        BY <2>1, <3>5, <4>1 DEF NumberInv, Welcomed
      <4>3. p # q \/ ~IsNext(q, s)
        BY <1>25, <3>1, <3>5, <4>2
      <4>4. QED
        BY <1>16, <4>1, <4>2, <4>3
    <3>6. QED
      BY <3>3, <3>4, <3>5
  <2>2. QED
    BY <1>2, <1>5, <2>1 DEF NumberInv, Welcomed
<1>27. Acked(all)'
  <2>1. ASSUME NEW p \in Procs, Counted(p, all)' PROVE pendingAcks'[p] <= lastEventSeq'[p]
    <3>1. /\ Counted(p, all) /\ lastEventSeq[p] <= lastEventSeq'[p]
          /\ p = q /\ IsNext(q, s) => kind # "exit"
      BY <1>19, <2>1
    <3>2. /\ lastEventSeq[p] \in Nat /\ lastEventSeq'[p] \in Nat
          /\ pendingAcks[p] \in Nat /\ pendingAcks'[p] \in Nat
      BY <1>1 DEF ManagerTypeOK
    <3>3. pendingAcks[p] <= lastEventSeq[p] /\ p \in Live
      BY <3>1 DEF NumberInv, Acked, Counted
    <3>4. CASE pendingAcks'[p] = pendingAcks[p]
      BY <3>1, <3>2, <3>3, <3>4
    <3>5. CASE p = q /\ ~IsNext(q, s) /\ pendingAcks'[p] # pendingAcks[p]
      <4>1. pendingAcks'[q] = s /\ s <= lastEventSeq[q]
        BY <1>4, <3>3, <3>5 DEF Reading
      <4>2. QED
        BY <1>4, <3>1, <3>2, <3>5, <4>1
    <3>6. CASE p = q /\ IsNext(q, s) /\ pendingAcks'[p] # pendingAcks[p]
      <4>1. pendingAcks'[q] = s /\ lastEventSeq'[q] = s
        BY <1>4, <3>1, <3>6 DEF Reading
      <4>2. QED
        BY <3>6, <4>1, <1>4
    <3>7. QED
      BY <1>4, <3>4, <3>5, <3>6 DEF Reading
  <2>2. ASSUME NEW i \in DOMAIN toHost, toHost[i].t = "event_ack"
        PROVE  /\ toHost[i].seq # 0
               /\ Counted(toHost[i].proc, all)' =>
                     toHost[i].seq <= lastEventSeq'[toHost[i].proc]
    <3>1. toHost[i].proc \in Procs /\ toHost[i].seq \in Nat
      <4>1. toHost[i] \in EventAck
        BY <1>1, <2>2, HostFrames, HostFrame
      <4>2. QED
        BY <4>1 DEF EventAck
    <3>2. ASSUME Counted(toHost[i].proc, all)'
          PROVE  toHost[i].seq <= lastEventSeq'[toHost[i].proc]
      <4>1. /\ Counted(toHost[i].proc, all)
            /\ lastEventSeq[toHost[i].proc] <= lastEventSeq'[toHost[i].proc]
        <5>1. PICK p \in Procs : p = toHost[i].proc
          BY <3>1
        <5>2. Counted(p, all)'
          BY <1>2, <3>2, <5>1 DEF Counted
        <5>3. QED
          BY <1>19, <5>1, <5>2
      <4>2. toHost[i].seq <= lastEventSeq[toHost[i].proc]
        BY <1>7, <2>2, <4>1 DEF NumberInv, Acked
      <4>3. /\ lastEventSeq[toHost[i].proc] \in Nat
            /\ lastEventSeq'[toHost[i].proc] \in Nat
        BY <1>1, <3>1 DEF ManagerTypeOK
      <4>4. QED
        BY <3>1, <4>1, <4>2, <4>3
    <3>3. QED
      BY <2>2, <3>2 DEF NumberInv, Acked
  <2>3. QED
    BY <1>2, <2>1, <2>2 DEF Acked
<1>28. Numbered'
  <2>1. ASSUME NEW i \in DOMAIN toCoord', toCoord'[i].t = "event"
        PROVE  /\ toCoord'[i].seq # 0
               /\ toCoord'[i].event.kind = "spawned" => toCoord'[i].seq = 1
               /\ Near' /\ toCoord'[i].event.kind = "exit" =>
                     phase[toCoord'[i].proc] \in {"absent", "exited"}
    BY <1>8, <1>10, <1>12, <2>1 DEF NumberInv, Numbered
  <2>2. QED
    BY <1>2, <2>1 DEF Numbered
<1>29. BeforeAdoption(all)'
  <2>1. ASSUME Foreign, Near, NEW p \in Procs, NEW i \in Reports(p)'
        PROVE  p \in Hosted /\ FirstPending(p) <= toCoord'[i].seq /\ Given(p, i, all)'
    BY <1>9, <1>11, <2>1 DEF NumberInv, BeforeAdoption
  <2>2. QED
    BY <1>5, <1>10, <1>12, <2>1 DEF BeforeAdoption
\* The event read is one the node gave out.
<1>30. ASSUME Known, IsNext(q, s), q \in Hosted, Counted(q, all)
       PROVE  Given(q, 1, all) /\ FirstPending(q) <= s
  <2>1. CASE Foreign
    <3>1. FirstPending(q) <= toCoord[1].seq /\ Given(q, 1, all)
      BY <1>4, <1>12, <1>30, <2>1 DEF NumberInv, BeforeAdoption
    <3>2. QED
      BY <1>3, <3>1
  <2>2. CASE ~Foreign
    <3>1. /\ FirstPending(q) <= lastEventSeq[q] + 1
          /\ Dead(q, 1) \/ Given(q, 1, all)
      BY <1>4, <1>30, <2>2 DEF NumberInv, InStep, Joined, Foreign, Known
    <3>2. QED
      BY <1>13, <1>30, <3>1
  <2>3. QED
    BY <2>1, <2>2
<1>31. \A p \in Procs : FirstPending(p) \in Nat \ {0} /\ nextSeq[p] \in Nat
  <2>1. ASSUME NEW p \in Procs PROVE FirstPending(p) \in Nat \ {0} /\ nextSeq[p] \in Nat
    <3>1. /\ pending[p] \in Seq(Event) /\ nextSeq[p] \in Nat \ {0}
          /\ Len(pending[p]) < nextSeq[p]
      BY DEF TypeInv, AgentInv, AgentTypeOK
    <3>2. Len(pending[p]) \in Nat
      BY <3>1
    <3>3. QED
      BY <3>1, <3>2 DEF FirstPending
  <2>2. QED
    BY <2>1
<1>32. ReadEarly(all)'
  <2>1. ASSUME Foreign, Known, NEW p \in Hosted, Counted(p, all)', lastEventSeq'[p] # 0
        PROVE  FirstPending(p) = 1 /\ lastEventSeq'[p] < nextSeq[p]
    <3>1. Counted(p, all) /\ p \in Procs /\ (p = q /\ IsNext(q, s) => kind # "exit")
      BY <1>19, <2>1 DEF Hosted
    <3>2. CASE p # q \/ ~IsNext(q, s)
      BY <1>16, <2>1, <3>1, <3>2 DEF NumberInv, ReadEarly
    <3>3. CASE p = q /\ IsNext(q, s)
      <4>1. Given(q, 1, all) /\ FirstPending(q) <= s /\ lastEventSeq'[q] = s
        BY <1>18, <1>30, <2>1, <3>1, <3>3
      <4>2. s < nextSeq[q]
        BY <1>3, <4>1 DEF Given
      <4>3. FirstPending(q) = 1
        <5>1. CASE lastEventSeq[q] = 0
          <6>1. s = 1 /\ FirstPending(q) \in Nat \ {0}
            BY <1>4, <1>13, <1>31, <3>3, <5>1
          <6>2. QED
            BY <4>1, <6>1
        <5>2. CASE lastEventSeq[q] # 0
          BY <2>1, <3>1, <3>3, <5>2 DEF NumberInv, ReadEarly
        <5>3. QED
          BY <5>1, <5>2
      <4>4. QED
        BY <3>3, <4>1, <4>2, <4>3
    <3>4. QED
      BY <3>2, <3>3
  <2>2. QED
    BY <1>2, <1>5, <2>1 DEF ReadEarly
<1>33. InStep(all)'
  <2>1. ASSUME Joined, NEW p \in Hosted, Counted(p, all)'
        PROVE  /\ FirstPending(p) <= lastEventSeq'[p] + 1 /\ lastEventSeq'[p] < nextSeq[p]
               /\ \A i \in Reports(p)' : Dead(p, i)' \/ Given(p, i, all)'
    <3>1. Counted(p, all) /\ p \in Procs /\ (p = q /\ IsNext(q, s) => kind # "exit")
      BY <1>19, <2>1 DEF Hosted
    <3>2. /\ FirstPending(p) <= lastEventSeq[p] + 1 /\ lastEventSeq[p] < nextSeq[p]
          /\ \A i \in Reports(p) : Dead(p, i) \/ Given(p, i, all)
      BY <2>1, <3>1 DEF NumberInv, InStep
    <3>3. Known
      BY <2>1 DEF Joined, Known
    <3>4. CASE p # q \/ ~IsNext(q, s)
      <4>1. lastEventSeq'[p] = lastEventSeq[p]
        BY <1>16, <3>1, <3>4
      <4>2. ASSUME NEW i \in Reports(p)', Dead(p, i + 1) PROVE Dead(p, i)'
        <5>1. ASSUME NEW k \in Reports(p)', k <= i PROVE toCoord'[k].seq # 1
          <6>1. k + 1 \in Reports(p) /\ toCoord'[k] = toCoord[k + 1]
            BY <1>9, <5>1
          <6>2. k \in Nat /\ i \in Nat
            BY <1>8 DEF Reports
          <6>3. k + 1 <= i + 1
            BY <5>1, <6>2
          <6>4. QED
            BY <4>2, <6>1, <6>3 DEF Dead
        <5>2. QED
          BY <4>1, <4>2, <5>1 DEF Dead
      <4>3. \A i \in Reports(p)' : Dead(p, i)' \/ Given(p, i, all)'
        BY <1>9, <1>11, <3>2, <4>2
      <4>4. QED
        BY <3>2, <4>1, <4>3
    <3>5. CASE p = q /\ IsNext(q, s)
      <4>1. Given(q, 1, all) /\ FirstPending(q) <= s /\ lastEventSeq'[q] = s
        BY <1>18, <1>30, <2>1, <3>1, <3>3, <3>5
      <4>2. s < nextSeq[q] /\ s <= s + 1 /\ FirstPending(q) <= s + 1
        BY <1>3, <1>4, <1>31, <4>1 DEF Given
      <4>3. ASSUME NEW i \in Reports(q)' PROVE Given(q, i, all)'
        <5>1. i + 1 \in Reports(q) /\ i \in Nat
          BY <1>8, <1>9 DEF Reports
        <5>2. ~Dead(q, i + 1)
          <6>1. 1 <= i + 1
            BY <5>1
          <6>2. lastEventSeq[q] = 0 => toCoord[1].seq = 1
            BY <1>3, <1>13, <3>5
          <6>3. QED
            BY <1>4, <6>1, <6>2 DEF Dead
        <5>3. QED
          BY <1>11, <3>2, <3>5, <5>1, <5>2
      <4>4. QED
        BY <3>5, <4>1, <4>2, <4>3
    <3>6. QED
      BY <3>4, <3>5
  <2>2. QED
    BY <1>2, <1>5, <2>1 DEF InStep
<1>34. Attended'
  <2>1. ASSUME Joined, NEW p \in Hosted, phase[p] # "exited" PROVE p \in Live'
    <3>1. p \in Live /\ p \in Procs /\ Known
      BY <2>1 DEF NumberInv, Attended, Hosted, Joined, Known
    <3>2. CASE p # q \/ ~IsNext(q, s)
      BY <1>16, <3>1, <3>2
    <3>3. CASE p = q /\ IsNext(q, s)
      BY <1>18, <1>24, <2>1, <3>1, <3>3
    <3>4. QED
      BY <3>2, <3>3
  <2>2. QED
    BY <1>2, <1>5, <2>1 DEF Attended
<1>35. ASSUME all PROVE Present'
  <2>1. ASSUME Known, NEW p \in started' PROVE p \in Hosted
    <3>1. p \in Procs
      BY <1>1, <2>1 DEF ManagerTypeOK
    <3>2. QED
      BY <1>16, <1>25, <1>35, <2>1, <3>1 DEF NumberInv, Present
  <2>2. ASSUME Known, NEW p \in Live' \ Hosted PROVE Reports(p)' = {}
    <3>1. Reports(p) = {}
      BY <1>20, <1>35, <2>2 DEF NumberInv, Present
    <3>2. QED
      BY <1>9, <3>1
  <2>3. ASSUME Known, NEW p \in Live' \cap Hosted, phase[p] = "exited"
        PROVE  lastEventSeq'[p] + 1 < nextSeq[p]
    <3>1. p \in Live /\ p \in Procs
      BY <1>20 DEF Live
    <3>2. CASE p # q \/ ~IsNext(q, s)
      BY <1>16, <1>35, <2>3, <3>1, <3>2 DEF NumberInv, Present
    <3>3. CASE p = q /\ IsNext(q, s)
      <4>1. kind # "exit"
        BY <1>17, <2>3, <3>3
      <4>2. Given(q, 1, all) /\ lastEventSeq'[q] = s
        BY <1>18, <1>30, <1>35, <2>3, <3>1, <3>3, <4>1 DEF Counted
      <4>3. QED
        BY <1>3, <1>35, <2>3, <3>3, <4>1, <4>2 DEF Given
    <3>4. QED
      BY <3>2, <3>3
  <2>4. QED
    BY <1>2, <1>5, <2>1, <2>2, <2>3 DEF Present
<1>36. QED
  BY <1>21, <1>22, <1>23, <1>26, <1>27, <1>28, <1>29, <1>32, <1>33, <1>34, <1>35 DEF NumberInv

-----------------------------------------------------------------------------
(***************************************************************************)
(* What the node forgets.                                                  *)
(***************************************************************************)
\* The node drops the oldest k events of q, and q itself after its last one.
Dropped(q, k) ==
    /\ k \in 0..Len(pending[q])
    /\ \A p \in Procs : p # q =>
         /\ phase'[p] = phase[p] /\ nextSeq'[p] = nextSeq[p]
         /\ pending'[p] = pending[p] /\ unfinishedLine'[p] = unfinishedLine[p]
    /\ \/ /\ phase[q] = "exited" /\ k = Len(pending[q])
          /\ phase'[q] = "absent" /\ nextSeq'[q] = 1
          /\ pending'[q] = <<>> /\ unfinishedLine'[q] = {}
       \/ /\ phase[q] = "exited" => k # Len(pending[q])
          /\ phase'[q] = phase[q] /\ nextSeq'[q] = nextSeq[q]
          /\ Len(pending'[q]) = Len(pending[q]) - k
          /\ \A i \in DOMAIN pending'[q] :
                i + k \in DOMAIN pending[q] /\ pending'[q][i] = pending[q][i + k]
          /\ k = 0 /\ unfinishedLine[q] = {} => unfinishedLine'[q] = {}

LEMMA NoUnits ==
    ASSUME NEW q \in Procs
    PROVE  LineRemainder({} \cup FirstUnits(q, 0)) = {}
BY DEF LineRemainder, FirstUnits

LEMMA AckRead ==
    ASSUME TypeInv, ReceiveEventAck, NEW q, q = toHost[1].proc, NEW s, s = toHost[1].seq
    PROVE  /\ 1 \in DOMAIN toHost /\ toHost[1].t = "event_ack" /\ q \in Procs /\ s \in Nat
           /\ toHost # <<>> /\ toHost' = Tail(toHost) /\ Head(toHost) = toHost[1]
           /\ UNCHANGED <<linkSocket, toCoord, agentId, coordinatorInstanceId>>
           /\ UNCHANGED <<appliedCommandSeq, replaying>> /\ replaying = {}
           /\ q \notin Hosted => UNCHANGED <<phase, nextSeq, pending, unfinishedLine>>
           /\ q \in Hosted => \E k \in Nat :
                 /\ Dropped(q, k)
                 /\ k # 0 => FirstPending(q) + k <= s + 1
<1>1. WireTypeOK /\ AgentTypeOK
  BY DEF TypeInv, AgentInv
<1>2. /\ toHost # <<>> /\ Head(toHost).t = "event_ack" /\ toHost' = Tail(toHost)
      /\ UNCHANGED <<linkSocket, toCoord, agentId, coordinatorInstanceId>>
      /\ UNCHANGED <<appliedCommandSeq, replaying>> /\ replaying = {}
  BY DEF ReceiveEventAck, AgentReceives, AgentConsumes
<1>3. 1 \in DOMAIN toHost /\ Head(toHost) = toHost[1] /\ toHost[1] \in EventAck
  BY <1>1, <1>2, HostFrames, HostFrame
<1>4. q \in Procs /\ s \in Nat
  BY <1>3 DEF EventAck
<1>5. ASSUME q \notin Hosted PROVE UNCHANGED <<phase, nextSeq, pending, unfinishedLine>>
  BY <1>3, <1>5 DEF ReceiveEventAck
<1>6. ASSUME q \in Hosted
      PROVE  \E k \in Nat : Dropped(q, k) /\ (k # 0 => FirstPending(q) + k <= s + 1)
  <2> DEFINE acked == IF s < FirstPending(q) THEN 0
                      ELSE IF s >= nextSeq[q] THEN Len(pending[q])
                      ELSE s - FirstPending(q) + 1
             rest == SubSeq(pending[q], acked + 1, Len(pending[q]))
             forget == phase[q] = "exited" /\ rest = <<>>
  <2>1. /\ pending' = [pending EXCEPT ![q] = rest]
        /\ unfinishedLine' = [unfinishedLine EXCEPT ![q] =
              IF forget THEN {}
              ELSE LineRemainder(unfinishedLine[q] \cup FirstUnits(q, acked))]
        /\ phase' = [phase EXCEPT ![q] = IF forget THEN "absent" ELSE phase[q]]
        /\ nextSeq' = [nextSeq EXCEPT ![q] = IF forget THEN 1 ELSE nextSeq[q]]
    BY <1>3, <1>6 DEF ReceiveEventAck
  <2>2. /\ pending \in [Procs -> Seq(Event)] /\ nextSeq \in [Procs -> Nat \ {0}]
        /\ phase \in [Procs -> Phase] /\ unfinishedLine \in [Procs -> SUBSET Unit]
        /\ Len(pending[q]) < nextSeq[q]
    BY <1>4 DEF TypeInv, AgentInv, AgentTypeOK
  <2>3. /\ pending[q] \in Seq(Event) /\ Len(pending[q]) \in Nat
        /\ nextSeq[q] \in Nat \ {0} /\ Len(pending[q]) < nextSeq[q]
    BY <1>4, <2>2
  <2>4. /\ acked \in 0..Len(pending[q])
        /\ acked # 0 => FirstPending(q) + acked <= s + 1
    <3>1. FirstPending(q) \in Nat /\ FirstPending(q) + Len(pending[q]) = nextSeq[q]
      BY <2>3 DEF FirstPending
    <3>2. CASE s < FirstPending(q)
      BY <2>3, <3>2
    <3>3. CASE ~(s < FirstPending(q)) /\ s >= nextSeq[q]
      BY <1>4, <2>3, <3>1, <3>3
    <3>4. CASE ~(s < FirstPending(q)) /\ ~(s >= nextSeq[q])
      BY <1>4, <2>3, <3>1, <3>4, SMTT(30)
    <3>5. QED
      BY <3>2, <3>3, <3>4
  <2>5. acked = 0 /\ unfinishedLine[q] = {} =>
           LineRemainder(unfinishedLine[q] \cup FirstUnits(q, acked)) = {}
    BY <1>4, NoUnits
  <2> HIDE DEF acked
  <2>6. /\ rest \in Seq(Event) /\ Len(rest) = Len(pending[q]) - acked
        /\ \A i \in 1..Len(pending[q]) - acked : rest[i] = pending[q][i + acked]
    <3>1. 1 <= acked + 1 /\ acked + 1 <= Len(pending[q]) + 1 /\ acked \in Nat
      BY <2>3, <2>4
    <3>2. /\ rest \in Seq(Event) /\ Len(rest) = Len(pending[q]) - (acked + 1) + 1
          /\ \A i \in 1..Len(pending[q]) - (acked + 1) + 1 :
                rest[i] = pending[q][(acked + 1) + i - 1]
      BY <2>3, <3>1, SubSeqProperties
    <3>3. Len(pending[q]) - (acked + 1) + 1 = Len(pending[q]) - acked
      BY <2>3, <3>1
    <3>4. \A i \in 1..Len(pending[q]) - acked : (acked + 1) + i - 1 = i + acked
      BY <2>3, <3>1
    <3> HIDE DEF rest
    <3>5. QED
      BY <3>2, <3>3, <3>4
  <2> HIDE DEF rest
  <2>7. rest = <<>> <=> acked = Len(pending[q])
    <3>1. rest = <<>> <=> Len(rest) = 0
      BY <2>6
    <3>2. QED
      BY <2>3, <2>4, <2>6, <3>1
  <2>8. DOMAIN rest = 1..Len(rest) /\ DOMAIN pending[q] = 1..Len(pending[q])
    BY <2>3, <2>6
  <2>9. \A i \in DOMAIN rest : i + acked \in DOMAIN pending[q] /\ rest[i] = pending[q][i + acked]
    BY <2>3, <2>4, <2>6, <2>8
  <2>10. /\ pending'[q] = rest
         /\ unfinishedLine'[q] = IF forget THEN {}
               ELSE LineRemainder(unfinishedLine[q] \cup FirstUnits(q, acked))
         /\ phase'[q] = IF forget THEN "absent" ELSE phase[q]
         /\ nextSeq'[q] = IF forget THEN 1 ELSE nextSeq[q]
    BY <1>4, <2>1, <2>2
  <2>11. \A p \in Procs : p # q =>
            /\ phase'[p] = phase[p] /\ nextSeq'[p] = nextSeq[p]
            /\ pending'[p] = pending[p] /\ unfinishedLine'[p] = unfinishedLine[p]
    BY <1>4, <2>1, <2>2
  <2>12. Dropped(q, acked)
    <3>1. CASE forget
      BY <2>4, <2>7, <2>10, <2>11, <3>1 DEF Dropped
    <3>2. CASE ~forget
      BY <2>4, <2>5, <2>6, <2>7, <2>9, <2>10, <2>11, <3>2 DEF Dropped
    <3>3. QED
      BY <3>1, <3>2
  <2>13. acked \in Nat
    BY <2>3, <2>4
  <2>14. QED
    BY <2>4, <2>12, <2>13
<1>7. QED
  BY <1>2, <1>3, <1>4, <1>5, <1>6

\* What is dropped was read.
LEMMA AckKeeps ==
    ASSUME TypeInv, TypeInv', CommandInv, CommandInv', NEW all \in BOOLEAN,
           OutputInv(all), UNCHANGED managerVars, ReceiveEventAck
    PROVE  OutputInv(all)'
<1> USE DEF OutputInv
<1>1. /\ WireTypeOK /\ ManagerTypeOK /\ AgentTypeOK
      /\ WireTypeOK' /\ ManagerTypeOK' /\ AgentTypeOK'
  BY DEF TypeInv, AgentInv
<1>2. /\ UNCHANGED <<instanceId, online, hostInstanceId, unacked, remote, started>>
      /\ UNCHANGED <<lastEventSeq, used, adoptable, pendingAcks>>
      /\ Live' = Live /\ \A p : Counted(p, all)' = Counted(p, all)
  BY DEF managerVars, linkVars, queueVars, processVars, Live, Counted
<1>3. PICK q, s : q = toHost[1].proc /\ s = toHost[1].seq
  OBVIOUS
<1>4. /\ 1 \in DOMAIN toHost /\ toHost[1].t = "event_ack" /\ q \in Procs /\ s \in Nat
      /\ toHost # <<>> /\ toHost' = Tail(toHost) /\ Head(toHost) = toHost[1]
      /\ UNCHANGED <<linkSocket, toCoord, agentId, coordinatorInstanceId>>
      /\ UNCHANGED <<appliedCommandSeq, replaying>> /\ replaying = {}
  BY <1>3, AckRead
<1>5. HostCarried(1) /\ CoordCarried(0) /\ HelloCarried(0)
  BY <1>1, <1>4, HostKinds, CoordKinds
     DEF MeetInv, CommandInv, DriverInv, CoordCarried, HelloCarried
<1>6. CASE q \notin Hosted
  <2>1. UNCHANGED <<phase, nextSeq, pending, unfinishedLine>>
    BY <1>3, <1>6, AckRead
  <2>2. appliedCommandSeq <= appliedCommandSeq'
    BY <1>1, <1>4 DEF AgentTypeOK
  <2>3. Quiet
    BY <1>1, <1>4, <1>5, <2>1, <2>2, AgentQuiet DEF MeetInv, CommandInv, DriverInv
  <2>4. QED
    BY <2>3, QuietKeeps
<1>7. ASSUME q \in Hosted PROVE OutputInv(all)'
  <2>1. PICK k \in Nat : Dropped(q, k) /\ (k # 0 => FirstPending(q) + k <= s + 1)
    BY <1>3, <1>7, AckRead
  <2>2. /\ DOMAIN toHost' = 1..Len(toHost) - 1 /\ Len(toHost) \in Nat
        /\ DOMAIN toHost = 1..Len(toHost)
        /\ \A i \in DOMAIN toHost' : i + 1 \in DOMAIN toHost /\ toHost'[i] = toHost[i + 1]
    BY <1>1, <1>4, HostFrames
  <2>3. /\ Known' = Known /\ Foreign' = Foreign /\ Joined' = Joined /\ Near' = Near
        /\ \A p : Reports(p)' = Reports(p) /\ \A i : Dead(p, i)' = Dead(p, i)
        /\ Reached(instanceId)' = Reached(instanceId)
        /\ \A i : Fresh(toHost[i])' => Fresh(toHost'[i])
    <3>1. /\ Known' = Known /\ Foreign' = Foreign /\ Joined' = Joined /\ Near' = Near
          /\ \A p : Reports(p)' = Reports(p) /\ \A i : Dead(p, i)' = Dead(p, i)
      BY <1>2, <1>4, ReportsStay DEF Known, Foreign, Joined, Near
    <3>2. Reached(instanceId)' = Reached(instanceId)
      BY <1>2, <1>4 DEF Reached
    <3>3. \A i : Fresh(toHost[i])' => Fresh(toHost'[i])
      BY <1>4 DEF Reached, Fresh
    <3>4. QED
      BY <3>1, <3>2, <3>3
  <2>4. ASSUME NEW p \in Procs
        PROVE  /\ p \in Hosted' => p \in Hosted
               /\ p \in Hosted' => phase'[p] = phase[p] /\ nextSeq'[p] = nextSeq[p]
               /\ p \notin Hosted' => ~(p \in Hosted) \/ phase[p] = "exited"
               /\ phase[p] # "exited" => phase'[p] = phase[p]
               /\ phase[p] = "exited" => phase'[p] \in {"absent", "exited"}
               /\ p \in Hosted /\ p \notin Hosted' => p = q /\ k = Len(pending[q])
    BY <2>1, <2>4 DEF Dropped, Hosted
  <2>5. Hosted' \subseteq Hosted
    BY <2>4 DEF Hosted
  <2>6. /\ pending[q] \in Seq(Event) /\ Len(pending[q]) \in Nat /\ k <= Len(pending[q])
        /\ nextSeq[q] \in Nat /\ Len(pending[q]) < nextSeq[q]
        /\ pending'[q] \in Seq(Event) /\ Len(pending'[q]) \in Nat
        /\ lastEventSeq[q] \in Nat
    <3>1. /\ pending[q] \in Seq(Event) /\ nextSeq[q] \in Nat /\ Len(pending[q]) < nextSeq[q]
          /\ pending'[q] \in Seq(Event) /\ lastEventSeq[q] \in Nat
      BY <1>1, <1>4 DEF TypeInv, AgentInv, AgentTypeOK, ManagerTypeOK
    <3>2. Len(pending[q]) \in Nat /\ Len(pending'[q]) \in Nat
      BY <3>1
    <3>3. k <= Len(pending[q])
      BY <2>1, <3>2 DEF Dropped
    <3>4. QED
      BY <3>1, <3>2, <3>3
  <2>7. FirstPending(q) = nextSeq[q] - Len(pending[q]) /\ FirstPending(q) \in Nat \ {0}
    BY <2>6 DEF FirstPending
  <2>8. /\ q \in Hosted' => FirstPending(q)' = FirstPending(q) + k
        /\ \A p \in Procs : p # q => FirstPending(p)' = FirstPending(p)
    <3>1. ASSUME q \in Hosted' PROVE FirstPending(q)' = FirstPending(q) + k
      <4>1. nextSeq'[q] = nextSeq[q] /\ Len(pending'[q]) = Len(pending[q]) - k
        BY <2>1, <3>1 DEF Dropped, Hosted
      <4>2. FirstPending(q)' = nextSeq'[q] - Len(pending'[q])
        BY DEF FirstPending
      <4>3. QED
        BY <2>6, <2>7, <4>1, <4>2
    <3>2. \A p \in Procs : p # q => FirstPending(p)' = FirstPending(p)
      BY <2>1 DEF Dropped, FirstPending
    <3>3. QED
      BY <3>1, <3>2
  <2>9. /\ HelloFirst /\ \A i \in DOMAIN toCoord : toCoord[i].t # "hello"
        /\ ~Greeted /\ ~Greeted'
    BY <1>4 DEF MeetInv, HelloFirst, Greeted
  \* The coordinator whose frames the node reads is the one it has taken.
  <2>10. ASSUME Foreign PROVE ~Known /\ ~Near
    <3>1. hostInstanceId = 0
      <4>1. ASSUME NEW j \in 1..1 - 1 PROVE FALSE
        OBVIOUS
      <4>2. QED
        BY <1>4, <2>10, <4>1 DEF MeetInv, Fellow
    <3>2. QED
      BY <1>1, <2>9, <3>1 DEF Known, Near, AgentTypeOK
  <2>11. MeetInv'
    <3>1. Foreign /\ Greeted => Hosted' = Hosted
      BY <2>9
    <3>2. \A i \in DOMAIN toCoord : toCoord[i].t = "hello" => \A p \in Procs : pendingAcks'[p] = 0
      BY <2>9
    <3>3. Meets
      BY <1>2, <1>4, <1>5, <3>1, <2>9 DEF Meets, MeetInv, Unmet, HelloFirst, CommandInv, DriverInv, Ends
    <3>4. QED
      BY <3>3, MeetsKept
  <2>12. Shape(all)'
    <3>1. ASSUME NEW p \in Procs, p # q
          PROVE  /\ phase'[p] \in {"absent", "starting"} =>
                       nextSeq'[p] = 1 /\ unfinishedLine'[p] = {}
                 /\ \A i \in DOMAIN pending'[p] :
                      /\ pending'[p][i].kind = "spawned" =>
                            i = 1 /\ FirstPending(p)' = 1 /\ unfinishedLine'[p] = {}
                      /\ pending'[p][i].kind = "exit" => phase'[p] = "exited"
                      /\ all /\ phase'[p] = "exited" /\ pending'[p][i].kind # "exit" =>
                            i < Len(pending'[p])
                 /\ all /\ phase'[p] = "exited" => pending'[p] # <<>>
      BY <2>1, <2>8, <3>1 DEF Shape, Dropped
    <3>2. CASE phase'[q] = "absent" /\ nextSeq'[q] = 1 /\ pending'[q] = <<>>
               /\ unfinishedLine'[q] = {}
      BY <3>1, <3>2 DEF Shape
    <3>3. ASSUME phase[q] = "exited" => k # Len(pending[q]),
                 phase'[q] = phase[q], nextSeq'[q] = nextSeq[q],
                 Len(pending'[q]) = Len(pending[q]) - k,
                 \A i \in DOMAIN pending'[q] :
                    i + k \in DOMAIN pending[q] /\ pending'[q][i] = pending[q][i + k],
                 k = 0 /\ unfinishedLine[q] = {} => unfinishedLine'[q] = {}
          PROVE  Shape(all)'
      <4>1. phase'[q] \in {"absent", "starting"} => nextSeq'[q] = 1 /\ unfinishedLine'[q] = {}
        <5>1. ASSUME phase[q] \in {"absent", "starting"}
              PROVE  nextSeq[q] = 1 /\ unfinishedLine[q] = {}
          BY <1>4, <5>1 DEF Shape
        <5>2. phase[q] \in {"absent", "starting"} => k = 0
          BY <2>6, <5>1
        <5>3. QED
          BY <3>3, <5>1, <5>2
      <4>2. ASSUME NEW i \in DOMAIN pending'[q]
            PROVE  /\ i \in Nat \ {0} /\ i + k \in DOMAIN pending[q]
                   /\ pending'[q][i] = pending[q][i + k]
        BY <2>6, <3>3
      <4>3. ASSUME NEW i \in DOMAIN pending'[q], pending'[q][i].kind = "spawned"
            PROVE  i = 1 /\ FirstPending(q)' = 1 /\ unfinishedLine'[q] = {}
        <5>1. i + k = 1 /\ FirstPending(q) = 1 /\ unfinishedLine[q] = {}
          BY <1>4, <4>2, <4>3 DEF Shape
        <5>2. i = 1 /\ k = 0
          BY <4>2, <5>1
        <5>3. q \in Hosted'
          BY <1>7, <3>3 DEF Hosted
        <5>4. QED
          BY <2>8, <3>3, <5>1, <5>2, <5>3
      <4>4. ASSUME NEW i \in DOMAIN pending'[q], pending'[q][i].kind = "exit"
            PROVE  phase'[q] = "exited"
        BY <1>4, <3>3, <4>2, <4>4 DEF Shape
      <4>5. ASSUME NEW i \in DOMAIN pending'[q], all, phase'[q] = "exited",
                   pending'[q][i].kind # "exit"
            PROVE  i < Len(pending'[q])
        <5>1. i + k < Len(pending[q])
          BY <1>4, <3>3, <4>2, <4>5 DEF Shape
        <5>2. QED
          BY <2>6, <3>3, <4>2, <5>1
      <4>6. phase'[q] = "exited" => pending'[q] # <<>>
        <5>1. ASSUME phase'[q] = "exited" PROVE Len(pending'[q]) # 0
          BY <2>6, <3>3, <5>1
        <5>2. Len(<<>>) = 0
          OBVIOUS
        <5>3. QED
          BY <5>1, <5>2, Zenon
      <4>7. QED
        BY <3>1, <4>1, <4>3, <4>4, <4>5, <4>6 DEF Shape
    <3>4. QED
      BY <2>1, <3>2, <3>3 DEF Dropped
  <2>13. Parented'
    BY <1>4, <2>5 DEF Parented
  <2>14. SpawnInv(all)'
    <3>1. Unused'
      BY <1>2, <1>4, <2>2, <2>3, <2>5 DEF SpawnInv, Unused
    <3>2. LiveOnly'
      BY <1>2 DEF SpawnInv, LiveOnly
    <3>3. Separate'
      BY <1>2, <2>2, <2>3, <2>5 DEF SpawnInv, Separate
    <3>4. Unspawned(all)'
      BY <1>2, <2>3, <2>5 DEF SpawnInv, Unspawned
    <3>5. QED
      BY <3>1, <3>2, <3>3, <3>4 DEF SpawnInv
  <2>15. Welcomed(all)'
    <3> SUFFICES ASSUME NEW i \in DOMAIN toHost', toHost'[i].t = "welcome"
                 PROVE  /\ \A j \in 1..i - 1, p \in Procs :
                              Carries(toHost'[j], p) /\ Fresh(toHost[j])' =>
                                 /\ p \in toHost'[i].listed
                                 /\ all => toHost'[i].received[p] = 0
                        /\ all /\ toHost'[i].coord = coordinatorInstanceId' =>
                              \A p \in toHost'[i].listed \cap Hosted' :
                                 /\ toHost'[i].received[p] < nextSeq'[p]
                                 /\ phase'[p] = "exited" =>
                                       toHost'[i].received[p] + 1 < nextSeq'[p]
                        /\ toHost'[i].coord = instanceId' =>
                              /\ \A p \in toHost'[i].listed \cap Hosted' :
                                    phase'[p] # "exited" => p \in Live'
                              /\ \A p \in toHost'[i].listed : Counted(p, all)' =>
                                    toHost'[i].received[p] <= lastEventSeq'[p]
                              /\ all => \A p \in Live' \ toHost'[i].listed :
                                    /\ p \notin Hosted' /\ p \notin started'
                                    /\ lastEventSeq'[p] = 0
      BY DEF Welcomed
    <3>1. PICK w : w = toHost[i + 1]
      OBVIOUS
    <3>2. i + 1 \in DOMAIN toHost /\ toHost'[i] = w /\ w.t = "welcome"
      BY <2>2, <3>1
    <3>3. w.listed \in SUBSET Procs
      <4>1. w \in Welcome
        BY <1>1, <3>1, <3>2, HostFrames, HostFrame
      <4>2. QED
        BY <4>1 DEF Welcome
    <3>4. ASSUME NEW j \in 1..i - 1, NEW p \in Procs, Carries(toHost'[j], p), Fresh(toHost[j])'
          PROVE  p \in w.listed /\ (all => w.received[p] = 0)
      <4>1. j \in DOMAIN toHost' /\ j + 1 \in 1..(i + 1) - 1
        BY <2>2
      <4>2. toHost'[j] = toHost[j + 1] /\ j + 1 \in DOMAIN toHost
        BY <2>2, <4>1
      <4>3. Fresh(toHost[j + 1])
        BY <2>3, <3>4, <4>2
      <4>4. QED
        BY <3>1, <3>2, <3>4, <4>1, <4>2, <4>3 DEF NumberInv, Welcomed
    <3>5. ASSUME all, w.coord = coordinatorInstanceId, NEW p \in w.listed \cap Hosted'
          PROVE  /\ w.received[p] < nextSeq'[p]
                 /\ phase'[p] = "exited" => w.received[p] + 1 < nextSeq'[p]
      BY <2>4, <3>1, <3>2, <3>3, <3>5 DEF NumberInv, Welcomed
    <3>6. ASSUME w.coord = instanceId
          PROVE  /\ \A p \in w.listed \cap Hosted' : phase'[p] # "exited" => p \in Live
                 /\ \A p \in w.listed : Counted(p, all) => w.received[p] <= lastEventSeq[p]
                 /\ all => \A p \in Live \ w.listed :
                       p \notin Hosted' /\ p \notin started /\ lastEventSeq[p] = 0
      BY <2>4, <2>5, <3>1, <3>2, <3>3, <3>6 DEF NumberInv, Welcomed
    <3>7. QED
      BY <1>2, <1>4, <3>2, <3>4, <3>5, <3>6
  <2>16. Acked(all)'
    BY <1>2, <2>2 DEF NumberInv, Acked
  <2>17. Numbered'
    <3>1. ASSUME NEW i \in DOMAIN toCoord, toCoord[i].t = "event" PROVE toCoord[i].proc \in Procs
      <4>1. toCoord[i] \in EventMsg
        BY <1>1, <3>1, CoordFrames, CoordinatorFrame
      <4>2. QED
        BY <4>1 DEF EventMsg
    <3>2. ASSUME NEW p \in Procs, phase[p] \in {"absent", "exited"}
          PROVE  phase'[p] \in {"absent", "exited"}
      BY <2>4, <3>2
    <3>3. QED
      BY <1>4, <2>3, <3>1, <3>2 DEF NumberInv, Numbered
  <2>18. BeforeAdoption(all)' /\ ReadEarly(all)'
    BY <2>3, <2>10 DEF BeforeAdoption, ReadEarly
  <2>19. InStep(all)'
    <3>1. ASSUME Joined, NEW p \in Hosted', Counted(p, all)
          PROVE  /\ FirstPending(p)' <= lastEventSeq[p] + 1 /\ lastEventSeq[p] < nextSeq'[p]
                 /\ \A i \in Reports(p)' : Dead(p, i)' \/ Given(p, i, all)'
      <4>1. p \in Hosted /\ p \in Procs /\ nextSeq'[p] = nextSeq[p] /\ phase'[p] = phase[p]
        BY <2>4, <2>5 DEF Hosted
      <4>2. /\ FirstPending(p) <= lastEventSeq[p] + 1 /\ lastEventSeq[p] < nextSeq[p]
            /\ \A i \in Reports(p) : Dead(p, i) \/ Given(p, i, all)
        BY <3>1, <4>1 DEF NumberInv, InStep
      <4>3. \A i : Given(p, i, all)' = Given(p, i, all)
        BY <1>4, <4>1 DEF Given
      <4>4. FirstPending(p)' <= lastEventSeq[p] + 1
        <5>1. CASE p # q
          BY <2>8, <4>1, <4>2, <5>1
        <5>2. CASE p = q
          <6>1. FirstPending(q)' = FirstPending(q) + k
            BY <2>8, <3>1, <5>2
          <6>2. CASE k = 0
            BY <2>7, <4>2, <5>2, <6>1, <6>2
          <6>3. CASE k # 0
            <7>1. hostInstanceId # 0
              BY <1>1, <3>1 DEF Joined, AgentTypeOK
            <7>2. s <= lastEventSeq[q]
              BY <1>3, <1>4, <3>1, <5>2, <7>1 DEF NumberInv, Acked
            <7>3. QED
              BY <1>4, <2>1, <2>6, <2>7, <5>2, <6>1, <6>3, <7>2
          <6>4. QED
            BY <6>2, <6>3
        <5>3. QED
          BY <5>1, <5>2
      <4>5. QED
        BY <2>3, <4>1, <4>2, <4>3, <4>4
    <3>2. QED
      BY <1>2, <2>3, <3>1 DEF InStep
  <2>20. Attended'
    BY <1>2, <2>3, <2>4, <2>5 DEF NumberInv, Attended, Hosted
  <2>21. ASSUME all PROVE Present'
    <3>1. ASSUME Known PROVE Live \cap Hosted \subseteq Hosted'
      <4>1. ASSUME q \in Live, q \notin Hosted' PROVE FALSE
        <5>1. ~Foreign /\ Joined
          BY <2>10, <3>1 DEF Foreign, Joined, Known
        <5>2. phase[q] = "exited" /\ k = Len(pending[q])
          BY <1>4, <1>7, <2>4, <4>1
        <5>3. lastEventSeq[q] + 1 < nextSeq[q] /\ pending[q] # <<>>
          BY <1>4, <1>7, <2>21, <3>1, <4>1, <5>2 DEF NumberInv, Present, Shape
        <5>4. k # 0
          BY <2>6, <5>2, <5>3
        <5>5. hostInstanceId # 0
          BY <1>1, <3>1 DEF Known, AgentTypeOK
        <5>6. s <= lastEventSeq[q]
          BY <1>3, <1>4, <2>21, <4>1, <5>5 DEF NumberInv, Acked, Counted
        <5>7. FirstPending(q) + k <= s + 1 /\ FirstPending(q) + k = nextSeq[q]
          BY <2>1, <2>6, <2>7, <5>2, <5>4
        <5>8. QED
          BY <1>4, <2>6, <5>3, <5>6, <5>7
      <4>2. QED
        BY <2>4, <4>1 DEF Hosted
    <3>2. ASSUME Known PROVE started \subseteq Hosted'
      BY <2>21, <3>1, <3>2 DEF NumberInv, Present, SpawnInv, LiveOnly
    <3>3. ASSUME Known, NEW p \in Live \cap Hosted', phase'[p] = "exited"
          PROVE  lastEventSeq[p] + 1 < nextSeq'[p]
      BY <2>4, <2>5, <2>21, <3>3 DEF NumberInv, Present, Hosted
    <3>4. ASSUME Known, NEW p \in Live \ Hosted' PROVE Reports(p) = {}
      BY <2>21, <3>1, <3>4 DEF NumberInv, Present
    <3>5. QED
      BY <1>2, <2>3, <3>2, <3>3, <3>4 DEF Present
  <2>22. QED
    BY <2>11, <2>12, <2>13, <2>14, <2>15, <2>16, <2>17, <2>18, <2>19, <2>20, <2>21 DEF NumberInv
<1>8. QED
  BY <1>6, <1>7

-----------------------------------------------------------------------------
(***************************************************************************)
(* A hello.                                                                *)
(***************************************************************************)
\* A coordinator that meets another node has read the end of every failed start.
EndsRead ==
    hostInstanceId \notin {0, hostInstanceId'} /\ hostInstanceId' # 0 =>
        \A p \in Live \ started : lastEventSeq[p] = 0

\* The welcome and queued commands come behind what is on its way.
LEMMA HelloFrames ==
    ASSUME TypeInv, TypeInv', ReceiveHello
    PROVE  /\ \A i \in DOMAIN toHost : i \in DOMAIN toHost' /\ toHost'[i] = toHost[i]
           /\ \A i \in DOMAIN toHost' :
                \/ i \in DOMAIN toHost /\ toHost'[i] = toHost[i]
                \/ /\ linkSocket /\ paired /\ i > Len(toHost)
                   /\ \/ toHost'[i].t = "update"
                      \/ /\ i = Len(toHost) + 1 /\ toHost'[i].t = "welcome"
                         /\ toHost'[i].coord = instanceId /\ toHost'[i].listed = Live'
                         /\ toHost'[i].received = lastEventSeq'
                      \/ /\ toHost'[i].t = "command"
                         /\ \E k \in DOMAIN unacked' : /\ unacked'[k].seq = toHost'[i].seq
                                                       /\ unacked'[k].cmd = toHost'[i].cmd
<1>1. WireTypeOK /\ ManagerTypeOK /\ WireTypeOK' /\ ManagerTypeOK'
  BY DEF TypeInv
<1>2. PICK msgs \in Seq(CoordinatorToHost) :
         /\ Sending(msgs) /\ msgs # <<>> /\ msgs[1] = WelcomeMessage
         /\ \A i \in DOMAIN msgs : i = 1 \/ msgs[i].t \in {"command", "update"}
  BY <1>1, HelloSends
<1>3. /\ DOMAIN toHost = 1..Len(toHost) /\ Len(toHost) \in Nat
  BY <1>1, HostFrames
<1>4. WelcomeMessage.t = "welcome" /\ WelcomeMessage.coord = instanceId
      /\ WelcomeMessage.listed = Live' /\ WelcomeMessage.received = lastEventSeq'
  BY DEF WelcomeMessage, Live
<1>5. CoordinatorSends(msgs) /\ Fits(msgs)
  BY <1>2 DEF Sending
<1>6. CASE toHost' = toHost
  BY <1>6
<1>7. CASE /\ linkSocket /\ paired
           /\ DOMAIN toHost' = 1..Len(toHost) + Len(msgs)
           /\ DOMAIN msgs = 1..Len(msgs) /\ Len(msgs) \in Nat
           /\ \A i \in DOMAIN toHost : i \in DOMAIN toHost' /\ toHost'[i] = toHost[i]
           /\ \A i \in DOMAIN toHost' : i > Len(toHost) =>
                 /\ i - Len(toHost) \in DOMAIN msgs
                 /\ toHost'[i] = msgs[i - Len(toHost)]
  <2>1. ASSUME NEW i \in DOMAIN toHost', i > Len(toHost)
        PROVE  \/ toHost'[i].t = "update"
               \/ i = Len(toHost) + 1 /\ toHost'[i] = WelcomeMessage
               \/ /\ toHost'[i].t = "command"
                  /\ \E k \in DOMAIN unacked' : /\ unacked'[k].seq = toHost'[i].seq
                                                /\ unacked'[k].cmd = toHost'[i].cmd
    <3>1. PICK j \in DOMAIN msgs : j = i - Len(toHost) /\ toHost'[i] = msgs[j]
      BY <1>7, <2>1
    <3>2. CASE j = 1
      <4>1. i = Len(toHost) + 1
        BY <1>3, <1>7, <3>1, <3>2
      <4>2. QED
        BY <1>2, <3>1, <3>2, <4>1
    <3>3. CASE j # 1
      BY <1>2, <1>5, <3>1, <3>3 DEF Fits
    <3>4. QED
      BY <3>2, <3>3
  <2>2. \A i \in DOMAIN toHost' : i \in DOMAIN toHost \/ i > Len(toHost)
    <3>1. \A i \in 1..Len(toHost) + Len(msgs) : i \in 1..Len(toHost) \/ i > Len(toHost)
      BY <1>3, <1>7
    <3>2. QED
      BY <1>3, <1>7, <3>1
  <2>3. QED
    BY <1>4, <1>7, <2>1, <2>2
<1>8. QED
  BY <1>1, <1>5, <1>6, <1>7, SentBehind

\* What is left of the processes, and of the queue.
Meeting(lost) ==
    /\ lost \subseteq Live
    /\ Live' = Live \ lost /\ started' = started \ lost
    /\ \A p \in Procs : lastEventSeq'[p] = IF p \in lost THEN 0 ELSE lastEventSeq[p]
    /\ \A p \in Procs : remote[p] = "none" => remote'[p] = "none"
    /\ \A k \in DOMAIN unacked', p \in Procs : Spawns(unacked'[k].cmd, p) =>
         /\ \E j \in DOMAIN unacked : Spawns(unacked[j].cmd, p)
         /\ \A l \in DOMAIN unacked' : Spawns(unacked'[l].cmd, p) => k = l

\* The kept commands are different ones.
LEMMA KeptOnce ==
    ASSUME TypeInv, Separate, NEW hello, NEW kept \in Kept(hello), unacked' = Renumbered(kept)
    PROVE  \A k \in DOMAIN unacked', p \in Procs : Spawns(unacked'[k].cmd, p) =>
              /\ \E j \in DOMAIN unacked : Spawns(unacked[j].cmd, p)
              /\ p \in Live \ Lost(hello)
              /\ \A l \in DOMAIN unacked' : Spawns(unacked'[l].cmd, p) => k = l
<1> DEFINE I == {i \in DOMAIN unacked :
                   unacked[i].cmd.proc \in {NoProc} \cup (Live \ Lost(hello))}
<1>1. unacked \in Seq(QueuedCommand) /\ I \in SUBSET DOMAIN unacked /\ kept \in Filtered(unacked, I)
  BY DEF TypeInv, ManagerTypeOK, Kept
<1>2. \A i \in I : unacked[i].cmd.proc \in {NoProc} \cup (Live \ Lost(hello))
  OBVIOUS
<1> HIDE DEF I
<1>3. PICK g \in [1..Len(kept) -> I] :
         /\ \A a, b \in 1..Len(kept) : a < b => g[a] < g[b]
         /\ \A j \in 1..Len(kept) : kept[j] = unacked[g[j]]
  BY <1>1, FilteredEmbeds, SMTT(30)
<1>4. kept \in Seq(QueuedCommand)
  BY <1>1, FilteredEmbeds
<1>5. /\ Len(kept) \in Nat /\ DOMAIN unacked' = 1..Len(kept)
      /\ \A i \in 1..Len(kept) : unacked'[i].cmd = kept[i].cmd
  BY <1>4, RenumberedType
<1>6. ASSUME NEW k \in DOMAIN unacked', NEW p \in Procs, Spawns(unacked'[k].cmd, p)
      PROVE  /\ g[k] \in DOMAIN unacked /\ g[k] \in I /\ Spawns(unacked[g[k]].cmd, p)
             /\ p \in Live \ Lost(hello)
  <2>1. g[k] \in I /\ unacked'[k].cmd = unacked[g[k]].cmd
    BY <1>3, <1>5
  <2>2. Spawns(unacked[g[k]].cmd, p) /\ unacked[g[k]].cmd.proc = p
    BY <1>6, <2>1 DEF Spawns
  <2>3. p # NoProc
    BY NoProcAssumption
  <2>4. QED
    BY <1>1, <1>2, <2>1, <2>2, <2>3
<1>7. ASSUME NEW k \in DOMAIN unacked', NEW l \in DOMAIN unacked', NEW p \in Procs,
             Spawns(unacked'[k].cmd, p), Spawns(unacked'[l].cmd, p)
      PROVE  k = l
  <2>1. g[k] = g[l]
    BY <1>6, <1>7 DEF Separate
  <2>2. g[k] \in Nat /\ k \in Nat /\ l \in Nat
    BY <1>1, <1>5, <1>6, <1>7
  <2>3. ~(k < l) /\ ~(l < k)
    BY <1>3, <1>5, <2>1, <2>2
  <2>4. QED
    BY <2>2, <2>3
<1>8. QED
  BY <1>6, <1>7

\* What the coordinator forgets when it meets a node.
LEMMA HelloTaken ==
    ASSUME TypeInv, TypeInv', CommandInv, NEW all \in BOOLEAN, OutputInv(all),
           UNCHANGED agentVars, ReceiveHello
    PROVE  /\ 1 \in DOMAIN toCoord /\ toCoord[1].t = "hello" /\ toCoord[1].inst # 0
           /\ toCoord[1] \in Hello /\ toCoord # <<>> /\ toCoord' = Tail(toCoord)
           /\ linkSocket /\ online' /\ hostInstanceId' = toCoord[1].inst
           /\ \A p \in Procs : pendingAcks[p] = 0
           /\ toCoord[1].inst # agentId =>
                 /\ coordinatorInstanceId = 0 /\ ~paired
                 /\ \A j \in DOMAIN toHost : ~Marked(toHost[j])
           /\ UNCHANGED <<linkSocket, agentSocket, paired, instanceId, used, adoptable,
                          pendingAcks>>
           /\ hostInstanceId = toCoord[1].inst =>
                 /\ UNCHANGED <<remote, started, lastEventSeq, unacked, hostInstanceId>>
                 /\ Meeting({})
           /\ hostInstanceId # toCoord[1].inst =>
                 /\ Meeting(Lost(toCoord[1])) /\ Foreign
                 /\ \A k \in DOMAIN unacked', p \in Procs : Spawns(unacked'[k].cmd, p) =>
                       p \in Live'
<1> USE DEF OutputInv
<1>1. WireTypeOK /\ ManagerTypeOK /\ ManagerTypeOK'
  BY DEF TypeInv
<1>2. /\ 1 \in DOMAIN toCoord /\ toCoord[1].t = "hello" /\ Head(toCoord) = toCoord[1]
      /\ toCoord[1] \in Hello
      /\ toCoord[1].inst # agentId =>
            /\ coordinatorInstanceId = 0 /\ ~paired
            /\ \A j \in DOMAIN toHost : ~Marked(toHost[j])
      /\ UNCHANGED <<linkSocket, agentSocket, paired, instanceId>>
  BY HelloRead
<1>3. /\ toCoord # <<>> /\ toCoord' = Tail(toCoord) /\ linkSocket
      /\ online' = TRUE /\ UNCHANGED <<used, adoptable, pendingAcks>>
  BY DEF ReceiveHello, ManagerReceives, ManagerConsumes
<1>4. toCoord[1].inst # 0 /\ \A p \in Procs : pendingAcks[p] = 0
  BY <1>2 DEF MeetInv, HelloFirst
<1>5. ASSUME hostInstanceId = toCoord[1].inst
      PROVE  /\ UNCHANGED <<remote, started, lastEventSeq, unacked, hostInstanceId>>
             /\ Meeting({})
  <2>1. UNCHANGED <<remote, started, lastEventSeq, unacked, hostInstanceId>>
    BY <1>2, <1>5 DEF ReceiveHello
  <2>2. Live' = Live
    BY <2>1 DEF Live
  <2>3. QED
    BY <2>1, <2>2 DEF Meeting, SpawnInv, Separate
<1>6. ASSUME hostInstanceId # toCoord[1].inst
      PROVE  /\ Meeting(Lost(toCoord[1])) /\ Foreign
             /\ hostInstanceId' = toCoord[1].inst
             /\ \A k \in DOMAIN unacked', p \in Procs : Spawns(unacked'[k].cmd, p) => p \in Live'
  <2>1. NewInstance(toCoord[1])
    BY <1>2, <1>6 DEF ReceiveHello
  <2> DEFINE lost == Lost(toCoord[1])
  <2>2. FailProcesses(lost) /\ hostInstanceId' = toCoord[1].inst
    BY <2>1 DEF NewInstance
  <2>3. PICK kept \in Kept(toCoord[1]) : unacked' = Renumbered(kept)
    BY <2>1 DEF NewInstance
  <2>4. \A k \in DOMAIN unacked', p \in Procs : Spawns(unacked'[k].cmd, p) =>
           /\ \E j \in DOMAIN unacked : Spawns(unacked[j].cmd, p)
           /\ p \in Live \ lost
           /\ \A l \in DOMAIN unacked' : Spawns(unacked'[l].cmd, p) => k = l
    BY <2>3, KeptOnce DEF SpawnInv
  <2>5. lost \subseteq Live
    BY DEF Lost
  <2> HIDE DEF lost
  <2>6. /\ remote' = [p \in Procs |-> IF p \in lost THEN "failed" ELSE remote[p]]
        /\ lastEventSeq' = [p \in Procs |-> IF p \in lost THEN 0 ELSE lastEventSeq[p]]
        /\ started' = started \ lost
    BY <2>2 DEF FailProcesses
  <2>7. Live' = Live \ lost /\ \A p \in Procs : remote[p] = "none" => remote'[p] = "none"
    BY <2>5, <2>6 DEF Live
  <2>8. Meeting(lost)
    BY <2>4, <2>5, <2>6, <2>7 DEF Meeting
  <2>9. Foreign
    <3>1. CASE toCoord[1].inst = agentId
      BY <1>6, <3>1 DEF CommandInv, Recognised, Foreign
    <3>2. CASE toCoord[1].inst # agentId
      BY <1>1, <1>2, <3>2, BoundsAssumption DEF Foreign, ManagerTypeOK
    <3>3. QED
      BY <3>1, <3>2
  <2>10. QED
    BY <2>2, <2>4, <2>7, <2>8, <2>9 DEF lost
<1>7. QED
  BY <1>2, <1>3, <1>4, <1>5, <1>6

\* A hello: the ends know each other, and what either has of the other's past is told.
LEMMA HelloKeeps ==
    ASSUME TypeInv, TypeInv', CommandInv, CommandInv', NEW all \in BOOLEAN,
           OutputInv(all), UNCHANGED agentVars, ReceiveHello, all => EndsRead
    PROVE  OutputInv(all)'
<1> USE DEF OutputInv
<1>1. /\ WireTypeOK /\ ManagerTypeOK /\ AgentTypeOK
      /\ WireTypeOK' /\ ManagerTypeOK' /\ AgentTypeOK'
  BY DEF TypeInv, AgentInv
<1>2. PICK hello : hello = toCoord[1]
  OBVIOUS
<1>3. /\ 1 \in DOMAIN toCoord /\ toCoord[1].t = "hello" /\ hello.inst # 0
      /\ hello \in Hello /\ toCoord # <<>> /\ toCoord' = Tail(toCoord)
      /\ linkSocket /\ online' /\ hostInstanceId' = hello.inst
      /\ \A p \in Procs : pendingAcks[p] = 0
      /\ hello.inst # agentId =>
            /\ coordinatorInstanceId = 0 /\ ~paired
            /\ \A j \in DOMAIN toHost : ~Marked(toHost[j])
      /\ UNCHANGED <<linkSocket, agentSocket, paired, instanceId, used, adoptable, pendingAcks>>
  BY <1>2, HelloTaken
<1>4. ASSUME hostInstanceId = hello.inst
      PROVE  /\ UNCHANGED <<remote, started, lastEventSeq, unacked, hostInstanceId>>
             /\ Live' = Live /\ Meeting({})
  BY <1>2, <1>4, HelloTaken DEF Live
<1>5. ASSUME hostInstanceId # hello.inst
      PROVE  /\ Meeting(Lost(hello)) /\ Foreign
             /\ \A k \in DOMAIN unacked', p \in Procs : Spawns(unacked'[k].cmd, p) => p \in Live'
  BY <1>2, <1>5, HelloTaken
<1>6. PICK lost : Meeting(lost) /\ (hostInstanceId # hello.inst => lost = Lost(hello))
  BY <1>4, <1>5
<1>7. /\ lost \subseteq Live /\ Live' = Live \ lost /\ started' = started \ lost
      /\ \A p \in Procs : lastEventSeq'[p] = IF p \in lost THEN 0 ELSE lastEventSeq[p]
      /\ \A p \in Procs : remote[p] = "none" => remote'[p] = "none"
      /\ \A k \in DOMAIN unacked', p \in Procs : Spawns(unacked'[k].cmd, p) =>
           /\ \E j \in DOMAIN unacked : Spawns(unacked[j].cmd, p)
           /\ \A l \in DOMAIN unacked' : Spawns(unacked'[l].cmd, p) => k = l
  BY <1>6 DEF Meeting
<1>8. /\ \A i \in DOMAIN toHost : i \in DOMAIN toHost' /\ toHost'[i] = toHost[i]
      /\ \A i \in DOMAIN toHost' :
           \/ i \in DOMAIN toHost /\ toHost'[i] = toHost[i]
           \/ /\ linkSocket /\ paired /\ i > Len(toHost)
              /\ \/ toHost'[i].t = "update"
                 \/ /\ i = Len(toHost) + 1 /\ toHost'[i].t = "welcome"
                    /\ toHost'[i].coord = instanceId /\ toHost'[i].listed = Live'
                    /\ toHost'[i].received = lastEventSeq'
                 \/ /\ toHost'[i].t = "command"
                    /\ \E k \in DOMAIN unacked' : /\ unacked'[k].seq = toHost'[i].seq
                                                  /\ unacked'[k].cmd = toHost'[i].cmd
  BY HelloFrames
<1>9. \A j \in DOMAIN toHost : toHost[j].t \notin {"welcome", "event_ack"}
  BY <1>3 DEF MeetInv, HelloFirst
<1>10. /\ DOMAIN toCoord' = 1..Len(toCoord) - 1 /\ Len(toCoord) \in Nat
       /\ DOMAIN toCoord = 1..Len(toCoord)
       /\ \A i \in DOMAIN toCoord' : i + 1 \in DOMAIN toCoord /\ toCoord'[i] = toCoord[i + 1]
  BY <1>1, <1>3, CoordFrames
<1>11. \A i \in DOMAIN toCoord' : toCoord'[i].t # "hello"
  <2>1. ASSUME NEW i \in DOMAIN toCoord', toCoord'[i].t = "hello" PROVE FALSE
    <3>1. i + 1 = 1
      BY <1>10, <2>1 DEF MeetInv, HelloFirst
    <3>2. QED
      BY <1>10, <3>1
  <2>2. QED
    BY <2>1
<1>12. /\ UNCHANGED <<phase, nextSeq, coordinatorInstanceId, appliedCommandSeq, agentId>>
       /\ Hosted' = Hosted /\ Foreign' = Foreign /\ Reached(instanceId)' = Reached(instanceId)
       /\ \A p : FirstPending(p)' = FirstPending(p)
       /\ \A i : Fresh(toHost[i])' => Fresh(toHost'[i])
  <2>1. UNCHANGED <<phase, nextSeq, coordinatorInstanceId, appliedCommandSeq, agentId>>
    BY DEF agentVars
  <2>2. Hosted' = Hosted /\ Foreign' = Foreign /\ Reached(instanceId)' = Reached(instanceId)
    BY <1>3, NodeStays
  <2>3. \A p : FirstPending(p)' = FirstPending(p)
    BY NodeStays
  <2>4. \A i : Fresh(toHost[i])' => Fresh(toHost'[i])
    BY <2>1 DEF Reached, Fresh
  <2>5. QED
    BY <2>1, <2>2, <2>3, <2>4
<1>13. /\ \A p : \A i \in Reports(p)' : i + 1 \in Reports(p) /\ toCoord'[i] = toCoord[i + 1]
       /\ \A p : Reports(p) = {} => Reports(p)' = {}
       /\ \A p : \A i \in Reports(p)' : Given(p, i + 1, all) => Given(p, i, all)'
  <2>1. ASSUME NEW p, NEW i \in Reports(p)'
        PROVE  i + 1 \in Reports(p) /\ toCoord'[i] = toCoord[i + 1]
    BY <1>10, <2>1 DEF Reports
  <2>2. ASSUME NEW p, NEW i \in Reports(p)', Given(p, i + 1, all) PROVE Given(p, i, all)'
    BY <1>12, <2>1, <2>2 DEF Given
  <2>3. QED
    BY <2>1, <2>2
<1>14. /\ ~Greeted' /\ (Near' => Known') /\ (Known' <=> hello.inst = agentId)
       /\ (hello.inst = agentId => Near /\ Greeted)
  <2>1. ~Greeted'
    BY <1>11 DEF Greeted
  <2>2. Known' <=> hello.inst = agentId
    BY <1>3, <1>12 DEF Known
  <2>3. hello.inst = agentId => Greeted
    BY <1>2, <1>3 DEF Greeted
  <2>4. QED
    BY <2>1, <2>2, <2>3 DEF Near
<1>15. MeetInv'
  <2>1. HelloFirst' /\ HelloLists' /\ Unmet'
    BY <1>3, <1>11 DEF HelloFirst, HelloLists, Unmet
  <2>2. Replaced'
    BY <1>3, <1>8, <1>12 DEF Replaced
  <2>3. ASSUME NEW i \in DOMAIN toHost', Marked(toHost'[i]) PROVE From(toHost'[i]) = instanceId
    <3>1. CASE i \in DOMAIN toHost /\ toHost'[i] = toHost[i]
      BY <1>3, <2>3, <3>1 DEF CommandInv, DriverInv, Sources
    <3>2. CASE toHost'[i].t = "update"
      BY <2>3, <3>2 DEF Marked
    <3>3. CASE toHost'[i].t = "welcome" /\ toHost'[i].coord = instanceId
      BY <3>3 DEF From
    <3>4. CASE /\ toHost'[i].t = "command"
               /\ \E k \in DOMAIN unacked' : unacked'[k].cmd = toHost'[i].cmd
      BY <1>3, <3>4 DEF CommandInv, DriverInv, Own, From
    <3>5. QED
      BY <1>8, <3>1, <3>2, <3>3, <3>4
  <2>4. Fellow'
    BY <1>3, <1>8, <1>9, <2>3 DEF Fellow
  <2>5. OneWelcome'
    BY <1>8, <1>9 DEF OneWelcome
  <2>6. QED
    BY <2>1, <2>2, <2>4, <2>5 DEF MeetInv
<1>16. Shape(all)' /\ Parented'
  BY NodeStays
\* What the link knew of another node is over.
<1>17. ASSUME hostInstanceId # hello.inst, Known'
       PROVE  /\ hello.inst = agentId /\ Foreign /\ Greeted /\ Near
              /\ hostInstanceId = 0 => /\ hello.procs = Hosted
                                       /\ \A p \in Procs : lastEventSeq[p] = 0
              /\ hostInstanceId # 0 =>
                    /\ Hosted = {} /\ started \subseteq lost
                    /\ all => \A p \in Live \ started : lastEventSeq[p] = 0
  <2>1. hello.inst = agentId /\ Foreign /\ Greeted /\ Near
    BY <1>5, <1>14, <1>17
  <2>2. hello.procs = Hosted
    BY <1>2, <1>3, <2>1 DEF MeetInv, HelloLists
  <2>3. hostInstanceId = 0 => \A p \in Procs : lastEventSeq[p] = 0
    BY DEF MeetInv, Unmet
  <2>4. ASSUME hostInstanceId # 0
        PROVE  /\ Hosted = {} /\ started \subseteq lost
               /\ all => \A p \in Live \ started : lastEventSeq[p] = 0
    <3>1. Hosted = {}
      BY <1>17, <2>1, <2>4 DEF MeetInv, Replaced, Parented
    <3>2. lost = {p \in Live : p \in started}
      BY <1>6, <1>17, <2>4 DEF Lost
    <3>3. started \subseteq lost
      BY <3>2 DEF SpawnInv, LiveOnly
    <3>4. all => \A p \in Live \ started : lastEventSeq[p] = 0
      BY <1>3, <1>17, <2>4 DEF EndsRead
    <3>5. QED
      BY <3>1, <3>3, <3>4
  <2>5. QED
    BY <2>1, <2>2, <2>3, <2>4
<1>18. SpawnInv(all)'
  <2>1. Unused'
    <3> SUFFICES ASSUME NEW p \in Procs \ used
                 PROVE  /\ remote'[p] = "none" /\ p \notin adoptable /\ p \notin Hosted
                        /\ Reports(p)' = {} /\ pendingAcks[p] = 0
                        /\ \A i \in DOMAIN toHost' :
                             /\ toHost'[i].t = "event_ack" => toHost'[i].proc # p
                             /\ toHost'[i].t = "welcome" => p \notin toHost'[i].listed
                             /\ ~Carries(toHost'[i], p)
                        /\ \A i \in DOMAIN unacked' : ~Spawns(unacked'[i].cmd, p)
      BY <1>3, <1>12 DEF Unused
    <3>1. /\ remote[p] = "none" /\ p \notin adoptable /\ p \notin Hosted
          /\ Reports(p) = {} /\ pendingAcks[p] = 0
          /\ \A i \in DOMAIN toHost : ~Carries(toHost[i], p)
          /\ \A i \in DOMAIN unacked : ~Spawns(unacked[i].cmd, p)
      BY DEF SpawnInv, Unused
    <3>2. p \notin Live /\ p \notin Live' /\ remote'[p] = "none" /\ Reports(p)' = {}
      BY <1>7, <1>13, <3>1 DEF Live
    <3>3. \A i \in DOMAIN unacked' : ~Spawns(unacked'[i].cmd, p)
      BY <1>7, <3>1
    <3>4. \A i \in DOMAIN toHost' :
             /\ toHost'[i].t # "event_ack"
             /\ toHost'[i].t = "welcome" => p \notin toHost'[i].listed
      BY <1>8, <1>9, <3>2
    <3>5. \A i \in DOMAIN toHost' : ~Carries(toHost'[i], p)
      BY <1>8, <3>1, <3>3 DEF Carries
    <3>6. QED
      BY <3>1, <3>2, <3>3, <3>4, <3>5
  <2>2. LiveOnly'
    <3>1. started' \subseteq Live'
      BY <1>7 DEF SpawnInv, LiveOnly
    <3>2. \A p \in Procs : p \notin Live' => lastEventSeq'[p] = 0
      BY <1>7 DEF SpawnInv, LiveOnly
    <3>3. \A p \in adoptable' : remote'[p] = "none"
      BY <1>1, <1>3, <1>7 DEF SpawnInv, LiveOnly, ManagerTypeOK
    <3>4. QED
      BY <3>1, <3>2, <3>3 DEF LiveOnly
  <2>3. Separate'
    <3>1. ASSUME NEW i \in DOMAIN toHost', NEW p \in Live' \ started', Carries(toHost'[i], p)
          PROVE  toHost'[i].cmd.coord = instanceId
      <4>1. Marked(toHost'[i]) /\ From(toHost'[i]) = toHost'[i].cmd.coord
        BY <3>1 DEF Carries, Marked, From
      <4>2. QED
        BY <1>3, <1>15, <3>1, <4>1 DEF MeetInv, Fellow
    <3>2. Live' \ started' \subseteq Live \ started
      BY <1>7
    <3>3. Foreign => Hosted \cap (Live' \ started') = {}
      BY <3>2 DEF SpawnInv, Separate
    <3>4. ASSUME NEW k \in DOMAIN unacked', NEW p \in Procs, Spawns(unacked'[k].cmd, p)
          PROVE  /\ p \notin adoptable
                 /\ \A l \in DOMAIN unacked' : Spawns(unacked'[l].cmd, p) => k = l
      BY <1>7, <3>4 DEF SpawnInv, Separate
    <3>5. QED
      BY <1>3, <1>12, <3>1, <3>3, <3>4 DEF Separate
  <2>4. Unspawned(all)'
    <3>1. ASSUME Known', NEW i \in DOMAIN unacked', NEW p \in Procs,
                 Spawns(unacked'[i].cmd, p), unacked'[i].seq > Reached(instanceId)
          PROVE  /\ p \in Live' /\ p \notin started' /\ p \notin Hosted /\ Reports(p)' = {}
                 /\ all => lastEventSeq'[p] = 0
      <4>1. CASE hostInstanceId = hello.inst
        <5>1. UNCHANGED <<started, lastEventSeq, unacked>> /\ Known /\ Live' = Live
          BY <1>4, <1>14, <3>1, <4>1 DEF Known
        <5>2. QED
          BY <1>13, <3>1, <5>1 DEF SpawnInv, Unspawned
      <4>2. CASE hostInstanceId # hello.inst
        <5>1. p \in Live' /\ p \in Live /\ p \notin lost
          BY <1>5, <1>7, <3>1, <4>2
        <5>2. p \notin started
          <6>1. CASE hostInstanceId = 0
            BY <1>7, <3>1, <6>1 DEF SpawnInv, Separate
          <6>2. CASE hostInstanceId # 0
            BY <1>17, <3>1, <4>2, <5>1, <6>2
          <6>3. QED
            BY <6>1, <6>2
        <5>3. p \notin Hosted
          BY <1>17, <3>1, <4>2, <5>1, <5>2 DEF SpawnInv, Separate
        <5>4. Reports(p) = {}
          BY <1>17, <3>1, <4>2, <5>3 DEF NumberInv, BeforeAdoption
        <5>5. all => lastEventSeq'[p] = 0
          BY <1>7, <1>17, <3>1, <4>2, <5>1, <5>2
        <5>6. QED
          BY <1>7, <1>13, <5>1, <5>2, <5>3, <5>4, <5>5
      <4>3. QED
        BY <4>1, <4>2
    <3>2. QED
      BY <1>3, <1>12, <3>1 DEF Unspawned
  <2>5. QED
    BY <2>1, <2>2, <2>3, <2>4 DEF SpawnInv
<1>19. ASSUME ~Foreign \/ (Known' /\ hostInstanceId = hello.inst)
       PROVE  /\ UNCHANGED <<remote, started, lastEventSeq, unacked, hostInstanceId>>
              /\ Live' = Live /\ Known' = Known /\ Joined' = Joined
              /\ \A p : Counted(p, all)' = Counted(p, all)
  <2>1. hostInstanceId = hello.inst
    BY <1>5, <1>19
  <2>2. /\ UNCHANGED <<remote, started, lastEventSeq, unacked, hostInstanceId>>
        /\ Live' = Live
    BY <1>4, <2>1
  <2>3. Known' = Known /\ Joined' = Joined
    BY <1>3, <2>2, NodeStays
  <2>4. \A p : Counted(p, all)' = Counted(p, all)
    BY <2>2 DEF Counted
  <2>5. QED
    BY <2>2, <2>3, <2>4
<1>20. \A p \in Procs : lastEventSeq'[p] \in Nat /\ lastEventSeq[p] \in Nat /\ nextSeq[p] \in Nat
  BY <1>1 DEF ManagerTypeOK, AgentTypeOK
<1>21. Welcomed(all)'
  <2> SUFFICES ASSUME NEW i \in DOMAIN toHost', toHost'[i].t = "welcome"
               PROVE  /\ \A j \in 1..i - 1, p \in Procs :
                            Carries(toHost'[j], p) /\ Fresh(toHost[j])' =>
                               /\ p \in toHost'[i].listed
                               /\ all => toHost'[i].received[p] = 0
                      /\ all /\ toHost'[i].coord = coordinatorInstanceId' =>
                            \A p \in toHost'[i].listed \cap Hosted' :
                               /\ toHost'[i].received[p] < nextSeq'[p]
                               /\ phase'[p] = "exited" =>
                                     toHost'[i].received[p] + 1 < nextSeq'[p]
                      /\ toHost'[i].coord = instanceId' =>
                            /\ \A p \in toHost'[i].listed \cap Hosted' :
                                  phase'[p] # "exited" => p \in Live'
                            /\ \A p \in toHost'[i].listed : Counted(p, all)' =>
                                  toHost'[i].received[p] <= lastEventSeq'[p]
                            /\ all => \A p \in Live' \ toHost'[i].listed :
                                  /\ p \notin Hosted' /\ p \notin started'
                                  /\ lastEventSeq'[p] = 0
    BY DEF Welcomed
  <2>1. /\ paired /\ i = Len(toHost) + 1 /\ toHost'[i].coord = instanceId
        /\ toHost'[i].listed = Live' /\ toHost'[i].received = lastEventSeq'
    BY <1>8, <1>9
  <2>2. hello.inst = agentId /\ Known'
    BY <1>3, <1>14, <2>1
  <2>3. ASSUME NEW j \in 1..i - 1, NEW p \in Procs, Carries(toHost'[j], p), Fresh(toHost[j])'
        PROVE  p \in Live' /\ (all => lastEventSeq'[p] = 0)
    <3>1. j \in DOMAIN toHost /\ toHost'[j] = toHost[j]
      <4>1. Len(toHost) \in Nat /\ DOMAIN toHost = 1..Len(toHost)
        BY <1>1, HostFrames
      <4>2. j \in DOMAIN toHost
        BY <2>1, <4>1
      <4>3. QED
        BY <1>8, <4>2
    <3>2. Carries(toHost[j], p) /\ Fresh(toHost[j]) /\ Marked(toHost[j])
      BY <1>12, <2>3, <3>1 DEF Carries, Marked
    <3>3. From(toHost[j]) = instanceId /\ toHost[j].cmd.coord = instanceId
      BY <1>3, <3>1, <3>2 DEF CommandInv, DriverInv, Sources, From, Carries
    <3>4. Known /\ hostInstanceId = hello.inst
      BY <2>2, <3>1, <3>2, <3>3 DEF CommandInv, Recognised, Known
    <3>5. PICK k \in DOMAIN unacked :
             unacked[k].seq = toHost[j].seq /\ unacked[k].cmd = toHost[j].cmd
      BY <3>1, <3>2, <3>3 DEF CommandInv, FromQueue
    <3>6. Spawns(unacked[k].cmd, p) /\ unacked[k].seq > Reached(instanceId)
      BY <3>2, <3>3, <3>5 DEF Fresh, Carries
    <3>7. p \in Live /\ (all => lastEventSeq[p] = 0)
      BY <3>4, <3>6 DEF SpawnInv, Unspawned
    <3>8. QED
      BY <1>19, <2>2, <3>4, <3>7
  <2>4. ASSUME all, ~Foreign, NEW p \in Live' \cap Hosted
        PROVE  /\ lastEventSeq'[p] < nextSeq[p]
               /\ phase[p] = "exited" => lastEventSeq'[p] + 1 < nextSeq[p]
    <3>1. p \in Live /\ lastEventSeq'[p] = lastEventSeq[p] /\ Known
      BY <1>19, <2>2, <2>4
    <3>2. Joined /\ Counted(p, all)
      BY <2>4, <3>1 DEF Joined, Known, Foreign, Counted
    <3>3. lastEventSeq[p] < nextSeq[p]
      BY <2>4, <3>2 DEF NumberInv, InStep
    <3>4. phase[p] = "exited" => lastEventSeq[p] + 1 < nextSeq[p]
      BY <2>4, <3>1 DEF NumberInv, Present
    <3>5. QED
      BY <3>1, <3>3, <3>4
  <2>5. \A p \in Live' : lastEventSeq'[p] <= lastEventSeq'[p]
    BY <1>20 DEF Live
  <2>6. QED
    BY <1>3, <1>12, <2>1, <2>3, <2>4, <2>5 DEF Foreign
<1>22. Acked(all)'
  <2>1. \A p \in Procs : pendingAcks'[p] <= lastEventSeq'[p]
    BY <1>3, <1>20
  <2>2. \A i \in DOMAIN toHost' : toHost'[i].t # "event_ack"
    BY <1>8, <1>9
  <2>3. QED
    BY <2>1, <2>2 DEF Acked
<1>23. Numbered'
  <2>1. ASSUME NEW i \in DOMAIN toCoord', toCoord'[i].t = "event"
        PROVE  /\ toCoord'[i].seq # 0
               /\ toCoord'[i].event.kind = "spawned" => toCoord'[i].seq = 1
               /\ Near' /\ toCoord'[i].event.kind = "exit" =>
                     phase[toCoord'[i].proc] \in {"absent", "exited"}
    BY <1>10, <1>14, <2>1 DEF NumberInv, Numbered
  <2>2. QED
    BY <1>12, <2>1 DEF Numbered
<1>24. BeforeAdoption(all)'
  <2>1. ASSUME Foreign, Near', NEW p \in Procs, NEW i \in Reports(p)'
        PROVE  p \in Hosted /\ FirstPending(p) <= toCoord'[i].seq /\ Given(p, i, all)'
    BY <1>13, <1>14, <2>1 DEF NumberInv, BeforeAdoption
  <2>2. QED
    BY <1>12, <2>1 DEF BeforeAdoption
<1>25. ReadEarly(all)'
  <2>1. ASSUME Foreign, Known', NEW p \in Hosted, Counted(p, all)', lastEventSeq'[p] # 0
        PROVE  FirstPending(p) = 1 /\ lastEventSeq'[p] < nextSeq[p]
    <3>1. CASE hostInstanceId = hello.inst
      BY <1>19, <2>1, <3>1 DEF NumberInv, ReadEarly
    <3>2. CASE hostInstanceId # hello.inst
      BY <1>7, <1>17, <2>1, <3>2 DEF Hosted
    <3>3. QED
      BY <3>1, <3>2
  <2>2. QED
    BY <1>12, <2>1 DEF ReadEarly
<1>26. InStep(all)'
  <2>1. ASSUME Joined', NEW p \in Hosted, Counted(p, all)'
        PROVE  /\ FirstPending(p) <= lastEventSeq'[p] + 1 /\ lastEventSeq'[p] < nextSeq[p]
               /\ \A i \in Reports(p)' : Dead(p, i)' \/ Given(p, i, all)'
    <3>1. ~Foreign /\ Joined /\ Counted(p, all) /\ lastEventSeq'[p] = lastEventSeq[p]
      BY <1>3, <1>12, <1>19, <2>1 DEF Joined, Foreign
    <3>2. /\ FirstPending(p) <= lastEventSeq[p] + 1 /\ lastEventSeq[p] < nextSeq[p]
          /\ \A i \in Reports(p) : Dead(p, i) \/ Given(p, i, all)
      BY <2>1, <3>1 DEF NumberInv, InStep
    <3>3. ASSUME NEW i \in Reports(p)', Dead(p, i + 1) PROVE Dead(p, i)'
      <4>1. ASSUME NEW k \in Reports(p)', k <= i PROVE toCoord'[k].seq # 1
        <5>1. k + 1 \in Reports(p) /\ toCoord'[k] = toCoord[k + 1]
          BY <1>13, <4>1
        <5>2. k \in Nat /\ i \in Nat
          BY <1>10 DEF Reports
        <5>3. k + 1 <= i + 1
          BY <4>1, <5>2
        <5>4. QED
          BY <3>3, <5>1, <5>3 DEF Dead
      <4>2. QED
        BY <3>1, <3>3, <4>1 DEF Dead
    <3>4. \A i \in Reports(p)' : Dead(p, i)' \/ Given(p, i, all)'
      BY <1>13, <3>2, <3>3
    <3>5. QED
      BY <3>1, <3>2, <3>4
  <2>2. QED
    BY <1>12, <2>1 DEF InStep
<1>27. Attended'
  <2>1. ASSUME Joined', NEW p \in Hosted, phase[p] # "exited" PROVE p \in Live'
    BY <1>3, <1>12, <1>19, <2>1 DEF NumberInv, Attended, Joined, Foreign
  <2>2. QED
    BY <1>12, <2>1 DEF Attended
<1>28. ASSUME all, Known'
       PROVE  /\ started' \subseteq Hosted
              /\ \A p \in Live' \ Hosted : Reports(p)' = {}
              /\ \A p \in Live' \cap Hosted : phase[p] = "exited" =>
                    lastEventSeq'[p] + 1 < nextSeq[p]
  <2>1. CASE hostInstanceId = hello.inst
    <3>1. /\ started' = started /\ lastEventSeq' = lastEventSeq /\ Live' = Live /\ Known
      BY <1>19, <1>28, <2>1
    <3>2. QED
      BY <1>13, <1>28, <3>1 DEF NumberInv, Present
  <2>2. CASE hostInstanceId # hello.inst
    <3>1. ASSUME NEW p \in started' PROVE p \in Hosted
      <4>1. p \in started /\ p \notin lost /\ p \in Live
        BY <1>7, <3>1 DEF SpawnInv, LiveOnly
      <4>2. hostInstanceId = 0
        BY <1>17, <1>28, <2>2, <4>1
      <4>3. QED
        BY <1>6, <1>17, <1>28, <2>2, <4>1, <4>2 DEF Lost
    <3>2. ASSUME NEW p \in Live' \ Hosted PROVE Reports(p)' = {}
      <4>1. p \in Procs
        BY <3>2 DEF Live
      <4>2. Reports(p) = {}
        BY <1>17, <1>28, <2>2, <3>2, <4>1 DEF NumberInv, BeforeAdoption
      <4>3. QED
        BY <1>13, <4>2
    <3>3. ASSUME NEW p \in Live' \cap Hosted, phase[p] = "exited"
          PROVE  lastEventSeq'[p] + 1 < nextSeq[p]
      <4>1. p \in Procs
        BY <3>3 DEF Live
      <4>2. hostInstanceId = 0
        BY <1>17, <1>28, <2>2, <3>3
      <4>3. lastEventSeq'[p] = 0
        BY <1>7, <1>17, <1>28, <2>2, <4>1, <4>2
      <4>4. pending[p] # <<>>
        BY <1>28, <3>3, <4>1 DEF Shape
      <4>5. /\ pending[p] \in Seq(Event) /\ Len(pending[p]) < nextSeq[p]
            /\ nextSeq[p] \in Nat
        BY <4>1 DEF TypeInv, AgentInv, AgentTypeOK
      <4>6. Len(pending[p]) \in Nat \ {0}
        BY <4>4, <4>5
      <4>7. QED
        BY <4>3, <4>5, <4>6
    <3>4. QED
      BY <3>1, <3>2, <3>3
  <2>3. QED
    BY <2>1, <2>2
<1>29. all => Present'
  BY <1>12, <1>28 DEF Present
<1>30. QED
  BY <1>15, <1>16, <1>18, <1>21, <1>22, <1>23, <1>24, <1>25, <1>26, <1>27, <1>29 DEF NumberInv

-----------------------------------------------------------------------------
(***************************************************************************)
(* A welcome.                                                              *)
(***************************************************************************)
\* The node keeps the numbers of p's events and drops k that were read up to r.
Trimmed(p, r, k) ==
    /\ k \in 0..Len(pending[p]) /\ (k # 0 => FirstPending(p) + k <= r + 1)
    /\ nextSeq'[p] = nextSeq[p] /\ unfinishedLine'[p] = unfinishedLine[p]
    /\ Len(pending'[p]) = Len(pending[p]) - k
    /\ \A i \in DOMAIN pending'[p] :
          i + k \in DOMAIN pending[p] /\ pending'[p][i] = pending[p][i + k]

\* The node numbers p's events from 1, after the line that was read in part.
Handed(p) ==
    /\ unfinishedLine'[p] = {} /\ nextSeq'[p] = Len(pending'[p]) + 1
    /\ \/ unfinishedLine[p] = {} /\ pending'[p] = pending[p]
       \/ /\ unfinishedLine[p] # {} /\ Len(pending'[p]) = Len(pending[p]) + 1
          /\ pending'[p][1].kind = "stdout"
          /\ \A i \in DOMAIN pending'[p] : i # 1 =>
                i - 1 \in DOMAIN pending[p] /\ pending'[p][i] = pending[p][i - 1]

\* The node ends p.
Ended(p) ==
    phase'[p] = "absent" /\ nextSeq'[p] = 1 /\ pending'[p] = <<>> /\ unfinishedLine'[p] = {}

LEMMA ResumeTrims ==
    ASSUME AgentInv, NEW w \in Welcome, Resume(w), NEW p \in Procs
    PROVE  /\ p \notin w.listed => Ended(p)
           /\ p \in w.listed => /\ phase'[p] = phase[p]
                                /\ \E k \in Nat : Trimmed(p, w.received[p], k)
<1>1. /\ pending[p] \in Seq(Event) /\ Len(pending[p]) \in Nat
      /\ nextSeq[p] \in Nat /\ Len(pending[p]) < nextSeq[p] /\ w.received[p] \in Nat
  BY DEF AgentInv, AgentTypeOK, Welcome
<1>2. FirstPending(p) = nextSeq[p] - Len(pending[p]) /\ FirstPending(p) \in Nat \ {0}
  BY <1>1 DEF FirstPending
<1>3. p \notin w.listed => Ended(p)
  BY DEF Resume, KeepListed, Ended
<1>4. ASSUME p \in w.listed
      PROVE  phase'[p] = phase[p] /\ \E k \in Nat : Trimmed(p, w.received[p], k)
  <2> DEFINE from == w.received[p] - FirstPending(p) + 2
             rest == SubSeq(pending[p], from, Len(pending[p]))
  <2>1. /\ phase'[p] = phase[p] /\ nextSeq'[p] = nextSeq[p]
        /\ unfinishedLine'[p] = unfinishedLine[p]
        /\ pending'[p] = IF w.received[p] < FirstPending(p) THEN pending[p] ELSE rest
    BY <1>4 DEF Resume, KeepListed
  <2>2. CASE w.received[p] < FirstPending(p)
    <3>1. pending'[p] = pending[p]
      BY <2>1, <2>2
    <3>2. \A i \in DOMAIN pending[p] :
             i + 0 \in DOMAIN pending[p] /\ pending[p][i] = pending[p][i + 0]
      <4>1. DOMAIN pending[p] = 1..Len(pending[p])
        BY <1>1
      <4>2. \A i \in 1..Len(pending[p]) : i + 0 = i
        BY <1>1
      <4>3. QED
        BY <4>1, <4>2
    <3>3. 0 \in 0..Len(pending[p]) /\ Len(pending[p]) = Len(pending[p]) - 0
      BY <1>1
    <3>4. Trimmed(p, w.received[p], 0)
      BY <2>1, <3>1, <3>2, <3>3 DEF Trimmed
    <3>5. QED
      BY <2>1, <3>4
  <2>3. CASE ~(w.received[p] < FirstPending(p)) /\ from <= Len(pending[p]) + 1
    <3> DEFINE k == from - 1
    <3>1. /\ k \in 0..Len(pending[p]) /\ k \in Nat /\ FirstPending(p) + k <= w.received[p] + 1
          /\ from = k + 1 /\ 1 <= from
      BY <1>1, <1>2, <2>3
    <3>2. pending'[p] = rest
      BY <2>1, <2>3
    <3> HIDE DEF from, k
    <3>3. /\ rest \in Seq(Event) /\ Len(rest) = Len(pending[p]) - from + 1
          /\ \A i \in 1..Len(pending[p]) - from + 1 : rest[i] = pending[p][from + i - 1]
      BY <1>1, <2>3, <3>1, SubSeqProperties, SMTT(30)
    <3>4. Len(pending[p]) - from + 1 = Len(pending[p]) - k
      BY <1>1, <3>1
    <3>5. \A i \in 1..Len(pending[p]) - k :
             from + i - 1 = i + k /\ i + k \in 1..Len(pending[p])
      BY <1>1, <3>1
    <3> HIDE DEF rest
    <3>6. DOMAIN rest = 1..Len(pending[p]) - k /\ DOMAIN pending[p] = 1..Len(pending[p])
      BY <1>1, <3>3, <3>4
    <3>7. \A i \in DOMAIN rest : i + k \in DOMAIN pending[p] /\ rest[i] = pending[p][i + k]
      BY <3>3, <3>4, <3>5, <3>6
    <3>8. Trimmed(p, w.received[p], k)
      BY <2>1, <3>1, <3>2, <3>3, <3>4, <3>7 DEF Trimmed
    <3>9. QED
      BY <2>1, <3>1, <3>8
  <2>4. CASE ~(w.received[p] < FirstPending(p)) /\ from > Len(pending[p]) + 1
    <3>1. from \in Nat /\ from > Len(pending[p])
      BY <1>1, <1>2, <2>4
    <3>2. pending'[p] = rest
      BY <2>1, <2>4
    <3>3. FirstPending(p) + Len(pending[p]) <= w.received[p] + 1
      BY <1>1, <1>2, <2>4
    <3> HIDE DEF from
    <3>4. rest = <<>>
      BY <1>1, <3>1
    <3>5. Trimmed(p, w.received[p], Len(pending[p]))
      BY <1>1, <2>1, <3>2, <3>3, <3>4 DEF Trimmed
    <3>6. QED
      BY <1>1, <2>1, <3>5
  <2>5. QED
    BY <1>1, <1>2, <2>2, <2>3, <2>4
<1>5. QED
  BY <1>3, <1>4

LEMMA AdoptByHands ==
    ASSUME AgentInv, NEW w \in Welcome, AdoptBy(w), NEW p \in Procs
    PROVE  /\ p \notin w.listed => Ended(p)
           /\ p \in w.listed => phase'[p] = phase[p] /\ Handed(p)
<1>1. pending[p] \in Seq(Event) /\ Len(pending[p]) \in Nat /\ unfinishedLine[p] \in SUBSET Unit
  BY DEF AgentInv, AgentTypeOK
<1>2. /\ phase'[p] = IF p \in w.listed THEN phase[p] ELSE "absent"
      /\ pending'[p] = IF p \notin w.listed THEN <<>>
                       ELSE IF unfinishedLine[p] = {} THEN pending[p]
                       ELSE <<Stdout(unfinishedLine[p])>> \o pending[p]
      /\ nextSeq'[p] = Len(pending'[p]) + 1 /\ unfinishedLine'[p] = {}
  BY DEF AdoptBy, KeepListed
<1>3. p \notin w.listed => Ended(p)
  BY <1>2 DEF Ended
<1>4. CASE p \in w.listed /\ unfinishedLine[p] = {}
  BY <1>2, <1>3, <1>4 DEF Handed
<1>5. CASE p \in w.listed /\ unfinishedLine[p] # {}
  <2> DEFINE head == <<Stdout(unfinishedLine[p])>>
  <2>1. head \in Seq(Event) /\ Len(head) = 1 /\ head[1].kind = "stdout"
    BY <1>1, StdoutTyped DEF Stdout
  <2>2. pending'[p] = head \o pending[p]
    BY <1>2, <1>5
  <2> HIDE DEF head
  <2>3. /\ Len(pending'[p]) = Len(pending[p]) + 1
        /\ DOMAIN pending'[p] = 1..Len(pending[p]) + 1 /\ DOMAIN pending[p] = 1..Len(pending[p])
        /\ pending'[p][1] = head[1]
        /\ \A i \in 1..Len(pending[p]) + 1 : i # 1 => pending'[p][i] = pending[p][i - 1]
    <3>1. /\ Len(head \o pending[p]) = Len(head) + Len(pending[p])
          /\ head \o pending[p] \in Seq(Event) /\ DOMAIN pending[p] = 1..Len(pending[p])
          /\ \A i \in 1..Len(head) + Len(pending[p]) :
                (head \o pending[p])[i] =
                    IF i <= Len(head) THEN head[i] ELSE pending[p][i - Len(head)]
      <4>1. pending[p] \in Seq(Event) /\ head \in Seq(Event)
        BY <1>1, <2>1
      <4>2. Len(head \o pending[p]) = Len(head) + Len(pending[p])
        BY <4>1, ConcatProperties
      <4>3. head \o pending[p] \in Seq(Event) /\ DOMAIN pending[p] = 1..Len(pending[p])
        BY <4>1
      <4>4. \A i \in 1..Len(head) + Len(pending[p]) :
               (head \o pending[p])[i] =
                   IF i <= Len(head) THEN head[i] ELSE pending[p][i - Len(head)]
        BY <4>1, ConcatProperties
      <4>5. QED
        BY <4>2, <4>3, <4>4
    <3>2. 1 + Len(pending[p]) = Len(pending[p]) + 1 /\ 1 \in 1..1 + Len(pending[p])
      BY <1>1
    <3>3. /\ Len(pending'[p]) = Len(pending[p]) + 1
          /\ DOMAIN pending'[p] = 1..Len(pending[p]) + 1
      BY <2>1, <2>2, <3>1, <3>2
    <3>4. \A i \in 1..Len(pending[p]) + 1 : i # 1 => ~(i <= 1)
      BY <1>1
    <3>5. QED
      BY <2>1, <2>2, <3>1, <3>2, <3>3, <3>4
  <2>4. \A i \in 1..Len(pending[p]) + 1 : i # 1 => i - 1 \in 1..Len(pending[p])
    BY <1>1
  <2>5. Handed(p)
    BY <1>2, <1>5, <2>1, <2>3, <2>4 DEF Handed
  <2>6. QED
    BY <1>2, <1>3, <2>5
<1>6. QED
  BY <1>2, <1>3, <1>4, <1>5

LEMMA WelcomeTaken ==
    ASSUME TypeInv, ReceiveWelcome, NEW w, w = toHost[1]
    PROVE  /\ 1 \in DOMAIN toHost /\ w.t = "welcome" /\ w \in Welcome
           /\ toHost # <<>> /\ toHost' = Tail(toHost)
           /\ UNCHANGED <<linkSocket, toCoord, agentId>>
           /\ coordinatorInstanceId' = w.coord
           /\ w.coord = coordinatorInstanceId =>
                 Resume(w) /\ appliedCommandSeq' = appliedCommandSeq
           /\ w.coord # coordinatorInstanceId => AdoptBy(w) /\ appliedCommandSeq' = 0
           /\ replaying' \subseteq Hosted \cap w.listed
<1>1. WireTypeOK
  BY DEF TypeInv
<1>2. toHost # <<>> /\ Head(toHost).t = "welcome" /\ TakeWelcome
  BY DEF ReceiveWelcome, AgentReceives
<1>3. 1 \in DOMAIN toHost /\ Head(toHost) = w /\ w \in CoordinatorToHost
  BY <1>1, <1>2, HostFrames
<1>4. w.t = "welcome" /\ w \in Welcome
  BY <1>2, <1>3, HostFrame
<1>5. toHost' = Tail(toHost) /\ UNCHANGED <<linkSocket, toCoord, agentId>>
  BY <1>2, <1>3 DEF TakeWelcome, AgentConsumes
<1>6. /\ w.coord = coordinatorInstanceId =>
            Resume(w) /\ appliedCommandSeq' = appliedCommandSeq
      /\ w.coord # coordinatorInstanceId => AdoptBy(w) /\ appliedCommandSeq' = 0
  BY <1>2, <1>3 DEF TakeWelcome, Resume, AdoptBy
<1>7. replaying' \subseteq Hosted \cap w.listed
  BY <1>2, <1>3 DEF TakeWelcome
<1>8. coordinatorInstanceId' = w.coord
  BY <1>2, <1>3 DEF TakeWelcome, Resume, AdoptBy
<1>9. QED
  BY <1>2, <1>3, <1>4, <1>5, <1>6, <1>7, <1>8

\* What a trimmed process keeps begins and ends as before.
LEMMA TrimmedShape ==
    ASSUME AgentInv, AgentInv', NEW all \in BOOLEAN, Shape(all), NEW p \in Procs,
           NEW r \in Nat, NEW k \in Nat, Trimmed(p, r, k), phase'[p] = phase[p],
           all /\ phase[p] = "exited" => r + 1 < nextSeq[p]
    PROVE  /\ FirstPending(p)' = FirstPending(p) + k
           /\ phase'[p] \in {"absent", "starting"} => nextSeq'[p] = 1 /\ unfinishedLine'[p] = {}
           /\ \A i \in DOMAIN pending'[p] :
                /\ pending'[p][i].kind = "spawned" =>
                      i = 1 /\ FirstPending(p)' = 1 /\ unfinishedLine'[p] = {}
                /\ pending'[p][i].kind = "exit" => phase'[p] = "exited"
                /\ all /\ phase'[p] = "exited" /\ pending'[p][i].kind # "exit" =>
                      i < Len(pending'[p])
           /\ all /\ phase'[p] = "exited" => pending'[p] # <<>>
<1>1. /\ pending[p] \in Seq(Event) /\ Len(pending[p]) \in Nat
      /\ pending'[p] \in Seq(Event) /\ Len(pending'[p]) \in Nat
      /\ nextSeq[p] \in Nat /\ Len(pending[p]) < nextSeq[p]
  <2>1. /\ pending[p] \in Seq(Event) /\ pending'[p] \in Seq(Event)
        /\ nextSeq[p] \in Nat /\ Len(pending[p]) < nextSeq[p]
    BY DEF AgentInv, AgentTypeOK
  <2>2. QED
    BY <2>1
<1>2. /\ k <= Len(pending[p]) /\ nextSeq'[p] = nextSeq[p]
      /\ unfinishedLine'[p] = unfinishedLine[p] /\ Len(pending'[p]) = Len(pending[p]) - k
      /\ k # 0 => FirstPending(p) + k <= r + 1
  BY <1>1 DEF Trimmed
<1>3. FirstPending(p) = nextSeq[p] - Len(pending[p]) /\ FirstPending(p) \in Nat \ {0}
  BY <1>1 DEF FirstPending
<1>4. FirstPending(p)' = FirstPending(p) + k
  <2>1. FirstPending(p)' = nextSeq'[p] - Len(pending'[p])
    BY DEF FirstPending
  <2>2. QED
    BY <1>1, <1>2, <1>3, <2>1
<1>5. phase'[p] \in {"absent", "starting"} => nextSeq'[p] = 1 /\ unfinishedLine'[p] = {}
  BY <1>2 DEF Shape
<1>6. ASSUME NEW i \in DOMAIN pending'[p]
      PROVE  /\ i \in Nat \ {0} /\ i + k \in DOMAIN pending[p]
             /\ pending'[p][i] = pending[p][i + k]
  BY <1>1 DEF Trimmed
<1>7. ASSUME NEW i \in DOMAIN pending'[p], pending'[p][i].kind = "spawned"
      PROVE  i = 1 /\ FirstPending(p)' = 1 /\ unfinishedLine'[p] = {}
  <2>1. i + k = 1 /\ FirstPending(p) = 1 /\ unfinishedLine[p] = {}
    BY <1>6, <1>7 DEF Shape
  <2>2. i = 1 /\ k = 0
    BY <1>6, <2>1
  <2>3. QED
    BY <1>2, <1>4, <2>1, <2>2
<1>8. ASSUME NEW i \in DOMAIN pending'[p], pending'[p][i].kind = "exit"
      PROVE  phase'[p] = "exited"
  BY <1>6, <1>8 DEF Shape
<1>9. ASSUME NEW i \in DOMAIN pending'[p], all, phase'[p] = "exited",
             pending'[p][i].kind # "exit"
      PROVE  i < Len(pending'[p])
  <2>1. i + k < Len(pending[p])
    BY <1>6, <1>9 DEF Shape
  <2>2. QED
    BY <1>1, <1>2, <1>6, <2>1
<1>10. ASSUME all, phase'[p] = "exited" PROVE pending'[p] # <<>>
  <2>1. Len(pending[p]) # 0
    <3>1. pending[p] # <<>>
      BY <1>10 DEF Shape
    <3>2. QED
      BY <1>1, <3>1
  <2>2. k # Len(pending[p])
    <3>1. ASSUME k = Len(pending[p]) PROVE FALSE
      <4>1. FirstPending(p) + k <= r + 1 /\ r + 1 < nextSeq[p]
        BY <1>2, <1>10, <2>1, <3>1
      <4>2. QED
        BY <1>1, <1>3, <3>1, <4>1
    <3>2. QED
      BY <3>1
  <2>3. Len(pending'[p]) # 0
    BY <1>1, <1>2, <2>2
  <2>4. Len(<<>>) = 0
    OBVIOUS
  <2>5. QED
    BY <2>3, <2>4, Zenon
<1>11. QED
  BY <1>4, <1>5, <1>7, <1>8, <1>9, <1>10

\* So does what a process hands to another coordinator.
LEMMA HandedShape ==
    ASSUME AgentInv, AgentInv', NEW all \in BOOLEAN, Shape(all), NEW p \in Procs,
           Handed(p), phase'[p] = phase[p]
    PROVE  /\ FirstPending(p)' = 1 /\ nextSeq'[p] \in Nat \ {0}
           /\ FirstPending(p) = 1 => nextSeq[p] <= nextSeq'[p]
           /\ phase'[p] \in {"absent", "starting"} => nextSeq'[p] = 1 /\ unfinishedLine'[p] = {}
           /\ \A i \in DOMAIN pending'[p] :
                /\ pending'[p][i].kind = "spawned" =>
                      i = 1 /\ FirstPending(p)' = 1 /\ unfinishedLine'[p] = {}
                /\ pending'[p][i].kind = "exit" => phase'[p] = "exited"
                /\ all /\ phase'[p] = "exited" /\ pending'[p][i].kind # "exit" =>
                      i < Len(pending'[p])
           /\ all /\ phase'[p] = "exited" => pending'[p] # <<>> /\ 1 < nextSeq'[p]
<1>1. /\ pending[p] \in Seq(Event) /\ Len(pending[p]) \in Nat
      /\ pending'[p] \in Seq(Event) /\ Len(pending'[p]) \in Nat
      /\ nextSeq[p] \in Nat /\ Len(pending[p]) < nextSeq[p]
  <2>1. /\ pending[p] \in Seq(Event) /\ pending'[p] \in Seq(Event)
        /\ nextSeq[p] \in Nat /\ Len(pending[p]) < nextSeq[p]
    BY DEF AgentInv, AgentTypeOK
  <2>2. QED
    BY <2>1
<1>2. nextSeq'[p] = Len(pending'[p]) + 1 /\ unfinishedLine'[p] = {}
  BY DEF Handed
<1>3. FirstPending(p)' = 1
  <2>1. FirstPending(p)' = nextSeq'[p] - Len(pending'[p])
    BY DEF FirstPending
  <2>2. QED
    BY <1>1, <1>2, <2>1
<1>4. Len(pending[p]) <= Len(pending'[p])
  BY <1>1 DEF Handed
<1>5. FirstPending(p) = 1 => nextSeq[p] <= nextSeq'[p]
  BY <1>1, <1>2, <1>4 DEF FirstPending
<1>6. ASSUME phase'[p] \in {"absent", "starting"} PROVE nextSeq'[p] = 1
  <2>1. nextSeq[p] = 1 /\ unfinishedLine[p] = {}
    BY <1>6 DEF Shape
  <2>2. pending'[p] = pending[p]
    BY <2>1 DEF Handed
  <2>3. QED
    BY <1>1, <1>2, <2>1, <2>2
<1>7. all /\ phase'[p] = "exited" => Len(pending[p]) # 0
  <2>1. all /\ phase'[p] = "exited" => pending[p] # <<>>
    BY DEF Shape
  <2>2. QED
    BY <1>1, <2>1
<1>8. ASSUME NEW i \in DOMAIN pending'[p]
      PROVE  /\ pending'[p][i].kind = "spawned" => i = 1
             /\ pending'[p][i].kind = "exit" => phase'[p] = "exited"
             /\ all /\ phase'[p] = "exited" /\ pending'[p][i].kind # "exit" =>
                   i < Len(pending'[p])
  <2>1. i \in Nat \ {0}
    BY <1>1
  <2>2. CASE unfinishedLine[p] = {} /\ pending'[p] = pending[p]
    BY <2>2 DEF Shape
  <2>3. ASSUME unfinishedLine[p] # {}, Len(pending'[p]) = Len(pending[p]) + 1,
               pending'[p][1].kind = "stdout", i # 1,
               i - 1 \in DOMAIN pending[p], pending'[p][i] = pending[p][i - 1]
        PROVE  /\ pending'[p][i].kind # "spawned"
               /\ pending'[p][i].kind = "exit" => phase'[p] = "exited"
               /\ all /\ phase'[p] = "exited" /\ pending'[p][i].kind # "exit" =>
                     i < Len(pending'[p])
    <3>1. pending'[p][i].kind # "spawned"
      BY <2>3 DEF Shape
    <3>2. pending'[p][i].kind = "exit" => phase'[p] = "exited"
      BY <2>3 DEF Shape
    <3>3. ASSUME all, phase'[p] = "exited", pending'[p][i].kind # "exit"
          PROVE  i < Len(pending'[p])
      <4>1. i - 1 < Len(pending[p])
        BY <2>3, <3>3 DEF Shape
      <4>2. QED
        BY <1>1, <2>1, <2>3, <4>1
    <3>4. QED
      BY <3>1, <3>2, <3>3
  <2>4. ASSUME i = 1, Len(pending'[p]) = Len(pending[p]) + 1, pending'[p][1].kind = "stdout"
        PROVE  /\ pending'[p][i].kind \notin {"spawned", "exit"}
               /\ all /\ phase'[p] = "exited" => i < Len(pending'[p])
    BY <1>1, <1>7, <2>4
  <2>5. QED
    BY <2>2, <2>3, <2>4 DEF Handed
<1>9. ASSUME all, phase'[p] = "exited" PROVE pending'[p] # <<>> /\ 1 < nextSeq'[p]
  <2>1. Len(pending'[p]) # 0
    BY <1>1, <1>4, <1>7, <1>9
  <2>2. Len(<<>>) = 0
    OBVIOUS
  <2>3. pending'[p] # <<>>
    BY <2>1, <2>2, Zenon
  <2>4. QED
    BY <1>1, <1>2, <2>1, <2>3
<1>10. QED
  BY <1>1, <1>2, <1>3, <1>5, <1>6, <1>8, <1>9

LEMMA WelcomeKeeps ==
    ASSUME TypeInv, TypeInv', CommandInv, CommandInv', NEW all \in BOOLEAN,
           OutputInv(all), UNCHANGED managerVars, ReceiveWelcome
    PROVE  OutputInv(all)'
<1> USE DEF OutputInv
<1>1. /\ WireTypeOK /\ ManagerTypeOK /\ AgentTypeOK /\ AgentInv
      /\ WireTypeOK' /\ ManagerTypeOK' /\ AgentTypeOK' /\ AgentInv'
  BY DEF TypeInv, AgentInv
<1>2. /\ UNCHANGED <<instanceId, online, hostInstanceId, unacked, remote, started>>
      /\ UNCHANGED <<lastEventSeq, used, adoptable, pendingAcks>>
      /\ Live' = Live /\ \A p : Counted(p, all)' = Counted(p, all)
  BY DEF managerVars, linkVars, queueVars, processVars, Live, Counted
<1>3. PICK w : w = toHost[1]
  OBVIOUS
<1>4. /\ 1 \in DOMAIN toHost /\ w.t = "welcome" /\ w \in Welcome
      /\ toHost # <<>> /\ toHost' = Tail(toHost)
      /\ UNCHANGED <<linkSocket, toCoord, agentId>>
      /\ coordinatorInstanceId' = w.coord
  BY <1>3, WelcomeTaken
<1>5. /\ w.coord = coordinatorInstanceId =>
            Resume(w) /\ appliedCommandSeq' = appliedCommandSeq
      /\ w.coord # coordinatorInstanceId => AdoptBy(w) /\ appliedCommandSeq' = 0
      /\ replaying' \subseteq Hosted \cap w.listed
  BY <1>3, WelcomeTaken
<1>6. w.listed \in SUBSET Procs /\ w.received \in [Procs -> Nat] /\ w.coord \in Nat
  BY <1>4 DEF Welcome
<1>7. /\ DOMAIN toHost' = 1..Len(toHost) - 1 /\ Len(toHost) \in Nat
      /\ DOMAIN toHost = 1..Len(toHost)
      /\ \A i \in DOMAIN toHost' :
            i \in Nat \ {0} /\ i + 1 \in DOMAIN toHost /\ toHost'[i] = toHost[i + 1]
  BY <1>1, <1>4, HostFrames
\* No other welcome, and no hello.
<1>8. \A i \in DOMAIN toHost' : toHost'[i].t # "welcome"
  <2>1. ASSUME NEW i \in DOMAIN toHost', toHost'[i].t = "welcome" PROVE FALSE
    <3>1. i + 1 \in DOMAIN toHost /\ toHost[i + 1].t = "welcome" /\ i + 1 # 1
      BY <1>7, <2>1
    <3>2. QED
      BY <1>3, <1>4, <3>1 DEF MeetInv, OneWelcome
  <2>2. QED
    BY <2>1
<1>9. /\ \A i \in DOMAIN toCoord : toCoord[i].t # "hello"
      /\ ~Greeted /\ ~Greeted'
  BY <1>3, <1>4 DEF MeetInv, HelloFirst, Greeted
<1>10. Marked(toHost[1]) /\ From(toHost[1]) = w.coord /\ w.coord \in 1..instanceId
  <2>1. Marked(toHost[1]) /\ From(toHost[1]) = w.coord
    BY <1>3, <1>4 DEF Marked, From
  <2>2. QED
    BY <1>4, <2>1 DEF CommandInv, DriverInv, Sources
\* It comes from the running coordinator, or from one that has restarted since.
<1>11. w.coord = instanceId => Known
  BY <1>4, <1>10 DEF CommandInv, Recognised, Known
<1>12. w.coord # instanceId => /\ hostInstanceId = 0 /\ ~Known /\ ~Near /\ Foreign
  <2>1. ASSUME w.coord # instanceId PROVE hostInstanceId = 0
    BY <1>4, <1>10, <2>1 DEF MeetInv, Fellow
  <2>2. agentId # 0
    BY <1>1 DEF AgentTypeOK
  <2>3. hostInstanceId = 0 => ~Known /\ ~Near /\ Foreign
    BY <1>9, <2>2 DEF Known, Near, Foreign, CommandInv, Recognised
  <2>4. QED
    BY <2>1, <2>3
<1>13. /\ Known' = Known /\ Near' = Near
       /\ Foreign' = (w.coord # instanceId) /\ Joined' = (w.coord = instanceId)
  <2>1. Known' = Known /\ Near' = Near
    BY <1>2, <1>4, <1>9 DEF Known, Near
  <2>2. Foreign' = (w.coord # instanceId)
    BY <1>2, <1>4 DEF Foreign
  <2>3. Joined' = (w.coord = instanceId)
    BY <1>2, <1>4, <1>11 DEF Joined, Known
  <2>4. QED
    BY <2>1, <2>2, <2>3
<1>14. Reached(instanceId)' = Reached(instanceId)
  <2>1. CASE w.coord = coordinatorInstanceId
    BY <1>2, <1>4, <1>5, <2>1 DEF Reached
  <2>2. CASE w.coord # coordinatorInstanceId
    <3>1. Foreign
      <4>1. CASE w.coord = instanceId
        BY <2>2, <4>1 DEF Foreign
      <4>2. QED
        BY <1>12, <4>1
    <3>2. QED
      BY <1>2, <1>4, <1>5, <3>1 DEF Reached, Foreign
  <2>3. QED
    BY <2>1, <2>2
\* What becomes of each process.
<1>15. ASSUME NEW p \in Procs, p \notin w.listed PROVE Ended(p)
  BY <1>1, <1>4, <1>5, <1>15, ResumeTrims, AdoptByHands
<1>16. ASSUME NEW p \in Procs, p \in w.listed PROVE phase'[p] = phase[p]
  BY <1>1, <1>4, <1>5, <1>16, ResumeTrims, AdoptByHands
<1>17. ASSUME NEW p \in Procs, p \in w.listed, w.coord = coordinatorInstanceId
       PROVE  \E k \in Nat : Trimmed(p, w.received[p], k)
  BY <1>1, <1>4, <1>5, <1>17, ResumeTrims
<1>18. ASSUME NEW p \in Procs, p \in w.listed, w.coord # coordinatorInstanceId
       PROVE  Handed(p)
  BY <1>1, <1>4, <1>5, <1>18, AdoptByHands
<1>19. \A p \in Procs : p \in Hosted' <=> p \in Hosted /\ p \in w.listed
  <2>1. ASSUME NEW p \in Procs PROVE p \in Hosted' <=> p \in Hosted /\ p \in w.listed
    <3>1. CASE p \in w.listed
      BY <1>16, <3>1 DEF Hosted
    <3>2. CASE p \notin w.listed
      BY <1>15, <3>2 DEF Hosted, Ended
    <3>3. QED
      BY <3>1, <3>2
  <2>2. QED
    BY <2>1
<1>20. Hosted' \subseteq Hosted /\ Hosted \subseteq Procs /\ Hosted' \subseteq Procs
  BY <1>19 DEF Hosted
\* What the welcome says.
<1>21. all /\ w.coord = coordinatorInstanceId =>
          \A p \in w.listed \cap Hosted :
             /\ w.received[p] < nextSeq[p]
             /\ phase[p] = "exited" => w.received[p] + 1 < nextSeq[p]
  BY <1>3, <1>4 DEF NumberInv, Welcomed
<1>22. w.coord = instanceId =>
          /\ \A p \in w.listed \cap Hosted : phase[p] # "exited" => p \in Live
          /\ \A p \in w.listed : Counted(p, all) => w.received[p] <= lastEventSeq[p]
          /\ all => \A p \in Live \ w.listed :
                p \notin Hosted /\ p \notin started /\ lastEventSeq[p] = 0
  BY <1>3, <1>4 DEF NumberInv, Welcomed
<1>23. MeetInv'
  <2>1. HelloFirst'
    BY <1>2, <1>4, <1>9 DEF MeetInv, HelloFirst
  <2>2. HelloLists'
    BY <1>4, <1>9 DEF HelloLists
  <2>3. Replaced'
    BY <1>2, <1>4, <1>10 DEF MeetInv, Replaced
  <2>4. Unmet'
    BY <1>2 DEF MeetInv, Unmet
  <2>5. Fellow'
    <3>1. ASSUME hostInstanceId # 0, NEW i \in DOMAIN toHost', Marked(toHost'[i])
          PROVE  From(toHost'[i]) = instanceId
      BY <1>7, <3>1 DEF MeetInv, Fellow
    <3>2. hostInstanceId # 0 => ~Foreign'
      BY <1>12, <1>13
    <3>3. QED
      BY <1>2, <3>1, <3>2 DEF Fellow
  <2>6. OneWelcome'
    BY <1>8 DEF OneWelcome
  <2>7. QED
    BY <2>1, <2>2, <2>3, <2>4, <2>5, <2>6 DEF MeetInv
<1>24. Shape(all)
  OBVIOUS
<1>25. ASSUME NEW p \in Procs, p \in w.listed, w.coord = coordinatorInstanceId,
              p \in Hosted
       PROVE  all /\ phase[p] = "exited" => w.received[p] + 1 < nextSeq[p]
  BY <1>21, <1>25
<1>26. Shape(all)'
  <2>1. ASSUME NEW p \in Procs
        PROVE  /\ phase'[p] \in {"absent", "starting"} =>
                     nextSeq'[p] = 1 /\ unfinishedLine'[p] = {}
               /\ \A i \in DOMAIN pending'[p] :
                    /\ pending'[p][i].kind = "spawned" =>
                          i = 1 /\ FirstPending(p)' = 1 /\ unfinishedLine'[p] = {}
                    /\ pending'[p][i].kind = "exit" => phase'[p] = "exited"
                    /\ all /\ phase'[p] = "exited" /\ pending'[p][i].kind # "exit" =>
                          i < Len(pending'[p])
               /\ all /\ phase'[p] = "exited" => pending'[p] # <<>>
    <3>1. CASE p \notin w.listed
      BY <1>15, <3>1 DEF Ended
    <3>2. CASE p \in w.listed /\ w.coord = coordinatorInstanceId
      <4>1. PICK k \in Nat : Trimmed(p, w.received[p], k)
        BY <1>17, <3>2
      <4>2. all /\ phase[p] = "exited" => w.received[p] + 1 < nextSeq[p]
        BY <1>25, <3>2 DEF Hosted
      <4>3. phase'[p] = phase[p] /\ w.received[p] \in Nat
        BY <1>6, <1>16, <3>2
      <4>4. QED
        BY <1>1, <1>24, <4>1, <4>2, <4>3, TrimmedShape
    <3>3. CASE p \in w.listed /\ w.coord # coordinatorInstanceId
      <4>1. Handed(p) /\ phase'[p] = phase[p]
        BY <1>16, <1>18, <3>3
      <4>2. QED
        BY <1>1, <1>24, <4>1, HandedShape
    <3>4. QED
      BY <3>1, <3>2, <3>3
  <2>2. QED
    BY <2>1 DEF Shape
<1>27. Parented'
  <2>1. w.coord # 0
    BY <1>10
  <2>2. replaying' \subseteq Hosted'
    BY <1>5, <1>6, <1>19
  <2>3. QED
    BY <1>4, <2>1, <2>2 DEF Parented
<1>28. SpawnInv(all)'
  <2>1. \A p : Reports(p)' = Reports(p)
    BY <1>4, ReportsStay
  <2>2. Unused'
    BY <1>2, <1>4, <1>7, <1>20, <2>1 DEF SpawnInv, Unused
  <2>3. LiveOnly'
    BY <1>2 DEF SpawnInv, LiveOnly
  <2>4. Foreign' => Foreign
    BY <1>12, <1>13
  <2>5. Separate'
    BY <1>2, <1>7, <1>20, <2>4 DEF SpawnInv, Separate
  <2>6. Unspawned(all)'
    BY <1>2, <1>13, <1>14, <1>20, <2>1 DEF SpawnInv, Unspawned
  <2>7. QED
    BY <2>2, <2>3, <2>5, <2>6 DEF SpawnInv
<1>29. Welcomed(all)'
  BY <1>8 DEF Welcomed
<1>30. Acked(all)'
  BY <1>2, <1>7 DEF NumberInv, Acked
<1>31. Numbered'
  <2>1. ASSUME NEW i \in DOMAIN toCoord, toCoord[i].t = "event" PROVE toCoord[i].proc \in Procs
    <3>1. toCoord[i] \in EventMsg
      BY <1>1, <2>1, CoordFrames, CoordinatorFrame
    <3>2. QED
      BY <3>1 DEF EventMsg
  <2>2. ASSUME NEW p \in Procs, phase[p] \in {"absent", "exited"}
        PROVE  phase'[p] \in {"absent", "exited"}
    BY <1>15, <1>16, <2>2 DEF Ended
  <2>3. QED
    BY <1>4, <1>13, <2>1, <2>2 DEF NumberInv, Numbered
<1>32. BeforeAdoption(all)' /\ ReadEarly(all)'
  <2>1. ~(Foreign' /\ Near') /\ ~(Foreign' /\ Known')
    BY <1>12, <1>13
  <2>2. QED
    BY <2>1 DEF BeforeAdoption, ReadEarly
<1>33. \A p : Reports(p)' = Reports(p) /\ \A i : Dead(p, i)' = Dead(p, i)
  BY <1>2, <1>4, ReportsStay
<1>34. InStep(all)'
  <2>1. ASSUME w.coord = instanceId, NEW p \in Hosted', Counted(p, all)
        PROVE  /\ FirstPending(p)' <= lastEventSeq[p] + 1 /\ lastEventSeq[p] < nextSeq'[p]
               /\ \A i \in Reports(p) : Dead(p, i) \/ Given(p, i, all)'
    <3>1. /\ p \in Procs /\ p \in Hosted /\ p \in w.listed /\ phase'[p] = phase[p]
          /\ lastEventSeq[p] \in Nat /\ w.received[p] \in Nat
      BY <1>1, <1>6, <1>16, <1>19, <1>20 DEF ManagerTypeOK
    <3>2. w.received[p] <= lastEventSeq[p]
      BY <1>22, <2>1, <3>1
    <3>3. CASE w.coord = coordinatorInstanceId
      <4>1. PICK k \in Nat : Trimmed(p, w.received[p], k)
        BY <1>17, <3>1, <3>3
      <4>2. Joined
        BY <1>11, <2>1, <3>3 DEF Joined, Known
      <4>3. /\ FirstPending(p) <= lastEventSeq[p] + 1 /\ lastEventSeq[p] < nextSeq[p]
            /\ \A i \in Reports(p) : Dead(p, i) \/ Given(p, i, all)
        BY <2>1, <3>1, <4>2 DEF NumberInv, InStep
      <4>4. FirstPending(p)' = FirstPending(p) + k
        BY <1>1, <1>24, <1>25, <3>1, <3>3, <4>1, TrimmedShape
      <4>5. /\ nextSeq'[p] = nextSeq[p] /\ (k # 0 => FirstPending(p) + k <= w.received[p] + 1)
        BY <4>1 DEF Trimmed
      <4>6. \A i : Given(p, i, all)' = Given(p, i, all)
        BY <1>4, <3>1, <4>5 DEF Given
      <4>7. FirstPending(p) \in Int
        BY <1>1, <3>1 DEF FirstPending, AgentTypeOK
      <4>8. FirstPending(p)' <= lastEventSeq[p] + 1
        <5>1. CASE k = 0
          BY <4>3, <4>4, <4>7, <5>1
        <5>2. CASE k # 0
          BY <3>1, <3>2, <4>4, <4>5, <4>7, <5>2
        <5>3. QED
          BY <5>1, <5>2
      <4>9. QED
        BY <4>3, <4>5, <4>6, <4>8
    <3>4. CASE w.coord # coordinatorInstanceId
      <4>1. Foreign /\ Known /\ Near
        BY <1>11, <2>1, <3>4 DEF Foreign, Near
      <4>2. Handed(p)
        BY <1>18, <3>1, <3>4
      <4>3. /\ FirstPending(p)' = 1 /\ nextSeq'[p] \in Nat \ {0}
            /\ FirstPending(p) = 1 => nextSeq[p] <= nextSeq'[p]
            /\ nextSeq[p] \in Nat
        BY <1>1, <1>24, <3>1, <4>2, HandedShape DEF AgentTypeOK
      <4>4. lastEventSeq[p] # 0 => FirstPending(p) = 1 /\ lastEventSeq[p] < nextSeq[p]
        BY <2>1, <3>1, <4>1 DEF NumberInv, ReadEarly
      <4>5. FirstPending(p)' <= lastEventSeq[p] + 1 /\ lastEventSeq[p] < nextSeq'[p]
        BY <3>1, <4>3, <4>4
      <4>6. ASSUME NEW i \in Reports(p) PROVE Dead(p, i) \/ Given(p, i, all)'
        <5>1. \A j \in Reports(p) : /\ FirstPending(p) <= toCoord[j].seq
                                    /\ Given(p, j, all)
          BY <3>1, <4>1 DEF NumberInv, BeforeAdoption
        <5>2. \A j \in Reports(p) : toCoord[j].seq \in Nat
          <6>1. ASSUME NEW j \in Reports(p) PROVE toCoord[j].seq \in Nat
            <7>1. j \in DOMAIN toCoord /\ toCoord[j].t = "event"
              BY DEF Reports
            <7>2. toCoord[j] \in EventMsg
              BY <1>1, <7>1, CoordFrames, CoordinatorFrame
            <7>3. QED
              BY <7>2 DEF EventMsg
          <6>2. QED
            BY <6>1
        <5>3. CASE FirstPending(p) = 1
          BY <1>4, <3>1, <4>3, <5>1, <5>2, <5>3 DEF Given
        <5>4. CASE FirstPending(p) # 1
          <6>1. lastEventSeq[p] = 0
            BY <4>4, <5>4
          <6>2. FirstPending(p) \in Nat \ {0}
            <7>1. /\ Len(pending[p]) \in Nat /\ nextSeq[p] \in Nat
                  /\ Len(pending[p]) < nextSeq[p]
              BY <1>1, <3>1 DEF AgentInv, AgentTypeOK
            <7>2. QED
              BY <7>1 DEF FirstPending
          <6>3. \A j \in Reports(p) : toCoord[j].seq # 1
            BY <5>1, <5>2, <5>4, <6>2
          <6>4. QED
            BY <6>1, <6>3 DEF Dead
        <5>5. QED
          BY <5>3, <5>4
      <4>7. QED
        BY <4>5, <4>6
    <3>5. QED
      BY <3>3, <3>4
  <2>2. QED
    BY <1>2, <1>13, <1>33, <2>1 DEF InStep
<1>35. Attended'
  <2>1. ASSUME w.coord = instanceId, NEW p \in Hosted', phase'[p] # "exited"
        PROVE  p \in Live
    <3>1. p \in w.listed \cap Hosted /\ phase'[p] = phase[p]
      BY <1>16, <1>19, <1>20
    <3>2. QED
      BY <1>22, <2>1, <3>1
  <2>2. QED
    BY <1>2, <1>13, <2>1 DEF Attended
<1>36. ASSUME all PROVE Present'
  <2>1. ASSUME Known PROVE w.coord = instanceId
    BY <1>12, <2>1
  <2>2. ASSUME Known, NEW p \in Live \cap Hosted PROVE p \in Hosted'
    <3>1. p \in w.listed
      BY <1>22, <1>36, <2>1, <2>2
    <3>2. QED
      BY <1>19, <1>20, <2>2, <3>1
  <2>3. ASSUME Known PROVE started \subseteq Hosted'
    <3>1. started \subseteq Live /\ started \subseteq Hosted
      BY <1>36, <2>3 DEF NumberInv, Present, SpawnInv, LiveOnly
    <3>2. QED
      BY <2>2, <2>3, <3>1
  <2>4. ASSUME Known, NEW p \in Live \ Hosted' PROVE Reports(p) = {}
    BY <1>36, <2>2, <2>4 DEF NumberInv, Present
  <2>5. ASSUME Known, NEW p \in Live \cap Hosted', phase'[p] = "exited"
        PROVE  lastEventSeq[p] + 1 < nextSeq'[p]
    <3>1. /\ p \in Procs /\ p \in Hosted /\ p \in w.listed /\ phase'[p] = phase[p]
          /\ lastEventSeq[p] \in Nat
      BY <1>1, <1>16, <1>19, <1>20, <2>5 DEF ManagerTypeOK
    <3>2. lastEventSeq[p] + 1 < nextSeq[p]
      BY <1>36, <2>5, <3>1 DEF NumberInv, Present
    <3>3. CASE w.coord = coordinatorInstanceId
      <4>1. nextSeq'[p] = nextSeq[p]
        BY <1>17, <3>1, <3>3 DEF Trimmed
      <4>2. QED
        BY <3>2, <4>1
    <3>4. CASE w.coord # coordinatorInstanceId
      <4>1. Foreign
        BY <2>1, <2>5, <3>4 DEF Foreign
      <4>2. Handed(p)
        BY <1>18, <3>1, <3>4
      <4>3. /\ nextSeq'[p] \in Nat /\ 1 < nextSeq'[p]
            /\ FirstPending(p) = 1 => nextSeq[p] <= nextSeq'[p]
            /\ nextSeq[p] \in Nat
        BY <1>1, <1>24, <1>36, <2>5, <3>1, <4>2, HandedShape DEF AgentTypeOK
      <4>4. Counted(p, all)
        BY <1>36, <2>5 DEF Counted
      <4>5. lastEventSeq[p] # 0 => FirstPending(p) = 1
        BY <2>5, <3>1, <4>1, <4>4 DEF NumberInv, ReadEarly
      <4>6. QED
        BY <3>1, <3>2, <4>3, <4>5
    <3>5. QED
      BY <3>3, <3>4
  <2>6. QED
    BY <1>2, <1>13, <1>33, <2>3, <2>4, <2>5 DEF Present
<1>37. QED
  BY <1>23, <1>26, <1>27, <1>28, <1>29, <1>30, <1>31, <1>32, <1>34, <1>35, <1>36 DEF NumberInv

-----------------------------------------------------------------------------
(***************************************************************************)
(* The invariant.                                                          *)
(***************************************************************************)
LEMMA InitOutput ==
    ASSUME NEW all \in BOOLEAN
    PROVE  Init => OutputInv(all)
<1> SUFFICES ASSUME Init PROVE OutputInv(all)
  OBVIOUS
<1> USE DEF Init, WireInit, ManagerInit, AgentInit
<1>1. Hosted = {} /\ Live = {} /\ toHost = <<>> /\ toCoord = <<>>
  BY DEF Hosted, Live
<1>2. DOMAIN toHost = {} /\ DOMAIN toCoord = {} /\ DOMAIN unacked = {}
  OBVIOUS
<1>3. \A p : Reports(p) = {}
  BY <1>2 DEF Reports
<1>4. Shape(all) /\ Parented
  BY <1>1 DEF Shape, Parented
<1>5. MeetInv
  BY <1>1, <1>2 DEF MeetInv, HelloFirst, HelloLists, Replaced, Unmet, Fellow, OneWelcome
<1>6. SpawnInv(all)
  BY <1>1, <1>2, <1>3 DEF SpawnInv, Unused, LiveOnly, Separate, Unspawned
<1>7. NumberInv(all)
  BY <1>1, <1>2, <1>3
     DEF NumberInv, Welcomed, Acked, Numbered, BeforeAdoption, ReadEarly, InStep, Attended,
         Present
<1>8. QED
  BY <1>4, <1>5, <1>6, <1>7 DEF OutputInv

LEMMA NextKeepsOutput ==
    ASSUME Punctual, NEW all \in BOOLEAN
    PROVE  TypeInv /\ CommandInv /\ OutputInv(all) /\ [Next]_vars
             /\ (all => [EndsRead]_vars) => OutputInv(all)'
<1> SUFFICES ASSUME TypeInv, CommandInv, OutputInv(all), [Next]_vars, all => [EndsRead]_vars
             PROVE  OutputInv(all)'
  OBVIOUS
<1>1. TypeInv' /\ CommandInv' /\ Ends /\ HelloFirst
  BY NextTyped, NextKeepsCommands DEF CommandInv, DriverInv, OutputInv, MeetInv
<1>2. CASE LinkBreaks \/ LinkNoticed \/ SocketBreaks \/ SocketNoticed \/ UNCHANGED vars
  <2>1. Quiet
    BY <1>1, <1>2, SocketsQuiet
  <2>2. QED
    BY <1>1, <2>1, QuietKeeps
<1>3. CASE Updates \/ TimesOut
  <2>1. Quiet
    BY <1>1, <1>3, UpdatesQuiet
  <2>2. QED
    BY <1>1, <2>1, QuietKeeps
<1>4. CASE Connect \/ NodeReleased
  BY <1>1, <1>4, ConnectKeeps, ReleaseKeeps
<1>5. CASE Sessions
  <2>1. UNCHANGED agentVars
    BY <1>5 DEF Sessions
  <2>2. CASE WriteFileInOrder \/ \E p \in Procs : Control(p)
    <3>1. Quiet
      BY <1>1, <2>1, <2>2, QueueingQuiet
    <3>2. QED
      BY <1>1, <3>1, QuietKeeps
  <2>3. CASE \E p \in Procs : StartProcess(p) \/ Adopt(p)
    BY <1>1, <2>1, <2>3, StartKeeps, AdoptKeeps
  <2>4. QED
    BY <1>5, <2>2, <2>3 DEF Sessions
<1>6. CASE ManagerDelivers
  <2>1. UNCHANGED agentVars
    BY <1>6 DEF ManagerDelivers
  <2>2. CASE ReceiveCommandAck \/ ReceiveUpdateFailed
    <3>1. Quiet
      BY <1>1, <2>1, <2>2, DeliversQuiet
    <3>2. QED
      BY <1>1, <3>1, QuietKeeps
  <2>3. CASE ReceiveHello
    <3>1. toCoord' # toCoord
      <4>1. toCoord # <<>> /\ toCoord' = Tail(toCoord)
        BY <2>3 DEF ReceiveHello, ManagerReceives, ManagerConsumes
      <4>2. toCoord \in Seq(HostToCoordinator)
        BY DEF TypeInv, WireTypeOK
      <4>3. Len(toCoord') = Len(toCoord) - 1 /\ Len(toCoord) \in Nat
        BY <4>1, <4>2
      <4>4. QED
        BY <4>3
    <3>2. all => EndsRead
      BY <3>1 DEF vars, wireVars
    <3>3. QED
      BY <1>1, <2>1, <2>3, <3>2, HelloKeeps
  <2>4. CASE ReceiveEvent
    BY <1>1, <2>1, <2>4, EventKeeps
  <2>5. QED
    BY <1>6, <2>2, <2>3, <2>4 DEF ManagerDelivers
<1>7. CASE Flush
  BY <1>1, <1>7, FlushKeeps DEF Flush
<1>8. CASE AgentDelivers
  <2>1. UNCHANGED managerVars
    BY <1>8 DEF AgentDelivers
  <2>2. CASE RefuseWelcome
    <3>1. Quiet
      BY <1>1, <2>1, <2>2, SocketsQuiet
    <3>2. QED
      BY <1>1, <3>1, QuietKeeps
  <2>3. CASE \/ ReceiveOldCommand \/ ReceiveUpdate
             \/ ReceiveCommand /\ Head(toHost).cmd.kind # "spawn"
    <3>1. Quiet
      BY <1>1, <2>1, <2>3, AgentDeliversQuiet
    <3>2. QED
      BY <1>1, <3>1, QuietKeeps
  <2>4. CASE ReceiveCommand /\ Head(toHost).cmd.kind = "spawn"
    BY <1>1, <2>1, <2>4, SpawnsKeep
  <2>5. CASE ReceiveWelcome
    BY <1>1, <2>1, <2>5, WelcomeKeeps
  <2>6. CASE ReceiveEventAck
    BY <1>1, <2>1, <2>6, AckKeeps
  <2>7. QED
    BY <1>8, <2>2, <2>3, <2>4, <2>5, <2>6 DEF AgentDelivers
<1>9. CASE Replays
  BY <1>1, <1>9, ReplayKeeps DEF Replays
<1>10. CASE HostRuns
  <2>1. UNCHANGED managerVars
    BY <1>10 DEF HostRuns
  <2>2. CASE UpdateFails
    <3>1. Quiet
      BY <1>1, <2>1, <2>2, AgentDeliversQuiet
    <3>2. QED
      BY <1>1, <3>1, QuietKeeps
  <2>3. CASE \E p \in Procs : \/ ProcessSpawned(p) \/ ProcessFails(p)
                              \/ ProcessOutput(p) \/ ProcessExit(p)
    BY <1>1, <2>1, <2>3, HostRunsKeeps
  <2>4. QED
    BY <1>10, <2>2, <2>3 DEF HostRuns
<1>11. CASE Restarts
  BY <1>1, <1>11, CoordinatorRestartKeeps, NodeRestartKeeps DEF Restarts
<1>12. QED
  BY <1>2, <1>3, <1>4, <1>5, <1>6, <1>7, <1>8, <1>9, <1>10, <1>11 DEF Next

(***************************************************************************)
(* KeptUntilReceived for every number of processes, units, node and        *)
(* coordinator instances: acknowledgements, welcomes and renumbering never *)
(* make a node drop an event of a started process that the coordinator it  *)
(* joined has not read (handleEvent, handleWelcome, adoptBy).              *)
(***************************************************************************)
THEOREM NothingDroppedUnread ==
    ASSUME Punctual
    PROVE  Spec => []KeptUntilReceived
<1> DEFINE Inv == TypeInv /\ CommandInv /\ OutputInv(FALSE)
<1>1. Init => Inv
  BY InitTyped, InitCommands, InitOutput
<1>2. Inv /\ [Next]_vars => Inv'
  <2> SUFFICES ASSUME Inv, [Next]_vars PROVE Inv'
    OBVIOUS
  <2>1. TypeInv' /\ CommandInv'
    BY NextTyped, NextKeepsCommands
  <2>2. OutputInv(FALSE)'
    BY NextKeepsOutput
  <2>3. QED
    BY <2>1, <2>2
<1>3. Inv => KeptUntilReceived
  BY DEF OutputInv, NumberInv, InStep, Counted, KeptUntilReceived
<1> HIDE DEF Inv
<1>4. QED
  BY <1>1, <1>2, <1>3, PTL DEF Spec

(***************************************************************************)
(* ListsAgree for every value of the constants, as long as a coordinator   *)
(* that meets another node instance has read no event of a process that    *)
(* never started: handleHello keeps its lastEventSeq (README.md, 3), and   *)
(* without that assumption ListsAgree fails.                               *)
(***************************************************************************)
THEOREM ProcessesAgree ==
    ASSUME Punctual
    PROVE  Spec /\ [][EndsRead]_vars => []ListsAgree
<1> DEFINE Inv == TypeInv /\ CommandInv /\ OutputInv(TRUE)
<1>1. Init => Inv
  BY InitTyped, InitCommands, InitOutput
<1>2. Inv /\ [Next]_vars /\ [EndsRead]_vars => Inv'
  <2> SUFFICES ASSUME Inv, [Next]_vars, [EndsRead]_vars PROVE Inv'
    OBVIOUS
  <2>1. TypeInv' /\ CommandInv'
    BY NextTyped, NextKeepsCommands
  <2>2. OutputInv(TRUE)'
    BY NextKeepsOutput
  <2>3. QED
    BY <2>1, <2>2
<1>3. Inv => ListsAgree
  BY DEF OutputInv, NumberInv, Attended, Present, Joined, Known, ListsAgree
<1> HIDE DEF Inv
<1>4. QED
  BY <1>1, <1>2, <1>3, PTL DEF Spec
=============================================================================
