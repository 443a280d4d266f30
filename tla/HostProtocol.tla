---------------------------- MODULE HostProtocol ----------------------------
(***************************************************************************)
(* The wire between one coordinator and the `takode node` of one host      *)
(* (src/web/shared/host-protocol.ts): the messages of both directions and  *)
(* the WebSocket that carries them.                                        *)
(*                                                                         *)
(* The host dials.  Each end holds at most one socket (`link.socket`,      *)
(* `this.socket`) and ignores frames of every other one, so two queues,    *)
(* one per direction, hold all frames that can still matter: those on the  *)
(* socket their receiver holds.  A socket delivers in order; when it dies  *)
(* the frames its receiver has not read are lost.  Each end finds out on   *)
(* its own, so one may hold a dead socket while the other has moved on.    *)
(***************************************************************************)
EXTENDS Naturals, Sequences, FiniteSets, Subsequences

CONSTANTS
    Procs,        \* process ids (UUIDs, never reused)
    Epoch,        \* Epoch[k]: start counter of the k-th coordinator instance
    MaxCoords,    \* bound: coordinator instances in a behaviour
    MaxHosts,     \* bound: host (`takode node`) instances in a behaviour
    MaxCommands,  \* bound: commands ever enqueued
    MaxUnits,     \* bound: stdout units a process writes
    MaxChunk,     \* bound: stdout units in one chunk
    MaxBreaks,    \* bound: sockets that die while both ends hold them
    MaxUpdates,   \* bound: node updates asked for
    EarlyReplaces \* a node that has not taken this coordinator may dial while
                  \* the coordinator still holds, online, a socket before it

ASSUME BoundsAssumption ==
    /\ MaxCoords \in Nat \ {0} /\ MaxHosts \in Nat /\ MaxCommands \in Nat
    /\ MaxUnits \in Nat /\ MaxChunk \in Nat /\ MaxBreaks \in Nat
    /\ MaxUpdates \in Nat
ASSUME EpochAssumption == \A k \in 1..MaxCoords : Epoch[k] \in Nat
ASSUME ReplaceAssumption == EarlyReplaces \in BOOLEAN

-----------------------------------------------------------------------------
(***************************************************************************)
(* Commands.  The protocol tells apart the spawn of a process (spawn and   *)
(* spawn_terminal), what goes to a process's control (stdin, stdin_end,    *)
(* resize, kill: "control"), and write_file, which names no process.       *)
(* `id` counts the commands ever enqueued and tells equal ones apart,      *)
(* `coord` is the coordinator instance that enqueued it.                   *)
(***************************************************************************)
NoProc == "no process"
ASSUME NoProcAssumption == NoProc \notin Procs

Command ==
    [id : Nat, coord : Nat, kind : {"spawn", "control"}, proc : Procs]
        \cup [id : Nat, coord : Nat, kind : {"write_file"}, proc : {NoProc}]

QueuedCommand == [seq : Nat, cmd : Command]

(***************************************************************************)
(* Process output.  Stdout is a run of units numbered from 1; a unit may   *)
(* end a line.  A stdout event carries a set of units, read in the order   *)
(* of their numbers.  Stderr, which has no line bookkeeping, is left out.  *)
(***************************************************************************)
Unit == [n : Nat, eol : BOOLEAN]
Event == [kind : {"spawned", "stdout", "error", "exit"}, units : SUBSET Unit]

Plain(kind) == [kind |-> kind, units |-> {}]
Stdout(us) == [kind |-> "stdout", units |-> us]

Hello ==
    [t : {"hello"}, inst : Nat, applied : Nat, from : Nat, procs : SUBSET Procs]
EventMsg == [t : {"event"}, proc : Procs, seq : Nat, event : Event]
CommandAck == [t : {"command_ack"}, seq : Nat]
UpdateFailed == [t : {"update_failed"}]
HostToCoordinator == Hello \cup EventMsg \cup CommandAck \cup UpdateFailed

\* `received` has a meaning for the processes in `listed` only.
Welcome ==
    [t : {"welcome"}, coord : Nat, epoch : Nat, listed : SUBSET Procs,
     received : [Procs -> Nat]]
CommandMsg == [t : {"command"}, seq : Nat, cmd : Command]
EventAck == [t : {"event_ack"}, proc : Procs, seq : Nat]
Update == [t : {"update"}]
CoordinatorToHost == Welcome \cup CommandMsg \cup EventAck \cup Update

CommandMessages(queued) ==
    [i \in DOMAIN queued |->
        [t |-> "command", seq |-> queued[i].seq, cmd |-> queued[i].cmd]]

-----------------------------------------------------------------------------
VARIABLES
    linkSocket,   \* the coordinator's `link.socket` is set
    agentSocket,  \* the host's `this.socket` is set and open
    paired,       \* both ends hold the same, living socket
    toHost,       \* frames the host can still read
    toCoord,      \* frames the coordinator can still read
    breaks        \* sockets that died so far

wireVars == <<linkSocket, agentSocket, paired, toHost, toCoord, breaks>>

WireTypeOK ==
    /\ linkSocket \in BOOLEAN /\ agentSocket \in BOOLEAN /\ paired \in BOOLEAN
    /\ toHost \in Seq(CoordinatorToHost)
    /\ toCoord \in Seq(HostToCoordinator)
    /\ breaks \in Nat

WireInit ==
    /\ linkSocket = FALSE /\ agentSocket = FALSE /\ paired = FALSE
    /\ toHost = <<>> /\ toCoord = <<>> /\ breaks = 0

\* What a send leaves in the queue: nothing unless the other end still reads.
CoordinatorSends(msgs) ==
    toHost' = IF linkSocket /\ paired THEN toHost \o msgs ELSE toHost
HostSends(msgs) ==
    toCoord' = IF agentSocket /\ paired THEN toCoord \o msgs ELSE toCoord

\* The socket the two ends share dies: the first end to see it pays a break.
Breaks ==
    IF paired THEN breaks < MaxBreaks /\ breaks' = breaks + 1
              ELSE UNCHANGED breaks

\* The coordinator, or the host, lets go of its socket.
CoordinatorLetsGo ==
    /\ linkSocket' = FALSE /\ paired' = FALSE /\ toCoord' = <<>>
    /\ UNCHANGED <<agentSocket, toHost>>
HostLetsGo ==
    /\ agentSocket' = FALSE /\ paired' = FALSE /\ toHost' = <<>>
    /\ UNCHANGED <<linkSocket, toCoord>>
=============================================================================
