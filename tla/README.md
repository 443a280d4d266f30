# Takode: TLA+ specifications

Takode is a coordinator server that runs AI coding sessions (Claude Code,
Codex) in processes, on its own machine or on remote hosts that run
`takode node`. This directory holds models of its core protocols, TLC
configurations that check them on small instances, and proofs of what holds
for every value of the constants.

## 1. Inventory

| Component (under `src/web/server` unless said) | State | Operations | Interacts with | What is hard | What makes it correct |
|---|---|---|---|---|---|
| **Host link, coordinator end** `remote-host/host-link-manager.ts` | per host: socket, `online`, `hostInstanceId`, `unacked`, `nextCommandSeq`, processes with `started` and `lastEventSeq`, acknowledgements of the next flush, stage of an update | enqueue, spawn, adopt, release, attach, detach, every frame of the host, `maybeUpdate`, `tick` | host end (messages); launcher and adapters (calls, callbacks); local node (release) | sockets that die unseen, resends, renumbering, restarts of either end, an update racing its own failure | commands applied in order once, no gap in the numbering, processes of both ends agree, held commands released |
| **Host link, host end** `remote-host/host-agent.ts` | socket, `instanceId`, `coordinatorInstanceId`, `highestEpoch`, `appliedCommandSeq`, per process `nextSeq`, `pending`, `unfinishedLine` | dial, welcome, commands, acknowledgements, events of children, update | coordinator end; child processes | replay after a reconnect, a new coordinator numbering from 1, two coordinators at once | output read in order exactly once, from the start of a line; an old coordinator drives nothing |
| **Wire protocol** `src/web/shared/host-protocol.ts` | none | message types | both ends | | |
| **Coordinator lock** `coordinator-lock.ts` | lock file with an epoch | take, check, fence | host link (epoch of the welcome) | two servers starting; a server handed back | one server per identity; epochs grow |
| **Local node** `remote-host/local-node.ts` | the node the coordinator started | reconcile | host link (release) | a node that ended while the server was away | the link gives up only on a dead node |
| **Resource leases** `resource-lease-manager.ts`, `-store.ts` | pools: capacity, leases per slot, waiters; a JSON file | acquire, wait, renew, release, withdraw, configure, sweep | landing queue, CLI, sessions (notifications) | expiry between operations, promotion, failed writes | FIFO, no idle slot, one reservation per session, an answered lease survives a restart |
| **Landing queue** `landing-queue-manager.ts`, stores | per target: entries, runs, runners, trouble, gate | submit, claim, heartbeat, plan, finish, reconcile, withdraw | leases, runner processes, leaders | a runner that dies after its push, failed starts, restarts | one runner per target; every entry ends landed, bounced or withdrawn |
| **Herd events** `herd-event-dispatcher.ts` | per leader: inbox, in-flight window, retry | worker event, delivery, turn completion, disconnect | bridge, launcher | confirmation by the right turn, disconnect in flight | every event reaches its leader; none confirmed unread |
| **Message delivery** `message-delivery-tracker.ts` | watched messages | track, tick, status | bridge | a delivery after a reported failure | the final answer is true |
| **Pause, relaunch, idle** `session-pause.ts`, `relaunch-queue.ts`, `idle-manager.ts` | pause queue; per session running, trailing | pause, unpause, request, sweep | bridge, launcher | coalescing | no lost request |
| **Timers, scheduled jobs** `timer-manager.ts`, `cron-scheduler.ts` | timers per session and file; jobs | create, cancel, sweep | bridge | a sweep across awaits | a due timer fires once |
| **History journal, session store** `session-history-journal.ts`, `session-store.ts` | append-only file and committed head; pending saves | append, commit, read, save | bridge | torn tail after a crash; saves overtaking each other | what was committed is read back |
| **Synced projections** `synced-projection-runtime.ts` | revision and value per key, subscribers | invalidate, flush, resync, subscribe | browser transport | reconnect between invalidation and flush, lists that come late | subscribers converge to the last value |
| **Shutdown, admission, continuation** `server-shutdown.ts`, `server-work-admission.ts`, `restart-continuation-store.ts` | stopping, accepted work, plan file | request, settle, drain | everything | work accepted while stopping | accepted work is finished or continued |
| **Codex turns and pending inputs** `bridge/codex-*.ts` | turn queue, pending inputs | enqueue, ack, complete, recover | Codex adapter | steering against turn end | one input, one turn |
| **Turn lifecycle** `bridge/generation-lifecycle.ts` | generating, queued turns, timers | dispatch, result, interrupt | bridge | results out of order | a session does not stay "running" |
| Permission pipeline, browser transport, quests, boards, document stores, reminders, launcher, adapters, containers, front end, VS Code extension, CLIs | | | | | see PROJECT.json for why they are left out |

## 2. Plan

Order: the link first, since every remote session depends on it and its
failures are the least testable; then the components whose correctness is
also one of order and restart.

1. `HostProtocol`, `HostLinkManager`, `HostAgent`, composed by `HostLink`;
   abstract `ReliableLink`; `MCHostLink`; `HostLinkProofs`, `HostOutputProofs`.
   **Done.**
2. `ResourceLeases` (one pool with its file), `MCResourceLeases`,
   `ResourceLeasesProofs`. **Done.**
3. `LandingPromise`, `LandingQueue` (one branch, its manager, its runners and
   the port lease they hold), `MCLandingQueue`, `LandingQueueProofs`. **Done.**
4. `SessionHistory` (the store of one session, both formats and the journal),
   `MCSessionHistory`, `SessionHistoryProofs`. **Done.**
5. `Timers` (the timers of one session and their file), `MCTimers`,
   `TimersProofs`. **Done.**
6. `ProjectionRuntime` (the server's cache and subscriptions), `ProjectionCache`
   (the browser), composed by `SyncedProjections`; abstract `ProjectionMirror`;
   `MCSyncedProjections`, `SyncedProjectionsProofs`. **Done.**
7. Then herd events and their window, pause and relaunch.

Theorems planned next: `ExactlyOnce` of the link's output under the assumption
of `ProcessesAgree`, then that `HostLink` implements `ReliableLink`; then
`SavedStays` of section 6.

## 3. The host link

### Modules

- `HostProtocol`: the messages and one socket. Each end holds at most one
  socket and ignores frames of any other (`agent.socket !== socket`,
  `link.socket !== socket`), so one queue per direction holds every frame that
  can still be read. `paired` says that both ends hold the same living socket;
  each end finds out on its own that it died.
- `HostLinkManager`: the coordinator's end. `HostAgent`: the node's end.
- `HostLink`: both over one wire, `Next`, fairness and the properties.
- `ReliableLink`: what the header of `host-protocol.ts` promises, without
  sockets and numbers. `HostLink` implements it (run `link_output`).
- `MCHostLink`: epochs for TLC.
- `HostLinkProofs`: theorems about types, the queue and the commands a node
  applies. `HostOutputProofs`: theorems about output and the process lists.
- `Subsequences`, `SubsequencesProofs`: what `filter` keeps of a queue, shared
  with the leases.

State carries the names of the code. Differences:

- Node and coordinator instances (UUIDs) are 1, 2, ...; 0 is null.
- `updateRequested`, `updateSent`, `updateError` are one `update` stage.
- A command carries the number `id` it was enqueued as and the coordinator
  that enqueued it, to tell equal commands apart; `ran`, `seen`, `used`,
  `commandCount`, `updateCount`, `breaks` and `written` are history.
- Stdout is a run of numbered units, each of which may end a line; an event
  carries a set of them.
- Stdin, end of stdin, resize and kill are one "control" command: nothing in
  the link tells them apart.

### Actions

Each handler is one action with everything it does. `ReceiveHello` is
`handleHello` with the processes it ends, the renumbering, the welcome and the
resend (or the repeated update). `ReceiveWelcome` is `handleWelcome` and
`adoptBy`; its replay of each process is `Replay`, during which nothing else of
the node runs, so the coordinator's reads interleave with a replay but the node
does not. `FlushAck` sends one process's acknowledgement: `flushAcks` sends all
in one turn of the event loop and nothing in it depends on the others.
`Connect` is `connect`, the server's `attach` and the socket's `onopen`:
nothing the coordinator sends between them is read before the node opened. A
spawn that starts a terminal reports at once, a child later, a failed start an
error and an exit.

`EarlyReplaces` names one environment question: may a node whose current
coordinator is another one dial while this coordinator still has the link
online? It happens when a node restarts, or comes back from another
coordinator, before the coordinator saw its old socket close. The passing runs
take FALSE; what TRUE leads to is below.

`Release` is called by `local-node.ts` for a node that ended; `NodeReleased`
takes that as its guard. A node that came back under the same instance after
a release would wait for numbers that no longer exist.

### Runs

| Run | Question | Bounds |
|---|---|---|
| `link_commands` | Commands once and in order, no gap for good, queue in order, types; nothing taken or applied from a coordinator older than one the node has taken, nothing applied while held for an update | 2 commands, 2 coordinators with descending epochs, 2 node instances, 1 break, 1 update |
| `link_output` | Output kept until received and read exactly once; both ends agree on the processes; `HostLink` implements `ReliableLink` | 2 commands, 2 units, 2 coordinators, 1 break |
| `link_drains` | Queues drain in the end, also those held for an update, whether the node then restarts or not | 2 commands, 2 coordinators, 2 node instances, 1 break, 1 update; at most 4 of commands, new instances, breaks and updates in a behaviour (`FewFaults`) |

Why these bounds are enough: the protocol distinguishes old, current and next
(numbers, instances, coordinators), which two of each supply: a break between
any two steps of either coordinator, with a resend after it. Each property's
mutant, a one-line fault in the mapped code, is found within its run's bounds.
`FewFaults` keeps the liveness run small and still leaves room for a command, a
held one, the update and the node's restart, or for both new instances with two
commands.
Deadlock is not checked: a link with nothing to send is at rest. A protocol
that is stuck with work left is what `link_drains` excludes.

### Fairness

Weak fairness of reconnecting (`scheduleReconnect`), of delivering frames on a
living socket, of noticing a dead one (stale check of `tick`), of the flush
(`setImmediate`), of the replay loop, of `prepareHostUpdate` settling and of
the update timeout. No fairness for sessions, processes, breaks or restarts;
those are bounded, so "once they stop" is where the drains are judged.

### Where the code does not do what it says

No run checks the following; listed as a property of a small configuration,
each is refuted by TLC:

- `AppliedOnce` with `EarlyReplaces = TRUE`: `attach` keeps `online`
  (`host-link-manager.ts:283`); a command sent before the hello is applied, then
  again after the welcome.
- `StartsAtLine`: output confirmed by a welcome bypasses `unfinishedLine`
  (`host-agent.ts:392`), so the next coordinator starts in the middle of a line.
- `NoLostProcess`: a spawn acknowledged but not yet reported when its node
  restarts is tracked for ever (`host-link-manager.ts:573`).
- `NeverAhead`: `lastEventSeq` of a failed start outlives the node instance, so
  the resent start's first event is acknowledged unread. The run `link_output` has
  one node instance. With three, two more properties fail for the same reason.
  `ExactlyOnce` (1 coordinator, 1 command, chunks of 2): the first node's error is read but not its exit, the second
  node's "spawned" counts as a repeated event, so the coordinator reads the
  process's output without ever taking it for started, and a third node, to which
  the start is sent again, makes it read units twice. `ListsAgree` (2
  coordinators, 2 breaks): the exit on the third node has a number read on the second and is
  dropped unread, so a coordinator that takes the process over keeps it although
  no node has it.
- `NoStaleDriver` with `EarlyReplaces = TRUE`: a node refuses the welcome of an older
  coordinator and dials it again while that coordinator's link is still online.
  Commands are then sent before the welcome, and the node applies one, since
  `host-agent.ts:313` looks at its number only.

### Proved

`HostLinkProofs`, for any set of processes, any bounds and any epochs:

- `TypeCorrect`: `Spec => []TypeOK`. Not inductive alone: `ReceiveEventAck` and
  `Replay` compute with `nextSeq[p] - Len(pending[p])`, which is a natural
  number only since `Len(pending[p]) < nextSeq[p]`. `TypeInv` adds that.
- `QueueStaysInOrder`: `Spec => []QueueInOrder`. Inductive together with
  `TypeInv`. The argument: an acknowledgement, a release and a hello keep a
  subsequence (`FilteredEmbeds`: members of `Filtered` embed in order),
  renumbering maps positions to numbers, and a new command takes a number and
  an id above all others.

For the same and `Punctual` (`~EarlyReplaces`, the setting of
run `link_commands`; otherwise `AppliedOnce` fails, above):

- `NobodyStaleDrives`: `Spec => NoStaleDriver`, an action property: while a node
  lives the newest epoch it has taken does not fall, and the coordinator of a command
  it applies has at least that epoch.
- `EachAppliedOnce`: `Spec => []AppliedOnce`.
- `NoneMissing`: `Spec => []NoCommandGap`.

`DriverInv` carries the first. The node itself compares epochs only when a welcome
arrives, so the property rests on what is on its way: all welcomes and commands on the wire come from one
coordinator (`Sources`), and no command is ahead of the welcome that introduces its
coordinator (`Introduced`), so when the node refuses a welcome of an older epoch
nothing of that coordinator can reach it. Without `Punctual` `Introduced` fails at
`Connect`: a link that is still online sends commands before its welcome.

`CommandInv` carries the other two. Let `Reached` be how far the node is in the
numbers of the running coordinator. The queue goes on from there without a gap
(`Contiguous`); an acknowledgement names an applied number, or comes from a node that
has restarted and whose hello cannot follow it (`Acknowledged`), so no
acknowledgement drops what is still needed; a command on the wire that the node has
yet to apply is in the queue under the same number (`FromQueue`), so the order of the
queue (`QueueInOrder`) is the order on the wire; and what was applied is older than
whatever is beyond it (`RanFirst`, `SentBetween`). Renumbering needs `Hellos`: it
happens on the hello of another node instance, when nothing numbered the old way is
on its way to that node.

`HostOutputProofs`, for the same setting:

- `NothingDroppedUnread`: `Spec => []KeptUntilReceived`.
- `ProcessesAgree`: `Spec /\ [][EndsRead]_vars => []ListsAgree`. `EndsRead` says that
  a coordinator that meets another node instance has read no event of a process that
  never started; without it `ListsAgree` fails (above). With one node instance, as in
  the run `link_output`, it always holds.

Both rest on one invariant, `OutputInv(all)`, that goes with `CommandInv`; `all` says
whether it speaks of every process (`EndsRead`) or only of those whose numbers can be
trusted (`Counted`): the started ones and those of which nothing was read. Its parts:

- `Shape`: "spawned" is the first event of a process and "exit" the last, which is
  kept until it is confirmed, so an exited process is dropped only when its end was read.
- `MeetInv`: a hello is the first frame of its socket, with nothing confirmed behind
  or ahead of it, and only one welcome is on its way, so what a welcome says still
  holds when the node reads it.
- `SpawnInv`: the spawn of a process comes from one coordinator, once; until the node
  applies it nothing about that process is on the wire.
- `NumberInv`: `InStep` is the property and that every event on the wire has a number
  the node gave out (`Given`), or one from before a renumbering that no coordinator
  accepts (`Dead`); `Acked` and `Welcomed` say the same of what confirms events.
  `BeforeAdoption` and `ReadEarly` are for the time between a hello and the welcome that
  renumbers: what the coordinator reads then was numbered for another one, and means the
  same only while the numbers begin with 1.

Assumptions: those named in `HostProtocol`. Checked by TLC only:
`ExactlyOnce`, `HeldWhileUpdating`, the refinement of `ReliableLink`, and liveness
(out of the prover's reach).

### Not modelled

Stderr (no line bookkeeping); one-shot requests and the API proxy (not
replayed, no link state); prepared launches (a spawn that cannot start covers
their absence); the version check; encoding (a bad frame closes the socket);
`send` dropping a message under pressure; heartbeats, whose effect is the stale
check; several hosts (links share nothing).

## 4. Resource leases

### Module

`ResourceLeases` is one pool of `resource-lease-manager.ts` with the file that
`resource-lease-store.ts` keeps. Differences from the code:

- A lease holds the time it has left (`expiresAt` less now) in place of four
  time stamps; `Tick` takes one from every lease, those of the file and of the
  callers' memory included, and never goes below 0: a due lease stays until an
  operation expires it.
- `promoteWaiters` is a loop that takes the first waiter and the lowest free
  slot. Its result is `Refilled`: the free slot of rank k goes to waiter k.
- `runExclusive` admits one operation at a time. `step` says what the one under
  way does when its save has settled, `dirty` whether it has a save to wait
  for (`persistIfNeeded`), `granted` what it gave. `renew`, `configure` and
  `release` save twice: once for what expired, once for their own change. They
  are an action that begins (`Renew`) and one that goes on (`Renews`), between
  which leases may fall due, the write may fail and the process may end.
- `Missed` is `selectLease` with an error: the caller names a slot it does not hold,
  which it can do where there is more than one, or it holds none.
- `told` and `noticed` are history: what callers may count on, from an answer
  (or a promotion that was saved) and from the message of a promotion. A caller
  that releases, or asks to renew and is not answered, counts on nothing.

`acquire` and `wait` are `Acquire`, with one disjunct per answer; `release` with
force is `ForceRelease`, which expires nothing first; `sweepExpiredNow`,
`getStatus` and `listStatuses` change the pool in the same way: `Sweep`.
`Restart` is the end of the process and `startAll`: it loads the file as it was,
or as the write under way leaves it.

### Runs

| Run | Question | Bounds |
|---|---|---|
| `lease_pool` | Queue served in order and at once; one reservation per session and slot; answered leases survive a restart; types | 4 sessions, lifetimes 1 and 2, capacity 1 to 2, 1 renewal, 1 restart |
| `lease_served` | A waiting session gets a lease or withdraws, while writes fail or are torn | 3 sessions, one slot, lifetime 1, 1 renewal, 1 restart |

Four sessions on two slots give two holders and two waiters, the least at which
the order within the queue and a promotion of two at once differ from simpler
cases. A renewal with either lifetime lengthens or shortens. Sessions are
interchangeable, so the safety run uses them as a symmetry set; the liveness run
does not. `lease_pool` takes writes to succeed and to be whole, which is what
`AnswersKept` needs; the theorems below and `lease_served` drop both.

### Fairness

A write resolves or rejects (`Proceed \/ WriteFails`), the sweep's interval goes
off, and time passes. No caller is fair. `Served` needs the bound on renewals:
holders that renew for ever keep their slots, as they should.

### Where the code does not do what it says

Two properties of `ResourceLeases.tla` fail, and no run checks them:

- `AnswersKept`, with `FailingWrites = TRUE`: `pendingWrite` stays rejected after
  one failed write (`resource-lease-store.ts:38`), and the change stays in memory:
  a second `acquire` is answered "already owned" without a save, and a restart
  forgets the lease.
- `NoticesKept`: a promoted session is told "You now hold" before the promotion is
  saved (`resource-lease-manager.ts:314`).

### Proved

`ResourceLeasesProofs`, for any sessions, lifetimes, capacities and bounds, with
failing and torn writes:

- `TypeCorrect`: `Spec => []TypeOK`.
- `OneReservationHolds`: `Spec => []OneReservation`.
- `NoIdleSlotHolds`: `Spec => []NoIdleSlot`.

`IInv` is the type invariant and `Sound` of the pool and of the file. The two
parts of `Sound` need each other: `acquire` gives a newcomer a free slot without
a look at the queue, which is right only because a free slot means an empty
queue (`GivenSound`); and promotion keeps sessions apart only because each
stands in the queue once. The file is part of it because a restart takes the
pool from the file. The core is `FilledSlots`: ranks number the free slots from
1, so if a waiter is left over then every free slot was filled (`RefilledSound`
draws both invariants from that). Every operation is such a refill of a pool
with fewer leases or another capacity, a lease given, or a queue that grew or
shrank.

- `FifoHolds`: `Spec => FifoGrants`, an action property, with failing and torn
  writes. `RefilledFair` is the core: a refill serves the queue from its front.
- `NobodyDropped`: a waiting session stays in the queue, gets a lease or withdraws,
  unless the server restarts. It is the safety half of `Served`.
- `AnswersHold`: `Spec => []AnswersKept` if no write fails or is torn (the setting of
  run `lease_pool`; with failing writes it is refuted, above). `Durable` adds to
  `IInv`: an answered lease is covered by a lease of the pool and one of the file,
  whichever a restart finds, and memory and file agree unless a save is under way.

Assumptions: `TtlsAssumption`, `LeaseBoundsAssumption`. Checked by TLC only:
`Served` (liveness, out of the prover's reach).

### Not modelled

That a crash or an error inside `writeFile` loses every lease (the file is rewritten
in place and loads as empty when it does not parse) is in the model as `TornWrites`, but
judged by no run: the store promises nothing else. Several pools (they share the file and the order of operations, nothing else);
purpose, metadata and quest of a lease; validation of input; the migration of
version 1 files; a renewal that keeps the old lifetime (covered by any lifetime);
the synchronous reads `holdersOf`, `holdsLease` and `getLeaseWaits`.

## 5. The landing queue

### Modules

- `LandingQueue`: one shared branch: `landing-queue-manager.ts` with its file,
  the runner processes (`src/web/bin/landing-run.ts`), the remote they push to,
  and the port lease they share with classic ports.
- `LandingPromise`: what owners are promised. A waiting change is pushed at most
  once, and its answer says whether the branch holds it. `LandingQueue`
  implements it (`KeepsPromise`).
- `MCLandingQueue`: machines and symmetry for TLC.

How the state corresponds to the code:

- `entry` is the state of a change's latest entry. `jobs` holds launches and
  runs together: a launch claims at most one run (`claim` stores its id), so one
  record has both. What nothing reads again (ended launches, settled runs) is
  the record `Over`, and its slot can be used again.
- `late` stands for the time stamps: unclaimed, or without a report, for longer
  than allowed. `cooling` is `now < trouble.retryAt`.
- `failures` drives two decisions: whether the delay is 0 (below 2), and which
  machine is next (modulo the number of machines, at most 2 here). From 2 on
  only its parity is kept.
- The lease is `holder` and `inLine`; how leases work is section 4.
- `tip` is a history variable: where on the branch the planned commits are.
  `Saw` is the test the runner makes with `git merge-base` on what it fetched.
- `runner[l]` is the process of launch `l`. It fetches the remote once, before
  its claim (`landing-run.ts:80`), and everything later is judged by that.
  An `orphan` is a `git push` whose runner died.

Every call of a runner (`reconcile`, `claim`, `heartbeat`, `plan`, `finish`) is
an action, with its refusals (`verifyRunner`, `ownedRunningRun`, the lease) as
actions of their own. `Pump` is `planLaunch`: idle, in line, or launching.
`launchRunner` is awaited, so `LaunchStarted` and `LaunchRejected` come later,
and a rejection may come although the process runs. A launch is saved before its
runner is asked for, so a `Restart` may find launches that nobody will start.
`Throws` is an exception before the push: what the gate bounced by then is answered
so, the rest waits again.

Faults are counted by `MaxFaults`: restarts of the coordinator (which forget
`memory`), deaths and stalls of runners, a lost answer of a launch, thefts of the
lease (expiry, a forced release), pushes that fail, launches by hand.

### Runs

| Run | Question | Bounds |
|---|---|---|
| `landing_queue` | One runner; every running change in one run; answers agree with the branch and nothing is pushed twice; types | 2 changes, 2 slots, 1 machine, 1 push of a classic port, 2 faults |
| `landing_answered` | Every submitted change of a working machine is answered | 2 changes, 2 machines of which one starts no runner, 2 slots, 1 fault, late pushes and lost answers |

Two changes are the least of which one can land and one bounce in one run; two
slots let an interrupted run, or a runner that was taken for dead, coexist with
its successor; two faults let a runner die and the coordinator restart before
its successor reconciled. With one machine changes and slots are
interchangeable and are symmetry sets; the liveness run uses none.

`LatePushes` and `LostAnswers` name two things that may happen to a `git push`:
that it takes effect after its run was taken back, and that it fails for the
runner although the remote took it. `landing_queue` takes both to be FALSE. With
either TRUE, `UnlandedIsTrue` fails: the next runner judges the interrupted run by
a fetch made before the push arrived, or the finished run reports nothing as
landed, the change waits again, is found on the branch already and bounces, and
`attestsUnlanded` (`landing-queue-manager.ts:516`) then certifies that it is not
on the branch. The code's protection is time: a run is taken back after three
minutes without a report, a lease after fifteen.

### Fairness

Timers (the pump and the sweep, `retryAt`, the time after which a launch or run
counts as late), settling of `launchRunner`, the steps of a live runner, and
release of the lease by a classic port. Nothing else: owners, faults and deaths
are free, faults bounded. `RunnerExited` is left without fairness, since only
runners on the coordinator's own machine are watched.

### Proved

`LandingQueueProofs`, for any changes, slots, machines and bounds, with late
pushes and lost answers:

- `TypeCorrect`: `Spec => []TypeOK`.
- `OneRunnerHolds`: `Spec => []OneRunner`.
- `EntriesFollowRunsHolds`: `Spec => []EntriesFollowRuns`.

`IInv` is these three and `ClaimsOnce`: a runner that has not claimed has no run,
and the launch of an abandoned run has ended. Without it the other two are not
inductive: a claim would start a second run for the changes of the first, and an
abandoned run could be taken up again by a launch still counted as living. In
turn `OneRunner` gives `EntriesFollowRuns` its step for a claim (nobody else's
run holds a waiting change).

Further, for `Prompt` (`~LatePushes /\ ~LostAnswers`, the
setting of run `landing_queue`):

- `UnlandedHolds`: `Spec => []UnlandedIsTrue`.
- `PromiseKept`: `Spec => KeepsPromise`, the refinement of `LandingPromise`.

`PInv` is `IInv` and `Agrees`: a change on the branch has landed, or the one run that
carries it pushed it (`Known`); a run's tip is where its plan is on the branch
(`Tipped`); a runner before its push has no tip (`Performs`); and a runner that has
fetched but not claimed saw every tip (`Looked`), which makes its judgement of
interrupted runs right. `Looked` is what a late push breaks. Each action is then a
step of `LandingPromise`: a push adds the batch's waiting changes, a report or a
reconciliation answers them by the branch, all else stutters.

Assumption: `LandingAssumption`. Checked by TLC only: `Answered` (liveness).

### Not modelled

Several branches (they share nothing but the file); `LANDING_BATCH_LIMIT` and
the order within a batch; gates and bisection (which changes bounce is any
subset of the batch that applies); saves that fail; messages to owners, quest
updates and announcements; pruning of old entries; the status for the UI.

## 6. Session history

### Module

`SessionHistory` is the history of one session between `session-store.ts` and
the disk. It has two formats:

- small: a log of frozen rows (turns that ended) and a hot file with the rest.
  A save is `StartWrite`, then `WriteWhole` (only for a history that shrank),
  `WriteLog`, `WriteHot`;
- large (from `HISTORY_THRESHOLD_BYTES`): a journal generation, an append-only
  file of commits, and a hot file with the head committed last. A save is
  `StartWrite`, `AppendJournal`, `Publish`, `Retire`.

Between any two of these steps the session may go on, a write may fail
(`Fails`) or the process may end (`Crash`, which also loads again).

- A row is a message's number and how often it was edited; the journal's and
  log's encoding, its digests and its string table are left out. `threshold` is a
  number of rows, chosen at the start from `Sizes`.
- `Results` are the rows that end a turn: what is frozen ends at the last of
  them (`Cutoff`).
- `requests` is a session's write queue, its head the running one. `debounced`
  is `pendingSaves`. A save reads the array when it runs, unless a revert replaced
  the array after it was queued (`own`).
- `shared` counts the rows a save does not copy: the journal reads them only
  when it comes to them, which may be after they changed.
- Commits hold the rows written. `Readable` is what `readSessionHistory` needs of
  a head: each row written by some commit and not dropped since, in a generation
  that exists.
- `saved`, `attempts` and `spoiled` are history.

`spoiled` is set where the code loses something for good, and only there: when
an edit or a revert fails to be written in a way no later save makes up for,
when a row joins the half record of a crashed append, when the log
gets rows of another array than those the hot file still holds (`MixesArrays`),
and when a row changes that is counted as frozen although its turn has not ended
(`FrozenEarly`). The first three are described below. The fourth follows from
them: a crash in an append leaves rows of an unfinished turn in the log, and so
does a repair that runs after an append and a revert have failed. A crash starts
anew, but `spoiled` stays set when the files then hold a row twice.
`FlushedUnlessSpoiled` and `SavedStays` say that nothing else loses anything;
`HeadIsReadable` holds regardless.

### Runs

| Run | Question | Bounds |
|---|---|---|
| `history_store` | A flush that resolves saved everything; rows saved stay; heads stay readable; types | 3 rows, the last two ending turns, large at 2 rows or never, 1 edit, 1 revert, 2 faults, 2 commits of a generation |
| `history_failed_write` | violation, below | smallest that shows it |

Three rows give a frozen prefix, a row that becomes frozen and a row after it.
`Sizes = {2, 4}` checks a history that becomes large while it grows and one that
stays small. Two faults let a crash follow a failed write whose remains it
finds. No fairness: the questions are of safety.

### Where the code does not do what it says

- `history_failed_write`: `flushAll` promises to "reject on unsaved data"
  (`session-store.ts:1474`). The repair of an edited row fails once; the next
  ordinary save takes the frozen rows as saved (line 934), succeeds and deletes
  the failure. `flushAll` resolves, and the edit is lost. A failed revert is lost
  in the same way.

`FlushedIsSaved` fails in a second way, which no run checks (listed alone in a
small configuration without failing writes it is refuted within seconds): a
crash in the middle of an append leaves half a record at the end of the log, and
`writeFrozenHistory` (`session-persistence-io.ts:43`) appends the next rows right
behind it, so they join the half record and are skipped with it when the log is
read. Its comment (line 51) asks that failed appends "must not leave half a
record that a retry could extend"; the code truncates after an append that
failed, not after one that a crash cut off.

A third way needs four or five rows, so it is beyond the bounds of the run. The
log and the hot file are replaced one after the other, and the rows of the two
can belong to different arrays when the save of a revert got lost and the history
has grown again since. Two ways lead there, and `MixesArrays` notes both:

- A restart resumes with rows behind the frozen ones, the session is reverted to
  a length the files count as frozen, or longer, and grows past the end of a turn
  before that save runs. "A revert is an ordered operation" (line 921):
  `queueSnapshot` copies its array, but only when it is shorter than the one
  requested before (line 914), which after a restart is the frozen count, so
  the save takes the grown array and appends to the log. Until the hot file follows, a load puts the tail of the old
  array behind the new rows. The same happens when a revert above the frozen
  count was copied and its hot file failed.
- An append to the log fails, so the next save will replace the log. The session
  is reverted, and the whole hot file that a revert writes first
  (`session-store.ts:1053`) fails, too. The session grows again, and a row below
  the old frozen count is edited. A repair leaves out the whole hot file
  (`repairCount === undefined` in line 1053), although here it replaces the
  frozen rows by those of another array.

A crash, or a hot file that fails, then leaves a history that mixes the two. The
first way was found by exhausting 5 rows, 1 revert and 1 fault with `Results =
{1, 5}` while looking for an inductive invariant; the second by random simulation
of larger bounds. With `MixesArrays`, and with the note that a row joins a half
record also when the append that joins it fails, larger configurations find
nothing more: four of them exhausted (4 or 5 rows, 1 revert, up to 2 faults, up
to 3 million states) and six simulated (5 to 7 rows, 2 or 3 reverts, edits and
faults, about 600 million states). That `FrozenEarly` looks at the rows the store
takes as saved (`Stored`), and not at what a load would return, comes from a
directed trace of 22 steps, beyond what those runs reach.

### Proved

`SessionHistoryProofs`, for any numbers of rows, edits, reverts, faults and
commits, any rows that end turns and any sizes at which a history becomes large,
with or without failing writes and torn appends:

- `TypeCorrect`: `Spec => []TypeOK`.
- `HeadReadable`: `Spec => []HeadIsReadable`.
- `FlushKeepsHistory`: `Spec => []FlushedUnlessSpoiled`.

The first two are not inductive: after a crash the rows of the session are what a
load makes of the head on disk, which are rows only if it can be read. `IInv` is
`TypeOK`, `RunningFirst` (the save under way is the first of the queue) and
`HeadInv`: the heads on disk, in memory and in the journal's cache agree except
between `Publish` and `Retire` (`HotAgrees`, `CacheAgrees`); the small format is
used only without a head (`SmallAgrees`); what a failed publication removes is not
the generation of the head (`NewApart`); no history counts more frozen rows than
it has (`FrozenWithin`); and each head's generation holds its rows (`HeadsHeld`).
`LeaksCounted` says that a crash leaves at most one generation behind that nobody
removes, so a new name is always left (`FreshIs`); the real names are random.
`HeadsHeld` needs only that a generation keeps its first commits (`HoldsSame`) and
that a commit after the head's writes what differs from it (`HoldsAppended`). The
code's condition, with the greatest commit that wrote a row, is the same one
(`ReadableIs`). TLC checks `IInv` with the bounds of `history_store` as well.

`FlushKeepsHistory` needs to know, at any time and not only after a flush, what the
waiting saves will make of the files and of the array in memory. Its invariant is
`FInv`. Three parts of it hold always: `Captured` (what the running save found
when it began still fits the way of writing it chose), `JournalInv` (a generation
holds the rows that memory takes it to hold) and `UsedInv` (no row anywhere is
newer than the last one the session got). The fourth, `SavedInv`, holds while
nothing is `spoiled`:

- `QueueInv` is about the arrays of the saves in turn, from the one in the files
  or under way (`Base`) to the session's (`live`). Each extends the one before
  unless it is that of a revert (`Chained`); rows the session does not have any
  more are cut off by a later revert (`AllLasting`); saves with arrays of their
  own come before those that read the session's (`OwnFirst`); the last save that
  waits has the session's array (`LastIsLive`), and `requested` is its length,
  which is how the code recognises a revert (`Requested`).
- `StoredInv`: the files hold as many frozen rows as memory counts, and, while
  they may be extended, those of the array under way.
- `NewInv`: what is committed are the rows of the save.
- `KeptInv`: a row in the files, of the running save or of its commit that counts
  as frozen is either as it was edited last, or a repair or a revert that waits
  writes it again (`Redone`). This is what the comment at line 934 of
  `session-store.ts` relies on when it shares frozen rows.
- `Settled`: when no save waits, the running one saves what the session has, or,
  if none runs and none failed, a load returns it.

One lemma per action says that it keeps `FInv` (`GrowKeeps` to `CrashKeeps`). The
arguments that recur are those about queues: a save put at the end, the first one
taken off, two of them merged. TLC checks `FInv` on three small instances too.
`MixesArrays`, `FrozenEarly` and the note of a crash were each found, or found too
narrow, where a step of this proof or a run of its invariant failed.

`SavedStays` is only model-checked. It compares what a load returns with any
array the session ever asked to save, so its invariant would have to say of every
mixture of log, hot file and generation which of those arrays it is a prefix of.

### Not modelled

Several sessions and the limit of active writers; tool results kept apart;
string tables and digests; trimming of duplicate previews and repairs at load
time; `computeFreezeCutoff`'s exception for recovery summaries;
`rewriteFrozenHistoryMetadata`; removal, archiving and release of caches;
launcher and activity files; power loss, which may reorder what was written.

## 7. Timers

### Module

`Timers` is one session of `timer-manager.ts` with the file that
`timer-store.ts` keeps. What runs between two awaits is one step:

- `memory` is the session's entry of `sessions`, `NoFile` where there is none.
  `Empty` stands for a file that is missing, unreadable or cut off: all three
  load as no timers and next id 1.
- `writes` is the chain of `persistSessionNow`, each with the snapshot it took
  when it was queued. `WriteDone` is the write and what its call goes on with:
  `persistAndEvictIfEmptyNow` drops the entry if it has no timers by then.
- `loads` are the creates that await `getOrCreateFile`, with what they read.
  `Loaded` puts that into the map, whatever the map holds by then.
- `Sweep(then)` is one pass of `sweepDueTimers` over the session, with the time
  its sweep started. `CancelAll` and `Unlinked` are archiving. The deletion may
  fail, and `deleteTimers` keeps that to itself (`timer-store.ts:108`).
- `Start`, `ReadFile`, `Restore` are a start: the server listens before `startAll`
  has read the files and put them into the map (`timer-manager.ts:52`).
- `num` tells timers apart, since ids may repeat; `made`, `removed`, `answered`,
  `archived`, `over` and `settled` are history.

### Runs

| Run | Question | Bounds |
|---|---|---|
| `timers_kept` | An answered timer stays until it fires, is cancelled or archived; ids are not answered twice; nothing saved is repeated; after a flush the disk says what memory says, an archive's deletion aside; a due timer fires | 2 timers, clock to 2, 1 pause, 3 failed writes, failed deletions, crashes or stops |
| `timers_two_creates` | violation, below | 2 timers, no faults |

Two timers let a write of one follow, or be overtaken by, a call for the other;
three faults let a crash follow a failed write and a failed deletion. A clock of 2 lets a recurring
timer fire twice, or miss a firing and skip it.

`timers_kept` takes `Overlapping` and `BadDisk` to be FALSE: a call that has to
wait for the file meets no other call of the session, nor a start, and a failed
or interrupted write leaves the old file. What TRUE leads to is below.

### Fairness

The interval sweeps, writes settle, and a server that is down starts and reads
its files. `Served` leaves out a session that stays paused and a shutdown that a
failed write blocks: `flush` throws and the server, stopped, stays up.

### Where the code does not do what it says

- `timers_two_creates`: a load "recovers nextId even after all timers were
  removed" (`timer-manager.ts:325`). But `getOrCreateFile` does not look at the map
  again once it has read the file, so two first creates of a session both answer
  with the same id, and the second file replaces the first.

With `Overlapping = TRUE` three more invariants are refuted, each within six
steps, and no run checks them: `AnsweredKept` (the first create's timer is
overwritten, in memory and on disk), `NothingRepeats` (the deletion of an archived
session races a write queued before it) and `FlushSaves` (the deletion takes the
file of a timer created meanwhile). With `BadDisk = TRUE`, `AnsweredKept` is refuted: the
write that `timer-store.ts:99` calls an atomic overwrite is a plain `writeFile`.

`FlushWaits` is refuted in the setting of `timers_kept`: `timer-manager.ts:74` says
"Wait for accepted timer changes", but `flush` looks only at `pendingWrites`. The
deletion of `cancelAllTimers` is not among them, and an error in it is swallowed, so
a server may stop, and start again, with timers of an archived session on disk.
`FlushSaves` is what is left: whatever else was accepted is on disk.

A create whose save fails throws, but its timer stays in memory and fires.

### Proved

`TimersProofs`, for any numbers of timers, times, pauses and faults:

- `TypeCorrect`: `Spec => []TypeOK`, overlapping calls and torn writes included. Not
  inductive alone: `TypeInv` adds that no version of the file names a timer that was
  never made.

and, if `Orderly` (`~Overlapping /\ ~BadDisk`, the setting of run `timers_kept`;
otherwise they fail, above):

- `AnswersKept`: `Spec => []AnsweredKept`.
- `IdsStayUnique`: `Spec => []IdsUnique`.
- `NothingFiresTwice`: `Spec => []NothingRepeats`.
- `FlushIsComplete`: `Spec => []FlushSaves`. It covers deletions that fail; the timers
  they leave behind are those in `archived`, which shrinks when a load or a start
  takes them up again.

One invariant carries all four. A session's timers exist in several versions at once:
in memory, on disk, and in every snapshot of the write chain. `IInv` says of all of
them that they bring back nothing a save has settled (`SaneVersions`), that each
follows from those queued before it (`Ordered`), that each has the answered timers
(`Kept`, `Awaited`) and hands out no id that was or will be answered (`Ids`), and that
the last snapshot is what memory says unless memory was evicted (`LastWrite`).
`Ordered` is what lets a write settle something: the snapshots behind it, and memory,
were taken later. `Modes` says what excludes what: a deletion, a read and a start have
the file to themselves, which is `Orderly`'s part.

Assumption: `TimersAssumption`. Checked by TLC only: `Served` (liveness).

### Not modelled

The texts of timers and their delivery to the session; `parseTimerSpec`; several
sessions (they share the sweep and nothing else); listing.

## 8. Synced projections

### Modules

A projection is a small value per session that the server derives and browsers
mirror. The models follow one key: the thread tabs of one leader, the projection
that has patches and whose source is gone while the session is archived.

- `ProjectionRuntime` is `synced-projection-runtime.ts` for that key and one
  browser's socket. `cache`, `dirty`, `pending` are the key's part of the maps of
  those names, `subscribed` whether the socket's subscriber has the key. A value is
  a function on `Fields`, and a patch one on some of them. `Recomputed` is what
  `recompute` leaves in the cache; `Keep`, `Push` and `Publication` are its effects.
  Whatever other browsers subscribe to or ask for is a read of the key, `Peek`.
- `ProjectionCache` is the browser: `held`, and `latest`, `barrier`, `rejected` (the
  ordering of `store-synced-projections.ts`); `sent`, `acks`, `partial`, `resyncing`
  (the maps of `ws-transport.ts`); `row`, `fence`, `requests` (the lists of sessions
  it asks for over HTTP, and whether its own list has the session).
- `SyncedProjections` composes them. `ProjectionMirror` is what it promises: what is
  shown was a value of the server, and is never older than what was shown before.

The socket is a queue in each direction and loses what is on it when it breaks.
The answers of lists are no queue: `Serve` and `Hydrate` take them in any order.
`life` separates the two halves of `archiveSingleSession` around its `await`, since
in between the session is archived and nobody has been told; `"loaded"` is a
session that an earlier process archived.

### Runs

| Run | Question | Bounds |
|---|---|---|
| `projections` | A live browser holds the server's value; no older value follows a newer one; no gaps; browsers converge; archived sessions are not shown | 2 fields, 1 change, 1 fault (restart, broken socket or second subscription), 2 lists |

Two fields make a patch differ from a value. Two lists let the second overtake
the first, with the restart between them. One change gives a second revision,
so a list may bring it before, with or after its update; a restart a second
generation.

`projections` takes `Origins = {"own"}` and `Restorable = {"loaded"}`; below is
what more leads to. `NoResync` shows that resyncs are a second line of defence:
updates always continue what a subscribed browser holds, and `AnswerResync` matters
only where revisions start again, below.

### Fairness

The microtask of a flush runs; messages on a living socket are handled at both
ends; a broken one is noticed and replaced (`scheduleReconnect`); a changed list
leads to a new subscription; a list that was asked for is answered or fails.
Nothing makes the source change, the session be archived, or a list be asked for.
`Converges` asks nothing of a browser that stops listing the session, and only
lets a session that was never archived promise its value (below).

### Where the code does not do what it says

No run checks these; the constants below, in `projections.cfg`, show them.

- `CleanIsCurrent` fails in three steps with `Origins = {"own", "other"}`: `dirty`
  holds the "keys whose source changed and must be recomputed before the next
  snapshot or publication" (`synced-projection-runtime.ts:164`), and its test says
  that it "keeps no-subscriber invalidations dirty until a snapshot requests the
  value" (`synced-projection-runtime.test.ts:148`). But
  `invalidateLeaderThreadTabsForQuestIds` leaves out keys without subscribers
  (`ws-bridge-synced-projections.ts:340`), so a tab of a quest on another leader's
  board keeps its old state in the cache. The next subscriber gets it, or hears
  that its old value is current.
- `LiveMeansCurrent` fails with `Restorable = {"archiving"}` (ten steps), and with
  `{"archived"}` and `MaxChanges = 2`: a recomputation while the session is archived
  deletes the entry (`synced-projection-runtime.ts:421`), and the next one starts at
  revision 1 of the same generation. A browser that kept its old value takes the
  new ones for stale, or is told that its own is current. This is why a restored
  session counts only after a restart of the server.

- With three lists, an older value can follow a newer one after all, once the key
  was forgotten in between: the announcement of an archiving, or an acknowledgement
  that settles a subscription without the session, removes the value *and* its
  ordering (`store-synced-projections.ts:515`), and a list that was asked for before
  the last one then brings back both the row and the older value. `ProjectionMirror`
  has the step `Forget` for this, so `Mirrors` promises the order only for as long
  as the browser keeps the key's ordering. With two lists this does not happen.
- With three lists, `LiveMeansCurrent` fails if one list drops the row and a late one
  brings it back before the browser subscribed in between (`Refresh`): a refusal that
  arrives meanwhile meets an `ask` the browser no longer holds to, and is dropped
  without marking the socket's inventory partial (`ws-transport.ts:388`). React runs
  the effect that subscribes (`App.tsx:973`) before the browser's next event, which
  rules it out.

A subscription that was refused while the session was archived leaves the key
refused after it is restored, until the socket is replaced or the list of
subscriptions changes: the browser sees no change to subscribe anew.

### Proved

`SyncedProjectionsProofs` proves, for any fields, changes, faults and lists:

- `TypeCorrect`: `Spec => []TypeOK`. The invariant adds that the browser waits for as
  many acknowledgements as there are on their way and subscriptions still to be
  answered (`Matched`), or `Head(acks)` might not exist.
- `NeverResyncs`: `Spec => []NoResync`, where `RestoredLater` holds.
- `NeverBackwards`: `Spec => Mirrors` under the same hypothesis, the refinement.
- `LiveAgrees`: `Spec /\ [][Rendering]_vars => []LiveMeansCurrent`, where `RestoredLater`
  and `OwnChanges` hold.

The hypotheses are the findings above. `RestoredLater` (`Restorable \subseteq
{"loaded"}`): a session that the process that archived it restores starts its
revisions again. `OwnChanges` (`Origins \subseteq {"own"}`): a change on another
session's board leaves the cache stale. The run takes both. `Rendering`: the
effect that subscribes (`App.tsx:973`) runs before the browser's next event, which
the run's two lists do not need and three do.

One invariant, `PInv`, carries `NeverResyncs` and `NeverBackwards`. A snapshot over
HTTP may overtake what comes over the socket or be overtaken by it, so `PInv` says of
everything on its way what it will do when it comes:

- of the server, that versions only go up (`Ordered`) and that the cache is the newest
  entry, an empty one the start of a generation (`Cached`): here a restore in the same
  process breaks it;
- of lists, that they carry what the server had, and that of two the one asked for
  later has no older generation (`Asked`); of the browser, that it holds what was,
  and that what it holds keeps lists of older generations out (`Kept`);
- of the messages (`Stream`), that each carries an entry, or a patch from one to the
  next that changes nothing when applied twice (`Genuine`); that a subscription or
  an acknowledgement that names what the browser has stays right though the browser
  moves on (`InFlight`, `Answered`); that nothing comes after a refusal or an archiving
  before the next acceptance (`Silent`); and that every update continues what is
  held or what comes before it, up to the cache of a subscriber (`Continued`).

`Climbs` is the action part: what is held is never replaced by an older version. With
`Distinct`, no two entries of one version, it gives the step of `ProjectionMirror`.
`LiveAgrees` adds `Clean`, that a cached value is current or its key dirty and pending,
and `Told`, that a browser whose subscription the server does not have knows so, or
has the refusal of its last subscription on its way.

Assumptions: `RuntimeAssumption`, `CacheAssumption`. Checked by TLC only: `Converges`
(liveness).

### Not modelled

Values over the size limit and derivations that throw (the old entry stays and
the key stays dirty); sessions loaded for search only, and deleted ones; the switch
of the socket that carries the projections; several keys and projections (they
share the messages and nothing else); how a projection is derived. `Serve` reads
the list at once, where the route awaits other parts of each row.
