# A TLA+ model of cortex-mq

cortex-mq is a task broker for a swarm of AI workers: a Rust gRPC server that
routes tasks over a consistent-hash ring, keeps their state in Redis, and hands
them to Python workers that run a researcher/coder/reviewer pipeline. This
directory holds its specifications: TLA+ modules translated from the source,
TLC configurations that check them, and TLAPS proofs of what matters most.

Paths are relative to the repository (`src/` here is the repository's root, so
the broker's code is `src/src/*.rs`).

## 1. The system

| Component | Code | State | Operations |
|---|---|---|---|
| Node table | `src/src/core/hash_ring.rs` | `nodes`: status, load, last heartbeat, missed heartbeats | `add_node`, `remove_node`, `update_node_info`, `record_missed_heartbeat`, `mark_*`, `record_task_completed` |
| Ring placement | `src/src/core/hash_ring.rs` | `ring`: hash to virtual node | insertion with collision probing, `get_node` |
| Heartbeat monitor | `src/src/core/broker.rs` | an interval timer, a copy of the alive nodes | `run_heartbeat_monitor` |
| Broker service | `src/src/api.rs` | none of its own; handlers run concurrently | `SubmitTask`, `ClaimTask`, `CompleteTask`, `FailTask`, `Heartbeat`, `GetSystemStatus` |
| Task state | `src/src/core/state.rs` | Redis: lock, snapshot, one list per node, dead-letter list | acquire/renew/release lock, save/get/delete snapshot, push/fetch assigned task, DLQ |
| Audit log | `src/src/core/state.rs` | Postgres rows, written and never read | `write_audit_log` |
| Worker | `src/cortex-swarm/worker.py` | a count of executions, channel and stub, shutdown event | connecting, heartbeat loop, claim loop, executing and reporting a task, shutdown |
| Agent pipeline | `src/cortex-swarm/brain.py` | one graph state per execution | nodes and routing of the revision loop |
| Raft election | `src/src/raft/election.rs` | one `RaftNode` per broker | `start_election`, `handle_vote_request`, `record_vote_response`, `handle_heartbeat` |
| Start-up, clients, dashboard, generated code | `main.rs`, `examples/`, `trigger.py`, `cortex-monitor/`, `*_pb2*.py` | none the broker depends on | - |

**How they interact.** A submitter calls `SubmitTask`: the broker looks for a
snapshot, routes over the ring, takes the task's lock, saves a snapshot, and
pushes the task on the list of the node it was routed to. A worker's claim loop
polls `ClaimTask`, which (re)joins the worker to the ring and pops its list. The
worker executes the pipeline and calls `CompleteTask` (drops lock and snapshot)
or `FailTask` (drops the lock, then queues a retry or buries the task).
`Heartbeat` refreshes the node table, which the monitor scans every
`HEARTBEAT_INTERVAL`; what it removes is no longer routed to. The Raft module is
a library that nothing in the program starts yet.

**What is hard about it.** Handlers share the ring behind one `RwLock`, but
hold it for single calls; the monitor acts on a copy. The Redis commands of
a handler are separate, each with an 800 ms limit after which its effect is
unknown; nothing rolls back what an earlier one did. A handler is dropped at
any await when its caller is gone. Workers crash holding tasks, time out on
calls that succeeded, and report completed tasks as failed. Nothing but the
snapshot says a task exists while a worker has it. `PROJECT.json` lists every
such hazard at its line.

**What makes each part correct.**

- *Node table and monitor*: misses are backed by silence; a silent node is
  noticed in bounded time and leaves; a node that is heard in time is never
  blamed; between scans no dead or condemned node is left.
- *Broker and task state*: an accepted task is open in one place until it is
  completed or buried, exactly once; retries do not multiply it; two
  submissions of one task are never open together; what refuses a resubmission
  has an owner; an open task has its snapshot.
- *Ring*: whoever owns a position is a member, every member has its full share,
  nobody takes a member's positions over; a task is refused only if nobody can
  take it, goes to nobody unfit, and moves only because of one node.
- *Lock*: an attempt's lock is touched by its own token, its expiry or force; a
  renewal comes before the expiry; nothing is left over.
- *Worker*: the slots of `max_concurrent` are given back however an execution
  ends; what is acknowledged is not reported as failed; the broker is told of
  every execution whose calls get through; a signal ends the process; claims go on.
- *Pipeline*: ends within `MAX_REVISIONS` revisions; an incomplete result is never
  sent as a completion.
- *Raft*: one leader per term, elected by votes that were given.

## 2. The modules

| Module | Models | Role |
|---|---|---|
| `NodeTable` | the `nodes` map of `HashRing` and the status rules of its methods | operators on entries and tables |
| `HeartbeatMonitor` | the monitor, with heartbeats, claims, crashes and restarts | state machine over `NodeTable` |
| `MCHeartbeatMonitor` | - | instance for TLC |
| `HeartbeatMonitorProofs` | - | five theorems |
| `TaskLedger` | what the broker promises of tasks | abstract specification |
| `TaskBroker` | the four task handlers over Redis, with workers and faults | implements `TaskLedger` |
| `MCTaskBroker` | - | instance for TLC |
| `TaskBrokerProofs` | - | three theorems, under any faults |
| `TaskLedgerProofs` | - | six theorems, on the tasks no fault touched |
| `HashRing` | placement, withdrawal, both walks, all methods on the ring | state machine over `NodeTable` |
| `MCHashRing` | - | instance for TLC |
| `HashRingProofs` | - | seven theorems |
| `AgentPipeline` | the graph of `brain.py` and the validation of its result | operators on its state |
| `Worker` | a worker process on its event loop | state machine over `AgentPipeline` |
| `MCWorker` | - | instance for TLC |
| `WorkerProofs` | - | six theorems |
| `TaskLock` | the lock of a task, its renewer and the commands on it | state machine |
| `MCTaskLock` | - | instance for TLC |
| `TaskLockProofs` | - | four theorems |
| `RaftElection` | `RaftNode` in a network that loses, delays, repeats and reorders | state machine |
| `MCRaftElection` | - | instance for TLC |
| `RaftElectionProofs` | - | four theorems |

Operators named `...Strict`, `...KeepsVotes`, `...GivesUp` and the like, introduced by
the word "Mutant", are not part of the model: each is a definition with a
plausible bug in it, kept beside the one it spoils, and `PROJECT.json` says
which property notices.

### NodeTable and HeartbeatMonitor

An entry has its `status`, its number of `missed` heartbeats, its `age`
(seconds since `last_heartbeat_unix`), whether its cpu is `hot` (at or above the
suspicion limit), its `active` tasks and its capacity. `Joined`, `Pinged` and
`Missed` are what `add_node`, `update_node_info` and `record_missed_heartbeat`
make of an entry; `AddNode`, `UpdateNodeInfo`, `RecordMissedHeartbeat` and
`RemoveNode` act on the table.

The monitor is a loop of separately locked steps. `Tick` is the timer firing and
the copy of alive nodes; `todo` holds the stale ones of the copy. `Scan(n)`
takes the write lock and counts a miss on the live table; if that reaches the
threshold, `n` becomes `doomed` and `Remove(n)` is a second locked step, as at
`broker.rs:102` and `:109`. `EndScan` goes back to the timer. `Heartbeat`,
`Claim`, `Crash`, `Restart` and `BrokerRestart` happen between any two of these.

Time is a `phase` in seconds since the last nominal tick, and ages; no absolute
clock is needed. The timer delivers a tick once per `Interval` (a tick that is
late does not move the next). `MaxLate` bounds how long a scan may start and
finish behind its instant. It is the one assumption about scheduling;
`MaxLate < Interval` says that a scan is over before the next tick.

The window is not the `THRESHOLD` intervals of the documents: a node heard just after a
tick gets its first miss at the second tick after that, so silence lasts up to
`Threshold + 1` intervals (`DetectedInTime`; see "Other differences" below).

### TaskBroker and TaskLedger

`calls` holds the handlers in progress, each with the Redis command it is about
to issue (`pc`). Every command is a step and ends `ok`, `failed` (no effect) or
`unknown` (effect, reported as an error); every error path of the handlers is
there, including the ones that ignore the error. The ring lookup that follows a
command happens in the same step, since nothing shared is touched in
between that the model tells apart.

`Submit`, then `Check`, `Lock`, `Save`, `Enqueue`, are `submit_task`. `Claim` is
`claim_task`. `Complete`, then `Seen`, `Unlock`, `Forget`, are a worker's
completion and `complete_task`. `Fail`, then `Free` and either `Requeue` or
`Bury` and `Forget`, are `fail_task`. `Report` is the worker's
`_report_failure` after a completion that timed out.

The ring is abstracted to `routable`, the nodes `get_node` may answer with, and
`RouteChange` lets any node come or go at any time: whatever the heartbeats and
the monitor do to the table, the task handlers see some such sequence.

A **piece** `<<task, sub>>` is one submission of a task, carried along by
retries. The code has no such name; it is what lets the model say that two
entries are the same work or different work. `accepted`, `done` and `dlq`
collect the pieces a submitter was told are accepted, a completion reached
the broker for, and the dead-letter queue received.

Faults are steps bounded by `MaxFaults`, of the kinds in `Faults`: a Redis
command that fails or times out, a caller that gives up, a worker crash, a
broker restart, a snapshot that expires with its task open or a lock that
expires under a stalled submission. `hit` collects the tasks a fault touched.
The safety properties hold of all other tasks. Of a task that a fault touched
two things are claimed: each submission of it is in one place at most, and in none once it is
buried (`RetriesDoNotMultiply`); and its snapshot stays until it expires or the task was
completed or buried (`LossIsRemembered`, of a task submitted once). It may be lost
(`broker_worker_crash`); and a task that was completed may be queued and executed again, when the
worker has timed out on its completion and reports a failure.

A lock that expires in the middle of a submission is the only fault not counted in
`MaxFaults` or `hit`: the commands after the SET take 800 ms each at most, the lock lasts a minute,
and only the audit write between them has no limit. Without overlapping submissions it
does no harm; with them it duplicates the task.

`TaskLedger` says the same with no queue, lock or worker: a task is open at most
once, each opening is closed once, by completion or burial, and none is
forgotten. `TaskBroker` implements it (`ImplementsLedger`) when nothing fails,
with `open` the tasks that have an open piece.

### HashRing

`ring` maps positions to their owners, `nodes` is the table, and each method
runs under the one lock, so each is a step: `Join` (`add_node`), `Heartbeat`,
`TaskCompleted`, `Kill` and `Drain`. The monitor is three kinds of step: `Scan` copies the nodes that
are alive and finds any of them silent (`todo`), `Miss` counts on the live table, whatever has become
of the node since, and `Remove` takes out the node that was counted to the threshold
(`doomed`), under a lock of its own. Everything else may happen between them. When a node is
silent is `HeartbeatMonitor`'s subject.

The hash is a table: `Probe[n][i][s]` is where the key of `n`'s virtual node `i`
hashes to with salt `s`. `FirstVacant` is the probing loop for one virtual
node; `Placements` is the loop over all of them, written without recursion as the one
function in which every virtual node has the first position left vacant by the ring
and the virtual nodes before it. The walk
`range(hash..).chain(iter())` is a distance: `GetNode` takes the eligible
position that is nearest clockwise. A task is its hash. Answers are sets of at most
one node.

`events` is a ghost: what has happened to each node, whatever the table made of it. A node is
`silenced` by a miss, a drain, a `mark_dead` or a removal until it is heard or claims; it is `hot`
when the last heartbeat the table took in said so, and `wiped` when a `mark_dead` or a
removal came after that one. `UnfitNotRouted` relates the walk to these, where the status would only relate it
to itself. The exception it makes is the code's: both methods make the table forget
the cpu, so that a saturated node that claims next is routed to.

### Worker and AgentPipeline

A worker is one asyncio loop, so a step goes from one await to the next. `main`
is `start()`; `dial` is `_connect_with_retry`, which `start()` and the heartbeat
loop run; `beat` and `misses` are the heartbeat loop; `claim` and `offer` the
claim loop and its call; `st`, `graph` and `active` the executions. A call is in
flight from one step to another, and ends with its answer, with an error or a
timeout, or cancelled; in the last two the broker may have served it or not.

`Reconnect` is `channel.close()` at the third failed heartbeat. It cancels the calls on that
channel, and asyncio's `CancelledError` is not an `Exception`: an execution
with a call in flight ends without a report, its slot given back by
the `finally`; a claim in flight ends the claim loop for good. So a worker
whose claim was in flight when the broker became unreachable sends heartbeats after the
reconnection and never claims again; and a broker that restarted, which rebuilds no ring
(ARCHITECTURE.md:338 says it does) and ignores the heartbeats of workers it does not know, never has
it on its ring. `worker_survives_restart` shows this against ARCHITECTURE.md:256.
`KeepsClaiming` is weaker than that line: it says that a cancelled claim and a shutdown
are the only ways in which a connected worker stops claiming. An error at the
broker reaches the worker as an empty assignment (`ServeClaim`), with the entry popped or
not. `stale` holds the calls on a
channel that was replaced by the next connection attempt, which no close reaches.

`hurt` is a ghost: the tasks that lost a call, had no connection to report
on, or were cut off by the shutdown. `OutcomeReported` says there is no other reason for
silence. `told` and `acked` are what the broker was told and the worker heard.

`AgentPipeline` gives, for a state of the graph, the states its next node may
leave. Any node may fail: the researcher and the coder then leave an empty text, the
reviewer approves. `revision_count` adds up because its reducer adds. With
`MAX_REVISIONS > 0` the reviewer's forced approval (`brain.py:171`) is never
reached, since the routing already ends at the count that would trigger it:
such a task is completed with the verdict `revision_required`.

### TaskLock

A command is on the wire until Redis serves it; its caller may stop waiting
before or after (`REDIS_CMD_TIMEOUT`, the pool's limits), and an unserved command may
then still be served, at any later time or never (`late`). `SetNX`,
`CompareAndDelete` and `CompareAndExpire` are the SET and the two scripts.
`ForceRelease` is the DEL that looks at no token, at the moment it is served. A
renewer sleeps `Every` plus a jitter, renews, and ends at the first refusal or
error. Time is a tick: it runs the lease down, and waits neither for the
renewer to wake nor for its call to end beyond `MaxDelay`.

`Margin` is what the code leaves unsaid: the interval (half the lease
if it was clamped), the jitter and two calls must be shorter than the lease. TLC finds
the lock lapsing under a live renewer as soon as they are equal. The two calls
are the one whose effect started the lease, answered late, and the next.
The program calls only `acquire_task_lock` and `force_release_task_lock`; the
rest is the library's promise to later callers.

### RaftElection

One function per field of `RaftNode`, one action per method that changes it.
Messages are sets that only grow, so each may be lost, late, repeated or out of
order. Two things are external because the program has no code for them: the
timer that calls `start_election` (any node, at any time) and the caller of
`record_vote_response`. That method is told neither who voted nor in which
term, so its caller owes it two things, which the model makes explicit: only
replies to the node's current request are passed on, and no peer's twice.
Without either, the count of votes means nothing; a transport added to the
program has to provide both. Nodes do not restart: nothing persists `voted_for`
and nothing in the program starts a `RaftNode`.

## 3. What the runs check

| Run | Properties | Shows |
|---|---|---|
| `monitor` | `TypeOK`, `MissesMeanSilence`, `DetectedInTime`, `NoneOverdueAtRest`, `PunctualNodeKept`, `CrashedNodeLeaves` | m misses mean at least m-1 intervals of silence less the lateness; silence is suspected in two intervals and gone in `Threshold + 1` (plus the lateness); the table is clean between scans; a punctual worker keeps its place; crashed workers leave |
| `broker` | `ImplementsLedger`, `AcceptedIsResolved` | with failing executions, changing routes and lock expiry but no fault, the broker implements the ledger and resolves what it accepts |
| `broker_faults` | `TypeOK`, `RetriesDoNotMultiply`, `OneSubmissionOpen`, `NothingLost`, `ClosedStaysClosed`, `SnapshotCoversWork`, `RefusalHasOwner`, `LossIsRemembered` | one fault of any kind, at any step, harms only the tasks it touches, makes two of no submission, and leaves what it loses its snapshot |
| `ring` | `TypeOK`, `OwnersAreKnown`, `FullShare`, `RoutedWhileAnyoneCan`, `UnfitNotRouted`, `PositionsKept`, `OnlyItsTasksMove` | members and owners agree, collisions lose no virtual node, positions are kept through rejoins; tasks are routed whenever anyone can take them, and to nobody who was missed, drained, killed or removed and not heard since; whatever happens, tasks move because of one node only |
| `worker` | `TypeOK`, `SlotsAccounted`, `AckedNeverFailed`, `RevisionsBounded`, `OutcomeReported`, `CompletedIsWhole`, `ShutdownEnds`, `KeepsClaiming` | slots are given back on every way out, acknowledged tasks are not reported failed, drafts are bounded, no incomplete result is sent, silence has a lost call behind it; a signal ends the process from every state; a connected worker claims again and again unless its own reconnection cancelled its claim |
| `lock` | `TypeOK`, `RenewedInTime`, `CompletedOnce`, `FencedByToken`, `NothingLingers` | late commands leave other attempts' locks alone, renewals are in time where `Margin` holds, at most one COMPLETED row of an attempt and none unless its own release deleted its lock, orphaned locks expire and renewers without a lock end |
| `raft` | `TypeOK`, `ElectionSafety`, `VotesAreBacked`, `LeaderKeepsItsTerm` | one leader per term, on real votes, deposed only by a higher term |

Five runs end in a violation. Each checks one sentence the repository says of
itself and shows an execution of the code that breaks it:

| Run | What the repository says | What happens |
|---|---|---|
| `monitor_removal_race` | misses are *consecutive* (README.md:246) | a heartbeat between the last miss and `remove_node` resets the count; the node is removed all the same |
| `worker_survives_restart` | workers survive broker restarts (ARCHITECTURE.md:256) | the reconnection cancels the claim in flight, which ends the claim loop |
| `broker_worker_crash` | crashes trigger automatic reclamation (README.md:4-5) | a task claimed by a crashed worker is in no queue, and nothing looks for it |
| `broker_poison` | a task that fails `max_retries` times is buried (ARCHITECTURE.md:341) | every claim says attempt 1, so the count never gets there |
| `broker_duplicate` | snapshot check and lock prevent duplicate injection (ARCHITECTURE.md:175-177) | overlapping submissions: the second checked before the first saved, and takes the lock a failing worker has released |

### Other differences between the code and what is said of it

Seen while modelling, and part of the models, without a run of their own:

- A silent node is removed after up to four intervals, about 40 s with the defaults, not
  after `THRESHOLD` of them, 30 s (README.md:57, ARCHITECTURE.md:206-207 and :336).
- The monitor removes a node; `mark_dead`, which ARCHITECTURE.md:198-200 names, is
  never called by it. A node is dead at three misses whatever
  `MISSED_HEARTBEAT_THRESHOLD` says (`hash_ring.rs:258`, README.md:246): with a larger one it
  leaves `active_nodes()` and is never counted to the threshold.
- A draining node is to accept no new assignments (README.md:127-129, ARCHITECTURE.md:132);
  its next claim or heartbeat makes it healthy (`hash_ring.rs:124`, `:220`).
- The ring of a restarted broker is rebuilt by claims, not from Redis (ARCHITECTURE.md:338).
- A retry's entry has an empty type and payload, which nothing fills in, though the comments
  beside them say so (`api.rs:276-277`).
- `RPUSH` errors are ignored (`api.rs:282-286`) and the answer of an `LPOP` may be lost
  (`api.rs:102`); ARCHITECTURE.md:339 says that Redis errors lose no data. The snapshot
  remains (`LossIsRemembered`), and nothing makes a task of it again.
- A broker crash is to lose no task data (ARCHITECTURE.md:349-350); one inside `fail_task`
  (`api.rs:268`) leaves the snapshot, and the task in no queue.
- Double delivery is said to need an acknowledgment-based queue (README.md:133-134). A worker whose
  CompleteTask was served but answered late reports a failure (`worker.py:255`, `:385`), and the
  completed task is queued again.
- The lock that is to prevent duplicate injection (ARCHITECTURE.md:175-177) does not outlast a
  stalled audit write (`state.rs:219`).

### Bounds

- `monitor`: two workers that may crash, one punctual one whose cpu may be
  saturated; `Interval = 2`, `MaxLate = 1`, `Threshold = 3` (the default, and
  the ring's own limit). Two unpunctual workers are enough for a scan to be between
  two nodes, with one of them doomed, when the other is heard. Ages need
  no bound: the monitor removes a silent node before they grow, which is
  itself one of the properties. About 78,000 states.
- `broker`, `broker_faults`: two tasks, of which `t1` may be submitted twice,
  one failing execution per task (`MaxFails`), two workers with one task at a time.
  Two tasks are needed to say that a fault on one spares the other, two
  submissions for everything about locks and snapshots, two workers for a retry
  that moves. `Overlap = FALSE`: a client does not submit a task while it
  waits for an earlier submission of it (`broker_duplicate` does). About 46,000 and
  1.2 million states. The same safety properties were also checked with three faults
  on one task and with two faults on two tasks submitted once.
- `ring`: three nodes with two virtual nodes each on ten positions, so
  crowded that a third salt is needed; `Threshold = 1`, so that every counted miss is followed by a
  removal, with anything in between. One worker's heartbeats may say it is
  at capacity, another's that its cpu is saturated. About 34,000 states; each step is compared on
  the routes of all tasks, which is most of the time. The run
  also evaluates `RoomForAll` on these hash values. The theorems hold for all thresholds.
- `worker`: two tasks, two slots and two drafts at most. Two executions beside a
  claim are what a close can interrupt together; two drafts are one turn of the
  revision loop. About 92,000 states.
- `lock`: two attempts, of which one spawns a renewer; a lease of 2, which
  leaves no margin, and of 7, which leaves just enough; an interval below the
  lease and one above it; a jitter and a delay of one. A second
  renewer was checked for safety only (2.2 million states). About 196,000 states.
- `raft`: five nodes, so that a candidate may have votes and not yet a majority; two terms of
  elections (`MaxTerm`). Nodes are interchangeable. About 30,000 states.

Deadlock checking is off where the system really may stop: in `raft`, when
every node has reached `MaxTerm`, and in `worker`, when the process has ended.

### Fairness

- `monitor`: time passes, the monitor's task is scheduled, and punctual workers send
  their heartbeats. The monitor's loop has no exit and awaits only the timer and
  the locks. `CrashedNodeLeaves` assumes nothing of the other workers.
- `broker`: handlers and worker tasks are scheduled (per task), workers keep
  claiming, and a crashed worker is started again. An execution ends because
  `worker.py` bounds it by the lease. Nothing is assumed of submitters, of the
  ring, of expiry or of faults, except that a routed task's node does claim.
- `worker`: the event loop runs what is ready; every call has a time limit and
  every execution its lease. Two assumptions are about repetition: between two reconnections the stub is
  set for at least two pauses of `HEARTBEAT_INTERVAL`, in which the claim loop,
  which looks every second or two, gets to a claim (its backoff after failed
  claims can reach a minute, and then takes longer), and of the
  claims made for ever one is served. Connecting and heartbeats may fail for
  ever, and nothing sends a signal. `ShutdownEnds` uses only the first.
- `lock`: time passes and the renewer's task is run. Commands may be late for ever.
- `ring`: none; all its properties are safety.
- `raft`: none; only safety is claimed. Elections are not live without
  assumptions about the random timeouts, which the program does not use yet.

## 4. What is proved

TLAPS proves the following for every value of the constants. The proofs follow the
same plan: an inductive invariant, checked by TLC first, one lemma per part
of it with one step per action, and a temporal theorem that puts them together.

**`HeartbeatMonitorProofs`**, for any set of workers, readings, `Interval` and
`MaxLate < Interval`:

| Theorem | Establishes | Threshold |
|---|---|---|
| `TypeCorrect` | `TypeOK` | any |
| `SilenceBound` | `MissesMeanSilence` | any |
| `PunctualKept` | `PunctualNodeKept` | any |
| `DetectionBound` | `DetectedInTime` | 1 to 3 |
| `RestIsClean` | `NoneOverdueAtRest` | 1 to 3 |

None of the timing bounds is inductive alone: how silent a node with m misses
must be depends on whether the current tick has counted it. `Counted(n)` says
so. `SilenceInv` bounds the age from below and `DetectionInv` from above, by
m intervals give or take one, at every second of the interval and on either
side of the count. `StatusInv` ties the status to the count, `ControlInv` says
what the monitor can have pending and how late it can be, `OverdueInv` that a
count at the threshold is about to be acted on, `PunctualInv` that a punctual
worker is never among the stale. The last two theorems need the
threshold to be one the ring's own limit of 3 does not pre-empt: with a larger
`MISSED_HEARTBEAT_THRESHOLD` a node is dead at 3 misses, is no
longer among the alive nodes the monitor copies, and is never counted to the threshold.

**`RaftElectionProofs`**, for any cluster `RaftNode::new` accepts (at least three nodes, an odd number) and any
`MaxTerm`:

| Theorem | Establishes |
|---|---|
| `TypeCorrect` | `TypeOK`, with no count past the majority |
| `SafeElections` | `ElectionSafety` |
| `BackedVotes` | `VotesAreBacked` |
| `LeadersKeep` | `LeaderKeepsItsTerm` |

A count of votes is used after its voters have moved on, so the invariant speaks
of all votes given so far (`Voted`). `VoteInv`: a vote binds its voter while it
stays in the term. `OneVoteInv`: so a voter gives one per term. `CountInv`: a
count stands for as many voters. `RoleInv`: a candidate is short of the majority, a
leader has it. `BeatInv`: whoever ever led a term has a majority of that term's
votes. Two majorities share a member (`MajorityFacts`), which gives election
safety, and with it that no heartbeat of its own term can reach a leader.

**`HashRingProofs`**, for any nodes, capacities, readings, threshold, number of
virtual nodes and size of the ring, and any hash values, full rings included:

| Theorem | Establishes |
|---|---|
| `TypeCorrect` | `TypeOK` |
| `RingMatchesTable` | `OwnersAreKnown` |
| `MembersKeepTheirPositions` | `PositionsKept` |
| `UnfitNeverRouted` | `UnfitNotRouted` |
| `NeverRefusedInVain` | `RoutedWhileAnyoneCan` |
| `OnlyTheNodesOwnTasksMove` | `OnlyItsTasksMove` |
| `MembersHaveTheirShare` | `FullShare`, from `RoomForAll` |

Two facts carry these. `StepShape`: a step changes one node's entry, and places
that node on vacant positions as it enters the table or withdraws all it owns as
it leaves. `FirstIsOne`: over positions, if there are any, the walk ends at
exactly one, which rests on `Distance` being injective on the ring and on every
set of numbers having a least. So walks over sets that differ in one node's
positions end at the same node or at that one (`WalksDifferByOne`). `UnfitInv`
ties what has happened to a node to the fields the walk reads.

`MembersHaveTheirShare` has a hypothesis about the hash values: `RoomForAll` says
that wherever the other virtual nodes went, each to one of its own four keys, they
leave one key of this one free. Without it the code drops virtual nodes, and the
property is false; TLC evaluates it for the values of `ring`. `ShareInv` says that for
some choice of a key per virtual node every member owns exactly the chosen positions,
all different; a node that joins extends the choice, and the number of positions
follows from the bijection with its virtual nodes.

**`TaskBrokerProofs`**, for any tasks, nodes, bounds, faults and overlapping
submissions:

| Theorem | Establishes |
|---|---|
| `TypeCorrect` | `TypeOK` |
| `PlacesCorrect` | `RetriesDoNotMultiply` |
| `LossCovered` | `LossIsRemembered` |

`TypeInv` adds to `TypeOK` that submissions are numbered, so that nothing is about a
submission that was not made. `PlaceInv` is the protocol behind `PlacesCorrect`: of the
handlers and executions of one piece of work, only one may push it (`CallsApart`,
`WorkApart`, `CallOrWork`); a list holds it once, and only when nobody else has it
(`QueueApart`, `QueueAlone`); what is buried is nowhere (`BuriedAlone`, `PurgeBuried`);
and an execution that waits for an answer has at most one call, which nobody else
waits for (`Attended`, `Attending`, `AsksApart`). Each part is needed for another one to be
inductive: that a completion in flight is its worker's is what keeps a report after its
timeout from making a second piece. `LossCovered` adds `ForgetInv`: a handler that is about to
release the lock and delete the snapshot of a completion is about a completion that
reached the broker; and `PlaceInv` has that one about to delete the snapshot of a
burial is about a buried piece.

**`TaskLedgerProofs`**, for any tasks, nodes and bounds:

| Theorem | Establishes | Assumes |
|---|---|---|
| `ClosedCorrect` | `ClosedStaysClosed` | - |
| `LossCorrect` | `NothingLost` | - |
| `SubmissionsCorrect` | `OneSubmissionOpen` | `Overlap = FALSE` |
| `SnapshotCorrect` | `SnapshotCoversWork` | `Overlap = FALSE` |
| `RefusalCorrect` | `RefusalHasOwner` | `Overlap = FALSE` |
| `LedgerImplemented` | `Spec => Ledger!Init /\ [][Ledger!Next]_(Ledger!ledger)` | `Overlap = FALSE`, `Faults = {}` |

`Overlap = FALSE` says that a client does not submit a task while its earlier submission of
it is unanswered. It is about clients, not about the broker, and it cannot be
dropped: `broker_duplicate` is the counterexample. Any faults may happen, in any
number, except in the last theorem; the properties speak of the tasks they did not
touch. The refinement is about executions without faults, since a fault may lose a
task, which the ledger does not allow.

`CalmInv` says, of a task no fault touched, that somebody waits for each of its calls,
that of a completed piece only the completion's own steps are left, and where an accepted piece
can be. `SingleInv` adds how submissions exclude each other: one piece is past the
point where its submission takes the snapshot, it is the one that has it, and it
gives the lock back before the snapshot goes or the piece is pushed again.
Both speak of one task at a time. So the proofs first show, once for each action of the
model, what it does to one task (`TaskStep`, in terms of the calls, the
executions and the entries of that task) and that all others are left as they are
(`Idle`); what a new fault touches leaves the claim. The invariants and
the refinement are then proved about `TaskStep`, without the rest of the system
(`Course`). A step of the ledger is read off from the piece that opened or closed.

**`TaskLockProofs`**, for any attempts, leases, intervals, jitter and delay:

| Theorem | Establishes |
|---|---|
| `TypeCorrect` | `TypeOK` |
| `RowsCorrect` | `CompletedOnce` |
| `RenewalCorrect` | `RenewedInTime` |
| `FencingCorrect` | `FencedByToken` |

`WireInv`: a command somebody waits for is on the wire or answered, and never both.
`TokenInv`: an attempt that had the lock sends no SET again, so a lock that
its release deleted does not come back, and its answer makes one row. `TimeInv` bounds the
time a lease has left at each point of the renewer's loop, which is where
`Margin` comes from: asleep, more than the rest of the sleep and one call; in
a call, more than the rest of it; answered, the lease less the delay of the answer. It
needs that no renewal of a live renewer is late: a late one could be served after
its lock was lost and got again.

**`WorkerProofs`**, for any tasks, `max_concurrent` and `MAX_REVISIONS`:

| Theorem | Establishes |
|---|---|
| `TypeCorrect` | `TypeOK` |
| `SlotsCorrect` | `SlotsAccounted` |
| `AcknowledgedCorrect` | `AckedNeverFailed` |
| `RevisionsCorrect` | `RevisionsBounded` |
| `OutcomesCorrect` | `OutcomeReported` |
| `CompletionsCorrect` | `CompletedIsWhole` |

`OutcomeInv` says of each task what the broker was told and what the graph has
where its execution is; its part `PipeOK` relates, at every node of the graph, the drafts
made to the revisions counted and the verdict. It is inductive because what a step
does to a task depends only on where that task is (`TaskMove`), the steps that cancel
several at once included. `LoopInv` says that an assignment comes from a claim that was
served, and `SlotInv` counts: the steps that end executions return as many slots.

**Model-checked only.** The liveness properties (`CrashedNodeLeaves`,
`AcceptedIsResolved`, `ShutdownEnds`, `KeepsClaiming`, `NothingLingers`) and the
fairness part of `ImplementsLedger` are out of TLAPS's reach; TLC checks them on the
instances above. Every other property of a passing run is a theorem.

## 5. What is not modelled

- **How fnv1a spreads keys.** `HashRing` takes its values as given, so the
  balance of the ring is not a property. A ring so full that all four keys of a
  virtual node are taken, where the code skips it, is left to the
  values: `FullShare` holds where three salts are enough (`RoomForAll`).
- **The ring inside the broker.** `TaskBroker` lets `get_node` answer with any
  routable node, and lets the set change at any time; it sees `HashRing` as some
  such sequence. It keeps no lock tokens either, since `complete_task` and
  `fail_task` release without one.
- **Audit log.** Rows are never read, and errors writing one are ignored. `TaskLock` counts
  the COMPLETED rows; that the write has no time limit is why a lock may expire
  under a submission.
- **What the model is asked and answers.** Prompts, texts, token counts and the
  file an execution writes; an exception from any of them is `ExecutionFails`.
- **Redis's own failures.** Keys survive a broker restart; Redis itself is
  taken to keep what it acknowledged.
- **`list_dlq`, `dlq_size`, `ping`** only read; **`pop_dlq`** is never called.
- **`GetSystemStatus`, the dashboard and the example clients** only read or
  call once; **generated code** and **start-up** have no behaviour of their own.

## 6. Plan

Done, in this order: `NodeTable`, `HeartbeatMonitor` and its proofs,
`TaskLedger` and `TaskBroker`, `RaftElection` and its proofs, `HashRing`
and its proofs, `AgentPipeline` and `Worker`, `TaskLock`.

The proofs of `TaskBroker`, of its refinement of `TaskLedger`, of `TaskLock` and of
`Worker` followed the models.

Next:

1. What of `LedgerImplemented` survives faults: a ledger in which a task that a fault
   touched may be lost, implemented under any `Faults`.
2. `RoomForAll` from a bound on the collisions of the hash values that is easier to
   check than by enumeration.

## 7. Running the checks

    tlc -config monitor.cfg MCHeartbeatMonitor
    tlc -config broker.cfg MCTaskBroker
    tlc -config broker_faults.cfg MCTaskBroker
    tlc -config ring.cfg MCHashRing
    tlc -config worker.cfg MCWorker
    tlc -config lock.cfg MCTaskLock
    tlc -config raft.cfg MCRaftElection
    tlapm HeartbeatMonitorProofs.tla
    tlapm RaftElectionProofs.tla
    tlapm HashRingProofs.tla
    tlapm TaskBrokerProofs.tla
    tlapm TaskLedgerProofs.tla
    tlapm TaskLockProofs.tla
    tlapm WorkerProofs.tla

The module of every other configuration is the `MC` module of its prefix
(`monitor_...`, `broker_...`, `worker_...`). The longest run takes about a minute and a half
on two cores.
