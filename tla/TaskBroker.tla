----------------------------- MODULE TaskBroker -----------------------------
(***************************************************************************)
(* The life of a task in the broker: SubmitTask, ClaimTask, CompleteTask   *)
(* and FailTask (src/src/api.rs) over the Redis keys GlobalState keeps     *)
(* (src/src/core/state.rs), with the Python workers that call them         *)
(* (src/cortex-swarm/worker.py).                                           *)
(*                                                                         *)
(* A handler is a record in calls. Every Redis command it issues is a step *)
(* of its own and the handlers interleave between commands; the ring is    *)
(* consulted in the same step as the command before it. ClaimTask issues   *)
(* one command, so it is one step.                                         *)
(*                                                                         *)
(* An item is a task on its way: sub tells which submission put it there   *)
(* and is carried along by retries, so <<task, sub>> names one accepted    *)
(* piece of work for its whole life. The code has no such name.            *)
(*                                                                         *)
(* Faults are steps that name the tasks they touch; hit collects them. The *)
(* safety properties say what holds of the tasks no fault touched.         *)
(***************************************************************************)
EXTENDS Naturals, Sequences, FiniteSets

CONSTANTS
  Task, Node,
  MaxSubmits,     \* bound: submissions of each task
  MaxFails,       \* bound: executions of each task that fail
  MaxConcurrent,  \* a worker's max_concurrent
  Overlap,        \* may a task be submitted while a submission of it waits?
  Faults,         \* the kinds of fault that occur
  MaxFaults       \* bound: how many faults occur

FaultKinds == {"redis", "timeout", "crash", "restart", "expiry"}

ASSUME BoundAssumption ==
  /\ MaxSubmits \in [Task -> Nat] /\ MaxFails \in Nat /\ MaxFaults \in Nat
  /\ MaxConcurrent \in Nat \ {0}
  /\ Overlap \in BOOLEAN
  /\ Faults \subseteq FaultKinds

ASSUME NodeAssumption == "client" \notin Node

VARIABLES
  lock,      \* tasks with a lock key in Redis
  snap,      \* tasks with a snapshot key in Redis
  queue,     \* the assigned-task list of each node, in Redis
  dlq,       \* the dead-letter list, in Redis
  routable,  \* the nodes get_node may return now
  calls,     \* the handlers in progress in the broker
  work,      \* the tasks each worker is executing or reporting on
  up,        \* the workers that are running
  subs,      \* submissions of each task so far
  fails,     \* failed executions of each task so far
  accepted,  \* what a submitter was told is accepted
  done,      \* what a completion has reached the broker for
  hit,       \* tasks a fault has touched
  faults     \* faults so far

redis == <<lock, snap, queue, dlq>>
worker == <<work, up>>
ghosts == <<subs, fails, accepted, done>>
env == <<hit, faults>>
vars == <<redis, routable, calls, worker, ghosts, env>>

Piece == UNION {{t} \X (1..MaxSubmits[t]) : t \in Task}

Item == [task : Task, sub : Nat \ {0}, attempt : {1, 2}]

SubmitPc == {"check", "lock", "save", "push"}
CompletePc == {"seen", "unlock", "forget"}
FailPc == {"free", "requeue", "bury", "purge"}

\* from is the worker that called, or "client"; dest is the node routed to.
Call == [pc : SubmitPc \cup CompletePc \cup FailPc,
         from : Node \cup {"client"}, dest : Node \cup {"none"},
         item : Item, waiting : BOOLEAN]

Work == [node : Node, item : Item, st : {"running", "completing", "reporting", "failing"}]

PieceOf(item) == <<item.task, item.sub>>

Init ==
  /\ lock = {} /\ snap = {} /\ dlq = {}
  /\ queue = [n \in Node |-> << >>]
  /\ routable = {}
  /\ calls = {}
  /\ work = {}
  /\ up = Node
  /\ subs = [t \in Task |-> 0]
  /\ fails = [t \in Task |-> 0]
  /\ accepted = {} /\ done = {}
  /\ hit = {} /\ faults = 0

-----------------------------------------------------------------------------
\* A Redis command succeeds, fails without effect, or takes effect and is
\* reported as an error (REDIS_CMD_TIMEOUT, a broken connection).
Outcome == {"ok", "failed", "unknown"}

Effective(o) == o # "failed"

Fault(kind, tasks) ==
  /\ kind \in Faults
  /\ faults < MaxFaults
  /\ faults' = faults + 1
  /\ hit' = hit \cup tasks

Command(o, c) ==
  \/ o = "ok" /\ UNCHANGED env
  \/ o # "ok" /\ Fault("redis", {c.item.task})

Goto(c, pc) == calls' = (calls \ {c}) \cup {[c EXCEPT !.pc = pc]}

GotoWith(c, pc, n) ==
  calls' = (calls \ {c}) \cup {[c EXCEPT !.pc = pc, !.dest = n]}

Return(c) == calls' = calls \ {c}

WorkOf(c) == {w \in work : w.node = c.from /\ PieceOf(w.item) = PieceOf(c.item)}

\* The worker that still waits for c learns the outcome and is done with the task.
Release(c) == work' = IF c.waiting THEN work \ WorkOf(c) ELSE work

Push(n, item) == [queue EXCEPT ![n] = Append(@, item)]

-----------------------------------------------------------------------------
\* SubmitTask. A submission of its own kind of client: it retries as it likes.
Submit(t) ==
  /\ subs[t] < MaxSubmits[t]
  /\ Overlap \/ \A c \in calls : c.pc \in SubmitPc /\ c.item.task = t => ~c.waiting
  /\ subs' = [subs EXCEPT ![t] = @ + 1]
  /\ calls' = calls \cup
       {[pc |-> "check", from |-> "client", dest |-> "none", waiting |-> TRUE,
         item |-> [task |-> t, sub |-> subs[t] + 1, attempt |-> 1]]}
  /\ UNCHANGED <<redis, routable, worker, fails, accepted, done, env>>

\* Mutant of Check: the snapshot is not looked at.
CheckIgnoresSnapshot(c) ==
  /\ c.pc = "check"
  /\ \/ routable = {} /\ Return(c)
     \/ \E n \in routable : GotoWith(c, "lock", n)
  /\ UNCHANGED <<redis, routable, worker, ghosts, env>>

\* A snapshot refuses the submission; an error reading it does not. Then route.
Check(c) ==
  /\ c.pc = "check"
  /\ \E o \in {"ok", "failed"} :
       /\ Command(o, c)
       /\ \/ /\ (o = "ok" /\ c.item.task \in snap) \/ routable = {}
             /\ Return(c)
          \/ /\ o = "ok" => c.item.task \notin snap
             /\ \E n \in routable : GotoWith(c, "lock", n)
  /\ UNCHANGED <<redis, routable, worker, ghosts>>

\* Mutant of Lock: the snapshot is left out.
LockSkipsSave(c) ==
  /\ c.pc = "lock"
  /\ lock' = lock \cup {c.item.task}
  /\ IF c.item.task \notin lock THEN Goto(c, "push") ELSE Return(c)
  /\ UNCHANGED <<snap, queue, dlq, routable, worker, ghosts, env>>

\* SET NX PX: taken only if no one holds it.
Lock(c) ==
  /\ c.pc = "lock"
  /\ \E o \in Outcome :
       /\ Command(o, c)
       /\ lock' = IF Effective(o) THEN lock \cup {c.item.task} ELSE lock
       /\ IF o = "ok" /\ c.item.task \notin lock THEN Goto(c, "save") ELSE Return(c)
  /\ UNCHANGED <<snap, queue, dlq, routable, worker, ghosts>>

Save(c) ==
  /\ c.pc = "save"
  /\ \E o \in Outcome :
       /\ Command(o, c)
       /\ snap' = IF Effective(o) THEN snap \cup {c.item.task} ELSE snap
       /\ IF o = "ok" THEN Goto(c, "push") ELSE Return(c)
  /\ UNCHANGED <<lock, queue, dlq, routable, worker, ghosts>>

Enqueue(c) ==
  /\ c.pc = "push"
  /\ \E o \in Outcome :
       /\ Command(o, c)
       /\ queue' = IF Effective(o) THEN Push(c.dest, c.item) ELSE queue
       /\ accepted' = IF o = "ok" /\ c.waiting
                      THEN accepted \cup {PieceOf(c.item)} ELSE accepted
  /\ Return(c)
  /\ UNCHANGED <<lock, snap, dlq, routable, worker, subs, fails, done>>

-----------------------------------------------------------------------------
Busy(n) == Cardinality({w \in work : w.node = n})

\* Mutant of Claim: the entry is read and not popped.
ClaimPeeks(n) ==
  /\ n \in up
  /\ Busy(n) < MaxConcurrent
  /\ queue[n] # << >>
  /\ work' = work \cup
       {[node |-> n, item |-> [Head(queue[n]) EXCEPT !.attempt = 1], st |-> "running"]}
  /\ UNCHANGED <<redis, routable, calls, up, ghosts, env>>

\* ClaimTask with something to claim. The assignment always says attempt 1, and
\* what add_node does to the ring is one of the changes RouteChange makes.
Claim(n) ==
  /\ n \in up
  /\ Busy(n) < MaxConcurrent
  /\ queue[n] # << >>
  /\ queue' = [queue EXCEPT ![n] = Tail(@)]
  /\ work' = work \cup
       {[node |-> n, item |-> [Head(queue[n]) EXCEPT !.attempt = 1], st |-> "running"]}
  /\ UNCHANGED <<lock, snap, dlq, routable, calls, up, ghosts, env>>

\* The entry is popped and the assignment does not reach the worker: the command
\* timed out at the broker (an empty assignment is returned) or the call did.
ClaimLost(n) ==
  /\ n \in up
  /\ Busy(n) < MaxConcurrent
  /\ queue[n] # << >>
  /\ \E kind \in {"redis", "timeout"} : Fault(kind, {Head(queue[n]).task})
  /\ queue' = [queue EXCEPT ![n] = Tail(@)]
  /\ UNCHANGED <<lock, snap, dlq, routable, calls, worker, ghosts>>

-----------------------------------------------------------------------------
Turn(w, st) == work' = (work \ {w}) \cup {[w EXCEPT !.st = st]}

Ask(w, pc) ==
  calls' = calls \cup {[pc |-> pc, from |-> w.node, dest |-> "none",
                        item |-> w.item, waiting |-> TRUE]}

\* The pipeline finished; the worker calls CompleteTask.
Complete(w) ==
  /\ w.st = "running"
  /\ Turn(w, "completing")
  /\ Ask(w, "seen")
  /\ UNCHANGED <<redis, routable, up, ghosts, env>>

\* The pipeline raised, or its lease ran out; the worker calls FailTask.
Fail(w) ==
  /\ w.st = "running"
  /\ fails[w.item.task] < MaxFails
  /\ fails' = [fails EXCEPT ![w.item.task] = @ + 1]
  /\ Turn(w, "failing")
  /\ Ask(w, "free")
  /\ UNCHANGED <<redis, routable, up, subs, accepted, done, env>>

\* CompleteTask timed out or broke, which the worker reports as a failure.
Report(w) ==
  /\ w.st = "reporting"
  /\ Turn(w, "failing")
  /\ Ask(w, "free")
  /\ UNCHANGED <<redis, routable, up, ghosts, env>>

\* The worker has no connection to report on, and drops the report.
ReportLost(w) ==
  /\ w.st = "reporting"
  /\ Fault("timeout", {w.item.task})
  /\ work' = work \ {w}
  /\ UNCHANGED <<redis, routable, calls, up, ghosts>>

-----------------------------------------------------------------------------
\* CompleteTask: no snapshot, or an error reading it, is taken for "already done".
Seen(c) ==
  /\ c.pc = "seen"
  /\ \E o \in {"ok", "failed"} :
       /\ Command(o, c)
       /\ \/ /\ o = "ok" /\ c.item.task \in snap
             /\ Goto(c, "unlock")
             /\ UNCHANGED work
          \/ /\ o = "ok" => c.item.task \notin snap
             /\ Return(c)
             /\ Release(c)
  /\ done' = done \cup {PieceOf(c.item)}
  /\ UNCHANGED <<redis, routable, up, subs, fails, accepted>>

Unlock(c) ==
  /\ c.pc = "unlock"
  /\ \E o \in Outcome :
       /\ Command(o, c)
       /\ lock' = IF Effective(o) THEN lock \ {c.item.task} ELSE lock
  /\ Goto(c, "forget")
  /\ UNCHANGED <<snap, queue, dlq, routable, worker, ghosts>>

Forget(c) ==
  /\ c.pc \in {"forget", "purge"}
  /\ \E o \in Outcome :
       /\ Command(o, c)
       /\ snap' = IF Effective(o) THEN snap \ {c.item.task} ELSE snap
  /\ Return(c)
  /\ Release(c)
  /\ UNCHANGED <<lock, queue, dlq, routable, up, ghosts>>

\* Mutant of Free: with no routable node the task is given up, not buried.
FreeGivesUp(c) ==
  /\ c.pc = "free"
  /\ lock' = lock \ {c.item.task}
  /\ \/ (\E n \in routable : GotoWith(c, "requeue", n)) /\ UNCHANGED work
     \/ routable = {} /\ Return(c) /\ Release(c)
  /\ UNCHANGED <<snap, queue, dlq, routable, up, ghosts, env>>

\* FailTask: drop the lock, then retry on a routable node if attempts are left.
\* The worker always sends is_retryable = TRUE.
Free(c) ==
  /\ c.pc = "free"
  /\ \E o \in Outcome :
       /\ Command(o, c)
       /\ lock' = IF Effective(o) THEN lock \ {c.item.task} ELSE lock
  /\ \/ c.item.attempt < 3 /\ \E n \in routable : GotoWith(c, "requeue", n)
     \/ (c.item.attempt >= 3 \/ routable = {}) /\ Goto(c, "bury")
  /\ UNCHANGED <<snap, queue, dlq, routable, worker, ghosts>>

\* Mutants of Requeue: the attempt is counted twice; the early return is missing.
RequeueCountsTwice(c) ==
  /\ c.pc = "requeue"
  /\ queue' = Push(c.dest, [c.item EXCEPT !.attempt = @ + 2])
  /\ Return(c)
  /\ Release(c)
  /\ UNCHANGED <<lock, snap, dlq, routable, up, ghosts, env>>

RequeueFallsThrough(c) ==
  /\ c.pc = "requeue"
  /\ queue' = Push(c.dest, [c.item EXCEPT !.attempt = @ + 1])
  /\ Goto(c, "bury")
  /\ UNCHANGED <<lock, snap, dlq, routable, worker, ghosts, env>>

\* The retry entry is built afresh, with an empty payload; only its attempt is kept here.
Requeue(c) ==
  /\ c.pc = "requeue"
  /\ \E o \in Outcome :
       /\ Command(o, c)
       /\ queue' = IF Effective(o)
                   THEN Push(c.dest, [c.item EXCEPT !.attempt = @ + 1])
                   ELSE queue
  /\ Return(c)
  /\ Release(c)
  /\ UNCHANGED <<lock, snap, dlq, routable, up, ghosts>>

\* Mutant of Bury: the snapshot of a buried task is kept.
BuryKeepsSnapshot(c) ==
  /\ c.pc = "bury"
  /\ dlq' = dlq \cup {PieceOf(c.item)}
  /\ Return(c)
  /\ Release(c)
  /\ UNCHANGED <<lock, snap, queue, routable, up, ghosts, env>>

\* Mutant of Bury: the error of push_dlq is ignored like the others.
BuryAnyway(c) ==
  /\ c.pc = "bury"
  /\ \E o \in Outcome :
       /\ Command(o, c)
       /\ dlq' = IF Effective(o) THEN dlq \cup {PieceOf(c.item)} ELSE dlq
  /\ Goto(c, "purge")
  /\ UNCHANGED <<lock, snap, queue, routable, worker, ghosts>>

\* push_dlq decides the reply: an error leaves the snapshot behind.
Bury(c) ==
  /\ c.pc = "bury"
  /\ \E o \in Outcome :
       /\ Command(o, c)
       /\ dlq' = IF Effective(o) THEN dlq \cup {PieceOf(c.item)} ELSE dlq
       /\ \/ o = "ok" /\ Goto(c, "purge") /\ UNCHANGED work
          \/ o # "ok" /\ Return(c) /\ Release(c)
  /\ UNCHANGED <<lock, snap, queue, routable, up, ghosts>>

-----------------------------------------------------------------------------
\* Heartbeats, claims, completions and the monitor change whom get_node accepts.
\* Which nodes those are is any set of nodes, at any time.
RouteChange ==
  /\ \E n \in Node : routable' \in {routable \cup {n}, routable \ {n}}
  /\ UNCHANGED <<redis, calls, worker, ghosts, env>>

\* PX of the lock: at least 60 s, which a queued task easily outlives. A submission
\* in progress does not, unless it stalls with the lock in its hands: its commands take
\* 800 ms each at most, but the audit write inside acquire_task_lock, which follows
\* the SET, is unbounded (state.rs:219).
LockExpiry ==
  /\ \E t \in lock :
       /\ \/ \A c \in calls : c.item.task = t => c.pc \notin SubmitPc
          \/ "expiry" \in Faults /\ \E c \in calls : c.item.task = t /\ c.pc \in {"save", "push"}
       /\ lock' = lock \ {t}
  /\ UNCHANGED <<snap, queue, dlq, routable, calls, worker, ghosts, env>>

\* EX of the snapshot: the lease and an hour more.
SnapshotExpiry ==
  /\ \E t \in snap : snap' = snap \ {t} /\ Fault("expiry", {t})
  /\ UNCHANGED <<lock, queue, dlq, routable, calls, worker, ghosts>>

\* A caller gives up on its call. A worker reports a completion it gave up on as
\* a failure, and forgets about a failure report it gave up on.
Timeout(c) ==
  /\ c.waiting
  /\ Fault("timeout", {c.item.task})
  /\ calls' = (calls \ {c}) \cup {[c EXCEPT !.waiting = FALSE]}
  /\ work' = (work \ WorkOf(c)) \cup
       {[w EXCEPT !.st = "reporting"] :
          w \in IF c.pc \in CompletePc THEN WorkOf(c) ELSE {}}
  /\ UNCHANGED <<redis, routable, up, ghosts>>

\* The server drops a handler whose caller is gone, at whichever await it is in.
Drop(c) ==
  /\ ~c.waiting
  /\ Return(c)
  /\ UNCHANGED <<redis, routable, worker, ghosts, env>>

Crash(n) ==
  /\ n \in up
  /\ Fault("crash", {w.item.task : w \in {v \in work : v.node = n}})
  /\ up' = up \ {n}
  /\ work' = {w \in work : w.node # n}
  /\ calls' = {IF c.from = n THEN [c EXCEPT !.waiting = FALSE] ELSE c : c \in calls}
  /\ UNCHANGED <<redis, routable, ghosts>>

Restart(n) ==
  /\ n \in Node \ up
  /\ up' = up \cup {n}
  /\ UNCHANGED <<redis, routable, calls, work, ghosts, env>>

\* The broker dies with its handlers and its ring; Redis and the workers live on.
BrokerRestart ==
  /\ Fault("restart", {c.item.task : c \in calls})
  /\ calls' = {}
  /\ routable' = {}
  /\ work' = {IF w.st = "completing" THEN [w EXCEPT !.st = "reporting"] ELSE w :
                w \in {v \in work : v.st # "failing"}}
  /\ UNCHANGED <<redis, up, ghosts>>

-----------------------------------------------------------------------------
HandlerStep(c) ==
  \/ Check(c) \/ Lock(c) \/ Save(c) \/ Enqueue(c)
  \/ Seen(c) \/ Unlock(c) \/ Forget(c)
  \/ Free(c) \/ Requeue(c) \/ Bury(c)

WorkerStep(w) == Complete(w) \/ Fail(w) \/ Report(w)

Next ==
  \/ \E t \in Task : Submit(t)
  \/ \E n \in Node : Claim(n) \/ ClaimLost(n) \/ Crash(n) \/ Restart(n)
  \/ \E w \in work : WorkerStep(w) \/ ReportLost(w)
  \/ \E c \in calls : HandlerStep(c) \/ Timeout(c) \/ Drop(c)
  \/ RouteChange \/ LockExpiry \/ SnapshotExpiry \/ BrokerRestart

Spec == Init /\ [][Next]_vars

\* Handlers are scheduled, executions end within their lease, workers keep
\* claiming and are restarted when they die. Nobody has to submit anything, and
\* nothing is assumed of the ring, of expiry or of faults.
Fairness ==
  /\ \A t \in Task :
       /\ WF_vars(\E c \in calls : c.item.task = t /\ HandlerStep(c))
       /\ WF_vars(\E w \in work : w.item.task = t /\ WorkerStep(w))
  /\ \A n \in Node : WF_vars(Claim(n)) /\ WF_vars(Restart(n))

FairSpec == Spec /\ Fairness

-----------------------------------------------------------------------------
TypeOK ==
  /\ lock \subseteq Task /\ snap \subseteq Task
  /\ queue \in [Node -> Seq(Item)]
  /\ dlq \subseteq Piece
  /\ routable \subseteq Node
  /\ calls \subseteq Call
  /\ work \subseteq Work
  /\ up \subseteq Node
  /\ subs \in [Task -> Nat]
  /\ fails \in [Task -> 0..MaxFails]
  /\ accepted \subseteq Piece /\ done \subseteq Piece
  /\ hit \subseteq Task
  /\ faults \in 0..MaxFaults

\* The places a piece of work can be in, once it is in a queue: an entry of a list,
\* an execution not yet acknowledged, a failure not yet dealt with.
Slots == UNION {{n} \X DOMAIN queue[n] : n \in Node}

InQueue(p) == {s \in Slots : PieceOf(queue[s[1]][s[2]]) = p}
Executions(p) == {w \in work : PieceOf(w.item) = p /\ w.st # "failing"}
InFailure(p) == {c \in calls : PieceOf(c.item) = p /\ c.pc \in {"free", "requeue", "bury"}}

Places(p) ==
  Cardinality(InQueue(p)) + Cardinality(Executions(p)) + Cardinality(InFailure(p))

\* An execution the broker has had the completion of has nothing left to do.
InWork(p) == {w \in Executions(p) : p \notin done}

Open(p) == InQueue(p) \cup InWork(p) \cup InFailure(p) # {}

\* What a task will be worked on for, now or later.
Pieces(t) == {p \in Piece : p[1] = t /\ Open(p)}

\* A piece of work is never in two places: no sequence of retries, timeouts, crashes and
\* half-failed commands makes two of one, nor brings back one that was buried. This holds
\* of pieces that were completed as well, which a failure report can bring back.
RetriesDoNotMultiply ==
  \A p \in Piece : /\ Places(p) <= 1
                   /\ p \in dlq => Places(p) = 0

\* No two submissions of a task are open at once, so no two workers hold it.
OneSubmissionOpen ==
  \A t \in Task \ hit : Cardinality(Pieces(t)) <= 1

\* What the submitter was told is accepted is completed, buried, or still open.
\* A fault loses only tasks it touches: other tasks never pay for it.
NothingLost ==
  \A p \in accepted :
    p[1] \notin hit => Open(p) \/ p \in done \/ p \in dlq

\* What a fault loses it does not hide, as ARCHITECTURE.md:349-350 says of a crash, "Redis
\* retains task snapshots": whatever fails, times out or dies, the snapshot of a task goes
\* only when it expires, or after the task was completed or buried. (Not so of a task that
\* is submitted again: the completion of one submission may take the snapshot of another.)
LossIsRemembered ==
  [][ \A t \in snap :
        subs[t] = 1 =>
          t \in snap' \/ <<t, 1>> \in done' \cup dlq' \/ SnapshotExpiry ]_vars

\* Of a task no fault touched, a piece that was completed or buried is never open again.
ClosedStaysClosed ==
  \A p \in done \cup dlq : p[1] \notin hit => ~Open(p)

\* An open task has its snapshot. Without it a completion would be taken for a
\* duplicate and a resubmission would be let in beside it (api.rs:146, 211).
SnapshotCoversWork ==
  \A t \in Task \ hit : Pieces(t) # {} => t \in snap

\* What refuses a resubmission, a snapshot or a lock, has someone who will remove
\* it: an open piece, or a handler that is past it. Otherwise the client is told
\* ALREADY_EXISTS, for an hour, of a task nobody has.
RefusalHasOwner ==
  \A t \in (snap \cup lock) \ hit :
    \/ Pieces(t) # {}
    \/ \E c \in calls : /\ c.item.task = t
                        /\ c.pc \in {"save", "push", "unlock", "forget", "purge"}

\* The broker implements the ledger: the open tasks, and how each piece closed.
Ledger == INSTANCE TaskLedger WITH
  open <- {t \in Task : Pieces(t) # {}},
  completed <- [t \in Task |-> Cardinality({p \in done : p[1] = t})],
  buried <- [t \in Task |-> Cardinality({p \in dlq : p[1] = t})]

ImplementsLedger == Ledger!Spec

-----------------------------------------------------------------------------
\* README.md:4-5, "worker crashes trigger automatic task reclamation, not silent
\* data loss": what was accepted is completed or buried, crashes or not.
AcceptedIsResolved ==
  \A p \in Piece : p \in accepted ~> p \in done \cup dlq

\* ARCHITECTURE.md:341, "Poison payload | Task fails max_retries times | Moved to
\* DLQ": no task that failed three times waits for another execution.
PoisonLeavesTheQueues ==
  \A n \in Node : \A i \in 1..Len(queue[n]) : fails[queue[n][i].task] < 3

=============================================================================
