------------------------------- MODULE Worker -------------------------------
(***************************************************************************)
(* A worker process (src/cortex-swarm/worker.py): its start and shutdown,  *)
(* the heartbeat loop that also reconnects, the claim loop, and one        *)
(* execution per claimed task, all on one asyncio loop. Between two awaits *)
(* nothing else runs, so a step goes from one await to the next.           *)
(*                                                                         *)
(* A call to the broker is in flight from the step that makes it to the    *)
(* step that ends it. It ends with its answer, with an error or a timeout, *)
(* or cancelled; in the last two the broker may have served it or not.     *)
(* Closing a channel cancels the calls on it, and a cancelled call raises  *)
(* CancelledError where it is awaited, which `except Exception` and        *)
(* `except grpc.RpcError` let through (grpc.aio; external).                *)
(*                                                                         *)
(* The broker is seen through the calls it serves: a queue to claim from,  *)
(* and what it was told of each task.                                      *)
(***************************************************************************)
EXTENDS AgentPipeline, FiniteSets

CONSTANTS
  Task,
  MaxConcurrent   \* MAX_CONCURRENT

ASSUME ConcurrencyAssumption == MaxConcurrent \in Nat \ {0}
ASSUME TaskAssumption == "claim" \notin Task  \* the name of the claim loop's call

\* Failed heartbeats in a row that make the worker reconnect.
HeartbeatFailures == 3

VARIABLES
  main,      \* start(): connecting, serving, draining, stopped
  shutdown,  \* the shutdown event
  stub,      \* is self.stub set?
  dial,      \* _connect_with_retry: off, at the top of its loop, awaiting
  beat,      \* the heartbeat loop: off, idle, closing the channel, dialing, ended
  misses,    \* consecutive_failures
  claim,     \* the claim loop: off, idle, calling, served, ended, cancelled
  offer,     \* the task, if any, of the assignment a served claim will return
  st,        \* where each task is
  graph,     \* the state of each task's pipeline, while it is executed
  active,    \* _active_tasks_count
  stale,     \* calls in flight on a channel that was replaced and not closed
  told,      \* what the broker was told of each task
  acked,     \* tasks whose completion was acknowledged to the worker
  hurt       \* ghost: tasks that lost a call, or their worker

connection == <<stub, dial, beat, misses>>
ghosts == <<acked, hurt>>
exec == <<st, graph, active>>
vars == <<main, shutdown, connection, claim, offer, exec, stale, told, ghosts>>

\* queued and claimed are the broker's: in its list, or popped from it for a claim
\* in flight. All other tasks were handed to the worker.
TaskState == {"queued", "claimed", "running", "completing", "reporting", "over"}

Busy == {t \in Task : st[t] \in {"running", "completing", "reporting"}}

\* The tasks with a call in flight; the claim loop's call is named "claim".
Calling == {t \in Task : st[t] \in {"completing", "reporting"}}

InFlight == Calling \cup (IF claim \in {"calling", "served"} THEN {"claim"} ELSE {})

Init ==
  /\ main = "connecting"
  /\ shutdown = FALSE
  /\ stub = FALSE
  /\ dial = "top"
  /\ beat = "off"
  /\ misses = 0
  /\ claim = "off"
  /\ offer = {}
  /\ st = [t \in Task |-> "queued"]
  /\ graph = [t \in Task |-> InitialState]
  /\ active = 0
  /\ stale = {}
  /\ told = [t \in Task |-> {}]
  /\ acked = {}
  /\ hurt = {}

-----------------------------------------------------------------------------
\* The pipeline's state goes with the frame that held it.
Forget(ts) == graph' = [t \in Task |-> IF t \in ts THEN InitialState ELSE graph[t]]

\* The end of an execution: the finally clause of _execute_task gives the slot back.
Leave(ts) ==
  /\ st' = [t \in Task |-> IF t \in ts THEN "over" ELSE st[t]]
  /\ active' = active - Cardinality(ts)
  /\ Forget(ts)

\* Mutant of Cancel: the slot is only given back where the exception is caught.
CancelKeepsSlots(calls) ==
  /\ st' = [t \in Task |->
              IF t \in (Calling \cap calls) \cup (IF "claim" \in calls THEN offer ELSE {})
              THEN "over" ELSE st[t]]
  /\ UNCHANGED active
  /\ hurt' = hurt \cup (Task \cap calls) \cup (IF "claim" \in calls THEN offer ELSE {})
  /\ claim' = IF "claim" \in calls THEN "cancelled" ELSE claim
  /\ offer' = IF "claim" \in calls THEN {} ELSE offer
  /\ stale' = stale \ calls
  /\ Forget(Calling \cap calls)
  /\ UNCHANGED acked

\* What the cancellation of calls does to whoever awaits them: an execution ends
\* without a report, and the claim loop ends for good, with its assignment.
Cancel(calls) ==
  /\ st' = [t \in Task |->
              IF t \in (Calling \cap calls) \cup (IF "claim" \in calls THEN offer ELSE {})
              THEN "over" ELSE st[t]]
  /\ active' = active - Cardinality(Calling \cap calls)
  /\ hurt' = hurt \cup (Task \cap calls) \cup (IF "claim" \in calls THEN offer ELSE {})
  /\ claim' = IF "claim" \in calls THEN "cancelled" ELSE claim
  /\ offer' = IF "claim" \in calls THEN {} ELSE offer
  /\ stale' = stale \ calls
  /\ Forget(Calling \cap calls)
  /\ UNCHANGED acked

\* What the broker knows of the calls that end now: it served them, or not.
Verdicts(t) == IF st[t] = "completing" THEN "completed" ELSE "failed"

ServedOrNot(ts) ==
  \E served \in SUBSET ts :
    told' = [t \in Task |-> IF t \in served THEN told[t] \cup {Verdicts(t)} ELSE told[t]]

-----------------------------------------------------------------------------
\* Mutant of DialOpen: a shutdown does not end the loop.
DialOpenForEver ==
  /\ dial = "top"
  /\ stub' = TRUE
  /\ stale' = InFlight
  /\ dial' = "await"
  /\ UNCHANGED <<main, shutdown, beat, misses, claim, offer, exec, told, ghosts>>

\* _connect_with_retry, an attempt: a new channel and a stub on it, before it is
\* known to work. The channel of the attempt before is dropped without being closed:
\* the calls on it go on, and no later close() reaches them.
DialOpen ==
  /\ dial = "top"
  /\ ~shutdown
  /\ stub' = TRUE
  /\ stale' = InFlight
  /\ dial' = "await"
  /\ UNCHANGED <<main, shutdown, beat, misses, claim, offer, exec, told, ghosts>>

\* No connection in 5 s: the next attempt comes after a pause that grows.
DialFails ==
  /\ dial = "await"
  /\ dial' = "top"
  /\ UNCHANGED <<main, shutdown, stub, beat, misses, claim, offer, exec, stale, told, ghosts>>

\* Mutant of DialReturns: consecutive_failures is not reset by a reconnection.
DialReturnsCounting ==
  /\ \/ dial = "await"
     \/ dial = "top" /\ shutdown
  /\ dial' = "off"
  /\ \/ /\ main = "connecting"
        /\ main' = "serving"
        /\ beat' = "idle"
        /\ claim' = "idle"
     \/ /\ beat = "dialing"
        /\ beat' = "idle"
        /\ UNCHANGED <<main, claim>>
  /\ UNCHANGED <<shutdown, stub, misses, offer, exec, stale, told, ghosts>>

\* _connect_with_retry returns, connected or shut down, to start() or to the
\* heartbeat loop.
DialReturns ==
  /\ \/ dial = "await"
     \/ dial = "top" /\ shutdown
  /\ dial' = "off"
  /\ misses' = 0
  /\ \/ /\ main = "connecting"
        /\ main' = "serving"
        /\ beat' = "idle"
        /\ claim' = "idle"
     \/ /\ beat = "dialing"
        /\ beat' = "idle"
        /\ UNCHANGED <<main, claim>>
  /\ UNCHANGED <<shutdown, stub, offer, exec, stale, told, ghosts>>

-----------------------------------------------------------------------------
\* The heartbeat loop. The broker ignores the heartbeat of a worker it does not
\* know, and acknowledges it.
Heartbeat ==
  /\ beat = "idle"
  /\ stub /\ ~shutdown
  /\ misses' = 0
  /\ UNCHANGED <<main, shutdown, stub, dial, beat, claim, offer, exec, stale, told, ghosts>>

HeartbeatFails ==
  /\ beat = "idle"
  /\ stub /\ ~shutdown
  /\ misses' = misses + 1
  /\ IF misses' < HeartbeatFailures
     THEN UNCHANGED <<stub, beat>>
     ELSE stub' = FALSE /\ beat' = "closing"
  /\ UNCHANGED <<main, shutdown, dial, claim, offer, exec, stale, told, ghosts>>

\* channel.close() under whatever is in flight on it, then _connect_with_retry.
Reconnect ==
  /\ beat = "closing"
  /\ beat' = "dialing"
  /\ dial' = "top"
  /\ Cancel(InFlight \ stale)
  /\ ServedOrNot(Calling \ stale)
  /\ UNCHANGED <<main, shutdown, stub, misses>>

-----------------------------------------------------------------------------
ClaimTask ==
  /\ claim = "idle"
  /\ stub /\ ~shutdown
  /\ active < MaxConcurrent
  /\ claim' = "calling"
  /\ UNCHANGED <<main, shutdown, connection, offer, exec, stale, told, ghosts>>

\* The broker serves the claim: it puts the worker (back) on its ring, and pops a
\* task if there is one. An error of that is answered as if there were none, and the
\* task that was popped all the same is lost.
ServeClaim ==
  /\ claim = "calling"
  /\ claim' = "served"
  /\ \/ \E t \in Task : /\ st[t] = "queued"
                        /\ st' = [st EXCEPT ![t] = "claimed"]
                        /\ offer' = {t}
                        /\ UNCHANGED hurt
     \/ \E t \in Task : /\ st[t] = "queued"
                        /\ st' = [st EXCEPT ![t] = "over"]
                        /\ offer' = {}
                        /\ hurt' = hurt \cup {t}
     \/ offer' = {} /\ UNCHANGED <<st, hurt>>
  /\ UNCHANGED <<main, shutdown, connection, graph, active, stale, told, acked>>

\* The answer arrives. The execution it spawns is counted before the claim loop
\* runs again: it is scheduled before the loop's sleep begins.
ClaimAnswered ==
  /\ claim = "served"
  /\ claim' = "idle"
  /\ offer' = {}
  /\ stale' = stale \ {"claim"}
  /\ st' = [t \in Task |-> IF t \in offer THEN "running" ELSE st[t]]
  /\ active' = active + Cardinality(offer)
  /\ UNCHANGED <<main, shutdown, connection, graph, told, ghosts>>

\* An error or the 10 s limit: an assignment on its way is lost.
ClaimFails ==
  /\ claim \in {"calling", "served"}
  /\ claim' = "idle"
  /\ offer' = {}
  /\ stale' = stale \ {"claim"}
  /\ st' = [t \in Task |-> IF t \in offer THEN "over" ELSE st[t]]
  /\ hurt' = hurt \cup offer
  /\ UNCHANGED <<main, shutdown, connection, graph, active, told, acked>>

-----------------------------------------------------------------------------
\* swarm_brain.ainvoke, one node of the graph.
Think(t) ==
  /\ st[t] = "running"
  /\ \E p \in GraphSteps(graph[t]) : graph' = [graph EXCEPT ![t] = p]
  /\ UNCHANGED <<main, shutdown, connection, claim, offer, st, active, stale, told, ghosts>>

\* _report_failure. Without a stub the failure is only logged.
ReportFailure(t) ==
  \/ /\ stub
     /\ st' = [st EXCEPT ![t] = "reporting"]
     /\ Forget({t})
     /\ UNCHANGED <<active, hurt>>
  \/ /\ ~stub
     /\ Leave({t})
     /\ hurt' = hurt \cup {t}

\* Mutant of Finish: an invalid result is dropped without a report.
FinishSilently(t) ==
  /\ st[t] = "running"
  /\ graph[t].at = "end"
  /\ \/ /\ Valid(graph[t]) /\ stub
        /\ st' = [st EXCEPT ![t] = "completing"]
        /\ UNCHANGED <<graph, active, hurt>>
     \/ ~(Valid(graph[t]) /\ stub) /\ Leave({t}) /\ UNCHANGED hurt
  /\ UNCHANGED <<main, shutdown, connection, claim, offer, stale, told, acked>>

\* The graph is at its end: the result is validated and sent, or the exception
\* of a failed validation or a missing stub is reported.
Finish(t) ==
  /\ st[t] = "running"
  /\ graph[t].at = "end"
  /\ \/ /\ Valid(graph[t]) /\ stub
        /\ st' = [st EXCEPT ![t] = "completing"]
        /\ UNCHANGED <<graph, active, hurt>>
     \/ ~(Valid(graph[t]) /\ stub) /\ ReportFailure(t)
  /\ UNCHANGED <<main, shutdown, connection, claim, offer, stale, told, acked>>

\* The lease runs out, or the pipeline or the writing of its output raises.
ExecutionFails(t) ==
  /\ st[t] = "running"
  /\ ReportFailure(t)
  /\ UNCHANGED <<main, shutdown, connection, claim, offer, stale, told, acked>>

\* Mutant of CompleteAnswered: the failure branch is run after a success, too.
CompleteAnsweredThenFails(t) ==
  /\ st[t] = "completing"
  /\ told' = [told EXCEPT ![t] = @ \cup {"completed"}]
  /\ acked' = acked \cup {t}
  /\ st' = [st EXCEPT ![t] = "reporting"]
  /\ Forget({t})
  /\ stale' = stale \ {t}
  /\ UNCHANGED <<main, shutdown, connection, claim, offer, active, hurt>>

CompleteAnswered(t) ==
  /\ st[t] = "completing"
  /\ told' = [told EXCEPT ![t] = @ \cup {"completed"}]
  /\ acked' = acked \cup {t}
  /\ Leave({t})
  /\ stale' = stale \ {t}
  /\ UNCHANGED <<main, shutdown, connection, claim, offer, hurt>>

\* CompleteTask raises: an error, its 10 s limit, or the lease, whose timeouts are
\* not told apart. Any of them is reported as a failure, served or not.
CompleteFails(t) ==
  /\ st[t] = "completing"
  /\ ServedOrNot({t})
  /\ ReportFailure(t)
  /\ stale' = stale \ {t}
  /\ UNCHANGED <<main, shutdown, connection, claim, offer, acked>>

\* FailTask is tried once.
ReportEnds(t) ==
  /\ st[t] = "reporting"
  /\ \/ told' = [told EXCEPT ![t] = @ \cup {"failed"}] /\ UNCHANGED hurt
     \/ hurt' = hurt \cup {t} /\ UNCHANGED told
  /\ Leave({t})
  /\ stale' = stale \ {t}
  /\ UNCHANGED <<main, shutdown, connection, claim, offer, acked>>

-----------------------------------------------------------------------------
Signal ==
  /\ main # "stopped"
  /\ shutdown' = TRUE
  /\ UNCHANGED <<main, connection, claim, offer, exec, stale, told, ghosts>>

\* start() sees the event: both loops are cancelled, wherever they are, and the
\* executions are waited for.
Drain ==
  /\ main = "serving"
  /\ shutdown
  /\ main' = "draining"
  /\ beat' = "ended"
  /\ dial' = "off"
  /\ claim' = IF claim = "cancelled" THEN claim ELSE "ended"
  /\ offer' = {}
  /\ st' = [t \in Task |-> IF t \in offer THEN "over" ELSE st[t]]
  /\ hurt' = hurt \cup offer
  /\ stale' = stale \ {"claim"}
  /\ UNCHANGED <<shutdown, stub, misses, graph, active, told, acked>>

\* All executions are over, or 30 s have passed: the channel is closed and the
\* event loop ends, cancelling what is left.
Stop ==
  /\ main = "draining"
  /\ main' = "stopped"
  /\ Leave(Busy)
  /\ ServedOrNot(Calling)
  /\ hurt' = hurt \cup Busy
  /\ stale' = {}
  /\ UNCHANGED <<shutdown, connection, claim, offer, acked>>

-----------------------------------------------------------------------------
DialStep == DialOpen \/ DialFails \/ DialReturns

ExecutionStep(t) ==
  \/ Think(t) \/ Finish(t) \/ ExecutionFails(t)
  \/ CompleteAnswered(t) \/ CompleteFails(t) \/ ReportEnds(t)

Next ==
  \/ DialStep
  \/ Heartbeat \/ HeartbeatFails \/ Reconnect
  \/ ClaimTask \/ ServeClaim \/ ClaimAnswered \/ ClaimFails
  \/ \E t \in Task : ExecutionStep(t)
  \/ Signal \/ Drain \/ Stop

Spec == Init /\ [][Next]_vars

\* The event loop runs what is ready, every call and every execution has a time
\* limit. Between two reconnections the stub is set for ten seconds and more, in which
\* the claim loop looks again, and of its claims one is served some time. Heartbeats
\* and connections may fail for ever.
Fairness ==
  /\ WF_vars(DialStep)
  /\ WF_vars(Reconnect)
  /\ SF_vars(ClaimTask)
  /\ WF_vars(ClaimAnswered \/ ClaimFails)
  /\ SF_vars(ServeClaim)
  /\ \A t \in Task : WF_vars(ExecutionStep(t))
  /\ WF_vars(Drain)
  /\ WF_vars(Stop)

FairSpec == Spec /\ Fairness

-----------------------------------------------------------------------------
TypeOK ==
  /\ main \in {"connecting", "serving", "draining", "stopped"}
  /\ shutdown \in BOOLEAN /\ stub \in BOOLEAN
  /\ dial \in {"off", "top", "await"}
  /\ beat \in {"off", "idle", "closing", "dialing", "ended"}
  /\ misses \in 0..HeartbeatFailures
  /\ claim \in {"off", "idle", "calling", "served", "ended", "cancelled"}
  /\ offer \subseteq Task
  /\ st \in [Task -> TaskState]
  /\ graph \in [Task -> SwarmState]
  /\ active \in Nat
  /\ stale \subseteq Task \cup {"claim"}
  /\ told \in [Task -> SUBSET {"completed", "failed"}]
  /\ acked \subseteq Task /\ hurt \subseteq Task

\* The count the claim loop and the heartbeats go by is the number of executions,
\* on every way an execution ends, cancellation included; and with the claim in
\* flight there are never more than MAX_CONCURRENT (worker.py:130-140, 193, 275).
SlotsAccounted ==
  /\ active = Cardinality(Busy)
  /\ active + (IF claim \in {"calling", "served"} THEN 1 ELSE 0) <= MaxConcurrent

\* A task whose completion was acknowledged is never reported as failed. (One whose
\* acknowledgement was lost is: the broker is told both, completion first.)
AckedNeverFailed ==
  \A t \in acked : "failed" \notin told[t] /\ st[t] = "over"

\* The broker is told of a completion only with research and code in it, whichever
\* node of the graph failed on the way (brain.py:270-287).
CompletedIsWhole ==
  [][\A t \in Task :
       "completed" \in told'[t] \ told[t] => graph[t].research_data /\ graph[t].code_output]_vars

\* The coder is asked at most MAX_REVISIONS times, whatever the reviewer says, and
\* a result is sent off unapproved only when that many drafts were rejected: the
\* forced approval at the bound is not reached (brain.py:171-178, 237-247).
RevisionsBounded ==
  \A t \in Task :
    /\ graph[t].drafts <= IF MaxRevisions = 0 THEN 1 ELSE MaxRevisions
    /\ graph[t].at = "end" /\ graph[t].reviewer_verdict = "revision_required"
         => graph[t].revision_count = MaxRevisions

\* However an execution ends, the broker is told, unless a call of the task was
\* lost, there was no connection to call on, or the worker was shut down. What the
\* pipeline does wrong is never the reason (worker.py:255-275).
OutcomeReported ==
  \A t \in Task : st[t] = "over" => told[t] # {} \/ t \in hurt

\* A signal is followed by the end of the process, whatever it finds the worker
\* doing: connecting, executing, or with a call in flight.
ShutdownEnds == shutdown ~> main = "stopped"

\* A claim is what puts a worker back on the ring. Once it has been connected, its
\* claims are served again and again, whatever becomes of its tasks, its heartbeats and
\* its connection, until it is shut down or a reconnection of its own cancels a claim in
\* flight (which SurvivesBrokerRestart, below, shows to be the end of them).
KeepsClaiming ==
  main = "serving" ~> claim \in {"served", "cancelled"} \/ shutdown

-----------------------------------------------------------------------------
\* ARCHITECTURE.md:256, of the reconnection that failed heartbeats lead to: "Workers
\* survive broker restarts without operator intervention". A worker whose connection
\* comes back every time is served a claim again and again, unless it is shut down.
SurvivesBrokerRestart ==
  []<>(beat = "idle" /\ misses = 0) =>
    (main = "serving" ~> claim = "served" \/ shutdown)

=============================================================================
