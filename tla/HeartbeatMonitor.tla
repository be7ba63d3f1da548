-------------------------- MODULE HeartbeatMonitor --------------------------
(***************************************************************************)
(* run_heartbeat_monitor (src/src/core/broker.rs) beside the workers'      *)
(* heartbeats and claims, in seconds of the broker's clock.                *)
(*                                                                         *)
(* The monitor is a loop of separately locked steps: it copies the alive   *)
(* nodes (Tick), then for each stale one of the copy it takes the write    *)
(* lock to count a miss (Scan) and, at the threshold, takes it again to    *)
(* remove the node (Remove). Heartbeat and claim handlers run between any  *)
(* two of these.                                                           *)
(*                                                                         *)
(* Time is the phase since the last nominal tick of the interval timer.    *)
(* MaxLate bounds how far behind its nominal instant a scan may start or   *)
(* finish; it is the only assumption made about the runtime's scheduling.  *)
(***************************************************************************)
EXTENDS NodeTable

CONSTANTS
  Node,       \* the workers
  Punctual,   \* workers that never crash and are heard every Interval - 1 s
  Interval,   \* HEARTBEAT_INTERVAL, seconds between ticks
  MaxLate,    \* bound on the monitor's lateness, seconds
  Threshold,  \* MISSED_HEARTBEAT_THRESHOLD
  Report      \* the [active, hot] readings each worker's heartbeats may carry

ASSUME IntervalAssumption == Interval \in Nat \ {0}
ASSUME LatenessAssumption == MaxLate \in Nat /\ MaxLate < Interval
ASSUME PunctualAssumption == Punctual \subseteq Node
ASSUME ReportAssumption == Report \in [Node -> SUBSET [active : Nat, hot : BOOLEAN]]
ASSUME ThresholdAssumption == Threshold \in Nat

VARIABLES
  nodes,   \* HashRing.nodes
  up,      \* the workers that are running
  phase,   \* seconds since the last nominal tick
  due,     \* the interval timer has a tick to deliver
  pc,      \* the monitor: "tick" awaits the timer, "scan" is in its for loop
  todo,    \* stale nodes of the tick's copy not yet looked at
  doomed   \* the node, if any, that remove_node is about to be called on

monitor == <<pc, todo, doomed>>
clock == <<phase, due>>
vars == <<nodes, up, clock, monitor>>

Init ==
  /\ nodes = [n \in Node |-> Unknown]
  /\ up = Node
  /\ phase = 0
  /\ due = TRUE
  /\ pc = "tick"
  /\ todo = {}
  /\ doomed = {}

-----------------------------------------------------------------------------
\* tokio's interval with MissedTickBehavior::Skip: ticks stay on multiples of
\* the period, and ticks missed while one is outstanding merge with it.
Advance ==
  /\ due \/ pc # "tick" => phase < MaxLate
  /\ \A n \in Punctual : Known(nodes, n) => nodes[n].age + 1 < Interval
  /\ phase' = (phase + 1) % Interval
  /\ due' = (due \/ phase' = 0)
  /\ nodes' = [n \in Node |-> Aged(nodes[n])]
  /\ UNCHANGED <<up, monitor>>

\* Mutants of Tick: stale after more than the interval, or just before it.
TickStrict ==
  /\ pc = "tick"
  /\ due
  /\ due' = FALSE
  /\ todo' = {n \in Node : Alive(nodes, n) /\ nodes[n].age > Interval}
  /\ pc' = "scan"
  /\ UNCHANGED <<nodes, up, phase, doomed>>

TickEarly ==
  /\ pc = "tick"
  /\ due
  /\ due' = FALSE
  /\ todo' = {n \in Node : Alive(nodes, n) /\ nodes[n].age + 1 >= Interval}
  /\ pc' = "scan"
  /\ UNCHANGED <<nodes, up, phase, doomed>>

\* interval.tick(), now, get_active_nodes() and the staleness test on the copy.
Tick ==
  /\ pc = "tick"
  /\ due
  /\ due' = FALSE
  /\ todo' = {n \in Node : Alive(nodes, n) /\ nodes[n].age >= Interval}
  /\ pc' = "scan"
  /\ UNCHANGED <<nodes, up, phase, doomed>>

\* Mutant of Scan: a node goes only above the threshold.
ScanAboveThreshold(n) ==
  /\ pc = "scan"
  /\ doomed = {}
  /\ n \in todo
  /\ todo' = todo \ {n}
  /\ nodes' = RecordMissedHeartbeat(nodes, n)
  /\ doomed' = IF Known(nodes, n) /\ nodes'[n].missed > Threshold THEN {n} ELSE {}
  /\ UNCHANGED <<up, clock, pc>>

\* record_missed_heartbeat on the live table, for a node that was stale in the copy.
Scan(n) ==
  /\ pc = "scan"
  /\ doomed = {}
  /\ n \in todo
  /\ todo' = todo \ {n}
  /\ nodes' = RecordMissedHeartbeat(nodes, n)
  /\ doomed' = IF Known(nodes, n) /\ nodes'[n].missed >= Threshold THEN {n} ELSE {}
  /\ UNCHANGED <<up, clock, pc>>

\* remove_node, under a lock of its own: what was learnt in Scan may be stale.
Remove(n) ==
  /\ n \in doomed
  /\ nodes' = RemoveNode(nodes, n)
  /\ doomed' = {}
  /\ UNCHANGED <<up, clock, pc, todo>>

\* Mutant of EndScan: the loop ends after one scan, as it does if the task panics.
EndScanReturns ==
  /\ pc = "scan"
  /\ todo = {}
  /\ doomed = {}
  /\ pc' = "returned"
  /\ UNCHANGED <<nodes, up, clock, todo, doomed>>

EndScan ==
  /\ pc = "scan"
  /\ todo = {}
  /\ doomed = {}
  /\ pc' = "tick"
  /\ UNCHANGED <<nodes, up, clock, todo, doomed>>

-----------------------------------------------------------------------------
\* The heartbeat handler: one update under the write lock, acknowledged even
\* when the table does not hold the node.
Heartbeat(n) ==
  /\ n \in up
  /\ \E r \in Report[n] : nodes' = UpdateNodeInfo(nodes, n, r.active, r.hot)
  /\ UNCHANGED <<up, clock, monitor>>

\* The claim handler's add_node: the only way into the table.
Claim(n) ==
  /\ n \in up
  /\ nodes' = AddNode(nodes, n, 1)
  /\ UNCHANGED <<up, clock, monitor>>

Crash(n) ==
  /\ n \in up \ Punctual
  /\ up' = up \ {n}
  /\ UNCHANGED <<nodes, clock, monitor>>

Restart(n) ==
  /\ n \in Node \ up
  /\ up' = up \cup {n}
  /\ UNCHANGED <<nodes, clock, monitor>>

\* The table lives in the broker's memory only.
BrokerRestart ==
  /\ nodes' = [n \in Node |-> Unknown]
  /\ phase' = 0
  /\ due' = TRUE
  /\ pc' = "tick"
  /\ todo' = {}
  /\ doomed' = {}
  /\ UNCHANGED up

MonitorStep == Tick \/ (\E n \in Node : Scan(n) \/ Remove(n)) \/ EndScan

WorkerStep ==
  \E n \in Node :
    \/ Heartbeat(n)
    \/ Claim(n)
    \/ Crash(n)
    \/ Restart(n)

Next == Advance \/ MonitorStep \/ WorkerStep \/ BrokerRestart

\* The clock runs, the monitor's task is scheduled, and a punctual worker's
\* heartbeat loop does not stop. Nothing is assumed of the other workers.
Fairness ==
  /\ WF_vars(Advance)
  /\ WF_vars(MonitorStep)
  /\ \A n \in Punctual : WF_vars(Heartbeat(n))

Spec == Init /\ [][Next]_vars

FairSpec == Spec /\ Fairness

-----------------------------------------------------------------------------
TypeOK ==
  /\ nodes \in [Node -> NodeInfo]
  /\ up \subseteq Node
  /\ phase \in 0..(Interval - 1)
  /\ due \in BOOLEAN
  /\ pc \in {"tick", "scan"}
  /\ todo \subseteq Node
  /\ doomed \subseteq Node

\* The misses held against a node are backed by silence: m of them mean the node
\* was not heard for at least m - 1 intervals, less the monitor's lateness. One
\* interval is lost because the first miss is counted on the live table from a
\* copy that may be stale, and may hit a node heard a moment ago (broker.rs:98-102).
MissesMeanSilence ==
  \A n \in Node :
    nodes[n].missed >= 2 =>
      nodes[n].age + MaxLate >= (nodes[n].missed - 1) * Interval

\* A node that goes silent is found out in time: it is healthy for less than two
\* intervals, and in the table for less than Threshold + 1, plus the monitor's
\* lateness. So a task is never routed to a node silent for longer. Holds for
\* thresholds of 1 to MissedHeartbeatLimit. README.md:57 and ARCHITECTURE.md:206-207
\* grant Threshold intervals; the one more is that in which the node was last heard.
DetectedInTime ==
  \A n \in Node :
    /\ nodes[n].status = "healthy" => nodes[n].age < 2 * Interval + MaxLate
    /\ Known(nodes, n) => nodes[n].age < (Threshold + 1) * Interval + MaxLate

\* Between scans no node is left behind in the table that the scan should have
\* removed: none is dead, and none has reached the threshold (broker.rs:101-109).
NoneOverdueAtRest ==
  pc = "tick" =>
    \A n \in Node : nodes[n].status # "dead" /\ nodes[n].missed < Threshold

\* A punctual worker, once in the table, is neither given a miss nor removed,
\* whatever the monitor and the other workers do; only a broker restart loses it.
PunctualNodeKept ==
  [][ ~BrokerRestart =>
        \A n \in Punctual : Known(nodes, n) =>
          Known(nodes', n) /\ nodes'[n].missed = 0 ]_vars

\* A worker that stops for good leaves the table: nothing but its own restart
\* keeps the broker from removing it (broker.rs:88-120).
CrashedNodeLeaves ==
  \A n \in Node :
    n \notin up ~> (n \in up \/ ~Known(nodes, n))

-----------------------------------------------------------------------------
\* README.md:246, MISSED_HEARTBEAT_THRESHOLD: "Consecutive misses before node
\* marked dead". The monitor removes a node only while it has that many
\* consecutive misses against it.
RemovedOnlyWhileOverdue ==
  [][ \A n \in Node :
        Known(nodes, n) /\ ~Known(nodes', n) /\ ~BrokerRestart
          => nodes[n].missed >= Threshold ]_vars

=============================================================================
