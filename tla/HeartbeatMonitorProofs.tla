----------------------- MODULE HeartbeatMonitorProofs -----------------------
(***************************************************************************)
(* Theorems about HeartbeatMonitor, for any workers, interval, lateness,   *)
(* threshold and reports.                                                  *)
(*                                                                         *)
(* The timing bounds are not inductive by themselves: how silent a node    *)
(* with m misses must be depends on whether the current tick has already   *)
(* counted it. Counted says so, and the invariants below state the bounds  *)
(* at every second of the interval, on either side of the count.           *)
(***************************************************************************)
EXTENDS HeartbeatMonitor, Integers, TLAPS

\* The current tick has been delivered and the scan is done with n.
Counted(n) == ~due /\ n \notin todo

\* The monitor's own control state: what is pending, and how late it can be.
ControlInv ==
  /\ pc = "tick" => todo = {} /\ doomed = {}
  /\ due => pc = "tick"
  /\ due \/ pc = "scan" => phase <= MaxLate
  /\ doomed \cap todo = {}
  /\ \A m, n \in doomed : m = n

StatusInv ==
  \A n \in Node :
    /\ nodes[n].status \in {"unknown", "healthy"} => nodes[n].missed = 0
    /\ nodes[n].status = "dead" <=> nodes[n].missed >= MissedHeartbeatLimit

SilenceInv ==
  \A n \in Node :
    /\ n \in todo /\ nodes[n].missed >= 1 => nodes[n].age >= Interval
    /\ nodes[n].missed >= 2 =>
         nodes[n].age + MaxLate >=
           (nodes[n].missed - IF Counted(n) THEN 1 ELSE 0) * Interval + phase

OverdueInv ==
  \A n \in Node :
    /\ nodes[n].missed <= Threshold
    /\ nodes[n].missed = Threshold => n \in doomed

DetectionInv ==
  \A n \in Node :
    Known(nodes, n) =>
      nodes[n].age <
        (nodes[n].missed + IF Counted(n) THEN 1 ELSE 2) * Interval + phase

PunctualInv ==
  \A n \in Punctual :
    /\ n \notin todo
    /\ n \notin doomed
    /\ Known(nodes, n) => nodes[n].age < Interval /\ nodes[n].missed = 0

-----------------------------------------------------------------------------
\* Every method of the table turns an entry into an entry.
LEMMA EntryTypes ==
  ASSUME NEW e \in NodeInfo
  PROVE  /\ Unknown \in NodeInfo
         /\ Missed(e) \in NodeInfo
         /\ Aged(e) \in NodeInfo
         /\ \A max \in Nat : Joined(e, max) \in NodeInfo
         /\ \A active \in Nat, hot \in BOOLEAN : Pinged(e, active, hot) \in NodeInfo
<1>1. Unknown \in NodeInfo
      BY DEF Unknown, NodeInfo, Status
<1>2. Missed(e) \in NodeInfo
  <2> DEFINE status == IF e.missed + 1 >= MissedHeartbeatLimit
                       THEN "dead" ELSE "suspect"
  <2>1. e.missed + 1 \in Nat
        BY DEF NodeInfo
  <2>2. status \in Status
        BY DEF Status
  <2> HIDE DEF status
  <2>3. [e EXCEPT !.missed = e.missed + 1, !.status = status] \in NodeInfo
        BY <2>1, <2>2 DEF NodeInfo
  <2> QED BY <2>3 DEF Missed, status
<1>3. Aged(e) \in NodeInfo
      BY DEF Aged, NodeInfo, Status
<1>4. ASSUME NEW max \in Nat PROVE Joined(e, max) \in NodeInfo
      BY DEF Joined, NewNode, AtLeastOne, NodeInfo, Status
<1>5. ASSUME NEW active \in Nat, NEW hot \in BOOLEAN
      PROVE  Pinged(e, active, hot) \in NodeInfo
      BY DEF Pinged, NodeInfo, Status
<1> QED BY <1>1, <1>2, <1>3, <1>4, <1>5

\* The variables keep their types: the table never holds a half-built entry.
LEMMA TypeInit == Init => TypeOK
BY IntervalAssumption DEF Init, TypeOK, NodeInfo, Unknown, Status

LEMMA TypeNext == TypeOK /\ [Next]_vars => TypeOK'
<1> SUFFICES ASSUME TypeOK, [Next]_vars PROVE TypeOK'
    OBVIOUS
<1> USE IntervalAssumption, EntryTypes DEF TypeOK
<1>1. CASE Advance
      BY <1>1 DEF Advance, monitor
<1>2. CASE Tick
      BY <1>2 DEF Tick
<1>3. ASSUME NEW n \in Node, Scan(n) PROVE TypeOK'
      BY <1>3 DEF Scan, RecordMissedHeartbeat, clock
<1>4. ASSUME NEW n \in Node, Remove(n) PROVE TypeOK'
      BY <1>4 DEF Remove, RemoveNode, clock
<1>5. CASE EndScan
      BY <1>5 DEF EndScan, clock
<1>6. ASSUME NEW n \in Node, Heartbeat(n) PROVE TypeOK'
  <2>1. PICK r \in Report[n] : nodes' = UpdateNodeInfo(nodes, n, r.active, r.hot)
        BY <1>6 DEF Heartbeat
  <2>2. r.active \in Nat /\ r.hot \in BOOLEAN
        BY ReportAssumption
  <2> QED BY <2>1, <2>2, <1>6 DEF Heartbeat, UpdateNodeInfo, clock, monitor
<1>7. ASSUME NEW n \in Node, Claim(n) PROVE TypeOK'
      BY <1>7 DEF Claim, AddNode, clock, monitor
<1>8. ASSUME NEW n \in Node, Crash(n) PROVE TypeOK'
      BY <1>8 DEF Crash, clock, monitor
<1>9. ASSUME NEW n \in Node, Restart(n) PROVE TypeOK'
      BY <1>9 DEF Restart, clock, monitor
<1>10. CASE BrokerRestart
      BY <1>10 DEF BrokerRestart
<1>11. CASE UNCHANGED vars
      BY <1>11 DEF vars, clock, monitor
<1> QED BY <1>1, <1>2, <1>3, <1>4, <1>5, <1>6, <1>7, <1>8, <1>9, <1>10, <1>11
        DEF Next, MonitorStep, WorkerStep


-----------------------------------------------------------------------------
\* What each method does to the fields the invariants speak of.
LEMMA EntryEffects ==
  ASSUME NEW e \in NodeInfo
  PROVE  /\ e.status = "unknown" => Missed(e) = e /\ Aged(e) = e
         /\ e.status # "unknown" =>
              /\ Missed(e).missed = e.missed + 1
              /\ Missed(e).age = e.age
              /\ Missed(e).status = IF e.missed + 1 >= MissedHeartbeatLimit
                                    THEN "dead" ELSE "suspect"
              /\ Aged(e).missed = e.missed
              /\ Aged(e).age = e.age + 1
              /\ Aged(e).status = e.status
         /\ \A max \in Nat : /\ Joined(e, max).status = "healthy"
                             /\ Joined(e, max).missed = 0
                             /\ Joined(e, max).age = 0
         /\ \A active \in Nat, hot \in BOOLEAN :
              /\ e.status = "unknown" => Pinged(e, active, hot) = e
              /\ e.status # "unknown" =>
                   /\ Pinged(e, active, hot).status \in {"healthy", "suspect"}
                   /\ Pinged(e, active, hot).missed = 0
                   /\ Pinged(e, active, hot).age = 0
         /\ Unknown.status = "unknown" /\ Unknown.missed = 0 /\ Unknown.age = 0
<1>1. e.status = "unknown" => Missed(e) = e /\ Aged(e) = e
      BY DEF Missed, Aged
<1>2. e.status # "unknown" =>
        /\ Missed(e).missed = e.missed + 1
        /\ Missed(e).age = e.age
        /\ Missed(e).status = IF e.missed + 1 >= MissedHeartbeatLimit
                              THEN "dead" ELSE "suspect"
      BY DEF Missed, NodeInfo
<1>3. e.status # "unknown" =>
        /\ Aged(e).missed = e.missed
        /\ Aged(e).age = e.age + 1
        /\ Aged(e).status = e.status
      BY DEF Aged, NodeInfo
<1>4. ASSUME NEW max \in Nat
      PROVE  /\ Joined(e, max).status = "healthy"
             /\ Joined(e, max).missed = 0
             /\ Joined(e, max).age = 0
      BY DEF Joined, NewNode, NodeInfo
<1>5. ASSUME NEW active \in Nat, NEW hot \in BOOLEAN
      PROVE  /\ e.status = "unknown" => Pinged(e, active, hot) = e
             /\ e.status # "unknown" =>
                  /\ Pinged(e, active, hot).status \in {"healthy", "suspect"}
                  /\ Pinged(e, active, hot).missed = 0
                  /\ Pinged(e, active, hot).age = 0
      BY DEF Pinged, NodeInfo
<1>6. Unknown.status = "unknown" /\ Unknown.missed = 0 /\ Unknown.age = 0
      BY DEF Unknown
<1> QED BY <1>1, <1>2, <1>3, <1>4, <1>5, <1>6

\* A worker's message leaves its own entry fresh and unblamed, the others alone.
LEMMA HeardEffect ==
  ASSUME TypeOK, NEW n \in Node, Heartbeat(n) \/ Claim(n)
  PROVE  /\ nodes' \in [Node -> NodeInfo]
         /\ \A m \in Node : m # n => nodes'[m] = nodes[m]
         /\ \/ nodes'[n] = nodes[n] /\ ~Known(nodes, n)
            \/ /\ nodes'[n].missed = 0
               /\ nodes'[n].age = 0
               /\ nodes'[n].status \in {"healthy", "suspect"}
         /\ UNCHANGED <<phase, due, pc, todo, doomed>>
<1>1. nodes[n] \in NodeInfo /\ 1 \in Nat
      BY DEF TypeOK
<1>2. CASE Claim(n)
      BY <1>1, <1>2, EntryTypes, EntryEffects
      DEF Claim, AddNode, TypeOK, clock, monitor
<1>3. CASE Heartbeat(n)
  <2>1. PICK r \in Report[n] : nodes' = UpdateNodeInfo(nodes, n, r.active, r.hot)
        BY <1>3 DEF Heartbeat
  <2>2. r.active \in Nat /\ r.hot \in BOOLEAN
        BY ReportAssumption
  <2> QED BY <2>1, <2>2, <1>1, <1>3, EntryTypes, EntryEffects
          DEF Heartbeat, UpdateNodeInfo, Known, TypeOK, clock, monitor
<1> QED BY <1>2, <1>3

\* Counting a miss leaves the age alone; a second passing leaves the misses alone.
LEMMA ScanEffect ==
  ASSUME TypeOK, NEW n \in Node, Scan(n)
  PROVE  /\ \A m \in Node : m # n => nodes'[m] = nodes[m]
         /\ nodes'[n].age = nodes[n].age
         /\ ~Known(nodes, n) => nodes'[n] = nodes[n]
         /\ Known(nodes, n) =>
              /\ nodes'[n].missed = nodes[n].missed + 1
              /\ nodes'[n].status = IF nodes'[n].missed >= MissedHeartbeatLimit
                                    THEN "dead" ELSE "suspect"
BY EntryEffects DEF Scan, RecordMissedHeartbeat, Known, TypeOK

LEMMA AdvanceEffect ==
  ASSUME TypeOK, Advance, NEW n \in Node
  PROVE  /\ nodes'[n].missed = nodes[n].missed
         /\ nodes'[n].status = nodes[n].status
         /\ nodes'[n].age = IF Known(nodes, n) THEN nodes[n].age + 1 ELSE nodes[n].age
BY EntryEffects DEF Advance, Known, TypeOK

LEMMA RemoveEffect ==
  ASSUME TypeOK, NEW n \in Node, Remove(n)
  PROVE  /\ \A m \in Node : m # n => nodes'[m] = nodes[m]
         /\ nodes'[n] = Unknown
BY DEF Remove, RemoveNode, TypeOK

\* Phase arithmetic of one second.
LEMMA PhaseStep ==
  ASSUME TypeOK, Advance
  PROVE  \/ phase' = phase + 1 /\ due' = due
         \/ phase = Interval - 1 /\ phase' = 0 /\ due'
<1>1. CASE phase = Interval - 1
  <2>1. phase' = Interval % Interval
        BY <1>1, IntervalAssumption DEF Advance
  <2>2. Interval % Interval = 0
        BY IntervalAssumption
  <2> QED BY <1>1, <2>1, <2>2 DEF Advance
<1>2. CASE phase # Interval - 1
  <2>1. phase + 1 \in 0..(Interval - 1)
        BY <1>2, IntervalAssumption DEF TypeOK
  <2>2. (phase + 1) % Interval = phase + 1
        BY <2>1, IntervalAssumption
  <2>3. phase' = phase + 1 /\ phase + 1 # 0
        BY <2>1, <2>2 DEF Advance, TypeOK
  <2> QED BY <2>3 DEF Advance, TypeOK
<1> QED BY <1>1, <1>2

-----------------------------------------------------------------------------
LEMMA ControlStep == TypeOK /\ ControlInv /\ [Next]_vars => ControlInv'
<1> SUFFICES ASSUME TypeOK, ControlInv, [Next]_vars PROVE ControlInv'
    OBVIOUS
<1> USE IntervalAssumption, LatenessAssumption DEF ControlInv, TypeOK
<1>1. CASE Advance
      BY <1>1, PhaseStep DEF Advance, monitor
<1>2. CASE Tick
      BY <1>2 DEF Tick
<1>3. ASSUME NEW n \in Node, Scan(n) PROVE ControlInv'
      BY <1>3 DEF Scan, clock
<1>4. ASSUME NEW n \in Node, Remove(n) PROVE ControlInv'
      BY <1>4 DEF Remove, clock
<1>5. CASE EndScan
      BY <1>5 DEF EndScan, clock
<1>6. ASSUME NEW n \in Node, Heartbeat(n) PROVE ControlInv'
      BY <1>6 DEF Heartbeat, clock, monitor
<1>7. ASSUME NEW n \in Node, Claim(n) PROVE ControlInv'
      BY <1>7 DEF Claim, clock, monitor
<1>8. ASSUME NEW n \in Node, Crash(n) PROVE ControlInv'
      BY <1>8 DEF Crash, clock, monitor
<1>9. ASSUME NEW n \in Node, Restart(n) PROVE ControlInv'
      BY <1>9 DEF Restart, clock, monitor
<1>10. CASE BrokerRestart
      BY <1>10 DEF BrokerRestart
<1>11. CASE UNCHANGED vars
      BY <1>11 DEF vars, clock, monitor
<1> QED BY <1>1, <1>2, <1>3, <1>4, <1>5, <1>6, <1>7, <1>8, <1>9, <1>10, <1>11
        DEF Next, MonitorStep, WorkerStep

LEMMA StatusStep == TypeOK /\ StatusInv /\ [Next]_vars => StatusInv'
<1> SUFFICES ASSUME TypeOK, StatusInv, [Next]_vars PROVE StatusInv'
    OBVIOUS
<1> USE DEF StatusInv
<1>1. CASE Advance
      BY <1>1, AdvanceEffect
<1>2. ASSUME NEW n \in Node, Scan(n) PROVE StatusInv'
      BY <1>2, ScanEffect DEF Known, TypeOK, NodeInfo, MissedHeartbeatLimit
<1>3. ASSUME NEW n \in Node, Remove(n) PROVE StatusInv'
      BY <1>3, RemoveEffect DEF Unknown, MissedHeartbeatLimit
<1>4. ASSUME NEW n \in Node, Heartbeat(n) \/ Claim(n) PROVE StatusInv'
      BY <1>4, HeardEffect DEF MissedHeartbeatLimit
<1>5. CASE BrokerRestart
      BY <1>5 DEF BrokerRestart, Unknown, MissedHeartbeatLimit
<1>6. CASE UNCHANGED nodes
      BY <1>6
<1> QED BY <1>1, <1>2, <1>3, <1>4, <1>5, <1>6
        DEF Next, MonitorStep, WorkerStep, Tick, EndScan, Crash, Restart, vars

\* The step that needs the phase: counting a tick turns the bound for m misses
\* "before the count" into the bound for m + 1 misses "after the count".
LEMMA SilenceStep ==
  TypeOK /\ ControlInv /\ StatusInv /\ SilenceInv /\ [Next]_vars => SilenceInv'
<1> SUFFICES ASSUME TypeOK, ControlInv, StatusInv, SilenceInv, [Next]_vars,
                    NEW m \in Node
             PROVE  /\ m \in todo' /\ nodes'[m].missed >= 1 =>
                         nodes'[m].age >= Interval
                    /\ nodes'[m].missed >= 2 =>
                         nodes'[m].age + MaxLate >=
                           (nodes'[m].missed - IF Counted(m)' THEN 1 ELSE 0)
                             * Interval + phase'
    BY DEF SilenceInv
<1> USE IntervalAssumption, LatenessAssumption
<1> DEFINE missed == nodes[m].missed
           age == nodes[m].age
<1>a. /\ missed \in Nat /\ age \in Nat /\ phase \in Nat /\ phase < Interval
      /\ Interval \in Nat /\ MaxLate \in Nat
      BY DEF TypeOK, NodeInfo
<1>b. /\ m \in todo /\ missed >= 1 => age >= Interval
      /\ missed >= 2 =>
           age + MaxLate >= (missed - IF Counted(m) THEN 1 ELSE 0) * Interval + phase
      BY DEF SilenceInv
<1>c. ~Known(nodes, m) => missed = 0
      BY DEF StatusInv, Known
<1>d. CASE nodes'[m] = nodes[m] /\ UNCHANGED <<phase, due, todo>>
      BY <1>d, <1>b DEF Counted
<1>e. CASE nodes'[m].missed = 0
      BY <1>e
<1>1. CASE Advance
  <2>1. /\ todo' = todo
        /\ nodes'[m].missed = missed
        /\ Known(nodes, m) => nodes'[m].age = age + 1
        BY <1>1, AdvanceEffect DEF Advance, monitor
  <2>2. CASE phase' = phase + 1 /\ due' = due
        BY <2>1, <2>2, <1>a, <1>b, <1>c DEF Counted
  <2>3. CASE phase = Interval - 1 /\ phase' = 0 /\ due'
    <3>1. ~due /\ todo = {}
          BY <2>3, <1>1, <1>a DEF Advance, ControlInv, TypeOK
    <3>2. Counted(m) /\ ~Counted(m)'
          BY <3>1, <2>3 DEF Counted
    <3>3. missed >= 2 => age + MaxLate >= (missed - 1) * Interval + Interval - 1
          BY <3>2, <1>b, <2>3, <1>a
    <3>4. (missed - 1) * Interval + Interval = missed * Interval
          BY <1>a
    <3>5. missed >= 2 => age + 1 + MaxLate >= missed * Interval
          BY <3>3, <3>4, <1>a
    <3>6. (missed - 0) * Interval + 0 = missed * Interval
          BY <1>a
    <3> QED BY <2>1, <2>3, <3>1, <3>2, <3>5, <3>6, <1>c, <1>a
  <2> QED BY <2>2, <2>3, <1>1, PhaseStep
<1>2. CASE Tick
  <2>1. /\ nodes'[m] = nodes[m] /\ phase' = phase /\ ~Counted(m)
        /\ m \in todo' => age >= Interval
        BY <1>2 DEF Tick, Counted
  <2>2. missed >= 2 => age + MaxLate >= missed * Interval + phase
        BY <2>1, <1>b, <1>a
  <2>3. missed * Interval >= (missed - 1) * Interval
        BY <1>a
  <2>4. missed >= 2 => age + MaxLate >= (missed - 1) * Interval + phase
    <3> DEFINE X == missed * Interval
               Y == (missed - 1) * Interval
    <3>1. X \in Int /\ Y \in Int /\ X >= Y
          BY <2>3, <1>a
    <3>2. missed >= 2 => age + MaxLate >= X + phase
          BY <2>2
    <3> HIDE DEF X, Y
    <3>3. missed >= 2 => age + MaxLate >= Y + phase
          BY <3>1, <3>2, <1>a
    <3> QED BY <3>3 DEF Y
  <2> QED BY <2>1, <2>2, <2>4, <1>a
<1>3. ASSUME NEW n \in Node, Scan(n), m = n, Known(nodes, n)
      PROVE  /\ m \in todo' /\ nodes'[m].missed >= 1 => nodes'[m].age >= Interval
             /\ nodes'[m].missed >= 2 =>
                  nodes'[m].age + MaxLate >=
                    (nodes'[m].missed - IF Counted(m)' THEN 1 ELSE 0)
                      * Interval + phase'
  <2>1. /\ nodes'[m].missed = missed + 1
        /\ nodes'[m].age = age
        /\ phase' = phase /\ due' = due /\ todo' = todo \ {m}
        /\ m \in todo /\ pc = "scan"
        BY <1>3, ScanEffect DEF Scan, clock
  <2>2. ~Counted(m) /\ Counted(m)' /\ phase <= MaxLate
        BY <2>1 DEF Counted, ControlInv
  <2>3. missed >= 2 => age + MaxLate >= missed * Interval + phase
        BY <2>2, <1>b, <1>a
  <2>4. missed = 1 => age + MaxLate >= missed * Interval + phase
        BY <2>1, <2>2, <1>b, <1>a
  <2>5. missed >= 1 => age + MaxLate >= missed * Interval + phase
        BY <2>3, <2>4, <1>a
  <2>6. (missed + 1) - 1 = missed
        BY <1>a
  <2> QED BY <2>1, <2>2, <2>5, <2>6, <1>a
<1>4. ASSUME NEW n \in Node, Scan(n)
      PROVE  /\ m \in todo' /\ nodes'[m].missed >= 1 => nodes'[m].age >= Interval
             /\ nodes'[m].missed >= 2 =>
                  nodes'[m].age + MaxLate >=
                    (nodes'[m].missed - IF Counted(m)' THEN 1 ELSE 0)
                      * Interval + phase'
  <2>1. CASE m = n /\ Known(nodes, n)
        BY <2>1, <1>3, <1>4
  <2>2. CASE m = n /\ ~Known(nodes, n)
        BY <2>2, <1>4, <1>c, <1>e, ScanEffect
  <2>3. CASE m # n
    <3>1. nodes'[m] = nodes[m] /\ phase' = phase /\ due' = due
          BY <1>4, <2>3, ScanEffect DEF Scan, clock
    <3>2. (m \in todo) = (m \in todo')
          BY <1>4, <2>3 DEF Scan
    <3>3. Counted(m)' = Counted(m)
          BY <3>1, <3>2 DEF Counted
    <3> QED BY <3>1, <3>2, <3>3, <1>b
  <2> QED BY <2>1, <2>2, <2>3
<1>5. ASSUME NEW n \in Node, Remove(n) PROVE nodes'[m] = nodes[m] \/ nodes'[m].missed = 0
      BY <1>5, RemoveEffect DEF Unknown
<1>6. ASSUME NEW n \in Node, Heartbeat(n) \/ Claim(n)
      PROVE  nodes'[m] = nodes[m] \/ nodes'[m].missed = 0
      BY <1>6, HeardEffect
<1>7. CASE BrokerRestart
      BY <1>7, <1>e DEF BrokerRestart, Unknown
<1> QED BY <1>1, <1>2, <1>4, <1>5, <1>6, <1>7, <1>d, <1>e, HeardEffect
        DEF Next, MonitorStep, WorkerStep, EndScan, Remove, Crash, Restart,
            vars, clock, monitor


\* A worker whose silence never reaches the interval is never in the copy's stale
\* part, so neither Scan nor Remove can reach it.
LEMMA PunctualStep == TypeOK /\ PunctualInv /\ [Next]_vars => PunctualInv'
<1> SUFFICES ASSUME TypeOK, PunctualInv, [Next]_vars, NEW m \in Punctual
             PROVE  /\ m \notin todo'
                    /\ m \notin doomed'
                    /\ Known(nodes', m) => /\ nodes'[m].age < Interval
                                           /\ nodes'[m].missed = 0
    BY DEF PunctualInv
<1>a. /\ m \in Node /\ m \notin todo /\ m \notin doomed
      /\ Known(nodes, m) => nodes[m].age < Interval /\ nodes[m].missed = 0
      /\ 0 < Interval
      BY PunctualAssumption, IntervalAssumption DEF PunctualInv
<1>1. CASE Advance
      BY <1>1, <1>a, AdvanceEffect DEF Advance, monitor, Known
<1>2. CASE Tick
  <2>1. m \notin todo'
        BY <1>2, <1>a, IntervalAssumption DEF Tick, Alive, Known, TypeOK, NodeInfo
  <2> QED BY <2>1, <1>2, <1>a DEF Tick
<1>3. ASSUME NEW n \in Node, Scan(n)
      PROVE  m \notin todo' /\ m \notin doomed' /\ nodes'[m] = nodes[m]
  <2>1. m # n
        BY <1>3, <1>a DEF Scan
  <2> QED BY <2>1, <1>3, <1>a, ScanEffect DEF Scan
<1>4. ASSUME NEW n \in Node, Remove(n)
      PROVE  m \notin todo' /\ m \notin doomed' /\ nodes'[m] = nodes[m]
  <2>1. m # n
        BY <1>4, <1>a DEF Remove
  <2> QED BY <2>1, <1>4, <1>a, RemoveEffect DEF Remove
<1>5. ASSUME NEW n \in Node, Heartbeat(n) \/ Claim(n)
      PROVE  /\ m \notin todo' /\ m \notin doomed'
             /\ \/ nodes'[m] = nodes[m]
                \/ nodes'[m].age = 0 /\ nodes'[m].missed = 0
      BY <1>5, <1>a, HeardEffect
<1>6. CASE BrokerRestart
      BY <1>6, <1>a DEF BrokerRestart, Unknown, Known
<1>7. CASE UNCHANGED <<nodes, todo, doomed>>
      BY <1>7, <1>a DEF Known
<1>8. CASE EndScan
      BY <1>8, <1>a DEF EndScan, Known
<1> QED BY <1>1, <1>2, <1>3, <1>4, <1>5, <1>6, <1>7, <1>8, <1>a
        DEF Next, MonitorStep, WorkerStep, Crash, Restart, vars, monitor, Known

\* For a threshold the ring's own limit does not pre-empt, whoever reaches the
\* threshold is at once on its way out, and no node is dead at a tick.
LEMMA OverdueStep ==
  ASSUME Threshold \in 1..MissedHeartbeatLimit
  PROVE  TypeOK /\ ControlInv /\ OverdueInv /\ [Next]_vars => OverdueInv'
<1> SUFFICES ASSUME TypeOK, ControlInv, OverdueInv, [Next]_vars, NEW m \in Node
             PROVE  /\ nodes'[m].missed <= Threshold
                    /\ nodes'[m].missed = Threshold => m \in doomed'
    BY DEF OverdueInv
<1>a. /\ nodes[m].missed \in Nat /\ Threshold \in Nat /\ Threshold >= 1
      /\ nodes[m].missed <= Threshold
      /\ nodes[m].missed = Threshold => m \in doomed
      BY DEF TypeOK, NodeInfo, OverdueInv, MissedHeartbeatLimit
<1>1. CASE Advance
      BY <1>1, <1>a, AdvanceEffect DEF Advance, monitor
<1>2. ASSUME NEW n \in Node, Scan(n)
      PROVE  /\ nodes'[m].missed <= Threshold
             /\ nodes'[m].missed = Threshold => m \in doomed'
  <2>1. CASE m # n
        BY <2>1, <1>2, <1>a, ScanEffect DEF Scan
  <2>2. CASE m = n
    <3>1. nodes[m].missed < Threshold
          BY <2>2, <1>2, <1>a DEF Scan
    <3>2. CASE Known(nodes, m)
      <4>1. nodes'[m].missed = nodes[m].missed + 1
            BY <3>2, <2>2, <1>2, ScanEffect
      <4>2. nodes'[m].missed = Threshold => m \in doomed'
            BY <3>2, <2>2, <1>2, <1>a DEF Scan
      <4> QED BY <3>1, <4>1, <4>2, <1>a
    <3>3. CASE ~Known(nodes, m)
      <4>1. nodes'[m] = nodes[m]
            BY <3>3, <2>2, <1>2, ScanEffect
      <4> QED BY <4>1, <3>1, <1>a
    <3> QED BY <3>2, <3>3
  <2> QED BY <2>1, <2>2
<1>3. ASSUME NEW n \in Node, Remove(n)
      PROVE  /\ nodes'[m].missed <= Threshold
             /\ nodes'[m].missed = Threshold => m \in doomed'
  <2>1. CASE m = n
        BY <2>1, <1>3, <1>a, RemoveEffect DEF Unknown
  <2>2. CASE m # n
        BY <2>2, <1>3, <1>a, RemoveEffect DEF Remove, ControlInv
  <2> QED BY <2>1, <2>2
<1>4. ASSUME NEW n \in Node, Heartbeat(n) \/ Claim(n)
      PROVE  /\ nodes'[m].missed <= Threshold
             /\ nodes'[m].missed = Threshold => m \in doomed'
      BY <1>4, <1>a, HeardEffect
<1>5. CASE BrokerRestart
      BY <1>5, <1>a DEF BrokerRestart, Unknown
<1>6. CASE UNCHANGED <<nodes, doomed>>
      BY <1>6, <1>a
<1> QED BY <1>1, <1>2, <1>3, <1>4, <1>5, <1>6
        DEF Next, MonitorStep, WorkerStep, Tick, EndScan, Crash, Restart, vars, monitor

\* The upper bound needs every stale node to be in the copy, which it is because
\* no node is dead between scans.
LEMMA DetectionStep ==
  ASSUME Threshold \in 1..MissedHeartbeatLimit
  PROVE  TypeOK /\ ControlInv /\ StatusInv /\ OverdueInv /\ DetectionInv
           /\ [Next]_vars => DetectionInv'
<1> SUFFICES ASSUME TypeOK, ControlInv, StatusInv, OverdueInv, DetectionInv,
                    [Next]_vars, NEW m \in Node, Known(nodes', m)
             PROVE  nodes'[m].age <
                      (nodes'[m].missed + IF Counted(m)' THEN 1 ELSE 2) * Interval
                        + phase'
    BY DEF DetectionInv, Known
<1> DEFINE missed == nodes[m].missed
           age == nodes[m].age
           k(c) == IF c THEN 1 ELSE 2
<1>a. /\ missed \in Nat /\ age \in Nat /\ phase \in Nat /\ phase < Interval
      /\ Interval \in Nat /\ Interval >= 1
      BY IntervalAssumption DEF TypeOK, NodeInfo
<1>b. Known(nodes, m) => age < (missed + k(Counted(m))) * Interval + phase
      BY DEF DetectionInv
<1>c. (missed + 2) * Interval = (missed + 1) * Interval + Interval
      BY <1>a
<1>d. CASE nodes'[m] = nodes[m] /\ UNCHANGED <<phase, due, todo>>
      BY <1>d, <1>b DEF Counted, Known
<1>e. CASE nodes'[m].missed = 0 /\ nodes'[m].age = 0 /\ phase' \in Nat
  <2>1. \A c \in BOOLEAN : 0 < (0 + k(c)) * Interval + phase'
        BY <1>e, <1>a
  <2> QED BY <1>e, <2>1 DEF Counted
<1>1. CASE Advance
  <2>1. /\ Known(nodes, m) /\ todo' = todo
        /\ nodes'[m].missed = missed /\ nodes'[m].age = age + 1
        BY <1>1, AdvanceEffect DEF Advance, monitor, Known
  <2>2. CASE phase' = phase + 1 /\ due' = due
    <3>1. Counted(m)' = Counted(m)
          BY <2>1, <2>2 DEF Counted
    <3> QED BY <3>1, <2>1, <2>2, <1>a, <1>b
  <2>3. CASE phase = Interval - 1 /\ phase' = 0 /\ due'
    <3>1. Counted(m) /\ ~Counted(m)'
          BY <2>3, <1>1, <1>a, LatenessAssumption
          DEF Advance, ControlInv, TypeOK, Counted
    <3>2. age < (missed + 1) * Interval + (Interval - 1)
          BY <3>1, <2>1, <2>3, <1>b
    <3>3. age + 1 < (missed + 2) * Interval + 0
          BY <3>2, <1>c, <1>a
    <3> QED BY <3>1, <3>3, <2>1, <2>3
  <2> QED BY <2>2, <2>3, <1>1, PhaseStep
<1>2. CASE Tick
  <2>1. nodes' = nodes /\ phase' = phase /\ ~Counted(m) /\ Known(nodes, m)
        BY <1>2 DEF Tick, Counted, Known
  <2>2. CASE m \in todo'
        BY <2>1, <2>2, <1>b DEF Counted
  <2>3. CASE m \notin todo'
    <3>1. nodes[m].status # "dead"
          BY <1>2 DEF Tick, ControlInv, OverdueInv, StatusInv, MissedHeartbeatLimit,
                      TypeOK, NodeInfo
    <3>2. age < Interval
          BY <2>3, <2>1, <3>1, <1>2, <1>a DEF Tick, Alive, Known
    <3>3. (missed + 1) * Interval = missed * Interval + Interval /\ missed * Interval >= 0
          BY <1>a
    <3>4. age < (missed + 1) * Interval + phase
          BY <3>2, <3>3, <1>a
    <3> QED BY <3>4, <2>1, <2>3, <1>2 DEF Tick, Counted
  <2> QED BY <2>2, <2>3
<1>3. ASSUME NEW n \in Node, Scan(n)
      PROVE  nodes'[m].age <
               (nodes'[m].missed + IF Counted(m)' THEN 1 ELSE 2) * Interval + phase'
  <2>0. phase' = phase /\ due' = due
        BY <1>3 DEF Scan, clock
  <2>1. CASE m = n
    <3>1. /\ Known(nodes, m) /\ nodes'[m].missed = missed + 1 /\ nodes'[m].age = age
          /\ m \in todo /\ ~due
          BY <2>1, <1>3, ScanEffect DEF Scan, Known, ControlInv
    <3>2. ~Counted(m) /\ Counted(m)'
          BY <2>0, <2>1, <3>1, <1>3 DEF Scan, Counted
    <3>3. (missed + 1) + 1 = missed + 2
          BY <1>a
    <3> QED BY <3>1, <3>2, <3>3, <2>0, <1>b
  <2>2. CASE m # n
    <3>1. nodes'[m] = nodes[m] /\ (m \in todo) = (m \in todo')
          BY <1>3, <2>2, ScanEffect DEF Scan
    <3>2. Counted(m)' = Counted(m)
          BY <2>0, <3>1 DEF Counted
    <3> QED BY <2>0, <3>1, <3>2, <1>b DEF Known
  <2> QED BY <2>1, <2>2
<1>4. ASSUME NEW n \in Node, Remove(n) PROVE nodes'[m] = nodes[m]
      BY <1>4, RemoveEffect DEF Unknown, Known
<1>5. ASSUME NEW n \in Node, Heartbeat(n) \/ Claim(n)
      PROVE  /\ UNCHANGED <<phase, due, todo>>
             /\ \/ nodes'[m] = nodes[m]
                \/ nodes'[m].missed = 0 /\ nodes'[m].age = 0
      BY <1>5, HeardEffect
<1>6. CASE BrokerRestart
      BY <1>6 DEF BrokerRestart, Unknown, Known
<1> QED BY <1>1, <1>2, <1>3, <1>4, <1>5, <1>6, <1>a, <1>d, <1>e
        DEF Next, MonitorStep, WorkerStep, EndScan, Remove, Crash, Restart,
            vars, clock, monitor


-----------------------------------------------------------------------------
LEMMA InvariantInit == Init => ControlInv /\ StatusInv /\ SilenceInv /\ PunctualInv
<1> SUFFICES ASSUME Init PROVE ControlInv /\ StatusInv /\ SilenceInv /\ PunctualInv
    OBVIOUS
<1>1. \A n \in Node : nodes[n].missed = 0 /\ nodes[n].status = "unknown"
      BY DEF Init, Unknown
<1>2. ControlInv
      BY LatenessAssumption DEF Init, ControlInv
<1>3. StatusInv
      BY <1>1 DEF StatusInv, MissedHeartbeatLimit
<1>4. SilenceInv
      BY <1>1 DEF SilenceInv
<1>5. PunctualInv
      BY <1>1, PunctualAssumption DEF Init, PunctualInv, Known
<1> QED BY <1>2, <1>3, <1>4, <1>5

\* The table, the clock and the monitor keep their types, whatever the
\* readings the heartbeats carry (hash_ring.rs:49-59, broker.rs:80-122).
THEOREM TypeCorrect == Spec => []TypeOK
BY TypeInit, TypeNext, PTL DEF Spec

\* The monitor's bookkeeping, and the invariant behind the silence bound.
LEMMA InvariantCorrect ==
  Spec => [](TypeOK /\ ControlInv /\ StatusInv /\ SilenceInv /\ PunctualInv)
<1>1. Init => TypeOK /\ ControlInv /\ StatusInv /\ SilenceInv /\ PunctualInv
      BY TypeInit, InvariantInit
<1>2. TypeOK /\ ControlInv /\ StatusInv /\ SilenceInv /\ PunctualInv /\ [Next]_vars
        => (TypeOK /\ ControlInv /\ StatusInv /\ SilenceInv /\ PunctualInv)'
      BY TypeNext, ControlStep, StatusStep, SilenceStep, PunctualStep
<1> QED BY <1>1, <1>2, PTL DEF Spec

\* m misses against a node (broker.rs:102) mean at least m - 1 intervals of
\* silence, less the monitor's lateness, for every interval and threshold.
THEOREM SilenceBound == Spec => []MissesMeanSilence
<1>1. TypeOK /\ SilenceInv => MissesMeanSilence
  <2> SUFFICES ASSUME TypeOK, SilenceInv, NEW n \in Node, nodes[n].missed >= 2
               PROVE  nodes[n].age + MaxLate >= (nodes[n].missed - 1) * Interval
      BY DEF MissesMeanSilence
  <2> DEFINE X == nodes[n].missed * Interval
             Y == (nodes[n].missed - 1) * Interval
  <2>1. /\ nodes[n].missed \in Nat /\ nodes[n].age \in Nat /\ phase \in Nat
        /\ Interval \in Nat /\ MaxLate \in Nat
        BY IntervalAssumption, LatenessAssumption DEF TypeOK, NodeInfo
  <2>2. X \in Int /\ Y \in Int /\ X >= Y /\ X = (nodes[n].missed - 0) * Interval
        BY <2>1
  <2>3. nodes[n].age + MaxLate >= Y + phase \/ nodes[n].age + MaxLate >= X + phase
        BY <2>2 DEF SilenceInv
  <2> HIDE DEF X, Y
  <2>4. nodes[n].age + MaxLate >= Y
        BY <2>1, <2>2, <2>3
  <2> QED BY <2>4 DEF Y
<1> QED BY <1>1, InvariantCorrect, PTL

\* A worker heard in every interval is never blamed or removed (broker.rs:100-109).
THEOREM PunctualKept == Spec => PunctualNodeKept
<1>1. TypeOK /\ PunctualInv /\ PunctualInv' /\ [Next]_vars =>
        [ ~BrokerRestart =>
            \A n \in Punctual : Known(nodes, n) =>
              Known(nodes', n) /\ nodes'[n].missed = 0 ]_vars
  <2> SUFFICES ASSUME TypeOK, PunctualInv, PunctualInv', [Next]_vars,
                      ~BrokerRestart, NEW n \in Punctual, Known(nodes, n)
               PROVE  Known(nodes', n)
      BY DEF PunctualInv
  <2>a. n \in Node
        BY PunctualAssumption
  <2>1. CASE Advance
        BY <2>1, <2>a, AdvanceEffect DEF Known
  <2>2. ASSUME NEW m \in Node, Scan(m) PROVE Known(nodes', n)
    <3>1. m # n
          BY <2>2 DEF Scan, PunctualInv
    <3> QED BY <3>1, <2>2, <2>a, ScanEffect DEF Known
  <2>3. ASSUME NEW m \in Node, Remove(m) PROVE Known(nodes', n)
    <3>1. m # n
          BY <2>3 DEF Remove, PunctualInv
    <3> QED BY <3>1, <2>3, <2>a, RemoveEffect DEF Known
  <2>4. ASSUME NEW m \in Node, Heartbeat(m) \/ Claim(m) PROVE Known(nodes', n)
        BY <2>4, <2>a, HeardEffect DEF Known
  <2>5. CASE UNCHANGED nodes
        BY <2>5 DEF Known
  <2> QED BY <2>1, <2>2, <2>3, <2>4, <2>5
          DEF Next, MonitorStep, WorkerStep, Tick, EndScan, Crash, Restart, vars
<1> QED BY <1>1, InvariantCorrect, PTL DEF Spec, PunctualNodeKept

LEMMA DetectionCorrect ==
  ASSUME Threshold \in 1..MissedHeartbeatLimit
  PROVE  Spec => [](OverdueInv /\ DetectionInv)
<1>1. Init => OverdueInv /\ DetectionInv
  <2> SUFFICES ASSUME Init PROVE OverdueInv /\ DetectionInv
      OBVIOUS
  <2>1. \A n \in Node : nodes[n].missed = 0 /\ nodes[n].status = "unknown"
        BY DEF Init, Unknown
  <2> QED BY <2>1 DEF OverdueInv, DetectionInv, Known, MissedHeartbeatLimit
<1>2. TypeOK /\ ControlInv /\ StatusInv /\ OverdueInv /\ DetectionInv /\ [Next]_vars
        => (OverdueInv /\ DetectionInv)'
  <2> SUFFICES ASSUME TypeOK, ControlInv, StatusInv, OverdueInv, DetectionInv,
                      [Next]_vars
               PROVE  OverdueInv' /\ DetectionInv'
      OBVIOUS
  <2>1. OverdueInv'
        BY OverdueStep
  <2>2. DetectionInv'
        BY DetectionStep
  <2> QED BY <2>1, <2>2
<1> QED BY <1>1, <1>2, InvariantCorrect, PTL DEF Spec

\* A silent node is suspected within two intervals and out of the table within
\* Threshold + 1, plus the lateness, provided the threshold is one the ring's own
\* limit does not pre-empt (hash_ring.rs:8).
THEOREM DetectionBound ==
  ASSUME Threshold \in 1..MissedHeartbeatLimit
  PROVE  Spec => []DetectedInTime
<1>1. TypeOK /\ ControlInv /\ StatusInv /\ OverdueInv /\ DetectionInv => DetectedInTime
  <2> SUFFICES ASSUME TypeOK, ControlInv, StatusInv, OverdueInv, DetectionInv,
                      NEW n \in Node, Known(nodes, n)
               PROVE  /\ nodes[n].status = "healthy" =>
                           nodes[n].age < 2 * Interval + MaxLate
                      /\ nodes[n].age < (Threshold + 1) * Interval + MaxLate
      BY DEF DetectedInTime, Known
  <2> DEFINE missed == nodes[n].missed
  <2>1. /\ missed \in Nat /\ nodes[n].age \in Nat /\ phase \in Nat
        /\ phase < Interval /\ Interval \in Nat /\ MaxLate \in Nat /\ Threshold \in Nat
        BY IntervalAssumption, LatenessAssumption
        DEF TypeOK, NodeInfo, MissedHeartbeatLimit
  <2>2. nodes[n].age < (missed + 2) * Interval + MaxLate
    <3>1. CASE Counted(n)
      <4>1. nodes[n].age < (missed + 1) * Interval + phase
            BY <3>1 DEF DetectionInv
      <4>2. (missed + 2) * Interval = (missed + 1) * Interval + Interval
            BY <2>1
      <4> QED BY <4>1, <4>2, <2>1
    <3>2. CASE ~Counted(n)
      <4>1. nodes[n].age < (missed + 2) * Interval + phase
            BY <3>2 DEF DetectionInv
      <4>2. phase <= MaxLate
            BY <3>2 DEF Counted, ControlInv, TypeOK
      <4> QED BY <4>1, <4>2, <2>1
    <3> QED BY <3>1, <3>2
  <2>3. nodes[n].status = "healthy" => missed = 0
        BY DEF StatusInv
  <2>4. CASE missed < Threshold
    <3>1. missed + 2 <= Threshold + 1
          BY <2>4, <2>1
    <3>2. (missed + 2) * Interval <= (Threshold + 1) * Interval
          BY <3>1, <2>1
    <3> QED BY <3>2, <2>1, <2>2, <2>3
  <2>5. CASE missed = Threshold
    <3>1. n \in doomed
          BY <2>5 DEF OverdueInv
    <3>2. Counted(n) /\ phase <= MaxLate
          BY <3>1 DEF Counted, ControlInv, TypeOK
    <3>3. nodes[n].age < (Threshold + 1) * Interval + phase
          BY <3>2, <2>5 DEF DetectionInv
    <3>4. missed # 0
          BY <2>5 DEF MissedHeartbeatLimit
    <3> QED BY <3>2, <3>3, <3>4, <2>1, <2>3
  <2>6. missed < Threshold \/ missed = Threshold
        BY <2>1 DEF OverdueInv
  <2> QED BY <2>4, <2>5, <2>6
<1> QED BY <1>1, InvariantCorrect, DetectionCorrect, PTL

\* Between scans the table holds no dead node and none at the threshold.
THEOREM RestIsClean ==
  ASSUME Threshold \in 1..MissedHeartbeatLimit
  PROVE  Spec => []NoneOverdueAtRest
<1>1. TypeOK /\ ControlInv /\ StatusInv /\ OverdueInv => NoneOverdueAtRest
      BY DEF TypeOK, NodeInfo, ControlInv, StatusInv, OverdueInv, NoneOverdueAtRest,
             MissedHeartbeatLimit
<1> QED BY <1>1, InvariantCorrect, DetectionCorrect, PTL

=============================================================================
