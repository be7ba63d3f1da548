---------------------------- MODULE WorkerProofs ----------------------------
(***************************************************************************)
(* What Worker and its pipeline promise, proved for every set of tasks,    *)
(* every MAX_CONCURRENT and every MAX_REVISIONS.                           *)
(*                                                                         *)
(* What a step does to a task depends on nothing but where the task is     *)
(* (TaskMove), whatever else the step does: the invariants about a task's  *)
(* outcome and its pipeline are proved over that, once. The slots are      *)
(* about all tasks together.                                               *)
(***************************************************************************)
EXTENDS Worker, Integers, FiniteSetTheorems, TLAPS

\* A pipeline's drafts and revisions at each of its nodes: a draft is asked for at the
\* start, and again for each rejection that leaves another one.
PipeOK(p) ==
  LET another == p.revision_count < MaxRevisions \/ p.revision_count = 0 IN
  /\ p.at = "researcher" => p.drafts = 0 /\ p.revision_count = 0
  /\ p.at = "coder" => p.drafts = p.revision_count /\ another
  /\ p.at = "reviewer" => p.drafts = p.revision_count + 1 /\ another
  /\ p.at = "end" =>
       /\ p.drafts <= IF MaxRevisions = 0 THEN 1 ELSE MaxRevisions
       /\ p.reviewer_verdict = "revision_required" => p.revision_count = MaxRevisions

\* Until its completion is sent nobody is told of a task, and what is sent is whole.
OutcomeOK(t) ==
  /\ PipeOK(graph[t])
  /\ st[t] \in {"queued", "claimed", "running", "completing"} => told[t] = {}
  /\ st[t] = "completing" => Valid(graph[t])
  /\ t \in acked => "failed" \notin told[t] /\ st[t] = "over"
  /\ st[t] = "over" => told[t] # {} \/ t \in hurt

OutcomeInv == \A t \in Task : OutcomeOK(t)

\* The claim loop has at most one assignment, and only from a claim that was served; it
\* is started once. The heartbeat loop rests only below the limit.
LoopInv ==
  /\ offer # {} => claim = "served"
  /\ \A t \in offer : st[t] = "claimed"
  /\ \A t, u \in offer : t = u
  /\ main = "connecting" => claim = "off"
  /\ beat = "idle" => misses < HeartbeatFailures

SlotInv == IsFiniteSet(Busy) /\ SlotsAccounted

WorkerInv == TypeOK /\ LoopInv /\ OutcomeInv /\ SlotInv

-----------------------------------------------------------------------------
\* A node of the graph leaves a state of the graph, with the drafts accounted for.
LEMMA GraphStep ==
  ASSUME NEW p \in SwarmState, PipeOK(p), NEW q \in GraphSteps(p)
  PROVE  q \in SwarmState /\ PipeOK(q)
<1> USE RevisionAssumption
<1>1. CASE p.at = "researcher"
  <2>1. PICK text \in BOOLEAN : q = [p EXCEPT !.at = "coder", !.research_data = text]
        BY <1>1 DEF GraphSteps, ResearcherNode
  <2>2. q \in SwarmState
        BY <2>1 DEF SwarmState
  <2>3. q.at = "coder" /\ q.drafts = 0 /\ q.revision_count = 0
        BY <1>1, <2>1 DEF SwarmState, PipeOK
  <2> QED BY <2>2, <2>3 DEF PipeOK
<1>2. CASE p.at = "coder"
  <2>1. PICK text \in BOOLEAN :
          q = [p EXCEPT !.at = "reviewer", !.code_output = text, !.drafts = @ + 1]
        BY <1>2 DEF GraphSteps, CoderNode
  <2>2. p.drafts \in Nat /\ p.revision_count \in Nat
        BY DEF SwarmState
  <2>3. /\ q.at = "reviewer" /\ q.drafts = p.drafts + 1
        /\ q.revision_count = p.revision_count
        BY <2>1 DEF SwarmState
  <2>4. q \in SwarmState
    <3>1. PICK n \in Nat : n = p.drafts + 1
          BY <2>2
    <3>2. q = [p EXCEPT !.at = "reviewer", !.code_output = text, !.drafts = n]
          BY <2>1, <3>1
    <3> QED BY <3>1, <3>2 DEF SwarmState
  <2> QED BY <1>2, <2>2, <2>3, <2>4 DEF PipeOK
<1>3. CASE p.at = "reviewer"
  <2>1. PICK r \in Review(p) : q = [r EXCEPT !.at = RoutingAfterReview(r)]
        BY <1>3 DEF GraphSteps, ReviewerNode
  <2>2. /\ p.drafts \in Nat /\ p.revision_count \in Nat
        /\ p.drafts = p.revision_count + 1
        /\ p.revision_count < MaxRevisions \/ p.revision_count = 0
        BY <1>3 DEF SwarmState, PipeOK
  <2>3. CASE r = Approved(p)
    <3>1. r \in SwarmState /\ r.reviewer_verdict = "approved"
          /\ r.revision_count = p.revision_count /\ r.drafts = p.drafts
          BY <2>3 DEF Approved, SwarmState, Verdict
    <3>2. /\ q \in SwarmState /\ q.at = "end" /\ q.drafts = p.drafts
          /\ q.reviewer_verdict = "approved"
          BY <2>1, <3>1 DEF RoutingAfterReview, SwarmState
    <3> QED BY <2>2, <3>2 DEF PipeOK
  <2>4. CASE r = Rejected(p) /\ p.revision_count < MaxRevisions
    <3>1. r \in SwarmState /\ r.reviewer_verdict = "revision_required"
          /\ r.revision_count = p.revision_count + 1 /\ r.drafts = p.drafts
          BY <2>2, <2>4 DEF Rejected, SwarmState, Verdict
    <3>2. /\ q \in SwarmState /\ q.at = RoutingAfterReview(r) /\ q.drafts = p.drafts
          /\ q.revision_count = p.revision_count + 1
          BY <2>1, <3>1 DEF RoutingAfterReview, SwarmState
    <3>3. CASE p.revision_count + 1 < MaxRevisions
          BY <2>2, <3>1, <3>2, <3>3 DEF RoutingAfterReview, PipeOK
    <3>4. CASE p.revision_count + 1 = MaxRevisions
          BY <2>2, <3>1, <3>2, <3>4 DEF RoutingAfterReview, PipeOK
    <3> QED BY <2>2, <2>4, <3>3, <3>4
  <2> QED BY <2>1, <2>2, <2>3, <2>4 DEF Review
<1>4. CASE p.at = "end"
      BY <1>4 DEF GraphSteps
<1> QED BY <1>1, <1>2, <1>3, <1>4 DEF SwarmState

LEMMA GraphStart == InitialState \in SwarmState /\ PipeOK(InitialState)
BY DEF InitialState, SwarmState, Verdict, PipeOK

-----------------------------------------------------------------------------
\* What a step may do to a task, by where the task is. Lost: its call or its worker is
\* gone. ToldOf: the broker served the call that ended, or not.
Lost(t) == t \in hurt'
Fresh(t) == graph'[t] = InitialState
Untold(t) == told'[t] = told[t]
ToldOf(t, verdict) == told'[t] \in {told[t], told[t] \cup {verdict}}
Unacked(t) == t \in acked' => t \in acked

Rests(t) == st'[t] = st[t] /\ graph'[t] = graph[t] /\ Untold(t) /\ Unacked(t)

Thinks(t) ==
  /\ st[t] = "running" /\ st'[t] = "running"
  /\ graph'[t] \in GraphSteps(graph[t])
  /\ Untold(t) /\ Unacked(t)

Assigned(t) ==
  /\ <<st[t], st'[t]>> \in {<<"queued", "claimed">>, <<"claimed", "running">>}
  /\ graph'[t] = graph[t] /\ Untold(t) /\ Unacked(t)

Sent(t) ==
  /\ st[t] = "running" /\ st'[t] = "completing" /\ Valid(graph[t])
  /\ graph'[t] = graph[t] /\ Untold(t) /\ Unacked(t)

Vanishes(t) ==
  /\ st[t] \in {"queued", "claimed", "running"} /\ st'[t] = "over" /\ Lost(t)
  /\ graph'[t] = graph[t] \/ Fresh(t)
  /\ Untold(t) /\ Unacked(t)

Fails(t) ==
  /\ st[t] = "running" /\ st'[t] = "reporting"
  /\ Fresh(t) /\ Untold(t) /\ Unacked(t)

Acknowledged(t) ==
  /\ st[t] = "completing" /\ st'[t] = "over"
  /\ Fresh(t) /\ told'[t] = told[t] \cup {"completed"}

Abandoned(t) ==
  /\ st[t] = "completing"
  /\ \/ st'[t] = "over" /\ Lost(t)
     \/ st'[t] = "reporting"
  /\ Fresh(t) /\ ToldOf(t, "completed") /\ Unacked(t)

Reported(t) ==
  /\ st[t] = "reporting" /\ st'[t] = "over"
  /\ Fresh(t) /\ Unacked(t)
  /\ ToldOf(t, "failed") /\ (Lost(t) \/ told'[t] # {})

TaskMove(t) ==
  /\ t \in hurt => t \in hurt'
  /\ t \in acked => t \in acked'
  /\ \/ Rests(t) \/ Thinks(t) \/ Assigned(t) \/ Sent(t) \/ Vanishes(t)
     \/ Fails(t) \/ Acknowledged(t) \/ Abandoned(t) \/ Reported(t)

\* Whatever a step may do to a task keeps its outcome in order.
LEMMA OutcomeMove ==
  ASSUME TypeOK, NEW t \in Task, OutcomeOK(t), TaskMove(t)
  PROVE  OutcomeOK(t)'
<1>0. /\ graph[t] \in SwarmState
      /\ st[t] \in TaskState
      /\ told[t] \in SUBSET {"completed", "failed"}
      BY DEF TypeOK
<1> USE DEF OutcomeOK
<1>1. CASE Rests(t)
      BY <1>1 DEF TaskMove, Rests, Untold, Unacked
<1>2. CASE Thinks(t)
  <2>1. PipeOK(graph'[t])
        BY <1>2, <1>0, GraphStep DEF Thinks
  <2> QED BY <1>2, <2>1 DEF Thinks, Untold, Unacked
<1>3. CASE Assigned(t)
      BY <1>3 DEF Assigned, Untold, Unacked
<1>4. CASE Sent(t)
      BY <1>4 DEF Sent, Untold, Unacked
<1>5. CASE Vanishes(t)
      BY <1>5, GraphStart DEF Vanishes, Fresh, Untold, Unacked, Lost
<1>6. CASE Fails(t)
      BY <1>6, GraphStart DEF Fails, Fresh, Untold, Unacked
<1>7. CASE Acknowledged(t)
      BY <1>7, GraphStart DEF Acknowledged, Fresh
<1>8. CASE Abandoned(t)
      BY <1>8, GraphStart DEF Abandoned, Fresh, Unacked, Lost
<1>9. CASE Reported(t)
      BY <1>9, GraphStart DEF Reported, Fresh, Unacked, Lost
<1> QED BY <1>1, <1>2, <1>3, <1>4, <1>5, <1>6, <1>7, <1>8, <1>9 DEF TaskMove

-----------------------------------------------------------------------------
\* What the steps that touch several tasks do to one of them.
LEMMA ForgetFacts ==
  ASSUME NEW ts, Forget(ts), NEW t \in Task
  PROVE  graph'[t] = IF t \in ts THEN InitialState ELSE graph[t]
BY DEF Forget

LEMMA LeaveFacts ==
  ASSUME NEW ts, Leave(ts), NEW t \in Task
  PROVE  /\ st'[t] = IF t \in ts THEN "over" ELSE st[t]
         /\ graph'[t] = IF t \in ts THEN InitialState ELSE graph[t]
BY ForgetFacts DEF Leave

LEMMA ServedFacts ==
  ASSUME NEW ts, ServedOrNot(ts), NEW t \in Task
  PROVE  /\ t \in ts => ToldOf(t, Verdicts(t))
         /\ t \notin ts => Untold(t)
BY DEF ServedOrNot, ToldOf, Untold

\* An execution whose exception is reported, or only logged.
LEMMA FailureFacts ==
  ASSUME TypeOK, NEW u \in Task, ReportFailure(u), NEW t \in Task
  PROVE  /\ t = u => \/ st'[t] = "reporting" /\ Fresh(t)
                     \/ st'[t] = "over" /\ Fresh(t) /\ Lost(t)
         /\ t # u => st'[t] = st[t] /\ graph'[t] = graph[t]
         /\ hurt \subseteq hurt'
<1>1. CASE stub
      BY <1>1, ForgetFacts DEF ReportFailure, TypeOK, Fresh
<1>2. CASE ~stub
      BY <1>2, LeaveFacts DEF ReportFailure, TypeOK, Fresh, Lost
<1> QED BY <1>1, <1>2 DEF TypeOK

\* Every step does to each task one of the things that may be done to it.
LEMMA Moves ==
  ASSUME TypeOK, LoopInv, [Next]_vars, NEW t \in Task
  PROVE  TaskMove(t)
<1> USE DEF TypeOK
<1>a. offer \subseteq Task /\ \A u \in offer : st[u] = "claimed"
      BY DEF LoopInv
<1>b. st[t] \in TaskState
      OBVIOUS
<1>1. CASE UNCHANGED <<exec, told, ghosts>>
      BY <1>1 DEF TaskMove, Rests, Untold, Unacked, exec, ghosts
<1>2. CASE DialStep \/ Heartbeat \/ HeartbeatFails \/ ClaimTask \/ Signal \/ UNCHANGED vars
      BY <1>1, <1>2 DEF DialStep, DialOpen, DialFails, DialReturns, Heartbeat, HeartbeatFails,
                        ClaimTask, Signal, vars
<1>3. CASE Reconnect
  <2>1. PICK calls : calls = InFlight \ stale
        OBVIOUS
  <2>2. Cancel(calls) /\ ServedOrNot(Calling \ stale)
        BY <1>3, <2>1 DEF Reconnect
  <2>3. /\ hurt \subseteq hurt' /\ acked' = acked
        /\ t \in calls => t \in hurt'
        /\ "claim" \in calls /\ t \in offer => t \in hurt'
        BY <2>2 DEF Cancel
  <2>4. st'[t] = IF t \in (Calling \cap calls) \cup (IF "claim" \in calls THEN offer ELSE {})
                 THEN "over" ELSE st[t]
        BY <2>2 DEF Cancel
  <2>5. graph'[t] = IF t \in Calling \cap calls THEN InitialState ELSE graph[t]
        BY <2>2, ForgetFacts DEF Cancel
  <2>6. t \in Calling \cap calls <=> t \in Calling \ stale
        BY <2>1 DEF InFlight
  <2>7. CASE t \in Calling \cap calls
    <3>1. ToldOf(t, Verdicts(t)) /\ Lost(t) /\ Fresh(t) /\ st'[t] = "over" /\ Unacked(t)
          BY <2>2, <2>3, <2>4, <2>5, <2>6, <2>7, ServedFacts DEF Lost, Fresh, Unacked
    <3>2. st[t] = "completing" \/ st[t] = "reporting"
          BY <2>7 DEF Calling
    <3> QED BY <2>3, <3>1, <3>2 DEF TaskMove, Abandoned, Reported, Verdicts
  <2>8. CASE t \notin Calling \cap calls
    <3>1. Untold(t) /\ graph'[t] = graph[t] /\ Unacked(t)
          BY <2>2, <2>3, <2>5, <2>6, <2>8, ServedFacts DEF Unacked
    <3>2. st'[t] = st[t] \/ (st[t] = "claimed" /\ st'[t] = "over" /\ Lost(t))
          BY <2>3, <2>4, <2>8, <1>a DEF Lost
    <3> QED BY <2>3, <3>1, <3>2 DEF TaskMove, Rests, Vanishes
  <2> QED BY <2>7, <2>8
<1>4. CASE ServeClaim
  <2>1. UNCHANGED <<graph, told, acked>> /\ (t \in hurt => t \in hurt')
        BY <1>4 DEF ServeClaim
  <2>2. \/ st'[t] = st[t]
        \/ st[t] = "queued" /\ st'[t] = "claimed"
        \/ st[t] = "queued" /\ st'[t] = "over" /\ Lost(t)
        BY <1>4, <1>a DEF ServeClaim, Lost
  <2> QED BY <2>1, <2>2 DEF TaskMove, Rests, Assigned, Vanishes, Untold, Unacked
<1>5. CASE ClaimAnswered
  <2>1. UNCHANGED <<graph, told, acked, hurt>>
        BY <1>5 DEF ClaimAnswered, ghosts
  <2>2. st'[t] = st[t] \/ (st[t] = "claimed" /\ st'[t] = "running")
        BY <1>5, <1>a DEF ClaimAnswered
  <2> QED BY <2>1, <2>2 DEF TaskMove, Rests, Assigned, Untold, Unacked
<1>6. CASE ClaimFails \/ Drain
  <2>1. UNCHANGED <<graph, told, acked>> /\ hurt' = hurt \cup offer
        BY <1>6 DEF ClaimFails, Drain
  <2>2. st'[t] = st[t] \/ (st[t] = "claimed" /\ st'[t] = "over" /\ Lost(t))
        BY <1>6, <1>a, <2>1 DEF ClaimFails, Drain, Lost
  <2> QED BY <2>1, <2>2 DEF TaskMove, Rests, Vanishes, Untold, Unacked
<1>7. CASE Stop
  <2>1. Leave(Busy) /\ ServedOrNot(Calling) /\ hurt' = hurt \cup Busy /\ acked' = acked
        BY <1>7 DEF Stop
  <2>2. CASE t \in Busy
    <3>1. st'[t] = "over" /\ Fresh(t) /\ Lost(t) /\ Unacked(t)
          BY <2>1, <2>2, LeaveFacts DEF Fresh, Lost, Unacked
    <3>2. CASE t \in Calling
      <4>1. ToldOf(t, Verdicts(t))
            BY <2>1, <3>2, ServedFacts
      <4>2. st[t] = "completing" \/ st[t] = "reporting"
            BY <3>2 DEF Calling
      <4> QED BY <2>1, <3>1, <4>1, <4>2 DEF TaskMove, Abandoned, Reported, Verdicts
    <3>3. CASE t \notin Calling
      <4>1. Untold(t) /\ st[t] = "running"
            BY <2>1, <2>2, <3>3, ServedFacts DEF Busy, Calling
      <4> QED BY <2>1, <3>1, <4>1 DEF TaskMove, Vanishes
    <3> QED BY <3>2, <3>3
  <2>3. CASE t \notin Busy
    <3>1. t \notin Calling
          BY <2>3 DEF Busy, Calling
    <3> QED BY <2>1, <2>3, <3>1, LeaveFacts, ServedFacts DEF TaskMove, Rests, Unacked
  <2> QED BY <2>2, <2>3
<1>8. ASSUME NEW u \in Task, Think(u)
      PROVE  TaskMove(t)
  <2>1. UNCHANGED <<st, told, acked, hurt>> /\ st[u] = "running"
        BY <1>8 DEF Think, ghosts
  <2>2. graph'[t] = graph[t] \/ (t = u /\ graph'[t] \in GraphSteps(graph[t]))
        BY <1>8 DEF Think
  <2> QED BY <2>1, <2>2 DEF TaskMove, Rests, Thinks, Untold, Unacked
<1>9. ASSUME NEW u \in Task, Finish(u) \/ ExecutionFails(u)
      PROVE  TaskMove(t)
  <2>1. UNCHANGED <<told, acked>> /\ st[u] = "running"
        BY <1>9 DEF Finish, ExecutionFails
  <2>2. CASE ReportFailure(u)
        BY <2>1, <2>2, FailureFacts
           DEF TaskMove, Rests, Fails, Vanishes, Untold, Unacked
  <2>3. CASE /\ Valid(graph[u]) /\ stub
             /\ st' = [st EXCEPT ![u] = "completing"]
             /\ UNCHANGED <<graph, active, hurt>>
        BY <2>1, <2>3 DEF TaskMove, Rests, Sent, Untold, Unacked
  <2> QED BY <1>9, <2>2, <2>3 DEF Finish, ExecutionFails
<1>10. ASSUME NEW u \in Task, CompleteAnswered(u)
       PROVE  TaskMove(t)
  <2>1. /\ st[u] = "completing" /\ Leave({u}) /\ hurt' = hurt /\ acked' = acked \cup {u}
        /\ told' = [told EXCEPT ![u] = @ \cup {"completed"}]
        BY <1>10 DEF CompleteAnswered
  <2> QED BY <2>1, LeaveFacts DEF TaskMove, Rests, Acknowledged, Fresh, Untold, Unacked
<1>11. ASSUME NEW u \in Task, CompleteFails(u)
       PROVE  TaskMove(t)
  <2>1. st[u] = "completing" /\ ServedOrNot({u}) /\ ReportFailure(u) /\ acked' = acked
        BY <1>11 DEF CompleteFails
  <2>2. CASE t = u
    <3>1. ToldOf(t, "completed")
          BY <2>1, <2>2, ServedFacts DEF Verdicts
    <3> QED BY <2>1, <2>2, <3>1, FailureFacts DEF TaskMove, Abandoned, Unacked
  <2>3. CASE t # u
        BY <2>1, <2>3, FailureFacts, ServedFacts DEF TaskMove, Rests, Unacked
  <2> QED BY <2>2, <2>3
<1>12. ASSUME NEW u \in Task, ReportEnds(u)
       PROVE  TaskMove(t)
  <2>1. /\ st[u] = "reporting" /\ Leave({u}) /\ acked' = acked
        /\ \/ told' = [told EXCEPT ![u] = @ \cup {"failed"}] /\ hurt' = hurt
           \/ hurt' = hurt \cup {u} /\ told' = told
        BY <1>12 DEF ReportEnds
  <2>2. CASE t = u
        BY <2>1, <2>2, LeaveFacts DEF TaskMove, Reported, ToldOf, Fresh, Lost, Unacked
  <2>3. CASE t # u
        BY <2>1, <2>3, LeaveFacts DEF TaskMove, Rests, Untold, Unacked
  <2> QED BY <2>2, <2>3
<1> QED BY <1>2, <1>3, <1>4, <1>5, <1>6, <1>7, <1>8, <1>9, <1>10, <1>11, <1>12
        DEF Next, ExecutionStep

-----------------------------------------------------------------------------
LEMMA LoopStep == TypeOK /\ LoopInv /\ [Next]_vars => LoopInv'
<1> SUFFICES ASSUME TypeOK, LoopInv, [Next]_vars
             PROVE  LoopInv'
    OBVIOUS
<1> USE DEF TypeOK, LoopInv
<1>a. offer \subseteq Task /\ misses \in Nat
      BY DEF HeartbeatFailures
<1>b. \A t \in Task : st[t] = "claimed" =>
        t \notin Calling /\ t \notin Busy /\ st[t] # "running"
      BY DEF Calling, Busy
<1>1. CASE DialStep \/ Signal \/ UNCHANGED vars
      BY <1>1 DEF DialStep, DialOpen, DialFails, DialReturns, Signal, vars, connection, exec,
                  HeartbeatFailures
<1>2. CASE Heartbeat \/ HeartbeatFails
      BY <1>2, <1>a DEF Heartbeat, HeartbeatFails, exec, HeartbeatFailures
<1>3. CASE Reconnect
  <2>1. PICK calls : calls = InFlight \ stale
        OBVIOUS
  <2>2. /\ Cancel(calls) /\ main' = main /\ beat' = "dialing"
        BY <1>3, <2>1 DEF Reconnect
  <2>3. "claim" \in calls => claim \in {"calling", "served"}
        BY <2>1, TaskAssumption DEF InFlight, Calling
  <2>4. CASE "claim" \in calls
        BY <2>2, <2>3, <2>4 DEF Cancel
  <2>5. CASE "claim" \notin calls
    <3>1. offer' = offer /\ claim' = claim
          BY <2>2, <2>5 DEF Cancel
    <3>2. \A t \in offer : st'[t] = st[t]
          BY <2>2, <2>5, <1>a, <1>b DEF Cancel
    <3> QED BY <2>2, <3>1, <3>2
  <2> QED BY <2>4, <2>5
<1>4. CASE ClaimTask
      BY <1>4 DEF ClaimTask, connection, exec
<1>5. CASE ServeClaim
      BY <1>5 DEF ServeClaim, connection
<1>6. CASE ClaimAnswered \/ ClaimFails
      BY <1>6 DEF ClaimAnswered, ClaimFails, connection
<1>7. CASE Drain
      BY <1>7 DEF Drain
<1>8. CASE Stop
      BY <1>8, <1>a, <1>b DEF Stop, Leave, connection
<1>9. ASSUME NEW u \in Task, ExecutionStep(u)
      PROVE  LoopInv'
  <2>1. UNCHANGED <<main, beat, misses, claim, offer>>
        BY <1>9 DEF ExecutionStep, Think, Finish, ExecutionFails, CompleteAnswered, CompleteFails,
                    ReportEnds, connection
  <2>2. \A t \in Task : st[t] = "claimed" => st'[t] = "claimed"
    <3>1. CASE Think(u)
          BY <3>1 DEF Think
    <3>2. CASE Finish(u) \/ ExecutionFails(u) \/ CompleteFails(u)
      <4>1. st[u] # "claimed"
            BY <3>2 DEF Finish, ExecutionFails, CompleteFails
      <4>2. ReportFailure(u) \/ st' = [st EXCEPT ![u] = "completing"]
            BY <3>2 DEF Finish, ExecutionFails, CompleteFails
      <4> QED BY <4>1, <4>2, FailureFacts
    <3>3. CASE CompleteAnswered(u) \/ ReportEnds(u)
      <4>1. st[u] # "claimed" /\ Leave({u})
            BY <3>3 DEF CompleteAnswered, ReportEnds
      <4> QED BY <4>1, LeaveFacts
    <3> QED BY <1>9, <3>1, <3>2, <3>3 DEF ExecutionStep
  <2> QED BY <1>a, <2>1, <2>2
<1> QED BY <1>1, <1>2, <1>3, <1>4, <1>5, <1>6, <1>7, <1>8, <1>9 DEF Next

\* The slots held after executions ended, and after one began.
LEMMA SlotsFreed ==
  ASSUME SlotInv, NEW ts \in SUBSET Busy, Busy' = Busy \ ts,
         active' = active - Cardinality(ts)
  PROVE  IsFiniteSet(Busy') /\ active' = Cardinality(Busy') /\ active' <= active
<1>1. IsFiniteSet(ts) /\ Cardinality(ts) \in Nat /\ Cardinality(Busy) \in Nat
      BY FS_Subset, FS_CardinalityType DEF SlotInv
<1>2. Busy \cap ts = ts
      OBVIOUS
<1>3. /\ IsFiniteSet(Busy \ ts)
      /\ Cardinality(Busy \ ts) = Cardinality(Busy) - Cardinality(ts)
      BY <1>2, FS_Difference DEF SlotInv
<1> QED BY <1>1, <1>3 DEF SlotInv, SlotsAccounted

LEMMA SlotStep == TypeOK /\ LoopInv /\ SlotInv /\ [Next]_vars => SlotInv'
<1> SUFFICES ASSUME TypeOK, LoopInv, SlotInv, [Next]_vars
             PROVE  SlotInv'
    OBVIOUS
<1>a. active \in Nat /\ MaxConcurrent \in Nat \ {0} /\ offer \subseteq Task
      BY ConcurrencyAssumption DEF TypeOK
<1>b. /\ active = Cardinality(Busy) /\ IsFiniteSet(Busy)
      /\ active <= MaxConcurrent
      /\ claim \in {"calling", "served"} => active + 1 <= MaxConcurrent
      BY <1>a DEF SlotInv, SlotsAccounted
\* The set of executions and their count move together; the limit is kept.
<1>f. ASSUME NEW ts \in SUBSET Busy, Busy' = Busy \ ts, active' = active - Cardinality(ts),
             claim' \in {"calling", "served"} => claim \in {"calling", "served"}
      PROVE  SlotInv'
  <2>1. IsFiniteSet(Busy') /\ active' = Cardinality(Busy') /\ active' <= active
        BY <1>f, SlotsFreed
  <2>2. active' \in Nat
        BY <2>1, FS_CardinalityType
  <2>3. active' + (IF claim' \in {"calling", "served"} THEN 1 ELSE 0) <= MaxConcurrent
        BY <1>a, <1>b, <1>f, <2>1, <2>2
  <2> QED BY <2>1, <2>3 DEF SlotInv, SlotsAccounted
<1>s. ASSUME Busy' = Busy, active' = active,
             claim' \in {"calling", "served"} => claim \in {"calling", "served"}
      PROVE  SlotInv'
      BY <1>a, <1>b, <1>s DEF SlotInv, SlotsAccounted
<1>1. CASE DialStep \/ Heartbeat \/ HeartbeatFails \/ Signal \/ UNCHANGED vars
  <2>1. st' = st /\ active' = active
        BY <1>1 DEF DialStep, DialOpen, DialFails, DialReturns, Heartbeat, HeartbeatFails,
                    Signal, vars, exec
  <2>2. claim' \in {"calling", "served"} => claim \in {"calling", "served"}
        BY <1>1 DEF DialStep, DialOpen, DialFails, DialReturns, Heartbeat, HeartbeatFails,
                    Signal, vars
  <2> QED BY <2>1, <2>2, <1>s DEF Busy
<1>2. CASE Reconnect
  <2>1. PICK calls : calls = InFlight \ stale
        OBVIOUS
  <2>2. Cancel(calls)
        BY <1>2, <2>1 DEF Reconnect
  <2>3. PICK ts : ts = Calling \cap calls
        OBVIOUS
  <2>4. ts \subseteq Busy
        BY <2>3 DEF Calling, Busy
  <2>5. Busy' = Busy \ ts
        BY <2>2, <2>3, <1>a DEF Cancel, Busy, Calling, LoopInv
  <2>6. active' = active - Cardinality(ts)
        BY <2>2, <2>3 DEF Cancel
  <2>7. claim' \in {"calling", "served"} => claim \in {"calling", "served"}
        BY <2>2 DEF Cancel
  <2> QED BY <2>4, <2>5, <2>6, <2>7, <1>f
<1>3. CASE ClaimTask
  <2>1. st' = st /\ active' = active /\ claim' = "calling" /\ active < MaxConcurrent
        BY <1>3 DEF ClaimTask, exec
  <2>2. Busy' = Busy
        BY <2>1 DEF Busy
  <2> QED BY <1>a, <1>b, <2>1, <2>2 DEF SlotInv, SlotsAccounted
<1>4. CASE ServeClaim
  <2>1. active' = active /\ claim = "calling"
        BY <1>4 DEF ServeClaim
  <2>2. Busy' = Busy
        BY <1>4 DEF ServeClaim, Busy, TypeOK
  <2> QED BY <2>1, <2>2, <1>s
<1>5. CASE ClaimAnswered
  <2>1. /\ claim = "served" /\ claim' = "idle" /\ active' = active + Cardinality(offer)
        /\ st' = [t \in Task |-> IF t \in offer THEN "running" ELSE st[t]]
        BY <1>5 DEF ClaimAnswered
  <2>2. Busy' = Busy \cup offer
        BY <2>1, <1>a DEF Busy
  <2>3. Busy \cap offer = {}
        BY DEF Busy, LoopInv
  <2>4. CASE offer = {}
    <3>1. active' = active /\ Busy' = Busy
          BY <1>a, <2>1, <2>2, <2>4, FS_EmptySet
    <3> QED BY <2>1, <3>1, <1>s
  <2>5. CASE offer # {}
    <3>1. PICK t : t \in offer
          BY <2>5
    <3>2. offer = {t} /\ t \notin Busy
          BY <2>3, <3>1 DEF LoopInv
    <3>3. Cardinality(offer) = 1
          BY <3>2, FS_Singleton
    <3>4. IsFiniteSet(Busy \cup {t}) /\ Cardinality(Busy \cup {t}) = Cardinality(Busy) + 1
          BY <1>b, <3>2, FS_AddElement
    <3>5. IsFiniteSet(Busy') /\ active' = Cardinality(Busy') /\ active' = active + 1
          BY <1>b, <2>1, <2>2, <3>2, <3>3, <3>4
    <3> QED BY <1>a, <1>b, <2>1, <3>5 DEF SlotInv, SlotsAccounted
  <2> QED BY <2>4, <2>5
<1>6. CASE ClaimFails \/ Drain
  <2>1. /\ active' = active /\ claim' \notin {"calling", "served"}
        /\ st' = [t \in Task |-> IF t \in offer THEN "over" ELSE st[t]]
        BY <1>6 DEF ClaimFails, Drain
  <2>2. Busy' = Busy
        BY <2>1, <1>a DEF Busy, LoopInv
  <2> QED BY <2>1, <2>2, <1>s
<1>7. CASE Stop
  <2>1. PICK ts : ts = Busy
        OBVIOUS
  <2>2. Leave(ts) /\ claim' = claim
        BY <1>7, <2>1 DEF Stop
  <2>3. Busy' = Busy \ ts
        BY <2>1, <2>2, LeaveFacts DEF Busy
  <2> QED BY <2>1, <2>2, <2>3, <1>f DEF Leave
<1>8. ASSUME NEW u \in Task, ExecutionStep(u)
      PROVE  SlotInv'
  <2>1. claim' = claim
        BY <1>8 DEF ExecutionStep, Think, Finish, ExecutionFails, CompleteAnswered, CompleteFails,
                    ReportEnds
  <2>2. ASSUME u \in Busy, Leave({u})
        PROVE  SlotInv'
    <3>1. Busy' = Busy \ {u}
          BY <2>2, LeaveFacts DEF Busy
    <3> QED BY <2>1, <2>2, <3>1, <1>f DEF Leave
  <2>3. ASSUME u \in Busy, NEW s \in {"completing", "reporting"}, st' = [st EXCEPT ![u] = s],
               active' = active
        PROVE  SlotInv'
    <3>1. Busy' = Busy
          BY <2>3 DEF Busy, TypeOK
    <3> QED BY <2>1, <2>3, <3>1, <1>s
  <2>4. ASSUME u \in Busy, ReportFailure(u)
        PROVE  SlotInv'
        BY <2>2, <2>3, <2>4 DEF ReportFailure
  <2>5. CASE Think(u)
        BY <2>1, <2>5, <1>s DEF Think, Busy
  <2>6. CASE ~Think(u)
    <3>1. u \in Busy
          BY <1>8 DEF ExecutionStep, Think, Finish, ExecutionFails, CompleteAnswered,
                      CompleteFails, ReportEnds, Busy
    <3> QED BY <1>8, <2>2, <2>3, <2>4, <2>6, <3>1
            DEF ExecutionStep, Finish, ExecutionFails, CompleteAnswered, CompleteFails, ReportEnds
  <2> QED BY <2>5, <2>6
<1> QED BY <1>1, <1>2, <1>3, <1>4, <1>5, <1>6, <1>7, <1>8 DEF Next

LEMMA TypeStep == TypeOK /\ LoopInv /\ OutcomeInv /\ SlotInv' /\ [Next]_vars => TypeOK'
<1> SUFFICES ASSUME TypeOK, LoopInv, OutcomeInv, SlotInv', [Next]_vars
             PROVE  TypeOK'
    OBVIOUS
<1>a. active' \in Nat
      BY FS_CardinalityType DEF SlotInv, SlotsAccounted
<1>b. \A t \in Task : TaskMove(t)
      BY Moves
<1>c. ASSUME NEW t \in Task
      PROVE  /\ st'[t] \in TaskState /\ graph'[t] \in SwarmState
             /\ told'[t] \in SUBSET {"completed", "failed"}
  <2>0. /\ st[t] \in TaskState /\ graph[t] \in SwarmState
        /\ told[t] \in SUBSET {"completed", "failed"}
        /\ PipeOK(graph[t]) /\ TaskMove(t)
        BY <1>b DEF TypeOK, OutcomeInv, OutcomeOK
  <2>1. st'[t] \in TaskState
        BY <2>0 DEF TaskMove, Rests, Thinks, Assigned, Sent, Vanishes, Fails, Acknowledged,
                    Abandoned, Reported, TaskState
  <2>2. graph'[t] \in SwarmState
        BY <2>0, GraphStep, GraphStart
           DEF TaskMove, Rests, Thinks, Assigned, Sent, Vanishes, Fails, Acknowledged,
               Abandoned, Reported, Fresh
  <2>3. told'[t] \in SUBSET {"completed", "failed"}
        BY <2>0 DEF TaskMove, Rests, Thinks, Assigned, Sent, Vanishes, Fails, Acknowledged,
                    Abandoned, Reported, Untold, ToldOf
  <2> QED BY <2>1, <2>2, <2>3
\* Each of them is still a function of the tasks.
<1>d. /\ st' = [t \in Task |-> st'[t]]
      /\ graph' = [t \in Task |-> graph'[t]]
      /\ told' = [t \in Task |-> told'[t]]
  <2>1. /\ st = [t \in Task |-> st[t]]
        /\ graph = [t \in Task |-> graph[t]]
        /\ told = [t \in Task |-> told[t]]
        BY DEF TypeOK
  <2>2. ASSUME NEW u \in Task, ReportFailure(u)
        PROVE  /\ st' = [t \in Task |-> st'[t]]
               /\ graph' = [t \in Task |-> graph'[t]]
        BY <2>2 DEF ReportFailure, Leave, Forget, TypeOK
  <2>3. ASSUME NEW u \in Task, ExecutionStep(u)
        PROVE  /\ st' = [t \in Task |-> st'[t]]
               /\ graph' = [t \in Task |-> graph'[t]]
               /\ told' = [t \in Task |-> told'[t]]
    <3>1. CASE Think(u)
          BY <2>1, <3>1 DEF Think, TypeOK
    <3>2. CASE Finish(u)
          BY <2>1, <2>2, <3>2 DEF Finish, TypeOK
    <3>3. CASE ExecutionFails(u)
          BY <2>1, <2>2, <3>3 DEF ExecutionFails
    <3>4. CASE CompleteAnswered(u)
          BY <3>4 DEF CompleteAnswered, Leave, Forget, TypeOK
    <3>5. CASE CompleteFails(u)
          BY <2>2, <3>5 DEF CompleteFails, ServedOrNot
    <3>6. CASE ReportEnds(u)
          BY <3>6 DEF ReportEnds, Leave, Forget, TypeOK
    <3> QED BY <2>3, <3>1, <3>2, <3>3, <3>4, <3>5, <3>6 DEF ExecutionStep
  <2>4. CASE Reconnect
        BY <2>4 DEF Reconnect, Cancel, Forget, ServedOrNot
  <2>5. CASE Stop
        BY <2>5 DEF Stop, Leave, Forget, ServedOrNot
  <2>6. CASE ServeClaim \/ ClaimAnswered \/ ClaimFails \/ Drain
        BY <2>1, <2>6 DEF ServeClaim, ClaimAnswered, ClaimFails, Drain, TypeOK
  <2>7. CASE DialStep \/ Heartbeat \/ HeartbeatFails \/ ClaimTask \/ Signal \/ UNCHANGED vars
        BY <2>1, <2>7 DEF DialStep, DialOpen, DialFails, DialReturns, Heartbeat, HeartbeatFails,
                          ClaimTask, Signal, vars, exec
  <2> QED BY <2>3, <2>4, <2>5, <2>6, <2>7 DEF Next
<1>e. /\ st' \in [Task -> TaskState]
      /\ graph' \in [Task -> SwarmState]
      /\ told' \in [Task -> SUBSET {"completed", "failed"}]
  <2>1. PICK s, g, h : s = st' /\ g = graph' /\ h = told'
        OBVIOUS
  <2>2. /\ s = [t \in Task |-> s[t]] /\ \A t \in Task : s[t] \in TaskState
        /\ g = [t \in Task |-> g[t]] /\ \A t \in Task : g[t] \in SwarmState
        /\ h = [t \in Task |-> h[t]] /\ \A t \in Task : h[t] \in SUBSET {"completed", "failed"}
        BY <2>1, <1>c, <1>d
  <2>3. s \in [Task -> TaskState]
        BY <2>2
  <2>4. g \in [Task -> SwarmState]
        BY <2>2
  <2>5. h \in [Task -> SUBSET {"completed", "failed"}]
        BY <2>2
  <2> QED BY <2>1, <2>3, <2>4, <2>5
\* The rest of the worker.
<1>g. /\ main' \in {"connecting", "serving", "draining", "stopped"}
      /\ shutdown' \in BOOLEAN /\ stub' \in BOOLEAN
      /\ dial' \in {"off", "top", "await"}
      /\ beat' \in {"off", "idle", "closing", "dialing", "ended"}
      /\ misses' \in 0..HeartbeatFailures
      /\ claim' \in {"off", "idle", "calling", "served", "ended", "cancelled"}
      /\ offer' \subseteq Task
      /\ stale' \subseteq Task \cup {"claim"}
      /\ acked' \subseteq Task /\ hurt' \subseteq Task
  <2> USE DEF TypeOK
  <2>1. ASSUME NEW u \in Task, ExecutionStep(u)
        PROVE  /\ UNCHANGED <<main, shutdown, connection, claim, offer>>
               /\ stale' \subseteq stale
               /\ acked' \subseteq acked \cup {u} /\ hurt' \subseteq hurt \cup {u}
    <3>1. CASE Think(u)
          BY <3>1 DEF Think, ghosts
    <3>2. CASE Finish(u) \/ ExecutionFails(u)
          BY <3>2 DEF Finish, ExecutionFails, ReportFailure
    <3>3. CASE CompleteAnswered(u)
          BY <3>3 DEF CompleteAnswered
    <3>4. CASE CompleteFails(u)
          BY <3>4 DEF CompleteFails, ReportFailure
    <3>5. CASE ReportEnds(u)
          BY <3>5 DEF ReportEnds
    <3> QED BY <2>1, <3>1, <3>2, <3>3, <3>4, <3>5 DEF ExecutionStep
  <2>2. CASE \E u \in Task : ExecutionStep(u)
        BY <2>1, <2>2 DEF connection
  <2>3. CASE Reconnect
        BY <2>3 DEF Reconnect, Cancel
  <2>4. CASE Stop
        BY <2>4 DEF Stop, Busy, connection
  <2>5. CASE ServeClaim \/ ClaimAnswered \/ ClaimFails \/ Drain
        BY <2>5 DEF ServeClaim, ClaimAnswered, ClaimFails, Drain, connection, ghosts
  <2>6. CASE Heartbeat \/ HeartbeatFails
    <3>1. /\ UNCHANGED <<main, shutdown, dial, claim, offer, stale, acked, hurt>>
          /\ stub' = stub \/ stub' = FALSE
          /\ beat' \in {"idle", "closing"}
          BY <2>6 DEF Heartbeat, HeartbeatFails, ghosts
    <3>2. misses' \in 0..HeartbeatFailures
      <4>1. misses \in Nat /\ misses < 3
            BY <2>6 DEF Heartbeat, HeartbeatFails, LoopInv, HeartbeatFailures
      <4>2. misses' = 0 \/ misses' = misses + 1
            BY <2>6 DEF Heartbeat, HeartbeatFails
      <4> QED BY <4>1, <4>2 DEF HeartbeatFailures
    <3> QED BY <3>1, <3>2
  <2>7. CASE DialStep \/ ClaimTask \/ Signal \/ UNCHANGED vars
    <3>1. /\ main' = main \/ main' = "serving"
          /\ shutdown' = shutdown \/ shutdown' = TRUE
          /\ stub' = stub \/ stub' = TRUE
          /\ dial' = dial \/ dial' \in {"off", "top", "await"}
          /\ beat' = beat \/ beat' = "idle"
          /\ misses' = misses \/ misses' = 0
          BY <2>7 DEF DialStep, DialOpen, DialFails, DialReturns, ClaimTask, Signal, vars, connection
    <3>2. /\ claim' = claim \/ claim' \in {"idle", "calling"}
          /\ stale' = stale \/ stale' = InFlight
          /\ UNCHANGED <<offer, acked, hurt>>
          BY <2>7 DEF DialStep, DialOpen, DialFails, DialReturns, ClaimTask, Signal, vars, ghosts
    <3>3. InFlight \subseteq Task \cup {"claim"}
          BY DEF InFlight, Calling
    <3>4. shutdown' \in BOOLEAN /\ stub' \in BOOLEAN
          BY <3>1
    <3>5. misses' \in 0..HeartbeatFailures
          BY <3>1 DEF HeartbeatFailures
    <3> HIDE DEF TypeOK
    <3>6. /\ main \in {"connecting", "serving", "draining", "stopped"}
          /\ dial \in {"off", "top", "await"}
          /\ beat \in {"off", "idle", "closing", "dialing", "ended"}
          /\ claim \in {"off", "idle", "calling", "served", "ended", "cancelled"}
          /\ offer \subseteq Task /\ stale \subseteq Task \cup {"claim"}
          /\ acked \subseteq Task /\ hurt \subseteq Task
          BY DEF TypeOK
    <3>7. offer' \subseteq Task /\ acked' \subseteq Task /\ hurt' \subseteq Task
          BY <3>2, <3>6
    <3>8. stale' \subseteq Task \cup {"claim"}
          BY <3>2, <3>3, <3>6
    <3>9. /\ main' \in {"connecting", "serving", "draining", "stopped"}
          /\ dial' \in {"off", "top", "await"}
          /\ beat' \in {"off", "idle", "closing", "dialing", "ended"}
          /\ claim' \in {"off", "idle", "calling", "served", "ended", "cancelled"}
          BY <3>1, <3>2, <3>6
    <3> QED BY <3>4, <3>5, <3>7, <3>8, <3>9
  <2> QED BY <2>2, <2>3, <2>4, <2>5, <2>6, <2>7 DEF Next
<1> QED BY <1>a, <1>e, <1>g DEF TypeOK

-----------------------------------------------------------------------------
LEMMA WorkerStart == Init => WorkerInv
<1> SUFFICES ASSUME Init
             PROVE  WorkerInv
    OBVIOUS
<1>1. TypeOK
  <2>1. st \in [Task -> TaskState] /\ graph \in [Task -> SwarmState]
        /\ told \in [Task -> SUBSET {"completed", "failed"}]
        BY GraphStart DEF Init, TaskState
  <2>2. shutdown \in BOOLEAN /\ stub \in BOOLEAN
        BY DEF Init
  <2>3. misses \in 0..HeartbeatFailures /\ active \in Nat
        BY DEF Init, HeartbeatFailures
  <2> QED BY <2>1, <2>2, <2>3 DEF Init, TypeOK
<1>2. LoopInv
      BY DEF Init, LoopInv
<1>3. OutcomeInv
      BY GraphStart DEF Init, OutcomeInv, OutcomeOK
<1>4. SlotInv
  <2>1. Busy = {} /\ active = 0 /\ claim = "off"
        BY DEF Init, Busy
  <2> QED BY <2>1, FS_EmptySet, ConcurrencyAssumption DEF SlotInv, SlotsAccounted
<1> QED BY <1>1, <1>2, <1>3, <1>4 DEF WorkerInv

LEMMA WorkerStep == WorkerInv /\ [Next]_vars => WorkerInv'
<1> SUFFICES ASSUME WorkerInv, [Next]_vars
             PROVE  WorkerInv'
    OBVIOUS
<1> USE DEF WorkerInv
<1>1. LoopInv' /\ SlotInv'
      BY LoopStep, SlotStep
<1>2. TypeOK'
      BY <1>1, TypeStep
<1>3. OutcomeInv'
      BY Moves, OutcomeMove DEF OutcomeInv
<1> QED BY <1>1, <1>2, <1>3

LEMMA WorkerCorrect == Spec => []WorkerInv
BY WorkerStart, WorkerStep, PTL DEF Spec

\* The worker's state keeps its type: the failed heartbeats stay within the limit at
\* which the worker reconnects, the pipelines within their states.
THEOREM TypeCorrect == Spec => []TypeOK
<1>1. WorkerInv => TypeOK
      BY DEF WorkerInv
<1> QED BY <1>1, WorkerCorrect, PTL

\* A slot is held by each execution and by nothing else, and at most MAX_CONCURRENT are
\* held or asked for (worker.py:130-140, 193, 275).
THEOREM SlotsCorrect == Spec => []SlotsAccounted
<1>1. WorkerInv => SlotsAccounted
      BY DEF WorkerInv, SlotInv
<1> QED BY <1>1, WorkerCorrect, PTL

\* Nothing is reported as failed of a task whose completion was acknowledged
\* (worker.py:197-275).
THEOREM AcknowledgedCorrect == Spec => []AckedNeverFailed
<1>1. WorkerInv => AckedNeverFailed
      BY DEF WorkerInv, TypeOK, OutcomeInv, OutcomeOK, AckedNeverFailed
<1> QED BY <1>1, WorkerCorrect, PTL

\* The coder is asked MAX_REVISIONS times at most (once, if that is 0), and an
\* unapproved result was rejected that often (brain.py:171-178, 237-247).
THEOREM RevisionsCorrect == Spec => []RevisionsBounded
<1>1. WorkerInv => RevisionsBounded
  <2> SUFFICES ASSUME WorkerInv, NEW t \in Task
               PROVE  /\ graph[t].drafts <= IF MaxRevisions = 0 THEN 1 ELSE MaxRevisions
                      /\ graph[t].at = "end" /\ graph[t].reviewer_verdict = "revision_required"
                           => graph[t].revision_count = MaxRevisions
      BY DEF RevisionsBounded
  <2>1. graph[t] \in SwarmState /\ PipeOK(graph[t])
        BY DEF WorkerInv, TypeOK, OutcomeInv, OutcomeOK
  <2> QED BY <2>1, RevisionAssumption DEF PipeOK, SwarmState
<1> QED BY <1>1, WorkerCorrect, PTL

\* An execution is over with the broker told, or with a call or the worker lost
\* (worker.py:255-275).
THEOREM OutcomesCorrect == Spec => []OutcomeReported
<1>1. WorkerInv => OutcomeReported
      BY DEF WorkerInv, OutcomeInv, OutcomeOK, OutcomeReported
<1> QED BY <1>1, WorkerCorrect, PTL

\* A completion the broker is told of has research and code in it (brain.py:270-287).
THEOREM CompletionsCorrect == Spec => CompletedIsWhole
<1>1. WorkerInv /\ [Next]_vars
        => [\A t \in Task :
              "completed" \in told'[t] \ told[t] =>
                graph[t].research_data /\ graph[t].code_output]_vars
  <2> SUFFICES ASSUME WorkerInv, [Next]_vars, NEW t \in Task,
                      "completed" \in told'[t] \ told[t]
               PROVE  graph[t].research_data /\ graph[t].code_output
      OBVIOUS
  <2>1. TaskMove(t) /\ OutcomeOK(t)
        BY Moves DEF WorkerInv, OutcomeInv
  <2>2. st[t] = "completing"
        BY <2>1 DEF TaskMove, Rests, Thinks, Assigned, Sent, Vanishes, Fails, Acknowledged,
                    Abandoned, Reported, Untold, ToldOf
  <2> QED BY <2>1, <2>2 DEF OutcomeOK, Valid
<1> QED BY <1>1, WorkerCorrect, PTL DEF Spec, CompletedIsWhole

=============================================================================
