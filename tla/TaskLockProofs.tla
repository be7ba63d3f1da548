--------------------------- MODULE TaskLockProofs ---------------------------
(***************************************************************************)
(* What TaskLock promises, proved for every set of attempts, every lease,  *)
(* interval, jitter and delay: the fencing by the token, the single        *)
(* COMPLETED row, and the renewals that come in time.                      *)
(***************************************************************************)
EXTENDS TaskLock, Integers, TLAPS

Op == {"set", "del", "renew"}

Cmd(op, a) == [op |-> op, by |-> a]
Ans(op, a, did) == [op |-> op, by |-> a, did |-> did]

\* An attempt, or its renewer, waits for the answer of such a command.
Waits(op, a) ==
  \/ op = "set" /\ attempt[a] = "acquiring"
  \/ op = "del" /\ attempt[a] = "releasing"
  \/ op = "renew" /\ renewer[a] = "renewing"

Asked(op, a) == Cmd(op, a) \in wire
Answered(op, a, did) == Ans(op, a, did) \in answers

\* A command somebody waits for is on the wire or answered, once.
WireInv ==
  \A op \in Op, a \in Attempt :
    /\ Asked(op, a) \/ Answered(op, a, TRUE) \/ Answered(op, a, FALSE) => Waits(op, a)
    /\ ~(Asked(op, a) /\ Answered(op, a, TRUE))
    /\ ~(Asked(op, a) /\ Answered(op, a, FALSE))
    /\ ~(Answered(op, a, TRUE) /\ Answered(op, a, FALSE))

\* A token is set once: the attempt that has or had the lock sends no SET any more,
\* so a lock its own release deleted never comes back, and the answer that says so is
\* turned into one row.
TokenInv ==
  \A a \in Attempt :
    /\ Cmd("set", a) \in wire => Cmd("set", a) \notin late
    /\ attempt[a] = "new" => Cmd("set", a) \notin late
    /\ owner = a \/ a \in deleted =>
         attempt[a] # "new" /\ Cmd("set", a) \notin wire \cup late
    /\ owner = a => a \notin deleted
    /\ Ans("del", a, TRUE) \in answers => a \in deleted /\ completed[a] = 0
    /\ completed[a] = 0 \/ (completed[a] = 1 /\ a \in deleted)

\* The attempt has no renewer, and will not have one.
Spent(a) == renewer[a] = "ended" \/ (renewer[a] = "none" /\ attempt[a] = "out")

\* The lock of a renewer that has renewed outlives its sleep and the call that
\* follows; once the call is served it has all of the lease but the time waited.
TimeInv ==
  \A a \in Attempt :
    /\ Cmd("renew", a) \in late => Spent(a)
    /\ Ans("renew", a, TRUE) \in answers => a \in renewed
    /\ a \in renewed => Alive(a) \/ Spent(a)
    /\ Margin /\ a \in renewed \ removed =>
         /\ renewer[a] = "asleep" => owner = a /\ ttl > timer[a] + MaxDelay
         /\ renewer[a] = "renewing" =>
              /\ owner = a /\ ttl > timer[a]
              /\ Ans("renew", a, TRUE) \in answers => ttl >= lease - MaxDelay + timer[a]

LockInv == TypeOK /\ WireInv /\ TokenInv /\ TimeInv

-----------------------------------------------------------------------------
\* What a command may have done when it is served.
Nothing == UNCHANGED <<key, ghosts>>

Taken(a) ==
  /\ owner = None /\ owner' = a /\ ttl' = lease
  /\ UNCHANGED ghosts

Dropped(a) ==
  /\ owner = a /\ owner' = None /\ ttl' = 0
  /\ deleted' = deleted \cup {a}
  /\ removed' = removed \cup {a}
  /\ UNCHANGED renewed

Extended(a) ==
  /\ owner = a /\ owner' = a /\ ttl' = lease
  /\ renewed' = renewed \cup {a}
  /\ UNCHANGED <<deleted, removed>>

\* A served command does nothing, or what its name says, under its caller's token.
LEMMA Effects ==
  ASSUME NEW c \in Command, Apply(c)
  PROVE  /\ Result(c).did \in BOOLEAN
         /\ \/ Nothing /\ ~Result(c).did
            \/ c.op = "set" /\ Taken(c.by) /\ Result(c).did
            \/ c.op = "del" /\ Dropped(c.by) /\ Result(c).did
            \/ c.op = "renew" /\ Extended(c.by) /\ Result(c).did
<1>1. c.by \in Attempt /\ c.by # None /\ c.op \in {"set", "del", "renew"}
      BY LockAssumption DEF Command
<1>2. CASE c.op = "set"
  <2>1. Result(c) = SetNX(c.by)
        BY <1>2 DEF Result
  <2> QED BY <1>1, <1>2, <2>1 DEF Apply, SetNX, Nothing, Taken, key, ghosts
<1>3. CASE c.op = "del"
  <2>1. Result(c) = CompareAndDelete(c.by)
        BY <1>3 DEF Result
  <2> QED BY <1>1, <1>3, <2>1 DEF Apply, CompareAndDelete, Nothing, Dropped, key, ghosts
<1>4. CASE c.op = "renew"
  <2>1. Result(c) = CompareAndExpire(c.by)
        BY <1>4 DEF Result
  <2> QED BY <1>1, <1>4, <2>1 DEF Apply, CompareAndExpire, Nothing, Extended, key, ghosts
<1> QED BY <1>1, <1>2, <1>3, <1>4

\* The answer of a served command, and the command that is gone.
LEMMA Shapes ==
  ASSUME NEW c \in Command
  PROVE  c.op \in Op /\ c.by \in Attempt /\ c = Cmd(c.op, c.by)
BY DEF Command, Op, Cmd

\* The sleep of a renewer is shorter than the lease and a jitter.
LEMMA SleepFacts ==
  ASSUME TypeOK
  PROVE  /\ lease \in Nat \ {0} /\ base \in Nat /\ MaxJitter \in Nat /\ MaxDelay \in Nat \ {0}
         /\ Every \in 0..(lease - 1)
         /\ \A jitter \in 0..MaxJitter : Every + jitter \in 0..(lease - 1 + MaxJitter)
         /\ Margin => Every + MaxJitter + 2 * MaxDelay < lease
<1>1. /\ lease \in Nat \ {0} /\ base \in Nat /\ MaxJitter \in Nat /\ MaxDelay \in Nat \ {0}
      BY LockAssumption DEF TypeOK
<1>2. (lease \div 2) \in 0..(lease - 1)
      BY <1>1
<1>3. PICK half : half = lease \div 2
      OBVIOUS
<1>4. half \in 0..(lease - 1)
      BY <1>2, <1>3
<1> QED BY <1>1, <1>3, <1>4 DEF Every, Margin

-----------------------------------------------------------------------------
LEMMA TypeStep == TypeOK /\ TokenInv /\ [Next]_vars => TypeOK'
<1> SUFFICES ASSUME TypeOK, TokenInv, [Next]_vars
             PROVE  TypeOK'
    OBVIOUS
<1> USE DEF TypeOK
<1>l. lease \in Nat \ {0} /\ MaxJitter \in Nat /\ MaxDelay \in Nat \ {0} /\ None \notin Attempt
      BY SleepFacts, LockAssumption
<1>1. ASSUME NEW c \in Command, Serve(c) \/ ServeLate(c)
      PROVE  TypeOK'
  <2>1. Apply(c) /\ c.by \in Attempt /\ c.op \in {"set", "del", "renew"}
        BY <1>1, Shapes DEF Serve, ServeLate, Op
  <2>2. /\ owner' \in Attempt \cup {None}
        /\ ttl' \in 0..lease /\ (ttl' = 0) = (owner' = None)
        /\ deleted' \subseteq Attempt /\ removed' \subseteq Attempt /\ renewed' \subseteq Attempt
        BY <2>1, <1>l, Effects DEF Nothing, Taken, Dropped, Extended, key, ghosts
  <2>3. /\ wire' \subseteq Command /\ late' \subseteq Command
        /\ answers' \subseteq [op : {"set", "del", "renew"}, by : Attempt, did : BOOLEAN]
        BY <1>1, <2>1, Effects DEF Serve, ServeLate
  <2> QED BY <1>1, <2>2, <2>3 DEF Serve, ServeLate
<1>2. CASE ForceRelease
      BY <1>2, <1>l DEF ForceRelease, net
<1>3. ASSUME NEW a \in Attempt, Acquire(a) \/ Release(a)
      PROVE  TypeOK'
      BY <1>3 DEF Acquire, Release, Send, Command, AttemptState, key, ghosts
<1>4. ASSUME NEW a \in Attempt, AcquireReturns(a)
      PROVE  TypeOK'
      BY <1>4 DEF AcquireReturns, Receive, AttemptState, key, ghosts
<1>5. ASSUME NEW a \in Attempt, AcquireFails(a) \/ ReleaseFails(a)
      PROVE  TypeOK'
      BY <1>5 DEF AcquireFails, ReleaseFails, StopWaiting, AttemptState, key, ghosts
<1>6. ASSUME NEW a \in Attempt, ReleaseReturns(a)
      PROVE  TypeOK'
  <2>1. PICK did \in BOOLEAN :
          /\ Receive("del", a, did)
          /\ completed' = [completed EXCEPT ![a] = IF did THEN @ + 1 ELSE @]
        BY <1>6 DEF ReleaseReturns
  <2>2. did => completed[a] = 0
        BY <2>1 DEF TokenInv, Receive, Ans
  <2>3. completed' \in [Attempt -> 0..2]
        BY <2>1, <2>2
  <2> QED BY <1>6, <2>1, <2>3 DEF ReleaseReturns, Receive, AttemptState, key, ghosts
<1>7. ASSUME NEW a \in Attempt, Crash(a)
      PROVE  TypeOK'
      BY <1>7 DEF Crash, StopWaiting, AttemptState, key, ghosts
<1>8. ASSUME NEW a \in Attempt, SpawnRenewer(a)
      PROVE  TypeOK'
      BY <1>8, SleepFacts DEF SpawnRenewer, Sleep, key, net, ghosts
<1>9. ASSUME NEW a \in Attempt, Wake(a)
      PROVE  TypeOK'
      BY <1>9, <1>l DEF Wake, Send, Command, key, ghosts
<1>10. ASSUME NEW a \in Attempt, RenewReturns(a)
       PROVE  TypeOK'
  <2>1. CASE /\ Receive("renew", a, TRUE)
             /\ renewer' = [renewer EXCEPT ![a] = "asleep"]
             /\ Sleep(a)
        BY <1>10, <2>1, SleepFacts DEF RenewReturns, Receive, Sleep, key, ghosts
  <2>2. CASE /\ Receive("renew", a, FALSE)
             /\ renewer' = [renewer EXCEPT ![a] = "ended"]
             /\ timer' = [timer EXCEPT ![a] = 0]
        BY <1>10, <2>2 DEF RenewReturns, Receive, key, ghosts
  <2> QED BY <1>10, <2>1, <2>2 DEF RenewReturns
<1>11. ASSUME NEW a \in Attempt, RenewFails(a)
       PROVE  TypeOK'
       BY <1>11 DEF RenewFails, StopWaiting, key, ghosts
<1>12. CASE Tick
       BY <1>12, <1>l DEF Tick, Alive, net, ghosts
<1>13. CASE UNCHANGED vars
       BY <1>13 DEF vars, key, net, ghosts
<1> QED BY <1>1, <1>2, <1>3, <1>4, <1>5, <1>6, <1>7, <1>8, <1>9, <1>10, <1>11, <1>12, <1>13
        DEF Next, RenewerStep

-----------------------------------------------------------------------------
\* Whoever is answered waits no more; the others go on waiting.
LEMMA ReceivedWire ==
  ASSUME WireInv, NEW op \in Op, NEW a \in Attempt, NEW did \in BOOLEAN, Receive(op, a, did),
         \A o \in Op, x \in Attempt : Waits(o, x) /\ <<o, x>> # <<op, a>> => Waits(o, x)'
  PROVE  WireInv'
<1>1. /\ Answered(op, a, did) /\ ~Answered(op, a, did)'
      /\ \A o \in Op, x \in Attempt : Asked(o, x)' <=> Asked(o, x)
      BY DEF Receive, Answered, Asked, Ans
<1>2. \A o \in Op, x \in Attempt, b \in BOOLEAN : Answered(o, x, b)' => Answered(o, x, b)
      BY DEF Receive, Answered, Ans
<1>3. ~Asked(op, a) /\ ~Answered(op, a, TRUE)' /\ ~Answered(op, a, FALSE)'
  <2>1. CASE did = TRUE
        BY <1>1, <1>2, <2>1 DEF WireInv
  <2>2. CASE did = FALSE
        BY <1>1, <1>2, <2>2 DEF WireInv
  <2> QED BY <2>1, <2>2
<1>4. ASSUME NEW o \in Op, NEW x \in Attempt
      PROVE  /\ Asked(o, x)' \/ Answered(o, x, TRUE)' \/ Answered(o, x, FALSE)' => Waits(o, x)'
             /\ ~(Asked(o, x)' /\ Answered(o, x, TRUE)')
             /\ ~(Asked(o, x)' /\ Answered(o, x, FALSE)')
             /\ ~(Answered(o, x, TRUE)' /\ Answered(o, x, FALSE)')
  <2>1. CASE <<o, x>> = <<op, a>>
        BY <1>1, <1>3, <2>1
  <2>2. CASE <<o, x>> # <<op, a>>
        BY <1>1, <1>2, <2>2 DEF WireInv
  <2> QED BY <2>1, <2>2
<1> QED BY <1>4 DEF WireInv

LEMMA WireStep == TypeOK /\ WireInv /\ [Next]_vars => WireInv'
<1> SUFFICES ASSUME TypeOK, WireInv, [Next]_vars
             PROVE  WireInv'
    OBVIOUS
<1> USE DEF TypeOK, Op, Cmd, Ans, Waits, Asked, Answered
<1>1. ASSUME NEW c \in Command, Serve(c)
      PROVE  WireInv'
  <2>1. /\ c.op \in Op /\ c.by \in Attempt /\ c = Cmd(c.op, c.by) /\ Result(c).did \in BOOLEAN
        BY <1>1, Shapes, Effects DEF Serve
  <2>2. PICK did : did = Result(c).did
        OBVIOUS
  <2>3. /\ wire' = wire \ {Cmd(c.op, c.by)}
        /\ answers' = answers \cup {Ans(c.op, c.by, did)}
        /\ UNCHANGED <<attempt, renewer>>
        /\ Cmd(c.op, c.by) \in wire
        BY <1>1, <2>1, <2>2 DEF Serve
  <2> QED BY <2>1, <2>2, <2>3 DEF WireInv
<1>2. ASSUME NEW c \in Command, ServeLate(c)
      PROVE  WireInv'
      BY <1>2 DEF ServeLate, WireInv
<1>3. CASE ForceRelease
      BY <1>3 DEF ForceRelease, WireInv, net
<1>4. ASSUME NEW a \in Attempt, Acquire(a)
      PROVE  WireInv'
      BY <1>4 DEF Acquire, Send, WireInv
<1>5. ASSUME NEW a \in Attempt, Release(a)
      PROVE  WireInv'
      BY <1>5 DEF Release, Send, WireInv
<1>6. ASSUME NEW a \in Attempt, AcquireReturns(a)
      PROVE  WireInv'
  <2>1. PICK did \in BOOLEAN : Receive("set", a, did)
        BY <1>6 DEF AcquireReturns
  <2>2. \A o \in Op, x \in Attempt : Waits(o, x) /\ <<o, x>> # <<"set", a>> => Waits(o, x)'
    <3>1. renewer' = renewer /\ attempt[a] = "acquiring"
          BY <1>6, <2>1 DEF AcquireReturns, Receive, WireInv
    <3>2. \A x \in Attempt \ {a} : attempt'[x] = attempt[x]
          BY <1>6 DEF AcquireReturns
    <3> HIDE DEF TypeOK
    <3> QED BY <3>1, <3>2
  <2> QED BY <2>1, <2>2, ReceivedWire
<1>7. ASSUME NEW a \in Attempt, ReleaseReturns(a)
      PROVE  WireInv'
  <2>1. PICK did \in BOOLEAN : Receive("del", a, did)
        BY <1>7 DEF ReleaseReturns
  <2>2. \A o \in Op, x \in Attempt : Waits(o, x) /\ <<o, x>> # <<"del", a>> => Waits(o, x)'
    <3>1. renewer' = renewer /\ attempt[a] = "releasing"
          BY <1>7, <2>1 DEF ReleaseReturns, Receive, WireInv
    <3>2. \A x \in Attempt \ {a} : attempt'[x] = attempt[x]
          BY <1>7 DEF ReleaseReturns
    <3> HIDE DEF TypeOK
    <3> QED BY <3>1, <3>2
  <2> QED BY <2>1, <2>2, ReceivedWire
<1>8. ASSUME NEW a \in Attempt, AcquireFails(a)
      PROVE  WireInv'
      BY <1>8 DEF AcquireFails, StopWaiting, WireInv
<1>9. ASSUME NEW a \in Attempt, ReleaseFails(a)
      PROVE  WireInv'
      BY <1>9 DEF ReleaseFails, StopWaiting, WireInv
<1>10. ASSUME NEW a \in Attempt, Crash(a)
       PROVE  WireInv'
       BY <1>10 DEF Crash, StopWaiting, WireInv
<1>11. ASSUME NEW a \in Attempt, SpawnRenewer(a)
       PROVE  WireInv'
       BY <1>11 DEF SpawnRenewer, WireInv, net
<1>12. ASSUME NEW a \in Attempt, Wake(a)
       PROVE  WireInv'
       BY <1>12 DEF Wake, Send, WireInv
<1>13. ASSUME NEW a \in Attempt, RenewReturns(a)
       PROVE  WireInv'
       BY <1>13 DEF RenewReturns, Receive, WireInv
<1>14. ASSUME NEW a \in Attempt, RenewFails(a)
       PROVE  WireInv'
       BY <1>14 DEF RenewFails, StopWaiting, WireInv
<1>15. CASE Tick \/ UNCHANGED vars
       BY <1>15 DEF Tick, vars, net, WireInv
<1> QED BY <1>1, <1>2, <1>3, <1>4, <1>5, <1>6, <1>7, <1>8, <1>9, <1>10, <1>11, <1>12, <1>13,
           <1>14, <1>15
        DEF Next, RenewerStep

LEMMA TokenStep == TypeOK /\ WireInv /\ TokenInv /\ [Next]_vars => TokenInv'
<1> SUFFICES ASSUME TypeOK, WireInv, TokenInv, [Next]_vars
             PROVE  TokenInv'
    OBVIOUS
<1> USE DEF TypeOK, Cmd, Ans
<1>l. None \notin Attempt
      BY LockAssumption
<1>w. \A a \in Attempt :
        /\ Cmd("set", a) \in wire => attempt[a] = "acquiring"
        /\ \A did \in BOOLEAN :
             /\ Ans("set", a, did) \in answers => attempt[a] = "acquiring" /\ Cmd("set", a) \notin wire
             /\ Ans("del", a, did) \in answers => attempt[a] = "releasing"
      BY DEF WireInv, Waits, Asked, Answered, Op
<1>1. ASSUME NEW c \in Command, Serve(c) \/ ServeLate(c)
      PROVE  TokenInv'
  <2>1. c.op \in Op /\ c.by \in Attempt /\ c = Cmd(c.op, c.by)
        BY Shapes
  <2>2. /\ Apply(c)
        /\ wire' \subseteq wire /\ late' \subseteq late
        /\ Cmd(c.op, c.by) \in wire \cup late
        /\ Cmd(c.op, c.by) \in wire' \cup late' =>
             Cmd(c.op, c.by) \in wire /\ Cmd(c.op, c.by) \in late
        /\ answers' \subseteq answers \cup {Ans(c.op, c.by, Result(c).did)}
        /\ UNCHANGED <<attempt, completed>>
        BY <1>1, <2>1 DEF Serve, ServeLate
  <2>3. CASE Nothing /\ ~Result(c).did
    <3>1. \A a \in Attempt : Ans("del", a, TRUE) \in answers' => Ans("del", a, TRUE) \in answers
          BY <2>2, <2>3
    <3> QED BY <2>2, <2>3, <3>1 DEF Nothing, key, ghosts, TokenInv
  <2>4. CASE c.op = "set" /\ Taken(c.by)
    <3>1. \A a \in Attempt : Ans("del", a, TRUE) \in answers' => Ans("del", a, TRUE) \in answers
          BY <2>2, <2>4
    <3>2. Cmd("set", c.by) \notin wire' \cup late'
          BY <2>1, <2>2, <2>4 DEF TokenInv
    <3>3. attempt[c.by] # "new" /\ c.by \notin deleted
          BY <2>1, <2>2, <2>4, <1>w DEF TokenInv
    <3> QED BY <2>1, <2>2, <2>4, <3>1, <3>2, <3>3, <1>l DEF Taken, ghosts, TokenInv
  <2>5. CASE c.op = "del" /\ Dropped(c.by)
    <3>1. \A a \in Attempt :
            Ans("del", a, TRUE) \in answers' => Ans("del", a, TRUE) \in answers \/ a = c.by
          BY <2>2, <2>5
    <3>2. completed[c.by] = 0 /\ Cmd("set", c.by) \notin wire' \cup late' /\ attempt[c.by] # "new"
          BY <2>1, <2>2, <2>5 DEF Dropped, TokenInv
    <3> QED BY <2>1, <2>2, <2>5, <3>1, <3>2, <1>l DEF Dropped, TokenInv
  <2>6. CASE c.op = "renew" /\ Extended(c.by)
    <3>1. \A a \in Attempt : Ans("del", a, TRUE) \in answers' => Ans("del", a, TRUE) \in answers
          BY <2>2, <2>6
    <3> QED BY <2>1, <2>2, <2>6, <3>1 DEF Extended, TokenInv
  <2> QED BY <2>2, <2>3, <2>4, <2>5, <2>6, Effects
<1>2. CASE ForceRelease
      BY <1>2, <1>l DEF ForceRelease, net, TokenInv
<1>3. ASSUME NEW a \in Attempt, Acquire(a)
      PROVE  TokenInv'
      BY <1>3 DEF Acquire, Send, key, ghosts, TokenInv
<1>4. ASSUME NEW a \in Attempt, AcquireReturns(a)
      PROVE  TokenInv'
  <2>1. attempt' \in [Attempt -> AttemptState] /\ \A x \in Attempt : attempt'[x] = "new" => attempt[x] = "new"
        BY <1>4 DEF AcquireReturns, AttemptState
  <2>2. answers' \subseteq answers /\ wire' = wire /\ late' = late
        BY <1>4 DEF AcquireReturns, Receive
  <2>3. UNCHANGED <<owner, deleted, completed>>
        BY <1>4 DEF AcquireReturns, key, ghosts
  <2> QED BY <2>1, <2>2, <2>3 DEF TokenInv
<1>5. ASSUME NEW a \in Attempt, AcquireFails(a)
      PROVE  TokenInv'
      BY <1>5 DEF AcquireFails, StopWaiting, key, ghosts, TokenInv
<1>6. ASSUME NEW a \in Attempt, Release(a)
      PROVE  TokenInv'
      BY <1>6 DEF Release, Send, key, ghosts, TokenInv
<1>7. ASSUME NEW a \in Attempt, ReleaseReturns(a)
      PROVE  TokenInv'
  <2>1. PICK did \in BOOLEAN :
          /\ Receive("del", a, did)
          /\ completed' = [completed EXCEPT ![a] = IF did THEN @ + 1 ELSE @]
        BY <1>7 DEF ReleaseReturns
  <2>2. CASE did = TRUE
    <3>1. completed[a] = 0 /\ a \in deleted
          BY <2>1, <2>2 DEF Receive, TokenInv
    <3>2. completed' = [completed EXCEPT ![a] = 1]
          BY <2>1, <2>2, <3>1
    <3>3. Ans("del", a, TRUE) \notin answers' /\ answers' \subseteq answers /\ wire' = wire /\ late' = late
          BY <2>1, <2>2 DEF Receive
    <3>4. /\ UNCHANGED <<owner, deleted>>
          /\ \A x \in Attempt : attempt'[x] = "new" => attempt[x] = "new"
          BY <1>7 DEF ReleaseReturns, key, ghosts
    <3>5. completed'[a] = 1 /\ \A x \in Attempt \ {a} : completed'[x] = completed[x]
          BY <3>2
    <3> QED BY <3>1, <3>3, <3>4, <3>5 DEF TokenInv
  <2>3. CASE did = FALSE
    <3>1. completed' = completed
          BY <2>1, <2>3
    <3>2. answers' \subseteq answers /\ wire' = wire /\ late' = late
          BY <2>1 DEF Receive
    <3> QED BY <1>7, <3>1, <3>2 DEF ReleaseReturns, key, ghosts, TokenInv
  <2> QED BY <2>2, <2>3
<1>8. ASSUME NEW a \in Attempt, ReleaseFails(a)
      PROVE  TokenInv'
      BY <1>8 DEF ReleaseFails, StopWaiting, key, ghosts, TokenInv
<1>9. ASSUME NEW a \in Attempt, Crash(a)
      PROVE  TokenInv'
      BY <1>9 DEF Crash, StopWaiting, key, ghosts, TokenInv
<1>10. ASSUME NEW a \in Attempt, SpawnRenewer(a)
       PROVE  TokenInv'
       BY <1>10 DEF SpawnRenewer, key, net, ghosts, TokenInv
<1>11. ASSUME NEW a \in Attempt, Wake(a)
       PROVE  TokenInv'
       BY <1>11 DEF Wake, Send, key, ghosts, TokenInv
<1>12. ASSUME NEW a \in Attempt, RenewReturns(a)
       PROVE  TokenInv'
       BY <1>12 DEF RenewReturns, Receive, key, ghosts, TokenInv
<1>13. ASSUME NEW a \in Attempt, RenewFails(a)
       PROVE  TokenInv'
       BY <1>13 DEF RenewFails, StopWaiting, key, ghosts, TokenInv
<1>14. CASE Tick
       BY <1>14, <1>l DEF Tick, net, ghosts, TokenInv
<1>15. CASE UNCHANGED vars
       BY <1>15 DEF vars, key, net, ghosts, TokenInv
<1> QED BY <1>1, <1>2, <1>3, <1>4, <1>5, <1>6, <1>7, <1>8, <1>9, <1>10, <1>11, <1>12, <1>13,
           <1>14, <1>15
        DEF Next, RenewerStep

-----------------------------------------------------------------------------
LEMMA TimeStep == TypeOK /\ WireInv /\ TokenInv /\ TimeInv /\ [Next]_vars => TimeInv'
<1> SUFFICES ASSUME TypeOK, WireInv, TokenInv, TimeInv, [Next]_vars
             PROVE  TimeInv'
    OBVIOUS
<1> USE DEF TypeOK, Cmd, Ans
<1>l. /\ lease \in Nat \ {0} /\ MaxJitter \in Nat /\ MaxDelay \in Nat \ {0} /\ ttl \in Nat
      /\ timer \in [Attempt -> Nat]
      /\ None \notin Attempt
      BY SleepFacts, LockAssumption
<1>w. \A a \in Attempt :
        /\ Cmd("set", a) \in wire => attempt[a] = "acquiring"
        /\ Cmd("renew", a) \in wire =>
             /\ renewer[a] = "renewing"
             /\ Ans("renew", a, TRUE) \notin answers
        /\ Ans("set", a, TRUE) \in answers => attempt[a] = "acquiring"
        /\ Ans("set", a, FALSE) \in answers => attempt[a] = "acquiring"
        /\ Ans("renew", a, TRUE) \in answers => renewer[a] = "renewing"
      BY DEF WireInv, Waits, Asked, Answered, Op
<1>r. renewer \in [Attempt -> {"none", "asleep", "renewing", "ended"}]
      OBVIOUS
<1>m. (lease' = lease /\ base' = base) => (Margin' <=> Margin)
      BY DEF Margin
<1>1. ASSUME NEW c \in Command, Serve(c) \/ ServeLate(c)
      PROVE  TimeInv'
  <2>1. c.op \in Op /\ c.by \in Attempt /\ c = Cmd(c.op, c.by)
        BY Shapes
  <2>2. /\ Apply(c)
        /\ wire' \subseteq wire /\ late' \subseteq late
        /\ answers' \subseteq answers \cup {Ans(c.op, c.by, Result(c).did)}
        /\ UNCHANGED <<lease, base, attempt, renewer, timer>>
        BY <1>1, <2>1 DEF Serve, ServeLate
  <2>3. CASE ~(c.op = "renew" /\ Extended(c.by))
    <3>1. \A a \in Attempt : Ans("renew", a, TRUE) \in answers' => Ans("renew", a, TRUE) \in answers
          BY <2>1, <2>2, <2>3, Effects
    <3>2. /\ renewed' = renewed /\ removed \subseteq removed'
          /\ \A a \in Attempt \ removed' : owner = a => owner' = a /\ ttl' = ttl
          BY <2>1, <2>2, <2>3, <1>l, Effects DEF Nothing, Taken, Dropped, key, ghosts
    <3>3. ttl' \in Nat
          BY <2>1, <2>2, <2>3, <1>l, Effects DEF Nothing, Taken, Dropped, key, ghosts
    <3> QED BY <2>2, <3>1, <3>2, <3>3, <1>m DEF TimeInv, Spent, Alive
  <2>4. CASE c.op = "renew" /\ Extended(c.by)
    <3>1. \A a \in Attempt :
            Ans("renew", a, TRUE) \in answers' => Ans("renew", a, TRUE) \in answers \/ a = c.by
          BY <2>1, <2>2, <2>4
    <3>2. renewer[c.by] = "renewing" \/ Spent(c.by)
          BY <1>1, <2>1, <2>4, <1>w DEF Serve, ServeLate, TimeInv
    <3>3. /\ renewed' = renewed \cup {c.by} /\ removed' = removed
          /\ owner' = owner /\ owner = c.by /\ ttl' = lease
          BY <2>4 DEF Extended
    <3>4. \A a \in Attempt : /\ Spent(a)' <=> Spent(a)
                             /\ Alive(a)' <=> Alive(a)
          BY <2>2 DEF Spent, Alive
    <3>5. \A a \in Attempt :
            /\ Cmd("renew", a) \in late' => Spent(a)'
            /\ Ans("renew", a, TRUE) \in answers' => a \in renewed'
            /\ a \in renewed' => Alive(a)' \/ Spent(a)'
          BY <2>2, <3>1, <3>2, <3>3, <3>4 DEF TimeInv, Alive
    <3>6. ASSUME NEW a \in Attempt, Margin, a \in renewed' \ removed'
          PROVE  /\ renewer[a] = "asleep" => owner' = a /\ ttl' > timer[a] + MaxDelay
                 /\ renewer[a] = "renewing" =>
                      /\ owner' = a /\ ttl' > timer[a]
                      /\ Ans("renew", a, TRUE) \in answers' =>
                           ttl' >= lease - MaxDelay + timer[a]
      <4>1. CASE a = c.by
        <5>1. renewer[a] = "renewing" => timer[a] <= MaxDelay
              BY <1>l
        <5>2. MaxDelay < lease
              BY <3>6, SleepFacts
        <5> QED BY <4>1, <5>1, <5>2, <3>2, <3>3, <1>l DEF Spent
      <4>2. CASE a # c.by
            BY <4>2, <3>1, <3>3, <3>6 DEF TimeInv
      <4> QED BY <4>1, <4>2
    <3> QED BY <2>2, <3>5, <3>6, <1>m DEF TimeInv
  <2> QED BY <2>3, <2>4
<1>2. CASE ForceRelease
      BY <1>2, <1>m, <1>l DEF ForceRelease, net, TimeInv, Spent, Alive
<1>3. ASSUME NEW a \in Attempt, Acquire(a)
      PROVE  TimeInv'
      BY <1>3, <1>m DEF Acquire, Send, key, ghosts, TimeInv, Spent, Alive
<1>4. ASSUME NEW a \in Attempt, AcquireReturns(a)
      PROVE  TimeInv'
  <2>1. /\ attempt[a] # "out" /\ \A x \in Attempt : attempt[x] = "out" => attempt'[x] = "out"
        /\ \A x \in Attempt : Ans("renew", x, TRUE) \in answers' => Ans("renew", x, TRUE) \in answers
        BY <1>4, <1>w DEF AcquireReturns, Receive
  <2> QED BY <1>4, <1>m, <2>1 DEF AcquireReturns, Receive, key, ghosts, TimeInv, Spent, Alive
<1>5. ASSUME NEW a \in Attempt, AcquireFails(a)
      PROVE  TimeInv'
      BY <1>5, <1>m DEF AcquireFails, StopWaiting, key, ghosts, TimeInv, Spent, Alive
<1>6. ASSUME NEW a \in Attempt, Release(a)
      PROVE  TimeInv'
      BY <1>6, <1>m DEF Release, Send, key, ghosts, TimeInv, Spent, Alive
<1>7. ASSUME NEW a \in Attempt, ReleaseReturns(a)
      PROVE  TimeInv'
  <2>1. /\ attempt[a] = "releasing"
        /\ \A x \in Attempt : Ans("renew", x, TRUE) \in answers' => Ans("renew", x, TRUE) \in answers
        BY <1>7 DEF ReleaseReturns, Receive, WireInv, Waits, Answered, Op
  <2> QED BY <1>7, <1>m, <2>1 DEF ReleaseReturns, Receive, key, ghosts, TimeInv, Spent, Alive
<1>8. ASSUME NEW a \in Attempt, ReleaseFails(a)
      PROVE  TimeInv'
      BY <1>8, <1>m DEF ReleaseFails, StopWaiting, key, ghosts, TimeInv, Spent, Alive
<1>9. ASSUME NEW a \in Attempt, Crash(a)
      PROVE  TimeInv'
  <2>1. UNCHANGED <<lease, base, owner, ttl, removed, renewed>>
        BY <1>9 DEF Crash, key, ghosts
  <2>2. /\ renewer'[a] \in {"none", "ended"} /\ attempt'[a] = "out"
        /\ answers' \subseteq answers /\ Ans("renew", a, TRUE) \notin answers'
        BY <1>9, <1>w DEF Crash, StopWaiting
  <2>3. \A x \in Attempt \ {a} :
          /\ renewer'[x] = renewer[x] /\ timer'[x] = timer[x] /\ attempt'[x] = attempt[x]
          /\ Cmd("renew", x) \in late' => Cmd("renew", x) \in late
        BY <1>9 DEF Crash, StopWaiting
  <2>4. Margin' <=> Margin
        BY <1>m, <2>1
  <2> HIDE DEF TypeOK
  <2>5. ASSUME NEW x \in Attempt \ {a}
        PROVE  /\ Cmd("renew", x) \in late' => Spent(x)'
               /\ Ans("renew", x, TRUE) \in answers' => x \in renewed'
               /\ x \in renewed' => Alive(x)' \/ Spent(x)'
               /\ Margin' /\ x \in renewed' \ removed' =>
                    /\ renewer'[x] = "asleep" => owner' = x /\ ttl' > timer'[x] + MaxDelay
                    /\ renewer'[x] = "renewing" =>
                         /\ owner' = x /\ ttl' > timer'[x]
                         /\ Ans("renew", x, TRUE) \in answers' =>
                              ttl' >= lease' - MaxDelay + timer'[x]
        BY <2>1, <2>2, <2>3, <2>4 DEF TimeInv, Spent, Alive
  <2>6. Spent(a)' /\ ~Alive(a)'
        BY <2>2 DEF Spent, Alive
  <2> QED BY <2>2, <2>5, <2>6 DEF TimeInv
<1>10. ASSUME NEW a \in Attempt, SpawnRenewer(a)
       PROVE  TimeInv'
  <2>1. a \notin renewed /\ Ans("renew", a, TRUE) \notin answers /\ Cmd("renew", a) \notin late
        BY <1>10 DEF SpawnRenewer, TimeInv, Alive, Spent
  <2>2. \A x \in Attempt \ {a} : renewer'[x] = renewer[x] /\ timer'[x] = timer[x]
        BY <1>10 DEF SpawnRenewer, Sleep
  <2> QED BY <1>10, <1>m, <2>1, <2>2 DEF SpawnRenewer, key, net, ghosts, TimeInv, Spent, Alive
<1>11. ASSUME NEW a \in Attempt, Wake(a)
       PROVE  TimeInv'
  <2> HIDE DEF TypeOK
  <2>1. /\ renewer[a] = "asleep" /\ timer[a] = 0
        /\ renewer'[a] = "renewing" /\ timer'[a] = MaxDelay
        /\ \A x \in Attempt \ {a} : renewer'[x] = renewer[x] /\ timer'[x] = timer[x]
        BY <1>11, <1>l, <1>r DEF Wake
  <2>2. Ans("renew", a, TRUE) \notin answers /\ Cmd("renew", a) \notin late
        BY <2>1, <1>w DEF TimeInv, Spent
  <2>3. late' = late /\ answers' = answers /\ UNCHANGED <<lease, base, owner, ttl, attempt, ghosts>>
        BY <1>11 DEF Wake, Send, key
  <2>4. Margin /\ a \in renewed \ removed => owner = a /\ ttl > MaxDelay
    <3>1. Margin /\ a \in renewed \ removed => owner = a /\ ttl > timer[a] + MaxDelay
          BY <2>1 DEF TimeInv
    <3> QED BY <2>1, <3>1, <1>l
  <2>5. \A x \in Attempt \ {a} : (Alive(x)' <=> Alive(x)) /\ (Spent(x)' <=> Spent(x))
        BY <2>1, <2>3 DEF Alive, Spent
  <2>6. Alive(a)' /\ Alive(a)
        BY <2>1 DEF Alive
  <2> QED BY <2>1, <2>2, <2>3, <2>4, <2>5, <2>6, <1>m DEF ghosts, TimeInv
<1>12. ASSUME NEW a \in Attempt, RenewReturns(a)
       PROVE  TimeInv'
  <2>1. CASE /\ Receive("renew", a, TRUE)
             /\ renewer' = [renewer EXCEPT ![a] = "asleep"]
             /\ Sleep(a)
    <3>1. PICK jitter \in 0..MaxJitter : timer' = [timer EXCEPT ![a] = Every + jitter]
          BY <2>1 DEF Sleep
    <3>2. /\ renewer[a] = "renewing" /\ a \in renewed /\ Cmd("renew", a) \notin late
          BY <2>1, <1>w DEF Receive, TimeInv, Spent
    <3>3. Margin /\ a \notin removed => owner = a /\ ttl > Every + jitter + MaxDelay
      <4>1. Margin /\ a \notin removed => owner = a /\ ttl >= lease - MaxDelay + timer[a]
            BY <2>1, <3>2 DEF Receive, TimeInv
      <4>2. Margin => Every + MaxJitter + 2 * MaxDelay < lease
            BY SleepFacts
      <4>3. Every \in Nat
            BY SleepFacts
      <4> QED BY <4>1, <4>2, <4>3, <1>l
    <3>4. /\ \A x \in Attempt \ {a} : renewer'[x] = renewer[x] /\ timer'[x] = timer[x]
          /\ renewer'[a] = "asleep" /\ timer'[a] = Every + jitter
          BY <2>1, <3>1
    <3>5. /\ Ans("renew", a, TRUE) \notin answers'
          /\ answers' \subseteq answers /\ wire' = wire /\ late' = late
          BY <2>1 DEF Receive
    <3>6. UNCHANGED <<lease, base, owner, ttl, attempt, ghosts>>
          BY <1>12 DEF RenewReturns, key
    <3> HIDE DEF TypeOK
    <3>7. \A x \in Attempt \ {a} : (Alive(x)' <=> Alive(x)) /\ (Spent(x)' <=> Spent(x))
          BY <3>4, <3>6 DEF Alive, Spent
    <3>8. Alive(a)'
          BY <3>4 DEF Alive
    <3> QED BY <1>m, <3>2, <3>3, <3>4, <3>5, <3>6, <3>7, <3>8 DEF ghosts, TimeInv
  <2>2. CASE /\ Receive("renew", a, FALSE)
             /\ renewer' = [renewer EXCEPT ![a] = "ended"]
             /\ timer' = [timer EXCEPT ![a] = 0]
        BY <1>12, <2>2, <1>m DEF RenewReturns, Receive, key, ghosts, TimeInv, Spent, Alive
  <2> QED BY <1>12, <2>1, <2>2 DEF RenewReturns
<1>13. ASSUME NEW a \in Attempt, RenewFails(a)
       PROVE  TimeInv'
       BY <1>13, <1>m DEF RenewFails, StopWaiting, key, ghosts, TimeInv, Spent, Alive
<1>14. CASE Tick
  <2>1. \A a \in Attempt : timer'[a] = IF Alive(a) THEN timer[a] - 1 ELSE timer[a]
        BY <1>14 DEF Tick
  <2>2. \A a \in Attempt : Alive(a) => timer[a] > 0
        BY <1>14 DEF Tick
  <2>3. ASSUME NEW a \in Attempt, Margin, a \in renewed \ removed, Alive(a)
        PROVE  owner' = a /\ ttl' = ttl - 1 /\ timer'[a] = timer[a] - 1
    <3> HIDE DEF TypeOK
    <3>0. timer[a] \in Nat /\ renewer[a] \in {"asleep", "renewing"}
          BY <2>3, <1>l DEF Alive
    <3>1. owner = a /\ ttl > timer[a]
      <4>1. CASE renewer[a] = "asleep"
        <5>1. owner = a /\ ttl > timer[a] + MaxDelay
              BY <2>3, <4>1 DEF TimeInv
        <5> QED BY <5>1, <3>0, <1>l
      <4>2. CASE renewer[a] = "renewing"
            BY <2>3, <4>2 DEF TimeInv
      <4> QED BY <3>0, <4>1, <4>2
    <3> QED BY <1>14, <3>1, <2>1, <2>2, <2>3, <1>l DEF Tick
  <2>4. \A a \in Attempt :
          /\ Alive(a)' <=> Alive(a)
          /\ Spent(a)' <=> Spent(a)
        BY <1>14 DEF Tick, Alive, Spent
  <2>5. ASSUME NEW a \in Attempt, Margin, a \in renewed \ removed
        PROVE  /\ renewer[a] = "asleep" => owner' = a /\ ttl' > timer'[a] + MaxDelay
               /\ renewer[a] = "renewing" =>
                    /\ owner' = a /\ ttl' > timer'[a]
                    /\ Ans("renew", a, TRUE) \in answers => ttl' >= lease - MaxDelay + timer'[a]
    <3> HIDE DEF TypeOK
    <3>0. timer[a] \in Nat
          BY <1>l
    <3>1. Alive(a) => owner' = a /\ ttl' = ttl - 1 /\ timer'[a] = timer[a] - 1
          BY <2>3, <2>5
    <3>2. renewer[a] = "asleep" => owner' = a /\ ttl' > timer'[a] + MaxDelay
      <4>1. renewer[a] = "asleep" => ttl > timer[a] + MaxDelay
            BY <2>5 DEF TimeInv
      <4> QED BY <3>0, <3>1, <4>1, <1>l DEF Alive
    <3>3. renewer[a] = "renewing" => owner' = a /\ ttl' > timer'[a]
      <4>1. renewer[a] = "renewing" => ttl > timer[a]
            BY <2>5 DEF TimeInv
      <4> QED BY <3>0, <3>1, <4>1, <1>l DEF Alive
    <3>4. renewer[a] = "renewing" /\ Ans("renew", a, TRUE) \in answers
            => ttl' >= lease - MaxDelay + timer'[a]
      <4>1. renewer[a] = "renewing" /\ Ans("renew", a, TRUE) \in answers
              => ttl >= lease - MaxDelay + timer[a]
            BY <2>5 DEF TimeInv
      <4> QED BY <3>0, <3>1, <4>1, <1>l DEF Alive
    <3> QED BY <3>2, <3>3, <3>4
  <2> QED BY <1>14, <1>m, <2>4, <2>5 DEF Tick, net, ghosts, TimeInv
<1>15. CASE UNCHANGED vars
       BY <1>15, <1>m DEF vars, key, net, ghosts, TimeInv, Spent, Alive
<1> QED BY <1>1, <1>2, <1>3, <1>4, <1>5, <1>6, <1>7, <1>8, <1>9, <1>10, <1>11, <1>12, <1>13,
           <1>14, <1>15
        DEF Next, RenewerStep

-----------------------------------------------------------------------------
LEMMA LockStart == Init => LockInv
BY LockAssumption
   DEF Init, LockInv, TypeOK, WireInv, TokenInv, TimeInv, Waits, Asked, Answered, Alive,
       AttemptState, Command

LEMMA LockCorrect == Spec => []LockInv
<1>1. Init => LockInv
      BY LockStart
<1>2. LockInv /\ [Next]_vars => LockInv'
      BY TypeStep, WireStep, TokenStep, TimeStep DEF LockInv
<1> QED BY <1>1, <1>2, PTL DEF Spec

\* The state of the lock, of the wire, and of every renewer keeps its type; the key has
\* a time to live exactly while it has an owner.
THEOREM TypeCorrect == Spec => []TypeOK
<1>1. LockInv => TypeOK
      BY DEF LockInv
<1> QED BY <1>1, LockCorrect, PTL

\* However often releases are tried, lost and served late, there is at most one COMPLETED
\* row of an attempt, and none of an attempt that did not delete its own lock
\* (state.rs:243-271).
THEOREM RowsCorrect == Spec => []CompletedOnce
<1>1. LockInv => CompletedOnce
  <2> SUFFICES ASSUME LockInv, NEW a \in Attempt
               PROVE  completed[a] <= IF a \in deleted THEN 1 ELSE 0
      BY DEF CompletedOnce
  <2>1. completed[a] = 0 \/ (completed[a] = 1 /\ a \in deleted)
        BY DEF LockInv, TokenInv
  <2> QED BY <2>1
<1> QED BY <1>1, LockCorrect, PTL

\* Where the lease leaves the margin, a renewer that has renewed once keeps the lock for
\* as long as it is at work, unless the lock is deleted (state.rs:316-380).
THEOREM RenewalCorrect == Spec => []RenewedInTime
<1>1. LockInv => RenewedInTime
  <2> SUFFICES ASSUME LockInv, Margin, NEW a \in renewed \ removed, Alive(a)
               PROVE  owner = a
      BY DEF RenewedInTime
  <2>1. a \in Attempt
        BY DEF LockInv, TypeOK
  <2>2. /\ renewer[a] = "asleep" => owner = a
        /\ renewer[a] = "renewing" => owner = a
        BY <2>1 DEF LockInv, TimeInv
  <2> QED BY <2>2 DEF Alive
<1> QED BY <1>1, LockCorrect, PTL

\* A command without the owner's token does nothing to the owner's lock, at whatever
\* time it is served (state.rs:243-251, 293-301).
THEOREM FencingCorrect == Spec => FencedByToken
<1> DEFINE Ends(a) == owner = a /\ (owner' # a \/ ttl' > ttl)
           Excused(a) == \/ Tick
                         \/ ForceRelease
                         \/ \E c \in wire \cup late : c.by = a /\ (Serve(c) \/ ServeLate(c))
<1>1. TypeOK /\ [Next]_vars => \A a \in Attempt : Ends(a) => Excused(a)
  <2> SUFFICES ASSUME TypeOK, [Next]_vars, NEW a \in Attempt, Ends(a), ~Excused(a)
               PROVE  FALSE
      OBVIOUS
  <2>0. ttl \in Nat
        BY SleepFacts DEF TypeOK
  <2>1. ~(owner' = owner /\ ttl' = ttl)
        BY <2>0
  <2>2. ASSUME NEW c \in Command, Serve(c) \/ ServeLate(c)
        PROVE  FALSE
    <3>1. Apply(c) /\ c \in wire \cup late
          BY <2>2 DEF Serve, ServeLate
    <3>2. c.by # a
          BY <2>2, <3>1
    <3> QED BY <2>1, <3>1, <3>2, Effects, LockAssumption
            DEF Nothing, Taken, Dropped, Extended, key
  <2> HIDE DEF Ends
  <2>3. ASSUME NEW b \in Attempt,
               \/ Acquire(b) \/ AcquireReturns(b) \/ AcquireFails(b)
               \/ Release(b) \/ ReleaseReturns(b) \/ ReleaseFails(b)
               \/ Crash(b) \/ SpawnRenewer(b) \/ RenewerStep(b)
        PROVE  FALSE
        BY <2>1, <2>3
           DEF Acquire, AcquireReturns, AcquireFails, Release, ReleaseReturns, ReleaseFails,
               Crash, SpawnRenewer, RenewerStep, Wake, RenewReturns, RenewFails, key
  <2> QED BY <2>1, <2>2, <2>3 DEF Next, vars, key
<1>2. Spec => [][Next]_vars /\ []TypeOK
      BY TypeCorrect, PTL DEF Spec
<1>3. TypeOK /\ [Next]_vars
        => [\A a \in Attempt :
              owner = a /\ (owner' # a \/ ttl' > ttl) =>
                \/ Tick
                \/ ForceRelease
                \/ \E c \in wire \cup late : c.by = a /\ (Serve(c) \/ ServeLate(c))]_vars
      BY <1>1
<1> QED BY <1>2, <1>3, PTL DEF FencedByToken

=============================================================================
