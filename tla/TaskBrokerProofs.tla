-------------------------- MODULE TaskBrokerProofs --------------------------
(***************************************************************************)
(* Theorems about TaskBroker, for any tasks, nodes and bounds, and any     *)
(* number of faults of any kind.                                           *)
(***************************************************************************)
EXTENDS TaskBroker, Integers, SequenceTheorems, FiniteSetTheorems, TLAPS

Of(x) == PieceOf(x.item)

\* What the calls, executions and entries are about was submitted.
Numbered(item) == item.sub <= subs[item.task]

\* Calls and executions are on their first attempt, and a call that will push has
\* a node to push to.
GoodCall(c) ==
  /\ c \in Call
  /\ Numbered(c.item)
  /\ c.item.attempt = 1
  /\ c.pc \in SubmitPc <=> c.from = "client"
  /\ c.pc \in {"lock", "save", "push", "requeue"} => c.dest \in Node

GoodWork(w) ==
  /\ w \in Work
  /\ Numbered(w.item)
  /\ w.item.attempt = 1

TypeInv ==
  /\ TypeOK
  /\ \A t \in Task : subs[t] <= MaxSubmits[t]
  /\ \A c \in calls : GoodCall(c)
  /\ \A w \in work : GoodWork(w)
  /\ \A n \in Node : \A i \in 1..Len(queue[n]) : Numbered(queue[n][i])
  /\ \A p \in accepted \cup done \cup dlq : p[2] <= subs[p[1]]

\* The calls that have a piece of work to themselves: nobody else may push it.
Holds(c) == c.pc \in SubmitPc \cup {"free", "requeue", "bury"}

StOf(c) == IF c.pc \in CompletePc THEN "completing" ELSE "failing"

\* What a piece of work can be at once: held by one call, or executed by one worker,
\* or in one entry; its execution may only be left over beside the call it failed with.
CallsApart ==
  \A c, d \in calls : Holds(c) /\ Holds(d) /\ Of(c) = Of(d) => c = d

WorkApart ==
  \A v, w \in work : Of(v) = Of(w) => v = w

CallOrWork ==
  \A c \in calls, w \in work : Holds(c) /\ Of(c) = Of(w) => w.st = "failing"

QueueApart ==
  \A m, n \in Node : \A i \in 1..Len(queue[m]), j \in 1..Len(queue[n]) :
    PieceOf(queue[m][i]) = PieceOf(queue[n][j]) => m = n /\ i = j

\* Nothing else has the piece p.
NotCalled(p) == \A c \in calls : Holds(c) => Of(c) # p

QueueAlone ==
  \A n \in Node : \A i \in 1..Len(queue[n]) :
    /\ NotCalled(PieceOf(queue[n][i]))
    /\ \A w \in work : Of(w) # PieceOf(queue[n][i])
    /\ PieceOf(queue[n][i]) \notin dlq

BuriedAlone ==
  \A p \in dlq : /\ NotCalled(p)
                 /\ \A w \in work : Of(w) = p => w.st = "failing"

PurgeBuried ==
  \A c \in calls : c.pc = "purge" => Of(c) \in dlq

\* The call of a worker that waits, and the execution it waits for, find each other.
Asks(c) == c.waiting /\ c.pc \notin SubmitPc

Attended ==
  \A c \in calls : Asks(c) =>
    \E w \in work : w.node = c.from /\ Of(w) = Of(c) /\ w.st = StOf(c)

Attending ==
  \A w \in work : w.st \in {"completing", "failing"} =>
    \E c \in calls : Asks(c) /\ c.from = w.node /\ Of(c) = Of(w) /\ StOf(c) = w.st

AsksApart ==
  \A c, d \in calls : Asks(c) /\ Asks(d) /\ Of(c) = Of(d) => c = d

PlaceInv ==
  /\ CallsApart /\ WorkApart /\ CallOrWork /\ QueueApart /\ QueueAlone
  /\ BuriedAlone /\ PurgeBuried /\ Attended /\ Attending /\ AsksApart

-----------------------------------------------------------------------------
\* What a push and a pop do to the entries.
LEMMA PushFacts ==
  ASSUME queue \in [Node -> Seq(Item)], NEW n \in Node, NEW item \in Item,
         NEW q, q = [queue EXCEPT ![n] = Append(queue[n], item)]
  PROVE  /\ q \in [Node -> Seq(Item)]
         /\ \A m \in Node : \A i \in 1..Len(q[m]) :
              \/ i \in 1..Len(queue[m]) /\ q[m][i] = queue[m][i]
              \/ m = n /\ i = Len(queue[n]) + 1 /\ q[m][i] = item
         /\ \A m \in Node : \A i \in 1..Len(queue[m]) :
              i \in 1..Len(q[m]) /\ q[m][i] = queue[m][i]
         /\ Len(queue[n]) + 1 \in 1..Len(q[n])
         /\ q[n][Len(queue[n]) + 1] = item
<1>1. queue[n] \in Seq(Item)
      OBVIOUS
<1>2. /\ Append(queue[n], item) \in Seq(Item)
      /\ Len(Append(queue[n], item)) = Len(queue[n]) + 1
      /\ \A i \in 1..Len(queue[n]) : Append(queue[n], item)[i] = queue[n][i]
      /\ Append(queue[n], item)[Len(queue[n]) + 1] = item
      BY <1>1, AppendProperties
<1>3. Len(queue[n]) \in Nat
      BY <1>1, LenProperties
<1>4. /\ q \in [Node -> Seq(Item)]
      /\ q[n] = Append(queue[n], item)
      /\ \A m \in Node \ {n} : q[m] = queue[m]
      BY <1>2
<1>5. ASSUME NEW m \in Node, NEW i \in 1..Len(q[m])
      PROVE  \/ i \in 1..Len(queue[m]) /\ q[m][i] = queue[m][i]
             \/ m = n /\ i = Len(queue[n]) + 1 /\ q[m][i] = item
  <2>1. CASE m = n
        BY <1>2, <1>3, <1>4, <2>1
  <2>2. CASE m # n
        BY <1>4, <2>2
  <2> QED BY <2>1, <2>2
<1>6. ASSUME NEW m \in Node, NEW i \in 1..Len(queue[m])
      PROVE  i \in 1..Len(q[m]) /\ q[m][i] = queue[m][i]
  <2>1. CASE m = n
        BY <1>2, <1>3, <1>4, <2>1
  <2>2. CASE m # n
        BY <1>4, <2>2
  <2> QED BY <2>1, <2>2
<1>7. Len(queue[n]) + 1 \in 1..Len(q[n]) /\ q[n][Len(queue[n]) + 1] = item
      BY <1>2, <1>3, <1>4
<1> QED BY <1>4, <1>5, <1>6, <1>7

LEMMA PopFacts ==
  ASSUME queue \in [Node -> Seq(Item)], NEW n \in Node, queue[n] # << >>,
         NEW q, q = [queue EXCEPT ![n] = Tail(queue[n])]
  PROVE  /\ q \in [Node -> Seq(Item)]
         /\ 1 \in 1..Len(queue[n]) /\ Head(queue[n]) = queue[n][1]
         /\ Head(queue[n]) \in Item
         /\ \A m \in Node \ {n} : q[m] = queue[m]
         /\ \A i \in 1..Len(q[n]) :
              i + 1 \in 1..Len(queue[n]) /\ q[n][i] = queue[n][i + 1]
         /\ \A i \in 1..Len(queue[n]) :
              i = 1 \/ (i - 1 \in 1..Len(q[n]) /\ q[n][i - 1] = queue[n][i])
<1>1. queue[n] \in Seq(Item)
      OBVIOUS
<1>2. Len(queue[n]) \in Nat \ {0}
      BY <1>1, EmptySeq
<1>3. /\ Head(queue[n]) \in Item
      /\ Tail(queue[n]) \in Seq(Item)
      /\ Len(Tail(queue[n])) = Len(queue[n]) - 1
      /\ \A i \in 1..Len(Tail(queue[n])) : Tail(queue[n])[i] = queue[n][i + 1]
      BY <1>1, HeadTailProperties
<1>4. Head(queue[n]) = queue[n][1]
      BY <1>1
<1>5. /\ q \in [Node -> Seq(Item)]
      /\ q[n] = Tail(queue[n])
      /\ \A m \in Node \ {n} : q[m] = queue[m]
      BY <1>3
<1>6. \A i \in 1..Len(q[n]) :
        i + 1 \in 1..Len(queue[n]) /\ q[n][i] = queue[n][i + 1]
      BY <1>2, <1>3, <1>5
<1>7. ASSUME NEW i \in 1..Len(queue[n]), i # 1
      PROVE  i - 1 \in 1..Len(q[n]) /\ q[n][i - 1] = queue[n][i]
  <2>1. i - 1 \in 1..Len(q[n])
        BY <1>2, <1>3, <1>5, <1>7
  <2>2. q[n][i - 1] = queue[n][(i - 1) + 1]
        BY <1>3, <1>5, <2>1
  <2>3. (i - 1) + 1 = i
        OBVIOUS
  <2> QED BY <2>1, <2>2, <2>3
<1>8. 1 \in 1..Len(queue[n])
      BY <1>2
<1> QED BY <1>3, <1>4, <1>5, <1>6, <1>7, <1>8

-----------------------------------------------------------------------------
\* Type correctness.
LEMMA PieceType ==
  ASSUME TypeInv, NEW item \in Item, Numbered(item)
  PROVE  PieceOf(item) \in Piece /\ PieceOf(item)[1] = item.task
                                 /\ PieceOf(item)[2] = item.sub
<1>1. item.task \in Task /\ item.sub \in Nat \ {0}
      BY DEF Item
<1>2. /\ subs[item.task] \in Nat /\ MaxSubmits[item.task] \in Nat
      /\ subs[item.task] <= MaxSubmits[item.task]
      BY <1>1, BoundAssumption DEF TypeInv, TypeOK
<1>3. item.sub \in 1..MaxSubmits[item.task]
      BY <1>1, <1>2 DEF Numbered
<1> QED BY <1>1, <1>3 DEF PieceOf, Piece

LEMMA CallFields ==
  ASSUME NEW c \in Call
  PROVE  /\ c.pc \in SubmitPc \cup CompletePc \cup FailPc
         /\ c.from \in Node \cup {"client"} /\ c.dest \in Node \cup {"none"}
         /\ c.item \in Item /\ c.waiting \in BOOLEAN
         /\ \A pc \in SubmitPc \cup CompletePc \cup FailPc :
              LET d == [c EXCEPT !.pc = pc]
              IN  /\ d \in Call /\ d.pc = pc /\ d.from = c.from /\ d.dest = c.dest
                  /\ d.item = c.item /\ d.waiting = c.waiting
         /\ \A pc \in SubmitPc \cup CompletePc \cup FailPc, n \in Node :
              LET d == [c EXCEPT !.pc = pc, !.dest = n]
              IN  /\ d \in Call /\ d.pc = pc /\ d.from = c.from /\ d.dest = n
                  /\ d.item = c.item /\ d.waiting = c.waiting
         /\ LET d == [c EXCEPT !.waiting = FALSE]
            IN  /\ d \in Call /\ d.pc = c.pc /\ d.from = c.from /\ d.dest = c.dest
                /\ d.item = c.item /\ d.waiting = FALSE
BY DEF Call

LEMMA CallTurns ==
  ASSUME NEW c \in Call, NEW pc \in SubmitPc \cup CompletePc \cup FailPc,
         NEW d, d = [c EXCEPT !.pc = pc]
  PROVE  /\ d \in Call /\ d.pc = pc /\ d.from = c.from /\ d.dest = c.dest
         /\ d.item = c.item /\ d.waiting = c.waiting
BY DEF Call

LEMMA WorkFields ==
  ASSUME NEW w \in Work
  PROVE  /\ w.node \in Node /\ w.item \in Item
         /\ w.st \in {"running", "completing", "reporting", "failing"}
         /\ \A st \in {"running", "completing", "reporting", "failing"} :
              LET v == [w EXCEPT !.st = st]
              IN v \in Work /\ v.node = w.node /\ v.item = w.item /\ v.st = st
BY DEF Work

LEMMA TypeInit == Init => TypeInv
<1> SUFFICES ASSUME Init PROVE TypeInv
    OBVIOUS
<1>1. queue \in [Node -> Seq(Item)] /\ \A n \in Node : Len(queue[n]) = 0
      BY EmptySeq DEF Init
<1>2. TypeOK
      BY <1>1, BoundAssumption DEF Init, TypeOK
<1>3. \A n \in Node : \A i \in 1..Len(queue[n]) : Numbered(queue[n][i])
      BY <1>1
<1>4. \A t \in Task : subs[t] <= MaxSubmits[t]
      BY BoundAssumption DEF Init
<1> QED BY <1>2, <1>3, <1>4 DEF Init, TypeInv

\* What there is to show of a step that submits nothing.
LEMMA TypeFrame ==
  ASSUME TypeInv, subs' = subs,
         \A c \in calls' : c \in calls \/ GoodCall(c),
         \A w \in work' : w \in work \/ GoodWork(w),
         \/ queue' = queue
         \/ \E n \in Node, item \in Item : Numbered(item) /\ queue' = Push(n, item)
         \/ \E n \in Node : queue[n] # << >> /\ queue' = [queue EXCEPT ![n] = Tail(queue[n])],
         lock' \subseteq Task, snap' \subseteq Task, routable' \subseteq Node, up' \subseteq Node,
         \A p \in accepted' \cup done' \cup dlq' :
           \/ p \in accepted \cup done \cup dlq
           \/ p \in Piece /\ p[2] <= subs[p[1]],
         fails' \in [Task -> 0..MaxFails], hit' \subseteq Task, faults' \in 0..MaxFaults
  PROVE  TypeInv'
<1>1. \A c \in calls' : GoodCall(c)
      BY DEF TypeInv
<1>2. \A w \in work' : GoodWork(w)
      BY DEF TypeInv
<1>3. /\ queue' \in [Node -> Seq(Item)]
      /\ \A n \in Node : \A i \in 1..Len(queue'[n]) : Numbered(queue'[n][i])
  <2>1. /\ queue \in [Node -> Seq(Item)]
        /\ \A n \in Node : \A i \in 1..Len(queue[n]) : Numbered(queue[n][i])
        BY DEF TypeInv, TypeOK
  <2>2. ASSUME NEW n \in Node, NEW item \in Item, Numbered(item), queue' = Push(n, item)
        PROVE  /\ queue' \in [Node -> Seq(Item)]
               /\ \A m \in Node : \A i \in 1..Len(queue'[m]) : Numbered(queue'[m][i])
    <3>1. /\ queue' \in [Node -> Seq(Item)]
          /\ \A m \in Node : \A i \in 1..Len(queue'[m]) :
               \/ i \in 1..Len(queue[m]) /\ queue'[m][i] = queue[m][i]
               \/ m = n /\ i = Len(queue[n]) + 1 /\ queue'[m][i] = item
      <4>1. /\ queue \in [Node -> Seq(Item)]
            /\ queue' = [queue EXCEPT ![n] = Append(queue[n], item)]
            BY <2>1, <2>2 DEF Push
      <4> QED BY <4>1, PushFacts
    <3> QED BY <2>1, <2>2, <3>1
  <2>3. ASSUME NEW n \in Node, queue[n] # << >>,
               queue' = [queue EXCEPT ![n] = Tail(queue[n])]
        PROVE  /\ queue' \in [Node -> Seq(Item)]
               /\ \A m \in Node : \A i \in 1..Len(queue'[m]) : Numbered(queue'[m][i])
    <3>1. /\ queue' \in [Node -> Seq(Item)]
          /\ \A m \in Node \ {n} : queue'[m] = queue[m]
          /\ \A i \in 1..Len(queue'[n]) :
               i + 1 \in 1..Len(queue[n]) /\ queue'[n][i] = queue[n][i + 1]
          BY <2>1, <2>3, PopFacts
    <3> QED BY <2>1, <3>1
  <2> QED BY <2>1, <2>2, <2>3
<1>4. \A p \in accepted' \cup done' \cup dlq' : p \in Piece /\ p[2] <= subs[p[1]]
      BY DEF TypeInv, TypeOK
<1>5. TypeOK'
      BY <1>1, <1>2, <1>3, <1>4 DEF TypeInv, TypeOK, GoodCall, GoodWork
<1>6. /\ \A item : Numbered(item)' <=> Numbered(item)
      /\ \A c : GoodCall(c)' <=> GoodCall(c)
      /\ \A w : GoodWork(w)' <=> GoodWork(w)
      BY DEF GoodCall, GoodWork, Numbered
<1>7. (\A t \in Task : subs[t] <= MaxSubmits[t])'
      BY DEF TypeInv
<1>8. (\A c \in calls : GoodCall(c))'
      BY <1>1, <1>6
<1>9. (\A w \in work : GoodWork(w))'
      BY <1>2, <1>6
<1>10. (\A n \in Node : \A i \in 1..Len(queue[n]) : Numbered(queue[n][i]))'
      BY <1>3 DEF Numbered
<1>11. (\A p \in accepted \cup done \cup dlq : p[2] <= subs[p[1]])'
      BY <1>4
<1> QED BY <1>5, <1>7, <1>8, <1>9, <1>10, <1>11 DEF TypeInv

LEMMA FaultType ==
  ASSUME TypeInv, NEW kind, NEW ts \in SUBSET Task, Fault(kind, ts)
  PROVE  hit' = hit \cup ts /\ hit' \subseteq Task /\ faults' \in 0..MaxFaults
BY BoundAssumption DEF Fault, TypeInv, TypeOK

LEMMA CommandType ==
  ASSUME TypeInv, NEW o, NEW c \in calls, Command(o, c)
  PROVE  /\ hit' \subseteq Task /\ faults' \in 0..MaxFaults
         /\ hit \subseteq hit'
         /\ o # "ok" => c.item.task \in hit'
<1>1. c.item.task \in Task
      BY DEF TypeInv, GoodCall, Call, Item
<1>2. CASE o = "ok" /\ UNCHANGED env
      BY <1>2 DEF env, TypeInv, TypeOK
<1>3. CASE o # "ok" /\ Fault("redis", {c.item.task})
      BY <1>1, <1>3, FaultType
<1> QED BY <1>2, <1>3 DEF Command

\* The steps of a handler. What changes beside the call is in the frame.
LEMMA HandlerType ==
  ASSUME TypeInv, NEW c \in calls, HandlerStep(c)
  PROVE  TypeInv'
<1> DEFINE Pc == SubmitPc \cup CompletePc \cup FailPc
<1>c. /\ c \in Call /\ GoodCall(c)
      /\ c.item \in Item /\ c.item.task \in Task /\ Numbered(c.item)
      /\ PieceOf(c.item) \in Piece /\ PieceOf(c.item)[2] <= subs[PieceOf(c.item)[1]]
  <2>1. c \in Call /\ c.item \in Item /\ Numbered(c.item) /\ GoodCall(c)
        BY CallFields DEF TypeInv, GoodCall
  <2> QED BY <2>1, PieceType DEF Item, Numbered
<1>t. /\ lock \subseteq Task /\ snap \subseteq Task /\ routable \subseteq Node
      /\ up \subseteq Node /\ accepted \subseteq Piece /\ done \subseteq Piece /\ dlq \subseteq Piece
      /\ fails \in [Task -> 0..MaxFails] /\ hit \subseteq Task /\ faults \in 0..MaxFaults
      BY DEF TypeInv, TypeOK
<1>g. ASSUME NEW pc, calls' = (calls \ {c}) \cup {[c EXCEPT !.pc = pc]},
             \/ c.pc \in {"lock", "save"} /\ pc \in {"save", "push"}
             \/ c.pc \in CompletePc /\ pc \in CompletePc
             \/ c.pc \in FailPc /\ pc \in {"bury", "purge"}
      PROVE  \A d \in calls' : d \in calls \/ GoodCall(d)
  <2>0. pc \in Pc
        BY <1>g DEF SubmitPc, CompletePc, FailPc
  <2>1. PICK d : d = [c EXCEPT !.pc = pc]
        OBVIOUS
  <2>2. /\ d \in Call /\ d.pc = pc /\ d.from = c.from /\ d.dest = c.dest
        /\ d.item = c.item
        BY <1>c, <2>0, <2>1, CallTurns
  <2>3. GoodCall(d)
        BY <1>c, <1>g, <2>2 DEF GoodCall, SubmitPc, CompletePc, FailPc
  <2> QED BY <1>g, <2>1, <2>3
<1>n. ASSUME NEW pc, NEW n \in routable,
             calls' = (calls \ {c}) \cup {[c EXCEPT !.pc = pc, !.dest = n]},
             \/ c.pc = "check" /\ pc = "lock"
             \/ c.pc = "free" /\ pc = "requeue"
      PROVE  \A d \in calls' : d \in calls \/ GoodCall(d)
  <2>0. n \in Node
        BY <1>t
  <2> DEFINE d == [c EXCEPT !.pc = pc, !.dest = n]
  <2>2. pc \in Pc
        BY <1>n DEF SubmitPc, CompletePc, FailPc
  <2>3. /\ d \in Call /\ d.pc = pc /\ d.from = c.from /\ d.dest = n
        /\ d.item = c.item
        BY <1>c, <2>0, <2>2 DEF Call
  <2> HIDE DEF d
  <2>1. GoodCall(d)
        BY <1>c, <1>n, <2>0, <2>3 DEF GoodCall, SubmitPc, CompletePc, FailPc
  <2> QED BY <1>n, <2>1 DEF d
<1>r. Return(c) => \A d \in calls' : d \in calls \/ GoodCall(d)
      BY DEF Return
<1>w. Release(c) \/ work' = work => \A w \in work' : w \in work \/ GoodWork(w)
      BY DEF Release
<1>q. ASSUME c.dest \in Node, NEW item \in Item, Numbered(item),
             queue' = Push(c.dest, item)
      PROVE  \E n \in Node, x \in Item : Numbered(x) /\ queue' = Push(n, x)
      BY <1>q
<1>1. CASE Check(c)
  <2>1. PICK o \in {"ok", "failed"} :
          /\ Command(o, c)
          /\ Return(c) \/ \E n \in routable : GotoWith(c, "lock", n)
        BY <1>1 DEF Check
  <2>2. /\ c.pc = "check"
        /\ UNCHANGED <<lock, snap, queue, dlq, routable, work, up, subs, fails, accepted, done>>
        BY <1>1 DEF Check, redis, worker, ghosts
  <2>3. \A d \in calls' : d \in calls \/ GoodCall(d)
        BY <2>1, <2>2, <1>n, <1>r DEF Goto, GotoWith
  <2>4. hit' \subseteq Task /\ faults' \in 0..MaxFaults
        BY <2>1, CommandType
  <2> QED BY <2>2, <2>3, <2>4, <1>t, TypeFrame
<1>2. CASE Lock(c)
  <2>1. PICK o \in Outcome :
          /\ Command(o, c)
          /\ lock' = IF Effective(o) THEN lock \cup {c.item.task} ELSE lock
          /\ Goto(c, "save") \/ Return(c)
        BY <1>2 DEF Lock
  <2>2. /\ c.pc = "lock"
        /\ UNCHANGED <<snap, queue, dlq, routable, work, up, subs, fails, accepted, done>>
        BY <1>2 DEF Lock, worker, ghosts
  <2>3. \A d \in calls' : d \in calls \/ GoodCall(d)
        BY <2>1, <2>2, <1>g, <1>r DEF Goto, GotoWith
  <2>4. hit' \subseteq Task /\ faults' \in 0..MaxFaults /\ lock' \subseteq Task
        BY <2>1, <1>c, <1>t, CommandType
  <2> QED BY <2>2, <2>3, <2>4, <1>t, TypeFrame
<1>3. CASE Save(c)
  <2>1. PICK o \in Outcome :
          /\ Command(o, c)
          /\ snap' = IF Effective(o) THEN snap \cup {c.item.task} ELSE snap
          /\ Goto(c, "push") \/ Return(c)
        BY <1>3 DEF Save
  <2>2. /\ c.pc = "save"
        /\ UNCHANGED <<lock, queue, dlq, routable, work, up, subs, fails, accepted, done>>
        BY <1>3 DEF Save, worker, ghosts
  <2>3. \A d \in calls' : d \in calls \/ GoodCall(d)
        BY <2>1, <2>2, <1>g, <1>r DEF Goto, GotoWith
  <2>4. hit' \subseteq Task /\ faults' \in 0..MaxFaults /\ snap' \subseteq Task
        BY <2>1, <1>c, <1>t, CommandType
  <2> QED BY <2>2, <2>3, <2>4, <1>t, TypeFrame
<1>4. CASE Enqueue(c)
  <2>1. PICK o \in Outcome :
          /\ Command(o, c)
          /\ queue' = IF Effective(o) THEN Push(c.dest, c.item) ELSE queue
          /\ accepted' = IF o = "ok" /\ c.waiting
                         THEN accepted \cup {PieceOf(c.item)} ELSE accepted
        BY <1>4 DEF Enqueue
  <2>2. /\ c.pc = "push" /\ Return(c)
        /\ UNCHANGED <<lock, snap, dlq, routable, work, up, subs, fails, done>>
        BY <1>4 DEF Enqueue, worker
  <2>3. \A d \in calls' : d \in calls \/ GoodCall(d)
        BY <2>2, <1>r
  <2>4. hit' \subseteq Task /\ faults' \in 0..MaxFaults
        BY <2>1, CommandType
  <2>5. \/ queue' = queue
        \/ \E n \in Node, x \in Item : Numbered(x) /\ queue' = Push(n, x)
        BY <2>1, <2>2, <1>c, <1>q DEF GoodCall
  <2>6. \A p \in accepted' \cup done' \cup dlq' :
           p \in accepted \cup done \cup dlq \/ (p \in Piece /\ p[2] <= subs[p[1]])
        BY <2>1, <2>2, <1>c
  <2> QED BY <2>2, <2>3, <2>4, <2>5, <2>6, <1>t, TypeFrame
<1>5. CASE Seen(c)
  <2>1. PICK o \in {"ok", "failed"} :
          /\ Command(o, c)
          /\ \/ Goto(c, "unlock") /\ work' = work
             \/ Return(c) /\ Release(c)
        BY <1>5 DEF Seen
  <2>2. /\ c.pc = "seen" /\ done' = done \cup {PieceOf(c.item)}
        /\ UNCHANGED <<lock, snap, queue, dlq, routable, up, subs, fails, accepted>>
        BY <1>5 DEF Seen, redis
  <2>3. \A d \in calls' : d \in calls \/ GoodCall(d)
        BY <2>1, <2>2, <1>g, <1>r DEF CompletePc, Goto
  <2>4. hit' \subseteq Task /\ faults' \in 0..MaxFaults
        BY <2>1, CommandType
  <2>5. \A w \in work' : w \in work \/ GoodWork(w)
        BY <2>1, <1>w
  <2>6. \A p \in accepted' \cup done' \cup dlq' :
           p \in accepted \cup done \cup dlq \/ (p \in Piece /\ p[2] <= subs[p[1]])
        BY <2>2, <1>c
  <2> QED BY <2>2, <2>3, <2>4, <2>5, <2>6, <1>t, TypeFrame
<1>6. CASE Unlock(c)
  <2>1. PICK o \in Outcome :
          /\ Command(o, c)
          /\ lock' = IF Effective(o) THEN lock \ {c.item.task} ELSE lock
        BY <1>6 DEF Unlock
  <2>2. /\ c.pc = "unlock" /\ Goto(c, "forget")
        /\ UNCHANGED <<snap, queue, dlq, routable, work, up, subs, fails, accepted, done>>
        BY <1>6 DEF Unlock, worker, ghosts
  <2>3. \A d \in calls' : d \in calls \/ GoodCall(d)
        BY <2>2, <1>g DEF CompletePc, Goto
  <2>4. hit' \subseteq Task /\ faults' \in 0..MaxFaults /\ lock' \subseteq Task
        BY <2>1, <1>t, CommandType
  <2> QED BY <2>2, <2>3, <2>4, <1>t, TypeFrame
<1>7. CASE Forget(c)
  <2>1. PICK o \in Outcome :
          /\ Command(o, c)
          /\ snap' = IF Effective(o) THEN snap \ {c.item.task} ELSE snap
        BY <1>7 DEF Forget
  <2>2. /\ Return(c) /\ Release(c)
        /\ UNCHANGED <<lock, queue, dlq, routable, up, subs, fails, accepted, done>>
        BY <1>7 DEF Forget, ghosts
  <2>3. hit' \subseteq Task /\ faults' \in 0..MaxFaults /\ snap' \subseteq Task
        BY <2>1, <1>t, CommandType
  <2> QED BY <2>2, <2>3, <1>r, <1>w, <1>t, TypeFrame
<1>8. CASE Free(c)
  <2>1. PICK o \in Outcome :
          /\ Command(o, c)
          /\ lock' = IF Effective(o) THEN lock \ {c.item.task} ELSE lock
        BY <1>8 DEF Free
  <2>2. /\ c.pc = "free"
        /\ Goto(c, "bury") \/ \E n \in routable : GotoWith(c, "requeue", n)
        /\ UNCHANGED <<snap, queue, dlq, routable, work, up, subs, fails, accepted, done>>
        BY <1>8 DEF Free, worker, ghosts
  <2>3. \A d \in calls' : d \in calls \/ GoodCall(d)
        BY <2>2, <1>g, <1>n DEF FailPc, Goto, GotoWith
  <2>4. hit' \subseteq Task /\ faults' \in 0..MaxFaults /\ lock' \subseteq Task
        BY <2>1, <1>t, CommandType
  <2> QED BY <2>2, <2>3, <2>4, <1>t, TypeFrame
<1>9. CASE Requeue(c)
  <2> DEFINE retry == [c.item EXCEPT !.attempt = @ + 1]
  <2>1. PICK o \in Outcome :
          /\ Command(o, c)
          /\ queue' = IF Effective(o) THEN Push(c.dest, retry) ELSE queue
        BY <1>9 DEF Requeue
  <2>2. /\ c.pc = "requeue" /\ Return(c) /\ Release(c)
        /\ UNCHANGED <<lock, snap, dlq, routable, up, subs, fails, accepted, done>>
        BY <1>9 DEF Requeue, ghosts
  <2>3. retry \in Item /\ Numbered(retry)
    <3>1. c.item.attempt = 1
          BY <1>c DEF GoodCall
    <3>2. retry = [c.item EXCEPT !.attempt = 2]
          BY <3>1, <1>c DEF Item
    <3>3. retry \in Item /\ retry.task = c.item.task /\ retry.sub = c.item.sub
          BY <3>2, <1>c DEF Item
    <3> QED BY <3>3, <1>c DEF Numbered
  <2> HIDE DEF retry
  <2>4. hit' \subseteq Task /\ faults' \in 0..MaxFaults
        BY <2>1, CommandType
  <2>5. \/ queue' = queue
        \/ \E n \in Node, x \in Item : Numbered(x) /\ queue' = Push(n, x)
        BY <2>1, <2>2, <2>3, <1>c, <1>q DEF GoodCall
  <2> QED BY <2>2, <2>4, <2>5, <1>r, <1>w, <1>t, TypeFrame
<1>10. CASE Bury(c)
  <2>1. PICK o \in Outcome :
          /\ Command(o, c)
          /\ dlq' = IF Effective(o) THEN dlq \cup {PieceOf(c.item)} ELSE dlq
          /\ \/ Goto(c, "purge") /\ work' = work
             \/ Return(c) /\ Release(c)
        BY <1>10 DEF Bury
  <2>2. /\ c.pc = "bury"
        /\ UNCHANGED <<lock, snap, queue, routable, up, subs, fails, accepted, done>>
        BY <1>10 DEF Bury, ghosts
  <2>3. \A d \in calls' : d \in calls \/ GoodCall(d)
        BY <2>1, <2>2, <1>g, <1>r DEF FailPc, Goto
  <2>4. hit' \subseteq Task /\ faults' \in 0..MaxFaults
        BY <2>1, CommandType
  <2>5. \A w \in work' : w \in work \/ GoodWork(w)
        BY <2>1, <1>w
  <2>6. \A p \in accepted' \cup done' \cup dlq' :
           p \in accepted \cup done \cup dlq \/ (p \in Piece /\ p[2] <= subs[p[1]])
        BY <2>1, <2>2, <1>c
  <2> QED BY <2>2, <2>3, <2>4, <2>5, <2>6, <1>t, TypeFrame
<1> QED BY <1>1, <1>2, <1>3, <1>4, <1>5, <1>6, <1>7, <1>8, <1>9, <1>10 DEF HandlerStep

LEMMA TypeNext == TypeInv /\ [Next]_vars => TypeInv'
<1> SUFFICES ASSUME TypeInv, [Next]_vars PROVE TypeInv'
    OBVIOUS
<1>t. /\ lock \subseteq Task /\ snap \subseteq Task /\ routable \subseteq Node
      /\ up \subseteq Node /\ accepted \subseteq Piece /\ done \subseteq Piece /\ dlq \subseteq Piece
      /\ fails \in [Task -> 0..MaxFails] /\ hit \subseteq Task /\ faults \in 0..MaxFaults
      BY DEF TypeInv, TypeOK
<1>w. \A w \in work : w \in Work /\ GoodWork(w) /\ w.item \in Item /\ w.item.task \in Task
  <2> SUFFICES ASSUME NEW w \in work
               PROVE  w \in Work /\ GoodWork(w) /\ w.item \in Item /\ w.item.task \in Task
      OBVIOUS
  <2>1. GoodWork(w)
        BY DEF TypeInv
  <2>2. w \in Work
        BY <2>1 DEF GoodWork
  <2>3. w.item \in Item
        BY <2>2, WorkFields
  <2> QED BY <2>1, <2>2, <2>3 DEF Item
<1>c. \A c \in calls : c \in Call /\ GoodCall(c) /\ c.item.task \in Task
      BY CallFields DEF TypeInv, GoodCall, Item
<1>a. ASSUME NEW w \in work, NEW pc \in {"seen", "free"},
             calls' = calls \cup {[pc |-> pc, from |-> w.node, dest |-> "none",
                                   item |-> w.item, waiting |-> TRUE]}
      PROVE  \A d \in calls' : d \in calls \/ GoodCall(d)
  <2> DEFINE d == [pc |-> pc, from |-> w.node, dest |-> "none",
                   item |-> w.item, waiting |-> TRUE]
  <2>1. w.node \in Node /\ w.item \in Item /\ GoodWork(w)
        BY <1>w, WorkFields
  <2>2. d \in Call
        BY <2>1 DEF Call, SubmitPc, CompletePc, FailPc
  <2>3. GoodCall(d)
        BY <2>1, <2>2, NodeAssumption DEF GoodCall, GoodWork, SubmitPc
  <2> HIDE DEF d
  <2> QED BY <1>a, <2>3 DEF d
<1>b. ASSUME NEW w \in work, NEW st \in {"running", "completing", "reporting", "failing"}
      PROVE  GoodWork([w EXCEPT !.st = st])
  <2> DEFINE v == [w EXCEPT !.st = st]
  <2>1. v \in Work /\ v.item = w.item
        BY <1>w DEF Work
  <2> HIDE DEF v
  <2>2. GoodWork(v)
        BY <2>1, <1>w DEF GoodWork
  <2> QED BY <2>2 DEF v
<1>d. ASSUME NEW c \in calls
      PROVE  GoodCall([c EXCEPT !.waiting = FALSE])
  <2> DEFINE d == [c EXCEPT !.waiting = FALSE]
  <2>1. d \in Call /\ d.pc = c.pc /\ d.from = c.from /\ d.dest = c.dest /\ d.item = c.item
        BY <1>c, CallFields
  <2> HIDE DEF d
  <2>2. GoodCall(d)
        BY <2>1, <1>c DEF GoodCall
  <2> QED BY <2>2 DEF d
<1>1. ASSUME NEW t \in Task, Submit(t) PROVE TypeInv'
  <2>i. PICK item : item = [task |-> t, sub |-> subs[t] + 1, attempt |-> 1]
        OBVIOUS
  <2>c. PICK c : c = [pc |-> "check", from |-> "client", dest |-> "none", waiting |-> TRUE,
                      item |-> item]
        OBVIOUS
  <2>1. /\ calls' = calls \cup {c}
        /\ subs' = [subs EXCEPT ![t] = subs[t] + 1]
        /\ subs[t] < MaxSubmits[t]
        /\ UNCHANGED <<lock, snap, queue, dlq, routable, work, up, fails, accepted, done, hit, faults>>
        BY <1>1, <2>i, <2>c DEF Submit, redis, worker, env
  <2>2. subs \in [Task -> Nat] /\ MaxSubmits \in [Task -> Nat]
        BY BoundAssumption DEF TypeInv, TypeOK
  <2>3. subs' \in [Task -> Nat] /\ subs'[t] = subs[t] + 1 /\ \A u \in Task : subs[u] <= subs'[u]
        BY <2>1, <2>2
  <2>4. \A u \in Task : subs'[u] <= MaxSubmits[u]
        BY <2>1, <2>2 DEF TypeInv
  <2>5. item \in Item
        BY <2>2, <2>i DEF Item
  <2>6. c \in Call
        BY <2>5, <2>c DEF Call, SubmitPc
  <2>7. c.item = item /\ c.pc = "check" /\ c.from = "client"
        /\ item.task = t /\ item.sub = subs[t] + 1 /\ item.attempt = 1
        BY <2>i, <2>c
  <2>7a. /\ Numbered(c.item)'
         /\ c.item.attempt = 1
         /\ c.pc \in SubmitPc <=> c.from = "client"
         /\ c.pc \in {"lock", "save", "push", "requeue"} => c.dest \in Node
    <3>1. Numbered(c.item)'
          BY <2>3, <2>7 DEF Numbered
    <3> QED BY <3>1, <2>7 DEF SubmitPc
  <2>7b. GoodCall(c)'
         BY <2>6, <2>7a DEF GoodCall
  <2>8. \A x \in Item : Numbered(x) => Numbered(x)'
    <3> SUFFICES ASSUME NEW x \in Item, Numbered(x) PROVE x.sub <= subs'[x.task]
        BY DEF Numbered
    <3>1. x.task \in Task /\ x.sub \in Nat
          BY DEF Item
    <3> QED BY <3>1, <2>2, <2>3 DEF Numbered
  <2>9. (\A d \in calls : GoodCall(d))'
    <3>1. ASSUME NEW d \in calls PROVE GoodCall(d)'
      <4>1. GoodCall(d) /\ d.item \in Item
            BY <1>c, CallFields
      <4> QED BY <4>1, <2>8 DEF GoodCall
    <3>2. \A d \in calls' : d \in calls \/ d = c
          BY <2>1
    <3>3. ASSUME NEW d \in calls' PROVE GoodCall(d)'
          BY <3>1, <3>2, <2>7b
    <3> QED BY <3>3
  <2>10. (\A w \in work : GoodWork(w))'
    <3> SUFFICES ASSUME NEW w \in work PROVE GoodWork(w)'
        BY <2>1
    <3> QED BY <1>w, <2>8 DEF GoodWork
  <2>11. (\A n \in Node : \A i \in 1..Len(queue[n]) : Numbered(queue[n][i]))'
    <3> SUFFICES ASSUME NEW n \in Node, NEW i \in 1..Len(queue[n])
                 PROVE  Numbered(queue[n][i])'
        BY <2>1
    <3>1. queue[n][i] \in Item /\ Numbered(queue[n][i])
          BY ElementOfSeq DEF TypeInv, TypeOK
    <3>2. Numbered(queue[n][i]) => queue[n][i].sub <= subs'[queue[n][i].task]
          BY <3>1, <2>8 DEF Numbered
    <3> QED BY <3>1, <3>2, <2>1 DEF Numbered
  <2>12. (\A p \in accepted \cup done \cup dlq : p[2] <= subs[p[1]])'
    <3> SUFFICES ASSUME NEW p \in accepted \cup done \cup dlq PROVE p[2] <= subs'[p[1]]
        BY <2>1
    <3>1. p \in Piece /\ p[2] <= subs[p[1]]
          BY DEF TypeInv, TypeOK
    <3>2. p[1] \in Task /\ p[2] \in Nat
          BY <3>1, <2>2 DEF Piece
    <3> QED BY <3>1, <3>2, <2>2, <2>3
  <2>13. TypeOK'
    <3>1. calls' \subseteq Call
          BY <2>1, <2>6, <1>c
    <3> QED BY <2>1, <2>3, <3>1 DEF TypeInv, TypeOK
  <2> QED BY <2>4, <2>9, <2>10, <2>11, <2>12, <2>13 DEF TypeInv
<1>2. ASSUME NEW n \in Node, Claim(n) PROVE TypeInv'
  <2> DEFINE w == [node |-> n, item |-> [Head(queue[n]) EXCEPT !.attempt = 1], st |-> "running"]
  <2>1. /\ queue[n] # << >> /\ queue' = [queue EXCEPT ![n] = Tail(queue[n])]
        /\ work' = work \cup {w}
        /\ UNCHANGED <<lock, snap, dlq, routable, calls, up, subs, fails, accepted, done, hit, faults>>
        BY <1>2 DEF Claim, ghosts, env
  <2>2. queue \in [Node -> Seq(Item)]
        BY DEF TypeInv, TypeOK
  <2>3. Head(queue[n]) \in Item /\ Head(queue[n]) = queue[n][1] /\ 1 \in 1..Len(queue[n])
        BY <2>1, <2>2, PopFacts
  <2>4. Numbered(Head(queue[n]))
        BY <2>3 DEF TypeInv
  <2>5. w \in Work /\ w.item.attempt = 1 /\ Numbered(w.item)
        BY <2>3, <2>4 DEF Work, Item, Numbered
  <2>6. GoodWork(w)
        BY <2>5 DEF GoodWork
  <2> HIDE DEF w
  <2> QED BY <2>1, <2>6, <1>t, TypeFrame
<1>3. ASSUME NEW n \in Node, ClaimLost(n) PROVE TypeInv'
  <2>1. /\ queue[n] # << >> /\ queue' = [queue EXCEPT ![n] = Tail(queue[n])]
        /\ UNCHANGED <<lock, snap, dlq, routable, calls, work, up, subs, fails, accepted, done>>
        /\ \E kind \in {"redis", "timeout"} : Fault(kind, {Head(queue[n]).task})
        BY <1>3 DEF ClaimLost, ghosts, worker
  <2>2. queue \in [Node -> Seq(Item)]
        BY DEF TypeInv, TypeOK
  <2>3. Head(queue[n]).task \in Task
        BY <2>1, <2>2, PopFacts DEF Item
  <2>4. hit' \subseteq Task /\ faults' \in 0..MaxFaults
        BY <2>1, <2>3, FaultType
  <2> QED BY <2>1, <2>4, <1>t, TypeFrame
<1>4. ASSUME NEW n \in Node, Crash(n) PROVE TypeInv'
  <2>1. /\ Fault("crash", {w.item.task : w \in {v \in work : v.node = n}})
        /\ up' = up \ {n} /\ work' \subseteq work
        /\ calls' = {IF c.from = n THEN [c EXCEPT !.waiting = FALSE] ELSE c : c \in calls}
        /\ UNCHANGED <<lock, snap, queue, dlq, routable, subs, fails, accepted, done>>
        BY <1>4 DEF Crash, redis, ghosts
  <2>2. {w.item.task : w \in {v \in work : v.node = n}} \in SUBSET Task
        BY <1>w
  <2>3. hit' \subseteq Task /\ faults' \in 0..MaxFaults
        BY <2>1, <2>2, FaultType
  <2>4. \A d \in calls' : d \in calls \/ GoodCall(d)
        BY <2>1, <1>d
  <2> QED BY <2>1, <2>3, <2>4, <1>t, TypeFrame
<1>5. ASSUME NEW n \in Node, Restart(n) PROVE TypeInv'
  <2>1. /\ up' = up \cup {n}
        /\ UNCHANGED <<lock, snap, queue, dlq, routable, calls, work, subs, fails, accepted, done, hit, faults>>
        BY <1>5 DEF Restart, redis, ghosts, env
  <2> QED BY <2>1, <1>t, TypeFrame
<1>6. ASSUME NEW w \in work, Complete(w) PROVE TypeInv'
  <2>1. /\ work' = (work \ {w}) \cup {[w EXCEPT !.st = "completing"]}
        /\ calls' = calls \cup {[pc |-> "seen", from |-> w.node, dest |-> "none",
                                 item |-> w.item, waiting |-> TRUE]}
        /\ UNCHANGED <<lock, snap, queue, dlq, routable, up, subs, fails, accepted, done, hit, faults>>
        BY <1>6 DEF Complete, Turn, Ask, redis, ghosts, env
  <2>2. \A v \in work' : v \in work \/ GoodWork(v)
        BY <2>1, <1>b
  <2>3. \A d \in calls' : d \in calls \/ GoodCall(d)
        BY <2>1, <1>a
  <2> QED BY <2>1, <2>2, <2>3, <1>t, TypeFrame
<1>7. ASSUME NEW w \in work, Fail(w) PROVE TypeInv'
  <2>1. /\ work' = (work \ {w}) \cup {[w EXCEPT !.st = "failing"]}
        /\ calls' = calls \cup {[pc |-> "free", from |-> w.node, dest |-> "none",
                                 item |-> w.item, waiting |-> TRUE]}
        /\ fails[w.item.task] < MaxFails
        /\ fails' = [fails EXCEPT ![w.item.task] = fails[w.item.task] + 1]
        /\ UNCHANGED <<lock, snap, queue, dlq, routable, up, subs, accepted, done, hit, faults>>
        BY <1>7 DEF Fail, Turn, Ask, redis, env
  <2>2. \A v \in work' : v \in work \/ GoodWork(v)
        BY <2>1, <1>b
  <2>3. \A d \in calls' : d \in calls \/ GoodCall(d)
        BY <2>1, <1>a
  <2>4. fails' \in [Task -> 0..MaxFails]
        BY <2>1, <1>w, <1>t, BoundAssumption
  <2> QED BY <2>1, <2>2, <2>3, <2>4, <1>t, TypeFrame
<1>8. ASSUME NEW w \in work, Report(w) PROVE TypeInv'
  <2>1. /\ work' = (work \ {w}) \cup {[w EXCEPT !.st = "failing"]}
        /\ calls' = calls \cup {[pc |-> "free", from |-> w.node, dest |-> "none",
                                 item |-> w.item, waiting |-> TRUE]}
        /\ UNCHANGED <<lock, snap, queue, dlq, routable, up, subs, fails, accepted, done, hit, faults>>
        BY <1>8 DEF Report, Turn, Ask, redis, ghosts, env
  <2>2. \A v \in work' : v \in work \/ GoodWork(v)
        BY <2>1, <1>b
  <2>3. \A d \in calls' : d \in calls \/ GoodCall(d)
        BY <2>1, <1>a
  <2> QED BY <2>1, <2>2, <2>3, <1>t, TypeFrame
<1>9. ASSUME NEW w \in work, ReportLost(w) PROVE TypeInv'
  <2>1. /\ Fault("timeout", {w.item.task}) /\ work' \subseteq work
        /\ UNCHANGED <<lock, snap, queue, dlq, routable, calls, up, subs, fails, accepted, done>>
        BY <1>9 DEF ReportLost, redis, ghosts
  <2>2. hit' \subseteq Task /\ faults' \in 0..MaxFaults
        BY <2>1, <1>w, FaultType
  <2> QED BY <2>1, <2>2, <1>t, TypeFrame
<1>10. ASSUME NEW c \in calls, Timeout(c) PROVE TypeInv'
  <2>1. /\ Fault("timeout", {c.item.task})
        /\ calls' = (calls \ {c}) \cup {[c EXCEPT !.waiting = FALSE]}
        /\ \A v \in work' : v \in work \/ \E w \in work : v = [w EXCEPT !.st = "reporting"]
        /\ UNCHANGED <<lock, snap, queue, dlq, routable, up, subs, fails, accepted, done>>
        BY <1>10 DEF Timeout, WorkOf, redis, ghosts
  <2>2. hit' \subseteq Task /\ faults' \in 0..MaxFaults
        BY <2>1, <1>c, FaultType
  <2>3. \A v \in work' : v \in work \/ GoodWork(v)
        BY <2>1, <1>b
  <2>4. \A d \in calls' : d \in calls \/ GoodCall(d)
        BY <2>1, <1>d
  <2> QED BY <2>1, <2>2, <2>3, <2>4, <1>t, TypeFrame
<1>11. ASSUME NEW c \in calls, Drop(c) PROVE TypeInv'
  <2>1. /\ calls' \subseteq calls
        /\ UNCHANGED <<lock, snap, queue, dlq, routable, work, up, subs, fails, accepted, done, hit, faults>>
        BY <1>11 DEF Drop, Return, redis, worker, ghosts, env
  <2> QED BY <2>1, <1>t, TypeFrame
<1>12. CASE RouteChange
  <2>1. /\ routable' \subseteq Node
        /\ UNCHANGED <<lock, snap, queue, dlq, calls, work, up, subs, fails, accepted, done, hit, faults>>
        BY <1>12, <1>t DEF RouteChange, redis, worker, ghosts, env
  <2> QED BY <2>1, <1>t, TypeFrame
<1>13. CASE LockExpiry
  <2>1. /\ lock' \subseteq lock
        /\ UNCHANGED <<snap, queue, dlq, routable, calls, work, up, subs, fails, accepted, done, hit, faults>>
        BY <1>13 DEF LockExpiry, worker, ghosts, env
  <2> QED BY <2>1, <1>t, TypeFrame
<1>14. CASE SnapshotExpiry
  <2>1. /\ \E t \in snap : Fault("expiry", {t})
        /\ snap' \subseteq snap
        /\ UNCHANGED <<lock, queue, dlq, routable, calls, work, up, subs, fails, accepted, done>>
        BY <1>14 DEF SnapshotExpiry, worker, ghosts
  <2>2. hit' \subseteq Task /\ faults' \in 0..MaxFaults
        BY <2>1, <1>t, FaultType
  <2> QED BY <2>1, <2>2, <1>t, TypeFrame
<1>15. CASE BrokerRestart
  <2>1. /\ Fault("restart", {c.item.task : c \in calls})
        /\ calls' = {} /\ routable' = {}
        /\ \A v \in work' : v \in work \/ \E w \in work : v = [w EXCEPT !.st = "reporting"]
        /\ UNCHANGED <<lock, snap, queue, dlq, up, subs, fails, accepted, done>>
        BY <1>15 DEF BrokerRestart, redis, ghosts
  <2>2. {c.item.task : c \in calls} \in SUBSET Task
        BY <1>c
  <2>3. hit' \subseteq Task /\ faults' \in 0..MaxFaults
        BY <2>1, <2>2, FaultType
  <2>4. \A v \in work' : v \in work \/ GoodWork(v)
        BY <2>1, <1>b
  <2> QED BY <2>1, <2>3, <2>4, <1>t, TypeFrame
<1>16. CASE UNCHANGED vars
  <2>1. UNCHANGED <<lock, snap, queue, dlq, routable, calls, work, up, subs, fails, accepted, done, hit, faults>>
        BY <1>16 DEF vars, redis, worker, ghosts, env
  <2> QED BY <2>1, <1>t, TypeFrame
<1> QED BY <1>1, <1>2, <1>3, <1>4, <1>5, <1>6, <1>7, <1>8, <1>9, <1>10, <1>11, <1>12,
           <1>13, <1>14, <1>15, <1>16, HandlerType DEF Next, WorkerStep

\* Every key, handler and execution of the broker and its workers keeps its type, for
\* any tasks, nodes, bounds and faults: no retry carries an attempt past the second,
\* nothing is pushed to a node that is none, no work is on a piece nobody submitted
\* (api.rs:117-338, state.rs:400-495).
THEOREM TypeCorrect == Spec => []TypeOK
<1>1. Init => TypeInv
      BY TypeInit
<1>2. TypeInv /\ [Next]_vars => TypeInv'
      BY TypeNext
<1>3. TypeInv => TypeOK
      BY DEF TypeInv
<1> QED BY <1>1, <1>2, <1>3, PTL DEF Spec

-----------------------------------------------------------------------------
\* One place for each piece of work. The lemmas say it of a kind of step each.

\* A step that only takes away, or moves what is there on, keeps everyone apart.
LEMMA Thinner ==
  ASSUME PlaceInv, queue' = queue, dlq \subseteq dlq',
         \A x \in calls' : /\ \E c \in calls : Of(c) = Of(x) /\ (Holds(x) => Holds(c))
                           /\ x.pc = "purge" => Of(x) \in dlq',
         \A v \in work' : \E w \in work :
           Of(w) = Of(v) /\ (w.st = "failing" => v.st = "failing"),
         \A p \in dlq' \ dlq :
           /\ \E c \in calls : Holds(c) /\ Of(c) = p
           /\ \A x \in calls' : Holds(x) => Of(x) # p
  PROVE  (CallOrWork /\ QueueApart /\ QueueAlone /\ BuriedAlone /\ PurgeBuried)'
<1>1. CallOrWork'
  <2> SUFFICES ASSUME NEW x \in calls', NEW v \in work', Holds(x), Of(x) = Of(v)
               PROVE  v.st = "failing"
      BY DEF CallOrWork
  <2> QED BY DEF PlaceInv, CallOrWork
<1>2. QueueApart'
      BY DEF PlaceInv, QueueApart
<1>3. QueueAlone'
  <2> SUFFICES ASSUME NEW n \in Node, NEW i \in 1..Len(queue[n])
               PROVE  /\ \A x \in calls' : Holds(x) => Of(x) # PieceOf(queue[n][i])
                      /\ \A w \in work' : Of(w) # PieceOf(queue[n][i])
                      /\ PieceOf(queue[n][i]) \notin dlq'
      BY DEF QueueAlone, NotCalled
  <2>1. /\ \A c \in calls : Holds(c) => Of(c) # PieceOf(queue[n][i])
        /\ \A w \in work : Of(w) # PieceOf(queue[n][i])
        /\ PieceOf(queue[n][i]) \notin dlq
        BY DEF PlaceInv, QueueAlone, NotCalled
  <2> QED BY <2>1
<1>4. BuriedAlone'
  <2> SUFFICES ASSUME NEW p \in dlq'
               PROVE  /\ \A x \in calls' : Holds(x) => Of(x) # p
                      /\ \A v \in work' : Of(v) = p => v.st = "failing"
      BY DEF BuriedAlone, NotCalled
  <2>1. CASE p \in dlq
        BY <2>1 DEF PlaceInv, BuriedAlone, NotCalled
  <2>2. CASE p \notin dlq
        BY <2>2 DEF PlaceInv, CallOrWork
  <2> QED BY <2>1, <2>2
<1>5. PurgeBuried'
      BY DEF PurgeBuried
<1> QED BY <1>1, <1>2, <1>3, <1>4, <1>5

\* The call that waits for a worker, and that worker, have the piece to themselves.
LEMMA OneAsks ==
  ASSUME PlaceInv, NEW c \in calls, Asks(c)
  PROVE  \E w \in work : /\ w.node = c.from /\ Of(w) = Of(c) /\ w.st = StOf(c)
                         /\ \A v \in work : Of(v) = Of(c) => v = w
BY DEF PlaceInv, Attended, WorkApart

\* A handler goes on to its next command.
LEMMA PlaceMove ==
  ASSUME PlaceInv, NEW c \in calls, NEW d,
         Of(d) = Of(c), d.from = c.from, d.waiting = c.waiting, StOf(d) = StOf(c),
         Holds(d) => Holds(c), d.pc \in SubmitPc <=> c.pc \in SubmitPc,
         calls' = (calls \ {c}) \cup {d}, work' = work, queue' = queue,
         \/ dlq' = dlq /\ (d.pc = "purge" => c.pc = "purge")
         \/ dlq' = dlq \cup {Of(c)} /\ Holds(c) /\ ~Holds(d)
  PROVE  PlaceInv'
<1>a. Asks(d) <=> Asks(c)
      BY DEF Asks
<1>p. \A x \in calls' : (x \in calls /\ x # c) \/ x = d
      OBVIOUS
<1>h. \A x \in calls : Holds(x) /\ Holds(c) /\ Of(x) = Of(c) => x = c
      BY DEF PlaceInv, CallsApart
<1>1. (CallOrWork /\ QueueApart /\ QueueAlone /\ BuriedAlone /\ PurgeBuried)'
  <2>1. ASSUME NEW x \in calls'
        PROVE  /\ \E y \in calls : Of(y) = Of(x) /\ (Holds(x) => Holds(y))
               /\ x.pc = "purge" => Of(x) \in dlq'
        BY <1>p DEF PlaceInv, PurgeBuried
  <2>2. ASSUME NEW p \in dlq' \ dlq
        PROVE  /\ \E y \in calls : Holds(y) /\ Of(y) = p
               /\ \A x \in calls' : Holds(x) => Of(x) # p
        BY <1>h, <1>p
  <2>3. dlq \subseteq dlq'
        OBVIOUS
  <2> QED BY <2>1, <2>2, <2>3, Thinner
<1>2. CallsApart'
  <2> SUFFICES ASSUME NEW x \in calls', NEW y \in calls', Holds(x), Holds(y), Of(x) = Of(y)
               PROVE  x = y
      BY DEF CallsApart
  <2> QED BY <1>p, <1>h DEF PlaceInv, CallsApart
<1>3. WorkApart'
      BY DEF PlaceInv, WorkApart
<1>4. Attended'
  <2> SUFFICES ASSUME NEW x \in calls', Asks(x)
               PROVE  \E w \in work : w.node = x.from /\ Of(w) = Of(x) /\ w.st = StOf(x)
      BY DEF Attended
  <2>1. CASE x \in calls
        BY <2>1 DEF PlaceInv, Attended
  <2>2. CASE x = d
        BY <2>2, <1>a DEF PlaceInv, Attended
  <2> QED BY <2>1, <2>2, <1>p
<1>5. Attending'
  <2> SUFFICES ASSUME NEW w \in work, w.st \in {"completing", "failing"}
               PROVE  \E x \in calls' : Asks(x) /\ x.from = w.node /\ Of(x) = Of(w) /\ StOf(x) = w.st
      BY DEF Attending
  <2>1. PICK x \in calls : Asks(x) /\ x.from = w.node /\ Of(x) = Of(w) /\ StOf(x) = w.st
        BY DEF PlaceInv, Attending
  <2>2. CASE x = c
        BY <2>1, <2>2, <1>a
  <2>3. CASE x # c
        BY <2>1, <2>3
  <2> QED BY <2>2, <2>3
<1>6. AsksApart'
  <2> SUFFICES ASSUME NEW x \in calls', NEW y \in calls', Asks(x), Asks(y), Of(x) = Of(y)
               PROVE  x = y
      BY DEF AsksApart
  <2> QED BY <1>p, <1>a DEF PlaceInv, AsksApart
<1> QED BY <1>1, <1>2, <1>3, <1>4, <1>5, <1>6 DEF PlaceInv

\* A handler ends; the worker that waited for it is done with the task.
LEMMA QuitPairs ==
  ASSUME PlaceInv, NEW c \in calls, calls' = calls \ {c},
         work' = IF Asks(c)
                 THEN work \ {w \in work : w.node = c.from /\ PieceOf(w.item) = PieceOf(c.item)}
                 ELSE work
  PROVE  /\ (CallsApart /\ WorkApart /\ Attended /\ Attending /\ AsksApart)'
         /\ work' \subseteq work
         /\ Asks(c) => \A w \in work' : Of(w) # Of(c)
<1>1. /\ work' \subseteq work
      /\ Asks(c) => \A w \in work' : Of(w) # Of(c)
  <2>1. CASE Asks(c)
        BY <2>1, OneAsks DEF Of
  <2>2. CASE ~Asks(c)
        BY <2>2
  <2> QED BY <2>1, <2>2
<1>2. CallsApart'
      BY DEF PlaceInv, CallsApart
<1>3. WorkApart'
      BY <1>1 DEF PlaceInv, WorkApart
<1>4. Attended'
  <2> SUFFICES ASSUME NEW x \in calls, x # c, Asks(x)
               PROVE  \E w \in work' : w.node = x.from /\ Of(w) = Of(x) /\ w.st = StOf(x)
      BY DEF Attended
  <2>1. PICK w \in work : w.node = x.from /\ Of(w) = Of(x) /\ w.st = StOf(x)
        BY DEF PlaceInv, Attended
  <2>2. Asks(c) => Of(w) # Of(c)
        BY <2>1 DEF PlaceInv, AsksApart
  <2>3. w \in work'
        BY <2>2 DEF Of
  <2> QED BY <2>1, <2>3
<1>5. Attending'
  <2> SUFFICES ASSUME NEW w \in work', w.st \in {"completing", "failing"}
               PROVE  \E x \in calls' : Asks(x) /\ x.from = w.node /\ Of(x) = Of(w) /\ StOf(x) = w.st
      BY DEF Attending
  <2>1. PICK x \in calls : Asks(x) /\ x.from = w.node /\ Of(x) = Of(w) /\ StOf(x) = w.st
        BY <1>1 DEF PlaceInv, Attending
  <2>2. x # c
        BY <2>1, <1>1
  <2> QED BY <2>1, <2>2
<1>6. AsksApart'
      BY DEF PlaceInv, AsksApart
<1> QED BY <1>1, <1>2, <1>3, <1>4, <1>5, <1>6

\* It ends with nothing pushed, or with its task buried.
LEMMA PlaceQuit ==
  ASSUME PlaceInv, NEW c \in calls, calls' = calls \ {c},
         work' = IF Asks(c)
                 THEN work \ {w \in work : w.node = c.from /\ PieceOf(w.item) = PieceOf(c.item)}
                 ELSE work,
         queue' = queue,
         dlq' = dlq \/ (dlq' = dlq \cup {Of(c)} /\ Holds(c))
  PROVE  PlaceInv'
<1>1. /\ (CallsApart /\ WorkApart /\ Attended /\ Attending /\ AsksApart)'
      /\ work' \subseteq work
      BY QuitPairs
<1>2. (CallOrWork /\ QueueApart /\ QueueAlone /\ BuriedAlone /\ PurgeBuried)'
  <2>1. ASSUME NEW x \in calls'
        PROVE  /\ \E y \in calls : Of(y) = Of(x) /\ (Holds(x) => Holds(y))
               /\ x.pc = "purge" => Of(x) \in dlq'
        BY DEF PlaceInv, PurgeBuried
  <2>2. ASSUME NEW p \in dlq' \ dlq
        PROVE  /\ \E y \in calls : Holds(y) /\ Of(y) = p
               /\ \A x \in calls' : Holds(x) => Of(x) # p
        BY DEF PlaceInv, CallsApart
  <2>3. \A v \in work' : \E w \in work : Of(w) = Of(v) /\ (w.st = "failing" => v.st = "failing")
        BY <1>1
  <2>4. dlq \subseteq dlq'
        OBVIOUS
  <2> QED BY <2>1, <2>2, <2>3, <2>4, Thinner
<1> QED BY <1>1, <1>2 DEF PlaceInv

\* It ends with its task pushed to a list.
LEMMA PlaceHand ==
  ASSUME TypeInv, PlaceInv, NEW c \in calls, Holds(c),
         calls' = calls \ {c},
         work' = IF Asks(c)
                 THEN work \ {w \in work : w.node = c.from /\ PieceOf(w.item) = PieceOf(c.item)}
                 ELSE work,
         dlq' = dlq,
         NEW n \in Node, NEW item \in Item, PieceOf(item) = Of(c),
         queue' = [queue EXCEPT ![n] = Append(queue[n], item)]
  PROVE  PlaceInv'
<1>1. /\ (CallsApart /\ WorkApart /\ Attended /\ Attending /\ AsksApart)'
      /\ work' \subseteq work
      /\ Asks(c) => \A w \in work' : Of(w) # Of(c)
      BY QuitPairs
<1>2. \A m \in Node : \A i \in 1..Len(queue'[m]) :
        \/ i \in 1..Len(queue[m]) /\ queue'[m][i] = queue[m][i]
        \/ m = n /\ i = Len(queue[n]) + 1 /\ queue'[m][i] = item
      BY PushFacts DEF TypeInv, TypeOK
<1>3. Of(c) \notin dlq
      BY DEF PlaceInv, BuriedAlone, NotCalled
<1>4. \A w \in work' : Of(w) # Of(c)
  <2> SUFFICES ASSUME NEW w \in work', Of(w) = Of(c) PROVE FALSE
      OBVIOUS
  <2>1. w.st = "failing"
        BY <1>1 DEF PlaceInv, CallOrWork
  <2>2. PICK x \in calls : Asks(x) /\ Of(x) = Of(w) /\ StOf(x) = "failing"
        BY <1>1, <2>1 DEF PlaceInv, Attending
  <2>3. x.pc # "purge"
        BY <1>3, <2>2 DEF PlaceInv, PurgeBuried
  <2>4. ASSUME x = c PROVE FALSE
        BY <2>2, <2>4, <1>1
  <2>5. ~Holds(x)
        BY <2>2, <2>4 DEF PlaceInv, CallsApart
  <2>6. x.pc \in SubmitPc \cup CompletePc \cup FailPc
        BY CallFields DEF TypeInv, GoodCall
  <2> QED BY <2>2, <2>3, <2>5, <2>6 DEF Asks, StOf, Holds, FailPc
<1>5. \A m \in Node : \A i \in 1..Len(queue[m]) : PieceOf(queue[m][i]) # Of(c)
      BY DEF PlaceInv, QueueAlone, NotCalled
<1>6. CallOrWork'
      BY <1>1 DEF PlaceInv, CallOrWork
<1>7. QueueApart'
  <2> SUFFICES ASSUME NEW k \in Node, NEW m \in Node,
                      NEW i \in 1..Len(queue'[k]), NEW j \in 1..Len(queue'[m]),
                      PieceOf(queue'[k][i]) = PieceOf(queue'[m][j])
               PROVE  k = m /\ i = j
      BY DEF QueueApart
  <2>1. CASE i \in 1..Len(queue[k]) /\ queue'[k][i] = queue[k][i]
    <3>1. CASE j \in 1..Len(queue[m]) /\ queue'[m][j] = queue[m][j]
          BY <2>1, <3>1 DEF PlaceInv, QueueApart
    <3>2. CASE queue'[m][j] = item
          BY <2>1, <3>2, <1>5
    <3> QED BY <3>1, <3>2, <1>2
  <2>2. CASE queue'[k][i] = item /\ k = n /\ i = Len(queue[n]) + 1
    <3>1. CASE j \in 1..Len(queue[m]) /\ queue'[m][j] = queue[m][j]
          BY <2>2, <3>1, <1>5
    <3>2. CASE m = n /\ j = Len(queue[n]) + 1
          BY <2>2, <3>2
    <3> QED BY <3>1, <3>2, <1>2
  <2> QED BY <2>1, <2>2, <1>2
<1>8. QueueAlone'
  <2> SUFFICES ASSUME NEW m \in Node, NEW i \in 1..Len(queue'[m])
               PROVE  /\ \A x \in calls' : Holds(x) => Of(x) # PieceOf(queue'[m][i])
                      /\ \A w \in work' : Of(w) # PieceOf(queue'[m][i])
                      /\ PieceOf(queue'[m][i]) \notin dlq
      BY DEF QueueAlone, NotCalled
  <2>1. CASE i \in 1..Len(queue[m]) /\ queue'[m][i] = queue[m][i]
        BY <2>1, <1>1 DEF PlaceInv, QueueAlone, NotCalled
  <2>2. CASE queue'[m][i] = item
        BY <2>2, <1>3, <1>4 DEF PlaceInv, CallsApart
  <2> QED BY <2>1, <2>2, <1>2
<1>9. BuriedAlone' /\ PurgeBuried'
      BY <1>1 DEF PlaceInv, BuriedAlone, PurgeBuried, NotCalled
<1> QED BY <1>1, <1>6, <1>7, <1>8, <1>9 DEF PlaceInv

\* A submission is of a piece of work nobody has seen.
LEMMA PlaceSubmit ==
  ASSUME TypeInv, PlaceInv, NEW c, c.pc = "check", Of(c)[2] = subs[Of(c)[1]] + 1,
         calls' = calls \cup {c}, work' = work, queue' = queue, dlq' = dlq
  PROVE  PlaceInv'
<1>f. \A p : p[2] <= subs[p[1]] /\ p[1] \in Task => p # Of(c)
      BY DEF TypeInv, TypeOK
<1>1. ASSUME NEW x \in calls PROVE Of(x) # Of(c)
  <2>1. x.item \in Item /\ Numbered(x.item) /\ x.item.task \in Task
        BY CallFields DEF TypeInv, GoodCall, Item
  <2> QED BY <2>1, <1>f DEF Of, PieceOf, Numbered
<1>2. ASSUME NEW w \in work PROVE Of(w) # Of(c)
  <2>1. w.item \in Item /\ Numbered(w.item) /\ w.item.task \in Task
        BY WorkFields DEF TypeInv, GoodWork, Item
  <2> QED BY <2>1, <1>f DEF Of, PieceOf, Numbered
<1>3. ASSUME NEW n \in Node, NEW i \in 1..Len(queue[n]) PROVE PieceOf(queue[n][i]) # Of(c)
  <2>1. queue[n][i] \in Item /\ Numbered(queue[n][i])
        BY ElementOfSeq DEF TypeInv, TypeOK
  <2>2. queue[n][i].task \in Task
        BY <2>1 DEF Item
  <2> QED BY <2>1, <2>2, <1>f DEF PieceOf, Numbered
<1>4. Of(c) \notin dlq
  <2> SUFFICES ASSUME Of(c) \in dlq PROVE FALSE
      OBVIOUS
  <2>1. Of(c) \in Piece /\ Of(c)[2] <= subs[Of(c)[1]]
        BY DEF TypeInv, TypeOK
  <2>2. Of(c)[1] \in Task
        BY <2>1, BoundAssumption DEF Piece
  <2> QED BY <2>1, <2>2, <1>f
<1>5. ~Asks(c) /\ c.pc # "purge"
      BY DEF Asks, SubmitPc
<1>6. (CallsApart /\ WorkApart /\ CallOrWork /\ QueueApart)'
      BY <1>1, <1>2 DEF PlaceInv, CallsApart, WorkApart, CallOrWork, QueueApart
<1>7. QueueAlone'
      BY <1>3 DEF PlaceInv, QueueAlone, NotCalled
<1>8. BuriedAlone' /\ PurgeBuried'
      BY <1>4, <1>5 DEF PlaceInv, BuriedAlone, PurgeBuried, NotCalled
<1>9. Attended' /\ AsksApart'
      BY <1>5 DEF PlaceInv, Attended, AsksApart
<1>10. Attending'
  <2> SUFFICES ASSUME NEW w \in work, w.st \in {"completing", "failing"}
               PROVE  \E x \in calls' : Asks(x) /\ x.from = w.node /\ Of(x) = Of(w) /\ StOf(x) = w.st
      BY DEF Attending
  <2> QED BY DEF PlaceInv, Attending
<1> QED BY <1>6, <1>7, <1>8, <1>9, <1>10 DEF PlaceInv

\* The head of a list is claimed, and reaches the worker or not.
LEMMA PlaceTake ==
  ASSUME TypeInv, PlaceInv, NEW n \in Node, queue[n] # << >>,
         queue' = [queue EXCEPT ![n] = Tail(queue[n])],
         \/ work' = work
         \/ \E w : Of(w) = PieceOf(Head(queue[n])) /\ w.st = "running" /\ work' = work \cup {w},
         calls' = calls, dlq' = dlq
  PROVE  PlaceInv'
<1> DEFINE Fits(new) == /\ work' = work \cup new
                        /\ \A v \in new : Of(v) = PieceOf(Head(queue[n])) /\ v.st = "running"
                        /\ \A v, w \in new : v = w
<1>0. PICK new : Fits(new)
  <2>1. work' = work => Fits({})
        OBVIOUS
  <2>2. ASSUME NEW w, Of(w) = PieceOf(Head(queue[n])), w.st = "running", work' = work \cup {w}
        PROVE  Fits({w})
        BY <2>2
  <2> HIDE DEF Fits
  <2> QED BY <2>1, <2>2
<1>1. /\ 1 \in 1..Len(queue[n]) /\ Head(queue[n]) = queue[n][1]
      /\ \A m \in Node \ {n} : queue'[m] = queue[m]
      /\ \A i \in 1..Len(queue'[n]) :
           i + 1 \in 1..Len(queue[n]) /\ queue'[n][i] = queue[n][i + 1]
      BY PopFacts DEF TypeInv, TypeOK
<1>2. \A m \in Node : \A i \in 1..Len(queue'[m]) :
        \/ m # n /\ i \in 1..Len(queue[m]) /\ queue'[m][i] = queue[m][i]
        \/ m = n /\ i + 1 \in 1..Len(queue[m]) /\ queue'[m][i] = queue[m][i + 1]
      BY <1>1
<1>3. ASSUME NEW v \in new
      PROVE  /\ NotCalled(Of(v)) /\ (\A w \in work : Of(w) # Of(v)) /\ Of(v) \notin dlq
      BY <1>0, <1>1 DEF PlaceInv, QueueAlone
<1>4. ASSUME NEW m \in Node, NEW i \in 1..Len(queue'[m])
      PROVE  /\ PieceOf(queue'[m][i]) # PieceOf(queue[n][1])
             /\ \E j \in 1..Len(queue[m]) : queue'[m][i] = queue[m][j]
  <2>1. CASE m # n /\ i \in 1..Len(queue[m]) /\ queue'[m][i] = queue[m][i]
        BY <2>1, <1>1 DEF PlaceInv, QueueApart
  <2>2. CASE m = n /\ i + 1 \in 1..Len(queue[m]) /\ queue'[m][i] = queue[m][i + 1]
    <3>1. i + 1 # 1
          OBVIOUS
    <3>2. PieceOf(queue[n][i + 1]) = PieceOf(queue[n][1]) => i + 1 = 1
          BY <2>2, <1>1 DEF PlaceInv, QueueApart
    <3> QED BY <2>2, <3>1, <3>2
  <2> QED BY <2>1, <2>2, <1>2
<1>5. CallsApart' /\ AsksApart' /\ PurgeBuried'
      BY DEF PlaceInv, CallsApart, AsksApart, PurgeBuried
<1>6. WorkApart'
      BY <1>0, <1>3 DEF PlaceInv, WorkApart
<1>7. CallOrWork'
      BY <1>0, <1>3 DEF PlaceInv, CallOrWork, NotCalled
<1>8. QueueApart'
  <2> SUFFICES ASSUME NEW k \in Node, NEW m \in Node,
                      NEW i \in 1..Len(queue'[k]), NEW j \in 1..Len(queue'[m]),
                      PieceOf(queue'[k][i]) = PieceOf(queue'[m][j])
               PROVE  k = m /\ i = j
      BY DEF QueueApart
  <2>1. CASE k # n /\ m # n
        BY <2>1, <1>2 DEF PlaceInv, QueueApart
  <2>2. CASE k = n /\ m # n
        BY <2>2, <1>2 DEF PlaceInv, QueueApart
  <2>3. CASE k # n /\ m = n
        BY <2>3, <1>2 DEF PlaceInv, QueueApart
  <2>4. CASE k = n /\ m = n
    <3>1. i + 1 \in 1..Len(queue[n]) /\ queue'[n][i] = queue[n][i + 1]
          /\ j + 1 \in 1..Len(queue[n]) /\ queue'[n][j] = queue[n][j + 1]
          BY <2>4, <1>1
    <3>2. i + 1 = j + 1
          BY <2>4, <3>1 DEF PlaceInv, QueueApart
    <3> QED BY <2>4, <3>2
  <2> QED BY <2>1, <2>2, <2>3, <2>4
<1>9. QueueAlone'
  <2> SUFFICES ASSUME NEW m \in Node, NEW i \in 1..Len(queue'[m])
               PROVE  /\ NotCalled(PieceOf(queue'[m][i]))
                      /\ \A w \in work' : Of(w) # PieceOf(queue'[m][i])
                      /\ PieceOf(queue'[m][i]) \notin dlq
      BY DEF QueueAlone, NotCalled
  <2>1. PICK j \in 1..Len(queue[m]) : queue'[m][i] = queue[m][j]
        BY <1>4
  <2>2. /\ NotCalled(PieceOf(queue[m][j])) /\ PieceOf(queue[m][j]) \notin dlq
        /\ \A w \in work : Of(w) # PieceOf(queue[m][j])
        BY DEF PlaceInv, QueueAlone
  <2>3. ASSUME NEW w \in new PROVE Of(w) # PieceOf(queue'[m][i])
    <3>1. Of(w) = PieceOf(queue[n][1])
          BY <1>0, <1>1
    <3> QED BY <3>1, <1>4
  <2> QED BY <2>1, <2>2, <2>3, <1>0
<1>10. BuriedAlone'
      BY <1>0, <1>3 DEF PlaceInv, BuriedAlone, NotCalled
<1>11. Attended'
      BY <1>0 DEF PlaceInv, Attended
<1>12. Attending'
      BY <1>0 DEF PlaceInv, Attending
<1> QED BY <1>5, <1>6, <1>7, <1>8, <1>9, <1>10, <1>11, <1>12 DEF PlaceInv

\* A worker asks for the completion or the failure of what it executes.
LEMMA PlaceAsk ==
  ASSUME PlaceInv, NEW w \in work, w.st \in {"running", "reporting"},
         NEW v, v.node = w.node, Of(v) = Of(w), v.st \in {"completing", "failing"},
         NEW c, c.from = w.node, Of(c) = Of(w), Asks(c), StOf(c) = v.st, c.pc # "purge",
         Holds(c) => v.st = "failing",
         work' = (work \ {w}) \cup {v}, calls' = calls \cup {c}, queue' = queue, dlq' = dlq
  PROVE  PlaceInv'
<1>1. ASSUME NEW x \in work', x # v PROVE x \in work /\ Of(x) # Of(w)
      BY <1>1 DEF PlaceInv, WorkApart
<1>2. NotCalled(Of(w)) /\ Of(w) \notin dlq
      BY DEF PlaceInv, CallOrWork, BuriedAlone, NotCalled
<1>3. ASSUME NEW x \in calls, Asks(x) PROVE Of(x) # Of(w)
      BY <1>3 DEF PlaceInv, Attended, WorkApart, StOf
<1>4. CallsApart'
      BY <1>2 DEF PlaceInv, CallsApart, NotCalled
<1>5. WorkApart'
      BY <1>1 DEF PlaceInv, WorkApart
<1>6. CallOrWork'
  <2> SUFFICES ASSUME NEW x \in calls', NEW y \in work', Holds(x), Of(x) = Of(y)
               PROVE  y.st = "failing"
      BY DEF CallOrWork
  <2>1. CASE x = c
        BY <2>1, <1>1
  <2>2. CASE x \in calls
        BY <2>2, <1>1, <1>2 DEF PlaceInv, CallOrWork, NotCalled
  <2> QED BY <2>1, <2>2
<1>7. QueueApart' /\ PurgeBuried'
      BY DEF PlaceInv, QueueApart, PurgeBuried
<1>8. QueueAlone'
  <2> SUFFICES ASSUME NEW m \in Node, NEW i \in 1..Len(queue[m])
               PROVE  /\ \A x \in calls' : Holds(x) => Of(x) # PieceOf(queue[m][i])
                      /\ \A x \in work' : Of(x) # PieceOf(queue[m][i])
                      /\ PieceOf(queue[m][i]) \notin dlq
      BY DEF QueueAlone, NotCalled
  <2> QED BY DEF PlaceInv, QueueAlone, NotCalled
<1>9. BuriedAlone'
      BY <1>1, <1>2 DEF PlaceInv, BuriedAlone, NotCalled
<1>10. Attended'
  <2> SUFFICES ASSUME NEW x \in calls', Asks(x)
               PROVE  \E y \in work' : y.node = x.from /\ Of(y) = Of(x) /\ y.st = StOf(x)
      BY DEF Attended
  <2>1. CASE x = c
        BY <2>1
  <2>2. CASE x \in calls
        BY <2>2, <1>3 DEF PlaceInv, Attended
  <2> QED BY <2>1, <2>2
<1>11. Attending'
  <2> SUFFICES ASSUME NEW y \in work', y.st \in {"completing", "failing"}
               PROVE  \E x \in calls' : Asks(x) /\ x.from = y.node /\ Of(x) = Of(y) /\ StOf(x) = y.st
      BY DEF Attending
  <2>1. CASE y = v
        BY <2>1
  <2>2. CASE y # v
        BY <2>2, <1>1 DEF PlaceInv, Attending
  <2> QED BY <2>1, <2>2
<1>12. AsksApart'
      BY <1>3 DEF PlaceInv, AsksApart
<1> QED BY <1>4, <1>5, <1>6, <1>7, <1>8, <1>9, <1>10, <1>11, <1>12 DEF PlaceInv

LEMMA PlaceTimeout ==
  ASSUME TypeInv, PlaceInv, NEW c \in calls, Timeout(c)
  PROVE  PlaceInv'
<1> DEFINE d == [c EXCEPT !.waiting = FALSE]
           W == {w \in work : w.node = c.from /\ PieceOf(w.item) = PieceOf(c.item)}
<1>1. /\ calls' = (calls \ {c}) \cup {d} /\ queue' = queue /\ dlq' = dlq /\ c.waiting
      /\ work' = (work \ W) \cup
           {[w EXCEPT !.st = "reporting"] : w \in IF c.pc \in CompletePc THEN W ELSE {}}
      BY DEF Timeout, WorkOf, redis
<1>2. d.pc = c.pc /\ d.item = c.item /\ d.waiting = FALSE
      BY CallFields DEF TypeInv, GoodCall
<1> HIDE DEF d
<1>3. ~Asks(d) /\ Of(d) = Of(c) /\ (Holds(d) <=> Holds(c))
      BY <1>2 DEF Asks, Of, Holds
<1>4. \/ ~Asks(c) /\ W = {}
      \/ Asks(c) /\ \E w \in work : W = {w} /\ w.st = StOf(c) /\ w.node = c.from /\ Of(w) = Of(c)
  <2>1. CASE c.pc \in SubmitPc
    <3>1. c.from = "client"
          BY <2>1 DEF TypeInv, GoodCall
    <3>2. \A w \in work : w.node \in Node
          BY WorkFields DEF TypeInv, GoodWork
    <3> QED BY <2>1, <3>1, <3>2, NodeAssumption DEF Asks
  <2>2. CASE c.pc \notin SubmitPc
    <3>1. Asks(c)
          BY <1>1, <2>2 DEF Asks
    <3> QED BY <3>1, OneAsks DEF Of
  <2> QED BY <2>1, <2>2
<1>5. \A w \in W : w \in work /\ w.node = c.from /\ Of(w) = Of(c)
      BY DEF Of
<1>6. \A w \in work : w \notin W => Of(w) # Of(c) \/ w.node # c.from
      BY DEF Of
<1> HIDE DEF W
<1>7. \A v \in work' :
        \/ v \in work /\ v \notin W
        \/ \E w \in W : /\ v = [w EXCEPT !.st = "reporting"] /\ c.pc \in CompletePc
                        /\ Of(v) = Of(w) /\ v.st = "reporting"
  <2>1. ASSUME NEW w \in W
        PROVE  /\ Of([w EXCEPT !.st = "reporting"]) = Of(w)
               /\ [w EXCEPT !.st = "reporting"].st = "reporting"
    <3>1. w \in Work
          BY <1>5 DEF TypeInv, GoodWork
    <3> QED BY <3>1 DEF Work, Of
  <2>2. ASSUME NEW v \in work', ~(v \in work /\ v \notin W)
        PROVE  \E w \in W : v = [w EXCEPT !.st = "reporting"] /\ c.pc \in CompletePc
        BY <1>1, <2>2
  <2> QED BY <2>1, <2>2
<1>8. (CallOrWork /\ QueueApart /\ QueueAlone /\ BuriedAlone /\ PurgeBuried)'
  <2>1. ASSUME NEW x \in calls'
        PROVE  /\ \E y \in calls : Of(y) = Of(x) /\ (Holds(x) => Holds(y))
               /\ x.pc = "purge" => Of(x) \in dlq'
        BY <1>1, <1>2, <1>3 DEF PlaceInv, PurgeBuried
  <2>2. ASSUME NEW v \in work'
        PROVE  \E w \in work : Of(w) = Of(v) /\ (w.st = "failing" => v.st = "failing")
        BY <1>4, <1>7 DEF StOf
  <2> QED BY <1>1, <2>1, <2>2, Thinner
<1>9. CallsApart' /\ AsksApart'
      BY <1>1, <1>3 DEF PlaceInv, CallsApart, AsksApart
<1>10. WorkApart'
  <2> SUFFICES ASSUME NEW u \in work', NEW v \in work', Of(u) = Of(v) PROVE u = v
      BY DEF WorkApart
  <2> QED BY <1>5, <1>7 DEF PlaceInv, WorkApart
<1>11. Attended'
  <2> SUFFICES ASSUME NEW x \in calls', Asks(x)
               PROVE  \E w \in work' : w.node = x.from /\ Of(w) = Of(x) /\ w.st = StOf(x)
      BY DEF Attended
  <2>1. x \in calls /\ x # c
        BY <1>1, <1>3
  <2>2. PICK w \in work : w.node = x.from /\ Of(w) = Of(x) /\ w.st = StOf(x)
        BY <2>1 DEF PlaceInv, Attended
  <2>3. w \notin W
        BY <1>4, <1>5, <2>1, <2>2 DEF PlaceInv, AsksApart
  <2> QED BY <1>1, <2>2, <2>3
<1>12. Attending'
  <2> SUFFICES ASSUME NEW v \in work', v.st \in {"completing", "failing"}
               PROVE  \E x \in calls' : Asks(x) /\ x.from = v.node /\ Of(x) = Of(v) /\ StOf(x) = v.st
      BY DEF Attending
  <2>1. v \in work /\ v \notin W
        BY <1>7
  <2>2. PICK x \in calls : Asks(x) /\ x.from = v.node /\ Of(x) = Of(v) /\ StOf(x) = v.st
        BY <2>1 DEF PlaceInv, Attending
  <2>3. x # c
        BY <1>6, <2>1, <2>2
  <2> QED BY <1>1, <2>2, <2>3
<1> QED BY <1>8, <1>9, <1>10, <1>11, <1>12 DEF PlaceInv

LEMMA PlaceCrash ==
  ASSUME TypeInv, PlaceInv, NEW n \in Node, Crash(n)
  PROVE  PlaceInv'
<1>1. /\ calls' = {IF c.from = n THEN [c EXCEPT !.waiting = FALSE] ELSE c : c \in calls}
      /\ work' = {w \in work : w.node # n} /\ queue' = queue /\ dlq' = dlq
      BY DEF Crash, redis
<1>2. ASSUME NEW x \in calls'
      PROVE  \E c \in calls :
               /\ x = IF c.from = n THEN [c EXCEPT !.waiting = FALSE] ELSE c
               /\ Of(x) = Of(c) /\ x.pc = c.pc /\ (Holds(x) <=> Holds(c))
               /\ Asks(x) => x = c /\ c.from # n
  <2>1. PICK c \in calls : x = IF c.from = n THEN [c EXCEPT !.waiting = FALSE] ELSE c
        BY <1>1
  <2>2. CASE c.from = n
    <3>1. x.pc = c.pc /\ x.item = c.item /\ x.waiting = FALSE
          BY <2>1, <2>2, CallFields DEF TypeInv, GoodCall
    <3> QED BY <2>1, <3>1 DEF Of, Holds, Asks
  <2>3. CASE c.from # n
        BY <2>1, <2>3
  <2> QED BY <2>2, <2>3
<1>3. (CallOrWork /\ QueueApart /\ QueueAlone /\ BuriedAlone /\ PurgeBuried)'
  <2>1. ASSUME NEW x \in calls'
        PROVE  /\ \E y \in calls : Of(y) = Of(x) /\ (Holds(x) => Holds(y))
               /\ x.pc = "purge" => Of(x) \in dlq'
        BY <1>1, <1>2 DEF PlaceInv, PurgeBuried
  <2> QED BY <1>1, <2>1, Thinner
<1>4. CallsApart'
  <2> SUFFICES ASSUME NEW x \in calls', NEW y \in calls', Holds(x), Holds(y), Of(x) = Of(y)
               PROVE  x = y
      BY DEF CallsApart
  <2> QED BY <1>2 DEF PlaceInv, CallsApart
<1>5. AsksApart'
  <2> SUFFICES ASSUME NEW x \in calls', NEW y \in calls', Asks(x), Asks(y), Of(x) = Of(y)
               PROVE  x = y
      BY DEF AsksApart
  <2> QED BY <1>2 DEF PlaceInv, AsksApart
<1>6. WorkApart'
      BY <1>1 DEF PlaceInv, WorkApart
<1>7. Attended'
  <2> SUFFICES ASSUME NEW x \in calls', Asks(x)
               PROVE  \E w \in work' : w.node = x.from /\ Of(w) = Of(x) /\ w.st = StOf(x)
      BY DEF Attended
  <2>1. x \in calls /\ x.from # n
        BY <1>2
  <2> QED BY <2>1, <1>1 DEF PlaceInv, Attended
<1>8. Attending'
  <2> SUFFICES ASSUME NEW v \in work, v.node # n, v.st \in {"completing", "failing"}
               PROVE  \E x \in calls' : Asks(x) /\ x.from = v.node /\ Of(x) = Of(v) /\ StOf(x) = v.st
      BY <1>1 DEF Attending
  <2>1. PICK x \in calls : Asks(x) /\ x.from = v.node /\ Of(x) = Of(v) /\ StOf(x) = v.st
        BY DEF PlaceInv, Attending
  <2>2. x \in calls'
        BY <1>1, <2>1
  <2> QED BY <2>1, <2>2
<1> QED BY <1>3, <1>4, <1>5, <1>6, <1>7, <1>8 DEF PlaceInv

LEMMA PlaceBrokerRestart ==
  ASSUME TypeInv, PlaceInv, BrokerRestart
  PROVE  PlaceInv'
<1>1. /\ calls' = {} /\ queue' = queue /\ dlq' = dlq
      /\ work' = {IF w.st = "completing" THEN [w EXCEPT !.st = "reporting"] ELSE w :
                    w \in {v \in work : v.st # "failing"}}
      BY DEF BrokerRestart, redis
<1>2. ASSUME NEW v \in work'
      PROVE  \E w \in work :
               /\ v = IF w.st = "completing" THEN [w EXCEPT !.st = "reporting"] ELSE w
               /\ w.st # "failing" /\ Of(v) = Of(w) /\ v.st \notin {"completing", "failing"}
  <2>1. PICK w \in work : /\ w.st # "failing"
                          /\ v = IF w.st = "completing" THEN [w EXCEPT !.st = "reporting"] ELSE w
        BY <1>1
  <2>2. w \in Work
        BY DEF TypeInv, GoodWork
  <2> QED BY <2>1, <2>2 DEF Work, Of
<1>3. (CallOrWork /\ QueueApart /\ QueueAlone /\ BuriedAlone /\ PurgeBuried)'
      BY <1>1, <1>2, Thinner
<1>4. WorkApart'
  <2> SUFFICES ASSUME NEW u \in work', NEW v \in work', Of(u) = Of(v) PROVE u = v
      BY DEF WorkApart
  <2> QED BY <1>2 DEF PlaceInv, WorkApart
<1>5. CallsApart' /\ AsksApart' /\ Attended'
      BY <1>1 DEF CallsApart, AsksApart, Attended
<1>6. Attending'
      BY <1>2 DEF Attending
<1> QED BY <1>3, <1>4, <1>5, <1>6 DEF PlaceInv

LEMMA PlaceReportLost ==
  ASSUME PlaceInv, NEW w \in work, ReportLost(w)
  PROVE  PlaceInv'
<1>1. /\ w.st = "reporting" /\ work' = work \ {w}
      /\ calls' = calls /\ queue' = queue /\ dlq' = dlq
      BY DEF ReportLost, redis
<1>2. (CallOrWork /\ QueueApart /\ QueueAlone /\ BuriedAlone /\ PurgeBuried)'
  <2>1. \A x \in calls' : x.pc = "purge" => Of(x) \in dlq'
        BY <1>1 DEF PlaceInv, PurgeBuried
  <2> QED BY <1>1, <2>1, Thinner
<1>3. CallsApart' /\ AsksApart' /\ WorkApart'
      BY <1>1 DEF PlaceInv, CallsApart, AsksApart, WorkApart
<1>4. Attended'
      BY <1>1 DEF PlaceInv, Attended, StOf
<1>5. Attending'
      BY <1>1 DEF PlaceInv, Attending
<1> QED BY <1>2, <1>3, <1>4, <1>5 DEF PlaceInv

LEMMA PlaceStay ==
  ASSUME PlaceInv, calls' = calls, work' = work, queue' = queue, dlq' = dlq
  PROVE  PlaceInv'
<1>1. CallsApart' /\ WorkApart' /\ CallOrWork' /\ PurgeBuried' /\ AsksApart'
      BY DEF PlaceInv, CallsApart, WorkApart, CallOrWork, PurgeBuried, AsksApart
<1>2. QueueApart' /\ QueueAlone' /\ BuriedAlone'
      BY DEF PlaceInv, QueueApart, QueueAlone, BuriedAlone, NotCalled
<1>3. Attended' /\ Attending'
      BY DEF PlaceInv, Attended, Attending
<1> QED BY <1>1, <1>2, <1>3 DEF PlaceInv

\* What the steps of a handler do, told by the shape of the step.
LEMMA HandlerPlace ==
  ASSUME TypeInv, PlaceInv, NEW c \in calls, HandlerStep(c)
  PROVE  PlaceInv'
<1> DEFINE Quits == /\ calls' = calls \ {c}
                    /\ work' = IF Asks(c)
                               THEN work \ {w \in work : w.node = c.from /\ PieceOf(w.item) = PieceOf(c.item)}
                               ELSE work
           Moves(d) == /\ calls' = (calls \ {c}) \cup {d} /\ work' = work
                       /\ Of(d) = Of(c) /\ d.from = c.from /\ d.waiting = c.waiting
<1>c. /\ c \in Call /\ c.item \in Item /\ c.item.task \in Task /\ c.waiting \in BOOLEAN
      /\ c.pc \in {"push", "requeue"} => c.dest \in Node
      BY CallFields DEF TypeInv, GoodCall, Item
<1>g. ASSUME NEW pc \in SubmitPc \cup CompletePc \cup FailPc, Goto(c, pc), work' = work
      PROVE  \E d : Moves(d) /\ d.pc = pc
  <2>0. PICK d : d = [c EXCEPT !.pc = pc]
        OBVIOUS
  <2>1. d.pc = pc /\ d.from = c.from /\ d.item = c.item /\ d.waiting = c.waiting
        BY <1>c, <2>0, CallTurns
  <2>2. calls' = (calls \ {c}) \cup {d}
        BY <1>g, <2>0 DEF Goto
  <2>3. Moves(d) /\ d.pc = pc
        BY <1>g, <2>1, <2>2 DEF Of
  <2> QED BY <2>3
<1>h. ASSUME NEW pc \in SubmitPc \cup CompletePc \cup FailPc, NEW n \in Node,
             GotoWith(c, pc, n), work' = work
      PROVE  \E d : Moves(d) /\ d.pc = pc
  <2> DEFINE d == [c EXCEPT !.pc = pc, !.dest = n]
  <2>1. d.pc = pc /\ d.from = c.from /\ d.item = c.item /\ d.waiting = c.waiting
        BY <1>c DEF Call
  <2>2. calls' = (calls \ {c}) \cup {d}
        BY <1>h DEF GotoWith
  <2> HIDE DEF d
  <2>3. Moves(d) /\ d.pc = pc
        BY <1>h, <2>1, <2>2 DEF Of
  <2> QED BY <2>3
<1>q. ASSUME Return(c), c.pc \in SubmitPc, work' = work PROVE Quits
      BY <1>q DEF Return, Asks
<1>r. ASSUME Return(c), c.pc \notin SubmitPc, Release(c) PROVE Quits
      BY <1>r, <1>c DEF Return, Release, WorkOf, Asks
<1>m. ASSUME NEW d, Moves(d), queue' = queue, dlq' = dlq,
             \/ c.pc \in SubmitPc /\ d.pc \in SubmitPc
             \/ c.pc \in CompletePc /\ d.pc \in CompletePc
             \/ c.pc = "free" /\ d.pc \in {"requeue", "bury"}
      PROVE  PlaceInv'
  <2>1. /\ Holds(d) => Holds(c)
        /\ d.pc \in SubmitPc <=> c.pc \in SubmitPc
        /\ StOf(d) = StOf(c) /\ d.pc # "purge"
        BY <1>m DEF Holds, StOf, SubmitPc, CompletePc
  <2> QED BY <1>m, <2>1, PlaceMove
<1>1. CASE Check(c)
  <2>1. c.pc = "check" /\ queue' = queue /\ dlq' = dlq /\ work' = work
        BY <1>1 DEF Check, redis, worker
  <2>2. CASE Return(c)
        BY <2>1, <2>2, <1>q, PlaceQuit DEF SubmitPc
  <2>3. CASE \E n \in routable : GotoWith(c, "lock", n)
    <3>1. \E d : Moves(d) /\ d.pc = "lock"
          BY <2>1, <2>3, <1>h DEF TypeInv, TypeOK, SubmitPc
    <3> QED BY <2>1, <3>1, <1>m DEF SubmitPc
  <2> QED BY <1>1, <2>2, <2>3 DEF Check
<1>2. CASE Lock(c)
  <2>1. c.pc = "lock" /\ queue' = queue /\ dlq' = dlq /\ work' = work
        BY <1>2 DEF Lock, worker
  <2>2. CASE Return(c)
        BY <2>1, <2>2, <1>q, PlaceQuit DEF SubmitPc
  <2>3. CASE Goto(c, "save")
    <3>1. \E d : Moves(d) /\ d.pc = "save"
          BY <2>1, <2>3, <1>g DEF SubmitPc
    <3> QED BY <2>1, <3>1, <1>m DEF SubmitPc
  <2> QED BY <1>2, <2>2, <2>3 DEF Lock
<1>3. CASE Save(c)
  <2>1. c.pc = "save" /\ queue' = queue /\ dlq' = dlq /\ work' = work
        BY <1>3 DEF Save, worker
  <2>2. CASE Return(c)
        BY <2>1, <2>2, <1>q, PlaceQuit DEF SubmitPc
  <2>3. CASE Goto(c, "push")
    <3>1. \E d : Moves(d) /\ d.pc = "push"
          BY <2>1, <2>3, <1>g DEF SubmitPc
    <3> QED BY <2>1, <3>1, <1>m DEF SubmitPc
  <2> QED BY <1>3, <2>2, <2>3 DEF Save
<1>4. CASE Enqueue(c)
  <2>1. /\ c.pc = "push" /\ Return(c) /\ dlq' = dlq /\ work' = work
        /\ queue' \in {queue, Push(c.dest, c.item)}
        BY <1>4 DEF Enqueue, worker
  <2>2. Quits /\ Holds(c)
        BY <2>1, <1>q DEF SubmitPc, Holds
  <2>3. CASE queue' = queue
        BY <2>1, <2>2, <2>3, PlaceQuit
  <2>4. CASE queue' = [queue EXCEPT ![c.dest] = Append(queue[c.dest], c.item)]
        BY <2>1, <2>2, <2>4, <1>c, PlaceHand DEF Of
  <2> QED BY <2>1, <2>3, <2>4 DEF Push
<1>5. CASE Seen(c)
  <2>1. c.pc = "seen" /\ queue' = queue /\ dlq' = dlq
        BY <1>5 DEF Seen, redis
  <2>2. CASE Goto(c, "unlock") /\ UNCHANGED work
    <3>1. \E d : Moves(d) /\ d.pc = "unlock"
          BY <2>2, <1>g DEF CompletePc
    <3> QED BY <2>1, <3>1, <1>m DEF CompletePc
  <2>3. CASE Return(c) /\ Release(c)
        BY <2>1, <2>3, <1>r, PlaceQuit DEF SubmitPc
  <2> QED BY <1>5, <2>2, <2>3 DEF Seen
<1>6. CASE Unlock(c)
  <2>1. c.pc = "unlock" /\ queue' = queue /\ dlq' = dlq /\ work' = work /\ Goto(c, "forget")
        BY <1>6 DEF Unlock, worker
  <2>2. \E d : Moves(d) /\ d.pc = "forget"
        BY <2>1, <1>g DEF CompletePc
  <2> QED BY <2>1, <2>2, <1>m DEF CompletePc
<1>7. CASE Forget(c)
  <2>1. /\ c.pc \in {"forget", "purge"} /\ queue' = queue /\ dlq' = dlq
        /\ Return(c) /\ Release(c)
        BY <1>7 DEF Forget
  <2> QED BY <2>1, <1>r, PlaceQuit DEF SubmitPc
<1>8. CASE Free(c)
  <2>1. c.pc = "free" /\ queue' = queue /\ dlq' = dlq /\ work' = work
        BY <1>8 DEF Free, worker
  <2>2. CASE \E n \in routable : GotoWith(c, "requeue", n)
    <3>1. \E d : Moves(d) /\ d.pc = "requeue"
          BY <2>1, <2>2, <1>h DEF TypeInv, TypeOK, FailPc
    <3> QED BY <2>1, <3>1, <1>m
  <2>3. CASE Goto(c, "bury")
    <3>1. \E d : Moves(d) /\ d.pc = "bury"
          BY <2>1, <2>3, <1>g DEF FailPc
    <3> QED BY <2>1, <3>1, <1>m
  <2> QED BY <1>8, <2>2, <2>3 DEF Free
<1>9. CASE Requeue(c)
  <2> DEFINE item == [c.item EXCEPT !.attempt = c.item.attempt + 1]
  <2>1. /\ c.pc = "requeue" /\ Return(c) /\ Release(c) /\ dlq' = dlq
        /\ queue' \in {queue, Push(c.dest, item)}
        BY <1>9 DEF Requeue
  <2>2. Quits /\ Holds(c)
        BY <2>1, <1>r DEF SubmitPc, Holds
  <2>3. c.item.attempt = 1
        BY DEF TypeInv, GoodCall
  <2>4. item \in Item /\ item.task = c.item.task /\ item.sub = c.item.sub
    <3>1. item = [c.item EXCEPT !.attempt = 2]
          BY <2>3
    <3> QED BY <3>1, <1>c DEF Item
  <2> HIDE DEF item
  <2>4a. PieceOf(item) = Of(c)
         BY <2>4 DEF Of, PieceOf
  <2>5. CASE queue' = queue
        BY <2>1, <2>2, <2>5, PlaceQuit
  <2>6. CASE queue' = [queue EXCEPT ![c.dest] = Append(queue[c.dest], item)]
        BY <2>1, <2>2, <2>4, <2>4a, <2>6, <1>c, PlaceHand
  <2> QED BY <2>1, <2>5, <2>6 DEF Push
<1>10. CASE Bury(c)
  <2>1. c.pc = "bury" /\ queue' = queue /\ dlq' \in {dlq, dlq \cup {Of(c)}} /\ Holds(c)
        BY <1>10 DEF Bury, Of, Holds
  <2>2. CASE Goto(c, "purge") /\ UNCHANGED work /\ dlq' = dlq \cup {Of(c)}
    <3>1. PICK d : Moves(d) /\ d.pc = "purge"
          BY <2>2, <1>g DEF FailPc
    <3>2. ~Holds(d) /\ d.pc \notin SubmitPc /\ c.pc \notin SubmitPc /\ StOf(d) = StOf(c)
          BY <2>1, <3>1 DEF Holds, StOf, SubmitPc, CompletePc
    <3> QED BY <2>1, <2>2, <3>1, <3>2, PlaceMove
  <2>3. CASE Return(c) /\ Release(c)
    <3>1. Quits
          BY <2>1, <2>3, <1>r DEF SubmitPc
    <3> QED BY <2>1, <3>1, PlaceQuit
  <2> QED BY <1>10, <2>2, <2>3 DEF Bury, Of, Effective
<1> QED BY <1>1, <1>2, <1>3, <1>4, <1>5, <1>6, <1>7, <1>8, <1>9, <1>10 DEF HandlerStep

LEMMA PlaceInit == Init => PlaceInv
<1> SUFFICES ASSUME Init PROVE PlaceInv
    OBVIOUS
<1>1. \A n \in Node : queue[n] = << >> /\ Len(queue[n]) = 0
      BY EmptySeq DEF Init
<1>2. calls = {} /\ work = {} /\ dlq = {}
      BY DEF Init
<1>3. QueueApart /\ QueueAlone
      BY <1>1 DEF QueueApart, QueueAlone
<1> QED BY <1>2, <1>3 DEF PlaceInv, CallsApart, WorkApart, CallOrWork, BuriedAlone,
           PurgeBuried, Attended, Attending, AsksApart

LEMMA PlaceNext == TypeInv /\ PlaceInv /\ [Next]_vars => PlaceInv'
<1> SUFFICES ASSUME TypeInv, PlaceInv, [Next]_vars PROVE PlaceInv'
    OBVIOUS
<1>s. \A t \in Task : t \in Task /\ subs[t] \in Nat
      BY DEF TypeInv, TypeOK
<1>a. ASSUME NEW w \in work, w.st \in {"running", "reporting"},
             NEW pc, NEW st,
             (pc = "seen" /\ st = "completing") \/ (pc = "free" /\ st = "failing"),
             Turn(w, st), Ask(w, pc), queue' = queue, dlq' = dlq
      PROVE  PlaceInv'
  <2> DEFINE v == [w EXCEPT !.st = st]
             c == [pc |-> pc, from |-> w.node, dest |-> "none", item |-> w.item, waiting |-> TRUE]
  <2>1. v.node = w.node /\ v.item = w.item /\ v.st = st
    <3>1. w \in Work
          BY DEF TypeInv, GoodWork
    <3> QED BY <3>1 DEF Work
  <2>2. c.from = w.node /\ c.item = w.item /\ c.pc = pc /\ c.waiting
        OBVIOUS
  <2>3. work' = (work \ {w}) \cup {v} /\ calls' = calls \cup {c}
        BY <1>a DEF Turn, Ask
  <2> HIDE DEF v, c
  <2>4. /\ Of(v) = Of(w) /\ Of(c) = Of(w) /\ Asks(c) /\ StOf(c) = v.st /\ c.pc # "purge"
        /\ Holds(c) => v.st = "failing"
        /\ v.st \in {"completing", "failing"}
        BY <1>a, <2>1, <2>2 DEF Of, Asks, StOf, Holds, SubmitPc, CompletePc
  <2> QED BY <1>a, <2>1, <2>2, <2>3, <2>4, PlaceAsk
<1>1. ASSUME NEW t \in Task, Submit(t) PROVE PlaceInv'
  <2>1. PICK c : /\ c.pc = "check" /\ Of(c) = <<t, subs[t] + 1>>
                 /\ calls' = calls \cup {c} /\ work' = work /\ queue' = queue /\ dlq' = dlq
        BY <1>1 DEF Submit, redis, worker, Of, PieceOf
  <2>2. Of(c)[2] = subs[Of(c)[1]] + 1
        BY <2>1
  <2> QED BY <2>1, <2>2, PlaceSubmit
<1>2. ASSUME NEW n \in Node, Claim(n) PROVE PlaceInv'
  <2>1. queue[n] # << >> /\ queue' = [queue EXCEPT ![n] = Tail(queue[n])]
        /\ calls' = calls /\ dlq' = dlq
        BY <1>2 DEF Claim
  <2>2. PICK w : /\ w = [node |-> n, item |-> [Head(queue[n]) EXCEPT !.attempt = 1], st |-> "running"]
                 /\ work' = work \cup {w}
        BY <1>2 DEF Claim
  <2>3. Head(queue[n]) \in Item
        BY <2>1, PopFacts DEF TypeInv, TypeOK
  <2>4. Of(w) = PieceOf(Head(queue[n])) /\ w.st = "running"
        BY <2>2, <2>3 DEF Of, PieceOf, Item
  <2> QED BY <2>1, <2>2, <2>4, PlaceTake
<1>3. ASSUME NEW n \in Node, ClaimLost(n) PROVE PlaceInv'
  <2>1. queue[n] # << >> /\ queue' = [queue EXCEPT ![n] = Tail(queue[n])]
        /\ calls' = calls /\ dlq' = dlq /\ work' = work
        BY <1>3 DEF ClaimLost, worker
  <2> QED BY <2>1, PlaceTake
<1>4. ASSUME NEW n \in Node, Restart(n) PROVE PlaceInv'
      BY <1>4, PlaceStay DEF Restart, redis
<1>5. ASSUME NEW w \in work, Complete(w) PROVE PlaceInv'
      BY <1>5, <1>a DEF Complete, redis
<1>6. ASSUME NEW w \in work, Fail(w) PROVE PlaceInv'
      BY <1>6, <1>a DEF Fail, redis
<1>7. ASSUME NEW w \in work, Report(w) PROVE PlaceInv'
      BY <1>7, <1>a DEF Report, redis
<1>8. ASSUME NEW c \in calls, Drop(c) PROVE PlaceInv'
      BY <1>8, PlaceQuit DEF Drop, Return, Asks, redis, worker
<1>9. CASE RouteChange
      BY <1>9, PlaceStay DEF RouteChange, redis, worker
<1>10. CASE LockExpiry
      BY <1>10, PlaceStay DEF LockExpiry, worker
<1>11. CASE SnapshotExpiry
      BY <1>11, PlaceStay DEF SnapshotExpiry, worker
<1>12. CASE UNCHANGED vars
      BY <1>12, PlaceStay DEF vars, redis, worker
<1> QED BY <1>1, <1>2, <1>3, <1>4, <1>5, <1>6, <1>7, <1>8, <1>9, <1>10, <1>11, <1>12,
           HandlerPlace, PlaceCrash, PlaceReportLost, PlaceTimeout, PlaceBrokerRestart
        DEF Next, WorkerStep

LEMMA PlaceCorrect == Spec => [](TypeInv /\ PlaceInv)
<1>1. Init => TypeInv /\ PlaceInv
      BY TypeInit, PlaceInit
<1>2. TypeInv /\ PlaceInv /\ [Next]_vars => (TypeInv /\ PlaceInv)'
      BY TypeNext, PlaceNext
<1> QED BY <1>1, <1>2, PTL DEF Spec

LEMMA AtMostOne ==
  ASSUME NEW S, \A x, y \in S : x = y
  PROVE  /\ Cardinality(S) \in {0, 1}
         /\ S = {} => Cardinality(S) = 0
<1>1. CASE S = {}
      BY <1>1, FS_EmptySet
<1>2. CASE S # {}
  <2>1. PICK x \in S : TRUE
        BY <1>2
  <2>2. S = {x}
        BY <2>1
  <2>3. Cardinality({x}) = 1
        BY FS_Singleton
  <2> QED BY <1>2, <2>2, <2>3
<1> QED BY <1>1, <1>2

\* Whatever is pushed again, given up, answered late or half done: a piece of work,
\* completed or not, is in at most one list, execution or failure report, and in none once
\* it is buried (api.rs:258-315, worker.py:241-275).
THEOREM PlacesCorrect == Spec => []RetriesDoNotMultiply
<1>1. TypeInv /\ PlaceInv => RetriesDoNotMultiply
  <2> SUFFICES ASSUME TypeInv, PlaceInv, NEW p \in Piece
               PROVE  Places(p) <= 1 /\ (p \in dlq => Places(p) = 0)
      BY DEF RetriesDoNotMultiply
  <2>q. \A n \in Node : DOMAIN queue[n] = 1..Len(queue[n])
        BY LenProperties DEF TypeInv, TypeOK
  <2>1. \A s \in InQueue(p) : /\ s \in Slots
                              /\ \E n \in Node : \E i \in 1..Len(queue[n]) :
                                   s = <<n, i>> /\ PieceOf(queue[n][i]) = p
    <3> SUFFICES ASSUME NEW s \in Slots, PieceOf(queue[s[1]][s[2]]) = p
                 PROVE  \E n \in Node : \E i \in 1..Len(queue[n]) :
                          s = <<n, i>> /\ PieceOf(queue[n][i]) = p
        BY DEF InQueue
    <3>1. PICK n \in Node : s \in {n} \X DOMAIN queue[n]
          BY DEF Slots
    <3>2. s = <<n, s[2]>> /\ s[1] = n /\ s[2] \in 1..Len(queue[n])
          BY <3>1, <2>q
    <3> QED BY <3>2
  <2>2. \A r, s \in InQueue(p) : r = s
        BY <2>1 DEF PlaceInv, QueueApart
  <2>3. \A v, w \in Executions(p) : v = w
        BY DEF PlaceInv, WorkApart, Executions, Of
  <2>4. \A c, d \in InFailure(p) : c = d
        BY DEF PlaceInv, CallsApart, InFailure, Of, Holds
  <2>5. /\ Cardinality(InQueue(p)) \in {0, 1} /\ Cardinality(Executions(p)) \in {0, 1}
        /\ Cardinality(InFailure(p)) \in {0, 1}
        /\ InQueue(p) = {} => Cardinality(InQueue(p)) = 0
        /\ Executions(p) = {} => Cardinality(Executions(p)) = 0
        /\ InFailure(p) = {} => Cardinality(InFailure(p)) = 0
        BY <2>2, <2>3, <2>4, AtMostOne
  <2>6. InQueue(p) # {} => Executions(p) = {} /\ InFailure(p) = {} /\ p \notin dlq
    <3> SUFFICES ASSUME NEW s \in InQueue(p)
                 PROVE  Executions(p) = {} /\ InFailure(p) = {} /\ p \notin dlq
        OBVIOUS
    <3>1. (\A c \in calls : Holds(c) => Of(c) # p) /\ (\A w \in work : Of(w) # p) /\ p \notin dlq
          BY <2>1 DEF PlaceInv, QueueAlone, NotCalled
    <3> QED BY <3>1 DEF Executions, InFailure, Of, Holds
  <2>7. InFailure(p) # {} => Executions(p) = {} /\ p \notin dlq
    <3> SUFFICES ASSUME NEW c \in InFailure(p) PROVE Executions(p) = {} /\ p \notin dlq
        OBVIOUS
    <3>1. c \in calls /\ Holds(c) /\ Of(c) = p
          BY DEF InFailure, Of, Holds
    <3> QED BY <3>1 DEF PlaceInv, CallOrWork, BuriedAlone, NotCalled, Executions, Of
  <2>8. p \in dlq => Executions(p) = {}
        BY DEF PlaceInv, BuriedAlone, Executions, Of
  <2>9. CASE InQueue(p) # {}
        BY <2>5, <2>6, <2>9 DEF Places
  <2>10. CASE InQueue(p) = {} /\ InFailure(p) # {}
        BY <2>5, <2>7, <2>10 DEF Places
  <2>11. CASE InQueue(p) = {} /\ InFailure(p) = {}
        BY <2>5, <2>8, <2>11 DEF Places
  <2> QED BY <2>9, <2>10, <2>11
<1> QED BY <1>1, PlaceCorrect, PTL

-----------------------------------------------------------------------------
\* The calls about to take the lock and the snapshot of a completed task.
Finishing(c) == c.pc \in {"unlock", "forget"}

\* A completion of theirs has reached the broker.
ForgetInv == \A c \in calls : Finishing(c) => Of(c) \in done

LEMMA ForgetFrame ==
  ASSUME ForgetInv, done \subseteq done',
         \A d \in calls' : Finishing(d) => \/ \E c \in calls : Finishing(c) /\ Of(c) = Of(d)
                                      \/ Of(d) \in done'
  PROVE  ForgetInv'
BY DEF ForgetInv, Finishing, Of

LEMMA HandlerForget ==
  ASSUME TypeInv, ForgetInv, NEW c \in calls, HandlerStep(c)
  PROVE  ForgetInv'
<1>c. c \in Call
      BY DEF TypeInv, GoodCall
<1>g. ASSUME NEW pc \in SubmitPc \cup CompletePc \cup FailPc, Goto(c, pc)
      PROVE  \A d \in calls' : d \in calls \/ (d.pc = pc /\ Of(d) = Of(c))
  <2>1. PICK d : d = [c EXCEPT !.pc = pc]
        OBVIOUS
  <2>2. d.pc = pc /\ d.item = c.item
        BY <1>c, <2>1, CallTurns
  <2> QED BY <1>g, <2>1, <2>2 DEF Goto, Of
<1>n. ASSUME NEW pc \in SubmitPc \cup FailPc, NEW n, GotoWith(c, pc, n)
      PROVE  \A d \in calls' : d \in calls \/ (d.pc = pc /\ Of(d) = Of(c))
  <2>1. PICK d : d = [c EXCEPT !.pc = pc, !.dest = n]
        OBVIOUS
  <2>2. d.pc = pc /\ d.item = c.item
        BY <1>c, <2>1 DEF Call
  <2> QED BY <1>n, <2>1, <2>2 DEF GotoWith, Of
<1>r. Return(c) => \A d \in calls' : d \in calls
      BY DEF Return
<1>1. ASSUME done' = done,
             \/ Return(c)
             \/ \E pc \in {"save", "push", "bury", "purge"} : Goto(c, pc)
             \/ \E pc \in {"lock", "requeue"}, n \in routable : GotoWith(c, pc, n)
      PROVE  ForgetInv'
  <2>1. \A d \in calls' : d \in calls \/ ~Finishing(d)
    <3>1. CASE Return(c)
          BY <3>1, <1>r
    <3>2. ASSUME NEW pc \in {"save", "push", "bury", "purge"}, Goto(c, pc)
          PROVE  \A d \in calls' : d \in calls \/ ~Finishing(d)
          BY <3>2, <1>g DEF Finishing, SubmitPc, FailPc
    <3>3. ASSUME NEW pc \in {"lock", "requeue"}, NEW n \in routable, GotoWith(c, pc, n)
          PROVE  \A d \in calls' : d \in calls \/ ~Finishing(d)
          BY <3>3, <1>n DEF Finishing, SubmitPc, FailPc
    <3> QED BY <3>1, <3>2, <3>3, <1>1
  <2> QED BY <1>1, <2>1, ForgetFrame
<1>2. CASE Check(c)
      BY <1>2, <1>1 DEF Check, ghosts
<1>3. CASE Lock(c)
      BY <1>3, <1>1 DEF Lock, ghosts
<1>4. CASE Save(c)
      BY <1>4, <1>1 DEF Save, ghosts
<1>5. CASE Enqueue(c)
      BY <1>5, <1>1 DEF Enqueue
<1>6. CASE Seen(c)
  <2>1. done' = done \cup {Of(c)} /\ (Goto(c, "unlock") \/ Return(c))
        BY <1>6 DEF Seen, Of
  <2>2. \A d \in calls' : d \in calls \/ Of(d) \in done'
        BY <2>1, <1>g, <1>r DEF CompletePc
  <2> QED BY <2>1, <2>2, ForgetFrame
<1>7. CASE Unlock(c)
  <2>1. done' = done /\ Goto(c, "forget") /\ Finishing(c)
        BY <1>7 DEF Unlock, ghosts, Finishing
  <2>2. \A d \in calls' : d \in calls \/ Of(d) = Of(c)
        BY <2>1, <1>g DEF CompletePc
  <2> QED BY <2>1, <2>2, ForgetFrame
<1>8. CASE Forget(c)
      BY <1>8, <1>1 DEF Forget, ghosts
<1>9. CASE Free(c)
      BY <1>9, <1>1 DEF Free, ghosts
<1>10. CASE Requeue(c)
      BY <1>10, <1>1 DEF Requeue, ghosts
<1>11. CASE Bury(c)
      BY <1>11, <1>1 DEF Bury, ghosts
<1> QED BY <1>2, <1>3, <1>4, <1>5, <1>6, <1>7, <1>8, <1>9, <1>10, <1>11 DEF HandlerStep

LEMMA ForgetNext == TypeInv /\ ForgetInv /\ [Next]_vars => ForgetInv'
<1> SUFFICES ASSUME TypeInv, ForgetInv, [Next]_vars PROVE ForgetInv'
    OBVIOUS
<1>c. \A c \in calls : c \in Call
      BY DEF TypeInv, GoodCall
<1>w. ASSUME done' = done, NEW d, ~Finishing(d), calls' = calls \cup {d}
      PROVE  ForgetInv'
      BY <1>w, ForgetFrame
<1>s. ASSUME done' = done, calls' \subseteq calls
      PROVE  ForgetInv'
      BY <1>s, ForgetFrame
<1>q. ASSUME NEW c \in calls
      PROVE  \A d : d = [c EXCEPT !.waiting = FALSE] => d.pc = c.pc /\ Of(d) = Of(c)
      BY <1>c DEF Call, Of
<1>1. ASSUME NEW t \in Task, Submit(t) PROVE ForgetInv'
  <2>1. PICK d : /\ d = [pc |-> "check", from |-> "client", dest |-> "none", waiting |-> TRUE,
                         item |-> [task |-> t, sub |-> subs[t] + 1, attempt |-> 1]]
                 /\ calls' = calls \cup {d} /\ done' = done
        BY <1>1 DEF Submit
  <2>2. d.pc = "check"
        BY <2>1
  <2>3. ~Finishing(d)
        BY <2>2 DEF Finishing
  <2> QED BY <2>1, <2>3, <1>w
<1>2. ASSUME NEW w \in work, WorkerStep(w) PROVE ForgetInv'
  <2>1. done' = done /\ (Ask(w, "seen") \/ Ask(w, "free"))
        BY <1>2 DEF WorkerStep, Complete, Fail, Report, ghosts
  <2>2. ASSUME NEW pc \in {"seen", "free"}, Ask(w, pc) PROVE ForgetInv'
    <3>1. PICK d : /\ d = [pc |-> pc, from |-> w.node, dest |-> "none",
                           item |-> w.item, waiting |-> TRUE]
                   /\ calls' = calls \cup {d}
          BY <2>2 DEF Ask
    <3>2. d.pc \in {"seen", "free"}
          BY <3>1, <2>2
    <3>3. ~Finishing(d)
          BY <3>2 DEF Finishing
    <3>4. done' = done /\ calls' = calls \cup {d}
          BY <2>1, <3>1
    <3> QED BY <3>3, <3>4, <1>w
  <2> QED BY <2>1, <2>2
<1>3. ASSUME NEW c \in calls, Timeout(c) PROVE ForgetInv'
  <2>1. PICK e : /\ e = [c EXCEPT !.waiting = FALSE]
                 /\ calls' = (calls \ {c}) \cup {e} /\ done' = done
        BY <1>3 DEF Timeout, ghosts
  <2> QED BY <2>1, <1>q, ForgetFrame DEF Finishing
<1>4. ASSUME NEW n \in Node, Crash(n) PROVE ForgetInv'
  <2>1. /\ calls' = {IF c.from = n THEN [c EXCEPT !.waiting = FALSE] ELSE c : c \in calls}
        /\ done' = done
        BY <1>4 DEF Crash, ghosts
  <2>2. ASSUME NEW d \in calls', Finishing(d)
        PROVE  \E c \in calls : Finishing(c) /\ Of(c) = Of(d)
    <3>1. PICK c \in calls : d = [c EXCEPT !.waiting = FALSE] \/ d = c
          BY <2>1
    <3> QED BY <2>2, <3>1, <1>q DEF Finishing
  <2> QED BY <2>1, <2>2, ForgetFrame
<1>5. ASSUME NEW c \in calls, Drop(c) PROVE ForgetInv'
      BY <1>5, <1>s DEF Drop, Return, ghosts
<1>6. CASE BrokerRestart
      BY <1>6, <1>s DEF BrokerRestart, ghosts
<1>7. ASSUME NEW n \in Node, Claim(n) \/ ClaimLost(n) \/ Restart(n) PROVE ForgetInv'
      BY <1>7, <1>s DEF Claim, ClaimLost, Restart, ghosts
<1>8. ASSUME NEW w \in work, ReportLost(w) PROVE ForgetInv'
      BY <1>8, <1>s DEF ReportLost, ghosts
<1>9. CASE RouteChange \/ LockExpiry \/ SnapshotExpiry
      BY <1>9, <1>s DEF RouteChange, LockExpiry, SnapshotExpiry, ghosts
<1>10. CASE UNCHANGED vars
      BY <1>10, <1>s DEF vars, ghosts
<1> QED BY <1>1, <1>2, <1>3, <1>4, <1>5, <1>6, <1>7, <1>8, <1>9, <1>10, HandlerForget DEF Next

\* Only two steps take a snapshot, its expiry and the last one of a completion or a burial.
LEMMA SnapshotTaken ==
  ASSUME [Next]_vars, NEW t \in snap, t \notin snap', ~SnapshotExpiry
  PROVE  \E c \in calls : /\ c.pc \in {"forget", "purge"} /\ c.item.task = t
                          /\ done' = done /\ dlq' = dlq
<1>1. ASSUME NEW c \in calls, HandlerStep(c)
      PROVE  /\ c.pc \in {"forget", "purge"} /\ c.item.task = t
             /\ done' = done /\ dlq' = dlq
  <2>1. CASE Forget(c)
        BY <2>1 DEF Forget, ghosts, Effective
  <2>2. CASE Save(c)
        BY <2>2 DEF Save
  <2>3. CASE Check(c) \/ Lock(c) \/ Enqueue(c) \/ Seen(c) \/ Unlock(c)
        BY <2>3 DEF Check, Lock, Enqueue, Seen, Unlock, redis
  <2>4. CASE Free(c) \/ Requeue(c) \/ Bury(c)
        BY <2>4 DEF Free, Requeue, Bury
  <2> QED BY <1>1, <2>1, <2>2, <2>3, <2>4 DEF HandlerStep
<1>2. ASSUME NEW u \in Task, Submit(u) PROVE FALSE
      BY <1>2 DEF Submit, redis
<1>3. ASSUME NEW n \in Node, Claim(n) \/ ClaimLost(n) \/ Crash(n) \/ Restart(n) PROVE FALSE
      BY <1>3 DEF Claim, ClaimLost, Crash, Restart, redis
<1>4. ASSUME NEW w \in work, WorkerStep(w) \/ ReportLost(w) PROVE FALSE
      BY <1>4 DEF WorkerStep, Complete, Fail, Report, ReportLost, redis
<1>5. ASSUME NEW c \in calls, Timeout(c) \/ Drop(c) PROVE FALSE
      BY <1>5 DEF Timeout, Drop, redis
<1>6. CASE RouteChange \/ LockExpiry \/ BrokerRestart
      BY <1>6 DEF RouteChange, LockExpiry, BrokerRestart, redis
<1>7. CASE UNCHANGED vars
      BY <1>7 DEF vars, redis
<1> QED BY <1>1, <1>2, <1>3, <1>4, <1>5, <1>6, <1>7 DEF Next

\* However many commands fail, calls time out and processes die: the snapshot of a task
\* that was submitted once goes when it expires or the task was completed or buried, so
\* that a task a fault has lost is still known (api.rs:209-245, 298-304).
THEOREM LossCovered == Spec => LossIsRemembered
<1>1. Init => ForgetInv
      BY DEF Init, ForgetInv
<1>2. ASSUME TypeInv, PlaceInv, ForgetInv, [Next]_vars, NEW t \in snap, subs[t] = 1
      PROVE  t \in snap' \/ <<t, 1>> \in done' \cup dlq' \/ SnapshotExpiry
  <2> SUFFICES ASSUME t \notin snap', ~SnapshotExpiry
               PROVE  <<t, 1>> \in done' \cup dlq'
      OBVIOUS
  <2>1. PICK c \in calls : /\ c.pc \in {"forget", "purge"} /\ c.item.task = t
                           /\ done' = done /\ dlq' = dlq
        BY <1>2, SnapshotTaken
  <2>2. c.item \in Item /\ Numbered(c.item)
        BY <1>2, CallFields DEF TypeInv, GoodCall
  <2>3. c.item.sub \in Nat \ {0} /\ c.item.sub <= 1
        BY <1>2, <2>1, <2>2 DEF Item, Numbered
  <2>4. Of(c) = <<t, 1>>
        BY <2>1, <2>3 DEF Of, PieceOf
  <2>5. Of(c) \in done \cup dlq
        BY <1>2, <2>1 DEF ForgetInv, Finishing, PlaceInv, PurgeBuried
  <2> QED BY <2>1, <2>4, <2>5
<1>3. TypeInv /\ PlaceInv /\ ForgetInv /\ [Next]_vars => [\A t \in snap :
        subs[t] = 1 =>
          t \in snap' \/ <<t, 1>> \in done' \cup dlq' \/ SnapshotExpiry]_vars
      BY <1>2
<1> QED BY <1>1, <1>3, ForgetNext, PlaceCorrect, PTL DEF Spec, LossIsRemembered

=============================================================================
