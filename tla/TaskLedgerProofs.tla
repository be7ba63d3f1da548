-------------------------- MODULE TaskLedgerProofs --------------------------
(***************************************************************************)
(* What no fault has touched: theorems about TaskBroker's other tasks, and *)
(* that the broker implements TaskLedger. Such a task is looked at alone:  *)
(* a step of the system is one of the steps below for at most one task,    *)
(* and for every other task that stays untouched it changes nothing.       *)
(***************************************************************************)
EXTENDS TaskBrokerProofs

\* What there is of a task.
CallsOf(t) == {c \in calls : c.item.task = t}
WorkOn(t) == {w \in work : w.item.task = t}
Entry(p) == \E n \in Node : \E i \in 1..Len(queue[n]) : PieceOf(queue[n][i]) = p
QueuedOf(t) == {p \in Piece : p[1] = t /\ Entry(p)}
DoneOf(t) == {p \in done : p[1] = t}
BuriedOf(t) == {p \in dlq : p[1] = t}
AcceptedOf(t) == {p \in accepted : p[1] = t}

SameCalls(t) == CallsOf(t)' = CallsOf(t)
SameWork(t) == WorkOn(t)' = WorkOn(t)
SameQueue(t) == QueuedOf(t)' = QueuedOf(t)
SameSnap(t) == t \in snap' <=> t \in snap
NoLock(t) == t \in lock' => t \in lock
SameAccepted(t) == AcceptedOf(t)' = AcceptedOf(t)
SameEnd(t) == DoneOf(t)' = DoneOf(t) /\ BuriedOf(t)' = BuriedOf(t)

Idle(t) ==
  /\ SameCalls(t) /\ SameWork(t) /\ SameQueue(t) /\ SameSnap(t) /\ NoLock(t)
  /\ SameAccepted(t) /\ SameEnd(t)

\* A call goes on as d, or ends and its worker is done with the task.
Turns(t, c, d) ==
  /\ c \in CallsOf(t)
  /\ CallsOf(t)' = (CallsOf(t) \ {c}) \cup {d}
  /\ d.item = c.item /\ d.waiting = c.waiting

Ends(t, c) ==
  /\ c \in CallsOf(t)
  /\ CallsOf(t)' = CallsOf(t) \ {c}
  /\ WorkOn(t)' = {w \in WorkOn(t) : Of(w) # Of(c)}

\* The steps of a task that no fault touches.
Entered(t, c) ==
  /\ CallsOf(t)' = CallsOf(t) \cup {c} /\ c.pc = "check" /\ c.waiting
  /\ Overlap \/ \A x \in CallsOf(t) : x.pc \in SubmitPc => ~x.waiting
  /\ Of(c) \notin DoneOf(t)
  /\ SameWork(t) /\ SameQueue(t) /\ SameSnap(t) /\ NoLock(t) /\ SameAccepted(t) /\ SameEnd(t)

Refused(t, c) ==
  /\ c \in CallsOf(t) /\ c.pc \in {"check", "lock"} /\ CallsOf(t)' = CallsOf(t) \ {c}
  /\ SameWork(t) /\ SameQueue(t) /\ SameSnap(t) /\ NoLock(t) /\ SameAccepted(t) /\ SameEnd(t)

Checked(t, c, d) ==
  /\ Turns(t, c, d) /\ c.pc = "check" /\ d.pc = "lock" /\ t \notin snap
  /\ SameWork(t) /\ SameQueue(t) /\ SameSnap(t) /\ NoLock(t) /\ SameAccepted(t) /\ SameEnd(t)

Locked(t, c, d) ==
  /\ Turns(t, c, d) /\ c.pc = "lock" /\ d.pc = "save" /\ t \notin lock
  /\ SameWork(t) /\ SameQueue(t) /\ SameSnap(t) /\ SameAccepted(t) /\ SameEnd(t)

Saved(t, c, d) ==
  /\ Turns(t, c, d) /\ c.pc = "save" /\ d.pc = "push" /\ t \in snap'
  /\ SameWork(t) /\ SameQueue(t) /\ NoLock(t) /\ SameAccepted(t) /\ SameEnd(t)

Pushed(t, c) ==
  /\ c \in CallsOf(t) /\ c.pc = "push" /\ CallsOf(t)' = CallsOf(t) \ {c}
  /\ QueuedOf(t)' = QueuedOf(t) \cup {Of(c)}
  /\ AcceptedOf(t)' \subseteq AcceptedOf(t) \cup {Of(c)}
  /\ SameWork(t) /\ SameSnap(t) /\ NoLock(t) /\ SameEnd(t)

Claimed(t, w) ==
  /\ Of(w) \in QueuedOf(t) /\ w.st = "running"
  /\ QueuedOf(t)' = QueuedOf(t) \ {Of(w)}
  /\ WorkOn(t)' = WorkOn(t) \cup {w}
  /\ SameCalls(t) /\ SameSnap(t) /\ NoLock(t) /\ SameAccepted(t) /\ SameEnd(t)

Asked(t, w, v, c) ==
  /\ w \in WorkOn(t) /\ w.st = "running" /\ v.item = w.item /\ c.item = w.item /\ c.waiting
  /\ \/ v.st = "completing" /\ c.pc = "seen"
     \/ v.st = "failing" /\ c.pc = "free"
  /\ WorkOn(t)' = (WorkOn(t) \ {w}) \cup {v}
  /\ CallsOf(t)' = CallsOf(t) \cup {c}
  /\ SameQueue(t) /\ SameSnap(t) /\ NoLock(t) /\ SameAccepted(t) /\ SameEnd(t)

Found(t, c, d) ==
  /\ Turns(t, c, d) /\ c.pc = "seen" /\ d.pc = "unlock" /\ t \in snap
  /\ DoneOf(t)' = DoneOf(t) \cup {Of(c)} /\ BuriedOf(t)' = BuriedOf(t)
  /\ SameWork(t) /\ SameQueue(t) /\ SameSnap(t) /\ NoLock(t) /\ SameAccepted(t)

Missed(t, c) ==
  /\ Ends(t, c) /\ c.pc = "seen" /\ t \notin snap
  /\ DoneOf(t)' = DoneOf(t) \cup {Of(c)} /\ BuriedOf(t)' = BuriedOf(t)
  /\ SameQueue(t) /\ SameSnap(t) /\ NoLock(t) /\ SameAccepted(t)

Unlocked(t, c, d) ==
  /\ Turns(t, c, d) /\ c.pc = "unlock" /\ d.pc = "forget" /\ t \notin lock'
  /\ SameWork(t) /\ SameQueue(t) /\ SameSnap(t) /\ SameAccepted(t) /\ SameEnd(t)

Forgot(t, c) ==
  /\ Ends(t, c) /\ c.pc \in {"forget", "purge"} /\ t \notin snap'
  /\ SameQueue(t) /\ NoLock(t) /\ SameAccepted(t) /\ SameEnd(t)

Freed(t, c, d) ==
  /\ Turns(t, c, d) /\ c.pc = "free" /\ d.pc \in {"requeue", "bury"} /\ t \notin lock'
  /\ SameWork(t) /\ SameQueue(t) /\ SameSnap(t) /\ SameAccepted(t) /\ SameEnd(t)

Requeued(t, c) ==
  /\ Ends(t, c) /\ c.pc = "requeue"
  /\ QueuedOf(t)' = QueuedOf(t) \cup {Of(c)}
  /\ SameSnap(t) /\ NoLock(t) /\ SameAccepted(t) /\ SameEnd(t)

Interred(t, c, d) ==
  /\ Turns(t, c, d) /\ c.pc = "bury" /\ d.pc = "purge"
  /\ BuriedOf(t)' = BuriedOf(t) \cup {Of(c)} /\ DoneOf(t)' = DoneOf(t)
  /\ SameWork(t) /\ SameQueue(t) /\ SameSnap(t) /\ NoLock(t) /\ SameAccepted(t)

CallStep(t, c) ==
  \/ Refused(t, c) \/ Pushed(t, c) \/ Missed(t, c) \/ Forgot(t, c) \/ Requeued(t, c)
  \/ \E d : \/ Checked(t, c, d) \/ Locked(t, c, d) \/ Saved(t, c, d) \/ Found(t, c, d)
            \/ Unlocked(t, c, d) \/ Freed(t, c, d) \/ Interred(t, c, d)

TaskStep(t) ==
  \/ \E c : Entered(t, c) \/ CallStep(t, c)
  \/ \E w : Claimed(t, w)
  \/ \E w, v, c : Asked(t, w, v, c)

-----------------------------------------------------------------------------
\* Of a task no fault has touched: everyone waits for their calls, what was completed
\* is on its way out, and what was accepted has not been lost.
Calm(t) ==
  /\ \A c \in CallsOf(t) : c.waiting
  /\ \A w \in WorkOn(t) : w.st # "reporting"
  /\ \A c \in CallsOf(t) : c.pc \in {"unlock", "forget"} => Of(c) \in DoneOf(t)
  /\ \A p \in DoneOf(t) :
       /\ p \notin QueuedOf(t)
       /\ \A c \in CallsOf(t) : Of(c) = p => c.pc \in {"unlock", "forget"}
       /\ \A w \in WorkOn(t) : Of(w) = p => w.st = "completing"
  /\ \A p \in AcceptedOf(t) :
       \/ p \in DoneOf(t) \cup BuriedOf(t) \cup QueuedOf(t)
       \/ \E w \in WorkOn(t) : Of(w) = p /\ w.st # "failing"
       \/ \E c \in CallsOf(t) : Of(c) = p /\ c.pc \in {"free", "requeue", "bury"}

CalmInv == \A t \in Task \ hit : Calm(t)

-----------------------------------------------------------------------------
\* What the steps of the system do to one task.
LEMMA OthersIdle ==
  ASSUME NEW u,
         \A c : c.item.task # u => (c \in calls' <=> c \in calls),
         \A w : w.item.task # u => (w \in work' <=> w \in work),
         \A t \in Task \ {u} : SameQueue(t) /\ SameSnap(t) /\ NoLock(t),
         \A p : p[1] # u => /\ p \in done' <=> p \in done
                            /\ p \in dlq' <=> p \in dlq
                            /\ p \in accepted' <=> p \in accepted
  PROVE  \A t \in Task \ {u} : Idle(t)
<1> SUFFICES ASSUME NEW t \in Task \ {u} PROVE Idle(t)
    OBVIOUS
<1>1. SameCalls(t)
      BY DEF SameCalls, CallsOf
<1>2. SameWork(t)
      BY DEF SameWork, WorkOn
<1>3. SameEnd(t) /\ SameAccepted(t)
      BY DEF SameEnd, SameAccepted, DoneOf, BuriedOf, AcceptedOf
<1> QED BY <1>1, <1>2, <1>3 DEF Idle

\* A push and a pop, and the entries of each task.
LEMMA PushQueued ==
  ASSUME TypeInv, NEW n \in Node, NEW item \in Item, PieceOf(item) \in Piece,
         queue' = [queue EXCEPT ![n] = Append(queue[n], item)]
  PROVE  /\ \A t \in Task \ {item.task} : SameQueue(t)
         /\ QueuedOf(item.task)' = QueuedOf(item.task) \cup {PieceOf(item)}
<1>1. /\ \A m \in Node : \A i \in 1..Len(queue'[m]) :
           \/ i \in 1..Len(queue[m]) /\ queue'[m][i] = queue[m][i]
           \/ m = n /\ i = Len(queue[n]) + 1 /\ queue'[m][i] = item
      /\ \A m \in Node : \A i \in 1..Len(queue[m]) :
           i \in 1..Len(queue'[m]) /\ queue'[m][i] = queue[m][i]
      /\ Len(queue[n]) + 1 \in 1..Len(queue'[n])
      /\ queue'[n][Len(queue[n]) + 1] = item
      BY PushFacts DEF TypeInv, TypeOK
<1>2. \A p : Entry(p)' <=> Entry(p) \/ p = PieceOf(item)
  <2> SUFFICES ASSUME NEW p PROVE Entry(p)' <=> Entry(p) \/ p = PieceOf(item)
      OBVIOUS
  <2>1. Entry(p)' => Entry(p) \/ p = PieceOf(item)
        BY <1>1 DEF Entry
  <2>2. Entry(p) => Entry(p)'
        BY <1>1 DEF Entry
  <2>3. p = PieceOf(item) => Entry(p)'
        BY <1>1 DEF Entry
  <2> QED BY <2>1, <2>2, <2>3
<1>3. PieceOf(item)[1] = item.task
      BY DEF PieceOf
<1> QED BY <1>2, <1>3 DEF QueuedOf, SameQueue

LEMMA PopQueued ==
  ASSUME TypeInv, PlaceInv, NEW n \in Node, queue[n] # << >>,
         queue' = [queue EXCEPT ![n] = Tail(queue[n])],
         NEW item, item = Head(queue[n])
  PROVE  /\ item \in Item /\ item.task \in Task
         /\ PieceOf(item) \in QueuedOf(item.task)
         /\ \A t \in Task \ {item.task} : SameQueue(t)
         /\ QueuedOf(item.task)' = QueuedOf(item.task) \ {PieceOf(item)}
<1>1. /\ 1 \in 1..Len(queue[n]) /\ item = queue[n][1] /\ item \in Item
      /\ \A m \in Node \ {n} : queue'[m] = queue[m]
      /\ \A i \in 1..Len(queue'[n]) :
           i + 1 \in 1..Len(queue[n]) /\ queue'[n][i] = queue[n][i + 1]
      /\ \A i \in 1..Len(queue[n]) :
           i = 1 \/ (i - 1 \in 1..Len(queue'[n]) /\ queue'[n][i - 1] = queue[n][i])
      BY PopFacts DEF TypeInv, TypeOK
<1>2. ASSUME NEW p PROVE Entry(p)' <=> Entry(p) /\ p # PieceOf(item)
  <2>1. ASSUME NEW m \in Node, NEW i \in 1..Len(queue'[m]), PieceOf(queue'[m][i]) = p
        PROVE  Entry(p) /\ p # PieceOf(item)
    <3>1. CASE m # n
          BY <2>1, <3>1, <1>1 DEF Entry, PlaceInv, QueueApart
    <3>2. CASE m = n
      <4>1. i + 1 \in 1..Len(queue[n]) /\ queue'[n][i] = queue[n][i + 1]
            BY <3>2, <1>1
      <4>2. PieceOf(queue[n][i + 1]) = p
            BY <2>1, <3>2, <4>1
      <4>3. i + 1 # 1
            OBVIOUS
      <4> QED BY <4>1, <4>2, <4>3, <1>1 DEF Entry, PlaceInv, QueueApart
    <3> QED BY <3>1, <3>2
  <2>2. ASSUME NEW m \in Node, NEW i \in 1..Len(queue[m]), PieceOf(queue[m][i]) = p,
               p # PieceOf(item)
        PROVE  Entry(p)'
    <3>1. CASE m # n
          BY <2>2, <3>1, <1>1 DEF Entry
    <3>2. CASE m = n
      <4>1. i - 1 \in 1..Len(queue'[n]) /\ queue'[n][i - 1] = queue[n][i]
            BY <2>2, <3>2, <1>1
      <4> QED BY <2>2, <3>2, <4>1 DEF Entry
    <3> QED BY <3>1, <3>2
  <2> QED BY <2>1, <2>2 DEF Entry
<1>3. Numbered(item)
      BY <1>1 DEF TypeInv
<1>4. PieceOf(item) \in Piece /\ PieceOf(item)[1] = item.task
      BY <1>1, <1>3, PieceType
<1>5. item.task \in Task
      BY <1>1 DEF Item
<1>6. Entry(PieceOf(item))
      BY <1>1 DEF Entry
<1> QED BY <1>1, <1>2, <1>4, <1>5, <1>6 DEF QueuedOf, SameQueue

LEMMA QueueKept ==
  ASSUME queue' = queue
  PROVE  \A t : SameQueue(t)
BY DEF SameQueue, QueuedOf, Entry

LEMMA HandlerCourse ==
  ASSUME TypeInv, PlaceInv, CalmInv, NEW c \in calls, HandlerStep(c),
         NEW u, u = c.item.task
  PROVE  /\ u \in Task
         /\ \A t \in Task \ {u} : Idle(t)
         /\ u \notin hit' => CallStep(u, c)
<1> DEFINE CallsElse == \A x : x.item.task # u => (x \in calls' <=> x \in calls)
           WorkElse == \A x : x.item.task # u => (x \in work' <=> x \in work)
<1>c. /\ c \in Call /\ c.item \in Item /\ u \in Task /\ c \in CallsOf(u)
      /\ c.pc \in {"push", "requeue"} => c.dest \in Node
      /\ Of(c) \in Piece /\ Of(c)[1] = u
  <2>1. c \in Call /\ Numbered(c.item) /\ (c.pc \in {"push", "requeue"} => c.dest \in Node)
        BY DEF TypeInv, GoodCall
  <2>2. c.item \in Item
        BY <2>1, CallFields
  <2> QED BY <2>1, <2>2, PieceType DEF Item, CallsOf, Of
<1>o. ASSUME NEW o, Command(o, c), u \notin hit' PROVE o = "ok" /\ c.waiting
  <2>1. o = "ok" /\ u \notin hit
        BY <1>o, CommandType
  <2> QED BY <2>1, <1>c DEF CalmInv, Calm
<1>t. ASSUME NEW d, calls' = (calls \ {c}) \cup {d}, d.item = c.item, d.waiting = c.waiting
      PROVE  Turns(u, c, d) /\ CallsElse
      BY <1>t, <1>c DEF Turns, CallsOf
<1>g. ASSUME NEW pc \in SubmitPc \cup CompletePc \cup FailPc, Goto(c, pc)
      PROVE  CallsElse /\ \E d : d.pc = pc /\ Turns(u, c, d)
  <2> DEFINE d == [c EXCEPT !.pc = pc]
  <2>1. d.pc = pc /\ d.item = c.item /\ d.waiting = c.waiting
        BY <1>c DEF Call
  <2>2. calls' = (calls \ {c}) \cup {d}
        BY <1>g DEF Goto
  <2> HIDE DEF d
  <2> QED BY <2>1, <2>2, <1>t
<1>h. ASSUME NEW pc \in SubmitPc \cup CompletePc \cup FailPc, NEW n \in Node, GotoWith(c, pc, n)
      PROVE  CallsElse /\ \E d : d.pc = pc /\ Turns(u, c, d)
  <2> DEFINE d == [c EXCEPT !.pc = pc, !.dest = n]
  <2>1. d.pc = pc /\ d.item = c.item /\ d.waiting = c.waiting
        BY <1>c DEF Call
  <2>2. calls' = (calls \ {c}) \cup {d}
        BY <1>h DEF GotoWith
  <2> HIDE DEF d
  <2> QED BY <2>1, <2>2, <1>t
<1>e. ASSUME Return(c) PROVE CallsElse /\ CallsOf(u)' = CallsOf(u) \ {c}
      BY <1>e DEF Return, CallsOf
<1>w. ASSUME work' = work PROVE WorkElse /\ SameWork(u)
      BY <1>w DEF SameWork, WorkOn
<1>r. ASSUME Release(c)
      PROVE  /\ WorkElse
             /\ c.waiting /\ c.pc \notin SubmitPc =>
                  WorkOn(u)' = {w \in WorkOn(u) : Of(w) # Of(c)}
  <2>1. WorkElse
        BY <1>r DEF Release, WorkOf, PieceOf
  <2>2. ASSUME c.waiting, c.pc \notin SubmitPc
        PROVE  WorkOn(u)' = {w \in WorkOn(u) : Of(w) # Of(c)}
    <3>1. \A w \in work : Of(w) = Of(c) => w.node = c.from
          BY <2>2, OneAsks DEF Asks
    <3>2. work' = {w \in work : Of(w) # Of(c)}
          BY <1>r, <2>2, <3>1 DEF Release, WorkOf, Of
    <3> QED BY <3>2 DEF WorkOn
  <2> QED BY <2>1, <2>2
<1>d. /\ done' = done => DoneOf(u)' = DoneOf(u)
      /\ dlq' = dlq => BuriedOf(u)' = BuriedOf(u)
      /\ accepted' = accepted => SameAccepted(u)
      BY DEF DoneOf, BuriedOf, SameAccepted, AcceptedOf
<1>p. \A p : p[1] # u => p # PieceOf(c.item)
      BY <1>c DEF Of
<1>1. CASE Check(c)
  <2>1. /\ c.pc = "check" /\ queue' = queue /\ dlq' = dlq /\ work' = work
        /\ snap' = snap /\ lock' = lock /\ accepted' = accepted /\ done' = done
        BY <1>1 DEF Check, redis, worker, ghosts
  <2>2. PICK o \in {"ok", "failed"} :
          /\ Command(o, c)
          /\ \/ Return(c)
             \/ /\ o = "ok" => u \notin snap
                /\ \E n \in routable : GotoWith(c, "lock", n)
        BY <1>1 DEF Check
  <2>3. CallsElse /\ (Return(c) \/ \E d : d.pc = "lock" /\ Turns(u, c, d))
        BY <2>2, <1>e, <1>h DEF TypeInv, TypeOK, SubmitPc
  <2>4. \A t \in Task : SameQueue(t) /\ SameSnap(t) /\ NoLock(t)
        BY <2>1, QueueKept DEF SameSnap, NoLock
  <2>5. \A t \in Task \ {u} : Idle(t)
        BY <2>1, <2>3, <2>4, <1>w, OthersIdle
  <2>6. ASSUME u \notin hit'
        PROVE  Refused(u, c) \/ \E d : Checked(u, c, d)
    <3>1. SameWork(u) /\ SameAccepted(u) /\ SameEnd(u)
          BY <2>1, <1>w, <1>d DEF SameEnd
    <3>2. CASE Return(c)
          BY <2>1, <2>4, <3>1, <3>2, <1>c, <1>e DEF Refused
    <3>3. CASE (o = "ok" => u \notin snap) /\ \E n \in routable : GotoWith(c, "lock", n)
      <4>1. u \notin snap
            BY <2>2, <2>6, <3>3, <1>o
      <4>2. \E d : d.pc = "lock" /\ Turns(u, c, d)
            BY <3>3, <1>h DEF TypeInv, TypeOK, SubmitPc
      <4> QED BY <2>1, <2>4, <3>1, <4>1, <4>2, <1>c DEF Checked
    <3> QED BY <2>2, <3>2, <3>3
  <2> QED BY <2>5, <2>6, <1>c DEF CallStep
<1>2. CASE Lock(c)
  <2>1. /\ c.pc = "lock" /\ queue' = queue /\ dlq' = dlq /\ work' = work
        /\ snap' = snap /\ accepted' = accepted /\ done' = done
        BY <1>2 DEF Lock, worker, ghosts
  <2>2. PICK o \in Outcome :
          /\ Command(o, c)
          /\ lock' = IF Effective(o) THEN lock \cup {u} ELSE lock
          /\ IF o = "ok" /\ u \notin lock THEN Goto(c, "save") ELSE Return(c)
        BY <1>2 DEF Lock
  <2>3. CallsElse
        BY <2>2, <1>e, <1>g DEF SubmitPc
  <2>4. \A t \in Task : SameQueue(t) /\ SameSnap(t) /\ (t # u => NoLock(t))
        BY <2>1, <2>2, QueueKept DEF SameSnap, NoLock
  <2>5. \A t \in Task \ {u} : Idle(t)
        BY <2>1, <2>3, <2>4, <1>w, OthersIdle
  <2>6. ASSUME u \notin hit'
        PROVE  Refused(u, c) \/ \E d : Locked(u, c, d)
    <3>1. SameWork(u) /\ SameAccepted(u) /\ SameEnd(u)
          BY <2>1, <1>w, <1>d DEF SameEnd
    <3>2. o = "ok"
          BY <2>2, <2>6, <1>o
    <3>3. CASE u \in lock
          BY <2>1, <2>2, <2>4, <3>1, <3>3, <1>c, <1>e DEF Refused, NoLock
    <3>4. CASE u \notin lock
      <4>1. \E d : d.pc = "save" /\ Turns(u, c, d)
            BY <2>2, <3>2, <3>4, <1>g DEF SubmitPc
      <4> QED BY <2>1, <2>4, <3>1, <3>4, <4>1, <1>c DEF Locked
    <3> QED BY <3>3, <3>4
  <2> QED BY <2>5, <2>6, <1>c DEF CallStep
<1>3. CASE Save(c)
  <2>1. /\ c.pc = "save" /\ queue' = queue /\ dlq' = dlq /\ work' = work
        /\ lock' = lock /\ accepted' = accepted /\ done' = done
        BY <1>3 DEF Save, worker, ghosts
  <2>2. PICK o \in Outcome :
          /\ Command(o, c)
          /\ snap' = IF Effective(o) THEN snap \cup {u} ELSE snap
          /\ IF o = "ok" THEN Goto(c, "push") ELSE Return(c)
        BY <1>3 DEF Save
  <2>3. CallsElse
        BY <2>2, <1>e, <1>g DEF SubmitPc
  <2>4. \A t \in Task : SameQueue(t) /\ (t # u => SameSnap(t)) /\ NoLock(t)
        BY <2>1, <2>2, QueueKept DEF SameSnap, NoLock
  <2>5. \A t \in Task \ {u} : Idle(t)
        BY <2>1, <2>3, <2>4, <1>w, OthersIdle
  <2>6. ASSUME u \notin hit' PROVE \E d : Saved(u, c, d)
    <3>1. SameWork(u) /\ SameAccepted(u) /\ SameEnd(u)
          BY <2>1, <1>w, <1>d DEF SameEnd
    <3>2. o = "ok"
          BY <2>2, <2>6, <1>o
    <3>3. u \in snap'
          BY <2>2, <3>2 DEF Effective
    <3>4. \E d : d.pc = "push" /\ Turns(u, c, d)
          BY <2>2, <3>2, <1>g DEF SubmitPc
    <3> QED BY <2>1, <2>4, <3>1, <3>3, <3>4, <1>c DEF Saved
  <2> QED BY <2>5, <2>6, <1>c DEF CallStep
<1>4. CASE Enqueue(c)
  <2>1. /\ c.pc = "push" /\ dlq' = dlq /\ work' = work /\ Return(c)
        /\ snap' = snap /\ lock' = lock /\ done' = done
        BY <1>4 DEF Enqueue, worker
  <2>2. PICK o \in Outcome :
          /\ Command(o, c)
          /\ queue' = IF Effective(o) THEN [queue EXCEPT ![c.dest] = Append(queue[c.dest], c.item)] ELSE queue
          /\ accepted' \in {accepted, accepted \cup {PieceOf(c.item)}}
        BY <1>4 DEF Enqueue, Push
  <2>3. CallsElse
        BY <2>1, <1>e
  <2>4. /\ \A t \in Task \ {u} : SameQueue(t)
        /\ o = "ok" => QueuedOf(u)' = QueuedOf(u) \cup {Of(c)}
    <3>1. CASE queue' = queue /\ ~Effective(o)
          BY <3>1, QueueKept DEF Effective
    <3>2. CASE queue' = [queue EXCEPT ![c.dest] = Append(queue[c.dest], c.item)]
          BY <2>1, <3>2, <1>c, PushQueued DEF Of
    <3> QED BY <2>2, <3>1, <3>2
  <2>5. \A t \in Task : SameSnap(t) /\ NoLock(t)
        BY <2>1 DEF SameSnap, NoLock
  <2>6. \A p : p[1] # u => (p \in accepted' <=> p \in accepted)
        BY <2>2, <1>p
  <2>7. \A t \in Task \ {u} : Idle(t)
        BY <2>1, <2>3, <2>4, <2>5, <2>6, <1>w, OthersIdle
  <2>8. ASSUME u \notin hit' PROVE Pushed(u, c)
    <3>1. SameWork(u) /\ SameEnd(u)
          BY <2>1, <1>w, <1>d DEF SameEnd
    <3>2. o = "ok"
          BY <2>2, <2>8, <1>o
    <3>3. AcceptedOf(u)' \subseteq AcceptedOf(u) \cup {Of(c)}
          BY <2>2 DEF AcceptedOf, Of
    <3> QED BY <2>1, <2>4, <2>5, <3>1, <3>2, <3>3, <1>c, <1>e DEF Pushed
  <2> QED BY <2>7, <2>8, <1>c DEF CallStep
<1>5. CASE Seen(c)
  <2>1. /\ c.pc = "seen" /\ queue' = queue /\ dlq' = dlq /\ done' = done \cup {Of(c)}
        /\ snap' = snap /\ lock' = lock /\ accepted' = accepted
        BY <1>5 DEF Seen, redis, Of
  <2>2. PICK o \in {"ok", "failed"} :
          /\ Command(o, c)
          /\ \/ o = "ok" /\ u \in snap /\ Goto(c, "unlock") /\ UNCHANGED work
             \/ (o = "ok" => u \notin snap) /\ Return(c) /\ Release(c)
        BY <1>5 DEF Seen
  <2>3. CallsElse /\ WorkElse
        BY <2>2, <1>e, <1>g, <1>r, <1>w DEF CompletePc
  <2>4. \A t \in Task : SameQueue(t) /\ SameSnap(t) /\ NoLock(t)
        BY <2>1, QueueKept DEF SameSnap, NoLock
  <2>5. \A t \in Task \ {u} : Idle(t)
        BY <2>1, <2>3, <2>4, <1>c, OthersIdle
  <2>6. ASSUME u \notin hit'
        PROVE  Missed(u, c) \/ \E d : Found(u, c, d)
    <3>1. SameAccepted(u) /\ BuriedOf(u)' = BuriedOf(u) /\ DoneOf(u)' = DoneOf(u) \cup {Of(c)}
          BY <2>1, <1>d, <1>c DEF DoneOf
    <3>2. o = "ok" /\ c.waiting
          BY <2>2, <2>6, <1>o
    <3>3. CASE u \in snap /\ Goto(c, "unlock") /\ UNCHANGED work
      <4>1. \E d : d.pc = "unlock" /\ Turns(u, c, d)
            BY <3>3, <1>g DEF CompletePc
      <4> QED BY <2>1, <2>4, <3>1, <3>3, <4>1, <1>c, <1>w DEF Found
    <3>4. CASE u \notin snap /\ Return(c) /\ Release(c)
      <4>1. Ends(u, c)
            BY <2>1, <3>2, <3>4, <1>c, <1>e, <1>r DEF Ends, SubmitPc
      <4> QED BY <2>1, <2>4, <3>1, <3>4, <4>1, <1>c DEF Missed
    <3> QED BY <2>2, <3>2, <3>3, <3>4
  <2> QED BY <2>5, <2>6, <1>c DEF CallStep
<1>6. CASE Unlock(c)
  <2>1. /\ c.pc = "unlock" /\ queue' = queue /\ dlq' = dlq /\ work' = work
        /\ snap' = snap /\ accepted' = accepted /\ done' = done /\ Goto(c, "forget")
        BY <1>6 DEF Unlock, worker, ghosts
  <2>2. PICK o \in Outcome :
          Command(o, c) /\ lock' = IF Effective(o) THEN lock \ {u} ELSE lock
        BY <1>6 DEF Unlock
  <2>3. CallsElse /\ \E d : d.pc = "forget" /\ Turns(u, c, d)
        BY <2>1, <1>g DEF CompletePc
  <2>4. \A t \in Task : SameQueue(t) /\ SameSnap(t) /\ NoLock(t)
        BY <2>1, <2>2, QueueKept DEF SameSnap, NoLock
  <2>5. \A t \in Task \ {u} : Idle(t)
        BY <2>1, <2>3, <2>4, <1>w, OthersIdle
  <2>6. ASSUME u \notin hit' PROVE \E d : Unlocked(u, c, d)
    <3>1. SameWork(u) /\ SameAccepted(u) /\ SameEnd(u)
          BY <2>1, <1>w, <1>d DEF SameEnd
    <3>2. u \notin lock'
          BY <2>2, <2>6, <1>o DEF Effective
    <3> QED BY <2>1, <2>3, <2>4, <3>1, <3>2, <1>c DEF Unlocked
  <2> QED BY <2>5, <2>6, <1>c DEF CallStep
<1>7. CASE Forget(c)
  <2>1. /\ c.pc \in {"forget", "purge"} /\ queue' = queue /\ dlq' = dlq
        /\ lock' = lock /\ accepted' = accepted /\ done' = done /\ Return(c) /\ Release(c)
        BY <1>7 DEF Forget, ghosts
  <2>2. PICK o \in Outcome :
          Command(o, c) /\ snap' = IF Effective(o) THEN snap \ {u} ELSE snap
        BY <1>7 DEF Forget
  <2>3. CallsElse /\ WorkElse
        BY <2>1, <1>e, <1>r
  <2>4. \A t \in Task : SameQueue(t) /\ (t # u => SameSnap(t)) /\ NoLock(t)
        BY <2>1, <2>2, QueueKept DEF SameSnap, NoLock
  <2>5. \A t \in Task \ {u} : Idle(t)
        BY <2>1, <2>3, <2>4, OthersIdle
  <2>6. ASSUME u \notin hit' PROVE Forgot(u, c)
    <3>1. SameAccepted(u) /\ SameEnd(u)
          BY <2>1, <1>d DEF SameEnd
    <3>2. o = "ok" /\ c.waiting
          BY <2>2, <2>6, <1>o
    <3>3. Ends(u, c)
          BY <2>1, <3>2, <1>c, <1>e, <1>r DEF Ends, SubmitPc
    <3>4. u \notin snap'
          BY <2>2, <3>2 DEF Effective
    <3> QED BY <2>1, <2>4, <3>1, <3>3, <3>4, <1>c DEF Forgot
  <2> QED BY <2>5, <2>6, <1>c DEF CallStep
<1>8. CASE Free(c)
  <2>1. /\ c.pc = "free" /\ queue' = queue /\ dlq' = dlq /\ work' = work
        /\ snap' = snap /\ accepted' = accepted /\ done' = done
        BY <1>8 DEF Free, worker, ghosts
  <2>2. PICK o \in Outcome :
          Command(o, c) /\ lock' = IF Effective(o) THEN lock \ {u} ELSE lock
        BY <1>8 DEF Free
  <2>3. CallsElse /\ \E d : d.pc \in {"requeue", "bury"} /\ Turns(u, c, d)
    <3>1. CASE \E n \in routable : GotoWith(c, "requeue", n)
      <4>1. CallsElse /\ \E d : d.pc = "requeue" /\ Turns(u, c, d)
            BY <3>1, <1>h DEF TypeInv, TypeOK, FailPc
      <4> QED BY <4>1
    <3>2. CASE Goto(c, "bury")
          BY <3>2, <1>g DEF FailPc
    <3> QED BY <1>8, <3>1, <3>2 DEF Free
  <2>4. \A t \in Task : SameQueue(t) /\ SameSnap(t) /\ NoLock(t)
        BY <2>1, <2>2, QueueKept DEF SameSnap, NoLock
  <2>5. \A t \in Task \ {u} : Idle(t)
        BY <2>1, <2>3, <2>4, <1>w, OthersIdle
  <2>6. ASSUME u \notin hit' PROVE \E d : Freed(u, c, d)
    <3>1. SameWork(u) /\ SameAccepted(u) /\ SameEnd(u)
          BY <2>1, <1>w, <1>d DEF SameEnd
    <3>2. u \notin lock'
          BY <2>2, <2>6, <1>o DEF Effective
    <3> QED BY <2>1, <2>3, <2>4, <3>1, <3>2, <1>c DEF Freed
  <2> QED BY <2>5, <2>6, <1>c DEF CallStep
<1>9. CASE Requeue(c)
  <2>i. PICK item : item = [c.item EXCEPT !.attempt = c.item.attempt + 1]
        OBVIOUS
  <2>j. item \in Item /\ item.task = u /\ PieceOf(item) = Of(c)
    <3>1. c.item.attempt = 1
          BY DEF TypeInv, GoodCall
    <3>2. item = [c.item EXCEPT !.attempt = 2]
          BY <2>i, <3>1
    <3>3. item \in Item /\ item.task = c.item.task /\ item.sub = c.item.sub
          BY <3>2, <1>c DEF Item
    <3> QED BY <3>3 DEF Of, PieceOf
  <2>1. /\ c.pc = "requeue" /\ dlq' = dlq /\ snap' = snap /\ lock' = lock
        /\ accepted' = accepted /\ done' = done /\ Return(c) /\ Release(c)
        BY <1>9 DEF Requeue, ghosts
  <2>2. PICK o \in Outcome :
          /\ Command(o, c)
          /\ queue' = IF Effective(o) THEN [queue EXCEPT ![c.dest] = Append(queue[c.dest], item)] ELSE queue
        BY <1>9, <2>i DEF Requeue, Push
  <2>3. CallsElse /\ WorkElse
        BY <2>1, <1>e, <1>r
  <2>4. /\ \A t \in Task \ {u} : SameQueue(t)
        /\ o = "ok" => QueuedOf(u)' = QueuedOf(u) \cup {Of(c)}
    <3>1. CASE queue' = queue /\ ~Effective(o)
          BY <3>1, QueueKept DEF Effective
    <3>2. CASE queue' = [queue EXCEPT ![c.dest] = Append(queue[c.dest], item)]
          BY <2>1, <2>j, <3>2, <1>c, PushQueued
    <3> QED BY <2>2, <3>1, <3>2
  <2>5. \A t \in Task : SameSnap(t) /\ NoLock(t)
        BY <2>1 DEF SameSnap, NoLock
  <2>6. \A t \in Task \ {u} : Idle(t)
        BY <2>1, <2>3, <2>4, <2>5, OthersIdle
  <2>7. ASSUME u \notin hit' PROVE Requeued(u, c)
    <3>1. SameAccepted(u) /\ SameEnd(u)
          BY <2>1, <1>d DEF SameEnd
    <3>2. o = "ok" /\ c.waiting
          BY <2>2, <2>7, <1>o
    <3>3. Ends(u, c)
          BY <2>1, <3>2, <1>c, <1>e, <1>r DEF Ends, SubmitPc
    <3> QED BY <2>1, <2>4, <2>5, <3>1, <3>2, <3>3, <1>c DEF Requeued
  <2> QED BY <2>6, <2>7, <1>c DEF CallStep
<1>10. CASE Bury(c)
  <2>1. /\ c.pc = "bury" /\ queue' = queue /\ snap' = snap /\ lock' = lock
        /\ accepted' = accepted /\ done' = done
        BY <1>10 DEF Bury, ghosts
  <2>2. PICK o \in Outcome :
          /\ Command(o, c)
          /\ dlq' = IF Effective(o) THEN dlq \cup {Of(c)} ELSE dlq
          /\ \/ o = "ok" /\ Goto(c, "purge") /\ UNCHANGED work
             \/ o # "ok" /\ Return(c) /\ Release(c)
        BY <1>10 DEF Bury, Of
  <2>3. CallsElse /\ WorkElse
        BY <2>2, <1>e, <1>g, <1>r, <1>w DEF FailPc
  <2>4. \A t \in Task : SameQueue(t) /\ SameSnap(t) /\ NoLock(t)
        BY <2>1, QueueKept DEF SameSnap, NoLock
  <2>5. \A t \in Task \ {u} : Idle(t)
        BY <2>1, <2>2, <2>3, <2>4, <1>c, OthersIdle
  <2>6. ASSUME u \notin hit' PROVE \E d : Interred(u, c, d)
    <3>1. o = "ok"
          BY <2>2, <2>6, <1>o
    <3>2. SameAccepted(u) /\ DoneOf(u)' = DoneOf(u) /\ BuriedOf(u)' = BuriedOf(u) \cup {Of(c)}
          BY <2>1, <2>2, <3>1, <1>d, <1>c DEF BuriedOf, Effective
    <3>3. \E d : d.pc = "purge" /\ Turns(u, c, d)
          BY <2>2, <3>1, <1>g DEF FailPc
    <3> QED BY <2>1, <2>2, <2>4, <3>1, <3>2, <3>3, <1>c, <1>w DEF Interred
  <2> QED BY <2>5, <2>6, <1>c DEF CallStep
<1> QED BY <1>1, <1>2, <1>3, <1>4, <1>5, <1>6, <1>7, <1>8, <1>9, <1>10 DEF HandlerStep

\* A step that takes calls and executions of touched tasks away leaves the others be.
LEMMA TouchedOnly ==
  ASSUME \A c : c.item.task \notin hit' => (c \in calls' <=> c \in calls),
         \A w : w.item.task \notin hit' => (w \in work' <=> w \in work),
         queue' = queue, snap' = snap, lock' \subseteq lock, done' = done, dlq' = dlq,
         accepted' = accepted
  PROVE  \A t \in Task \ hit' : Idle(t)
<1> SUFFICES ASSUME NEW t \in Task \ hit' PROVE Idle(t)
    OBVIOUS
<1>1. SameCalls(t)
      BY DEF SameCalls, CallsOf
<1>2. SameWork(t)
      BY DEF SameWork, WorkOn
<1>3. SameEnd(t) /\ SameAccepted(t)
      BY DEF SameEnd, SameAccepted, DoneOf, BuriedOf, AcceptedOf
<1>4. SameQueue(t) /\ SameSnap(t) /\ NoLock(t)
      BY QueueKept DEF SameSnap, NoLock
<1> QED BY <1>1, <1>2, <1>3, <1>4 DEF Idle

LEMMA CrashIdle ==
  ASSUME TypeInv, PlaceInv, CalmInv, NEW n \in Node, Crash(n)
  PROVE  \A t \in Task \ hit' : Idle(t)
<1>1. /\ calls' = {IF c.from = n THEN [c EXCEPT !.waiting = FALSE] ELSE c : c \in calls}
      /\ work' = {w \in work : w.node # n} /\ queue' = queue /\ dlq' = dlq
      /\ snap' = snap /\ lock' = lock /\ done' = done /\ accepted' = accepted
      /\ hit' = hit \cup {w.item.task : w \in {v \in work : v.node = n}}
      BY DEF Crash, Fault, redis, ghosts
<1>2. \A w \in work : w.node = n => w.item.task \in hit'
      BY <1>1
<1>3. ASSUME NEW c \in calls, c.from = n PROVE c.item.task \in hit'
  <2>1. c.pc \notin SubmitPc /\ c.item.task \in Task
        BY <1>3, NodeAssumption, CallFields DEF TypeInv, GoodCall, Item
  <2>2. CASE c.waiting
    <3>1. PICK w \in work : w.node = c.from /\ Of(w) = Of(c)
          BY <2>1, <2>2 DEF Asks, PlaceInv, Attended
    <3>2. w.item.task = c.item.task
          BY <3>1 DEF Of, PieceOf
    <3> QED BY <3>1, <3>2, <1>2, <1>3
  <2>3. CASE ~c.waiting
    <3>1. c.item.task \in hit
          BY <2>1, <2>3 DEF CalmInv, Calm, CallsOf
    <3> QED BY <3>1, <1>1
  <2> QED BY <2>2, <2>3
<1>4. ASSUME NEW c, c.item.task \notin hit' PROVE c \in calls' <=> c \in calls
  <2>1. ASSUME NEW x \in calls, c = [x EXCEPT !.waiting = FALSE], x.from = n PROVE FALSE
    <3>1. c.item = x.item
          BY <2>1 DEF TypeInv, GoodCall, Call
    <3> QED BY <2>1, <3>1, <1>3, <1>4
  <2>2. c \in calls' => c \in calls
        BY <2>1, <1>1
  <2>3. c \in calls => c \in calls'
        BY <1>1, <1>3, <1>4
  <2> QED BY <2>2, <2>3
<1> QED BY <1>1, <1>2, <1>4, TouchedOnly

LEMMA BrokerRestartIdle ==
  ASSUME TypeInv, PlaceInv, BrokerRestart
  PROVE  \A t \in Task \ hit' : Idle(t)
<1>1. /\ calls' = {} /\ queue' = queue /\ dlq' = dlq
      /\ snap' = snap /\ lock' = lock /\ done' = done /\ accepted' = accepted
      /\ work' = {IF w.st = "completing" THEN [w EXCEPT !.st = "reporting"] ELSE w :
                    w \in {v \in work : v.st # "failing"}}
      /\ hit' = hit \cup {c.item.task : c \in calls}
      BY DEF BrokerRestart, Fault, redis, ghosts
<1>2. \A c \in calls : c.item.task \in hit'
      BY <1>1
<1>3. ASSUME NEW w \in work, w.st \in {"completing", "failing"} PROVE w.item.task \in hit'
  <2>1. PICK c \in calls : Of(c) = Of(w)
        BY <1>3 DEF PlaceInv, Attending
  <2> QED BY <2>1, <1>2 DEF Of, PieceOf
<1>4. ASSUME NEW v, v.item.task \notin hit' PROVE v \in work' <=> v \in work
  <2>1. ASSUME NEW w \in work, v = [w EXCEPT !.st = "reporting"], w.st = "completing" PROVE FALSE
    <3>1. v.item = w.item
          BY <2>1 DEF TypeInv, GoodWork, Work
    <3> QED BY <2>1, <3>1, <1>3, <1>4
  <2>2. v \in work' => v \in work
        BY <2>1, <1>1
  <2>3. v \in work => v \in work'
        BY <1>1, <1>3, <1>4
  <2> QED BY <2>2, <2>3
<1> QED BY <1>1, <1>2, <1>4, TouchedOnly

\* One step concerns at most one task that stays untouched.
LEMMA Course ==
  ASSUME TypeInv, PlaceInv, CalmInv, [Next]_vars
  PROVE  \/ \A t \in Task \ hit' : Idle(t)
         \/ \E u \in Task : /\ \A t \in Task \ {u} : Idle(t)
                            /\ u \notin hit' => TaskStep(u)
<1> DEFINE Concerns(u) == /\ u \in Task
                          /\ \A t \in Task \ {u} : Idle(t)
                          /\ u \notin hit' => TaskStep(u)
<1>1. ASSUME NEW u \in Task, Submit(u) PROVE Concerns(u)
  <2>1. PICK c : /\ c = [pc |-> "check", from |-> "client", dest |-> "none", waiting |-> TRUE,
                         item |-> [task |-> u, sub |-> subs[u] + 1,
                                   attempt |-> 1]]
                 /\ calls' = calls \cup {c}
        BY <1>1 DEF Submit
  <2>2. /\ work' = work /\ queue' = queue /\ dlq' = dlq /\ snap' = snap /\ lock' = lock
        /\ done' = done /\ accepted' = accepted
        /\ Overlap \/ \A x \in calls : x.pc \in SubmitPc /\ x.item.task = u => ~x.waiting
        BY <1>1 DEF Submit, redis, worker
  <2>3. c.pc = "check" /\ c.waiting /\ c.item.task = u /\ Of(c) = <<u, subs[u] + 1>>
        BY <2>1 DEF Of, PieceOf
  <2>4. \A t : SameQueue(t)
        BY <2>2, QueueKept
  <2>5. \A t \in Task \ {u} : Idle(t)
    <3>1. \A x : x.item.task # u => (x \in calls' <=> x \in calls)
          BY <2>1, <2>3
    <3> QED BY <2>2, <2>4, <3>1, OthersIdle DEF SameSnap, NoLock
  <2>6. Entered(u, c)
    <3>1. CallsOf(u)' = CallsOf(u) \cup {c}
          BY <2>1, <2>3 DEF CallsOf
    <3>2. SameWork(u) /\ SameSnap(u) /\ NoLock(u) /\ SameAccepted(u) /\ SameEnd(u)
          BY <2>2 DEF SameWork, WorkOn, SameSnap, NoLock, SameAccepted, AcceptedOf, SameEnd,
                      DoneOf, BuriedOf
    <3>3. Of(c) \notin DoneOf(u)
      <4>1. \A p \in done : p[2] <= subs[p[1]]
            BY DEF TypeInv
      <4>2. subs[u] \in Nat
            BY DEF TypeInv, TypeOK
      <4> QED BY <2>3, <4>1, <4>2 DEF DoneOf
    <3>4. Overlap \/ \A x \in CallsOf(u) : x.pc \in SubmitPc => ~x.waiting
          BY <2>2 DEF CallsOf
    <3> QED BY <2>3, <2>4, <3>1, <3>2, <3>3, <3>4 DEF Entered
  <2> QED BY <2>5, <2>6 DEF TaskStep
<1>2. ASSUME NEW n \in Node, NEW item, item = Head(queue[n]), queue[n] # << >>,
             queue' = [queue EXCEPT ![n] = Tail(queue[n])],
             UNCHANGED <<lock, snap, dlq, calls, done, accepted>>
      PROVE  /\ item \in Item /\ item.task \in Task
             /\ PieceOf(item) \in QueuedOf(item.task)
             /\ QueuedOf(item.task)' = QueuedOf(item.task) \ {PieceOf(item)}
             /\ (\A w : w.item.task # item.task => (w \in work' <=> w \in work))
                   => \A t \in Task \ {item.task} : Idle(t)
             /\ SameCalls(item.task) /\ SameSnap(item.task) /\ NoLock(item.task)
             /\ SameAccepted(item.task) /\ SameEnd(item.task)
  <2>1. /\ item \in Item /\ item.task \in Task
        /\ PieceOf(item) \in QueuedOf(item.task)
        /\ QueuedOf(item.task)' = QueuedOf(item.task) \ {PieceOf(item)}
        /\ \A t \in Task \ {item.task} : SameQueue(t)
        BY <1>2, PopQueued
  <2>2. \A t : SameSnap(t) /\ NoLock(t) /\ SameCalls(t) /\ SameAccepted(t) /\ SameEnd(t)
        BY <1>2 DEF SameSnap, NoLock, SameCalls, CallsOf, SameAccepted, AcceptedOf, SameEnd,
                    DoneOf, BuriedOf
  <2>3. (\A w : w.item.task # item.task => (w \in work' <=> w \in work))
          => \A t \in Task \ {item.task} : Idle(t)
        BY <1>2, <2>1, <2>2, OthersIdle
  <2> QED BY <2>1, <2>2, <2>3
<1>3. ASSUME NEW n \in Node, Claim(n) PROVE \E u : Concerns(u)
  <2>1. PICK item : item = Head(queue[n])
        OBVIOUS
  <2>2. PICK w : w = [node |-> n, item |-> [item EXCEPT !.attempt = 1], st |-> "running"]
        OBVIOUS
  <2>3. /\ queue[n] # << >> /\ queue' = [queue EXCEPT ![n] = Tail(queue[n])]
        /\ UNCHANGED <<lock, snap, dlq, calls, done, accepted>>
        /\ work' = work \cup {w}
        BY <1>3, <2>1, <2>2 DEF Claim, ghosts
  <2>4. item \in Item
        BY <2>1, <2>3, <1>2
  <2>5. w.item.task = item.task /\ Of(w) = PieceOf(item) /\ w.st = "running"
        BY <2>2, <2>4 DEF Item, Of, PieceOf
  <2>6. \A x : x.item.task # item.task => (x \in work' <=> x \in work)
        BY <2>3, <2>5
  <2>7. WorkOn(item.task)' = WorkOn(item.task) \cup {w}
        BY <2>3, <2>5 DEF WorkOn
  <2>8. Claimed(item.task, w)
        BY <2>1, <2>3, <2>5, <2>7, <1>2 DEF Claimed
  <2>9. item.task \in Task /\ \A t \in Task \ {item.task} : Idle(t)
        BY <2>1, <2>3, <2>6, <1>2
  <2> QED BY <2>8, <2>9 DEF TaskStep
<1>4. ASSUME NEW n \in Node, ClaimLost(n) PROVE \E u : Concerns(u)
  <2>1. PICK item : item = Head(queue[n])
        OBVIOUS
  <2>2. /\ queue[n] # << >> /\ queue' = [queue EXCEPT ![n] = Tail(queue[n])]
        /\ UNCHANGED <<lock, snap, dlq, calls, done, accepted>>
        /\ work' = work /\ item.task \in hit'
        BY <1>4, <2>1 DEF ClaimLost, ghosts, worker, Fault
  <2>3. item.task \in Task /\ \A t \in Task \ {item.task} : Idle(t)
        BY <2>1, <2>2, <1>2
  <2> QED BY <2>2, <2>3
<1>5. ASSUME NEW w \in work, NEW st, NEW pc, Turn(w, st), Ask(w, pc),
             w.st = "running" \/ w.st = "reporting",
             (pc = "seen" /\ st = "completing") \/ (pc = "free" /\ st = "failing"),
             UNCHANGED <<lock, snap, queue, dlq, done, accepted, hit>>
      PROVE  \E u : Concerns(u)
  <2> DEFINE u == w.item.task
  <2>1. PICK v : v = [w EXCEPT !.st = st]
        OBVIOUS
  <2>2. PICK c : c = [pc |-> pc, from |-> w.node, dest |-> "none", item |-> w.item, waiting |-> TRUE]
        OBVIOUS
  <2>3. work' = (work \ {w}) \cup {v} /\ calls' = calls \cup {c}
        BY <1>5, <2>1, <2>2 DEF Turn, Ask
  <2>4. v.item = w.item /\ v.st = st /\ c.item = w.item /\ c.pc = pc /\ c.waiting
        BY <2>1, <2>2 DEF TypeInv, GoodWork, Work
  <2>5. u \in Task
        BY WorkFields DEF TypeInv, GoodWork, Item
  <2>6. \A t : SameQueue(t) /\ SameSnap(t) /\ NoLock(t) /\ SameAccepted(t) /\ SameEnd(t)
        BY <1>5, QueueKept DEF SameSnap, NoLock, SameAccepted, AcceptedOf, SameEnd, DoneOf, BuriedOf
  <2>7. \A t \in Task \ {u} : Idle(t)
    <3>1. \A x : x.item.task # u => (x \in calls' <=> x \in calls) /\ (x \in work' <=> x \in work)
          BY <2>3, <2>4
    <3> QED BY <1>5, <2>6, <3>1, OthersIdle
  <2>8. ASSUME u \notin hit' PROVE Asked(u, w, v, c)
    <3>1. w.st = "running"
      <4>1. u \notin hit
            BY <2>8, <1>5
      <4> QED BY <4>1, <2>5, <1>5 DEF CalmInv, Calm, WorkOn
    <3>2. WorkOn(u)' = (WorkOn(u) \ {w}) \cup {v} /\ CallsOf(u)' = CallsOf(u) \cup {c}
          BY <2>3, <2>4 DEF WorkOn, CallsOf
    <3> QED BY <1>5, <2>4, <2>6, <3>1, <3>2 DEF Asked, WorkOn
  <2> QED BY <2>5, <2>7, <2>8 DEF TaskStep
<1>6. ASSUME NEW w \in work, WorkerStep(w) PROVE \E u : Concerns(u)
      BY <1>5, <1>6 DEF WorkerStep, Complete, Fail, Report, redis, ghosts, env
<1>7. ASSUME NEW w \in work, ReportLost(w) PROVE \A t \in Task \ hit' : Idle(t)
  <2>1. /\ work' = work \ {w} /\ w.item.task \in hit'
        /\ UNCHANGED <<lock, snap, queue, dlq, calls, done, accepted>>
        BY <1>7 DEF ReportLost, Fault, redis, ghosts
  <2> QED BY <2>1, TouchedOnly
<1>8. ASSUME NEW c \in calls, HandlerStep(c) PROVE \E u : Concerns(u)
  <2>1. PICK u : u = c.item.task
        OBVIOUS
  <2> QED BY <1>8, <2>1, HandlerCourse DEF TaskStep
<1>9. ASSUME NEW c \in calls, Timeout(c) PROVE \A t \in Task \ hit' : Idle(t)
  <2>1. /\ c.item.task \in hit'
        /\ calls' = (calls \ {c}) \cup {[c EXCEPT !.waiting = FALSE]}
        /\ work' = (work \ WorkOf(c)) \cup
             {[w EXCEPT !.st = "reporting"] : w \in IF c.pc \in CompletePc THEN WorkOf(c) ELSE {}}
        /\ UNCHANGED <<lock, snap, queue, dlq, done, accepted>>
        BY <1>9 DEF Timeout, Fault, redis, ghosts
  <2>2. \A w \in WorkOf(c) : w \in work /\ w.item.task = c.item.task
                              /\ [w EXCEPT !.st = "reporting"].item = w.item
        BY DEF WorkOf, PieceOf, TypeInv, GoodWork, Work
  <2>3. [c EXCEPT !.waiting = FALSE].item = c.item
        BY DEF TypeInv, GoodCall, Call
  <2>4. \A x : x.item.task \notin hit' => (x \in calls' <=> x \in calls)
        BY <2>1, <2>3
  <2>5. \A x : x.item.task \notin hit' => (x \in work' <=> x \in work)
        BY <2>1, <2>2
  <2> QED BY <2>1, <2>4, <2>5, TouchedOnly
<1>10. ASSUME NEW c \in calls, Drop(c) PROVE \A t \in Task \ hit' : Idle(t)
  <2>1. /\ ~c.waiting /\ calls' = calls \ {c} /\ hit' = hit
        /\ UNCHANGED <<lock, snap, queue, dlq, work, done, accepted>>
        BY <1>10 DEF Drop, Return, redis, worker, ghosts, env
  <2>2. c.item.task \in Task
        BY CallFields DEF TypeInv, GoodCall, Item
  <2>3. c.item.task \in hit
        BY <2>1, <2>2 DEF CalmInv, Calm, CallsOf
  <2> QED BY <2>1, <2>3, TouchedOnly
<1>11. ASSUME UNCHANGED <<snap, queue, dlq, calls, work, done, accepted>>, lock' \subseteq lock
       PROVE  \A t \in Task \ hit' : Idle(t)
       BY <1>11, TouchedOnly
<1>12. ASSUME NEW n \in Node, Restart(n) PROVE \A t \in Task \ hit' : Idle(t)
       BY <1>11, <1>12 DEF Restart, redis, ghosts
<1>13. CASE RouteChange
       BY <1>11, <1>13 DEF RouteChange, redis, worker, ghosts
<1>14. CASE LockExpiry
       BY <1>11, <1>14 DEF LockExpiry, worker, ghosts
<1>15. CASE SnapshotExpiry
  <2>1. PICK t \in snap : snap' = snap \ {t} /\ Fault("expiry", {t})
        BY <1>15 DEF SnapshotExpiry
  <2>2. /\ t \in Task /\ t \in hit'
        /\ UNCHANGED <<lock, queue, dlq, calls, work, done, accepted>>
        BY <1>15, <2>1 DEF SnapshotExpiry, Fault, worker, ghosts, TypeInv, TypeOK
  <2>3. \A x \in Task \ {t} : SameQueue(x) /\ SameSnap(x) /\ NoLock(x)
        BY <2>1, <2>2, QueueKept DEF SameSnap, NoLock
  <2>4. \A x \in Task \ {t} : Idle(x)
        BY <2>2, <2>3, OthersIdle
  <2> QED BY <2>2, <2>4
<1>16. CASE UNCHANGED vars
       BY <1>11, <1>16 DEF vars, redis, worker, ghosts
<1> QED BY <1>1, <1>3, <1>4, <1>6, <1>7, <1>8, <1>9, <1>10, <1>12, <1>13, <1>14, <1>15, <1>16,
           CrashIdle, BrokerRestartIdle DEF Next

-----------------------------------------------------------------------------
\* PlaceInv, of one task.
Apart(t) ==
  /\ \A c \in CallsOf(t) :
       /\ c.pc \in SubmitPc \cup CompletePc \cup FailPc
       /\ Of(c) \in Piece /\ Of(c)[1] = t
       /\ Asks(c) => \E w \in WorkOn(t) : Of(w) = Of(c) /\ w.st = StOf(c)
       /\ c.pc = "purge" => Of(c) \in BuriedOf(t)
  /\ \A w \in WorkOn(t) :
       /\ Of(w) \in Piece /\ Of(w)[1] = t
       /\ w.st \in {"running", "completing", "reporting", "failing"}
       /\ w.st \in {"completing", "failing"} =>
            \E c \in CallsOf(t) : Asks(c) /\ Of(c) = Of(w) /\ StOf(c) = w.st
  /\ \A c, d \in CallsOf(t) : Of(c) = Of(d) =>
       /\ Holds(c) /\ Holds(d) => c = d
       /\ Asks(c) /\ Asks(d) => c = d
  /\ \A v, w \in WorkOn(t) : Of(v) = Of(w) => v = w
  /\ \A c \in CallsOf(t), w \in WorkOn(t) : Holds(c) /\ Of(c) = Of(w) => w.st = "failing"
  /\ \A p \in QueuedOf(t) :
       /\ \A c \in CallsOf(t) : Holds(c) => Of(c) # p
       /\ \A w \in WorkOn(t) : Of(w) # p
       /\ p \notin BuriedOf(t)
  /\ \A p \in BuriedOf(t) :
       /\ \A c \in CallsOf(t) : Holds(c) => Of(c) # p
       /\ \A w \in WorkOn(t) : Of(w) = p => w.st = "failing"

LEMMA PlaceApart ==
  ASSUME TypeInv, PlaceInv, NEW t \in Task
  PROVE  Apart(t)
<1>1. \A x : Of(x)[1] = x.item.task
      BY DEF Of, PieceOf
<1>2. ASSUME NEW c \in CallsOf(t)
      PROVE  /\ c \in calls /\ c.pc \in SubmitPc \cup CompletePc \cup FailPc
             /\ Of(c) \in Piece /\ Of(c)[1] = t
  <2>1. c \in calls /\ c \in Call /\ c.item.task = t /\ Numbered(c.item)
        BY DEF CallsOf, TypeInv, GoodCall
  <2> QED BY <2>1, CallFields, PieceType DEF Of
<1>3. ASSUME NEW w \in WorkOn(t)
      PROVE  /\ w \in work /\ w.st \in {"running", "completing", "reporting", "failing"}
             /\ Of(w) \in Piece /\ Of(w)[1] = t
  <2>1. w \in work /\ w \in Work /\ w.item.task = t /\ Numbered(w.item)
        BY DEF WorkOn, TypeInv, GoodWork
  <2> QED BY <2>1, WorkFields, PieceType DEF Of
<1>4. ASSUME NEW c \in CallsOf(t)
      PROVE  /\ Asks(c) => \E w \in WorkOn(t) : Of(w) = Of(c) /\ w.st = StOf(c)
             /\ c.pc = "purge" => Of(c) \in BuriedOf(t)
  <2>1. ASSUME Asks(c) PROVE \E w \in WorkOn(t) : Of(w) = Of(c) /\ w.st = StOf(c)
    <3>1. PICK w \in work : Of(w) = Of(c) /\ w.st = StOf(c)
          BY <2>1, <1>2 DEF PlaceInv, Attended
    <3> QED BY <3>1, <1>1, <1>2 DEF WorkOn
  <2> QED BY <2>1, <1>2 DEF PlaceInv, PurgeBuried, BuriedOf
<1>5. ASSUME NEW w \in WorkOn(t), w.st \in {"completing", "failing"}
      PROVE  \E c \in CallsOf(t) : Asks(c) /\ Of(c) = Of(w) /\ StOf(c) = w.st
  <2>1. PICK c \in calls : Asks(c) /\ Of(c) = Of(w) /\ StOf(c) = w.st
        BY <1>3, <1>5 DEF PlaceInv, Attending
  <2> QED BY <2>1, <1>1, <1>3 DEF CallsOf
<1>6. \A c, d \in CallsOf(t) : Of(c) = Of(d) =>
        (Holds(c) /\ Holds(d) => c = d) /\ (Asks(c) /\ Asks(d) => c = d)
      BY <1>2 DEF PlaceInv, CallsApart, AsksApart
<1>7. \A v, w \in WorkOn(t) : Of(v) = Of(w) => v = w
      BY <1>3 DEF PlaceInv, WorkApart
<1>8. \A c \in CallsOf(t), w \in WorkOn(t) : Holds(c) /\ Of(c) = Of(w) => w.st = "failing"
      BY <1>2, <1>3 DEF PlaceInv, CallOrWork
<1>9. ASSUME NEW p \in QueuedOf(t)
      PROVE  /\ \A c \in CallsOf(t) : Holds(c) => Of(c) # p
             /\ \A w \in WorkOn(t) : Of(w) # p
             /\ p \notin BuriedOf(t)
      BY <1>2, <1>3 DEF QueuedOf, Entry, PlaceInv, QueueAlone, NotCalled, BuriedOf
<1>10. ASSUME NEW p \in BuriedOf(t)
       PROVE  /\ \A c \in CallsOf(t) : Holds(c) => Of(c) # p
              /\ \A w \in WorkOn(t) : Of(w) = p => w.st = "failing"
       BY <1>2, <1>3 DEF PlaceInv, BuriedAlone, NotCalled, BuriedOf
<1> QED BY <1>2, <1>3, <1>4, <1>5, <1>6, <1>7, <1>8, <1>9, <1>10 DEF Apart

\* The call that asks about a piece: the only call, but for the steps before, and the
\* only execution.
LEMMA EndFacts ==
  ASSUME NEW t, Apart(t), Calm(t), NEW c \in CallsOf(t), c.pc \in CompletePc \cup FailPc
  PROVE  /\ \A d \in CallsOf(t) : Of(d) = Of(c) => d = c
         /\ \E w \in WorkOn(t) : /\ Of(w) = Of(c) /\ w.st = StOf(c)
                                 /\ \A v \in WorkOn(t) : Of(v) = Of(c) => v = w
         /\ Of(c) \notin QueuedOf(t)
<1>1. \A d \in CallsOf(t) : d.pc \in CompletePc \cup FailPc => Asks(d)
      BY DEF Calm, Asks, SubmitPc, CompletePc, FailPc
<1>2. PICK w \in WorkOn(t) : Of(w) = Of(c) /\ w.st = StOf(c)
      BY <1>1 DEF Apart
<1>3. \A v \in WorkOn(t) : Of(v) = Of(c) => v = w
      BY <1>2 DEF Apart
<1>4. Of(c) \notin QueuedOf(t)
      BY <1>2 DEF Apart
<1>5. ASSUME NEW d \in CallsOf(t), Of(d) = Of(c) PROVE d = c
  <2>1. CASE d.pc \in CompletePc \cup FailPc
        BY <1>1, <1>5, <2>1 DEF Apart
  <2>2. CASE d.pc \in SubmitPc
    <3>1. Holds(d)
          BY <2>2 DEF Holds
    <3>2. w.st = "failing"
          BY <1>2, <1>5, <3>1 DEF Apart
    <3>3. c.pc \in FailPc
          BY <1>2, <3>2 DEF StOf
    <3>4. CASE c.pc = "purge"
      <4>1. Of(c) \in BuriedOf(t)
            BY <3>4 DEF Apart
      <4> QED BY <4>1, <1>5, <3>1 DEF Apart
    <3>5. CASE c.pc # "purge"
      <4>1. Holds(c)
            BY <3>3, <3>5 DEF FailPc, Holds
      <4> QED BY <4>1, <1>5, <3>1 DEF Apart
    <3> QED BY <3>4, <3>5
  <2> QED BY <2>1, <2>2 DEF Apart
<1> QED BY <1>2, <1>3, <1>4, <1>5

\* A piece that was accepted and neither completed, buried nor queued has someone at it.
Kept(t, p) ==
  \/ p \in DoneOf(t) \cup BuriedOf(t) \cup QueuedOf(t)
  \/ \E w \in WorkOn(t) : Of(w) = p /\ w.st # "failing"
  \/ \E c \in CallsOf(t) : Of(c) = p /\ c.pc \in {"free", "requeue", "bury"}

LEMMA CalmIdle ==
  ASSUME NEW t, Calm(t), Idle(t)
  PROVE  Calm(t)'
BY DEF Calm, Idle, SameCalls, SameWork, SameQueue, SameAccepted, SameEnd

LEMMA CalmStep ==
  ASSUME NEW t, Apart(t), Calm(t), TaskStep(t)
  PROVE  Calm(t)'
<1>k. /\ \A p \in AcceptedOf(t) : Kept(t, p)
      /\ \A c \in CallsOf(t) : c.waiting
      /\ \A w \in WorkOn(t) : w.st # "reporting"
      /\ \A c \in CallsOf(t) : c.pc \in {"unlock", "forget"} => Of(c) \in DoneOf(t)
      /\ \A p \in DoneOf(t) :
           /\ p \notin QueuedOf(t)
           /\ \A c \in CallsOf(t) : Of(c) = p => c.pc \in {"unlock", "forget"}
           /\ \A w \in WorkOn(t) : Of(w) = p => w.st = "completing"
      BY DEF Calm, Kept
<1> DEFINE Waits == \A c \in CallsOf(t)' : c.waiting
           Works == \A w \in WorkOn(t)' : w.st # "reporting"
           Leaves == \A c \in CallsOf(t)' : c.pc \in {"unlock", "forget"} => Of(c) \in DoneOf(t)'
           Closed == \A p \in DoneOf(t)' :
                       /\ p \notin QueuedOf(t)'
                       /\ \A c \in CallsOf(t)' : Of(c) = p => c.pc \in {"unlock", "forget"}
                       /\ \A w \in WorkOn(t)' : Of(w) = p => w.st = "completing"
           Keeps == \A p \in AcceptedOf(t)' :
                      \/ p \in DoneOf(t)' \cup BuriedOf(t)' \cup QueuedOf(t)'
                      \/ \E w \in WorkOn(t)' : Of(w) = p /\ w.st # "failing"
                      \/ \E c \in CallsOf(t)' : Of(c) = p /\ c.pc \in {"free", "requeue", "bury"}
<1>z. ASSUME Waits, Works, Leaves, Closed, Keeps PROVE Calm(t)'
      BY <1>z DEF Calm
<1>o. \A c, d : d.item = c.item => Of(d) = Of(c)
      BY DEF Of
<1>s. CompletePc = {"seen", "unlock", "forget"} /\ FailPc = {"free", "requeue", "bury", "purge"}
      BY DEF CompletePc, FailPc
<1>1. ASSUME NEW c, Entered(t, c) PROVE Calm(t)'
  <2>1. Waits /\ Works /\ Leaves /\ Closed
        BY <1>1, <1>k DEF Entered, SameWork, SameQueue, SameEnd
  <2>2. Keeps
        BY <1>1, <1>k DEF Entered, SameWork, SameQueue, SameEnd, SameAccepted, Kept
  <2> QED BY <2>1, <2>2, <1>z
<1>2. ASSUME NEW c, Refused(t, c) PROVE Calm(t)'
  <2>1. Waits /\ Works /\ Leaves /\ Closed
        BY <1>2, <1>k DEF Refused, SameWork, SameQueue, SameEnd
  <2>2. Keeps
        BY <1>2, <1>k DEF Refused, SameWork, SameQueue, SameEnd, SameAccepted, Kept
  <2> QED BY <2>1, <2>2, <1>z
<1>3. ASSUME NEW c, NEW d, Turns(t, c, d), SameWork(t), SameQueue(t), SameAccepted(t), SameEnd(t),
             c.pc \notin {"unlock", "forget"}, d.pc \notin {"unlock", "forget"},
             c.pc \in {"free", "requeue", "bury"} => d.pc \in {"free", "requeue", "bury"}
      PROVE  Calm(t)'
  <2>1. Waits /\ Works /\ Leaves /\ Closed
        BY <1>3, <1>k, <1>o DEF Turns, SameWork, SameQueue, SameEnd
  <2>2. Keeps
        BY <1>3, <1>k, <1>o DEF Turns, SameWork, SameQueue, SameEnd, SameAccepted, Kept
  <2> QED BY <2>1, <2>2, <1>z
<1>4. ASSUME NEW c, Pushed(t, c) PROVE Calm(t)'
  <2>1. Waits /\ Works /\ Leaves
        BY <1>4, <1>k DEF Pushed, SameWork, SameEnd
  <2>2. Closed
        BY <1>4, <1>k DEF Pushed, SameWork, SameEnd
  <2>3. Keeps
        BY <1>4, <1>k DEF Pushed, SameWork, SameEnd, Kept
  <2> QED BY <2>1, <2>2, <2>3, <1>z
<1>5. ASSUME NEW w, Claimed(t, w) PROVE Calm(t)'
  <2>1. Waits /\ Works /\ Leaves
        BY <1>5, <1>k DEF Claimed, SameCalls, SameEnd
  <2>2. Closed
        BY <1>5, <1>k DEF Claimed, SameCalls, SameEnd
  <2>3. Keeps
        BY <1>5, <1>k DEF Claimed, SameCalls, SameEnd, SameAccepted, Kept
  <2> QED BY <2>1, <2>2, <2>3, <1>z
<1>6. ASSUME NEW w, NEW v, NEW c, Asked(t, w, v, c) PROVE Calm(t)'
  <2>0. Of(v) = Of(w) /\ Of(c) = Of(w) /\ Of(w) \notin DoneOf(t)
        BY <1>6, <1>k, <1>o DEF Asked
  <2>1. Waits /\ Works /\ Leaves
        BY <1>6, <1>k DEF Asked, SameEnd
  <2>2. Closed
        BY <1>6, <2>0, <1>k DEF Asked, SameQueue, SameEnd
  <2>3. Keeps
        BY <1>6, <2>0, <1>k DEF Asked, SameQueue, SameEnd, SameAccepted, Kept
  <2> QED BY <2>1, <2>2, <2>3, <1>z
<1>7. ASSUME NEW c, NEW d, Found(t, c, d) PROVE Calm(t)'
  <2>1. c \in CallsOf(t) /\ c.pc = "seen" /\ Of(d) = Of(c)
        BY <1>7, <1>o DEF Found, Turns
  <2>2. /\ \A x \in CallsOf(t) : Of(x) = Of(c) => x = c
        /\ \A v \in WorkOn(t) : Of(v) = Of(c) => v.st = "completing"
        /\ Of(c) \notin QueuedOf(t)
        BY <2>1, <1>s, EndFacts DEF StOf
  <2>3. Waits /\ Works /\ Leaves
        BY <1>7, <2>1, <1>k DEF Found, Turns, SameWork
  <2>4. Closed
        BY <1>7, <2>1, <2>2, <1>k DEF Found, Turns, SameWork, SameQueue
  <2>5. Keeps
        BY <1>7, <2>1, <1>k DEF Found, Turns, SameWork, SameQueue, SameAccepted, Kept
  <2> QED BY <2>3, <2>4, <2>5, <1>z
<1>8. ASSUME NEW c, Missed(t, c) PROVE Calm(t)'
  <2>1. c \in CallsOf(t) /\ c.pc = "seen"
        BY <1>8 DEF Missed, Ends
  <2>2. /\ \A x \in CallsOf(t) : Of(x) = Of(c) => x = c
        /\ Of(c) \notin QueuedOf(t)
        BY <2>1, <1>s, EndFacts
  <2>3. Waits /\ Works /\ Leaves
        BY <1>8, <1>k DEF Missed, Ends
  <2>4. Closed
        BY <1>8, <2>1, <2>2, <1>k DEF Missed, Ends, SameQueue
  <2>5. Keeps
        BY <1>8, <2>1, <1>k DEF Missed, Ends, SameQueue, SameAccepted, Kept
  <2> QED BY <2>3, <2>4, <2>5, <1>z
<1>9. ASSUME NEW c, NEW d, Unlocked(t, c, d) PROVE Calm(t)'
  <2>1. Waits /\ Works /\ Leaves /\ Closed
        BY <1>9, <1>k, <1>o DEF Unlocked, Turns, SameWork, SameQueue, SameEnd
  <2>2. Keeps
        BY <1>9, <1>k, <1>o DEF Unlocked, Turns, SameWork, SameQueue, SameEnd, SameAccepted, Kept
  <2> QED BY <2>1, <2>2, <1>z
<1>10. ASSUME NEW c, Forgot(t, c) PROVE Calm(t)'
  <2>0. Of(c) \in DoneOf(t) \cup BuriedOf(t)
        BY <1>10, <1>k DEF Forgot, Ends, Apart
  <2>1. Waits /\ Works /\ Leaves /\ Closed
        BY <1>10, <1>k DEF Forgot, Ends, SameQueue, SameEnd
  <2>2. Keeps
        BY <1>10, <2>0, <1>k DEF Forgot, Ends, SameQueue, SameEnd, SameAccepted, Kept
  <2> QED BY <2>1, <2>2, <1>z
<1>11. ASSUME NEW c, Requeued(t, c) PROVE Calm(t)'
  <2>0. Of(c) \notin DoneOf(t)
        BY <1>11, <1>k DEF Requeued, Ends
  <2>1. Waits /\ Works /\ Leaves
        BY <1>11, <1>k DEF Requeued, Ends, SameEnd
  <2>2. Closed
        BY <1>11, <2>0, <1>k DEF Requeued, Ends, SameEnd
  <2>3. Keeps
        BY <1>11, <1>k DEF Requeued, Ends, SameEnd, SameAccepted, Kept
  <2> QED BY <2>1, <2>2, <2>3, <1>z
<1>12. ASSUME NEW c, NEW d, Interred(t, c, d) PROVE Calm(t)'
  <2>1. Waits /\ Works /\ Leaves /\ Closed
        BY <1>12, <1>k, <1>o DEF Interred, Turns, SameWork, SameQueue
  <2>2. Keeps
        BY <1>12, <1>k, <1>o DEF Interred, Turns, SameWork, SameQueue, SameAccepted, Kept
  <2> QED BY <2>1, <2>2, <1>z
<1>13. ASSUME NEW c, NEW d, Checked(t, c, d) \/ Locked(t, c, d) \/ Saved(t, c, d) \/ Freed(t, c, d)
       PROVE  Calm(t)'
  <2>1. CASE Checked(t, c, d)
        BY <2>1, <1>3 DEF Checked
  <2>2. CASE Locked(t, c, d)
        BY <2>2, <1>3 DEF Locked
  <2>3. CASE Saved(t, c, d)
        BY <2>3, <1>3 DEF Saved
  <2>4. CASE Freed(t, c, d)
        BY <2>4, <1>3 DEF Freed
  <2> QED BY <1>13, <2>1, <2>2, <2>3, <2>4
<1> QED BY <1>1, <1>2, <1>4, <1>5, <1>6, <1>7, <1>8, <1>9, <1>10, <1>11, <1>12, <1>13
        DEF TaskStep, CallStep

LEMMA HitGrows ==
  ASSUME TypeInv, [Next]_vars
  PROVE  hit \subseteq hit'
<1>1. \A kind, ts : Fault(kind, ts) => hit \subseteq hit'
      BY DEF Fault
<1>2. \A o, c : Command(o, c) => hit \subseteq hit'
      BY <1>1 DEF Command, env
<1>3. ASSUME NEW c, HandlerStep(c) PROVE hit \subseteq hit'
      BY <1>2, <1>3 DEF HandlerStep, Check, Lock, Save, Enqueue, Seen, Unlock, Forget, Free, Requeue, Bury
<1>4. (UNCHANGED env) => hit \subseteq hit'
      BY DEF env
<1> QED BY <1>1, <1>3, <1>4
        DEF Next, vars, Submit, Claim, ClaimLost, Crash, Restart, WorkerStep, Complete, Fail,
            Report, ReportLost, Timeout, Drop, RouteChange, LockExpiry, SnapshotExpiry,
            BrokerRestart

LEMMA CalmInit == Init => CalmInv
BY DEF Init, CalmInv, Calm, CallsOf, WorkOn, DoneOf, AcceptedOf

LEMMA CalmNext == TypeInv /\ PlaceInv /\ CalmInv /\ [Next]_vars => CalmInv'
<1> SUFFICES ASSUME TypeInv, PlaceInv, CalmInv, [Next]_vars, NEW t \in Task \ hit'
             PROVE  Calm(t)'
    BY DEF CalmInv
<1>1. Idle(t) \/ TaskStep(t)
      BY Course
<1>2. t \notin hit
  <2>1. hit \subseteq hit'
        BY HitGrows
  <2> QED BY <2>1
<1> QED BY <1>1, <1>2, CalmIdle, CalmStep, PlaceApart DEF CalmInv

LEMMA CalmCorrect == Spec => [](TypeInv /\ PlaceInv /\ CalmInv)
<1>1. Init => TypeInv /\ PlaceInv /\ CalmInv
      BY TypeInit, PlaceInit, CalmInit
<1>2. TypeInv /\ PlaceInv /\ CalmInv /\ [Next]_vars => (TypeInv /\ PlaceInv /\ CalmInv)'
      BY TypeNext, PlaceNext, CalmNext
<1> QED BY <1>1, <1>2, PTL DEF Spec

\* The pieces of work a task is open with, looked for in one task.
OpenOf(t) ==
  {p \in Piece :
     /\ p[1] = t
     /\ \/ p \in QueuedOf(t)
        \/ \E w \in WorkOn(t) : Of(w) = p /\ w.st # "failing" /\ p \notin DoneOf(t)
        \/ \E c \in CallsOf(t) : Of(c) = p /\ c.pc \in {"free", "requeue", "bury"}}

LEMMA OpenSeen ==
  ASSUME TypeInv
  PROVE  /\ \A p \in Piece : Open(p) <=> p \in OpenOf(p[1])
         /\ \A t : Pieces(t) = OpenOf(t)
<1>q. \A n \in Node : DOMAIN queue[n] = 1..Len(queue[n])
      BY LenProperties DEF TypeInv, TypeOK
<1>1. ASSUME NEW p \in Piece PROVE Open(p) <=> p \in OpenOf(p[1])
  <2>1. InQueue(p) # {} <=> p \in QueuedOf(p[1])
    <3>1. ASSUME NEW n \in Node, NEW i \in 1..Len(queue[n]), PieceOf(queue[n][i]) = p
          PROVE  <<n, i>> \in InQueue(p)
          BY <3>1, <1>q DEF InQueue, Slots
    <3>2. ASSUME NEW s \in InQueue(p)
          PROVE  \E n \in Node : \E i \in 1..Len(queue[n]) : PieceOf(queue[n][i]) = p
      <4>1. PICK n \in Node : s \in {n} \X DOMAIN queue[n]
            BY DEF InQueue, Slots
      <4>2. s[1] = n /\ s[2] \in 1..Len(queue[n])
            BY <4>1, <1>q
      <4> QED BY <4>2 DEF InQueue
    <3> QED BY <3>1, <3>2 DEF QueuedOf, Entry
  <2>2. InWork(p) # {} <=> \E w \in WorkOn(p[1]) : Of(w) = p /\ w.st # "failing" /\ p \notin DoneOf(p[1])
    <3>1. \A w : Of(w) = p => w.item.task = p[1]
          BY DEF Of, PieceOf
    <3> QED BY <3>1 DEF InWork, Executions, WorkOn, Of, DoneOf
  <2>3. InFailure(p) # {} <=> \E c \in CallsOf(p[1]) : Of(c) = p /\ c.pc \in {"free", "requeue", "bury"}
    <3>1. \A c : Of(c) = p => c.item.task = p[1]
          BY DEF Of, PieceOf
    <3> QED BY <3>1 DEF InFailure, CallsOf, Of
  <2> QED BY <2>1, <2>2, <2>3 DEF Open, OpenOf
<1>2. \A t : Pieces(t) = OpenOf(t)
      BY <1>1 DEF Pieces, OpenOf
<1> QED BY <1>1, <1>2

\* A piece of a task no fault has touched is never open again once it is completed or
\* buried (api.rs:209-315): a completion leaves no entry and no execution behind, and
\* a buried task is in no list.
THEOREM ClosedCorrect == Spec => []ClosedStaysClosed
<1>1. TypeInv /\ PlaceInv /\ CalmInv => ClosedStaysClosed
  <2> SUFFICES ASSUME TypeInv, PlaceInv, CalmInv, NEW p \in done \cup dlq, p[1] \notin hit
               PROVE  ~Open(p)
      BY DEF ClosedStaysClosed
  <2>1. p \in Piece /\ p[1] \in Task
        BY BoundAssumption DEF TypeInv, TypeOK, Piece
  <2>2. Calm(p[1]) /\ Apart(p[1])
        BY <2>1, PlaceApart DEF CalmInv
  <2>3. p \in DoneOf(p[1]) \/ p \in BuriedOf(p[1])
        BY DEF DoneOf, BuriedOf
  <2>4. p \notin OpenOf(p[1])
        BY <2>2, <2>3 DEF OpenOf, Calm, Apart, Holds
  <2> QED BY <2>1, <2>4, OpenSeen
<1> QED BY <1>1, CalmCorrect, PTL

\* What a submitter was told is accepted is completed, buried or still open, whatever
\* happens to other tasks (api.rs:88-315, worker.py:190-275): no step of a handler, a
\* worker, the ring or an expiring key, and no fault, loses a task it does not touch.
THEOREM LossCorrect == Spec => []NothingLost
<1>1. TypeInv /\ PlaceInv /\ CalmInv => NothingLost
  <2> SUFFICES ASSUME TypeInv, PlaceInv, CalmInv, NEW p \in accepted, p[1] \notin hit
               PROVE  Open(p) \/ p \in done \/ p \in dlq
      BY DEF NothingLost
  <2>1. p \in Piece /\ p[1] \in Task
        BY BoundAssumption DEF TypeInv, TypeOK, Piece
  <2>2. Calm(p[1]) /\ p \in AcceptedOf(p[1])
        BY <2>1 DEF CalmInv, AcceptedOf
  <2>3. p \in OpenOf(p[1]) \/ p \in DoneOf(p[1]) \/ p \in BuriedOf(p[1])
        BY <2>1, <2>2 DEF OpenOf, Calm
  <2> QED BY <2>1, <2>3, OpenSeen DEF DoneOf, BuriedOf
<1> QED BY <1>1, CalmCorrect, PTL

-----------------------------------------------------------------------------
\* Where no task is submitted beside itself.

\* The pieces of a task that are past the point where their submission takes the
\* snapshot.
Late(t) ==
  QueuedOf(t) \cup {Of(w) : w \in WorkOn(t)}
    \cup {Of(c) : c \in {d \in CallsOf(t) : d.pc \notin {"check", "lock", "save"}}}

\* One submission is past that point, and it is the one that has the snapshot; the
\* lock is taken from the snapshot on, and given back before the piece is.
Single(t) ==
  /\ \A c, d \in CallsOf(t) : c.pc \in SubmitPc /\ d.pc \in SubmitPc => c = d
  /\ \A c \in CallsOf(t) : c.pc \in {"lock", "save"} => t \notin snap
  /\ \A p, q \in Late(t) : p = q
  /\ t \in snap <=> Late(t) # {}
  /\ \A c \in CallsOf(t) : c.pc \in {"forget", "requeue", "bury", "purge"} => t \notin lock
  /\ t \in lock => Late(t) # {} \/ \E c \in CallsOf(t) : c.pc = "save"

SingleInv == \A t \in Task \ hit : Single(t)

LEMMA LateFacts ==
  ASSUME NEW t
  PROVE  /\ \A p : p \in Late(t) <=>
              \/ p \in QueuedOf(t)
              \/ \E w \in WorkOn(t) : Of(w) = p
              \/ \E c \in CallsOf(t) : Of(c) = p /\ c.pc \notin {"check", "lock", "save"}
         /\ \A p : p \in Late(t)' <=>
              \/ p \in QueuedOf(t)'
              \/ \E w \in WorkOn(t)' : Of(w) = p
              \/ \E c \in CallsOf(t)' : Of(c) = p /\ c.pc \notin {"check", "lock", "save"}
BY DEF Late

LEMMA SingleIdle ==
  ASSUME NEW t, Single(t), Idle(t)
  PROVE  Single(t)'
BY DEF Single, Idle, SameCalls, SameWork, SameQueue, SameSnap, NoLock, Late

LEMMA SingleStep ==
  ASSUME Overlap = FALSE, NEW t, Apart(t), Calm(t), Single(t), TaskStep(t)
  PROVE  Single(t)'
<1>k. /\ \A c, d \in CallsOf(t) : c.pc \in SubmitPc /\ d.pc \in SubmitPc => c = d
      /\ \A c \in CallsOf(t) : c.pc \in {"lock", "save"} => t \notin snap
      /\ \A p, q \in Late(t) : p = q
      /\ t \in snap <=> Late(t) # {}
      /\ \A c \in CallsOf(t) : c.pc \in {"forget", "requeue", "bury", "purge"} => t \notin lock
      /\ t \in lock => Late(t) # {} \/ \E c \in CallsOf(t) : c.pc = "save"
      BY DEF Single
<1>c. \A c \in CallsOf(t) : c.waiting
      BY DEF Calm
<1>p. SubmitPc = {"check", "lock", "save", "push"}
      BY DEF SubmitPc
<1>o. \A c, d : d.item = c.item => Of(d) = Of(c)
      BY DEF Of
<1> DEFINE OneSubmit == \A c, d \in CallsOf(t)' : c.pc \in SubmitPc /\ d.pc \in SubmitPc => c = d
           Unsnapped == \A c \in CallsOf(t)' : c.pc \in {"lock", "save"} => t \notin snap'
           OneLate == \A p, q \in Late(t)' : p = q
           Snapped == t \in snap' <=> Late(t)' # {}
           Unlockd == \A c \in CallsOf(t)' :
                        c.pc \in {"forget", "requeue", "bury", "purge"} => t \notin lock'
           Owned == t \in lock' => Late(t)' # {} \/ \E c \in CallsOf(t)' : c.pc = "save"
<1>z. ASSUME OneSubmit, Unsnapped, OneLate, Snapped, Unlockd, Owned PROVE Single(t)'
      BY <1>z DEF Single
<1>l. \A c \in CallsOf(t) : c.pc \notin {"check", "lock", "save"} => Of(c) \in Late(t) /\ t \in snap
      BY <1>k, LateFacts
<1>1. ASSUME NEW c, Entered(t, c) PROVE Single(t)'
  <2>1. \A x \in CallsOf(t) : x.pc \notin SubmitPc
        BY <1>1, <1>c DEF Entered
  <2>2. Late(t)' = Late(t)
        BY <1>1, LateFacts DEF Entered, SameWork, SameQueue
  <2>3. OneSubmit /\ Unsnapped
        BY <1>1, <1>k, <2>1 DEF Entered, SameSnap
  <2>4. OneLate /\ Snapped
        BY <1>1, <1>k, <2>2 DEF Entered, SameSnap
  <2>5. Unlockd
        BY <1>1, <1>k DEF Entered, NoLock
  <2>6. Owned
        BY <1>1, <1>k, <2>2 DEF Entered, NoLock
  <2> QED BY <2>3, <2>4, <2>5, <2>6, <1>z
<1>2. ASSUME NEW c, Refused(t, c) PROVE Single(t)'
  <2>1. Late(t)' = Late(t)
    <3>1. \A p : p \in Late(t)' => p \in Late(t)
          BY <1>2, LateFacts DEF Refused, SameWork, SameQueue
    <3>2. \A p : p \in Late(t) => p \in Late(t)'
          BY <1>2, LateFacts DEF Refused, SameWork, SameQueue
    <3> QED BY <3>1, <3>2
  <2>2. OneSubmit /\ Unsnapped /\ OneLate /\ Snapped /\ Unlockd /\ Owned
        BY <1>2, <1>k, <2>1 DEF Refused, SameSnap, NoLock
  <2> QED BY <2>2, <1>z
<1>3. ASSUME NEW c, NEW d, Checked(t, c, d) PROVE Single(t)'
  <2>1. Late(t)' = Late(t)
    <3>1. \A p : p \in Late(t)' => p \in Late(t)
          BY <1>3, <1>o, LateFacts DEF Checked, Turns, SameWork, SameQueue
    <3>2. \A p : p \in Late(t) => p \in Late(t)'
          BY <1>3, <1>o, LateFacts DEF Checked, Turns, SameWork, SameQueue
    <3> QED BY <3>1, <3>2
  <2>2. OneSubmit /\ Unsnapped /\ OneLate /\ Snapped
        BY <1>3, <1>k, <1>p, <2>1 DEF Checked, Turns, SameSnap
  <2>3. Unlockd /\ Owned
        BY <1>3, <1>k, <2>1 DEF Checked, Turns, NoLock
  <2> QED BY <2>2, <2>3, <1>z
<1>4. ASSUME NEW c, NEW d, Locked(t, c, d) PROVE Single(t)'
  <2>1. Late(t)' = Late(t)
    <3>1. \A p : p \in Late(t)' => p \in Late(t)
          BY <1>4, <1>o, LateFacts DEF Locked, Turns, SameWork, SameQueue
    <3>2. \A p : p \in Late(t) => p \in Late(t)'
          BY <1>4, <1>o, LateFacts DEF Locked, Turns, SameWork, SameQueue
    <3> QED BY <3>1, <3>2
  <2>2. t \notin snap /\ \A x \in CallsOf(t) : x.pc \in {"check", "lock", "save"}
        BY <1>4, <1>k, <1>l DEF Locked, Turns
  <2>3. OneSubmit /\ Unsnapped /\ OneLate /\ Snapped
        BY <1>4, <1>k, <1>p, <2>1, <2>2 DEF Locked, Turns, SameSnap
  <2>4. Unlockd /\ Owned
        BY <1>4, <2>2 DEF Locked, Turns
  <2> QED BY <2>3, <2>4, <1>z
<1>5. ASSUME NEW c, NEW d, Saved(t, c, d) PROVE Single(t)'
  <2>1. t \notin snap /\ Late(t) = {} /\ Of(d) = Of(c)
        BY <1>5, <1>k, <1>o DEF Saved, Turns
  <2>2. Late(t)' = {Of(c)}
        BY <1>5, <2>1, LateFacts DEF Saved, Turns, SameWork, SameQueue
  <2>3. \A x \in CallsOf(t)' : x = d \/ x.pc \notin SubmitPc
        BY <1>5, <1>k, <1>p DEF Saved, Turns
  <2>4. OneSubmit /\ Unsnapped /\ OneLate /\ Snapped
        BY <1>5, <1>p, <2>2, <2>3 DEF Saved
  <2>5. Unlockd /\ Owned
        BY <1>5, <1>k, <2>2 DEF Saved, Turns, NoLock
  <2> QED BY <2>4, <2>5, <1>z
<1>6. ASSUME NEW c, Pushed(t, c) PROVE Single(t)'
  <2>1. Late(t)' = Late(t)
    <3>1. \A p : p \in Late(t)' => p \in Late(t)
          BY <1>6, LateFacts DEF Pushed, SameWork
    <3>2. \A p : p \in Late(t) => p \in Late(t)'
          BY <1>6, LateFacts DEF Pushed, SameWork
    <3> QED BY <3>1, <3>2
  <2>2. OneSubmit /\ Unsnapped /\ OneLate /\ Snapped /\ Unlockd
        BY <1>6, <1>k, <2>1 DEF Pushed, SameSnap, NoLock
  <2>3. Owned
        BY <1>6, <1>k, <2>1 DEF Pushed, NoLock
  <2> QED BY <2>2, <2>3, <1>z
<1>7. ASSUME NEW w, Claimed(t, w) PROVE Single(t)'
  <2>1. Late(t)' = Late(t)
    <3>1. \A p : p \in Late(t)' => p \in Late(t)
          BY <1>7, LateFacts DEF Claimed, SameCalls
    <3>2. \A p : p \in Late(t) => p \in Late(t)'
          BY <1>7, LateFacts DEF Claimed, SameCalls
    <3> QED BY <3>1, <3>2
  <2>2. OneSubmit /\ Unsnapped /\ OneLate /\ Snapped /\ Unlockd /\ Owned
        BY <1>7, <1>k, <2>1 DEF Claimed, SameCalls, SameSnap, NoLock
  <2> QED BY <2>2, <1>z
<1>8. ASSUME NEW w, NEW v, NEW c, Asked(t, w, v, c) PROVE Single(t)'
  <2>0. Of(v) = Of(w) /\ Of(c) = Of(w) /\ c.pc \notin SubmitPc
        BY <1>8, <1>o, <1>p DEF Asked
  <2>1. Late(t)' = Late(t)
    <3>1. \A p : p \in Late(t)' => p \in Late(t)
          BY <1>8, <2>0, LateFacts DEF Asked, SameQueue
    <3>2. \A p : p \in Late(t) => p \in Late(t)'
          BY <1>8, <2>0, LateFacts DEF Asked, SameQueue
    <3> QED BY <3>1, <3>2
  <2>2. OneSubmit /\ Unsnapped /\ OneLate /\ Snapped /\ Unlockd /\ Owned
        BY <1>8, <1>k, <2>0, <2>1 DEF Asked, SameSnap, NoLock
  <2> QED BY <2>2, <1>z
<1>9. ASSUME NEW c, NEW d, Turns(t, c, d), SameWork(t), SameQueue(t), SameSnap(t), NoLock(t),
             c.pc \notin SubmitPc, d.pc \notin SubmitPc,
             d.pc \in {"forget", "requeue", "bury", "purge"} =>
               t \notin lock' \/ c.pc \in {"forget", "requeue", "bury", "purge"}
      PROVE  Single(t)'
  <2>1. Late(t)' = Late(t)
    <3>1. \A p : p \in Late(t)' => p \in Late(t)
          BY <1>9, <1>o, <1>p, LateFacts DEF Turns, SameWork, SameQueue
    <3>2. \A p : p \in Late(t) => p \in Late(t)'
          BY <1>9, <1>o, <1>p, LateFacts DEF Turns, SameWork, SameQueue
    <3> QED BY <3>1, <3>2
  <2>2. OneSubmit /\ Unsnapped /\ OneLate /\ Snapped
        BY <1>9, <1>k, <1>p, <2>1 DEF Turns, SameSnap
  <2>3. Unlockd /\ Owned
        BY <1>9, <1>k, <1>p, <2>1 DEF Turns, NoLock
  <2> QED BY <2>2, <2>3, <1>z
<1>10. ASSUME NEW c, NEW d, Found(t, c, d) \/ Unlocked(t, c, d) \/ Freed(t, c, d) \/ Interred(t, c, d)
       PROVE  Single(t)'
  <2>1. CASE Found(t, c, d)
        BY <2>1, <1>9, <1>p DEF Found
  <2>2. CASE Unlocked(t, c, d)
        BY <2>2, <1>9, <1>p DEF Unlocked, NoLock
  <2>3. CASE Freed(t, c, d)
        BY <2>3, <1>9, <1>p DEF Freed, NoLock
  <2>4. CASE Interred(t, c, d)
        BY <2>4, <1>9, <1>p DEF Interred
  <2> QED BY <1>10, <2>1, <2>2, <2>3, <2>4
<1>11. ASSUME NEW c, Missed(t, c) PROVE Single(t)'
       BY <1>11, <1>l DEF Missed, Ends
<1>12. ASSUME NEW c, Forgot(t, c) PROVE Single(t)'
  <2>1. c \in CallsOf(t) /\ c.pc \in {"forget", "purge"}
        BY <1>12 DEF Forgot, Ends
  <2>2. \A p \in Late(t) : p = Of(c)
        BY <2>1, <1>k, <1>l
  <2>3. (\A x \in CallsOf(t) : Of(x) = Of(c) => x = c) /\ Of(c) \notin QueuedOf(t)
        BY <2>1, EndFacts DEF CompletePc, FailPc
  <2>4. Late(t)' = {}
        BY <1>12, <2>1, <2>2, <2>3, LateFacts DEF Forgot, Ends, SameQueue
  <2>5. t \notin lock'
        BY <1>12, <2>1, <1>k DEF Forgot, NoLock
  <2>6. OneSubmit /\ Unsnapped /\ OneLate /\ Snapped /\ Unlockd /\ Owned
        BY <1>12, <1>k, <2>4, <2>5 DEF Forgot, Ends
  <2> QED BY <2>6, <1>z
<1>13. ASSUME NEW c, Requeued(t, c) PROVE Single(t)'
  <2>1. c \in CallsOf(t) /\ c.pc = "requeue" /\ Of(c) \in Late(t)
        BY <1>13, <1>l DEF Requeued, Ends
  <2>2. Late(t) = {Of(c)}
        BY <2>1, <1>k
  <2>3. Late(t)' = {Of(c)}
        BY <1>13, <2>2, LateFacts DEF Requeued, Ends
  <2>4. t \notin lock'
        BY <1>13, <2>1, <1>k DEF Requeued, NoLock
  <2>5. OneSubmit /\ Unsnapped /\ OneLate /\ Snapped /\ Unlockd /\ Owned
        BY <1>13, <1>k, <2>2, <2>3, <2>4 DEF Requeued, Ends, SameSnap
  <2> QED BY <2>5, <1>z
<1> QED BY <1>1, <1>2, <1>3, <1>4, <1>5, <1>6, <1>7, <1>8, <1>10, <1>11, <1>12, <1>13
        DEF TaskStep, CallStep

LEMMA SingleInit == Init => SingleInv
<1> SUFFICES ASSUME Init, NEW t \in Task PROVE Single(t)
    BY DEF SingleInv
<1>1. CallsOf(t) = {} /\ WorkOn(t) = {}
      BY DEF Init, CallsOf, WorkOn
<1>2. QueuedOf(t) = {}
      BY EmptySeq DEF Init, QueuedOf, Entry
<1>3. Late(t) = {}
      BY <1>1, <1>2, LateFacts
<1> QED BY <1>1, <1>3 DEF Init, Single

LEMMA SingleNext ==
  Overlap = FALSE /\ TypeInv /\ PlaceInv /\ CalmInv /\ SingleInv /\ [Next]_vars => SingleInv'
<1> SUFFICES ASSUME Overlap = FALSE, TypeInv, PlaceInv, CalmInv, SingleInv, [Next]_vars,
                    NEW t \in Task \ hit'
             PROVE  Single(t)'
    BY DEF SingleInv
<1>1. Idle(t) \/ TaskStep(t)
      BY Course
<1>2. t \notin hit
      BY HitGrows
<1> QED BY <1>1, <1>2, SingleIdle, SingleStep, PlaceApart DEF CalmInv, SingleInv

BrokerInv == TypeInv /\ PlaceInv /\ CalmInv /\ SingleInv

LEMMA BrokerNext ==
  Overlap = FALSE /\ BrokerInv /\ [Next]_vars => BrokerInv'
BY TypeNext, PlaceNext, CalmNext, SingleNext DEF BrokerInv

LEMMA BrokerCorrect == ASSUME Overlap = FALSE PROVE Spec => []BrokerInv
<1>1. Init => BrokerInv
      BY TypeInit, PlaceInit, CalmInit, SingleInit DEF BrokerInv
<1>2. BrokerInv /\ [Next]_vars => BrokerInv'
      BY BrokerNext
<1> QED BY <1>1, <1>2, PTL DEF Spec

LEMMA OpenIsLate ==
  ASSUME NEW t
  PROVE  OpenOf(t) \subseteq Late(t)
BY LateFacts DEF OpenOf

\* No task that no fault has touched is open twice, so no two workers hold it: a
\* submission is let in only when the one before is closed (api.rs:131-165).
THEOREM SubmissionsCorrect == ASSUME Overlap = FALSE PROVE Spec => []OneSubmissionOpen
<1>1. BrokerInv => OneSubmissionOpen
  <2> SUFFICES ASSUME BrokerInv, NEW t \in Task \ hit PROVE Cardinality(Pieces(t)) <= 1
      BY DEF OneSubmissionOpen
  <2>1. \A p, q \in Pieces(t) : p = q
        BY OpenSeen, OpenIsLate DEF BrokerInv, SingleInv, Single
  <2> QED BY <2>1, AtMostOne
<1> QED BY <1>1, BrokerCorrect, PTL

\* An open task that no fault has touched has its snapshot, from before it was first
\* pushed until a completion or a burial removes it (api.rs:146, 211, 318): no
\* completion of it is taken for a duplicate, no resubmission let in beside it.
THEOREM SnapshotCorrect == ASSUME Overlap = FALSE PROVE Spec => []SnapshotCoversWork
<1>1. BrokerInv => SnapshotCoversWork
      BY OpenSeen, OpenIsLate DEF BrokerInv, SingleInv, Single, SnapshotCoversWork
<1> QED BY <1>1, BrokerCorrect, PTL

\* A snapshot or a lock of a task that no fault has touched, for which a resubmission
\* would be refused, belongs to an open piece of work or to a handler that will remove
\* it (api.rs:131-165, 205-230, 318-325): nothing is refused for a task nobody has.
THEOREM RefusalCorrect == ASSUME Overlap = FALSE PROVE Spec => []RefusalHasOwner
<1>1. BrokerInv => RefusalHasOwner
  <2> SUFFICES ASSUME BrokerInv, NEW t \in (snap \cup lock) \ hit, OpenOf(t) = {}
               PROVE  \E c \in CallsOf(t) : c.pc \in {"save", "push", "unlock", "forget", "purge"}
      BY OpenSeen DEF RefusalHasOwner, CallsOf, BrokerInv
  <2>1. t \in Task
        BY DEF BrokerInv, TypeInv, TypeOK
  <2>2. Apart(t) /\ Calm(t) /\ Single(t)
        BY <2>1, PlaceApart DEF BrokerInv, CalmInv, SingleInv
  <2>3. Late(t) # {} \/ \E c \in CallsOf(t) : c.pc = "save"
        BY <2>2 DEF Single
  <2>4. \A p \in QueuedOf(t) : p \in OpenOf(t)
        BY DEF OpenOf, QueuedOf
  <2>5. ASSUME NEW c \in CallsOf(t), c.pc \notin {"check", "lock", "save"}
        PROVE  c.pc \in {"push", "unlock", "forget", "purge"}
    <3>1. c.pc \notin {"free", "requeue", "bury"}
          BY <2>2 DEF Apart, OpenOf
    <3>2. ASSUME c.pc = "seen" PROVE FALSE
      <4>1. PICK w \in WorkOn(t) : Of(w) = Of(c) /\ w.st = "completing"
            BY <2>2, <3>2, EndFacts DEF CompletePc, StOf
      <4>2. Of(c) \notin DoneOf(t)
            BY <2>2, <3>2 DEF Calm
      <4>3. Of(w) \in OpenOf(t)
            BY <2>2, <4>1, <4>2 DEF OpenOf, Apart
      <4> QED BY <4>3
    <3> QED BY <2>2, <2>5, <3>1, <3>2 DEF Apart, SubmitPc, CompletePc, FailPc
  <2>6. ASSUME NEW w \in WorkOn(t)
        PROVE  \E c \in CallsOf(t) : c.pc \notin {"check", "lock", "save"}
    <3>1. w.st = "failing" \/ Of(w) \in DoneOf(t)
          BY <2>2 DEF OpenOf, Apart
    <3>2. w.st \in {"completing", "failing"}
          BY <2>2, <3>1 DEF Calm
    <3>3. PICK c \in CallsOf(t) : Asks(c)
          BY <2>2, <3>2 DEF Apart
    <3> QED BY <3>3 DEF Asks, SubmitPc
  <2> QED BY <2>3, <2>4, <2>5, <2>6, LateFacts
<1> QED BY <1>1, BrokerCorrect, PTL

-----------------------------------------------------------------------------
\* The broker implements the ledger, step by step, where nothing fails.

Steady(t) == SameEnd(t) /\ (OpenOf(t)' = {} <=> OpenOf(t) = {})
Opens(t) == SameEnd(t) /\ OpenOf(t) = {} /\ OpenOf(t)' # {}
Completes(t) ==
  /\ OpenOf(t) # {} /\ OpenOf(t)' = {} /\ BuriedOf(t)' = BuriedOf(t)
  /\ \E p : p \notin DoneOf(t) /\ DoneOf(t)' = DoneOf(t) \cup {p}
Buries(t) ==
  /\ OpenOf(t) # {} /\ OpenOf(t)' = {} /\ DoneOf(t)' = DoneOf(t)
  /\ \E p : p \notin BuriedOf(t) /\ BuriedOf(t)' = BuriedOf(t) \cup {p}

LEMMA OpenFacts ==
  ASSUME NEW t
  PROVE  /\ \A p : p \in OpenOf(t) <=>
              /\ p \in Piece /\ p[1] = t
              /\ \/ p \in QueuedOf(t)
                 \/ \E w \in WorkOn(t) : Of(w) = p /\ w.st # "failing" /\ p \notin DoneOf(t)
                 \/ \E c \in CallsOf(t) : Of(c) = p /\ c.pc \in {"free", "requeue", "bury"}
         /\ \A p : p \in OpenOf(t)' <=>
              /\ p \in Piece /\ p[1] = t
              /\ \/ p \in QueuedOf(t)'
                 \/ \E w \in WorkOn(t)' : Of(w) = p /\ w.st # "failing" /\ p \notin DoneOf(t)'
                 \/ \E c \in CallsOf(t)' : Of(c) = p /\ c.pc \in {"free", "requeue", "bury"}
BY DEF OpenOf

LEMMA LedgerIdle ==
  ASSUME NEW t, Idle(t)
  PROVE  Steady(t)
BY DEF Steady, Idle, SameCalls, SameWork, SameQueue, SameEnd, OpenOf

LEMMA LedgerStep ==
  ASSUME NEW t, Apart(t), Calm(t), Single(t), TaskStep(t)
  PROVE  Steady(t) \/ Opens(t) \/ Completes(t) \/ Buries(t)
<1>k. /\ \A c \in CallsOf(t) : c.waiting /\ Of(c) \in Piece /\ Of(c)[1] = t
      /\ \A w \in WorkOn(t) : Of(w) \in Piece /\ Of(w)[1] = t
      /\ \A p \in QueuedOf(t) : p \in Piece /\ p[1] = t
      /\ \A p, q \in Late(t) : p = q
      /\ \A p \in OpenOf(t) : p \in Late(t)
      /\ \A p \in DoneOf(t) :
           /\ \A c \in CallsOf(t) : Of(c) = p => c.pc \in {"unlock", "forget"}
           /\ \A w \in WorkOn(t) : Of(w) = p => w.st = "completing"
      BY OpenIsLate DEF Apart, Calm, Single, QueuedOf
<1>l. \A c \in CallsOf(t) : c.pc \notin {"check", "lock", "save"} => Of(c) \in Late(t)
      BY LateFacts
<1>o. \A c, d : d.item = c.item => Of(d) = Of(c)
      BY DEF Of
<1>s. ASSUME SameEnd(t), \A p : p \in OpenOf(t)' <=> p \in OpenOf(t) PROVE Steady(t)
      BY <1>s DEF Steady
<1>1. ASSUME NEW c, Entered(t, c) \/ Refused(t, c) PROVE Steady(t)
  <2>1. \A p : p \in OpenOf(t)' <=> p \in OpenOf(t)
        BY <1>1, OpenFacts DEF Entered, Refused, SameWork, SameQueue, SameEnd
  <2> QED BY <1>1, <2>1, <1>s DEF Entered, Refused
<1>2. ASSUME NEW c, NEW d, Turns(t, c, d), SameWork(t), SameQueue(t), SameEnd(t),
             c.pc \in {"free", "requeue", "bury"} <=> d.pc \in {"free", "requeue", "bury"}
      PROVE  Steady(t)
  <2>1. \A p : p \in OpenOf(t)' <=> p \in OpenOf(t)
        BY <1>2, <1>o, OpenFacts DEF Turns, SameWork, SameQueue, SameEnd
  <2> QED BY <1>2, <2>1, <1>s
<1>3. ASSUME NEW c, NEW d, Checked(t, c, d) \/ Locked(t, c, d) \/ Saved(t, c, d)
                             \/ Unlocked(t, c, d) \/ Freed(t, c, d)
      PROVE  Steady(t)
  <2>1. CASE Checked(t, c, d)
        BY <2>1, <1>2 DEF Checked
  <2>2. CASE Locked(t, c, d)
        BY <2>2, <1>2 DEF Locked
  <2>3. CASE Saved(t, c, d)
        BY <2>3, <1>2 DEF Saved
  <2>4. CASE Unlocked(t, c, d)
        BY <2>4, <1>2 DEF Unlocked
  <2>5. CASE Freed(t, c, d)
        BY <2>5, <1>2 DEF Freed
  <2> QED BY <1>3, <2>1, <2>2, <2>3, <2>4, <2>5
<1>4. ASSUME NEW c, Pushed(t, c) PROVE Opens(t)
  <2>1. c \in CallsOf(t) /\ c.pc = "push" /\ Of(c) \in Late(t) /\ Holds(c)
        BY <1>4, <1>l DEF Pushed, Holds, SubmitPc
  <2>2. OpenOf(t) = {}
    <3> SUFFICES ASSUME NEW p \in OpenOf(t) PROVE FALSE
        OBVIOUS
    <3>1. p = Of(c)
          BY <2>1, <1>k
    <3>2. p \notin QueuedOf(t)
          BY <2>1, <3>1 DEF Apart
    <3>3. \A w \in WorkOn(t) : Of(w) = p => w.st = "failing"
          BY <2>1, <3>1 DEF Apart
    <3>4. ASSUME NEW d \in CallsOf(t), Of(d) = p, d.pc \in {"free", "requeue", "bury"}
          PROVE  FALSE
      <4>1. Holds(d)
            BY <3>4 DEF Holds
      <4>2. d = c
            BY <2>1, <3>1, <3>4, <4>1 DEF Apart
      <4> QED BY <2>1, <3>4, <4>2
    <3> QED BY <3>2, <3>3, <3>4, OpenFacts
  <2>3. Of(c) \in OpenOf(t)'
        BY <1>4, <2>1, <1>k, OpenFacts DEF Pushed
  <2> QED BY <1>4, <2>2, <2>3 DEF Pushed, Opens
<1>5. ASSUME NEW w, Claimed(t, w) PROVE Steady(t)
  <2>1. Of(w) \in QueuedOf(t) /\ Of(w) \notin DoneOf(t)
        BY <1>5 DEF Claimed, Calm
  <2>2. \A p : p \in OpenOf(t)' => p \in OpenOf(t)
        BY <1>5, <2>1, OpenFacts DEF Claimed, SameCalls, SameEnd
  <2>3. \A p : p \in OpenOf(t) => p \in OpenOf(t)'
        BY <1>5, <2>1, OpenFacts DEF Claimed, SameCalls, SameEnd
  <2> QED BY <1>5, <2>2, <2>3, <1>s DEF Claimed
<1>6. ASSUME NEW w, NEW v, NEW c, Asked(t, w, v, c) PROVE Steady(t)
  <2>1. /\ w \in WorkOn(t) /\ w.st = "running" /\ Of(v) = Of(w) /\ Of(c) = Of(w)
        /\ Of(w) \notin DoneOf(t)
        BY <1>6, <1>k, <1>o DEF Asked
  <2>2. \A p : p \in OpenOf(t)' => p \in OpenOf(t)
        BY <1>6, <2>1, OpenFacts DEF Asked, SameQueue, SameEnd
  <2>3. \A p : p \in OpenOf(t) => p \in OpenOf(t)'
    <3>1. Of(w) \in OpenOf(t)'
      <4>1. Of(w) \in Piece /\ Of(w)[1] = t /\ DoneOf(t)' = DoneOf(t)
            BY <1>6, <2>1, <1>k DEF Asked, SameEnd
      <4>2. CASE v.st = "completing"
        <5>1. v \in WorkOn(t)' /\ Of(v) = Of(w) /\ v.st # "failing" /\ Of(w) \notin DoneOf(t)'
              BY <1>6, <2>1, <4>1, <4>2 DEF Asked
        <5> QED BY <4>1, <5>1, OpenFacts
      <4>3. CASE c.pc = "free"
        <5>1. c \in CallsOf(t)' /\ Of(c) = Of(w) /\ c.pc \in {"free", "requeue", "bury"}
              BY <1>6, <2>1, <4>3 DEF Asked
        <5> QED BY <4>1, <5>1, OpenFacts
      <4> QED BY <1>6, <4>2, <4>3 DEF Asked
    <3>2. \A p : p \in OpenOf(t) /\ p # Of(w) => p \in OpenOf(t)'
          BY <1>6, <2>1, OpenFacts DEF Asked, SameQueue, SameEnd
    <3> QED BY <3>1, <3>2
  <2> QED BY <1>6, <2>2, <2>3, <1>s DEF Asked
<1>7. ASSUME NEW c, c \in CallsOf(t), c.pc = "seen", SameQueue(t),
             DoneOf(t)' = DoneOf(t) \cup {Of(c)}, BuriedOf(t)' = BuriedOf(t),
             WorkOn(t)' \subseteq WorkOn(t),
             \A x \in CallsOf(t)' : x.pc \in {"free", "requeue", "bury"} => x \in CallsOf(t)
      PROVE  Completes(t)
  <2>1. /\ \A d \in CallsOf(t) : Of(d) = Of(c) => d = c
        /\ \E w \in WorkOn(t) : Of(w) = Of(c) /\ w.st = StOf(c)
        /\ Of(c) \notin QueuedOf(t)
        BY <1>7, EndFacts DEF CompletePc
  <2>2. Of(c) \notin DoneOf(t)
        BY <1>7, <1>k
  <2>3. Of(c) \in OpenOf(t)
        BY <1>7, <2>1, <2>2, <1>k, OpenFacts DEF StOf, CompletePc
  <2>4. Of(c) \notin OpenOf(t)'
        BY <1>7, <2>1, OpenFacts DEF SameQueue
  <2>5. \A p : p \in OpenOf(t)' => p \in OpenOf(t)
        BY <1>7, OpenFacts DEF SameQueue
  <2>6. OpenOf(t)' = {}
        BY <2>3, <2>4, <2>5, <1>k
  <2> QED BY <1>7, <2>2, <2>3, <2>6 DEF Completes
<1>8. ASSUME NEW c, Missed(t, c) PROVE Completes(t)
      BY <1>8, <1>7 DEF Missed, Ends
<1>9. ASSUME NEW c, NEW d, Found(t, c, d) PROVE Completes(t)
  <2>1. \A x \in CallsOf(t)' : x.pc \in {"free", "requeue", "bury"} => x \in CallsOf(t)
        BY <1>9 DEF Found, Turns
  <2> QED BY <1>9, <2>1, <1>7 DEF Found, Turns, SameWork
<1>10. ASSUME NEW c, Forgot(t, c) PROVE Steady(t)
  <2>1. c \in CallsOf(t) /\ c.pc \in {"forget", "purge"}
        BY <1>10 DEF Forgot, Ends
  <2>2. Of(c) \in DoneOf(t) \/ \A w \in WorkOn(t) : Of(w) = Of(c) => w.st = "failing"
        BY <2>1 DEF Calm, Apart
  <2>3. \A p : p \in OpenOf(t)' => p \in OpenOf(t)
        BY <1>10, OpenFacts DEF Forgot, Ends, SameQueue, SameEnd
  <2>4. \A p : p \in OpenOf(t) => p \in OpenOf(t)'
        BY <1>10, <2>1, <2>2, OpenFacts DEF Forgot, Ends, SameQueue, SameEnd
  <2> QED BY <1>10, <2>3, <2>4, <1>s DEF Forgot
<1>11. ASSUME NEW c, Requeued(t, c) PROVE Steady(t)
  <2>1. c \in CallsOf(t) /\ c.pc = "requeue"
        BY <1>11 DEF Requeued, Ends
  <2>2. Of(c) \in OpenOf(t) /\ Of(c) \in OpenOf(t)'
        BY <1>11, <2>1, <1>k, OpenFacts DEF Requeued
  <2> QED BY <1>11, <2>2 DEF Requeued, Steady
<1>12. ASSUME NEW c, NEW d, Interred(t, c, d) PROVE Buries(t)
  <2>1. c \in CallsOf(t) /\ c.pc = "bury" /\ d.pc = "purge" /\ Holds(c)
        BY <1>12 DEF Interred, Turns, Holds
  <2>2. /\ \A x \in CallsOf(t) : Of(x) = Of(c) => x = c
        /\ \A w \in WorkOn(t) : Of(w) = Of(c) => w.st = "failing"
        /\ Of(c) \notin QueuedOf(t)
        BY <2>1, EndFacts DEF CompletePc, FailPc, StOf
  <2>3. Of(c) \notin BuriedOf(t)
        BY <2>1 DEF Apart
  <2>4. Of(c) \in OpenOf(t)
        BY <2>1, <1>k, OpenFacts
  <2>5. \A p : p \in OpenOf(t)' => p \in OpenOf(t)
        BY <1>12, <2>1, OpenFacts DEF Interred, Turns, SameWork, SameQueue
  <2>6. Of(c) \notin OpenOf(t)'
        BY <1>12, <2>1, <2>2, OpenFacts DEF Interred, Turns, SameWork, SameQueue
  <2>7. OpenOf(t)' = {}
        BY <2>4, <2>5, <2>6, <1>k
  <2> QED BY <1>12, <2>3, <2>4, <2>7 DEF Interred, Buries
<1> QED BY <1>1, <1>3, <1>4, <1>5, <1>6, <1>8, <1>9, <1>10, <1>11, <1>12
        DEF TaskStep, CallStep

\* Without faults no task is touched.
LEMMA Untouched ==
  ASSUME Faults = {}, [Next]_vars
  PROVE  hit' = hit
<1>1. \A kind, ts : ~Fault(kind, ts)
      BY DEF Fault
<1>2. \A o, c : Command(o, c) => hit' = hit
      BY <1>1 DEF Command, env
<1>3. ASSUME NEW c, HandlerStep(c) PROVE hit' = hit
      BY <1>2, <1>3 DEF HandlerStep, Check, Lock, Save, Enqueue, Seen, Unlock, Forget, Free, Requeue, Bury
<1>4. (UNCHANGED env) => hit' = hit
      BY DEF env
<1> QED BY <1>1, <1>3, <1>4
        DEF Next, vars, Submit, Claim, ClaimLost, Crash, Restart, WorkerStep, Complete, Fail,
            Report, ReportLost, Timeout, Drop, RouteChange, LockExpiry, SnapshotExpiry,
            BrokerRestart

LEMMA FewPieces ==
  ASSUME TypeInv, NEW t \in Task
  PROVE  IsFiniteSet(DoneOf(t)) /\ IsFiniteSet(BuriedOf(t))
<1>1. MaxSubmits[t] \in Nat
      BY BoundAssumption
<1>2. IsFiniteSet(1..MaxSubmits[t])
      BY <1>1, FS_Interval
<1>3. IsFiniteSet({t} \X (1..MaxSubmits[t]))
      BY <1>2, FS_Singleton, FS_Product
<1>4. \A p \in Piece : p[1] = t => p \in {t} \X (1..MaxSubmits[t])
      BY DEF Piece
<1>5. /\ DoneOf(t) \in SUBSET ({t} \X (1..MaxSubmits[t]))
      /\ BuriedOf(t) \in SUBSET ({t} \X (1..MaxSubmits[t]))
      BY <1>4 DEF DoneOf, BuriedOf, TypeInv, TypeOK
<1> QED BY <1>3, <1>5, FS_Subset

\* The state of the ledger, task by task: the open tasks, and how often each was closed.
SeenByTask ==
  /\ {t \in Task : Pieces(t) # {}} = {t \in Task : OpenOf(t) # {}}
  /\ [t \in Task |-> Cardinality({p \in done : p[1] = t})]
       = [t \in Task |-> Cardinality(DoneOf(t))]
  /\ [t \in Task |-> Cardinality({p \in dlq : p[1] = t})]
       = [t \in Task |-> Cardinality(BuriedOf(t))]

LEMMA LedgerState == TypeInv => SeenByTask
BY OpenSeen DEF SeenByTask, DoneOf, BuriedOf

LEMMA LedgerNext ==
  Overlap = FALSE /\ Faults = {} /\ BrokerInv /\ hit = {} /\ [Next]_vars
    => [Ledger!Next]_(Ledger!ledger)
<1> SUFFICES ASSUME Overlap = FALSE, Faults = {}, BrokerInv, hit = {}, [Next]_vars
             PROVE  [Ledger!Next]_(Ledger!ledger)
    OBVIOUS
<1> DEFINE opn == {t \in Task : OpenOf(t) # {}}
           completed == [t \in Task |-> Cardinality(DoneOf(t))]
           buried == [t \in Task |-> Cardinality(BuriedOf(t))]
<1>a. TypeInv /\ PlaceInv /\ CalmInv /\ SingleInv
      BY DEF BrokerInv
<1>b. TypeInv'
      BY <1>a, TypeNext
<1>h. hit' = {}
      BY Untouched
<1>s. /\ {t \in Task : Pieces(t) # {}} = opn
      /\ [t \in Task |-> Cardinality({p \in done : p[1] = t})] = completed
      /\ [t \in Task |-> Cardinality({p \in dlq : p[1] = t})] = buried
      BY <1>a, LedgerState DEF SeenByTask
<1>t. /\ {t \in Task : Pieces(t) # {}}' = opn'
      /\ [t \in Task |-> Cardinality({p \in done : p[1] = t})]' = completed'
      /\ [t \in Task |-> Cardinality({p \in dlq : p[1] = t})]' = buried'
  <2>1. SeenByTask'
        BY <1>b, LedgerState, PTL
  <2> QED BY <2>1 DEF SeenByTask
<1>f. \A t \in Task : IsFiniteSet(DoneOf(t)) /\ IsFiniteSet(BuriedOf(t))
      BY <1>a, FewPieces
<1>o. /\ opn' = {t \in Task : OpenOf(t)' # {}}
      /\ completed' = [t \in Task |-> Cardinality(DoneOf(t)')]
      /\ buried' = [t \in Task |-> Cardinality(BuriedOf(t)')]
      OBVIOUS
<1>1. CASE \A t \in Task : Idle(t)
  <2>1. \A t \in Task : Steady(t)
        BY <1>1, LedgerIdle
  <2>2. opn' = opn /\ completed' = completed /\ buried' = buried
        BY <2>1, <1>o DEF Steady, SameEnd
  <2> HIDE DEF opn, completed, buried
  <2> QED BY <2>2, <1>s, <1>t DEF Ledger!ledger
<1>2. ASSUME NEW u \in Task, \A t \in Task \ {u} : Idle(t), TaskStep(u)
      PROVE  [Ledger!Next]_(Ledger!ledger)
  <2>1. \A t \in Task \ {u} : Steady(t)
        BY <1>2, LedgerIdle
  <2>2. Steady(u) \/ Opens(u) \/ Completes(u) \/ Buries(u)
    <3>1. Apart(u) /\ Calm(u) /\ Single(u)
          BY <1>a, PlaceApart DEF CalmInv, SingleInv
    <3> QED BY <3>1, <1>2, LedgerStep
  <2>3. CASE Steady(u)
    <3>1. opn' = opn /\ completed' = completed /\ buried' = buried
          BY <2>1, <2>3, <1>o DEF Steady, SameEnd
    <3> HIDE DEF opn, completed, buried
    <3> QED BY <3>1, <1>s, <1>t DEF Ledger!ledger
  <2>4. CASE Opens(u)
    <3>1. u \notin opn /\ opn' = opn \cup {u} /\ completed' = completed /\ buried' = buried
          BY <2>1, <2>4, <1>o DEF Steady, Opens, SameEnd
    <3> HIDE DEF opn, completed, buried
    <3>2. Ledger!Open(u)
          BY <3>1, <1>s, <1>t DEF Ledger!Open
    <3> QED BY <3>2 DEF Ledger!Next
  <2>5. CASE Completes(u)
    <3>1. PICK p : p \notin DoneOf(u) /\ DoneOf(u)' = DoneOf(u) \cup {p}
          BY <2>5 DEF Completes
    <3>2. Cardinality(DoneOf(u)') = Cardinality(DoneOf(u)) + 1
          BY <3>1, <1>f, FS_AddElement
    <3>3. u \in opn /\ opn' = opn \ {u} /\ buried' = buried
          BY <2>1, <2>5, <1>o DEF Steady, Completes, SameEnd
    <3>4. completed' = [completed EXCEPT ![u] = completed[u] + 1]
          BY <2>1, <3>2, <1>o DEF Steady, SameEnd
    <3> HIDE DEF opn, completed, buried
    <3>5. Ledger!Complete(u)
          BY <3>3, <3>4, <1>s, <1>t DEF Ledger!Complete
    <3> QED BY <3>5 DEF Ledger!Next
  <2>6. CASE Buries(u)
    <3>1. PICK p : p \notin BuriedOf(u) /\ BuriedOf(u)' = BuriedOf(u) \cup {p}
          BY <2>6 DEF Buries
    <3>2. Cardinality(BuriedOf(u)') = Cardinality(BuriedOf(u)) + 1
          BY <3>1, <1>f, FS_AddElement
    <3>3. u \in opn /\ opn' = opn \ {u} /\ completed' = completed
          BY <2>1, <2>6, <1>o DEF Steady, Buries, SameEnd
    <3>4. buried' = [buried EXCEPT ![u] = buried[u] + 1]
          BY <2>1, <3>2, <1>o DEF Steady, SameEnd
    <3> HIDE DEF opn, completed, buried
    <3>5. Ledger!Bury(u)
          BY <3>3, <3>4, <1>s, <1>t DEF Ledger!Bury
    <3> QED BY <3>5 DEF Ledger!Next
  <2> QED BY <2>2, <2>3, <2>4, <2>5, <2>6
<1> QED BY <1>1, <1>2, <1>a, <1>h, Course

LEMMA LedgerInit == Init => Ledger!Init
<1> SUFFICES ASSUME Init PROVE Ledger!Init
    OBVIOUS
<1>1. \A t \in Task : Pieces(t) = {}
  <2>1. \A t : CallsOf(t) = {} /\ WorkOn(t) = {}
        BY DEF Init, CallsOf, WorkOn
  <2>2. \A t : QueuedOf(t) = {}
        BY EmptySeq DEF Init, QueuedOf, Entry
  <2> QED BY <2>1, <2>2, TypeInit, OpenSeen DEF OpenOf
<1>2. /\ \A t : {p \in done : p[1] = t} = {} /\ {p \in dlq : p[1] = t} = {}
      /\ Cardinality({}) = 0
      BY FS_EmptySet DEF Init
<1> QED BY <1>1, <1>2 DEF Ledger!Init

\* Where no fault occurs and submissions do not overlap, every step of the handlers,
\* the workers, the ring and the expiring locks is a step of the ledger or none: a task
\* is opened only when it is closed, and each opening is closed by one completion or one
\* burial, never by both, never twice (api.rs:88-315, worker.py:190-275).
THEOREM LedgerImplemented ==
  ASSUME Overlap = FALSE, Faults = {}
  PROVE  Spec => Ledger!Init /\ [][Ledger!Next]_(Ledger!ledger)
<1> DEFINE Inv == BrokerInv /\ hit = {}
<1>1. Init => Inv /\ Ledger!Init
      BY TypeInit, PlaceInit, CalmInit, SingleInit, LedgerInit DEF BrokerInv, Init
<1>2. Inv /\ [Next]_vars => Inv'
      BY BrokerNext, Untouched
<1>3. Inv /\ [Next]_vars => [Ledger!Next]_(Ledger!ledger)
      BY LedgerNext
<1> HIDE DEF Inv
<1> QED BY <1>1, <1>2, <1>3, PTL DEF Spec

=============================================================================
