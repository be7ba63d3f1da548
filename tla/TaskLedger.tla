----------------------------- MODULE TaskLedger -----------------------------
(***************************************************************************)
(* What the broker promises about tasks, with no queues, locks, handlers   *)
(* or workers in it: a task is open at most once at a time, every opening  *)
(* is closed exactly once, by a completion or by burial in the dead-letter *)
(* queue, and no open task is forgotten. TaskBroker is shown to implement  *)
(* this when nothing fails.                                                *)
(***************************************************************************)
EXTENDS Naturals

CONSTANT Task

VARIABLES
  open,       \* the tasks the broker is responsible for
  completed,  \* how often each task was closed by a completion
  buried      \* how often each task was closed by burial

ledger == <<open, completed, buried>>

Init ==
  /\ open = {}
  /\ completed = [t \in Task |-> 0]
  /\ buried = [t \in Task |-> 0]

Open(t) ==
  /\ t \notin open
  /\ open' = open \cup {t}
  /\ UNCHANGED <<completed, buried>>

Complete(t) ==
  /\ t \in open
  /\ open' = open \ {t}
  /\ completed' = [completed EXCEPT ![t] = @ + 1]
  /\ UNCHANGED buried

Bury(t) ==
  /\ t \in open
  /\ open' = open \ {t}
  /\ buried' = [buried EXCEPT ![t] = @ + 1]
  /\ UNCHANGED completed

Next == \E t \in Task : Open(t) \/ Complete(t) \/ Bury(t)

Spec == Init /\ [][Next]_ledger /\ \A t \in Task : WF_ledger(Complete(t) \/ Bury(t))

=============================================================================
