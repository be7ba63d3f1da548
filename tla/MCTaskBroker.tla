---------------------------- MODULE MCTaskBroker ----------------------------
(***************************************************************************)
(* TaskBroker for TLC. Nodes are interchangeable in the runs that check no *)
(* liveness; tasks are not, as their bounds differ.                        *)
(***************************************************************************)
EXTENDS TaskBroker, TLC

CONSTANTS t1, t2, n1, n2

NoFaults == {}
AllFaults == FaultKinds
OnlyCrashes == {"crash"}

Once == [t \in Task |-> 1]
Twice == [t \in Task |-> 2]
OneResubmitted == [t \in Task |-> IF t = t1 THEN 2 ELSE 1]

Symmetry == Permutations(Node)

=============================================================================
