------------------------------ MODULE MCWorker ------------------------------
(***************************************************************************)
(* Worker for TLC: two tasks and two drafts at most.                       *)
(***************************************************************************)
EXTENDS Worker

CONSTANTS t1, t2

=============================================================================
