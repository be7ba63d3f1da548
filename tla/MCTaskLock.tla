----------------------------- MODULE MCTaskLock -----------------------------
(***************************************************************************)
(* TaskLock for TLC: two attempts, a lease with the margin and one without,*)
(* an interval below the lease and one above it.                           *)
(***************************************************************************)
EXTENDS TaskLock

CONSTANTS a1, a2

=============================================================================
