--------------------------- MODULE MCRaftElection ---------------------------
(***************************************************************************)
(* RaftElection for TLC on interchangeable nodes.                          *)
(***************************************************************************)
EXTENDS RaftElection, TLC

NodeSymmetry == Permutations(Node)

=============================================================================
