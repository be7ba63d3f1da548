----------------------------- MODULE MCHashRing -----------------------------
(***************************************************************************)
(* HashRing for TLC: three nodes with two virtual nodes each, on ten       *)
(* positions. Their keys collide, so that some virtual node needs its      *)
(* third salt in some order of joining, and none runs out of salts in any. *)
(***************************************************************************)
EXTENDS HashRing

CONSTANTS a, b, c

MCNode == {a, b, c}
MCCapacity == [n \in MCNode |-> 1]

MCReport ==
  [n \in MCNode |->
     [active : IF n = a THEN {0, 1} ELSE {0}, hot : IF n = b THEN BOOLEAN ELSE {FALSE}]]

Keys(k0, k1, k2, k3) == [s \in 0..3 |-> <<k0, k1, k2, k3>>[s + 1]]

MCProbe ==
  [n \in MCNode |->
     [i \in 0..1 |->
        CASE n = a /\ i = 0 -> Keys(3, 6, 1, 0)
          [] n = a /\ i = 1 -> Keys(6, 8, 2, 3)
          [] n = b /\ i = 0 -> Keys(3, 1, 8, 4)
          [] n = b /\ i = 1 -> Keys(5, 6, 1, 9)
          [] n = c /\ i = 0 -> Keys(1, 3, 6, 7)
          [] n = c /\ i = 1 -> Keys(1, 9, 5, 8)]]

ASSUME RoomForAll

=============================================================================
