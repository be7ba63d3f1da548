----------------------------- MODULE NodeTable -----------------------------
(***************************************************************************)
(* The node table of the hash ring (src/src/core/hash_ring.rs): what the   *)
(* broker believes about each worker, and the methods that change it.      *)
(* A method is an operator from the table before to the table after; each  *)
(* one runs under the ring's write lock, so a caller takes it in one step. *)
(*                                                                         *)
(* last_heartbeat_unix is kept as an age in whole seconds (now - last).    *)
(* cpu_percent is kept as "hot": at or above CPU_SOFT_LIMIT, the only      *)
(* comparison the code makes. total_completed is a statistic and left out. *)
(***************************************************************************)
EXTENDS Naturals

\* hash_ring.rs:8, the misses after which the ring itself calls a node dead.
MissedHeartbeatLimit == 3

\* "unknown" is the absence of a key from HashRing.nodes.
Status == {"unknown", "healthy", "suspect", "dead", "draining"}

NodeInfo == [status : Status, missed : Nat, age : Nat,
             active : Nat, max : Nat, hot : BOOLEAN]

Unknown == [status |-> "unknown", missed |-> 0, age |-> 0,
            active |-> 0, max |-> 0, hot |-> FALSE]

NewNode(capacity) == [status |-> "healthy", missed |-> 0, age |-> 0,
                      active |-> 0, max |-> capacity, hot |-> FALSE]

Known(t, n) == t[n].status # "unknown"

\* NodeInfo::is_alive, over the nodes of the table: active_nodes().
Alive(t, n) == t[n].status \notin {"unknown", "dead"}

\* Mutant of Routable: the status alone is trusted.
RoutableByStatus(t, n) == t[n].status = "healthy" /\ t[n].active < t[n].max

\* What get_node asks of a node before it returns it.
Routable(t, n) == /\ t[n].status = "healthy"
                  /\ t[n].active < t[n].max
                  /\ ~t[n].hot

AtLeastOne(k) == IF k = 0 THEN 1 ELSE k

-----------------------------------------------------------------------------
\* What each method does to one entry. A rejoin keeps the load and the cpu
\* reading of the node's last heartbeat.
Joined(e, max) ==
  IF e.status = "unknown"
  THEN NewNode(AtLeastOne(max))
  ELSE [e EXCEPT !.status = "healthy", !.missed = 0, !.age = 0,
                 !.max = AtLeastOne(max)]

\* Mutant of Pinged: the heartbeat does not reset the misses.
PingedKeepsMisses(e, active, hot) ==
  IF e.status = "unknown"
  THEN e
  ELSE [e EXCEPT !.status = IF hot THEN "suspect" ELSE "healthy",
                 !.age = 0, !.active = active, !.hot = hot]

\* Mutant of Pinged: the heartbeat takes one miss off, and does not stop at zero.
PingedTakesOneOff(e, active, hot) ==
  IF e.status = "unknown"
  THEN e
  ELSE [e EXCEPT !.status = IF hot THEN "suspect" ELSE "healthy",
                 !.missed = @ - 1, !.age = 0, !.active = active, !.hot = hot]

\* The heartbeat of a node the table does not hold is ignored.
Pinged(e, active, hot) ==
  IF e.status = "unknown"
  THEN e
  ELSE [e EXCEPT !.status = IF hot THEN "suspect" ELSE "healthy",
                 !.missed = 0, !.age = 0, !.active = active, !.hot = hot]

\* The counter saturates at u32::MAX, far above any threshold.
Missed(e) ==
  IF e.status = "unknown"
  THEN e
  ELSE [e EXCEPT !.missed = @ + 1,
                 !.status = IF e.missed + 1 >= MissedHeartbeatLimit
                            THEN "dead" ELSE "suspect"]

\* mark_dead also forgets the cpu reading. Both marks ignore an unknown node.
MarkedDead(e) ==
  IF e.status = "unknown" THEN e ELSE [e EXCEPT !.status = "dead", !.hot = FALSE]

MarkedDraining(e) ==
  IF e.status = "unknown" THEN e ELSE [e EXCEPT !.status = "draining"]

\* Mutant of Relieved: the subtraction does not saturate.
RelievedBelowZero(e) == [e EXCEPT !.active = @ - 1]

\* The load falls by one and saturates at zero; a heartbeat may have said so first.
Relieved(e) == [e EXCEPT !.active = IF @ = 0 THEN 0 ELSE @ - 1]

\* A second passes: the node was last heard one second longer ago.
Aged(e) == IF e.status = "unknown" THEN e ELSE [e EXCEPT !.age = @ + 1]

-----------------------------------------------------------------------------
AddNode(t, n, max) == [t EXCEPT ![n] = Joined(@, max)]

RemoveNode(t, n) == [t EXCEPT ![n] = Unknown]

UpdateNodeInfo(t, n, active, hot) == [t EXCEPT ![n] = Pinged(@, active, hot)]

RecordMissedHeartbeat(t, n) == [t EXCEPT ![n] = Missed(@)]

MarkDead(t, n) == [t EXCEPT ![n] = MarkedDead(@)]

MarkDraining(t, n) == [t EXCEPT ![n] = MarkedDraining(@)]

RecordTaskCompleted(t, n) == [t EXCEPT ![n] = Relieved(@)]

=============================================================================
