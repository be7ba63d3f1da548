------------------------------ MODULE HashRing ------------------------------
(***************************************************************************)
(* The consistent-hash ring of the broker (src/src/core/hash_ring.rs): the *)
(* node table and, over it, the map from hash positions to the nodes that  *)
(* own them. Every method runs under the ring's lock, so each is one step  *)
(* of whoever calls it: the claim, heartbeat and completion handlers       *)
(* (src/src/api.rs), the heartbeat monitor (src/src/core/broker.rs), and   *)
(* an operator who marks nodes dead or draining. The monitor's scan is     *)
(* several such steps; when a node counts as silent is HeartbeatMonitor's  *)
(* subject, here it may be any node of the monitor's copy.                 *)
(*                                                                         *)
(* fnv1a is given by its values: Probe says where the keys of each node's  *)
(* virtual nodes hash to, and a task is identified with its own hash. How  *)
(* the hash spreads keys is not modelled; what collisions do is.           *)
(***************************************************************************)
EXTENDS NodeTable, FiniteSets

CONSTANTS
  Node,
  Capacity,      \* max_concurrent of each worker
  Report,        \* the [active, hot] readings each worker's heartbeats may carry
  RingEnd,       \* one past the largest hash
  VirtualNodes,  \* VIRTUAL_NODES
  Probe,         \* Probe[n][i][s]: hash of "n:vnode:i" (s = 0) or its s-th salted key
  Threshold      \* MISSED_HEARTBEAT_THRESHOLD

MaxSalt == 3
Salt == 0..MaxSalt
VirtualNode == 0..(VirtualNodes - 1)
Position == 0..(RingEnd - 1)

ASSUME RingAssumption ==
  /\ RingEnd \in Nat \ {0}
  /\ VirtualNodes \in Nat \ {0}
  /\ Probe \in [Node -> [VirtualNode -> [Salt -> Position]]]

ASSUME TableAssumption ==
  /\ Capacity \in [Node -> Nat \ {0}]
  /\ Report \in [Node -> SUBSET [active : Nat, hot : BOOLEAN]]
  /\ Threshold \in Nat \ {0}

VARIABLES
  ring,    \* HashRing.ring: the owner of each occupied position
  nodes,   \* HashRing.nodes
  todo,    \* the monitor: silent nodes of its copy not yet looked at
  doomed,  \* the monitor: the node, if any, that it is about to remove
  events   \* ghost: what happened to each node, by Events

monitor == <<todo, doomed>>
vars == <<ring, nodes, monitor, events>>

\* "silenced": missed, drained, killed or removed since it was last heard or claimed;
\* "hot": the last heartbeat the table took in said that its cpu is saturated;
\* "wiped": killed or removed since that heartbeat.
Events == {"silenced", "hot", "wiped"}

-----------------------------------------------------------------------------
\* Mutant of FirstVacant: the third salt is not tried.
FirstVacantGivesUp(n, i, taken) ==
  {Probe[n][i][s] : s \in {u \in 0..(MaxSalt - 1) :
     /\ Probe[n][i][u] \notin taken
     /\ \A v \in 0..(u - 1) : Probe[n][i][v] \in taken}}

\* Where n's i-th virtual node goes when the positions in taken are occupied: to
\* the first free position its keys hash to, or nowhere after three salts.
FirstVacant(n, i, taken) ==
  {Probe[n][i][s] : s \in {u \in Salt :
     /\ Probe[n][i][u] \notin taken
     /\ \A v \in 0..(u - 1) : Probe[n][i][v] \in taken}}

\* Mutant of Placements: after one collision the next key is not checked.
PlacementsOnce(n, r) ==
  {put \in [VirtualNode -> {{p} : p \in Position}] :
     \A i \in VirtualNode :
       LET taken == DOMAIN r \cup UNION {put[j] : j \in 0..(i - 1)}
       IN  put[i] = {Probe[n][i][IF Probe[n][i][0] \in taken THEN 1 ELSE 0]}}

\* The outcomes of add_node's loop over the virtual nodes, each of which sees the
\* positions taken by the ones before it. There is exactly one.
Placements(n, r) ==
  {put \in [VirtualNode -> {{}} \cup {{p} : p \in Position}] :
     \A i \in VirtualNode :
       put[i] = FirstVacant(n, i, DOMAIN r \cup UNION {put[j] : j \in 0..(i - 1)})}

Insert(r, n, ps) ==
  [p \in DOMAIN r \cup ps |-> IF p \in ps THEN n ELSE r[p]]

\* Mutants of Withdraw: the positions are kept; the wrong ones are dropped.
WithdrawNothing(r, n) == r

WithdrawOthers(r, n) == [p \in {q \in DOMAIN r : r[q] = n} |-> r[p]]

\* All positions the node owns, wherever its virtual nodes ended up.
Withdraw(r, n) == [p \in {q \in DOMAIN r : r[q] # n} |-> r[p]]

-----------------------------------------------------------------------------
\* How far the walk range(hash..).chain(iter()) goes to come from h to p.
Distance(h, p) == IF p >= h THEN p - h ELSE p + RingEnd - h

First(h, ps) == {p \in ps : \A q \in ps : Distance(h, p) <= Distance(h, q)}

\* Mutant of GetNode: the walk ends at the end of the ring.
GetNodeNoWrap(r, t, h) ==
  {r[p] : p \in First(h, {q \in DOMAIN r : q >= h /\ Routable(t, r[q])})}

\* The node a task with hash h goes to, as a set of at most one node. A node that
\* is rejected once need not be looked at again: the table does not change
\* during the walk.
GetNode(r, t, h) ==
  {r[p] : p \in First(h, {q \in DOMAIN r : Routable(t, r[q])})}

GetNodeForce(r, t, h) ==
  {r[p] : p \in First(h, {q \in DOMAIN r : Alive(t, r[q])})}

-----------------------------------------------------------------------------
Init ==
  /\ ring = << >>
  /\ nodes = [n \in Node |-> Unknown]
  /\ todo = {}
  /\ doomed = {}
  /\ events = [n \in Node |-> {}]

Gone(n) == {"silenced"} \cup (IF "hot" \in events[n] THEN {"wiped"} ELSE {})

Happens(n, what) == events' = [events EXCEPT ![n] = @ \cup what]

\* add_node, by the claim handler. A node that is known keeps its positions.
Join(n) ==
  /\ nodes' = AddNode(nodes, n, Capacity[n])
  /\ IF Known(nodes, n)
     THEN UNCHANGED ring
     ELSE \E put \in Placements(n, ring) :
            ring' = Insert(ring, n, UNION {put[i] : i \in VirtualNode})
  /\ events' = [events EXCEPT ![n] = @ \ {"silenced"}]
  /\ UNCHANGED monitor

\* update_node_info, by the heartbeat handler. The load is whatever the worker's
\* last reading was, late or not.
Heartbeat(n) ==
  /\ Known(nodes, n)
  /\ \E r \in Report[n] :
       /\ nodes' = UpdateNodeInfo(nodes, n, r.active, r.hot)
       /\ events' = [events EXCEPT ![n] = IF r.hot THEN {"hot"} ELSE {}]
  /\ UNCHANGED <<ring, monitor>>

\* The monitor copies the nodes that are alive, and finds some of them silent.
Scan ==
  /\ todo = {} /\ doomed = {}
  /\ todo' \in SUBSET {n \in Node : Alive(nodes, n)}
  /\ UNCHANGED <<ring, nodes, doomed, events>>

\* It counts a miss on the live table, whatever became of the node since the copy.
Miss(n) ==
  /\ doomed = {}
  /\ n \in todo
  /\ todo' = todo \ {n}
  /\ nodes' = RecordMissedHeartbeat(nodes, n)
  /\ doomed' = IF Known(nodes, n) /\ nodes'[n].missed >= Threshold THEN {n} ELSE {}
  /\ Happens(n, {"silenced"})
  /\ UNCHANGED ring

\* It removes the node it counted to the threshold, under a lock of its own.
Remove(n) ==
  /\ n \in doomed
  /\ nodes' = RemoveNode(nodes, n)
  /\ ring' = Withdraw(ring, n)
  /\ doomed' = {}
  /\ Happens(n, Gone(n))
  /\ UNCHANGED todo

\* record_task_completed, by the completion handler.
TaskCompleted(n) ==
  /\ Known(nodes, n)
  /\ nodes' = RecordTaskCompleted(nodes, n)
  /\ UNCHANGED <<ring, monitor, events>>

\* mark_dead and mark_draining. Nothing in the program calls them but the failure
\* simulation (src/examples/failure_simulation.rs) and an operator's code.
Kill(n) ==
  /\ Known(nodes, n)
  /\ nodes' = MarkDead(nodes, n)
  /\ Happens(n, Gone(n))
  /\ UNCHANGED <<ring, monitor>>

Drain(n) ==
  /\ Known(nodes, n)
  /\ nodes' = MarkDraining(nodes, n)
  /\ Happens(n, {"silenced"})
  /\ UNCHANGED <<ring, monitor>>

Next ==
  \/ Scan
  \/ \E n \in Node :
       \/ Join(n) \/ Heartbeat(n) \/ Miss(n) \/ Remove(n)
       \/ TaskCompleted(n) \/ Kill(n) \/ Drain(n)

Spec == Init /\ [][Next]_vars

-----------------------------------------------------------------------------
Owns(n) == {p \in DOMAIN ring : ring[p] = n}

TypeOK ==
  /\ DOMAIN ring \subseteq Position
  /\ ring \in [DOMAIN ring -> Node]
  /\ nodes \in [Node -> NodeInfo]
  /\ todo \subseteq Node /\ doomed \subseteq Node
  /\ events \in [Node -> SUBSET Events]

\* The ring and the table never disagree on who is a member: whoever owns a
\* position is known, so a walk never meets a node that is gone, and whoever left
\* left nothing behind (hash_ring.rs:161, 174-185).
OwnersAreKnown == \A p \in DOMAIN ring : Known(nodes, ring[p])

\* Three salts are enough: wherever the others went, each to one of its keys, they do
\* not take all the keys of a virtual node.
RoomForAll ==
  \A n \in Node, i \in VirtualNode, at \in [Node -> [VirtualNode -> Salt]] :
    \E s \in Salt :
      \A m \in Node, j \in VirtualNode :
        <<m, j>> # <<n, i>> => Probe[m][j][at[m][j]] # Probe[n][i][s]

\* No virtual node is lost to collisions, in whatever order nodes join and leave,
\* where three salts are enough: every member has its full share of the ring, and
\* none is a member that no task can reach (hash_ring.rs:140-160).
FullShare ==
  \A n \in Node : Known(nodes, n) => Cardinality(Owns(n)) = VirtualNodes

\* A task is refused only when nobody can take it: if any node on the ring could,
\* the walk finds one from wherever the task hashes to, and likewise for the
\* forced walk and nodes that are merely alive (hash_ring.rs:327-383).
RoutedWhileAnyoneCan ==
  \A h \in Position :
    /\ (\E p \in DOMAIN ring : Routable(nodes, ring[p])) => GetNode(ring, nodes, h) # {}
    /\ (\E p \in DOMAIN ring : Alive(nodes, ring[p])) => GetNodeForce(ring, nodes, h) # {}

\* No task goes to a node that was missed, drained, killed or removed until the node
\* itself is heard or claims; nor to one whose last heartbeat said its cpu is saturated,
\* even though a claim makes its status healthy. Only a mark_dead or a removal makes
\* the table forget what that heartbeat said (hash_ring.rs:124-131, 281, 347).
UnfitNotRouted ==
  \A h \in Position : \A n \in GetNode(ring, nodes, h) :
    /\ "silenced" \notin events[n]
    /\ "hot" \in events[n] => "wiped" \in events[n]

\* All that routing depends on.
Eligible ==
  <<ring, {n \in Node : Routable(nodes, n)}, {n \in Node : Alive(nodes, n)}>>

Explains(n, old, new) == new = old \/ n \in old \cup new

\* examples/failure_simulation.rs:65, "only tasks that hashed near" the dead node
\* moved: whatever happens, one node explains every change of route, as the one
\* that lost the task or the one that gained it.
OnlyItsTasksMove ==
  [][ Eligible' # Eligible =>
        \E n \in Node : \A h \in Position :
          /\ Explains(n, GetNode(ring, nodes, h), GetNode(ring', nodes', h))
          /\ Explains(n, GetNodeForce(ring, nodes, h),
                         GetNodeForce(ring', nodes', h)) ]_vars

\* A position is its owner's for as long as the owner is a member: no join takes
\* it over, and a node that rejoins finds the tasks it had (hash_ring.rs:122-132,
\* 142, examples/failure_simulation.rs:71-76).
PositionsKept ==
  [][ \A p \in DOMAIN ring :
        Known(nodes', ring[p]) => p \in DOMAIN ring' /\ ring'[p] = ring[p] ]_vars

=============================================================================
