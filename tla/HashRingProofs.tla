--------------------------- MODULE HashRingProofs ---------------------------
(***************************************************************************)
(* Theorems about HashRing, for any nodes, capacities, reports, number of  *)
(* virtual nodes, hash values and threshold.                               *)
(*                                                                         *)
(* Two facts carry them. A walk from a position over a non-empty set finds *)
(* exactly one nearest position (FirstIsOne). And every step that touches  *)
(* the ring or the table is about one node: nobody else's entry or         *)
(* positions change (StepShape).                                           *)
(***************************************************************************)
EXTENDS HashRing, Integers, FiniteSetTheorems, WellFoundedInduction, TLAPS

\* What happened to a node agrees with the fields the walk looks at: a silenced node
\* is not healthy, and a saturated one is held as saturated unless it was wiped.
Agree(e, what) ==
  /\ "silenced" \in what => e.status # "healthy"
  /\ "hot" \in what => "wiped" \in what \/ (e.hot /\ e.status # "unknown")

UnfitInv == \A n \in Node : Agree(nodes[n], events[n])

\* A step about n: nobody else's entry changes, and n is placed on the ring when it
\* enters the table and withdrawn when it leaves it.
StepOf(n) ==
  /\ \A m \in Node \ {n} : nodes'[m] = nodes[m]
  /\ \/ /\ Known(nodes, n) <=> Known(nodes', n)
        /\ ring' = ring
     \/ /\ ~Known(nodes, n) /\ Known(nodes', n) /\ Join(n)
        /\ \E ps \in SUBSET Position :
             ps \cap DOMAIN ring = {} /\ ring' = Insert(ring, n, ps)
     \/ /\ ~Known(nodes', n)
        /\ ring' = Withdraw(ring, n)

-----------------------------------------------------------------------------
LEMMA DistanceType ==
  ASSUME NEW h \in Position, NEW p \in Position
  PROVE  Distance(h, p) \in Nat
BY RingAssumption DEF Distance, Position

LEMMA DistanceInjective ==
  ASSUME NEW h \in Position, NEW p \in Position, NEW q \in Position,
         Distance(h, p) = Distance(h, q)
  PROVE  p = q
BY RingAssumption DEF Distance, Position

\* A set of numbers that is not empty has a least one.
LEMMA LeastNat ==
  ASSUME NEW T \in SUBSET Nat, T # {}
  PROVE  \E y \in T : \A z \in T : y <= z
<1> DEFINE R == {pair \in Nat \X Nat : pair[1] < pair[2]}
<1>1. IsWellFoundedOn(R, Nat)
      BY NatLessThanWellFounded, Zenon DEF OpToRel
<1>2. \A x, y \in Nat : x < y => <<x, y>> \in R
      OBVIOUS
<1> HIDE DEF R
<1>3. PICK y \in T : \A z \in T : ~(<<z, y>> \in R)
      BY <1>1, WFMin
<1>4. ASSUME NEW z \in T PROVE y <= z
  <2>1. ~(z < y)
        BY <1>2, <1>3
  <2> QED BY <2>1
<1> QED BY <1>4

\* From any position, a walk over positions, if there are any, ends at one of them.
LEMMA FirstIsOne ==
  ASSUME NEW h \in Position, NEW S \in SUBSET Position, S # {}
  PROVE  \E p \in S : First(h, S) = {p}
<1> DEFINE T == {Distance(h, p) : p \in S}
<1>1. T \in SUBSET Nat /\ T # {}
      BY DistanceType
<1>2. PICK d \in T : \A z \in T : d <= z
      BY <1>1, LeastNat
<1>3. PICK p \in S : d = Distance(h, p)
      BY <1>2
<1>4. \A q \in S : Distance(h, p) <= Distance(h, q)
      BY <1>2, <1>3
<1>5. p \in First(h, S)
      BY <1>4 DEF First
<1>6. ASSUME NEW q \in First(h, S) PROVE q = p
  <2>1. q \in S /\ Distance(h, q) <= Distance(h, p)
        BY <1>6 DEF First
  <2>2. Distance(h, p) <= Distance(h, q)
        BY <2>1, <1>4
  <2>3. Distance(h, p) = Distance(h, q)
        BY <2>1, <2>2, DistanceType
  <2> QED BY <2>1, <2>3, DistanceInjective
<1> QED BY <1>5, <1>6

\* Where a walk from h over the positions S of the ring r ends.
Reached(r, S, h) == {r[p] : p \in First(h, S)}

\* S and S2, positions of r and of r2, differ in n's positions only.
SameElsewhere(n, r, S, r2, S2) ==
  /\ S \in SUBSET Position
  /\ S2 \in SUBSET Position
  /\ \A p \in Position : (p \in S /\ r[p] # n) <=> (p \in S2 /\ r2[p] # n)
  /\ \A p \in S : r[p] # n => r2[p] = r[p]

\* Two walks over sets that differ in n's positions only end at the same node, or
\* one of them at n.
LEMMA WalksDifferByOne ==
  ASSUME NEW n, NEW r, NEW S, NEW r2, NEW S2, NEW h \in Position,
         SameElsewhere(n, r, S, r2, S2)
  PROVE  Explains(n, Reached(r, S, h), Reached(r2, S2, h))
<1> USE DEF SameElsewhere
<1> DEFINE old == {r[p] : p \in First(h, S)}
           new == {r2[p] : p \in First(h, S2)}
<1> SUFFICES ASSUME n \notin old, n \notin new PROVE old = new
    BY DEF Explains, Reached
<1>1. CASE S = {}
  <2>1. old = {}
        BY <1>1 DEF First
  <2>2. S2 = {}
    <3> SUFFICES ASSUME S2 # {} PROVE FALSE
        OBVIOUS
    <3>1. PICK p \in S2 : First(h, S2) = {p}
          BY FirstIsOne
    <3>2. r2[p] # n
          BY <3>1
    <3> QED BY <3>2, <1>1
  <2>3. new = {}
        BY <2>2 DEF First
  <2> QED BY <2>1, <2>3
<1>2. CASE S # {}
  <2>1. PICK p \in S : First(h, S) = {p}
        BY <1>2, FirstIsOne
  <2>2. r[p] # n /\ p \in S2 /\ r2[p] = r[p]
        BY <2>1
  <2>3. PICK q \in S2 : First(h, S2) = {q}
        BY <2>2, FirstIsOne
  <2>4. r2[q] # n /\ q \in S
        BY <2>3
  <2>5. Distance(h, p) <= Distance(h, q)
        BY <2>1, <2>4 DEF First
  <2>6. Distance(h, q) <= Distance(h, p)
        BY <2>2, <2>3 DEF First
  <2>7. p = q
        BY <2>5, <2>6, DistanceType, DistanceInjective
  <2> QED BY <2>1, <2>2, <2>3, <2>7
<1> QED BY <1>1, <1>2

-----------------------------------------------------------------------------
\* What add_node puts on the ring: positions nobody has.
LEMMA PlacedIsVacant ==
  ASSUME NEW n \in Node, NEW r, NEW put \in Placements(n, r)
  PROVE  /\ UNION {put[i] : i \in VirtualNode} \subseteq Position
         /\ (UNION {put[i] : i \in VirtualNode}) \cap DOMAIN r = {}
<1>1. ASSUME NEW i \in VirtualNode PROVE put[i] \subseteq Position /\ put[i] \cap DOMAIN r = {}
  <2> DEFINE taken == DOMAIN r \cup UNION {put[j] : j \in 0..(i - 1)}
  <2>1. put[i] \in {{}} \cup {{p} : p \in Position}
        BY DEF Placements
  <2>2. put[i] = FirstVacant(n, i, taken)
        BY DEF Placements
  <2> HIDE DEF taken
  <2>3. put[i] \cap taken = {}
        BY <2>2 DEF FirstVacant
  <2> QED BY <2>1, <2>3 DEF taken
<1> QED BY <1>1

\* What Join does to the ring, in terms of a set of vacant positions.
LEMMA JoinRing ==
  ASSUME NEW n \in Node, Join(n)
  PROVE  \/ Known(nodes, n) /\ ring' = ring
         \/ /\ ~Known(nodes, n)
            /\ \E ps \in SUBSET Position :
                 ps \cap DOMAIN ring = {} /\ ring' = Insert(ring, n, ps)
<1>1. CASE Known(nodes, n)
      BY <1>1 DEF Join
<1>2. CASE ~Known(nodes, n)
  <2>1. PICK put \in Placements(n, ring) :
              ring' = Insert(ring, n, UNION {put[i] : i \in VirtualNode})
        BY <1>2 DEF Join
  <2> QED BY <1>2, <2>1, PlacedIsVacant
<1> QED BY <1>1, <1>2

-----------------------------------------------------------------------------
\* Every method of the table turns an entry into an entry.
LEMMA EntryTypes ==
  ASSUME NEW e \in NodeInfo
  PROVE  /\ Unknown \in NodeInfo
         /\ Missed(e) \in NodeInfo
         /\ Relieved(e) \in NodeInfo
         /\ MarkedDead(e) \in NodeInfo
         /\ MarkedDraining(e) \in NodeInfo
         /\ \A max \in Nat : Joined(e, max) \in NodeInfo
         /\ \A active \in Nat, hot \in BOOLEAN : Pinged(e, active, hot) \in NodeInfo
<1>1. Unknown \in NodeInfo
      BY DEF Unknown, NodeInfo, Status
<1>2. Missed(e) \in NodeInfo
  <2> DEFINE status == IF e.missed + 1 >= MissedHeartbeatLimit
                       THEN "dead" ELSE "suspect"
  <2>1. e.missed + 1 \in Nat
        BY DEF NodeInfo
  <2>2. status \in Status
        BY DEF Status
  <2> HIDE DEF status
  <2>3. [e EXCEPT !.missed = e.missed + 1, !.status = status] \in NodeInfo
        BY <2>1, <2>2 DEF NodeInfo
  <2> QED BY <2>3 DEF Missed, status
<1>3. Relieved(e) \in NodeInfo
  <2> DEFINE load == IF e.active = 0 THEN 0 ELSE e.active - 1
  <2>1. load \in Nat
        BY DEF NodeInfo
  <2> HIDE DEF load
  <2>2. [e EXCEPT !.active = load] \in NodeInfo
        BY <2>1 DEF NodeInfo
  <2> QED BY <2>2 DEF Relieved, load
<1>4. MarkedDead(e) \in NodeInfo /\ MarkedDraining(e) \in NodeInfo
      BY DEF MarkedDead, MarkedDraining, NodeInfo, Status
<1>5. ASSUME NEW max \in Nat PROVE Joined(e, max) \in NodeInfo
      BY DEF Joined, NewNode, AtLeastOne, NodeInfo, Status
<1>6. ASSUME NEW active \in Nat, NEW hot \in BOOLEAN
      PROVE  Pinged(e, active, hot) \in NodeInfo
      BY DEF Pinged, NodeInfo, Status
<1> QED BY <1>1, <1>2, <1>3, <1>4, <1>5, <1>6

LEMMA TypeInit == Init => TypeOK
BY RingAssumption DEF Init, TypeOK, NodeInfo, Unknown, Status, Events

LEMMA RingTypeInsert ==
  ASSUME TypeOK, NEW n \in Node, NEW ps \in SUBSET Position
  PROVE  /\ DOMAIN Insert(ring, n, ps) \subseteq Position
         /\ Insert(ring, n, ps) \in [DOMAIN Insert(ring, n, ps) -> Node]
BY DEF TypeOK, Insert

LEMMA RingTypeWithdraw ==
  ASSUME TypeOK, NEW n \in Node
  PROVE  /\ DOMAIN Withdraw(ring, n) \subseteq Position
         /\ Withdraw(ring, n) \in [DOMAIN Withdraw(ring, n) -> Node]
BY DEF TypeOK, Withdraw

LEMMA EventsType ==
  ASSUME TypeOK, NEW n \in Node, NEW what \in SUBSET Events, Happens(n, what)
  PROVE  events' \in [Node -> SUBSET Events]
BY DEF TypeOK, Happens

LEMMA GoneType == ASSUME NEW n PROVE Gone(n) \in SUBSET Events
BY DEF Gone, Events

LEMMA TypeNext == TypeOK /\ [Next]_vars => TypeOK'
<1> SUFFICES ASSUME TypeOK, [Next]_vars PROVE TypeOK'
    OBVIOUS
<1>u. nodes \in [Node -> NodeInfo] /\ events \in [Node -> SUBSET Events]
      BY DEF TypeOK
<1>r. DOMAIN ring \subseteq Position /\ ring \in [DOMAIN ring -> Node]
      BY DEF TypeOK
<1>m. todo \subseteq Node /\ doomed \subseteq Node
      BY DEF TypeOK
<1>s. {"silenced"} \in SUBSET Events
      BY DEF Events
<1>0. CASE Scan
      BY <1>0, <1>u, <1>r, <1>m DEF Scan, TypeOK
<1>1. ASSUME NEW n \in Node, Join(n) PROVE TypeOK'
  <2>1. nodes' \in [Node -> NodeInfo]
    <3>1. Capacity[n] \in Nat
          BY TableAssumption
    <3> QED BY <1>1, <1>u, <3>1, EntryTypes DEF Join, AddNode
  <2>2. events' \in [Node -> SUBSET Events]
        BY <1>1, <1>u DEF Join
  <2>3. DOMAIN ring' \subseteq Position /\ ring' \in [DOMAIN ring' -> Node]
        BY <1>1, <1>r, JoinRing, RingTypeInsert
  <2>4. todo' \subseteq Node /\ doomed' \subseteq Node
        BY <1>1, <1>m DEF Join, monitor
  <2> QED BY <2>1, <2>2, <2>3, <2>4 DEF TypeOK
<1>2. ASSUME NEW n \in Node, Heartbeat(n) PROVE TypeOK'
  <2>1. PICK w \in Report[n] :
          /\ nodes' = UpdateNodeInfo(nodes, n, w.active, w.hot)
          /\ events' = [events EXCEPT ![n] = IF w.hot THEN {"hot"} ELSE {}]
        BY <1>2 DEF Heartbeat
  <2>2. w.active \in Nat /\ w.hot \in BOOLEAN
        BY TableAssumption
  <2>3. nodes' \in [Node -> NodeInfo]
        BY <2>1, <2>2, <1>u, EntryTypes DEF UpdateNodeInfo
  <2>4. events' \in [Node -> SUBSET Events]
        BY <2>1, <1>u DEF Events
  <2> QED BY <2>3, <2>4, <1>2, <1>r, <1>m DEF Heartbeat, TypeOK, monitor
<1>3. ASSUME NEW n \in Node, Miss(n) PROVE TypeOK'
  <2>1. nodes' \in [Node -> NodeInfo]
        BY <1>3, <1>u, EntryTypes DEF Miss, RecordMissedHeartbeat
  <2>2. events' \in [Node -> SUBSET Events]
        BY <1>3, <1>s, EventsType DEF Miss
  <2>3. todo' \subseteq Node /\ doomed' \subseteq Node
        BY <1>3, <1>m DEF Miss
  <2> QED BY <2>1, <2>2, <2>3, <1>3, <1>r DEF Miss, TypeOK
<1>4. ASSUME NEW n \in Node, Remove(n) PROVE TypeOK'
  <2>1. nodes' \in [Node -> NodeInfo]
        BY <1>4, <1>u, EntryTypes DEF Remove, RemoveNode, NodeInfo
  <2>2. events' \in [Node -> SUBSET Events]
        BY <1>4, GoneType, EventsType DEF Remove
  <2>3. DOMAIN ring' \subseteq Position /\ ring' \in [DOMAIN ring' -> Node]
        BY <1>4, RingTypeWithdraw DEF Remove
  <2>4. todo' \subseteq Node /\ doomed' \subseteq Node
        BY <1>4, <1>m DEF Remove
  <2> QED BY <2>1, <2>2, <2>3, <2>4 DEF TypeOK
<1>5. ASSUME NEW n \in Node, TaskCompleted(n) PROVE TypeOK'
      BY <1>5, <1>u, <1>r, <1>m, EntryTypes
      DEF TaskCompleted, RecordTaskCompleted, TypeOK, monitor
<1>6. ASSUME NEW n \in Node, Kill(n) PROVE TypeOK'
  <2>1. events' \in [Node -> SUBSET Events]
        BY <1>6, GoneType, EventsType DEF Kill
  <2> QED BY <1>6, <2>1, <1>u, <1>r, <1>m, EntryTypes DEF Kill, MarkDead, TypeOK, monitor
<1>7. ASSUME NEW n \in Node, Drain(n) PROVE TypeOK'
  <2>1. events' \in [Node -> SUBSET Events]
        BY <1>7, <1>s, EventsType DEF Drain
  <2> QED BY <1>7, <2>1, <1>u, <1>r, <1>m, EntryTypes DEF Drain, MarkDraining, TypeOK, monitor
<1>8. CASE UNCHANGED vars
      BY <1>8 DEF vars, monitor, TypeOK
<1> QED BY <1>0, <1>1, <1>2, <1>3, <1>4, <1>5, <1>6, <1>7, <1>8 DEF Next

\* The ring's positions belong to nodes, and every entry of the table is whole, for
\* any hash values, capacities, reports and threshold (hash_ring.rs:100-104, 385-391).
THEOREM TypeCorrect == Spec => []TypeOK
<1>1. Init => TypeOK
      BY TypeInit
<1>2. TypeOK /\ [Next]_vars => TypeOK'
      BY TypeNext
<1> QED BY <1>1, <1>2, PTL DEF Spec

-----------------------------------------------------------------------------
\* Whether the methods leave a node in the table.
LEMMA KnownAfter ==
  ASSUME NEW e \in NodeInfo
  PROVE  /\ \A max : Joined(e, max).status = "healthy"
         /\ e.status # "unknown" =>
              /\ Missed(e).status # "unknown"
              /\ Relieved(e).status # "unknown"
              /\ MarkedDead(e).status # "unknown"
              /\ MarkedDraining(e).status # "unknown"
              /\ \A active, hot : Pinged(e, active, hot).status # "unknown"
<1>1. \A max : Joined(e, max).status = "healthy"
      BY DEF Joined, NewNode, NodeInfo
<1>2. ASSUME e.status # "unknown" PROVE Missed(e).status # "unknown"
      BY <1>2 DEF Missed, NodeInfo
<1>3. ASSUME e.status # "unknown" PROVE Relieved(e).status # "unknown"
      BY <1>3 DEF Relieved, NodeInfo
<1>4. ASSUME e.status # "unknown"
      PROVE  MarkedDead(e).status # "unknown" /\ MarkedDraining(e).status # "unknown"
      BY <1>4 DEF MarkedDead, MarkedDraining, NodeInfo
<1>5. ASSUME e.status # "unknown", NEW active, NEW hot
      PROVE  Pinged(e, active, hot).status # "unknown"
      BY <1>5 DEF Pinged, NodeInfo
<1> QED BY <1>1, <1>2, <1>3, <1>4, <1>5

LEMMA StepShape ==
  ASSUME TypeOK, Next
  PROVE  UNCHANGED <<ring, nodes>> \/ \E n \in Node : StepOf(n)
<1>u. nodes \in [Node -> NodeInfo]
      BY DEF TypeOK
<1>0. CASE Scan
      BY <1>0 DEF Scan
<1>1. ASSUME NEW n \in Node, Join(n) PROVE StepOf(n)
  <2>1. nodes' = [nodes EXCEPT ![n] = Joined(nodes[n], Capacity[n])]
        BY <1>1 DEF Join, AddNode
  <2>2. Known(nodes', n)
        BY <2>1, <1>u, KnownAfter DEF Known
  <2>3. \A m \in Node \ {n} : nodes'[m] = nodes[m]
        BY <2>1, <1>u
  <2> QED BY <1>1, <2>2, <2>3, JoinRing DEF StepOf
<1>2. ASSUME NEW n \in Node, Heartbeat(n) PROVE StepOf(n)
  <2>1. PICK w \in Report[n] :
          nodes' = [nodes EXCEPT ![n] = Pinged(nodes[n], w.active, w.hot)]
        BY <1>2 DEF Heartbeat, UpdateNodeInfo
  <2>2. Known(nodes', n)
        BY <2>1, <1>2, <1>u, KnownAfter DEF Known, Heartbeat
  <2>3. \A m \in Node \ {n} : nodes'[m] = nodes[m]
        BY <2>1, <1>u
  <2>4. ring' = ring
        BY <1>2 DEF Heartbeat
  <2> QED BY <1>2, <2>2, <2>3, <2>4 DEF StepOf, Heartbeat
<1>3. ASSUME NEW n \in Node, Miss(n) PROVE StepOf(n)
  <2>1. nodes' = [nodes EXCEPT ![n] = Missed(nodes[n])] /\ ring' = ring
        BY <1>3 DEF Miss, RecordMissedHeartbeat
  <2>2. nodes'[n] = Missed(nodes[n]) /\ \A m \in Node \ {n} : nodes'[m] = nodes[m]
        BY <2>1, <1>u
  <2>3. CASE nodes[n].status = "unknown"
    <3>1. nodes'[n] = nodes[n]
          BY <2>2, <2>3 DEF Missed
    <3> QED BY <2>1, <2>2, <3>1 DEF StepOf, Known
  <2>4. CASE nodes[n].status # "unknown"
    <3>1. nodes'[n].status # "unknown"
          BY <2>2, <2>4, <1>u, KnownAfter
    <3> QED BY <2>1, <2>2, <2>4, <3>1 DEF StepOf, Known
  <2> QED BY <2>3, <2>4
<1>r. ASSUME NEW n \in Node, Remove(n) PROVE StepOf(n)
  <2>1. nodes' = [nodes EXCEPT ![n] = Unknown] /\ ring' = Withdraw(ring, n)
        BY <1>r DEF Remove, RemoveNode
  <2>2. ~Known(nodes', n)
        BY <2>1, <1>u DEF Known, Unknown
  <2>3. \A m \in Node \ {n} : nodes'[m] = nodes[m]
        BY <2>1, <1>u
  <2> QED BY <2>1, <2>2, <2>3 DEF StepOf
<1>4. ASSUME NEW n \in Node, NEW e \in NodeInfo, Known(nodes, n),
             e.status # "unknown", nodes' = [nodes EXCEPT ![n] = e], ring' = ring
      PROVE  StepOf(n)
  <2>1. Known(nodes', n)
        BY <1>4, <1>u DEF Known
  <2>2. \A m \in Node \ {n} : nodes'[m] = nodes[m]
        BY <1>4, <1>u
  <2> QED BY <1>4, <2>1, <2>2 DEF StepOf
<1>5. ASSUME NEW n \in Node, TaskCompleted(n) PROVE StepOf(n)
  <2>1. /\ Known(nodes, n) /\ ring' = ring
        /\ nodes' = [nodes EXCEPT ![n] = Relieved(nodes[n])]
        BY <1>5 DEF TaskCompleted, RecordTaskCompleted
  <2>2. nodes[n] \in NodeInfo /\ nodes[n].status # "unknown"
        BY <2>1, <1>u DEF Known
  <2>3. Relieved(nodes[n]) \in NodeInfo /\ Relieved(nodes[n]).status # "unknown"
        BY <2>2, EntryTypes, KnownAfter
  <2> QED BY <2>1, <2>3, <1>4
<1>6. ASSUME NEW n \in Node, Kill(n) PROVE StepOf(n)
  <2>1. /\ Known(nodes, n) /\ ring' = ring
        /\ nodes' = [nodes EXCEPT ![n] = MarkedDead(nodes[n])]
        BY <1>6 DEF Kill, MarkDead
  <2>2. nodes[n] \in NodeInfo /\ nodes[n].status # "unknown"
        BY <2>1, <1>u DEF Known
  <2>3. MarkedDead(nodes[n]) \in NodeInfo /\ MarkedDead(nodes[n]).status # "unknown"
        BY <2>2, EntryTypes, KnownAfter
  <2> QED BY <2>1, <2>3, <1>4
<1>7. ASSUME NEW n \in Node, Drain(n) PROVE StepOf(n)
  <2>1. /\ Known(nodes, n) /\ ring' = ring
        /\ nodes' = [nodes EXCEPT ![n] = MarkedDraining(nodes[n])]
        BY <1>7 DEF Drain, MarkDraining
  <2>2. nodes[n] \in NodeInfo /\ nodes[n].status # "unknown"
        BY <2>1, <1>u DEF Known
  <2>3. /\ MarkedDraining(nodes[n]) \in NodeInfo
        /\ MarkedDraining(nodes[n]).status # "unknown"
        BY <2>2, EntryTypes, KnownAfter
  <2> QED BY <2>1, <2>3, <1>4
<1> QED BY <1>0, <1>1, <1>2, <1>3, <1>r, <1>5, <1>6, <1>7 DEF Next

-----------------------------------------------------------------------------
LEMMA OwnersNext == TypeOK /\ OwnersAreKnown /\ [Next]_vars => OwnersAreKnown'
<1> SUFFICES ASSUME TypeOK, OwnersAreKnown, [Next]_vars PROVE OwnersAreKnown'
    OBVIOUS
<1>1. CASE UNCHANGED <<ring, nodes>>
      BY <1>1 DEF OwnersAreKnown, Known
<1>2. ASSUME NEW n \in Node, StepOf(n) PROVE OwnersAreKnown'
  <2> SUFFICES ASSUME NEW p \in DOMAIN ring' PROVE Known(nodes', ring'[p])
      BY DEF OwnersAreKnown
  <2>2. ASSUME p \in DOMAIN ring, ring'[p] = ring[p], ring[p] # n
        PROVE  Known(nodes', ring'[p])
    <3>1. ring[p] \in Node \ {n} /\ Known(nodes, ring[p])
          BY <2>2 DEF TypeOK, OwnersAreKnown
    <3> QED BY <3>1, <1>2, <2>2 DEF StepOf, Known
  <2>3. CASE (Known(nodes, n) => Known(nodes', n)) /\ ring' = ring
    <3>1. CASE ring[p] = n
      <4>1. Known(nodes, n)
            BY <2>3, <3>1 DEF OwnersAreKnown
      <4> QED BY <2>3, <3>1, <4>1
    <3> QED BY <2>2, <2>3, <3>1
  <2>4. CASE Known(nodes', n) /\ \E ps \in SUBSET Position :
               ps \cap DOMAIN ring = {} /\ ring' = Insert(ring, n, ps)
    <3>1. PICK ps \in SUBSET Position : ring' = Insert(ring, n, ps)
          BY <2>4
    <3>2. CASE p \in ps
      <4>1. ring'[p] = n
            BY <3>1, <3>2 DEF Insert
      <4> QED BY <2>4, <4>1
    <3>3. CASE p \notin ps
      <4>1. p \in DOMAIN ring /\ ring'[p] = ring[p]
            BY <3>1, <3>3 DEF Insert
      <4> QED BY <2>2, <2>4, <4>1
    <3> QED BY <3>2, <3>3
  <2>5. CASE ring' = Withdraw(ring, n)
    <3>1. p \in DOMAIN ring /\ ring[p] # n /\ ring'[p] = ring[p]
          BY <2>5 DEF Withdraw
    <3> QED BY <2>2, <3>1
  <2> QED BY <1>2, <2>3, <2>4, <2>5 DEF StepOf
<1> QED BY <1>1, <1>2, StepShape DEF vars

\* Whoever owns a position is in the table, and whoever left it left nothing
\* behind, in whatever order nodes join, die and are removed
\* (hash_ring.rs:161, 174-185).
THEOREM RingMatchesTable == Spec => []OwnersAreKnown
<1>1. Init => OwnersAreKnown
      BY DEF Init, OwnersAreKnown
<1>2. TypeOK /\ OwnersAreKnown /\ [Next]_vars => OwnersAreKnown'
      BY OwnersNext
<1> QED BY <1>1, <1>2, TypeCorrect, PTL DEF Spec

-----------------------------------------------------------------------------
\* Where the virtual nodes of a member are: at says which of its keys each went to.
KeyOf(at, n, i) == Probe[n][i][at[n][i]]

Settled(at, n) ==
  /\ Owns(n) = {KeyOf(at, n, i) : i \in VirtualNode}
  /\ \A i, j \in VirtualNode : KeyOf(at, n, i) = KeyOf(at, n, j) => i = j

ShareInv ==
  \E at \in [Node -> [VirtualNode -> Salt]] :
    \A n \in Node : Known(nodes, n) => Settled(at, n)

\* Of the keys of a virtual node, the first vacant one is taken, if there is one.
LEMMA VacantFound ==
  ASSUME NEW n \in Node, NEW i \in VirtualNode, NEW taken
  PROVE  /\ (\E s \in Salt : Probe[n][i][s] \notin taken) => FirstVacant(n, i, taken) # {}
         /\ FirstVacant(n, i, taken) \cap taken = {}
         /\ \A p \in FirstVacant(n, i, taken) : \E s \in Salt : p = Probe[n][i][s]
<1> DEFINE vacant == {s \in Salt : Probe[n][i][s] \notin taken}
<1>1. ASSUME vacant # {}
      PROVE  FirstVacant(n, i, taken) # {}
  <2>1. vacant \in SUBSET Nat
        BY DEF Salt, MaxSalt
  <2> HIDE DEF vacant
  <2>2. PICK u \in vacant : \A z \in vacant : u <= z
        BY <1>1, <2>1, LeastNat
  <2> USE DEF vacant
  <2>3. ASSUME NEW v \in 0..(u - 1)
        PROVE  Probe[n][i][v] \in taken
    <3>1. v \in Salt /\ ~(u <= v)
          BY <2>2 DEF Salt, MaxSalt
    <3> QED BY <2>2, <3>1
  <2> QED BY <2>2, <2>3 DEF FirstVacant
<1> QED BY <1>1 DEF FirstVacant

\* No other virtual node went where n's i-th would with salt s.
Untaken(at, n, i, s) ==
  \A m \in Node, j \in VirtualNode : <<m, j>> # <<n, i>> => KeyOf(at, m, j) # Probe[n][i][s]

LEMMA KeyFree ==
  ASSUME RoomForAll, NEW at \in [Node -> [VirtualNode -> Salt]],
         NEW n \in Node, NEW i \in VirtualNode
  PROVE  \E s \in Salt : Untaken(at, n, i, s)
BY DEF RoomForAll, Untaken, KeyOf

\* A node that joins finds a key for each of its virtual nodes, and another for each.
LEMMA JoinSettles ==
  ASSUME RoomForAll, OwnersAreKnown,
         NEW at \in [Node -> [VirtualNode -> Salt]],
         \A m \in Node : Known(nodes, m) => Settled(at, m),
         DOMAIN ring \subseteq Position, ring \in [DOMAIN ring -> Node],
         NEW n \in Node, ~Known(nodes, n), NEW put \in Placements(n, ring)
  PROVE  \E new \in [VirtualNode -> Salt] :
           /\ \A i \in VirtualNode : put[i] = {Probe[n][i][new[i]]}
           /\ \A i, j \in VirtualNode : Probe[n][i][new[i]] = Probe[n][j][new[j]] => i = j
<1> DEFINE taken(i) == DOMAIN ring \cup UNION {put[j] : j \in 0..(i - 1)}
           key(i) == IF put[i] = {} THEN 0 ELSE CHOOSE s \in Salt : put[i] = {Probe[n][i][s]}
<1>1. ASSUME NEW i \in VirtualNode
      PROVE  /\ put[i] \in {{}} \cup {{p} : p \in Position}
             /\ put[i] = FirstVacant(n, i, taken(i))
      BY DEF Placements
<1>v. ASSUME NEW i \in VirtualNode
      PROVE  /\ (\E s \in Salt : Probe[n][i][s] \notin taken(i)) => put[i] # {}
             /\ put[i] \cap taken(i) = {}
             /\ \A p \in put[i] : \E s \in Salt : p = Probe[n][i][s]
  <2>1. PICK held : held = taken(i)
        OBVIOUS
  <2>2. put[i] = FirstVacant(n, i, held)
        BY <1>1, <2>1
  <2>3. /\ (\E s \in Salt : Probe[n][i][s] \notin held) => put[i] # {}
        /\ put[i] \cap held = {}
        /\ \A p \in put[i] : \E s \in Salt : p = Probe[n][i][s]
    <3> HIDE DEF taken
    <3> QED BY <2>2, VacantFound
  <2> QED BY <2>1, <2>3
<1>2. ASSUME NEW i \in VirtualNode, put[i] # {}
      PROVE  \E s \in Salt : put[i] = {Probe[n][i][s]}
  <2>1. PICK p : put[i] = {p}
        BY <1>1, <1>2
  <2>2. \E s \in Salt : p = Probe[n][i][s]
    <3>1. p \in put[i]
          BY <2>1
    <3> QED BY <1>v, <3>1
  <2> QED BY <2>1, <2>2
<1>3. PICK new : new = [i \in VirtualNode |-> key(i)]
      OBVIOUS
<1>4. ASSUME NEW i \in VirtualNode
      PROVE  new[i] \in Salt /\ (put[i] # {} => put[i] = {Probe[n][i][new[i]]})
  <2>1. 0 \in Salt
        BY DEF Salt, MaxSalt
  <2> QED BY <1>2, <1>3, <2>1
<1>5. new \in [VirtualNode -> Salt]
      BY <1>3, <1>4
<1> HIDE DEF key
\* The keys everyone else's virtual nodes went to leave it one.
<1>6. ASSUME NEW i \in VirtualNode
      PROVE  put[i] # {}
  <2>1. PICK all : all = [at EXCEPT ![n] = new]
        OBVIOUS
  <2>2. /\ all \in [Node -> [VirtualNode -> Salt]]
        /\ all[n] = new /\ \A m \in Node \ {n} : all[m] = at[m]
        BY <1>5, <2>1
  <2>f. PICK s \in Salt : Untaken(all, n, i, s)
        BY <2>2, KeyFree
  <2>3. \A m \in Node, j \in VirtualNode :
          <<m, j>> # <<n, i>> => Probe[m][j][all[m][j]] # Probe[n][i][s]
        BY <2>f DEF Untaken, KeyOf
  <2>4. Probe[n][i][s] \notin DOMAIN ring
    <3> SUFFICES ASSUME Probe[n][i][s] \in DOMAIN ring
                 PROVE  FALSE
        OBVIOUS
    <3>1. PICK m \in Node : m = ring[Probe[n][i][s]]
          OBVIOUS
    <3>2. Known(nodes, m) /\ m # n
          BY <3>1 DEF OwnersAreKnown
    <3>3. Probe[n][i][s] \in Owns(m)
          BY <3>1 DEF Owns
    <3>4. PICK j \in VirtualNode : Probe[n][i][s] = Probe[m][j][at[m][j]]
          BY <3>2, <3>3 DEF Settled, KeyOf
    <3> QED BY <2>2, <2>3, <3>2, <3>4
  <2>5. ASSUME NEW j \in 0..(i - 1)
        PROVE  Probe[n][i][s] \notin put[j]
    <3>1. j \in VirtualNode /\ j # i
          BY RingAssumption DEF VirtualNode
    <3>2. put[j] = {} \/ put[j] = {Probe[n][j][new[j]]}
          BY <1>4, <3>1
    <3>3. Probe[n][j][new[j]] # Probe[n][i][s]
          BY <2>2, <2>3, <3>1
    <3> QED BY <3>2, <3>3
  <2>6. Probe[n][i][s] \notin taken(i)
        BY <2>4, <2>5
  <2> QED BY <1>v, <2>6
<1>7. ASSUME NEW i \in VirtualNode, NEW j \in VirtualNode, j < i
      PROVE  Probe[n][i][new[i]] # Probe[n][j][new[j]]
  <2>1. put[i] \cap taken(i) = {}
        BY <1>v
  <2>2. j \in 0..(i - 1)
        BY <1>7, RingAssumption DEF VirtualNode
  <2>3. put[j] \subseteq taken(i)
        BY <2>2
  <2> QED BY <1>4, <1>6, <2>1, <2>3
<1>8. \A i, j \in VirtualNode : i = j \/ i < j \/ j < i
      BY RingAssumption DEF VirtualNode
<1> QED BY <1>4, <1>5, <1>6, <1>7, <1>8

LEMMA ShareNext ==
  RoomForAll /\ TypeOK /\ OwnersAreKnown /\ ShareInv /\ [Next]_vars => ShareInv'
<1> SUFFICES ASSUME RoomForAll, TypeOK, OwnersAreKnown, ShareInv, [Next]_vars
             PROVE  ShareInv'
    OBVIOUS
<1>0. PICK at \in [Node -> [VirtualNode -> Salt]] :
        \A m \in Node : Known(nodes, m) => Settled(at, m)
      BY DEF ShareInv
<1>r. DOMAIN ring \subseteq Position /\ ring \in [DOMAIN ring -> Node]
      BY DEF TypeOK
<1>s. ASSUME NEW n \in Node, Owns(n)' = Owns(n), Settled(at, n)
      PROVE  Settled(at, n)'
      BY <1>s DEF Settled, KeyOf
<1>1. CASE UNCHANGED <<ring, nodes>>
  <2>1. \A m \in Node : Owns(m)' = Owns(m) /\ (Known(nodes', m) <=> Known(nodes, m))
        BY <1>1 DEF Owns
  <2>2. \A m \in Node : Known(nodes', m) => Settled(at, m)'
        BY <1>0, <1>s, <2>1
  <2> QED BY <1>0, <2>2 DEF ShareInv
<1>2. ASSUME NEW n \in Node, StepOf(n) PROVE ShareInv'
  <2>2. \A m \in Node \ {n} : Known(nodes', m) <=> Known(nodes, m)
        BY <1>2 DEF StepOf, Known
  <2>3. CASE (Known(nodes, n) <=> Known(nodes', n)) /\ ring' = ring
    <3>1. \A m \in Node : Owns(m)' = Owns(m)
          BY <2>3 DEF Owns
    <3>2. \A m \in Node : Known(nodes', m) => Settled(at, m)'
          BY <1>0, <1>s, <2>2, <2>3, <3>1
    <3> QED BY <1>0, <3>2 DEF ShareInv
  <2>4. CASE ring' = Withdraw(ring, n) /\ ~Known(nodes', n)
    <3>1. \A m \in Node \ {n} : Owns(m)' = Owns(m)
          BY <2>4 DEF Owns, Withdraw
    <3>2. \A m \in Node : Known(nodes', m) => Settled(at, m)'
          BY <1>0, <1>s, <2>2, <2>4, <3>1
    <3> QED BY <1>0, <3>2 DEF ShareInv
  <2>5. CASE ~Known(nodes, n) /\ Join(n)
    <3>1. PICK put \in Placements(n, ring) :
            ring' = Insert(ring, n, UNION {put[i] : i \in VirtualNode})
          BY <2>5 DEF Join
    <3>2. PICK new \in [VirtualNode -> Salt] :
            /\ \A i \in VirtualNode : put[i] = {Probe[n][i][new[i]]}
            /\ \A i, j \in VirtualNode : Probe[n][i][new[i]] = Probe[n][j][new[j]] => i = j
          BY <1>0, <1>r, <2>5, <3>1, JoinSettles
    <3>3. PICK ps : ps = UNION {put[i] : i \in VirtualNode}
          OBVIOUS
    <3>4. ps = {Probe[n][i][new[i]] : i \in VirtualNode}
          BY <3>2, <3>3
    <3>5. ps \cap DOMAIN ring = {}
          BY <3>1, <3>3, PlacedIsVacant
    <3>6. Owns(n) = {}
          BY <2>5 DEF Owns, OwnersAreKnown
    <3>7. ring' = Insert(ring, n, ps)
          BY <3>1, <3>3
    <3>8. Owns(n)' = ps
          BY <3>6, <3>7 DEF Owns, Insert
    <3>9. \A m \in Node \ {n} : Owns(m)' = Owns(m)
          BY <3>5, <3>7 DEF Owns, Insert
    <3>10. PICK all : all = [at EXCEPT ![n] = new]
          OBVIOUS
    <3>11. /\ all \in [Node -> [VirtualNode -> Salt]]
           /\ all[n] = new /\ \A m \in Node \ {n} : all[m] = at[m]
          BY <3>2, <3>10
    <3>12. Settled(all, n)'
          BY <3>2, <3>4, <3>8, <3>11 DEF Settled, KeyOf
    <3>13. \A m \in Node \ {n} : Known(nodes', m) => Settled(all, m)'
          BY <1>0, <2>2, <3>9, <3>11 DEF Settled, KeyOf
    <3> QED BY <3>11, <3>12, <3>13 DEF ShareInv
  <2> QED BY <1>2, <2>3, <2>4, <2>5 DEF StepOf
<1> QED BY <1>1, <1>2, StepShape DEF vars

\* As many numbers as virtual nodes, each with a position of its own.
LEMMA ShareCounted ==
  ASSUME NEW at, NEW n \in Node, Settled(at, n)
  PROVE  Cardinality(Owns(n)) = VirtualNodes
<1>1. PICK f : f = [i \in VirtualNode |-> KeyOf(at, n, i)]
      OBVIOUS
<1>2. f \in [VirtualNode -> Owns(n)]
      BY <1>1 DEF Settled
<1>3. /\ \A i, j \in VirtualNode : f[i] = f[j] => i = j
      /\ \A p \in Owns(n) : \E i \in VirtualNode : f[i] = p
      BY <1>1 DEF Settled
<1>4. f \in Bijection(VirtualNode, Owns(n))
      BY <1>2, <1>3 DEF Bijection, Injection, IsInjective, Surjection
<1>5. IsFiniteSet(VirtualNode) /\ Cardinality(VirtualNode) = VirtualNodes
      BY RingAssumption, FS_Interval DEF VirtualNode
<1>6. ExistsBijection(VirtualNode, Owns(n))
      BY <1>4 DEF ExistsBijection
<1> QED BY <1>5, <1>6, FS_Bijection

\* Where three salts are enough, every member has all its virtual nodes on the ring, in
\* whatever order nodes join, leave and return (hash_ring.rs:140-160).
THEOREM MembersHaveTheirShare == ASSUME RoomForAll PROVE Spec => []FullShare
<1>1. Init => ShareInv
  <2> SUFFICES ASSUME Init PROVE ShareInv
      OBVIOUS
  <2>1. PICK at : at = [n \in Node |-> [i \in VirtualNode |-> 0]]
        OBVIOUS
  <2>2. at \in [Node -> [VirtualNode -> Salt]]
        BY <2>1 DEF Salt, MaxSalt
  <2>3. \A n \in Node : ~Known(nodes, n)
        BY DEF Init, Known, Unknown
  <2> QED BY <2>2, <2>3 DEF ShareInv
<1>2. TypeOK /\ OwnersAreKnown /\ ShareInv /\ [Next]_vars => ShareInv'
      BY ShareNext
<1>3. ShareInv => FullShare
      BY ShareCounted DEF ShareInv, FullShare
<1> QED BY <1>1, <1>2, <1>3, TypeCorrect, RingMatchesTable, PTL DEF Spec

-----------------------------------------------------------------------------
LEMMA KeepsPositions ==
  ASSUME TypeOK, [Next]_vars, NEW p \in DOMAIN ring, Known(nodes', ring[p])
  PROVE  p \in DOMAIN ring' /\ ring'[p] = ring[p]
<1>1. CASE UNCHANGED <<ring, nodes>>
      BY <1>1
<1>2. ASSUME NEW n \in Node, StepOf(n) PROVE p \in DOMAIN ring' /\ ring'[p] = ring[p]
  <2>2. CASE \E ps \in SUBSET Position :
               ps \cap DOMAIN ring = {} /\ ring' = Insert(ring, n, ps)
    <3>1. PICK ps \in SUBSET Position :
            ps \cap DOMAIN ring = {} /\ ring' = Insert(ring, n, ps)
          BY <2>2
    <3>2. p \notin ps
          BY <3>1
    <3> QED BY <3>1, <3>2 DEF Insert
  <2>3. CASE ~Known(nodes', n) /\ ring' = Withdraw(ring, n)
    <3>1. ring[p] # n
          BY <2>3
    <3> QED BY <2>3, <3>1 DEF Withdraw
  <2> QED BY <1>2, <2>2, <2>3 DEF StepOf
<1> QED BY <1>1, <1>2, StepShape DEF vars

\* A position is its owner's for as long as the owner is a member: no join takes it
\* over, however many keys collide (hash_ring.rs:122-132, 142).
THEOREM MembersKeepTheirPositions == Spec => PositionsKept
<1>1. TypeOK /\ [Next]_vars =>
        [ \A p \in DOMAIN ring :
            Known(nodes', ring[p]) => p \in DOMAIN ring' /\ ring'[p] = ring[p] ]_vars
      BY KeepsPositions
<1> QED BY <1>1, TypeCorrect, PTL DEF Spec, PositionsKept

-----------------------------------------------------------------------------
LEMMA UnfitInit == Init => UnfitInv
BY DEF Init, UnfitInv, Agree

LEMMA UnfitNext == TypeOK /\ UnfitInv /\ [Next]_vars => UnfitInv'
<1> SUFFICES ASSUME TypeOK, UnfitInv, [Next]_vars PROVE UnfitInv'
    OBVIOUS
<1>u. nodes \in [Node -> NodeInfo] /\ events \in [Node -> SUBSET Events]
      BY DEF TypeOK
<1>a. \A n \in Node : Agree(nodes[n], events[n])
      BY DEF UnfitInv
<1>s. ASSUME NEW n \in Node, NEW e, NEW what, Agree(e, what),
             nodes' = [nodes EXCEPT ![n] = e], events' = [events EXCEPT ![n] = what]
      PROVE  UnfitInv'
  <2>1. \A m \in Node : Agree(nodes'[m], events'[m])
        BY <1>a, <1>u, <1>s
  <2> QED BY <2>1 DEF UnfitInv
<1>0. CASE Scan
      BY <1>0 DEF Scan, UnfitInv
<1>1. ASSUME NEW n \in Node, Join(n) PROVE UnfitInv'
  <2>1. /\ nodes' = [nodes EXCEPT ![n] = Joined(nodes[n], Capacity[n])]
        /\ events' = [events EXCEPT ![n] = events[n] \ {"silenced"}]
        BY <1>1 DEF Join, AddNode
  <2>2. Joined(nodes[n], Capacity[n]).status = "healthy"
        BY <1>u, KnownAfter
  <2>3. nodes[n].status # "unknown" => Joined(nodes[n], Capacity[n]).hot = nodes[n].hot
        BY <1>u DEF Joined, NodeInfo
  <2>4. Agree(Joined(nodes[n], Capacity[n]), events[n] \ {"silenced"})
        BY <1>a, <2>2, <2>3 DEF Agree
  <2> QED BY <1>s, <2>1, <2>4
<1>2. ASSUME NEW n \in Node, Heartbeat(n) PROVE UnfitInv'
  <2>1. PICK w \in Report[n] :
          /\ nodes' = [nodes EXCEPT ![n] = Pinged(nodes[n], w.active, w.hot)]
          /\ events' = [events EXCEPT ![n] = IF w.hot THEN {"hot"} ELSE {}]
        BY <1>2 DEF Heartbeat, UpdateNodeInfo
  <2>2. nodes[n].status # "unknown" /\ nodes[n] \in NodeInfo
        BY <1>2, <1>u DEF Heartbeat, Known
  <2>3. Pinged(nodes[n], w.active, w.hot).status # "unknown"
        BY <2>2, KnownAfter
  <2>4. Pinged(nodes[n], w.active, w.hot).hot = w.hot
        BY <2>2 DEF Pinged, NodeInfo
  <2>5. Agree(Pinged(nodes[n], w.active, w.hot), IF w.hot THEN {"hot"} ELSE {})
        BY <2>3, <2>4 DEF Agree
  <2> QED BY <1>s, <2>1, <2>5
<1>3. ASSUME NEW n \in Node, Miss(n) PROVE UnfitInv'
  <2>1. /\ nodes' = [nodes EXCEPT ![n] = Missed(nodes[n])]
        /\ events' = [events EXCEPT ![n] = events[n] \cup {"silenced"}]
        BY <1>3 DEF Miss, RecordMissedHeartbeat, Happens
  <2>2. /\ Missed(nodes[n]).status # "healthy"
        /\ nodes[n].status # "unknown" => Missed(nodes[n]).status # "unknown"
        /\ Missed(nodes[n]).hot = nodes[n].hot
        BY <1>u DEF Missed, NodeInfo
  <2>3. Agree(Missed(nodes[n]), events[n] \cup {"silenced"})
        BY <1>a, <2>2 DEF Agree
  <2> QED BY <1>s, <2>1, <2>3
<1>r. ASSUME NEW n \in Node, Remove(n) PROVE UnfitInv'
  <2>1. /\ nodes' = [nodes EXCEPT ![n] = Unknown]
        /\ events' = [events EXCEPT ![n] = events[n] \cup Gone(n)]
        BY <1>r DEF Remove, RemoveNode, Happens
  <2>2. Agree(Unknown, events[n] \cup Gone(n))
        BY DEF Agree, Gone, Unknown
  <2> QED BY <1>s, <2>1, <2>2
<1>4. ASSUME NEW n \in Node, TaskCompleted(n) PROVE UnfitInv'
  <2>1. /\ nodes' = [nodes EXCEPT ![n] = Relieved(nodes[n])]
        /\ events' = [events EXCEPT ![n] = events[n]]
        BY <1>4, <1>u DEF TaskCompleted, RecordTaskCompleted
  <2>2. /\ Relieved(nodes[n]).status = nodes[n].status
        /\ Relieved(nodes[n]).hot = nodes[n].hot
        BY <1>u DEF Relieved, NodeInfo
  <2>3. Agree(Relieved(nodes[n]), events[n])
        BY <1>a, <2>2 DEF Agree
  <2> QED BY <1>s, <2>1, <2>3
<1>5. ASSUME NEW n \in Node, Kill(n) PROVE UnfitInv'
  <2>1. /\ nodes' = [nodes EXCEPT ![n] = MarkedDead(nodes[n])]
        /\ events' = [events EXCEPT ![n] = events[n] \cup Gone(n)]
        BY <1>5 DEF Kill, MarkDead, Happens
  <2>2. nodes[n].status # "unknown" /\ nodes[n] \in NodeInfo
        BY <1>5, <1>u DEF Kill, Known
  <2>3. MarkedDead(nodes[n]).status = "dead"
        BY <2>2 DEF MarkedDead, NodeInfo
  <2>4. Agree(MarkedDead(nodes[n]), events[n] \cup Gone(n))
        BY <2>3 DEF Agree, Gone
  <2> QED BY <1>s, <2>1, <2>4
<1>6. ASSUME NEW n \in Node, Drain(n) PROVE UnfitInv'
  <2>1. /\ nodes' = [nodes EXCEPT ![n] = MarkedDraining(nodes[n])]
        /\ events' = [events EXCEPT ![n] = events[n] \cup {"silenced"}]
        BY <1>6 DEF Drain, MarkDraining, Happens
  <2>2. nodes[n].status # "unknown" /\ nodes[n] \in NodeInfo
        BY <1>6, <1>u DEF Drain, Known
  <2>3. /\ MarkedDraining(nodes[n]).status = "draining"
        /\ MarkedDraining(nodes[n]).hot = nodes[n].hot
        BY <2>2 DEF MarkedDraining, NodeInfo
  <2>4. Agree(MarkedDraining(nodes[n]), events[n] \cup {"silenced"})
        BY <1>a, <2>3 DEF Agree
  <2> QED BY <1>s, <2>1, <2>4
<1>7. CASE UNCHANGED vars
      BY <1>7 DEF vars, UnfitInv
<1> QED BY <1>0, <1>1, <1>2, <1>3, <1>r, <1>4, <1>5, <1>6, <1>7 DEF Next

LEMMA UnfitRefused == TypeOK /\ UnfitInv => UnfitNotRouted
<1> SUFFICES ASSUME TypeOK, UnfitInv, NEW h \in Position, NEW n \in GetNode(ring, nodes, h)
             PROVE  "silenced" \notin events[n] /\ ("hot" \in events[n] => "wiped" \in events[n])
    BY DEF UnfitNotRouted
<1>1. n \in Node /\ Routable(nodes, n)
      BY DEF GetNode, First, TypeOK
<1> QED BY <1>1 DEF UnfitInv, Agree, Routable

\* No walk returns a node that was missed, drained, killed or removed and neither heard
\* nor claiming since; nor one whose last heartbeat said its cpu is saturated, if it was
\* not killed or removed since then (hash_ring.rs:124-131, 173-200, 281, 347).
THEOREM UnfitNeverRouted == Spec => []UnfitNotRouted
<1>1. Init => UnfitInv
      BY UnfitInit
<1>2. TypeOK /\ UnfitInv /\ [Next]_vars => UnfitInv'
      BY UnfitNext
<1>3. TypeOK /\ UnfitInv => UnfitNotRouted
      BY UnfitRefused
<1> QED BY <1>1, <1>2, <1>3, TypeCorrect, PTL DEF Spec

-----------------------------------------------------------------------------
\* A walk over positions that exist is never empty-handed.
LEMMA WalkFinds ==
  ASSUME NEW r, NEW h \in Position, NEW S \in SUBSET Position, S # {}
  PROVE  {r[p] : p \in First(h, S)} # {}
<1>1. PICK p \in S : First(h, S) = {p}
      BY FirstIsOne
<1> QED BY <1>1

\* A task is refused only when nobody on the ring can take it, from wherever it
\* hashes to (hash_ring.rs:327-383).
THEOREM NeverRefusedInVain == Spec => []RoutedWhileAnyoneCan
<1>1. TypeOK => RoutedWhileAnyoneCan
  <2> SUFFICES ASSUME TypeOK, NEW h \in Position, NEW q \in DOMAIN ring
               PROVE  /\ Routable(nodes, ring[q]) => GetNode(ring, nodes, h) # {}
                      /\ Alive(nodes, ring[q]) => GetNodeForce(ring, nodes, h) # {}
      BY DEF RoutedWhileAnyoneCan
  <2> DEFINE able == {p \in DOMAIN ring : Routable(nodes, ring[p])}
             alive == {p \in DOMAIN ring : Alive(nodes, ring[p])}
  <2>1. able \in SUBSET Position /\ alive \in SUBSET Position
        BY DEF TypeOK
  <2>2. ASSUME Routable(nodes, ring[q]) PROVE GetNode(ring, nodes, h) # {}
    <3>1. able # {}
          BY <2>2
    <3>2. {ring[p] : p \in First(h, able)} # {}
          BY <2>1, <3>1, WalkFinds
    <3> QED BY <3>2 DEF GetNode
  <2>3. ASSUME Alive(nodes, ring[q]) PROVE GetNodeForce(ring, nodes, h) # {}
    <3>1. alive # {}
          BY <2>3
    <3>2. {ring[p] : p \in First(h, alive)} # {}
          BY <2>1, <3>1, WalkFinds
    <3> QED BY <3>2 DEF GetNodeForce
  <2> QED BY <2>2, <2>3
<1> QED BY <1>1, TypeCorrect, PTL

-----------------------------------------------------------------------------
\* After a step about n, the others own what they owned, wherever n's positions went.
LEMMA OthersKeepPositions ==
  ASSUME TypeOK, NEW n \in Node, StepOf(n)
  PROVE  /\ \A p \in Position :
              (p \in DOMAIN ring /\ ring[p] # n) <=> (p \in DOMAIN ring' /\ ring'[p] # n)
         /\ \A p \in DOMAIN ring : ring[p] # n => ring'[p] = ring[p]
         /\ DOMAIN ring' \subseteq Position
<1>1. DOMAIN ring \subseteq Position
      BY DEF TypeOK
<1>2. CASE ring' = ring
      BY <1>1, <1>2
<1>3. ASSUME NEW ps \in SUBSET Position, ps \cap DOMAIN ring = {},
             ring' = Insert(ring, n, ps)
      PROVE  /\ \A p \in Position :
                  (p \in DOMAIN ring /\ ring[p] # n) <=> (p \in DOMAIN ring' /\ ring'[p] # n)
             /\ \A p \in DOMAIN ring : ring[p] # n => ring'[p] = ring[p]
             /\ DOMAIN ring' \subseteq Position
  <2>1. /\ DOMAIN ring' = DOMAIN ring \cup ps
        /\ \A p \in ps : ring'[p] = n
        /\ \A p \in DOMAIN ring : ring'[p] = ring[p]
        BY <1>3 DEF Insert
  <2> QED BY <1>1, <2>1
<1>4. CASE ring' = Withdraw(ring, n)
  <2>1. /\ DOMAIN ring' = {p \in DOMAIN ring : ring[p] # n}
        /\ \A p \in DOMAIN ring' : ring'[p] = ring[p]
        BY <1>4 DEF Withdraw
  <2> QED BY <1>1, <2>1
<1> QED BY <1>2, <1>3, <1>4 DEF StepOf

\* Every step explains what it does to the routes by the one node it is about.
LEMMA OneNodeExplains ==
  ASSUME TypeOK, NEW n \in Node, StepOf(n), NEW h \in Position
  PROVE  /\ Explains(n, GetNode(ring, nodes, h), GetNode(ring', nodes', h))
         /\ Explains(n, GetNodeForce(ring, nodes, h), GetNodeForce(ring', nodes', h))
<1> DEFINE able == {p \in DOMAIN ring : Routable(nodes, ring[p])}
           able2 == {p \in DOMAIN ring' : Routable(nodes', ring'[p])}
           alive == {p \in DOMAIN ring : Alive(nodes, ring[p])}
           alive2 == {p \in DOMAIN ring' : Alive(nodes', ring'[p])}
<1>1. /\ \A p \in Position :
           (p \in DOMAIN ring /\ ring[p] # n) <=> (p \in DOMAIN ring' /\ ring'[p] # n)
      /\ \A p \in DOMAIN ring : ring[p] # n => ring'[p] = ring[p]
      BY OthersKeepPositions
<1>2. DOMAIN ring \subseteq Position /\ DOMAIN ring' \subseteq Position
      BY OthersKeepPositions DEF TypeOK
<1>3. ASSUME NEW p \in DOMAIN ring, ring[p] # n
      PROVE  /\ Routable(nodes', ring[p]) <=> Routable(nodes, ring[p])
             /\ Alive(nodes', ring[p]) <=> Alive(nodes, ring[p])
  <2>1. ring[p] \in Node \ {n}
        BY <1>3 DEF TypeOK
  <2>2. nodes'[ring[p]] = nodes[ring[p]]
        BY <2>1 DEF StepOf
  <2> QED BY <2>2 DEF Routable, Alive
<1>4. \A p \in Position : (p \in able /\ ring[p] # n) <=> (p \in able2 /\ ring'[p] # n)
  <2> SUFFICES ASSUME NEW p \in Position
               PROVE  (p \in able /\ ring[p] # n) <=> (p \in able2 /\ ring'[p] # n)
      OBVIOUS
  <2>1. CASE p \in DOMAIN ring /\ ring[p] # n
    <3>1. p \in DOMAIN ring' /\ ring'[p] = ring[p]
          BY <2>1, <1>1
    <3> QED BY <2>1, <3>1, <1>3
  <2>2. CASE ~(p \in DOMAIN ring /\ ring[p] # n)
        BY <2>2, <1>1
  <2> QED BY <2>1, <2>2
<1>5. \A p \in Position : (p \in alive /\ ring[p] # n) <=> (p \in alive2 /\ ring'[p] # n)
  <2> SUFFICES ASSUME NEW p \in Position
               PROVE  (p \in alive /\ ring[p] # n) <=> (p \in alive2 /\ ring'[p] # n)
      OBVIOUS
  <2>1. CASE p \in DOMAIN ring /\ ring[p] # n
    <3>1. p \in DOMAIN ring' /\ ring'[p] = ring[p]
          BY <2>1, <1>1
    <3> QED BY <2>1, <3>1, <1>3
  <2>2. CASE ~(p \in DOMAIN ring /\ ring[p] # n)
        BY <2>2, <1>1
  <2> QED BY <2>1, <2>2
<1>6. /\ \A p \in able : ring[p] # n => ring'[p] = ring[p]
      /\ \A p \in alive : ring[p] # n => ring'[p] = ring[p]
      BY <1>1
<1>7. /\ SameElsewhere(n, ring, able, ring', able2)
      /\ SameElsewhere(n, ring, alive, ring', alive2)
  <2>1. /\ able \in SUBSET Position /\ able2 \in SUBSET Position
        /\ alive \in SUBSET Position /\ alive2 \in SUBSET Position
        BY <1>2
  <2> HIDE DEF able, able2, alive, alive2
  <2> QED BY <1>4, <1>5, <1>6, <2>1 DEF SameElsewhere
<1> HIDE DEF able, able2, alive, alive2
<1>8. /\ Explains(n, Reached(ring, able, h), Reached(ring', able2, h))
      /\ Explains(n, Reached(ring, alive, h), Reached(ring', alive2, h))
      BY <1>7, WalksDifferByOne
<1> QED BY <1>8 DEF GetNode, GetNodeForce, Reached, able, able2, alive, alive2

\* Whatever happens, a task is routed elsewhere only by losing its node or by gaining
\* one, and it is the same node for every task (examples/failure_simulation.rs:65).
THEOREM OnlyTheNodesOwnTasksMove == Spec => OnlyItsTasksMove
<1>1. ASSUME TypeOK, Next, Eligible' # Eligible
      PROVE  \E n \in Node : \A h \in Position :
               /\ Explains(n, GetNode(ring, nodes, h), GetNode(ring', nodes', h))
               /\ Explains(n, GetNodeForce(ring, nodes, h),
                              GetNodeForce(ring', nodes', h))
  <2>1. ~UNCHANGED <<ring, nodes>>
        BY <1>1 DEF Eligible
  <2>2. PICK n \in Node : StepOf(n)
        BY <1>1, <2>1, StepShape
  <2> QED BY <1>1, <2>2, OneNodeExplains
<1>2. TypeOK /\ [Next]_vars =>
        [ Eligible' # Eligible =>
            \E n \in Node : \A h \in Position :
              /\ Explains(n, GetNode(ring, nodes, h), GetNode(ring', nodes', h))
              /\ Explains(n, GetNodeForce(ring, nodes, h),
                             GetNodeForce(ring', nodes', h)) ]_vars
      BY <1>1
<1> QED BY <1>2, TypeCorrect, PTL DEF Spec, OnlyItsTasksMove

=============================================================================
