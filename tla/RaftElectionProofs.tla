------------------------- MODULE RaftElectionProofs -------------------------
(***************************************************************************)
(* Election safety of RaftElection for every cluster and every MaxTerm.    *)
(*                                                                         *)
(* What makes a count of votes mean something is not in any one node: the  *)
(* voters have moved on by the time it is used. The inductive invariant    *)
(* therefore speaks of the votes given so far (Voted): a vote binds its    *)
(* voter while it stays in the term (VoteInv), so a voter gives one per    *)
(* term (OneVoteInv); a count stands for as many voters (CountInv); and    *)
(* whoever led a term had a majority of its votes (BeatInv). Two leaders   *)
(* of a term would then share a voter.                                     *)
(***************************************************************************)
EXTENDS RaftElection, FiniteSetTheorems, TLAPS

\* m has voted for c in t, whether or not c has heard: it granted c's request,
\* or is c itself.
Voted(m, c, t) ==
  \/ <<m, c, t>> \in grants
  \/ m = c /\ <<c, t>> \in requests

\* A voter is no longer in an earlier term than its vote, and while it is in
\* that term its voted_for is that vote.
VoteInv ==
  \A m, c \in Node, t \in Term :
    Voted(m, c, t) =>
      \/ current_term[m] > t
      \/ current_term[m] = t /\ voted_for[m] = c

OneVoteInv ==
  \A m, c, d \in Node, t \in Term :
    Voted(m, c, t) /\ Voted(m, d, t) => c = d

\* What a candidate or leader has counted: itself and its peers' grants.
CountInv ==
  \A n \in Node :
    role[n] # "Follower" =>
      /\ <<n, current_term[n]>> \in requests
      /\ n \notin counted[n]
      /\ \A m \in counted[n] : <<m, n, current_term[n]>> \in grants
      /\ votes_received[n] = Cardinality(counted[n]) + 1

RoleInv ==
  \A n \in Node :
    /\ role[n] = "Candidate" => votes_received[n] < Majority
    /\ role[n] = "Leader" => /\ votes_received[n] = Majority
                             /\ <<n, current_term[n]>> \in beats

\* A candidate grants nobody's request but its peers'.
PeerInv == \A n, c \in Node, t \in Term : <<n, c, t>> \in grants => n # c

BeatInv ==
  \A n \in Node, t \in Term :
    <<n, t>> \in beats =>
      /\ current_term[n] >= t
      /\ \E Q \in SUBSET Node :
           /\ Cardinality(Q) >= Majority
           /\ \A m \in Q : Voted(m, n, t)

IInv ==
  /\ TypeOK
  /\ VoteInv
  /\ OneVoteInv
  /\ PeerInv
  /\ CountInv
  /\ RoleInv
  /\ BeatInv

-----------------------------------------------------------------------------
\* A majority has at least two members, and two majorities have one in common.
LEMMA MajorityFacts ==
  /\ Cardinality(Node) \in Nat
  /\ Majority \in Nat
  /\ Majority >= 2
  /\ Majority <= Cardinality(Node)
  /\ \A P, Q \in SUBSET Node :
       Cardinality(P) >= Majority /\ Cardinality(Q) >= Majority => P \cap Q # {}
<1>1. Cardinality(Node) \in Nat
  BY NodeAssumption, FS_CardinalityType
<1>2. /\ Majority \in Nat
      /\ Majority >= 2
      /\ Majority <= Cardinality(Node)
      /\ Majority + Majority > Cardinality(Node)
  BY <1>1, ClusterAssumption DEF Majority
<1>3. ASSUME NEW P \in SUBSET Node, NEW Q \in SUBSET Node,
             Cardinality(P) >= Majority, Cardinality(Q) >= Majority
      PROVE  P \cap Q # {}
  <2>1. Cardinality(P) \in Nat /\ Cardinality(Q) \in Nat
    BY NodeAssumption, FS_Subset, FS_CardinalityType
  <2>2. Cardinality(P) + Cardinality(Q) > Cardinality(Node)
    BY <1>1, <1>2, <1>3, <2>1
  <2>. QED
    BY <2>2, NodeAssumption, FS_MajoritiesIntersect
<1>. QED
  BY <1>1, <1>2, <1>3

\* The initial states satisfy the invariant.
LEMMA InitInv == Init => IInv
<1>. SUFFICES ASSUME Init PROVE IInv
  OBVIOUS
<1>1. TypeOK
  BY MajorityFacts, TermAssumption DEF Init, TypeOK, Role, Term
<1>2. VoteInv /\ OneVoteInv /\ PeerInv /\ BeatInv
  BY DEF Init, VoteInv, OneVoteInv, PeerInv, BeatInv, Voted
<1>3. CountInv /\ RoleInv
  BY DEF Init, CountInv, RoleInv
<1>. QED
  BY <1>1, <1>2, <1>3 DEF IInv

\* Types are kept. record_vote_response counts only for a candidate, whose
\* count is below the majority.
LEMMA NextType ==
  ASSUME TypeOK, RoleInv, [Next]_vars
  PROVE  TypeOK'
<1>. USE TermAssumption DEF TypeOK, Role, Term
<1>. Majority \in Nat /\ Majority >= 2
  BY MajorityFacts
<1>1. ASSUME NEW n \in Node, StartElection(n) PROVE TypeOK'
  BY <1>1 DEF StartElection
<1>2. ASSUME NEW n \in Node, NEW c \in Node, NEW t \in Term,
             HandleVoteRequest(n, c, t)
      PROVE  TypeOK'
  BY <1>2 DEF HandleVoteRequest
<1>3. ASSUME NEW n \in Node, NEW m \in Node, RecordVoteResponse(n, m)
      PROVE  TypeOK'
  <2>1. role[n] = "Candidate"
    BY <1>3 DEF RecordVoteResponse
  <2>2. votes_received[n] < Majority
    BY <2>1 DEF RoleInv
  <2>. QED
    BY <1>3, <2>2 DEF RecordVoteResponse
<1>4. ASSUME NEW n \in Node, NEW l \in Node, NEW t \in Term,
             HandleHeartbeat(n, l, t)
      PROVE  TypeOK'
  BY <1>4 DEF HandleHeartbeat, network
<1>5. CASE UNCHANGED vars
  BY <1>5 DEF vars, node, network
<1>. QED
  BY <1>1, <1>2, <1>3, <1>4, <1>5 DEF Next

\* A vote is given in the voter's present term, where it has given no other,
\* and binds it until the term changes.
LEMMA NextVotes ==
  ASSUME TypeOK, VoteInv, OneVoteInv, PeerInv, [Next]_vars
  PROVE  VoteInv' /\ OneVoteInv' /\ PeerInv'
<1>. USE TermAssumption DEF TypeOK, Role, Term
<1>1. ASSUME NEW n \in Node, StartElection(n)
      PROVE  VoteInv' /\ OneVoteInv' /\ PeerInv'
  <2>. DEFINE t == current_term[n] + 1
  <2>1. /\ current_term' = [current_term EXCEPT ![n] = t]
        /\ voted_for' = [voted_for EXCEPT ![n] = n]
        /\ t \in Term
        /\ grants' = grants
    BY <1>1 DEF StartElection
  <2>2. ASSUME NEW m \in Node, NEW d \in Node, NEW u \in Term, Voted(m, d, u)'
        PROVE  Voted(m, d, u) \/ (m = n /\ d = n /\ u = t)
    BY <1>1, <2>2 DEF StartElection, Voted
  <2>3. ASSUME NEW d \in Node PROVE ~Voted(n, d, t)
    BY <2>1 DEF VoteInv
  <2>. HIDE DEF t
  <2>4. VoteInv'
    BY <2>1, <2>2, <2>3 DEF VoteInv, t
  <2>5. OneVoteInv'
    BY <2>2, <2>3 DEF OneVoteInv
  <2>6. PeerInv'
    BY <2>1 DEF PeerInv
  <2>. QED
    BY <2>4, <2>5, <2>6
<1>2. ASSUME NEW n \in Node, NEW c \in Node, NEW t \in Term,
             HandleVoteRequest(n, c, t)
      PROVE  VoteInv' /\ OneVoteInv' /\ PeerInv'
  <2>1. /\ current_term' = [current_term EXCEPT ![n] = t]
        /\ voted_for' = [voted_for EXCEPT ![n] = c]
        /\ grants' = grants \cup {<<n, c, t>>}
        /\ requests' = requests
        /\ n # c
    BY <1>2 DEF HandleVoteRequest
  <2>2. ASSUME NEW m \in Node, NEW d \in Node, NEW u \in Term, Voted(m, d, u)'
        PROVE  Voted(m, d, u) \/ (m = n /\ d = c /\ u = t)
    BY <2>1, <2>2 DEF Voted
  <2>3. \/ t > current_term[n]
        \/ t = current_term[n] /\ voted_for[n] \in {None, c}
    BY <1>2 DEF HandleVoteRequest
  <2>4. ASSUME NEW d \in Node, Voted(n, d, t) PROVE d = c
    BY <2>3, <2>4, NoneAssumption DEF VoteInv
  <2>5. VoteInv'
    BY <2>1, <2>2, <2>3, <2>4 DEF VoteInv
  <2>6. OneVoteInv'
    BY <2>2, <2>4 DEF OneVoteInv
  <2>7. PeerInv'
    BY <2>1 DEF PeerInv
  <2>. QED
    BY <2>5, <2>6, <2>7
<1>3. ASSUME NEW n \in Node, NEW m \in Node, RecordVoteResponse(n, m)
      PROVE  VoteInv' /\ OneVoteInv' /\ PeerInv'
  BY <1>3 DEF RecordVoteResponse, VoteInv, OneVoteInv, PeerInv, Voted
<1>4. ASSUME NEW n \in Node, NEW l \in Node, NEW t \in Term,
             HandleHeartbeat(n, l, t)
      PROVE  VoteInv' /\ OneVoteInv' /\ PeerInv'
  <2>1. ASSUME NEW m \in Node
        PROVE  \/ current_term'[m] > current_term[m]
               \/ /\ current_term'[m] = current_term[m]
                  /\ voted_for'[m] = voted_for[m]
    BY <1>4 DEF HandleHeartbeat
  <2>2. requests' = requests /\ grants' = grants
    BY <1>4 DEF HandleHeartbeat, network
  <2>3. \A m \in Node : current_term[m] \in Nat /\ current_term'[m] \in Nat
    BY <1>4 DEF HandleHeartbeat
  <2>4. VoteInv'
    BY <2>1, <2>2, <2>3 DEF VoteInv, Voted
  <2>5. OneVoteInv' /\ PeerInv'
    BY <2>2 DEF OneVoteInv, PeerInv, Voted
  <2>. QED
    BY <2>4, <2>5
<1>5. CASE UNCHANGED vars
  BY <1>5 DEF vars, node, network, VoteInv, OneVoteInv, PeerInv, Voted
<1>. QED
  BY <1>1, <1>2, <1>3, <1>4, <1>5 DEF Next

\* A count stands for the node's own vote and one grant per peer counted: it
\* starts anew with every election, and ends with the role.
LEMMA NextCount ==
  ASSUME TypeOK, PeerInv, CountInv, [Next]_vars
  PROVE  CountInv'
<1>. USE DEF TypeOK, Role, Term
<1>1. ASSUME NEW n \in Node, StartElection(n) PROVE CountInv'
  BY <1>1, FS_EmptySet DEF StartElection, CountInv
<1>2. ASSUME NEW n \in Node, NEW c \in Node, NEW t \in Term,
             HandleVoteRequest(n, c, t)
      PROVE  CountInv'
  <2>1. /\ counted' = counted
        /\ votes_received' = votes_received
        /\ requests' = requests
        /\ grants \subseteq grants'
    BY <1>2 DEF HandleVoteRequest
  <2>2. ASSUME NEW m \in Node, role'[m] # "Follower"
        PROVE  role[m] = role'[m] /\ current_term'[m] = current_term[m]
    BY <1>2, <2>2 DEF HandleVoteRequest
  <2>. QED
    BY <2>1, <2>2 DEF CountInv
<1>3. ASSUME NEW n \in Node, NEW m \in Node, RecordVoteResponse(n, m)
      PROVE  CountInv'
  <2>1. /\ role[n] # "Follower"
        /\ <<m, n, current_term[n]>> \in grants
        /\ m \notin counted[n]
        /\ votes_received' = [votes_received EXCEPT ![n] = @ + 1]
        /\ counted' = [counted EXCEPT ![n] = @ \cup {m}]
        /\ \A k \in Node : k # n => role'[k] = role[k]
        /\ UNCHANGED <<current_term, requests, grants>>
    BY <1>3 DEF RecordVoteResponse
  <2>2. m # n
    BY <2>1 DEF PeerInv
  <2>3. Cardinality(counted[n] \cup {m}) = Cardinality(counted[n]) + 1
    <3>1. IsFiniteSet(counted[n])
      BY NodeAssumption, FS_Subset
    <3>. QED
      BY <2>1, <3>1, FS_AddElement
  <2>4. ASSUME NEW k \in Node, role'[k] # "Follower"
        PROVE  /\ <<k, current_term[k]>> \in requests
               /\ k \notin counted'[k]
               /\ \A v \in counted'[k] : <<v, k, current_term[k]>> \in grants
               /\ votes_received'[k] = Cardinality(counted'[k]) + 1
    <3>1. CASE k = n
      BY <2>1, <2>2, <2>3, <3>1 DEF CountInv
    <3>2. CASE k # n
      BY <2>1, <2>4, <3>2 DEF CountInv
    <3>. QED
      BY <3>1, <3>2
  <2>. QED
    BY <2>1, <2>4 DEF CountInv
<1>4. ASSUME NEW n \in Node, NEW l \in Node, NEW t \in Term,
             HandleHeartbeat(n, l, t)
      PROVE  CountInv'
  BY <1>4 DEF HandleHeartbeat, network, CountInv
<1>5. CASE UNCHANGED vars
  BY <1>5 DEF vars, node, network, CountInv
<1>. QED
  BY <1>1, <1>2, <1>3, <1>4, <1>5 DEF Next

\* A candidate is short of the majority, and becomes leader on reaching it.
LEMMA NextRole ==
  ASSUME TypeOK, RoleInv, [Next]_vars
  PROVE  RoleInv'
<1>. USE DEF TypeOK, Role, Term, RoleInv
<1>. Majority \in Nat /\ Majority >= 2
  BY MajorityFacts
<1>1. ASSUME NEW n \in Node, StartElection(n) PROVE RoleInv'
  BY <1>1 DEF StartElection
<1>2. ASSUME NEW n \in Node, NEW c \in Node, NEW t \in Term,
             HandleVoteRequest(n, c, t)
      PROVE  RoleInv'
  BY <1>2 DEF HandleVoteRequest
<1>3. ASSUME NEW n \in Node, NEW m \in Node, RecordVoteResponse(n, m)
      PROVE  RoleInv'
  <2>1. role[n] = "Candidate"
    BY <1>3 DEF RecordVoteResponse
  <2>2. votes_received[n] < Majority
    BY <2>1
  <2>3. CASE votes_received[n] + 1 >= Majority
    BY <1>3, <2>2, <2>3 DEF RecordVoteResponse
  <2>4. CASE ~(votes_received[n] + 1 >= Majority)
    BY <1>3, <2>1, <2>4 DEF RecordVoteResponse
  <2>. QED
    BY <2>3, <2>4
<1>4. ASSUME NEW n \in Node, NEW l \in Node, NEW t \in Term,
             HandleHeartbeat(n, l, t)
      PROVE  RoleInv'
  BY <1>4 DEF HandleHeartbeat, network
<1>5. CASE UNCHANGED vars
  BY <1>5 DEF vars, node, network
<1>. QED
  BY <1>1, <1>2, <1>3, <1>4, <1>5 DEF Next

\* The members that voted for a candidate or leader n in its term include
\* everyone it has counted, itself with them.
LEMMA CountedVoted ==
  ASSUME TypeOK, CountInv, NEW n \in Node, role[n] # "Follower"
  PROVE  /\ counted[n] \cup {n} \in SUBSET Node
         /\ Cardinality(counted[n] \cup {n}) = votes_received[n]
         /\ \A m \in counted[n] \cup {n} : Voted(m, n, current_term[n])
<1>1. /\ counted[n] \subseteq Node
      /\ n \notin counted[n]
      /\ votes_received[n] = Cardinality(counted[n]) + 1
      /\ \A m \in counted[n] \cup {n} : Voted(m, n, current_term[n])
  BY DEF TypeOK, CountInv, Voted
<1>2. IsFiniteSet(counted[n])
  BY <1>1, NodeAssumption, FS_Subset
<1>3. Cardinality(counted[n] \cup {n}) = Cardinality(counted[n]) + 1
  BY <1>1, <1>2, FS_AddElement
<1>. QED
  BY <1>1, <1>3

\* No step takes a node to a lower term.
LEMMA TermsRise ==
  ASSUME TypeOK, [Next]_vars, NEW m \in Node
  PROVE  current_term'[m] >= current_term[m]
<1>. USE TermAssumption DEF TypeOK, Term
<1>1. ASSUME NEW n \in Node, StartElection(n)
      PROVE  current_term'[m] >= current_term[m]
  BY <1>1 DEF StartElection
<1>2. ASSUME NEW n \in Node, NEW c \in Node, NEW t \in Term,
             HandleVoteRequest(n, c, t)
      PROVE  current_term'[m] >= current_term[m]
  BY <1>2 DEF HandleVoteRequest
<1>3. ASSUME NEW n \in Node, NEW v \in Node, RecordVoteResponse(n, v)
      PROVE  current_term'[m] >= current_term[m]
  BY <1>3 DEF RecordVoteResponse
<1>4. ASSUME NEW n \in Node, NEW l \in Node, NEW t \in Term,
             HandleHeartbeat(n, l, t)
      PROVE  current_term'[m] >= current_term[m]
  BY <1>4 DEF HandleHeartbeat
<1>5. CASE UNCHANGED vars
  BY <1>5 DEF vars, node
<1>. QED
  BY <1>1, <1>2, <1>3, <1>4, <1>5 DEF Next

\* A new leader has the votes of a majority: those counted, its own, and the
\* one that made it leader.
LEMMA NewLeader ==
  ASSUME TypeOK, PeerInv, CountInv, NEW n \in Node, NEW m \in Node,
         RecordVoteResponse(n, m), votes_received'[n] >= Majority
  PROVE  \E Q \in SUBSET Node :
           /\ Cardinality(Q) >= Majority
           /\ \A v \in Q : Voted(v, n, current_term[n])
<1>. DEFINE P == counted[n] \cup {n}
<1>1. /\ role[n] # "Follower"
      /\ <<m, n, current_term[n]>> \in grants
      /\ m \notin counted[n]
      /\ votes_received'[n] = votes_received[n] + 1
  BY DEF RecordVoteResponse, TypeOK
<1>2. m \notin P
  BY <1>1 DEF PeerInv, TypeOK
<1>3. /\ P \in SUBSET Node
      /\ Cardinality(P) = votes_received[n]
      /\ \A v \in P : Voted(v, n, current_term[n])
  BY <1>1, CountedVoted
<1>4. Cardinality(P \cup {m}) = Cardinality(P) + 1
  BY <1>2, <1>3, NodeAssumption, FS_Subset, FS_AddElement
<1>5. Cardinality(P \cup {m}) >= Majority
  BY <1>1, <1>3, <1>4
<1>6. \A v \in P \cup {m} : Voted(v, n, current_term[n])
  BY <1>1, <1>3 DEF Voted
<1>. QED
  BY <1>3, <1>5, <1>6

\* Whoever begins to lead a term has a majority of its votes, and votes stay.
LEMMA NextBeat ==
  ASSUME TypeOK, PeerInv, CountInv, RoleInv, BeatInv, [Next]_vars
  PROVE  BeatInv'
<1>1. ASSUME NEW m \in Node
      PROVE  /\ current_term[m] \in Nat
             /\ current_term'[m] \in Nat
             /\ current_term'[m] >= current_term[m]
  BY NextType, TermsRise, TermAssumption DEF TypeOK, Term
<1>2. ASSUME NEW m \in Node, NEW n \in Node, NEW t \in Term, Voted(m, n, t)
      PROVE  Voted(m, n, t)'
  BY <1>2 DEF Voted, Next, StartElection, HandleVoteRequest,
              RecordVoteResponse, HandleHeartbeat, vars, node, network
<1>3. ASSUME NEW n \in Node, NEW t \in Term, <<n, t>> \in beats
      PROVE  /\ current_term[n] >= t
             /\ \E Q \in SUBSET Node :
                  /\ Cardinality(Q) >= Majority
                  /\ \A m \in Q : Voted(m, n, t)
  BY <1>3 DEF BeatInv
<1>4. ASSUME NEW n \in Node, NEW t \in Term, <<n, t>> \in beats',
             <<n, t>> \notin beats
      PROVE  /\ current_term[n] >= t
             /\ \E Q \in SUBSET Node :
                  /\ Cardinality(Q) >= Majority
                  /\ \A m \in Q : Voted(m, n, t)
  <2>1. PICK k \in Node, m \in Node : RecordVoteResponse(k, m)
    BY <1>4 DEF Next, StartElection, HandleVoteRequest, HandleHeartbeat,
                vars, network
  <2>2. /\ votes_received'[k] >= Majority
        /\ k = n
        /\ current_term[n] = t
    BY <1>4, <2>1 DEF RecordVoteResponse
  <2>3. t \in Nat
    BY TermAssumption DEF Term
  <2>. QED
    BY <2>1, <2>2, <2>3, NewLeader
<1>5. ASSUME NEW n \in Node, NEW t \in Term, <<n, t>> \in beats'
      PROVE  /\ current_term'[n] >= t
             /\ \E Q \in SUBSET Node :
                  /\ Cardinality(Q) >= Majority
                  /\ \A m \in Q : Voted(m, n, t)'
  <2>1. /\ current_term[n] >= t
        /\ \E Q \in SUBSET Node :
             /\ Cardinality(Q) >= Majority
             /\ \A m \in Q : Voted(m, n, t)
    BY <1>3, <1>4, <1>5
  <2>2. current_term'[n] >= t
    BY <1>1, <2>1, TermAssumption DEF Term
  <2>. QED
    BY <1>2, <2>1, <2>2
<1>. QED
  BY <1>5 DEF BeatInv

-----------------------------------------------------------------------------
\* The inductive invariant.
LEMMA Inductive == Spec => []IInv
<1>1. Init => IInv
  BY InitInv
<1>2. IInv /\ [Next]_vars => IInv'
  BY NextType, NextVotes, NextCount, NextRole, NextBeat DEF IInv
<1>. QED
  BY <1>1, <1>2, PTL DEF Spec

\* Two leaders of a term have a voter in common, who voted once.
LEMMA OneLeader == IInv => ElectionSafety
<1>. SUFFICES ASSUME IInv, NEW t \in Term, NEW m \in Node, NEW n \in Node,
                     Leads(m, t), Leads(n, t)
              PROVE  m = n
  BY DEF ElectionSafety
<1>1. <<m, t>> \in beats /\ <<n, t>> \in beats
  BY DEF IInv, RoleInv, Leads
<1>2. PICK P \in SUBSET Node : /\ Cardinality(P) >= Majority
                               /\ \A v \in P : Voted(v, m, t)
  BY <1>1 DEF IInv, BeatInv
<1>3. PICK Q \in SUBSET Node : /\ Cardinality(Q) >= Majority
                               /\ \A v \in Q : Voted(v, n, t)
  BY <1>1 DEF IInv, BeatInv
<1>4. PICK v \in P \cap Q : Voted(v, m, t) /\ Voted(v, n, t)
  BY <1>2, <1>3, MajorityFacts
<1>. QED
  BY <1>4 DEF IInv, OneVoteInv

\* The fields of a RaftNode keep their types, and no count runs past the
\* majority.
THEOREM TypeCorrect == Spec => []TypeOK
<1>1. IInv => TypeOK
  BY DEF IInv
<1>. QED
  BY <1>1, Inductive, PTL

\* No term has two leaders, in any cluster, however messages are reordered,
\* repeated or lost.
THEOREM SafeElections == Spec => []ElectionSafety
  BY Inductive, OneLeader, PTL

\* votes_received never exceeds the votes that stand behind it.
THEOREM BackedVotes == Spec => []VotesAreBacked
<1>1. IInv => VotesAreBacked
  <2>. SUFFICES ASSUME IInv, NEW n \in Node
                PROVE  /\ role[n] # "Follower" =>
                            votes_received[n] <= Cardinality(Backers(n))
                       /\ role[n] = "Leader" => votes_received[n] >= Majority
    BY DEF VotesAreBacked
  <2>1. ASSUME role[n] # "Follower"
        PROVE  votes_received[n] <= Cardinality(Backers(n))
    <3>. DEFINE P == counted[n] \cup {n}
    <3>1. /\ P \in SUBSET Node
          /\ Cardinality(P) = votes_received[n]
          /\ \A m \in P : Voted(m, n, current_term[n])
      BY <2>1, CountedVoted DEF IInv
    <3>2. P \subseteq Backers(n)
      BY <3>1 DEF IInv, VoteInv, Backers, TypeOK
    <3>3. Backers(n) \subseteq Node
      BY DEF Backers
    <3>. QED
      BY <3>1, <3>2, <3>3, NodeAssumption, FS_Subset
  <2>2. ASSUME role[n] = "Leader" PROVE votes_received[n] >= Majority
    <3>1. votes_received[n] = Majority
      BY <2>2 DEF IInv, RoleInv
    <3>2. Majority \in Nat
      BY MajorityFacts
    <3>. QED
      BY <3>1, <3>2
  <2>. QED
    BY <2>1, <2>2
<1>. QED
  BY <1>1, Inductive, PTL

\* A leader stays leader until it is in a higher term.
THEOREM LeadersKeep == Spec => LeaderKeepsItsTerm
<1>1. IInv /\ [Next]_vars =>
        [\A n \in Node : role[n] = "Leader" /\ role'[n] # "Leader" =>
           current_term'[n] > current_term[n]]_vars
  <2>. SUFFICES ASSUME IInv, [Next]_vars, NEW n \in Node,
                       role[n] = "Leader", role'[n] # "Leader"
                PROVE  current_term'[n] > current_term[n]
    OBVIOUS
  <2>. USE TermAssumption DEF TypeOK, Term
  <2>. TypeOK /\ <<n, current_term[n]>> \in beats
    BY DEF IInv, RoleInv
  <2>1. ASSUME NEW k \in Node, StartElection(k)
        PROVE  current_term'[n] > current_term[n]
    BY <2>1 DEF StartElection
  <2>2. ASSUME NEW k \in Node, NEW c \in Node, NEW t \in Term,
               HandleVoteRequest(k, c, t)
        PROVE  current_term'[n] > current_term[n]
    BY <2>2 DEF HandleVoteRequest
  <2>3. ASSUME NEW k \in Node, NEW m \in Node, RecordVoteResponse(k, m)
        PROVE  current_term'[n] > current_term[n]
    BY <2>3 DEF RecordVoteResponse
  <2>4. ASSUME NEW k \in Node, NEW l \in Node, NEW t \in Term,
               HandleHeartbeat(k, l, t)
        PROVE  current_term'[n] > current_term[n]
    <3>1. k = n
      BY <2>4 DEF HandleHeartbeat
    <3>2. l # n /\ <<l, t>> \in beats /\ t >= current_term[n]
      BY <2>4, <3>1 DEF HandleHeartbeat
    <3>3. t # current_term[n]
      BY <3>2, OneLeader DEF ElectionSafety, Leads
    <3>. QED
      BY <2>4, <3>1, <3>2, <3>3 DEF HandleHeartbeat
  <2>5. CASE UNCHANGED vars
    BY <2>5 DEF vars, node
  <2>. QED
    BY <2>1, <2>2, <2>3, <2>4, <2>5 DEF Next
<1>. QED
  BY <1>1, Inductive, PTL DEF Spec, LeaderKeepsItsTerm

=============================================================================
