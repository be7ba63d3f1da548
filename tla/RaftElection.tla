---------------------------- MODULE RaftElection ----------------------------
(***************************************************************************)
(* RaftNode (src/src/raft/election.rs): one function per field of the      *)
(* struct, one action per method that changes it. A call that returns      *)
(* without changing its node (a stale term, a vote already given, a reply  *)
(* to a node that is no candidate) is a stuttering step.                   *)
(*                                                                         *)
(* The program has no transport for these methods, so what calls them is   *)
(* external: messages are sets that only grow, so any one may be late,     *)
(* reordered, delivered again or never. record_vote_response is told       *)
(* neither who voted nor in which term; the model states what its caller   *)
(* owes it: the reply is to the request of the node's current term, and no *)
(* peer's is passed on twice.                                              *)
(***************************************************************************)
EXTENDS Naturals, FiniteSets

CONSTANTS
  Node,     \* the cluster
  None,     \* voted_for of a node that has not voted
  MaxTerm   \* bound on the terms elections are started in

ASSUME NodeAssumption == IsFiniteSet(Node)
ASSUME NoneAssumption == None \notin Node
ASSUME TermAssumption == MaxTerm \in Nat

\* The asserts of RaftNode::new.
ASSUME ClusterAssumption == Cardinality(Node) >= 3 /\ Cardinality(Node) % 2 = 1

VARIABLES
  current_term, voted_for, role, votes_received,
  requests,  \* <<candidate, term>> of the RequestVotes broadcast
  grants,    \* <<voter, candidate, term>> of the replies that grant a vote
  beats,     \* <<leader, term>> of the heartbeats broadcast
  counted    \* for each node the peers whose grant its caller has passed on

node == <<current_term, voted_for, role, votes_received>>
network == <<requests, grants, beats, counted>>
vars == <<node, network>>

Role == {"Follower", "Candidate", "Leader"}
Term == 0..MaxTerm

Init ==
  /\ current_term = [n \in Node |-> 0]
  /\ voted_for = [n \in Node |-> None]
  /\ role = [n \in Node |-> "Follower"]
  /\ votes_received = [n \in Node |-> 0]
  /\ requests = {}
  /\ grants = {}
  /\ beats = {}
  /\ counted = [n \in Node |-> {}]

\* The integer division of `cluster_size / 2`.
Majority == Cardinality(Node) \div 2 + 1

-----------------------------------------------------------------------------
\* Mutant of StartElection: the votes of an earlier election still count.
StartElectionKeepsVotes(n) ==
  /\ current_term[n] < MaxTerm
  /\ current_term' = [current_term EXCEPT ![n] = @ + 1]
  /\ role' = [role EXCEPT ![n] = "Candidate"]
  /\ voted_for' = [voted_for EXCEPT ![n] = n]
  /\ votes_received' = [votes_received EXCEPT ![n] = @ + 1]
  /\ requests' = requests \cup {<<n, current_term'[n]>>}
  /\ counted' = [counted EXCEPT ![n] = {}]
  /\ UNCHANGED <<grants, beats>>

\* No role is excluded: the method does not look at it.
StartElection(n) ==
  /\ current_term[n] < MaxTerm
  /\ current_term' = [current_term EXCEPT ![n] = @ + 1]
  /\ role' = [role EXCEPT ![n] = "Candidate"]
  /\ voted_for' = [voted_for EXCEPT ![n] = n]
  /\ votes_received' = [votes_received EXCEPT ![n] = 1]
  /\ requests' = requests \cup {<<n, current_term'[n]>>}
  /\ counted' = [counted EXCEPT ![n] = {}]
  /\ UNCHANGED <<grants, beats>>

\* Mutant of HandleVoteRequest: votes again in a term it has voted in.
HandleVoteRequestAgain(n, c, t) ==
  /\ c # n
  /\ <<c, t>> \in requests
  /\ \/ /\ t > current_term[n]
        /\ role' = [role EXCEPT ![n] = "Follower"]
     \/ /\ t = current_term[n]
        /\ UNCHANGED role
  /\ current_term' = [current_term EXCEPT ![n] = t]
  /\ voted_for' = [voted_for EXCEPT ![n] = c]
  /\ grants' = grants \cup {<<n, c, t>>}
  /\ UNCHANGED <<votes_received, requests, beats, counted>>

\* Mutant of HandleVoteRequest: a higher term does not end the node's role.
HandleVoteRequestInRole(n, c, t) ==
  /\ c # n
  /\ <<c, t>> \in requests
  /\ \/ t > current_term[n]
     \/ t = current_term[n] /\ voted_for[n] \in {None, c}
  /\ current_term' = [current_term EXCEPT ![n] = t]
  /\ voted_for' = [voted_for EXCEPT ![n] = c]
  /\ grants' = grants \cup {<<n, c, t>>}
  /\ UNCHANGED <<role, votes_received, requests, beats, counted>>

\* A granted request; in a higher term the node has given no vote yet.
HandleVoteRequest(n, c, t) ==
  /\ c # n
  /\ <<c, t>> \in requests
  /\ \/ /\ t > current_term[n]
        /\ role' = [role EXCEPT ![n] = "Follower"]
     \/ /\ t = current_term[n]
        /\ voted_for[n] \in {None, c}
        /\ UNCHANGED role
  /\ current_term' = [current_term EXCEPT ![n] = t]
  /\ voted_for' = [voted_for EXCEPT ![n] = c]
  /\ grants' = grants \cup {<<n, c, t>>}
  /\ UNCHANGED <<votes_received, requests, beats, counted>>

\* A granted vote reaches a candidate. A new leader begins its heartbeats.
RecordVoteResponse(n, m) ==
  /\ role[n] = "Candidate"
  /\ <<m, n, current_term[n]>> \in grants
  /\ m \notin counted[n]
  /\ votes_received' = [votes_received EXCEPT ![n] = @ + 1]
  /\ counted' = [counted EXCEPT ![n] = @ \cup {m}]
  /\ IF votes_received'[n] >= Majority
     THEN /\ role' = [role EXCEPT ![n] = "Leader"]
          /\ beats' = beats \cup {<<n, current_term[n]>>}
     ELSE UNCHANGED <<role, beats>>
  /\ UNCHANGED <<current_term, voted_for, requests, grants>>

\* Mutant of HandleHeartbeat: a stale leader is obeyed, in the node's term.
HandleHeartbeatStale(n, l, t) ==
  /\ l # n
  /\ <<l, t>> \in beats
  /\ IF t > current_term[n]
     THEN /\ current_term' = [current_term EXCEPT ![n] = t]
          /\ voted_for' = [voted_for EXCEPT ![n] = None]
     ELSE UNCHANGED <<current_term, voted_for>>
  /\ role' = [role EXCEPT ![n] = "Follower"]
  /\ UNCHANGED <<votes_received, network>>

HandleHeartbeat(n, l, t) ==
  /\ l # n
  /\ <<l, t>> \in beats
  /\ t >= current_term[n]
  /\ IF t > current_term[n]
     THEN /\ current_term' = [current_term EXCEPT ![n] = t]
          /\ voted_for' = [voted_for EXCEPT ![n] = None]
     ELSE UNCHANGED <<current_term, voted_for>>
  /\ role' = [role EXCEPT ![n] = "Follower"]
  /\ UNCHANGED <<votes_received, network>>

Next ==
  \E n \in Node :
    \/ StartElection(n)
    \/ \E c \in Node, t \in Term : HandleVoteRequest(n, c, t)
    \/ \E m \in Node : RecordVoteResponse(n, m)
    \/ \E l \in Node, t \in Term : HandleHeartbeat(n, l, t)

Spec == Init /\ [][Next]_vars

-----------------------------------------------------------------------------
\* Types. No count runs past the majority, where record_vote_response stops.
TypeOK ==
  /\ current_term \in [Node -> Term]
  /\ voted_for \in [Node -> Node \cup {None}]
  /\ role \in [Node -> Role]
  /\ votes_received \in [Node -> 0..Majority]
  /\ requests \subseteq Node \X Term
  /\ grants \subseteq Node \X Node \X Term
  /\ beats \subseteq Node \X Term
  /\ counted \in [Node -> SUBSET Node]

\* n leads t: it is the leader of t now, or was and its heartbeats may arrive.
Leads(n, t) ==
  \/ role[n] = "Leader" /\ current_term[n] = t
  \/ <<n, t>> \in beats

\* One leader per term, whoever has stepped down since. Rests on the vote
\* checks of handle_vote_request and on the majority of record_vote_response.
ElectionSafety ==
  \A t \in Term : \A m, n \in Node : Leads(m, t) /\ Leads(n, t) => m = n

\* The votes behind n's current candidacy or leadership that nobody can have
\* given to another: n's own, and those of voters that stand by n or have
\* left the term.
Backers(n) ==
  {m \in Node :
     \/ current_term[m] > current_term[n]
     \/ current_term[m] = current_term[n] /\ voted_for[m] = n}

\* The number in votes_received, all record_vote_response keeps of the votes,
\* never exceeds the votes given to a candidate or leader in its term; and a
\* leader's is a majority.
VotesAreBacked ==
  \A n \in Node :
    /\ role[n] # "Follower" => votes_received[n] <= Cardinality(Backers(n))
    /\ role[n] = "Leader" => votes_received[n] >= Majority

\* A leader is deposed only by a higher term. handle_heartbeat makes a follower
\* of any node that hears its own term, so this needs that no other node leads
\* that term.
LeaderKeepsItsTerm ==
  [][\A n \in Node :
       role[n] = "Leader" /\ role'[n] # "Leader" =>
         current_term'[n] > current_term[n]]_vars

=============================================================================
