---------------------------- MODULE AgentPipeline ----------------------------
(***************************************************************************)
(* The researcher / coder / reviewer graph that executes a task            *)
(* (src/cortex-swarm/brain.py), as operators on its state. A node of the   *)
(* graph is an operator from a state to the states it may leave.           *)
(*                                                                         *)
(* Texts are kept as whether there is any: an exception in the researcher  *)
(* or the coder leaves an empty text, as an empty reply of the model does. *)
(* An exception in the reviewer approves. error and tokens_used decide     *)
(* nothing and are left out.                                               *)
(***************************************************************************)
EXTENDS Naturals

CONSTANT MaxRevisions  \* MAX_REVISIONS

ASSUME RevisionAssumption == MaxRevisions \in Nat

Verdict == {"none", "approved", "revision_required"}

SwarmState == [at : {"researcher", "coder", "reviewer", "end"},
               research_data : BOOLEAN, code_output : BOOLEAN,
               reviewer_verdict : Verdict, revision_count : Nat,
               drafts : Nat]  \* ghost: how often the coder was asked

InitialState == [at |-> "researcher", research_data |-> FALSE, code_output |-> FALSE,
                 reviewer_verdict |-> "none", revision_count |-> 0, drafts |-> 0]

ResearcherNode(p) ==
  {[p EXCEPT !.at = "coder", !.research_data = text] : text \in BOOLEAN}

CoderNode(p) ==
  {[p EXCEPT !.at = "reviewer", !.code_output = text, !.drafts = @ + 1] :
     text \in BOOLEAN}

Approved(p) == [p EXCEPT !.reviewer_verdict = "approved"]

\* revision_count is declared with an adding reducer: the node returns 1 for "one more".
Rejected(p) == [p EXCEPT !.reviewer_verdict = "revision_required", !.revision_count = @ + 1]

Review(p) ==
  IF p.revision_count >= MaxRevisions THEN {Approved(p)} ELSE {Approved(p), Rejected(p)}

\* Mutant of RoutingAfterReview: one revision more than allowed.
RoutingAfterReviewOnceMore(p) ==
  IF p.reviewer_verdict = "revision_required" /\ p.revision_count <= MaxRevisions
  THEN "coder" ELSE "end"

RoutingAfterReview(p) ==
  IF p.reviewer_verdict = "revision_required" /\ p.revision_count < MaxRevisions
  THEN "coder" ELSE "end"

ReviewerNode(p) == {[q EXCEPT !.at = RoutingAfterReview(q)] : q \in Review(p)}

\* What the graph may do next.
GraphSteps(p) ==
  CASE p.at = "researcher" -> ResearcherNode(p)
    [] p.at = "coder"      -> CoderNode(p)
    [] p.at = "reviewer"   -> ReviewerNode(p)
    [] OTHER               -> {}

\* Mutant of Valid: the texts are not looked at.
ValidByVerdict(p) == p.reviewer_verdict \in {"approved", "revision_required"}

\* validate_final_state.
Valid(p) ==
  /\ p.research_data
  /\ p.code_output
  /\ p.reviewer_verdict \in {"approved", "revision_required"}

=============================================================================
