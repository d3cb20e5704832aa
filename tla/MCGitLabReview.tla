---------------------------- MODULE MCGitLabReview ----------------------------
EXTENDS GitLabReview, TLC

CONSTANTS t1, t2, t3, f1, f2, p1, p2, c1, c2, c3, n1, n2, n3

Symmetry ==
  Permutations(Trigger) \cup Permutations(Payload)
    \cup Permutations(PublicationClaim) \cup Permutations(NoteClaim)

(* Bound of the runs about retention: at most one attempt under way.       *)
OneUnderWay ==
  Cardinality({r \in RunId : attempts[r].pc \notin {"none", "done"}}) <= 1

=============================================================================
