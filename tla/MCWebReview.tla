---------------------------- MODULE MCWebReview ----------------------------
(* The instance of WebReview for TLC. *)
EXTENDS WebReview, TLC
CONSTANTS v1, v2, a1, a2
TwoReviews == {v1, v2}
TwoApprovals == {a1, a2}
Symmetry == Permutations(Review) \cup Permutations(Approval)
=============================================================================
