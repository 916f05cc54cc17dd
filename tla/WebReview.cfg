\* One browser session, two reviews, two approvals.
SPECIFICATION Spec
CONSTANTS
  v1 = v1
  v2 = v2
  a1 = a1
  a2 = a2
  None = None
  Review <- TwoReviews
  Approval <- TwoApprovals
SYMMETRY Symmetry
INVARIANTS
  ApprovesReviewedDigest
