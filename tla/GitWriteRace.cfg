\* Two requests racing for the operation of one approval, or two approvals of one
\* review one after the other, with migrations and crashes.
SPECIFICATION Spec
CONSTANTS
    a1 = a1
    a2 = a2
    v1 = v1
    v2 = v2
    r1 = r1
    r2 = r2
    Approvals = {a1, a2}
    Reviews = {v1}
    ReviewOf <- OneReview
    Runners = {r1, r2}
    MaxEpoch = 2
CONSTRAINT TwoRequestsOrTwoApprovals
ACTION_CONSTRAINT BranchRests
SYMMETRY Symmetry
INVARIANTS
    TypeOK
    PushedAtMostOnce
    DefiniteOutcomesAreTrue
    OneCredentialHolder
    UsableIsOfCurrentEpoch
    ReviewPushedOnce
PROPERTIES
    OutcomesAreFinal
    LedgerKept
