\* A push that starts while the migration commits.
SPECIFICATION Spec
CONSTANTS
    a1 = a1
    a2 = a2
    v1 = v1
    v2 = v2
    r1 = r1
    r2 = r2
    Approvals = {a1}
    Reviews = {v1}
    ReviewOf <- OneReview
    Runners = {r1}
    MaxEpoch = 2
INVARIANTS
    PushingIsOfCurrentEpoch
