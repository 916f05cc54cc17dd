\* Fair runs without a crash: two requests race while a migration is attempted.
SPECIFICATION LiveFromApproved
CONSTANTS
    a1 = a1
    a2 = a2
    v1 = v1
    v2 = v2
    r1 = r1
    r2 = r2
    Approvals = {a1}
    Reviews = {v1}
    ReviewOf <- OneReview
    Runners = {r1, r2}
    MaxEpoch = 1
PROPERTIES
    RequestsReturn
    OperationsSettle
