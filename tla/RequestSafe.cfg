SPECIFICATION FairSpec
CONSTANTS
    None = None
    Request = {q1, q2}
    Plan <- MCPlan
    Upstream <- MCUpstream
    BodyBudget = 1
    MaxTries = 3
INVARIANTS PermitsConserved LimitsHold RetriesAccounted
CHECK_DEADLOCK FALSE
PROPERTY AnsweredUnlessWedged
