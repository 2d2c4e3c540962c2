SPECIFICATION FairSpec
CONSTANTS
    None = None
    Request = {q1, q2}
    Plan <- MCPlan
    Upstream <- Narrow
    BodyBudget = 1
    MaxTries = 3
PROPERTY Answered
