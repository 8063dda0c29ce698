SPECIFICATION ProposalsSpec
CONSTANTS
    Apps = {1, 2}
    Requests = {r, q, p}
    Editors = {s, t}
    NoReq = NoReq
    Ops = {"submit", "update", "withdraw", "review", "publish", "resolve"}
    DailyLimit = 2
    MaxChanges = 3
    MaxVersions = 4
    MaxLoad = 4
SYMMETRY Symmetry
CHECK_DEADLOCK FALSE
INVARIANTS DeadlocksInvolveReview
PROPERTIES ImplementsLifecycle DecisionsSeeTheState
