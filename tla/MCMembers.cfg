SPECIFICATION MembersSpec
CONSTANTS
    Phones = {p1}
    Codes = {c1, c2}
    Verifiers = {v1, v2}
    Votes = {w1}
    MaxSends = 1
    MaxTries = 1
    None = None
    Owner = o
    Users = {u1}
    Sockets = {s1}
    UserOf <- OneUser
    Requests = {a, b}
    MaxTokens = 2
    MaxRequests = 4
    Options = 2
    Groups = {"north", "south", "east"}
    Values = {0, 15, 100}
    Environments <- SomeEnvironments
    TotalMin = 3
    CohortMin = 2
    DistrictTotalMin = 4
    DistrictCohortMin = 2
    StanceCohortMin = 2
    CommonGroundMin = 1
    MaxPeople <- FewPeople
    MaxTime = 4
    MaxChanges = 1
SYMMETRY MembersSymmetry
INVARIANTS VerifiedHasGuardian CodesUsedOnce OnlyLateSnapshots OnlyLateAccess HiddenGroupsStayHidden ResultsAddUp
CHECK_DEADLOCK FALSE
