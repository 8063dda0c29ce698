CONSTANTS
    Users = {u1, u2}
    Requests = {r1, r2}
    NoReq = NoReq
    Remover = Remover
    MaxAttempts = 3
    Stances = {1, 2, 3}
    Posts = {p1}
    Members = {m1, m2}
    Calls = {c1, c2}
    MaxDepth = 1
    MaxCalls = 4
    o = o
    n = n
    None = None
    Accounts = {o, n}
    Population <- OperatorAndMembers
    MaxAsked = 2
    MaxSent = 4
    MaxChanges = 1
    Organizations = {1, 2}
    Partners = {1}
    Topics = {1}
    SourceOf <- FromTheFirst
    RequiredDays = 1
    RequiredVotes = 1
    StanceIds = {1, 2}
    PageSize = 2
    MaxReads = 2
    MaxMoves = 4
SPECIFICATION StancesSpec
INVARIANTS CountsAreSignals StancesSettle OffersAreGranted
PROPERTIES CommitToggles RemovalsTakeOnlyNewcomers SessionsEndForCause
SYMMETRY Symmetry
CHECK_DEADLOCK FALSE
