SPECIFICATION RequestsSpec
CONSTANTS
    TotalRounds = 3
    Requests = {a, b, c}
    NoReq = NoReq
    NoFeedback = NoFeedback
    Users = {u1}
    Two = {a, b}
    Remover = Remover
    MaxAttempts = 3
    NoTopic = NoTopic
CHECK_DEADLOCK FALSE
INVARIANTS RoundsInOrder
PROPERTIES ImplementsContract EveryRequestEnds
