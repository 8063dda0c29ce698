SPECIFICATION Spec
CONSTANTS
    NoTopic = NoTopic
    NoReq = NoReq
    u1 = u1
    u2 = u2
    Users = {u1, u2}
    Requests = {a, b, c}
    Topics <- AllTopics
    Options <- AllOptions
    Kind <- AllKind
    Type <- AllType
    Parent <- AllParent
    OptionTopic <- AllOptionTopic
    MaxSelections <- AllMax
    Workloads <- EveryWorkload
    RewardPoints = 2
    MaxCredits = 2
SYMMETRY Symmetry
INVARIANTS VotesNeverDeadlock LedgerIsChain
PROPERTY ImplementsTally
