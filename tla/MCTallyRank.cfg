SPECIFICATION ScopedSpec
CONSTANTS
    NoTopic = NoTopic
    Users = {u1}
    Topics <- AllTopics
    Options <- AllOptions
    Kind <- AllKind
    Type <- AllType
    Parent <- AllParent
    OptionTopic <- AllOptionTopic
    MaxSelections <- AllMax
    Scopes <- RankingOnly
    Choices <- TwoChoices
    Middle = 1
    Forms <- PanelForms
    MaxRequests = 2
    MaxEvents = 1
    Stances = {"cause", "effect"}
    StanceParent <- StanceAndDerived
    StanceDepth <- TwoDepths
    MaxDepth = 2
    Applications = {"proposal", "second"}
    MaxMoves = 4
    RewardPoints = 2
    MaxCredits = 1
INVARIANT VoterCountIsPeople
