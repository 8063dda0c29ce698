SPECIFICATION FormsSpec
CONSTANTS
    TitleLengths = {5, 40, 50}
    Sensitive = 40
    Taken = 50
    Weights <- SomeWeights
    Files <- SomeFiles
    Touched = 2
    MaxAlone = 2
    MaxRows = 10
    MaxEdits = 4
    MaxChanges = 4
    Saves = {1, 2, 3}
    None = None
    PageSize = 2
    MaxMoves = 3
INVARIANTS
    OffersAreAccepted
    DraftsComeBack
    ImportIsSent
CHECK_DEADLOCK FALSE
