CONSTANTS
    Requests = {r1, r2}
    NoOne = NoOne
    Topics = {1, 2}
    Titles = {n1, n2}
    MaxFeatured = 1
    MaxVersion = 2
    MaxTopicRequests = 5
    Counters = {"plain", "scripted", "cooldown"}
    Discipline <- ByName
    Limit = 2
    MaxLimited = 6
    Generations = {c1, c2, c3}
    LockTicks = 8
    ModelTicks = 5
    MaxGenerations = 4
    Gifs = {"g1", "g2"}
    Users = {"u1", "u2", "u3"}
    Actors = {"u2", "u3"}
    Creator <- EachItsOwn
    ActorLimit = 1
    CreatorLimit = 1
    MaxGifRequests = 3
    Uploads = {a, b}
    Saved = {d1, d2, d3, d4}
    MaxRows = 1
    MaxCalls = 4
    Earlier = Earlier
    MaxNotes = 3
    MaxMoves = 3
    MaxPending = 2
SPECIFICATION ContentSpec
INVARIANTS FollowersToldOnce FeaturedIsOneList LimitsHold OneGeneratorWithoutRetries TakedownsSettle RowsHaveFiles
SYMMETRY Symmetry
CHECK_DEADLOCK FALSE
