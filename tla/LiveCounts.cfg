SPECIFICATION FairSpec
CONSTANTS
    Topics = {t, u}
    First = t
    NoTopic = NoTopic
    Requests = {r, q}
    DbErrors = TRUE
    MaxEvents = 3
CHECK_DEADLOCK FALSE
INVARIANTS LoneVoteRepairsStats PageIsNotStale
PROPERTY PageCatchesUp
