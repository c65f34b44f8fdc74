SPECIFICATION FairMCSpec
CONSTANTS
    Parts = {"stream", "text", "clock", "file"}
    Templates <- Mixed
    Objects = {0, 1}
    Times = {1500, 2500, 5000}
    StartTimes = {0}
    MaxItems = 3
    MaxSeeks = 0
    MaxResets = 1
    MaxSessions = 2
    MaxSpuItems = 2
    MaxQueuedMem = 3
    None = None
INVARIANTS
    ScreenHasKeeper
    HiddenCovers
PROPERTIES
    ShownOnce
    NotBeforeItsTime
    OnlyThisSession
    ScreenFollowsVideo
    TextsComeAndGo
CHECK_DEADLOCK FALSE
