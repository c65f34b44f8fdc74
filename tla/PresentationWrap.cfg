SPECIFICATION MCSpec
CONSTANTS
    Parts = {"stream"}
    Templates <- Passing
    Objects = {0}
    Times = {47719500, 47720500, 47722500}
    StartTimes = {0}
    MaxItems = 2
    MaxSeeks = 0
    MaxResets = 0
    MaxSessions = 1
    MaxSpuItems = 2
    MaxQueuedMem = 100
    None = None
PROPERTY NotBeforeTheWrap
CHECK_DEADLOCK FALSE
