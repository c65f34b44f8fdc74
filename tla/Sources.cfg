SPECIFICATION FairSources
CONSTANTS
    cc = cc
    afd = afd
    Users = {cc, afd}
    RingSize = 1
    MaxPackages = 3
    Free = Free
    MaxSessions = 2
    MaxRestarts = 2
    ClosesBeside = FALSE
    Pictures = {0, 1, 2, 3, 4}
    Groups = 2
    MAX_CC_NUM = 4
    Back = 2
    Filters = {0, 1}
    Demuxes = {0, 1}
    Pids = {257, 258}
    MaxSources = 2
    MaxSettings = 3
    MovesWhileOpen = FALSE
    Sizes = {1, 3}
    Wants = {1, 2, 4}
    MaxBytes = 5
    Signallers = {1, 2}
    EventTypes = {1, 2}
    Null = Null
INVARIANTS
    
    NoThreadLeft
    
    

    
CHECK_DEADLOCK FALSE
