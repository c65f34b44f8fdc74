SPECIFICATION MCSpec
CONSTANTS
    Carousel <- MCCarousel
    Subtitles = {101, 801}
    Askable = {100, 801}
    Digits = {0, 1}
    SubDigits = 1
    SubCount = 2
    Section = 1
    MaxCommands = 3
    None = None
    Regions = {1, 2}
    Objects = {1}
    Cluts = {1}
    Sizes <- MCSizes
    Corners <- MCCorners
    Places <- MCPlaces
    Codes <- MCCodes
    MaxLinks = 2
    MaxCodes = 2
    ObjectIds = {1}
    Times = {1, 3}
    DECODE_PRE_TIME = 0
    WRONG_PGS_PTS_TIME = 2
    StartTime = 1
    MaxSets = 3
INVARIANTS
    
    
    SetsShown
PROPERTIES
    PagesFollowed
CHECK_DEADLOCK FALSE
