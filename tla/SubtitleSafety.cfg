SPECIFICATION MCSpec
CONSTANTS
    Types = {"CC", "External", "DVB", "PGS"}
    DtvTypes = {"CC", "DVB"}
    BlockingTypes = {"DVB", "PGS"}
    CC = "CC"
    External = "External"
    Invalid = "Invalid"
    Params = {"Invalid", "DVB"}
    Announced = {"DVB", "PGS", "Invalid"}
    ExtSub = {FALSE, TRUE}
    DefaultParser = TRUE
    MaxMessages = 4
    MaxParams = 1
    MaxExtParams = 3
INVARIANTS
    OneReader
    PresentsRunning
    NothingLeft
    CuesShown
    
    EventsPosted
CHECK_DEADLOCK FALSE
