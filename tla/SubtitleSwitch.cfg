SPECIFICATION FairSpec
CONSTANTS
    Types = {"CC", "External", "DVB", "PGS"}
    DtvTypes = {"CC", "DVB"}
    BlockingTypes = {"DVB", "PGS"}
    CC = "CC"
    External = "External"
    Invalid = "Invalid"
    Params = {"Invalid"}
    Announced = {"DVB", "PGS"}
    ExtSub = {FALSE}
    DefaultParser = TRUE
    MaxMessages = 4
    MaxParams = 0
    MaxExtParams = 0
PROPERTIES
    CloseReturns
CHECK_DEADLOCK FALSE
