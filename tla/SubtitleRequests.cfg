SPECIFICATION FairSpec
CONSTANTS
    Types = {"CC", "External", "DVB", "PGS"}
    DtvTypes = {"CC", "DVB"}
    BlockingTypes = {"DVB", "PGS"}
    CC = "CC"
    External = "External"
    Invalid = "Invalid"
    Params = {"Invalid", "CC"}
    Announced = {"DVB"}
    ExtSub = {FALSE}
    DefaultParser = TRUE
    MaxMessages = 4
    MaxParams = 1
    MaxExtParams = 0
PROPERTIES
    TypeServed
CHECK_DEADLOCK FALSE
