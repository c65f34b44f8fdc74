SPECIFICATION MCSpec
CONSTANTS
    Types = {"CC", "External", "DVB"}
    DtvTypes = {"CC", "DVB"}
    BlockingTypes = {"DVB"}
    CC = "CC"
    External = "External"
    Invalid = "Invalid"
    Params = {"Invalid", "CC"}
    Announced = {"DVB"}
    ExtSub = {FALSE, TRUE}
    DefaultParser = TRUE
    MaxMessages = 4
    MaxParams = 0
    MaxExtParams = 3
INVARIANTS
    InStep
PROPERTIES
    ParserServed
    CloseReturns
    StreamServed
CHECK_DEADLOCK FALSE
