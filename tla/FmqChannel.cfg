SPECIFICATION FairSpec
CONSTANTS
    Reports = {1}
    DataSizes = {0, 2}
    CellsPerWord = 2
    QueueSize = 20
    Size = 22
    Clients = {c1, c2}
    Free = Free
    NoClient = NoClient
    MaxPackets = 3
INVARIANTS
    DeliveredAsSent
PROPERTIES
    AllHandled
    SendReturns
CHECK_DEADLOCK FALSE
