SPECIFICATION ServerSpec
CONSTANTS
    Clients = {player, ctc}
    Middleware = {ctc}
    MaxServices = 3
    MaxSessions = 3
    MaxPrepares = 2
    MaxDeaths = 2
    Retries = 1
    PrepareBesideClose = FALSE
    None = None
    Callbacks = {a, b, c, d}
    Displays = {d}
    MaxNotified = 3
    DiesInCall = FALSE
    Null = Null
    Native = {ctc}
    Apps = {player}
    Requests <- MCRequests
    AppCalls <- MCAppCalls
    Spoken = {"DVB"}
    Rapid = FALSE
    MaxAsked = 5
INVARIANTS
    OneSession
    
    RequestServed
PROPERTIES
    
    EveryoneIsTold
CHECK_DEADLOCK FALSE
