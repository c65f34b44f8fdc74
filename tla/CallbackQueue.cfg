SPECIFICATION FairQueues
CONSTANTS
    Posters = {parser, presentation}
    MaxPosts = 2
    Languages = {"fr", "cn"}
    LoadFails = FALSE
    MaxTexts = 3
    MaxLoads = 1
    MaxSeeks = 2
    MoreTexts = 2
    MoreLoads = 2
    MoreSeeks = 1
    None = None
INVARIANTS
    NoLostWakeup
    EngineOutlivesUse
PROPERTIES
    EventuallyDelivered
    ImplementsChannel
    CallsReturn
    TextShown
CHECK_DEADLOCK FALSE
