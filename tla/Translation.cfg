SPECIFICATION FairSpec
CONSTANTS
    Languages = {"fr", "cn"}
    LoadFails = TRUE
    MaxTexts = 2
    MaxLoads = 2
    MaxSeeks = 1
    None = None
PROPERTIES
    TextShown
CHECK_DEADLOCK FALSE
