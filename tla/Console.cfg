SPECIFICATION Spec
CONSTANTS
    Procs = {1, 2}
    MaxClients = 2
    MaxTokens = 4
    MaxFaults = 1
INVARIANT DroppedIsLoggedOut
PROPERTIES
    NoTokenLost
    CallsEnd
CHECK_DEADLOCK FALSE
