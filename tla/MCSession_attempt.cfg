SPECIFICATION FairSpec
CONSTANTS
 Stations = {A}
 None = None
 Addresses = 2
 Encrypted = TRUE
 Arinc622 = TRUE
 Delay = FALSE
 MaxTokens = 2
 MaxKeys = 2
 MaxMsgs = 1
 MaxCloses = 1 MaxErrors = 1
 QueueFull = FALSE
CHECK_DEADLOCK FALSE
PROPERTIES AttemptEnds LogoffIsHeeded
