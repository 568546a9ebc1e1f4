SPECIFICATION Spec
CONSTANTS
 Stations = {A, B}
 None = None
 Addresses = 1
 Encrypted = TRUE
 Arinc622 = FALSE
 Delay = TRUE
 MaxTokens = 2
 MaxKeys = 2
 MaxMsgs = 2
 MaxCloses = 1 MaxErrors = 1
 QueueFull = TRUE
CHECK_DEADLOCK FALSE
INVARIANTS TypeOK InTurn LinkIsConsistent AuthorityWasNamed Agreement
SYMMETRY Symmetry
