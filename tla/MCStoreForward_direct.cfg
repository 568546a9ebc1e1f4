CONSTANTS
    t1 = t1
    w1 = w1
    ac1 = ac1
    atc1 = atc1
    NoIdent = NoIdent
    AUTO = AUTO
    Conns <- MCMixed
    LwsConns <- MCLws
    Idents <- MCIdents
    Logons <- MCManyLogons
    Inputs <- MCInputs
    QueueMax = 3
    QuotaMax = 2
    Routed = FALSE
    MaxThreads = 1
    MaxMsgs = 2
SPECIFICATION Spec
INVARIANTS
    TypeOK
    QueueIsAccounted
    NothingWaitsForThePresent
PROPERTIES
    ServesMailboxes
