CONSTANTS
    t1 = t1
    w1 = w1
    ac1 = ac1
    atc1 = atc1
    NoIdent = NoIdent
    AUTO = AUTO
    Conns <- MCMixed
    LwsConns <- MCLws
    Idents <- MCIdents
    Logons <- MCLogons
    Inputs <- MCFewInputs
    QueueMax = 2
    QuotaMax = 2
    Routed = TRUE
    MaxThreads = 2
    MaxMsgs = 2
SPECIFICATION FairSpec
INVARIANTS
    QueueIsAccounted
    EveryMessageOnce
PROPERTIES
    MessagesAreSettled
