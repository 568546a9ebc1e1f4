CONSTANTS
    t1 = t1
    w1 = w1
    ac1 = ac1
    atc1 = atc1
    atc2 = atc2
    NoIdent = NoIdent
    TcpConns <- MCTcpOne
    LwsConns <- MCLwsOne
    Idents <- MCIdents
    AuthModes = {"rpc"}
    GraceTime = 0
    LogonTargets <- MCTargets
    MaxSessions = 2
SPECIFICATION FairSpec
INVARIANTS
    TableMatchesFromLists
    CallbackFindsItsLogon
    StartedLogonHasSession
    IInv
PROPERTIES
    LogonIsAnswered
    KeepsRegistry
    LogonEnds
    GraceTimeIsKept
CHECK_DEADLOCK FALSE
