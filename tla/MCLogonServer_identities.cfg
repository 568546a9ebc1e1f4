CONSTANTS
    t1 = t1
    w1 = w1
    ac1 = ac1
    atc1 = atc1
    atc2 = atc2
    NoIdent = NoIdent
    TcpConns <- MCTcpOne
    LwsConns = {}
    Idents <- MCThreeIdents
    AuthModes = {"rpc", "file", "none"}
    GraceTime = 1
    LogonTargets <- MCTargets
    MaxSessions = 4
SPECIFICATION Spec
INVARIANTS
    LoggedOnHasIdentity
    IdentitiesWereGranted
CHECK_DEADLOCK FALSE
