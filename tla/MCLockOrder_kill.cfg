CONSTANTS
    t1 = t1
    w1 = w1
    r1 = r1
    TcpConns <- MCTcp
    LwsConns = {}
    Routers = {}
SPECIFICATION FairSpec
PROPERTY
    KillMarksTheSession
CHECK_DEADLOCK FALSE
