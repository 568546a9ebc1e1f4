CONSTANTS
    t1 = t1
    w1 = w1
    r1 = r1
    TcpConns = {}
    LwsConns <- MCLws
    Routers <- MCRouters
SPECIFICATION Spec
INVARIANTS
    TypeOK
    DeadlocksNeedAConnection
PROPERTY
    ChangesAreGuarded
CHECK_DEADLOCK FALSE
