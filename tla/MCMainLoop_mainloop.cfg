SPECIFICATION Spec
CONSTANTS
 c1 = c1
 c2 = c2
 None = None
 Conns <- MCConns
 Hosts <- MCHosts
 Bounds <- MCBounds
INVARIANTS TypeOK OwnResults ListIsCurrent BlockedClientsAreGone
PROPERTY NobodyIsSkipped
