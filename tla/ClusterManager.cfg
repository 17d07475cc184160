\* Two clusters, two connection settings, two goroutines, safety.
SPECIFICATION Spec
CONSTANTS
  Ids = {i1, i2}
  Conns = {s1, s2}
  NoConn = NoConn
  Clients = {c1, c2, c3, c4}
  NoClient = NoClient
  Callers = {a1, a2}
  MaxGeneration = 4
SYMMETRY Symmetry
INVARIANTS TypeOK InstalledOpen ClosedOnce NoLeak ConnectionsAuthoritative NoNilClient
PROPERTIES UnchangedStaysConnected PoolSpec
\* The callers may stop calling, and calls stop at MaxGeneration.
CHECK_DEADLOCK FALSE
