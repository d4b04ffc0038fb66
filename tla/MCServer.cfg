SPECIFICATION Spec
CONSTANTS
  c1 = c1
  c2 = c2
  h1 = h1
  h2 = h2
  Conns <- Conns2
  Handles <- Handles2
  Fds = {1, 2}
  Inputs = {"LOGIN", "LOGOUT", "SEND", "CLOSE", "SIGHUP"}
  MaxReqs = 3
  MaxBoxes = 2
  MaxQueue = 3
SYMMETRY Symmetry
INVARIANTS TypeOK RegistryConsistent CountsMatch NoCrash ShutdownReachesAll
PROPERTIES UsesThreadCounter
CHECK_DEADLOCK FALSE
