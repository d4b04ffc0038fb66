SPECIFICATION FairSpec
CONSTANTS
  c1 = c1
  c2 = c2
  h1 = h1
  h2 = h2
  Conns <- Conns2
  Handles <- Handles1
  Fds = {1, 2}
  Inputs = {"LOGIN", "BADLOGIN", "LOGOUT", "USERS", "SEND"}
  MaxReqs = 3
  MaxBoxes = 2
  MaxQueue = 4
PROPERTIES EveryRequestAnswered ServicesEnd
CHECK_DEADLOCK FALSE
