SPECIFICATION FairSpec
CONSTANTS
  c1 = c1
  c2 = c2
  h1 = h1
  h2 = h2
  Conns <- Conns2
  Handles <- Handles1
  Fds = {1, 2}
  Inputs = {"LOGIN", "LOGOUT"}
  MaxReqs = 2
  MaxBoxes = 1
  MaxQueue = 3
PROPERTIES LoginsAnswered
CHECK_DEADLOCK FALSE
