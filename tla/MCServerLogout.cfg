SPECIFICATION FairSpec
CONSTANTS
  c1 = c1
  c2 = c2
  h1 = h1
  h2 = h2
  Conns <- Conns1
  Handles <- Handles1
  Fds = {1}
  Inputs = {"LOGIN", "LOGOUT"}
  MaxReqs = 2
  MaxBoxes = 1
  MaxQueue = 3
PROPERTIES LogoutAnswered
CHECK_DEADLOCK FALSE
