SPECIFICATION FairSpec
CONSTANTS
  s1 = s1
  s2 = s2
  Senders <- MCSenders
  MaxEntries = 3
  MaxSent = 1
INVARIANTS TypeOK ListShape TokensMatch NoNullDereference CountsMatch NoUseAfterFree
PROPERTIES ImplementsQueue ServiceEnds EntriesHandedOut
CHECK_DEADLOCK FALSE
