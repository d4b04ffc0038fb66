SPECIFICATION Spec
CONSTANTS
  Top = 2
  Chunks = 2
  Sizes = {2, 7, 15}
  MaxCalls = 4
INVARIANTS TypeOK HeapIntact ListsIntact Coalesced
PROPERTY KeepsPromise
CONSTRAINT StillIntact
CHECK_DEADLOCK FALSE
