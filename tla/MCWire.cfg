SPECIFICATION FairSpec
CONSTANTS
  service = service
  delivery = delivery
  ack = ack
  message = message
  Writers <- MCWriters
  Types <- MCTypes
  MaxLen = 2
  MaxPackets = 2
  MaxReceived = 4
  Closes = TRUE
INVARIANTS PacketsAsSent WholeBeforeEof
PROPERTIES PacketsArrive
CHECK_DEADLOCK FALSE
