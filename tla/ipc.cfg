SPECIFICATION Spec
CONSTANTS
  MaxConns = 3
  Packets <- ThePackets
  MaxSent = 2
  MaxPayload = 2
  MaxKills = 1
  None = None
INVARIANTS TypeOK Conserved
PROPERTIES ImplementsChannel Delivered Heals
CHECK_DEADLOCK FALSE
