SPECIFICATION Spec
CONSTANTS
  MaxConns = 2
  Packets <- ThePackets
  MaxSent = 1
  MaxPayload = 2
  MaxKills = 0
  None = None
INVARIANT Survives
CHECK_DEADLOCK FALSE
