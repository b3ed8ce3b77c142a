SPECIFICATION FairSpec
CONSTANTS
  LIMIT = 4
  Entry <- MCEntry
  Packet <- MCPacket
INVARIANT LedParity
PROPERTIES NeverStuckOn QueuedBlinkIsShown
