SPECIFICATION Spec
CONSTANTS
  ProbeIds = {1, 2}
  Readings <- MCReadings
  Unreadable = 0
  Zero = Zero
  ClockRange = 6
  RetryTime = 3
  Second = 2
INVARIANTS
  IInv
  ReadingIsOnePacket
PROPERTIES
  AttemptsSpaced
  Restarts
