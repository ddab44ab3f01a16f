SPECIFICATION Spec
CONSTANTS
  NRelays = 1
  Occ <- MCOcc
  RelayOf <- MCRelayOf
  Act <- MCAct
  DueAt <- MCDueAt
  Sid <- MCSid
  None = None
  Grace = 1
  ReachableMin = 1
  RetryWindow = 4
  CatchUpEvery = 2
  UnreachableAfter = 2
  MaxMinute = 6
  MaxOverrun = 1
  MaxHands = 1
  MaxFaults = 1
  MaxNoise = 1
INVARIANTS TypeOK HeldBeforeExecuted PendingIsOwned BeliefsAreEarned
PROPERTIES ImplementsLog GraceLeftAlone
VIEW View
CHECK_DEADLOCK FALSE
