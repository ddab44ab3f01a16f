SPECIFICATION RecoverySpec
CONSTANTS
  NRelays = 1
  Occ <- MCOcc
  RelayOf <- MCRelayOf
  Act <- MCAct
  DueAt <- MCDueAt
  Sid <- MCSid
  None = None
  Grace = 1
  ReachableMin = 2
  RetryWindow = 9
  CatchUpEvery = 3
  UnreachableAfter = 2
  MaxMinute = 12
  MaxOverrun = 0
  MaxHands = 0
  MaxFaults = 1
  MaxNoise = 1
INVARIANTS Recovered
VIEW View
CHECK_DEADLOCK FALSE
