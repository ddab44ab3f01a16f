SPECIFICATION RecoverySpec
CONSTANTS
  NRelays = 1
  Occ <- MCOne
  RelayOf <- MCRelayOf
  Act <- MCAct
  DueAt <- MCDueAt
  Sid <- MCSid
  None = None
  Grace = 1
  ReachableMin = 2
  RetryWindow = 9
  CatchUpEvery = 3
  UnreachableAfter = 2
  MaxMinute = 11
  MaxOverrun = 1
  MaxHands = 0
  MaxFaults = 0
  MaxNoise = 0
INVARIANTS SlowPassCovered
VIEW View
CHECK_DEADLOCK FALSE
