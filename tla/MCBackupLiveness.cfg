SPECIFICATION FairSpec
CONSTANTS
  NRelays = 1
  Occ <- MCOne
  RelayOf <- MCRelayOf
  Act <- MCAct
  DueAt <- MCDueAt
  Sid <- MCSid
  None = None
  Grace = 1
  ReachableMin = 1
  RetryWindow = 4
  CatchUpEvery = 2
  UnreachableAfter = 2
  MaxMinute = 3
  MaxOverrun = 0
  MaxHands = 1
  MaxFaults = 1
  MaxNoise = 2
PROPERTIES PassEnds OrderAnswered
CHECK_DEADLOCK FALSE
