SPECIFICATION FairSpec
CONSTANTS
  Orders = {1, 2}
  Action <- MCAction
  Misfits = {2}
  MaxNow = 2
  LastAsk = 0
  Boots = {"schedule"}
  Act <- MCAct
  MaxQueue = 1
  Ring = 2
  Window = 0
  MaxFaults = 1
  MaxDown = 2
  MaxUp = 2
  MaxHandlers = 2
INVARIANTS TypeOK OncePerPower ReportsAccounted SelfHeals
PROPERTIES ImplementsLedger UnitIsKnown
CHECK_DEADLOCK FALSE
