SPECIFICATION FairSpec
CONSTANTS
  MaxEdits = 2
  MaxFaults = 1
  MaxDown = 1
  MaxUp = 2
  MaxHandlers = 1
INVARIANTS TypeOK VersionsAreComplete AcksAreEarned
PROPERTIES ImplementsLedger Converges
CHECK_DEADLOCK FALSE
