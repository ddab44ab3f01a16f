SPECIFICATION ServicesSpec
CONSTANTS
  None = None
  Callers <- TheCallers
  Relays = {1, 9}
  FirstScheds = 2
  Times = {1}
  Tries = 2
  Replays = 1
  Weekdays = {1}
  MaxDone = 1
  MaxUpsets = 1
  Aheads = {1}
  Numbers <- TheNumbers
  MaxAge = 3
  MaxLinks = 1
  MaxTroubles = 1
  Customers = {a, b}
  Visitors = {a}
  Macs = {m}
  Digits = {1, 2}
  DemoDigit = 1
  FirstDigits = {1}
  Ids = {1, 2, 3}
  Jobs = {1, 2}
  MaxActs = 3
  MaxSlips = 1
INVARIANTS TypesOK CallLogIsTrue OfferedIsUnderstood RegistryIsSound
PROPERTIES OfficeIsGated CarriedOutAsRead RecoveryGivesBack
CHECK_DEADLOCK FALSE
