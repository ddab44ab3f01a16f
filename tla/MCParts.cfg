SPECIFICATION PartsSpec
CONSTANTS
  None = None
  Units = {u1, u2}
  Flaky = {u1}
  Latest = 1
  Budget = 2
  VerifyAfter = 1
  RetryAfter = 2
  Backoff = 1
  LateWatch = 1
  MinUptime = 1
  Cooldown = 1
  LowStreak = 1
  UptimeCap = 2
  MaxFaults = 1
  MaxDeploys = 1
  DayLen = 4
  WeekLen = 3
  YearLen = 4
  HebStart <- MCHebStart
  Zman <- MCZman
  YomTov <- MCYomTov
  Motzaei <- MCMotzaei
  PlanMenu <- MCPlanMenu
  RowMenu <- MCRowMenu
  Clocks <- MCClocks
  FirstMoment = 18
  LastMoment = 32
  Grace = 1
  ScanWindow = 4
  RetryWindow = 2
  RefreshAt = 1
  MaxChanges = 2
  LastEdit = 19
  Wakings = {21}
  MaxSingles = 1
  NoPlan = NoPlan
  NoDay = NoDay
  MaxMinute = 6
  FreshFor = 3
  HandWindow = 2
  MaxCuts = 1
  MaxOrders = 1
  MaxSilences = 1
INVARIANTS TypesOK OneFlashAtATime LockIsUsed CalendarIsKept MirrorIsExact NothingIsMissed
PROPERTIES FlashNotCutShort RebootsAreSpaced NetKeepsOffs
CHECK_DEADLOCK FALSE
