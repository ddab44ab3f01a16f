SPECIFICATION FairSpec
CONSTANTS
  Units = {u1}
  Flaky = {u1}
  Latest = 2
  Budget = 2
  VerifyAfter = 1
  RetryAfter = 2
  Backoff = 1
  LateWatch = 1
  MinUptime = 1
  Cooldown = 1
  LowStreak = 1
  UptimeCap = 2
  MaxFaults = 0
  MaxDeploys = 1
  None = None
PROPERTIES CatchesUp
