SPECIFICATION FairSpec
CONSTANTS
  j0 = j0
  j1 = j1
  j2 = j2
  Jobs <- MCJobs
  FirstJobs <- MCJobs
  DayOf <- MCDayOf
  TimeOf <- MCTimeOf
  Week = 2
  Cap = 2
  Window = 3
  Slots = {1, 2}
  NoJob = NoJob
  MaxChanges = 2
INVARIANTS TypeOK UnitMirrors
PROPERTIES WantedJobsStay Settles
CHECK_DEADLOCK FALSE
