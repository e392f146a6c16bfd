CONSTANTS
  Jobs = {j1, j2, j3}
  JobSpec <- MCJobSpec
  OnceDate <- MCOnceDate
  MaxTime = 3
  NoJob = NoJob
  SecPerMin = 1
  MinPerHour = 3
  HourPerDay = 2
  MonthDays <- MCMonthDays
SPECIFICATION Spec
CHECK_DEADLOCK FALSE
INVARIANT NonZeroSorted
INVARIANT JobAccounting
 
