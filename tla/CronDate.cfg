CONSTANTS
  SecPerMin = 2
  MinPerHour = 3
  HourPerDay = 2
  MonthDays <- MCMonthDays
  Years = 2
  Specs <- MCSpecsNotMonthNoDay
SPECIFICATION Spec
CHECK_DEADLOCK FALSE
INVARIANT NextAfterStart
