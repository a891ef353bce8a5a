SPECIFICATION Spec
CONSTANTS
  WordMod = 256
  HalfMod = 16
  Default = 200
  DaySecs = 8
  HourSecs = 4
  MinuteSecs = 2
  YearDays = 8
  MonthDays = 3
  FirstYear = 0
  Dates <- MCDates
  Second = 2
  TimerHalf = 8
  Jumps = {1, 5}
  MaxTime = 20
  MaxResets = 1
INVARIANTS ClockKeeps TimerReadWhole
PROPERTY DatesFollow
