SPECIFICATION CalendarSpec
CONSTANTS
  SlotsPerDay = 4
  MonthStarts <- MCMonthStarts
  Zones <- MCZones
  MaxGap = 3
  LastStart = 67
  Null = Null
INVARIANTS NextIsFound
CHECK_DEADLOCK FALSE
