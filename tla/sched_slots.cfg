SPECIFICATION SchedulerSpec
CONSTANTS
  w1 = w1
  w2 = w2
  Workflow = {w1, w2}
  DayLength = 4
  Grace = 2
  Interval = 1
  Unresolved = {}
  Broken = {w2}
  Setting <- TwoWorkflows
  Saved <- OneSaved
  MaxId = 2
  MaxScheduleEdits = 1
  LastMinute = 7
  MaxTick = 1
  Faults = {"crash", "io", "back", "restart"}

  
PROPERTIES
  OncePerSlot
