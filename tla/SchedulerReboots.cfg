SPECIFICATION Spec
CONSTANTS
  Slots = 6
  Week = 2
  Tolerance = 1
  Schedules <- MCSchedules
  LastTime = 9
  MaxChanges = 1
PROPERTY NoRebootLoop
