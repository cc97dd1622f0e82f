SPECIFICATION Spec
CONSTANTS
  Slots = 6
  Week = 2
  Tolerance = 1
  Schedules <- MCSchedules
  LastTime = 13
  MaxChanges = 2
INVARIANTS OncePerDate NoneMissed LockFollowsSchedule
