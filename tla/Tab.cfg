SPECIFICATION MCTabSpec
CONSTANTS
  Pages <- MCPages
  Values = {v1, v2}
  None = None
  MaxRequests = 3
  MaxRetries = 1
  MaxChanges = 1
  Views <- MCViews
  Lanes = {l1, l2}
  MaxSnapshots = 3
  Buffer = 2
  MaxRapidFailures = 3
  JobHooks <- MCJobHooks
  Slots = {s1, s2}
  MaxStarts = 1
  MaxRestarts = 1
  MaxFailures = 2
INVARIANTS
  
  Tended
  ConsoleIsTrue
  
PROPERTIES
  EditsSurvive
  NeverGoesBack
  
CHECK_DEADLOCK FALSE
