SPECIFICATION MCStackSpec
CONSTANTS
  n = n
  l = l
  NoReq = NoReq
  Unsolicited = Unsolicited
  MaxWrites = 2
  Requests <- MCCalls
  Prio <- MCCallsPrio
  Cap <- MCPlaces
 
PROPERTIES EveryCallReturns  CloseReturns
CHECK_DEADLOCK FALSE
