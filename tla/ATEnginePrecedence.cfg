SPECIFICATION Spec
CONSTANTS
  h = h
  n = n
  l1 = l1
  l2 = l2
  NoReq = NoReq
  MaxWrites = 1
  Requests <- MCTiers
  Prio <- MCTiersPrio
  Cap <- MCCap
INVARIANT ImmediatePrecedence
CHECK_DEADLOCK FALSE
