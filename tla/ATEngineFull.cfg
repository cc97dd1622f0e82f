SPECIFICATION Spec
CONSTANTS
  h = h
  n = n
  l1 = l1
  l2 = l2
  NoReq = NoReq
  MaxWrites = 2
  Requests <- MCFull
  Prio <- MCFullPrio
  Cap <- MCCap
SYMMETRY MCFullSymmetry
INVARIANTS NoLostRequest ReplyNeverDropped BoundedInversion RejectedNeverSent
PROPERTY ImplementsService
CHECK_DEADLOCK FALSE
