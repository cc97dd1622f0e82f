SPECIFICATION FairSpec
CONSTANTS
  a = a
  b = b
  c = c
  NoReq = NoReq
  Unsolicited = Unsolicited
  Requests <- MCRequests
INVARIANTS LockDiscipline OneWriteWithoutFallback AnswerUsedOnce 
PROPERTIES ImplementsSend SendReturns
