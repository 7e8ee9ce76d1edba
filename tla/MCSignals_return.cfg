SPECIFICATION Spec
CONSTANTS
  Threads = {t1}
  First = t1
  NSig = 4
  Chld = 1
  Segv = 2
  Kill = 4
  Actions <- AllActions
  Masks <- SomeMasks
  Results <- TwoResults
  Restorers <- BothReturns
  ForkInHandler = FALSE
  MayFault = TRUE
  Sent <- AnySignal
  Images = 2
INVARIANTS TypeOK HandlerCanReturn
PROPERTY ReturnsWhereInterrupted
CHECK_DEADLOCK FALSE
