SPECIFICATION Spec
CONSTANTS
  Threads = {t1}
  First = t1
  NSig = 4
  Chld = 1
  Segv = 2
  Kill = 4
  Actions <- AllActions
  Masks <- OneMask
  Results <- OneResult
  Restorers <- BySyscall
  ForkInHandler = FALSE
  MayFault = FALSE
  Sent <- AnySignal
  Images = 1
INVARIANT SavedOnlyInHandler
CHECK_DEADLOCK FALSE
