SPECIFICATION FairSpec
CONSTANTS
  Threads = {t1, t2}
  First = t1
  NSig = 3
  Chld = 1
  Segv = 2
  Kill = 3
  Actions <- OnlyHandlers
  Masks <- MaskChld
  Results <- OneResult
  Restorers <- BySyscall
  ForkInHandler = TRUE
  MayFault = FALSE
  Sent <- ChldKill
  Images = 1
INVARIANT SavedOnlyInHandler
PROPERTIES SignalsHonoured 
CHECK_DEADLOCK FALSE
