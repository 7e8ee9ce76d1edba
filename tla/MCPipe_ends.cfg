SPECIFICATION FairSpec
CONSTANTS
  Tasks = {a, b}
  First = a
  NoTask = nobody
  Fds <- TwoFds
  Cores = 1
  Shares <- MayShare
  Byte <- OneByte
  Stale = stale
  Limit = 1
  MaxIO = 2
INVARIANT TypeOK
PROPERTIES HangUpIsFinal ShortMeansStuck CallsReturn
CHECK_DEADLOCK FALSE
