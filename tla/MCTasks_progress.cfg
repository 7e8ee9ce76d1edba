SPECIFICATION CoopSpec
CONSTANTS
  Cpus = {c1, c2}
  TCBs = {t1, t2, t3}
  Root = t1
  NoTask = NoTask
  TidLimit = 5
  TestEnv = FALSE
  Testcases = 1
  CloneKinds <- ProcessesThreads
  OriginStays = TRUE
PROPERTIES WaiterServed ReadyRuns 
CHECK_DEADLOCK FALSE
