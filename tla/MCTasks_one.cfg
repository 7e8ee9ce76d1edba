SPECIFICATION Spec
CONSTANTS
  Cpus = {c1}
  TCBs = {t1, t2, t3, t4}
  Root = t1
  NoTask = NoTask
  TidLimit = 5
  TestEnv = TRUE
  Testcases = 2
  CloneKinds <- ProcessesThreads
  OriginStays = FALSE
INVARIANTS TypeOK OneVerdictEach
PROPERTY StartsAlone
CHECK_DEADLOCK FALSE
