SPECIFICATION Spec
CONSTANTS
  Cpus = {c1, c2}
  TCBs = {t1, t2, t3, t4}
  Root = t1
  NoTask = NoTask
  TidLimit = 5
  TestEnv = FALSE
  Testcases = 1
  CloneKinds <- ProcessesVmSharing
  OriginStays = TRUE
SYMMETRY CpuSymmetry
INVARIANTS OneHolder TidUnique TableExact  PpidAlive VmKept SigchldToParent
CHECK_DEADLOCK FALSE
