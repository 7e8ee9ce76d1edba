SPECIFICATION Spec
CONSTANTS
  Procs = {p1, p2}
  First = p1
  f1 = f1
  s1 = s1
  d1 = d1
  r1 = r1
  w1 = w1
  Files <- Some
  KindOf <- SomeKinds
  NoFile = NoFile
  Hard = 3
  Calls <- AllCalls
  Careful = TRUE
INVARIANTS TypeOK FreeIsFree NoneLost 
CHECK_DEADLOCK FALSE
