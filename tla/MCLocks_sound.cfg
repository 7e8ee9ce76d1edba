SPECIFICATION Spec
CONSTANTS
  Tasks = {t1, t2, t3}
  Nobody = Nobody
  Programs <- SoundPrograms
  MaxNaps = 2
INVARIANTS TypeOK NeverSpins
CHECK_DEADLOCK FALSE
