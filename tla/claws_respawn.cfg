SPECIFICATION Spec
CONSTANTS
  Tasks = {t1}
  Kinds = {"claw"}
  MaxSpawns = 2
  Removers = {r1}
  MaxLines = 1
  MaxErrors = 0
  ReuseIds = TRUE
INVARIANTS KillSwitchComplete
CHECK_DEADLOCK FALSE
