SPECIFICATION Spec
CONSTANTS
  Tasks = {t1, t2}
  Kinds = {"claw"}
  MaxSpawns = 2
  Removers = {r1, r2}
  MaxLines = 0
  MaxErrors = 1
  ReuseIds = FALSE
SYMMETRY Symmetry
INVARIANTS PressingAgainHelps
CHECK_DEADLOCK FALSE
