SPECIFICATION Spec
CONSTANTS
  Tasks = {t1, t2}
  Kinds = {"browser"}
  MaxSpawns = 2
  Removers = {r1}
  MaxLines = 1
  MaxErrors = 1
  ReuseIds = FALSE
SYMMETRY Symmetry
INVARIANTS RunningIsKnown KillSwitchComplete LinesReachViewer
CHECK_DEADLOCK FALSE
