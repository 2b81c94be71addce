SPECIFICATION Spec
CONSTANTS
  Payloads <- MC_Payloads
  Calls = {i1, i2}
  MaxLines = 2
  MaxFaults = 1
SYMMETRY Symmetry
INVARIANTS PerChangeConfirmation
CHECK_DEADLOCK FALSE
