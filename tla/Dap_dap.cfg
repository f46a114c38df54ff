CONSTANTS
  Programs <- QuietPrograms
  Lines = {1, 2, 3, 4, 5}
  PipeCap = 4
  BufCap = 2
  LineSets <- MCLineSets
  MaxAsked = 5
  MaxPending = 2
SPECIFICATION Spec
INVARIANTS OutputConserved ShownAtStop
PROPERTY Ends
CHECK_DEADLOCK FALSE
