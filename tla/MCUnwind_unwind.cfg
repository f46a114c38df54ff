SPECIFICATION FairSpec
CONSTANTS
  Programs <- AllPrograms
  Chunks <- MCChunks
  Val <- MCVal
  Exc <- MCExc
  Fun = {"main", "f", "g"}
  Slot = {0, 1, 2, 3, 4, 5, 6, 7, 8, 9}
  Undef = "Undef"
  Marker = "$return"
  None = None
INVARIANTS Verified AgreesWithKotlin ParkedBalanced BoundaryBalanced ReturnHasTarget NothingLeftOver
PROPERTIES Terminates
