CONSTANTS
  a = a
  b = b
  boom = boom
  Iter = {a, b}
  Exc <- Excs
  Val <- Vals
  Undef = Undef
  EndMark = EndMark
  Yes = Yes
  No = No
  None = None
  Limit = 2
  Chunks <- PlainChunks
SPECIFICATION FairSpec
INVARIANTS BasesNested
PROPERTIES KeepsPromise Undisturbed Terminates
CHECK_DEADLOCK FALSE
