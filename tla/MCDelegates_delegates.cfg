SPECIFICATION AllSpec
CONSTANTS
  Lazy = {a, b}
  Observable = {o}
  Vetoable = {w}
  Late = {n}
  Values = {v0, v1}
  Unset = Unset
  Nothing = Nothing
  Undef = Undef
  MaxRuns = 3
  Careful = TRUE
  None = None
  Names = {"x", "y", "z", "p", "f", "g", "h", "k", "m"}
  FrameSlots = 20
  Floors = {0, 32}
INVARIANT VariablesShared
PROPERTIES OnceForAll KeepsPromise
