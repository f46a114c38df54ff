CONSTANTS
  a = a
  b = b
  exception = exception
  error = error
  Obj = {a, b}
  Raised = {exception, error}
  Errors = {error}
  None = None
  Prop = {1, 2}
  one = one
  two = two
  Val = {zero, one, two, undef}
  Zero = zero
  Undef = undef
  Programs <- MCPrograms
SPECIFICATION Spec
INVARIANTS BuiltOnce DepthCounts
PROPERTY KeepsPromise
CHECK_DEADLOCK FALSE
