\* Maps, in a program that may append a key without an IndexKey before the index heard of a removal.
SPECIFICATION AllSpec
CONSTANTS
  None = None
  Undef = Undef
  Pipelines = {}
  Lengths = {}
  MapValues = {v}
  OutOfRange = OutOfRange
  MaxCalls = 1
  Careful = {"unmarked", "shrunk", "moved", "out of range", "null", "modified", "alike"}
INVARIANT FindsWhatIsThere
VIEW view
