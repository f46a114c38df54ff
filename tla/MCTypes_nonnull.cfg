\* Functions alone, with tests for null and assignments under a smart cast.
CONSTANTS
  None = None
  None_ = None_
  Classes <- ScopeClasses
  Functions <- ScopeFunctions
  Qualified <- ScopeQualified
  Questions = {}
  Names = {"x", "y"}
  Vals = {"y"}
  MaxDepth = 2
  MaxDecls = 3
  Types <- AllTypes
  Tests <- AllTests
  Careful = FALSE
SPECIFICATION Spec
INVARIANTS RefusesOnlyInvalid
CHECK_DEADLOCK FALSE
