CONSTANTS
  None = None
  None_ = None_
  Classes <- MCClasses
  Functions <- MCFunctions
  Qualified <- MCQualified
  Questions <- AllQuestions
  Names = {"x", "y"}
  Vals = {"y"}
  MaxDepth = 2
  MaxDecls = 3
  Types <- CarefulTypes
  Tests <- CarefulTests
  Careful = TRUE
SPECIFICATION Spec
INVARIANTS
  ChecksRight
  MeansTheInnermost CastOnlyWhereProved RefusesOnlyInvalid
CHECK_DEADLOCK FALSE
