\* Every chain of at most three stages in which nothing is dropped after a take; every member
\* of a collection of up to three elements, with every lambda; and every map of up to four keys,
\* in a program that stays out of the situations where the two are known to part.
SPECIFICATION AllSpec
CONSTANTS
  None = None
  Undef = Undef
  Pipelines <- TakesLast
  Lengths <- UpToFour
  MapValues = {v}
  OutOfRange = OutOfRange
  MaxCalls = 1
  Careful = {"unmarked", "shrunk", "moved", "unindexed", "out of range", "null", "modified", "alike"}
INVARIANTS
  AnswersAsKotlin
  CallsAsKotlin
  LeavesAsKotlin
  DeliversTheList
  AsksNoFurther
  CallsInOrder
  EndsAtTheEnd
  AnswersAsJava
  FindsWhatIsThere
VIEW view
