CONSTANTS
  Idents = {"a", "b", "c", "f", "m", "T", "L", "as", "to", "and", "union", "foo"}
  InfixNames = {"foo"}
  Careful = {"cast_elvis", "sure_call", "counted_link", "return_else", "comparisons", "statement_starts", "soft_call"}
SPECIFICATION Spec
INVARIANTS ReadAsWritten
