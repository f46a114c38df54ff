\* Every queue of at most six elements, through its own members and the list's.
SPECIFICATION FairSpec
CONSTANTS
  Elements <- Three
  Key <- TwoEqual
  MaxSize = 6
  MaxAdded = 2
INVARIANTS
  HeapOrdered
PROPERTIES
  KeepsPromise
  MembersEnd
