SPECIFICATION Spec
CONSTANT Width = 5
INVARIANTS
  TypeOK
  Tiled
  MatchesRange
  Shortest
PROPERTY Ends
CHECK_DEADLOCK FALSE
