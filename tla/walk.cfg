CONSTANTS
  Size = 5
  Clocks <- SomeClocks
  MaxParents = 2
  MaxTwos = 2
SPECIFICATION Spec
INVARIANT BasesExact
INVARIANT CountsExact
CHECK_DEADLOCK FALSE
