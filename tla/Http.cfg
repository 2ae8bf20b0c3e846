SPECIFICATION Spec
CONSTANTS
  Conns = {"c1", "c2", "c3"}
  Script <- MCScript
  MaxConns = 2
  Block = 3
  Panics = 1
INVARIANTS SlotsAccounted FramedInOrder
PROPERTY AcceptedIsResolved
CHECK_DEADLOCK FALSE
