\* An update can never brick the box.
SPECIFICATION Spec
CONSTANTS
  None = None
  Empty = Empty
  Slots = {p2, p3}
  Polls = 2
INVARIANT NeverBricked
CHECK_DEADLOCK FALSE
