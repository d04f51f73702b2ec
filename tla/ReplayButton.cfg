\* One page, and no other.
SPECIFICATION Spec
CONSTANTS
  Views = {"page"}
  Others = FALSE
  Days = {"a"}
  Length = 3
  Speeds = {1}
  MaxInTransit = 2
INVARIANTS ButtonIsHonest
CHECK_DEADLOCK FALSE
