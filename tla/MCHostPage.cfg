CONSTANTS
  MaxClicks = 2
  MaxPolls = 2
  MaxChanges = 2
SPECIFICATION Spec
CHECK_DEADLOCK FALSE
INVARIANTS
  TypeOK
PROPERTIES
  ButtonSettles
  ButtonConverges
