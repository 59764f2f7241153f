\* Three groups that may meet under one name; arrays may have room for one
\* more command.
CONSTANTS
  Configured <- MCConfigured
  IncludeLocal = FALSE
  Slack = 1
SPECIFICATION Spec
INVARIANTS TypeOK NamesAreUnique  CommandsInOrder
CHECK_DEADLOCK FALSE
