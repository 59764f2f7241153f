\* One mirror and two changes, with updates that are run for ever.
CONSTANTS
  Local = here
  Mirror = {m1}
  Change = {c1, c2}
  AutoStash = {here, m1}
  LocalSync = FALSE
  Fetch = TRUE
SPECIFICATION Spec
PROPERTIES JobReturns EventuallySynced
CHECK_DEADLOCK FALSE
