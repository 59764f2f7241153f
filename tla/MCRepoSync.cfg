\* Two mirrors, whose syncs share the working copy, and two changes; git on
\* one of the mirrors does not stash uncommitted changes.
CONSTANTS
  Local = here
  Mirror = {m1, m2}
  Change = {c1, c2}
  AutoStash = {here, m1}
  LocalSync = TRUE
  Fetch = FALSE
SPECIFICATION Spec
INVARIANTS NothingLost SyncedWhenDone
CHECK_DEADLOCK FALSE
