\* One caller that waits while the service is cancelled.
CONSTANTS
  Request = {r1, r2}
  Watcher = {}
  Protocol = {p}
  NoProtocol = NoProtocol
  ID = {}
  Rewrite = {}
  None = None
  Workers = 1
  Buffer = 0
  Responders = 1
SPECIFICATION Spec
PROPERTY ShutdownReachesCallers
CHECK_DEADLOCK FALSE
