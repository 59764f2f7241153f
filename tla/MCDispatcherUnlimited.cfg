\* Two callers, an unlimited outgoing queue, one worker of each kind, one ID
\* that both callers may choose.
CONSTANTS
  Request = {r1, r2}
  Watcher = {}
  Protocol = {p}
  NoProtocol = NoProtocol
  ID = {i}
  Rewrite = {}
  None = None
  Workers = 1
  Buffer = 0
  Responders = 1
SPECIFICATION Spec
INVARIANTS HandledAtMostOnce RefusedNeverHandled NoLostResponse
  CorrelatedReply
PROPERTIES  ImplementsRequestReply
CHECK_DEADLOCK FALSE
