\* Two messages of two protocols, one of them possibly changed on the way, a
\* subscriber with a one-slot channel.
CONSTANTS
  Request = {r1, r2}
  Watcher = {w}
  Protocol = {p, q}
  NoProtocol = NoProtocol
  ID = {}
  Rewrite = {}
  None = None
  Workers = 1
  Buffer = 1
  Responders = 1
SYMMETRY Protocols
SPECIFICATION Spec
INVARIANTS StreamFilteredOnce BoundedLoss
CHECK_DEADLOCK FALSE
