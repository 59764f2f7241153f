\* A handler that returns an error.
CONSTANTS
  p = p
  q = q
  Request = {r}
  Protocol <- MCProtocol
  NoProtocol = NoProtocol
  MaxHooks <- MCMaxHooks
SPECIFICATION Spec
INVARIANT ObserverSeesErrors
CHECK_DEADLOCK FALSE
