\* One message and two protocols, either of which a hook may write into the
\* message or the response, with hooks registered before, between and after
\* the steps of the message.
CONSTANTS
  p = p
  q = q
  Request = {r}
  Protocol <- MCProtocol
  NoProtocol = NoProtocol
  MaxHooks <- MCMaxHooks
SPECIFICATION Spec
INVARIANTS HooksInOrder SelectionStable FirstErrorStops 
  NoSilentFailure
CHECK_DEADLOCK FALSE
