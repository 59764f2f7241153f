---------------------------- MODULE DispatchHooks ----------------------------
(***************************************************************************)
(* What happens to one message inside the pools of module Dispatcher: the  *)
(* middleware of its protocol, the general middleware, its handler, the    *)
(* general interceptors and the interceptors of the response's protocol,   *)
(* while hooks are being registered (doMiddleware, doHandler, doIntercept  *)
(* and their two callers in x/router/dispatcher.go).  A hook is its        *)
(* position in its Deque; what it does is its outcome and the protocol it  *)
(* leaves behind.  Hooks leave Response.Error to the dispatcher.           *)
(* Definitions marked "Wrong" are bugs with which PROJECT.json shows that  *)
(* the properties can fail.                                                *)
(***************************************************************************)
EXTENDS Naturals, Sequences, FiniteSets

CONSTANTS
  Request,     \* messages
  Protocol,    \* the nonzero protocols
  NoProtocol,  \* Protocol{}, the key of the general hooks
  MaxHooks     \* bounds on the hooks registered under each key

Key == Protocol \cup {NoProtocol}

ASSUME HooksAssumption ==
  /\ NoProtocol \notin Protocol
  /\ MaxHooks \in [Key -> Nat]

VARIABLES
  middleware,   \* how many middleware each key has
  interceptor,  \* how many interceptors each key has
  handlers,     \* the protocols that have a handler
  phase,        \* what runs on behalf of each message
  key,          \* the key the current phase loads its hooks with
  least,        \* hooks the current phase's Deque had when it was opened
  next,         \* the position of the iterator in it
  protocol,     \* the protocol a message was sent with
  rewritten,    \* the Protocol field of the message, then of the response
  err,          \* what Response.Error reports
  observed,     \* errors given to ErrorObserver
  ran,          \* the hooks that ran, in order (history)
  atSend        \* what was registered when the message was sent (history)

registry == <<middleware, interceptor, handlers>>
cursor == <<phase, key, least, next>>
vars == <<registry, cursor, protocol, rewritten, err, observed, ran, atSend>>

Phase == <<"mwProto", "mwAll", "handler", "icAll", "icProto">>
Rank(ph) == CHOOSE n \in DOMAIN Phase : Phase[n] = ph

Snapshot(p) ==
  [mwProto |-> middleware[p], mwAll |-> middleware[NoProtocol],
   handler |-> p \in handlers, ic |-> interceptor]

Init ==
  /\ middleware = [k \in Key |-> 0]
  /\ interceptor = [k \in Key |-> 0]
  /\ handlers = {}
  /\ phase = [r \in Request |-> "new"]
  /\ key = [r \in Request |-> NoProtocol]
  /\ least = [r \in Request |-> 0]
  /\ next = [r \in Request |-> 0]
  /\ protocol = [r \in Request |-> NoProtocol]
  /\ rewritten = [r \in Request |-> NoProtocol]
  /\ err = [r \in Request |-> {}]
  /\ observed = [r \in Request |-> 0]
  /\ ran = [r \in Request |-> <<>>]
  /\ atSend = [r \in Request |-> Snapshot(NoProtocol)]

-----------------------------------------------------------------------------
(* Registration, at any time.                                              *)

AddMiddleware(k) ==
  /\ middleware[k] < MaxHooks[k]
  /\ middleware' = [middleware EXCEPT ![k] = @ + 1]
  /\ UNCHANGED <<interceptor, handlers, cursor, protocol, rewritten, err,
                 observed, ran, atSend>>

AddInterceptor(k) ==
  /\ interceptor[k] < MaxHooks[k]
  /\ interceptor' = [interceptor EXCEPT ![k] = @ + 1]
  /\ UNCHANGED <<middleware, handlers, cursor, protocol, rewritten, err,
                 observed, ran, atSend>>

(* RegisterHandler and OverrideHandler differ only in which handler stays. *)
SetHandler(p) ==
  /\ handlers' = handlers \cup {p}
  /\ UNCHANGED <<middleware, interceptor, cursor, protocol, rewritten, err,
                 observed, ran, atSend>>

-----------------------------------------------------------------------------
(* One message.                                                            *)

(* Wrong: the iterator of a new phase starts where the last one ended.     *)
EnterWithoutReset(r, ph, k, table) ==
  /\ phase' = [phase EXCEPT ![r] = ph]
  /\ key' = [key EXCEPT ![r] = k]
  /\ least' = [least EXCEPT ![r] = table[k]]
  /\ UNCHANGED next

Enter(r, ph, k, table) ==
  /\ phase' = [phase EXCEPT ![r] = ph]
  /\ key' = [key EXCEPT ![r] = k]
  /\ least' = [least EXCEPT ![r] = table[k]]
  /\ next' = [next EXCEPT ![r] = 0]

Log(r, ok) ==
  ran' = [ran EXCEPT ![r] =
            Append(@, [phase |-> phase[r], key |-> key[r],
                       hook |-> next[r] + 1, ok |-> ok])]

(* A worker of the message pool takes the message.                         *)
Begin(r, p) ==
  /\ phase[r] = "new"
  /\ protocol' = [protocol EXCEPT ![r] = p]
  /\ rewritten' = [rewritten EXCEPT ![r] = p]
  /\ Enter(r, "mwProto", p, middleware)
  /\ atSend' = [atSend EXCEPT ![r] = Snapshot(p)]
  /\ UNCHANGED <<registry, err, observed, ran>>

Table(r) ==
  IF phase[r] \in {"mwProto", "mwAll"} THEN middleware ELSE interceptor

(* Wrong: the iterator stays where it is.                                  *)
RunHookAgain(r, q) ==
  /\ phase[r] \in {"mwProto", "mwAll", "icAll", "icProto"}
  /\ next[r] < Table(r)[key[r]]
  /\ rewritten' = [rewritten EXCEPT ![r] = q]
  /\ Log(r, TRUE)
  /\ UNCHANGED <<registry, cursor, protocol, err, observed, atSend>>

(* A hook returns nil, having perhaps changed the protocol.                *)
RunHook(r, q) ==
  /\ phase[r] \in {"mwProto", "mwAll", "icAll", "icProto"}
  /\ next[r] < Table(r)[key[r]]
  /\ next' = [next EXCEPT ![r] = @ + 1]
  /\ rewritten' = [rewritten EXCEPT ![r] = q]
  /\ Log(r, TRUE)
  /\ UNCHANGED <<registry, phase, key, least, protocol, err, observed, atSend>>

(* The iterator of a phase ends: it has met at least the hooks that were   *)
(* there when it was opened, and maybe some added since.                   *)
PhaseDone(r) == next[r] >= least[r]

(* Wrong: the handler is chosen by the protocol the middleware left.       *)
HandlerOfRewritten(r) ==
  /\ PhaseDone(r)
  /\ \/ phase[r] = "mwProto" /\ Enter(r, "mwAll", NoProtocol, middleware)
     \/ phase[r] = "mwAll" /\ Enter(r, "handler", rewritten[r], [k \in Key |-> 0])
  /\ UNCHANGED <<registry, protocol, rewritten, err, observed, ran, atSend>>

MiddlewareDone(r) ==
  /\ PhaseDone(r)
  /\ \/ /\ phase[r] = "mwProto"
        /\ Enter(r, "mwAll", NoProtocol, middleware)
     \/ /\ phase[r] = "mwAll"
        /\ Enter(r, "handler", protocol[r], [k \in Key |-> 0])
  /\ UNCHANGED <<registry, protocol, rewritten, err, observed, ran, atSend>>

(* Wrong: an error of a middleware is kept, but the next one runs.         *)
MiddlewareGoesOn(r) ==
  /\ phase[r] \in {"mwProto", "mwAll"}
  /\ next[r] < middleware[key[r]]
  /\ Log(r, FALSE)
  /\ err' = [err EXCEPT ![r] = {"middleware"}]
  /\ next' = [next EXCEPT ![r] = @ + 1]
  /\ UNCHANGED <<registry, phase, key, least, protocol, rewritten, observed, atSend>>

(* A middleware returns an error or panics: there is no more middleware    *)
(* and no handler, the response carries the error, the observer sees it.   *)
MiddlewareFails(r) ==
  /\ phase[r] \in {"mwProto", "mwAll"}
  /\ next[r] < middleware[key[r]]
  /\ Log(r, FALSE)
  /\ err' = [err EXCEPT ![r] = {"middleware"}]
  /\ observed' = [observed EXCEPT ![r] = @ + 1]
  /\ rewritten' = [rewritten EXCEPT ![r] = protocol[r]]
  /\ Enter(r, "icAll", NoProtocol, interceptor)
  /\ UNCHANGED <<registry, protocol, atSend>>

(* The handler answers, with a protocol of its own or none, and with an    *)
(* error or none; a panic is an error, too.                                *)
DoHandler(r, q, ok) ==
  /\ phase[r] = "handler"
  /\ key[r] \in handlers
  /\ Log(r, ok)
  /\ err' = [err EXCEPT ![r] = IF ok THEN {} ELSE {"handler"}]
  /\ rewritten' = [rewritten EXCEPT ![r] =
                     IF q = NoProtocol THEN protocol[r] ELSE q]
  /\ Enter(r, "icAll", NoProtocol, interceptor)
  /\ UNCHANGED <<registry, protocol, observed, atSend>>

NoHandler(r) ==
  /\ phase[r] = "handler"
  /\ key[r] \notin handlers
  /\ err' = [err EXCEPT ![r] = {"no handler"}]
  /\ rewritten' = [rewritten EXCEPT ![r] = protocol[r]]
  /\ Enter(r, "icAll", NoProtocol, interceptor)
  /\ UNCHANGED <<registry, protocol, observed, ran, atSend>>

Publish(r) ==
  /\ phase' = [phase EXCEPT ![r] = "published"]
  /\ UNCHANGED <<key, least, next>>

(* After the general interceptors come those of the protocol the response  *)
(* has by then; after those the response is published.                     *)
InterceptorsDone(r) ==
  /\ PhaseDone(r)
  /\ \/ phase[r] = "icAll" /\ Enter(r, "icProto", rewritten[r], interceptor)
     \/ phase[r] = "icProto" /\ Publish(r)
  /\ UNCHANGED <<registry, protocol, rewritten, err, observed, ran, atSend>>

(* Wrong: the error of an interceptor only stops the others.               *)
InterceptorErrorLost(r) ==
  /\ phase[r] \in {"icAll", "icProto"}
  /\ next[r] < interceptor[key[r]]
  /\ Log(r, FALSE)
  /\ Publish(r)
  /\ UNCHANGED <<registry, protocol, rewritten, err, observed, atSend>>

(* An interceptor returns an error or panics: the response is published at *)
(* once, a general interceptor's error replacing any other, the error of a *)
(* protocol's interceptor joining it.                                      *)
InterceptorFails(r) ==
  /\ phase[r] \in {"icAll", "icProto"}
  /\ next[r] < interceptor[key[r]]
  /\ Log(r, FALSE)
  /\ err' = [err EXCEPT ![r] = {"interceptor"} \cup
               IF phase[r] = "icAll" THEN {} ELSE @]
  /\ Publish(r)
  /\ UNCHANGED <<registry, protocol, rewritten, observed, atSend>>

Register ==
  \/ \E k \in Key : AddMiddleware(k) \/ AddInterceptor(k)
  \/ \E p \in Protocol : SetHandler(p)

Process(r) ==
  \/ \E p \in Protocol : Begin(r, p) \/ RunHook(r, p)
  \/ MiddlewareDone(r) \/ MiddlewareFails(r)
  \/ \E q \in Key, ok \in BOOLEAN : DoHandler(r, q, ok)
  \/ NoHandler(r)
  \/ InterceptorsDone(r) \/ InterceptorFails(r)

Next == Register \/ \E r \in Request : Process(r)

Spec == Init /\ [][Next]_vars

-----------------------------------------------------------------------------
Ran(r, ph) == Cardinality({n \in DOMAIN ran[r] : ran[r][n].phase = ph})

Failed(r, phs) == \E n \in DOMAIN ran[r] : ran[r][n].phase \in phs /\ ~ran[r][n].ok

(* "The protocol specific code is called before the first middleware and   *)
(* after the last interceptor", every hook in the order of registration    *)
(* and none twice, whatever is registered meanwhile.                       *)
HooksInOrder ==
  \A r \in Request : \A m, n \in DOMAIN ran[r] :
    m < n =>
      \/ Rank(ran[r][m].phase) < Rank(ran[r][n].phase)
      \/ /\ ran[r][m].phase = ran[r][n].phase
         /\ ran[r][n].hook - ran[r][m].hook = n - m

(* Middleware that changes a message's protocol does not change which      *)
(* middleware and handler are selected; interceptors all have one key.     *)
SelectionStable ==
  \A r \in Request : \A n \in DOMAIN ran[r] :
    CASE ran[r][n].phase \in {"mwProto", "handler"} -> ran[r][n].key = protocol[r]
      [] ran[r][n].phase \in {"mwAll", "icAll"} -> ran[r][n].key = NoProtocol
      [] ran[r][n].phase = "icProto" ->
           \A m \in DOMAIN ran[r] :
             ran[r][m].phase = "icProto" => ran[r][m].key = ran[r][n].key

(* An error of a middleware keeps the message from all later middleware    *)
(* and the handler, an error of an interceptor the response from all later *)
(* interceptors; interceptors do see the responses that report errors.     *)
FirstErrorStops ==
  \A r \in Request : \A m, n \in DOMAIN ran[r] :
    m < n /\ ~ran[r][m].ok =>
      /\ ran[r][m].phase \notin {"icAll", "icProto"}
      /\ ran[r][n].phase \in {"icAll", "icProto"}

(* No hook is skipped: a published response without an error went through  *)
(* everything that was registered when its message arrived; with an error  *)
(* from the handler it still met all the middleware and interceptors.      *)
NoHookSkipped ==
  \A r \in Request :
    phase[r] = "published" =>
      /\ ~Failed(r, {"mwProto", "mwAll"}) =>
           /\ Ran(r, "mwProto") >= atSend[r].mwProto
           /\ Ran(r, "mwAll") >= atSend[r].mwAll
           /\ atSend[r].handler => Ran(r, "handler") = 1
      /\ ~Failed(r, {"icAll", "icProto"}) =>
           /\ Ran(r, "icAll") >= atSend[r].ic[NoProtocol]
           /\ Ran(r, "icProto") >= atSend[r].ic[key[r]]

(* A response leaves without an error only when the handler ran and no     *)
(* hook failed, in whichever order hooks failed and replaced errors.       *)
NoSilentFailure ==
  \A r \in Request :
    phase[r] = "published" /\ err[r] = {} =>
      /\ \A n \in DOMAIN ran[r] : ran[r][n].ok
      /\ Ran(r, "handler") = 1

(* "ErrorObserver [...] is called whenever a middlware or handler returns  *)
(* an error": every such error of a published response was observed.       *)
ObserverSeesErrors ==
  \A r \in Request :
    phase[r] = "published" /\ Failed(r, {"mwProto", "mwAll", "handler"})
      => observed[r] > 0

=============================================================================
