----------------------------- MODULE Dispatcher -----------------------------
(***************************************************************************)
(* The request/response dispatcher of x/router/dispatcher.go: callers of   *)
(* Exec and Broadcast push messages into a bounded pipe, a pool of workers *)
(* turns each into a response and pushes it, without waiting, into the     *)
(* outgoing queue, a second pool runs the interceptors and publishes to    *)
(* the broker, and the broker hands the response to every subscriber: the  *)
(* listener goroutine of each Exec and of each Subscribe.  What middleware,*)
(* handlers and interceptors do to one message is module DispatchHooks;    *)
(* here they only choose the protocol and ID a response leaves with.       *)
(* Definitions marked "Wrong" are not part of the dispatcher: they are the *)
(* bugs with which PROJECT.json shows that the properties can fail.        *)
(***************************************************************************)
EXTENDS Naturals, Sequences, FiniteSets

CONSTANTS
  Request,     \* calls of Exec and Broadcast, each with its message
  Watcher,     \* calls of Subscribe and Stream
  Protocol,    \* the nonzero protocols
  NoProtocol,  \* Protocol{}
  ID,          \* IDs that callers put into a message themselves
  Rewrite,     \* IDs that an interceptor may write into a response
  None,        \* no request
  Workers,     \* Config.Workers, after the constructor's minimum of one
  Buffer,      \* Config.Buffer; 0 is an unlimited outgoing queue
  Responders   \* the size of the pool that runs the interceptors

ASSUME DispatcherAssumption ==
  /\ Workers \in Nat \ {0}
  /\ Buffer \in Nat
  /\ Responders \in Nat \ {0}
  /\ Rewrite \subseteq ID
  /\ NoProtocol \notin Protocol
  /\ None \notin Request
  /\ Request \cap Watcher = {}
  /\ Request \cap ID = {}
  /\ IsFiniteSet(Request)

VARIABLES
  running,   \* isRunning is closed: the broker exists
  down,      \* the service's context is cancelled
  pipeOpen,  \* pipe has not been closed
  outOpen,   \* outgoing has not been closed
  poolUp,    \* the message pool has not stopped on an error
  call,      \* what each caller is doing
  mid,       \* the ID of each message
  mproto,    \* the protocol of each message
  pipe,      \* the Deque of accepted messages
  stage,     \* where each message, or its response, is
  handled,   \* how often each message went through the pool (history)
  outgoing,  \* the Queue of responses
  resp,      \* the response to each message
  subs,      \* the broker's subscribers
  pending,   \* subscribers that a response being dispatched has not reached
  match,     \* the response an Exec listener holds for its caller
  watch,     \* what each Subscribe goroutine is doing
  want,      \* the protocol each Subscribe filters on
  hold,      \* the response a Subscribe goroutine is sending to its channel
  stream,    \* the contents of each Subscribe channel
  seen       \* what the consumer of each Subscribe channel read (history)

service == <<running, down, pipeOpen, outOpen, poolUp>>
message == <<call, mid, mproto>>
broker  == <<subs, pending>>
watcher == <<watch, want, hold, stream, seen>>
vars == <<service, message, pipe, stage, handled, outgoing, resp, broker,
          match, watcher>>

CallState == {"idle", "sending", "waiting", "sent", "replied", "refused",
              "abandoned"}
Stage == {"new", "queued", "handling", "lost", "answered", "intercepting",
          "dispatching", "dispatched"}

At(s) == {r \in Request : stage[r] = s}

Init ==
  /\ running = FALSE /\ down = FALSE
  /\ pipeOpen = TRUE /\ outOpen = TRUE /\ poolUp = TRUE
  /\ call = [r \in Request |-> "idle"]
  /\ mid = [r \in Request |-> r]
  /\ mproto = [r \in Request |-> NoProtocol]
  /\ pipe = <<>> /\ outgoing = <<>>
  /\ stage = [r \in Request |-> "new"]
  /\ handled = [r \in Request |-> 0]
  /\ resp = [r \in Request |-> [id |-> r, proto |-> NoProtocol]]
  /\ subs = {}
  /\ pending = [r \in Request |-> {}]
  /\ match = [r \in Request |-> None]
  /\ watch = [w \in Watcher |-> "idle"]
  /\ want = [w \in Watcher |-> NoProtocol]
  /\ hold = [w \in Watcher |-> None]
  /\ stream = [w \in Watcher |-> <<>>]
  /\ seen = [w \in Watcher |-> <<>>]

-----------------------------------------------------------------------------
(* The callers.                                                            *)

(* Wrong: generated IDs that collide with those of other messages.         *)
PopulateIDsColliding(r) == ID \cup Request

(* populateID: the caller's own ID, or a new one when it left it empty.    *)
PopulateIDs(r) == ID \cup {r}

(* Wrong: the broker goes on waiting for a subscriber that has left.       *)
UnsubscribeLate(s) == subs' = subs \ {s} /\ UNCHANGED pending

Unsubscribe(s) ==
  /\ subs' = subs \ {s}
  /\ pending' = [q \in Request |-> pending[q] \ {s}]

(* Exec and Broadcast alike turn away a message that has no protocol.      *)
RejectNoProtocol(r) ==
  /\ call[r] = "idle"
  /\ call' = [call EXCEPT ![r] = "refused"]
  /\ UNCHANGED <<service, mid, mproto, pipe, stage, handled, outgoing, resp,
                 broker, match, watcher>>

(* Exec subscribes and starts its listener before it sends the message.    *)
ExecSubscribe(r, i, p) ==
  /\ running
  /\ call[r] = "idle"
  /\ call' = [call EXCEPT ![r] = "sending"]
  /\ mid' = [mid EXCEPT ![r] = i]
  /\ mproto' = [mproto EXCEPT ![r] = p]
  /\ subs' = subs \cup {r}
  /\ UNCHANGED <<service, pipe, stage, handled, outgoing, resp, pending,
                 match, watcher>>

(* Broadcast needs no broker, so it may also run before the service.       *)
Broadcast(r, i, p) ==
  /\ call[r] = "idle"
  /\ call' = [call EXCEPT ![r] = "sending"]
  /\ mid' = [mid EXCEPT ![r] = i]
  /\ mproto' = [mproto EXCEPT ![r] = p]
  /\ UNCHANGED <<service, pipe, stage, handled, outgoing, resp, broker,
                 match, watcher>>

(* WaitPushBack finds room: Exec goes on to wait, Broadcast returns.       *)
PushMessage(r) ==
  /\ call[r] = "sending"
  /\ pipeOpen
  /\ Len(pipe) < Workers
  /\ pipe' = Append(pipe, r)
  /\ stage' = [stage EXCEPT ![r] = "queued"]
  /\ call' = [call EXCEPT ![r] = IF r \in subs THEN "waiting" ELSE "sent"]
  /\ UNCHANGED <<service, mid, mproto, handled, outgoing, resp, broker, match,
                 watcher>>

(* Wrong: an accepted message is reported as not accepted.                 *)
RefuseAccepted(r) ==
  /\ call[r] \in {"sending", "waiting"}
  /\ call' = [call EXCEPT ![r] = "refused"]
  /\ Unsubscribe(r)
  /\ UNCHANGED <<service, mid, mproto, pipe, stage, handled, outgoing, resp,
                 match, watcher>>

(* WaitPushBack fails: the pipe is closed, or the caller's context ended.  *)
RefuseMessage(r) ==
  /\ call[r] = "sending"
  /\ call' = [call EXCEPT ![r] = "refused"]
  /\ Unsubscribe(r)
  /\ UNCHANGED <<service, mid, mproto, pipe, stage, handled, outgoing, resp,
                 match, watcher>>

PushRefused(r) == ~pipeOpen /\ RefuseMessage(r)

CancelSend(r) == pipeOpen /\ RefuseMessage(r)

(* Exec reads the listener's channel and returns the response.             *)
ExecReturn(r) ==
  /\ call[r] = "waiting"
  /\ match[r] # None
  /\ call' = [call EXCEPT ![r] = "replied"]
  /\ Unsubscribe(r)
  /\ UNCHANGED <<service, mid, mproto, pipe, stage, handled, outgoing, resp,
                 match, watcher>>

(* The caller's context ends while Exec waits, answered or not.            *)
CancelWait(r) ==
  /\ call[r] = "waiting"
  /\ call' = [call EXCEPT ![r] = "abandoned"]
  /\ Unsubscribe(r)
  /\ UNCHANGED <<service, mid, mproto, pipe, stage, handled, outgoing, resp,
                 match, watcher>>

-----------------------------------------------------------------------------
(* The message pool, the response pool and the broker.                     *)

StartBroker ==
  /\ ~running /\ ~down
  /\ running' = TRUE
  /\ UNCHANGED <<down, pipeOpen, outOpen, poolUp, message, pipe, stage,
                 handled, outgoing, resp, broker, match, watcher>>

(* Wrong: an iterator that leaves the message in the pipe.                 *)
PopAndKeep ==
  /\ poolUp /\ pipe # <<>>
  /\ Cardinality(At("handling")) < Workers
  /\ stage' = [stage EXCEPT ![Head(pipe)] = "handling"]
  /\ UNCHANGED <<service, message, pipe, handled, outgoing, resp, broker,
                 match, watcher>>

(* IteratorWaitPopFront gives the oldest message to a free worker.         *)
PopMessage ==
  /\ poolUp
  /\ pipe # <<>>
  /\ Cardinality(At("handling")) < Workers
  /\ stage' = [stage EXCEPT ![Head(pipe)] = "handling"]
  /\ pipe' = Tail(pipe)
  /\ UNCHANGED <<service, message, handled, outgoing, resp, broker, match,
                 watcher>>

(* The outgoing queue (external): below its soft quota it accepts, at the  *)
(* hard limit it refuses, in between that depends on the burst credit.     *)
MayAccept == outOpen /\ (Buffer = 0 \/ Len(outgoing) < Buffer + Workers)
MayRefuse == ~outOpen \/ (Buffer > 0 /\ Len(outgoing) >= Buffer)

(* Middleware and handler ran: the response has the message's ID, and its  *)
(* protocol unless the handler set another.                                *)
Handle(r, q) ==
  /\ stage[r] = "handling"
  /\ handled' = [handled EXCEPT ![r] = @ + 1]
  /\ resp' = [resp EXCEPT ![r] =
                [id |-> mid[r],
                 proto |-> IF q = NoProtocol THEN mproto[r] ELSE q]]
  /\ UNCHANGED <<running, down, pipeOpen, outOpen, message, pipe, broker,
                 match, watcher>>

(* outgoing.Push accepts the response.                                     *)
PushResponse(r, q) ==
  /\ MayAccept
  /\ Handle(r, q)
  /\ outgoing' = Append(outgoing, r)
  /\ stage' = [stage EXCEPT ![r] = "answered"]
  /\ UNCHANGED poolUp

(* Wrong: the worker drops the response and goes on.                       *)
LoseAndContinue(r, q) ==
  /\ MayRefuse
  /\ Handle(r, q)
  /\ stage' = [stage EXCEPT ![r] = "lost"]
  /\ UNCHANGED <<poolUp, outgoing>>

(* outgoing.Push returns an error, which the worker returns in turn: the   *)
(* response is gone and the pool, run without ContinueOnError, stops.      *)
LoseResponse(r, q) ==
  /\ MayRefuse
  /\ Handle(r, q)
  /\ stage' = [stage EXCEPT ![r] = "lost"]
  /\ poolUp' = FALSE
  /\ UNCHANGED outgoing

TakeResponse ==
  /\ running
  /\ outgoing # <<>>
  /\ Cardinality(At("intercepting")) < Responders
  /\ stage' = [stage EXCEPT ![Head(outgoing)] = "intercepting"]
  /\ outgoing' = Tail(outgoing)
  /\ UNCHANGED <<service, message, pipe, handled, resp, broker, match,
                 watcher>>

(* The interceptors ran, and the broker (external: Workers dispatchers)    *)
(* accepts the response and sends it to those subscribed at that moment.   *)
Publish(r, i, q) ==
  /\ stage[r] = "intercepting"
  /\ Cardinality(At("dispatching")) < Workers
  /\ stage' = [stage EXCEPT ![r] = "dispatching"]
  /\ resp' = [resp EXCEPT ![r] = [id |-> i, proto |-> q]]
  /\ pending' = [pending EXCEPT ![r] = subs]
  /\ UNCHANGED <<service, message, pipe, handled, outgoing, subs, match,
                 watcher>>

(* Wrong: a listener that lets a later response replace its own.           *)
DeliverAgain(r, s) ==
  /\ s \in pending[r]
  /\ match' = [match EXCEPT ![s] = IF resp[r].id = mid[s] THEN r ELSE None]
  /\ pending' = [pending EXCEPT ![r] = @ \ {s}]
  /\ UNCHANGED <<service, message, pipe, stage, handled, outgoing, resp, subs,
                 watcher>>

(* Wrong: a listener that stops at the first response, whatever its ID.    *)
DeliverFirst(r, s) ==
  /\ s \in pending[r]
  /\ match[s] = None
  /\ match' = [match EXCEPT ![s] = IF resp[r].id = mid[s] THEN r ELSE None]
  /\ subs' = IF resp[r].id = mid[s] THEN subs ELSE subs \ {s}
  /\ pending' = [pending EXCEPT ![r] = @ \ {s}]
  /\ UNCHANGED <<service, message, pipe, stage, handled, outgoing, resp,
                 watcher>>

(* An Exec listener skips the responses to other messages and stops        *)
(* listening at the first one that carries its own ID.                     *)
DeliverToExec(r, s) ==
  /\ s \in pending[r]
  /\ match[s] = None
  /\ match' = [match EXCEPT ![s] = IF resp[r].id = mid[s] THEN r ELSE None]
  /\ pending' = [pending EXCEPT ![r] = @ \ {s}]
  /\ UNCHANGED <<service, message, pipe, stage, handled, outgoing, resp, subs,
                 watcher>>

(* A dispatcher of the broker is done once every subscriber has been served. *)
FinishDispatch(r) ==
  /\ stage[r] = "dispatching"
  /\ pending[r] = {}
  /\ stage' = [stage EXCEPT ![r] = "dispatched"]
  /\ UNCHANGED <<service, message, pipe, handled, outgoing, resp, broker,
                 match, watcher>>

-----------------------------------------------------------------------------
(* Subscribe and Stream.                                                   *)

(* Subscribe returns its channel at once; its goroutine subscribes later.  *)
Subscribe(w, p) ==
  /\ running
  /\ watch[w] = "idle"
  /\ watch' = [watch EXCEPT ![w] = "opening"]
  /\ want' = [want EXCEPT ![w] = p]
  /\ UNCHANGED <<service, message, pipe, stage, handled, outgoing, resp,
                 broker, match, hold, stream, seen>>

JoinBroker(w) ==
  /\ watch[w] = "opening"
  /\ watch' = [watch EXCEPT ![w] = "open"]
  /\ subs' = subs \cup {w}
  /\ UNCHANGED <<service, message, pipe, stage, handled, outgoing, resp,
                 pending, match, want, hold, stream, seen>>

Wanted(w, r) == want[w] = NoProtocol \/ resp[r].proto = want[w]

(* Wrong: every response passes the filter.                                *)
DeliverUnfiltered(r, w) ==
  /\ w \in pending[r]
  /\ hold[w] = None
  /\ hold' = [hold EXCEPT ![w] = r]
  /\ pending' = [pending EXCEPT ![r] = @ \ {w}]
  /\ UNCHANGED <<service, message, pipe, stage, handled, outgoing, resp, subs,
                 match, watch, want, stream, seen>>

DeliverToWatcher(r, w) ==
  /\ w \in pending[r]
  /\ hold[w] = None
  /\ hold' = [hold EXCEPT ![w] = IF Wanted(w, r) THEN r ELSE None]
  /\ pending' = [pending EXCEPT ![r] = @ \ {w}]
  /\ UNCHANGED <<service, message, pipe, stage, handled, outgoing, resp, subs,
                 match, watch, want, stream, seen>>

(* The goroutine blocks on its channel while the buffer is full.           *)
ForwardToStream(w) ==
  /\ watch[w] = "open"
  /\ hold[w] # None
  /\ Len(stream[w]) < Buffer
  /\ stream' = [stream EXCEPT ![w] = Append(@, hold[w])]
  /\ hold' = [hold EXCEPT ![w] = None]
  /\ UNCHANGED <<service, message, pipe, stage, handled, outgoing, resp,
                 broker, match, watch, want, seen>>

(* The consumer reads a buffered response, or meets the sender directly.   *)
ReadStream(w) ==
  /\ \/ /\ stream[w] # <<>>
        /\ seen' = [seen EXCEPT ![w] = Append(@, Head(stream[w]))]
        /\ stream' = [stream EXCEPT ![w] = Tail(@)]
        /\ UNCHANGED hold
     \/ /\ watch[w] = "open"
        /\ stream[w] = <<>>
        /\ hold[w] # None
        /\ seen' = [seen EXCEPT ![w] = Append(@, hold[w])]
        /\ hold' = [hold EXCEPT ![w] = None]
        /\ UNCHANGED stream
  /\ UNCHANGED <<service, message, pipe, stage, handled, outgoing, resp,
                 broker, match, watch, want>>

(* The consumer's context ends: unsubscribe, drop what is held, close.     *)
CloseStream(w) ==
  /\ watch[w] \in {"opening", "open"}
  /\ watch' = [watch EXCEPT ![w] = "closed"]
  /\ hold' = [hold EXCEPT ![w] = None]
  /\ Unsubscribe(w)
  /\ UNCHANGED <<service, message, pipe, stage, handled, outgoing, resp, match,
                 want, stream, seen>>

-----------------------------------------------------------------------------
(* Shutdown.                                                               *)

CancelService ==
  /\ ~down
  /\ down' = TRUE
  /\ UNCHANGED <<running, pipeOpen, outOpen, poolUp, message, pipe, stage,
                 handled, outgoing, resp, broker, match, watcher>>

(* The services' Shutdown and Cleanup hooks run when the context ends; the *)
(* one that closes the pipe also when the message pool has stopped.        *)
ClosePipe ==
  /\ pipeOpen
  /\ down \/ ~poolUp
  /\ pipeOpen' = FALSE
  /\ UNCHANGED <<running, down, outOpen, poolUp, message, pipe, stage, handled,
                 outgoing, resp, broker, match, watcher>>

CloseOutgoing ==
  /\ outOpen /\ down
  /\ outOpen' = FALSE
  /\ UNCHANGED <<running, down, pipeOpen, poolUp, message, pipe, stage,
                 handled, outgoing, resp, broker, match, watcher>>

-----------------------------------------------------------------------------
CallerStep(r) ==
  \/ RejectNoProtocol(r)
  \/ \E i \in PopulateIDs(r), p \in Protocol :
        ExecSubscribe(r, i, p) \/ Broadcast(r, i, p)
  \/ PushMessage(r) \/ PushRefused(r) \/ CancelSend(r)
  \/ ExecReturn(r) \/ CancelWait(r)

HandleStep(r) ==
  \E q \in Protocol \cup {NoProtocol} : PushResponse(r, q) \/ LoseResponse(r, q)

PublishStep(r) ==
  \E i \in {resp[r].id} \cup Rewrite, q \in {resp[r].proto} \cup Protocol :
    Publish(r, i, q)

ResponseStep(r) ==
  \/ HandleStep(r)
  \/ PublishStep(r)
  \/ \E s \in Request : DeliverToExec(r, s)
  \/ \E w \in Watcher : DeliverToWatcher(r, w)
  \/ FinishDispatch(r)

WatcherStep(w) ==
  \/ \E p \in Protocol \cup {NoProtocol} : Subscribe(w, p)
  \/ JoinBroker(w) \/ ForwardToStream(w) \/ ReadStream(w) \/ CloseStream(w)

ServiceStep ==
  \/ StartBroker \/ PopMessage \/ TakeResponse
  \/ CancelService \/ ClosePipe \/ CloseOutgoing

Next ==
  \/ \E r \in Request : CallerStep(r) \/ ResponseStep(r)
  \/ \E w \in Watcher : WatcherStep(w)
  \/ ServiceStep

(* Until the service is cancelled every goroutine that can go on does,     *)
(* middleware, handlers and interceptors return, consumers read; nobody    *)
(* has to call, cancel or shut down.                                       *)
Up(A) == ~down /\ A

Fairness ==
  /\ WF_vars(StartBroker)
  /\ WF_vars(Up(PopMessage))
  /\ WF_vars(Up(TakeResponse))
  /\ WF_vars(down /\ ClosePipe)
  /\ WF_vars(CloseOutgoing)
  /\ \A r \in Request :
       /\ WF_vars(PushMessage(r))
       /\ WF_vars(PushRefused(r))
       /\ WF_vars(ExecReturn(r))
       /\ WF_vars(HandleStep(r))
       /\ WF_vars(Up(PublishStep(r)))
       /\ WF_vars(Up(FinishDispatch(r)))
       /\ \A s \in Request : WF_vars(Up(DeliverToExec(r, s)))
       /\ \A w \in Watcher : WF_vars(Up(DeliverToWatcher(r, w)))
  /\ \A w \in Watcher :
       /\ WF_vars(JoinBroker(w))
       /\ WF_vars(ForwardToStream(w))
       /\ WF_vars(ReadStream(w))

Spec == Init /\ [][Next]_vars /\ Fairness

-----------------------------------------------------------------------------
(* The type of every variable.                                             *)
Types ==
  /\ running \in BOOLEAN /\ down \in BOOLEAN
  /\ pipeOpen \in BOOLEAN /\ outOpen \in BOOLEAN /\ poolUp \in BOOLEAN
  /\ call \in [Request -> CallState]
  /\ mid \in [Request -> ID \cup Request]
  /\ mproto \in [Request -> Protocol \cup {NoProtocol}]
  /\ pipe \in Seq(Request)
  /\ outgoing \in Seq(Request)
  /\ stage \in [Request -> Stage]
  /\ handled \in [Request -> Nat]
  /\ resp \in [Request -> [id : ID \cup Request,
                           proto : Protocol \cup {NoProtocol}]]
  /\ subs \subseteq Request \cup Watcher
  /\ pending \in [Request -> SUBSET (Request \cup Watcher)]
  /\ match \in [Request -> Request \cup {None}]
  /\ watch \in [Watcher -> {"idle", "opening", "open", "closed"}]
  /\ want \in [Watcher -> Protocol \cup {NoProtocol}]
  /\ hold \in [Watcher -> Request \cup {None}]
  /\ stream \in [Watcher -> Seq(Request)]
  /\ seen \in [Watcher -> Seq(Request)]

(* The capacities of the pipe, the outgoing queue and the two pools.        *)
Bounds ==
  /\ Len(pipe) <= Workers
  /\ Buffer > 0 => Len(outgoing) <= Buffer + Workers
  /\ Cardinality(At("handling")) <= Workers
  /\ Cardinality(At("intercepting")) <= Responders

(* Every variable keeps its type and every queue and pool its capacity.    *)
TypeOK == Types /\ Bounds

(* No message goes through the pool twice, however the workers, the        *)
(* callers that give up and a pool that stops interleave.                  *)
HandledAtMostOnce == \A r \in Request : handled[r] <= 1

(* An error from Exec or Broadcast before the wait means the message was   *)
(* not accepted: it is never processed later.                              *)
RefusedNeverHandled == \A r \in Request : call[r] = "refused" => handled[r] = 0

(* No lost response: once the broker has dispatched the response to a      *)
(* message, an Exec that still waits for that ID holds a response.  It is  *)
(* why Exec subscribes and starts its listener before it sends.            *)
NoLostResponse ==
  \A r \in Request :
    call[r] = "waiting" /\ stage[r] = "dispatched" /\ resp[r].id = mid[r]
      => match[r] # None

(* Exec returns a response with its message's ID; one whose ID the         *)
(* dispatcher generated is the response to that very message.              *)
CorrelatedReply ==
  \A r \in Request :
    call[r] = "replied" =>
      /\ resp[match[r]].id = mid[r]
      /\ handled[match[r]] = 1
      /\ mid[r] = r => match[r] = r

(* A full outgoing queue stops the message pool, and no more responses are *)
(* lost than there were workers.                                           *)
BoundedLoss ==
  /\ Cardinality(At("lost")) <= Workers
  /\ poolUp => At("lost") = {}

(* With an unlimited outgoing queue only closing it can stop the pool.     *)
UnlimitedNeverStops == Buffer = 0 /\ outOpen => poolUp

(* Everything on its way to a Subscribe consumer passed the filter, and    *)
(* reaches the consumer at most once.                                      *)
ToConsumer(w) ==
  seen[w] \o stream[w] \o IF hold[w] = None THEN <<>> ELSE <<hold[w]>>

StreamFilteredOnce ==
  \A w \in Watcher :
    \A i, j \in DOMAIN ToConsumer(w) :
      /\ Wanted(w, ToConsumer(w)[i])
      /\ ToConsumer(w)[i] = ToConsumer(w)[j] => i = j

(* An Exec that waits returns, unless the service is cancelled or a full   *)
(* outgoing queue stopped the message pool.                                *)
ExecAnswered ==
  \A r \in Request :
    call[r] = "waiting" ~> (call[r] # "waiting" \/ down \/ ~poolUp)

(* "The error reflects errors processing the message (e.g. an invalid      *)
(* message, canceled context, or the dispatcher shutting down.)"           *)
ShutdownReachesCallers ==
  \A r \in Request : (call[r] = "waiting" /\ down) ~> call[r] # "waiting"

-----------------------------------------------------------------------------
(* What a user of the dispatcher sees, when no interceptor changes an ID.  *)
OutcomeOf == [idle |-> "none", sending |-> "pending", waiting |-> "pending",
              sent |-> "sent", replied |-> "replied", refused |-> "refused",
              abandoned |-> "abandoned"]

RR == INSTANCE RequestReply WITH
  outcome <- [r \in Request |-> OutcomeOf[call[r]]],
  key <- mid,
  served <- {r \in Request : handled[r] > 0},
  from <- [r \in Request |-> IF call[r] = "replied" THEN match[r] ELSE None]

(* The dispatcher implements RequestReply.                                 *)
ImplementsRequestReply == RR!Spec

=============================================================================
