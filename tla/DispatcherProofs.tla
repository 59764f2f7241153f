-------------------------- MODULE DispatcherProofs --------------------------
(***************************************************************************)
(* Proofs about Dispatcher for any number of callers, subscribers, workers *)
(* and any buffer.                                                         *)
(***************************************************************************)
EXTENDS Dispatcher, SequenceTheorems, FiniteSetTheorems, TLAPS

(* The types hold initially.                                               *)
LEMMA InitTypes == Init => Types
<1> SUFFICES ASSUME Init PROVE Types
  OBVIOUS
<1>1. <<>> \in Seq(Request)
  OBVIOUS
<1>2. /\ running \in BOOLEAN /\ down \in BOOLEAN
      /\ pipeOpen \in BOOLEAN /\ outOpen \in BOOLEAN /\ poolUp \in BOOLEAN
  BY DEF Init
<1>3. /\ call \in [Request -> CallState]
      /\ stage \in [Request -> Stage]
      /\ handled \in [Request -> Nat]
  BY DEF Init, CallState, Stage
<1>4. /\ mid \in [Request -> ID \cup Request]
      /\ mproto \in [Request -> Protocol \cup {NoProtocol}]
      /\ match \in [Request -> Request \cup {None}]
      /\ pending \in [Request -> SUBSET (Request \cup Watcher)]
      /\ resp \in [Request -> [id : ID \cup Request,
                               proto : Protocol \cup {NoProtocol}]]
  BY DEF Init
<1>5. /\ watch \in [Watcher -> {"idle", "opening", "open", "closed"}]
      /\ want \in [Watcher -> Protocol \cup {NoProtocol}]
      /\ hold \in [Watcher -> Request \cup {None}]
      /\ stream \in [Watcher -> Seq(Request)]
      /\ seen \in [Watcher -> Seq(Request)]
  BY <1>1 DEF Init
<1>6. subs \subseteq Request \cup Watcher
  BY DEF Init
<1> QED
  BY <1>1, <1>2, <1>3, <1>4, <1>5, <1>6 DEF Init, Types

(* Leaving the broker keeps the types of its sets.                         *)
LEMMA UnsubscribeTypes ==
  ASSUME Types, NEW s, Unsubscribe(s)
  PROVE  /\ subs' \subseteq Request \cup Watcher
         /\ pending' \in [Request -> SUBSET (Request \cup Watcher)]
<1>1. \A q \in Request : pending[q] \ {s} \in SUBSET (Request \cup Watcher)
  BY DEF Types
<1>2. QED
  BY <1>1 DEF Types, Unsubscribe

(* Every step of Exec and Broadcast keeps the types.                       *)
LEMMA CallerTypes ==
  ASSUME Types, NEW r \in Request, CallerStep(r)
  PROVE  Types'
<1> USE DEF Types, service, message, broker, watcher, CallState, Stage
<1>1. CASE RejectNoProtocol(r)
  BY <1>1 DEF RejectNoProtocol
<1>2. ASSUME NEW i \in PopulateIDs(r), NEW p \in Protocol,
             ExecSubscribe(r, i, p)
      PROVE  Types'
  BY <1>2 DEF ExecSubscribe, PopulateIDs
<1>3. ASSUME NEW i \in PopulateIDs(r), NEW p \in Protocol, Broadcast(r, i, p)
      PROVE  Types'
  BY <1>3 DEF Broadcast, PopulateIDs
<1>4. CASE PushMessage(r)
  <2>1. Append(pipe, r) \in Seq(Request)
    BY AppendProperties
  <2>2. QED
    BY <1>4, <2>1 DEF PushMessage
<1>5. CASE PushRefused(r) \/ CancelSend(r)
  <2>1. RefuseMessage(r)
    BY <1>5 DEF PushRefused, CancelSend
  <2>2. QED
    BY <2>1, UnsubscribeTypes DEF RefuseMessage
<1>6. CASE ExecReturn(r)
  BY <1>6, UnsubscribeTypes DEF ExecReturn
<1>7. CASE CancelWait(r)
  BY <1>7, UnsubscribeTypes DEF CancelWait
<1>8. QED
  BY <1>1, <1>2, <1>3, <1>4, <1>5, <1>6, <1>7 DEF CallerStep

(* Every step of a message, or of its response, keeps the types.           *)
LEMMA ResponseTypes ==
  ASSUME Types, NEW r \in Request, ResponseStep(r)
  PROVE  Types'
<1> USE DEF Types, service, message, broker, watcher, Stage
<1>1. ASSUME NEW q \in Protocol \cup {NoProtocol}, Handle(r, q)
      PROVE  /\ handled' \in [Request -> Nat]
             /\ resp' \in [Request -> [id : ID \cup Request,
                                       proto : Protocol \cup {NoProtocol}]]
             /\ running' \in BOOLEAN /\ down' \in BOOLEAN
             /\ pipeOpen' \in BOOLEAN /\ outOpen' \in BOOLEAN
             /\ UNCHANGED <<message, pipe, broker, match, watcher>>
  BY <1>1 DEF Handle
<1>2. ASSUME NEW q \in Protocol \cup {NoProtocol}, PushResponse(r, q)
      PROVE  Types'
  <2>1. Append(outgoing, r) \in Seq(Request)
    BY AppendProperties
  <2>2. QED
    BY <1>1, <1>2, <2>1 DEF PushResponse
<1>3. ASSUME NEW q \in Protocol \cup {NoProtocol}, LoseResponse(r, q)
      PROVE  Types'
  BY <1>1, <1>3 DEF LoseResponse
<1>4. ASSUME NEW i \in {resp[r].id} \cup Rewrite,
             NEW q \in {resp[r].proto} \cup Protocol, Publish(r, i, q)
      PROVE  Types'
  <2>1. /\ i \in ID \cup Request
        /\ q \in Protocol \cup {NoProtocol}
    BY DispatcherAssumption
  <2>2. QED
    BY <1>4, <2>1 DEF Publish
<1>5. ASSUME NEW s \in Request, DeliverToExec(r, s)
      PROVE  Types'
  BY <1>5 DEF DeliverToExec
<1>6. ASSUME NEW w \in Watcher, DeliverToWatcher(r, w)
      PROVE  Types'
  BY <1>6 DEF DeliverToWatcher
<1>7. CASE FinishDispatch(r)
  BY <1>7 DEF FinishDispatch
<1>8. QED
  BY <1>2, <1>3, <1>4, <1>5, <1>6, <1>7
     DEF ResponseStep, HandleStep, PublishStep

(* Every step of Subscribe and of its consumer keeps the types.            *)
LEMMA WatcherTypes ==
  ASSUME Types, NEW w \in Watcher, WatcherStep(w)
  PROVE  Types'
<1> USE DEF Types, service, message, broker, watcher
<1>1. ASSUME NEW p \in Protocol \cup {NoProtocol}, Subscribe(w, p)
      PROVE  Types'
  BY <1>1 DEF Subscribe
<1>2. CASE JoinBroker(w)
  BY <1>2 DEF JoinBroker
<1>3. CASE ForwardToStream(w)
  <2>1. hold[w] \in Request
    BY <1>3 DEF ForwardToStream
  <2>2. Append(stream[w], hold[w]) \in Seq(Request)
    BY <2>1, AppendProperties
  <2>3. QED
    BY <1>3, <2>2 DEF ForwardToStream
<1>4. CASE ReadStream(w)
  <2>1. CASE stream[w] # <<>>
    <3>1. /\ Head(stream[w]) \in Request
          /\ Tail(stream[w]) \in Seq(Request)
      BY <2>1, HeadTailProperties
    <3>2. Append(seen[w], Head(stream[w])) \in Seq(Request)
      BY <3>1, AppendProperties
    <3>3. /\ seen' = [seen EXCEPT ![w] = Append(@, Head(stream[w]))]
          /\ stream' = [stream EXCEPT ![w] = Tail(@)]
          /\ UNCHANGED <<service, message, pipe, stage, handled, outgoing,
                         resp, broker, match, watch, want, hold>>
      BY <1>4, <2>1 DEF ReadStream
    <3>4. QED
      BY <3>1, <3>2, <3>3
  <2>2. CASE stream[w] = <<>>
    <3>1. hold[w] \in Request
      BY <1>4, <2>2 DEF ReadStream
    <3>2. Append(seen[w], hold[w]) \in Seq(Request)
      BY <3>1, AppendProperties
    <3>3. /\ seen' = [seen EXCEPT ![w] = Append(@, hold[w])]
          /\ hold' = [hold EXCEPT ![w] = None]
          /\ UNCHANGED <<service, message, pipe, stage, handled, outgoing,
                         resp, broker, match, watch, want, stream>>
      BY <1>4, <2>2 DEF ReadStream
    <3>4. QED
      BY <3>2, <3>3
  <2>3. QED
    BY <2>1, <2>2
<1>5. CASE CloseStream(w)
  BY <1>5, UnsubscribeTypes DEF CloseStream
<1>6. QED
  BY <1>1, <1>2, <1>3, <1>4, <1>5 DEF WatcherStep

(* Starting, popping and shutting down keep the types.                     *)
LEMMA ServiceTypes ==
  ASSUME Types, ServiceStep
  PROVE  Types'
<1> USE DEF Types, service, message, broker, watcher, Stage
<1>1. CASE StartBroker
  BY <1>1 DEF StartBroker
<1>2. CASE PopMessage
  <2>1. Tail(pipe) \in Seq(Request)
    BY <1>2, HeadTailProperties DEF PopMessage
  <2>2. QED
    BY <1>2, <2>1 DEF PopMessage
<1>3. CASE TakeResponse
  <2>1. Tail(outgoing) \in Seq(Request)
    BY <1>3, HeadTailProperties DEF TakeResponse
  <2>2. QED
    BY <1>3, <2>1 DEF TakeResponse
<1>4. CASE CancelService
  BY <1>4 DEF CancelService
<1>5. CASE ClosePipe
  BY <1>5 DEF ClosePipe
<1>6. CASE CloseOutgoing
  BY <1>6 DEF CloseOutgoing
<1>7. QED
  BY <1>1, <1>2, <1>3, <1>4, <1>5, <1>6 DEF ServiceStep

(* Every step keeps the types.                                             *)
LEMMA NextTypes == Types /\ [Next]_vars => Types'
<1> SUFFICES ASSUME Types, [Next]_vars PROVE Types'
  OBVIOUS
<1>1. CASE UNCHANGED vars
  BY <1>1 DEF Types, vars, service, message, broker, watcher
<1>2. QED
  BY <1>1, CallerTypes, ResponseTypes, WatcherTypes, ServiceTypes DEF Next

-----------------------------------------------------------------------------
(* The inductive invariant.  A message is in the pipe or in the outgoing   *)
(* queue at most once, and only while its stage says so.                   *)
Holds(q, s) ==
  /\ \A k \in 1..Len(q) : stage[q[k]] = s
  /\ \A k, l \in 1..Len(q) : q[k] = q[l] => k = l

QueueInv == Holds(pipe, "queued") /\ Holds(outgoing, "answered")

(* A message has a place from the moment it is accepted, not before.       *)
StageInv ==
  \A r \in Request :
    call[r] \in {"idle", "sending", "refused"} <=> stage[r] = "new"

HandledInv ==
  \A r \in Request :
    handled[r] = IF stage[r] \in {"new", "queued", "handling"} THEN 0 ELSE 1

(* Exec is subscribed while it waits; nobody idle or done is subscribed,   *)
(* and the broker still has to serve only current subscribers.             *)
SubsInv ==
  /\ \A r \in Request :
       /\ r \in subs => call[r] \in {"sending", "waiting"}
       /\ call[r] = "waiting" => r \in subs
  /\ \A r \in Request : pending[r] \subseteq subs
  /\ \A r \in Request : pending[r] # {} => stage[r] = "dispatching"

(* Of the IDs a message or its response may have, those that no caller     *)
(* chose belong to one request only.                                       *)
IdInv ==
  \A r \in Request : mid[r] \in ID \cup {r} /\ resp[r].id \in ID \cup {r}

(* A listener holds only what carries its ID and has been published.       *)
MatchInv ==
  \A r \in Request :
    /\ match[r] # None =>
         /\ resp[match[r]].id = mid[r]
         /\ stage[match[r]] \in {"dispatching", "dispatched"}
         /\ call[r] # "idle"
    /\ call[r] = "replied" => match[r] # None

(* A published answer is with its caller's listener or about to be.        *)
AnswerInv ==
  \A r \in Request :
    /\ call[r] = "waiting"
    /\ stage[r] \in {"dispatching", "dispatched"}
    /\ resp[r].id = mid[r]
    => match[r] # None \/ r \in pending[r]

IInv ==
  /\ Types /\ QueueInv /\ StageInv /\ HandledInv /\ SubsInv /\ IdInv
  /\ MatchInv /\ AnswerInv

(* The inductive invariant holds initially.                                *)
LEMMA InitIInv == Init => IInv
<1> SUFFICES ASSUME Init PROVE IInv
  OBVIOUS
<1>1. Types
  BY InitTypes
<1>2. QueueInv
  BY DEF Init, QueueInv, Holds
<1>3. StageInv /\ HandledInv /\ SubsInv /\ IdInv /\ MatchInv /\ AnswerInv
  BY DEF Init, StageInv, HandledInv, SubsInv, IdInv, MatchInv, AnswerInv
<1>4. QED
  BY <1>1, <1>2, <1>3 DEF IInv

(* What the callers change: the messages, the pipe, and the subscriptions. *)
LEMMA CallerFrame ==
  ASSUME NEW r \in Request, CallerStep(r)
  PROVE  /\ UNCHANGED <<service, handled, outgoing, resp, match, watcher>>
         /\ ~PushMessage(r) => UNCHANGED <<pipe, stage>>
<1> USE DEF service, watcher
<1>1. CASE RejectNoProtocol(r)
  BY <1>1 DEF RejectNoProtocol
<1>2. ASSUME NEW i \in PopulateIDs(r), NEW p \in Protocol,
             ExecSubscribe(r, i, p) \/ Broadcast(r, i, p)
      PROVE  UNCHANGED <<service, handled, outgoing, resp, match, watcher,
                         pipe, stage>>
  BY <1>2 DEF ExecSubscribe, Broadcast
<1>3. CASE PushMessage(r)
  BY <1>3 DEF PushMessage
<1>4. CASE PushRefused(r) \/ CancelSend(r)
  BY <1>4 DEF PushRefused, CancelSend, RefuseMessage
<1>5. CASE ExecReturn(r) \/ CancelWait(r)
  BY <1>5 DEF ExecReturn, CancelWait
<1>6. QED
  BY <1>1, <1>2, <1>3, <1>4, <1>5 DEF CallerStep

(* Subscribers other than Exec change nothing about the messages.          *)
LEMMA WatcherFrame ==
  ASSUME Types, NEW w \in Watcher, WatcherStep(w)
  PROVE  /\ UNCHANGED <<service, message, pipe, stage, handled, outgoing, resp,
                        match>>
         /\ \A r \in Request : pending'[r] \in {pending[r], pending[r] \ {w}}
         /\ \/ UNCHANGED pending /\ subs' \in {subs, subs \cup {w}}
            \/ Unsubscribe(w)
<1>1. ASSUME NEW p \in Protocol \cup {NoProtocol}, Subscribe(w, p)
      PROVE  UNCHANGED <<service, message, pipe, stage, handled, outgoing,
                         resp, match, subs, pending>>
  BY <1>1 DEF Subscribe, broker
<1>2. CASE JoinBroker(w)
  BY <1>2 DEF JoinBroker, service, message
<1>3. CASE ForwardToStream(w) \/ ReadStream(w)
  BY <1>3 DEF ForwardToStream, ReadStream, service, message, broker
<1>4. CASE CloseStream(w)
  BY <1>4 DEF CloseStream, Unsubscribe, service, message
<1>5. QED
  BY <1>1, <1>2, <1>3, <1>4 DEF WatcherStep

(* What the steps of the services leave alone.                             *)
LEMMA ServiceFrame ==
  ASSUME ServiceStep
  PROVE  /\ UNCHANGED <<message, handled, resp, broker, match, watcher>>
         /\ ~PopMessage => UNCHANGED pipe
         /\ ~TakeResponse => UNCHANGED outgoing
         /\ ~PopMessage /\ ~TakeResponse => UNCHANGED stage
  BY DEF ServiceStep, StartBroker, PopMessage, TakeResponse, CancelService,
         ClosePipe, CloseOutgoing, message, broker, watcher

(* Adding a new element, taking the head, and moving others: what happens  *)
(* to a queue whose elements are exactly of one stage.                     *)
LEMMA HoldsAppend ==
  ASSUME Types, NEW q \in Seq(Request), NEW r \in Request, NEW s,
         Holds(q, s), stage[r] # s, s \in Stage,
         stage' = [stage EXCEPT ![r] = s]
  PROVE  /\ \A k \in 1..Len(Append(q, r)) : stage'[Append(q, r)[k]] = s
         /\ \A k, l \in 1..Len(Append(q, r)) :
              Append(q, r)[k] = Append(q, r)[l] => k = l
<1>1. /\ Len(Append(q, r)) = Len(q) + 1
      /\ \A k \in 1..Len(q) : Append(q, r)[k] = q[k] /\ q[k] \in Request
      /\ Append(q, r)[Len(q) + 1] = r
      /\ Len(q) \in Nat
  BY AppendProperties, ElementOfSeq, LenProperties
<1>2. \A k \in 1..Len(q) : q[k] # r
  BY DEF Holds
<1>3. \A k \in 1..Len(Append(q, r)) : k \in 1..Len(q) \/ k = Len(q) + 1
  BY <1>1
<1>4. \A k \in 1..Len(Append(q, r)) : stage'[Append(q, r)[k]] = s
  BY <1>1, <1>3 DEF Holds, Types
<1>5. \A k, l \in 1..Len(Append(q, r)) :
         Append(q, r)[k] = Append(q, r)[l] => k = l
  BY <1>1, <1>2, <1>3 DEF Holds
<1>6. QED
  BY <1>4, <1>5

(* Popping a queue without duplicates takes out its head alone.            *)
LEMMA HoldsTail ==
  ASSUME Types, NEW q \in Seq(Request), q # <<>>, NEW s, NEW t \in Stage,
         Holds(q, s), stage' = [stage EXCEPT ![Head(q)] = t]
  PROVE  /\ \A k \in 1..Len(Tail(q)) : stage'[Tail(q)[k]] = s
         /\ \A k, l \in 1..Len(Tail(q)) : Tail(q)[k] = Tail(q)[l] => k = l
<1>1. /\ Len(q) \in Nat \ {0}
      /\ Len(Tail(q)) = Len(q) - 1
      /\ \A k \in 1..Len(Tail(q)) :
           Tail(q)[k] = q[k + 1] /\ k + 1 \in 1..Len(q) /\ q[k+1] \in Request
  BY HeadTailProperties, EmptySeq, ElementOfSeq
<1>2. Head(q) = q[1] /\ 1 \in 1..Len(q)
  BY <1>1
<1>3. \A k \in 1..Len(Tail(q)) : q[k + 1] # Head(q)
  BY <1>1, <1>2 DEF Holds
<1>4. \A k \in 1..Len(Tail(q)) : stage'[Tail(q)[k]] = s
  BY <1>1, <1>3 DEF Holds, Types
<1>5. \A k, l \in 1..Len(Tail(q)) : Tail(q)[k] = Tail(q)[l] => k = l
  BY <1>1 DEF Holds
<1>6. QED
  BY <1>4, <1>5

(* A message at another stage is in neither queue.                         *)
LEMMA HoldsOther ==
  ASSUME Types, NEW q \in Seq(Request), NEW r \in Request, NEW s, NEW t,
         Holds(q, s), stage[r] # s, stage' = [stage EXCEPT ![r] = t]
  PROVE  \A k \in 1..Len(q) : stage'[q[k]] = s
<1>1. \A k \in 1..Len(q) : q[k] \in Request /\ q[k] # r
  BY ElementOfSeq DEF Holds
<1>2. QED
  BY <1>1 DEF Holds, Types

(* Every step keeps both queues in line with the stages.                   *)
LEMMA QueueStep ==
  ASSUME IInv, [Next]_vars
  PROVE  QueueInv'
<1> Types /\ QueueInv /\ StageInv
  BY DEF IInv
<1>1. CASE UNCHANGED <<pipe, outgoing, stage>>
  BY <1>1 DEF QueueInv, Holds
<1>2. ASSUME NEW r \in Request, PushMessage(r)
      PROVE  QueueInv'
  <2>1. /\ stage[r] = "new"
        /\ pipe' = Append(pipe, r) /\ outgoing' = outgoing
        /\ stage' = [stage EXCEPT ![r] = "queued"]
    BY <1>2 DEF PushMessage, StageInv
  <2>2. Holds(pipe, "queued")'
    BY <2>1, HoldsAppend DEF QueueInv, Types, Holds, Stage
  <2>3. Holds(outgoing, "answered")'
    BY <2>1, HoldsOther DEF QueueInv, Types, Holds
  <2>4. QED
    BY <2>2, <2>3 DEF QueueInv
<1>3. CASE PopMessage
  <2>1. /\ pipe # <<>> /\ pipe' = Tail(pipe) /\ outgoing' = outgoing
        /\ stage' = [stage EXCEPT ![Head(pipe)] = "handling"]
    BY <1>3 DEF PopMessage
  <2>2. Holds(pipe, "queued")'
    <3>1. pipe \in Seq(Request) /\ "handling" \in Stage /\ Holds(pipe, "queued")
      BY DEF QueueInv, Types, Stage
    <3>2. /\ \A k \in 1..Len(Tail(pipe)) : stage'[Tail(pipe)[k]] = "queued"
          /\ \A k, l \in 1..Len(Tail(pipe)) : Tail(pipe)[k] = Tail(pipe)[l] => k = l
      BY <2>1, <3>1, HoldsTail
    <3> QED BY <2>1, <3>2 DEF Holds
  <2>3. Head(pipe) \in Request /\ stage[Head(pipe)] = "queued"
    BY <2>1, HeadTailProperties DEF QueueInv, Types, Holds
  <2>4. Holds(outgoing, "answered")'
    BY <2>1, <2>3, HoldsOther DEF QueueInv, Types, Holds
  <2>5. QED
    BY <2>2, <2>4 DEF QueueInv
<1>4. CASE TakeResponse
  <2>1. /\ outgoing # <<>> /\ outgoing' = Tail(outgoing) /\ pipe' = pipe
        /\ stage' = [stage EXCEPT ![Head(outgoing)] = "intercepting"]
    BY <1>4 DEF TakeResponse
  <2>2. Holds(outgoing, "answered")'
    <3>1. /\ Holds(outgoing, "answered") /\ outgoing \in Seq(Request)
          /\ "intercepting" \in Stage
      BY DEF QueueInv, Types, Stage
    <3>2. /\ \A k \in 1..Len(Tail(outgoing)) :
               stage'[Tail(outgoing)[k]] = "answered"
          /\ \A k, l \in 1..Len(Tail(outgoing)) :
               Tail(outgoing)[k] = Tail(outgoing)[l] => k = l
      BY <2>1, <3>1, HoldsTail
    <3>3. QED
      BY <2>1, <3>2 DEF Holds
  <2>3. Head(outgoing) \in Request /\ stage[Head(outgoing)] = "answered"
    BY <2>1, HeadTailProperties DEF QueueInv, Types, Holds
  <2>4. Holds(pipe, "queued")'
    BY <2>1, <2>3, HoldsOther DEF QueueInv, Types, Holds
  <2>5. QED
    BY <2>2, <2>4 DEF QueueInv
<1>5. ASSUME NEW r \in Request, NEW q, PushResponse(r, q)
      PROVE  QueueInv'
  <2>1. /\ stage[r] = "handling"
        /\ outgoing' = Append(outgoing, r) /\ pipe' = pipe
        /\ stage' = [stage EXCEPT ![r] = "answered"]
    BY <1>5 DEF PushResponse, Handle
  <2>2. Holds(outgoing, "answered")'
    <3>1. Holds(outgoing, "answered") /\ outgoing \in Seq(Request)
      BY DEF QueueInv, Types
    <3>2. stage[r] # "answered" /\ "answered" \in Stage
      BY <2>1 DEF Stage
    <3>3. /\ \A k \in 1..Len(Append(outgoing, r)) :
               stage'[Append(outgoing, r)[k]] = "answered"
          /\ \A k, l \in 1..Len(Append(outgoing, r)) :
               Append(outgoing, r)[k] = Append(outgoing, r)[l] => k = l
      BY <2>1, <3>1, <3>2, HoldsAppend
    <3>4. QED
      BY <2>1, <3>3 DEF Holds
  <2>3. Holds(pipe, "queued")'
    BY <2>1, HoldsOther DEF QueueInv, Types, Holds
  <2>4. QED
    BY <2>2, <2>3 DEF QueueInv
<1>6. ASSUME NEW r \in Request, stage[r] # "queued", stage[r] # "answered",
             NEW t, stage' = [stage EXCEPT ![r] = t],
             pipe' = pipe, outgoing' = outgoing
      PROVE  QueueInv'
  <2>1. pipe \in Seq(Request) /\ outgoing \in Seq(Request)
    BY DEF Types
  <2>3. /\ \A k \in 1..Len(pipe) : stage'[pipe[k]] = "queued"
        /\ \A k \in 1..Len(outgoing) : stage'[outgoing[k]] = "answered"
    BY <1>6, <2>1, HoldsOther DEF QueueInv
  <2>4. QED
    BY <1>6, <2>3 DEF QueueInv, Holds
<1>7. ASSUME NEW r \in Request, ResponseStep(r)
      PROVE  QueueInv'
  <2>1. ASSUME NEW q, LoseResponse(r, q)
        PROVE  QueueInv'
    <3>1. /\ stage[r] = "handling" /\ stage' = [stage EXCEPT ![r] = "lost"]
          /\ pipe' = pipe /\ outgoing' = outgoing
      BY <2>1 DEF LoseResponse, Handle
    <3>2. QED
      BY <1>6, <3>1
  <2>2. ASSUME NEW i, NEW q, Publish(r, i, q)
        PROVE  QueueInv'
    <3>1. /\ stage[r] = "intercepting"
          /\ stage' = [stage EXCEPT ![r] = "dispatching"]
          /\ pipe' = pipe /\ outgoing' = outgoing
      BY <2>2 DEF Publish
    <3>2. QED
      BY <1>6, <3>1
  <2>3. CASE FinishDispatch(r)
    <3>1. /\ stage[r] = "dispatching"
          /\ stage' = [stage EXCEPT ![r] = "dispatched"]
          /\ pipe' = pipe /\ outgoing' = outgoing
      BY <2>3 DEF FinishDispatch
    <3>2. QED
      BY <1>6, <3>1
  <2>4. ASSUME NEW s, DeliverToExec(r, s) \/ DeliverToWatcher(r, s)
        PROVE  QueueInv'
    BY <1>1, <2>4 DEF DeliverToExec, DeliverToWatcher
  <2>5. QED
    BY <1>5, <1>7, <2>1, <2>2, <2>3, <2>4
       DEF ResponseStep, HandleStep, PublishStep
<1>8. ASSUME NEW r \in Request, CallerStep(r)
      PROVE  QueueInv'
  BY <1>1, <1>2, <1>8, CallerFrame
<1>9. ASSUME NEW w \in Watcher, WatcherStep(w)
      PROVE  QueueInv'
  BY <1>1, <1>9, WatcherFrame
<1>10. CASE ServiceStep
  BY <1>1, <1>3, <1>4, <1>10, ServiceFrame
<1>11. CASE UNCHANGED vars
  BY <1>1, <1>11 DEF vars
<1>12. QED
  BY <1>7, <1>8, <1>9, <1>10, <1>11 DEF Next

Rest == StageInv /\ HandledInv /\ SubsInv /\ IdInv /\ MatchInv /\ AnswerInv

(* Callers keep the remaining parts of the invariant.                      *)
LEMMA CallerStepRest ==
  ASSUME IInv, NEW r \in Request, CallerStep(r)
  PROVE  Rest'
<1> Types /\ Rest
  BY DEF IInv, Rest
<1> USE DispatcherAssumption DEF Rest, StageInv, HandledInv, SubsInv, IdInv,
      MatchInv, AnswerInv, Types, service, broker, watcher, Unsubscribe
<1>1. CASE RejectNoProtocol(r)
  BY <1>1 DEF RejectNoProtocol
<1>2. ASSUME NEW i \in PopulateIDs(r), NEW p \in Protocol,
             ExecSubscribe(r, i, p)
      PROVE  Rest'
  BY <1>2 DEF ExecSubscribe, PopulateIDs
<1>3. ASSUME NEW i \in PopulateIDs(r), NEW p \in Protocol, Broadcast(r, i, p)
      PROVE  Rest'
  BY <1>3 DEF Broadcast, PopulateIDs
<1>4. CASE PushMessage(r)
  BY <1>4 DEF PushMessage
<1>5. CASE PushRefused(r) \/ CancelSend(r)
  <2>1. RefuseMessage(r)
    BY <1>5 DEF PushRefused, CancelSend
  <2>2. QED
    BY <2>1 DEF RefuseMessage
<1>6. CASE ExecReturn(r)
  BY <1>6 DEF ExecReturn
<1>7. CASE CancelWait(r)
  BY <1>7 DEF CancelWait
<1>8. QED
  BY <1>1, <1>2, <1>3, <1>4, <1>5, <1>6, <1>7 DEF CallerStep

(* Messages on their way keep them.                                        *)
LEMMA ResponseStepRest ==
  ASSUME IInv, NEW r \in Request, ResponseStep(r)
  PROVE  Rest'
<1> Types /\ Rest
  BY DEF IInv, Rest
<1> USE DispatcherAssumption DEF Rest, StageInv, HandledInv, SubsInv, IdInv,
      MatchInv, AnswerInv, Types, service, message, broker, watcher
<1>1. ASSUME NEW q \in Protocol \cup {NoProtocol}, PushResponse(r, q)
      PROVE  Rest'
  BY <1>1 DEF PushResponse, Handle
<1>2. ASSUME NEW q \in Protocol \cup {NoProtocol}, LoseResponse(r, q)
      PROVE  Rest'
  BY <1>2 DEF LoseResponse, Handle
<1>3. ASSUME NEW i \in {resp[r].id} \cup Rewrite,
             NEW q \in {resp[r].proto} \cup Protocol, Publish(r, i, q)
      PROVE  Rest'
  BY <1>3 DEF Publish
<1>4. ASSUME NEW s \in Request, DeliverToExec(r, s)
      PROVE  Rest'
  BY <1>4 DEF DeliverToExec
<1>5. ASSUME NEW w \in Watcher, DeliverToWatcher(r, w)
      PROVE  Rest'
  BY <1>5 DEF DeliverToWatcher
<1>6. CASE FinishDispatch(r)
  BY <1>6 DEF FinishDispatch
<1>7. QED
  BY <1>1, <1>2, <1>3, <1>4, <1>5, <1>6
     DEF ResponseStep, HandleStep, PublishStep

(* Subscribers keep them.                                                  *)
LEMMA WatcherStepRest ==
  ASSUME IInv, NEW w \in Watcher, WatcherStep(w)
  PROVE  Rest'
<1> Types /\ Rest
  BY DEF IInv, Rest
<1>1. /\ UNCHANGED <<call, mid, stage, handled, resp, match>>
      /\ \A r \in Request : pending'[r] \in {pending[r], pending[r] \ {w}}
      /\ \/ UNCHANGED pending /\ subs' \in {subs, subs \cup {w}}
         \/ Unsubscribe(w)
      /\ w \notin Request
  BY WatcherFrame, DispatcherAssumption DEF message
<1>2. StageInv' /\ HandledInv' /\ IdInv' /\ MatchInv'
  BY <1>1 DEF Rest, StageInv, HandledInv, IdInv, MatchInv
<1>3. AnswerInv'
  BY <1>1 DEF Rest, AnswerInv
<1>4. SubsInv'
  <2>1. CASE UNCHANGED pending /\ subs' \in {subs, subs \cup {w}}
    BY <1>1, <2>1 DEF Rest, SubsInv
  <2>2. CASE Unsubscribe(w)
    BY <1>1, <2>2 DEF Rest, SubsInv, Unsubscribe, Types
  <2>3. QED
    BY <1>1, <2>1, <2>2
<1>5. QED
  BY <1>2, <1>3, <1>4 DEF Rest

(* The services keep them.                                                 *)
LEMMA ServiceStepRest ==
  ASSUME IInv, ServiceStep
  PROVE  Rest'
<1> Types /\ Rest /\ QueueInv
  BY DEF IInv, Rest
<1> USE DEF Rest, StageInv, HandledInv, SubsInv, IdInv, MatchInv, AnswerInv
<1>1. CASE PopMessage
  <2>1. Head(pipe) \in Request /\ stage[Head(pipe)] = "queued"
    BY <1>1, HeadTailProperties DEF PopMessage, QueueInv, Holds, Types
  <2>2. QED
    BY <1>1, <2>1 DEF PopMessage, Types, message, broker
<1>2. CASE TakeResponse
  <2>1. Head(outgoing) \in Request /\ stage[Head(outgoing)] = "answered"
    BY <1>2, HeadTailProperties DEF TakeResponse, QueueInv, Holds, Types
  <2>2. QED
    BY <1>2, <2>1 DEF TakeResponse, Types, message, broker
<1>3. CASE ~PopMessage /\ ~TakeResponse
  BY <1>3, ServiceFrame DEF message, broker
<1>4. QED
  BY <1>1, <1>2, <1>3

(* The invariant is inductive.                                             *)
LEMMA NextIInv == IInv /\ [Next]_vars => IInv'
<1> SUFFICES ASSUME IInv, [Next]_vars PROVE IInv'
  OBVIOUS
<1>1. Types' /\ QueueInv'
  BY NextTypes, QueueStep DEF IInv
<1>2. Rest'
  <2>1. CASE UNCHANGED vars
    BY <2>1 DEF IInv, Rest, StageInv, HandledInv, SubsInv, IdInv, MatchInv,
                AnswerInv, vars, message, broker
  <2>2. QED
    BY <2>1, CallerStepRest, ResponseStepRest, WatcherStepRest,
       ServiceStepRest DEF Next
<1>3. QED
  BY <1>1, <1>2 DEF IInv, Rest

(* The inductive invariant holds in every reachable state.                 *)
THEOREM InductiveInvariant == Spec => []IInv
  BY InitIInv, NextIInv, PTL DEF Spec

-----------------------------------------------------------------------------
(* A message passes the pool at most once: Dispatcher's HandledAtMostOnce. *)
THEOREM AtMostOnce == Spec => []HandledAtMostOnce
<1>1. IInv => HandledAtMostOnce
  BY DEF IInv, HandledInv, HandledAtMostOnce
<1>2. QED
  BY <1>1, InductiveInvariant, PTL

(* What Exec or Broadcast refused was never processed, nor will be.        *)
THEOREM RefusedIsNeverHandled == Spec => []RefusedNeverHandled
<1>1. IInv => RefusedNeverHandled
  BY DEF IInv, HandledInv, StageInv, RefusedNeverHandled
<1>2. QED
  BY <1>1, InductiveInvariant, PTL

(* Subscribing before sending loses no response: once the answer to a      *)
(* waiting Exec has been dispatched, its listener holds it.                *)
THEOREM NoResponseIsLost == Spec => []NoLostResponse
<1>1. IInv => NoLostResponse
  BY DEF IInv, AnswerInv, SubsInv, NoLostResponse
<1>2. QED
  BY <1>1, InductiveInvariant, PTL

(* Exec's answer carries the ID of its message and, when the dispatcher    *)
(* made this ID, it is the answer to this message.                         *)
THEOREM RepliesAreCorrelated == Spec => []CorrelatedReply
<1>1. IInv => CorrelatedReply
  <2> SUFFICES ASSUME IInv, NEW r \in Request, call[r] = "replied"
               PROVE  /\ resp[match[r]].id = mid[r]
                      /\ handled[match[r]] = 1
                      /\ mid[r] = r => match[r] = r
    BY DEF CorrelatedReply
  <2>1. /\ match[r] \in Request
        /\ resp[match[r]].id = mid[r]
        /\ stage[match[r]] \in {"dispatching", "dispatched"}
    BY DEF IInv, MatchInv, Types
  <2>2. handled[match[r]] = 1
    BY <2>1 DEF IInv, HandledInv
  <2>3. resp[match[r]].id \in ID \cup {match[r]}
    BY <2>1 DEF IInv, IdInv
  <2>4. mid[r] = r => match[r] = r
    BY <2>1, <2>3, DispatcherAssumption
  <2>5. QED
    BY <2>1, <2>2, <2>4
<1>2. QED
  BY <1>1, InductiveInvariant, PTL

(* Only a bounded outgoing queue, or closing it, stops the message pool.   *)
THEOREM UnlimitedKeepsRunning == Spec => []UnlimitedNeverStops
<1>1. Init => UnlimitedNeverStops
  BY DEF Init, UnlimitedNeverStops
<1>2. UnlimitedNeverStops /\ [Next]_vars => UnlimitedNeverStops'
  <2> SUFFICES ASSUME UnlimitedNeverStops, [Next]_vars
               PROVE  UnlimitedNeverStops'
    OBVIOUS
  <2> USE DEF UnlimitedNeverStops, service
  <2>1. CASE UNCHANGED service
    BY <2>1
  <2>2. ASSUME NEW r \in Request, NEW q, PushResponse(r, q)
        PROVE  UnlimitedNeverStops'
    BY <2>2 DEF PushResponse, Handle
  <2>3. ASSUME NEW r \in Request, NEW q, LoseResponse(r, q)
        PROVE  UnlimitedNeverStops'
    BY <2>3, DispatcherAssumption DEF LoseResponse, Handle, MayRefuse
  <2>4. CASE ServiceStep
    BY <2>4 DEF ServiceStep, StartBroker, PopMessage, TakeResponse,
                CancelService, ClosePipe, CloseOutgoing
  <2>5. ASSUME NEW r \in Request, ResponseStep(r)
        PROVE  UnlimitedNeverStops'
    BY <2>1, <2>2, <2>3, <2>5
       DEF ResponseStep, HandleStep, PublishStep, Publish, DeliverToExec,
           DeliverToWatcher, FinishDispatch
  <2>6. ASSUME NEW w \in Watcher, WatcherStep(w)
        PROVE  UnlimitedNeverStops'
    BY <2>1, <2>6 DEF WatcherStep, Subscribe, JoinBroker, ForwardToStream,
                      ReadStream, CloseStream
  <2>7. QED
    BY <2>1, <2>4, <2>5, <2>6, CallerFrame DEF Next, vars
<1>3. QED
  BY <1>1, <1>2, PTL DEF Spec

-----------------------------------------------------------------------------
(* Counting: moving one message to stage t adds at most that message.      *)
LEMMA AtMoves ==
  ASSUME Types, NEW r \in Request, NEW t,
         stage' = [stage EXCEPT ![r] = t]
  PROVE  \A s : At(s)' \subseteq At(s) \cup (IF s = t THEN {r} ELSE {})
  BY DEF At, Types

(* A smaller set of requests has no more elements.                         *)
LEMMA CountSubset ==
  ASSUME NEW A \in SUBSET Request, NEW B \in SUBSET A
  PROVE  Cardinality(B) <= Cardinality(A) /\ Cardinality(A) \in Nat
  BY DispatcherAssumption, FS_Subset, FS_CardinalityType

(* One more request than a pool below its bound is at most the bound.      *)
LEMMA CountAdd ==
  ASSUME NEW A \in SUBSET Request, NEW r \in Request, NEW n \in Nat,
         Cardinality(A) < n, NEW B \in SUBSET (A \cup {r})
  PROVE  Cardinality(B) <= n
<1>1. IsFiniteSet(A) /\ Cardinality(A) \in Nat
  BY DispatcherAssumption, FS_Subset, FS_CardinalityType
<1>2. /\ IsFiniteSet(A \cup {r})
      /\ Cardinality(A \cup {r}) \in {Cardinality(A), Cardinality(A) + 1}
  BY <1>1, FS_AddElement
<1>3. Cardinality(B) <= Cardinality(A \cup {r}) /\ Cardinality(B) \in Nat
  BY CountSubset
<1>4. QED
  BY <1>1, <1>2, <1>3

(* The pools never have more messages than workers, nor the pipe and the   *)
(* outgoing queue more than their capacity; and the messages lost with     *)
(* those still being handled are never more than the workers, because the  *)
(* first loss stops the pool.                                              *)
LossInv ==
  /\ Cardinality(At("lost") \cup At("handling")) <= Workers
  /\ poolUp => At("lost") = {}

CountInv ==
  /\ Len(pipe) <= Workers
  /\ Buffer > 0 => Len(outgoing) <= Buffer + Workers
  /\ Cardinality(At("intercepting")) <= Responders
  /\ LossInv

(* No pool is in use initially.                                            *)
LEMMA InitCount == Init => CountInv
<1> SUFFICES ASSUME Init PROVE CountInv
  OBVIOUS
<1>1. At("lost") = {} /\ At("handling") = {} /\ At("intercepting") = {}
  BY DEF Init, At
<1>2. Cardinality({}) = 0
  BY FS_EmptySet
<1>3. At("lost") \cup At("handling") = {}
  BY <1>1
<1>4. Len(pipe) = 0 /\ Len(outgoing) = 0
  BY DEF Init
<1>5. /\ Cardinality(At("lost") \cup At("handling")) = 0
      /\ Cardinality(At("intercepting")) = 0
  BY <1>1, <1>2, <1>3
<1>6. LossInv
  BY <1>1, <1>5, DispatcherAssumption DEF LossInv
<1>7. QED
  BY <1>4, <1>5, <1>6, DispatcherAssumption DEF CountInv

(* Each of the four counts by itself: what it takes to stay in bounds.     *)
LEMMA PoolsShrink ==
  ASSUME CountInv,
         At("intercepting")' \subseteq At("intercepting"),
         At("lost")' \cup At("handling")' \subseteq At("lost") \cup At("handling"),
         poolUp' => poolUp /\ At("lost")' \subseteq At("lost")
  PROVE  LossInv' /\ Cardinality(At("intercepting")') <= Responders
<1>1. /\ At("intercepting") \in SUBSET Request
      /\ At("lost") \cup At("handling") \in SUBSET Request
  BY DEF At
<1>2. /\ Cardinality(At("intercepting")') <= Cardinality(At("intercepting"))
      /\ Cardinality(At("intercepting")) \in Nat
      /\ Cardinality(At("intercepting")') \in Nat
  BY <1>1, CountSubset
<1>3. /\ Cardinality(At("lost")' \cup At("handling")')
           <= Cardinality(At("lost") \cup At("handling"))
      /\ Cardinality(At("lost") \cup At("handling")) \in Nat
      /\ Cardinality(At("lost")' \cup At("handling")') \in Nat
  BY <1>1, CountSubset
<1>4. Cardinality(At("intercepting")') <= Responders
  BY <1>2, DispatcherAssumption DEF CountInv
<1>5. Cardinality(At("lost")' \cup At("handling")') <= Workers
  BY <1>3, DispatcherAssumption DEF CountInv, LossInv
<1>6. poolUp' => At("lost")' = {}
  BY DEF CountInv, LossInv
<1>7. QED
  BY <1>4, <1>5, <1>6 DEF LossInv

(* A queue that is popped, or left alone, stays within its capacity.       *)
LEMMA QueuesShrink ==
  ASSUME Types, Types', CountInv,
         pipe' = pipe \/ (pipe # <<>> /\ pipe' = Tail(pipe)),
         outgoing' = outgoing \/ (outgoing # <<>> /\ outgoing' = Tail(outgoing))
  PROVE  /\ Len(pipe') <= Workers
         /\ Buffer > 0 => Len(outgoing') <= Buffer + Workers
<1>1. \A s \in Seq(Request) :
        /\ Len(s) \in Nat
        /\ s # <<>> => Len(Tail(s)) = Len(s) - 1
  BY LenProperties, HeadTailProperties
<1>2. /\ Len(pipe) \in Nat /\ Len(pipe') \in {Len(pipe), Len(pipe) - 1}
      /\ Len(outgoing) \in Nat
      /\ Len(outgoing') \in {Len(outgoing), Len(outgoing) - 1}
  BY <1>1 DEF Types
<1>3. QED
  BY <1>2, DispatcherAssumption DEF CountInv

Moves(r, t) == stage' = [stage EXCEPT ![r] = t]

(* Every step keeps the capacities of queues and pools.                    *)
LEMMA CountStep == IInv /\ CountInv /\ [Next]_vars => CountInv'
<1> SUFFICES ASSUME IInv, CountInv, [Next]_vars PROVE CountInv'
  OBVIOUS
<1> Types /\ Types' /\ QueueInv
  BY NextTypes DEF IInv
<1>1. CASE UNCHANGED <<pipe, outgoing, stage, poolUp>>
  <2>1. \A s : At(s)' = At(s)
    BY <1>1 DEF At
  <2>2. QED
    BY <1>1, <2>1, PoolsShrink, QueuesShrink DEF CountInv
<1>2. ASSUME NEW r \in Request, PushMessage(r)
      PROVE  CountInv'
  <2>1. /\ pipe' = Append(pipe, r) /\ Len(pipe) < Workers
        /\ outgoing' = outgoing /\ poolUp' = poolUp
        /\ stage' = [stage EXCEPT ![r] = "queued"]
    BY <1>2 DEF PushMessage, service
  <2>2. \A s : s # "queued" => At(s)' \subseteq At(s)
    BY <2>1, AtMoves
  <2>3. LossInv' /\ Cardinality(At("intercepting")') <= Responders
    <3>1. /\ At("intercepting")' \subseteq At("intercepting")
          /\ At("handling")' \subseteq At("handling")
          /\ At("lost")' \subseteq At("lost")
      BY <2>2
    <3>2. QED
      BY <2>1, <3>1, PoolsShrink
  <2>4. Len(pipe') = Len(pipe) + 1 /\ Len(pipe) \in Nat
    BY <2>1, AppendProperties, LenProperties DEF Types
  <2>5. Len(pipe') <= Workers
    BY <2>1, <2>4, DispatcherAssumption
  <2>6. QED
    BY <2>1, <2>3, <2>5 DEF CountInv
<1>3. CASE PopMessage
  <2>1. /\ pipe # <<>> /\ pipe' = Tail(pipe) /\ outgoing' = outgoing
        /\ stage' = [stage EXCEPT ![Head(pipe)] = "handling"]
        /\ poolUp /\ poolUp' = poolUp
        /\ Cardinality(At("handling")) < Workers
    BY <1>3 DEF PopMessage, service
  <2>2. Head(pipe) \in Request
    BY <2>1, HeadTailProperties DEF Types
  <2>3. /\ At("handling")' \subseteq At("handling") \cup {Head(pipe)}
        /\ At("lost")' \subseteq At("lost")
        /\ At("intercepting")' \subseteq At("intercepting")
    BY <2>1, <2>2, AtMoves
  <2>4. At("lost")' = {}
    BY <2>1, <2>3 DEF CountInv, LossInv
  <2>5. Cardinality(At("lost")' \cup At("handling")') <= Workers
    <3>1. At("handling") \in SUBSET Request
      BY DEF At
    <3>2. At("lost")' \cup At("handling")'
            \in SUBSET (At("handling") \cup {Head(pipe)})
      BY <2>3, <2>4
    <3>3. QED
      BY <2>1, <2>2, <3>1, <3>2, CountAdd, DispatcherAssumption
  <2>6. Cardinality(At("intercepting")') <= Responders
    <3>1. At("intercepting") \in SUBSET Request
      BY DEF At
    <3>2. /\ Cardinality(At("intercepting")') <= Cardinality(At("intercepting"))
          /\ Cardinality(At("intercepting")) \in Nat
          /\ Cardinality(At("intercepting")') \in Nat
      BY <2>3, <3>1, CountSubset
    <3>3. QED
      BY <3>2, DispatcherAssumption DEF CountInv
  <2>7. QED
    BY <2>1, <2>4, <2>5, <2>6, QueuesShrink DEF CountInv, LossInv
<1>4. CASE TakeResponse
  <2>1. /\ outgoing # <<>> /\ outgoing' = Tail(outgoing) /\ pipe' = pipe
        /\ stage' = [stage EXCEPT ![Head(outgoing)] = "intercepting"]
        /\ poolUp' = poolUp
        /\ Cardinality(At("intercepting")) < Responders
    BY <1>4 DEF TakeResponse, service
  <2>2. Head(outgoing) \in Request
    BY <2>1, HeadTailProperties DEF Types
  <2>3. /\ At("intercepting")' \subseteq At("intercepting") \cup {Head(outgoing)}
        /\ At("lost")' \subseteq At("lost")
        /\ At("handling")' \subseteq At("handling")
    BY <2>1, <2>2, AtMoves
  <2>4. At("intercepting") \in SUBSET Request
    BY DEF At
  <2>5. Cardinality(At("intercepting")') <= Responders
    BY <2>1, <2>2, <2>3, <2>4, CountAdd, DispatcherAssumption
  <2>6. LossInv'
    <3>1. At("lost") \cup At("handling") \in SUBSET Request
      BY DEF At
    <3>2. /\ Cardinality(At("lost")' \cup At("handling")')
               <= Cardinality(At("lost") \cup At("handling"))
          /\ Cardinality(At("lost") \cup At("handling")) \in Nat
          /\ Cardinality(At("lost")' \cup At("handling")') \in Nat
      BY <2>3, <3>1, CountSubset
    <3>3. QED
      BY <2>1, <2>3, <3>2, DispatcherAssumption DEF CountInv, LossInv
  <2>7. QED
    BY <2>1, <2>5, <2>6, QueuesShrink DEF CountInv
<1>5. ASSUME NEW r \in Request, NEW t,
             Moves(r, t), t # "intercepting", t # "handling",
             t = "lost" => stage[r] = "handling" /\ poolUp' = FALSE,
             poolUp' \in {poolUp, FALSE}
      PROVE  LossInv' /\ Cardinality(At("intercepting")') <= Responders
  <2>1. \A s : At(s)' \subseteq At(s) \cup (IF s = t THEN {r} ELSE {})
    BY <1>5, AtMoves DEF Moves
  <2>2. At("intercepting")' \subseteq At("intercepting")
    BY <1>5, <2>1
  <2>3. At("lost")' \cup At("handling")' \subseteq At("lost") \cup At("handling")
    <3>1. t = "lost" => r \in At("handling")
      BY <1>5 DEF At
    <3>2. At("handling")' \subseteq At("handling")
      BY <1>5, <2>1
    <3>3. At("lost")' \subseteq At("lost") \cup At("handling")
      BY <2>1, <3>1
    <3>4. QED
      BY <3>2, <3>3
  <2>4. poolUp' => poolUp /\ At("lost")' \subseteq At("lost")
    BY <1>5, <2>1 DEF Types
  <2>5. QED
    BY <2>2, <2>3, <2>4, PoolsShrink
<1>6. ASSUME NEW r \in Request, NEW q, PushResponse(r, q)
      PROVE  CountInv'
  <2>1. /\ stage[r] = "handling" /\ Moves(r, "answered")
        /\ outgoing' = Append(outgoing, r) /\ pipe' = pipe /\ poolUp' = poolUp
        /\ Buffer = 0 \/ Len(outgoing) < Buffer + Workers
    BY <1>6 DEF PushResponse, Handle, MayAccept, Moves
  <2>2. LossInv' /\ Cardinality(At("intercepting")') <= Responders
    BY <1>5, <2>1
  <2>3. Len(outgoing') = Len(outgoing) + 1 /\ Len(outgoing) \in Nat
    BY <2>1, AppendProperties, LenProperties DEF Types
  <2>4. Buffer > 0 => Len(outgoing') <= Buffer + Workers
    BY <2>1, <2>3, DispatcherAssumption
  <2>5. QED
    BY <2>1, <2>2, <2>4 DEF CountInv
<1>7. ASSUME NEW r \in Request, NEW q, LoseResponse(r, q)
      PROVE  CountInv'
  <2>1. /\ stage[r] = "handling" /\ Moves(r, "lost")
        /\ outgoing' = outgoing /\ pipe' = pipe /\ poolUp' = FALSE
    BY <1>7 DEF LoseResponse, Handle, Moves
  <2>2. LossInv' /\ Cardinality(At("intercepting")') <= Responders
    BY <1>5, <2>1
  <2>3. QED
    BY <2>1, <2>2, QueuesShrink DEF CountInv
<1>8. ASSUME NEW r \in Request, ResponseStep(r)
      PROVE  CountInv'
  <2>1. ASSUME NEW i, NEW q, Publish(r, i, q)
        PROVE  CountInv'
    <3>1. /\ stage[r] = "intercepting"
          /\ Moves(r, "dispatching")
          /\ outgoing' = outgoing /\ pipe' = pipe /\ poolUp' = poolUp
      BY <2>1 DEF Publish, service, Moves
    <3>2. LossInv' /\ Cardinality(At("intercepting")') <= Responders
      BY <1>5, <3>1
    <3>3. QED
      BY <3>1, <3>2, QueuesShrink DEF CountInv
  <2>2. CASE FinishDispatch(r)
    <3>1. /\ stage[r] = "dispatching"
          /\ Moves(r, "dispatched")
          /\ outgoing' = outgoing /\ pipe' = pipe /\ poolUp' = poolUp
      BY <2>2 DEF FinishDispatch, service, Moves
    <3>2. LossInv' /\ Cardinality(At("intercepting")') <= Responders
      BY <1>5, <3>1
    <3>3. QED
      BY <3>1, <3>2, QueuesShrink DEF CountInv
  <2>3. ASSUME NEW s, DeliverToExec(r, s) \/ DeliverToWatcher(r, s)
        PROVE  CountInv'
    BY <1>1, <2>3 DEF DeliverToExec, DeliverToWatcher, service
  <2>4. QED
    BY <1>6, <1>7, <1>8, <2>1, <2>2, <2>3
       DEF ResponseStep, HandleStep, PublishStep
<1>9. ASSUME NEW r \in Request, CallerStep(r)
      PROVE  CountInv'
  BY <1>1, <1>2, <1>9, CallerFrame DEF service
<1>10. ASSUME NEW w \in Watcher, WatcherStep(w)
      PROVE  CountInv'
  BY <1>1, <1>10, WatcherFrame DEF service
<1>11. CASE ServiceStep
  <2>1. UNCHANGED poolUp
    BY <1>11 DEF ServiceStep, StartBroker, PopMessage, TakeResponse,
                 CancelService, ClosePipe, CloseOutgoing, service
  <2>2. QED
    BY <1>1, <1>3, <1>4, <1>11, <2>1, ServiceFrame
<1>12. CASE UNCHANGED vars
  BY <1>1, <1>12 DEF vars, service
<1>13. QED
  BY <1>8, <1>9, <1>10, <1>11, <1>12 DEF Next

(* Queues and pools never exceed their capacities.                         *)
LEMMA CountInvariant == Spec => []CountInv
  BY InitCount, CountStep, InductiveInvariant, PTL DEF Spec

(* Dispatcher's TypeOK: types, and the capacities of queues and pools.     *)
THEOREM TypeCorrect == Spec => []TypeOK
<1>1. IInv /\ CountInv => TypeOK
  <2> SUFFICES ASSUME IInv, CountInv PROVE TypeOK
    OBVIOUS
  <2>1. At("lost") \cup At("handling") \in SUBSET Request
    BY DEF At
  <2>2. Cardinality(At("handling")) <= Cardinality(At("lost") \cup At("handling"))
    BY <2>1, CountSubset
  <2>3. /\ Cardinality(At("handling")) \in Nat
        /\ Cardinality(At("lost") \cup At("handling")) \in Nat
    BY <2>1, CountSubset
  <2>4. QED
    BY <2>2, <2>3, DispatcherAssumption
       DEF IInv, CountInv, LossInv, TypeOK, Bounds
<1>2. QED
  BY <1>1, InductiveInvariant, CountInvariant, PTL

(* A full outgoing queue costs no more responses than there are workers.   *)
THEOREM LossIsBounded == Spec => []BoundedLoss
<1>1. CountInv => BoundedLoss
  <2> SUFFICES ASSUME CountInv PROVE BoundedLoss
    OBVIOUS
  <2>1. At("lost") \cup At("handling") \in SUBSET Request
    BY DEF At
  <2>2. /\ Cardinality(At("lost")) <= Cardinality(At("lost") \cup At("handling"))
        /\ Cardinality(At("lost")) \in Nat
        /\ Cardinality(At("lost") \cup At("handling")) \in Nat
    BY <2>1, CountSubset
  <2>3. QED
    BY <2>2, DispatcherAssumption DEF CountInv, LossInv, BoundedLoss
<1>2. QED
  BY <1>1, CountInvariant, PTL

-----------------------------------------------------------------------------
(* What is on its way to the consumer of a Subscribe passed the filter, is *)
(* published and will not be delivered again; before the call there is     *)
(* nothing, and only an open subscription is known to the broker.          *)
Published == {"dispatching", "dispatched"}

Passed(q, w) ==
  \A i \in 1..Len(q) :
    Wanted(w, q[i]) /\ stage[q[i]] \in Published /\ w \notin pending[q[i]]

Once(q) == \A i, j \in 1..Len(q) : q[i] = q[j] => i = j

StreamInv ==
  \A w \in Watcher :
    /\ Passed(ToConsumer(w), w) /\ Once(ToConsumer(w))
    /\ watch[w] = "idle" => ToConsumer(w) = <<>>
    /\ watch[w] # "open" => w \notin subs

(* What is read, buffered and held is a sequence of responses.             *)
LEMMA ToConsumerType ==
  ASSUME Types, NEW w \in Watcher
  PROVE  /\ seen[w] \in Seq(Request) /\ stream[w] \in Seq(Request)
         /\ seen[w] \o stream[w] \in Seq(Request)
         /\ ToConsumer(w) \in Seq(Request)
         /\ hold[w] # None => hold[w] \in Request
<1>1. /\ seen[w] \in Seq(Request) /\ stream[w] \in Seq(Request)
      /\ hold[w] # None => hold[w] \in Request
  BY DEF Types
<1>2. seen[w] \o stream[w] \in Seq(Request)
  BY <1>1, ConcatProperties
<1>3. (IF hold[w] = None THEN <<>> ELSE <<hold[w]>>) \in Seq(Request)
  BY <1>1
<1>4. ToConsumer(w) \in Seq(Request)
  BY <1>2, <1>3, ConcatProperties DEF ToConsumer
<1>5. QED
  BY <1>1, <1>2, <1>4

(* A held response that moves into the channel, or to the consumer, and a  *)
(* buffered one that is read, keep their places in the line.               *)
LEMMA LineMoves ==
  ASSUME NEW S, NEW a \in Seq(S), NEW b \in Seq(S), NEW h \in S
  PROVE  /\ (a \o Append(b, h)) \o <<>> = (a \o b) \o <<h>>
         /\ (Append(a, h) \o <<>>) \o <<>> = (a \o <<>>) \o <<h>>
         /\ b # <<>> => Append(a, Head(b)) \o Tail(b) = a \o b
<1>1. /\ <<h>> \in Seq(S) /\ <<>> \in Seq(S)
      /\ a \o b \in Seq(S)
      /\ Append(b, h) = b \o <<h>> /\ Append(a, h) = a \o <<h>>
      /\ Append(b, h) \in Seq(S) /\ Append(a, h) \in Seq(S)
  BY AppendIsConcat, AppendProperties, ConcatProperties
<1>2. (a \o Append(b, h)) \o <<>> = (a \o b) \o <<h>>
  <2>1. a \o Append(b, h) = (a \o b) \o <<h>>
    BY <1>1, ConcatAssociative
  <2>2. a \o Append(b, h) \in Seq(S)
    BY <1>1, ConcatProperties
  <2>3. QED
    BY <2>1, <2>2, ConcatEmptySeq
<1>3. (Append(a, h) \o <<>>) \o <<>> = (a \o <<>>) \o <<h>>
  <2>1. Append(a, h) \o <<>> = Append(a, h) /\ a \o <<>> = a
    BY <1>1, ConcatEmptySeq
  <2>2. QED
    BY <1>1, <2>1
<1>4. ASSUME b # <<>>
      PROVE  Append(a, Head(b)) \o Tail(b) = a \o b
  <2>1. /\ Head(b) \in S /\ Tail(b) \in Seq(S) /\ <<Head(b)>> \in Seq(S)
    BY <1>4, HeadTailProperties
  <2>2. b = <<Head(b)>> \o Tail(b)
    <3>1. <<Head(b)>> \o Tail(b) \in Seq(S)
      BY <2>1, ConcatProperties
    <3>2. /\ Len(b) \in Nat \ {0} /\ Len(Tail(b)) = Len(b) - 1
          /\ \A i \in 1..Len(Tail(b)) : Tail(b)[i] = b[i + 1]
          /\ Head(b) = b[1]
      BY <1>4, HeadTailProperties, EmptySeq
    <3>3. /\ Len(<<Head(b)>>) = 1 /\ <<Head(b)>>[1] = Head(b)
      OBVIOUS
    <3>4. /\ Len(<<Head(b)>> \o Tail(b)) = Len(b)
          /\ \A i \in 1..Len(b) : (<<Head(b)>> \o Tail(b))[i] =
                IF i <= 1 THEN <<Head(b)>>[i] ELSE Tail(b)[i - 1]
      BY <2>1, <3>2, <3>3, ConcatProperties
    <3>5. \A i \in 1..Len(b) : (<<Head(b)>> \o Tail(b))[i] = b[i]
      <4> TAKE i \in 1..Len(b)
      <4>1. CASE i = 1
        BY <3>2, <3>3, <3>4, <4>1
      <4>2. CASE i # 1
        <5>1. i - 1 \in 1..Len(Tail(b)) /\ (i - 1) + 1 = i
          BY <3>2, <4>2
        <5>2. QED
          BY <3>2, <3>4, <4>2, <5>1
      <4>3. QED
        BY <4>1, <4>2
    <3>6. QED
      BY <3>1, <3>4, <3>5, SeqEqual
  <2>3. Append(a, Head(b)) = a \o <<Head(b)>>
    BY <2>1, AppendIsConcat
  <2>4. QED
    BY <2>1, <2>2, <2>3, ConcatAssociative
<1>5. QED
  BY <1>2, <1>3, <1>4

(* What was published stays published, unchanged and delivered.            *)
Steady ==
  \A r \in Request :
    stage[r] \in Published =>
      /\ stage'[r] \in Published /\ resp'[r] = resp[r]
      /\ pending'[r] \subseteq pending[r]

(* A step that leaves the line of a consumer alone keeps it as it was.     *)
LEMMA PassedKept ==
  ASSUME Steady, NEW w \in Watcher, NEW q \in Seq(Request), Passed(q, w),
         want'[w] = want[w]
  PROVE  \A i \in 1..Len(q) :
           /\ want'[w] = NoProtocol \/ resp'[q[i]].proto = want'[w]
           /\ stage'[q[i]] \in Published
           /\ w \notin pending'[q[i]]
<1> SUFFICES ASSUME NEW i \in 1..Len(q)
             PROVE  /\ want'[w] = NoProtocol \/ resp'[q[i]].proto = want'[w]
                    /\ stage'[q[i]] \in Published
                    /\ w \notin pending'[q[i]]
  OBVIOUS
<1>1. q[i] \in Request
  BY ElementOfSeq
<1>2. QED
  BY <1>1 DEF Passed, Steady, Wanted

(* The line of a consumer after a step that leaves it as it is, and the    *)
(* beginning of it after a step that drops what is held.                   *)
StreamKept(w) ==
  /\ Passed(ToConsumer(w), w)' /\ Once(ToConsumer(w))'
  /\ watch'[w] = "idle" => ToConsumer(w)' = <<>>
  /\ watch'[w] # "open" => w \notin subs'

LEMMA LineKept ==
  ASSUME Types, StreamInv, Steady, NEW w \in Watcher, want'[w] = want[w],
         ToConsumer(w)' = ToConsumer(w),
         watch'[w] = "idle" => watch[w] = "idle",
         watch'[w] # "open" => w \notin subs'
  PROVE  StreamKept(w)
<1> DEFINE q == ToConsumer(w)
<1>1. q \in Seq(Request) /\ Passed(q, w) /\ Once(q)
  BY ToConsumerType DEF StreamInv
<1>2. \A i \in 1..Len(q) :
        /\ want'[w] = NoProtocol \/ resp'[q[i]].proto = want'[w]
        /\ stage'[q[i]] \in Published
        /\ w \notin pending'[q[i]]
  <2> HIDE DEF q
  <2>1. QED
    BY <1>1, PassedKept
<1>3. Passed(ToConsumer(w), w)'
  BY <1>2 DEF Passed, Wanted
<1>4. Once(ToConsumer(w))'
  BY <1>1 DEF Once
<1>5. QED
  BY <1>3, <1>4 DEF StreamKept, StreamInv

(* So nothing but the steps of Subscribe's goroutine, its consumer and its *)
(* delivery concern a consumer.                                            *)
LEMMA StreamFrame ==
  ASSUME Types, StreamInv, Steady, UNCHANGED watcher,
         subs' \cap Watcher \subseteq subs
  PROVE  StreamInv'
<1>1. ASSUME NEW w \in Watcher
      PROVE  StreamKept(w)
  <2>1. ToConsumer(w)' = ToConsumer(w)
    BY DEF ToConsumer, watcher
  <2>2. want'[w] = want[w] /\ watch'[w] = watch[w]
    BY DEF watcher
  <2>3. watch'[w] # "open" => w \notin subs'
    BY <2>2 DEF StreamInv
  <2>4. QED
    BY <2>1, <2>2, <2>3, LineKept
<1>2. QED
  BY <1>1 DEF StreamInv, StreamKept

(* Delivering to one consumer: the line of this one grows, by a response   *)
(* that was still to be delivered to it.                                   *)
LEMMA DeliverKeepsStream ==
  ASSUME IInv, StreamInv, NEW r \in Request, NEW w \in Watcher,
         DeliverToWatcher(r, w)
  PROVE  StreamInv'
<1> Types /\ SubsInv
  BY DEF IInv
<1>1. /\ w \in pending[r] /\ hold[w] = None
      /\ hold' = [hold EXCEPT ![w] = IF Wanted(w, r) THEN r ELSE None]
      /\ pending' = [pending EXCEPT ![r] = @ \ {w}]
      /\ UNCHANGED <<stage, resp, subs, watch, want, stream, seen>>
  BY DEF DeliverToWatcher
<1>2. Steady
  BY <1>1 DEF Steady, Types
<1>3. stage[r] = "dispatching" /\ w \in subs /\ watch[w] = "open"
  BY <1>1 DEF SubsInv, StreamInv
<1>4. \A v \in Watcher :
         want'[v] = want[v] /\ watch'[v] = watch[v] /\
         (watch'[v] # "open" => v \notin subs')
  BY <1>1 DEF StreamInv
<1>5. ASSUME NEW v \in Watcher, hold'[v] = hold[v]
      PROVE  StreamKept(v)
  <2>1. hold'[v] = hold[v] /\ stream'[v] = stream[v] /\ seen'[v] = seen[v]
    BY <1>1, <1>5
  <2>2. ToConsumer(v)' = ToConsumer(v)
    BY <2>1 DEF ToConsumer
  <2>3. QED
    BY <1>2, <1>4, <2>2, LineKept
<1>6. \A v \in Watcher : v # w => hold'[v] = hold[v]
  BY <1>1 DEF Types
<1>7. CASE ~Wanted(w, r)
  BY <1>1, <1>5, <1>6, <1>7 DEF Types, StreamInv, StreamKept
<1>8. CASE Wanted(w, r)
  <2> DEFINE q == ToConsumer(w)
             n == Append(q, r)
  <2>1. hold'[w] = r
    BY <1>1, <1>8 DEF Types
  <2>2. /\ q \in Seq(Request) /\ Passed(q, w) /\ Once(q)
        /\ seen[w] \o stream[w] \in Seq(Request)
    BY ToConsumerType DEF StreamInv
  <2>3. ToConsumer(w)' = n
    <3>1. q = seen[w] \o stream[w]
      BY <1>1, <2>2, ConcatEmptySeq DEF ToConsumer
    <3>2. ToConsumer(w)' = (seen[w] \o stream[w]) \o <<r>>
      BY <1>1, <2>1, DispatcherAssumption DEF ToConsumer
    <3>3. QED
      BY <2>2, <3>1, <3>2, AppendIsConcat
  <2>4. /\ Len(n) = Len(q) + 1 /\ Len(q) \in Nat
        /\ \A i \in 1..Len(q) : n[i] = q[i]
        /\ n[Len(q) + 1] = r
    BY <2>2, AppendProperties, LenProperties
  <2>5. \A i \in 1..Len(n) : i \in 1..Len(q) \/ i = Len(q) + 1
    BY <2>4
  <2>6. \A i \in 1..Len(q) :
          /\ want'[w] = NoProtocol \/ resp'[q[i]].proto = want'[w]
          /\ stage'[q[i]] \in Published
          /\ w \notin pending'[q[i]]
    <3> HIDE DEF q, n
    <3>1. QED
      BY <1>2, <1>4, <2>2, PassedKept
  <2>7. \A i \in 1..Len(q) : q[i] # r
    BY <1>1, <2>2 DEF Passed
  <2>8. /\ want'[w] = NoProtocol \/ resp'[r].proto = want'[w]
        /\ stage'[r] \in Published
        /\ w \notin pending'[r]
    BY <1>1, <1>3, <1>8 DEF Wanted, Published, Types
  <2>9. Passed(ToConsumer(w), w)'
    <3> HIDE DEF q, n
    <3>1. \A i \in 1..Len(n) :
            /\ want'[w] = NoProtocol \/ resp'[n[i]].proto = want'[w]
            /\ stage'[n[i]] \in Published
            /\ w \notin pending'[n[i]]
      BY <2>4, <2>5, <2>6, <2>8
    <3>2. QED
      BY <2>3, <3>1 DEF Passed, Wanted
  <2>10. Once(ToConsumer(w))'
    <3> HIDE DEF q, n
    <3>1. \A i, j \in 1..Len(n) : n[i] = n[j] => i = j
      BY <2>2, <2>4, <2>5, <2>7 DEF Once
    <3>2. QED
      BY <2>3, <3>1 DEF Once
  <2>11. StreamKept(w)
    BY <1>1, <1>3, <2>9, <2>10 DEF StreamKept
  <2>12. QED
    BY <1>5, <1>6, <2>11 DEF StreamInv, StreamKept
<1>9. QED
  BY <1>7, <1>8

(* The steps of Subscribe's goroutine and of its consumer keep the lines.  *)
LEMMA WatcherKeepsStream ==
  ASSUME IInv, StreamInv, NEW w \in Watcher, WatcherStep(w)
  PROVE  StreamInv'
<1> Types
  BY DEF IInv
<1>1. /\ UNCHANGED <<stage, resp>>
      /\ \A r \in Request : pending'[r] \subseteq pending[r]
      /\ subs' \subseteq subs \cup {w}
  BY WatcherFrame DEF Unsubscribe
<1>2. Steady
  BY <1>1 DEF Steady
<1>3. ASSUME NEW v \in Watcher, v # w
      PROVE  StreamKept(v)
  <2>1. /\ want'[v] = want[v] /\ watch'[v] = watch[v] /\ hold'[v] = hold[v]
        /\ stream'[v] = stream[v] /\ seen'[v] = seen[v]
    BY <1>3 DEF Types, WatcherStep, Subscribe, JoinBroker, ForwardToStream,
                ReadStream, CloseStream
  <2>2. ToConsumer(v)' = ToConsumer(v)
    BY <2>1 DEF ToConsumer
  <2>3. watch'[v] # "open" => v \notin subs'
    BY <1>1, <1>3, <2>1 DEF StreamInv
  <2>4. QED
    BY <1>2, <2>1, <2>2, <2>3, LineKept
<1>4. StreamKept(w) => StreamInv'
  BY <1>3 DEF StreamInv, StreamKept
<1>5. ASSUME NEW p, Subscribe(w, p)
      PROVE  StreamKept(w)
  <2>1. /\ watch[w] = "idle" /\ watch'[w] = "opening" /\ subs' = subs
        /\ UNCHANGED <<hold, stream, seen>>
    BY <1>5 DEF Subscribe, broker, Types
  <2>2. ToConsumer(w)' = <<>> /\ w \notin subs
    BY <2>1 DEF ToConsumer, StreamInv
  <2>3. QED
    BY <2>1, <2>2 DEF StreamKept, Passed, Once
<1>6. ASSUME ToConsumer(w)' = ToConsumer(w), want'[w] = want[w],
             watch[w] # "idle", watch'[w] = "open"
      PROVE  StreamKept(w)
  BY <1>2, <1>6, LineKept
<1>7. CASE JoinBroker(w)
  <2>1. /\ watch[w] = "opening" /\ watch'[w] = "open"
        /\ UNCHANGED <<want, hold, stream, seen>>
    BY <1>7 DEF JoinBroker, Types
  <2>2. ToConsumer(w)' = ToConsumer(w)
    BY <2>1 DEF ToConsumer
  <2>3. QED
    BY <1>4, <1>6, <2>1, <2>2
<1>8. CASE ForwardToStream(w)
  <2>1. /\ watch[w] = "open" /\ hold[w] # None /\ UNCHANGED <<watch, want, seen>>
        /\ stream'[w] = Append(stream[w], hold[w]) /\ hold'[w] = None
    BY <1>8 DEF ForwardToStream, Types
  <2>2. ToConsumer(w)' = ToConsumer(w)
    <3>1. /\ ToConsumer(w)' = (seen[w] \o Append(stream[w], hold[w])) \o <<>>
          /\ ToConsumer(w) = (seen[w] \o stream[w]) \o <<hold[w]>>
      BY <2>1 DEF ToConsumer
    <3>2. /\ seen[w] \in Seq(Request) /\ stream[w] \in Seq(Request)
          /\ hold[w] \in Request
      BY <2>1, ToConsumerType
    <3>3. (seen[w] \o Append(stream[w], hold[w])) \o <<>>
            = (seen[w] \o stream[w]) \o <<hold[w]>>
      <4>1. \A a, b \in Seq(Request), h \in Request :
              (a \o Append(b, h)) \o <<>> = (a \o b) \o <<h>>
        BY LineMoves
      <4>2. QED
        BY <3>2, <4>1
    <3>4. QED
      BY <3>1, <3>3
  <2>3. QED
    BY <1>4, <1>6, <2>1, <2>2
<1>9. CASE ReadStream(w)
  <2>1. UNCHANGED <<watch, want, subs>>
    BY <1>9 DEF ReadStream, broker
  <2>2. ToConsumer(w)' = ToConsumer(w)
    <3>1. CASE stream[w] # <<>>
      <4>1. /\ seen'[w] = Append(seen[w], Head(stream[w]))
            /\ stream'[w] = Tail(stream[w]) /\ hold' = hold
        BY <1>9, <3>1 DEF ReadStream, Types
      <4>2. seen[w] \in Seq(Request) /\ stream[w] \in Seq(Request)
        BY ToConsumerType
      <4>3. Head(stream[w]) \in Request
        BY <3>1, <4>2, HeadTailProperties
      <4>4. Append(seen[w], Head(stream[w])) \o Tail(stream[w])
              = seen[w] \o stream[w]
        BY <3>1, <4>2, <4>3, LineMoves, Zenon
      <4>5. QED
        BY <4>1, <4>4 DEF ToConsumer
    <3>2. CASE stream[w] = <<>>
      <4>1. /\ hold[w] # None /\ hold'[w] = None /\ stream' = stream
            /\ seen'[w] = Append(seen[w], hold[w])
        BY <1>9, <3>2 DEF ReadStream, Types
      <4>2. /\ ToConsumer(w)' = (Append(seen[w], hold[w]) \o <<>>) \o <<>>
            /\ ToConsumer(w) = (seen[w] \o <<>>) \o <<hold[w]>>
        BY <3>2, <4>1 DEF ToConsumer
      <4>3. /\ seen[w] \in Seq(Request) /\ stream[w] \in Seq(Request)
            /\ hold[w] \in Request
        BY <4>1, ToConsumerType
      <4>4. (Append(seen[w], hold[w]) \o <<>>) \o <<>>
              = (seen[w] \o <<>>) \o <<hold[w]>>
        BY <4>3, LineMoves, ZenonT(30)
      <4>5. QED
        BY <4>2, <4>4
    <3>3. QED
      BY <3>1, <3>2
  <2>3. watch'[w] # "open" => w \notin subs'
    BY <2>1 DEF StreamInv
  <2>4. QED
    BY <1>2, <1>4, <2>1, <2>2, <2>3, LineKept
<1>10. CASE CloseStream(w)
  <2> DEFINE q == ToConsumer(w)
             n == seen[w] \o stream[w]
  <2>1. /\ watch'[w] = "closed" /\ w \notin subs' /\ hold'[w] = None
        /\ UNCHANGED <<want, stream, seen>>
    BY <1>10 DEF CloseStream, Unsubscribe, Types
  <2>2. /\ q \in Seq(Request) /\ n \in Seq(Request)
        /\ Passed(q, w) /\ Once(q)
    BY ToConsumerType DEF StreamInv
  <2>3. ToConsumer(w)' = n
    BY <2>1, <2>2, ConcatEmptySeq DEF ToConsumer
  <2>4. Len(n) <= Len(q) /\ \A i \in 1..Len(n) : n[i] = q[i]
    <3>1. CASE hold[w] = None
      BY <2>2, <3>1, ConcatEmptySeq DEF ToConsumer
    <3>2. CASE hold[w] # None
      <4>1. q = Append(n, hold[w]) /\ hold[w] \in Request
        BY <2>2, <3>2, ToConsumerType, AppendIsConcat DEF ToConsumer
      <4>2. QED
        <5> HIDE DEF q, n
        <5>1. QED
          BY <2>2, <4>1, AppendProperties, LenProperties
    <3>3. QED
      BY <3>1, <3>2
  <2>5. Len(n) \in Nat /\ Len(q) \in Nat
    BY <2>2, LenProperties
  <2>6. Passed(n, w) /\ Once(n)
    <3> HIDE DEF q, n
    <3>1. \A i \in 1..Len(n) : i \in 1..Len(q)
      BY <2>4, <2>5
    <3>2. QED
      BY <2>2, <2>4, <3>1 DEF Passed, Once
  <2>7. \A i \in 1..Len(n) :
          /\ want'[w] = NoProtocol \/ resp'[n[i]].proto = want'[w]
          /\ stage'[n[i]] \in Published
          /\ w \notin pending'[n[i]]
    <3> HIDE DEF q, n
    <3>1. QED
      BY <1>2, <2>1, <2>2, <2>6, PassedKept
  <2>8. Passed(ToConsumer(w), w)' /\ Once(ToConsumer(w))'
    <3> HIDE DEF q, n
    <3>1. Passed(ToConsumer(w), w)'
      BY <2>3, <2>7 DEF Passed, Wanted
    <3>2. Once(ToConsumer(w))'
      BY <2>3, <2>6 DEF Once
    <3>3. QED
      BY <3>1, <3>2
  <2>9. QED
    BY <1>4, <2>1, <2>8 DEF StreamKept
<1>11. QED
  BY <1>4, <1>5, <1>7, <1>8, <1>9, <1>10 DEF WatcherStep

(* No step gives a consumer what it did not ask for, or anything twice.    *)
LEMMA StreamStep ==
  ASSUME IInv, StreamInv, [Next]_vars
  PROVE  StreamInv'
<1> Types /\ QueueInv /\ StageInv
  BY DEF IInv
<1>1. ASSUME UNCHANGED <<stage, resp, pending, watcher>>,
             subs' \cap Watcher \subseteq subs
      PROVE  StreamInv'
  <2>1. Steady
    BY <1>1 DEF Steady
  <2>2. QED
    BY <1>1, <2>1, StreamFrame
<1>2. ASSUME NEW r \in Request, stage[r] \notin Published,
             NEW t, stage' = [stage EXCEPT ![r] = t],
             \A q \in Request : q # r => /\ resp'[q] = resp[q]
                                         /\ pending'[q] = pending[q],
             UNCHANGED <<subs, watcher>>
      PROVE  StreamInv'
  <2>1. Steady
    BY <1>2 DEF Steady, Types
  <2>2. QED
    BY <1>2, <2>1, StreamFrame
<1>3. ASSUME NEW r \in Request, CallerStep(r)
      PROVE  StreamInv'
  <2>1. /\ UNCHANGED <<resp, watcher>>
        /\ r \notin Watcher
    BY <1>3, CallerFrame, DispatcherAssumption
  <2>2. /\ subs' \subseteq subs \cup {r}
        /\ \A q \in Request : pending'[q] \subseteq pending[q]
    BY <1>3 DEF CallerStep, RejectNoProtocol, ExecSubscribe, Broadcast,
                PushMessage, PushRefused, CancelSend, RefuseMessage,
                ExecReturn, CancelWait, Unsubscribe, broker, Types
  <2>3. \A q \in Request : stage[q] \in Published => stage'[q] \in Published
    <3>1. CASE PushMessage(r)
      BY <3>1 DEF PushMessage, StageInv, Types, Published
    <3>2. CASE ~PushMessage(r)
      BY <1>3, <3>2, CallerFrame
    <3>3. QED
      BY <3>1, <3>2
  <2>4. Steady
    BY <2>1, <2>2, <2>3 DEF Steady
  <2>5. QED
    BY <2>1, <2>2, <2>4, StreamFrame
<1>4. ASSUME NEW r \in Request, ResponseStep(r)
      PROVE  StreamInv'
  <2>1. ASSUME NEW q, PushResponse(r, q) \/ LoseResponse(r, q)
        PROVE  StreamInv'
    <3>1. /\ stage[r] = "handling"
          /\ \E t \in Stage : stage' = [stage EXCEPT ![r] = t]
          /\ \A x \in Request : x # r => resp'[x] = resp[x]
          /\ UNCHANGED <<pending, subs, watcher>>
      BY <2>1 DEF PushResponse, LoseResponse, Handle, broker, Types, Stage
    <3>2. QED
      BY <1>2, <3>1 DEF Published
  <2>2. ASSUME NEW i, NEW q, Publish(r, i, q)
        PROVE  StreamInv'
    <3>1. /\ stage[r] = "intercepting"
          /\ stage' = [stage EXCEPT ![r] = "dispatching"]
          /\ \A x \in Request : x # r => /\ resp'[x] = resp[x]
                                         /\ pending'[x] = pending[x]
          /\ UNCHANGED <<subs, watcher>>
      BY <2>2 DEF Publish, Types
    <3>2. QED
      BY <1>2, <3>1 DEF Published
  <2>3. CASE FinishDispatch(r)
    <3>1. /\ stage[r] = "dispatching"
          /\ stage' = [stage EXCEPT ![r] = "dispatched"]
          /\ UNCHANGED <<resp, pending, subs, watcher>>
      BY <2>3 DEF FinishDispatch, broker
    <3>2. Steady
      BY <3>1 DEF Steady, Published, Types
    <3>3. QED
      BY <3>1, <3>2, StreamFrame
  <2>4. ASSUME NEW s \in Request, DeliverToExec(r, s)
        PROVE  StreamInv'
    <3>1. /\ UNCHANGED <<stage, resp, subs, watcher>>
          /\ \A x \in Request : pending'[x] \subseteq pending[x]
      BY <2>4 DEF DeliverToExec, Types
    <3>2. Steady
      BY <3>1 DEF Steady
    <3>3. QED
      BY <3>1, <3>2, StreamFrame
  <2>5. QED
    BY <1>4, <2>1, <2>2, <2>3, <2>4, DeliverKeepsStream
       DEF ResponseStep, HandleStep, PublishStep
<1>5. CASE ServiceStep
  <2>1. UNCHANGED <<resp, pending, subs, watcher>>
    BY <1>5, ServiceFrame DEF broker
  <2>2. CASE PopMessage
    <3>1. Head(pipe) \in Request /\ stage[Head(pipe)] = "queued"
      BY <2>2, HeadTailProperties DEF PopMessage, QueueInv, Holds, Types
    <3>2. QED
      BY <1>2, <2>1, <2>2, <3>1 DEF PopMessage, Published
  <2>3. CASE TakeResponse
    <3>1. Head(outgoing) \in Request /\ stage[Head(outgoing)] = "answered"
      BY <2>3, HeadTailProperties DEF TakeResponse, QueueInv, Holds, Types
    <3>2. QED
      BY <1>2, <2>1, <2>3, <3>1 DEF TakeResponse, Published
  <2>4. QED
    BY <1>1, <1>5, <2>1, <2>2, <2>3, ServiceFrame
<1>6. CASE UNCHANGED vars
  BY <1>1, <1>6 DEF vars, broker
<1>7. QED
  BY <1>3, <1>4, <1>5, <1>6, WatcherKeepsStream DEF Next

(* Every response that a Subscribe consumer has read or will read passed   *)
(* its filter and reaches it once: Dispatcher's StreamFilteredOnce.        *)
THEOREM StreamsAreFilteredOnce == Spec => []StreamFilteredOnce
<1>1. Init => StreamInv
  <2> SUFFICES ASSUME Init, NEW w \in Watcher
               PROVE  ToConsumer(w) = <<>> /\ w \notin subs
    BY DEF StreamInv, Passed, Once
  <2>1. hold[w] = None /\ stream[w] = <<>> /\ seen[w] = <<>> /\ subs = {}
    BY DEF Init
  <2>2. QED
    BY <2>1, ConcatEmptySeq DEF ToConsumer
<1>2. IInv /\ StreamInv => StreamFilteredOnce
  <2> SUFFICES ASSUME IInv, StreamInv, NEW w \in Watcher,
                      NEW i \in DOMAIN ToConsumer(w),
                      NEW j \in DOMAIN ToConsumer(w)
               PROVE  /\ Wanted(w, ToConsumer(w)[i])
                      /\ ToConsumer(w)[i] = ToConsumer(w)[j] => i = j
    BY DEF StreamFilteredOnce
  <2>1. ToConsumer(w) \in Seq(Request)
    BY ToConsumerType DEF IInv
  <2>2. i \in 1..Len(ToConsumer(w)) /\ j \in 1..Len(ToConsumer(w))
    BY <2>1, LenProperties
  <2>3. QED
    BY <2>2 DEF StreamInv, Passed, Once
<1>3. QED
  BY <1>1, <1>2, StreamStep, InductiveInvariant, PTL DEF Spec

-----------------------------------------------------------------------------
(* Interceptors that leave IDs alone: a response keeps its message's ID    *)
(* from the pool to the caller.                                            *)
SameId ==
  \A r \in Request :
    stage[r] \notin {"new", "queued", "handling"} => resp[r].id = mid[r]

(* A response keeps the ID of its message when no interceptor rewrites IDs. *)
LEMMA SameIdStep ==
  ASSUME Rewrite = {}, IInv, SameId, [Next]_vars
  PROVE  SameId'
<1> Types /\ QueueInv /\ StageInv
  BY DEF IInv
<1>1. CASE UNCHANGED <<stage, resp, mid>>
  BY <1>1 DEF SameId
<1>2. ASSUME NEW r \in Request, CallerStep(r)
      PROVE  SameId'
  <2>1. ASSUME NEW i, NEW p, ExecSubscribe(r, i, p) \/ Broadcast(r, i, p)
        PROVE  SameId'
    BY <2>1 DEF ExecSubscribe, Broadcast, SameId, StageInv, Types
  <2>2. CASE PushMessage(r)
    BY <2>2 DEF PushMessage, SameId, Types
  <2>3. CASE RejectNoProtocol(r)
    BY <1>1, <2>3 DEF RejectNoProtocol
  <2>4. CASE PushRefused(r) \/ CancelSend(r)
    BY <1>1, <2>4 DEF PushRefused, CancelSend, RefuseMessage
  <2>5. CASE ExecReturn(r) \/ CancelWait(r)
    BY <1>1, <2>5 DEF ExecReturn, CancelWait
  <2>6. QED
    BY <1>2, <2>1, <2>2, <2>3, <2>4, <2>5 DEF CallerStep
<1>3. ASSUME NEW r \in Request, ResponseStep(r)
      PROVE  SameId'
  <2>1. ASSUME NEW q, PushResponse(r, q)
        PROVE  SameId'
    BY <2>1 DEF PushResponse, Handle, SameId, Types, message
  <2>2. ASSUME NEW q, LoseResponse(r, q)
        PROVE  SameId'
    BY <2>2 DEF LoseResponse, Handle, SameId, Types, message
  <2>3. ASSUME NEW q, NEW i \in {resp[r].id} \cup Rewrite, Publish(r, i, q)
        PROVE  SameId'
    BY <2>3 DEF Publish, SameId, Types, message
  <2>4. CASE FinishDispatch(r)
    BY <2>4 DEF FinishDispatch, SameId, Types, message
  <2>5. ASSUME NEW s, DeliverToExec(r, s) \/ DeliverToWatcher(r, s)
        PROVE  SameId'
    BY <1>1, <2>5 DEF DeliverToExec, DeliverToWatcher, message
  <2>6. QED
    BY <1>3, <2>1, <2>2, <2>3, <2>4, <2>5
       DEF ResponseStep, HandleStep, PublishStep
<1>4. ASSUME NEW w \in Watcher, WatcherStep(w)
      PROVE  SameId'
  BY <1>1, <1>4, WatcherFrame DEF message
<1>5. CASE ServiceStep
  <2>1. CASE PopMessage
    <3>1. Head(pipe) \in Request /\ stage[Head(pipe)] = "queued"
      BY <2>1, HeadTailProperties DEF PopMessage, QueueInv, Holds, Types
    <3>2. QED
      BY <2>1, <3>1 DEF PopMessage, SameId, Types, message
  <2>2. CASE TakeResponse
    <3>1. Head(outgoing) \in Request /\ stage[Head(outgoing)] = "answered"
      BY <2>2, HeadTailProperties DEF TakeResponse, QueueInv, Holds, Types
    <3>2. QED
      BY <2>2, <3>1 DEF TakeResponse, SameId, Types, message
  <2>3. QED
    BY <1>1, <1>5, <2>1, <2>2, ServiceFrame DEF message
<1>6. QED
  BY <1>1, <1>2, <1>3, <1>4, <1>5 DEF Next, vars, message

(* The refinement mapping, step by step.                                   *)
LEMMA Outcomes ==
  /\ OutcomeOf["idle"] = "none"
  /\ OutcomeOf["sending"] = "pending"
  /\ OutcomeOf["waiting"] = "pending"
  /\ OutcomeOf["sent"] = "sent"
  /\ OutcomeOf["replied"] = "replied"
  /\ OutcomeOf["refused"] = "refused"
  /\ OutcomeOf["abandoned"] = "abandoned"
  BY DEF OutcomeOf

(* The initial states map to those of RequestReply.                        *)
LEMMA RefinesInit == Init => RR!Init
  BY Outcomes DEF Init, RR!Init

(* Steps that change neither a call nor a count are invisible.             *)
LEMMA Invisible ==
  ASSUME Types, MatchInv, UNCHANGED <<call, mid, handled>>,
         \A r \in Request : match[r] # None => match'[r] = match[r]
  PROVE  UNCHANGED RR!vars
<1>1. \A r \in Request : call[r] = "replied" => match'[r] = match[r]
  BY DEF MatchInv
<1>2. QED
  BY <1>1 DEF RR!vars

(* A step of a caller maps to a step of RequestReply or to none.           *)
LEMMA CallerRefines ==
  ASSUME Rewrite = {}, IInv, SameId, NEW r \in Request, CallerStep(r)
  PROVE  RR!Next \/ UNCHANGED RR!vars
<1> Types /\ StageInv /\ HandledInv /\ MatchInv
  BY DEF IInv
<1>1. UNCHANGED <<handled, match>>
  BY CallerFrame
<1>2. ASSUME NEW t \in CallState, call[r] # "replied", t # "replied",
             call' = [call EXCEPT ![r] = t]
      PROVE  /\ [q \in Request |-> OutcomeOf[call'[q]]]
                  = [[q \in Request |-> OutcomeOf[call[q]]]
                       EXCEPT ![r] = OutcomeOf[t]]
             /\ [q \in Request |-> IF call'[q] = "replied"
                                     THEN match[q] ELSE None]
                  = [q \in Request |-> IF call[q] = "replied"
                                         THEN match[q] ELSE None]
  BY <1>2 DEF Types
<1>3. ASSUME NEW i \in PopulateIDs(r), NEW p,
             ExecSubscribe(r, i, p) \/ Broadcast(r, i, p)
      PROVE  RR!Ask(r, i)
  <2>1. /\ call[r] = "idle" /\ call' = [call EXCEPT ![r] = "sending"]
        /\ mid' = [mid EXCEPT ![r] = i]
    BY <1>3 DEF ExecSubscribe, Broadcast
  <2>2. QED
    BY <1>1, <1>2, <2>1, Outcomes DEF RR!Ask, CallState
<1>4. ASSUME call[r] \in {"idle", "sending"},
             call' = [call EXCEPT ![r] = "refused"], mid' = mid
      PROVE  RR!Refuse(r)
  <2>1. handled[r] = 0
    BY <1>4 DEF StageInv, HandledInv
  <2>2. r \notin {x \in Request : handled[x] > 0}
    BY <2>1
  <2>3. OutcomeOf[call[r]] \in {"none", "pending"}
    BY <1>4, Outcomes
  <2>4. [q \in Request |-> OutcomeOf[call'[q]]]
          = [[q \in Request |-> OutcomeOf[call[q]]] EXCEPT ![r] = "refused"]
    BY <1>4, Outcomes DEF Types
  <2>5. [q \in Request |-> IF call'[q] = "replied" THEN match[q] ELSE None]
          = [q \in Request |-> IF call[q] = "replied" THEN match[q] ELSE None]
    BY <1>4 DEF Types
  <2>6. QED
    BY <1>1, <1>4, <2>2, <2>3, <2>4, <2>5 DEF RR!Refuse
<1>5. CASE RejectNoProtocol(r)
  BY <1>4, <1>5 DEF RejectNoProtocol, RR!Next
<1>6. CASE PushRefused(r) \/ CancelSend(r)
  BY <1>4, <1>6 DEF PushRefused, CancelSend, RefuseMessage, RR!Next
<1>7. CASE PushMessage(r)
  <2>1. CASE r \in subs
    <3>1. /\ call[r] = "sending" /\ mid' = mid
          /\ call' = [call EXCEPT ![r] = "waiting"]
      BY <1>7, <2>1 DEF PushMessage
    <3>2. [q \in Request |-> OutcomeOf[call'[q]]]
            = [q \in Request |-> OutcomeOf[call[q]]]
      BY <3>1, Outcomes DEF Types
    <3>3. QED
      BY <1>1, <1>2, <3>1, <3>2 DEF RR!vars, CallState
  <2>2. CASE r \notin subs
    <3>1. /\ call[r] = "sending" /\ mid' = mid
          /\ call' = [call EXCEPT ![r] = "sent"]
      BY <1>7, <2>2 DEF PushMessage
    <3>2. RR!Sent(r)
      BY <1>1, <1>2, <3>1, Outcomes DEF RR!Sent, CallState
    <3>3. QED
      BY <3>2 DEF RR!Next
  <2>3. QED
    BY <2>1, <2>2
<1>8. CASE ExecReturn(r)
  <2>1. /\ call[r] = "waiting" /\ match[r] # None /\ mid' = mid
        /\ call' = [call EXCEPT ![r] = "replied"]
    BY <1>8 DEF ExecReturn
  <2>2. /\ match[r] \in Request /\ handled[match[r]] = 1
        /\ mid[match[r]] = mid[r]
    <3>1. /\ match[r] \in Request
          /\ resp[match[r]].id = mid[r]
          /\ stage[match[r]] \in {"dispatching", "dispatched"}
      BY <2>1 DEF MatchInv, Types
    <3>2. stage[match[r]] \notin {"new", "queued", "handling"}
      BY <3>1
    <3>3. QED
      BY <3>1, <3>2 DEF HandledInv, SameId
  <2>3. PICK q \in Request :
          match[r] = q /\ handled[q] = 1 /\ mid[q] = mid[r]
    BY <2>2
  <2>4. /\ [x \in Request |-> OutcomeOf[call'[x]]]
             = [[x \in Request |-> OutcomeOf[call[x]]] EXCEPT ![r] = "replied"]
        /\ [x \in Request |-> IF call'[x] = "replied" THEN match[x] ELSE None]
             = [[x \in Request |-> IF call[x] = "replied" THEN match[x]
                                     ELSE None] EXCEPT ![r] = q]
    BY <2>1, <2>3, Outcomes DEF Types
  <2>5. RR!Reply(r, q)
    BY <1>1, <2>1, <2>3, <2>4, Outcomes DEF RR!Reply
  <2>6. QED
    BY <2>5 DEF RR!Next
<1>9. CASE CancelWait(r)
  <2>1. /\ call[r] = "waiting" /\ mid' = mid
        /\ call' = [call EXCEPT ![r] = "abandoned"]
    BY <1>9 DEF CancelWait
  <2>2. RR!Abandon(r)
    BY <1>1, <1>2, <2>1, Outcomes DEF RR!Abandon, CallState
  <2>3. QED
    BY <2>2 DEF RR!Next
<1>10. QED
  BY <1>3, <1>5, <1>6, <1>7, <1>8, <1>9 DEF CallerStep, PopulateIDs, RR!Next

(* So does a step of a message or its response.                            *)
LEMMA ResponseRefines ==
  ASSUME IInv, NEW r \in Request, ResponseStep(r)
  PROVE  RR!Next \/ UNCHANGED RR!vars
<1> Types /\ StageInv /\ HandledInv /\ MatchInv
  BY DEF IInv
<1>1. ASSUME NEW q, Handle(r, q)
      PROVE  RR!Serve(r)
  <2>1. /\ handled[r] = 0 /\ handled' = [handled EXCEPT ![r] = 1]
        /\ call[r] \notin {"idle", "sending", "refused"}
        /\ UNCHANGED <<call, mid, match>>
    <3>1. /\ stage[r] = "handling"
          /\ handled' = [handled EXCEPT ![r] = @ + 1]
          /\ UNCHANGED <<call, mid, match>>
      BY <1>1 DEF Handle, message
    <3>2. handled[r] = 0
      BY <3>1 DEF HandledInv
    <3>3. call[r] \notin {"idle", "sending", "refused"}
      BY <3>1 DEF StageInv
    <3>4. QED
      BY <3>1, <3>2, <3>3
  <2>2. {x \in Request : handled'[x] > 0}
          = {x \in Request : handled[x] > 0} \cup {r}
    BY <2>1 DEF Types
  <2>3. OutcomeOf[call[r]] \notin {"none", "refused"}
    BY <2>1, Outcomes DEF Types, CallState
  <2>4. QED
    BY <2>1, <2>2, <2>3 DEF RR!Serve
<1>2. ASSUME UNCHANGED <<message, handled, match>>
      PROVE  UNCHANGED RR!vars
  BY <1>2, Invisible DEF message
<1>3. ASSUME NEW s \in Request, DeliverToExec(r, s)
      PROVE  UNCHANGED RR!vars
  BY <1>3, Invisible DEF DeliverToExec, message, Types
<1>4. ASSUME NEW w, DeliverToWatcher(r, w)
      PROVE  UNCHANGED RR!vars
  BY <1>2, <1>4 DEF DeliverToWatcher
<1>5. ASSUME NEW i, NEW q, Publish(r, i, q) \/ FinishDispatch(r)
      PROVE  UNCHANGED RR!vars
  BY <1>2, <1>5 DEF Publish, FinishDispatch
<1>6. QED
  BY <1>1, <1>3, <1>4, <1>5
     DEF ResponseStep, HandleStep, PublishStep, PushResponse, LoseResponse,
         RR!Next

(* Every step maps to a step of RequestReply or to none.                   *)
LEMMA NextRefines ==
  ASSUME Rewrite = {}, IInv, SameId, [Next]_vars
  PROVE  [RR!Next]_(RR!vars)
<1> Types /\ MatchInv
  BY DEF IInv
<1>1. ASSUME UNCHANGED <<message, handled, match>>
      PROVE  UNCHANGED RR!vars
  BY <1>1, Invisible DEF message
<1>2. ASSUME NEW w \in Watcher, WatcherStep(w)
      PROVE  UNCHANGED RR!vars
  BY <1>1, <1>2, WatcherFrame
<1>3. CASE ServiceStep
  BY <1>1, <1>3, ServiceFrame
<1>4. CASE UNCHANGED vars
  BY <1>1, <1>4 DEF vars
<1>5. QED
  BY <1>2, <1>3, <1>4, CallerRefines, ResponseRefines DEF Next

(* When interceptors leave response IDs alone, the dispatcher implements   *)
(* RequestReply: processed at most once, never after a refusal, answered   *)
(* only from a processed message with the caller's ID.                     *)
THEOREM DispatcherRefinesRequestReply ==
  ASSUME Rewrite = {}
  PROVE  Spec => ImplementsRequestReply
<1>1. Init => SameId
  BY DEF Init, SameId
<1>2. IInv /\ SameId /\ [Next]_vars => SameId'
  BY SameIdStep
<1>3. Init => RR!Init
  BY RefinesInit
<1>4. IInv /\ SameId /\ [Next]_vars => [RR!Next]_(RR!vars)
  BY NextRefines
<1>5. QED
  BY <1>1, <1>2, <1>3, <1>4, InductiveInvariant, PTL
     DEF Spec, ImplementsRequestReply, RR!Spec

=============================================================================
