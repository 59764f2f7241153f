------------------------- MODULE DispatchHooksProofs -------------------------
(***************************************************************************)
(* Proofs about DispatchHooks, for any number of messages, protocols and   *)
(* hooks: hooks run in order, are selected by the protocol that the        *)
(* message was sent with, stop at the first error, are never skipped, and  *)
(* no error is lost.  What has run is compared with where the iterator is: *)
(* the last next[r] entries of ran[r] are those of the phase that is       *)
(* running (Position), and everything before belongs to earlier phases.    *)
(***************************************************************************)
EXTENDS DispatchHooks, FiniteSetTheorems, SequenceTheorems, TLAPS

Phases == {"mwProto", "mwAll", "handler", "icAll", "icProto"}
Upstream == {"mwProto", "mwAll", "handler"}
Downstream == {"icAll", "icProto"}
Answered == Downstream \cup {"published"}

Reasons == {"middleware", "handler", "no handler", "interceptor"}

Entry == [phase : Phases, key : Key, hook : Nat, ok : BOOLEAN]

Sent == [mwProto : Nat, mwAll : Nat, handler : BOOLEAN, ic : [Key -> Nat]]

Types ==
  /\ middleware \in [Key -> Nat] /\ interceptor \in [Key -> Nat]
  /\ handlers \subseteq Protocol
  /\ phase \in [Request -> Phases \cup {"new", "published"}]
  /\ key \in [Request -> Key]
  /\ least \in [Request -> Nat] /\ next \in [Request -> Nat]
  /\ protocol \in [Request -> Key] /\ rewritten \in [Request -> Key]
  /\ err \in [Request -> SUBSET Reasons]
  /\ ran \in [Request -> Seq(Entry)]
  /\ atSend \in [Request -> Sent]

(* Hooks are never unregistered.                                           *)
Registered(r) ==
  phase[r] # "new" =>
    /\ atSend[r].mwProto <= middleware[protocol[r]]
    /\ atSend[r].mwAll <= middleware[NoProtocol]
    /\ atSend[r].handler => protocol[r] \in handlers
    /\ \A k \in Key : atSend[r].ic[k] <= interceptor[k]

(* What the current phase loads its hooks with, and how many it must meet. *)
Opened(r) ==
  /\ phase[r] = "mwProto" => key[r] = protocol[r] /\ atSend[r].mwProto <= least[r]
  /\ phase[r] = "mwAll" => key[r] = NoProtocol /\ atSend[r].mwAll <= least[r]
  /\ phase[r] = "handler" => key[r] = protocol[r]
  /\ phase[r] = "icAll" => key[r] = NoProtocol /\ atSend[r].ic[NoProtocol] <= least[r]
  /\ phase[r] = "icProto" => atSend[r].ic[key[r]] <= least[r]

(* Where the iterator is in what has run.                                  *)
Position(r) ==
  /\ phase[r] = "new" => ran[r] = <<>>
  /\ phase[r] = "handler" => next[r] = 0
  /\ phase[r] \in Phases =>
       /\ next[r] <= Len(ran[r])
       /\ \A n \in DOMAIN ran[r] :
            /\ Rank(ran[r][n].phase) <= Rank(phase[r])
            /\ ran[r][n].phase = phase[r] <=> n > Len(ran[r]) - next[r]
            /\ ran[r][n].phase = phase[r] => ran[r][n].hook = n - (Len(ran[r]) - next[r])

Ordered(r) ==
  \A m, n \in DOMAIN ran[r] :
    m < n =>
      \/ Rank(ran[r][m].phase) < Rank(ran[r][n].phase)
      \/ /\ ran[r][m].phase = ran[r][n].phase
         /\ ran[r][n].hook - ran[r][m].hook = n - m

Selected(r) ==
  \A n \in DOMAIN ran[r] :
    /\ ran[r][n].phase \in {"mwProto", "handler"} => ran[r][n].key = protocol[r]
    /\ ran[r][n].phase \in {"mwAll", "icAll"} => ran[r][n].key = NoProtocol
    /\ ran[r][n].phase = "icProto" => ran[r][n].key = key[r]

(* Errors so far, and what they put an end to.                             *)
Errors(r) ==
  /\ phase[r] \notin Answered => err[r] = {}
  /\ \A n \in DOMAIN ran[r] :
       ~ran[r][n].ok =>
         /\ err[r] # {}
         /\ ran[r][n].phase \in Downstream => phase[r] = "published"
  /\ \A m, n \in DOMAIN ran[r] :
       m < n /\ ~ran[r][m].ok =>
         ran[r][m].phase \in Upstream /\ ran[r][n].phase \in Downstream

(* What each phase that has ended ran.                                     *)
Counted(r) ==
  /\ phase[r] \in Phases \ {"handler"} => Ran(r, phase[r]) = next[r]
  /\ phase[r] = "handler" => Ran(r, "handler") = 0
  /\ ~Failed(r, {"mwProto", "mwAll"}) =>
       /\ phase[r] \in {"mwAll", "handler"} \cup Answered => Ran(r, "mwProto") >= atSend[r].mwProto
       /\ phase[r] \in {"handler"} \cup Answered => Ran(r, "mwAll") >= atSend[r].mwAll
       /\ phase[r] \in Answered /\ atSend[r].handler => Ran(r, "handler") = 1
  /\ phase[r] \in Answered /\ err[r] = {} => Ran(r, "handler") = 1
  /\ ~Failed(r, Downstream) =>
       /\ phase[r] \in {"icProto", "published"} => Ran(r, "icAll") >= atSend[r].ic[NoProtocol]
       /\ phase[r] = "published" => Ran(r, "icProto") >= atSend[r].ic[key[r]]

Kept(r) ==
  /\ Registered(r) /\ Opened(r) /\ Position(r) /\ Ordered(r) /\ Selected(r)
  /\ Errors(r) /\ Counted(r)

IInv == Types /\ \A r \in Request : Kept(r)

-----------------------------------------------------------------------------
(* The phases in the order in which a message goes through them.           *)
LEMMA Ranks ==
  /\ Rank("mwProto") = 1 /\ Rank("mwAll") = 2 /\ Rank("handler") = 3
  /\ Rank("icAll") = 4 /\ Rank("icProto") = 5
  /\ \A ph \in Phases : Rank(ph) \in 1 .. 5
  /\ \A ph, qh \in Phases : Rank(ph) = Rank(qh) => ph = qh
<1>1. /\ DOMAIN Phase = 1 .. 5
      /\ Phase[1] = "mwProto" /\ Phase[2] = "mwAll" /\ Phase[3] = "handler"
      /\ Phase[4] = "icAll" /\ Phase[5] = "icProto"
  BY DEF Phase
<1>2. ASSUME NEW ph, NEW i \in 1 .. 5, Phase[i] = ph,
             \A j \in 1 .. 5 : Phase[j] = ph => j = i
      PROVE  Rank(ph) = i
  BY <1>1, <1>2 DEF Rank
<1>3. Rank("mwProto") = 1 /\ Rank("mwAll") = 2 /\ Rank("handler") = 3
      /\ Rank("icAll") = 4 /\ Rank("icProto") = 5
  <2>1. \A j \in 1 .. 5 : j = 1 \/ j = 2 \/ j = 3 \/ j = 4 \/ j = 5
    OBVIOUS
  <2> QED BY <1>1, <1>2, <2>1
<1> QED BY <1>3 DEF Phases

Count(s, ph) == Cardinality({n \in DOMAIN s : s[n].phase = ph})

(* Counting the entries of a phase.                                        *)
LEMMA CountIsNatural ==
  ASSUME NEW s \in Seq(Entry), NEW ph
  PROVE  /\ IsFiniteSet({n \in DOMAIN s : s[n].phase = ph})
         /\ Count(s, ph) \in Nat
         /\ (\A n \in DOMAIN s : s[n].phase # ph) => Count(s, ph) = 0
<1> DEFINE A == {n \in DOMAIN s : s[n].phase = ph}
<1>1. Len(s) \in Nat /\ DOMAIN s = 1 .. Len(s)
  BY LenProperties
<1>2. IsFiniteSet(1 .. Len(s))
  BY <1>1, FS_Interval
<1>3. A \in SUBSET (1 .. Len(s))
  BY <1>1
<1>4. IsFiniteSet(A)
  BY <1>2, <1>3, FS_Subset
<1>5. Cardinality(A) \in Nat
  BY <1>4, FS_CardinalityType
<1>6. (\A n \in DOMAIN s : s[n].phase # ph) => A = {}
  OBVIOUS
<1>7. Cardinality({}) = 0
  BY FS_EmptySet
<1> QED BY <1>4, <1>5, <1>6, <1>7 DEF Count

LEMMA CountAppended ==
  ASSUME NEW s \in Seq(Entry), NEW e \in Entry, NEW ph
  PROVE  Count(Append(s, e), ph) = Count(s, ph) + (IF e.phase = ph THEN 1 ELSE 0)
<1> DEFINE A == {n \in DOMAIN s : s[n].phase = ph}
           t == Append(s, e)
           B == {n \in DOMAIN t : t[n].phase = ph}
<1>1. /\ Len(s) \in Nat /\ DOMAIN s = 1 .. Len(s)
      /\ t \in Seq(Entry) /\ Len(t) = Len(s) + 1
      /\ \A n \in 1 .. Len(s) : t[n] = s[n]
      /\ t[Len(s) + 1] = e
  OBVIOUS
<1>2. DOMAIN t = 1 .. Len(s) + 1
  BY <1>1
<1>3. IsFiniteSet(A) /\ Cardinality(A) \in Nat
  BY CountIsNatural DEF Count
<1>4. Len(s) + 1 \notin A
  BY <1>1
<1>5. B = IF e.phase = ph THEN A \cup {Len(s) + 1} ELSE A
  <2>1. \A n : n \in DOMAIN t <=> n \in 1 .. Len(s) \/ n = Len(s) + 1
    BY <1>1, <1>2
  <2>2. \A n \in 1 .. Len(s) : n \in B <=> n \in A
    BY <1>1, <2>1
  <2>3. Len(s) + 1 \in B <=> e.phase = ph
    BY <1>1, <2>1
  <2> QED BY <1>1, <1>4, <2>1, <2>2, <2>3
<1>6. CASE e.phase = ph
  <2>1. Cardinality(A \cup {Len(s) + 1}) = Cardinality(A) + 1
    BY <1>3, <1>4, FS_AddElement
  <2> QED BY <1>5, <1>6, <2>1 DEF Count
<1>7. CASE e.phase # ph
  <2>1. B = A
    BY <1>5, <1>7
  <2>2. Count(t, ph) = Cardinality(A) /\ Count(s, ph) = Cardinality(A)
    BY <2>1 DEF Count
  <2> QED BY <1>3, <1>7, <2>2
<1> QED BY <1>6, <1>7

(* What a hook that runs adds to the history.                              *)
LEMMA Logged ==
  ASSUME Types, NEW r \in Request, NEW good \in BOOLEAN, phase[r] \in Phases, Log(r, good)
  PROVE  /\ ran' \in [Request -> Seq(Entry)]
         /\ \A q \in Request \ {r} : ran'[q] = ran[q]
         /\ Len(ran[r]) \in Nat /\ Len(ran'[r]) = Len(ran[r]) + 1
         /\ DOMAIN ran[r] = 1 .. Len(ran[r]) /\ DOMAIN ran'[r] = 1 .. Len(ran[r]) + 1
         /\ \A n \in DOMAIN ran[r] : ran[r][n] \in Entry /\ ran'[r][n] = ran[r][n]
         /\ ran'[r][Len(ran[r]) + 1] =
              [phase |-> phase[r], key |-> key[r], hook |-> next[r] + 1, ok |-> good]
         /\ \A ph : Ran(r, ph)' = Ran(r, ph) + (IF phase[r] = ph THEN 1 ELSE 0)
<1> DEFINE e == [phase |-> phase[r], key |-> key[r], hook |-> next[r] + 1, ok |-> good]
           s == ran[r]
<1>1. e \in Entry
  BY DEF Types, Entry
<1>2. s \in Seq(Entry) /\ e.phase = phase[r]
  BY DEF Types
<1>3. ran' = [ran EXCEPT ![r] = Append(s, e)]
  BY DEF Log
<1> HIDE DEF e
<1>4. /\ Append(s, e) \in Seq(Entry) /\ Len(s) \in Nat /\ Len(Append(s, e)) = Len(s) + 1
      /\ DOMAIN s = 1 .. Len(s) /\ DOMAIN Append(s, e) = 1 .. Len(s) + 1
      /\ \A n \in 1 .. Len(s) : s[n] \in Entry /\ Append(s, e)[n] = s[n]
      /\ Append(s, e)[Len(s) + 1] = e
  BY <1>1, <1>2
<1>5. ran'[r] = Append(s, e)
  BY <1>3 DEF Types
<1>6. \A ph : Ran(r, ph)' = Ran(r, ph) + (IF phase[r] = ph THEN 1 ELSE 0)
  <2> TAKE ph
  <2>1. Count(Append(s, e), ph) = Count(s, ph) + (IF e.phase = ph THEN 1 ELSE 0)
    BY <1>1, <1>2, CountAppended
  <2>2. Ran(r, ph) = Count(s, ph)
    BY DEF Ran, Count
  <2>3. Ran(r, ph)' = Count(Append(s, e), ph)
    BY <1>5 DEF Ran, Count
  <2> QED BY <1>2, <2>1, <2>2, <2>3
<1>7. ran' \in [Request -> Seq(Entry)] /\ \A q \in Request \ {r} : ran'[q] = ran[q]
  BY <1>3, <1>4 DEF Types
<1> QED BY <1>4, <1>5, <1>6, <1>7 DEF e

(* A phase that begins: its iterator is in front of all hooks.             *)
LEMMA Entered ==
  ASSUME Types, NEW r \in Request, NEW ph \in Phases, NEW k \in Key,
         NEW table \in [Key -> Nat], Enter(r, ph, k, table)
  PROVE  /\ phase' \in [Request -> Phases \cup {"new", "published"}]
         /\ key' \in [Request -> Key] /\ least' \in [Request -> Nat]
         /\ next' \in [Request -> Nat]
         /\ phase'[r] = ph /\ key'[r] = k /\ least'[r] = table[k] /\ next'[r] = 0
         /\ \A q \in Request \ {r} :
              /\ phase'[q] = phase[q] /\ key'[q] = key[q]
              /\ least'[q] = least[q] /\ next'[q] = next[q]
BY DEF Types, Enter

-----------------------------------------------------------------------------
(* Steps of other messages, and registrations.                             *)

Unmoved(q) ==
  /\ phase'[q] = phase[q] /\ key'[q] = key[q] /\ least'[q] = least[q]
  /\ next'[q] = next[q] /\ protocol'[q] = protocol[q] /\ err'[q] = err[q]
  /\ ran'[q] = ran[q] /\ atSend'[q] = atSend[q]

Grown ==
  /\ \A k \in Key : middleware[k] <= middleware'[k] /\ interceptor[k] <= interceptor'[k]
  /\ handlers \subseteq handlers'

LEMMA RegisteredGrows ==
  ASSUME Types, Types', Grown, NEW r \in Request, Registered(r),
         phase'[r] # "new" => phase[r] # "new",
         atSend'[r] = atSend[r], protocol'[r] = protocol[r]
  PROVE  Registered(r)'
<1> SUFFICES ASSUME phase'[r] # "new"
             PROVE  /\ atSend[r].mwProto <= middleware'[protocol[r]]
                    /\ atSend[r].mwAll <= middleware'[NoProtocol]
                    /\ atSend[r].handler => protocol[r] \in handlers'
                    /\ \A k \in Key : atSend[r].ic[k] <= interceptor'[k]
  BY DEF Registered
<1>1. /\ atSend[r] \in Sent /\ protocol[r] \in Key /\ NoProtocol \in Key
      /\ middleware \in [Key -> Nat] /\ interceptor \in [Key -> Nat]
      /\ middleware' \in [Key -> Nat] /\ interceptor' \in [Key -> Nat]
  BY DEF Types, Key
<1>2. /\ atSend[r].mwProto \in Nat /\ atSend[r].mwAll \in Nat
      /\ atSend[r].ic \in [Key -> Nat]
  BY <1>1 DEF Sent
<1>3. /\ atSend[r].mwProto <= middleware[protocol[r]]
      /\ atSend[r].mwAll <= middleware[NoProtocol]
      /\ atSend[r].handler => protocol[r] \in handlers
      /\ \A k \in Key : atSend[r].ic[k] <= interceptor[k]
  BY DEF Registered
<1>4. \A k \in Key : /\ middleware[k] \in Nat /\ middleware'[k] \in Nat
                     /\ interceptor[k] \in Nat /\ interceptor'[k] \in Nat
                     /\ atSend[r].ic[k] \in Nat
  BY <1>1, <1>2
<1> QED BY <1>1, <1>2, <1>3, <1>4 DEF Grown

LEMMA Unregistered ==
  ASSUME Types, UNCHANGED <<middleware, interceptor, handlers>>
  PROVE  Grown
<1>1. \A k \in Key : middleware[k] \in Nat /\ interceptor[k] \in Nat
  BY DEF Types
<1> QED BY <1>1 DEF Grown

LEMMA OthersKeep ==
  ASSUME Types, Types', Grown, NEW q \in Request, Kept(q), Unmoved(q)
  PROVE  Kept(q)'
<1>1. Registered(q)'
  BY RegisteredGrows DEF Kept, Unmoved
<1>2. Opened(q)' /\ Position(q)' /\ Ordered(q)' /\ Selected(q)' /\ Errors(q)'
  BY DEF Kept, Unmoved, Opened, Position, Ordered, Selected, Errors
<1>3. Counted(q)'
  BY DEF Kept, Unmoved, Counted, Ran, Failed
<1> QED BY <1>1, <1>2, <1>3 DEF Kept

-----------------------------------------------------------------------------
(* Types.                                                                  *)
LEMMA TypesInit == Init => Types
BY DEF Init, Types, Snapshot, Sent, Key, Entry

LEMMA TypesStep ==
  ASSUME Types, [Next]_vars
  PROVE  Types'
<1>1. NoProtocol \in Key /\ Protocol \subseteq Key /\ [k \in Key |-> 0] \in [Key -> Nat]
  BY DEF Key
<1>2. ASSUME NEW k \in Key, AddMiddleware(k) \/ AddInterceptor(k)
      PROVE  Types'
  <2>1. middleware' \in [Key -> Nat] /\ interceptor' \in [Key -> Nat]
    <3>1. ASSUME NEW f \in [Key -> Nat] PROVE [f EXCEPT ![k] = @ + 1] \in [Key -> Nat]
      OBVIOUS
    <3>2. middleware \in [Key -> Nat] /\ interceptor \in [Key -> Nat]
      BY DEF Types
    <3>3. CASE AddMiddleware(k)
      BY <3>1, <3>2, <3>3 DEF AddMiddleware
    <3>4. CASE AddInterceptor(k)
      BY <3>1, <3>2, <3>4 DEF AddInterceptor
    <3> QED BY <1>2, <3>3, <3>4
  <2>2. UNCHANGED <<handlers, phase, key, least, next, protocol, rewritten, err, ran, atSend>>
    BY <1>2 DEF AddMiddleware, AddInterceptor, cursor
  <2> QED BY <2>1, <2>2 DEF Types
<1>3. ASSUME NEW p \in Protocol, SetHandler(p)
      PROVE  Types'
  BY <1>3 DEF SetHandler, Types, cursor
<1>4. ASSUME NEW r \in Request, NEW p \in Protocol, Begin(r, p)
      PROVE  Types'
  <2>1. Enter(r, "mwProto", p, middleware)
    BY <1>4 DEF Begin
  <2>2. Snapshot(p) \in Sent
    BY <1>1 DEF Snapshot, Sent, Types
  <2>3. /\ atSend' \in [Request -> Sent]
        /\ protocol' \in [Request -> Key] /\ rewritten' \in [Request -> Key]
    BY <1>1, <1>4, <2>2 DEF Begin, Types
  <2>4. UNCHANGED <<registry, err, ran>>
    BY <1>4 DEF Begin
  <2>5. "mwProto" \in Phases /\ middleware \in [Key -> Nat]
    BY DEF Phases, Types
  <2> QED BY <1>1, <2>1, <2>3, <2>4, <2>5, Entered DEF Types, registry
<1>5. ASSUME NEW r \in Request, NEW p \in Protocol, RunHook(r, p)
      PROVE  Types'
  <2>1. phase[r] \in Phases /\ Log(r, TRUE)
    BY <1>5 DEF RunHook, Phases
  <2>2. ran' \in [Request -> Seq(Entry)]
    BY <2>1, Logged
  <2>3. next' \in [Request -> Nat] /\ rewritten' \in [Request -> Key]
    BY <1>1, <1>5 DEF RunHook, Types
  <2>4. UNCHANGED <<registry, phase, key, least, protocol, err, atSend>>
    BY <1>5 DEF RunHook
  <2> QED BY <2>2, <2>3, <2>4 DEF Types, registry
<1>6. ASSUME NEW r \in Request, MiddlewareDone(r)
      PROVE  Types'
  <2>1. \/ Enter(r, "mwAll", NoProtocol, middleware)
        \/ Enter(r, "handler", protocol[r], [k \in Key |-> 0])
    BY <1>6 DEF MiddlewareDone
  <2>2. UNCHANGED <<registry, protocol, rewritten, err, ran, atSend>>
    BY <1>6 DEF MiddlewareDone
  <2>3. "mwAll" \in Phases /\ "handler" \in Phases /\ middleware \in [Key -> Nat]
        /\ protocol[r] \in Key
    BY DEF Phases, Types
  <2> QED BY <1>1, <2>1, <2>2, <2>3, Entered DEF Types, registry
<1>7. ASSUME NEW r \in Request, MiddlewareFails(r)
      PROVE  Types'
  <2>1. Enter(r, "icAll", NoProtocol, interceptor) /\ Log(r, FALSE) /\ phase[r] \in Phases
    BY <1>7 DEF MiddlewareFails, Phases
  <2>2. ran' \in [Request -> Seq(Entry)]
    BY <2>1, Logged
  <2>3. err' \in [Request -> SUBSET Reasons] /\ rewritten' \in [Request -> Key]
    <3>1. {"middleware"} \in SUBSET Reasons
      BY DEF Reasons
    <3>2. err' = [err EXCEPT ![r] = {"middleware"}]
      BY <1>7 DEF MiddlewareFails
    <3>3. err' \in [Request -> SUBSET Reasons]
      BY <3>1, <3>2 DEF Types
    <3>4. rewritten' \in [Request -> Key]
      BY <1>7 DEF MiddlewareFails, Types
    <3> QED BY <3>3, <3>4
  <2>4. UNCHANGED <<registry, protocol, atSend>>
    BY <1>7 DEF MiddlewareFails
  <2>5. "icAll" \in Phases /\ interceptor \in [Key -> Nat]
    BY DEF Phases, Types
  <2> QED BY <1>1, <2>1, <2>2, <2>3, <2>4, <2>5, Entered DEF Types, registry
<1>8. ASSUME NEW r \in Request, NEW q \in Key, NEW good \in BOOLEAN, DoHandler(r, q, good)
      PROVE  Types'
  <2>1. Enter(r, "icAll", NoProtocol, interceptor) /\ Log(r, good) /\ phase[r] \in Phases
    BY <1>8 DEF DoHandler, Phases
  <2>2. ran' \in [Request -> Seq(Entry)]
    BY <2>1, Logged
  <2>3. err' \in [Request -> SUBSET Reasons] /\ rewritten' \in [Request -> Key]
    <3>1. (IF good THEN {} ELSE {"handler"}) \in SUBSET Reasons
      BY DEF Reasons
    <3>2. err' = [err EXCEPT ![r] = IF good THEN {} ELSE {"handler"}]
      BY <1>8 DEF DoHandler
    <3>3. err' \in [Request -> SUBSET Reasons]
      BY <3>1, <3>2 DEF Types
    <3>4. rewritten' \in [Request -> Key]
      BY <1>8 DEF DoHandler, Types
    <3> QED BY <3>3, <3>4
  <2>4. UNCHANGED <<registry, protocol, atSend>>
    BY <1>8 DEF DoHandler
  <2>5. "icAll" \in Phases /\ interceptor \in [Key -> Nat]
    BY DEF Phases, Types
  <2> QED BY <1>1, <2>1, <2>2, <2>3, <2>4, <2>5, Entered DEF Types, registry
<1>9. ASSUME NEW r \in Request, NoHandler(r)
      PROVE  Types'
  <2>1. Enter(r, "icAll", NoProtocol, interceptor)
    BY <1>9 DEF NoHandler
  <2>2. err' \in [Request -> SUBSET Reasons] /\ rewritten' \in [Request -> Key]
    <3>1. {"no handler"} \in SUBSET Reasons
      BY DEF Reasons
    <3>2. err' = [err EXCEPT ![r] = {"no handler"}]
      BY <1>9 DEF NoHandler
    <3>3. err' \in [Request -> SUBSET Reasons]
      BY <3>1, <3>2 DEF Types
    <3>4. rewritten' \in [Request -> Key]
      BY <1>9 DEF NoHandler, Types
    <3> QED BY <3>3, <3>4
  <2>3. UNCHANGED <<registry, protocol, ran, atSend>>
    BY <1>9 DEF NoHandler
  <2>4. "icAll" \in Phases /\ interceptor \in [Key -> Nat]
    BY DEF Phases, Types
  <2> QED BY <1>1, <2>1, <2>2, <2>3, <2>4, Entered DEF Types, registry
<1>10. ASSUME NEW r \in Request, InterceptorsDone(r)
       PROVE  Types'
  <2>1. UNCHANGED <<registry, protocol, rewritten, err, ran, atSend>>
    BY <1>10 DEF InterceptorsDone
  <2>2. CASE Enter(r, "icProto", rewritten[r], interceptor)
    <3>1. "icProto" \in Phases /\ interceptor \in [Key -> Nat] /\ rewritten[r] \in Key
      BY DEF Phases, Types
    <3> QED BY <2>1, <2>2, <3>1, Entered DEF Types, registry
  <2>3. CASE Publish(r)
    BY <2>1, <2>3 DEF Types, registry, Publish
  <2> QED BY <1>10, <2>2, <2>3 DEF InterceptorsDone
<1>11. ASSUME NEW r \in Request, InterceptorFails(r)
       PROVE  Types'
  <2>1. Log(r, FALSE) /\ phase[r] \in Phases /\ Publish(r)
    BY <1>11 DEF InterceptorFails, Phases
  <2>2. ran' \in [Request -> Seq(Entry)]
    BY <2>1, Logged
  <2>3. err' \in [Request -> SUBSET Reasons]
    <3>1. err[r] \in SUBSET Reasons /\ "interceptor" \in Reasons
      BY DEF Types, Reasons
    <3> DEFINE e == {"interceptor"} \cup IF phase[r] = "icAll" THEN {} ELSE err[r]
    <3>2. err' = [err EXCEPT ![r] = e]
      BY <1>11 DEF InterceptorFails
    <3>3. e \in SUBSET Reasons
      BY <3>1
    <3> HIDE DEF e
    <3> QED BY <3>2, <3>3 DEF Types
  <2>4. UNCHANGED <<registry, protocol, rewritten, atSend>>
    BY <1>11 DEF InterceptorFails
  <2>5. phase' \in [Request -> Phases \cup {"new", "published"}]
        /\ UNCHANGED <<key, least, next>>
    BY <2>1 DEF Publish, Types
  <2> QED BY <2>2, <2>3, <2>4, <2>5 DEF Types, registry
<1>12. CASE UNCHANGED vars
  BY <1>12 DEF vars, registry, cursor, Types
<1> QED
  BY <1>2, <1>3, <1>4, <1>5, <1>6, <1>7, <1>8, <1>9, <1>10, <1>11, <1>12
  DEF Next, Register, Process

-----------------------------------------------------------------------------
(* What a hook that runs keeps, wherever the message goes then.            *)

(* The entries so far belong to the phase that is running or earlier ones. *)
LEMMA PhasesSoFar ==
  ASSUME Types, NEW r \in Request, Position(r), phase[r] \in Phases, NEW n \in DOMAIN ran[r]
  PROVE  /\ ran[r][n] \in Entry /\ ran[r][n].phase \in Phases
         /\ Rank(ran[r][n].phase) \in 1 .. 5 /\ Rank(phase[r]) \in 1 .. 5
         /\ Rank(ran[r][n].phase) <= Rank(phase[r])
<1>1. ran[r] \in Seq(Entry)
  BY DEF Types
<1>2. ran[r][n] \in Entry
  BY <1>1, LenProperties, ElementOfSeq
<1>3. ran[r][n].phase \in Phases
  BY <1>2 DEF Entry
<1> QED BY <1>2, <1>3, Ranks DEF Position

LEMMA OrderedAfterLog ==
  ASSUME Types, NEW r \in Request, NEW good \in BOOLEAN, phase[r] \in Phases,
         Position(r), Ordered(r), Log(r, good)
  PROVE  Ordered(r)'
<1> DEFINE L == Len(ran[r])
<1>1. /\ L \in Nat /\ DOMAIN ran[r] = 1 .. L /\ DOMAIN ran'[r] = 1 .. L + 1
      /\ \A n \in 1 .. L : ran'[r][n] = ran[r][n]
      /\ ran'[r][L + 1] =
           [phase |-> phase[r], key |-> key[r], hook |-> next[r] + 1, ok |-> good]
  BY Logged
<1>2. next[r] \in Nat /\ next[r] <= L
  BY DEF Types, Position
<1> HIDE DEF L
<1>3. SUFFICES ASSUME NEW m \in 1 .. L + 1, NEW n \in 1 .. L + 1, m < n
               PROVE  \/ Rank(ran'[r][m].phase) < Rank(ran'[r][n].phase)
                      \/ /\ ran'[r][m].phase = ran'[r][n].phase
                         /\ ran'[r][n].hook - ran'[r][m].hook = n - m
  BY <1>1 DEF Ordered
<1>4. m \in 1 .. L
  BY <1>1, <1>3
<1>5. CASE n \in 1 .. L
  BY <1>1, <1>3, <1>4, <1>5 DEF Ordered
<1>6. CASE n = L + 1
  <2>1. ran'[r][m] = ran[r][m] /\ ran'[r][n].phase = phase[r]
        /\ ran'[r][n].hook = next[r] + 1
    BY <1>1, <1>4, <1>6
  <2>2. CASE ran[r][m].phase = phase[r]
    <3>1. ran[r][m].hook = m - (L - next[r])
      BY <1>1, <1>4, <2>2 DEF Position, L
    <3> QED BY <1>1, <1>2, <1>4, <1>6, <2>1, <2>2, <3>1
  <2>3. CASE ran[r][m].phase # phase[r]
    <3>1. /\ ran[r][m].phase \in Phases
          /\ Rank(ran[r][m].phase) \in 1 .. 5 /\ Rank(phase[r]) \in 1 .. 5
          /\ Rank(ran[r][m].phase) <= Rank(phase[r])
      BY <1>1, <1>4, PhasesSoFar
    <3>2. Rank(ran[r][m].phase) # Rank(phase[r])
      BY <2>3, <3>1, Ranks
    <3> QED BY <2>1, <3>1, <3>2
  <2> QED BY <2>2, <2>3
<1> QED BY <1>1, <1>5, <1>6

(* Nothing in front of the current phase has run.                          *)
LEMMA NotYet ==
  ASSUME Types, NEW r \in Request, Position(r), phase[r] \in Phases,
         NEW ph \in Phases, Rank(ph) > Rank(phase[r])
  PROVE  Ran(r, ph) = 0 /\ \A n \in DOMAIN ran[r] : ran[r][n].phase # ph
<1>1. \A n \in DOMAIN ran[r] : ran[r][n].phase # ph
  BY PhasesSoFar, Ranks
<1>2. ran[r] \in Seq(Entry)
  BY DEF Types
<1> QED BY <1>1, <1>2, CountIsNatural DEF Ran, Count

LEMMA RanIsNatural ==
  ASSUME Types, NEW r \in Request, NEW ph
  PROVE  Ran(r, ph) \in Nat
<1>1. ran[r] \in Seq(Entry)
  BY DEF Types
<1> QED BY <1>1, CountIsNatural DEF Ran, Count

(* Phases that begin when another has ended: nothing has been added.       *)
LEMMA PositionAtStart ==
  ASSUME Types, NEW r \in Request, Position(r), phase[r] \in Phases,
         NEW ph \in Phases, Rank(ph) > Rank(phase[r]),
         phase'[r] = ph, next'[r] = 0, ran'[r] = ran[r]
  PROVE  Position(r)'
<1>1. ran[r] \in Seq(Entry) /\ Len(ran[r]) \in Nat /\ DOMAIN ran[r] = 1 .. Len(ran[r])
  BY LenProperties DEF Types
<1>2. \A n \in DOMAIN ran[r] :
        /\ Rank(ran[r][n].phase) <= Rank(ph)
        /\ ran[r][n].phase # ph
  BY PhasesSoFar, NotYet, Ranks
<1>3. ph # "new"
  BY DEF Phases
<1> QED BY <1>1, <1>2, <1>3 DEF Position

LEMMA PositionAfterLog ==
  ASSUME Types, NEW r \in Request, NEW good \in BOOLEAN, Position(r), phase[r] \in Phases,
         NEW ph \in Phases, Rank(ph) > Rank(phase[r]),
         phase'[r] = ph, next'[r] = 0, Log(r, good)
  PROVE  Position(r)'
<1> DEFINE L == Len(ran[r])
<1>1. /\ L \in Nat /\ DOMAIN ran[r] = 1 .. L /\ DOMAIN ran'[r] = 1 .. L + 1
      /\ Len(ran'[r]) = L + 1
      /\ \A n \in 1 .. L : ran'[r][n] = ran[r][n]
      /\ ran'[r][L + 1].phase = phase[r]
  <2>1. ran'[r][L + 1] =
          [phase |-> phase[r], key |-> key[r], hook |-> next[r] + 1, ok |-> good]
    BY Logged
  <2> QED BY <2>1, Logged
<1>2. \A n \in DOMAIN ran[r] :
        /\ Rank(ran[r][n].phase) <= Rank(ph)
        /\ ran[r][n].phase # ph
  BY PhasesSoFar, NotYet, Ranks
<1>3. Rank(phase[r]) <= Rank(ph) /\ phase[r] # ph
  BY Ranks
<1>4. \A n \in DOMAIN ran'[r] :
        /\ Rank(ran'[r][n].phase) <= Rank(ph)
        /\ ran'[r][n].phase # ph
  <2>1. \A n \in 1 .. L + 1 : n \in 1 .. L \/ n = L + 1
    BY <1>1
  <2> QED BY <1>1, <1>2, <1>3, <2>1
<1>5. ph # "new"
  BY DEF Phases
<1> QED BY <1>1, <1>4, <1>5 DEF Position

LEMMA FailedAfterLog ==
  ASSUME Types, NEW r \in Request, NEW good \in BOOLEAN, phase[r] \in Phases,
         Log(r, good), NEW phs
  PROVE  Failed(r, phs)' <=> Failed(r, phs) \/ (phase[r] \in phs /\ ~good)
<1> DEFINE L == Len(ran[r])
<1>1. /\ L \in Nat /\ DOMAIN ran[r] = 1 .. L /\ DOMAIN ran'[r] = 1 .. L + 1
      /\ \A n \in 1 .. L : ran'[r][n] = ran[r][n]
      /\ ran'[r][L + 1] =
           [phase |-> phase[r], key |-> key[r], hook |-> next[r] + 1, ok |-> good]
  BY Logged
<1> HIDE DEF L
<1>2. /\ ran'[r][L + 1].phase = phase[r] /\ ran'[r][L + 1].ok = good
      /\ \A n : n \in 1 .. L + 1 <=> n \in 1 .. L \/ n = L + 1
  BY <1>1
<1> QED BY <1>1, <1>2 DEF Failed

(* An error of a middleware or the handler may precede interceptors, and   *)
(* no other error precedes anything.                                       *)
LEMMA ErrorsBefore ==
  ASSUME Types, NEW r \in Request, phase[r] \in Phases, Position(r), Errors(r),
         NEW m \in DOMAIN ran[r], ~ran[r][m].ok
  PROVE  ran[r][m].phase \in Upstream /\ phase[r] \in Downstream
<1>1. ran[r][m].phase \in Phases
  BY PhasesSoFar
<1>2. phase[r] # "published"
  BY DEF Phases
<1>3. ran[r][m].phase \notin Downstream /\ phase[r] \in Answered
  BY <1>2 DEF Errors
<1> QED BY <1>1, <1>2, <1>3 DEF Phases, Upstream, Downstream, Answered

LEMMA ErrorsAfterLog ==
  ASSUME Types, NEW r \in Request, NEW good \in BOOLEAN, phase[r] \in Phases,
         Position(r), Errors(r), Log(r, good),
         phase'[r] \notin Answered => err'[r] = {},
         err[r] # {} /\ phase[r] \in Downstream => err'[r] # {},
         ~good => err'[r] # {},
         ~good /\ phase[r] \in Downstream => phase'[r] = "published"
  PROVE  Errors(r)'
<1> DEFINE L == Len(ran[r])
<1>1. /\ L \in Nat /\ DOMAIN ran[r] = 1 .. L /\ DOMAIN ran'[r] = 1 .. L + 1
      /\ \A n \in 1 .. L : ran'[r][n] = ran[r][n]
      /\ ran'[r][L + 1] =
           [phase |-> phase[r], key |-> key[r], hook |-> next[r] + 1, ok |-> good]
  BY Logged
<1> HIDE DEF L
<1>2. /\ ran'[r][L + 1].phase = phase[r] /\ ran'[r][L + 1].ok = good
      /\ \A n : n \in 1 .. L + 1 <=> n \in 1 .. L \/ n = L + 1
  BY <1>1
<1>3. \A m \in 1 .. L : ~ran[r][m].ok => ran[r][m].phase \in Upstream /\ phase[r] \in Downstream
  BY <1>1, ErrorsBefore
<1>4. Upstream \cap Downstream = {}
  BY DEF Upstream, Downstream
<1>5. ASSUME NEW n \in 1 .. L + 1, ~ran'[r][n].ok
      PROVE  err'[r] # {} /\ (ran'[r][n].phase \in Downstream => phase'[r] = "published")
  <2>1. CASE n = L + 1
    BY <1>2, <1>5, <2>1
  <2>2. CASE n \in 1 .. L
    <3>1. ran[r][n].phase \in Upstream /\ phase[r] \in Downstream /\ err[r] # {}
      BY <1>1, <1>3, <1>5, <2>2 DEF Errors
    <3> QED BY <1>1, <1>4, <2>2, <3>1
  <2> QED BY <1>2, <2>1, <2>2
<1>6. ASSUME NEW m \in 1 .. L + 1, NEW n \in 1 .. L + 1, m < n, ~ran'[r][m].ok
      PROVE  ran'[r][m].phase \in Upstream /\ ran'[r][n].phase \in Downstream
  <2>1. m \in 1 .. L
    BY <1>1, <1>6
  <2>2. ran'[r][m] = ran[r][m]
    BY <1>1, <2>1
  <2>3. CASE n = L + 1
    BY <1>2, <1>3, <1>6, <2>1, <2>2, <2>3
  <2>4. CASE n \in 1 .. L
    BY <1>1, <1>6, <2>1, <2>2, <2>4 DEF Errors
  <2> QED BY <1>2, <2>3, <2>4
<1> QED BY <1>1, <1>5, <1>6 DEF Errors

(* The key that a new entry has, and that of the interceptors.             *)
LEMMA SelectedAfterLog ==
  ASSUME Types, NEW r \in Request, NEW good \in BOOLEAN, phase[r] \in Phases,
         Position(r), Opened(r), Selected(r), Log(r, good), protocol'[r] = protocol[r],
         phase[r] = "icProto" => key'[r] = key[r]
  PROVE  Selected(r)'
<1> DEFINE L == Len(ran[r])
<1>1. /\ L \in Nat /\ DOMAIN ran[r] = 1 .. L /\ DOMAIN ran'[r] = 1 .. L + 1
      /\ \A n \in 1 .. L : ran'[r][n] = ran[r][n]
      /\ ran'[r][L + 1] =
           [phase |-> phase[r], key |-> key[r], hook |-> next[r] + 1, ok |-> good]
  BY Logged
<1> HIDE DEF L
<1>2. /\ ran'[r][L + 1].phase = phase[r] /\ ran'[r][L + 1].key = key[r]
      /\ \A n : n \in 1 .. L + 1 <=> n \in 1 .. L \/ n = L + 1
  BY <1>1
<1>3. \A n \in 1 .. L : ran[r][n].phase = "icProto" => phase[r] = "icProto"
  BY <1>1, PhasesSoFar, Ranks
<1>5. ASSUME NEW n \in 1 .. L + 1
      PROVE /\ ran'[r][n].phase \in {"mwProto", "handler"} => ran'[r][n].key = protocol'[r]
            /\ ran'[r][n].phase \in {"mwAll", "icAll"} => ran'[r][n].key = NoProtocol
            /\ ran'[r][n].phase = "icProto" => ran'[r][n].key = key'[r]
  <2>1. CASE n = L + 1
    BY <1>2, <2>1 DEF Opened
  <2>2. CASE n \in 1 .. L
    BY <1>1, <1>3, <2>2 DEF Selected
  <2> QED BY <1>2, <2>1, <2>2
<1> QED BY <1>1, <1>5 DEF Selected

-----------------------------------------------------------------------------
(* The steps of a message keep what holds of it.                           *)

LEMMA BeginKeeps ==
  ASSUME Types, Types', NEW r \in Request, NEW p \in Protocol, Kept(r), Begin(r, p)
  PROVE  Kept(r)'
<1>1. phase[r] = "new" /\ Enter(r, "mwProto", p, middleware)
  BY DEF Begin
<1>2. p \in Key /\ NoProtocol \in Key /\ "mwProto" \in Phases /\ middleware \in [Key -> Nat]
      /\ interceptor \in [Key -> Nat]
  BY DEF Key, Phases, Types
<1>3. phase'[r] = "mwProto" /\ key'[r] = p /\ least'[r] = middleware[p] /\ next'[r] = 0
  BY <1>1, <1>2, Entered
<1>4. /\ protocol'[r] = p /\ atSend'[r] = Snapshot(p)
      /\ UNCHANGED <<middleware, interceptor, handlers, err, ran>>
  BY DEF Begin, Types, registry
<1>5. ran'[r] = <<>> /\ err'[r] = {}
  BY <1>1, <1>4 DEF Kept, Position, Errors, Answered, Downstream
<1>6. Registered(r)'
  <2>1. \A k \in Key : middleware[k] \in Nat /\ interceptor[k] \in Nat
    BY <1>2
  <2>2. /\ atSend'[r].mwProto = middleware[p] /\ atSend'[r].mwAll = middleware[NoProtocol]
        /\ atSend'[r].ic = interceptor
    BY <1>4 DEF Snapshot
  <2>3. atSend'[r].handler => protocol'[r] \in handlers'
    <3>1. atSend'[r].handler = (p \in handlers)
      BY <1>4 DEF Snapshot
    <3>2. protocol'[r] = p /\ handlers' = handlers
      BY <1>4
    <3> QED BY <3>1, <3>2, Zenon
  <2>4. /\ atSend'[r].mwProto <= middleware'[protocol'[r]]
        /\ atSend'[r].mwAll <= middleware'[NoProtocol]
        /\ \A k \in Key : atSend'[r].ic[k] <= interceptor'[k]
    BY <1>2, <1>4, <2>1, <2>2
  <2> QED BY <2>3, <2>4 DEF Registered
<1>7. Opened(r)'
  BY <1>2, <1>3, <1>4 DEF Opened, Snapshot
<1>8. Position(r)' /\ Ordered(r)' /\ Selected(r)' /\ Errors(r)'
  BY <1>3, <1>5 DEF Position, Ordered, Selected, Errors
<1>9. Counted(r)'
  <2>1. <<>> \in Seq(Entry) /\ DOMAIN <<>> = {}
    OBVIOUS
  <2>2. Ran(r, "mwProto")' = 0
    BY <1>5, <2>1, CountIsNatural DEF Ran, Count
  <2> QED BY <1>3, <2>2 DEF Counted, Answered, Downstream
<1> QED BY <1>6, <1>7, <1>8, <1>9 DEF Kept

LEMMA RunHookKeeps ==
  ASSUME Types, Types', NEW r \in Request, NEW p \in Protocol, Kept(r), RunHook(r, p)
  PROVE  Kept(r)'
<1> DEFINE L == Len(ran[r])
<1>1. phase[r] \in Phases \ {"handler"} /\ Log(r, TRUE)
  BY DEF RunHook, Phases
<1>2. /\ UNCHANGED <<middleware, interceptor, handlers, phase, key, least, protocol, err, atSend>>
      /\ next'[r] = next[r] + 1
  BY DEF RunHook, registry, Types
<1>3. Registered(r)'
  <2>1. Registered(r) /\ (phase'[r] # "new" => phase[r] # "new")
        /\ atSend'[r] = atSend[r] /\ protocol'[r] = protocol[r]
    BY <1>2 DEF Kept
  <2> QED BY <1>2, <2>1, Unregistered, RegisteredGrows
<1>4. Opened(r)'
  BY <1>2 DEF Kept, Opened
<1>5. Position(r)'
  <2>1. /\ L \in Nat /\ DOMAIN ran[r] = 1 .. L /\ DOMAIN ran'[r] = 1 .. L + 1
        /\ Len(ran'[r]) = L + 1
        /\ \A n \in 1 .. L : ran'[r][n] = ran[r][n]
        /\ ran'[r][L + 1] =
             [phase |-> phase[r], key |-> key[r], hook |-> next[r] + 1, ok |-> TRUE]
    BY <1>1, Logged
  <2>2. next[r] \in Nat /\ next[r] <= L /\ phase[r] # "new" /\ Rank(phase[r]) \in Int
    <3>1. phase[r] \in Phases /\ phase[r] # "new"
      BY <1>1 DEF Phases
    <3>2. next[r] <= L
      BY <3>1 DEF Kept, Position
    <3> QED BY <3>1, <3>2, Ranks DEF Types
  <2>3. \A n \in 1 .. L :
          /\ Rank(ran[r][n].phase) <= Rank(phase[r])
          /\ ran[r][n].phase = phase[r] <=> n > L - next[r]
          /\ ran[r][n].phase = phase[r] => ran[r][n].hook = n - (L - next[r])
    BY <1>1, <2>1 DEF Kept, Position
  <2> HIDE DEF L
  <2>4. ASSUME NEW n \in 1 .. L + 1
        PROVE  /\ Rank(ran'[r][n].phase) <= Rank(phase[r])
               /\ ran'[r][n].phase = phase[r] <=> n > (L + 1) - (next[r] + 1)
               /\ ran'[r][n].phase = phase[r]
                    => ran'[r][n].hook = n - ((L + 1) - (next[r] + 1))
    <3>1. (L + 1) - (next[r] + 1) = L - next[r]
      BY <2>1, <2>2
    <3>2. CASE n = L + 1
      BY <2>1, <2>2, <3>1, <3>2
    <3>3. CASE n \in 1 .. L
      BY <2>1, <2>3, <3>1, <3>3
    <3> QED BY <2>1, <3>2, <3>3
  <2>5. phase'[r] = phase[r] /\ next'[r] = next[r] + 1
    BY <1>2
  <2>6. DOMAIN ran'[r] = 1 .. L + 1 /\ Len(ran'[r]) = L + 1 /\ next'[r] <= L + 1
    BY <2>1, <2>2, <2>5
  <2>7. phase'[r] # "new" /\ phase'[r] # "handler"
    BY <2>5 DEF RunHook
  <2>8. ASSUME NEW n \in DOMAIN ran'[r]
        PROVE  /\ Rank(ran'[r][n].phase) <= Rank(phase'[r])
               /\ ran'[r][n].phase = phase'[r] <=> n > Len(ran'[r]) - next'[r]
               /\ ran'[r][n].phase = phase'[r]
                    => ran'[r][n].hook = n - (Len(ran'[r]) - next'[r])
    <3>1. n \in 1 .. L + 1
      BY <2>6
    <3> QED BY <2>4, <2>5, <2>6, <3>1
  <2> QED BY <2>5, <2>6, <2>7, <2>8 DEF Position
<1>6. Ordered(r)'
  BY <1>1, OrderedAfterLog DEF Kept
<1>7. Selected(r)'
  BY <1>1, <1>2, SelectedAfterLog DEF Kept
<1>8. Errors(r)'
  BY <1>1, <1>2, ErrorsAfterLog DEF Kept, Errors
<1>9. Counted(r)'
  <2>1. \A ph : Ran(r, ph)' = Ran(r, ph) + (IF phase[r] = ph THEN 1 ELSE 0)
    BY <1>1, Logged
  <2>2. \A phs : Failed(r, phs)' <=> Failed(r, phs)
    BY <1>1, FailedAfterLog
  <2>3. \A ph : Ran(r, ph) \in Nat
    BY RanIsNatural
  <2>4. \A ph : phase[r] # ph => Ran(r, ph)' = Ran(r, ph)
    BY <2>1, <2>3
  <2>5. phase[r] # "handler" /\ phase[r] # "published"
        /\ Ran(r, phase[r])' = Ran(r, phase[r]) + 1
    <3>1. phase[r] # "handler" /\ phase[r] # "published"
      BY <1>1 DEF Phases
    <3>2. Ran(r, phase[r])' = Ran(r, phase[r]) + (IF phase[r] = phase[r] THEN 1 ELSE 0)
      BY <1>2, <2>1
    <3> QED BY <3>1, <3>2
  <2>6. atSend[r].mwProto \in Nat /\ atSend[r].mwAll \in Nat /\ atSend[r].ic[NoProtocol] \in Nat
    BY DEF Types, Sent, Key
  <2> HIDE DEF L
  <2>7. Counted(r)
    BY DEF Kept
  <2>8. Ran(r, phase[r])' = next'[r]
    BY <1>1, <1>2, <2>5, <2>7 DEF Counted
  <2> QED
    BY <1>1, <1>2, <2>2, <2>3, <2>4, <2>5, <2>6, <2>7, <2>8 DEF Counted, Answered, Downstream
<1> QED BY <1>3, <1>4, <1>5, <1>6, <1>7, <1>8, <1>9 DEF Kept

(* The parts that no phase that begins can disturb.                        *)
LEMMA RegisteredStays ==
  ASSUME Types, Types', NEW r \in Request, Kept(r), phase[r] \in Phases,
         UNCHANGED <<registry, protocol, atSend>>
  PROVE  Registered(r)'
<1>1. UNCHANGED <<middleware, interceptor, handlers>>
  BY DEF registry
<1>2. Registered(r) /\ phase[r] # "new"
  BY DEF Kept, Phases
<1> QED BY <1>1, <1>2, Unregistered, RegisteredGrows

(* What was registered when the message was sent, as numbers.              *)
LEMMA Promised ==
  ASSUME Types, NEW r \in Request
  PROVE  /\ atSend[r].mwProto \in Nat /\ atSend[r].mwAll \in Nat
         /\ atSend[r].ic[NoProtocol] \in Nat /\ \A k \in Key : atSend[r].ic[k] \in Nat
         /\ next[r] \in Nat /\ least[r] \in Nat /\ key[r] \in Key
         /\ \A k \in Key : middleware[k] \in Nat /\ interceptor[k] \in Nat
BY DEF Types, Sent, Key

LEMMA MiddlewareDoneKeeps ==
  ASSUME Types, Types', NEW r \in Request, Kept(r), MiddlewareDone(r)
  PROVE  Kept(r)'
<1>1. /\ phase[r] \in {"mwProto", "mwAll"} /\ phase[r] \in Phases /\ phase[r] # "handler"
      /\ phase[r] \notin Answered /\ next[r] >= least[r]
      /\ UNCHANGED <<registry, protocol, err, ran, atSend>>
  BY DEF MiddlewareDone, Phases, PhaseDone, Answered, Downstream
<1>2. \/ phase[r] = "mwProto" /\ Enter(r, "mwAll", NoProtocol, middleware)
      \/ phase[r] = "mwAll" /\ Enter(r, "handler", protocol[r], [k \in Key |-> 0])
  BY DEF MiddlewareDone
<1>3. /\ "mwAll" \in Phases /\ "handler" \in Phases /\ NoProtocol \in Key
      /\ protocol[r] \in Key /\ middleware \in [Key -> Nat]
      /\ [k \in Key |-> 0] \in [Key -> Nat]
  BY DEF Phases, Key, Types
<1>4. \/ /\ phase[r] = "mwProto" /\ phase'[r] = "mwAll"
         /\ key'[r] = NoProtocol /\ least'[r] = middleware[NoProtocol] /\ next'[r] = 0
      \/ /\ phase[r] = "mwAll" /\ phase'[r] = "handler"
         /\ key'[r] = protocol[r] /\ next'[r] = 0
  BY <1>2, <1>3, Entered
<1>5. Registered(r)'
  BY <1>1, RegisteredStays
<1>6. Opened(r)'
  <2>1. atSend[r].mwAll <= middleware[NoProtocol]
    BY <1>1 DEF Kept, Registered
  <2> QED BY <1>1, <1>4, <2>1 DEF Opened
<1>7. Position(r)'
  <2>1. Rank(phase'[r]) > Rank(phase[r]) /\ phase'[r] \in Phases /\ next'[r] = 0
    BY <1>3, <1>4, Ranks
  <2> QED BY <1>1, <2>1, PositionAtStart DEF Kept
<1>8. Ordered(r)'
  BY <1>1 DEF Kept, Ordered
<1>9. Selected(r)'
  <2>1. \A n \in DOMAIN ran[r] : ran[r][n].phase # "icProto"
    BY <1>1, PhasesSoFar, Ranks DEF Kept
  <2> QED BY <1>1, <2>1 DEF Kept, Selected
<1>10. Errors(r)'
  <2>1. \A n \in DOMAIN ran[r] : ran[r][n].ok
    BY <1>1, ErrorsBefore DEF Kept, Answered
  <2> QED BY <1>1, <2>1 DEF Kept, Errors
<1>11. Counted(r)'
  <2>1. Ran(r, phase'[r]) = 0
    <3>1. Rank(phase'[r]) > Rank(phase[r]) /\ phase'[r] \in Phases
      BY <1>3, <1>4, Ranks
    <3> QED BY <1>1, <3>1, NotYet DEF Kept
  <2>2. /\ \A ph : Ran(r, ph)' = Ran(r, ph)
        /\ \A phs : Failed(r, phs)' <=> Failed(r, phs)
    BY <1>1 DEF Ran, Failed
  <2>3. Ran(r, phase[r]) = next[r]
    BY <1>1 DEF Kept, Counted
  <2>4. phase[r] = "mwProto" => Ran(r, "mwProto") >= atSend[r].mwProto
    <3> SUFFICES ASSUME phase[r] = "mwProto" PROVE Ran(r, "mwProto") >= atSend[r].mwProto
      OBVIOUS
    <3>1. atSend[r].mwProto <= least[r]
      BY DEF Kept, Opened
    <3> QED BY <1>1, <2>3, <3>1, Promised
  <2>5. phase[r] = "mwAll" => Ran(r, "mwAll") >= atSend[r].mwAll
    <3> SUFFICES ASSUME phase[r] = "mwAll" PROVE Ran(r, "mwAll") >= atSend[r].mwAll
      OBVIOUS
    <3>1. atSend[r].mwAll <= least[r]
      BY DEF Kept, Opened
    <3> QED BY <1>1, <2>3, <3>1, Promised
  <2>6. phase[r] = "mwAll" /\ ~Failed(r, {"mwProto", "mwAll"})
          => Ran(r, "mwProto") >= atSend[r].mwProto
    BY DEF Kept, Counted
  <2>7. phase'[r] \notin Answered /\ (phase'[r] = "mwAll" \/ phase'[r] = "handler")
        /\ phase'[r] # "icProto" /\ phase'[r] # "published"
    BY <1>4 DEF Answered, Downstream
  <2>8. phase'[r] = "mwAll" => phase[r] = "mwProto"
    BY <1>4
  <2>9. phase'[r] = "handler" => phase[r] = "mwAll"
    BY <1>4
  <2>10. next'[r] = 0 /\ atSend'[r] = atSend[r]
    BY <1>1, <1>4
  <2> QED
    BY <2>1, <2>2, <2>4, <2>5, <2>6, <2>7, <2>8, <2>9, <2>10 DEF Counted
<1> QED BY <1>5, <1>6, <1>7, <1>8, <1>9, <1>10, <1>11 DEF Kept

LEMMA MiddlewareFailsKeeps ==
  ASSUME Types, Types', NEW r \in Request, Kept(r), MiddlewareFails(r)
  PROVE  Kept(r)'
<1>1. /\ phase[r] \in {"mwProto", "mwAll"} /\ phase[r] \in Phases
      /\ phase[r] \notin Downstream /\ Log(r, FALSE)
      /\ Enter(r, "icAll", NoProtocol, interceptor)
      /\ UNCHANGED <<registry, protocol, atSend>>
  BY DEF MiddlewareFails, Phases, Downstream
<1>2. err'[r] = {"middleware"} /\ err'[r] # {}
  BY DEF MiddlewareFails, Types
<1>3. "icAll" \in Phases /\ NoProtocol \in Key /\ interceptor \in [Key -> Nat]
  BY DEF Phases, Key, Types
<1>4. /\ phase'[r] = "icAll" /\ key'[r] = NoProtocol
      /\ least'[r] = interceptor[NoProtocol] /\ next'[r] = 0
  BY <1>1, <1>3, Entered
<1>5. phase'[r] \in Answered /\ phase[r] # "icProto" /\ Rank("icAll") > Rank(phase[r])
  BY <1>1, <1>4, Ranks DEF Answered, Downstream
<1>6. Registered(r)'
  BY <1>1, RegisteredStays
<1>7. Opened(r)'
  <2>1. atSend[r].ic[NoProtocol] <= interceptor[NoProtocol]
    BY <1>1, <1>3 DEF Kept, Registered, Phases
  <2> QED BY <1>1, <1>4, <2>1 DEF Opened
<1>8. Position(r)'
  BY <1>1, <1>3, <1>4, <1>5, PositionAfterLog DEF Kept
<1>9. Ordered(r)'
  BY <1>1, OrderedAfterLog DEF Kept
<1>10. Selected(r)'
  BY <1>1, <1>5, SelectedAfterLog DEF Kept
<1>11. Errors(r)'
  BY <1>1, <1>2, <1>5, ErrorsAfterLog DEF Kept
<1>12. Counted(r)'
  <2>1. Failed(r, {"mwProto", "mwAll"})'
    BY <1>1, FailedAfterLog
  <2>2. Ran(r, "icAll")' = 0
    <3>1. Ran(r, "icAll") = 0
      BY <1>1, <1>3, <1>5, NotYet DEF Kept
    <3>2. Ran(r, "icAll")' = Ran(r, "icAll") + (IF phase[r] = "icAll" THEN 1 ELSE 0)
      BY <1>1, Logged
    <3> QED BY <1>1, <3>1, <3>2
  <2> QED BY <1>2, <1>4, <2>1, <2>2 DEF Counted
<1> QED BY <1>6, <1>7, <1>8, <1>9, <1>10, <1>11, <1>12 DEF Kept

LEMMA DoHandlerKeeps ==
  ASSUME Types, Types', NEW r \in Request, NEW q \in Key, NEW good \in BOOLEAN,
         Kept(r), DoHandler(r, q, good)
  PROVE  Kept(r)'
<1>1. /\ phase[r] = "handler" /\ phase[r] \in Phases /\ phase[r] \notin Answered
      /\ Log(r, good) /\ Enter(r, "icAll", NoProtocol, interceptor)
      /\ UNCHANGED <<registry, protocol, atSend>>
  BY DEF DoHandler, Phases, Answered, Downstream
<1>2. ~good => err'[r] # {}
  BY DEF DoHandler, Types
<1>3. "icAll" \in Phases /\ NoProtocol \in Key /\ interceptor \in [Key -> Nat]
  BY DEF Phases, Key, Types
<1>4. /\ phase'[r] = "icAll" /\ key'[r] = NoProtocol
      /\ least'[r] = interceptor[NoProtocol] /\ next'[r] = 0
  BY <1>1, <1>3, Entered
<1>5. phase'[r] \in Answered /\ phase[r] # "icProto" /\ phase[r] \notin Downstream
      /\ Rank("icAll") > Rank(phase[r])
  BY <1>1, <1>4, Ranks DEF Answered, Downstream
<1>6. Registered(r)'
  BY <1>1, RegisteredStays
<1>7. Opened(r)'
  <2>1. atSend[r].ic[NoProtocol] <= interceptor[NoProtocol]
    BY <1>1, <1>3 DEF Kept, Registered, Phases
  <2> QED BY <1>1, <1>4, <2>1 DEF Opened
<1>8. Position(r)'
  BY <1>1, <1>3, <1>4, <1>5, PositionAfterLog DEF Kept
<1>9. Ordered(r)'
  BY <1>1, OrderedAfterLog DEF Kept
<1>10. Selected(r)'
  BY <1>1, <1>5, SelectedAfterLog DEF Kept
<1>11. Errors(r)'
  BY <1>1, <1>2, <1>5, ErrorsAfterLog DEF Kept
<1>12. Counted(r)'
  <2>1. \A ph : Ran(r, ph)' = Ran(r, ph) + (IF phase[r] = ph THEN 1 ELSE 0)
    BY <1>1, Logged
  <2>2. Ran(r, "icAll") = 0 /\ Ran(r, "handler") = 0
    <3>1. Ran(r, "icAll") = 0
      BY <1>1, <1>3, <1>5, NotYet DEF Kept
    <3> QED BY <1>1, <3>1 DEF Kept, Counted
  <2>3. Ran(r, "mwProto")' = Ran(r, "mwProto") /\ Ran(r, "mwAll")' = Ran(r, "mwAll")
    BY <1>1, <2>1, RanIsNatural
  <2>4. Ran(r, "icAll")' = 0 /\ Ran(r, "handler")' = 1
    BY <1>1, <2>1, <2>2
  <2>5. Failed(r, {"mwProto", "mwAll"})' <=> Failed(r, {"mwProto", "mwAll"})
    BY <1>1, FailedAfterLog
  <2>6. ~Failed(r, {"mwProto", "mwAll"}) =>
          Ran(r, "mwProto") >= atSend[r].mwProto /\ Ran(r, "mwAll") >= atSend[r].mwAll
    BY <1>1 DEF Kept, Counted
  <2> QED BY <1>1, <1>4, <2>3, <2>4, <2>5, <2>6 DEF Counted
<1> QED BY <1>6, <1>7, <1>8, <1>9, <1>10, <1>11, <1>12 DEF Kept

LEMMA NoHandlerKeeps ==
  ASSUME Types, Types', NEW r \in Request, Kept(r), NoHandler(r)
  PROVE  Kept(r)'
<1>1. /\ phase[r] = "handler" /\ phase[r] \in Phases /\ phase[r] \notin Answered
      /\ key[r] \notin handlers /\ Enter(r, "icAll", NoProtocol, interceptor)
      /\ UNCHANGED <<registry, protocol, ran, atSend>>
  BY DEF NoHandler, Phases, Answered, Downstream
<1>2. err'[r] # {}
  BY DEF NoHandler, Types
<1>3. "icAll" \in Phases /\ NoProtocol \in Key /\ interceptor \in [Key -> Nat]
  BY DEF Phases, Key, Types
<1>4. /\ phase'[r] = "icAll" /\ key'[r] = NoProtocol
      /\ least'[r] = interceptor[NoProtocol] /\ next'[r] = 0
  BY <1>1, <1>3, Entered
<1>5. phase'[r] \in Answered /\ Rank("icAll") > Rank(phase[r])
  BY <1>1, <1>4, Ranks DEF Answered, Downstream
<1>6. Registered(r)'
  BY <1>1, RegisteredStays
<1>7. Opened(r)'
  <2>1. atSend[r].ic[NoProtocol] <= interceptor[NoProtocol]
    BY <1>1, <1>3 DEF Kept, Registered, Phases
  <2> QED BY <1>1, <1>4, <2>1 DEF Opened
<1>8. Position(r)'
  BY <1>1, <1>3, <1>4, <1>5, PositionAtStart DEF Kept
<1>9. Ordered(r)'
  BY <1>1 DEF Kept, Ordered
<1>10. Selected(r)'
  <2>1. \A n \in DOMAIN ran[r] : ran[r][n].phase # "icProto"
    BY <1>1, PhasesSoFar, Ranks DEF Kept
  <2> QED BY <1>1, <2>1 DEF Kept, Selected
<1>11. Errors(r)'
  <2>1. \A n \in DOMAIN ran[r] : ran[r][n].ok
    BY <1>1, ErrorsBefore DEF Kept, Answered
  <2> QED BY <1>1, <1>2, <1>5, <2>1 DEF Kept, Errors
<1>12. Counted(r)'
  <2>1. Ran(r, "icAll") = 0
    BY <1>1, <1>3, <1>5, NotYet DEF Kept
  <2>2. atSend[r].handler => FALSE
    BY <1>1 DEF Kept, Registered, Opened
  <2>3. /\ \A ph : Ran(r, ph)' = Ran(r, ph)
        /\ \A phs : Failed(r, phs)' <=> Failed(r, phs)
    BY <1>1 DEF Ran, Failed
  <2>4. ~Failed(r, {"mwProto", "mwAll"}) =>
          Ran(r, "mwProto") >= atSend[r].mwProto /\ Ran(r, "mwAll") >= atSend[r].mwAll
    BY <1>1 DEF Kept, Counted
  <2>5. atSend'[r] = atSend[r]
    BY <1>1
  <2>6. ~atSend'[r].handler
    BY <2>2, <2>5, Zenon
  <2> QED BY <1>2, <1>4, <2>1, <2>3, <2>4, <2>5, <2>6 DEF Counted
<1> QED BY <1>6, <1>7, <1>8, <1>9, <1>10, <1>11, <1>12 DEF Kept

(* The two ends of the interceptors: those of the response's protocol      *)
(* begin after the general ones, and the response leaves after those.      *)
LEMMA GeneralInterceptorsDoneKeeps ==
  ASSUME Types, Types', NEW r \in Request, Kept(r), PhaseDone(r), phase[r] = "icAll",
         Enter(r, "icProto", rewritten[r], interceptor),
         UNCHANGED <<registry, protocol, rewritten, err, ran, atSend>>
  PROVE  Kept(r)'
<1>1. /\ phase[r] \in Phases /\ phase[r] \in Answered /\ next[r] >= least[r]
      /\ "icProto" \in Phases /\ rewritten[r] \in Key /\ interceptor \in [Key -> Nat]
  BY DEF Phases, Answered, Downstream, PhaseDone, Types
<1>2. /\ phase'[r] = "icProto" /\ key'[r] = rewritten[r]
      /\ least'[r] = interceptor[rewritten[r]] /\ next'[r] = 0
  BY <1>1, Entered
<1>3. phase'[r] \in Answered /\ Rank("icProto") > Rank(phase[r])
  BY <1>2, Ranks DEF Answered, Downstream
<1>4. Registered(r)'
  BY <1>1, RegisteredStays
<1>5. Opened(r)'
  <2>1. atSend[r].ic[rewritten[r]] <= interceptor[rewritten[r]]
    BY <1>1 DEF Kept, Registered
  <2> QED BY <1>2, <2>1 DEF Opened
<1>6. Position(r)'
  BY <1>1, <1>2, <1>3, PositionAtStart DEF Kept
<1>7. Ordered(r)'
  BY DEF Kept, Ordered
<1>8. Selected(r)'
  <2>1. \A n \in DOMAIN ran[r] : ran[r][n].phase # "icProto"
    BY <1>1, PhasesSoFar, Ranks DEF Kept
  <2> QED BY <2>1 DEF Kept, Selected
<1>9. Errors(r)'
  <2>1. \A n \in DOMAIN ran[r] : ~ran[r][n].ok => ran[r][n].phase \notin Downstream
    BY DEF Kept, Errors
  <2> QED BY <1>3, <2>1 DEF Kept, Errors
<1>10. Counted(r)'
  <2>1. Ran(r, "icProto") = 0
    BY <1>1, <1>3, NotYet DEF Kept
  <2>2. Ran(r, "icAll") >= atSend[r].ic[NoProtocol]
    <3>1. atSend[r].ic[NoProtocol] <= least[r] /\ Ran(r, "icAll") = next[r]
      BY <1>1 DEF Kept, Opened, Counted
    <3> QED BY <1>1, <3>1, Promised
  <2>3. /\ \A ph : Ran(r, ph)' = Ran(r, ph)
        /\ \A phs : Failed(r, phs)' <=> Failed(r, phs)
    BY DEF Ran, Failed
  <2>4. Counted(r)
    BY DEF Kept
  <2>5. atSend'[r] = atSend[r] /\ err'[r] = err[r]
    OBVIOUS
  <2> QED BY <1>1, <1>2, <2>1, <2>2, <2>3, <2>4, <2>5 DEF Counted
<1> QED BY <1>4, <1>5, <1>6, <1>7, <1>8, <1>9, <1>10 DEF Kept

LEMMA ProtocolInterceptorsDoneKeeps ==
  ASSUME Types, Types', NEW r \in Request, Kept(r), PhaseDone(r), phase[r] = "icProto",
         Publish(r), UNCHANGED <<registry, protocol, rewritten, err, ran, atSend>>
  PROVE  Kept(r)'
<1>1. /\ phase[r] \in Phases /\ phase[r] \in Answered /\ next[r] >= least[r]
      /\ phase'[r] = "published" /\ UNCHANGED <<key, least, next>>
  BY DEF Phases, Answered, Downstream, PhaseDone, Types, Publish
<1>2. phase'[r] \in Answered /\ phase'[r] \notin Phases /\ phase'[r] # "new"
  BY <1>1 DEF Answered, Phases
<1>3. Registered(r)'
  BY <1>1, RegisteredStays
<1>4. Opened(r)' /\ Position(r)' /\ Ordered(r)' /\ Selected(r)'
  BY <1>1, <1>2 DEF Kept, Opened, Position, Ordered, Selected, Phases
<1>5. Errors(r)'
  BY <1>1, <1>2 DEF Kept, Errors
<1>6. Counted(r)'
  <2>1. Ran(r, "icProto") >= atSend[r].ic[key[r]]
    <3>1. atSend[r].ic[key[r]] <= least[r] /\ Ran(r, "icProto") = next[r]
      BY <1>1 DEF Kept, Opened, Counted
    <3> QED BY <1>1, <3>1, Promised
  <2>2. /\ \A ph : Ran(r, ph)' = Ran(r, ph)
        /\ \A phs : Failed(r, phs)' <=> Failed(r, phs)
    BY DEF Ran, Failed
  <2>3. Counted(r)
    BY DEF Kept
  <2>4. atSend'[r] = atSend[r] /\ err'[r] = err[r] /\ key'[r] = key[r]
    BY <1>1
  <2> QED BY <1>1, <1>2, <2>1, <2>2, <2>3, <2>4 DEF Counted
<1> QED BY <1>3, <1>4, <1>5, <1>6 DEF Kept

LEMMA InterceptorFailsKeeps ==
  ASSUME Types, Types', NEW r \in Request, Kept(r), InterceptorFails(r)
  PROVE  Kept(r)'
<1>1. /\ phase[r] \in Downstream /\ phase[r] \in Phases /\ phase[r] \in Answered
      /\ Log(r, FALSE) /\ Publish(r) /\ UNCHANGED <<registry, protocol, atSend>>
  BY DEF InterceptorFails, Phases, Downstream, Answered
<1>2. err'[r] # {}
  BY DEF InterceptorFails, Types
<1>3. phase'[r] = "published" /\ UNCHANGED <<key, least, next>>
  BY <1>1 DEF Publish, Types
<1>4. phase'[r] \in Answered /\ phase'[r] \notin Phases /\ phase'[r] # "new"
  BY <1>3 DEF Answered, Phases
<1>5. Registered(r)'
  BY <1>1, RegisteredStays
<1>6. Opened(r)' /\ Position(r)'
  BY <1>3, <1>4 DEF Opened, Position
<1>7. Ordered(r)'
  BY <1>1, OrderedAfterLog DEF Kept
<1>8. Selected(r)'
  BY <1>1, <1>3, SelectedAfterLog DEF Kept
<1>9. Errors(r)'
  BY <1>1, <1>2, <1>3, <1>4, ErrorsAfterLog DEF Kept
<1>10. Counted(r)'
  <2>1. \A ph : Ran(r, ph)' = Ran(r, ph) + (IF phase[r] = ph THEN 1 ELSE 0)
    BY <1>1, Logged
  <2>2. Failed(r, Downstream)'
    BY <1>1, FailedAfterLog
  <2>3. Failed(r, {"mwProto", "mwAll"})' <=> Failed(r, {"mwProto", "mwAll"})
    <3>1. phase[r] \notin {"mwProto", "mwAll"}
      BY <1>1 DEF Downstream
    <3> QED BY <1>1, <3>1, FailedAfterLog
  <2>4. /\ Ran(r, "mwProto")' = Ran(r, "mwProto") /\ Ran(r, "mwAll")' = Ran(r, "mwAll")
        /\ Ran(r, "handler")' = Ran(r, "handler")
    BY <1>1, <2>1, RanIsNatural DEF Downstream
  <2>5. Counted(r)
    BY DEF Kept
  <2>6. atSend'[r] = atSend[r]
    BY <1>1
  <2> QED BY <1>1, <1>2, <1>3, <1>4, <2>2, <2>3, <2>4, <2>5, <2>6 DEF Counted
<1> QED BY <1>5, <1>6, <1>7, <1>8, <1>9, <1>10 DEF Kept

-----------------------------------------------------------------------------
(* The inductive invariant.                                                *)

LEMMA InvariantInit == Init => IInv
<1> SUFFICES ASSUME Init PROVE IInv
  OBVIOUS
<1>1. Types
  BY TypesInit
<1>2. ASSUME NEW r \in Request
      PROVE  Kept(r)
  <2>1. phase[r] = "new" /\ ran[r] = <<>> /\ err[r] = {} /\ DOMAIN ran[r] = {}
    BY DEF Init
  <2>2. Registered(r) /\ Opened(r) /\ Position(r) /\ Ordered(r) /\ Selected(r) /\ Errors(r)
    BY <2>1 DEF Registered, Opened, Position, Ordered, Selected, Errors, Phases
  <2>3. Counted(r)
    BY <2>1 DEF Counted, Phases, Answered, Downstream
  <2> QED BY <2>2, <2>3 DEF Kept
<1> QED BY <1>1, <1>2 DEF IInv

(* Every action of a message leaves the others where they are.             *)
LEMMA OthersUnmoved ==
  ASSUME Types, NEW r \in Request, NEW q \in Request \ {r}, Process(r)
  PROVE  Unmoved(q)
<1>1. CASE \E p \in Protocol : Begin(r, p) \/ RunHook(r, p)
  <2>1. CASE \E p \in Protocol : Begin(r, p)
    BY <2>1 DEF Types, Begin, Enter, Unmoved
  <2>2. CASE \E p \in Protocol : RunHook(r, p)
    BY <2>2 DEF Types, RunHook, Log, Unmoved
  <2> QED BY <1>1, <2>1, <2>2
<1>2. CASE MiddlewareDone(r)
  BY <1>2 DEF Types, MiddlewareDone, Enter, Unmoved
<1>3. CASE MiddlewareFails(r) \/ NoHandler(r)
  BY <1>3 DEF Types, MiddlewareFails, NoHandler, Enter, Log, Unmoved
<1>4. CASE \E k \in Key, good \in BOOLEAN : DoHandler(r, k, good)
  BY <1>4 DEF Types, DoHandler, Enter, Log, Unmoved
<1>5. CASE InterceptorsDone(r)
  BY <1>5 DEF Types, InterceptorsDone, Enter, Publish, Unmoved
<1>6. CASE InterceptorFails(r)
  BY <1>6 DEF Types, InterceptorFails, Publish, Log, Unmoved
<1> QED BY <1>1, <1>2, <1>3, <1>4, <1>5, <1>6 DEF Process

LEMMA ProcessKeeps ==
  ASSUME Types, Types', NEW r \in Request, Kept(r), Process(r)
  PROVE  Kept(r)'
<1>1. CASE \E p \in Protocol : Begin(r, p) \/ RunHook(r, p)
  BY <1>1, BeginKeeps, RunHookKeeps
<1>2. CASE MiddlewareDone(r)
  BY <1>2, MiddlewareDoneKeeps
<1>3. CASE MiddlewareFails(r)
  BY <1>3, MiddlewareFailsKeeps
<1>4. CASE \E k \in Key, good \in BOOLEAN : DoHandler(r, k, good)
  BY <1>4, DoHandlerKeeps
<1>5. CASE NoHandler(r)
  BY <1>5, NoHandlerKeeps
<1>6. CASE InterceptorsDone(r)
  BY <1>6, GeneralInterceptorsDoneKeeps, ProtocolInterceptorsDoneKeeps
  DEF InterceptorsDone
<1>7. CASE InterceptorFails(r)
  BY <1>7, InterceptorFailsKeeps
<1> QED BY <1>1, <1>2, <1>3, <1>4, <1>5, <1>6, <1>7 DEF Process

(* Registrations leave all messages where they are and take nothing away.  *)
LEMMA RegisterGrows ==
  ASSUME Types, Register
  PROVE  Grown /\ \A q \in Request : Unmoved(q)
<1>1. \A k \in Key : middleware[k] \in Nat /\ interceptor[k] \in Nat
  BY DEF Types
<1>2. UNCHANGED <<cursor, protocol, err, ran, atSend>>
  BY DEF Register, AddMiddleware, AddInterceptor, SetHandler
<1>3. \A q \in Request : Unmoved(q)
  BY <1>2 DEF Unmoved, cursor
<1>4. ASSUME NEW k \in Key, AddMiddleware(k)
      PROVE  Grown
  <2>1. UNCHANGED <<interceptor, handlers>> /\ middleware' = [middleware EXCEPT ![k] = @ + 1]
    BY <1>4 DEF AddMiddleware
  <2>2. \A j \in Key : middleware[j] <= middleware'[j]
    BY <1>1, <2>1 DEF Types
  <2> QED BY <1>1, <2>1, <2>2 DEF Grown
<1>5. ASSUME NEW k \in Key, AddInterceptor(k)
      PROVE  Grown
  <2>1. UNCHANGED <<middleware, handlers>> /\ interceptor' = [interceptor EXCEPT ![k] = @ + 1]
    BY <1>5 DEF AddInterceptor
  <2>2. \A j \in Key : interceptor[j] <= interceptor'[j]
    BY <1>1, <2>1 DEF Types
  <2> QED BY <1>1, <2>1, <2>2 DEF Grown
<1>6. ASSUME NEW p \in Protocol, SetHandler(p)
      PROVE  Grown
  BY <1>1, <1>6 DEF SetHandler, Grown
<1> QED BY <1>3, <1>4, <1>5, <1>6 DEF Register

LEMMA InvariantStep == IInv /\ [Next]_vars => IInv'
<1> SUFFICES ASSUME IInv, [Next]_vars PROVE IInv'
  OBVIOUS
<1>1. Types /\ Types'
  BY TypesStep DEF IInv
<1>2. CASE Register
  BY <1>1, <1>2, RegisterGrows, OthersKeep DEF IInv
<1>3. ASSUME NEW r \in Request, Process(r)
      PROVE  IInv'
  <2>1. Kept(r)'
    BY <1>1, <1>3, ProcessKeeps DEF IInv
  <2>2. Grown
    <3>1. UNCHANGED <<middleware, interceptor, handlers>>
      BY <1>3 DEF Process, Begin, RunHook, MiddlewareDone, MiddlewareFails, DoHandler,
                  NoHandler, InterceptorsDone, InterceptorFails, registry
    <3> QED BY <1>1, <3>1, Unregistered
  <2>3. \A q \in Request \ {r} : Kept(q)'
    BY <1>1, <1>3, <2>2, OthersUnmoved, OthersKeep DEF IInv
  <2> QED BY <1>1, <2>1, <2>3 DEF IInv
<1>4. CASE UNCHANGED vars
  <2>1. UNCHANGED <<middleware, interceptor, handlers>> /\ \A q \in Request : Unmoved(q)
    BY <1>4 DEF vars, registry, cursor, Unmoved
  <2> QED BY <1>1, <2>1, Unregistered, OthersKeep DEF IInv
<1> QED BY <1>2, <1>3, <1>4 DEF Next

(* Whatever is registered and however messages interleave, the iterator's  *)
(* position, the recorded hooks and the response's error agree.            *)
THEOREM HooksInvariant == Spec => []IInv
<1>1. Init => IInv
  BY InvariantInit
<1>2. IInv /\ [Next]_vars => IInv'
  BY InvariantStep
<1> QED BY <1>1, <1>2, PTL DEF Spec

-----------------------------------------------------------------------------
(* The hooks of a message run phase by phase and, in each phase, from the  *)
(* first that was registered on, none twice, although registration goes on *)
(* (doMiddleware, doHandler, doIntercept).                                 *)
THEOREM HooksRunInOrder == Spec => []HooksInOrder
<1>1. IInv => HooksInOrder
  BY DEF IInv, Kept, Ordered, HooksInOrder
<1> QED BY <1>1, HooksInvariant, PTL

(* The hooks are those of the protocol that the message was sent with,     *)
(* even when middleware rewrites it, and those of one response protocol.   *)
THEOREM HooksAreSelectedOnce == Spec => []SelectionStable
<1>1. IInv => SelectionStable
  <2> SUFFICES ASSUME IInv, NEW r \in Request, NEW n \in DOMAIN ran[r]
               PROVE CASE ran[r][n].phase \in {"mwProto", "handler"} -> ran[r][n].key = protocol[r]
                       [] ran[r][n].phase \in {"mwAll", "icAll"} -> ran[r][n].key = NoProtocol
                       [] ran[r][n].phase = "icProto" ->
                            \A m \in DOMAIN ran[r] :
                              ran[r][m].phase = "icProto" => ran[r][m].key = ran[r][n].key
    BY DEF SelectionStable
  <2>1. Selected(r)
    BY DEF IInv, Kept
  <2>2. ran[r][n].phase \in Phases
    <3>1. ran[r] \in Seq(Entry)
      BY DEF IInv, Types
    <3>2. ran[r][n] \in Entry
      BY <3>1, LenProperties, ElementOfSeq
    <3> QED BY <3>2 DEF Entry
  <2>3. CASE ran[r][n].phase \in {"mwProto", "handler"}
    BY <2>1, <2>3 DEF Selected
  <2>4. CASE ran[r][n].phase \in {"mwAll", "icAll"}
    BY <2>1, <2>4 DEF Selected
  <2>5. CASE ran[r][n].phase = "icProto"
    BY <2>1, <2>5 DEF Selected
  <2> QED BY <2>2, <2>3, <2>4, <2>5 DEF Phases
<1> QED BY <1>1, HooksInvariant, PTL

(* An error of a middleware or the handler lets only interceptors run      *)
(* after it, an error of an interceptor nothing.                           *)
THEOREM HooksStopAtErrors == Spec => []FirstErrorStops
<1>1. IInv => FirstErrorStops
  BY DEF IInv, Kept, Errors, FirstErrorStops, Upstream, Downstream
<1> QED BY <1>1, HooksInvariant, PTL

(* A response leaves only after everything that was registered when its    *)
(* message arrived, unless a hook stopped it; what was registered since    *)
(* may or may not have run.                                                *)
THEOREM HooksAllRun == Spec => []NoHookSkipped
<1>1. IInv => NoHookSkipped
  BY DEF IInv, Kept, Counted, NoHookSkipped, Answered, Downstream
<1> QED BY <1>1, HooksInvariant, PTL

(* A response without an error means that the handler ran once and that no *)
(* hook failed, although interceptors and the handler replace errors.      *)
THEOREM ErrorsReachTheResponse == Spec => []NoSilentFailure
<1>1. IInv => NoSilentFailure
  BY DEF IInv, Kept, Counted, Errors, NoSilentFailure, Answered
<1> QED BY <1>1, HooksInvariant, PTL

=============================================================================
