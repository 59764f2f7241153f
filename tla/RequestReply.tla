---------------------------- MODULE RequestReply ----------------------------
(***************************************************************************)
(* What a user of x/router's Dispatcher is promised, without the machinery *)
(* that delivers it: a message given to Exec or Broadcast is processed at  *)
(* most once, one that was refused is never processed, and Exec answers    *)
(* only with the outcome of a processed message that carries the same ID.  *)
(***************************************************************************)
CONSTANTS
  Request,    \* the calls of Exec and of Broadcast
  ID,         \* the message IDs that callers choose themselves
  None        \* no request

VARIABLES
  outcome,    \* what each caller knows of its call
  key,        \* the ID of each call's message
  served,     \* the requests whose message has been processed
  from        \* the request whose processing produced a caller's answer

vars == <<outcome, key, served, from>>

Outcome == {"none", "pending", "sent", "replied", "refused", "abandoned"}

TypeOK ==
  /\ outcome \in [Request -> Outcome]
  /\ key \in [Request -> ID \cup Request]
  /\ served \subseteq Request
  /\ from \in [Request -> Request \cup {None}]

Init ==
  /\ outcome = [r \in Request |-> "none"]
  /\ key = [r \in Request |-> r]
  /\ served = {}
  /\ from = [r \in Request |-> None]

(* A caller hands a message over, under an ID of its own or a new one.     *)
Ask(r, i) ==
  /\ outcome[r] = "none"
  /\ outcome' = [outcome EXCEPT ![r] = "pending"]
  /\ key' = [key EXCEPT ![r] = i]
  /\ UNCHANGED <<served, from>>

(* The message is processed, whether or not somebody still waits for it.   *)
Serve(r) ==
  /\ outcome[r] \notin {"none", "refused"}
  /\ r \notin served
  /\ served' = served \cup {r}
  /\ UNCHANGED <<outcome, key, from>>

Reply(r, q) ==
  /\ outcome[r] = "pending"
  /\ q \in served
  /\ key[q] = key[r]
  /\ outcome' = [outcome EXCEPT ![r] = "replied"]
  /\ from' = [from EXCEPT ![r] = q]
  /\ UNCHANGED <<key, served>>

(* A Broadcast returns as soon as its message is accepted.                 *)
Sent(r) ==
  /\ outcome[r] = "pending"
  /\ outcome' = [outcome EXCEPT ![r] = "sent"]
  /\ UNCHANGED <<key, served, from>>

(* The message was not accepted: it must never be processed.               *)
Refuse(r) ==
  /\ outcome[r] \in {"none", "pending"}
  /\ r \notin served
  /\ outcome' = [outcome EXCEPT ![r] = "refused"]
  /\ UNCHANGED <<key, served, from>>

(* The caller gives up on a message that was accepted.                     *)
Abandon(r) ==
  /\ outcome[r] = "pending"
  /\ outcome' = [outcome EXCEPT ![r] = "abandoned"]
  /\ UNCHANGED <<key, served, from>>

Next ==
  \E r \in Request :
    \/ \E i \in ID \cup {r} : Ask(r, i)
    \/ Serve(r)
    \/ \E q \in Request : Reply(r, q)
    \/ Sent(r)
    \/ Refuse(r)
    \/ Abandon(r)

Spec == Init /\ [][Next]_vars

=============================================================================
