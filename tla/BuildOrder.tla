----------------------------- MODULE BuildOrder -----------------------------
(***************************************************************************)
(* GetBuildOrder of tools/gadget/gendget.go: packages are taken from a     *)
(* queue into groups, a group is closed once a whole round over the queue  *)
(* adds nothing to it, and the computation gives up when ten rounds in a   *)
(* row resolve no package.  The context may be cancelled between two       *)
(* iterations.  The order of packages within a group is left out, and so   *)
(* is the check for a queued package that was already seen: a package is   *)
(* never in both places.  Definitions marked "Wrong" are bugs with which   *)
(* PROJECT.json shows that the properties can fail.                        *)
(***************************************************************************)
EXTENDS Naturals, Sequences, FiniteSets, SequencesExt

CONSTANTS
  Package,   \* the packages that were loaded
  Name       \* the names that can be dependencies

ASSUME PackageAssumption ==
  /\ IsFiniteSet(Package) /\ Package # {}
  /\ Package \subseteq Name

VARIABLES
  deps,       \* PackageInfo.Dependencies
  queue,      \* packages that are not resolved
  next,       \* the group being collected
  seen,       \* packages in closed groups
  order,      \* the closed groups
  runs,       \* runsSinceProgress
  cancelled,  \* ctx.Err() is not nil
  result      \* what GetBuildOrder returned, if it did

vars == <<deps, queue, next, seen, order, runs, cancelled, result>>

Rounds == 10

(* Packages without dependencies form the first group, empty or not; the   *)
(* others are queued in the order of a map's iteration.                    *)
Start ==
  LET free == {p \in Package : deps[p] = {}} IN
  /\ seen = free
  /\ order = <<free>>
  /\ queue \in SetToSeqs(Package \ free)
  /\ next = {}
  /\ runs = 0
  /\ cancelled = FALSE
  /\ result = "none"

Init == deps \in [Package -> SUBSET Name] /\ Start

-----------------------------------------------------------------------------
(* An iteration first closes the group that a whole round did not extend.  *)
(* Wrong: a group is closed as soon as there is something in it.           *)
FullAtOnce == next # {}

Full == runs = Len(queue) /\ next # {}

(* Wrong: a package counts as built while its group is open.               *)
SeenAtOnce == seen \cup next

(* Wrong: only the last closed group counts as built.                      *)
SeenReplaced == IF Full THEN next ELSE seen

Seen == IF Full THEN seen \cup next ELSE seen
Group == IF Full THEN {} ELSE next
Runs == IF Full THEN 0 ELSE runs

CloseGroup ==
  /\ seen' = Seen
  /\ order' = IF Full THEN Append(order, next) ELSE order

Iterating == result = "none" /\ ~cancelled /\ queue # <<>>

(* Then it takes the first package of the queue into the group ...         *)
Resolve ==
  /\ Iterating
  /\ Runs < Rounds * Len(queue)
  /\ deps[Head(queue)] \subseteq Seen
  /\ CloseGroup
  /\ next' = Group \cup {Head(queue)}
  /\ queue' = Tail(queue)
  /\ runs' = 0
  /\ UNCHANGED <<deps, cancelled, result>>

(* ... or puts it back at the end, ...                                     *)
Postpone ==
  /\ Iterating
  /\ Runs < Rounds * Len(queue)
  /\ ~(deps[Head(queue)] \subseteq Seen)
  /\ CloseGroup
  /\ next' = Group
  /\ queue' = Append(Tail(queue), Head(queue))
  /\ runs' = Runs + 1
  /\ UNCHANGED <<deps, cancelled, result>>

(* Wrong: one round more than there will be.                               *)
GiveUpLater ==
  /\ Iterating
  /\ Runs > Rounds * Len(queue)
  /\ result' = "irresolvable"
  /\ UNCHANGED <<deps, queue, next, seen, order, runs, cancelled>>

(* ... or gives up: the dependencies cannot be resolved.                   *)
GiveUp ==
  /\ Iterating
  /\ Runs >= Rounds * Len(queue)
  /\ result' = "irresolvable"
  /\ UNCHANGED <<deps, queue, next, seen, order, runs, cancelled>>

(* Wrong: the last group is forgotten, or appended when it is empty.       *)
FinishWithoutLast ==
  /\ result = "none"
  /\ cancelled \/ queue = <<>>
  /\ result' = "order"
  /\ UNCHANGED <<deps, queue, next, seen, order, runs, cancelled>>

FinishWithEmpty ==
  /\ result = "none"
  /\ cancelled \/ queue = <<>>
  /\ order' = Append(order, next)
  /\ result' = "order"
  /\ UNCHANGED <<deps, queue, next, seen, runs, cancelled>>

(* The loop ends; what was collected is the last group.                    *)
Finish ==
  /\ result = "none"
  /\ cancelled \/ queue = <<>>
  /\ order' = IF next = {} THEN order ELSE Append(order, next)
  /\ result' = "order"
  /\ UNCHANGED <<deps, queue, next, seen, runs, cancelled>>

Cancel ==
  /\ result = "none" /\ ~cancelled
  /\ cancelled' = TRUE
  /\ UNCHANGED <<deps, queue, next, seen, order, runs, result>>

Next == Resolve \/ Postpone \/ GiveUp \/ Finish \/ Cancel

(* The loop runs by itself; nobody has to cancel.                          *)
Spec == Init /\ [][Next]_vars /\ WF_vars(Resolve \/ Postpone \/ GiveUp \/ Finish)

-----------------------------------------------------------------------------
(* The type of every variable.                                             *)
TypeOK ==
  /\ deps \in [Package -> SUBSET Name]
  /\ queue \in Seq(Package)
  /\ next \subseteq Package
  /\ seen \subseteq Package
  /\ order \in Seq(SUBSET Package)
  /\ runs \in Nat
  /\ cancelled \in BOOLEAN
  /\ result \in {"none", "order", "irresolvable"}

Before(n) == UNION {order[m] : m \in 1..(n - 1)}
Ordered == UNION {order[m] : m \in DOMAIN order}

(* GraphIsCorrect: all a package depends on is in groups before its own.   *)
DependenciesFirst ==
  \A n \in DOMAIN order : \A p \in order[n] : deps[p] \subseteq Before(n)

(* GraphIsComplete: an order that is returned has every package once,      *)
(* unless the context was cancelled; then it still has none twice.         *)
EveryPackageOnce ==
  /\ result = "order" /\ ~cancelled => Ordered = Package
  /\ \A m, n \in DOMAIN order : m # n => order[m] \cap order[n] = {}

(* Every group of an order that is returned has packages in it, the first  *)
(* one too, unless the context was cancelled.                              *)
NoEmptyGroup ==
  result = "order" /\ ~cancelled => \A n \in DOMAIN order : order[n] # {}

(* Groups are as early as they can be: after the first one, no package     *)
(* could have been in the group before its own.                            *)
AsEarlyAsPossible ==
  \A n \in DOMAIN order : \A p \in order[n] :
    n > 1 => ~(deps[p] \subseteq Before(n - 1))

(* GetBuildOrder gives up only when there really is no order: some         *)
(* packages all depend on one another or on what is not a package.         *)
Stuck(S) == S # {} /\ \A p \in S : deps[p] \cap (S \cup (Name \ Package)) # {}

GivesUpOnlyWhenStuck ==
  result = "irresolvable" => \E S \in SUBSET Package : Stuck(S)

(* GetBuildOrder returns, whatever the dependencies are.                   *)
Returns == <>(result # "none")

=============================================================================
