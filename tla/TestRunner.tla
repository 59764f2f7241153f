----------------------------- MODULE TestRunner -----------------------------
(***************************************************************************)
(* "sardis gadget" (operations/gadget.go, RunTests in                      *)
(* tools/gadget/gadget.go): runs the linter and the tests of every package *)
(* of the modules below a directory.  The jobs run in a pool that was      *)
(* started before the first of them was pushed; what "go test" prints is   *)
(* filtered, and what is known of a package is stored in a map that all    *)
(* jobs share without a lock.                                              *)
(*                                                                         *)
(* A module is [loads, packages], in the order of the walk through the     *)
(* directory, and a package [name, tests], the latter "pass", "fail",      *)
(* "none" or "broken" (does not compile).  Definitions marked "Wrong" are  *)
(* bugs with which PROJECT.json shows that the properties can fail.        *)
(***************************************************************************)
EXTENDS Naturals, Sequences, FiniteSets, SequencesExt

CONSTANTS
  Trees,        \* directories: sequences of modules
  OptionSets    \* records of options: those that matter, and if the others are legal

VARIABLES
  options,   \* opts, once it was validated
  tree,      \* what is walked through
  walked,    \* how many modules the walk has met; at last "closed"
  queue,     \* main: the jobs, in order; Lint or a package
  stage,     \* how far each of them is
  reports,   \* names of packages by what the map says of them
  broken,    \* ec, and what the pool collects: jobs and modules with errors
  ended      \* what RunTests returned

tvars == <<options, tree, walked, queue, stage, reports, broken, ended>>

Lint == [name |-> "lint", tests |-> "lint"]

-----------------------------------------------------------------------------
(* Validate: illegal options are not made consistent; that they are an     *)
(* error is lost when the deferred ParsePanic finds no panic.              *)
Validated(o) ==
  IF o.legal /\ o.workers > 0 /\ o.coverage THEN [o EXCEPT !.compileOnly = FALSE] ELSE o

(* Without recursion the walk ends at the second go.mod.                   *)
Modules == IF options.recursive \/ tree = <<>> THEN Len(tree) ELSE 1

(* -parallel: go test refuses 0.                                           *)
Parallel == IF options.workers \div 2 < 4 THEN options.workers \div 2 ELSE 4

Init ==
  /\ \E o \in OptionSets : options = Validated(o)
  /\ tree \in Trees
  /\ walked = 0
  /\ queue = IF options.compileOnly \/ options.skipLint THEN <<>> ELSE <<Lint>>
  /\ stage = [i \in DOMAIN queue |-> "queued"]
  /\ reports = <<>> /\ broken = {} /\ ended = "none"

-----------------------------------------------------------------------------
Found(m) == queue' = queue \o m.packages

(* One module: it is loaded (Collect), and its packages become jobs.       *)
Walk ==
  /\ ended = "none" /\ walked < Modules
  /\ LET m == tree[walked + 1]
     IN  \/ m.loads /\ Found(m) /\ UNCHANGED broken
         \/ ~m.loads /\ broken' = broken \cup {<<"module", walked + 1>>} /\ UNCHANGED queue
  /\ stage' = [i \in DOMAIN queue' |-> IF i \in DOMAIN stage THEN stage[i] ELSE "queued"]
  /\ walked' = walked + 1
  /\ UNCHANGED <<options, tree, reports, ended>>

Busy == {i \in DOMAIN stage : stage[i] \notin {"queued", "done"}}

To(i, where) == stage' = [stage EXCEPT ![i] = where]

(* With no worker demanded the pool has one; it goes on after an error.    *)
Pop(i) ==
  /\ ended = "none"
  /\ stage[i] = "queued" /\ \A k \in 1 .. i - 1 : stage[k] # "queued"
  /\ Cardinality(Busy) < IF options.workers = 0 THEN 1 ELSE options.workers
  /\ To(i, "begun")
  /\ UNCHANGED <<options, tree, walked, queue, reports, broken, ended>>

Known(p) == p.name \in DOMAIN reports

RunLint(i) ==
  /\ ended = "none" /\ stage[i] = "begun" /\ queue[i] = Lint
  /\ To(i, "done")
  /\ broken' \in {broken, broken \cup {<<"job", i>>}}
  /\ UNCHANGED <<options, tree, walked, queue, reports, ended>>

(* reports.Check: a package of a name that was reported is a duplicate.    *)
CheckReports(i) ==
  /\ ended = "none" /\ stage[i] = "begun" /\ queue[i] # Lint
  /\ To(i, IF Known(queue[i]) THEN "done" ELSE "testing")
  /\ UNCHANGED <<options, tree, walked, queue, reports, broken, ended>>

(* What "go test" finds; no test is called noop.                           *)
Passes(p) ==
  /\ p.tests # "broken"
  /\ p.tests = "fail" => options.compileOnly
  /\ p.tests # "none" => Parallel > 0

(* testOutputFilter: a line that begins with ok or ? becomes a report.  A  *)
(* coverage that cannot be parsed is a panic, from which it recovers       *)
(* without a report, and nothing tells a failed package from one that has  *)
(* not been run.                                                           *)
Store(i) ==
  /\ ended = "none" /\ stage[i] = "testing" /\ Passes(queue[i])
  /\ reports' = [n \in DOMAIN reports \cup {queue[i].name} |->
                  IF n = queue[i].name
                  THEN IF queue[i].tests = "none" THEN "untested" ELSE "ok"
                  ELSE reports[n]]
  /\ To(i, "tested")
  /\ UNCHANGED <<options, tree, walked, queue, broken, ended>>

StoreNothing(i) ==
  /\ ended = "none" /\ stage[i] = "testing" /\ Passes(queue[i]) /\ options.coverage
  /\ To(i, "tested")
  /\ UNCHANGED <<options, tree, walked, queue, reports, broken, ended>>

(* The map has no lock: two jobs that use it at the same time end the      *)
(* process, if the Go runtime notices.                                     *)
Crash(i) ==
  /\ ended = "none" /\ stage[i] = "testing" /\ Passes(queue[i])
  /\ \E k \in Busy \ {i} : queue[k] # Lint
  /\ ended' = "crashed"
  /\ UNCHANGED <<options, tree, walked, queue, stage, reports, broken>>

(* Wrong: that a test failed is only said by the report.                   *)
FailQuietly(i) ==
  /\ ended = "none" /\ stage[i] = "testing"
  /\ To(i, "tested")
  /\ UNCHANGED <<options, tree, walked, queue, reports, broken, ended>>

(* go test may also fail for reasons of its own.                           *)
Fail(i) ==
  /\ ended = "none" /\ stage[i] = "testing"
  /\ To(i, "tested")
  /\ broken' = broken \cup {<<"job", i>>}
  /\ UNCHANGED <<options, tree, walked, queue, reports, ended>>

(* reports.Load, go tool cover, and report: the first may find what a job  *)
(* of the same name has stored.                                            *)
Report(i) ==
  /\ ended = "none" /\ stage[i] = "tested"
  /\ To(i, "done")
  /\ \/ UNCHANGED broken
     \/ Known(queue[i]) /\ options.coverage /\ broken' = broken \cup {<<"job", i>>}
  /\ UNCHANGED <<options, tree, walked, queue, reports, ended>>

(* main.Close, and the pool's Worker, which waits for every job.           *)
Return ==
  /\ ended = "none" /\ walked = Modules
  /\ \A i \in DOMAIN stage : stage[i] = "done"
  /\ ended' = IF broken = {} THEN "ok" ELSE "error"
  /\ UNCHANGED <<options, tree, walked, queue, stage, reports, broken>>

JobStep(i) ==
  \/ Pop(i) \/ RunLint(i) \/ CheckReports(i) \/ Store(i) \/ StoreNothing(i)
  \/ Crash(i) \/ Fail(i) \/ Report(i)

Next == Walk \/ (\E i \in DOMAIN queue : JobStep(i)) \/ Return

Spec == Init /\ [][Next]_tvars

-----------------------------------------------------------------------------
(* When RunTests returns no error then every module that it had to test    *)
(* was loaded and every package of it passed, or has its name from another *)
(* that did; so that a package which fails is noticed although its name is *)
(* known only if its job began before the other was reported.  With one    *)
(* worker, or none, only packages without tests pass.                      *)
PassedWhenDone ==
  ended = "ok" =>
    \A n \in 1 .. Modules :
      /\ tree[n].loads
      /\ \A p \in Range(tree[n].packages) :
           \/ Passes(p)
           \/ \E k \in 1 .. Modules : \E q \in Range(tree[k].packages) :
                q.name = p.name /\ q # p /\ Passes(q) /\ Known(q)

=============================================================================
