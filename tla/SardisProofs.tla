---------------------------- MODULE SardisProofs ----------------------------
(***************************************************************************)
(* Proofs about the parts of Sardis, each for any number of jobs and all   *)
(* inputs: managing packages, running tests and setting up a machine.      *)
(* What is proved of a part holds of the program that runs it: a behaviour *)
(* of Sardis is one of the part that its command chose, and of no other.   *)
(***************************************************************************)
EXTENDS Sardis, Sequences, WellFoundedInduction, TLAPS

(* The command line is read once.                                          *)
LEMMA CommandStays ==
  ASSUME [Next]_vars
  PROVE  command' = command
BY DEF Next, Admin, ArchLinux, Gadget, vars

-----------------------------------------------------------------------------
(* Packages.  An index is true (IndexIsTrue) although its questions are    *)
(* asked one after another, because each answer lies between what was true *)
(* all the time and what was true at some time (Bounds, Complete); and     *)
(* jobs that report no error have installed their packages                 *)
(* (InstalledWhenDone), because each has found a PKGBUILD that no other    *)
(* job takes away (Placed).                                                *)

(* Machines and requests about packages; "sync" is not one.                *)
AreBeginnings ==
  /\ \A b \in Beginnings :
       /\ DOMAIN b.installed \subseteq Package
       /\ b.build \in [Package -> {"none", "empty", "clone", "remote"}]
  /\ "sync" \notin Package
  /\ \A t \in Requests : \A i \in DOMAIN t.names : t.names[i] \in Package \cup {"sync"}

-----------------------------------------------------------------------------
(* The index.                                                              *)

Reads == task.kind \notin Arch!Works

ArchTypes ==
  /\ cache \in [Arch!Questions -> SUBSET Package]
  /\ ever \in [Arch!Questions -> SUBSET Package]
  /\ always \in [Arch!Questions -> SUBSET Package]
  /\ DOMAIN installed \subseteq Package

(* What is remembered of the past fits the present, and what must belong   *)
(* together does.  Nothing is built meanwhile.                             *)
Bounds ==
  /\ \A q \in Arch!Questions :
       /\ always[q] \subseteq Arch!Answer(q, installed, build)
       /\ Arch!Answer(q, installed, build) \subseteq ever[q]
  /\ ever["native"] \subseteq Native /\ ever["foreign"] \subseteq Arch!Foreign
  /\ always["native"] = always["versions"] \cap Native
  /\ always["foreign"] = always["versions"] \cap Arch!Foreign
  /\ ever["abs"] = always["abs"]

(* The steps at which the answer to a question is known.                   *)
Later(q) ==
  CASE q = "versions" -> {"explicit", "native", "deps", "foreign", "abs", "indexed"}
    [] q = "explicit" -> {"native", "deps", "foreign", "abs", "indexed"}
    [] q = "native"   -> {"deps", "foreign", "abs", "indexed"}
    [] q = "deps"     -> {"foreign", "abs", "indexed"}
    [] q = "foreign"  -> {"abs", "indexed"}
    [] q = "abs"      -> {"indexed"}

Sound ==
  /\ \A q \in Arch!Questions : cache[q] \subseteq ever[q]
  /\ cache["abs"] \subseteq cache["foreign"]

Complete ==
  ~faulty =>
    /\ \A q \in Arch!Questions \ {"abs"} : step \in Later(q) => always[q] \subseteq cache[q]
    /\ step \in Later("abs") => always["abs"] \cap cache["foreign"] \subseteq cache["abs"]

Written ==
  step \in Arch!Questions \cup {"begin", "indexed"} => "USR" \notin DOMAIN file /\ seen = {}

Reading == ArchTypes /\ Bounds /\ Sound /\ Complete /\ Written /\ Arch!IndexIsTrue
             /\ step # "pool" /\ \A i \in DOMAIN worker : worker[i] = "waiting"

Working ==
  /\ step \in {"begin", "pool", "done", "error"}
  /\ "USR" \notin DOMAIN file /\ seen = {}

IndexInv == IF Reads THEN Reading ELSE Working

LEMMA InitIndex ==
  ASSUME AreBeginnings, Arch!Init
  PROVE  IndexInv
<1>1. /\ cache = [q \in Arch!Questions |-> {}] /\ step = "begin" /\ seen = {}
      /\ "USR" \notin DOMAIN file /\ faulty = FALSE
      /\ \A i \in DOMAIN worker : worker[i] = "waiting"
  BY DEF Arch!Init
<1>2. DOMAIN installed \subseteq Package
  BY DEF Arch!Init, AreBeginnings
<1>3. /\ ever = [q \in Arch!Questions |-> Arch!Answer(q, installed, build)]
      /\ always = [q \in Arch!Questions |-> Arch!Answer(q, installed, build)]
  BY DEF Arch!Init, Arch!Facts
<1>4. \A q \in Arch!Questions : Arch!Answer(q, installed, build) \subseteq Package
  BY <1>2 DEF Arch!Answer, Arch!Questions
<1>5. ArchTypes
  BY <1>1, <1>2, <1>3, <1>4 DEF ArchTypes
<1>6. Bounds
  BY <1>2, <1>3 DEF Bounds, Arch!Answer, Arch!Questions, Arch!Foreign
<1>7. Sound /\ Written
  BY <1>1 DEF Sound, Written, Arch!Questions
<1>8. Complete
  BY <1>1 DEF Complete, Later, Arch!Questions
<1>9. Arch!IndexIsTrue
  BY <1>1 DEF Arch!IndexIsTrue
<1> QED BY <1>1, <1>5, <1>6, <1>7, <1>8, <1>9 DEF IndexInv, Reading, Working

(* A question is answered, or not: the next one's turn.                    *)
LEMMA AfterIsLater ==
  ASSUME step \in Arch!Questions, NEW q \in Arch!Questions, Arch!After(step) \in Later(q)
  PROVE  q = step \/ step \in Later(q)
BY DEF Arch!Questions, Arch!After, Later

LEMMA CollectKeeps ==
  ASSUME Reading, Arch!Collect
  PROVE  Reading'
<1> DEFINE answer == Arch!Answer(step, installed, build)
                       \cap IF step = "abs" THEN cache["foreign"] ELSE Package
<1>1. /\ cache' = [cache EXCEPT ![step] = @ \cup answer]
      /\ step \in Arch!Questions /\ step' = Arch!After(step)
      /\ UNCHANGED <<installed, build, ever, always, faulty, file, seen, worker, task>>
  BY DEF Arch!Collect, Arch!Host
<1>2. /\ cache'[step] = cache[step] \cup answer
      /\ \A q \in Arch!Questions : q # step => cache'[q] = cache[q]
  BY <1>1 DEF Reading, ArchTypes
<1>3. answer \subseteq Package /\ answer \subseteq ever[step]
  BY <1>1 DEF Reading, ArchTypes, Bounds, Arch!Questions
<1>4. step = "abs" => answer = Arch!Answer(step, installed, build) \cap cache["foreign"]
  OBVIOUS
<1>5. step # "abs" => always[step] \subseteq answer
  BY <1>1 DEF Reading, ArchTypes, Bounds
<1> HIDE DEF answer
<1>6. ArchTypes'
  BY <1>1, <1>2, <1>3 DEF Reading, ArchTypes
<1>7. Bounds'
  BY <1>1 DEF Reading, Bounds, Arch!Answer, Arch!Questions
<1>8. Sound'
  <2>1. \A q \in Arch!Questions : cache'[q] \subseteq ever'[q]
    BY <1>1, <1>2, <1>3 DEF Reading, Sound
  <2>2. cache'["abs"] \subseteq cache'["foreign"]
    BY <1>1, <1>2, <1>4 DEF Reading, Sound, Arch!Questions
  <2> QED BY <2>1, <2>2 DEF Sound
<1>9. Complete'
  <2> SUFFICES ASSUME ~faulty
               PROVE  /\ \A q \in Arch!Questions \ {"abs"} : step' \in Later(q) => always[q] \subseteq cache'[q]
                      /\ step' \in Later("abs") => always["abs"] \cap cache'["foreign"] \subseteq cache'["abs"]
    BY <1>1 DEF Complete, Later
  <2>1. ASSUME NEW q \in Arch!Questions \ {"abs"}, step' \in Later(q)
        PROVE  always[q] \subseteq cache'[q]
    <3>1. q = step \/ step \in Later(q)
      BY <1>1, <2>1, AfterIsLater
    <3>2. CASE q = step
      BY <1>2, <1>5, <3>2
    <3>3. CASE q # step /\ step \in Later(q)
      BY <1>2, <3>3 DEF Reading, Complete
    <3> QED BY <3>1, <3>2, <3>3
  <2>2. ASSUME step' \in Later("abs") PROVE always["abs"] \cap cache'["foreign"] \subseteq cache'["abs"]
    <3>1. step = "abs"
      BY <1>1, <2>2 DEF Arch!After, Later, Arch!Questions
    <3>2. always["abs"] \subseteq Arch!Answer(step, installed, build)
      BY <1>1, <3>1 DEF Reading, Bounds
    <3>3. cache'["foreign"] = cache["foreign"]
      BY <1>2, <3>1 DEF Arch!Questions
    <3> QED BY <1>2, <1>4, <3>1, <3>2, <3>3
  <2> QED BY <2>1, <2>2
<1>10. Written'
  BY <1>1 DEF Reading, Written, Arch!Questions, Arch!After
<1>11. Arch!IndexIsTrue'
  BY <1>1 DEF Reading, Arch!IndexIsTrue
<1>12. step' # "pool" /\ \A i \in DOMAIN worker' : worker'[i] = "waiting"
  BY <1>1 DEF Reading, Arch!After, Arch!Questions
<1> QED BY <1>6, <1>7, <1>8, <1>9, <1>10, <1>11, <1>12 DEF Reading

(* Steps that neither change the index nor what is on the machine.         *)
LEMMA FrameKeeps ==
  ASSUME Reading,
         UNCHANGED <<installed, build, ever, always, cache, worker>>,
         Complete', Written', Arch!IndexIsTrue', step' # "pool"
  PROVE  Reading'
<1>1. ArchTypes'
  BY DEF Reading, ArchTypes
<1>2. Bounds'
  BY DEF Reading, Bounds, Arch!Answer, Arch!Questions
<1>3. Sound'
  BY DEF Reading, Sound
<1> QED BY <1>1, <1>2, <1>3 DEF Reading

(* The administrator changes what is installed.                            *)
LEMMA ChangeKeeps ==
  ASSUME Reading, Arch!Change
  PROVE  Reading'
<1>1. /\ UNCHANGED <<build, task, step, cache, faulty, file, seen, worker>>
      /\ ever' = [q \in Arch!Questions |-> ever[q] \cup Arch!Answer(q, installed', build)]
      /\ always' = [q \in Arch!Questions |-> always[q] \cap Arch!Answer(q, installed', build)]
  BY DEF Arch!Change, Arch!Noted, Arch!Facts
<1>2. DOMAIN installed' \subseteq Package
  BY DEF Reading, ArchTypes, Arch!Change
<1>3. \A q \in Arch!Questions : Arch!Answer(q, installed', build) \subseteq Package
  BY <1>2 DEF Arch!Answer, Arch!Questions
<1>4. \A q \in Arch!Questions :
        /\ ever'[q] = ever[q] \cup Arch!Answer(q, installed', build)
        /\ always'[q] = always[q] \cap Arch!Answer(q, installed', build)
  BY <1>1
<1>5. ArchTypes'
  BY <1>1, <1>2, <1>3 DEF Reading, ArchTypes
<1>6. /\ Arch!Answer("native", installed', build) = Arch!Answer("versions", installed', build) \cap Native
      /\ Arch!Answer("foreign", installed', build) = Arch!Answer("versions", installed', build) \cap Arch!Foreign
      /\ Arch!Answer("abs", installed', build) = Arch!Answer("abs", installed, build)
  BY DEF Arch!Answer
<1>7. Bounds'
  <2>1. \A q \in Arch!Questions : always'[q] \subseteq Arch!Answer(q, installed', build)
                               /\ Arch!Answer(q, installed', build) \subseteq ever'[q]
    BY <1>4
  <2>2. ever'["native"] \subseteq Native /\ ever'["foreign"] \subseteq Arch!Foreign
    BY <1>4, <1>6 DEF Reading, Bounds, Arch!Questions
  <2>3. /\ always'["native"] = always'["versions"] \cap Native
        /\ always'["foreign"] = always'["versions"] \cap Arch!Foreign
    BY <1>4, <1>6 DEF Reading, Bounds, Arch!Questions
  <2>4. ever'["abs"] = always'["abs"] /\ ever'["abs"] = ever["abs"]
    BY <1>4, <1>6 DEF Reading, Bounds, Arch!Questions
  <2> QED BY <1>1, <2>1, <2>2, <2>3, <2>4 DEF Bounds, Arch!Answer, Arch!Questions,
                                        Arch!Foreign
<1>8. ever'["abs"] = ever["abs"]
  BY <1>4, <1>6 DEF Reading, Bounds, Arch!Questions
<1>9. \A q \in Arch!Questions : ever[q] \subseteq ever'[q] /\ always'[q] \subseteq always[q]
  BY <1>4
<1>10. Sound' /\ Complete'
  BY <1>1, <1>9 DEF Reading, Sound, Complete, Later, Arch!Questions
<1>11. Written'
  BY <1>1 DEF Reading, Written
<1>12. Arch!IndexIsTrue'
  BY <1>1, <1>8, <1>9 DEF Reading, Arch!IndexIsTrue, Arch!Questions
<1> QED BY <1>1, <1>5, <1>7, <1>10, <1>11, <1>12 DEF Reading

(* What is written, or listed, was known by then.                          *)
LEMMA ExportIsTrue ==
  ASSUME Reading, Arch!Export
  PROVE  Arch!IndexIsTrue'
<1>1. UNCHANGED <<ever, always, faulty, seen>>
  BY DEF Arch!Export, Arch!Host
<1>2. CASE UNCHANGED file
  BY <1>1, <1>2 DEF Reading, Arch!IndexIsTrue
<1>3. CASE ~faulty /\ file' = [Arch!Index EXCEPT !.DEP = {}] /\ step = "indexed"
  <2>1. /\ file'.DEP = {} /\ file'.USR = cache["explicit"]
        /\ file'.AUR = cache["foreign"] /\ file'.ABS = cache["abs"]
    BY <1>3 DEF Arch!Index
  <2>2. /\ always["explicit"] \subseteq cache["explicit"]
        /\ always["foreign"] \subseteq cache["foreign"]
        /\ always["abs"] \cap cache["foreign"] \subseteq cache["abs"]
    BY <1>3 DEF Reading, Complete, Later, Arch!Questions
  <2>3. /\ cache["explicit"] \subseteq ever["explicit"] /\ cache["foreign"] \subseteq ever["foreign"]
        /\ cache["abs"] \subseteq ever["abs"] /\ cache["abs"] \subseteq cache["foreign"]
    BY DEF Reading, Sound, Arch!Questions
  <2>4. seen' = {}
    BY <1>1, <1>3 DEF Reading, Written
  <2> QED BY <1>1, <1>3, <2>1, <2>2, <2>3, <2>4 DEF Arch!IndexIsTrue
<1> QED BY <1>2, <1>3 DEF Arch!Export

LEMMA ListIsTrue ==
  ASSUME Reading, Arch!ListPackages
  PROVE  Arch!IndexIsTrue'
<1>1. /\ UNCHANGED <<ever, always, faulty, file>> /\ step = "indexed"
      /\ seen' = {Arch!Populate(p) : p \in cache["versions"] \cup Arch!Range(task.names)}
  BY DEF Arch!ListPackages, Arch!Host
<1>2. "USR" \notin DOMAIN file'
  BY <1>1 DEF Reading, Written
<1>3. ASSUME ~faulty, NEW p, p \in always["versions"]
      PROVE  /\ p \in cache["versions"]
             /\ p \in cache["native"] <=> p \in Native
             /\ p \in cache["foreign"] <=> p \notin Native
             /\ p \notin cache["native"] /\ p \notin cache["abs"] <=> p \notin Native \cup ever["abs"]
  <2>1. /\ always["versions"] \subseteq cache["versions"] /\ always["native"] \subseteq cache["native"]
        /\ always["foreign"] \subseteq cache["foreign"]
        /\ always["abs"] \cap cache["foreign"] \subseteq cache["abs"]
    BY <1>1, <1>3 DEF Reading, Complete, Later, Arch!Questions
  <2>2. /\ cache["native"] \subseteq Native /\ cache["foreign"] \subseteq Arch!Foreign
        /\ cache["abs"] \subseteq ever["abs"]
    BY DEF Reading, Sound, Bounds, Arch!Questions
  <2>3. /\ p \in Package /\ (p \in Native => p \in always["native"])
        /\ p \notin Native => p \in always["foreign"]
    BY <1>3 DEF Reading, ArchTypes, Bounds, Arch!Foreign, Arch!Questions
  <2>4. ever["abs"] = always["abs"]
    BY DEF Reading, Bounds
  <2> QED BY <1>3, <2>1, <2>2, <2>3, <2>4 DEF Arch!Foreign
<1>4. \A p : Arch!Populate(p) =
        [name |-> p, installed |-> p \in cache["versions"],
         dist |-> p \in cache["native"], aur |-> p \in cache["foreign"],
         abs  |-> p \in cache["abs"],
         noABS |-> p \notin cache["native"] /\ p \notin cache["abs"]]
  BY DEF Arch!Populate
<1>5. ASSUME ~faulty, NEW x \in seen', x.name \in always["versions"]
      PROVE  /\ x.installed
             /\ x.dist <=> x.name \in Native
             /\ x.aur <=> x.name \notin Native
             /\ x.noABS <=> x.name \notin Native \cup ever["abs"]
  <2>1. PICK p : x = Arch!Populate(p)
    BY <1>1
  <2>2. /\ x.name = p /\ x.installed = (p \in cache["versions"])
        /\ x.dist = (p \in cache["native"]) /\ x.aur = (p \in cache["foreign"])
        /\ x.noABS = (p \notin cache["native"] /\ p \notin cache["abs"])
    BY <1>4, <2>1
  <2>3. p \in always["versions"]
    BY <1>5, <2>2
  <2> QED BY <1>3, <1>5, <2>2, <2>3
<1> QED BY <1>1, <1>2, <1>5 DEF Arch!IndexIsTrue

(* An operation that reads: none of the jobs runs.                         *)
LEMMA ReadingStep ==
  ASSUME Reads, Reading, Arch!Next
  PROVE  task' = task /\ Reading'
<1>1. \A i \in DOMAIN worker : ~Arch!JobStep(i)
  BY DEF Reading, Arch!JobStep, Arch!BeginJob, Arch!CloneMissing, Arch!Pull,
         Arch!Fetching, Arch!Clone, Arch!CloneExists, Arch!CheckBuild, Arch!Lock,
         Arch!BuildPackage, Arch!InstallPackages, Arch!Fail, Arch!Installed
<1>2. ~Arch!JobsBegin /\ ~Arch!Finish
  BY DEF Arch!JobsBegin, Arch!Finish, Reading, Reads
<1>3. task' = task
  BY <1>1, <1>2 DEF Arch!Next, Arch!Collect, Arch!CollectFails, Arch!ExportBegins,
                    Arch!Export, Arch!ListBegins, Arch!ListPackages, Arch!Change
<1>4. CASE Arch!Collect
  BY <1>3, <1>4, CollectKeeps
<1>5. CASE Arch!Change
  BY <1>3, <1>5, ChangeKeeps
<1>6. CASE Arch!CollectFails
  <2>1. /\ UNCHANGED <<installed, build, ever, always, cache, file, seen, worker>>
        /\ faulty' = TRUE /\ step \in Arch!Questions
        /\ step' = IF step = "foreign" THEN "indexed" ELSE Arch!After(step)
    BY <1>6 DEF Arch!CollectFails, Arch!Host
  <2>2. "USR" \notin DOMAIN file' /\ seen' = {}
    BY <2>1 DEF Reading, Written
  <2>3. Complete' /\ Written' /\ Arch!IndexIsTrue'
    BY <2>1, <2>2 DEF Complete, Written, Arch!IndexIsTrue
  <2>4. step' # "pool"
    BY <2>1 DEF Arch!After, Arch!Questions
  <2> QED BY <1>3, <2>1, <2>3, <2>4, FrameKeeps
<1>7. CASE Arch!ExportBegins \/ Arch!ListBegins
  <2>1. /\ UNCHANGED <<installed, build, ever, always, cache, faulty, seen, worker>>
        /\ step = "begin" /\ step' \in {"error", "versions"}
        /\ UNCHANGED file \/ "USR" \notin DOMAIN file'
    BY <1>7 DEF Arch!ExportBegins, Arch!ListBegins, Arch!Host
  <2>2. "USR" \notin DOMAIN file' /\ seen' = {}
    BY <2>1 DEF Reading, Written
  <2>3. Complete'
    BY <2>1 DEF Complete, Later, Arch!Questions
  <2>4. Written' /\ Arch!IndexIsTrue'
    BY <2>2 DEF Written, Arch!IndexIsTrue
  <2> QED BY <1>3, <2>1, <2>3, <2>4, FrameKeeps
<1>8. CASE Arch!Export \/ Arch!ListPackages
  <2>1. /\ UNCHANGED <<installed, build, ever, always, cache, faulty, worker>>
        /\ step' \in {"done", "error"}
    BY <1>8 DEF Arch!Export, Arch!ListPackages, Arch!Host
  <2>2. Arch!IndexIsTrue'
    BY <1>8, ExportIsTrue, ListIsTrue
  <2>3. Written' /\ Complete'
    BY <2>1 DEF Written, Complete, Later, Arch!Questions
  <2> QED BY <1>3, <2>1, <2>2, <2>3, FrameKeeps
<1> QED BY <1>1, <1>2, <1>4, <1>5, <1>6, <1>7, <1>8 DEF Arch!Next

(* An operation that runs jobs: no question is asked.                      *)
LEMMA WorkingStep ==
  ASSUME ~Reads, Working, Arch!Next
  PROVE  task' = task /\ Working'
<1>1. /\ ~Arch!Collect /\ ~Arch!CollectFails /\ ~Arch!ExportBegins /\ ~Arch!Export
      /\ ~Arch!ListBegins /\ ~Arch!ListPackages
  BY DEF Working, Reads, Arch!Works, Arch!Questions, Arch!Collect,
         Arch!CollectFails, Arch!ExportBegins, Arch!Export, Arch!ListBegins,
         Arch!ListPackages
<1>2. CASE Arch!JobsBegin \/ Arch!Finish \/ Arch!Change
  BY <1>2 DEF Arch!JobsBegin, Arch!Finish, Arch!Change, Working
<1>3. ASSUME NEW i \in DOMAIN worker, Arch!JobStep(i) PROVE UNCHANGED <<task, step, file, seen>>
  BY <1>3 DEF Arch!JobStep, Arch!BeginJob, Arch!CloneMissing, Arch!Pull, Arch!Clone,
              Arch!CloneExists, Arch!CheckBuild, Arch!Lock, Arch!BuildPackage,
              Arch!InstallPackages, Arch!Installed, Arch!Fail, Arch!Job
<1> QED BY <1>1, <1>2, <1>3 DEF Arch!Next, Working

LEMMA NextIndex ==
  ASSUME IndexInv, [Arch!Next]_(Arch!avars)
  PROVE  IndexInv'
<1>1. CASE UNCHANGED Arch!avars
  BY <1>1 DEF Arch!avars, IndexInv, Reads, Reading, Working, ArchTypes, Bounds,
              Arch!Answer, Arch!Questions, Sound, Complete, Later, Written,
              Arch!IndexIsTrue
<1>2. CASE Arch!Next /\ Reads
  BY <1>2, ReadingStep DEF IndexInv, Reads
<1>3. CASE Arch!Next /\ ~Reads
  BY <1>3, WorkingStep DEF IndexInv, Reads
<1> QED BY <1>1, <1>2, <1>3

(* An index that is exported or listed holds what was true all the time,   *)
(* and nothing that never was, for any packages and changes.               *)
THEOREM IndexesAreTrue ==
  ASSUME AreBeginnings
  PROVE  Arch!Spec => []Arch!IndexIsTrue
<1>1. Arch!Init => IndexInv
  BY InitIndex
<1>2. IndexInv /\ [Arch!Next]_(Arch!avars) => IndexInv'
  BY NextIndex
<1>3. IndexInv => Arch!IndexIsTrue
  BY DEF IndexInv, Reading, Working, Arch!IndexIsTrue
<1> QED BY <1>1, <1>2, <1>3, PTL DEF Arch!Spec

-----------------------------------------------------------------------------
(* The jobs.                                                               *)

Named(i) == worker[i] \notin {"waiting", "sync", "syncing", "done", "error"}

Ready(i) == build[Arch!Name(i)] \in {"clone", "remote"}

Earned(i) ==
  IF Arch!Name(i) = "sync" THEN task.dist \subseteq DOMAIN installed
  ELSE Arch!Name(i) \in DOMAIN installed /\ Ready(i)

JobTypes ==
  /\ \A i \in DOMAIN task.names : Arch!Name(i) \in Package \cup {"sync"}
  /\ build \in [Package -> {"none", "empty", "clone", "remote"}]
  /\ worker \in [DOMAIN task.names ->
                  {"waiting", "sync", "syncing", "fetch", "fetch again", "clone", "clone again",
                   "check", "makepkg", "installing", "done", "error"}]
  /\ changes \in Nat

(* What a job that builds has found stays where it is.                     *)
Placed(i) ==
  /\ Named(i) => Arch!Name(i) # "sync"
  /\ worker[i] \in {"sync", "syncing"} => Arch!Name(i) = "sync"
  /\ worker[i] \in {"makepkg", "installing"} => Ready(i)
  /\ worker[i] = "done" /\ task.kind # "fetch" /\ changes = 0 => Earned(i)

JobInv ==
  /\ JobTypes
  /\ \A i \in DOMAIN worker : Placed(i)
  /\ step = "done" /\ task.kind \in Arch!Works => \A i \in DOMAIN worker : worker[i] = "done"

LEMMA InitJobs ==
  ASSUME AreBeginnings, Arch!Init
  PROVE  JobInv
<1>1. /\ worker = [i \in DOMAIN task.names |-> "waiting"] /\ step = "begin" /\ changes = 0
      /\ task \in Requests
  BY DEF Arch!Init
<1>2. build \in [Package -> {"none", "empty", "clone", "remote"}]
  BY DEF Arch!Init, AreBeginnings
<1>3. JobTypes
  BY <1>1, <1>2 DEF JobTypes, AreBeginnings, Arch!Name
<1>4. \A i \in DOMAIN worker : Placed(i)
  BY <1>1 DEF Placed, Named
<1> QED BY <1>1, <1>3, <1>4 DEF JobInv

(* A step of one job, that leaves the others where they are.  What is      *)
(* installed only grows, and the build directory of a package that can be  *)
(* built is left alone.                                                    *)
LEMMA JobKeeps ==
  ASSUME JobInv, NEW i \in DOMAIN worker, NEW w, worker' = [worker EXCEPT ![i] = w],
         UNCHANGED <<task, step, changes>>, worker[i] \notin {"done", "error"},
         DOMAIN installed \subseteq DOMAIN installed',
         build' \in [Package -> {"none", "empty", "clone", "remote"}],
         \A p \in Package : build[p] \in {"clone", "remote"} => build'[p] = build[p],
         JobTypes', Placed(i)'
  PROVE  JobInv'
<1>1. DOMAIN worker' = DOMAIN worker /\ \A k \in DOMAIN worker : k # i => worker'[k] = worker[k]
  OBVIOUS
<1>2. ASSUME NEW k \in DOMAIN worker, k # i PROVE Placed(k)'
  <2>1. worker'[k] = worker[k] /\ Arch!Name(k)' = Arch!Name(k) /\ Arch!Name(k) \in Package \cup {"sync"}
    BY <1>1, <1>2 DEF Arch!Name, JobInv, JobTypes
  <2>2. Arch!Name(k) # "sync" => (Ready(k) => Ready(k)')
    BY <2>1 DEF Ready
  <2>3. Placed(k)
    BY DEF JobInv
  <2>4. Earned(k) => Earned(k)'
    BY <2>1, <2>2 DEF Earned
  <2> QED BY <2>1, <2>2, <2>3, <2>4 DEF Placed, Named
<1>3. ~(step = "done" /\ task.kind \in Arch!Works)
  BY DEF JobInv
<1> QED BY <1>1, <1>2, <1>3 DEF JobInv

LEMMA NextJobs ==
  ASSUME JobInv, [Arch!Next]_(Arch!avars)
  PROVE  JobInv'
<1> USE DEF JobInv
<1>1. CASE Arch!Collect \/ Arch!CollectFails \/ Arch!ExportBegins \/ Arch!Export \/ Arch!ListBegins \/ Arch!ListPackages
           \/ Arch!JobsBegin \/ UNCHANGED Arch!avars
  <2>1. UNCHANGED <<installed, build, changes, task, worker>>
    BY <1>1 DEF Arch!Collect, Arch!CollectFails, Arch!ExportBegins, Arch!Export,
                Arch!ListBegins, Arch!ListPackages, Arch!JobsBegin, Arch!Host,
                Arch!avars
  <2>2. JobTypes' /\ \A i \in DOMAIN worker : Placed(i)'
    BY <2>1 DEF JobTypes, Placed, Named, Ready, Earned, Arch!Name
  <2>3. step' = "done" /\ task.kind \in Arch!Works => step = "done"
    BY <1>1 DEF Arch!Collect, Arch!CollectFails, Arch!ExportBegins, Arch!Export,
                Arch!ListBegins, Arch!ListPackages, Arch!JobsBegin, Arch!avars,
                Arch!Works, Arch!After, Arch!Questions, Arch!Host
  <2> QED BY <2>1, <2>2, <2>3
<1>2. CASE Arch!Finish
  <2>1. UNCHANGED <<installed, build, changes, task, worker>>
    BY <1>2 DEF Arch!Finish, Arch!Host
  <2>2. JobTypes' /\ \A i \in DOMAIN worker : Placed(i)'
    BY <2>1 DEF JobTypes, Placed, Named, Ready, Earned, Arch!Name
  <2>3. step' = "done" => \A i \in DOMAIN worker : worker[i] = "done"
    BY <1>2 DEF Arch!Finish, Arch!Busy, Arch!Failed
  <2> QED BY <2>1, <2>2, <2>3
<1>3. CASE Arch!Change
  <2>1. /\ UNCHANGED <<build, task, step, worker>> /\ changes' \in Nat /\ changes' # 0
        /\ step # "done"
    <3>1. changes \in Nat /\ changes' = changes + 1
      BY <1>3 DEF Arch!Change, JobTypes
    <3>2. UNCHANGED <<build, task, step, worker>> /\ step # "done"
      BY <1>3 DEF Arch!Change
    <3> QED BY <3>1, <3>2
  <2>2. JobTypes' /\ \A i \in DOMAIN worker : Placed(i)'
    BY <2>1 DEF JobTypes, Placed, Named, Ready, Arch!Name
  <2> QED BY <2>1, <2>2
<1>4. ASSUME NEW i \in DOMAIN worker, Arch!JobStep(i) PROVE JobInv'
  <2> DEFINE Frame ==
        /\ UNCHANGED <<task, step, changes>> /\ worker[i] \notin {"done", "error"}
        /\ Arch!Name(i)' = Arch!Name(i) /\ Arch!Name(i) \in Package \cup {"sync"}
  <2>0. Placed(i) /\ JobTypes
    OBVIOUS
  <2>1. CASE Arch!Clone(i)
    <3>1. Frame /\ UNCHANGED installed
      BY <2>0, <2>1 DEF Arch!Clone, Arch!Job, Arch!Name, JobTypes
    <3>2. PICK w \in {"check", "done", "fetch again"} :
            worker' = [worker EXCEPT ![i] = w] /\ (w = "done" => task.kind = "fetch")
      BY <2>1 DEF Arch!Clone, Arch!To, Arch!Fetched
    <3>3. PICK made \in {"clone", "empty"} :
            build' = [build EXCEPT ![Arch!Name(i)] = made] /\ build[Arch!Name(i)] = "none"
      BY <2>1 DEF Arch!Clone
    <3>4. build' \in [Package -> {"none", "empty", "clone", "remote"}]
      BY <2>0, <3>3 DEF JobTypes
    <3>5. \A p \in Package : build[p] \in {"clone", "remote"} => build'[p] = build[p]
      BY <2>0, <3>3 DEF JobTypes
    <3>6. JobTypes'
      BY <2>0, <3>1, <3>2, <3>4 DEF JobTypes, Arch!Name
    <3>7. Placed(i)'
      BY <2>0, <2>1, <3>1, <3>2 DEF Placed, Named, Arch!Clone
    <3> QED BY <3>1, <3>2, <3>4, <3>5, <3>6, <3>7, JobKeeps
  <2>2. CASE Arch!BuildPackage(i) \/ Arch!InstallPackages(i)
    <3>1. Frame /\ UNCHANGED build /\ worker' = [worker EXCEPT ![i] = "done"]
      BY <2>0, <2>2 DEF Arch!BuildPackage, Arch!InstallPackages, Arch!Installed,
                        Arch!Job, Arch!To, Arch!Name, JobTypes
    <3>2. /\ DOMAIN installed \subseteq DOMAIN installed'
          /\ worker[i] = "installing" => Arch!Name(i) \in DOMAIN installed'
          /\ worker[i] = "syncing" => task.dist \subseteq DOMAIN installed'
          /\ worker[i] \in {"installing", "syncing"}
      BY <2>2 DEF Arch!BuildPackage, Arch!InstallPackages, Arch!Installed
    <3>3. JobTypes'
      BY <2>0, <3>1 DEF JobTypes, Arch!Name
    <3>4. Ready(i)' <=> Ready(i)
      BY <3>1 DEF Ready
    <3>5. Earned(i)'
      BY <2>0, <3>1, <3>2, <3>4 DEF Placed, Named, Earned
    <3>6. worker'[i] = "done"
      BY <2>0, <3>1 DEF JobTypes
    <3>7. Placed(i)'
      BY <3>5, <3>6 DEF Placed, Named
    <3> QED BY <2>0, <3>1, <3>2, <3>3, <3>7, JobKeeps DEF JobTypes
  <2>3. ASSUME Arch!BeginJob(i) \/ Arch!CloneMissing(i) \/ Arch!Pull(i) \/ Arch!CloneExists(i) \/ Arch!CheckBuild(i)
               \/ Arch!Lock(i) \/ Arch!Fail(i)
        PROVE  JobInv'
    <3>1. Frame /\ UNCHANGED <<installed, build>>
      BY <2>0, <2>3 DEF Arch!BeginJob, Arch!CloneMissing, Arch!Pull, Arch!Fetching,
                        Arch!CloneExists, Arch!CheckBuild, Arch!Lock, Arch!Fail,
                        Arch!Job, Arch!Host, Arch!Name, JobTypes
    <3>2. PICK w \in {"sync", "syncing", "fetch", "fetch again", "clone", "clone again",
                      "check", "makepkg", "installing", "done", "error"} :
            /\ worker' = [worker EXCEPT ![i] = w]
            /\ w = "done" => task.kind = "fetch"
            /\ w \in {"sync", "syncing"} =>
                 worker[i] \in {"sync", "syncing"} \/ Arch!Name(i) = "sync"
            /\ w \notin {"sync", "syncing", "done", "error"} =>
                 Named(i) \/ Arch!Name(i) # "sync"
            /\ w \in {"makepkg", "installing"} =>
                 worker[i] = "makepkg" \/ build[Arch!Name(i)] \notin {"none", "empty"}
      BY <2>3 DEF Arch!BeginJob, Arch!CloneMissing, Arch!Pull, Arch!Fetching,
                  Arch!Fetched, Arch!CloneExists, Arch!CheckBuild, Arch!Lock,
                  Arch!Fail, Arch!To, Named
    <3>3. JobTypes' /\ worker'[i] = w
      BY <2>0, <3>1, <3>2 DEF JobTypes, Arch!Name
    <3>4. Ready(i)' <=> Ready(i)
      BY <3>1 DEF Ready
    <3>5. w \in {"makepkg", "installing"} => Ready(i)
      BY <2>0, <3>1, <3>2 DEF Placed, Named, JobTypes, Ready
    <3>6. Placed(i)'
      BY <2>0, <3>1, <3>2, <3>3, <3>4, <3>5 DEF Placed, Named
    <3> QED BY <2>0, <3>1, <3>2, <3>3, <3>6, JobKeeps DEF JobTypes
  <2> QED BY <1>4, <2>1, <2>2, <2>3 DEF Arch!JobStep
<1> QED BY <1>1, <1>2, <1>3, <1>4 DEF Arch!Next

(* Building, installing and setting up report no error only when every     *)
(* package is installed from where it should come from, for any number of  *)
(* jobs and packages, if nobody else changes anything.                     *)
THEOREM SuccessIsInstalled ==
  ASSUME AreBeginnings
  PROVE  Arch!Spec => []Arch!InstalledWhenDone
<1>1. Arch!Init => JobInv
  BY InitJobs
<1>2. JobInv /\ [Arch!Next]_(Arch!avars) => JobInv'
  BY NextJobs
<1>3. JobInv => Arch!InstalledWhenDone
  BY DEF JobInv, Placed, Earned, Ready, Arch!InstalledWhenDone, Arch!Works
<1> QED BY <1>1, <1>2, <1>3, PTL DEF Arch!Spec

(* "sardis arch export" writes, and "admin hack pkg" lists, what was true  *)
(* all the time and nothing that never was, for any packages and changes.  *)
THEOREM ArchIndexesAreTrue ==
  ASSUME AreBeginnings
  PROVE  Spec => []IndexIsTrue
<1>1. Init /\ command = "arch" => Arch!Init
  BY DEF Init
<1>2. [Next]_vars /\ command = "arch" => [Arch!Next]_(Arch!avars)
  BY DEF Next, Admin, Gadget, ArchLinux, vars, arch, Arch!avars
<1>3. Arch!Spec => []Arch!IndexIsTrue
  BY IndexesAreTrue
<1>4. [Next]_vars => ((command = "arch") <=> (command = "arch")')
  BY CommandStays
<1>5. (command = "arch" => Arch!IndexIsTrue) => IndexIsTrue
  BY DEF IndexIsTrue
<1> QED BY <1>1, <1>2, <1>3, <1>4, <1>5, PTL DEF Spec, Arch!Spec

(* "sardis arch" reports no error only when every package that it was to   *)
(* build or install is, for any number of jobs, if nobody else interferes. *)
THEOREM ArchSuccessIsInstalled ==
  ASSUME AreBeginnings
  PROVE  Spec => []InstalledWhenDone
<1>1. Init /\ command = "arch" => Arch!Init
  BY DEF Init
<1>2. [Next]_vars /\ command = "arch" => [Arch!Next]_(Arch!avars)
  BY DEF Next, Admin, Gadget, ArchLinux, vars, arch, Arch!avars
<1>3. Arch!Spec => []Arch!InstalledWhenDone
  BY SuccessIsInstalled
<1>4. [Next]_vars => ((command = "arch") <=> (command = "arch")')
  BY CommandStays
<1>5. (command = "arch" => Arch!InstalledWhenDone) => InstalledWhenDone
  BY DEF InstalledWhenDone
<1> QED BY <1>1, <1>2, <1>3, <1>4, <1>5, PTL DEF Spec, Arch!Spec

-----------------------------------------------------------------------------
(* Tests.  RunTests returns no error only when everything that it met      *)
(* passed.  A package is not run when its name is known; that this hides   *)
(* no failure of a package with a name of its own is because each name     *)
(* that is known was stored for a package which passed (Justified).        *)

TestKind == {"pass", "fail", "none", "broken"}

TestPackages(Name) == [name : Name, tests : TestKind]

AreModules(Name) ==
  Trees \subseteq Seq([loads : BOOLEAN, packages : Seq(TestPackages(Name))])

(* A package of the modules that the walk has met.                         *)
Met(p) == \E n \in 1 .. walked : \E k \in DOMAIN tree[n].packages :
            tree[n].loads /\ tree[n].packages[k] = p

TestTypes(Name) ==
  /\ tree \in Seq([loads : BOOLEAN, packages : Seq(TestPackages(Name))])
  /\ walked \in 0 .. Tests!Modules
  /\ queue \in Seq(TestPackages(Name) \cup {Tests!Lint})
  /\ stage \in [DOMAIN queue ->
                 {"queued", "begun", "testing", "tested", "done"}]

(* What was met is in the queue, and nothing else, but what did not load.  *)
Queued ==
  /\ \A n \in 1 .. walked : tree[n].loads \/ <<"module", n>> \in broken
  /\ \A p : Met(p) => \E i \in DOMAIN queue : queue[i] = p
  /\ \A i \in DOMAIN queue : queue[i] = Tests!Lint \/ Met(queue[i])

(* A name in the map is that of a package that passed.                     *)
Justified ==
  \A n \in DOMAIN reports : \E p : Met(p) /\ p.name = n /\ Tests!Passes(p)

Settled(i) ==
  \/ Tests!Passes(queue[i]) \/ <<"job", i>> \in broken
  \/ Tests!Known(queue[i])

Tried ==
  \A i \in DOMAIN queue :
    queue[i] # Tests!Lint /\ stage[i] \in {"tested", "done"} => Settled(i)

(* The linter is not a test.                                               *)
Tested ==
  \A i \in DOMAIN queue : stage[i] \in {"testing", "tested"} => queue[i] # Tests!Lint

Returned ==
  ended = "ok" =>
    broken = {} /\ walked = Tests!Modules /\ \A i \in DOMAIN stage : stage[i] = "done"

TestInv(Name) == TestTypes(Name) /\ Queued /\ Justified /\ Tried /\ Tested /\ Returned

LEMMA InitTests ==
  ASSUME NEW Name, AreModules(Name), Tests!Init
  PROVE  TestInv(Name)
<1>1. TestTypes(Name)
  <2>1. tree \in Seq([loads : BOOLEAN, packages : Seq(TestPackages(Name))])
    BY DEF Tests!Init, AreModules
  <2>2. queue \in Seq(TestPackages(Name) \cup {Tests!Lint}) /\ \A i \in DOMAIN queue : queue[i] = Tests!Lint
    <3>1. Tests!Lint \in TestPackages(Name) \cup {Tests!Lint}
      OBVIOUS
    <3>2. queue = <<>> \/ queue = <<Tests!Lint>>
      BY DEF Tests!Init
    <3> DEFINE S == TestPackages(Name) \cup {Tests!Lint}
    <3> HIDE DEF S, Tests!Lint
    <3>3. <<>> \in Seq(S) /\ <<Tests!Lint>> \in Seq(S)
      BY <3>1 DEF S
    <3>4. \A i \in DOMAIN <<Tests!Lint>> : <<Tests!Lint>>[i] = Tests!Lint
      OBVIOUS
    <3>5. \A i \in DOMAIN <<>> : <<>>[i] = Tests!Lint
      OBVIOUS
    <3> QED BY <3>2, <3>3, <3>4, <3>5 DEF S
  <2>3. Tests!Modules \in Nat
    BY <2>1 DEF Tests!Modules
  <2> QED BY <2>1, <2>2, <2>3 DEF TestTypes, Tests!Init
<1>2. Queued
  BY DEF Queued, Met, Tests!Init
<1>3. Justified /\ Tried /\ Tested /\ Returned
  BY DEF Justified, Tried, Tested, Returned, Tests!Init
<1> QED BY <1>1, <1>2, <1>3 DEF TestInv

(* The walk adds a module's packages to the queue, or an error.            *)
LEMMA WalkKeeps ==
  ASSUME NEW Name, TestInv(Name), Tests!Walk
  PROVE  TestInv(Name)'
<1> DEFINE m == tree[walked + 1]
<1> USE DEF TestInv
<1>1. /\ walked \in Nat /\ walked + 1 \in 1 .. Len(tree)
      /\ m \in [loads : BOOLEAN, packages : Seq(TestPackages(Name))]
  <2> DEFINE M == [loads : BOOLEAN, packages : Seq(TestPackages(Name))]
  <2>1. tree \in Seq(M) /\ walked \in 0 .. Tests!Modules /\ walked < Tests!Modules
    BY DEF TestTypes, Tests!Walk
  <2> HIDE DEF M
  <2>2. Tests!Modules \in Nat /\ Tests!Modules <= Len(tree)
    BY <2>1 DEF Tests!Modules
  <2>3. walked \in Nat /\ walked + 1 \in 1 .. Len(tree)
    BY <2>1, <2>2
  <2>4. tree[walked + 1] \in M
    BY <2>1, <2>3
  <2> QED BY <2>3, <2>4 DEF M
<1>2. Tests!Modules' = Tests!Modules /\ \A p : Tests!Passes(p)' <=> Tests!Passes(p)
  BY DEF Tests!Walk, Tests!Modules, Tests!Passes, Tests!Parallel
<1>3. walked' = walked + 1 /\ tree' = tree /\ broken \subseteq broken' /\ reports' = reports
  BY DEF Tests!Walk
<1>4. /\ queue' \in Seq(TestPackages(Name) \cup {Tests!Lint})
      /\ DOMAIN queue \subseteq DOMAIN queue'
      /\ \A i \in DOMAIN queue : queue'[i] = queue[i]
      /\ \A i \in DOMAIN queue' : i \in DOMAIN queue \/ (m.loads /\ \E k \in DOMAIN m.packages : queue'[i] = m.packages[k])
      /\ m.loads => \A k \in DOMAIN m.packages : \E i \in DOMAIN queue' : queue'[i] = m.packages[k]
      /\ ~m.loads => <<"module", walked + 1>> \in broken'
  <2>1. CASE m.loads /\ queue' = queue \o m.packages
    <3>1. queue \in Seq(TestPackages(Name) \cup {Tests!Lint}) /\ m.packages \in Seq(TestPackages(Name) \cup {Tests!Lint})
      BY <1>1 DEF TestTypes
    <3>2. /\ Len(queue') = Len(queue) + Len(m.packages)
          /\ \A i \in 1 .. Len(queue) : queue'[i] = queue[i]
          /\ \A i \in 1 .. Len(m.packages) : queue'[Len(queue) + i] = m.packages[i]
          /\ queue' \in Seq(TestPackages(Name) \cup {Tests!Lint})
      BY <2>1, <3>1
    <3>3. \A i \in DOMAIN queue' : i \in DOMAIN queue \/ \E k \in DOMAIN m.packages : queue'[i] = m.packages[k]
      <4> SUFFICES ASSUME NEW i \in DOMAIN queue', i \notin DOMAIN queue
                   PROVE  \E k \in DOMAIN m.packages : queue'[i] = m.packages[k]
        OBVIOUS
      <4>1. /\ DOMAIN queue = 1 .. Len(queue) /\ DOMAIN queue' = 1 .. Len(queue')
            /\ DOMAIN m.packages = 1 .. Len(m.packages)
            /\ Len(queue) \in Nat /\ Len(m.packages) \in Nat
        BY <3>1, <3>2
      <4>2. i - Len(queue) \in 1 .. Len(m.packages) /\ Len(queue) + (i - Len(queue)) = i
        BY <3>2, <4>1
      <4> QED BY <3>2, <4>1, <4>2
    <3>4. \A k \in DOMAIN m.packages : \E i \in DOMAIN queue' : queue'[i] = m.packages[k]
      <4> SUFFICES ASSUME NEW k \in DOMAIN m.packages
                   PROVE  \E i \in DOMAIN queue' : queue'[i] = m.packages[k]
        OBVIOUS
      <4>1. k \in 1 .. Len(m.packages) /\ Len(queue) + k \in 1 .. Len(queue')
        BY <3>1, <3>2
      <4> QED BY <4>1, <3>1, <3>2
    <3>5. DOMAIN queue = 1 .. Len(queue) /\ DOMAIN queue' = 1 .. Len(queue')
          /\ Len(queue) <= Len(queue')
      BY <3>1, <3>2
    <3> QED BY <2>1, <3>2, <3>3, <3>4, <3>5
  <2>2. CASE ~m.loads /\ broken' = broken \cup {<<"module", walked + 1>>} /\ queue' = queue
    BY <2>2 DEF TestTypes
  <2> QED BY <2>1, <2>2 DEF Tests!Walk, Tests!Found
<1>5. stage' \in [DOMAIN queue' -> {"queued", "begun", "testing", "tested", "done"}]
  BY DEF Tests!Walk, TestTypes
<1>6. TestTypes(Name)'
  <2>1. walked' \in 0 .. Tests!Modules'
    <3>1. Tests!Modules \in Nat /\ walked \in 0 .. Tests!Modules /\ walked < Tests!Modules
      BY DEF TestTypes, Tests!Walk, Tests!Modules
    <3> HIDE DEF m
    <3> QED BY <3>1, <1>2, <1>3
  <2> QED BY <1>3, <1>4, <1>5, <2>1 DEF TestTypes
<1>7. \A p : Met(p)' <=> Met(p) \/ (m.loads /\ \E k \in DOMAIN m.packages : m.packages[k] = p)
  <2>1. \A n : n \in 1 .. walked' <=> n \in 1 .. walked \/ n = walked + 1
    BY <1>1, <1>3
  <2>2. \A p : Met(p)' <=> \E n \in 1 .. walked' : \E k \in DOMAIN tree[n].packages :
                              tree[n].loads /\ tree[n].packages[k] = p
    BY <1>3 DEF Met
  <2>3. \A p : Met(p)' <=> (\E n \in 1 .. walked : \E k \in DOMAIN tree[n].packages :
                               tree[n].loads /\ tree[n].packages[k] = p)
                          \/ (m.loads /\ \E k \in DOMAIN m.packages : m.packages[k] = p)
    <3> HIDE DEF m
    <3>1. m = tree[walked + 1]
      BY DEF m
    <3> QED BY <2>1, <2>2, <3>1
  <2> QED BY <2>3 DEF Met
<1>8. Queued'
  <2>1. \A n \in 1 .. walked' : tree'[n].loads \/ <<"module", n>> \in broken'
    <3>1. \A n \in 1 .. walked' : n \in 1 .. walked \/ n = walked + 1
      BY <1>1, <1>3
    <3>2. \A n \in 1 .. walked : tree[n].loads \/ <<"module", n>> \in broken
      BY DEF Queued
    <3> QED BY <1>3, <1>4, <3>1, <3>2
  <2>2. \A p : Met(p)' => \E i \in DOMAIN queue' : queue'[i] = p
    BY <1>4, <1>7 DEF Queued
  <2>3. \A i \in DOMAIN queue' : queue'[i] = Tests!Lint \/ Met(queue[i])'
    BY <1>4, <1>7 DEF Queued
  <2> QED BY <2>1, <2>2, <2>3 DEF Queued
<1>9. Justified'
  BY <1>2, <1>3, <1>7 DEF Justified
<1>10. Tried' /\ Tested'
  <2>1. \A i \in DOMAIN queue' : stage'[i] \in {"testing", "tested", "done"} => i \in DOMAIN queue /\ stage'[i] = stage[i]
    BY <1>4 DEF Tests!Walk, TestTypes
  <2> QED BY <1>2, <1>3, <1>4, <2>1 DEF Tried, Tested, Settled, Tests!Known
<1>11. Returned'
  BY DEF Tests!Walk, Returned
<1> QED BY <1>6, <1>8, <1>9, <1>10, <1>11

(* A step of one job, that leaves the queue and the walk alone.            *)
LEMMA TestJobKeeps ==
  ASSUME NEW Name, TestInv(Name), NEW i \in DOMAIN queue,
         UNCHANGED <<options, tree, walked, queue>>,
         NEW s \in {"begun", "testing", "tested", "done"}, Tests!To(i, s),
         broken \subseteq broken', DOMAIN reports \subseteq DOMAIN reports',
         \A n \in DOMAIN reports' :
           n \in DOMAIN reports \/ (queue[i] # Tests!Lint /\ n = queue[i].name /\ Tests!Passes(queue[i])),
         queue[i] # Tests!Lint /\ s \in {"tested", "done"} => Settled(i)',
         s \in {"testing", "tested"} => queue[i] # Tests!Lint,
         ended = "none", ended' = "none"
  PROVE  TestInv(Name)'
<1> USE DEF TestInv
<1>1. Tests!Modules' = Tests!Modules /\ (\A p : Tests!Passes(p)' <=> Tests!Passes(p)) /\ (\A p : Met(p)' <=> Met(p))
  BY DEF Tests!Modules, Tests!Passes, Tests!Parallel, Met
<1>2. stage' = [stage EXCEPT ![i] = s]
  BY DEF Tests!To
<1>3. TestTypes(Name)'
  BY <1>1, <1>2 DEF TestTypes
<1>4. Queued'
  BY <1>1 DEF Queued
<1>5. Justified'
  BY <1>1 DEF Justified, Queued
<1>6. Tried' /\ Tested'
  BY <1>1, <1>2 DEF Tried, Tested, Settled, Tests!Known, TestTypes
<1>7. Returned'
  BY DEF Returned
<1> QED BY <1>3, <1>4, <1>5, <1>6, <1>7

LEMMA NextTests ==
  ASSUME NEW Name, TestInv(Name), [Tests!Next]_(Tests!tvars)
  PROVE  TestInv(Name)'
<1>1. CASE Tests!Walk
  BY <1>1, WalkKeeps
<1>2. ASSUME NEW i \in DOMAIN queue, Tests!JobStep(i), ended' = "none"
      PROVE  TestInv(Name)'
  <2> DEFINE Kept ==
        /\ UNCHANGED <<options, tree, walked, queue>>
        /\ broken \subseteq broken' /\ DOMAIN reports \subseteq DOMAIN reports'
        /\ ended = "none"
  <2>1. ASSUME Tests!Pop(i) \/ Tests!RunLint(i) \/ Tests!CheckReports(i) PROVE TestInv(Name)'
    <3>1. Kept /\ reports' = reports
      BY <2>1 DEF Tests!Pop, Tests!RunLint, Tests!CheckReports
    <3>2. Tests!Known(queue[i])' <=> Tests!Known(queue[i])
      BY <3>1 DEF Tests!Known
    <3>3. PICK s \in {"begun", "testing", "done"} :
            /\ Tests!To(i, s) /\ (queue[i] # Tests!Lint /\ s = "done" => Tests!Known(queue[i]))
            /\ s = "testing" => queue[i] # Tests!Lint
      BY <2>1 DEF Tests!Pop, Tests!RunLint, Tests!CheckReports
    <3>4. queue[i] # Tests!Lint /\ s \in {"tested", "done"} => Settled(i)'
      BY <3>1, <3>2, <3>3 DEF Settled
    <3> QED BY <1>2, <3>1, <3>3, <3>4, TestJobKeeps
  <2>2. ASSUME Tests!Store(i) \/ Tests!StoreNothing(i) PROVE TestInv(Name)'
    <3>1. Kept /\ Tests!To(i, "tested") /\ Tests!Passes(queue[i]) /\ stage[i] = "testing"
      BY <2>2 DEF Tests!Store, Tests!StoreNothing
    <3>2. \A n \in DOMAIN reports' : n \in DOMAIN reports \/ n = queue[i].name
      BY <2>2 DEF Tests!Store, Tests!StoreNothing
    <3>3. Tests!Passes(queue[i])'
      BY <3>1 DEF Tests!Passes, Tests!Parallel
    <3>4. Settled(i)'
      BY <3>1, <3>3 DEF Settled
    <3>5. queue[i] # Tests!Lint
      <4>1. stage[i] = "testing" => queue[i] # Tests!Lint
        BY DEF TestInv, Tested
      <4> QED BY <3>1, <4>1
    <3> QED BY <1>2, <3>1, <3>2, <3>4, <3>5, TestJobKeeps
  <2>3. ASSUME Tests!Fail(i) PROVE TestInv(Name)'
    <3>1. Kept /\ Tests!To(i, "tested") /\ reports' = reports /\ <<"job", i>> \in broken'
      BY <2>3 DEF Tests!Fail
    <3>2. Settled(i)'
      BY <3>1 DEF Settled
    <3>3. queue[i] # Tests!Lint
      BY <2>3 DEF TestInv, Tested, Tests!Fail
    <3> QED BY <1>2, <3>1, <3>2, <3>3, TestJobKeeps
  <2>4. ASSUME Tests!Report(i) PROVE TestInv(Name)'
    <3>1. Kept /\ Tests!To(i, "done") /\ reports' = reports /\ stage[i] = "tested"
      BY <2>4 DEF Tests!Report
    <3>2. queue[i] # Tests!Lint => Settled(i)
      BY <3>1 DEF TestInv, Tried
    <3>3. Settled(i) => Settled(i)'
      BY <3>1 DEF Settled, Tests!Known, Tests!Passes, Tests!Parallel
    <3> QED BY <1>2, <3>1, <3>2, <3>3, TestJobKeeps
  <2>5. ~Tests!Crash(i)
    BY <1>2 DEF Tests!Crash
  <2> QED BY <1>2, <2>1, <2>2, <2>3, <2>4, <2>5 DEF Tests!JobStep
<1>3. ASSUME \/ Tests!Return
             \/ \E i \in DOMAIN queue : Tests!JobStep(i) /\ ended' # "none"
             \/ UNCHANGED Tests!tvars
      PROVE  TestInv(Name)'
  <2>1. UNCHANGED <<options, tree, walked, queue, stage, reports, broken>>
    BY <1>3 DEF Tests!Return, Tests!JobStep, Tests!Pop, Tests!RunLint,
                Tests!CheckReports, Tests!Store, Tests!StoreNothing, Tests!Crash,
                Tests!Fail, Tests!Report, Tests!tvars
  <2>2. Returned'
    BY <1>3 DEF TestInv, Returned, Tests!Return, Tests!JobStep, Tests!Pop,
                Tests!RunLint, Tests!CheckReports, Tests!Store, Tests!StoreNothing,
                Tests!Crash, Tests!Fail, Tests!Report, Tests!tvars, Tests!Modules
  <2>3. TestTypes(Name)' /\ Queued' /\ Justified' /\ Tried' /\ Tested'
    BY <2>1 DEF TestInv, TestTypes, Queued, Justified, Tried, Tested, Settled,
                Tests!Known, Tests!Passes, Tests!Parallel, Met, Tests!Modules
  <2> QED BY <2>2, <2>3 DEF TestInv
<1> QED BY <1>1, <1>2, <1>3 DEF Tests!Next

(* RunTests returns no error only when every module was loaded and every   *)
(* package passed, or another one of its name did: for every directory.    *)
THEOREM SuccessIsEarned ==
  ASSUME NEW Name, AreModules(Name)
  PROVE  Tests!Spec => []Tests!PassedWhenDone
<1>1. Tests!Init => TestInv(Name)
  BY InitTests
<1>2. TestInv(Name) /\ [Tests!Next]_(Tests!tvars) => TestInv(Name)'
  BY NextTests
<1>3. TestInv(Name) => Tests!PassedWhenDone
  <2> SUFFICES ASSUME TestInv(Name), ended = "ok", NEW n \in 1 .. Tests!Modules
               PROVE  /\ tree[n].loads
                      /\ \A p \in Tests!Range(tree[n].packages) :
                           \/ Tests!Passes(p)
                           \/ \E k \in 1 .. Tests!Modules : \E q \in Tests!Range(tree[k].packages) :
                                q.name = p.name /\ q # p /\ Tests!Passes(q) /\ Tests!Known(q)
    BY DEF Tests!PassedWhenDone
  <2>1. broken = {} /\ walked = Tests!Modules /\ \A i \in DOMAIN stage : stage[i] = "done"
    BY DEF TestInv, Returned
  <2>2. tree[n].loads
    BY <2>1 DEF TestInv, Queued
  <2>3. ASSUME NEW p \in Tests!Range(tree[n].packages), ~Tests!Passes(p)
        PROVE  \E k \in 1 .. Tests!Modules : \E q \in Tests!Range(tree[k].packages) :
                 q.name = p.name /\ q # p /\ Tests!Passes(q) /\ Tests!Known(q)
    <3>1. Met(p)
      BY <2>1, <2>2, <2>3 DEF Met, Tests!Range
    <3>2. PICK i \in DOMAIN queue : queue[i] = p
      BY <3>1 DEF TestInv, Queued
    <3>3. tree \in Seq([loads : BOOLEAN, packages : Seq(TestPackages(Name))]) /\ n \in 1 .. Len(tree)
      BY DEF TestInv, TestTypes, Tests!Modules
    <3>4. p \in TestPackages(Name)
      <4> DEFINE M == [loads : BOOLEAN, packages : Seq(TestPackages(Name))]
      <4>1. tree[n] \in M
        <5>1. tree \in Seq(M) /\ n \in 1 .. Len(tree)
          BY <3>3
        <5> HIDE DEF M
        <5> QED BY <5>1
      <4>2. tree[n].packages \in Seq(TestPackages(Name))
        BY <4>1
      <4> HIDE DEF TestPackages
      <4> QED BY <4>2, <2>3 DEF Tests!Range
    <3>5. p # Tests!Lint
      BY <3>4 DEF TestPackages, TestKind, Tests!Lint
    <3>6. stage[i] = "done"
      BY <2>1 DEF TestInv, TestTypes
    <3>7. Tests!Known(p)
      BY <2>1, <2>3, <3>2, <3>5, <3>6 DEF TestInv, Tried, Settled
    <3>8. PICK q : Met(q) /\ q.name = p.name /\ Tests!Passes(q)
      BY <3>7 DEF TestInv, Justified, Tests!Known
    <3>9. Tests!Known(q) /\ q # p
      BY <2>3, <3>7, <3>8 DEF Tests!Known
    <3>10. PICK k \in 1 .. walked : q \in Tests!Range(tree[k].packages)
      BY <3>8 DEF Met, Tests!Range
    <3> QED BY <2>1, <3>8, <3>9, <3>10
  <2> QED BY <2>2, <2>3
<1> QED BY <1>1, <1>2, <1>3, PTL DEF Tests!Spec

(* "sardis gadget" reports no error only when every module was loaded and  *)
(* every package passed, or another of its name did, for every directory.  *)
THEOREM GadgetSuccessIsEarned ==
  ASSUME NEW Names, AreModules(Names)
  PROVE  Spec => []PassedWhenDone
<1>1. Init /\ command = "gadget" => Tests!Init
  BY DEF Init
<1>2. [Next]_vars /\ command = "gadget" => [Tests!Next]_(Tests!tvars)
  BY DEF Next, Admin, ArchLinux, Gadget, vars, tests, Tests!tvars
<1>3. Tests!Spec => []Tests!PassedWhenDone
  BY SuccessIsEarned
<1>4. [Next]_vars => ((command = "gadget") <=> (command = "gadget")')
  BY CommandStays
<1>5. (command = "gadget" => Tests!PassedWhenDone) => PassedWhenDone
  BY DEF PassedWhenDone
<1> QED BY <1>1, <1>2, <1>3, <1>4, <1>5, PTL DEF Spec, Tests!Spec

-----------------------------------------------------------------------------
(* Setting up.  The invariant (SetupInvariant) is about one step of one    *)
(* job among others, each of which has looked at the file system before    *)
(* and acts on it now.  It says who changed what since the process began   *)
(* (Tracked); that a link which is done leads to its target as long as     *)
(* nothing was changed on its way (LinksLead); that services are as far as *)
(* their jobs are (UnitsSet); and that where all was set up before, every  *)
(* link finds that it is (StillSet).  That a step keeps it is because      *)
(* where a path leads depends only on what is on its way (WayKept), no     *)
(* path that leads to something meets an entry that is missing             *)
(* (MissingOffWay), a new link leads where its target does (NewLinkLeads), *)
(* and without its entry a path leads nowhere (Removed).  Words of paths   *)
(* may be any: Word is STRING in the theorems.                             *)

(* Sets of numbers have a least one.                                       *)
LEMMA Least ==
  ASSUME NEW T, T \subseteq Nat, T # {}
  PROVE  \E x \in T : \A y \in T : x <= y
<1> DEFINE R == OpToRel(<, Nat)
<1>1. IsWellFoundedOn(R, Nat)
  BY NatLessThanWellFounded
<1>2. \A x, y \in Nat : <<y, x>> \in R <=> y < x
  BY DEF OpToRel
<1> HIDE DEF R
<1>3. PICK x \in T : \A y \in T : ~(<<y, x>> \in R)
  BY <1>1, WFMin
<1>4. ASSUME NEW y \in T
      PROVE  x <= y
  <2>1. x \in Nat /\ y \in Nat
    OBVIOUS
  <2>2. ~(y < x)
    BY <1>2, <1>3, <2>1
  <2> QED BY <2>1, <2>2
<1> QED BY <1>4

(* Sequences are equal if their elements are.                              *)
LEMMA SeqsEqual ==
  ASSUME NEW S, NEW s \in Seq(S), NEW t \in Seq(S), Len(s) = Len(t),
         \A i \in 1 .. Len(s) : s[i] = t[i]
  PROVE  s = t
OBVIOUS

(* Above an entry there are only directories.                              *)
LEMMA DirsAbove ==
  ASSUME NEW Word, NEW f, Tree(Word, f), NEW p \in Seq(Word), NEW m \in 1 .. Len(p),
         Setup!Kind(f, SubSeq(p, 1, m)) # "none", NEW n \in 1 .. m - 1
  PROVE  Setup!Kind(f, SubSeq(p, 1, n)) = "dir"
<1> DEFINE K(k) == Setup!Kind(f, SubSeq(p, 1, k))
           T == {j \in Nat : j < m /\ j >= 1 /\ K(m - j) # "dir"}
<1>1. \A k \in 1 .. m : K(k) # "none" /\ k > 1 => K(k - 1) = "dir"
  <2> SUFFICES ASSUME NEW k \in 1 .. m, K(k) # "none", k > 1
               PROVE  K(k - 1) = "dir"
    OBVIOUS
  <2> DEFINE q == SubSeq(p, 1, k)
  <2>1. q \in DOMAIN f
    BY DEF Setup!Kind
  <2>2. Len(q) = k /\ SubSeq(q, 1, k - 1) = SubSeq(p, 1, k - 1)
    OBVIOUS
  <2> QED BY <2>1, <2>2 DEF Tree
<1>2. T = {}
  <2> SUFFICES ASSUME T # {} PROVE FALSE
    OBVIOUS
  <2>1. T \subseteq Nat
    OBVIOUS
  <2>2. PICK j \in T : \A i \in T : j <= i
    <3> HIDE DEF T
    <3> QED BY <2>1, Least
  <2>3. m \in Nat /\ j \in Nat /\ j >= 1 /\ j < m /\ K(m - j) # "dir"
    OBVIOUS
  <2>4. CASE j = 1
    <3>1. K(m) # "none" /\ m > 1
      BY <2>3
    <3> HIDE DEF K
    <3> QED BY <1>1, <2>3, <2>4, <3>1
  <2>5. CASE j > 1
    <3>1. K(m - (j - 1)) = "dir"
      <4>1. j - 1 \in Nat /\ j - 1 < m /\ j - 1 >= 1 /\ ~(j <= j - 1)
        BY <2>3, <2>5
      <4> HIDE DEF K
      <4> QED BY <2>2, <4>1
    <3>2. m - (j - 1) \in 1 .. m /\ m - (j - 1) > 1 /\ (m - (j - 1)) - 1 = m - j
      BY <2>3
    <3> HIDE DEF K
    <3>3. K((m - (j - 1)) - 1) = "dir"
      BY <1>1, <3>1, <3>2
    <3> QED BY <2>3, <3>2, <3>3
  <2> QED BY <2>3, <2>4, <2>5
<1>3. m - n \in Nat /\ m - n < m /\ m - n >= 1 /\ m - (m - n) = n
  OBVIOUS
<1>4. K(m - (m - n)) = "dir"
  BY <1>2, <1>3
<1>5. K(n) = "dir"
  <2> HIDE DEF K
  <2> QED BY <1>3, <1>4
<1> QED BY <1>5

-----------------------------------------------------------------------------
(* Hops.                                                                   *)

(* Where no link is on the way, nothing is followed.                       *)
LEMMA NoLink ==
  ASSUME NEW f, NEW p, \A n \in DOMAIN p : ~Setup!LinkAt(f, p, n)
  PROVE  Setup!Hop(f, p) = p
BY DEF Setup!Hop

(* Where the link at n leads.                                              *)
Through(f, p, n) ==
  LET to == f[Setup!Abs(SubSeq(p, 1, n))].to
  IN  (IF Setup!IsAbs(to) THEN to ELSE SubSeq(p, 1, n - 1) \o to) \o SubSeq(p, n + 1, Len(p))

(* A hop follows the first link, of which there is one.                    *)
LEMMA OneLink ==
  ASSUME NEW Word, NEW f, NEW p \in Seq(Word), NEW n, Setup!LinkAt(f, p, n)
  PROVE  Setup!Hop(f, p) = Through(f, p, n) /\ n \in 1 .. Len(p)
<1> DEFINE m == CHOOSE m \in DOMAIN p : Setup!LinkAt(f, p, m)
<1>1. n \in DOMAIN p /\ DOMAIN p = 1 .. Len(p) /\ Len(p) \in Nat
  BY DEF Setup!LinkAt
<1>2. m \in DOMAIN p /\ Setup!LinkAt(f, p, m)
  BY <1>1
<1>3. m = n
  <2> HIDE DEF m
  <2>1. ~(m < n) /\ ~(n < m)
    BY <1>1, <1>2 DEF Setup!LinkAt
  <2> QED BY <1>1, <1>2, <2>1
<1>4. Setup!Hop(f, p) = Through(f, p, m)
  BY <1>1 DEF Setup!Hop, Through
<1> QED BY <1>1, <1>3, <1>4

(* If one prefix is a link then one of them is the first.                  *)
LEMMA SomeLink ==
  ASSUME NEW Word, NEW f, NEW p \in Seq(Word), NEW m \in DOMAIN p,
         Setup!Kind(f, Setup!Abs(SubSeq(p, 1, m))) = "link"
  PROVE  \E n \in DOMAIN p : Setup!LinkAt(f, p, n)
<1> DEFINE T == {n \in DOMAIN p : Setup!Kind(f, Setup!Abs(SubSeq(p, 1, n))) = "link"}
<1>1. DOMAIN p = 1 .. Len(p) /\ Len(p) \in Nat
  OBVIOUS
<1>2. T \subseteq Nat /\ T # {}
  BY <1>1
<1>3. PICK n \in T : \A k \in T : n <= k
  <2> HIDE DEF T
  <2> QED BY <1>2, Least
<1>4. n \in 1 .. Len(p) /\ \A k \in 1 .. n - 1 : ~(n <= k) /\ k \in DOMAIN p
  BY <1>1
<1> QED BY <1>3, <1>4 DEF Setup!LinkAt

(* A hop looks only at the prefixes of the path.                           *)
Agree(f, g, p) == (p \in DOMAIN f <=> p \in DOMAIN g) /\ (p \in DOMAIN f => f[p] = g[p])

(* A hop is the same in file systems that agree about the prefixes.        *)
LEMMA SameHop ==
  ASSUME NEW Word, NEW f, NEW g, NEW p \in Seq(Word),
         \A n \in DOMAIN p : Agree(f, g, Setup!Abs(SubSeq(p, 1, n)))
  PROVE  Setup!Hop(f, p) = Setup!Hop(g, p)
<1>1. DOMAIN p = 1 .. Len(p) /\ Len(p) \in Nat
  OBVIOUS
<1>2. \A n \in DOMAIN p : Setup!Kind(f, Setup!Abs(SubSeq(p, 1, n))) = Setup!Kind(g, Setup!Abs(SubSeq(p, 1, n)))
  BY DEF Agree, Setup!Kind
<1>3. \A n \in DOMAIN p : Setup!LinkAt(f, p, n) <=> Setup!LinkAt(g, p, n)
  <2> SUFFICES ASSUME NEW n \in DOMAIN p
               PROVE  Setup!LinkAt(f, p, n) <=> Setup!LinkAt(g, p, n)
    OBVIOUS
  <2>1. \A k \in 1 .. n - 1 : k \in DOMAIN p
    BY <1>1
  <2> QED BY <1>2, <2>1 DEF Setup!LinkAt
<1>4. CASE \A n \in DOMAIN p : ~Setup!LinkAt(f, p, n)
  BY <1>3, <1>4, NoLink
<1>5. ASSUME NEW n \in DOMAIN p, Setup!LinkAt(f, p, n)
      PROVE  Setup!Hop(f, p) = Setup!Hop(g, p)
  <2>1. Setup!Hop(f, p) = Through(f, p, n) /\ Setup!Hop(g, p) = Through(g, p, n)
    BY <1>3, <1>5, OneLink
  <2>2. f[Setup!Abs(SubSeq(p, 1, n))] = g[Setup!Abs(SubSeq(p, 1, n))]
    BY <1>5 DEF Setup!LinkAt, Setup!Kind, Agree
  <2> QED BY <2>1, <2>2 DEF Through
<1> QED BY <1>4, <1>5

(* Paths lead to paths, absolute ones to absolute ones.                    *)
LEMMA Joined ==
  ASSUME NEW Word, NEW p \in Path(Word), NEW q \in Path(Word),
         p = <<>> \/ ~Setup!IsAbs(q)
  PROVE  p \o q \in Path(Word) /\ (p # <<>> => (Setup!IsAbs(p \o q) <=> Setup!IsAbs(p)))
         /\ (p = <<>> => p \o q = q)
<1>1. p \in Seq(Word) /\ q \in Seq(Word)
  BY DEF Path
<1>2. p \o q \in Seq(Word) /\ Len(p \o q) = Len(p) + Len(q)
      /\ \A i \in 1 .. Len(p) + Len(q) : (p \o q)[i] = IF i <= Len(p) THEN p[i] ELSE q[i - Len(p)]
  BY <1>1
<1>3. CASE p = <<>>
  BY <1>1, <1>3
<1>4. CASE p # <<>>
  <2>1. Len(p) >= 1 /\ Len(p) \in Nat /\ Len(q) \in Nat
    BY <1>1, <1>4
  <2>2. \A i \in 1 .. Len(q) : q[i] # "/"
    BY <1>1, <1>4, <2>1 DEF Path, Setup!IsAbs
  <2>3. \A i \in 2 .. Len(p) + Len(q) : (p \o q)[i] # "/"
    <3> SUFFICES ASSUME NEW i \in 2 .. Len(p) + Len(q) PROVE (p \o q)[i] # "/"
      OBVIOUS
    <3>1. CASE i <= Len(p)
      <4>1. i \in 2 .. Len(p)
        BY <2>1, <3>1
      <4> QED BY <1>2, <2>1, <3>1, <4>1 DEF Path
    <3>2. CASE i > Len(p)
      <4>1. i - Len(p) \in 1 .. Len(q)
        BY <2>1, <3>2
      <4> QED BY <1>2, <2>1, <2>2, <3>2, <4>1
    <3> QED BY <2>1, <3>1, <3>2
  <2>4. p \o q # <<>> /\ (p \o q)[1] = p[1]
    BY <1>1, <1>2, <2>1
  <2> QED BY <1>2, <1>4, <2>3, <2>4 DEF Path, Setup!IsAbs
<1> QED BY <1>3, <1>4

(* A path's beginning is as absolute as it is, what follows is relative.   *)
LEMMA Parts ==
  ASSUME NEW Word, NEW p \in Path(Word), NEW n \in 0 .. Len(p)
  PROVE  /\ SubSeq(p, 1, n) \in Path(Word) /\ Len(SubSeq(p, 1, n)) = n
         /\ n > 0 => (Setup!IsAbs(SubSeq(p, 1, n)) <=> Setup!IsAbs(p))
         /\ SubSeq(p, n + 1, Len(p)) \in Path(Word)
         /\ n > 0 => ~Setup!IsAbs(SubSeq(p, n + 1, Len(p)))
<1>1. p \in Seq(Word) /\ Len(p) \in Nat /\ \A i \in 2 .. Len(p) : p[i] # "/"
  BY DEF Path
<1> DEFINE a == SubSeq(p, 1, n)
           b == SubSeq(p, n + 1, Len(p))
<1>2. a \in Seq(Word) /\ Len(a) = n /\ \A i \in 1 .. n : a[i] = p[i]
  BY <1>1
<1>3. b \in Seq(Word) /\ Len(b) = Len(p) - n /\ \A i \in 1 .. Len(p) - n : b[i] = p[i + n]
  BY <1>1
<1> HIDE DEF a, b
<1>4. a \in Path(Word) /\ (n > 0 => (Setup!IsAbs(a) <=> Setup!IsAbs(p)))
  BY <1>1, <1>2 DEF Path, Setup!IsAbs
<1>5. b \in Path(Word) /\ (n > 0 => ~Setup!IsAbs(b))
  <2>1. \A i \in 2 .. Len(b) : b[i] # "/"
    BY <1>1, <1>3
  <2>2. n > 0 /\ b # <<>> => b[1] # "/"
    BY <1>1, <1>3
  <2> QED BY <1>3, <2>1, <2>2 DEF Path, Setup!IsAbs
<1> QED BY <1>2, <1>4, <1>5 DEF a, b

(* Links lead from paths to paths.                                         *)
LEMMA ThroughIsPath ==
  ASSUME NEW Word, NEW f, Tree(Word, f), NEW p \in Path(Word), NEW n, Setup!LinkAt(f, p, n)
  PROVE  Through(f, p, n) \in Path(Word) /\ n \in 1 .. Len(p)
         /\ f[Setup!Abs(SubSeq(p, 1, n))].to \in Path(Word)
<1> DEFINE to == f[Setup!Abs(SubSeq(p, 1, n))].to
           b == SubSeq(p, n + 1, Len(p))
           a == SubSeq(p, 1, n - 1)
<1>1. p \in Seq(Word) /\ n \in 1 .. Len(p) /\ Len(p) \in Nat
  BY DEF Path, Setup!LinkAt
<1>2. to \in Path(Word)
  BY DEF Setup!LinkAt, Setup!Kind, Tree, Node
<1>3. a \in Path(Word) /\ b \in Path(Word) /\ ~Setup!IsAbs(b)
  <2>1. n \in 0 .. Len(p) /\ n - 1 \in 0 .. Len(p) /\ n > 0
    BY <1>1
  <2> QED BY <2>1, Parts
<1> HIDE DEF to, a, b
<1> DEFINE h == IF Setup!IsAbs(to) THEN to ELSE a \o to
<1>4. h \in Path(Word)
  BY <1>2, <1>3, Joined
<1> HIDE DEF h
<1>5. h \o b \in Path(Word)
  BY <1>3, <1>4, Joined
<1> QED BY <1>1, <1>2, <1>5 DEF Through, h, to, a, b

(* So do hops.                                                             *)
LEMMA HopIsPath ==
  ASSUME NEW Word, NEW f, Tree(Word, f), NEW p \in Path(Word)
  PROVE  Setup!Hop(f, p) \in Path(Word)
<1>1. CASE \A n \in DOMAIN p : ~Setup!LinkAt(f, p, n)
  BY <1>1, NoLink
<1>2. ASSUME NEW n \in DOMAIN p, Setup!LinkAt(f, p, n)
      PROVE  Setup!Hop(f, p) \in Path(Word)
  BY <1>2, OneLink, ThroughIsPath DEF Path
<1> QED BY <1>1, <1>2

(* The first link on an absolute path is not the root.                     *)
LEMMA RootIsDir ==
  ASSUME NEW Word, NEW f, Tree(Word, f), NEW p \in Path(Word), NEW n, Setup!IsAbs(p), Setup!LinkAt(f, p, n)
  PROVE  n > 1 /\ Setup!Abs(SubSeq(p, 1, n)) = SubSeq(p, 1, n)
<1>1. p \in Seq(Word) /\ n \in 1 .. Len(p) /\ Len(p) \in Nat
  BY DEF Path, Setup!LinkAt
<1>2. Setup!IsAbs(SubSeq(p, 1, n))
  BY <1>1, Parts
<1>3. Setup!Abs(SubSeq(p, 1, n)) = SubSeq(p, 1, n)
  BY <1>2 DEF Setup!Abs
<1>4. SubSeq(p, 1, 1) = Setup!Root
  <2>1. p[1] = "/" /\ 1 \in 1 .. Len(p)
    BY <1>1 DEF Setup!IsAbs
  <2> DEFINE s == SubSeq(p, 1, 1)
  <2>2. s \in Seq(Word) /\ Len(s) = 1 /\ s[1] = "/"
    BY <1>1, <2>1
  <2>3. Setup!Root \in Seq(Word) /\ Len(Setup!Root) = 1 /\ Setup!Root[1] = "/"
    BY <1>1, <2>1 DEF Setup!Root
  <2> HIDE DEF s
  <2>4. \A i \in 1 .. 1 : s[i] = Setup!Root[i]
    BY <2>2, <2>3
  <2>5. s = Setup!Root
    BY <2>2, <2>3, <2>4, SeqsEqual
  <2> QED BY <2>5 DEF s
<1>5. Setup!Kind(f, SubSeq(p, 1, n)) = "link" /\ Setup!Kind(f, Setup!Root) = "dir"
  BY <1>3 DEF Tree, Setup!LinkAt
<1>6. ASSUME n = 1 PROVE FALSE
  <2>1. SubSeq(p, 1, n) = Setup!Root
    BY <1>4, <1>6
  <2> QED BY <1>5, <2>1
<1> QED BY <1>1, <1>3, <1>6

(* A hop from an absolute path leads to one.                               *)
LEMMA HopIsAbs ==
  ASSUME NEW Word, NEW f, Tree(Word, f), NEW p \in Path(Word), Setup!IsAbs(p)
  PROVE  Setup!Hop(f, p) \in Path(Word) /\ Setup!IsAbs(Setup!Hop(f, p))
<1>1. CASE \A n \in DOMAIN p : ~Setup!LinkAt(f, p, n)
  BY <1>1, NoLink
<1>2. ASSUME NEW n \in DOMAIN p, Setup!LinkAt(f, p, n)
      PROVE  Setup!IsAbs(Setup!Hop(f, p))
  <2> DEFINE to == f[Setup!Abs(SubSeq(p, 1, n))].to
             a == SubSeq(p, 1, n - 1)
             b == SubSeq(p, n + 1, Len(p))
             h == IF Setup!IsAbs(to) THEN to ELSE a \o to
  <2>1. p \in Seq(Word) /\ n \in 1 .. Len(p) /\ Len(p) \in Nat /\ n > 1 /\ to \in Path(Word)
    BY <1>2, RootIsDir, ThroughIsPath DEF Path
  <2>2. n \in 0 .. Len(p) /\ n - 1 \in 0 .. Len(p) /\ n > 0 /\ n - 1 > 0
    BY <2>1
  <2>3. a \in Path(Word) /\ Setup!IsAbs(a) /\ b \in Path(Word) /\ ~Setup!IsAbs(b)
    BY <2>2, Parts
  <2>4. Setup!Hop(f, p) = h \o b
    BY <1>2, <2>1, OneLink DEF Through
  <2> HIDE DEF to, a, b
  <2>5. a # <<>> /\ (Setup!IsAbs(to) => to # <<>>)
    BY <2>3 DEF Setup!IsAbs
  <2>6. h \in Path(Word) /\ Setup!IsAbs(h)
    BY <2>1, <2>3, <2>5, Joined
  <2>7. h # <<>>
    BY <2>6 DEF Setup!IsAbs
  <2> HIDE DEF h
  <2> QED BY <2>3, <2>4, <2>6, <2>7, Joined
<1> QED BY <1>1, <1>2, HopIsPath

(* From the working directory, every path is absolute.                     *)
LEMMA AbsIsPath ==
  ASSUME NEW Word, "/" \in Word, "w" \in Word, NEW p \in Path(Word)
  PROVE  Setup!Abs(p) \in Path(Word) /\ Setup!IsAbs(Setup!Abs(p))
<1>1. Setup!Cwd \in Path(Word) /\ Setup!IsAbs(Setup!Cwd) /\ Setup!Cwd # <<>>
  BY DEF Setup!Cwd, Path, Setup!IsAbs
<1> QED BY <1>1, Joined DEF Setup!Abs

(* Where a path leads, hop by hop.                                         *)
LEMMA Chain ==
  ASSUME NEW Word, NEW f, Tree(Word, f), NEW p \in Path(Word)
  PROVE  /\ Setup!Hop(f, p) \in Path(Word)
         /\ Setup!Hop(f, Setup!Hop(f, p)) \in Path(Word)
         /\ Setup!EvalSymlinks(f, p) \in Path(Word)
         /\ Setup!IsAbs(p) => /\ Setup!IsAbs(Setup!Hop(f, p))
                              /\ Setup!IsAbs(Setup!Hop(f, Setup!Hop(f, p)))
                              /\ Setup!IsAbs(Setup!EvalSymlinks(f, p))
<1>1. Setup!Hop(f, p) \in Path(Word) /\ (Setup!IsAbs(p) => Setup!IsAbs(Setup!Hop(f, p)))
  BY HopIsPath, HopIsAbs
<1> DEFINE q == Setup!Hop(f, p)
<1> HIDE DEF q
<1>2. q \in Path(Word)
  BY <1>1 DEF q
<1>3. Setup!Hop(f, q) \in Path(Word) /\ (Setup!IsAbs(q) => Setup!IsAbs(Setup!Hop(f, q)))
  BY <1>2, HopIsPath, HopIsAbs
<1> DEFINE r == Setup!Hop(f, q)
<1> HIDE DEF r
<1>4. r \in Path(Word)
  BY <1>3 DEF r
<1>5. Setup!Hop(f, r) \in Path(Word) /\ (Setup!IsAbs(r) => Setup!IsAbs(Setup!Hop(f, r)))
  BY <1>4, HopIsPath, HopIsAbs
<1> QED BY <1>1, <1>3, <1>5 DEF q, r, Setup!EvalSymlinks

(* Where links are, on an absolute path.                                   *)
Free(f, p) == \A n \in DOMAIN p : Setup!Kind(f, Setup!Abs(SubSeq(p, 1, n))) # "link"

(* A path without links leads to itself.                                   *)
LEMMA FreeStays ==
  ASSUME NEW f, NEW p, Free(f, p)
  PROVE  Setup!Hop(f, p) = p /\ Setup!EvalSymlinks(f, p) = p
<1>1. Setup!Hop(f, p) = p
  BY NoLink DEF Free, Setup!LinkAt
<1> QED BY <1>1 DEF Setup!EvalSymlinks

(* A path and its last word: as long as there is a link before, it is      *)
(* followed first.                                                         *)
LEMMA HopOfAppend ==
  ASSUME NEW Word, NEW f, NEW d \in Path(Word), NEW x \in Word, x # "/", 
         Tree(Word, f)
  PROVE  \/ Setup!Hop(f, Append(d, x)) = Append(Setup!Hop(f, d), x)
         \/ Free(f, d)
<1> DEFINE p == Append(d, x)
<1>1. /\ d \in Seq(Word) /\ p \in Seq(Word) /\ Len(p) = Len(d) + 1 /\ Len(d) \in Nat
      /\ DOMAIN d = 1 .. Len(d) /\ DOMAIN p = 1 .. Len(d) + 1
      /\ \A n \in 0 .. Len(d) : SubSeq(p, 1, n) = SubSeq(d, 1, n)
  BY DEF Path
<1>2. ASSUME NEW m \in DOMAIN d, Setup!Kind(f, Setup!Abs(SubSeq(d, 1, m))) = "link"
      PROVE  Setup!Hop(f, p) = Append(Setup!Hop(f, d), x)
  <2>1. PICK n \in DOMAIN d : Setup!LinkAt(f, d, n)
    BY <1>1, <1>2, SomeLink
  <2>2. Setup!LinkAt(f, p, n)
    <3>1. n \in DOMAIN p /\ \A k \in 1 .. n : SubSeq(p, 1, k) = SubSeq(d, 1, k)
      BY <1>1
    <3>2. n \in 1 .. n /\ \A k \in 1 .. n - 1 : k \in 1 .. n
      BY <1>1
    <3> HIDE DEF p
    <3> QED BY <2>1, <3>1, <3>2 DEF Setup!LinkAt
  <2>3. Setup!Hop(f, p) = Through(f, p, n) /\ Setup!Hop(f, d) = Through(f, d, n)
    BY <1>1, <2>1, <2>2, OneLink
  <2> DEFINE to == f[Setup!Abs(SubSeq(d, 1, n))].to
             h == IF Setup!IsAbs(to) THEN to ELSE SubSeq(d, 1, n - 1) \o to
  <2>4. SubSeq(p, 1, n) = SubSeq(d, 1, n) /\ SubSeq(p, 1, n - 1) = SubSeq(d, 1, n - 1)
    <3>1. n \in 0 .. Len(d) /\ n - 1 \in 0 .. Len(d)
      BY <1>1
    <3> QED BY <1>1, <3>1
  <2>5. SubSeq(p, n + 1, Len(p)) = Append(SubSeq(d, n + 1, Len(d)), x)
    BY <1>1
  <2>6. h \in Seq(Word)
    <3>1. to \in Path(Word)
      BY <2>1, ThroughIsPath
    <3> HIDE DEF to
    <3>2. to \in Seq(Word) /\ SubSeq(d, 1, n - 1) \in Seq(Word)
      BY <1>1, <3>1 DEF Path
    <3> QED BY <3>2
  <2>7. Through(f, p, n) = h \o SubSeq(p, n + 1, Len(p)) /\ Through(f, d, n) = h \o SubSeq(d, n + 1, Len(d))
    <3> HIDE DEF p
    <3> QED BY <2>4 DEF Through
  <2> HIDE DEF h, p
  <2>8. SubSeq(d, n + 1, Len(d)) \in Seq(Word)
    BY <1>1
  <2>9. h \o Append(SubSeq(d, n + 1, Len(d)), x) = Append(h \o SubSeq(d, n + 1, Len(d)), x)
    BY <2>6, <2>8
  <2> QED BY <2>3, <2>5, <2>7, <2>9
<1> HIDE DEF p
<1> QED BY <1>2 DEF Free, p
(* With a real working directory it does not matter whether a path is      *)
(* made absolute before it is followed or after.                           *)
LEMMA HopFromCwd ==
  ASSUME NEW Word, "/" \in Word, "w" \in Word, NEW f, Tree(Word, f), NEW p \in Path(Word),
         Setup!IsAbs(p) \/ Setup!Kind(f, Setup!Cwd) # "link"
  PROVE  Setup!Abs(Setup!Hop(f, p)) = Setup!Hop(f, Setup!Abs(p))
<1>1. CASE Setup!IsAbs(p)
  BY <1>1, HopIsAbs DEF Setup!Abs
<1>2. CASE ~Setup!IsAbs(p)
  <2> DEFINE a == Setup!Cwd \o p
  <2>1. Setup!Abs(p) = a
    BY <1>2 DEF Setup!Abs
  <2>2. /\ p \in Seq(Word) /\ Len(p) \in Nat /\ a \in Seq(Word) /\ Len(a) = Len(p) + 2
        /\ DOMAIN p = 1 .. Len(p) /\ DOMAIN a = 1 .. Len(p) + 2
    BY DEF Path, Setup!Cwd
  <2>3. SubSeq(a, 1, 1) = Setup!Root /\ SubSeq(a, 1, 2) = Setup!Cwd
    <3>1. a[1] = "/" /\ a[2] = "w"
      BY <2>2 DEF Setup!Cwd
    <3> HIDE DEF a
    <3>2. SubSeq(a, 1, 1) \in Seq(Word) /\ Len(SubSeq(a, 1, 1)) = 1 /\ SubSeq(a, 1, 1)[1] = "/"
      BY <2>2, <3>1
    <3>3. SubSeq(a, 1, 2) \in Seq(Word) /\ Len(SubSeq(a, 1, 2)) = 2 /\ SubSeq(a, 1, 2)[1] = "/"
          /\ SubSeq(a, 1, 2)[2] = "w"
      BY <2>2, <3>1
    <3> DEFINE s == SubSeq(a, 1, 1)
               t == SubSeq(a, 1, 2)
    <3>4. /\ Setup!Root \in Seq(Word) /\ Len(Setup!Root) = 1 /\ Setup!Root[1] = "/"
          /\ Setup!Cwd \in Seq(Word) /\ Len(Setup!Cwd) = 2 /\ Setup!Cwd[1] = "/" /\ Setup!Cwd[2] = "w"
      BY DEF Setup!Cwd, Setup!Root
    <3> HIDE DEF s, t
    <3>5. \A i \in 1 .. 1 : s[i] = Setup!Root[i]
      BY <3>2, <3>4 DEF s
    <3>6. s = Setup!Root
      BY <3>2, <3>4, <3>5, SeqsEqual DEF s
    <3>7. \A i \in 1 .. 2 : i = 1 \/ i = 2
      OBVIOUS
    <3>8. \A i \in 1 .. 2 : t[i] = Setup!Cwd[i]
      BY <3>3, <3>4, <3>7 DEF t
    <3>9. t = Setup!Cwd
      BY <3>3, <3>4, <3>8, SeqsEqual DEF t
    <3> QED BY <3>6, <3>9 DEF s, t
  <2>4. a \in Path(Word) /\ Setup!IsAbs(a)
    BY <2>1, AbsIsPath
  <2>5. \A n \in 1 .. Len(p) : SubSeq(a, 1, n + 2) = Setup!Cwd \o SubSeq(p, 1, n)
    BY <2>2 DEF Setup!Cwd
  <2>6. \A n \in 1 .. Len(p) : Setup!Abs(SubSeq(p, 1, n)) = SubSeq(a, 1, n + 2)
    <3> SUFFICES ASSUME NEW n \in 1 .. Len(p)
                 PROVE  Setup!Abs(SubSeq(p, 1, n)) = SubSeq(a, 1, n + 2)
      OBVIOUS
    <3>1. n \in 0 .. Len(p) /\ n > 0
      BY <2>2
    <3>2. ~Setup!IsAbs(SubSeq(p, 1, n))
      BY <1>2, <3>1, Parts
    <3> QED BY <2>5, <3>2 DEF Setup!Abs
  <2>7. \A n \in 1 .. Len(p) + 2 : Setup!Abs(SubSeq(a, 1, n)) = SubSeq(a, 1, n)
    <3> SUFFICES ASSUME NEW n \in 1 .. Len(p) + 2
                 PROVE  Setup!Abs(SubSeq(a, 1, n)) = SubSeq(a, 1, n)
      OBVIOUS
    <3>1. n \in 0 .. Len(a) /\ n > 0
      BY <2>2
    <3>2. Setup!IsAbs(SubSeq(a, 1, n))
      BY <2>4, <3>1, Parts
    <3> QED BY <3>2 DEF Setup!Abs
  <2>8. Setup!Kind(f, SubSeq(a, 1, 1)) # "link" /\ Setup!Kind(f, SubSeq(a, 1, 2)) # "link"
    BY <1>2, <2>3 DEF Tree
  <2> HIDE DEF a
  <2>9. CASE \A n \in DOMAIN p : ~Setup!LinkAt(f, p, n)
    <3>1. \A n \in 1 .. Len(p) : Setup!Kind(f, SubSeq(a, 1, n + 2)) # "link"
      BY <2>2, <2>6, <2>9, SomeLink
    <3>2. \A n \in DOMAIN a : Setup!Kind(f, SubSeq(a, 1, n)) # "link"
      <4> SUFFICES ASSUME NEW n \in 1 .. Len(p) + 2
                   PROVE  Setup!Kind(f, SubSeq(a, 1, n)) # "link"
        BY <2>2
      <4>1. CASE n > 2
        <5>1. n - 2 \in 1 .. Len(p) /\ (n - 2) + 2 = n
          BY <2>2, <4>1
        <5> QED BY <3>1, <5>1
      <4>2. CASE n <= 2
        <5>1. n = 1 \/ n = 2
          BY <4>2
        <5> QED BY <2>8, <5>1
      <4> QED BY <4>1, <4>2
    <3>3. Setup!Hop(f, a) = a
      BY <2>2, <2>7, <3>2, NoLink DEF Setup!LinkAt
    <3>4. Setup!Hop(f, p) = p
      BY <2>9, NoLink
    <3> QED BY <2>1, <3>3, <3>4
  <2>10. ASSUME NEW n \in DOMAIN p, Setup!LinkAt(f, p, n)
         PROVE  Setup!Abs(Setup!Hop(f, p)) = Setup!Hop(f, a)
    <3>1. n \in 1 .. Len(p)
      BY <2>2
    <3>2. Setup!LinkAt(f, a, n + 2)
      <4>1. n + 2 \in DOMAIN a /\ Setup!Kind(f, Setup!Abs(SubSeq(a, 1, n + 2))) = "link"
        <5>1. n + 2 \in 1 .. Len(p) + 2
          BY <2>2, <3>1
        <5> QED BY <2>2, <2>6, <2>7, <2>10, <3>1, <5>1 DEF Setup!LinkAt
      <4>2. ASSUME NEW k \in 1 .. (n + 2) - 1
            PROVE  Setup!Kind(f, Setup!Abs(SubSeq(a, 1, k))) # "link"
        <5>1. k \in 1 .. Len(p) + 2
          BY <2>2, <3>1
        <5>2. CASE k > 2
          <6>1. k - 2 \in 1 .. n - 1 /\ k - 2 \in 1 .. Len(p) /\ (k - 2) + 2 = k
            BY <2>2, <3>1, <5>2
          <6>2. Setup!Kind(f, Setup!Abs(SubSeq(p, 1, k - 2))) # "link"
            BY <2>10, <6>1 DEF Setup!LinkAt
          <6>3. Setup!Abs(SubSeq(p, 1, k - 2)) = SubSeq(a, 1, (k - 2) + 2)
            BY <2>6, <6>1
          <6> QED BY <2>7, <5>1, <6>1, <6>2, <6>3
        <5>3. CASE k <= 2
          <6>1. k = 1 \/ k = 2
            BY <5>1, <5>3
          <6> QED BY <2>7, <2>8, <5>1, <6>1
        <5> QED BY <5>1, <5>2, <5>3
      <4> QED BY <4>1, <4>2 DEF Setup!LinkAt
    <3>3. Setup!Hop(f, p) = Through(f, p, n) /\ Setup!Hop(f, a) = Through(f, a, n + 2)
      BY <2>2, <2>10, <3>2, OneLink
    <3> DEFINE to == f[SubSeq(a, 1, n + 2)].to
               b == SubSeq(p, n + 1, Len(p))
               u == SubSeq(p, 1, n - 1)
    <3>4. to \in Path(Word)
      BY <2>6, <2>10, <3>1, ThroughIsPath
    <3>5. SubSeq(a, (n + 2) + 1, Len(a)) = b /\ SubSeq(a, 1, (n + 2) - 1) = Setup!Cwd \o u
      <4> USE DEF a
      <4>1. SubSeq(a, (n + 2) + 1, Len(a)) = b
        <5>1. Len(Setup!Cwd) = 2 /\ Setup!Cwd \in Seq(Word)
          BY DEF Setup!Cwd
        <5> DEFINE s == SubSeq(Setup!Cwd \o p, (n + 2) + 1, Len(p) + 2)
        <5>2. s \in Seq(Word) /\ Len(s) = Len(p) - n
          BY <2>2, <3>1, <5>1
        <5>3. b \in Seq(Word) /\ Len(b) = Len(p) - n
          BY <2>2, <3>1
        <5>4. \A i \in 1 .. Len(p) - n : b[i] = p[n + i]
          BY <2>2, <3>1
        <5>5. \A i \in 1 .. Len(p) - n : s[i] = p[n + i]
          <6> SUFFICES ASSUME NEW i \in 1 .. Len(p) - n PROVE s[i] = p[n + i]
            OBVIOUS
          <6>1. s[i] = (Setup!Cwd \o p)[n + 2 + i]
            BY <2>2, <3>1, <5>1
          <6>2. n + 2 + i \in 1 .. Len(p) + 2 /\ (n + 2 + i) - 2 = n + i
            BY <2>2, <3>1
          <6>3. (Setup!Cwd \o p)[n + 2 + i] = p[(n + 2 + i) - 2]
            BY <2>2, <3>1, <5>1, <6>2
          <6> QED BY <6>1, <6>2, <6>3
        <5> HIDE DEF s, b
        <5>6. s = b
          BY <5>2, <5>3, <5>4, <5>5, SeqsEqual
        <5> QED BY <2>2, <5>6 DEF s
      <4>2. SubSeq(a, 1, (n + 2) - 1) = Setup!Cwd \o u
        BY <2>2, <3>1 DEF Setup!Cwd
      <4> QED BY <4>1, <4>2
    <3>6. /\ Setup!Hop(f, p) = (IF Setup!IsAbs(to) THEN to ELSE u \o to) \o b
          /\ Setup!Hop(f, a) = (IF Setup!IsAbs(to) THEN to ELSE (Setup!Cwd \o u) \o to) \o b
      <4>1. Setup!Abs(SubSeq(p, 1, n)) = SubSeq(a, 1, n + 2) /\ Setup!Abs(SubSeq(a, 1, n + 2)) = SubSeq(a, 1, n + 2)
        <5>1. n + 2 \in 1 .. Len(p) + 2
          BY <2>2, <3>1
        <5> QED BY <2>6, <2>7, <3>1, <5>1
      <4> QED BY <3>3, <3>5, <4>1 DEF Through
    <3>7. b \in Path(Word) /\ ~Setup!IsAbs(b) /\ u \in Path(Word) /\ ~Setup!IsAbs(u)
      <4>1. n \in 0 .. Len(p) /\ n - 1 \in 0 .. Len(p) /\ n > 0 /\ (n - 1 = 0 \/ n - 1 > 0)
        BY <2>2, <3>1
      <4>2. b \in Path(Word) /\ ~Setup!IsAbs(b) /\ u \in Path(Word) /\ Len(u) = n - 1
            /\ (n - 1 > 0 => ~Setup!IsAbs(u))
        BY <1>2, <4>1, Parts
      <4>3. Len(u) = 0 => ~Setup!IsAbs(u)
        BY <4>2 DEF Setup!IsAbs, Path
      <4> QED BY <4>1, <4>2, <4>3
    <3> HIDE DEF to, b, u
    <3>8. CASE Setup!IsAbs(to)
      <4>1. to # <<>>
        BY <3>8 DEF Setup!IsAbs
      <4>2. Setup!IsAbs(to \o b)
        BY <3>4, <3>7, <3>8, <4>1, Joined
      <4> QED BY <3>6, <3>8, <4>2 DEF Setup!Abs
    <3>9. CASE ~Setup!IsAbs(to)
      <4>1. u \o to \in Path(Word) /\ ~Setup!IsAbs(u \o to)
        BY <3>4, <3>7, <3>9, Joined
      <4>2. ~Setup!IsAbs((u \o to) \o b)
        BY <3>7, <4>1, Joined
      <4>3. u \in Seq(Word) /\ to \in Seq(Word) /\ b \in Seq(Word)
        BY <3>4, <3>7 DEF Path
      <4>4. ((Setup!Cwd \o u) \o to) \o b = Setup!Cwd \o ((u \o to) \o b)
        <5>1. Setup!Cwd \in Seq(Word)
          BY DEF Setup!Cwd
        <5> QED BY <4>3, <5>1
      <4> QED BY <3>6, <3>9, <4>2, <4>4 DEF Setup!Abs
    <3> QED BY <3>8, <3>9
  <2> QED BY <2>1, <2>9, <2>10
<1> QED BY <1>1, <1>2

-----------------------------------------------------------------------------
(* Relative paths, and the ways of paths.                                  *)

(* What sequences one after the other are.                                 *)
LEMMA Concat ==
  ASSUME NEW S, NEW s \in Seq(S), NEW t \in Seq(S)
  PROVE  /\ s \o t \in Seq(S) /\ Len(s \o t) = Len(s) + Len(t)
         /\ DOMAIN (s \o t) = 1 .. Len(s) + Len(t)
         /\ \A i \in 1 .. Len(s) + Len(t) :
              (s \o t)[i] = IF i <= Len(s) THEN s[i] ELSE t[i - Len(s)]
OBVIOUS

(* What is looked at on a relative path is looked at on the absolute one.  *)
LEMMA AbsPrefix ==
  ASSUME NEW Word, "/" \in Word, "w" \in Word, NEW p \in Path(Word), NEW n \in DOMAIN p
  PROVE  \E m \in DOMAIN Setup!Abs(p) :
           Setup!Abs(SubSeq(p, 1, n)) = SubSeq(Setup!Abs(p), 1, m)
<1>1. p \in Seq(Word) /\ DOMAIN p = 1 .. Len(p) /\ Len(p) \in Nat /\ n \in 1 .. Len(p)
  BY DEF Path
<1>2. n \in 0 .. Len(p) /\ n > 0
  BY <1>1
<1>3. Setup!IsAbs(SubSeq(p, 1, n)) <=> Setup!IsAbs(p)
  BY <1>2, Parts
<1>4. CASE Setup!IsAbs(p)
  BY <1>1, <1>3, <1>4 DEF Setup!Abs
<1>5. CASE ~Setup!IsAbs(p)
  <2> DEFINE a == Setup!Cwd \o p
             u == SubSeq(p, 1, n)
             v == SubSeq(a, 1, n + 2)
  <2>1. Setup!Cwd \in Seq(Word) /\ Len(Setup!Cwd) = 2
    BY DEF Setup!Cwd
  <2>2. a \in Seq(Word) /\ Len(a) = Len(p) + 2 /\ DOMAIN a = 1 .. Len(p) + 2
        /\ \A i \in 1 .. Len(p) + 2 : a[i] = IF i <= 2 THEN Setup!Cwd[i] ELSE p[i - 2]
    <3>1. a \in Seq(Word) /\ Len(a) = Len(Setup!Cwd) + Len(p)
          /\ DOMAIN a = 1 .. Len(Setup!Cwd) + Len(p)
          /\ \A i \in 1 .. Len(Setup!Cwd) + Len(p) :
                a[i] = IF i <= Len(Setup!Cwd) THEN Setup!Cwd[i] ELSE p[i - Len(Setup!Cwd)]
      BY <1>1, <2>1, Concat
    <3> HIDE DEF a
    <3> QED BY <1>1, <2>1, <3>1
  <2> HIDE DEF a
  <2>3. u \in Seq(Word) /\ Len(u) = n /\ \A i \in 1 .. n : u[i] = p[i]
    BY <1>1
  <2>4. v \in Seq(Word) /\ Len(v) = n + 2 /\ \A i \in 1 .. n + 2 : v[i] = a[i]
    <3>1. n + 2 \in 1 .. Len(a) /\ n + 2 \in Nat
      BY <1>1, <2>2
    <3> QED BY <2>2, <3>1
  <2> HIDE DEF u, v
  <2>5. /\ Setup!Cwd \o u \in Seq(Word) /\ Len(Setup!Cwd \o u) = n + 2
        /\ \A i \in 1 .. n + 2 : (Setup!Cwd \o u)[i] = IF i <= 2 THEN Setup!Cwd[i] ELSE u[i - 2]
    <3>1. n \in Nat /\ n + 2 \in Nat /\ 2 + n = n + 2
      BY <1>1
    <3> DEFINE b == Setup!Cwd \o u
    <3>2. /\ b \in Seq(Word) /\ Len(b) = Len(Setup!Cwd) + Len(u)
          /\ \A i \in 1 .. Len(Setup!Cwd) + Len(u) :
                b[i] = IF i <= Len(Setup!Cwd) THEN Setup!Cwd[i] ELSE u[i - Len(Setup!Cwd)]
      BY <2>1, <2>3, Concat
    <3> HIDE DEF b
    <3>3. b \in Seq(Word) /\ Len(b) = n + 2
          /\ \A i \in 1 .. n + 2 : b[i] = IF i <= 2 THEN Setup!Cwd[i] ELSE u[i - 2]
      BY <2>1, <2>3, <3>1, <3>2
    <3> QED BY <3>3 DEF b
  <2>6. \A i \in 1 .. n + 2 : (Setup!Cwd \o u)[i] = v[i]
    <3> SUFFICES ASSUME NEW i \in 1 .. n + 2 PROVE (Setup!Cwd \o u)[i] = v[i]
      OBVIOUS
    <3>1. i \in 1 .. Len(p) + 2 /\ (i > 2 => i - 2 \in 1 .. n) /\ i \in Nat
      BY <1>1
    <3>2. v[i] = IF i <= 2 THEN Setup!Cwd[i] ELSE p[i - 2]
      BY <2>2, <2>4, <3>1
    <3>3. (Setup!Cwd \o u)[i] = IF i <= 2 THEN Setup!Cwd[i] ELSE u[i - 2]
      BY <2>5
    <3>4. i > 2 => u[i - 2] = p[i - 2]
      BY <2>3, <3>1
    <3> QED BY <3>1, <3>2, <3>3, <3>4
  <2>7. Setup!Cwd \o u = v
    BY <2>4, <2>5, <2>6, SeqsEqual
  <2>8. n + 2 \in DOMAIN a
    BY <1>1, <2>2
  <2> QED BY <1>3, <1>5, <2>7, <2>8 DEF Setup!Abs, a, u, v
<1> QED BY <1>4, <1>5

(* The beginning of an absolute path is absolute.                          *)
LEMMA AbsPart ==
  ASSUME NEW Word, NEW p \in Path(Word), Setup!IsAbs(p), NEW n \in DOMAIN p
  PROVE  Setup!Abs(SubSeq(p, 1, n)) = SubSeq(p, 1, n)
<1>1. n \in 0 .. Len(p) /\ n > 0
  BY DEF Path
<1>2. Setup!IsAbs(SubSeq(p, 1, n))
  BY <1>1, Parts
<1> QED BY <1>2 DEF Setup!Abs

(* A relative path has only links that the absolute one has.               *)
LEMMA FreeAbs ==
  ASSUME NEW Word, "/" \in Word, "w" \in Word, NEW f, NEW p \in Path(Word), Free(f, Setup!Abs(p))
  PROVE  Free(f, p)
<1> SUFFICES ASSUME NEW n \in DOMAIN p
             PROVE  Setup!Kind(f, Setup!Abs(SubSeq(p, 1, n))) # "link"
  BY DEF Free
<1>1. PICK m \in DOMAIN Setup!Abs(p) : Setup!Abs(SubSeq(p, 1, n)) = SubSeq(Setup!Abs(p), 1, m)
  BY AbsPrefix
<1>2. Setup!Abs(SubSeq(Setup!Abs(p), 1, m)) = SubSeq(Setup!Abs(p), 1, m)
  BY AbsIsPath, AbsPart
<1> QED BY <1>1, <1>2 DEF Free

(* Nor does it for where the path leads in the end.                        *)
LEMMA RelEval ==
  ASSUME NEW Word, "/" \in Word, "w" \in Word, NEW f, Tree(Word, f), NEW p \in Path(Word),
         Setup!IsAbs(p) \/ Setup!Kind(f, Setup!Cwd) # "link"
  PROVE  /\ Setup!Abs(Setup!Hop(f, p)) = Setup!Hop(f, Setup!Abs(p))
         /\ Setup!Abs(Setup!Hop(f, Setup!Hop(f, p))) = Setup!Hop(f, Setup!Hop(f, Setup!Abs(p)))
         /\ Setup!Abs(Setup!EvalSymlinks(f, p)) = Setup!Follow(f, p)
<1> DEFINE q == Setup!Hop(f, p)
           r == Setup!Hop(f, q)
<1>1. q \in Path(Word) /\ r \in Path(Word) /\ (Setup!IsAbs(p) => Setup!IsAbs(q) /\ Setup!IsAbs(r))
  BY Chain
<1>2. Setup!Abs(q) = Setup!Hop(f, Setup!Abs(p))
  BY HopFromCwd
<1> HIDE DEF q
<1>3. Setup!Abs(r) = Setup!Hop(f, Setup!Abs(q))
  BY <1>1, HopFromCwd
<1> HIDE DEF r
<1>4. Setup!Abs(Setup!Hop(f, r)) = Setup!Hop(f, Setup!Abs(r))
  BY <1>1, HopFromCwd
<1> QED BY <1>2, <1>3, <1>4 DEF q, r, Setup!Follow, Setup!EvalSymlinks

(* The way a path leads, step by step.                                     *)
Step(f, p, k) ==
  IF k = 0 THEN p ELSE IF k = 1 THEN Setup!Hop(f, p)
  ELSE IF k = 2 THEN Setup!Hop(f, Setup!Hop(f, p)) ELSE Setup!EvalSymlinks(f, p)

(* How often links are followed.                                           *)
Steps == {0, 1, 2, 3}

(* All of it are paths.                                                    *)
LEMMA StepIsPath ==
  ASSUME NEW Word, NEW f, Tree(Word, f), NEW p \in Path(Word), NEW k \in Steps
  PROVE  Step(f, p, k) \in Path(Word) /\ (Setup!IsAbs(p) => Setup!IsAbs(Step(f, p, k)))
BY Chain DEF Step, Steps

(* From each step the next one is a hop.                                   *)
LEMMA NextStep ==
  ASSUME NEW f, NEW p, NEW k \in {0, 1, 2}
  PROVE  Step(f, p, k + 1) = Setup!Hop(f, Step(f, p, k)) /\ k \in Steps /\ k + 1 \in Steps
BY DEF Step, Steps, Setup!EvalSymlinks

(* The way of a path is what the steps' beginnings are.                    *)
LEMMA WayIs ==
  ASSUME NEW f, NEW p, NEW q
  PROVE  q \in Setup!Way(f, p) <=>
           \E k \in Steps : \E n \in DOMAIN Step(f, Setup!Abs(p), k) :
             q = SubSeq(Step(f, Setup!Abs(p), k), 1, n)
<1> DEFINE a == Setup!Abs(p)
<1> HIDE DEF a
<1>1. Setup!Follow(f, p) = Setup!EvalSymlinks(f, a)
  BY DEF Setup!Follow, a
<1>2. Step(f, a, 0) = a /\ Step(f, a, 1) = Setup!Hop(f, a)
      /\ Step(f, a, 2) = Setup!Hop(f, Setup!Hop(f, a)) /\ Step(f, a, 3) = Setup!EvalSymlinks(f, a)
  BY DEF Step
<1> DEFINE A == {a, Setup!Hop(f, a), Setup!Hop(f, Setup!Hop(f, a)), Setup!EvalSymlinks(f, a)}
<1>3. Setup!Way(f, p) = UNION {{SubSeq(r, 1, n) : n \in DOMAIN r} : r \in A}
  BY <1>1 DEF Setup!Way, a
<1>4. \A r : r \in A <=> \E k \in Steps : r = Step(f, a, k)
  BY <1>2 DEF Steps
<1> HIDE DEF A
<1>5. q \in Setup!Way(f, p) <=> \E r \in A : \E n \in DOMAIN r : q = SubSeq(r, 1, n)
  BY <1>3
<1> QED BY <1>4, <1>5 DEF a

(* Steps are the same if the hops between them are.                        *)
LEMMA ThreeSteps ==
  ASSUME NEW f, NEW g, NEW p,
         \A k \in {0, 1, 2} : Setup!Hop(f, Step(f, p, k)) = Setup!Hop(g, Step(f, p, k))
  PROVE  \A k \in Steps : Step(f, p, k) = Step(g, p, k)
<1> DEFINE E(k) == Step(f, p, k) = Step(g, p, k)
<1>1. E(0)
  BY DEF Step
<1>2. \A k \in {0, 1, 2} : E(k) => E(k + 1)
  BY NextStep
<1>3. E(1) /\ E(2) /\ E(3)
  <2>1. E(0 + 1) /\ 0 + 1 = 1
    BY <1>1, <1>2
  <2>2. E(1 + 1) /\ 1 + 1 = 2
    BY <1>2, <2>1
  <2>3. E(2 + 1) /\ 2 + 1 = 3
    BY <1>2, <2>2
  <2> QED BY <2>1, <2>2, <2>3
<1> HIDE DEF E
<1>4. \A k \in Steps : E(k)
  BY <1>1, <1>3 DEF Steps
<1> QED BY <1>4 DEF E

(* Where a path leads depends only on what is on its way.                  *)
LEMMA WayKept ==
  ASSUME NEW Word, "/" \in Word, "w" \in Word, NEW f, NEW g, Tree(Word, f), NEW p \in Path(Word),
         \A q \in Setup!Way(f, p) : Agree(f, g, q)
  PROVE  /\ Setup!Way(g, p) = Setup!Way(f, p)
         /\ Setup!Follow(g, p) = Setup!Follow(f, p)
         /\ Setup!Stat(g, p) = Setup!Stat(f, p)
<1> DEFINE a == Setup!Abs(p)
<1>1. a \in Path(Word) /\ Setup!IsAbs(a)
  BY AbsIsPath
<1> HIDE DEF a
<1>2. \A k \in Steps : \A n \in DOMAIN Step(f, a, k) : Agree(f, g, SubSeq(Step(f, a, k), 1, n))
  BY WayIs DEF a
<1>3. \A k \in {0, 1, 2} : Setup!Hop(f, Step(f, a, k)) = Setup!Hop(g, Step(f, a, k))
  <2> SUFFICES ASSUME NEW k \in {0, 1, 2}
               PROVE  Setup!Hop(f, Step(f, a, k)) = Setup!Hop(g, Step(f, a, k))
    OBVIOUS
  <2> DEFINE q == Step(f, a, k)
  <2>1. k \in Steps
    BY DEF Steps
  <2>2. q \in Path(Word) /\ Setup!IsAbs(q)
    BY <1>1, <2>1, StepIsPath
  <2>3. \A n \in DOMAIN q : Agree(f, g, SubSeq(q, 1, n))
    BY <1>2, <2>1
  <2> HIDE DEF q
  <2>4. \A n \in DOMAIN q : Agree(f, g, Setup!Abs(SubSeq(q, 1, n)))
    BY <2>2, <2>3, AbsPart
  <2>5. Setup!Hop(f, q) = Setup!Hop(g, q)
    BY <2>2, <2>4, SameHop DEF Path
  <2> QED BY <2>5 DEF q
<1>4. \A k \in Steps : Step(f, a, k) = Step(g, a, k)
  BY <1>3, ThreeSteps
<1>5. \A q : q \in Setup!Way(g, p) <=> q \in Setup!Way(f, p)
  BY <1>4, WayIs DEF a
<1>6. Setup!Way(g, p) = Setup!Way(f, p)
  BY <1>5 DEF Setup!Way
<1>7. Setup!Follow(g, p) = Setup!Follow(f, p)
  <2>1. 3 \in Steps /\ Step(f, a, 3) = Setup!Follow(f, p) /\ Step(g, a, 3) = Setup!Follow(g, p)
    BY DEF Steps, Step, Setup!Follow, a
  <2> QED BY <1>4, <2>1
<1>8. Setup!Stat(g, p) = Setup!Stat(f, p)
  <2> DEFINE q == Setup!Follow(f, p)
  <2>1. 3 \in Steps /\ Step(f, a, 3) = q
    BY DEF Steps, Step, Setup!Follow, a
  <2>2. q \in Path(Word) /\ Setup!IsAbs(q)
    BY <1>1, <2>1, StepIsPath
  <2>3. \A n \in DOMAIN q : Agree(f, g, SubSeq(q, 1, n))
    BY <1>2, <2>1
  <2> HIDE DEF q
  <2>4. q \in Seq(Word) /\ DOMAIN q = 1 .. Len(q) /\ Len(q) \in Nat /\ Len(q) >= 1
    BY <2>2 DEF Path, Setup!IsAbs
  <2>5. \A n \in DOMAIN q : Setup!Kind(f, SubSeq(q, 1, n)) = Setup!Kind(g, SubSeq(q, 1, n))
    BY <2>3 DEF Agree, Setup!Kind
  <2>6. Setup!Kind(f, q) = Setup!Kind(g, q)
    <3>1. Len(q) \in DOMAIN q /\ SubSeq(q, 1, Len(q)) = q
      BY <2>4
    <3> QED BY <2>5, <3>1
  <2>7. \A n \in 1 .. Len(q) - 1 : n \in DOMAIN q
    BY <2>4
  <2>8. Setup!Follow(g, p) = q
    BY <1>7 DEF q
  <2> QED BY <2>5, <2>6, <2>7, <2>8 DEF Setup!Stat, q
<1> QED BY <1>6, <1>7, <1>8

(* EvalSymlinks too, as long as the working directory is no link.          *)
LEMMA EvalKept ==
  ASSUME NEW Word, "/" \in Word, "w" \in Word, NEW f, NEW g, Tree(Word, f), NEW p \in Path(Word),
         \A q \in Setup!Way(f, p) : Agree(f, g, q),
         Setup!IsAbs(p) \/ Setup!Kind(f, Setup!Cwd) # "link"
  PROVE  Setup!EvalSymlinks(g, p) = Setup!EvalSymlinks(f, p)
<1>1. \A k \in {0, 1, 2} : Setup!Hop(f, Step(f, p, k)) = Setup!Hop(g, Step(f, p, k))
  <2> SUFFICES ASSUME NEW k \in {0, 1, 2}
               PROVE  Setup!Hop(f, Step(f, p, k)) = Setup!Hop(g, Step(f, p, k))
    OBVIOUS
  <2> DEFINE b == Step(f, p, k)
  <2>1. k \in Steps
    BY DEF Steps
  <2>2. b \in Path(Word)
    BY <2>1, StepIsPath
  <2>3. Setup!Abs(b) = Step(f, Setup!Abs(p), k)
    BY RelEval DEF Step
  <2>4. \A n \in DOMAIN Step(f, Setup!Abs(p), k) : Agree(f, g, SubSeq(Step(f, Setup!Abs(p), k), 1, n))
    BY <2>1, WayIs
  <2>5. \A n \in DOMAIN Setup!Abs(b) : Agree(f, g, SubSeq(Setup!Abs(b), 1, n))
    BY <2>3, <2>4
  <2> HIDE DEF b
  <2>6. \A n \in DOMAIN b : Agree(f, g, Setup!Abs(SubSeq(b, 1, n)))
    BY <2>2, <2>5, AbsPrefix
  <2>7. Setup!Hop(f, b) = Setup!Hop(g, b)
    BY <2>2, <2>6, SameHop DEF Path
  <2> QED BY <2>7 DEF b
<1>2. Step(f, p, 3) = Step(g, p, 3)
  <2>1. 3 \in Steps
    BY DEF Steps
  <2> QED BY <1>1, <2>1, ThreeSteps
<1> QED BY <1>2 DEF Step

-----------------------------------------------------------------------------
(* Directories and entries.                                                *)
(* A path in a directory: it is first followed to where the directory is.  *)
Meets(f, d, x, k) == /\ k \in Steps /\ Step(f, Append(d, x), k) = Append(Step(f, d, k), x)
                     /\ Step(f, d, k) = Setup!EvalSymlinks(f, d)

(* As long as the directory is followed, the last word stays; there is a   *)
(* step when it has been followed to its end.                              *)
LEMMA ParentChain ==
  ASSUME NEW Word, NEW f, Tree(Word, f), NEW d \in Path(Word), NEW x \in Word, x # "/"
  PROVE  \E k \in Steps : /\ Meets(f, d, x, k)
                          /\ \A j \in Steps : j <= k =>
                               Step(f, Append(d, x), j) = Append(Step(f, d, j), x)
                          /\ \A j \in Steps : j > k => Step(f, d, j) = Step(f, d, k)
                          /\ k = 3 \/ Free(f, Step(f, d, k))
<1> DEFINE p == Append(d, x)
           On(k) == Step(f, p, k) = Append(Step(f, d, k), x)
<1>1. On(0)
  BY DEF Step
<1> HIDE DEF p
<1>2. \A k \in {0, 1, 2} : On(k) => On(k + 1) \/ Free(f, Step(f, d, k))
  <2> SUFFICES ASSUME NEW k \in {0, 1, 2}, On(k)
               PROVE  On(k + 1) \/ Free(f, Step(f, d, k))
    OBVIOUS
  <2>1. Step(f, d, k) \in Path(Word)
    BY NextStep, StepIsPath
  <2>2. \/ Setup!Hop(f, Append(Step(f, d, k), x)) = Append(Setup!Hop(f, Step(f, d, k)), x)
        \/ Free(f, Step(f, d, k))
    BY <2>1, HopOfAppend
  <2> QED BY <2>2, NextStep
<1>3. \A k \in Steps : Free(f, Step(f, d, k)) =>
        \A j \in Steps : j > k => Step(f, d, j) = Step(f, d, k)
  <2> SUFFICES ASSUME NEW k \in Steps, Free(f, Step(f, d, k))
               PROVE  \A j \in Steps : j > k => Step(f, d, j) = Step(f, d, k)
    OBVIOUS
  <2>1. Setup!Hop(f, Step(f, d, k)) = Step(f, d, k)
    BY FreeStays
  <2>2. Step(f, d, 1) = Setup!Hop(f, Step(f, d, 0)) /\ Step(f, d, 2) = Setup!Hop(f, Step(f, d, 1))
        /\ Step(f, d, 3) = Setup!Hop(f, Step(f, d, 2))
    BY DEF Step, Setup!EvalSymlinks
  <2> QED BY <2>1, <2>2 DEF Steps
<1>4. Step(f, d, 3) = Setup!EvalSymlinks(f, d)
  BY DEF Step
<1> DEFINE Good(k) == /\ k \in Steps /\ \A j \in Steps : j <= k => On(j)
                      /\ \A j \in Steps : j > k => Step(f, d, j) = Step(f, d, k)
                      /\ k = 3 \/ Free(f, Step(f, d, k))
<1> HIDE DEF On
<1>5. On(1) \/ Free(f, Step(f, d, 0))
  <2>1. 0 + 1 = 1 /\ 0 \in {0, 1, 2}
    OBVIOUS
  <2> QED BY <1>1, <1>2, <2>1
<1>6. On(1) => On(2) \/ Free(f, Step(f, d, 1))
  <2>1. 1 + 1 = 2 /\ 1 \in {0, 1, 2}
    OBVIOUS
  <2> QED BY <1>2, <2>1
<1>7. On(2) => On(3) \/ Free(f, Step(f, d, 2))
  <2>1. 2 + 1 = 3 /\ 2 \in {0, 1, 2}
    OBVIOUS
  <2> QED BY <1>2, <2>1
<1>8. Free(f, Step(f, d, 0)) => Good(0)
  BY <1>1, <1>3 DEF Steps
<1>9. On(1) /\ Free(f, Step(f, d, 1)) => Good(1)
  BY <1>1, <1>3 DEF Steps
<1>10. On(1) /\ On(2) /\ Free(f, Step(f, d, 2)) => Good(2)
  BY <1>1, <1>3 DEF Steps
<1>11. On(1) /\ On(2) /\ On(3) => Good(3)
  BY <1>1 DEF Steps
<1>12. PICK k \in Steps : Good(k)
  <2> HIDE DEF Good
  <2> QED BY <1>5, <1>6, <1>7, <1>8, <1>9, <1>10, <1>11 DEF Steps
<1>13. Step(f, d, k) = Setup!EvalSymlinks(f, d)
  BY <1>4, <1>12 DEF Steps
<1> QED BY <1>12, <1>13 DEF Meets, On, p, Steps

(* A path that is not the root's.                                          *)
LEMMA Split ==
  ASSUME NEW Word, "/" \in Word, "w" \in Word, NEW p \in Path(Word), Setup!Abs(p) # Setup!Root
  PROVE  LET a == Setup!Abs(p)
             d == Setup!Parent(a)
             x == Setup!Last(a)
         IN  /\ a = Append(d, x) /\ x \in Word /\ x # "/" /\ d \in Path(Word) /\ Setup!IsAbs(d)
             /\ a \in Path(Word) /\ Setup!IsAbs(a)
<1> DEFINE a == Setup!Abs(p)
           d == SubSeq(a, 1, Len(a) - 1)
           x == a[Len(a)]
<1>1. a \in Path(Word) /\ Setup!IsAbs(a) /\ a # Setup!Root
  BY AbsIsPath
<1> HIDE DEF a
<1>2. a \in Seq(Word) /\ a # <<>> /\ a[1] = "/" /\ Len(a) \in Nat /\ Len(a) >= 1
      /\ \A i \in 2 .. Len(a) : a[i] # "/"
  BY <1>1 DEF Path, Setup!IsAbs
<1>3. Setup!Parent(a) = d /\ Setup!Last(a) = x
  BY <1>1, <1>2 DEF Setup!Parent, Setup!Front, Setup!Last
<1>4. Len(a) # 1
  <2> SUFFICES ASSUME Len(a) = 1 PROVE FALSE
    OBVIOUS
  <2>1. Setup!Root \in Seq(Word) /\ Len(Setup!Root) = 1 /\ Setup!Root[1] = "/"
    BY DEF Setup!Root
  <2>2. \A i \in 1 .. 1 : a[i] = Setup!Root[i]
    BY <1>2, <2>1
  <2> QED BY <1>1, <1>2, <2>1, <2>2, SeqsEqual
<1>5. Len(a) - 1 \in 0 .. Len(a) /\ Len(a) - 1 > 0 /\ Len(a) \in 2 .. Len(a)
  <2>1. \A m \in Nat : m >= 1 /\ m # 1 => m - 1 \in 0 .. m /\ m - 1 > 0 /\ m \in 2 .. m
    OBVIOUS
  <2> QED BY <1>2, <1>4, <2>1
<1>6. d \in Path(Word) /\ Setup!IsAbs(d)
  BY <1>1, <1>5, Parts
<1>7. x \in Word /\ x # "/" /\ a = Append(d, x)
  BY <1>2, <1>5
<1> QED BY <1>1, <1>3, <1>6, <1>7 DEF a

(* What rm and symlink act on is one of the paths that are met.            *)
LEMMA EntryInChain ==
  ASSUME NEW Word, "/" \in Word, "w" \in Word, NEW f, Tree(Word, f), NEW p \in Path(Word),
         Setup!Abs(p) # Setup!Root
  PROVE  LET a == Setup!Abs(p)
             d == Setup!Parent(a)
             x == Setup!Last(a)
         IN  /\ Setup!Entry(f, p) = Append(Setup!Follow(f, d), x)
             /\ Setup!Follow(f, d) \in Path(Word) /\ Setup!IsAbs(Setup!Follow(f, d))
             /\ Setup!Follow(f, d) = Setup!EvalSymlinks(f, d)
             /\ \E k \in Steps : /\ Setup!Entry(f, p) = Step(f, a, k)
                                 /\ k = 3 \/ Free(f, Setup!Follow(f, d))
             /\ \A q \in Setup!Way(f, d) : q \in Setup!Way(f, p)
<1> DEFINE a == Setup!Abs(p)
           d == Setup!Parent(a)
           x == Setup!Last(a)
<1>1. a = Append(d, x) /\ x \in Word /\ x # "/" /\ d \in Path(Word) /\ Setup!IsAbs(d)
  BY Split
<1>2. Setup!Entry(f, p) = Append(Setup!Follow(f, d), x)
  BY DEF Setup!Entry
<1> HIDE DEF a, d, x
<1>3. Setup!Follow(f, d) = Setup!EvalSymlinks(f, d) /\ Setup!Abs(d) = d
  BY <1>1 DEF Setup!Follow, Setup!Abs
<1>4. PICK k \in Steps : /\ Meets(f, d, x, k)
                         /\ \A j \in Steps : j <= k => Step(f, a, j) = Append(Step(f, d, j), x)
                         /\ \A j \in Steps : j > k => Step(f, d, j) = Step(f, d, k)
                         /\ k = 3 \/ Free(f, Step(f, d, k))
  BY <1>1, ParentChain
<1>5. Setup!Entry(f, p) = Step(f, a, k) /\ (k = 3 \/ Free(f, Setup!Follow(f, d)))
  BY <1>1, <1>2, <1>3, <1>4 DEF Meets
<1>6. \A q \in Setup!Way(f, d) : q \in Setup!Way(f, p)
  <2> SUFFICES ASSUME NEW q \in Setup!Way(f, d) PROVE q \in Setup!Way(f, p)
    OBVIOUS
  <2>1. PICK j \in Steps : \E n \in DOMAIN Step(f, d, j) : q = SubSeq(Step(f, d, j), 1, n)
    BY <1>3, WayIs
  <2>2. PICK i \in Steps : i <= k /\ Step(f, d, j) = Step(f, d, i)
    BY <1>4 DEF Steps
  <2>3. PICK n \in DOMAIN Step(f, d, i) : q = SubSeq(Step(f, d, i), 1, n)
    BY <2>1, <2>2
  <2>4. Step(f, a, i) = Append(Step(f, d, i), x)
    BY <1>4, <2>2
  <2>5. Step(f, d, i) \in Seq(Word)
    BY <1>1, StepIsPath DEF Path
  <2> DEFINE s == Step(f, d, i)
  <2> HIDE DEF s
  <2>6. n \in DOMAIN Append(s, x) /\ q = SubSeq(Append(s, x), 1, n)
    <3>1. s \in Seq(Word) /\ n \in 1 .. Len(s) /\ q = SubSeq(s, 1, n) /\ Len(s) \in Nat
      BY <2>3, <2>5 DEF s
    <3> QED BY <1>1, <3>1
  <2> QED BY <2>2, <2>4, <2>6, WayIs DEF s, a
<1>7. Setup!Follow(f, d) \in Path(Word) /\ Setup!IsAbs(Setup!Follow(f, d))
  BY <1>1, <1>3, Chain
<1> QED BY <1>2, <1>3, <1>5, <1>6, <1>7 DEF a, d, x

(* Nodes have kinds.                                                       *)
LEMMA NoNode ==
  ASSUME NEW Word, NEW f, Tree(Word, f), NEW p
  PROVE  Setup!Kind(f, p) = "none" <=> p \notin DOMAIN f
BY DEF Setup!Kind, Tree, Node

(* What Stat says of where a path leads.                                   *)
LEMMA EndFree ==
  ASSUME NEW Word, "/" \in Word, "w" \in Word, NEW f, Tree(Word, f), NEW p \in Path(Word)
  PROVE  LET q == Setup!Follow(f, p)
         IN  /\ q \in Path(Word) /\ Setup!IsAbs(q) /\ q \in Seq(Word) /\ Len(q) \in Nat \ {0}
             /\ DOMAIN q = 1 .. Len(q) /\ SubSeq(q, 1, Len(q)) = q
             /\ Setup!Stat(f, p) # "error" => Free(f, q)
             /\ Setup!Stat(f, p) # "error" => Setup!Stat(f, p) \in {"missing", Setup!Kind(f, q)}
             /\ Setup!Stat(f, p) = "missing" => Setup!Kind(f, q) = "none"
             /\ Setup!Stat(f, p) \notin {"error", "missing"} =>
                  q \in DOMAIN f /\ Setup!Stat(f, p) = Setup!Kind(f, q)
<1> DEFINE q == Setup!Follow(f, p)
<1>1. q \in Path(Word) /\ Setup!IsAbs(q)
  BY AbsIsPath, Chain DEF Setup!Follow
<1> HIDE DEF q
<1>2. q \in Seq(Word) /\ Len(q) \in Nat \ {0} /\ DOMAIN q = 1 .. Len(q) /\ SubSeq(q, 1, Len(q)) = q
  BY <1>1 DEF Path, Setup!IsAbs
<1>3. \A n \in DOMAIN q : Setup!Abs(SubSeq(q, 1, n)) = SubSeq(q, 1, n)
  BY <1>1, AbsPart
<1>4. Setup!Stat(f, p) =
        IF \/ \E n \in DOMAIN q : Setup!Kind(f, SubSeq(q, 1, n)) = "link"
           \/ \E n \in 1 .. Len(q) - 1 : Setup!Kind(f, SubSeq(q, 1, n)) = "file"
        THEN "error"
        ELSE IF Setup!Kind(f, q) = "none" THEN "missing" ELSE Setup!Kind(f, q)
  BY DEF Setup!Stat, q
<1>5. Setup!Kind(f, q) \in {"none", "file", "dir", "link"}
  BY DEF Tree, Node, Setup!Kind
<1>6. Setup!Stat(f, p) # "error" => Free(f, q)
  BY <1>3, <1>4 DEF Free
<1>7. Setup!Kind(f, q) # "none" => q \in DOMAIN f
  BY DEF Setup!Kind
<1> QED BY <1>1, <1>2, <1>4, <1>5, <1>6, <1>7 DEF q

(* The link that is left when the directory has been followed.             *)
LEMMA LastLink ==
  ASSUME NEW Word, "/" \in Word, "w" \in Word, NEW f, NEW d \in Path(Word), NEW x \in Word,
         Free(f, d)
  PROVE  LET c == Append(d, x)
         IN  /\ c \in Seq(Word) /\ Len(c) = Len(d) + 1 /\ Len(c) \in DOMAIN c
             /\ SubSeq(c, 1, Len(c)) = c
             /\ ~Free(f, c) => Setup!Kind(f, Setup!Abs(c)) = "link"
             /\ Setup!Kind(f, Setup!Abs(c)) = "link" => Setup!LinkAt(f, c, Len(c))
<1> DEFINE c == Append(d, x)
<1>1. /\ d \in Seq(Word) /\ c \in Seq(Word) /\ Len(c) = Len(d) + 1 /\ Len(d) \in Nat
      /\ DOMAIN d = 1 .. Len(d) /\ DOMAIN c = 1 .. Len(d) + 1 /\ SubSeq(c, 1, Len(d) + 1) = c
      /\ \A n \in 1 .. Len(d) : SubSeq(c, 1, n) = SubSeq(d, 1, n)
  BY DEF Path
<1> HIDE DEF c
<1>2. \A n \in 1 .. Len(d) : Setup!Kind(f, Setup!Abs(SubSeq(c, 1, n))) # "link"
  BY <1>1 DEF Free
<1>3. ~Free(f, c) => Setup!Kind(f, Setup!Abs(c)) = "link"
  <2> SUFFICES ASSUME ~Free(f, c) PROVE Setup!Kind(f, Setup!Abs(c)) = "link"
    OBVIOUS
  <2>1. PICK n \in DOMAIN c : Setup!Kind(f, Setup!Abs(SubSeq(c, 1, n))) = "link"
    BY DEF Free
  <2>2. n = Len(d) + 1
    BY <1>1, <1>2, <2>1
  <2> QED BY <1>1, <2>1, <2>2
<1>4. Setup!Kind(f, Setup!Abs(c)) = "link" => Setup!LinkAt(f, c, Len(c))
  <2>1. Len(c) \in DOMAIN c /\ SubSeq(c, 1, Len(c)) = c /\ \A k \in 1 .. Len(c) - 1 : k \in 1 .. Len(d)
    BY <1>1
  <2> QED BY <1>2, <2>1 DEF Setup!LinkAt
<1> QED BY <1>1, <1>3, <1>4 DEF c

(* From where no link is on the way nothing is followed any more.          *)
LEMMA StaysFree ==
  ASSUME NEW f, NEW p, NEW k \in Steps, Free(f, Step(f, p, k))
  PROVE  \A j \in Steps : j >= k => Step(f, p, j) = Step(f, p, k)
<1>1. Setup!Hop(f, Step(f, p, k)) = Step(f, p, k)
  BY FreeStays
<1>2. /\ Step(f, p, 1) = Setup!Hop(f, Step(f, p, 0)) /\ Step(f, p, 2) = Setup!Hop(f, Step(f, p, 1))
      /\ Step(f, p, 3) = Setup!Hop(f, Step(f, p, 2))
  BY DEF Step, Setup!EvalSymlinks
<1> QED BY <1>1, <1>2 DEF Steps

(* What rm and symlink act on is on the way of the path.                   *)
LEMMA EntryOnWay ==
  ASSUME NEW Word, "/" \in Word, "w" \in Word, NEW f, Tree(Word, f), NEW p \in Path(Word)
  PROVE  Setup!Entry(f, p) \in Setup!Way(f, p) /\ Setup!Entry(f, p) \in Path(Word)
         /\ Setup!IsAbs(Setup!Entry(f, p))
<1> DEFINE a == Setup!Abs(p)
<1>1. a \in Path(Word) /\ Setup!IsAbs(a)
  BY AbsIsPath
<1> HIDE DEF a
<1>2. PICK k \in Steps : Setup!Entry(f, p) = Step(f, a, k)
  <2>1. CASE a = Setup!Root
    <3>1. Setup!Entry(f, p) = a /\ Step(f, a, 0) = a /\ 0 \in Steps
      BY <2>1 DEF Setup!Entry, Step, Steps, a
    <3> QED BY <3>1
  <2>2. CASE a # Setup!Root
    BY <2>2, EntryInChain DEF a
  <2> QED BY <2>1, <2>2
<1> DEFINE s == Step(f, a, k)
<1>3. s \in Path(Word) /\ Setup!IsAbs(s)
  BY <1>1, StepIsPath
<1> HIDE DEF s
<1>4. Len(s) \in DOMAIN s /\ s = SubSeq(s, 1, Len(s))
  BY <1>3 DEF Path, Setup!IsAbs
<1> QED BY <1>2, <1>3, <1>4, WayIs DEF s, a

(* What a path leads to is only there if its entry is.                     *)
LEMMA EntryThere ==
  ASSUME NEW Word, "/" \in Word, "w" \in Word, NEW f, Tree(Word, f), NEW p \in Path(Word),
         Setup!Stat(f, p) \notin {"missing", "error"}
  PROVE  Setup!Entry(f, p) \in DOMAIN f
<1> DEFINE a == Setup!Abs(p)
           d == Setup!Parent(a)
           x == Setup!Last(a)
           q == Setup!Follow(f, p)
<1>1. q \in DOMAIN f
  BY EndFree
<1>2. CASE a = Setup!Root
  <2>1. Setup!Entry(f, p) = Setup!Root
    BY <1>2 DEF Setup!Entry
  <2> QED BY <2>1 DEF Tree, Setup!Kind
<1>3. CASE a # Setup!Root
  <2> DEFINE e == Setup!Entry(f, p)
             D == Setup!Follow(f, d)
  <2>1. e = Append(D, x) /\ D \in Path(Word) /\ Setup!IsAbs(D)
    BY <1>3, EntryInChain
  <2>2. PICK k \in Steps : e = Step(f, a, k) /\ (k = 3 \/ Free(f, D))
    BY <1>3, EntryInChain
  <2>3. x \in Word
    BY <1>3, Split
  <2>4. q = Step(f, a, 3) /\ 3 \in Steps
    BY DEF Step, Setup!Follow, Steps
  <2>5. e \in Path(Word) /\ Setup!IsAbs(e)
    BY EntryOnWay
  <2> HIDE DEF a, d, x, q, e, D
  <2>6. CASE k = 3
    BY <1>1, <2>2, <2>4, <2>6 DEF e
  <2>7. CASE k # 3
    <3>1. CASE Free(f, e)
      <4>1. 3 >= k
        BY DEF Steps
      <4>2. q = e
        BY <2>2, <2>4, <3>1, <4>1, StaysFree
      <4> QED BY <1>1, <4>2 DEF e
    <3>2. CASE ~Free(f, e)
      <4>1. Setup!Kind(f, Setup!Abs(e)) = "link"
        <5>1. Free(f, D) /\ D \in Path(Word) /\ ~Free(f, Append(D, x))
          BY <2>1, <2>2, <2>7, <3>2
        <5>2. Setup!Kind(f, Setup!Abs(Append(D, x))) = "link"
          BY <2>3, <5>1, LastLink
        <5> QED BY <2>1, <5>2
      <4>2. Setup!Abs(e) = e
        BY <2>5 DEF Setup!Abs
      <4> QED BY <4>1, <4>2 DEF Setup!Kind, e
    <3> QED BY <3>1, <3>2
  <2> QED BY <2>6, <2>7
<1> QED BY <1>2, <1>3

(* Nothing leads through an entry that is missing in a directory: a path   *)
(* that something is at the end of does not meet it.                       *)
LEMMA MissingOffWay ==
  ASSUME NEW Word, "/" \in Word, "w" \in Word, NEW f, Tree(Word, f), NEW p \in Path(Word),
         NEW d \in Path(Word), Setup!IsAbs(d), Setup!Kind(f, d) = "dir", NEW x \in Word,
         Append(d, x) \notin DOMAIN f, Setup!Follow(f, p) \in DOMAIN f
  PROVE  Append(d, x) \notin Setup!Way(f, p)
<1> DEFINE e == Append(d, x)
           a == Setup!Abs(p)
<1> SUFFICES ASSUME e \in Setup!Way(f, p) PROVE FALSE
  OBVIOUS
<1> HIDE DEF e
<1>1. PICK k \in Steps : \E n \in DOMAIN Step(f, a, k) : e = SubSeq(Step(f, a, k), 1, n)
  BY WayIs
<1> USE DEF e
<1> DEFINE s == Step(f, a, k)
<1>2. s \in Path(Word) /\ Setup!IsAbs(s) /\ Setup!Follow(f, p) = Step(f, a, 3) /\ 3 \in Steps /\ 3 >= k
  BY AbsIsPath, StepIsPath DEF Step, Setup!Follow, Steps
<1>3. Free(f, s) => Setup!Follow(f, p) = s
  BY <1>2, StaysFree
<1>4. d \in Seq(Word) /\ Len(d) \in Nat /\ e \in Seq(Word) /\ Len(e) = Len(d) + 1
      /\ SubSeq(d, 1, Len(d)) = d
      /\ \A m \in 1 .. Len(d) : SubSeq(e, 1, m) = SubSeq(d, 1, m)
  BY DEF Path
<1>5. Setup!Kind(f, e) = "none" /\ e \notin DOMAIN f
  BY NoNode
<1> HIDE DEF s, e
<1>6. PICK n \in DOMAIN s : e = SubSeq(s, 1, n)
  BY <1>1 DEF s
<1>7. s \in Seq(Word) /\ Len(s) \in Nat /\ n \in 1 .. Len(s) /\ DOMAIN s = 1 .. Len(s)
      /\ SubSeq(s, 1, Len(s)) = s
  BY <1>2 DEF Path
<1>8. n = Len(d) + 1
  BY <1>4, <1>6, <1>7
<1>9. \A m \in 1 .. Len(d) : SubSeq(s, 1, m) = SubSeq(d, 1, m)
  <2> SUFFICES ASSUME NEW m \in 1 .. Len(d) PROVE SubSeq(s, 1, m) = SubSeq(d, 1, m)
    OBVIOUS
  <2>1. SubSeq(SubSeq(s, 1, n), 1, m) = SubSeq(s, 1, m)
    BY <1>4, <1>7, <1>8
  <2> QED BY <1>4, <1>6, <2>1
<1>10. \A m \in n .. Len(s) : Setup!Kind(f, SubSeq(s, 1, m)) = "none"
  <2> SUFFICES ASSUME NEW m \in n .. Len(s), Setup!Kind(f, SubSeq(s, 1, m)) # "none" PROVE FALSE
    OBVIOUS
  <2>1. m # n /\ m \in 1 .. Len(s) /\ n \in 1 .. m - 1
    BY <1>5, <1>6, <1>7
  <2>2. Setup!Kind(f, SubSeq(s, 1, n)) = "dir"
    BY <1>7, <2>1, DirsAbove
  <2> QED BY <1>5, <1>6, <2>2
<1>11. \A m \in 1 .. Len(d) : Setup!Kind(f, SubSeq(s, 1, m)) # "link"
  <2> SUFFICES ASSUME NEW m \in 1 .. Len(d) PROVE Setup!Kind(f, SubSeq(d, 1, m)) # "link"
    BY <1>9
  <2>1. CASE m = Len(d)
    BY <1>4, <2>1
  <2>2. CASE m # Len(d)
    <3> Len(d) \in Nat
      BY <1>4
    <3>1. Len(d) \in 1 .. Len(d) /\ m \in 1 .. Len(d) - 1
      BY <2>2
    <3>2. Setup!Kind(f, SubSeq(d, 1, m)) = "dir"
      BY <1>4, <3>1, DirsAbove
    <3> QED BY <3>2
  <2> QED BY <2>1, <2>2
<1>12. Free(f, s)
  <2> SUFFICES ASSUME NEW m \in DOMAIN s PROVE Setup!Kind(f, SubSeq(s, 1, m)) # "link"
    BY <1>2, AbsPart DEF Free
  <2>1. m \in 1 .. Len(d) \/ m \in n .. Len(s)
    BY <1>4, <1>7, <1>8
  <2> QED BY <1>10, <1>11, <2>1
<1>13. Setup!Kind(f, s) = "none"
  <2>1. Len(s) \in n .. Len(s)
    BY <1>7
  <2>2. Setup!Kind(f, SubSeq(s, 1, Len(s))) = "none"
    BY <1>10, <2>1
  <2> QED BY <1>7, <2>2
<1>14. s \in DOMAIN f
  BY <1>3, <1>12
<1> QED BY <1>13, <1>14, NoNode

(* A new link in a directory that a path leads to: the path then leads to  *)
(* where the link's target does, unless that takes too many links.         *)
LEMMA MadeLeads ==
  ASSUME NEW Word, "/" \in Word, "w" \in Word, NEW g, Tree(Word, g),
         NEW d \in Path(Word), NEW x \in Word, x # "/", Free(g, Setup!EvalSymlinks(g, d)),
         NEW t \in Path(Word), Setup!IsAbs(t),
         LET e == Setup!Abs(Append(Setup!EvalSymlinks(g, d), x))
         IN  Setup!Kind(g, e) = "link" /\ g[e].to = t,
         Free(g, Setup!EvalSymlinks(g, Append(d, x)))
  PROVE  Setup!EvalSymlinks(g, Append(d, x)) = Setup!EvalSymlinks(g, t)
<1> DEFINE p == Append(d, x)
           D == Setup!EvalSymlinks(g, d)
           c == Append(D, x)
           e == Setup!Abs(c)
           q == Setup!EvalSymlinks(g, p)
<1>1. PICK k \in Steps : Step(g, p, k) = c
  BY ParentChain DEF Meets
<1>2. D \in Path(Word) /\ Setup!Kind(g, e) = "link" /\ g[e].to = t /\ Free(g, D) /\ Free(g, q)
  BY Chain
<1> HIDE DEF D, e
<1>3. /\ c \in Seq(Word) /\ SubSeq(c, 1, Len(c)) = c /\ Setup!LinkAt(g, c, Len(c)) /\ Len(c) \in DOMAIN c
  BY <1>2, LastLink DEF e
<1> HIDE DEF c, p, q
<1>4. Setup!Hop(g, c) = t
  <2>1. Setup!Hop(g, c) = Through(g, c, Len(c))
    BY <1>3, OneLink
  <2>2. Through(g, c, Len(c)) = t \o SubSeq(c, Len(c) + 1, Len(c))
    BY <1>2, <1>3 DEF Through, e
  <2>3. SubSeq(c, Len(c) + 1, Len(c)) = <<>> /\ t \in Seq(Word)
    BY <1>3 DEF Path
  <2>4. t \o <<>> = t
    BY <2>3
  <2> QED BY <2>1, <2>2, <2>3, <2>4
<1>5. ~Free(g, c)
  BY <1>3 DEF Free, Setup!LinkAt
<1>6. q = Step(g, p, 3)
  BY DEF Step, q
<1>7. k # 3
  BY <1>1, <1>2, <1>5, <1>6
<1>8. CASE k = 2
  <2>1. q = t
    BY <1>1, <1>4, <1>8 DEF Step, q, Setup!EvalSymlinks
  <2> QED BY <1>2, <2>1, FreeStays DEF q, p
<1>9. CASE k = 1
  <2>1. q = Setup!Hop(g, t)
    BY <1>1, <1>4, <1>9 DEF Step, q, Setup!EvalSymlinks
  <2>2. Setup!Hop(g, q) = q
    BY <1>2, FreeStays
  <2> QED BY <2>1, <2>2 DEF Setup!EvalSymlinks, q, p
<1>10. CASE k = 0
  <2>1. q = Setup!Hop(g, Setup!Hop(g, t))
    BY <1>1, <1>4, <1>10 DEF Step, q, Setup!EvalSymlinks
  <2>2. Setup!Hop(g, q) = q
    BY <1>2, FreeStays
  <2> QED BY <2>1, <2>2 DEF Setup!EvalSymlinks, q, p
<1> QED BY <1>7, <1>8, <1>9, <1>10 DEF Steps

(* A path at whose end there is something leads there with more entries too.*)
LEMMA Grows ==
  ASSUME NEW Word, "/" \in Word, "w" \in Word, NEW f, NEW g, Tree(Word, g),
         \A q \in DOMAIN g : q \in DOMAIN f /\ f[q] = g[q],
         NEW p \in Path(Word), Setup!Stat(g, p) \notin {"missing", "error"}
  PROVE  \A k \in Steps : Step(f, Setup!Abs(p), k) = Step(g, Setup!Abs(p), k)
<1> DEFINE a == Setup!Abs(p)
<1>1. a \in Path(Word) /\ Setup!IsAbs(a)
  BY AbsIsPath
<1> HIDE DEF a
<1>2. \A q : Setup!Kind(g, q) # "none" => Setup!Kind(f, q) = Setup!Kind(g, q) /\ f[q] = g[q]
                                         /\ Agree(f, g, q)
  BY DEF Setup!Kind, Agree
<1>3. \A k \in {0, 1, 2} : Setup!Hop(g, Step(g, a, k)) = Setup!Hop(f, Step(g, a, k))
  <2> SUFFICES ASSUME NEW k \in {0, 1, 2}
               PROVE  Setup!Hop(g, Step(g, a, k)) = Setup!Hop(f, Step(g, a, k))
    OBVIOUS
  <2> DEFINE s == Step(g, a, k)
  <2>1. k \in Steps /\ 3 \in Steps /\ 3 >= k
    BY DEF Steps
  <2>2. s \in Path(Word) /\ Setup!IsAbs(s)
    BY <1>1, <2>1, StepIsPath
  <2>3. Free(g, s) => Setup!Follow(g, p) = s
    BY <2>1, StaysFree DEF Step, Setup!Follow, a
  <2> HIDE DEF s
  <2>4. s \in Seq(Word) /\ DOMAIN s = 1 .. Len(s) /\ Len(s) \in Nat \ {0} /\ SubSeq(s, 1, Len(s)) = s
        /\ \A n \in DOMAIN s : Setup!Abs(SubSeq(s, 1, n)) = SubSeq(s, 1, n)
    BY <2>2, AbsPart DEF Path, Setup!IsAbs
  <2>5. CASE Free(g, s)
    <3>1. Setup!Kind(g, s) # "none"
      <4>1. s \in DOMAIN g
        BY <2>3, <2>5, EndFree
      <4> QED BY <4>1, NoNode
    <3>2. \A n \in DOMAIN s : Setup!Kind(g, SubSeq(s, 1, n)) # "none"
      <4> SUFFICES ASSUME NEW n \in 1 .. Len(s) PROVE Setup!Kind(g, SubSeq(s, 1, n)) # "none"
        BY <2>4
      <4>1. CASE n = Len(s)
        BY <2>4, <3>1, <4>1
      <4>2. CASE n # Len(s)
        <5> Len(s) \in Nat \ {0}
          BY <2>4
        <5>1. Len(s) \in 1 .. Len(s) /\ n \in 1 .. Len(s) - 1
          BY <4>2
        <5>2. Setup!Kind(g, SubSeq(s, 1, n)) = "dir"
          BY <2>4, <3>1, <5>1, DirsAbove
        <5> QED BY <5>2
      <4> QED BY <4>1, <4>2
    <3>3. \A n \in DOMAIN s : Agree(g, f, Setup!Abs(SubSeq(s, 1, n)))
      BY <1>2, <2>4, <3>2 DEF Agree
    <3>4. Setup!Hop(g, s) = Setup!Hop(f, s)
      BY <2>4, <3>3, SameHop
    <3> QED BY <3>4 DEF s
  <2>6. CASE ~Free(g, s)
    <3>1. PICK n \in DOMAIN s : Setup!LinkAt(g, s, n)
      BY <2>4, <2>6, SomeLink DEF Free
    <3>2. Setup!Kind(g, SubSeq(s, 1, n)) = "link"
      BY <2>4, <3>1 DEF Setup!LinkAt
    <3>3. \A m \in 1 .. n - 1 : m \in DOMAIN s /\ Setup!Kind(g, SubSeq(s, 1, m)) = "dir"
      <4> SUFFICES ASSUME NEW m \in 1 .. n - 1
                   PROVE  m \in 1 .. Len(s) /\ Setup!Kind(g, SubSeq(s, 1, m)) = "dir"
        BY <2>4
      <4>1. n \in 1 .. Len(s) /\ Len(s) \in Nat
        BY <2>4
      <4>2. Setup!Kind(g, SubSeq(s, 1, m)) = "dir"
        BY <2>4, <3>2, <4>1, DirsAbove
      <4>3. m \in 1 .. Len(s)
        BY <4>1
      <4> QED BY <4>2, <4>3
    <3>4. Setup!LinkAt(f, s, n)
      <4>1. Setup!Kind(f, SubSeq(s, 1, n)) = "link"
        BY <1>2, <3>2
      <4>2. \A m \in 1 .. n - 1 : Setup!Kind(f, Setup!Abs(SubSeq(s, 1, m))) # "link"
        BY <1>2, <2>4, <3>3
      <4> QED BY <2>4, <4>1, <4>2 DEF Setup!LinkAt
    <3>5. Setup!Hop(g, s) = Through(g, s, n) /\ Setup!Hop(f, s) = Through(f, s, n)
      BY <2>4, <3>1, <3>4, OneLink
    <3>6. f[Setup!Abs(SubSeq(s, 1, n))] = g[Setup!Abs(SubSeq(s, 1, n))]
      BY <1>2, <2>4, <3>2
    <3> QED BY <3>5, <3>6 DEF Through, s
  <2> QED BY <2>5, <2>6
<1>4. \A k \in Steps : Step(g, a, k) = Step(f, a, k)
  BY <1>3, ThreeSteps
<1> QED BY <1>4 DEF a

(* Where a path leads depends only on the links that there are.            *)
LEMMA SameLinks ==
  ASSUME NEW Word, "/" \in Word, "w" \in Word, NEW f, NEW g, Tree(Word, f), NEW p \in Path(Word),
         \A q : /\ Setup!Kind(f, q) = "link" <=> Setup!Kind(g, q) = "link"
                /\ Setup!Kind(f, q) = "link" => f[q] = g[q]
  PROVE  Setup!Way(g, p) = Setup!Way(f, p) /\ Setup!Follow(g, p) = Setup!Follow(f, p)
<1>1. \A q \in Seq(Word) : Setup!Hop(f, q) = Setup!Hop(g, q)
  <2> SUFFICES ASSUME NEW q \in Seq(Word) PROVE Setup!Hop(f, q) = Setup!Hop(g, q)
    OBVIOUS
  <2>1. \A n : Setup!LinkAt(f, q, n) <=> Setup!LinkAt(g, q, n)
    BY DEF Setup!LinkAt
  <2>2. CASE \A n \in DOMAIN q : ~Setup!LinkAt(f, q, n)
    BY <2>1, <2>2, NoLink
  <2>3. ASSUME NEW n \in DOMAIN q, Setup!LinkAt(f, q, n)
        PROVE  Setup!Hop(f, q) = Setup!Hop(g, q)
    <3>1. Setup!Hop(f, q) = Through(f, q, n) /\ Setup!Hop(g, q) = Through(g, q, n)
      BY <2>1, <2>3, OneLink
    <3>2. f[Setup!Abs(SubSeq(q, 1, n))] = g[Setup!Abs(SubSeq(q, 1, n))]
      BY <2>3 DEF Setup!LinkAt
    <3> QED BY <3>1, <3>2 DEF Through
  <2> QED BY <2>2, <2>3
<1> DEFINE a == Setup!Abs(p)
<1>2. a \in Path(Word)
  BY AbsIsPath
<1> HIDE DEF a
<1>3. \A k \in {0, 1, 2} : Setup!Hop(f, Step(f, a, k)) = Setup!Hop(g, Step(f, a, k))
  BY <1>1, <1>2, NextStep, StepIsPath DEF Path
<1>4. \A k \in Steps : Step(f, a, k) = Step(g, a, k)
  BY <1>3, ThreeSteps
<1>5. \A q : q \in Setup!Way(g, p) <=> q \in Setup!Way(f, p)
  BY <1>4, WayIs DEF a
<1>6. Setup!Way(g, p) = Setup!Way(f, p)
  BY <1>5 DEF Setup!Way
<1>7. 3 \in Steps /\ Step(f, a, 3) = Setup!Follow(f, p) /\ Step(g, a, 3) = Setup!Follow(g, p)
  BY DEF Steps, Step, Setup!Follow, a
<1> QED BY <1>4, <1>6, <1>7

(* Once the entry of a path is removed, the path leads nowhere.            *)
LEMMA Removed ==
  ASSUME NEW Word, "/" \in Word, "w" \in Word, NEW f, NEW g, Tree(Word, f), Tree(Word, g),
         NEW p \in Path(Word), Setup!Entry(f, p) \in DOMAIN f, Setup!Entry(f, p) # Setup!Root,
         g = Setup!Restrict(f, DOMAIN f \ {Setup!Entry(f, p)})
  PROVE  Setup!Stat(g, p) \in {"missing", "error"}
<1> DEFINE a == Setup!Abs(p)
           e == Setup!Entry(f, p)
<1> SUFFICES ASSUME Setup!Stat(g, p) \notin {"missing", "error"} PROVE FALSE
  OBVIOUS
<1>1. a # Setup!Root
  BY DEF Setup!Entry
<1>2. PICK k \in Steps : e = Step(f, a, k)
  BY <1>1, EntryInChain
<1>3. DOMAIN g = DOMAIN f \ {e} /\ \A q \in DOMAIN g : q \in DOMAIN f /\ f[q] = g[q]
  BY DEF Setup!Restrict
<1>4. \A j \in Steps : Step(f, a, j) = Step(g, a, j)
  BY <1>3, Grows
<1>5. e \in Path(Word) /\ Setup!IsAbs(e)
  BY EntryOnWay
<1>6. Setup!Follow(g, p) \in DOMAIN g /\ Setup!Follow(g, p) = Step(g, a, 3) /\ 3 \in Steps /\ 3 >= k
  BY EndFree DEF Step, Setup!Follow, Steps
<1> HIDE DEF e, a
<1>7. Free(g, e)
  <2> SUFFICES ASSUME NEW m \in DOMAIN e, Setup!Kind(g, SubSeq(e, 1, m)) = "link" PROVE FALSE
    BY <1>5, AbsPart DEF Free
  <2>1. e \in Seq(Word) /\ Len(e) \in Nat /\ m \in 1 .. Len(e) /\ SubSeq(e, 1, Len(e)) = e
    BY <1>5 DEF Path
  <2>2. Setup!Kind(f, SubSeq(e, 1, m)) = "link" /\ SubSeq(e, 1, m) # e
    BY <1>3 DEF Setup!Kind
  <2>3. m # Len(e)
    BY <2>1, <2>2
  <2>4. m \in 1 .. Len(e) - 1 /\ Len(e) \in 1 .. Len(e)
    <3> Len(e) \in Nat /\ m \in 1 .. Len(e)
      BY <2>1
    <3> QED BY <2>3
  <2>5. Setup!Kind(f, e) # "none"
    BY NoNode DEF e
  <2>6. Setup!Kind(f, SubSeq(e, 1, m)) = "dir"
    BY <2>1, <2>4, <2>5, DirsAbove
  <2> QED BY <2>2, <2>6
<1>8. Setup!Follow(g, p) = e
  BY <1>2, <1>4, <1>6, <1>7, StaysFree
<1> QED BY <1>3, <1>6, <1>8

-----------------------------------------------------------------------------
(* Trees, and what is added to them and taken away.                        *)

(* An entry of a directory.                                                *)
LEMMA Below ==
  ASSUME NEW Word, NEW d \in Path(Word), Setup!IsAbs(d), NEW x \in Word, x # "/"
  PROVE  LET e == Append(d, x)
         IN  /\ e \in Path(Word) /\ Setup!IsAbs(e) /\ Setup!Parent(e) = d /\ e # Setup!Root
             /\ Len(e) = Len(d) + 1 /\ Len(d) \in Nat \ {0} /\ SubSeq(e, 1, Len(e) - 1) = d
             /\ Setup!Last(e) = x
<1> DEFINE e == Append(d, x)
<1>1. d \in Seq(Word) /\ Len(d) \in Nat \ {0} /\ d[1] = "/" /\ \A i \in 2 .. Len(d) : d[i] # "/"
  BY DEF Path, Setup!IsAbs
<1>2. /\ e \in Seq(Word) /\ Len(e) = Len(d) + 1 /\ e[Len(d) + 1] = x
      /\ \A i \in 1 .. Len(d) : e[i] = d[i]
  BY <1>1
<1>3. SubSeq(e, 1, Len(d)) = d
  BY <1>1
<1> HIDE DEF e
<1>4. \A i \in 2 .. Len(e) : e[i] # "/"
  BY <1>1, <1>2
<1>5. e # Setup!Root /\ e # <<>> /\ e[1] = "/"
  BY <1>1, <1>2 DEF Setup!Root
<1>6. Len(e) - 1 = Len(d)
  BY <1>1, <1>2
<1>7. Setup!Parent(e) = d /\ Setup!Last(e) = x
  BY <1>2, <1>3, <1>5, <1>6 DEF Setup!Parent, Setup!Front, Setup!Last
<1> QED BY <1>1, <1>2, <1>3, <1>4, <1>5, <1>6, <1>7 DEF Path, Setup!IsAbs, e

(* A tree without a file, a link or an empty directory is one.             *)
LEMMA TreeWithout ==
  ASSUME NEW Word, NEW f, Tree(Word, f), NEW e, e # Setup!Root,
         Setup!Kind(f, e) = "dir" => \A p \in DOMAIN f : p # e => ~Setup!IsPrefix(e, p),
         NEW g, g = Setup!Restrict(f, DOMAIN f \ {e})
  PROVE  Tree(Word, g)
<1>1. DOMAIN g = DOMAIN f \ {e} /\ \A q \in DOMAIN g : g[q] = f[q]
  BY DEF Setup!Restrict
<1>2. \A q : q # e => Setup!Kind(g, q) = Setup!Kind(f, q)
  BY <1>1 DEF Setup!Kind
<1>3. ASSUME NEW p \in DOMAIN g, Len(p) > 1
      PROVE  Setup!Kind(g, SubSeq(p, 1, Len(p) - 1)) = "dir"
  <2> DEFINE d == SubSeq(p, 1, Len(p) - 1)
  <2>1. p \in DOMAIN f /\ p # e /\ p \in Seq(Word) /\ Setup!Kind(f, d) = "dir"
    BY <1>1, <1>3 DEF Tree, Path
  <2>2. d # e
    <3> SUFFICES ASSUME d = e PROVE FALSE
      OBVIOUS
    <3>1. Len(d) = Len(p) - 1 /\ Len(p) \in Nat /\ Len(d) <= Len(p)
          /\ d = SubSeq(p, 1, Len(d))
      BY <1>3, <2>1
    <3>2. Setup!IsPrefix(d, p)
      BY <3>1 DEF Setup!IsPrefix
    <3> QED BY <2>1, <3>2
  <2> QED BY <1>2, <2>1, <2>2
<1> QED BY <1>1, <1>2, <1>3 DEF Tree

(* A node is added in a directory.                                         *)
CanMake(Word, f, e) ==
  /\ Tree(Word, f) /\ e \in Path(Word) /\ Setup!IsAbs(e)
  /\ Setup!Kind(f, e) = "none" /\ Setup!Kind(f, Setup!Parent(e)) = "dir"

(* What is known of it.                                                    *)
Made(Word, f, e, n, g) ==
  /\ Tree(Word, g) /\ e # Setup!Root /\ e \notin DOMAIN f
  /\ DOMAIN g = DOMAIN f \cup {e} /\ g[e] = n /\ \A q \in DOMAIN f : g[q] = f[q]

(* A tree with a new node in a directory is one.                           *)
LEMMA TreeWith ==
  ASSUME NEW Word, NEW f, NEW e, NEW n, CanMake(Word, f, e), Node(Word, n)
  PROVE  Made(Word, f, e, n, Setup!With(f, e, n))
<1> DEFINE g == Setup!With(f, e, n)
<1> USE DEF CanMake
<1>1. e \notin DOMAIN f
  BY NoNode
<1>2. DOMAIN g = DOMAIN f \cup {e} /\ g[e] = n /\ \A q \in DOMAIN f : g[q] = f[q]
  BY <1>1 DEF Setup!With
<1> HIDE DEF g
<1>3. \A q : Setup!Kind(f, q) # "none" => Setup!Kind(g, q) = Setup!Kind(f, q)
  BY <1>2 DEF Setup!Kind
<1>4. e # Setup!Root
  BY DEF Tree
<1>5. Len(e) > 1 => Setup!Parent(e) = SubSeq(e, 1, Len(e) - 1)
  BY <1>4 DEF Setup!Parent, Setup!Front, Setup!IsAbs
<1>6. \A p \in DOMAIN g : Len(p) > 1 => Setup!Kind(g, SubSeq(p, 1, Len(p) - 1)) = "dir"
  <2>1. Len(e) > 1 => Setup!Kind(g, SubSeq(e, 1, Len(e) - 1)) = "dir"
    BY <1>3, <1>5
  <2>2. \A p \in DOMAIN f : Len(p) > 1 => Setup!Kind(g, SubSeq(p, 1, Len(p) - 1)) = "dir"
    BY <1>3 DEF Tree
  <2> QED BY <1>2, <2>1, <2>2
<1>7. Setup!Kind(g, Setup!Root) = "dir"
  BY <1>3 DEF Tree
<1> QED BY <1>1, <1>2, <1>4, <1>6, <1>7 DEF Tree, Made, g

(* Directories are made below directories, and with them nothing leads     *)
(* elsewhere.                                                              *)
LEMMA TreeDirs ==
  ASSUME NEW Word, "/" \in Word, "w" \in Word, NEW f, Tree(Word, f), NEW p \in Path(Word),
         Setup!Stat(f, p) = "missing", NEW n \in 0 .. Len(Setup!Follow(f, p)),
         NEW g, g = [q \in DOMAIN f \cup {SubSeq(Setup!Follow(f, p), 1, k) : k \in 1 .. n} |->
                        IF q \in DOMAIN f THEN f[q] ELSE Setup!Dir]
  PROVE  /\ Tree(Word, g)
         /\ \A q \in DOMAIN f : q \in DOMAIN g /\ g[q] = f[q]
         /\ \A q \in DOMAIN g \ DOMAIN f :
              g[q].kind = "dir" /\ \E k \in DOMAIN Setup!Follow(f, p) : q = SubSeq(Setup!Follow(f, p), 1, k)
<1> DEFINE a == Setup!Follow(f, p)
<1>1. /\ a \in Path(Word) /\ Setup!IsAbs(a) /\ a \in Seq(Word) /\ Len(a) \in Nat \ {0}
      /\ DOMAIN a = 1 .. Len(a) /\ SubSeq(a, 1, Len(a)) = a
      /\ Setup!Kind(f, a) = "none"
  BY EndFree
<1> HIDE DEF a
<1>2. \A k \in 1 .. Len(a) : Setup!Kind(f, SubSeq(a, 1, k)) \in {"none", "dir"}
  <2> SUFFICES ASSUME NEW k \in 1 .. Len(a) PROVE Setup!Kind(f, SubSeq(a, 1, k)) \in {"none", "dir"}
    OBVIOUS
  <2>1. Setup!Kind(f, SubSeq(a, 1, k)) \in {"none", "file", "dir", "link"}
    BY DEF Setup!Kind, Tree, Node
  <2>2. k \in DOMAIN a /\ (k = Len(a) \/ k \in 1 .. Len(a) - 1)
    <3>1. \A m \in Nat \ {0} : \A j \in 1 .. m : j = m \/ j \in 1 .. m - 1
      OBVIOUS
    <3>2. Len(a) \in Nat \ {0} /\ DOMAIN a = 1 .. Len(a)
      BY <1>1
    <3> QED BY <3>1, <3>2
  <2>3. Setup!Kind(f, SubSeq(a, 1, k)) # "link" /\ (k \in 1 .. Len(a) - 1 => Setup!Kind(f, SubSeq(a, 1, k)) # "file")
    <3>1. Setup!Stat(f, p) =
            IF \/ \E i \in DOMAIN a : Setup!Kind(f, SubSeq(a, 1, i)) = "link"
               \/ \E i \in 1 .. Len(a) - 1 : Setup!Kind(f, SubSeq(a, 1, i)) = "file"
            THEN "error"
            ELSE IF Setup!Kind(f, a) = "none" THEN "missing" ELSE Setup!Kind(f, a)
      BY DEF Setup!Stat, a
    <3> QED BY <2>2, <3>1
  <2> QED BY <1>1, <2>1, <2>2, <2>3
<1> DEFINE New == {SubSeq(a, 1, k) : k \in 1 .. n}
<1>3. g = [q \in DOMAIN f \cup New |-> IF q \in DOMAIN f THEN f[q] ELSE Setup!Dir] /\ n \in 0 .. Len(a)
  BY DEF a
<1> HIDE DEF New
<1>4. /\ DOMAIN g = DOMAIN f \cup New /\ \A q \in DOMAIN f : g[q] = f[q]
      /\ \A q \in New : q \notin DOMAIN f => g[q] = Setup!Dir
  BY <1>3
<1>5. \A q \in New : \E k \in 1 .. Len(a) : k <= n /\ q = SubSeq(a, 1, k)
  BY <1>1, <1>3 DEF New
<1>6. \A k \in 1 .. n : Setup!Kind(g, SubSeq(a, 1, k)) = "dir"
  <2> SUFFICES ASSUME NEW k \in 1 .. n PROVE Setup!Kind(g, SubSeq(a, 1, k)) = "dir"
    OBVIOUS
  <2>1. SubSeq(a, 1, k) \in New /\ k \in 1 .. Len(a)
    BY <1>1, <1>3 DEF New
  <2>2. CASE SubSeq(a, 1, k) \in DOMAIN f
    <3>1. Setup!Kind(f, SubSeq(a, 1, k)) = "dir"
      BY <1>2, <2>1, <2>2, NoNode
    <3> QED BY <1>4, <2>2, <3>1 DEF Setup!Kind
  <2>3. CASE SubSeq(a, 1, k) \notin DOMAIN f
    BY <1>4, <2>1, <2>3 DEF Setup!Kind, Setup!Dir
  <2> QED BY <2>2, <2>3
<1>7. \A q : Setup!Kind(f, q) # "none" => Setup!Kind(g, q) = Setup!Kind(f, q)
  BY <1>4 DEF Setup!Kind
<1>8. \A q \in New : /\ q \in Path(Word) /\ Setup!IsAbs(q)
                     /\ Len(q) > 1 => Setup!Kind(g, SubSeq(q, 1, Len(q) - 1)) = "dir"
  <2> SUFFICES ASSUME NEW q \in New
               PROVE  /\ q \in Path(Word) /\ Setup!IsAbs(q)
                      /\ Len(q) > 1 => Setup!Kind(g, SubSeq(q, 1, Len(q) - 1)) = "dir"
    OBVIOUS
  <2>1. PICK k \in 1 .. Len(a) : k <= n /\ q = SubSeq(a, 1, k)
    BY <1>5
  <2>2. k \in 0 .. Len(a) /\ k > 0
    BY <1>1
  <2>3. q \in Path(Word) /\ Setup!IsAbs(q) /\ Len(q) = k
    BY <1>1, <2>1, <2>2, Parts
  <2>4. Len(q) > 1 => Len(q) - 1 \in 1 .. n /\ SubSeq(q, 1, Len(q) - 1) = SubSeq(a, 1, Len(q) - 1)
    BY <1>1, <1>3, <2>1, <2>3
  <2> QED BY <1>6, <2>3, <2>4
<1>9. Tree(Word, g)
  <2>1. \A q \in DOMAIN g : Node(Word, g[q])
    BY <1>4 DEF Tree, Node, Setup!Dir
  <2>2. \A q \in DOMAIN g : /\ q \in Path(Word) /\ Setup!IsAbs(q)
                            /\ Len(q) > 1 => Setup!Kind(g, SubSeq(q, 1, Len(q) - 1)) = "dir"
    BY <1>4, <1>7, <1>8 DEF Tree
  <2>3. Setup!Kind(g, Setup!Root) = "dir"
    BY <1>7 DEF Tree
  <2> QED BY <2>1, <2>2, <2>3 DEF Tree
<1>10. \A q \in DOMAIN g \ DOMAIN f : g[q].kind = "dir" /\ \E k \in DOMAIN a : q = SubSeq(a, 1, k)
  BY <1>1, <1>4, <1>5 DEF Setup!Dir
<1> QED BY <1>4, <1>9, <1>10 DEF a

-----------------------------------------------------------------------------
(* New links.                                                              *)

(* The last word does not matter to whether a path is absolute.            *)
LEMMA AbsAppend ==
  ASSUME NEW Word, "/" \in Word, "w" \in Word, NEW d \in Path(Word), NEW x \in Word, x # "/"
  PROVE  Setup!Abs(Append(d, x)) = Append(Setup!Abs(d), x)
         /\ (Setup!IsAbs(Append(d, x)) <=> Setup!IsAbs(d))
<1> DEFINE p == Append(d, x)
<1>1. d \in Seq(Word) /\ p \in Seq(Word) /\ p # <<>> /\ Len(d) \in Nat
      /\ (d # <<>> => p[1] = d[1]) /\ (d = <<>> => p[1] = x)
  <2>1. d \in Seq(Word) /\ Len(d) \in Nat /\ (d # <<>> => Len(d) >= 1)
        /\ (d = <<>> => Len(d) = 0)
    BY DEF Path
  <2>2. p \in Seq(Word) /\ Len(p) = Len(d) + 1 /\ p[Len(d) + 1] = x
        /\ \A i \in 1 .. Len(d) : p[i] = d[i]
    BY <2>1
  <2> HIDE DEF p
  <2> QED BY <2>1, <2>2
<1>2. Setup!IsAbs(p) <=> Setup!IsAbs(d)
  BY <1>1 DEF Setup!IsAbs
<1>3. Setup!Cwd \o Append(d, x) = Append(Setup!Cwd \o d, x)
  <2>1. Setup!Cwd \in Seq(Word)
    BY DEF Setup!Cwd
  <2> QED BY <1>1, <2>1
<1> HIDE DEF p
<1> QED BY <1>2, <1>3 DEF Setup!Abs, p

(* A path other than "." and "/" ends with a word in a directory.          *)
LEMMA SplitOff ==
  ASSUME NEW Word, "/" \in Word, "w" \in Word, NEW p \in Path(Word), p # <<>>,
         Setup!Abs(p) # Setup!Root
  PROVE  \E d \in Path(Word) : \E x \in Word :
           /\ p = Append(d, x) /\ x # "/" /\ Setup!Abs(d) = Setup!Parent(Setup!Abs(p))
           /\ x = Setup!Last(Setup!Abs(p)) /\ (Setup!IsAbs(p) <=> Setup!IsAbs(d))
<1> DEFINE d == SubSeq(p, 1, Len(p) - 1)
           x == p[Len(p)]
<1>1. p \in Seq(Word) /\ Len(p) \in Nat \ {0} /\ x \in Word /\ p = Append(d, x)
      /\ \A i \in 2 .. Len(p) : p[i] # "/"
  BY DEF Path
<1>2. d \in Path(Word)
  <2>1. \A m \in Nat \ {0} : m - 1 \in 0 .. m
    OBVIOUS
  <2>2. Len(p) - 1 \in 0 .. Len(p)
    BY <1>1, <2>1
  <2> QED BY <2>2, Parts
<1>3. x # "/"
  <2>1. CASE Len(p) = 1
    <3>1. p[1] = "/" => Setup!Abs(p) = Setup!Root
      <4> SUFFICES ASSUME p[1] = "/" PROVE p = Setup!Root
        BY <1>1 DEF Setup!Abs, Setup!IsAbs
      <4>1. Setup!Root \in Seq(Word) /\ Len(Setup!Root) = 1 /\ Setup!Root[1] = "/"
        BY DEF Setup!Root
      <4>2. \A i \in 1 .. 1 : p[i] = Setup!Root[i]
        BY <4>1
      <4> QED BY <1>1, <2>1, <4>1, <4>2, SeqsEqual
    <3> QED BY <2>1, <3>1
  <2>2. CASE Len(p) # 1
    <3>1. \A m \in Nat \ {0} : m # 1 => m \in 2 .. m
      OBVIOUS
    <3> QED BY <1>1, <2>2, <3>1
  <2> QED BY <2>1, <2>2
<1> HIDE DEF d, x
<1>4. Setup!Abs(p) = Append(Setup!Abs(d), x) /\ (Setup!IsAbs(p) <=> Setup!IsAbs(d))
  BY <1>1, <1>2, <1>3, AbsAppend
<1>5. Setup!Abs(d) \in Path(Word) /\ Setup!IsAbs(Setup!Abs(d))
  BY <1>2, AbsIsPath
<1>6. Setup!Parent(Append(Setup!Abs(d), x)) = Setup!Abs(d) /\ Setup!Last(Append(Setup!Abs(d), x)) = x
  BY <1>1, <1>3, <1>5, Below
<1> QED BY <1>1, <1>2, <1>3, <1>4, <1>6

(* With a new link a path leads to where the link's target does.           *)
LEMMA NewLinkLeads ==
  ASSUME NEW Word, "/" \in Word, "w" \in Word, NEW f, NEW g, Tree(Word, f),
         NEW p \in Path(Word), NEW t \in Path(Word), p # <<>>, Setup!IsAbs(t),
         Setup!Kind(f, Setup!Entry(f, p)) = "none",
         Setup!Kind(f, Setup!Parent(Setup!Entry(f, p))) = "dir",
         g = Setup!With(f, Setup!Entry(f, p), Setup!LinkTo(t)),
         Setup!IsAbs(p) \/ Setup!Kind(g, Setup!Cwd) # "link",
         Setup!Stat(g, p) # "error"
  PROVE  Setup!Follow(g, p) = Setup!Follow(g, t) /\ Setup!IsAbs(Setup!EvalSymlinks(g, p))
<1> DEFINE e == Setup!Entry(f, p)
<1>1. e \in Path(Word) /\ Setup!IsAbs(e)
  BY EntryOnWay
<1>2. Tree(Word, g) /\ DOMAIN g = DOMAIN f \cup {e} /\ e \notin DOMAIN f /\ g[e] = Setup!LinkTo(t)
      /\ e # Setup!Root /\ \A q \in DOMAIN f : g[q] = f[q]
  <2>1. Node(Word, Setup!LinkTo(t))
    BY DEF Node, Setup!LinkTo
  <2>2. CanMake(Word, f, e) /\ g = Setup!With(f, e, Setup!LinkTo(t))
    BY <1>1 DEF CanMake
  <2> HIDE DEF e
  <2>3. Made(Word, f, e, Setup!LinkTo(t), g)
    BY <2>1, <2>2, TreeWith
  <2> QED BY <2>3 DEF Made
<1>3. Setup!Abs(p) # Setup!Root
  BY <1>2 DEF Setup!Entry
<1>4. PICK d \in Path(Word), x \in Word :
        /\ p = Append(d, x) /\ x # "/" /\ Setup!Abs(d) = Setup!Parent(Setup!Abs(p))
        /\ x = Setup!Last(Setup!Abs(p)) /\ (Setup!IsAbs(p) <=> Setup!IsAbs(d))
  BY <1>3, SplitOff
<1> DEFINE F == Setup!Follow(f, d)
<1>5. F = Setup!Follow(f, Setup!Parent(Setup!Abs(p))) /\ F \in Path(Word) /\ Setup!IsAbs(F)
      /\ e = Append(F, x)
  <2>1. Setup!Abs(Setup!Abs(d)) = Setup!Abs(d)
    BY AbsIsPath DEF Setup!Abs
  <2>2. F = Setup!Follow(f, Setup!Parent(Setup!Abs(p)))
    BY <1>4, <2>1 DEF Setup!Follow
  <2> DEFINE u == Setup!Parent(Setup!Abs(p))
  <2>3. e = Append(Setup!Follow(f, u), Setup!Last(Setup!Abs(p)))
        /\ Setup!Follow(f, u) \in Path(Word) /\ Setup!IsAbs(Setup!Follow(f, u))
    BY <1>3, EntryInChain
  <2> HIDE DEF e, u, F
  <2> QED BY <1>4, <2>2, <2>3 DEF u
<1> HIDE DEF e, F
<1>6. Setup!Kind(f, F) = "dir"
  <2>1. Setup!Parent(Append(F, x)) = F
    BY <1>4, <1>5, Below
  <2>2. Setup!Kind(f, Setup!Parent(e)) = "dir"
    BY DEF e
  <2> QED BY <1>5, <2>1, <2>2
<1>7. e \notin Setup!Way(f, d)
  <2>1. F \in DOMAIN f
    BY <1>6, NoNode
  <2> QED BY <1>2, <1>4, <1>5, <1>6, <2>1, MissingOffWay DEF F
<1>8. Setup!Follow(g, d) = F
  <2>1. \A q \in Setup!Way(f, d) : Agree(f, g, q)
    BY <1>2, <1>7 DEF Agree
  <2> QED BY <2>1, WayKept DEF F
<1> DEFINE D == Setup!EvalSymlinks(g, d)
<1>9. Setup!Abs(D) = F /\ D \in Path(Word)
  BY <1>2, <1>4, <1>8, RelEval, Chain
<1> HIDE DEF D
<1>10. Free(g, F)
  <2> SUFFICES ASSUME NEW n \in DOMAIN F PROVE Setup!Kind(g, SubSeq(F, 1, n)) # "link"
    BY <1>5, AbsPart DEF Free
  <2>1. F \in Seq(Word) /\ Len(F) \in Nat \ {0} /\ n \in 1 .. Len(F) /\ SubSeq(F, 1, Len(F)) = F
    BY <1>5 DEF Path, Setup!IsAbs
  <2>2. Setup!Kind(f, SubSeq(F, 1, n)) = "dir"
    <3>1. CASE n = Len(F)
      BY <1>6, <2>1, <3>1
    <3>2. CASE n # Len(F)
      <4>1. \A m \in Nat \ {0} : \A j \in 1 .. m : m \in 1 .. m /\ (j # m => j \in 1 .. m - 1)
        OBVIOUS
      <4>2. Len(F) \in 1 .. Len(F) /\ n \in 1 .. Len(F) - 1
        BY <2>1, <3>2, <4>1
      <4> QED BY <1>6, <2>1, <4>2, DirsAbove
    <3> QED BY <3>1, <3>2
  <2> QED BY <1>2, <2>2 DEF Setup!Kind
<1>11. Free(g, D)
  BY <1>9, <1>10, FreeAbs
<1>12. Setup!Abs(Append(D, x)) = e
  BY <1>4, <1>5, <1>9, AbsAppend
<1>13. Setup!Kind(g, e) = "link" /\ g[e].to = t
  BY <1>2 DEF Setup!Kind, Setup!LinkTo
<1>14. Setup!Abs(Setup!EvalSymlinks(g, p)) = Setup!Follow(g, p) /\ Setup!EvalSymlinks(g, p) \in Path(Word)
  BY <1>2, RelEval, Chain
<1>15. Free(g, Setup!EvalSymlinks(g, p))
  <2>1. Free(g, Setup!Follow(g, p))
    BY <1>2, EndFree
  <2> QED BY <1>14, <2>1, FreeAbs
<1>16. Setup!EvalSymlinks(g, p) = Setup!EvalSymlinks(g, t)
  BY <1>2, <1>4, <1>11, <1>12, <1>13, <1>15, MadeLeads DEF D
<1>17. Setup!IsAbs(Setup!EvalSymlinks(g, t)) /\ Setup!Abs(t) = t
  BY <1>2, Chain DEF Setup!Abs
<1>18. Setup!Follow(g, p) = Setup!EvalSymlinks(g, p)
  BY <1>14, <1>16, <1>17 DEF Setup!Abs
<1> QED BY <1>16, <1>17, <1>18 DEF Setup!Follow

-----------------------------------------------------------------------------
(* The invariant.                                                          *)

(* The links of a process have paths.                                      *)
LinkSpelled(Word) == \A i \in DOMAIN jobs : jobs[i].kind = "link" => Spelled(Word, jobs[i].is)

-----------------------------------------------------------------------------
(* The parts of the invariant.                                             *)

(* The jobs of a process are those of its settings.                        *)
PlanOf(o) ==
  IF o = "none" THEN <<>>
  ELSE IF o = "nightly" THEN Setup!Links \o Setup!Repos \o Setup!Services ELSE Setup!Links

(* What Validate finds that does not depend on files.                      *)
StaticallyValid ==
  /\ \A l \in Setup!Range(conf.links) : l.target # Setup!Blank
  /\ \A s \in Setup!Range(conf.services) : Setup!ValidService(s)

(* Jobs are those of the settings, which are valid when they are run.      *)
Planned ==
  /\ jobs = PlanOf(op) /\ DOMAIN pc = DOMAIN jobs
  /\ op # "none" /\ result # "rejected" => StaticallyValid
  /\ result = "done" /\ op \in {"links", "nightly"} =>
       errs = {} /\ \A i \in DOMAIN jobs : pc[i] = "done"

(* Only a link that may be updated is ever resolved and removed.           *)
Updating ==
  \A i \in DOMAIN jobs :
    jobs[i].kind = "link" /\ pc[i] \in {"resolve", "remove"} => jobs[i].is.update

(* What is not as it was before is known to have been changed, by whom.    *)
(* The working directory is replaced by a link only by a job whose path is *)
(* absolute.                                                               *)
Unchanged ==
  \A p \in DOMAIN fs \cup DOMAIN before :
    (\A t \in touched : t[2] # p) => Agree(fs, before, p)

(* Only links change anything, when they have looked at what is there.     *)
Changers ==
  \A t \in touched : /\ t[1] \in DOMAIN jobs /\ jobs[t[1]].kind = "link"
                     /\ pc[t[1]] \in {"make", "ln", "done"}

(* The working directory is replaced by a link only by a job whose path is *)
(* absolute, which is then done.                                           *)
CwdByAbsolute ==
  op # "none" /\ Setup!Kind(fs, Setup!Cwd) = "link" =>
    \E t \in touched : /\ t[2] = Setup!Cwd /\ pc[t[1]] = "done"
                       /\ Setup!IsAbs(jobs[t[1]].is.path)

(* What is known of changes.                                               *)
Tracked == Unchanged /\ Changers /\ CwdByAbsolute

(* A link that is done leads to its target.                                *)
Led(l) ==
  \/ Setup!Stat(fs, l.target) = "missing" \/ Setup!Stat(fs, l.path) = "error"
  \/ /\ Setup!Stat(fs, l.path) # "missing"
     /\ \/ /\ Setup!Follow(fs, l.path) = Setup!Follow(fs, l.target)
           /\ Setup!IsAbs(Setup!EvalSymlinks(fs, l.path))
        \/ ~l.update /\ Setup!Entry(fs, l.path) \in DOMAIN before

(* Of a link that nothing was in the way of: when it is about to be made,  *)
(* its path is no directory unless one was to be removed.                  *)
Leads(i) ==
  LET l == jobs[i].is
  IN  /\ pc[i] \in {"make", "ln"} =>
           Setup!Stat(fs, l.path) # "dir" \/ (l.update /\ l.name # <<>>)
      /\ pc[i] = "done" /\ Setup!IsAbs(l.target) /\ ~Setup!Misplaced(l) => Led(l)

(* This is so for every link, if no user interferes.                       *)
LinksLead ==
  meddled = 0 =>
    \A i \in DOMAIN jobs :
      jobs[i].kind = "link" /\ i \notin errs /\ Setup!Alone(i) => Leads(i)

(* A service that is done, or half done.                                   *)
UnitSet(i) ==
  LET s == jobs[i].is
      u == Setup!Unit(s)
  IN  /\ pc[i] \in {"start", "done"} => (s.enabled <=> u \in units.enabled)
      /\ pc[i] = "done" => /\ s.enabled /\ s.start => u \in units.running
                           /\ ~s.enabled => u \notin units.running

(* This is so for every service that no other one contradicts.             *)
UnitsSet ==
  /\ DOMAIN units = {"enabled", "running"}
  /\ \A i \in DOMAIN jobs :
       jobs[i].kind = "service" /\ ~Setup!Contradicted(i) /\ i \notin errs => UnitSet(i)

(* A link of a process before which all was set up.                        *)
AlreadyLed(l) ==
  \/ Setup!Stat(fs, l.target) = "missing"
  \/ /\ Setup!Stat(fs, l.path) # "missing"
     /\ l.update => /\ Setup!EvalSymlinks(fs, l.path) = l.target
                    /\ Setup!Stat(fs, l.path) # "error"

(* It never comes to where it would change anything.                       *)
Still(i) ==
  /\ i \notin errs /\ pc[i] \in {"waiting", "begun", "path", "resolve", "done"}
  /\ pc[i] \in {"path", "resolve"} => Setup!Stat(fs, jobs[i].is.target) # "missing"
  /\ AlreadyLed(jobs[i].is)

(* What a discovery says is true.                                          *)
Reported ==
  \/ report = <<>>
  \/ /\ op = "discover"
     /\ report = [i \in DOMAIN conf.search |->
                    {Setup!Described(p) : p \in Setup!Found(conf.search[i])}]

(* If all was set up, nothing has changed since and nothing will.          *)
StillSet ==
  settled /\ meddled = 0 =>
    /\ fs = before
    /\ result = "rejected" => ~Setup!ValidDiscovery
    /\ \A i \in DOMAIN jobs : jobs[i].kind = "link" => Still(i)
    /\ errs \subseteq DOMAIN jobs /\ Reported

(* The invariant, and the steps that disturb little of it.                 *)
WellWritten(Word) == conf \in Settings /\ Tree(Word, fs) /\ LinkSpelled(Word) /\ meddled \in Nat

(* The inductive invariant.                                                *)
SetupInvariant(Word) ==
  /\ WellWritten(Word) /\ Planned /\ Updating /\ Tracked /\ LinksLead /\ UnitsSet /\ StillSet
  /\ Setup!NothingOverwritten

-----------------------------------------------------------------------------
(* Entries.                                                                *)
(* What a path's entry is depends only on what is on the path's way too.   *)
LEMMA SameEntry ==
  ASSUME NEW Word, "/" \in Word, "w" \in Word, NEW f, NEW g, Tree(Word, f), NEW p \in Path(Word),
         \A q \in Setup!Way(f, p) : Agree(f, g, q)
  PROVE  Setup!Entry(g, p) = Setup!Entry(f, p)
<1> DEFINE a == Setup!Abs(p)
           d == Setup!Parent(a)
<1>1. CASE a = Setup!Root
  BY <1>1 DEF Setup!Entry
<1>2. CASE a # Setup!Root
  <2>1. d \in Path(Word)
    BY <1>2, Split
  <2>2. \A q \in Setup!Way(f, d) : Agree(f, g, q)
    BY <1>2, EntryInChain
  <2> HIDE DEF d, a
  <2>3. Setup!Follow(g, d) = Setup!Follow(f, d)
    BY <2>1, <2>2, WayKept
  <2> QED BY <1>2, <2>3 DEF Setup!Entry, a, d
<1> QED BY <1>1, <1>2

(* A missing entry of a directory is never the root.                       *)
LEMMA EntryIs ==
  ASSUME NEW Word, "/" \in Word, "w" \in Word, NEW f, Tree(Word, f), NEW p \in Path(Word),
         Setup!Kind(f, Setup!Entry(f, p)) = "none"
  PROVE  LET d == Setup!Parent(Setup!Abs(p))
             x == Setup!Last(Setup!Abs(p))
         IN  /\ Setup!Abs(p) # Setup!Root /\ d \in Path(Word) /\ x \in Word /\ x # "/"
             /\ Setup!Entry(f, p) = Append(Setup!Follow(f, d), x)
             /\ Setup!Follow(f, d) \in Path(Word) /\ Setup!IsAbs(Setup!Follow(f, d))
<1>1. Setup!Abs(p) # Setup!Root
  <2> SUFFICES ASSUME Setup!Abs(p) = Setup!Root PROVE FALSE
    OBVIOUS
  <2>1. Setup!Entry(f, p) = Setup!Root
    BY DEF Setup!Entry
  <2> QED BY <2>1 DEF Tree
<1>2. /\ Setup!Entry(f, p) = Append(Setup!Follow(f, Setup!Parent(Setup!Abs(p))), Setup!Last(Setup!Abs(p)))
      /\ Setup!Follow(f, Setup!Parent(Setup!Abs(p))) \in Path(Word)
      /\ Setup!IsAbs(Setup!Follow(f, Setup!Parent(Setup!Abs(p))))
  BY <1>1, EntryInChain
<1> QED BY <1>1, <1>2, Split

(* Where a link is made inside of a directory in the way.                  *)
LEMMA InsideIs ==
  ASSUME NEW Word, "/" \in Word, "w" \in Word, NEW f, Tree(Word, f), NEW p \in Path(Word),
         Setup!Stat(f, p) = "dir", NEW t \in Path(Word),
         Setup!Kind(f, Setup!Join(Setup!Follow(f, p), Setup!Base(t))) = "none"
  PROVE  LET d == Setup!Follow(f, p)
             x == Setup!Last(t)
         IN  /\ d \in Path(Word) /\ Setup!IsAbs(d) /\ x \in Word /\ x # "/"
             /\ d \in DOMAIN f /\ Setup!Kind(f, d) = "dir"
             /\ Setup!Join(d, Setup!Base(t)) = Append(d, x)
<1> DEFINE d == Setup!Follow(f, p)
<1>1. d \in Path(Word) /\ Setup!IsAbs(d) /\ d \in DOMAIN f /\ Setup!Kind(f, d) = "dir"
      /\ d \in Seq(Word)
  BY EndFree
<1> HIDE DEF d
<1>2. t # <<>> /\ t # Setup!Root
  <2>1. t = <<>> => Setup!Join(d, Setup!Base(t)) = d
    BY <1>1 DEF Setup!Join, Setup!Base, Setup!IsAbs
  <2>2. t = Setup!Root => Setup!Join(d, Setup!Base(t)) = d
    <3>1. Tail(Setup!Root) = <<>> /\ Setup!IsAbs(Setup!Root)
      BY DEF Setup!Root, Setup!IsAbs
    <3>2. d \o <<>> = d
      BY <1>1
    <3> QED BY <3>1, <3>2 DEF Setup!Join, Setup!Base
  <2> QED BY <1>1, <2>1, <2>2 DEF d
<1>3. t \in Seq(Word) /\ Len(t) \in Nat /\ Len(t) > 0
  BY <1>2 DEF Path
<1>4. Setup!Last(t) \in Word /\ Setup!Last(t) = t[Len(t)]
  BY <1>3 DEF Setup!Last
<1>5. Setup!Last(t) # "/"
  <2>1. CASE Len(t) > 1
    <3>1. Len(t) \in 2 .. Len(t)
      BY <1>3, <2>1
    <3> QED BY <1>4, <3>1 DEF Path
  <2>2. CASE Len(t) = 1
    <3>1. t = <<t[1]>>
      BY <1>3, <2>2
    <3> QED BY <1>2, <1>4, <2>2, <3>1 DEF Setup!Root
  <2>3. \A m \in Nat : m > 0 => m > 1 \/ m = 1
    OBVIOUS
  <2> QED BY <1>3, <2>1, <2>2, <2>3
<1>6. Setup!Join(d, Setup!Base(t)) = Append(d, Setup!Last(t))
  <2>1. Setup!Base(t) = <<Setup!Last(t)>>
    BY <1>2 DEF Setup!Base
  <2>2. ~Setup!IsAbs(<<Setup!Last(t)>>)
    BY <1>5 DEF Setup!IsAbs
  <2>3. d \o <<Setup!Last(t)>> = Append(d, Setup!Last(t))
    BY <1>1, <1>4
  <2> QED BY <2>1, <2>2, <2>3 DEF Setup!Join
<1> QED BY <1>1, <1>4, <1>5, <1>6 DEF d

(* Below a working directory that does not exist there is nothing.         *)
LEMMA NothingBelow ==
  ASSUME NEW Word, "/" \in Word, "w" \in Word, NEW f, Tree(Word, f),
         Setup!Kind(f, Setup!Cwd) = "none", NEW p \in Path(Word), ~Setup!IsAbs(p)
  PROVE  LET a == Setup!Abs(p)
         IN  /\ a = Setup!Cwd \o p /\ a \notin DOMAIN f
             /\ Setup!Follow(f, p) = a
<1> DEFINE a == Setup!Cwd \o p
<1>1. Setup!Abs(p) = a /\ a \in Path(Word) /\ Setup!IsAbs(a)
  BY AbsIsPath DEF Setup!Abs
<1>2. a \in Seq(Word) /\ Len(a) \in Nat /\ Len(a) >= 2 /\ SubSeq(a, 1, 2) = Setup!Cwd
      /\ DOMAIN a = 1 .. Len(a)
  <2>1. Setup!Cwd \in Seq(Word) /\ Len(Setup!Cwd) = 2
        /\ Setup!Cwd[1] = "/" /\ Setup!Cwd[2] = "w"
    BY DEF Setup!Cwd
  <2>2. p \in Seq(Word) /\ Len(p) \in Nat
    BY DEF Path
  <2>3. a \in Seq(Word) /\ Len(a) = 2 + Len(p) /\ DOMAIN a = 1 .. 2 + Len(p)
        /\ \A i \in 1 .. 2 + Len(p) :
             a[i] = IF i <= 2 THEN Setup!Cwd[i] ELSE p[i - 2]
    <3> HIDE DEF a
    <3>1. a = Setup!Cwd \o p
      BY DEF a
    <3>2. /\ Setup!Cwd \o p \in Seq(Word) /\ Len(Setup!Cwd \o p) = Len(Setup!Cwd) + Len(p)
          /\ DOMAIN (Setup!Cwd \o p) = 1 .. Len(Setup!Cwd) + Len(p)
          /\ \A i \in 1 .. Len(Setup!Cwd) + Len(p) :
               (Setup!Cwd \o p)[i] = IF i <= Len(Setup!Cwd) THEN Setup!Cwd[i]
                                    ELSE p[i - Len(Setup!Cwd)]
      BY <2>1, <2>2, Concat
    <3>3. Len(Setup!Cwd) = 2
      BY <2>1
    <3> QED BY <3>1, <3>2, <3>3
  <2> HIDE DEF a
  <2>4. \A m \in Nat : 2 + m \in Nat /\ 2 + m >= 2 /\ 1 \in 1 .. 2 + m /\ 2 \in 1 .. 2 + m
    OBVIOUS
  <2>5. Len(a) \in Nat /\ Len(a) >= 2 /\ 1 \in 1 .. Len(a) /\ 2 \in 1 .. Len(a)
    BY <2>2, <2>3, <2>4
  <2>6. a[1] = "/" /\ a[2] = "w"
    BY <2>1, <2>3, <2>5
  <2>7. SubSeq(a, 1, 2) = Setup!Cwd
    <3>1. SubSeq(a, 1, 2) \in Seq(Word) /\ Len(SubSeq(a, 1, 2)) = 2
          /\ SubSeq(a, 1, 2)[1] = "/" /\ SubSeq(a, 1, 2)[2] = "w"
      BY <2>3, <2>5, <2>6
    <3>2. \A i \in 1 .. 2 : i = 1 \/ i = 2
      OBVIOUS
    <3> QED BY <2>1, <3>1, <3>2, SeqsEqual
  <2> QED BY <2>3, <2>5, <2>7
<1> HIDE DEF a
<1>3. \A m \in 1 .. Len(a) : Setup!Kind(f, SubSeq(a, 1, m)) \in {"none", "dir"}
      /\ (m >= 2 => Setup!Kind(f, SubSeq(a, 1, m)) = "none")
  <2> SUFFICES ASSUME NEW m \in 1 .. Len(a)
               PROVE  /\ m >= 2 => Setup!Kind(f, SubSeq(a, 1, m)) = "none"
                      /\ m = 1 => Setup!Kind(f, SubSeq(a, 1, m)) = "dir"
    BY <1>2
  <2>1. ASSUME m >= 2, Setup!Kind(f, SubSeq(a, 1, m)) # "none"
        PROVE  FALSE
    <3>1. CASE m = 2
      BY <1>2, <2>1, <3>1
    <3>2. CASE m > 2
      <4>1. 2 \in 1 .. m - 1
        BY <1>2, <3>2
      <4>2. Setup!Kind(f, SubSeq(a, 1, 2)) = "dir"
        BY <1>2, <2>1, <4>1, DirsAbove
      <4> QED BY <1>2, <4>2
    <3> QED BY <2>1, <3>1, <3>2
  <2>2. ASSUME m = 1
        PROVE  Setup!Kind(f, SubSeq(a, 1, m)) = "dir"
    <3>1. SubSeq(a, 1, 1) = Setup!Root
      <4>1. a[1] = "/" /\ 1 \in DOMAIN a
        BY <1>1, <1>2 DEF Setup!IsAbs
      <4>2. SubSeq(a, 1, 1) \in Seq(Word) /\ Len(SubSeq(a, 1, 1)) = 1
            /\ SubSeq(a, 1, 1)[1] = "/"
        BY <1>2, <4>1
      <4>3. Setup!Root \in Seq(Word) /\ Len(Setup!Root) = 1 /\ Setup!Root[1] = "/"
        BY DEF Setup!Root
      <4>4. \A i \in 1 .. 1 : i = 1
        OBVIOUS
      <4> QED BY <4>2, <4>3, <4>4, SeqsEqual
    <3> QED BY <2>2, <3>1 DEF Tree
  <2> QED BY <2>1, <2>2
<1>4. Free(f, a)
  <2> SUFFICES ASSUME NEW n \in DOMAIN a
               PROVE  Setup!Kind(f, Setup!Abs(SubSeq(a, 1, n))) # "link"
    BY DEF Free
  <2>1. Setup!Abs(SubSeq(a, 1, n)) = SubSeq(a, 1, n)
    BY <1>1, AbsPart
  <2> QED BY <1>2, <1>3, <2>1
<1>5. Setup!Follow(f, p) = a
  BY <1>1, <1>4, FreeStays DEF Setup!Follow
<1>6. a \notin DOMAIN f
  <2>1. SubSeq(a, 1, Len(a)) = a /\ Len(a) \in 1 .. Len(a)
    BY <1>2
  <2> QED BY <1>2, <1>3, <2>1, NoNode
<1> QED BY <1>1, <1>5, <1>6 DEF a

-----------------------------------------------------------------------------
(* Steps of jobs.                                                          *)
(* A job goes on.                                                          *)
Goes(i, w) ==
  i \in DOMAIN jobs /\ pc[i] # "done" /\ Setup!To(i, w) /\ Setup!Same

(* The plan stays when a job goes on.                                      *)
LEMMA PlannedGoes ==
  ASSUME Planned, NEW i, NEW w, Goes(i, w)
  PROVE  Planned' /\ pc' = [pc EXCEPT ![i] = w] /\ i \in DOMAIN pc /\ pc'[i] = w
         /\ (\A k \in DOMAIN jobs : k # i => pc'[k] = pc[k])
<1>1. /\ jobs = PlanOf(op) /\ DOMAIN pc = DOMAIN jobs
      /\ op # "none" /\ result # "rejected" => StaticallyValid
      /\ result = "done" /\ op \in {"links", "nightly"} =>
           errs = {} /\ \A k \in DOMAIN jobs : pc[k] = "done"
  BY DEF Planned
<1>2. /\ jobs' = jobs /\ conf' = conf /\ op' = op /\ result' = result
      /\ pc' = [pc EXCEPT ![i] = w] /\ pc[i] # "done" /\ i \in DOMAIN jobs
  BY DEF Goes, Setup!Same, Setup!Process, Setup!To
<1>3. DOMAIN pc' = DOMAIN pc /\ pc'[i] = w /\ \A k \in DOMAIN jobs : k # i => pc'[k] = pc[k]
  BY <1>1, <1>2
<1>4. PlanOf(op)' = PlanOf(op) /\ (StaticallyValid' <=> StaticallyValid)
  BY <1>2 DEF PlanOf, StaticallyValid, Setup!Links, Setup!Repos, Setup!Services
<1>5. ~(result' = "done" /\ op' \in {"links", "nightly"})
  BY <1>1, <1>2
<1>6. Planned'
  BY <1>1, <1>2, <1>3, <1>4, <1>5 DEF Planned
<1> QED BY <1>1, <1>2, <1>3, <1>6

(* Only an updating link goes on to resolve and remove.                    *)
LEMMA UpdatingGoes ==
  ASSUME Planned, Updating, NEW i, NEW w, Goes(i, w),
         w \in {"resolve", "remove"} /\ jobs[i].kind = "link" => jobs[i].is.update
  PROVE  Updating'
<1>1. jobs' = jobs
  BY DEF Goes, Setup!Same, Setup!Process
<1> QED BY <1>1, PlannedGoes DEF Updating

(* What jobs of another kind than services do, and what services do.       *)
LEMMA UnitsGo ==
  ASSUME Planned, UnitsSet, NEW i, NEW w, Goes(i, w), units' = units, errs \subseteq errs',
         jobs[i].kind = "service" => w = "begun" \/ i \in errs'
  PROVE  UnitsSet'
<1>1. jobs' = jobs
  BY DEF Goes, Setup!Same, Setup!Process
<1>2. SUFFICES ASSUME NEW k \in DOMAIN jobs, jobs[k].kind = "service",
                      ~Setup!Contradicted(k)', k \notin errs'
               PROVE  UnitSet(k)'
  BY <1>1 DEF UnitsSet
<1>3. ~Setup!Contradicted(k)
  BY <1>1, <1>2 DEF Setup!Contradicted
<1>4. UnitSet(k)
  BY <1>2, <1>3 DEF UnitsSet
<1>5. CASE k = i
  BY <1>1, <1>2, <1>5, PlannedGoes DEF UnitSet
<1>6. CASE k # i
  BY <1>1, <1>4, <1>6, PlannedGoes DEF UnitSet
<1> QED BY <1>5, <1>6

(* When all was set up before, a job only finds that there is nothing to do.*)
LEMMA StillGoes ==
  ASSUME Planned, StillSet, NEW i, NEW w, Goes(i, w),
         settled /\ meddled = 0 =>
           /\ fs' = fs /\ errs \subseteq errs' /\ errs' \subseteq errs \cup {i}
           /\ jobs[i].kind = "link" => Still(i)'
  PROVE  StillSet'
<1>1. UNCHANGED <<jobs, conf, op, report, before, settled, result, meddled>> /\ i \in DOMAIN jobs
  BY DEF Goes, Setup!Same, Setup!Process
<1>2. SUFFICES ASSUME settled, meddled = 0
               PROVE  /\ fs' = before'
                      /\ result' = "rejected" => ~Setup!ValidDiscovery'
                      /\ \A k \in DOMAIN jobs' : jobs'[k].kind = "link" => Still(k)'
                      /\ errs' \subseteq DOMAIN jobs' /\ Reported'
  BY <1>1 DEF StillSet
<1>3. /\ fs' = fs /\ errs \subseteq errs' /\ errs' \subseteq errs \cup {i}
      /\ jobs[i].kind = "link" => Still(i)'
  BY <1>2
<1>4. /\ fs = before
      /\ result = "rejected" => ~Setup!ValidDiscovery
      /\ \A k \in DOMAIN jobs : jobs[k].kind = "link" => Still(k)
      /\ errs \subseteq DOMAIN jobs /\ Reported
  BY <1>2 DEF StillSet
<1>5. Setup!ValidDiscovery' <=> Setup!ValidDiscovery
  BY <1>1, <1>3 DEF Setup!ValidDiscovery
<1>6. Reported'
  <2>1. [k \in DOMAIN conf.search |-> {Setup!Described(p) : p \in Setup!Found(conf.search[k])}]'
        = [k \in DOMAIN conf.search |-> {Setup!Described(p) : p \in Setup!Found(conf.search[k])}]
    BY <1>1, <1>3 DEF Setup!Described, Setup!Found, Setup!Defined, Setup!Links, Setup!Starts
  <2> QED BY <1>1, <1>4, <2>1 DEF Reported
<1>7. ASSUME NEW k \in DOMAIN jobs, jobs[k].kind = "link", k # i
      PROVE  Still(k)'
  <2>1. Still(k) /\ pc'[k] = pc[k]
    BY <1>4, <1>7, PlannedGoes
  <2>2. k \notin errs'
    BY <1>3, <1>7, <2>1 DEF Still
  <2>3. AlreadyLed(jobs[k].is)'
    BY <1>1, <1>3, <2>1 DEF AlreadyLed, Still
  <2> QED BY <1>1, <1>3, <2>1, <2>2, <2>3 DEF Still
<1>8. \A k \in DOMAIN jobs' : jobs'[k].kind = "link" => Still(k)'
  <2> SUFFICES ASSUME NEW k \in DOMAIN jobs, jobs[k].kind = "link"
               PROVE  Still(k)'
    BY <1>1
  <2>1. k = i => Still(k)'
    BY <1>3
  <2> QED BY <2>1, <1>7
<1>9. fs' = before' /\ errs' \subseteq DOMAIN jobs'
  BY <1>1, <1>3, <1>4
<1>10. result' = "rejected" => ~Setup!ValidDiscovery'
  BY <1>1, <1>4, <1>5
<1> QED BY <1>6, <1>8, <1>9, <1>10

-----------------------------------------------------------------------------
(* What is known of a change.                                              *)
Notes(i) ==
  /\ touched \subseteq touched'
  /\ \A p : ~Agree(fs, fs', p) => <<i, p>> \in touched'
  /\ \A t \in touched' : t \in touched \/ (t[1] = i /\ ~Agree(fs, fs', t[2]))

(* What Touch adds is all that is changed.                                 *)
LEMMA TouchNotes ==
  ASSUME NEW i, Setup!Touch(i)
  PROVE  Notes(i)
BY DEF Setup!Touch, Notes, Agree

(* Nothing has to be added for a step that changes no files.               *)
LEMMA QuietNotes ==
  ASSUME NEW i, UNCHANGED <<fs, touched>>
  PROVE  Notes(i)
BY DEF Notes, Agree

(* Changes stay known.                                                     *)
LEMMA TrackedGoes ==
  ASSUME Planned, Tracked, NEW i, NEW w, Goes(i, w), Notes(i),
         \/ UNCHANGED <<fs, touched>>
            /\ (jobs[i].kind = "link" =>
                  w \in {"make", "ln", "done"} \/ pc[i] \notin {"make", "ln", "done"})
         \/ jobs[i].kind = "link" /\ w \in {"make", "ln", "done"},
         Setup!Kind(fs', Setup!Cwd) = "link" =>
           \/ Setup!Kind(fs, Setup!Cwd) = "link"
           \/ <<i, Setup!Cwd>> \in touched' /\ w = "done" /\ Setup!IsAbs(jobs[i].is.path)
  PROVE  Tracked'
<1>1. jobs' = jobs /\ before' = before /\ op' = op /\ i \in DOMAIN jobs /\ pc[i] # "done"
  BY DEF Goes, Setup!Same, Setup!Process
<1>2. pc'[i] = w /\ \A k \in DOMAIN jobs : k # i => pc'[k] = pc[k]
  BY PlannedGoes
<1>3. Unchanged'
  <2> SUFFICES ASSUME NEW p \in DOMAIN fs' \cup DOMAIN before, \A t \in touched' : t[2] # p
               PROVE  Agree(fs', before, p)
    BY <1>1 DEF Unchanged
  <2>1. Agree(fs, fs', p)
    <3>1. \A a, b : <<a, b>>[2] = b
      OBVIOUS
    <3>2. <<i, p>> \notin touched'
      BY <3>1
    <3> QED BY <3>2 DEF Notes
  <2>2. \A t \in touched : t[2] # p
    BY DEF Notes
  <2>3. p \in DOMAIN fs \cup DOMAIN before => Agree(fs, before, p)
    BY <2>2 DEF Tracked, Unchanged
  <2> QED BY <2>1, <2>3 DEF Agree
<1>4. Changers'
  <2> SUFFICES ASSUME NEW t \in touched'
               PROVE  /\ t[1] \in DOMAIN jobs /\ jobs[t[1]].kind = "link"
                      /\ pc'[t[1]] \in {"make", "ln", "done"}
    BY <1>1 DEF Changers
  <2>1. CASE t \in touched
    <3>1. /\ t[1] \in DOMAIN jobs /\ jobs[t[1]].kind = "link"
          /\ pc[t[1]] \in {"make", "ln", "done"}
      BY <2>1 DEF Tracked, Changers
    <3>2. t[1] = i => w \in {"make", "ln", "done"}
      BY <3>1
    <3> QED BY <1>2, <3>1, <3>2
  <2>2. CASE t \notin touched
    <3>1. t[1] = i /\ ~Agree(fs, fs', t[2])
      BY <2>2 DEF Notes
    <3>2. jobs[i].kind = "link" /\ w \in {"make", "ln", "done"}
      BY <3>1 DEF Agree
    <3> QED BY <1>1, <1>2, <3>1, <3>2
  <2> QED BY <2>1, <2>2
<1>5. CwdByAbsolute'
  <2> SUFFICES ASSUME op # "none", Setup!Kind(fs', Setup!Cwd) = "link"
               PROVE  \E t \in touched' : /\ t[2] = Setup!Cwd /\ pc'[t[1]] = "done"
                                          /\ Setup!IsAbs(jobs[t[1]].is.path)
    BY <1>1 DEF CwdByAbsolute
  <2>1. CASE Setup!Kind(fs, Setup!Cwd) = "link"
    <3>1. PICK t \in touched : /\ t[2] = Setup!Cwd /\ pc[t[1]] = "done"
                               /\ Setup!IsAbs(jobs[t[1]].is.path)
      BY <2>1 DEF Tracked, CwdByAbsolute
    <3>2. t \in touched' /\ t[1] \in DOMAIN jobs /\ t[1] # i
      BY <1>1, <3>1 DEF Notes, Tracked, Changers
    <3> QED BY <1>2, <3>1, <3>2
  <2>2. CASE Setup!Kind(fs, Setup!Cwd) # "link"
    <3>1. <<i, Setup!Cwd>> \in touched' /\ w = "done" /\ Setup!IsAbs(jobs[i].is.path)
      BY <2>2
    <3> DEFINE t == <<i, Setup!Cwd>>
    <3>2. t[1] = i /\ t[2] = Setup!Cwd
      OBVIOUS
    <3> HIDE DEF t
    <3> QED BY <1>2, <3>1, <3>2 DEF t
  <2> QED BY <2>1, <2>2
<1> QED BY <1>3, <1>4, <1>5 DEF Tracked

(* A relative path leads through the working directory.                    *)
LEMMA CwdOnWay ==
  ASSUME NEW Word, "/" \in Word, "w" \in Word, NEW f, NEW p \in Path(Word), ~Setup!IsAbs(p)
  PROVE  Setup!Cwd \in Setup!Way(f, p)
<1>1. Setup!Abs(p) = Setup!Cwd \o p /\ p \in Seq(Word) /\ Len(p) \in Nat
  BY DEF Setup!Abs, Path
<1>2. Setup!Cwd \in Seq(Word) /\ Len(Setup!Cwd) = 2
  BY DEF Setup!Cwd
<1> DEFINE a == Setup!Cwd \o p
<1>3. a \in Seq(Word) /\ Len(a) = Len(Setup!Cwd) + Len(p) /\ DOMAIN a = 1 .. Len(Setup!Cwd) + Len(p)
      /\ \A i \in 1 .. Len(Setup!Cwd) + Len(p) :
           a[i] = IF i <= Len(Setup!Cwd) THEN Setup!Cwd[i] ELSE p[i - Len(Setup!Cwd)]
  BY <1>1, <1>2, Concat
<1> HIDE DEF a
<1>4. \A m \in Nat : 2 \in 1 .. 2 + m /\ 1 \in 1 .. 2 + m
  OBVIOUS
<1>5. 1 \in DOMAIN a /\ 2 \in DOMAIN a /\ Len(a) \in Nat /\ 2 \in 1 .. Len(a)
      /\ a[1] = Setup!Cwd[1] /\ a[2] = Setup!Cwd[2]
  BY <1>1, <1>2, <1>3, <1>4
<1>6. SubSeq(a, 1, 2) \in Seq(Word) /\ Len(SubSeq(a, 1, 2)) = 2
      /\ SubSeq(a, 1, 2)[1] = a[1] /\ SubSeq(a, 1, 2)[2] = a[2]
  BY <1>3, <1>5
<1>7. \A i \in 1 .. 2 : i = 1 \/ i = 2
  OBVIOUS
<1>8. SubSeq(a, 1, 2) = Setup!Cwd
  BY <1>2, <1>5, <1>6, <1>7, SeqsEqual
<1>9. Step(f, Setup!Abs(p), 0) = a /\ 0 \in Steps
  BY <1>1 DEF Step, Steps, a
<1> QED BY <1>5, <1>8, <1>9, WayIs

(* A job whose path is relative is not alone when the working directory is *)
(* a link.                                                                 *)
LEMMA CwdKept ==
  ASSUME NEW Word, "/" \in Word, "w" \in Word, NEW k \in DOMAIN jobs, op # "none",
         jobs[k].is.path \in Path(Word), CwdByAbsolute, Setup!Alone(k)
  PROVE  Setup!IsAbs(jobs[k].is.path) \/ Setup!Kind(fs, Setup!Cwd) # "link"
<1> SUFFICES ASSUME ~Setup!IsAbs(jobs[k].is.path), Setup!Kind(fs, Setup!Cwd) = "link"
             PROVE  FALSE
  OBVIOUS
<1> DEFINE p == jobs[k].is.path
<1>1. PICK t \in touched : t[2] = Setup!Cwd /\ Setup!IsAbs(jobs[t[1]].is.path)
  BY DEF CwdByAbsolute
<1>2. t[1] # k
  BY <1>1
<1>3. Setup!Cwd \notin Setup!Way(fs, p)
  BY <1>1, <1>2 DEF Setup!Alone
<1>4. Setup!Cwd \in Setup!Way(fs, p)
  BY CwdOnWay
<1> QED BY <1>3, <1>4

-----------------------------------------------------------------------------
(* What another job's step leaves alone.                                   *)

(* Jobs are those of a process.                                            *)
LEMMA SomeProcess ==
  ASSUME Planned, NEW i \in DOMAIN jobs
  PROVE  op # "none"
BY DEF Planned, PlanOf

(* A job that is alone after another one's step was alone before it, and   *)
(* nothing on its ways was changed.                                        *)
Untouched(k) ==
  LET l == jobs[k].is
  IN  /\ Setup!Alone(k)
      /\ Setup!Stat(fs', l.target) = Setup!Stat(fs, l.target)
      /\ Setup!Follow(fs', l.target) = Setup!Follow(fs, l.target)
      /\ Setup!Stat(fs', l.path) = Setup!Stat(fs, l.path)
      /\ Setup!Follow(fs', l.path) = Setup!Follow(fs, l.path)
      /\ Setup!Entry(fs', l.path) = Setup!Entry(fs, l.path)
      /\ Setup!EvalSymlinks(fs', l.path) = Setup!EvalSymlinks(fs, l.path)

(* Because all that was changed is known, and by whom.                     *)
LEMMA AloneBefore ==
  ASSUME NEW Word, "/" \in Word, "w" \in Word, Tree(Word, fs)', jobs' = jobs, op' = op,
         op # "none", CwdByAbsolute', NEW i, Notes(i),
         NEW k \in DOMAIN jobs, k # i, Spelled(Word, jobs[k].is), Setup!Alone(k)'
  PROVE  Untouched(k)
<1> DEFINE p == jobs[k].is.path
           d == jobs[k].is.target
<1>1. p \in Path(Word) /\ d \in Path(Word)
  BY DEF Spelled
<1>2. \A t \in touched' : t[2] \notin Setup!Way(fs', d)
                          /\ (t[1] # k => t[2] \notin Setup!Way(fs', p))
  BY DEF Setup!Alone
<1> HIDE DEF p, d
<1>3. \A q \in Setup!Way(fs', d) \cup Setup!Way(fs', p) : Agree(fs', fs, q)
  <2> SUFFICES ASSUME NEW q, ~Agree(fs', fs, q)
               PROVE  q \notin Setup!Way(fs', d) \cup Setup!Way(fs', p)
    OBVIOUS
  <2>1. ~Agree(fs, fs', q)
    BY DEF Agree
  <2>2. \A a, b : <<a, b>>[1] = a /\ <<a, b>>[2] = b
    OBVIOUS
  <2>3. <<i, q>> \in touched' /\ <<i, q>>[1] = i /\ <<i, q>>[2] = q
    BY <2>1, <2>2 DEF Notes
  <2> QED BY <1>2, <2>3
<1>4. Setup!Way(fs, d) = Setup!Way(fs', d) /\ Setup!Follow(fs, d) = Setup!Follow(fs', d)
      /\ Setup!Stat(fs, d) = Setup!Stat(fs', d)
  BY <1>1, <1>3, WayKept
<1>5. Setup!Way(fs, p) = Setup!Way(fs', p) /\ Setup!Follow(fs, p) = Setup!Follow(fs', p)
      /\ Setup!Stat(fs, p) = Setup!Stat(fs', p)
  BY <1>1, <1>3, WayKept
<1>6. Setup!Entry(fs, p) = Setup!Entry(fs', p)
  BY <1>1, <1>3, SameEntry
<1>7. Setup!IsAbs(p) \/ Setup!Kind(fs', Setup!Cwd) # "link"
  <2>1. (jobs[k].is.path)' = p
    BY DEF p
  <2>2. (op # "none")'
    OBVIOUS
  <2>3. ASSUME ~Setup!IsAbs(p), Setup!Kind(fs', Setup!Cwd) = "link"
        PROVE  FALSE
    <3>1. PICK t \in touched' : t[2] = Setup!Cwd /\ Setup!IsAbs(jobs[t[1]].is.path)
      BY <2>3 DEF CwdByAbsolute
    <3>2. t[1] # k
      BY <2>3, <3>1 DEF p
    <3>3. Setup!Cwd \notin Setup!Way(fs', p)
      BY <1>2, <3>1, <3>2
    <3> QED BY <1>1, <2>3, <3>3, CwdOnWay
  <2> QED BY <2>3
<1>8. Setup!EvalSymlinks(fs, p) = Setup!EvalSymlinks(fs', p)
  BY <1>1, <1>3, <1>7, EvalKept
<1>9. Setup!Alone(k)
  <2> SUFFICES ASSUME NEW t \in touched
               PROVE  t[2] \notin Setup!Way(fs, d) /\ (t[1] # k => t[2] \notin Setup!Way(fs, p))
    BY DEF Setup!Alone, p, d
  <2>1. t \in touched'
    BY DEF Notes
  <2> QED BY <1>2, <1>4, <1>5, <2>1
<1> QED BY <1>4, <1>5, <1>6, <1>8, <1>9 DEF Untouched, p, d

(* So a step takes nothing from the other links that are still alone.      *)
LEMMA OthersLead ==
  ASSUME NEW Word, AreWritten(Word), SetupInvariant(Word), Tree(Word, fs)',
         NEW i, NEW w, Goes(i, w), errs \subseteq errs', Notes(i), CwdByAbsolute',
         NEW k \in DOMAIN jobs, k # i, meddled = 0, jobs[k].kind = "link", k \notin errs',
         Setup!Alone(k)'
  PROVE  Leads(k)'
<1> DEFINE l == jobs[k].is
<1>1. jobs' = jobs /\ op' = op /\ before' = before /\ op # "none" /\ Spelled(Word, l)
      /\ pc'[k] = pc[k]
  BY SomeProcess, PlannedGoes DEF SetupInvariant, Goes, Setup!Same, Setup!Process, WellWritten,
     LinkSpelled
<1>2. Untouched(k)
  BY <1>1, AloneBefore DEF AreWritten
<1>3. Leads(k)
  BY <1>2 DEF SetupInvariant, LinksLead, Untouched
<1> QED BY <1>1, <1>2, <1>3 DEF Leads, Led, Untouched, Setup!Misplaced

(* Of a step that is one link's it must only be shown for this one.        *)
LEMMA LinksLeadGo ==
  ASSUME NEW Word, AreWritten(Word), SetupInvariant(Word), Tree(Word, fs)',
         NEW i, NEW w, Goes(i, w), errs \subseteq errs', Notes(i), CwdByAbsolute',
         meddled = 0 /\ jobs[i].kind = "link" /\ i \notin errs' /\ Setup!Alone(i)' => Leads(i)'
  PROVE  LinksLead'
<1>1. jobs' = jobs /\ meddled' = meddled
  BY DEF Goes, Setup!Same, Setup!Process
<1>2. SUFFICES ASSUME meddled = 0, NEW k \in DOMAIN jobs, jobs[k].kind = "link", k \notin errs',
                      Setup!Alone(k)'
               PROVE  Leads(k)'
  BY <1>1 DEF LinksLead
<1>3. k # i => Leads(k)'
  BY <1>2, OthersLead
<1> QED BY <1>2, <1>3

(* All that has to be shown of a job's step.                               *)
LEMMA InvariantGoes ==
  ASSUME NEW Word, AreWritten(Word), SetupInvariant(Word), Tree(Word, fs)',
         NEW i, NEW w, Goes(i, w), errs \subseteq errs', Notes(i),
         w \in {"resolve", "remove"} /\ jobs[i].kind = "link" => jobs[i].is.update,
         Tracked', LinksLead', UnitsSet', StillSet', Setup!NothingOverwritten'
  PROVE  SetupInvariant(Word)'
<1>1. UNCHANGED <<jobs, conf, meddled>>
  BY DEF Goes, Setup!Same, Setup!Process
<1>2. Planned' /\ Updating'
  BY PlannedGoes, UpdatingGoes DEF SetupInvariant
<1>3. WellWritten(Word)'
  BY <1>1 DEF SetupInvariant, WellWritten, LinkSpelled
<1> QED BY <1>2, <1>3 DEF SetupInvariant

-----------------------------------------------------------------------------
(* The steps of links that only look.                                      *)
(* A step that changes no files.                                           *)
LEMMA QuietGoes ==
  ASSUME NEW Word, AreWritten(Word), SetupInvariant(Word), NEW i, NEW w, Goes(i, w),
         UNCHANGED <<fs, touched>>, errs \subseteq errs', errs' \subseteq errs \cup {i},
         w \in {"resolve", "remove"} /\ jobs[i].kind = "link" => jobs[i].is.update,
         jobs[i].kind = "link" => w \in {"make", "ln", "done"} \/ pc[i] \notin {"make", "ln"},
         meddled = 0 /\ jobs[i].kind = "link" /\ i \notin errs' /\ Setup!Alone(i) => Leads(i)',
         settled /\ meddled = 0 /\ jobs[i].kind = "link" => Still(i)',
         UnitsSet'
  PROVE  SetupInvariant(Word)'
<1>1. /\ UNCHANGED <<jobs, before>>
      /\ pc[i] # "done"
  BY DEF Goes, Setup!Same, Setup!Process
<1>2. Notes(i)
  BY QuietNotes
<1>3. Tree(Word, fs)'
  BY DEF SetupInvariant, WellWritten
<1>4. Planned /\ Updating /\ Tracked /\ StillSet
  BY DEF SetupInvariant
<1>5. Tracked'
  BY <1>1, <1>2, <1>4, TrackedGoes
<1>6. StillSet'
  BY <1>4, StillGoes
<1>7. Setup!Alone(i)' => Setup!Alone(i)
  BY <1>1 DEF Setup!Alone
<1>8. LinksLead'
  BY <1>2, <1>3, <1>5, <1>7, LinksLeadGo DEF Tracked
<1>9. Setup!NothingOverwritten'
  BY <1>1 DEF SetupInvariant, Setup!NothingOverwritten
<1> QED BY <1>2, <1>3, <1>5, <1>6, <1>8, <1>9, InvariantGoes

(* Begin keeps the invariant.                                              *)
LEMMA BeginGoes ==
  ASSUME NEW Word, AreWritten(Word), SetupInvariant(Word), NEW i \in DOMAIN pc, Setup!Begin(i)
  PROVE  SetupInvariant(Word)'
<1>1. Goes(i, "begun") /\ pc[i] = "waiting" /\ UNCHANGED <<fs, touched, units, errs, jobs>>
  BY DEF Setup!Begin, Goes, Setup!To, Setup!Same, Setup!Process, Setup!Machine, SetupInvariant,
         Planned
<1>2. Planned /\ UnitsSet /\ StillSet
  BY DEF SetupInvariant
<1>3. UnitsSet'
  BY <1>1, <1>2, UnitsGo
<1>4. pc'[i] = "begun"
  BY <1>1, <1>2, PlannedGoes
<1>5. Leads(i)'
  BY <1>4 DEF Leads
<1>6. settled /\ meddled = 0 /\ jobs[i].kind = "link" => Still(i)'
  <2> SUFFICES ASSUME settled, meddled = 0, jobs[i].kind = "link" PROVE Still(i)'
    OBVIOUS
  <2>1. Still(i)
    BY <1>1, <1>2 DEF StillSet, Goes
  <2> QED BY <1>1, <1>4, <2>1 DEF Still, AlreadyLed
<1> QED BY <1>1, <1>3, <1>5, <1>6, QuietGoes

(* What the parts of actions say.                                          *)
LEMMA AtGoes ==
  ASSUME NEW i, NEW k, NEW where, Setup!At(i, k, where), where # "done", Setup!Same,
         NEW w, Setup!To(i, w)
  PROVE  Goes(i, w) /\ jobs[i].kind = k /\ pc[i] = where /\ i \in DOMAIN jobs
         /\ jobs' = jobs /\ before' = before /\ op' = op /\ settled' = settled
         /\ meddled' = meddled
BY DEF Setup!At, Goes, Setup!Same, Setup!Process

(* Without a target there is nothing to do: the link leads.                *)
LEMMA CheckTargetGoes ==
  ASSUME NEW Word, AreWritten(Word), SetupInvariant(Word), NEW i, Setup!CheckTarget(i)
  PROVE  SetupInvariant(Word)'
<1> DEFINE l == jobs[i].is
           w == IF Setup!Stat(fs, l.target) = "missing" THEN "done" ELSE "path"
<1>1. Setup!At(i, "link", "begun") /\ Setup!To(i, w) /\ Setup!Same
      /\ UNCHANGED <<fs, touched, units, errs>>
  BY DEF Setup!CheckTarget, Setup!Machine
<1> HIDE DEF w
<1>2. Goes(i, w) /\ jobs[i].kind = "link" /\ pc[i] = "begun" /\ i \in DOMAIN jobs /\ jobs' = jobs
  BY <1>1, AtGoes
<1>3. Planned /\ UnitsSet /\ StillSet
  BY DEF SetupInvariant
<1>4. UnitsSet'
  BY <1>1, <1>2, <1>3, UnitsGo
<1>5. pc'[i] = w
  BY <1>2, <1>3, PlannedGoes
<1>6. Leads(i)'
  BY <1>1, <1>2, <1>5 DEF Leads, Led, w
<1>7. settled /\ meddled = 0 => Still(i)'
  <2> SUFFICES ASSUME settled, meddled = 0 PROVE Still(i)'
    OBVIOUS
  <2>1. Still(i)
    BY <1>2, <1>3 DEF StillSet
  <2> QED BY <1>1, <1>2, <1>5, <2>1 DEF Still, AlreadyLed, w
<1>8. w \notin {"resolve", "remove"}
  BY DEF w
<1> QED BY <1>1, <1>2, <1>4, <1>6, <1>7, <1>8, QuietGoes

(* What is at a path that exists is only replaced by an updating link.     *)
LEMMA CheckPathGoes ==
  ASSUME NEW Word, AreWritten(Word), SetupInvariant(Word), NEW i, Setup!CheckPath(i)
  PROVE  SetupInvariant(Word)'
<1> DEFINE l == jobs[i].is
           w == IF Setup!Stat(fs, l.path) = "missing" THEN "make"
                ELSE IF ~l.update THEN "done" ELSE "resolve"
<1>1. Setup!At(i, "link", "path") /\ Setup!To(i, w) /\ Setup!Same
      /\ UNCHANGED <<fs, touched, units, errs>>
  BY DEF Setup!CheckPath, Setup!Machine
<1> HIDE DEF w
<1>2. Goes(i, w) /\ jobs[i].kind = "link" /\ pc[i] = "path" /\ i \in DOMAIN jobs /\ jobs' = jobs
      /\ before' = before
  BY <1>1, AtGoes
<1>3. Planned /\ UnitsSet /\ StillSet /\ Tracked /\ Tree(Word, fs)
      /\ Spelled(Word, l)
  BY <1>2 DEF SetupInvariant, WellWritten, LinkSpelled
<1>4. UnitsSet'
  BY <1>1, <1>2, <1>3, UnitsGo
<1>5. pc'[i] = w
  BY <1>2, <1>3, PlannedGoes
<1>6. Setup!Alone(i) => Leads(i)'
  <2> SUFFICES ASSUME Setup!Alone(i) PROVE Leads(i)'
    OBVIOUS
  <2>1. CASE w = "make"
    <3>1. Setup!Stat(fs, l.path) = "missing"
      BY <2>1 DEF w
    <3> QED BY <1>1, <1>2, <1>5, <2>1, <3>1 DEF Leads
  <2>2. CASE w = "resolve"
    BY <1>5, <2>2 DEF Leads
  <2>3. CASE w = "done"
    <3>1. Setup!Stat(fs, l.path) # "missing" /\ ~l.update
      BY <2>3 DEF w
    <3>2. ASSUME Setup!Stat(fs, l.path) # "error"
          PROVE  Setup!Entry(fs, l.path) \in DOMAIN before
      <4>1. Setup!Entry(fs, l.path) \in DOMAIN fs
        BY <1>3, <3>1, <3>2, EntryThere DEF AreWritten, Spelled
      <4>2. Setup!Entry(fs, l.path) \in Setup!Way(fs, l.path)
        BY <1>3, EntryOnWay DEF AreWritten, Spelled
      <4>3. \A t \in touched : t[2] # Setup!Entry(fs, l.path)
        <5> SUFFICES ASSUME NEW t \in touched, t[2] = Setup!Entry(fs, l.path) PROVE FALSE
          OBVIOUS
        <5>1. t[1] # i
          BY <1>2, <1>3 DEF Tracked, Changers
        <5> QED BY <4>2, <5>1 DEF Setup!Alone
      <4> QED BY <1>3, <4>1, <4>3 DEF Tracked, Unchanged, Agree
    <3>3. Led(l)'
      BY <1>1, <1>2, <3>1, <3>2 DEF Led
    <3> QED BY <1>1, <1>2, <1>5, <2>3, <3>3 DEF Leads
  <2> QED BY <2>1, <2>2, <2>3 DEF w
<1>7. settled /\ meddled = 0 => Still(i)'
  <2> SUFFICES ASSUME settled, meddled = 0 PROVE Still(i)'
    OBVIOUS
  <2>1. Still(i)
    BY <1>2, <1>3 DEF StillSet
  <2>2. w \in {"done", "resolve"}
    BY <1>2, <2>1 DEF Still, AlreadyLed, w
  <2> QED BY <1>1, <1>2, <1>5, <2>1, <2>2 DEF Still, AlreadyLed
<1>8. w \in {"resolve", "remove"} => l.update
  BY DEF w
<1> QED BY <1>1, <1>2, <1>4, <1>6, <1>7, <1>8, QuietGoes

(* A link is done when it leads to its target as it is spelled.            *)
LEMMA ResolvePathGoes ==
  ASSUME NEW Word, AreWritten(Word), SetupInvariant(Word), NEW i, Setup!ResolvePath(i)
  PROVE  SetupInvariant(Word)'
<1> DEFINE l == jobs[i].is
           bad == Setup!Stat(fs, l.path) \in {"error", "missing"}
           same == Setup!EvalSymlinks(fs, l.path) = l.target
           w == IF bad \/ same THEN "done" ELSE "remove"
<1>1. Setup!At(i, "link", "resolve") /\ Setup!To(i, w) /\ Setup!Same
      /\ UNCHANGED <<fs, touched, units>> /\ errs' = IF bad THEN errs \cup {i} ELSE errs
  BY DEF Setup!ResolvePath, Setup!Machine
<1> HIDE DEF w, bad, same
<1>2. Goes(i, w) /\ jobs[i].kind = "link" /\ pc[i] = "resolve" /\ i \in DOMAIN jobs /\ jobs' = jobs
      /\ before' = before
  BY <1>1, AtGoes
<1>3. /\ Planned /\ UnitsSet /\ StillSet /\ Tracked /\ Tree(Word, fs)
      /\ Spelled(Word, l) /\ l.update
  BY <1>2 DEF SetupInvariant, WellWritten, LinkSpelled, Updating
<1>4. UnitsSet'
  BY <1>1, <1>2, <1>3, UnitsGo
<1>5. pc'[i] = w
  BY <1>2, <1>3, PlannedGoes
<1>6. Setup!Alone(i) /\ i \notin errs' => Leads(i)'
  <2> SUFFICES ASSUME Setup!Alone(i), i \notin errs', w = "done", Setup!IsAbs(l.target)
               PROVE Led(l)'
    BY <1>2, <1>5 DEF Leads, w
  <2>1. same /\ Setup!Stat(fs, l.path) \notin {"missing", "error"}
    BY <1>1 DEF w, bad
  <2>2. Setup!IsAbs(l.path) \/ Setup!Kind(fs, Setup!Cwd) # "link"
    BY <1>2, <1>3, CwdKept, SomeProcess DEF Tracked, AreWritten, Spelled
  <2>3. Setup!Abs(Setup!EvalSymlinks(fs, l.path)) = Setup!Follow(fs, l.path)
    BY <1>3, <2>2, RelEval DEF AreWritten, Spelled
  <2>4. Setup!Follow(fs, l.path) = l.target
    BY <2>1, <2>3 DEF same, Setup!Abs
  <2>5. Free(fs, l.target)
    BY <1>3, <2>1, <2>4, EndFree DEF AreWritten, Spelled
  <2>6. Setup!Follow(fs, l.target) = l.target
    BY <2>5, FreeStays DEF Setup!Follow, Setup!Abs
  <2> QED BY <1>1, <1>2, <2>1, <2>4, <2>6 DEF Led, same
<1>7. settled /\ meddled = 0 => Still(i)'
  <2> SUFFICES ASSUME settled, meddled = 0 PROVE Still(i)'
    OBVIOUS
  <2>1. Still(i)
    BY <1>2, <1>3 DEF StillSet
  <2>2. ~bad /\ w = "done"
    BY <1>2, <1>3, <2>1 DEF Still, AlreadyLed, w, bad, same
  <2> QED BY <1>1, <1>2, <1>5, <2>1, <2>2 DEF Still, AlreadyLed
<1> QED BY <1>1, <1>2, <1>3, <1>4, <1>6, <1>7, QuietGoes

-----------------------------------------------------------------------------
(* The steps of other jobs.                                                *)
(* Jobs that are not links.                                                *)
LEMMA OtherGoes ==
  ASSUME NEW Word, AreWritten(Word), SetupInvariant(Word), NEW i, NEW w, Goes(i, w),
         jobs[i].kind # "link", UNCHANGED <<fs, touched>>, errs \subseteq errs',
         errs' \subseteq errs \cup {i}, UnitsSet'
  PROVE  SetupInvariant(Word)'
BY QuietGoes

(* Cleanup keeps the invariant.                                            *)
LEMMA CleanupGoes ==
  ASSUME NEW Word, AreWritten(Word), SetupInvariant(Word), NEW i, Setup!Cleanup(i)
  PROVE  SetupInvariant(Word)'
<1>1. Setup!At(i, "gc", "begun") /\ Setup!To(i, "done") /\ Setup!Same
      /\ UNCHANGED <<fs, touched, units>> /\ errs \subseteq errs' /\ errs' \subseteq errs \cup {i}
  BY DEF Setup!Cleanup, Setup!Machine
<1>2. Goes(i, "done") /\ jobs[i].kind = "gc"
  BY <1>1, AtGoes
<1>3. UnitsSet'
  BY <1>1, <1>2, UnitsGo DEF SetupInvariant
<1> QED BY <1>1, <1>2, <1>3, OtherGoes

(* FailUnit keeps the invariant.                                           *)
LEMMA FailUnitGoes ==
  ASSUME NEW Word, AreWritten(Word), SetupInvariant(Word), NEW i, Setup!FailUnit(i)
  PROVE  SetupInvariant(Word)'
<1>1. (Setup!At(i, "service", "begun") \/ Setup!At(i, "service", "start"))
      /\ Setup!To(i, "done") /\ Setup!Same
      /\ UNCHANGED <<fs, touched, units>> /\ errs' = errs \cup {i}
  BY DEF Setup!FailUnit, Setup!Machine
<1>2. Goes(i, "done") /\ jobs[i].kind = "service"
  BY <1>1, AtGoes
<1>3. UnitsSet'
  BY <1>1, <1>2, UnitsGo DEF SetupInvariant
<1> QED BY <1>1, <1>2, <1>3, OtherGoes

(* Services that are enabled or started with another one's unit are to be  *)
(* as this one.                                                            *)
LEMMA SameUnit ==
  ASSUME NEW i \in DOMAIN jobs, NEW k \in DOMAIN jobs,
         jobs[i].kind = "service", jobs[k].kind = "service", ~Setup!Contradicted(k),
         Setup!Unit(jobs[i].is) = Setup!Unit(jobs[k].is)
  PROVE  jobs[i].is.enabled = jobs[k].is.enabled
BY DEF Setup!Contradicted

(* EnableUnit keeps the invariant.                                         *)
LEMMA EnableUnitGoes ==
  ASSUME NEW Word, AreWritten(Word), SetupInvariant(Word), NEW i, Setup!EnableUnit(i)
  PROVE  SetupInvariant(Word)'
<1> DEFINE s == jobs[i].is
           w == IF s.enabled /\ ~s.start THEN "done" ELSE "start"
<1>1. Setup!At(i, "service", "begun") /\ Setup!To(i, w) /\ Setup!Same
      /\ UNCHANGED <<fs, touched, errs>>
  BY DEF Setup!EnableUnit
<1>2. units' = [units EXCEPT !.enabled = IF s.enabled THEN @ \cup {Setup!Unit(s)}
                                         ELSE @ \ {Setup!Unit(s)}]
  BY DEF Setup!EnableUnit
<1> HIDE DEF w
<1>3. Goes(i, w) /\ jobs[i].kind = "service" /\ i \in DOMAIN jobs /\ jobs' = jobs
  BY <1>1, AtGoes
<1>4. Planned /\ UnitsSet
  BY DEF SetupInvariant
<1>5. pc'[i] = w /\ \A k \in DOMAIN jobs : k # i => pc'[k] = pc[k]
  BY <1>3, <1>4, PlannedGoes
<1>6. DOMAIN units' = {"enabled", "running"} /\ units'.running = units.running
      /\ units'.enabled = IF s.enabled THEN units.enabled \cup {Setup!Unit(s)}
                          ELSE units.enabled \ {Setup!Unit(s)}
  BY <1>2, <1>4 DEF UnitsSet
<1>7. UnitsSet'
  <2> SUFFICES ASSUME NEW k \in DOMAIN jobs, jobs[k].kind = "service",
                      ~Setup!Contradicted(k)', k \notin errs'
               PROVE  UnitSet(k)'
    BY <1>3, <1>6 DEF UnitsSet
  <2>1. ~Setup!Contradicted(k)
    BY <1>3 DEF Setup!Contradicted
  <2>2. CASE k = i
    <3>1. s.enabled <=> Setup!Unit(s) \in units'.enabled
      BY <1>6
    <3> QED BY <1>3, <1>5, <2>2, <3>1 DEF UnitSet, w
  <2>3. CASE k # i
    <3>1. UnitSet(k)
      BY <1>1, <1>4, <2>1 DEF UnitsSet
    <3>2. Setup!Unit(s) = Setup!Unit(jobs[k].is) => s.enabled = jobs[k].is.enabled
      BY <1>3, <2>1, SameUnit
    <3> DEFINE r == jobs[k].is
               v == Setup!Unit(r)
    <3>3. (r.enabled <=> v \in units.enabled) => (r.enabled <=> v \in units'.enabled)
      BY <1>6, <3>2
    <3> QED BY <1>3, <1>5, <1>6, <2>3, <3>1, <3>3 DEF UnitSet
  <2> QED BY <2>2, <2>3
<1> QED BY <1>1, <1>3, <1>7, OtherGoes

(* StartUnit keeps the invariant.                                          *)
LEMMA StartUnitGoes ==
  ASSUME NEW Word, AreWritten(Word), SetupInvariant(Word), NEW i, Setup!StartUnit(i)
  PROVE  SetupInvariant(Word)'
<1> DEFINE s == jobs[i].is
<1>1. Setup!At(i, "service", "start") /\ Setup!To(i, "done") /\ Setup!Same
      /\ UNCHANGED <<fs, touched, errs>>
  BY DEF Setup!StartUnit
<1>2. units' = [units EXCEPT !.running = IF s.enabled THEN @ \cup {Setup!Unit(s)}
                                         ELSE @ \ {Setup!Unit(s)}]
  BY DEF Setup!StartUnit
<1>3. Goes(i, "done") /\ jobs[i].kind = "service" /\ i \in DOMAIN jobs /\ jobs' = jobs
      /\ pc[i] = "start"
  BY <1>1, AtGoes
<1>4. Planned /\ UnitsSet
  BY DEF SetupInvariant
<1>5. pc'[i] = "done" /\ \A k \in DOMAIN jobs : k # i => pc'[k] = pc[k]
  BY <1>3, <1>4, PlannedGoes
<1>6. DOMAIN units' = {"enabled", "running"} /\ units'.enabled = units.enabled
      /\ units'.running = IF s.enabled THEN units.running \cup {Setup!Unit(s)}
                          ELSE units.running \ {Setup!Unit(s)}
  BY <1>2, <1>4 DEF UnitsSet
<1>7. UnitsSet'
  <2> SUFFICES ASSUME NEW k \in DOMAIN jobs, jobs[k].kind = "service",
                      ~Setup!Contradicted(k)', k \notin errs'
               PROVE  UnitSet(k)'
    BY <1>3, <1>6 DEF UnitsSet
  <2>1. ~Setup!Contradicted(k)
    BY <1>3 DEF Setup!Contradicted
  <2>4. UnitSet(k)
    BY <1>1, <1>4, <2>1 DEF UnitsSet
  <2>2. CASE k = i
    <3>1. s.enabled => Setup!Unit(s) \in units'.running
      BY <1>6
    <3>2. ~s.enabled => Setup!Unit(s) \notin units'.running
      BY <1>6
    <3>3. s.enabled <=> Setup!Unit(s) \in units.enabled
      BY <1>3, <2>2, <2>4 DEF UnitSet
    <3> QED BY <1>3, <1>5, <1>6, <2>2, <3>1, <3>2, <3>3 DEF UnitSet
  <2>3. CASE k # i
    <3> DEFINE r == jobs[k].is
               v == Setup!Unit(r)
    <3>2. Setup!Unit(s) = v => s.enabled = r.enabled
      BY <1>3, <2>1, SameUnit
    <3>3. /\ r.enabled /\ v \in units.running => v \in units'.running
          /\ ~r.enabled /\ v \notin units.running => v \notin units'.running
      BY <1>6, <3>2
    <3> QED BY <1>3, <1>5, <1>6, <2>3, <2>4, <3>3 DEF UnitSet
  <2> QED BY <2>2, <2>3
<1> QED BY <1>1, <1>3, <1>7, OtherGoes

-----------------------------------------------------------------------------
(* How a process ends, and what it reports.                                *)
LEMMA EndGoes ==
  ASSUME NEW Word, SetupInvariant(Word),
         UNCHANGED <<fs, units, touched, op, jobs, conf, before, settled, pc, errs, meddled>>,
         result' = "rejected" <=> result = "rejected",
         result' = "done" /\ op \in {"links", "nightly"} =>
           errs = {} /\ \A i \in DOMAIN jobs : pc[i] = "done",
         report' = report \/ Reported'
  PROVE  SetupInvariant(Word)'
<1>1. Planned /\ Updating /\ Tracked /\ LinksLead /\ UnitsSet /\ StillSet /\ WellWritten(Word)
      /\ Setup!NothingOverwritten
  BY DEF SetupInvariant
<1>2. Planned'
  <2>1. PlanOf(op)' = PlanOf(op) /\ (StaticallyValid' <=> StaticallyValid)
    BY DEF PlanOf, StaticallyValid, Setup!Links, Setup!Repos, Setup!Services
  <2> QED BY <1>1, <2>1 DEF Planned
<1>3. Updating' /\ Tracked' /\ WellWritten(Word)'
  BY <1>1 DEF Updating, Tracked, Unchanged, Changers, CwdByAbsolute, WellWritten, LinkSpelled
<1>4. LinksLead'
  <2>1. \A i : (Setup!Alone(i)' => Setup!Alone(i)) /\ (Leads(i) => Leads(i)')
    BY DEF Setup!Alone, Leads, Led, Setup!Misplaced
  <2> QED BY <1>1, <2>1 DEF LinksLead
<1>5. UnitsSet'
  <2>1. \A i : (UnitSet(i) => UnitSet(i)') /\ (Setup!Contradicted(i) => Setup!Contradicted(i)')
    BY DEF UnitSet, Setup!Contradicted
  <2> QED BY <1>1, <2>1 DEF UnitsSet
<1>6. StillSet'
  <2>1. \A i : Still(i) => Still(i)'
    BY DEF Still, AlreadyLed
  <2>2. [k \in DOMAIN conf.search |-> {Setup!Described(p) : p \in Setup!Found(conf.search[k])}]'
        = [k \in DOMAIN conf.search |-> {Setup!Described(p) : p \in Setup!Found(conf.search[k])}]
    BY DEF Setup!Described, Setup!Found, Setup!Defined, Setup!Links, Setup!Starts
  <2>3. Reported => Reported'
    BY <2>2 DEF Reported
  <2>4. Setup!ValidDiscovery' <=> Setup!ValidDiscovery
    BY DEF Setup!ValidDiscovery
  <2> QED BY <1>1, <2>1, <2>3, <2>4 DEF StillSet
<1>7. Setup!NothingOverwritten'
  BY <1>1 DEF Setup!NothingOverwritten
<1> QED BY <1>2, <1>3, <1>4, <1>5, <1>6, <1>7 DEF SetupInvariant

(* Finish keeps the invariant: no error, and all jobs are done.            *)
LEMMA FinishGoes ==
  ASSUME NEW Word, SetupInvariant(Word), Setup!Finish
  PROVE  SetupInvariant(Word)'
BY EndGoes DEF Setup!Finish, Setup!Machine, Setup!Process, Setup!Idle, SetupInvariant, Planned

(* Discover keeps the invariant: it describes what there is.               *)
LEMMA DiscoverGoes ==
  ASSUME NEW Word, SetupInvariant(Word), Setup!Discover
  PROVE  SetupInvariant(Word)'
<1>1. /\ UNCHANGED <<fs, units, touched, op, jobs, conf, before, settled, pc, errs, meddled>>
      /\ result = "none" /\ op = "discover" /\ result' = "done"
      /\ report' = [k \in DOMAIN conf.search |->
                      {Setup!Described(p) : p \in Setup!Found(conf.search[k])}]
  BY DEF Setup!Discover, Setup!Machine, Setup!Idle
<1>2. [k \in DOMAIN conf.search |-> {Setup!Described(p) : p \in Setup!Found(conf.search[k])}]'
      = [k \in DOMAIN conf.search |-> {Setup!Described(p) : p \in Setup!Found(conf.search[k])}]
  BY <1>1 DEF Setup!Described, Setup!Found, Setup!Defined, Setup!Links, Setup!Starts
<1>3. Reported'
  BY <1>1, <1>2 DEF Reported
<1> QED BY <1>1, <1>3, EndGoes

(* So does a step of another part of the program.                          *)
LEMMA StutterGoes ==
  ASSUME NEW Word, SetupInvariant(Word), UNCHANGED setup
  PROVE  SetupInvariant(Word)'
BY EndGoes DEF setup, SetupInvariant, Planned

-----------------------------------------------------------------------------
(* The steps that change files.                                            *)
(* A link's step that may change files; none is made when all was set up.  *)
Changes(i, w) ==
  /\ Goes(i, w) /\ jobs[i].kind = "link" /\ pc[i] \in {"remove", "make", "ln"}
  /\ w \in {"make", "ln", "done"} /\ units' = units /\ errs \subseteq errs' /\ Notes(i)

(* All that has to be shown of a step that may change files.               *)
LEMMA ChangesGo ==
  ASSUME NEW Word, AreWritten(Word), SetupInvariant(Word), Tree(Word, fs)',
         NEW i, NEW w, Changes(i, w),
         Setup!Kind(fs', Setup!Cwd) = "link" =>
           \/ Setup!Kind(fs, Setup!Cwd) = "link"
           \/ <<i, Setup!Cwd>> \in touched' /\ w = "done" /\ Setup!IsAbs(jobs[i].is.path),
         meddled = 0 /\ i \notin errs' /\ Setup!Alone(i)' /\ Tracked' => Leads(i)',
         Setup!NothingOverwritten'
  PROVE  SetupInvariant(Word)'
<1>1. /\ Goes(i, w) /\ jobs[i].kind = "link" /\ pc[i] \in {"remove", "make", "ln"}
      /\ w \in {"make", "ln", "done"} /\ units' = units /\ errs \subseteq errs' /\ Notes(i)
      /\ i \in DOMAIN jobs
  BY DEF Changes, Goes
<1>2. Planned /\ Tracked /\ UnitsSet /\ StillSet
  BY DEF SetupInvariant
<1>3. Tracked'
  BY <1>1, <1>2, TrackedGoes
<1>4. LinksLead'
  BY <1>1, <1>3, LinksLeadGo DEF Tracked
<1>5. UnitsSet'
  BY <1>1, <1>2, UnitsGo
<1>6. StillSet'
  <2>1. ~(settled /\ meddled = 0)
    BY <1>1, <1>2 DEF StillSet, Still
  <2> QED BY <1>1, <1>2, <2>1, StillGoes
<1> QED BY <1>1, <1>3, <1>4, <1>5, <1>6, InvariantGoes

(* What is added overwrites nothing.                                       *)
LEMMA AddedOverwritesNothing ==
  ASSUME Setup!NothingOverwritten, UNCHANGED <<jobs, before>>,
         \A q \in DOMAIN fs : q \in DOMAIN fs' /\ fs'[q] = fs[q]
  PROVE  Setup!NothingOverwritten'
BY DEF Setup!NothingOverwritten

(* rm acts on an entry of the name that it is given.                       *)
LEMMA EntryHasName ==
  ASSUME NEW Word, "/" \in Word, "w" \in Word, NEW f, Tree(Word, f), NEW p \in Path(Word),
         Setup!Entry(f, p) # Setup!Root
  PROVE  Setup!Last(Setup!Entry(f, p)) = Setup!Last(Setup!Abs(p))
<1>1. Setup!Abs(p) # Setup!Root
  BY DEF Setup!Entry
<1> DEFINE d == Setup!Follow(f, Setup!Parent(Setup!Abs(p)))
           x == Setup!Last(Setup!Abs(p))
<1>2. Setup!Entry(f, p) = Append(d, x) /\ d \in Path(Word) /\ Setup!IsAbs(d)
  BY <1>1, EntryInChain
<1>3. x \in Word /\ x # "/"
  BY <1>1, Split
<1> HIDE DEF d, x
<1>4. Setup!Last(Append(d, x)) = x
  BY <1>2, <1>3, Below
<1> QED BY <1>2, <1>4 DEF x

(* Join makes a path.                                                      *)
LEMMA JoinIsPath ==
  ASSUME NEW Word, NEW p \in Path(Word), NEW q \in Path(Word)
  PROVE  Setup!Join(p, q) \in Path(Word) /\ (q = <<>> => Setup!Join(p, q) = p)
<1>1. CASE Setup!IsAbs(q)
  <2>1. q # <<>> /\ q \in Seq(Word) /\ Len(q) \in Nat /\ Len(q) >= 1
        /\ \A k \in 2 .. Len(q) : q[k] # "/"
    BY <1>1 DEF Setup!IsAbs, Path
  <2>2. Tail(q) \in Seq(Word) /\ Len(Tail(q)) = Len(q) - 1
        /\ \A k \in 1 .. Len(q) - 1 : Tail(q)[k] = q[k + 1]
    BY <2>1
  <2> DEFINE r == Tail(q)
  <2>3. \A k \in 1 .. Len(q) - 1 : k + 1 \in 2 .. Len(q)
    BY <2>1
  <2>4. \A k \in 1 .. Len(r) : r[k] # "/"
    BY <2>1, <2>2, <2>3
  <2>5. r \in Path(Word) /\ ~Setup!IsAbs(r)
    <3>1. r \in Seq(Word) /\ Len(r) \in Nat
      BY <2>1, <2>2
    <3> HIDE DEF r
    <3>2. \A k \in 2 .. Len(r) : k \in 1 .. Len(r)
      BY <3>1
    <3>3. r # <<>> => 1 \in 1 .. Len(r)
      BY <3>1
    <3> QED BY <2>4, <3>1, <3>2, <3>3 DEF Path, Setup!IsAbs
  <2> HIDE DEF r
  <2>6. p \o r \in Path(Word)
    BY <2>5, Joined
  <2> QED BY <1>1, <2>1, <2>6 DEF Setup!Join, r
<1>2. CASE ~Setup!IsAbs(q)
  <2>1. p \o q \in Path(Word)
    BY <1>2, Joined
  <2>2. q = <<>> => p \o q = p
    BY DEF Path
  <2> QED BY <1>2, <2>1, <2>2 DEF Setup!Join
<1> QED BY <1>1, <1>2

(* What is removed has the link's name, and its path then leads nowhere.   *)
LEMMA RemoveOldGoes ==
  ASSUME NEW Word, AreWritten(Word), SetupInvariant(Word), NEW i, Setup!RemoveOld(i)
  PROVE  SetupInvariant(Word)'
<1> DEFINE l == jobs[i].is
           dst == Setup!Join(l.path, l.name)
           e == Setup!Entry(fs, dst)
<1>1. Setup!At(i, "link", "remove") /\ Setup!To(i, "make") /\ Setup!Same /\ Setup!Touch(i)
      /\ units' = units
  BY DEF Setup!RemoveOld
<1>2. \/ /\ Setup!Removable(e)
         /\ fs' = Setup!Restrict(fs, DOMAIN fs \ {e})
         /\ errs' = errs
      \/ errs' = errs \cup {i} /\ fs' = fs
  BY DEF Setup!RemoveOld
<1> HIDE DEF e, dst
<1>3. Goes(i, "make") /\ jobs[i].kind = "link" /\ pc[i] = "remove" /\ i \in DOMAIN jobs
      /\ jobs' = jobs /\ before' = before
  BY <1>1, AtGoes
<1>4. Changes(i, "make")
  BY <1>1, <1>2, <1>3, TouchNotes DEF Changes
<1>5. Tree(Word, fs) /\ Spelled(Word, l) /\ l.update /\ "/" \in Word /\ "w" \in Word
      /\ Planned /\ Setup!NothingOverwritten
  BY <1>3 DEF SetupInvariant, WellWritten, LinkSpelled, Updating, AreWritten
<1>6. dst \in Path(Word) /\ (l.name = <<>> => dst = l.path)
  BY <1>5, JoinIsPath DEF Spelled, dst
<1>7. Tree(Word, fs)'
  <2>1. Setup!Removable(e) => Tree(Word, Setup!Restrict(fs, DOMAIN fs \ {e}))
    <3> SUFFICES ASSUME Setup!Removable(e) PROVE Tree(Word, Setup!Restrict(fs, DOMAIN fs \ {e}))
      OBVIOUS
    <3>1. e # Setup!Root /\ (Setup!Kind(fs, e) = "dir" =>
                               \A p \in DOMAIN fs : p # e => ~Setup!IsPrefix(e, p))
      BY DEF Setup!Removable, Setup!Kind
    <3> QED BY <1>5, <3>1, TreeWithout
  <2> QED BY <1>2, <1>5, <2>1
<1>8. Setup!Kind(fs', Setup!Cwd) = "link" => Setup!Kind(fs, Setup!Cwd) = "link"
  BY <1>2 DEF Setup!Kind, Setup!Restrict
<1>9. Setup!NothingOverwritten'
  <2> SUFFICES ASSUME NEW p \in DOMAIN before, ~(p \in DOMAIN fs' /\ fs'[p] = before[p])
               PROVE  \E k \in DOMAIN jobs :
                        /\ jobs[k].kind = "link" /\ jobs[k].is.update
                        /\ Setup!Last(p) = Setup!Last(Setup!Abs(Setup!Join(jobs[k].is.path, jobs[k].is.name)))
    BY <1>3 DEF Setup!NothingOverwritten
  <2>1. CASE p = e /\ e # Setup!Root
    <3>1. Setup!Last(e) = Setup!Last(Setup!Abs(dst))
      BY <1>5, <1>6, <2>1, EntryHasName DEF e
    <3> QED BY <1>3, <1>5, <2>1, <3>1 DEF dst
  <2>2. CASE p # e \/ e = Setup!Root
    <3>1. ~(p \in DOMAIN fs /\ fs[p] = before[p])
      BY <1>2, <2>2 DEF Setup!Restrict, Setup!Removable
    <3> QED BY <1>5, <3>1 DEF Setup!NothingOverwritten
  <2> QED BY <2>1, <2>2
<1>10. i \notin errs' => Leads(i)'
  <2> SUFFICES ASSUME i \notin errs', l.name = <<>>
               PROVE  Setup!Stat(fs', l.path) # "dir"
    BY <1>3, <1>5, PlannedGoes DEF Leads
  <2>1. Setup!Removable(e) /\ fs' = Setup!Restrict(fs, DOMAIN fs \ {e})
    BY <1>2
  <2>2. e = Setup!Entry(fs, l.path) /\ e \in DOMAIN fs /\ e # Setup!Root
    BY <1>6, <2>1 DEF e, Setup!Removable
  <2>3. l.path \in Path(Word)
    BY <1>5 DEF Spelled
  <2>4. Setup!Stat(fs', l.path) \in {"missing", "error"}
    BY <1>5, <1>7, <2>1, <2>2, <2>3, Removed
  <2> QED BY <2>4
<1> QED BY <1>4, <1>7, <1>8, <1>9, <1>10, ChangesGo

(* The directories that are made lie on the way to the target.             *)
LEMMA MakeDirsGoes ==
  ASSUME NEW Word, AreWritten(Word), SetupInvariant(Word), NEW i, Setup!MakeDirs(i)
  PROVE  SetupInvariant(Word)'
<1> DEFINE l == jobs[i].is
           parent == Setup!Parent(Setup!Abs(l.target))
           dir == Setup!Follow(fs, parent)
           g(n) == [p \in DOMAIN fs \cup {SubSeq(dir, 1, k) : k \in 1 .. n} |->
                      IF p \in DOMAIN fs THEN fs[p] ELSE Setup!Dir]
<1>1. Setup!At(i, "link", "make") /\ Setup!Same /\ Setup!Touch(i) /\ units' = units
  BY DEF Setup!MakeDirs
<1>2. PICK w \in {"ln", "done"} : /\ Setup!To(i, w)
        /\ \/ Setup!Stat(fs, parent) # "missing" /\ fs' = fs /\ errs' = errs /\ w = "ln"
           \/ /\ Setup!Stat(fs, parent) = "missing"
              /\ \E n \in 0 .. Len(dir) :
                   /\ fs' = g(n)
                   /\ IF n = Len(dir) THEN errs' = errs /\ w = "ln"
                      ELSE errs' = errs \cup {i}
  BY DEF Setup!MakeDirs
<1> HIDE DEF g, dir, parent
<1>3. Goes(i, w) /\ jobs[i].kind = "link" /\ pc[i] = "make" /\ i \in DOMAIN jobs
      /\ jobs' = jobs /\ before' = before /\ meddled' = meddled
  BY <1>1, <1>2, AtGoes
<1>4. Changes(i, w)
  BY <1>1, <1>2, <1>3, TouchNotes DEF Changes
<1>5. Tree(Word, fs) /\ Spelled(Word, l) /\ "/" \in Word /\ "w" \in Word /\ Planned
      /\ Setup!NothingOverwritten /\ LinksLead
  BY <1>3 DEF SetupInvariant, WellWritten, LinkSpelled, AreWritten
<1>6. parent \in Path(Word)
  <2>1. Setup!Abs(l.target) \in Path(Word)
    BY <1>5, AbsIsPath DEF Spelled
  <2>2. CASE Setup!Abs(l.target) = Setup!Root
    BY <2>1, <2>2 DEF parent, Setup!Parent
  <2>3. CASE Setup!Abs(l.target) # Setup!Root
    BY <1>5, <2>3, Split DEF parent, Spelled
  <2> QED BY <2>2, <2>3
<1>7. /\ Tree(Word, fs)' 
      /\ \A q \in DOMAIN fs : q \in DOMAIN fs' /\ fs'[q] = fs[q]
      /\ \A q \in DOMAIN fs' \ DOMAIN fs : fs'[q].kind = "dir"
  <2>1. CASE fs' = fs
    BY <1>5, <2>1
  <2>2. ASSUME Setup!Stat(fs, parent) = "missing", NEW n \in 0 .. Len(dir), fs' = g(n)
        PROVE  /\ Tree(Word, fs)'
               /\ \A q \in DOMAIN fs : q \in DOMAIN fs' /\ fs'[q] = fs[q]
               /\ \A q \in DOMAIN fs' \ DOMAIN fs : fs'[q].kind = "dir"
    BY <1>5, <1>6, <2>2, TreeDirs DEF g, dir
  <2> QED BY <1>2, <2>1, <2>2
<1>8. \A q : /\ Setup!Kind(fs, q) = "link" <=> Setup!Kind(fs', q) = "link"
             /\ Setup!Kind(fs, q) = "link" => fs[q] = fs'[q]
  BY <1>7 DEF Setup!Kind
<1>9. Setup!NothingOverwritten'
  BY <1>3, <1>5, <1>7, AddedOverwritesNothing
<1>10. meddled = 0 /\ i \notin errs' /\ Setup!Alone(i)' => Leads(i)'
  <2> SUFFICES ASSUME meddled = 0, i \notin errs', Setup!Alone(i)'
               PROVE  Leads(i)'
    OBVIOUS
  <2>1. pc'[i] = w /\ w = "ln" /\ errs' = errs
    BY <1>2, <1>3, <1>5, PlannedGoes
  <2>2. fs' = fs
    <3> SUFFICES ASSUME Setup!Stat(fs, parent) = "missing", fs' = g(Len(dir)) PROVE FALSE
      BY <1>2, <2>1
    <3>1. Setup!Abs(l.target) # Setup!Root
      <4> SUFFICES ASSUME Setup!Abs(l.target) = Setup!Root PROVE FALSE
        OBVIOUS
      <4>1. parent = Setup!Root
        BY DEF parent, Setup!Parent
      <4>2. Free(fs, Setup!Root)
        <5>1. \A n \in DOMAIN Setup!Root : SubSeq(Setup!Root, 1, n) = Setup!Root
          <6>1. Setup!Root \in Seq(Word) /\ Len(Setup!Root) = 1 /\ DOMAIN Setup!Root = 1 .. 1
            BY <1>5 DEF Setup!Root
          <6>2. \A n \in 1 .. 1 : n = 1
            OBVIOUS
          <6>3. SubSeq(Setup!Root, 1, 1) = Setup!Root
            BY <6>1
          <6> QED BY <6>1, <6>2, <6>3
        <5>2. Setup!Abs(Setup!Root) = Setup!Root
          BY DEF Setup!Abs, Setup!IsAbs, Setup!Root
        <5>3. Setup!Kind(fs, Setup!Root) = "dir"
          BY <1>5 DEF Tree
        <5> QED BY <5>1, <5>2, <5>3 DEF Free
      <4>3. Setup!Abs(Setup!Root) = Setup!Root
        BY DEF Setup!Abs, Setup!IsAbs, Setup!Root
      <4>4. dir = Setup!Root
        BY <4>1, <4>2, <4>3, FreeStays DEF dir, Setup!Follow
      <4>5. Setup!Kind(fs, dir) = "none"
        BY <1>5, <1>6, EndFree DEF dir
      <4> QED BY <1>5, <4>4, <4>5 DEF Tree
    <3>2. dir \in Seq(Word) /\ Len(dir) \in Nat \ {0} /\ SubSeq(dir, 1, Len(dir)) = dir
          /\ Setup!Kind(fs, dir) = "none" /\ DOMAIN dir = 1 .. Len(dir)
      BY <1>5, <1>6, EndFree DEF dir
    <3>3. dir \in DOMAIN fs' /\ dir \notin DOMAIN fs
      <4>1. dir \notin DOMAIN fs
        BY <1>5, <3>2, NoNode
      <4>2. \A m \in Nat \ {0} : m \in 1 .. m
        OBVIOUS
      <4>3. Len(dir) \in 1 .. Len(dir) /\ SubSeq(dir, 1, Len(dir)) = dir
        BY <3>2, <4>2
      <4>4. dir \in {SubSeq(dir, 1, k) : k \in 1 .. Len(dir)}
        BY <4>3
      <4> DEFINE A == {SubSeq(dir, 1, k) : k \in 1 .. Len(dir)}
      <4>5. fs' = [p \in DOMAIN fs \cup A |-> IF p \in DOMAIN fs THEN fs[p] ELSE Setup!Dir]
        BY DEF g
      <4> HIDE DEF A
      <4>6. DOMAIN fs' = DOMAIN fs \cup A
        BY <4>5
      <4>7. dir \in A
        BY <4>4 DEF A
      <4> QED BY <4>1, <4>6, <4>7
    <3>4. <<i, dir>> \in touched'
      BY <1>4, <3>3 DEF Changes, Notes, Agree
    <3>5. dir \notin Setup!Way(fs', l.target)
      <4>1. \A a, b : <<a, b>>[2] = b
        OBVIOUS
      <4> QED BY <1>3, <3>4, <4>1 DEF Setup!Alone
    <3>6. Setup!Way(fs', l.target) = Setup!Way(fs, l.target)
      <4>1. l.target \in Path(Word)
        BY <1>5 DEF Spelled
      <4> HIDE DEF l
      <4> QED BY <1>5, <1>8, <4>1, SameLinks
    <3>7. dir \in Setup!Way(fs, parent)
      <4>1. Step(fs, Setup!Abs(parent), 3) = dir /\ 3 \in Steps
        BY DEF Step, Steps, dir, Setup!Follow
      <4>2. \A m \in Nat \ {0} : m \in 1 .. m
        OBVIOUS
      <4>3. Len(dir) \in DOMAIN dir
        BY <3>2, <4>2
      <4> QED BY <3>2, <4>1, <4>3, WayIs
    <3>8. dir \in Setup!Way(fs, l.target)
      BY <1>5, <3>1, <3>7, EntryInChain DEF parent, Spelled
    <3> QED BY <3>5, <3>6, <3>8
  <2>3. Setup!Alone(i)
    BY <1>3, <1>4, <2>2 DEF Setup!Alone, Changes, Notes
  <2>4. Leads(i)
    BY <1>3, <1>5, <2>1, <2>3 DEF LinksLead
  <2> QED BY <1>3, <2>1, <2>2, <2>4 DEF Leads
<1>11. Setup!Kind(fs', Setup!Cwd) = "link" => Setup!Kind(fs, Setup!Cwd) = "link"
  BY <1>8
<1> QED BY <1>4, <1>7, <1>9, <1>10, <1>11, ChangesGo

(* A link is made in a directory.                                          *)
LEMMA PlaceIs ==
  ASSUME NEW Word, "/" \in Word, "w" \in Word, Tree(Word, fs), NEW l, Spelled(Word, l),
         Setup!Kind(fs, Setup!Place(l)) = "none",
         Setup!Kind(fs, Setup!Parent(Setup!Place(l))) = "dir"
  PROVE  CanMake(Word, fs, Setup!Place(l))
<1>1. l.path \in Path(Word) /\ l.target \in Path(Word)
  BY DEF Spelled
<1>2. CASE l.sudo /\ Setup!Stat(fs, l.path) = "dir"
  <2> DEFINE d == Setup!Follow(fs, l.path)
             x == Setup!Last(l.target)
  <2>1. Setup!Place(l) = Setup!Join(d, Setup!Base(l.target))
    BY <1>2 DEF Setup!Place
  <2>2. d \in Path(Word) /\ Setup!IsAbs(d) /\ x \in Word /\ x # "/"
        /\ Setup!Join(d, Setup!Base(l.target)) = Append(d, x)
    BY <1>1, <1>2, <2>1, InsideIs
  <2> HIDE DEF d, x
  <2> QED BY <2>1, <2>2, Below DEF CanMake
<1>3. CASE ~(l.sudo /\ Setup!Stat(fs, l.path) = "dir")
  <2>1. Setup!Place(l) = Setup!Entry(fs, l.path)
    BY <1>3 DEF Setup!Place
  <2> QED BY <1>1, <2>1, EntryOnWay DEF CanMake
<1> QED BY <1>2, <1>3

(* The working directory is not made by a job whose path is relative.      *)
LEMMA NotCwd ==
  ASSUME NEW Word, "/" \in Word, "w" \in Word, Tree(Word, fs), NEW l, Spelled(Word, l),
         Setup!Kind(fs, Setup!Place(l)) = "none",
         Setup!Kind(fs, Setup!Parent(Setup!Place(l))) = "dir",
         l.path = <<>> => Setup!Stat(fs, l.path) = "dir",
         ~Setup!IsAbs(l.path)
  PROVE  Setup!Place(l) # Setup!Cwd
<1> SUFFICES ASSUME Setup!Place(l) = Setup!Cwd PROVE FALSE
  OBVIOUS
<1> DEFINE p == l.path
<1>1. p \in Path(Word) /\ Setup!Kind(fs, Setup!Cwd) = "none"
  BY DEF Spelled
<1>2. Setup!Follow(fs, p) \notin DOMAIN fs
  BY <1>1, NothingBelow
<1>3. Setup!Stat(fs, p) # "dir"
  BY <1>1, <1>2, EndFree
<1>4. p # <<>> /\ Setup!Place(l) = Setup!Entry(fs, p)
  BY <1>3 DEF Setup!Place
<1>5. Setup!Abs(p) # Setup!Root
      /\ Setup!Entry(fs, p) = Append(Setup!Follow(fs, Setup!Parent(Setup!Abs(p))), Setup!Last(Setup!Abs(p)))
      /\ Setup!Follow(fs, Setup!Parent(Setup!Abs(p))) \in Path(Word)
      /\ Setup!IsAbs(Setup!Follow(fs, Setup!Parent(Setup!Abs(p))))
      /\ Setup!Last(Setup!Abs(p)) \in Word /\ Setup!Last(Setup!Abs(p)) # "/"
  BY <1>1, <1>4, EntryIs
<1>6. PICK d \in Path(Word) : /\ Setup!Abs(d) = Setup!Parent(Setup!Abs(p))
                              /\ Setup!IsAbs(p) <=> Setup!IsAbs(d)
  BY <1>1, <1>4, <1>5, SplitOff
<1>7. Setup!Follow(fs, d) = Setup!Follow(fs, Setup!Abs(d))
  <2>1. Setup!Abs(Setup!Abs(d)) = Setup!Abs(d)
    BY AbsIsPath DEF Setup!Abs
  <2> QED BY <2>1 DEF Setup!Follow
<1>8. Setup!Follow(fs, d) \notin DOMAIN fs
  BY <1>1, <1>6, NothingBelow
<1>9. Setup!Parent(Setup!Place(l)) = Setup!Follow(fs, d)
  BY <1>4, <1>5, <1>6, <1>7, Below
<1> QED BY <1>8, <1>9, NoNode

(* What it means that a node is added.                                     *)
LEMMA MadeIs ==
  ASSUME NEW Word, NEW f, NEW e, NEW n, NEW g, Made(Word, f, e, n, g)
  PROVE  /\ Tree(Word, g) /\ \A q \in DOMAIN f : q \in DOMAIN g /\ g[q] = f[q]
         /\ e \notin DOMAIN f /\ e \in DOMAIN g /\ g[e] = n
         /\ \A q : q # e => Agree(f, g, q)
         /\ \A q : Setup!Kind(g, q) = "link" => Setup!Kind(f, q) = "link" \/ q = e
BY DEF Made, Agree, Setup!Kind

(* The new link leads to its target, unless it was made inside of the      *)
(* directory that its path leads to.                                       *)
LEMMA MadeLinkLeads ==
  ASSUME NEW Word, AreWritten(Word), SetupInvariant(Word), NEW i \in DOMAIN jobs,
         jobs[i].kind = "link", pc[i] = "ln", pc'[i] = "done", Notes(i), Tracked',
         UNCHANGED <<jobs, before, op>>, errs' = errs, meddled = 0, i \notin errs, Setup!Alone(i)',
         Setup!Kind(fs, Setup!Place(jobs[i].is)) = "none",
         Setup!Kind(fs, Setup!Parent(Setup!Place(jobs[i].is))) = "dir",
         jobs[i].is.path = <<>> => Setup!Stat(fs, jobs[i].is.path) = "dir",
         fs' = Setup!With(fs, Setup!Place(jobs[i].is), Setup!LinkTo(jobs[i].is.target)),
         Made(Word, fs, Setup!Place(jobs[i].is), Setup!LinkTo(jobs[i].is.target), fs')
  PROVE  Leads(i)'
<1> DEFINE l == jobs[i].is
           e == Setup!Place(l)
           p == l.path
           t == l.target
<1> SUFFICES ASSUME Setup!IsAbs(t), ~Setup!Misplaced(l)', Setup!Stat(fs', t) # "missing",
                    Setup!Stat(fs', p) # "error"
             PROVE  Setup!Stat(fs', p) # "missing" /\ Setup!Follow(fs', p) = Setup!Follow(fs', t)
                    /\ Setup!IsAbs(Setup!EvalSymlinks(fs', p))
  BY DEF Leads, Led
<1>1. /\ Tree(Word, fs) /\ "/" \in Word /\ "w" \in Word /\ p \in Path(Word) /\ t \in Path(Word)
      /\ Planned /\ LinksLead /\ Spelled(Word, l)
  BY DEF SetupInvariant, WellWritten, LinkSpelled, AreWritten, Spelled
<1>2. /\ Tree(Word, fs') /\ e \notin DOMAIN fs /\ e \in DOMAIN fs' /\ fs'[e] = Setup!LinkTo(t)
      /\ \A q : q # e => Agree(fs, fs', q)
  BY MadeIs
<1>3. \A r \in touched' : r[2] \notin Setup!Way(fs', t)
                          /\ (r[1] # i => r[2] \notin Setup!Way(fs', p))
  BY DEF Setup!Alone
<1>4. CASE l.sudo /\ Setup!Stat(fs, p) = "dir"
  <2> DEFINE d == Setup!Follow(fs, p)
             x == Setup!Last(t)
  <2>1. e = Setup!Join(d, Setup!Base(t))
    BY <1>4 DEF Setup!Place
  <2>2. d \in Path(Word) /\ Setup!IsAbs(d) /\ x \in Word /\ d \in DOMAIN fs
        /\ Setup!Kind(fs, d) = "dir" /\ e = Append(d, x)
    BY <1>1, <1>4, <2>1, InsideIs
  <2> HIDE DEF e, l, p, t, d, x
  <2>3. e \notin Setup!Way(fs, p)
    BY <1>1, <1>2, <2>2, MissingOffWay DEF d
  <2>4. \A q \in Setup!Way(fs, p) : Agree(fs, fs', q)
    BY <1>2, <2>3
  <2>5. Setup!Way(fs', p) = Setup!Way(fs, p) /\ Setup!Stat(fs', p) = Setup!Stat(fs, p)
    BY <1>1, <2>4, WayKept
  <2>6. e \notin Setup!Way(fs', t)
    <3>1. <<i, e>> \in touched'
      BY <1>2 DEF Notes, Agree
    <3>2. \A a, b : <<a, b>>[2] = b
      OBVIOUS
    <3> QED BY <1>3, <3>1, <3>2
  <2>7. \A q \in Setup!Way(fs', t) : Agree(fs', fs, q)
    BY <1>2, <2>6 DEF Agree
  <2>8. Setup!Way(fs, t) = Setup!Way(fs', t)
    BY <1>1, <1>2, <2>7, WayKept
  <2>9. Setup!Alone(i)
    <3> SUFFICES ASSUME NEW r \in touched
                 PROVE  r[2] \notin Setup!Way(fs, t)
                        /\ (r[1] # i => r[2] \notin Setup!Way(fs, p))
      BY DEF Setup!Alone, l, p, t
    <3>1. r \in touched'
      BY DEF Notes
    <3> QED BY <1>3, <2>5, <2>8, <3>1
  <2>10. Leads(i)
    BY <1>1, <2>9 DEF LinksLead
  <2>11. l.update /\ l.name # <<>>
    BY <1>4, <2>10 DEF Leads, l, p
  <2> QED BY <1>4, <2>5, <2>11 DEF Setup!Misplaced, l, p
<1>5. CASE ~(l.sudo /\ Setup!Stat(fs, p) = "dir")
  <2>1. e = Setup!Entry(fs, p)
    BY <1>5 DEF Setup!Place
  <2>2. p # <<>>
    <3> SUFFICES ASSUME p = <<>> PROVE FALSE
      OBVIOUS
    <3>1. Setup!Stat(fs, p) = "dir"
      OBVIOUS
    <3>2. Setup!Entry(fs, p) \in DOMAIN fs
      BY <1>1, <3>1, EntryThere
    <3> QED BY <1>2, <2>1, <3>2
  <2>3. Setup!IsAbs(p) \/ Setup!Kind(fs', Setup!Cwd) # "link"
    <3> SUFFICES ASSUME ~Setup!IsAbs(p), Setup!Kind(fs', Setup!Cwd) = "link" PROVE FALSE
      OBVIOUS
    <3>1. op # "none"
      BY <1>1, SomeProcess
    <3>2. PICK r \in touched' : r[2] = Setup!Cwd /\ Setup!IsAbs(jobs[r[1]].is.path)
      BY <3>1 DEF Tracked, CwdByAbsolute
    <3>3. r[1] # i
      BY <3>2
    <3>4. Setup!Cwd \notin Setup!Way(fs', p)
      BY <1>3, <3>2, <3>3
    <3> HIDE DEF p, l
    <3> QED BY <1>1, <3>4, CwdOnWay
  <2> HIDE DEF e, p, t, l
  <2>4. Setup!Kind(fs, e) = "none" /\ Setup!Kind(fs, Setup!Parent(e)) = "dir"
        /\ fs' = Setup!With(fs, e, Setup!LinkTo(t)) /\ Setup!IsAbs(t)
        /\ Setup!Stat(fs', p) # "error" /\ Setup!Stat(fs', t) # "missing"
    BY DEF e, l, t, p
  <2>5. Setup!Follow(fs', p) = Setup!Follow(fs', t) /\ Setup!IsAbs(Setup!EvalSymlinks(fs', p))
    BY <1>1, <2>1, <2>2, <2>3, <2>4, NewLinkLeads
  <2>6. Setup!Stat(fs', p) # "missing"
    BY <2>4, <2>5 DEF Setup!Stat
  <2> QED BY <2>5, <2>6
<1> QED BY <1>4, <1>5

-----------------------------------------------------------------------------
(* The link that is made.                                                  *)

(* MakeLink keeps the invariant: a new link leads to its target.           *)
LEMMA MakeLinkGoes ==
  ASSUME NEW Word, AreWritten(Word), SetupInvariant(Word), NEW i, Setup!MakeLink(i)
  PROVE  SetupInvariant(Word)'
<1> DEFINE l == jobs[i].is
           e == Setup!Place(l)
<1>1. Setup!At(i, "link", "ln") /\ Setup!To(i, "done") /\ Setup!Same /\ Setup!Touch(i)
      /\ units' = units
  BY DEF Setup!MakeLink
<1>2. \/ /\ Setup!Kind(fs, e) = "none" /\ Setup!Kind(fs, Setup!Parent(e)) = "dir"
         /\ l.path = <<>> => Setup!Stat(fs, l.path) = "dir"
         /\ fs' = Setup!With(fs, e, Setup!LinkTo(l.target))
         /\ errs' = errs
      \/ errs' = errs \cup {i} /\ fs' = fs
  BY DEF Setup!MakeLink
<1>3. Goes(i, "done") /\ jobs[i].kind = "link" /\ pc[i] = "ln" /\ i \in DOMAIN jobs
      /\ jobs' = jobs /\ before' = before /\ op' = op
  BY <1>1, AtGoes
<1>4. Changes(i, "done")
  BY <1>1, <1>2, <1>3, TouchNotes DEF Changes
<1>5. Tree(Word, fs) /\ Spelled(Word, l) /\ "/" \in Word /\ "w" \in Word
      /\ Planned /\ Setup!NothingOverwritten
  BY <1>3 DEF SetupInvariant, WellWritten, LinkSpelled, AreWritten
<1>6. CASE errs' = errs \cup {i} /\ fs' = fs
  <2>1. Tree(Word, fs)' /\ Setup!NothingOverwritten'
    BY <1>3, <1>5, <1>6, AddedOverwritesNothing
  <2> QED BY <1>4, <1>6, <2>1, ChangesGo
<1>7. CASE /\ Setup!Kind(fs, e) = "none" /\ Setup!Kind(fs, Setup!Parent(e)) = "dir"
           /\ l.path = <<>> => Setup!Stat(fs, l.path) = "dir"
           /\ fs' = Setup!With(fs, e, Setup!LinkTo(l.target))
           /\ errs' = errs
  <2>1. CanMake(Word, fs, e)
    BY <1>5, <1>7, PlaceIs
  <2>2. Node(Word, Setup!LinkTo(l.target))
    BY <1>5 DEF Node, Setup!LinkTo, Spelled
  <2>3. Made(Word, fs, e, Setup!LinkTo(l.target), fs')
    BY <1>7, <2>1, <2>2, TreeWith
  <2>4. /\ Tree(Word, fs') /\ \A q \in DOMAIN fs : q \in DOMAIN fs' /\ fs'[q] = fs[q]
        /\ e \notin DOMAIN fs /\ e \in DOMAIN fs'
        /\ \A q : Setup!Kind(fs', q) = "link" => Setup!Kind(fs, q) = "link" \/ q = e
    BY <2>3, MadeIs
  <2>5. Setup!NothingOverwritten'
    BY <1>3, <1>5, <2>4, AddedOverwritesNothing
  <2>6. ASSUME Setup!Kind(fs', Setup!Cwd) = "link", Setup!Kind(fs, Setup!Cwd) # "link"
        PROVE  <<i, Setup!Cwd>> \in touched' /\ Setup!IsAbs(l.path)
    <3>1. e = Setup!Cwd
      BY <2>4, <2>6
    <3>2. <<i, Setup!Cwd>> \in touched'
      BY <1>4, <2>4, <3>1 DEF Changes, Notes, Agree
    <3>3. Setup!IsAbs(l.path)
      BY <1>5, <1>7, <3>1, NotCwd
    <3> QED BY <3>2, <3>3
  <2>7. meddled = 0 /\ i \notin errs' /\ Setup!Alone(i)' /\ Tracked' => Leads(i)'
    <3>1. pc'[i] = "done" /\ Notes(i)
      BY <1>3, <1>4, <1>5, PlannedGoes DEF Changes
    <3> QED BY <1>3, <1>7, <2>3, <3>1, MadeLinkLeads
  <2>8. Tree(Word, fs)'
    BY <2>4
  <2> QED BY <1>4, <2>5, <2>6, <2>7, <2>8, ChangesGo
<1> QED BY <1>2, <1>6, <1>7

(* The links of a plan are those that are configured.                      *)
LEMMA PlanIs ==
  ASSUME NEW Word, AreWritten(Word), conf \in Settings, NEW o, o # "none"
  PROVE  /\ \A i \in DOMAIN PlanOf(o) :
              /\ PlanOf(o)[i].kind = "link" =>
                   i \in DOMAIN Setup!Links /\ PlanOf(o)[i] = Setup!Links[i]
              /\ PlanOf(o)[i].kind = "service" =>
                   \E k \in DOMAIN conf.services : PlanOf(o)[i].is = conf.services[k]
         /\ \A i \in DOMAIN Setup!Links : /\ i \in DOMAIN PlanOf(o)
                                          /\ PlanOf(o)[i] = Setup!Links[i]
                                          /\ Setup!Links[i].kind = "link"
                                          /\ Spelled(Word, Setup!Links[i].is)
<1> DEFINE A == Setup!Links
           B == Setup!Repos
           C == Setup!Services
           S == {A[i] : i \in DOMAIN A} \cup {B[i] : i \in DOMAIN B} \cup {C[i] : i \in DOMAIN C}
<1>1. IsList(conf.links) /\ IsList(conf.repos) /\ IsList(conf.services)
      /\ \A i \in DOMAIN conf.links : Spelled(Word, Setup!Complete(conf.links[i]))
  BY DEF AreWritten
<1>2. /\ \A i \in DOMAIN A : A[i].kind = "link" /\ Spelled(Word, A[i].is)
      /\ \A i \in DOMAIN B : B[i].kind = "gc"
      /\ \A i \in DOMAIN C : C[i].kind = "service" /\ i \in DOMAIN conf.services
                             /\ C[i].is = conf.services[i]
  BY <1>1 DEF Setup!Links, Setup!Repos, Setup!Services
<1>3. A \in Seq(S)
  <2>1. DOMAIN A = 1 .. Len(conf.links) /\ Len(conf.links) \in Nat
    BY <1>1 DEF IsList, Setup!Links
  <2>2. A = [i \in 1 .. Len(conf.links) |-> A[i]]
    BY <2>1 DEF Setup!Links
  <2> HIDE DEF A
  <2> QED BY <2>1, <2>2
<1>4. B \in Seq(S)
  <2>1. DOMAIN B = 1 .. Len(conf.repos) /\ Len(conf.repos) \in Nat
    BY <1>1 DEF IsList, Setup!Repos
  <2>2. B = [i \in 1 .. Len(conf.repos) |-> B[i]]
    BY <2>1 DEF Setup!Repos
  <2> HIDE DEF B
  <2> QED BY <2>1, <2>2
<1>5. C \in Seq(S)
  <2>1. DOMAIN C = 1 .. Len(conf.services) /\ Len(conf.services) \in Nat
    BY <1>1 DEF IsList, Setup!Services
  <2>2. C = [i \in 1 .. Len(conf.services) |-> C[i]]
    BY <2>1 DEF Setup!Services
  <2> HIDE DEF C
  <2> QED BY <2>1, <2>2
<1>6. PlanOf(o) = IF o = "nightly" THEN A \o B \o C ELSE A
  BY DEF PlanOf
<1> HIDE DEF A, B, C, S
<1>7. A \o B \in Seq(S) /\ (A \o B) \o C \in Seq(S)
      /\ DOMAIN (A \o B) = 1 .. Len(A) + Len(B)
      /\ DOMAIN ((A \o B) \o C) = 1 .. Len(A \o B) + Len(C)
      /\ Len(A \o B) = Len(A) + Len(B) /\ DOMAIN A = 1 .. Len(A) /\ DOMAIN B = 1 .. Len(B)
      /\ DOMAIN C = 1 .. Len(C) /\ Len(A) \in Nat /\ Len(B) \in Nat /\ Len(C) \in Nat
  BY <1>3, <1>4, <1>5, Concat
<1>8. \A i \in 1 .. Len(A) + Len(B) : (A \o B)[i] = IF i <= Len(A) THEN A[i] ELSE B[i - Len(A)]
  BY <1>3, <1>4, Concat
<1>9. \A i \in 1 .. Len(A \o B) + Len(C) :
        ((A \o B) \o C)[i] = IF i <= Len(A \o B) THEN (A \o B)[i] ELSE C[i - Len(A \o B)]
  BY <1>5, <1>7, Concat
<1> DEFINE P == (A \o B) \o C
           a == Len(A)
           b == Len(B)
           c == Len(C)
<1>10. /\ DOMAIN P = 1 .. (a + b) + c /\ a \in Nat /\ b \in Nat /\ c \in Nat
       /\ DOMAIN A = 1 .. a /\ DOMAIN B = 1 .. b /\ DOMAIN C = 1 .. c
       /\ \A i \in 1 .. (a + b) + c :
            P[i] = IF i <= a + b THEN IF i <= a THEN A[i] ELSE B[i - a] ELSE C[i - (a + b)]
  <2>1. \A m, n, k \in Nat : \A i \in 1 .. (m + n) + k : i <= m + n => i \in 1 .. m + n
    OBVIOUS
  <2> QED BY <1>7, <1>8, <1>9, <2>1
<1> HIDE DEF P, a, b, c
<1>11. \A m, n, k \in Nat : \A i \in 1 .. (m + n) + k :
         /\ i <= m => i \in 1 .. m
         /\ ~(i <= m) /\ i <= m + n => i - m \in 1 .. n
         /\ ~(i <= m + n) => i - (m + n) \in 1 .. k
  OBVIOUS
<1>12. \A m, n, k \in Nat : \A i \in 1 .. m : i \in 1 .. (m + n) + k /\ i <= m /\ i <= m + n
  OBVIOUS
<1>13. ASSUME NEW i \in DOMAIN P
       PROVE  \/ i \in DOMAIN A /\ P[i] = A[i]
              \/ \E k \in DOMAIN B : P[i] = B[k]
              \/ \E k \in DOMAIN C : P[i] = C[k]
  BY <1>10, <1>11
<1>14. ASSUME NEW i \in DOMAIN A
       PROVE  i \in DOMAIN P /\ P[i] = A[i]
  BY <1>10, <1>12
<1>15. PlanOf(o) = P \/ PlanOf(o) = A
  BY <1>6 DEF P
<1>16. \A i \in DOMAIN A : i \in DOMAIN PlanOf(o) /\ PlanOf(o)[i] = A[i]
  BY <1>14, <1>15
<1>17. ASSUME NEW i \in DOMAIN PlanOf(o)
       PROVE  /\ PlanOf(o)[i].kind = "link" => i \in DOMAIN A /\ PlanOf(o)[i] = A[i]
              /\ PlanOf(o)[i].kind = "service" =>
                   \E k \in DOMAIN conf.services : PlanOf(o)[i].is = conf.services[k]
  <2>1. CASE PlanOf(o) = A
    BY <1>2, <2>1
  <2>2. CASE PlanOf(o) = P
    BY <1>2, <1>13, <2>2
  <2> QED BY <1>15, <2>1, <2>2
<1> QED BY <1>2, <1>16, <1>17 DEF A

-----------------------------------------------------------------------------
(* Processes, and the user.                                                *)
(* What a link that is done leaves to be done by the next process.         *)
LEMMA SetUpIsLed ==
  ASSUME NEW Word, AreWritten(Word), SetupInvariant(Word), Setup!AllSet,
         Setup!Kind(fs, Setup!Cwd) = "dir", NEW i \in DOMAIN jobs, jobs[i].kind = "link"
  PROVE  AlreadyLed(jobs[i].is)
<1> DEFINE l == jobs[i].is
<1>1. /\ Tree(Word, fs) /\ "/" \in Word /\ "w" \in Word /\ l.path \in Path(Word)
      /\ l.target \in Path(Word) /\ Planned /\ LinksLead
  BY DEF SetupInvariant, WellWritten, LinkSpelled, AreWritten, Spelled
<1>2. /\ meddled = 0 /\ Setup!Alone(i) /\ Setup!IsAbs(l.target) /\ ~Setup!Misplaced(l)
      /\ l.update => Setup!Follow(fs, l.target) = l.target /\ Setup!Stat(fs, l.path) # "error"
      /\ i \notin errs /\ pc[i] = "done"
  BY <1>1 DEF Setup!AllSet, Setup!Plain, Planned
<1>3. Led(l)
  BY <1>1, <1>2 DEF LinksLead, Leads
<1>4. ASSUME Setup!Follow(fs, l.path) = Setup!Follow(fs, l.target), l.update,
             Setup!IsAbs(Setup!EvalSymlinks(fs, l.path))
      PROVE  Setup!EvalSymlinks(fs, l.path) = l.target
  <2>1. Setup!Abs(Setup!EvalSymlinks(fs, l.path)) = Setup!Follow(fs, l.path)
    BY <1>1, RelEval
  <2>2. Setup!Abs(Setup!EvalSymlinks(fs, l.path)) = Setup!EvalSymlinks(fs, l.path)
    BY <1>4 DEF Setup!Abs
  <2> QED BY <1>2, <1>4, <2>1, <2>2
<1> QED BY <1>2, <1>3, <1>4 DEF Led, AlreadyLed

(* Launch keeps the invariant: what the process before has set up stays.   *)
LEMMA LaunchGoes ==
  ASSUME NEW Word, AreWritten(Word), SetupInvariant(Word),
         NEW o \in {"links", "nightly", "discover"}, Setup!Launch(o)
  PROVE  SetupInvariant(Word)'
<1>1. /\ conf \in Settings /\ Tree(Word, fs) /\ meddled \in Nat /\ UnitsSet
      /\ DOMAIN units = {"enabled", "running"} /\ Planned
  BY DEF SetupInvariant, WellWritten, UnitsSet
<1>2. /\ jobs' = PlanOf(o)
      /\ fs' = fs /\ units' = units /\ conf' = conf /\ meddled' = meddled /\ before' = fs
      /\ touched' = {} /\ errs' = {} /\ report' = <<>> /\ op' = o /\ settled' = Setup!AllSet
      /\ Setup!Kind(fs, Setup!Cwd) = "dir"
      /\ result' = IF Setup!Valid THEN "none" ELSE "rejected"
      /\ pc' = [i \in DOMAIN jobs' |-> "waiting"]
  BY DEF Setup!Launch, PlanOf
<1>3. DOMAIN pc' = DOMAIN jobs' /\ \A i \in DOMAIN jobs' : pc'[i] = "waiting"
  BY <1>2
<1> DEFINE J == PlanOf(o)
<1>4. /\ \A i \in DOMAIN J : J[i].kind = "link" => i \in DOMAIN Setup!Links /\ J[i] = Setup!Links[i]
      /\ \A i \in DOMAIN Setup!Links : Spelled(Word, Setup!Links[i].is)
  BY <1>1, PlanIs
<1> HIDE DEF J
<1>5. Setup!Links' = Setup!Links /\ Setup!Repos' = Setup!Repos
      /\ Setup!Services' = Setup!Services
      /\ (StaticallyValid' <=> StaticallyValid) /\ (Setup!ValidDiscovery' <=> Setup!ValidDiscovery)
  BY <1>2 DEF Setup!Links, Setup!Repos, Setup!Services, StaticallyValid, Setup!ValidDiscovery
<1>6. WellWritten(Word)'
  BY <1>1, <1>2, <1>4 DEF WellWritten, LinkSpelled, J
<1>7. Planned'
  <2>1. PlanOf(op)' = PlanOf(o)
    BY <1>2, <1>5 DEF PlanOf
  <2>2. result' # "rejected" => StaticallyValid'
    BY <1>2, <1>5 DEF Setup!Valid, StaticallyValid
  <2>3. result' # "done"
    BY <1>2
  <2> QED BY <1>2, <1>3, <2>1, <2>2, <2>3 DEF Planned
<1>8. Updating' /\ LinksLead'
  BY <1>3 DEF Updating, LinksLead, Leads
<1>9. Tracked'
  BY <1>2 DEF Tracked, Unchanged, Changers, CwdByAbsolute, Agree
<1>10. UnitsSet'
  BY <1>1, <1>2, <1>3 DEF UnitsSet, UnitSet
<1>11. StillSet'
  <2> SUFFICES ASSUME Setup!AllSet, meddled = 0 PROVE StillSet'
    BY <1>2 DEF StillSet
  <2>1. result' = "rejected" => ~Setup!ValidDiscovery'
    <3>1. StaticallyValid
      BY <1>1 DEF Setup!AllSet, Planned
    <3> QED BY <1>2, <1>5, <3>1 DEF Setup!Valid, StaticallyValid
  <2>2. ASSUME NEW i \in DOMAIN jobs', jobs'[i].kind = "link"
        PROVE  Still(i)'
    <3>1. i \in DOMAIN Setup!Links /\ J[i] = Setup!Links[i] /\ jobs' = J
      BY <1>2, <1>4, <2>2 DEF J
    <3>2. jobs = PlanOf(op) /\ op # "none"
      BY <1>1 DEF Planned, Setup!AllSet
    <3>3. i \in DOMAIN jobs /\ jobs[i] = Setup!Links[i] /\ Setup!Links[i].kind = "link"
      BY <1>1, <3>1, <3>2, PlanIs
    <3>4. AlreadyLed(jobs[i].is)
      BY <1>2, <3>3, SetUpIsLed
    <3>5. AlreadyLed(jobs[i].is)'
      BY <1>2, <3>1, <3>3, <3>4 DEF AlreadyLed
    <3> QED BY <1>2, <1>3, <3>5 DEF Still
  <2>3. Reported' /\ errs' \subseteq DOMAIN jobs' /\ fs' = before'
    BY <1>2 DEF Reported
  <2> QED BY <2>1, <2>2, <2>3 DEF StillSet
<1>12. Setup!NothingOverwritten'
  BY <1>2 DEF Setup!NothingOverwritten
<1> QED BY <1>6, <1>7, <1>8, <1>9, <1>10, <1>11, <1>12 DEF SetupInvariant

(* What the user does is known as having been before.                      *)
LEMMA MeddleGoes ==
  ASSUME NEW Word, AreWritten(Word), SetupInvariant(Word), Setup!Meddle
  PROVE  SetupInvariant(Word)'
<1>1. /\ UNCHANGED <<units, touched, conf, op, jobs, report, settled, pc, errs, result>>
      /\ meddled' = meddled + 1 /\ op # "none"
  BY DEF Setup!Meddle, Setup!Idle
<1>2. PICK i, e :
        /\ i \in DOMAIN Setup!Links /\ e = Setup!Entry(fs, Setup!Links[i].is.path)
        /\ \/ /\ Setup!Kind(fs, e) = "none" /\ Setup!Kind(fs, Setup!Parent(e)) = "dir"
              /\ fs' = Setup!With(fs, e, Setup!File) /\ before' = Setup!With(before, e, Setup!File)
           \/ /\ Setup!Kind(fs, e) \in {"file", "link"}
              /\ fs' = Setup!Restrict(fs, DOMAIN fs \ {e})
              /\ before' = Setup!Restrict(before, DOMAIN before \ {e})
  BY DEF Setup!Meddle, Setup!Range
<1>3. /\ conf \in Settings /\ Tree(Word, fs) /\ "/" \in Word /\ "w" \in Word /\ meddled \in Nat
      /\ LinkSpelled(Word) /\ Planned /\ Updating /\ Tracked /\ UnitsSet /\ Setup!NothingOverwritten
  BY DEF SetupInvariant, WellWritten, AreWritten
<1>4. Setup!Links[i].is.path \in Path(Word)
  BY <1>1, <1>2, <1>3, PlanIs DEF Spelled
<1>5. e \in Path(Word) /\ Setup!IsAbs(e)
  BY <1>2, <1>3, <1>4, EntryOnWay
<1>6. Tree(Word, fs')
  <2>1. ASSUME Setup!Kind(fs, e) = "none", Setup!Kind(fs, Setup!Parent(e)) = "dir"
        PROVE  Tree(Word, Setup!With(fs, e, Setup!File))
    <3>1. CanMake(Word, fs, e) /\ Node(Word, Setup!File)
      BY <1>3, <1>5, <2>1 DEF CanMake, Node, Setup!File
    <3> QED BY <3>1, TreeWith DEF Made
  <2>2. ASSUME Setup!Kind(fs, e) \in {"file", "link"}
        PROVE  Tree(Word, Setup!Restrict(fs, DOMAIN fs \ {e}))
    <3>1. e # Setup!Root /\ Setup!Kind(fs, e) # "dir"
      BY <1>3, <2>2 DEF Tree
    <3> QED BY <1>3, <3>1, TreeWithout
  <2> QED BY <1>2, <2>1, <2>2
<1>7. WellWritten(Word)'
  BY <1>1, <1>3, <1>6 DEF WellWritten, LinkSpelled
<1>8. Planned'
  <2>1. PlanOf(op)' = PlanOf(op) /\ (StaticallyValid' <=> StaticallyValid)
    BY <1>1 DEF PlanOf, StaticallyValid, Setup!Links, Setup!Repos, Setup!Services
  <2> QED BY <1>1, <1>3, <2>1 DEF Planned
<1>9. Updating' /\ UnitsSet'
  BY <1>1, <1>3 DEF Updating, UnitsSet, UnitSet, Setup!Contradicted
<1>10. LinksLead' /\ StillSet'
  <2>1. meddled' # 0
    BY <1>1, <1>3
  <2> QED BY <2>1 DEF LinksLead, StillSet
<1>11. Unchanged'
  <2> SUFFICES ASSUME NEW p \in DOMAIN fs' \cup DOMAIN before', \A t \in touched : t[2] # p
               PROVE  Agree(fs', before', p)
    BY <1>1 DEF Unchanged
  <2>1. CASE p = e
    BY <1>2, <2>1 DEF Setup!With, Setup!Restrict, Agree
  <2>2. CASE p # e
    <3>1. p \in DOMAIN fs \cup DOMAIN before
      BY <1>2, <2>2 DEF Setup!With, Setup!Restrict
    <3>2. Agree(fs, before, p)
      BY <1>3, <3>1 DEF Tracked, Unchanged
    <3> QED BY <1>2, <2>2, <3>2 DEF Setup!With, Setup!Restrict, Agree
  <2> QED BY <2>1, <2>2
<1>12. Setup!Kind(fs', Setup!Cwd) = "link" => Setup!Kind(fs, Setup!Cwd) = "link"
  BY <1>2 DEF Setup!With, Setup!Restrict, Setup!Kind, Setup!File
<1>13. Tracked'
  BY <1>1, <1>3, <1>11, <1>12 DEF Tracked, Changers, CwdByAbsolute
<1>14. Setup!NothingOverwritten'
  <2> SUFFICES ASSUME NEW p \in DOMAIN before', ~(p \in DOMAIN fs' /\ fs'[p] = before'[p])
               PROVE  \E k \in DOMAIN jobs :
                        /\ jobs[k].kind = "link" /\ jobs[k].is.update
                        /\ Setup!Last(p) = Setup!Last(Setup!Abs(Setup!Join(jobs[k].is.path, jobs[k].is.name)))
    BY <1>1 DEF Setup!NothingOverwritten
  <2>1. p \in DOMAIN before /\ ~(p \in DOMAIN fs /\ fs[p] = before[p])
    BY <1>2 DEF Setup!With, Setup!Restrict
  <2> QED BY <1>3, <2>1 DEF Setup!NothingOverwritten
<1> QED BY <1>7, <1>8, <1>9, <1>10, <1>13, <1>14 DEF SetupInvariant

-----------------------------------------------------------------------------
(* Setting up as a whole.                                                  *)

(* Every action keeps the invariant.                                       *)
LEMMA SetupStep ==
  ASSUME NEW Word, AreWritten(Word), SetupInvariant(Word), Setup!Next
  PROVE  SetupInvariant(Word)'
<1>1. CASE \E o \in {"links", "nightly", "discover"} : Setup!Launch(o)
  BY <1>1, LaunchGoes
<1>2. CASE \E i \in DOMAIN pc : Setup!Begin(i)
  BY <1>2, BeginGoes
<1>3. CASE \E i \in DOMAIN pc : Setup!CheckTarget(i)
  BY <1>3, CheckTargetGoes
<1>4. CASE \E i \in DOMAIN pc : Setup!CheckPath(i)
  BY <1>4, CheckPathGoes
<1>5. CASE \E i \in DOMAIN pc : Setup!ResolvePath(i)
  BY <1>5, ResolvePathGoes
<1>6. CASE \E i \in DOMAIN pc : Setup!RemoveOld(i)
  BY <1>6, RemoveOldGoes
<1>7. CASE \E i \in DOMAIN pc : Setup!MakeDirs(i)
  BY <1>7, MakeDirsGoes
<1>8. CASE \E i \in DOMAIN pc : Setup!MakeLink(i)
  BY <1>8, MakeLinkGoes
<1>9. CASE \E i \in DOMAIN pc : Setup!Cleanup(i)
  BY <1>9, CleanupGoes
<1>10. CASE \E i \in DOMAIN pc : Setup!FailUnit(i)
  BY <1>10, FailUnitGoes
<1>11. CASE \E i \in DOMAIN pc : Setup!EnableUnit(i)
  BY <1>11, EnableUnitGoes
<1>12. CASE \E i \in DOMAIN pc : Setup!StartUnit(i)
  BY <1>12, StartUnitGoes
<1>13. CASE Setup!Finish
  BY <1>13, FinishGoes
<1>14. CASE Setup!Discover
  BY <1>14, DiscoverGoes
<1>15. CASE Setup!Meddle
  BY <1>15, MeddleGoes
<1> QED
  BY <1>1, <1>2, <1>3, <1>4, <1>5, <1>6, <1>7, <1>8, <1>9, <1>10, <1>11, <1>12, <1>13,
     <1>14, <1>15 DEF Setup!Next, Setup!LinkStep

(* It holds in the beginning.                                              *)
LEMMA SetupBegins ==
  ASSUME NEW Word, AreWritten(Word), Setup!Init
  PROVE  SetupInvariant(Word)
<1>1. /\ fs \in Machines /\ conf \in Settings /\ before = fs /\ touched = {} /\ meddled = 0
      /\ op = "none" /\ jobs = <<>> /\ pc = <<>> /\ errs = {} /\ result = "none" /\ settled = FALSE
      /\ units = [enabled |-> {}, running |-> {}]
  BY DEF Setup!Init
<1>2. WellWritten(Word)
  BY <1>1 DEF WellWritten, LinkSpelled, AreWritten
<1>3. Planned /\ Updating
  BY <1>1 DEF Planned, PlanOf, Updating
<1>4. Tracked
  BY <1>1 DEF Tracked, Unchanged, Changers, CwdByAbsolute, Agree
<1>5. LinksLead /\ UnitsSet /\ StillSet
  BY <1>1 DEF LinksLead, UnitsSet, StillSet
<1>6. Setup!NothingOverwritten
  BY <1>1 DEF Setup!NothingOverwritten
<1> QED BY <1>2, <1>3, <1>4, <1>5, <1>6 DEF SetupInvariant

(* The invariant holds as long as a process sets up a machine.             *)
LEMMA AdminInvariant ==
  Spec => [](command = "admin" => SetupInvariant(STRING))
<1> DEFINE Inv == command = "admin" => SetupInvariant(STRING)
<1>1. Init => Inv
  BY SetupBegins, SetupAssumption DEF Init
<1>2. Inv /\ [Next]_vars => Inv'
  <2> SUFFICES ASSUME Inv, [Next]_vars, command' = "admin" PROVE SetupInvariant(STRING)'
    OBVIOUS
  <2>1. command = "admin" /\ SetupInvariant(STRING)
    BY CommandStays
  <2>2. CASE Admin
    BY <2>1, <2>2, SetupStep, SetupAssumption DEF Admin
  <2>3. CASE UNCHANGED vars
    BY <2>1, <2>3, StutterGoes DEF vars
  <2> QED BY <2>1, <2>2, <2>3 DEF Next, ArchLinux, Gadget
<1> QED BY <1>1, <1>2, PTL DEF Spec

(* "sardis admin" takes nothing away but what an updating link names: the  *)
(* links and directories that it makes replace nothing, in any file system,*)
(* for any settings and number of jobs, whatever the user does meanwhile.  *)
THEOREM AdminOverwritesNothing ==
  Spec => []NothingOverwritten
<1>1. (command = "admin" => SetupInvariant(STRING)) => NothingOverwritten
  BY DEF SetupInvariant, NothingOverwritten
<1>2. Spec => [](command = "admin" => SetupInvariant(STRING))
  BY AdminInvariant
<1> QED BY <1>1, <1>2, PTL

(* When all jobs are done without an error, what each is known to have     *)
(* done adds up to what was configured.                                    *)
LEMMA ConfiguredWhenDone ==
  ASSUME NEW Word, AreWritten(Word), SetupInvariant(Word)
  PROVE  Setup!AsConfiguredWhenDone
<1> SUFFICES ASSUME result = "done", op \in {"links", "nightly"}, meddled = 0
             PROVE  /\ \A i \in DOMAIN jobs :
                         LET l == jobs[i].is
                         IN  /\ jobs[i].kind = "link" /\ Setup!IsAbs(l.target) /\ Setup!Alone(i)
                             /\ ~Setup!Misplaced(l) /\ Setup!Stat(fs, l.target) # "missing"
                             /\ Setup!Stat(fs, l.path) # "error"
                             /\ l.update \/ Setup!Entry(fs, l.path) \notin DOMAIN before
                             => Setup!Follow(fs, l.path) = Setup!Follow(fs, l.target)
                    /\ \A i \in DOMAIN jobs :
                         LET s == jobs[i].is
                         IN  jobs[i].kind = "service" /\ ~Setup!Contradicted(i) =>
                               /\ s.enabled <=> Setup!Unit(s) \in units.enabled
                               /\ s.enabled /\ s.start => Setup!Unit(s) \in units.running
                               /\ s.disabled => Setup!Unit(s) \notin units.running
  BY DEF Setup!AsConfiguredWhenDone
<1>1. /\ Planned /\ LinksLead /\ UnitsSet /\ errs = {} /\ conf \in Settings
      /\ \A i \in DOMAIN jobs : pc[i] = "done"
  BY DEF SetupInvariant, Planned, WellWritten
<1>2. ASSUME NEW i \in DOMAIN jobs, jobs[i].kind = "link", Setup!IsAbs(jobs[i].is.target),
             Setup!Alone(i), ~Setup!Misplaced(jobs[i].is),
             Setup!Stat(fs, jobs[i].is.target) # "missing",
             Setup!Stat(fs, jobs[i].is.path) # "error",
             jobs[i].is.update \/ Setup!Entry(fs, jobs[i].is.path) \notin DOMAIN before
      PROVE  Setup!Follow(fs, jobs[i].is.path) = Setup!Follow(fs, jobs[i].is.target)
  BY <1>1, <1>2 DEF LinksLead, Leads, Led
<1>3. ASSUME NEW i \in DOMAIN jobs, jobs[i].kind = "service", ~Setup!Contradicted(i)
      PROVE  LET s == jobs[i].is
             IN  /\ s.enabled <=> Setup!Unit(s) \in units.enabled
                 /\ s.enabled /\ s.start => Setup!Unit(s) \in units.running
                 /\ s.disabled => Setup!Unit(s) \notin units.running
  <2> DEFINE s == jobs[i].is
  <2>1. UnitSet(i)
    BY <1>1, <1>3 DEF UnitsSet
  <2>2. s.disabled => ~s.enabled
    <3>1. jobs = PlanOf(op) /\ op # "none" /\ StaticallyValid
      BY <1>1 DEF Planned
    <3>2. PICK k \in DOMAIN conf.services : s = conf.services[k]
      BY <1>1, <1>3, <3>1, PlanIs
    <3>3. Setup!ValidService(s)
      BY <3>1, <3>2 DEF StaticallyValid, Setup!Range
    <3>4. s.enabled \in BOOLEAN /\ s.disabled \in BOOLEAN
      BY <1>1, <3>2 DEF AreWritten
    <3> QED BY <3>3, <3>4 DEF Setup!ValidService
  <2> QED BY <1>1, <2>1, <2>2 DEF UnitSet
<1> QED BY <1>2, <1>3

(* "sardis admin" reports no error only when every link whose target is    *)
(* there leads to it, and every service is enabled, disabled, started or   *)
(* stopped as configured: in any file system, for any settings and number  *)
(* of jobs, and however these interleave, unless the user interferes.      *)
THEOREM AdminSetsUp ==
  Spec => []AsConfiguredWhenDone
<1>1. (command = "admin" => SetupInvariant(STRING)) => AsConfiguredWhenDone
  BY ConfiguredWhenDone, SetupAssumption DEF AsConfiguredWhenDone
<1>2. Spec => [](command = "admin" => SetupInvariant(STRING))
  BY AdminInvariant
<1> QED BY <1>1, <1>2, PTL

(* A link that was found leads where its target does.                      *)
LEMMA FoundLeads ==
  ASSUME NEW Word, "/" \in Word, "w" \in Word, NEW f, Tree(Word, f), NEW p \in DOMAIN f,
         f[p].kind = "link", Setup!IsAbs(f[p].to), Setup!Stat(f, p) # "error"
  PROVE  Setup!Follow(f, f[p].to) = Setup!Follow(f, p)
<1> DEFINE to == f[p].to
<1>1. p \in Path(Word) /\ Setup!IsAbs(p) /\ p \in Seq(Word) /\ Len(p) \in Nat /\ p # <<>>
      /\ DOMAIN p = 1 .. Len(p) /\ SubSeq(p, 1, Len(p)) = p
  BY DEF Tree, Path, Setup!IsAbs
<1>2. Len(p) \in DOMAIN p
  BY <1>1
<1>3. Setup!Kind(f, p) = "link" /\ Setup!Abs(p) = p /\ Setup!Abs(to) = to
  BY <1>1 DEF Setup!Kind, Setup!Abs
<1>4. \A n \in DOMAIN p : Setup!Abs(SubSeq(p, 1, n)) = SubSeq(p, 1, n)
  BY <1>1, AbsPart
<1>5. \A n \in 1 .. Len(p) - 1 : Setup!Kind(f, SubSeq(p, 1, n)) = "dir" /\ n \in DOMAIN p
  <2> SUFFICES ASSUME NEW n \in 1 .. Len(p) - 1
               PROVE  Setup!Kind(f, SubSeq(p, 1, n)) = "dir" /\ n \in DOMAIN p
    OBVIOUS
  <2>1. Setup!Kind(f, SubSeq(p, 1, Len(p))) # "none" /\ Len(p) \in 1 .. Len(p)
    BY <1>1, <1>2, <1>3
  <2>2. \A m \in Nat : \A k \in 1 .. m - 1 : k \in 1 .. m
    OBVIOUS
  <2>3. n \in DOMAIN p
    BY <1>1, <2>2
  <2>4. Setup!Kind(f, SubSeq(p, 1, n)) = "dir"
    BY <1>1, <2>1, DirsAbove
  <2> QED BY <2>3, <2>4
<1>6. Setup!LinkAt(f, p, Len(p))
  BY <1>1, <1>2, <1>3, <1>4, <1>5 DEF Setup!LinkAt
<1>7. Setup!Hop(f, p) = to
  <2>1. Setup!Hop(f, p) = Through(f, p, Len(p))
    BY <1>1, <1>6, OneLink
  <2>2. SubSeq(p, Len(p) + 1, Len(p)) = <<>>
    BY <1>1
  <2>3. to \in Seq(Word)
    BY <1>3 DEF Tree, Node, Path
  <2>4. to \o <<>> = to
    BY <2>3
  <2> QED BY <1>1, <1>3, <2>1, <2>2, <2>4 DEF Through
<1> HIDE DEF to
<1>8. Setup!Follow(f, p) = Setup!Hop(f, Setup!Hop(f, to))
  BY <1>3, <1>7 DEF Setup!Follow, Setup!EvalSymlinks
<1>9. Free(f, Setup!Follow(f, p))
  BY <1>1, EndFree
<1>10. Setup!Hop(f, Setup!Follow(f, p)) = Setup!Follow(f, p)
  BY <1>9, FreeStays
<1> QED BY <1>3, <1>8, <1>10 DEF Setup!Follow, Setup!EvalSymlinks, to

(* Nothing has changed, and what is found is what was set up.              *)
LEMMA StaysSetUp ==
  ASSUME NEW Word, AreWritten(Word), SetupInvariant(Word)
  PROVE  Setup!SetUpOnce
<1> SUFFICES ASSUME settled, meddled = 0
             PROVE  /\ fs = before
                    /\ \A i \in errs : jobs[i].kind # "link"
                    /\ result = "rejected" => ~Setup!ValidDiscovery
                    /\ \A i \in DOMAIN report, j \in DOMAIN jobs : \A d \in report[i] :
                         LET l == jobs[j].is
                         IN  d.path = l.path /\ Setup!IsAbs(d.target) /\ l.update
                             /\ Setup!Stat(fs, l.target) # "missing"
                             => d.defined /\ d.exists /\ Setup!Follow(fs, d.target) = l.target
  BY DEF Setup!SetUpOnce
<1>1. /\ fs = before
      /\ result = "rejected" => ~Setup!ValidDiscovery
      /\ \A i \in DOMAIN jobs : jobs[i].kind = "link" => Still(i)
      /\ errs \subseteq DOMAIN jobs /\ Reported
  BY DEF SetupInvariant, StillSet
<1>2. /\ Planned /\ Tree(Word, fs) /\ "/" \in Word /\ "w" \in Word /\ conf \in Settings
  BY DEF SetupInvariant, WellWritten, AreWritten
<1>3. \A i \in errs : jobs[i].kind # "link"
  BY <1>1 DEF Still
<1>4. ASSUME NEW i \in DOMAIN report, NEW j \in DOMAIN jobs, NEW d \in report[i],
             d.path = jobs[j].is.path, Setup!IsAbs(d.target), jobs[j].is.update,
             Setup!Stat(fs, jobs[j].is.target) # "missing"
      PROVE  d.defined /\ d.exists /\ Setup!Follow(fs, d.target) = jobs[j].is.target
  <2> DEFINE l == jobs[j].is
  <2>1. /\ op = "discover" /\ jobs = Setup!Links
        /\ report = [k \in DOMAIN conf.search |->
                       {Setup!Described(p) : p \in Setup!Found(conf.search[k])}]
    BY <1>1, <1>2, <1>4 DEF Reported, Planned, PlanOf
  <2>2. PICK p \in Setup!Found(conf.search[i]) : d = Setup!Described(p)
    BY <1>4, <2>1
  <2>3. p \in DOMAIN fs /\ fs[p].kind = "link"
    BY <2>2 DEF Setup!Found
  <2>4. /\ d.path = p /\ d.target = fs[p].to
        /\ d.exists = (Setup!Stat(fs, fs[p].to) # "missing")
        /\ d.defined = Setup!Defined(p)
    BY <2>2 DEF Setup!Described
  <2>5. jobs[j].kind = "link"
    BY <2>1 DEF Setup!Links
  <2>6. /\ Setup!EvalSymlinks(fs, p) = l.target
        /\ Setup!Stat(fs, p) \notin {"missing", "error"}
    BY <1>1, <1>4, <2>4, <2>5 DEF Still, AlreadyLed
  <2>7. Setup!Follow(fs, p) = l.target
    BY <1>2, <2>3, <2>6 DEF Tree, Setup!Follow, Setup!Abs
  <2>8. Setup!Follow(fs, d.target) = Setup!Follow(fs, p)
    BY <1>2, <1>4, <2>3, <2>4, <2>6, FoundLeads
  <2>9. Setup!Stat(fs, d.target) # "missing"
    BY <2>6, <2>8 DEF Setup!Stat
  <2>10. Setup!Defined(p)
    BY <1>4, <2>1, <2>4 DEF Setup!Defined, Setup!Range
  <2> QED BY <2>4, <2>7, <2>8, <2>9, <2>10
<1> QED BY <1>1, <1>3, <1>4

(* Running "sardis admin" again on a machine that it has set up changes no *)
(* file and no link is an error, for any settings and number of jobs; and  *)
(* what "links discover" then says of configured links is that they are.   *)
THEOREM AdminSetsUpOnce ==
  Spec => []SetUpOnce
<1>1. (command = "admin" => SetupInvariant(STRING)) => SetUpOnce
  BY StaysSetUp, SetupAssumption DEF SetUpOnce
<1>2. Spec => [](command = "admin" => SetupInvariant(STRING))
  BY AdminInvariant
<1> QED BY <1>1, <1>2, PTL

=============================================================================
