---------------------------- MODULE ArchPackages ----------------------------
(***************************************************************************)
(* The packages of an Arch Linux machine (sysmgmt/arch.go and the "arch"   *)
(* operations, operations/arch.go): an index of what is installed, made by *)
(* asking pacman one question after another, is exported or listed; and    *)
(* packages are fetched from the AUR, built and installed by a pool of     *)
(* jobs, while the administrator installs and removes others.              *)
(*                                                                         *)
(* Any command may fail.  pacman answers questions at any time, but only   *)
(* one process at a time can change what is installed, and what comes too  *)
(* early fails.  Definitions marked "Wrong" are bugs with which            *)
(* PROJECT.json shows that the properties can fail.                        *)
(***************************************************************************)
EXTENDS Naturals, Sequences, FiniteSets, SequencesExt

CONSTANTS
  Package,       \* the names of packages
  Native,        \* those that pacman's repositories have
  InAUR,         \* those that the AUR has
  Beginnings,    \* machines: what is installed, and the build directory
  Requests,      \* the operations: what to do, with which names
  Builders,      \* no more jobs than this run at once
  MaxChanges     \* bound: changes that the administrator makes meanwhile

VARIABLES
  installed,   \* packages by why they are installed: "explicit" or "deps"
  build,       \* what the build directory has of a package
  holder,      \* who holds pacman's lock
  task,        \* the operation: kind, names and configured packages
  step,        \* what the process does
  cache,       \* the sets of the index
  faulty,      \* the errors of a discovery were joined into one
  file,        \* the file that is exported to: what was there, nothing, an index
  seen,        \* the packages that a listing shows
  worker,      \* how far the job of each name is
  changes,     \* how often the administrator changed something
  ever,        \* what was true at some moment since the process began
  always       \* and at every one

avars == <<installed, build, holder, task, step, cache, faulty, file, seen,
           worker, changes, ever, always>>

Foreign == Package \ Native
Nobody == 0
Admin == Len(task.names) + 1

-----------------------------------------------------------------------------
(* The answers to the questions of a discovery; ABS names the directories  *)
(* with a PKGBUILD, whoever made them.                                     *)
Questions == {"versions", "explicit", "native", "deps", "foreign", "abs"}

Answer(q, inst, dirs) ==
  CASE q = "versions" -> DOMAIN inst
    [] q = "explicit" -> {p \in DOMAIN inst : inst[p] = "explicit"}
    [] q = "native"   -> DOMAIN inst \cap Native
    [] q = "deps"     -> {p \in DOMAIN inst : inst[p] = "deps"}
    [] q = "foreign"  -> DOMAIN inst \cap Foreign
    [] q = "abs"      -> {p \in Package : dirs[p] \in {"clone", "remote"}}

Facts(inst, dirs) == [q \in Questions |-> Answer(q, inst, dirs)]

Init ==
  /\ \E b \in Beginnings : installed = b.installed /\ build = b.build
  /\ task \in Requests
  /\ holder = Nobody /\ step = "begin"
  /\ cache = [q \in Questions |-> {}]
  /\ faulty = FALSE /\ file = [old |-> TRUE] /\ seen = {}
  /\ worker = [i \in DOMAIN task.names |-> "waiting"]
  /\ changes = 0
  /\ ever = Facts(installed, build) /\ always = ever

(* Facts that stop or begin to be true.                                    *)
Noted(inst, dirs) ==
  LET now == Facts(inst, dirs)
  IN  /\ ever' = [q \in Questions |-> ever[q] \cup now[q]]
      /\ always' = [q \in Questions |-> always[q] \cap now[q]]

Host == <<installed, build, holder, changes, ever, always>>

-----------------------------------------------------------------------------
(* doDiscovery: every question is asked whatever became of the others, but *)
(* the build directory is searched only when the foreign packages are      *)
(* known, of which it must be one.                                         *)
After(q) ==
  CASE q = "versions" -> "explicit" [] q = "explicit" -> "native"
    [] q = "native" -> "deps"       [] q = "deps" -> "foreign"
    [] q = "foreign" -> "abs"       [] q = "abs" -> "indexed"

(* Wrong: the build directory is searched for what is installed, whether   *)
(* it came from there or not.                                              *)
CollectAny ==
  /\ step \in Questions
  /\ cache' = [cache EXCEPT ![step] =
                @ \cup (Answer(step, installed, build)
                          \cap IF step = "abs" THEN cache["versions"] ELSE Package)]
  /\ step' = After(step)
  /\ UNCHANGED <<Host, task, faulty, file, seen, worker>>

Collect ==
  /\ step \in Questions
  /\ cache' = [cache EXCEPT ![step] =
                @ \cup (Answer(step, installed, build)
                          \cap IF step = "abs" THEN cache["foreign"] ELSE Package)]
  /\ step' = After(step)
  /\ UNCHANGED <<Host, task, faulty, file, seen, worker>>

CollectFails ==
  /\ step \in Questions
  /\ faulty' = TRUE
  /\ step' = IF step = "foreign" THEN "indexed" ELSE After(step)
  /\ UNCHANGED <<Host, task, cache, file, seen, worker>>

(* "arch export": the file is emptied before the discovery begins.  Its    *)
(* name decides only whether it is accepted: what is written is YAML.      *)
ExportBegins ==
  /\ step = "begin" /\ task.kind = "export"
  /\ \/ step' = "error" /\ UNCHANGED file
     \/ step' = "versions" /\ file' = [empty |-> TRUE]
  /\ UNCHANGED <<Host, task, cache, faulty, seen, worker>>

(* Export: the index, made once.                                           *)
Index ==
  [ABS |-> cache["abs"], AUR |-> cache["foreign"],
   DEP |-> cache["deps"], USR |-> cache["explicit"]]

(* It is written without its dependencies.                                 *)
Export ==
  /\ step = "indexed" /\ task.kind = "export"
  /\ \/ step' = "error" /\ UNCHANGED file
     \/ ~faulty /\ step' = "done" /\ file' = [Index EXCEPT !.DEP = {}]
  /\ UNCHANGED <<Host, task, cache, faulty, seen, worker>>

(* "admin hack pkg": ResolvePackages keeps its errors to itself.           *)
ListBegins ==
  /\ step = "begin" /\ task.kind = "list"
  /\ step' = "versions"
  /\ UNCHANGED <<Host, task, cache, faulty, file, seen, worker>>

(* populatePackage, for what is installed and then what is configured.     *)
Populate(p) ==
  [name |-> p, installed |-> p \in cache["versions"],
   dist |-> p \in cache["native"], aur |-> p \in cache["foreign"],
   abs  |-> p \in cache["abs"],
   noABS |-> p \notin cache["native"] /\ p \notin cache["abs"]]

ListPackages ==
  /\ step = "indexed" /\ task.kind = "list"
  /\ seen' = {Populate(p) : p \in cache["versions"] \cup Range(task.names)}
  /\ step' = "done"
  /\ UNCHANGED <<Host, task, cache, faulty, file, worker>>

-----------------------------------------------------------------------------
(* The jobs.  A job of "install" and "setup" fetches and then builds, and  *)
(* building fetches again.  Setup begins with a job for all packages that  *)
(* are configured as pacman's, and ends with the first error; the others   *)
(* go on.                                                                  *)
Works == {"fetch", "build", "install", "setup"}

JobsBegin ==
  /\ step = "begin" /\ task.kind \in Works
  /\ step' = "pool"
  /\ UNCHANGED <<Host, task, cache, faulty, file, seen, worker>>

Busy == {i \in DOMAIN worker : worker[i] \notin {"waiting", "done", "error"}}
Failed == {i \in DOMAIN worker : worker[i] = "error"}

Name(i) == task.names[i]

To(i, where) == worker' = [worker EXCEPT ![i] = where]

Job == UNCHANGED <<task, step, cache, faulty, file, seen>>

BeginJob(i) ==
  /\ step = "pool" /\ worker[i] = "waiting"
  /\ \A k \in 1 .. i - 1 : worker[k] # "waiting"
  /\ task.kind = "setup" => Failed = {}
  /\ Cardinality(Busy) < Builders
  /\ To(i, IF Name(i) = "sync" THEN "sync"
           ELSE IF task.kind = "build" THEN "fetch again" ELSE "fetch")
  /\ Job /\ UNCHANGED Host

Fetching(i) == worker[i] \in {"fetch", "fetch again"}

Fetched(i) ==
  IF worker[i] \in {"fetch again", "clone again"} THEN "check"
  ELSE IF task.kind = "fetch" THEN "done" ELSE "fetch again"

(* FetchJob: clones what has no directory, which gives the remote another  *)
(* name than the one that is pulled from.                                  *)
CloneMissing(i) ==
  /\ Fetching(i) /\ build[Name(i)] = "none"
  /\ To(i, IF worker[i] = "fetch" THEN "clone" ELSE "clone again")
  /\ Job /\ UNCHANGED Host

Pull(i) ==
  /\ Fetching(i) /\ build[Name(i)] = "remote"
  /\ To(i, Fetched(i))
  /\ Job /\ UNCHANGED Host

(* A name that the AUR does not have can be cloned, and is empty.          *)
Clone(i) ==
  /\ worker[i] \in {"clone", "clone again"} /\ build[Name(i)] = "none"
  /\ build' = [build EXCEPT ![Name(i)] = IF Name(i) \in InAUR THEN "clone" ELSE "empty"]
  /\ To(i, Fetched(i))
  /\ Noted(installed, build')
  /\ Job /\ UNCHANGED <<installed, holder, changes>>

(* CloneJob: another job has made the directory, from which to pull.       *)
CloneExists(i) ==
  /\ worker[i] \in {"clone", "clone again"} /\ build[Name(i)] # "none"
  /\ To(i, IF worker[i] = "clone" THEN "fetch" ELSE "fetch again")
  /\ Job /\ UNCHANGED Host

(* Wrong: builds whatever there is.                                        *)
CheckNothing(i) ==
  /\ worker[i] = "check"
  /\ To(i, "makepkg")
  /\ Job /\ UNCHANGED Host

CheckBuild(i) ==
  /\ worker[i] = "check"
  /\ To(i, IF build[Name(i)] = "none" \/ build[Name(i)] = "empty" THEN "error" ELSE "makepkg")
  /\ Job /\ UNCHANGED Host

(* makepkg --install, and pacman --sync, have to get the lock at once.     *)
Lock(i) ==
  /\ worker[i] \in {"makepkg", "sync"} /\ holder = Nobody
  /\ holder' = i
  /\ To(i, IF worker[i] = "sync" THEN "syncing" ELSE "installing")
  /\ Job /\ UNCHANGED <<installed, build, changes, ever, always>>

(* What else is needed is installed with the packages.                     *)
Installed(i, packages) ==
  /\ \E needed \in SUBSET (Native \ (DOMAIN installed \cup packages)) :
       installed' = [p \in DOMAIN installed \cup packages \cup needed |->
                      IF p \in DOMAIN installed THEN installed[p]
                      ELSE IF p \in needed THEN "deps" ELSE "explicit"]
  /\ holder' = Nobody
  /\ To(i, "done")
  /\ Noted(installed', build)
  /\ Job /\ UNCHANGED <<build, changes>>

BuildPackage(i) == worker[i] = "installing" /\ Installed(i, {Name(i)})

(* RepoPackages, which the configuration says pacman has: pacman installs  *)
(* all of them, or none when it does not know one.                         *)
InstallPackages(i) ==
  /\ worker[i] = "syncing"
  /\ task.dist \subseteq Native
  /\ Installed(i, task.dist)

(* A command fails, a remote or a lock cannot be had.                      *)
Fail(i) ==
  /\ worker[i] \notin {"waiting", "check", "done", "error"}
  /\ To(i, "error")
  /\ holder' = IF holder = i THEN Nobody ELSE holder
  /\ Job /\ UNCHANGED <<installed, build, changes, ever, always>>

Finish ==
  /\ step = "pool" /\ Busy = {}
  /\ \/ \A i \in DOMAIN worker : worker[i] # "waiting"
     \/ task.kind = "setup" /\ Failed # {}
  /\ step' = IF Failed = {} THEN "done" ELSE "error"
  /\ UNCHANGED <<Host, task, cache, faulty, file, seen, worker>>

-----------------------------------------------------------------------------
(* The administrator, who has the lock for a moment.                       *)
Change ==
  /\ changes < MaxChanges /\ step \notin {"done", "error"}
  /\ holder = Nobody
  /\ \/ \E p \in Package \ DOMAIN installed, why \in {"explicit", "deps"} :
          installed' = [q \in DOMAIN installed \cup {p} |->
                         IF q = p THEN why ELSE installed[q]]
     \/ \E p \in DOMAIN installed :
          installed' = [q \in DOMAIN installed \ {p} |-> installed[q]]
  /\ changes' = changes + 1
  /\ Noted(installed', build)
  /\ UNCHANGED <<build, holder, task, step, cache, faulty, file, seen, worker>>

JobStep(i) ==
  \/ BeginJob(i) \/ CloneMissing(i) \/ Pull(i) \/ Clone(i) \/ CloneExists(i)
  \/ CheckBuild(i) \/ Lock(i) \/ BuildPackage(i) \/ InstallPackages(i) \/ Fail(i)

Next ==
  \/ Collect \/ CollectFails
  \/ ExportBegins \/ Export \/ ListBegins \/ ListPackages
  \/ JobsBegin \/ (\E i \in DOMAIN worker : JobStep(i)) \/ Finish
  \/ Change

Spec == Init /\ [][Next]_avars

-----------------------------------------------------------------------------
(* A package is exported as what it was at some moment of the discovery,   *)
(* and is exported if it was that all the time, though others come and go  *)
(* between the questions; a failed discovery exports nothing; and a        *)
(* listing without a failed command says of what stayed what it is.        *)
IndexIsTrue ==
  /\ "USR" \in DOMAIN file =>
       /\ ~faulty /\ file.DEP = {}
       /\ always["explicit"] \subseteq file.USR /\ file.USR \subseteq ever["explicit"]
       /\ always["foreign"] \subseteq file.AUR /\ file.AUR \subseteq ever["foreign"]
       /\ always["foreign"] \cap always["abs"] \subseteq file.ABS
       /\ file.ABS \subseteq ever["foreign"] \cap ever["abs"]
  /\ ~faulty =>
       \A x \in seen : x.name \in always["versions"] =>
         /\ x.installed
         /\ x.dist <=> x.name \in Native
         /\ x.aur <=> x.name \notin Native
         /\ x.noABS <=> x.name \notin Native \cup ever["abs"]

(* When building, installing or setting up reports no error, and nobody    *)
(* else changed anything, then every package is installed, those of the    *)
(* AUR from a PKGBUILD that the AUR has, whatever the jobs did at the same *)
(* time and for the same name.                                             *)
InstalledWhenDone ==
  step = "done" /\ task.kind \in Works \ {"fetch"} /\ changes = 0 =>
    \A i \in DOMAIN worker :
      IF Name(i) = "sync" THEN task.dist \subseteq DOMAIN installed
      ELSE Name(i) \in DOMAIN installed /\ build[Name(i)] \in {"clone", "remote"}

=============================================================================
