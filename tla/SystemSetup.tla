---------------------------- MODULE SystemSetup ----------------------------
(***************************************************************************)
(* Setting a machine up (operations/admin.go): "admin links" makes the     *)
(* configured symbolic links (sysmgmt/links.go), "admin nightly" does this *)
(* and cleans repositories up and sets services (sysmgmt/systemd.go), and  *)
(* "links discover" lists links that exist (sysmgmt/discovery.go).  The    *)
(* jobs run in a pool; each looks at the file system, decides, and acts on *)
(* a file system that other jobs and the user may have changed.            *)
(*                                                                         *)
(* A path is the sequence of its words, "/" being the first of an absolute *)
(* one; <<>> is "." and Blank the empty string.  Paths are as they are     *)
(* when ~ and {{hostname}} have been expanded.  Definitions marked "Wrong" *)
(* are bugs with which PROJECT.json shows that the properties can fail.    *)
(***************************************************************************)
EXTENDS Naturals, Sequences, FiniteSets, SequencesExt

CONSTANTS
  Machines,     \* the file systems to begin with
  Settings,     \* the configurations: links, services, repositories, discovery
  Workers,      \* no more jobs than this run at once
  MaxLaunches,  \* bound: processes that are run one after another
  MaxMeddling   \* bound: changes that the user makes beside them

VARIABLES
  fs,        \* what exists: functions from absolute paths to nodes
  units,     \* the services that are enabled, and those that run
  conf,      \* System: its Links and Services, and the repositories
  op,        \* what the process does
  jobs,      \* the workers, in order
  pc,        \* how far each of them is
  errs,      \* those that collected an error
  result,    \* how the process ended
  report,    \* what a discovery found
  launches,  \* how many processes there were
  meddled,   \* how often the user changed something
  before,    \* what existed when the process began, and what the user put since
  touched,   \* which job of the process changed what
  settled    \* the process before had set all up, with no job in another's way

vars == <<fs, units, conf, op, jobs, pc, errs, result, report, launches,
          meddled, before, touched, settled>>

-----------------------------------------------------------------------------
(* The file system.                                                        *)

Blank == <<"">>
Root == <<"/">>
Cwd == <<"/", "w">>
File == [kind |-> "file"]
Dir == [kind |-> "dir"]
LinkTo(p) == [kind |-> "link", to |-> p]

IsAbs(p) == p # <<>> /\ p[1] = "/"
Abs(p) == IF IsAbs(p) THEN p ELSE Cwd \o p
Join(p, q) == p \o IF IsAbs(q) THEN Tail(q) ELSE q
Parent(p) == IF p = <<>> \/ p = Root THEN p ELSE Front(p)
Base(p) == IF p = <<>> \/ p = Root THEN p ELSE <<Last(p)>>

With(f, p, n) == [q \in DOMAIN f \cup {p} |-> IF q = p THEN n ELSE f[q]]

Kind(f, p) == IF p \in DOMAIN f THEN f[p].kind ELSE "none"

LinkAt(f, p, n) ==
  /\ n \in DOMAIN p /\ Kind(f, Abs(SubSeq(p, 1, n))) = "link"
  /\ \A k \in 1 .. n - 1 : Kind(f, Abs(SubSeq(p, 1, k))) # "link"

(* Follows the first link on the way; a relative one from where it is.     *)
Hop(f, p) ==
  IF \E n \in DOMAIN p : LinkAt(f, p, n)
  THEN LET n == CHOOSE n \in DOMAIN p : LinkAt(f, p, n)
           to == f[Abs(SubSeq(p, 1, n))].to
       IN  (IF IsAbs(to) THEN to ELSE SubSeq(p, 1, n - 1) \o to)
             \o SubSeq(p, n + 1, Len(p))
  ELSE p

(* More than three links on the way are a loop.  EvalSymlinks leaves a     *)
(* relative path relative until it has met an absolute link.               *)
EvalSymlinks(f, p) == Hop(f, Hop(f, Hop(f, p)))

Follow(f, p) == EvalSymlinks(f, Abs(p))

(* os.Stat: an error is not the same as missing.                           *)
Stat(f, p) ==
  LET q == Follow(f, p)
  IN  IF \/ \E n \in DOMAIN q : Kind(f, SubSeq(q, 1, n)) = "link"
         \/ \E n \in 1 .. Len(q) - 1 : Kind(f, SubSeq(q, 1, n)) = "file"
      THEN "error"
      ELSE IF Kind(f, q) = "none" THEN "missing" ELSE Kind(f, q)

(* What rm and symlink act on: the entry itself, not where it leads to.    *)
Entry(f, p) ==
  IF Abs(p) = Root THEN Root ELSE Append(Follow(f, Parent(Abs(p))), Last(Abs(p)))

-----------------------------------------------------------------------------
(* LinkDefinition.Validate: a name without which there is the path's       *)
(* directory, a path without which there is the name's last word.          *)
Complete(l) ==
  LET name == IF l.name = Blank THEN Parent(l.path) ELSE l.name
  IN  IF l.path = Blank
      THEN [l EXCEPT !.path = Base(name), !.name = Parent(name)]
      ELSE [l EXCEPT !.name = name]

ValidService(s) == s.user # s.system /\ s.enabled # s.disabled

ValidDiscovery == \A p \in Range(conf.search) : Stat(fs, p) = "dir"

(* Of a link only the target is ever found missing.                        *)
Valid ==
  /\ \A l \in Range(conf.links) : l.target # Blank
  /\ \A s \in Range(conf.services) : ValidService(s)
  /\ ValidDiscovery

Links == [i \in DOMAIN conf.links |-> [kind |-> "link", is |-> Complete(conf.links[i])]]
Repos == [i \in DOMAIN conf.repos |-> [kind |-> "gc", is |-> conf.repos[i]]]
Services == [i \in DOMAIN conf.services |-> [kind |-> "service", is |-> conf.services[i]]]

-----------------------------------------------------------------------------
Init ==
  /\ fs \in Machines
  /\ conf \in Settings
  /\ units = [enabled |-> {}, running |-> {}]
  /\ op = "none" /\ jobs = <<>> /\ pc = <<>> /\ errs = {} /\ result = "none"
  /\ report = <<>> /\ launches = 0 /\ meddled = 0 /\ before = fs /\ touched = {}
  /\ settled = FALSE

Machine == <<fs, units, touched>>
Process == <<op, jobs, conf, report, before, settled, launches>>

Idle == op = "none" \/ result # "none"

-----------------------------------------------------------------------------
(* What it takes to know what a link will be.                              *)

(* All that is looked at to find out where a path leads.                   *)
Way(f, p) ==
  UNION {{SubSeq(q, 1, n) : n \in DOMAIN q} :
    q \in {Abs(p), Hop(f, Abs(p)), Hop(f, Hop(f, Abs(p))), Follow(f, p)}}

(* Nothing was changed on the way to its target, and by no other job on    *)
(* the way to its path.                                                    *)
Alone(i) ==
  LET l == jobs[i].is
  IN  \A t \in touched : /\ t[2] \notin Way(fs, l.target)
                         /\ t[1] # i => t[2] \notin Way(fs, l.path)

(* With sudo, what was removed may have been another entry, in a directory *)
(* that the path leads to; the new link is then made in that directory.    *)
Misplaced(l) == l.sudo /\ l.update /\ l.name # <<>> /\ Stat(fs, l.path) = "dir"

(* An updating link is made again each time if its target is not spelled   *)
(* as EvalSymlinks does.                                                   *)
Plain(l) ==
  /\ IsAbs(l.target) /\ ~Misplaced(l)
  /\ l.update => Follow(fs, l.target) = l.target /\ Stat(fs, l.path) # "error"

AllSet ==
  /\ op \in {"links", "nightly"} /\ result = "done" /\ meddled = 0
  /\ \A i \in DOMAIN jobs : jobs[i].kind = "link" => Alone(i) /\ Plain(jobs[i].is)

-----------------------------------------------------------------------------
(* A process, which is in a directory.                                     *)
Launch(o) ==
  /\ Idle /\ launches < MaxLaunches /\ Kind(fs, Cwd) = "dir"
  /\ op' = o
  /\ jobs' = IF o = "nightly" THEN Links \o Repos \o Services ELSE Links
  /\ pc' = [i \in DOMAIN jobs' |-> "waiting"]
  /\ errs' = {} /\ report' = <<>> /\ before' = fs /\ touched' = {}
  /\ launches' = launches + 1
  /\ settled' = AllSet
  /\ result' = IF Valid THEN "none" ELSE "rejected"
  /\ UNCHANGED <<fs, units, conf, meddled>>

Busy == {i \in DOMAIN pc : pc[i] \notin {"waiting", "done"}}

(* The pool takes jobs in order until one has failed.                      *)
Begin(i) ==
  /\ ~Idle /\ op \in {"links", "nightly"}
  /\ pc[i] = "waiting" /\ \A k \in 1 .. i - 1 : pc[k] # "waiting"
  /\ errs \cap {k \in DOMAIN pc : pc[k] = "done"} = {}
  /\ Cardinality(Busy) < Workers
  /\ pc' = [pc EXCEPT ![i] = "begun"]
  /\ UNCHANGED <<Machine, Process, errs, result, meddled>>

Finish ==
  /\ ~Idle /\ op \in {"links", "nightly"}
  /\ Busy = {}
  /\ errs # {} \/ \A i \in DOMAIN pc : pc[i] = "done"
  /\ result' = IF errs = {} THEN "done" ELSE "error"
  /\ UNCHANGED <<Machine, Process, pc, errs, meddled>>

At(i, kind, where) == i \in DOMAIN jobs /\ jobs[i].kind = kind /\ pc[i] = where

To(i, where) == pc' = [pc EXCEPT ![i] = where]

Same == UNCHANGED <<Process, result, meddled>>

-----------------------------------------------------------------------------
(* CreateLinkJob                                                           *)

CheckTarget(i) ==
  /\ At(i, "link", "begun")
  /\ To(i, IF Stat(fs, jobs[i].is.target) = "missing" THEN "done" ELSE "path")
  /\ Same /\ UNCHANGED <<Machine, errs>>

CheckPath(i) ==
  /\ At(i, "link", "path")
  /\ LET l == jobs[i].is
     IN  To(i, IF Stat(fs, l.path) = "missing" THEN "make"
               ELSE IF ~l.update THEN "done" ELSE "resolve")
  /\ Same /\ UNCHANGED <<Machine, errs>>

(* Wrong: looks at where the link itself is, not at where it leads to.     *)
ResolveEntry(i) ==
  /\ At(i, "link", "resolve")
  /\ To(i, IF Entry(fs, jobs[i].is.path) = jobs[i].is.target THEN "done" ELSE "remove")
  /\ Same /\ UNCHANGED <<Machine, errs>>

(* EvalSymlinks, and the comparison with the target as it is spelled.      *)
ResolvePath(i) ==
  /\ At(i, "link", "resolve")
  /\ LET l == jobs[i].is
     IN  IF Stat(fs, l.path) \in {"error", "missing"}
         THEN To(i, "done") /\ errs' = errs \cup {i}
         ELSE /\ To(i, IF EvalSymlinks(fs, l.path) = l.target THEN "done" ELSE "remove")
              /\ UNCHANGED errs
  /\ Same /\ UNCHANGED Machine

Removable(e) ==
  /\ e \in DOMAIN fs /\ e # Root
  /\ fs[e].kind = "dir" => \A p \in DOMAIN fs : p # e => ~IsPrefix(e, p)

Touch(i) ==
  touched' = touched \cup
    {<<i, p>> : p \in {p \in DOMAIN fs \cup DOMAIN fs' :
                        ~(p \in DOMAIN fs \cap DOMAIN fs' /\ fs[p] = fs'[p])}}

(* The path itself only if the name is ".", and never "."; rm removes no   *)
(* directory, os.Remove an empty one.  What the job does next does not     *)
(* depend on whether this was possible.                                    *)
RemoveOld(i) ==
  /\ At(i, "link", "remove")
  /\ LET dst == Join(jobs[i].is.path, jobs[i].is.name)
         e == Entry(fs, dst)
     IN  \/ /\ dst # <<>> /\ Removable(e)
            /\ jobs[i].is.sudo => fs[e].kind # "dir"
            /\ fs' = Restrict(fs, DOMAIN fs \ {e})
            /\ UNCHANGED errs
         \/ errs' = errs \cup {i} /\ UNCHANGED fs
  /\ To(i, "make") /\ Touch(i)
  /\ Same /\ UNCHANGED units

(* What a link leads to is not made when it is missing.                    *)
Dangles(p) ==
  \E n \in DOMAIN p : LET q == SubSeq(p, 1, n)
                      IN  Kind(fs, Entry(fs, q)) = "link" /\ Stat(fs, q) = "missing"

(* The target's directory, if it is gone, and what is missing above it;    *)
(* the path's is not made.  With sudo the commands end at the first error. *)
MakeDirs(i) ==
  /\ At(i, "link", "make")
  /\ LET parent == Parent(Abs(jobs[i].is.target))
         dir == Follow(fs, parent)
     IN  IF Stat(fs, parent) # "missing" THEN To(i, "ln") /\ UNCHANGED <<fs, errs>>
         ELSE \E n \in 0 .. Len(dir) :
                /\ n > 0 => ~Dangles(parent)
                /\ fs' = [p \in DOMAIN fs \cup {SubSeq(dir, 1, k) : k \in 1 .. n} |->
                            IF p \in DOMAIN fs THEN fs[p] ELSE Dir]
                /\ IF n = Len(dir) THEN To(i, "ln") /\ UNCHANGED errs
                   ELSE /\ errs' = errs \cup {i}
                        /\ To(i, IF jobs[i].is.sudo THEN "done" ELSE "ln")
  /\ Touch(i) /\ Same /\ UNCHANGED units

(* "ln", which sudo runs, makes a link inside of a directory in the way.   *)
Place(l) ==
  IF l.sudo /\ Stat(fs, l.path) = "dir"
  THEN Join(Follow(fs, l.path), Base(l.target)) ELSE Entry(fs, l.path)

(* Wrong: an entry in the way is overwritten.                              *)
ForceLink(i) ==
  /\ At(i, "link", "ln")
  /\ LET l == jobs[i].is
     IN  fs' = With(fs, Entry(fs, l.path), LinkTo(l.target))
  /\ To(i, "done") /\ Touch(i)
  /\ Same /\ UNCHANGED <<units, errs>>

(* Wrong: that the link could not be made is no error.                     *)
MakeQuietly(i) ==
  /\ At(i, "link", "ln")
  /\ LET e == Entry(fs, jobs[i].is.path)
     IN  fs' = IF Kind(fs, e) # "none" THEN fs ELSE With(fs, e, LinkTo(jobs[i].is.target))
  /\ To(i, "done") /\ Touch(i)
  /\ Same /\ UNCHANGED <<units, errs>>

(* No link is ever made at ".".                                            *)
MakeLink(i) ==
  /\ At(i, "link", "ln")
  /\ LET l == jobs[i].is
         e == Place(l)
     IN  \/ /\ Kind(fs, e) = "none" /\ Kind(fs, Parent(e)) = "dir"
            /\ l.path = <<>> => Stat(fs, l.path) = "dir"
            /\ fs' = With(fs, e, LinkTo(l.target))
            /\ UNCHANGED errs
         \/ errs' = errs \cup {i} /\ UNCHANGED fs
  /\ To(i, "done") /\ Touch(i)
  /\ Same /\ UNCHANGED units

-----------------------------------------------------------------------------
(* CleanupJob: git gc and git prune, in a path that must exist.            *)
Cleanup(i) ==
  /\ At(i, "gc", "begun")
  /\ To(i, "done")
  /\ \/ jobs[i].is.exists /\ UNCHANGED errs
     \/ errs' = errs \cup {i}
  /\ Same /\ UNCHANGED Machine

(* SystemdService.Worker: enable and start, or disable and stop; the       *)
(* second is not run when the first failed.                                *)
Unit(s) == <<s.system, s.unit>>

FailUnit(i) ==
  /\ At(i, "service", "begun") \/ At(i, "service", "start")
  /\ errs' = errs \cup {i} /\ To(i, "done")
  /\ Same /\ UNCHANGED Machine

EnableUnit(i) ==
  /\ At(i, "service", "begun")
  /\ LET s == jobs[i].is
     IN  /\ units' = [units EXCEPT !.enabled =
                       IF s.enabled THEN @ \cup {Unit(s)} ELSE @ \ {Unit(s)}]
         /\ To(i, IF s.enabled /\ ~s.start THEN "done" ELSE "start")
  /\ Same /\ UNCHANGED <<fs, touched, errs>>

StartUnit(i) ==
  /\ At(i, "service", "start")
  /\ LET s == jobs[i].is
     IN  units' = [units EXCEPT !.running =
                    IF s.enabled THEN @ \cup {Unit(s)} ELSE @ \ {Unit(s)}]
  /\ To(i, "done")
  /\ Same /\ UNCHANGED <<fs, touched, errs>>

-----------------------------------------------------------------------------
(* FindLinks: the links below a search path that are not ignored.  Targets *)
(* are as they are written, so whether one exists is asked of the working  *)
(* directory.                                                              *)
Starts(p, prefixes) == \E q \in prefixes : IsPrefix(q, p)

Found(s) ==
  {p \in DOMAIN fs :
    /\ IsPrefix(s, p) /\ fs[p].kind = "link"
    /\ ~Starts(p, conf.ignore) /\ ~Starts(fs[p].to, conf.ignoreTargets)
    /\ IF Stat(fs, fs[p].to) = "missing" THEN ~conf.skipMissing ELSE ~conf.skipResolved}

Defined(p) == \E l \in Range(Links) : l.is.path = p

Described(p) ==
  [path    |-> p,
   target  |-> fs[p].to,
   exists  |-> Stat(fs, fs[p].to) # "missing",
   defined |-> Defined(p)]

(* A link below two search paths is found twice.                           *)
Discover ==
  /\ ~Idle /\ op = "discover"
  /\ report' = [i \in DOMAIN conf.search |-> {Described(p) : p \in Found(conf.search[i])}]
  /\ result' = "done"
  /\ UNCHANGED <<Machine, op, jobs, conf, before, settled, launches, pc, errs, meddled>>

-----------------------------------------------------------------------------
(* The user puts a file where a link is to be, or removes what is there.   *)
Meddle ==
  /\ meddled < MaxMeddling /\ ~Idle
  /\ \E l \in Range(Links) :
       LET e == Entry(fs, l.is.path)
       IN  \/ /\ Kind(fs, e) = "none" /\ Kind(fs, Parent(e)) = "dir"
              /\ fs' = With(fs, e, File) /\ before' = With(before, e, File)
           \/ /\ Kind(fs, e) \in {"file", "link"}
              /\ fs' = Restrict(fs, DOMAIN fs \ {e})
              /\ before' = Restrict(before, DOMAIN before \ {e})
  /\ meddled' = meddled + 1
  /\ UNCHANGED <<units, touched, conf, op, jobs, report, settled, launches, pc, errs,
                 result>>

LinkStep(i) ==
  \/ CheckTarget(i) \/ CheckPath(i) \/ ResolvePath(i) \/ RemoveOld(i)
  \/ MakeDirs(i) \/ MakeLink(i)

Next ==
  \/ \E o \in {"links", "nightly", "discover"} : Launch(o)
  \/ \E i \in DOMAIN pc :
       Begin(i) \/ LinkStep(i) \/ Cleanup(i) \/ FailUnit(i) \/ EnableUnit(i) \/ StartUnit(i)
  \/ Finish \/ Discover \/ Meddle

Spec == Init /\ [][Next]_vars

-----------------------------------------------------------------------------
Contradicted(i) ==
  \E k \in DOMAIN jobs :
    /\ jobs[k].kind = "service" /\ Unit(jobs[k].is) = Unit(jobs[i].is)
    /\ jobs[k].is.enabled # jobs[i].is.enabled

(* When setting up reports no error then every link whose target is there  *)
(* leads to its target if it may be updated or was not there before, and   *)
(* every service is what it should be, however jobs interleave; but a job  *)
(* may come in another's way, a path that cannot be looked at, below a     *)
(* file or in a loop, passes for one that exists, with sudo a link may be  *)
(* misplaced, and a target that is not absolute is looked for in the       *)
(* working directory, and linked to from where the link is.                *)
AsConfiguredWhenDone ==
  result = "done" /\ op \in {"links", "nightly"} /\ meddled = 0 =>
    /\ \A i \in DOMAIN jobs :
         LET l == jobs[i].is
         IN  /\ jobs[i].kind = "link" /\ IsAbs(l.target) /\ Alone(i) /\ ~Misplaced(l)
             /\ Stat(fs, l.target) # "missing" /\ Stat(fs, l.path) # "error"
             /\ l.update \/ Entry(fs, l.path) \notin DOMAIN before
             => Follow(fs, l.path) = Follow(fs, l.target)
    /\ \A i \in DOMAIN jobs :
         LET s == jobs[i].is
         IN  jobs[i].kind = "service" /\ ~Contradicted(i) =>
               /\ s.enabled <=> Unit(s) \in units.enabled
               /\ s.enabled /\ s.start => Unit(s) \in units.running
               /\ s.disabled => Unit(s) \notin units.running

(* Setting up what has been set up changes nothing and no link is an       *)
(* error, and the links that are discovered then are known to be           *)
(* configured, and lead to their targets.                                  *)
SetUpOnce ==
  settled /\ meddled = 0 =>
    /\ fs = before
    /\ \A i \in errs : jobs[i].kind # "link"
    /\ result = "rejected" => ~ValidDiscovery
    /\ \A i \in DOMAIN report, j \in DOMAIN jobs : \A d \in report[i] :
         LET l == jobs[j].is
         IN  d.path = l.path /\ IsAbs(d.target) /\ l.update /\ Stat(fs, l.target) # "missing"
             => d.defined /\ d.exists /\ Follow(fs, d.target) = l.target

(* What was there when the process began, and what the user puts there     *)
(* between its steps, stays and leads where it led: only what an updating  *)
(* link names inside of its path can go.                                   *)
NothingOverwritten ==
  \A p \in DOMAIN before :
    \/ p \in DOMAIN fs /\ fs[p] = before[p]
    \/ \E i \in DOMAIN jobs : /\ jobs[i].kind = "link" /\ jobs[i].is.update
                              /\ Last(p) = Last(Abs(Join(jobs[i].is.path, jobs[i].is.name)))

=============================================================================
