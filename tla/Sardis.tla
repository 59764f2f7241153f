------------------------------- MODULE Sardis -------------------------------
(***************************************************************************)
(* The root command (operations/cmdr.go, Commander): a process runs one of *)
(* its subcommands.  "admin" sets up a machine, "arch" manages packages    *)
(* and "gadget" runs tests; each part is a module of its own, and of the   *)
(* state of the parts that are not run nothing is used.                    *)
(***************************************************************************)
EXTENDS Naturals, Sequences

CONSTANTS Machines, Settings, Workers, MaxLaunches, MaxMeddling
CONSTANTS Package, Native, InAUR, Beginnings, Requests, Builders, MaxChanges
CONSTANTS Trees, OptionSets

VARIABLES command
VARIABLES fs, units, conf, op, jobs, pc, errs, result, report, launches,
          meddled, before, touched, settled
VARIABLES installed, build, holder, task, step, cache, faulty, file, seen,
          worker, changes, ever, always
VARIABLES options, tree, walked, queue, stage, reports, broken, ended

Setup == INSTANCE SystemSetup
Arch == INSTANCE ArchPackages
Tests == INSTANCE TestRunner

setup == <<fs, units, conf, op, jobs, pc, errs, result, report, launches, meddled,
           before, touched, settled>>
arch == <<installed, build, holder, task, step, cache, faulty, file, seen, worker,
          changes, ever, always>>
tests == <<options, tree, walked, queue, stage, reports, broken, ended>>

vars == <<command, setup, arch, tests>>

(* What is assumed of the machines and the settings: file systems are      *)
(* trees with the root above all; a path is written with words, of which   *)
(* only the first can be "/"; what is enabled or disabled is a Boolean.    *)
Path(Word) == {p \in Seq(Word) : \A i \in 2 .. Len(p) : p[i] # "/"}

Node(Word, n) == n.kind \in {"file", "dir"} \/ (n.kind = "link" /\ n.to \in Path(Word))

Tree(Word, f) ==
  /\ Setup!Kind(f, Setup!Root) = "dir"
  /\ \A p \in DOMAIN f :
       /\ Node(Word, f[p]) /\ p \in Path(Word) /\ Setup!IsAbs(p)
       /\ Len(p) > 1 => Setup!Kind(f, SubSeq(p, 1, Len(p) - 1)) = "dir"

Spelled(Word, l) == l.path \in Path(Word) /\ l.name \in Path(Word) /\ l.target \in Path(Word)

IsList(s) == s \in Seq({s[i] : i \in DOMAIN s})

AreWritten(Word) ==
  /\ "/" \in Word /\ "w" \in Word
  /\ \A m \in Machines : Tree(Word, m)
  /\ \A s \in Settings :
       /\ IsList(s.links) /\ IsList(s.repos) /\ IsList(s.services)
       /\ \A i \in DOMAIN s.links : Spelled(Word, Setup!Complete(s.links[i]))
       /\ \A i \in DOMAIN s.services :
            s.services[i].enabled \in BOOLEAN /\ s.services[i].disabled \in BOOLEAN

ASSUME SetupAssumption == AreWritten(STRING)

Unused == "unused"

NoSetup ==
  /\ fs = Unused /\ units = Unused /\ conf = Unused /\ op = Unused /\ jobs = Unused
  /\ pc = Unused /\ errs = Unused /\ result = Unused /\ report = Unused
  /\ launches = Unused /\ meddled = Unused /\ before = Unused /\ touched = Unused
  /\ settled = Unused

NoArch ==
  /\ installed = Unused /\ build = Unused /\ holder = Unused /\ task = Unused
  /\ step = Unused /\ cache = Unused /\ faulty = Unused /\ file = Unused
  /\ seen = Unused /\ worker = Unused /\ changes = Unused /\ ever = Unused
  /\ always = Unused

NoTests ==
  /\ options = Unused /\ tree = Unused /\ walked = Unused /\ queue = Unused
  /\ stage = Unused /\ reports = Unused /\ broken = Unused /\ ended = Unused

(* Subcommanders: which one it is is said on the command line.             *)
Init ==
  \/ command = "admin" /\ Setup!Init /\ NoArch /\ NoTests
  \/ command = "arch" /\ NoSetup /\ Arch!Init /\ NoTests
  \/ command = "gadget" /\ NoSetup /\ NoArch /\ Tests!Init

Admin ==
  /\ command = "admin" /\ Setup!Next
  /\ UNCHANGED <<command, arch, tests>>

ArchLinux ==
  /\ command = "arch" /\ Arch!Next
  /\ UNCHANGED <<command, setup, tests>>

Gadget ==
  /\ command = "gadget" /\ Tests!Next
  /\ UNCHANGED <<command, setup, arch>>

Next == Admin \/ ArchLinux \/ Gadget

Spec == Init /\ [][Next]_vars

-----------------------------------------------------------------------------
(* Links and services are as configured when setting up reports no error.  *)
AsConfiguredWhenDone == command = "admin" => Setup!AsConfiguredWhenDone

(* Setting up what has been set up changes nothing.                        *)
SetUpOnce == command = "admin" => Setup!SetUpOnce

(* Only what an updating link names goes, whatever jobs and users do.      *)
NothingOverwritten == command = "admin" => Setup!NothingOverwritten

(* Packages are exported and listed as they were during the discovery.     *)
IndexIsTrue == command = "arch" => Arch!IndexIsTrue

(* Building reports no error only when everything is installed.            *)
InstalledWhenDone == command = "arch" => Arch!InstalledWhenDone

(* RunTests reports no error only when everything that it met passed.      *)
PassedWhenDone == command = "gadget" => Tests!PassedWhenDone

=============================================================================
