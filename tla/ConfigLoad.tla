----------------------------- MODULE ConfigLoad -----------------------------
(***************************************************************************)
(* Loading the configuration (conf.go): a file, which may be split into a  *)
(* part for all hosts and parts for single ones, and the files it links to *)
(* are read, migrated from the old form and joined; groups of commands and *)
(* the index of repositories are made from the result (repo/conf.go,       *)
(* repo/subexec.go); then everything is validated, and the operations on   *)
(* repositories (operations/repo.go) look their arguments up in the index. *)
(*                                                                         *)
(* A configuration has items in sections, each in its present and in its   *)
(* old place: sec and old.  What an item says beyond its name matters only *)
(* for repositories; of others, whether it is valid.  Only the main file   *)
(* has tag groups.  Definitions marked "Wrong" are bugs with which         *)
(* PROJECT.json shows that the properties can fail.                        *)
(***************************************************************************)
EXTENDS Naturals, Sequences, FiniteSets, SequencesExt

CONSTANTS
  Disks,     \* what the files may hold: functions from names to contents
  Main,      \* the file that is given on the command line
  Requests,  \* the arguments of operations: sequences of names
  Cloned     \* the names of the repositories whose paths exist

Section == {"repos", "projects", "commands", "links", "services", "hosts"}

VARIABLES
  disk,      \* the files
  phase,     \* what LoadConfiguration does, or how the process ended
  conf,      \* the Configuration
  next,      \* index into Settings.ConfigPaths
  failed,    \* the collector of errors holds one
  lookup,    \* caches.lookup: copies of repositories by name
  tags,      \* caches.tags: names of repositories by tag
  left,      \* the tag groups that are not in the index yet
  jobs,      \* generated commands: group, name and copies of repositories
  request,   \* the operation on repositories
  found,     \* what FindAll returned
  started    \* the names of the repositories whose jobs were started

vars == <<disk, phase, conf, next, failed, lookup, tags, left, jobs,
          request, found, started>>

-----------------------------------------------------------------------------
(* Reading one file.                                                       *)

(* Wrong: the old form takes the place of the present one.                 *)
MigrateByReplacing(c) ==
  [c EXCEPT !.set = TRUE,
            !.sec = [s \in Section |-> IF c.old[s] = <<>> THEN c.sec[s] ELSE c.old[s]],
            !.old = [s \in Section |-> <<>>]]

(* Migrate: everything to its present place, hosts only if there are       *)
(* Settings, which hosts under "network" create; those come twice.         *)
Migrate(c) ==
  LET net == c.net \o c.net
      set == c.set \/ net # <<>>
      Stays(s) == s = "hosts" /\ ~set
  IN  [c EXCEPT
        !.set = set,
        !.sec = [s \in Section |->
                  IF Stays(s) THEN c.sec[s]
                  ELSE c.sec[s] \o c.old[s] \o IF s = "hosts" THEN net ELSE <<>>],
        !.old = [s \in Section |-> IF Stays(s) THEN c.old[s] ELSE <<>>],
        !.net = <<>>]

(* Join: projects and the hosts in Settings are not among what is joined,  *)
(* and the old form is not looked at.                                      *)
Join(c, m) ==
  [c EXCEPT
    !.net = @ \o m.net,
    !.paths = @ \o m.paths,
    !.sec = [s \in Section |->
              IF s \in {"projects", "hosts"} THEN c.sec[s] ELSE c.sec[s] \o m.sec[s]]]

Is(c) == [kind |-> "conf", conf |-> c]
NotRead == [kind |-> "error"]
Crash == [kind |-> "panic"]

(* readConfiguration.  The part for this host needs the part for all, and  *)
(* with Settings of its own needs Settings there: they are joined through  *)
(* a pointer that is nil otherwise.                                        *)
ReadSplit(f) ==
  IF f.here = <<>>
  THEN IF f.global = <<>> THEN NotRead ELSE Is(f.global[1])
  ELSE IF f.global = <<>> THEN Crash
  ELSE LET m == Migrate(f.here[1])
       IN  IF m.set /\ ~f.global[1].set THEN Crash ELSE Is(Join(f.global[1], m))

Read(f) ==
  CASE f.kind = "unreadable" -> NotRead
    [] f.kind = "plain"      -> Is(f.conf)
    [] f.kind = "split"      -> ReadSplit(f)

-----------------------------------------------------------------------------
Empty == [sec |-> [s \in Section |-> <<>>], old |-> [s \in Section |-> <<>>],
          net |-> <<>>, set |-> FALSE, paths |-> <<>>, groups |-> <<>>]

Init ==
  /\ disk \in Disks
  /\ phase = "read" /\ conf = Empty /\ next = 1 /\ failed = FALSE
  /\ lookup = <<>> /\ tags = <<>> /\ left = {} /\ jobs = {}
  /\ request = <<>> /\ found = <<>> /\ started = {}

Requested == <<request, found, started>>
Index == <<lookup, tags, left>>

ReadMain ==
  /\ phase = "read"
  /\ LET r == Read(disk[Main])
     IN  \/ r.kind = "conf" /\ conf' = r.conf /\ phase' = "migrate"
         \/ r.kind = "error" /\ phase' = "rejected" /\ UNCHANGED conf
         \/ r.kind = "panic" /\ phase' = "panic" /\ UNCHANGED conf
  /\ UNCHANGED <<disk, next, failed, jobs, Index, Requested>>

(* doValidate makes Settings, expandLinkedFiles migrates.                  *)
MigrateMain ==
  /\ phase = "migrate"
  /\ conf' = Migrate([conf EXCEPT !.set = TRUE])
  /\ phase' = "link"
  /\ UNCHANGED <<disk, next, failed, jobs, Index, Requested>>

(* Wrong: only the last file decides whether there was an error.           *)
LinkForgetfully ==
  /\ phase = "link" /\ next <= Len(conf.paths)
  /\ LET r == Read(disk[conf.paths[next]])
     IN  \/ /\ r.kind = "panic" /\ phase' = "panic" /\ UNCHANGED <<conf, failed>>
         \/ /\ r.kind # "panic"
            /\ failed' = (r.kind = "error" \/ (r.kind = "conf" /\ r.conf.set))
            /\ conf' = IF failed' THEN conf ELSE Join(conf, Migrate(r.conf))
            /\ UNCHANGED phase
  /\ next' = next + 1
  /\ UNCHANGED <<disk, jobs, Index, Requested>>

(* expandLinkedFiles: a linked file must not have Settings, though hosts   *)
(* under "network" may give it some when it is migrated.                   *)
LinkFile ==
  /\ phase = "link" /\ next <= Len(conf.paths)
  /\ LET r == Read(disk[conf.paths[next]])
     IN  \/ r.kind = "error" /\ failed' = TRUE /\ UNCHANGED <<conf, phase>>
         \/ r.kind = "panic" /\ phase' = "panic" /\ UNCHANGED <<conf, failed>>
         \/ /\ r.kind = "conf" /\ r.conf.set
            /\ failed' = TRUE /\ UNCHANGED <<conf, phase>>
         \/ /\ r.kind = "conf" /\ ~r.conf.set
            /\ conf' = Join(conf, Migrate(r.conf))
            /\ UNCHANGED <<failed, phase>>
  /\ next' = next + 1
  /\ UNCHANGED <<disk, jobs, Index, Requested>>

-----------------------------------------------------------------------------
(* Generating commands, from repositories that are not validated yet.      *)

Repos == Range(conf.sec["repos"])

Active(r) == ~r.disabled /\ (r.fetch \/ r.sync)

Job(group, name, rs) == [group |-> group, name |-> name, repos |-> rs]

(* Wrong: for what is disabled as well.                                    *)
ExpandAll ==
  /\ phase = "link" /\ next > Len(conf.paths)
  /\ jobs' = {Job("pull", <<r.name>>, {r}) : r \in {r \in Repos : r.fetch \/ r.sync}}
       \cup {Job("update", <<r.name>>, {r}) : r \in {r \in Repos : Active(r) /\ r.sync}}
  /\ phase' = "index"
  /\ UNCHANGED <<disk, conf, next, failed, Index, Requested>>

(* ConcreteTaskGroups                                                      *)
ExpandConcrete ==
  /\ phase = "link" /\ next > Len(conf.paths)
  /\ jobs' = {Job("pull", <<r.name>>, {r}) : r \in {r \in Repos : Active(r)}}
       \cup {Job("update", <<r.name>>, {r}) : r \in {r \in Repos : Active(r) /\ r.sync}}
  /\ phase' = "index"
  /\ UNCHANGED <<disk, conf, next, failed, Index, Requested>>

Named(n) == CHOOSE r \in Repos : r.name = n

NamesOf(rs) == [i \in DOMAIN rs |-> rs[i].name]

(* The names of the repositories that have the tag, in order.              *)
Tagged(t) ==
  LET rs == conf.sec["repos"]
  IN  FlattenSeq([i \in DOMAIN rs |-> IF t \in rs[i].tags THEN <<rs[i].name>> ELSE <<>>])

(* rebuildIndexes, called the first and only time by SyntheticTaskGroups:  *)
(* two repositories of one name are a panic.                               *)
RebuildIndexes ==
  /\ phase = "index"
  /\ \/ /\ ~IsInjective(NamesOf(conf.sec["repos"]))
        /\ phase' = "panic"
        /\ UNCHANGED Index
     \/ /\ IsInjective(NamesOf(conf.sec["repos"]))
        /\ lookup' = [n \in {r.name : r \in Repos} |-> Named(n)]
        /\ tags' = [t \in UNION {r.tags : r \in Repos} |-> Tagged(t)]
        /\ left' = DOMAIN conf.groups
        /\ phase' = "groups"
  /\ UNCHANGED <<disk, conf, next, failed, jobs, Requested>>

TagsAt(t) == IF t \in DOMAIN tags THEN Range(tags[t]) ELSE {}

(* Tag groups in any order, which decides what one sees of another.  The   *)
(* error for one that is empty goes to the caller, who drops it.           *)
IndexTagGroup ==
  /\ phase = "groups"
  /\ \E g \in left :
       LET members == UNION {TagsAt(t) : t \in conf.groups[g]}
                        \cup (conf.groups[g] \cap DOMAIN lookup)
       IN  /\ tags' = [t \in DOMAIN tags \cup {g} |->
                        IF t = g THEN SetToSeq(members) ELSE tags[t]]
           /\ left' = left \ {g}
  /\ UNCHANGED <<disk, phase, conf, next, failed, lookup, jobs, Requested>>

(* SyntheticTaskGroups: a batch has every repository of its tag, if one is *)
(* active.  SystemD.TaskGroups has no state to share.                      *)
ExpandSynthetic ==
  /\ phase = "groups" /\ left = {}
  /\ LET Batch(t) == {lookup[n] : n \in Range(tags[t])}
         live == {t \in DOMAIN tags : \E r \in Batch(t) : Active(r)}
     IN  jobs' = jobs \cup {Job(g, <<"tag", t>>, Batch(t)) : g \in {"pull", "update"}, t \in live}
  /\ phase' = "validate"
  /\ UNCHANGED <<disk, conf, next, failed, Index, Requested>>

-----------------------------------------------------------------------------
(* Validation, of every part whatever the others said.                     *)

ValidRepo(r) == r.remote /\ ~(r.fetch /\ r.sync)

(* projectsValidate: a project has a name or a repository, which stands in *)
(* for the other, and none of two that are the same.                       *)
ValidProjects(ps) ==
  LET Both(p) == {p.name, p.repo} \ {""}
  IN  /\ \A i \in DOMAIN ps : Both(ps[i]) # {}
      /\ \A i, j \in DOMAIN ps : i < j => Both(ps[i]) \cap Both(ps[j]) = {}

(* What a tag group's name and members must (not) be in the index.  The    *)
(* name has been put there, so that no tag group passes.                   *)
ValidTagGroups ==
  \A g \in DOMAIN conf.groups :
    /\ g \notin DOMAIN lookup /\ g \notin DOMAIN tags
    /\ conf.groups[g] \subseteq DOMAIN lookup \cap DOMAIN tags

Others == {"commands", "links", "services"}

(* Repositories are completed in place: the copies in the index are not.   *)
ValidateParts ==
  /\ phase = "validate"
  /\ conf' = [conf EXCEPT !.sec["repos"] =
               [i \in DOMAIN @ |-> [@[i] EXCEPT !.ready = TRUE]]]
  /\ LET ok == /\ \A r \in Repos : ValidRepo(r)
               /\ ValidProjects(conf.sec["projects"])
               /\ ValidTagGroups
               /\ \A s \in Others : \A x \in Range(conf.sec[s]) : x.ok
     IN  failed' = (failed \/ ~ok)
  /\ phase' = IF failed' THEN "rejected" ELSE "loaded"
  /\ UNCHANGED <<disk, next, jobs, Index, Requested>>

-----------------------------------------------------------------------------
(* Operations on repositories.                                             *)

LookUp(id) ==
  IF id \in DOMAIN lookup THEN <<lookup[id]>>
  ELSE IF id \in DOMAIN tags
  THEN [i \in DOMAIN tags[id] |-> lookup[tags[id][i]]]
  ELSE <<>>

(* Wrong: what is asked for twice is there twice.                          *)
FindEach(ids) == FlattenSeq([i \in DOMAIN ids |-> LookUp(ids[i])])

FindAll(ids) ==
  LET all == FlattenSeq([i \in DOMAIN ids |-> LookUp(ids[i])])
      Seen(i) == \E j \in 1 .. i - 1 : all[j].name = all[i].name
  IN  FlattenSeq([i \in DOMAIN all |-> IF Seen(i) THEN <<>> ELSE <<all[i]>>])

(* os.Stat of a path in which ~ is still to be expanded.                   *)
Exists(r) == r.name \in Cloned /\ (r.ready \/ ~r.home)

Operate(op, ids) ==
  /\ phase = "loaded"
  /\ request' = <<op, ids>>
  /\ UNCHANGED <<disk, conf, next, failed, jobs, Index>>

(* repo list: everything, or what is asked for.                            *)
ListRepos(ids) ==
  /\ Operate("list", ids)
  /\ found' = IF ids = <<>> THEN conf.sec["repos"] ELSE FindAll(ids)
  /\ started' = {}
  /\ phase' = "done"

(* repo update, gc and status: a job for each, and nothing is an error.    *)
(* The jobs of gc and status take the path as it is.                       *)
RunJobs(op, ids) ==
  /\ Operate(op, ids)
  /\ found' = FindAll(ids)
  /\ started' = {r.name : r \in Range(found')}
  /\ \/ phase' = "error"
     \/ /\ found' # <<>>
        /\ op \in {"gc", "status"} => \A r \in Range(found') : Exists(r)
        /\ phase' = "done"

(* repo fetch: only those that are to be fetched.                          *)
FetchRepos(ids) ==
  /\ Operate("fetch", ids)
  /\ found' = FindAll(ids)
  /\ started' = {r.name : r \in {r \in Range(found') : r.fetch}}
  /\ \/ phase' = "error"
     \/ started' # {} /\ phase' = "done"

(* repo clone: those whose path does not exist, as far as it is known.     *)
CloneRepos(ids) ==
  /\ Operate("clone", ids)
  /\ found' = FindAll(ids)
  /\ started' = {r.name : r \in {r \in Range(found') : ~Exists(r)}}
  /\ phase' \in {"done", "error"}

(* blog publish gives up when the old place of projects is empty, which    *)
(* Migrate has seen to.                                                    *)
Publish ==
  /\ Operate("publish", <<>>)
  /\ conf.old["projects"] = <<>>
  /\ phase' = "error"
  /\ UNCHANGED <<found, started>>

Next ==
  \/ ReadMain \/ MigrateMain \/ LinkFile
  \/ ExpandConcrete \/ RebuildIndexes \/ IndexTagGroup \/ ExpandSynthetic
  \/ ValidateParts
  \/ \E ids \in Requests :
       \/ ListRepos(ids) \/ FetchRepos(ids) \/ CloneRepos(ids)
       \/ \E op \in {"update", "gc", "status"} : RunJobs(op, ids)
  \/ Publish

Spec == Init /\ [][Next]_vars

-----------------------------------------------------------------------------
Accepted == phase \in {"loaded", "done", "error"}

(* The parts of a file that are for this host, and all that they hold in a *)
(* section.                                                                *)
PartsOf(f) ==
  CASE f.kind = "unreadable" -> <<>>
    [] f.kind = "plain"      -> <<f.conf>>
    [] f.kind = "split"      -> f.global \o f.here

In(parts, s) ==
  FlattenSeq([i \in DOMAIN parts |->
    parts[i].sec[s] \o parts[i].old[s] \o IF s = "hosts" THEN parts[i].net ELSE <<>>])

Base == SubSeq(PartsOf(disk[Main]), 1, 1)

AllParts ==
  PartsOf(disk[Main])
    \o FlattenSeq([i \in DOMAIN conf.paths |-> PartsOf(disk[conf.paths[i]])])

Count(xs, n) == Cardinality({i \in DOMAIN xs : xs[i].name = n})

Names(xs) == {xs[i].name : i \in DOMAIN xs}

(* Whatever file and place it is in, an item is in the configuration that  *)
(* is accepted as often as it was written: nothing is lost or doubled by   *)
(* migrating, splitting and joining; but of projects and hosts, which are  *)
(* not joined, only what is in the main file's base part, and hosts under  *)
(* "network" twice.                                                        *)
ConfiguredOnce ==
  Accepted =>
    /\ \A s \in Section \ {"projects", "hosts"} :
         \A n \in Names(In(AllParts, s)) \cup Names(conf.sec[s]) :
           Count(conf.sec[s], n) = Count(In(AllParts, s), n)
    /\ \A n \in Names(In(Base, "projects")) \cup Names(conf.sec["projects"]) :
         Count(conf.sec["projects"], n) = Count(In(Base, "projects"), n)
    /\ \A n \in Names(In(Base, "hosts")) \cup Names(conf.sec["hosts"]) :
         Count(conf.sec["hosts"], n) =
           Count(In(Base, "hosts"), n) + Count(Base[1].net, n)

(* No error of an earlier part is forgotten by a later one: what is        *)
(* accepted was read from files that all could be read, has no Settings    *)
(* from linked files, and is valid in every section.                       *)
AcceptedIsValid ==
  Accepted =>
    /\ \A i \in DOMAIN conf.paths :
         LET r == Read(disk[conf.paths[i]]) IN r.kind = "conf" /\ ~r.conf.set
    /\ \A r \in Repos : ValidRepo(r)
    /\ ValidProjects(conf.sec["projects"])
    /\ \A s \in Others : \A x \in Range(In(AllParts, s)) : x.ok

(* The index, made before the repositories were validated, is one of all   *)
(* of them: what a request finds is every repository that it names or, for *)
(* what is no name, that has it as a tag, each once.                       *)
FindsWhatIsConfigured ==
  phase \in {"done", "error"} /\ request[1] \notin {"list", "publish"} =>
    /\ IsInjective(NamesOf(found))
    /\ Names(found) =
         {r.name : r \in {r \in Repos :
           \E i \in DOMAIN request[2] :
             \/ r.name = request[2][i]
             \/ /\ request[2][i] \in r.tags
                /\ request[2][i] \notin {q.name : q \in Repos}}}

(* The generated commands are those for the repositories of all files that *)
(* are active, and those of the tags of one that is; no disabled one has a *)
(* command of its own.                                                     *)
ActiveHaveCommands ==
  Accepted =>
    /\ \A r \in Repos :
         /\ Active(r) <=> \E j \in jobs : j.group = "pull" /\ j.name = <<r.name>>
         /\ Active(r) /\ r.sync <=> \E j \in jobs : j.group = "update" /\ j.name = <<r.name>>
    /\ \A t \in UNION {r.tags : r \in Repos} :
         (\E r \in Repos : Active(r) /\ t \in r.tags) <=>
           \E j \in jobs : /\ j.name = <<"tag", t>>
                           /\ {q.name : q \in j.repos} =
                                {q.name : q \in {q \in Repos : t \in q.tags}}

=============================================================================
