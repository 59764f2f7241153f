------------------------------ MODULE RepoSync ------------------------------
(***************************************************************************)
(* The jobs that keep one git repository the same on this host, on its     *)
(* mirrors and at its origin (repo/jobs.go): UpdateJob runs one            *)
(* SyncRemoteJob for each mirror at the same time, all of them in the same *)
(* local working copy, and then a local sync or a fetch; FetchJob clones   *)
(* what does not exist.  Users edit everywhere, others push to the origin, *)
(* and any command may fail.                                               *)
(*                                                                         *)
(* A history is the set of changes in it: rebasing on the origin is a      *)
(* union, and git (external) accepts a push of what contains the origin.   *)
(* The hooks Pre and Post leave the repository alone; that one of them     *)
(* fails is the failure of the command next to it.  The host's own name in *)
(* Mirrors is skipped by the code, so Mirror holds the others only.  One   *)
(* job of the repository runs at a time; somebody else may clone it, too.  *)
(* Definitions marked "Wrong" are bugs with which PROJECT.json shows that  *)
(* the properties can fail.                                                *)
(***************************************************************************)

CONSTANTS
  Local,      \* the host that runs the jobs
  Mirror,     \* the other hosts in GitRepository.Mirrors
  Change,     \* the changes that users may make
  AutoStash,  \* hosts whose git stashes uncommitted changes for a rebase
  LocalSync,  \* GitRepository.LocalSync
  Fetch       \* GitRepository.Fetch

Host == Mirror \cup {Local}

(* GitRepository.Validate: "cannot specify sync and fetch".                *)
ASSUME RepoAssumption ==
  /\ Local \notin Mirror
  /\ AutoStash \subseteq Host
  /\ LocalSync \in BOOLEAN /\ Fetch \in BOOLEAN
  /\ ~(LocalSync /\ Fetch)

VARIABLES
  origin,   \* the branch at the origin
  branch,   \* the branch on each host
  work,     \* each host's uncommitted changes
  index,    \* those among them that are staged
  stuck,    \* hosts on which a rebase stopped at a conflict
  cloned,   \* conf.Path exists on this host
  made,     \* the changes made so far (history)
  faulty,   \* commands may still fail without a reason of their own
  hooks,    \* conf.Pre and conf.Post have not been cleared
  job,      \* where the job is
  err,      \* the error collector of UpdateJob is not empty
  step,     \* the next command of each SyncRemoteJob
  good,     \* no command of this SyncRemoteJob has failed (history)
  before    \* what was there when it started (history)

repository == <<origin, branch, work, index, stuck, cloned>>
control == <<job, err, hooks>>
sync == <<step, good, before>>
vars == <<repository, made, faulty, control, sync>>

Job == {"idle", "mirrors", "local", "fetch", "clone"}
Step == {"none", "start", "collect", "offer", "add", "rebase", "readd",
         "commit", "push", "deliver", "accept", "pull", "done"}

Init ==
  /\ origin = {} /\ made = {} /\ stuck = {}
  /\ branch = [h \in Host |-> {}]
  /\ work = [h \in Host |-> {}]
  /\ index = [h \in Host |-> {}]
  /\ cloned \in BOOLEAN
  /\ faulty = TRUE /\ hooks = TRUE
  /\ job = "idle" /\ err = FALSE
  /\ step = [h \in Host |-> "none"]
  /\ good = [h \in Host |-> TRUE]
  /\ before = [h \in Host |-> {}]

-----------------------------------------------------------------------------
(* Users, on every host that has the repository, and on others.            *)

Make(c) == c \notin made /\ made' = made \cup {c}

Edit(h, c) ==
  /\ h = Local => cloned
  /\ Make(c)
  /\ work' = [work EXCEPT ![h] = @ \cup {c}]
  /\ UNCHANGED <<origin, branch, index, stuck, cloned, faulty, control, sync>>

PushByOthers(c) ==
  /\ Make(c)
  /\ origin' = origin \cup {c}
  /\ UNCHANGED <<branch, work, index, stuck, cloned, faulty, control, sync>>

(* From some moment on commands fail only for a reason that is modelled.   *)
Repair ==
  /\ faulty
  /\ faulty' = FALSE
  /\ UNCHANGED <<repository, made, control, sync>>

-----------------------------------------------------------------------------
(* What the git commands do on host h (external).                          *)

Cloned ==
  /\ cloned' = TRUE
  /\ branch' = [branch EXCEPT ![Local] = origin]
  /\ UNCHANGED <<origin, work, index, stuck>>

Add(h) ==
  /\ index' = [index EXCEPT ![h] = work[h]]
  /\ UNCHANGED <<origin, branch, work, stuck, cloned>>

(* Wrong: resets the branch to the origin instead.                         *)
ResetToOrigin(h, stash) ==
  /\ h \notin stuck
  /\ branch' = [branch EXCEPT ![h] = origin]
  /\ work' = [work EXCEPT ![h] = {}]
  /\ index' = [index EXCEPT ![h] = {}]
  /\ UNCHANGED <<origin, stuck, cloned>>

(* What is staged stops a rebase, unless it is stashed away.               *)
Rebased(h, stash) ==
  /\ h \notin stuck
  /\ stash \/ index[h] = {}
  /\ branch' = [branch EXCEPT ![h] = @ \cup origin]
  /\ UNCHANGED <<origin, work, index, stuck, cloned>>

NotRebased(h, stash) ==
  /\ h \in stuck \/ (~stash /\ work[h] # {})
  /\ UNCHANGED repository

(* Two histories, each with something that the other does not have.        *)
Conflict(h) ==
  /\ h \notin stuck
  /\ ~(branch[h] \subseteq origin) /\ ~(origin \subseteq branch[h])
  /\ stuck' = stuck \cup {h}
  /\ UNCHANGED <<origin, branch, work, index, cloned>>

(* commit -a also takes what was changed, but not added, since.            *)
Committed(h) ==
  \E C \in SUBSET work[h] :
    /\ index[h] \subseteq C
    /\ branch' = [branch EXCEPT ![h] = @ \cup C]
    /\ work' = [work EXCEPT ![h] = @ \ C]
    /\ index' = [index EXCEPT ![h] = {}]
    /\ UNCHANGED <<origin, stuck, cloned>>

Pushed(h) ==
  /\ h \notin stuck
  /\ origin \subseteq branch[h]
  /\ origin' = branch[h]
  /\ UNCHANGED <<branch, work, index, stuck, cloned>>

NotPushed(h) ==
  /\ h \in stuck \/ ~(origin \subseteq branch[h])
  /\ UNCHANGED repository

-----------------------------------------------------------------------------
(* One SyncRemoteJob: of a mirror, or of this host.                        *)

After == [collect |-> "offer", offer |-> "add", add |-> "rebase",
          rebase |-> "readd", readd |-> "commit", commit |-> "push",
          push |-> "deliver", deliver |-> "accept", accept |-> "pull",
          pull |-> "done"]

(* Wrong: leaves the push to the next update.                              *)
FollowingWithoutPush(t, s) == IF s = "commit" THEN "done" ELSE After[s]

Following(t, s) == IF t = Local /\ s = "push" THEN "done" ELSE After[s]

Advance(t) ==
  /\ step' = [step EXCEPT ![t] = Following(t, @)]
  /\ UNCHANGED <<good, before, made, faulty, control>>

(* Wrong: goes on with the next command.                                   *)
Continue(t) ==
  /\ step' = [step EXCEPT ![t] = Following(t, @)]
  /\ UNCHANGED <<good, before, made, faulty, control>>

(* The first command that fails ends the job, and its error is dropped.    *)
Abort(t) ==
  /\ step' = [step EXCEPT ![t] = "done"]
  /\ good' = [good EXCEPT ![t] = FALSE]
  /\ UNCHANGED <<before, made, faulty, control>>

(* A mirror's commands end with "; git push", which hides a failure.       *)
Ignore(t) ==
  /\ step' = [step EXCEPT ![t] = Following(t, @)]
  /\ good' = [good EXCEPT ![t] = FALSE]
  /\ UNCHANGED <<before, made, faulty, control>>

Has(h) == work[h] \cup branch[h]

(* A repository that does not exist is the one error that is reported.     *)
SyncStart(t) ==
  /\ step[t] = "start"
  /\ before' = [before EXCEPT ![t] = Has(t) \cup Has(Local)]
  /\ IF cloned
     THEN /\ step' = [step EXCEPT ![t] = IF t = Local THEN "add" ELSE "collect"]
          /\ good' = [good EXCEPT ![t] = TRUE]
          /\ UNCHANGED err
     ELSE /\ step' = [step EXCEPT ![t] = "done"]
          /\ good' = [good EXCEPT ![t] = FALSE]
          /\ err' = TRUE
  /\ UNCHANGED <<repository, made, faulty, job, hooks>>

(* Commands of two jobs in one working copy can meet on its index.lock.    *)
InWorkingCopy == {"add", "rebase", "readd", "commit", "push", "pull"}

Contended(t) ==
  /\ step[t] \in InWorkingCopy
  /\ \E u \in Mirror \ {t} : step[u] \in InWorkingCopy

MayFail(t) == faulty \/ Contended(t)

(* Any command of a job fails and leaves everything as it is.              *)
SyncFails(t) ==
  /\ step[t] \in DOMAIN After
  /\ MayFail(t)
  /\ Abort(t)
  /\ UNCHANGED repository

(* "git add -A && git fetch && git rebase && git commit -a" on the mirror. *)
MirrorCommit(t) ==
  /\ step[t] \in {"collect", "deliver"}
  /\ t \notin stuck
  /\ t \in AutoStash \/ work[t] = {}
  /\ branch' = [branch EXCEPT ![t] = @ \cup origin \cup work[t]]
  /\ work' = [work EXCEPT ![t] = {}]
  /\ index' = [index EXCEPT ![t] = {}]
  /\ UNCHANGED <<origin, stuck, cloned>>
  /\ Advance(t)

MirrorCommitFails(t) ==
  /\ step[t] \in {"collect", "deliver"}
  /\ \/ faulty /\ UNCHANGED repository
     \/ t \in stuck /\ Add(t)
     \/ t \notin AutoStash /\ work[t] # {} /\ Add(t)
     \/ Conflict(t)
  /\ Ignore(t)

(* The push is the last command on the mirror, and decides.                *)
MirrorPush(t) ==
  /\ step[t] \in {"offer", "accept"}
  /\ \/ Pushed(t) /\ Advance(t)
     \/ NotPushed(t) /\ Abort(t)

SyncAdd(t) == step[t] \in {"add", "readd"} /\ Add(Local) /\ Advance(t)

SyncRebase(t) ==
  /\ step[t] \in {"rebase", "pull"}
  /\ \/ Rebased(Local, Local \in AutoStash) /\ Advance(t)
     \/ (NotRebased(Local, Local \in AutoStash) \/ Conflict(Local)) /\ Abort(t)

(* "|| true": the job goes on without a commit.                            *)
SyncCommit(t) ==
  /\ step[t] = "commit"
  /\ \/ Local \notin stuck /\ Committed(Local) /\ Advance(t)
     \/ (Local \in stuck \/ MayFail(t)) /\ UNCHANGED repository /\ Ignore(t)

SyncPush(t) ==
  /\ step[t] = "push"
  /\ \/ Pushed(Local) /\ Advance(t)
     \/ NotPushed(Local) /\ Abort(t)

SyncStep(t) ==
  \/ SyncStart(t)
  \/ MirrorCommit(t) \/ MirrorCommitFails(t) \/ MirrorPush(t)
  \/ SyncAdd(t) \/ SyncRebase(t) \/ SyncCommit(t) \/ SyncPush(t)

-----------------------------------------------------------------------------
(* UpdateJob, FetchJob and CloneJob.                                       *)

Go(j) == job' = j /\ UNCHANGED <<made, faulty, err, hooks>>

(* UpdateJob starts the syncs of the mirrors.                              *)
StartUpdate ==
  /\ job = "idle"
  /\ job' = "mirrors"
  /\ err' = FALSE
  /\ step' = [h \in Host |-> IF h \in Mirror THEN "start" ELSE "none"]
  /\ UNCHANGED <<repository, made, faulty, hooks, good, before>>

(* The operations "repo fetch" and "repo clone".  The latter looks for the *)
(* path as it was before Validate expanded it: the index of repositories   *)
(* is older.  So a clone may also start for a repository that exists.      *)
StartFetch ==
  /\ job = "idle" /\ Fetch
  /\ Go("fetch")
  /\ UNCHANGED <<repository, sync>>

StartClone ==
  /\ job = "idle"
  /\ Go("clone")
  /\ UNCHANGED <<repository, sync>>

MirrorsDone == job = "mirrors" /\ \A t \in Mirror : step[t] = "done"

Wanted == LocalSync \/ Fetch \/ Mirror # {}

(* Uncommitted changes, or a failure to detect them, call for a local      *)
(* sync; otherwise what others pushed is fetched.                          *)
SyncLocally ==
  /\ MirrorsDone /\ ~err
  /\ LocalSync /\ cloned
  /\ work[Local] # {} \/ faulty
  /\ Go("local")
  /\ step' = [step EXCEPT ![Local] = "start"]
  /\ UNCHANGED <<repository, good, before>>

FetchOnly ==
  /\ MirrorsDone /\ ~err
  /\ Wanted
  /\ LocalSync /\ cloned => work[Local] = {}
  /\ Go("fetch")
  /\ UNCHANGED <<repository, sync>>

ReturnFromUpdate ==
  /\ \/ MirrorsDone /\ (Wanted => err)
     \/ job = "local" /\ step[Local] = "done"
  /\ Go("idle")
  /\ UNCHANGED <<repository, sync>>

(* Wrong: leaves it to CloneJob to look whether the repository exists.     *)
FetchByClone ==
  /\ job = "fetch"
  /\ Go("clone")
  /\ UNCHANGED <<repository, sync>>

(* FetchJob: a missing repository is cloned, ...                           *)
FetchMissing ==
  /\ job = "fetch" /\ ~cloned
  /\ Go("clone")
  /\ UNCHANGED <<repository, sync>>

(* ... others are pulled: "git pull --keep --rebase --autostash".          *)
FetchPull ==
  /\ job = "fetch" /\ cloned
  /\ \/ Rebased(Local, TRUE)
     \/ Conflict(Local)
     \/ (faulty \/ Local \in stuck) /\ UNCHANGED repository
  /\ Go("idle")
  /\ UNCHANGED sync

(* CloneJob: git clone, unless the repository has appeared by now.         *)
Clone ==
  /\ job = "clone" /\ ~cloned
  /\ Cloned \/ (faulty /\ UNCHANGED repository)
  /\ Go("idle")
  /\ UNCHANGED sync

(* The copy that is to have no hooks is a pointer to the original.         *)
CloneExists ==
  /\ job = "clone" /\ cloned
  /\ \/ /\ LocalSync
        /\ job' = "local" /\ hooks' = FALSE
        /\ step' = [step EXCEPT ![Local] = "start"]
        /\ UNCHANGED <<made, faulty, err, good, before>>
     \/ ~LocalSync /\ Go(IF Fetch THEN "fetch" ELSE "idle") /\ UNCHANGED sync
  /\ UNCHANGED repository

CloneElsewhere ==
  /\ ~cloned
  /\ Cloned
  /\ UNCHANGED <<made, faulty, control, sync>>

JobStep ==
  \/ SyncLocally \/ FetchOnly \/ ReturnFromUpdate
  \/ FetchMissing \/ FetchPull
  \/ Clone \/ CloneExists

Next ==
  \/ \E c \in Change : PushByOthers(c) \/ \E h \in Host : Edit(h, c)
  \/ Repair \/ CloneElsewhere
  \/ StartUpdate \/ StartFetch \/ StartClone \/ JobStep
  \/ \E t \in Host : SyncStep(t) \/ SyncFails(t)

(* Jobs go on, the update is run again and again, and faults end.          *)
Fairness ==
  /\ WF_vars(Repair)
  /\ SF_vars(StartUpdate)
  /\ WF_vars(JobStep)
  /\ \A t \in Host : WF_vars(SyncStep(t))

Spec == Init /\ [][Next]_vars /\ Fairness

-----------------------------------------------------------------------------
(* The type of every variable.                                             *)
TypeOK ==
  /\ origin \in SUBSET Change /\ made \in SUBSET Change
  /\ branch \in [Host -> SUBSET Change]
  /\ work \in [Host -> SUBSET Change]
  /\ index \in [Host -> SUBSET Change]
  /\ stuck \in SUBSET Host
  /\ {cloned, faulty, hooks, err} \subseteq BOOLEAN
  /\ job \in Job
  /\ step \in [Host -> Step]
  /\ good \in [Host -> BOOLEAN]
  /\ before \in [Host -> SUBSET Change]

(* No change that was ever made gets lost, whatever fails and whichever    *)
(* jobs meet: it is on some host or at the origin.                         *)
NothingLost ==
  made = origin \cup UNION {Has(h) : h \in Host}

(* A sync no command of which failed has brought everything that was on    *)
(* this host and on the mirror when it started, committed or not, to the   *)
(* origin and to both hosts, although other syncs work in the same copy.   *)
SyncedWhenDone ==
  \A t \in Host :
    step[t] = "done" /\ good[t] =>
      before[t] \subseteq origin \cap branch[t] \cap branch[Local]

(* Every job returns.                                                      *)
JobReturns == job # "idle" ~> job = "idle"

(* Partial failures heal: once faults and edits have ended, updates leave  *)
(* all hosts and the origin the same, unless a rebase found a conflict or  *)
(* the repository, which an update does not clone when it has mirrors, is  *)
(* still not there.                                                        *)
Same == \A h \in Host : work[h] = {} /\ branch[h] = origin

EventuallySynced == <>[](Same \/ stuck # {} \/ ~cloned)

=============================================================================
