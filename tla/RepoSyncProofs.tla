--------------------------- MODULE RepoSyncProofs ---------------------------
(***************************************************************************)
(* Proofs about RepoSync, for any number of mirrors and changes: no change *)
(* is ever lost, and a sync without a failed command has brought what it   *)
(* found to the origin and to both hosts.  What a sync has achieved before *)
(* each of its commands is Phase; that the syncs of other mirrors do not   *)
(* disturb it, in the same working copy, is the lemma PhaseKept.           *)
(***************************************************************************)
EXTENDS RepoSync, TLAPS

(* Where the changes are that the sync of t found, before its command s.   *)
Phase(t, s) ==
  LET B == before[t]
      here == branch[Local] \cup index[Local]
  IN  /\ s = "collect" => B \subseteq Has(t) \cup Has(Local)
      /\ s = "offer"   => B \subseteq branch[t] \cup Has(Local)
      /\ s = "add"     => B \subseteq origin \cup Has(Local)
      /\ s = "rebase"  => B \subseteq origin \cup here
      /\ s \in {"readd", "commit"} => B \subseteq here
      /\ s = "push"    => B \subseteq branch[Local]
      /\ s = "deliver" => B \subseteq origin \cap branch[Local]
      /\ s = "accept"  => B \subseteq branch[t] \cap branch[Local]
      /\ s \in {"pull", "done"} =>
           B \subseteq origin \cap branch[t] \cap branch[Local]

Phases == \A t \in Host : good[t] => Phase(t, step[t])

Staged == \A h \in Host : index[h] \subseteq work[h]

(* Before the repository exists, nothing is here and no sync has worked.   *)
Absent ==
  ~cloned =>
    /\ branch[Local] = {} /\ work[Local] = {}
    /\ \A t \in Host : \/ step[t] \in {"none", "start"}
                       \/ step[t] = "done" /\ ~good[t]

(* Only the syncs of the mirrors use a mirror.                             *)
LocalSteps == step[Local] \notin {"collect", "offer", "deliver", "accept", "pull"}

IInv == TypeOK /\ NothingLost /\ Staged /\ Absent /\ LocalSteps /\ Phases

-----------------------------------------------------------------------------
(* What the git commands keep.                                             *)

RepoType ==
  /\ origin \in SUBSET Change
  /\ branch \in [Host -> SUBSET Change]
  /\ work \in [Host -> SUBSET Change]
  /\ index \in [Host -> SUBSET Change]
  /\ stuck \in SUBSET Host
  /\ cloned \in BOOLEAN

Somewhere(c) == c \in origin \/ \E h \in Host : c \in work[h] \cup branch[h]

Grows ==
  /\ origin \subseteq origin'
  /\ \A h \in Host :
       /\ branch[h] \subseteq branch'[h]
       /\ work[h] \cup branch[h] \subseteq work'[h] \cup branch'[h]
       /\ branch[h] \cup index[h] \subseteq branch'[h] \cup index'[h]

Safe ==
  /\ RepoType' /\ Staged' /\ Grows
  /\ \A c : Somewhere(c)' <=> Somewhere(c)

(* NothingLost, said of one change at a time.                              *)
LEMMA NothingLostEach == NothingLost <=> \A c : c \in made <=> Somewhere(c)
<1>1. \A c : c \in origin \cup UNION {Has(h) : h \in Host} <=> Somewhere(c)
  BY DEF Has, Somewhere
<1> QED BY <1>1 DEF NothingLost

LEMMA NothingLostEachNext ==
  NothingLost' <=> \A c : c \in made' <=> Somewhere(c)'
<1>1. \A c : c \in origin' \cup UNION {Has(h)' : h \in Host} <=> Somewhere(c)'
  BY DEF Has, Somewhere, Host
<1> QED BY <1>1 DEF NothingLost, Host

(* A command that leaves the repositories alone is safe.                   *)
LEMMA UnchangedSafe ==
  ASSUME RepoType, Staged, UNCHANGED repository
  PROVE  Safe
BY DEF RepoType, Staged, repository, Safe, Grows, Somewhere, Host

(* git add -A.                                                             *)
LEMMA AddSafe ==
  ASSUME RepoType, Staged, NEW h \in Host, Add(h)
  PROVE  Safe
BY DEF RepoType, Staged, Add, Safe, Grows, Somewhere, Host

(* git rebase without a conflict.                                          *)
LEMMA RebasedSafe ==
  ASSUME RepoType, Staged, NEW h \in Host, NEW stash \in BOOLEAN,
         Rebased(h, stash)
  PROVE  Safe
BY DEF RepoType, Staged, Rebased, Safe, Grows, Somewhere, Host

(* git rebase with a conflict.                                             *)
LEMMA ConflictSafe ==
  ASSUME RepoType, Staged, NEW h \in Host, Conflict(h)
  PROVE  Safe
BY DEF RepoType, Staged, Conflict, Safe, Grows, Somewhere, Host

(* git commit -a.                                                          *)
LEMMA CommittedSafe ==
  ASSUME RepoType, Staged, NEW h \in Host, Committed(h)
  PROVE  Safe
<1>1. PICK C \in SUBSET work[h] :
        /\ index[h] \subseteq C
        /\ branch' = [branch EXCEPT ![h] = @ \cup C]
        /\ work' = [work EXCEPT ![h] = @ \ C]
        /\ index' = [index EXCEPT ![h] = {}]
        /\ UNCHANGED <<origin, stuck, cloned>>
  BY DEF Committed
<1> QED BY <1>1 DEF RepoType, Staged, Safe, Grows, Somewhere, Host

(* git push.                                                               *)
LEMMA PushedSafe ==
  ASSUME RepoType, Staged, NEW h \in Host, Pushed(h)
  PROVE  Safe
BY DEF RepoType, Staged, Pushed, Safe, Grows, Somewhere, Host

(* git clone, where nothing was.                                           *)
LEMMA ClonedSafe ==
  ASSUME RepoType, Staged, branch[Local] = {}, Cloned
  PROVE  Safe
BY DEF RepoType, Staged, Cloned, Safe, Grows, Somewhere, Host

(* All the commands that a sync runs on a mirror before it pushes.         *)
LEMMA MirrorCommitSafe ==
  ASSUME RepoType, Staged, NEW t \in Host, MirrorCommit(t)
  PROVE  Safe
BY DEF RepoType, Staged, MirrorCommit, Safe, Grows, Somewhere, Host

-----------------------------------------------------------------------------
(* What the jobs keep.                                                     *)

SyncType ==
  /\ step \in [Host -> Step]
  /\ good \in [Host -> BOOLEAN]
  /\ before \in [Host -> SUBSET Change]

JobType ==
  /\ made \in SUBSET Change
  /\ {faulty, hooks, err} \subseteq BOOLEAN
  /\ job \in Job

(* The type invariant, in three parts.                                     *)
LEMMA TypeParts == TypeOK <=> RepoType /\ SyncType /\ JobType
BY DEF TypeOK, RepoType, SyncType, JobType

LEMMA TypePartsNext == TypeOK' <=> RepoType' /\ SyncType' /\ JobType'
BY DEF TypeOK, RepoType, SyncType, JobType, Host, Step, Job

(* What one sync has achieved is not undone by the steps of others.        *)
LEMMA PhaseKept ==
  ASSUME NEW t \in Host, NEW s, Grows, before'[t] = before[t], Phase(t, s)
  PROVE  Phase(t, s)'
<1>1. Local \in Host
  BY DEF Host
<1> QED BY <1>1 DEF Grows, Phase, Has

(* Safe commands of a job, after which syncs are where they are or wait to *)
(* start.                                                                  *)
Waiting ==
  /\ UNCHANGED <<made, good, before>>
  /\ step' \in [Host -> Step]
  /\ \A t \in Host : step'[t] = step[t] \/ step'[t] \in {"none", "start"}

LEMMA JobKeeps ==
  ASSUME IInv, Safe, JobType', Waiting, Absent'
  PROVE  IInv'
<1>1. TypeOK'
  BY TypeParts, TypePartsNext DEF IInv, Safe, SyncType, Waiting, Host, Step
<1>2. NothingLost'
  BY NothingLostEach, NothingLostEachNext DEF IInv, Safe, Waiting
<1>3. LocalSteps'
  BY DEF IInv, LocalSteps, Waiting, Host
<1>4. Phases'
  <2> SUFFICES ASSUME NEW t \in Host, good'[t]
               PROVE  Phase(t, step[t])'
    BY DEF Phases, Host
  <2>1. CASE step'[t] = step[t]
    <3>1. PICK s : s = step[t]
      OBVIOUS
    <3>2. Phase(t, s)
      BY <3>1 DEF IInv, Phases, Waiting
    <3>3. Phase(t, s)'
      BY <3>2, PhaseKept DEF Safe, Waiting
    <3> QED BY <2>1, <3>1, <3>3 DEF Phase
  <2>2. CASE step'[t] \in {"none", "start"}
    BY <2>2 DEF Phase
  <2> QED BY <2>1, <2>2 DEF Waiting
<1> QED BY <1>1, <1>2, <1>3, <1>4 DEF IInv, Safe

(* One sync moves to its command s, and the others stay where they are.    *)
SyncMoves(t, s) ==
  /\ step' = [step EXCEPT ![t] = s]
  /\ \A u \in Host \ {t} : good'[u] = good[u] /\ before'[u] = before[u]
  /\ t = Local =>
       s \notin {"collect", "offer", "deliver", "accept", "pull"}

LEMMA SyncKeeps ==
  ASSUME IInv, Safe, JobType', SyncType', made' = made, Absent',
         NEW t \in Host, NEW s, SyncMoves(t, s), good'[t] => Phase(t, s)'
  PROVE  IInv'
<1>1. TypeOK'
  BY TypePartsNext DEF Safe
<1>2. NothingLost'
  BY NothingLostEach, NothingLostEachNext DEF IInv, Safe
<1>3. LocalSteps'
  BY TypeParts DEF IInv, LocalSteps, SyncMoves, SyncType
<1>4. Phases'
  <2> SUFFICES ASSUME NEW u \in Host, good'[u]
               PROVE  Phase(u, step[u])'
    BY DEF Phases, Host
  <2>1. CASE u = t
    <3>1. step'[u] = s
      BY <2>1, TypeParts DEF IInv, SyncType, SyncMoves
    <3>2. Phase(u, s)'
      BY <2>1
    <3> QED BY <3>1, <3>2 DEF Phase
  <2>2. CASE u # t
    <3>1. PICK r : r = step[u]
      OBVIOUS
    <3>2. step'[u] = r /\ good[u] /\ before'[u] = before[u]
      BY <2>2, <3>1, TypeParts DEF IInv, SyncType, SyncMoves
    <3>3. Phase(u, r)
      BY <3>1, <3>2 DEF IInv, Phases
    <3>4. Phase(u, r)'
      BY <3>2, <3>3, PhaseKept DEF Safe
    <3> QED BY <3>2, <3>4 DEF Phase
  <2> QED BY <2>1, <2>2
<1> QED BY <1>1, <1>2, <1>3, <1>4 DEF IInv, Safe

(* A sync that has started runs in a repository that exists.               *)
LEMMA Present ==
  ASSUME IInv, NEW t \in Host, step[t] \notin {"none", "start", "done"}
  PROVE  cloned
BY DEF IInv, Absent, TypeOK

(* A sync whose command failed has nothing more to show.                   *)
LEMMA FailureKeeps ==
  ASSUME IInv, Safe, cloned, UNCHANGED cloned, NEW t \in Host,
         step[t] \in DOMAIN After, Abort(t) \/ Ignore(t)
  PROVE  IInv'
<1>1. PICK s \in Step : s = IF Abort(t) THEN "done" ELSE Following(t, step[t])
  BY DEF Step, Following, After
<1>2. SyncMoves(t, s)
  BY <1>1, TypeParts
     DEF SyncMoves, Abort, Ignore, IInv, SyncType, LocalSteps, Following, After
<1>3. SyncType' /\ good'[t] = FALSE
  <2>1. SyncType
    BY TypeParts DEF IInv
  <2>2. /\ step' = [step EXCEPT ![t] = s]
        /\ good' = [good EXCEPT ![t] = FALSE]
        /\ UNCHANGED before
    BY <1>2 DEF SyncMoves, Abort, Ignore
  <2>3. QED
    BY <1>1, <2>1, <2>2 DEF SyncType
<1>4. JobType' /\ made' = made
  BY TypeParts DEF Abort, Ignore, control, IInv, JobType, Job
<1>5. Absent'
  BY DEF Absent
<1> QED BY <1>2, <1>3, <1>4, <1>5, SyncKeeps

(* A sync whose command succeeded has to show what the command is for.     *)
LEMMA AdvanceKeeps ==
  ASSUME IInv, Safe, cloned, UNCHANGED cloned, NEW t \in Host, NEW s,
         step[t] \in DOMAIN After, s = Following(t, step[t]), Advance(t),
         good[t] => Phase(t, s)'
  PROVE  IInv'
<1>1. SyncMoves(t, s) /\ s \in Step
  BY TypeParts
     DEF SyncMoves, Advance, IInv, SyncType, LocalSteps, Following, After, Step
<1>2. SyncType' /\ good' = good
  BY <1>1, TypeParts DEF SyncMoves, Advance, IInv, SyncType, Host, Step
<1>3. JobType' /\ made' = made
  BY TypeParts DEF Advance, control, IInv, JobType, Job
<1>4. Absent'
  BY DEF Absent
<1> QED BY <1>1, <1>2, <1>3, <1>4, SyncKeeps

-----------------------------------------------------------------------------
(* Every step of a sync.                                                   *)

LEMMA StartKeeps ==
  ASSUME IInv, NEW t \in Host, SyncStart(t)
  PROVE  IInv'
<1>1. RepoType /\ Staged /\ SyncType /\ JobType
  BY TypeParts DEF IInv
<1>2. Safe
  BY <1>1, UnchangedSafe DEF SyncStart
<1>3. JobType' /\ made' = made
  BY <1>1 DEF SyncStart, JobType, Job
<1>4. PICK s \in Step : s = IF ~cloned THEN "done"
                           ELSE IF t = Local THEN "add" ELSE "collect"
  BY DEF Step
<1>5. SyncMoves(t, s)
  BY <1>1, <1>4 DEF SyncMoves, SyncStart, SyncType
<1>6. SyncType'
  BY <1>1, <1>4, <1>5
     DEF SyncMoves, SyncStart, SyncType, RepoType, Has, Host, Step
<1>7. Absent'
  BY <1>1, <1>4 DEF SyncStart, IInv, Absent, repository, SyncType, Host
<1>8. good'[t] => Phase(t, s)'
  BY <1>1, <1>4 DEF SyncStart, Phase, Has, repository, SyncType
<1> QED BY <1>2, <1>3, <1>5, <1>6, <1>7, <1>8, SyncKeeps

LEMMA MirrorKeeps ==
  ASSUME IInv, NEW t \in Host,
         MirrorCommit(t) \/ MirrorCommitFails(t) \/ MirrorPush(t)
  PROVE  IInv'
<1>1. RepoType /\ Staged /\ SyncType /\ step[t] \in DOMAIN After
  BY TypeParts DEF IInv, MirrorCommit, MirrorCommitFails, MirrorPush, After
<1>2. cloned
  BY Present DEF MirrorCommit, MirrorCommitFails, MirrorPush
<1>3. t # Local
  BY DEF IInv, LocalSteps, MirrorCommit, MirrorCommitFails, MirrorPush
<1>4. PICK s : s = Following(t, step[t])
  OBVIOUS
<1>5. good[t] => Phase(t, step[t])
  BY DEF IInv, Phases
<1>6. CASE MirrorCommit(t)
  <2>1. Safe /\ UNCHANGED cloned
    BY <1>1, <1>6, MirrorCommitSafe DEF MirrorCommit
  <2>2. Advance(t) /\ UNCHANGED before
    BY <1>6 DEF MirrorCommit, Advance
  <2>3. branch'[t] = branch[t] \cup origin \cup work[t]
    BY <1>1, <1>6 DEF MirrorCommit, RepoType
  <2>4. good[t] => Phase(t, s)'
    <3>1. CASE step[t] = "collect"
      BY <1>3, <1>4, <1>5, <2>1, <2>2, <2>3, <3>1
         DEF Phase, Has, Safe, Grows, Following, After, Host
    <3>2. CASE step[t] = "deliver"
      BY <1>3, <1>4, <1>5, <2>1, <2>2, <2>3, <3>2
         DEF Phase, Has, Safe, Grows, Following, After, Host
    <3> QED BY <1>6, <3>1, <3>2 DEF MirrorCommit
  <2> QED BY <1>1, <1>2, <1>4, <2>1, <2>2, <2>4, AdvanceKeeps
<1>7. CASE MirrorCommitFails(t)
  <2>1. Safe /\ UNCHANGED cloned
    BY <1>1, <1>7, UnchangedSafe, AddSafe, ConflictSafe
       DEF MirrorCommitFails, repository, Add, Conflict
  <2> QED BY <1>1, <1>2, <1>7, <2>1, FailureKeeps DEF MirrorCommitFails
<1>8. CASE MirrorPush(t) /\ Pushed(t) /\ Advance(t)
  <2>1. Safe /\ UNCHANGED cloned
    BY <1>1, <1>8, PushedSafe DEF Pushed
  <2>2. UNCHANGED before /\ UNCHANGED branch /\ origin' = branch[t]
    BY <1>8 DEF Advance, Pushed
  <2>3. good[t] => Phase(t, s)'
    <3>1. CASE step[t] = "offer"
      BY <1>3, <1>4, <1>5, <2>1, <2>2, <3>1
         DEF Phase, Has, Safe, Grows, Following, After, Host
    <3>2. CASE step[t] = "accept"
      BY <1>3, <1>4, <1>5, <2>1, <2>2, <3>2
         DEF Phase, Has, Safe, Grows, Following, After, Host
    <3> QED BY <1>8, <3>1, <3>2 DEF MirrorPush
  <2> QED BY <1>1, <1>2, <1>4, <1>8, <2>1, <2>2, <2>3, AdvanceKeeps
<1>9. CASE NotPushed(t) /\ Abort(t)
  <2>1. Safe /\ UNCHANGED cloned
    BY <1>1, <1>9, UnchangedSafe DEF NotPushed, repository
  <2> QED BY <1>1, <1>2, <1>9, <2>1, FailureKeeps
<1> QED BY <1>6, <1>7, <1>8, <1>9 DEF MirrorPush

LEMMA WorkingCopyKeeps ==
  ASSUME IInv, NEW t \in Host,
         SyncAdd(t) \/ SyncRebase(t) \/ SyncCommit(t) \/ SyncPush(t)
  PROVE  IInv'
<1>1. RepoType /\ Staged /\ SyncType /\ step[t] \in DOMAIN After
  BY TypeParts DEF IInv, SyncAdd, SyncRebase, SyncCommit, SyncPush, After
<1>2. cloned
  BY Present DEF SyncAdd, SyncRebase, SyncCommit, SyncPush
<1>3. Local \in Host /\ (Local \in AutoStash) \in BOOLEAN
  BY DEF Host
<1>4. PICK s : s = Following(t, step[t])
  OBVIOUS
<1>5. good[t] => Phase(t, step[t])
  BY DEF IInv, Phases
<1>6. CASE SyncAdd(t)
  <2>1. Safe /\ UNCHANGED cloned
    BY <1>1, <1>3, <1>6, AddSafe DEF SyncAdd, Add
  <2>2. Advance(t) /\ UNCHANGED <<before, origin, branch, work>>
    BY <1>6 DEF SyncAdd, Advance, Add
  <2>3. index'[Local] = work[Local]
    BY <1>1, <1>3, <1>6 DEF SyncAdd, Add, RepoType
  <2>4. good[t] => Phase(t, s)'
    BY <1>1, <1>3, <1>4, <1>5, <1>6, <2>1, <2>2, <2>3
       DEF SyncAdd, Phase, Has, Safe, Grows, Following, After
  <2> QED BY <1>1, <1>2, <1>4, <2>1, <2>2, <2>4, AdvanceKeeps
<1>7. CASE SyncRebase(t) /\ Rebased(Local, Local \in AutoStash) /\ Advance(t)
  <2>1. Safe /\ UNCHANGED cloned
    BY <1>1, <1>3, <1>7, RebasedSafe DEF Rebased
  <2>2. UNCHANGED <<before, origin, index>>
    BY <1>7 DEF Advance, Rebased
  <2>3. branch'[Local] = branch[Local] \cup origin
    BY <1>1, <1>3, <1>7 DEF Rebased, RepoType
  <2>4. good[t] => Phase(t, s)'
    BY <1>3, <1>4, <1>5, <1>7, <2>1, <2>2, <2>3
       DEF SyncRebase, Phase, Has, Safe, Grows, Following, After
  <2> QED BY <1>1, <1>2, <1>4, <1>7, <2>1, <2>4, AdvanceKeeps
<1>8. CASE SyncRebase(t) /\ Abort(t)
           /\ (NotRebased(Local, Local \in AutoStash) \/ Conflict(Local))
  <2>1. Safe /\ UNCHANGED cloned
    BY <1>1, <1>3, <1>8, UnchangedSafe, ConflictSafe
       DEF NotRebased, Conflict, repository
  <2> QED BY <1>1, <1>2, <1>8, <2>1, FailureKeeps
<1>9. CASE SyncCommit(t) /\ Committed(Local) /\ Advance(t)
  <2>1. Safe /\ UNCHANGED cloned
    BY <1>1, <1>3, <1>9, CommittedSafe DEF Committed
  <2>2. UNCHANGED before
    BY <1>9 DEF Advance
  <2>3. branch[Local] \cup index[Local] \subseteq branch'[Local]
    <3>1. PICK C \in SUBSET work[Local] :
            /\ index[Local] \subseteq C
            /\ branch' = [branch EXCEPT ![Local] = @ \cup C]
      BY <1>9 DEF Committed
    <3> QED BY <1>1, <1>3, <3>1 DEF RepoType
  <2>4. good[t] => Phase(t, s)'
    BY <1>3, <1>4, <1>5, <1>9, <2>2, <2>3
       DEF SyncCommit, Phase, Following, After
  <2> QED BY <1>1, <1>2, <1>4, <1>9, <2>1, <2>4, AdvanceKeeps
<1>10. CASE SyncCommit(t) /\ UNCHANGED repository /\ Ignore(t)
  <2>1. Safe /\ UNCHANGED cloned
    BY <1>1, <1>10, UnchangedSafe DEF repository
  <2> QED BY <1>1, <1>2, <1>10, <2>1, FailureKeeps
<1>11. CASE SyncPush(t) /\ Pushed(Local) /\ Advance(t)
  <2>1. Safe /\ UNCHANGED cloned
    BY <1>1, <1>3, <1>11, PushedSafe DEF Pushed
  <2>2. UNCHANGED <<before, branch>> /\ origin' = branch[Local]
    BY <1>11 DEF Advance, Pushed
  <2>3. good[t] => Phase(t, s)'
    BY <1>3, <1>4, <1>5, <1>11, <2>2
       DEF SyncPush, Phase, Following, After
  <2> QED BY <1>1, <1>2, <1>4, <1>11, <2>1, <2>3, AdvanceKeeps
<1>12. CASE SyncPush(t) /\ NotPushed(Local) /\ Abort(t)
  <2>1. Safe /\ UNCHANGED cloned
    BY <1>1, <1>12, UnchangedSafe DEF NotPushed, repository
  <2> QED BY <1>1, <1>2, <1>12, <2>1, FailureKeeps
<1> QED
  BY <1>6, <1>7, <1>8, <1>9, <1>10, <1>11, <1>12
     DEF SyncRebase, SyncCommit, SyncPush

-----------------------------------------------------------------------------
(* Every step of a job, and of its users.                                  *)

(* The steps of jobs that run no command on the repositories.              *)
LEMMA JobMoves ==
  ASSUME IInv, UNCHANGED repository, JobType', Waiting
  PROVE  IInv'
<1>1. Safe
  BY TypeParts, UnchangedSafe DEF IInv
<1>2. Absent'
  BY TypeParts DEF IInv, Absent, repository, Waiting, SyncType, Host
<1> QED BY <1>1, <1>2, JobKeeps

LEMMA JobStepKeeps ==
  ASSUME IInv, StartUpdate \/ StartFetch \/ StartClone \/ JobStep
  PROVE  IInv'
<1>1. RepoType /\ Staged /\ SyncType /\ JobType
  BY TypeParts DEF IInv
<1>2. CASE StartUpdate
  <2>1. UNCHANGED repository /\ JobType' /\ Waiting
    BY <1>1, <1>2 DEF StartUpdate, JobType, Job, Waiting, Step
  <2> QED BY <2>1, JobMoves
<1>3. CASE SyncLocally
  <2>1. UNCHANGED repository /\ JobType' /\ Waiting
    BY <1>1, <1>3
       DEF SyncLocally, Go, JobType, Job, SyncType, Waiting, Step
  <2> QED BY <2>1, JobMoves
<1>4. CASE CloneExists
  <2>1. UNCHANGED repository /\ JobType'
    BY <1>1, <1>4 DEF CloneExists, Go, JobType, Job
  <2>2. Waiting
    BY <1>1, <1>4 DEF CloneExists, Go, sync, SyncType, Waiting, Step
  <2> QED BY <2>1, <2>2, JobMoves
<1>5. CASE StartFetch \/ StartClone \/ FetchOnly \/ ReturnFromUpdate
           \/ FetchMissing
  <2>1. UNCHANGED <<repository, sync>> /\ \E j \in Job : Go(j)
    BY <1>5 DEF StartFetch, StartClone, FetchOnly, ReturnFromUpdate,
                FetchMissing, Job
  <2>2. JobType' /\ Waiting
    BY <1>1, <2>1 DEF Go, JobType, sync, SyncType, Waiting, Job
  <2> QED BY <2>1, <2>2, JobMoves
<1>6. CASE FetchPull
  <2>1. Safe /\ UNCHANGED <<cloned, made, sync>> /\ cloned
    BY <1>1, <1>6, RebasedSafe, ConflictSafe, UnchangedSafe
       DEF FetchPull, Rebased, Conflict, repository, Go, Host
  <2>2. JobType' /\ Absent' /\ Waiting
    BY <1>1, <1>6, <2>1
       DEF FetchPull, Go, JobType, Job, Absent, Waiting, sync, SyncType
  <2> QED BY <2>1, <2>2, JobKeeps
<1>7. CASE Clone
  <2>1. Safe
    BY <1>1, <1>7, ClonedSafe, UnchangedSafe DEF Clone, IInv, Absent
  <2>2. UNCHANGED <<made, sync>> /\ JobType'
    BY <1>1, <1>7 DEF Clone, Go, JobType, Job
  <2>3. Absent'
    BY <1>7, <2>2 DEF Clone, Cloned, IInv, Absent, repository, sync, Host
  <2>4. Waiting
    BY <1>1, <2>2 DEF sync, SyncType, Waiting
  <2> QED BY <2>1, <2>2, <2>3, <2>4, JobKeeps
<1> QED
  BY <1>2, <1>3, <1>4, <1>5, <1>6, <1>7 DEF JobStep

(* Users add a change; nobody takes one away.                              *)
LEMMA UserKeeps ==
  ASSUME IInv, NEW c \in Change,
         PushByOthers(c) \/ \E h \in Host : Edit(h, c)
  PROVE  IInv'
<1>1. RepoType /\ Staged /\ SyncType /\ JobType
  BY TypeParts DEF IInv
<1>2. UNCHANGED <<sync, cloned>> /\ made' = made \cup {c} /\ JobType'
  BY <1>1 DEF PushByOthers, Edit, Make, JobType, control, Job
<1>3. RepoType' /\ Staged' /\ Grows
  BY <1>1 DEF PushByOthers, Edit, RepoType, Staged, Grows, Host
<1>4. TypeOK'
  BY <1>1, <1>2, <1>3, TypePartsNext DEF SyncType, sync, Host, Step
<1>5. NothingLost'
  <2>1. \A x : Somewhere(x)' <=> Somewhere(x) \/ x = c
    BY <1>1 DEF PushByOthers, Edit, RepoType, Somewhere, Host
  <2> QED
    BY <1>2, <2>1, NothingLostEach, NothingLostEachNext DEF IInv
<1>6. Absent'
  BY <1>1, <1>2 DEF PushByOthers, Edit, IInv, Absent, RepoType, sync, Host
<1>7. LocalSteps'
  BY <1>2 DEF IInv, LocalSteps, sync
<1>8. Phases'
  <2> SUFFICES ASSUME NEW t \in Host, good'[t]
               PROVE  Phase(t, step[t])'
    BY DEF Phases, Host
  <2>1. PICK s : s = step[t]
    OBVIOUS
  <2>2. step'[t] = s /\ before'[t] = before[t] /\ good[t]
    BY <1>2, <2>1 DEF sync
  <2>3. Phase(t, s)
    BY <2>1, <2>2 DEF IInv, Phases
  <2>4. Phase(t, s)'
    BY <1>3, <2>2, <2>3, PhaseKept
  <2> QED BY <2>2, <2>4 DEF Phase
<1> QED BY <1>3, <1>4, <1>5, <1>6, <1>7, <1>8 DEF IInv

LEMMA OtherKeeps ==
  ASSUME IInv, Repair \/ CloneElsewhere \/ UNCHANGED vars
  PROVE  IInv'
<1>1. RepoType /\ Staged /\ SyncType /\ JobType
  BY TypeParts DEF IInv
<1>2. CASE Repair \/ UNCHANGED vars
  <2>1. UNCHANGED <<repository, sync, made>> /\ JobType'
    BY <1>1, <1>2 DEF Repair, vars, control, JobType, Job
  <2>2. Waiting
    BY <1>1, <2>1 DEF sync, SyncType, Waiting
  <2> QED BY <2>1, <2>2, JobMoves
<1>3. CASE CloneElsewhere
  <2>1. Safe /\ UNCHANGED <<made, sync>> /\ JobType' /\ Absent'
    BY <1>1, <1>3, ClonedSafe
       DEF CloneElsewhere, Cloned, IInv, Absent, control, JobType, Job
  <2>2. Waiting
    BY <1>1, <2>1 DEF sync, SyncType, Waiting
  <2> QED BY <2>1, <2>2, JobKeeps
<1> QED BY <1>2, <1>3

(* A command that fails before it does anything.                           *)
LEMMA FailsKeeps ==
  ASSUME IInv, NEW t \in Host, SyncFails(t)
  PROVE  IInv'
<1>1. RepoType /\ Staged
  BY TypeParts DEF IInv
<1>2. Safe /\ UNCHANGED cloned
  BY <1>1, UnchangedSafe DEF SyncFails, repository
<1>3. cloned
  BY Present DEF SyncFails, After
<1> QED BY <1>2, <1>3, FailureKeeps DEF SyncFails

-----------------------------------------------------------------------------
(* The inductive invariant holds.                                          *)

LEMMA InitIInv == Init => IInv
<1> SUFFICES ASSUME Init PROVE IInv
  OBVIOUS
<1>1. TypeOK /\ Staged /\ Absent /\ LocalSteps
  BY DEF Init, TypeOK, Staged, Absent, LocalSteps, Host, Job, Step
<1>2. NothingLost
  BY NothingLostEach DEF Init, Somewhere
<1>3. Phases
  BY DEF Init, Phases, Phase
<1> QED BY <1>1, <1>2, <1>3 DEF IInv

LEMMA NextIInv == IInv /\ [Next]_vars => IInv'
<1> SUFFICES ASSUME IInv, [Next]_vars PROVE IInv'
  OBVIOUS
<1>1. CASE \E c \in Change : PushByOthers(c) \/ \E h \in Host : Edit(h, c)
  BY <1>1, UserKeeps
<1>2. CASE Repair \/ CloneElsewhere \/ UNCHANGED vars
  BY <1>2, OtherKeeps
<1>3. CASE StartUpdate \/ StartFetch \/ StartClone \/ JobStep
  BY <1>3, JobStepKeeps
<1>4. CASE \E t \in Host : SyncStep(t) \/ SyncFails(t)
  BY <1>4, StartKeeps, MirrorKeeps, WorkingCopyKeeps, FailsKeeps DEF SyncStep
<1> QED BY <1>1, <1>2, <1>3, <1>4 DEF Next

THEOREM Invariance == Spec => []IInv
BY InitIInv, NextIInv, PTL DEF Spec

(* Every variable keeps its type.                                          *)
THEOREM TypeCorrect == Spec => []TypeOK
<1>1. IInv => TypeOK
  BY DEF IInv
<1> QED BY <1>1, Invariance, PTL

(* No change is lost, for any number of mirrors, whatever commands fail    *)
(* and however the syncs of the mirrors meet in the working copy.          *)
THEOREM NothingIsLost == Spec => []NothingLost
<1>1. IInv => NothingLost
  BY DEF IInv
<1> QED BY <1>1, Invariance, PTL

(* A sync without a failed command has done all that it is for.            *)
THEOREM SyncsSync == Spec => []SyncedWhenDone
<1>1. IInv => SyncedWhenDone
  BY DEF IInv, Phases, Phase, SyncedWhenDone
<1> QED BY <1>1, Invariance, PTL

=============================================================================
