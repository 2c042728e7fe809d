------------------------ MODULE RepositorySyncProofs ------------------------
(***************************************************************************)
(* Theorems about RepositorySync for any number of workers.                *)
(***************************************************************************)
EXTENDS RepositorySync, TLAPS

USE SyncerAssumption, SourceAssumption, SyncFailureAssumption, SyncBoundAssumption

(* TypeOK in parts: the provers treat the flags apart from the rest.       *)
FlagsOK ==
    /\ source_type \in SourceTypes
    /\ orphan \in {"none", "clone", "pull"} /\ cut \in BOOLEAN
RowOK == row \in [status : {"not_synced", "syncing", "synced", "failed"},
                  error : {"none", "exc"}, commit : Commit, located : BOOLEAN]
DirOK ==
    /\ dir \in [kind : {"absent", "bare", "partial", "torn", "whole"},
                head : NoCommit..upstream, next : NoCommit..upstream,
                writer : Syncer \cup {Orphan, Nobody}, lock : {"free", "locked"}]
    /\ upstream \in 1..MaxVersions
WorkersOK ==
    /\ pc \in [Syncer -> {"idle", "insert", "begin", "look", "fetch", "pull", "pulling",
                          "check", "remove", "removing", "clone", "cloning", "measure",
                          "save", "except"}]
    /\ measured \in [Syncer -> Commit]
    /\ since \in [Syncer -> 1..upstream]
    /\ requests \in [Syncer -> 0..MaxRequests] /\ crashes \in 0..MaxCrashes
    /\ rows \in 0..1

LEMMA TypeParts == TypeOK <=> FlagsOK /\ RowOK /\ DirOK /\ WorkersOK
BY DEF TypeOK, FlagsOK, RowOK, DirOK, WorkersOK

(* A kill leaves the directory to its git, or to nobody, with HEAD as it   *)
(* is.                                                                     *)
LEMMA CrashDirectory ==
    ASSUME DirOK, NEW s \in Syncer, Crash(s)
    PROVE  /\ DirOK' /\ upstream' = upstream
           /\ \/ dir' = dir
              \/ dir.head = NoCommit /\ dir' = Bare
              \/ /\ dir'.kind = dir.kind /\ dir'.head = dir.head
                 /\ \/ dir'.writer = Nobody
                    \/ dir.writer = s /\ dir'.writer = Orphan /\ dir'.next = dir.next
<1> USE DEF DirOK, NoCommit
<1>0. upstream' = upstream
  BY DEF Crash
<1>1. CASE dir' = dir
  BY <1>0, <1>1
<1>2. CASE dir.head = NoCommit /\ dir' = Bare
  BY <1>0, <1>2 DEF Bare, Directory
<1>3. CASE dir.writer = s /\ dir' = [dir EXCEPT !.writer = Orphan]
  BY <1>0, <1>3
<1>4. ASSUME NEW lock \in {"free", "locked"},
             dir' = Directory(dir.kind, dir.head, NoCommit, Nobody, lock)
      PROVE  DirOK' /\ dir'.kind = dir.kind /\ dir'.head = dir.head /\ dir'.writer = Nobody
  BY <1>0, <1>4 DEF Directory
<1> QED
  BY <1>0, <1>1, <1>2, <1>3, <1>4 DEF Crash, GitDies, disk

(* The type invariant holds at the start and is kept by every step.        *)
LEMMA TypeInit == Init => TypeOK
<1> SUFFICES ASSUME Init PROVE FlagsOK /\ RowOK /\ DirOK /\ WorkersOK
  BY TypeParts
<1>1. FlagsOK
  BY DEF Init, FlagsOK
<1>2. RowOK
  BY DEF Init, RowOK, NoCommit, Enclosing, Commit
<1>3. DirOK
  BY DEF Init, DirOK, Absent, Whole, Directory, NoCommit
<1>4. WorkersOK
  BY DEF Init, WorkersOK, NoCommit, Enclosing, Commit
<1> QED
  BY <1>1, <1>2, <1>3, <1>4
LEMMA TypeNext == TypeOK /\ [Next]_vars => TypeOK'
<1> SUFFICES ASSUME FlagsOK, RowOK, DirOK, WorkersOK, [Next]_vars
             PROVE  (FlagsOK /\ RowOK /\ DirOK /\ WorkersOK)'
  BY DEF TypeOK, FlagsOK, RowOK, DirOK, WorkersOK
<1> USE DEF NoCommit, Enclosing, Commit, Goto
<1>1. ASSUME NEW s \in Syncer, RequestById(s)
      PROVE  (FlagsOK /\ RowOK /\ DirOK /\ WorkersOK)'
  <2>1. FlagsOK'
    BY <1>1 DEF FlagsOK, RequestById, ById, CountRequest, database, disk
  <2>2. RowOK'
    BY <1>1 DEF RowOK, RequestById, ById, CountRequest, database, disk
  <2>3. DirOK'
    BY <1>1 DEF DirOK, RequestById, ById, CountRequest, database, disk
  <2>4. WorkersOK'
    BY <1>1 DEF WorkersOK, RequestById, ById, CountRequest, database, disk
  <2> QED
    BY <2>1, <2>2, <2>3, <2>4
<1>2. ASSUME NEW s \in Syncer, GetOrCreate(s)
      PROVE  (FlagsOK /\ RowOK /\ DirOK /\ WorkersOK)'
  <2>1. FlagsOK'
    BY <1>2 DEF FlagsOK, GetOrCreate, ByInput, CountRequest, database, disk
  <2>2. RowOK'
    BY <1>2 DEF RowOK, GetOrCreate, ByInput, CountRequest, database, disk
  <2>3. DirOK'
    BY <1>2 DEF DirOK, GetOrCreate, ByInput, CountRequest, database, disk
  <2>4. WorkersOK'
    BY <1>2 DEF WorkersOK, GetOrCreate, ByInput, CountRequest, database, disk
  <2> QED
    BY <2>1, <2>2, <2>3, <2>4
<1>3. ASSUME NEW s \in Syncer, Begin(s) \/ BeginRaises(s)
      PROVE  (FlagsOK /\ RowOK /\ DirOK /\ WorkersOK)'
  <2>1. FlagsOK'
    BY <1>3 DEF FlagsOK, Begin, BeginRaises, database, disk, bounds
  <2>2. RowOK'
    BY <1>3 DEF RowOK, Begin, BeginRaises, database, disk, bounds
  <2>3. DirOK'
    BY <1>3 DEF DirOK, Begin, BeginRaises, database, disk, bounds
  <2>4. WorkersOK'
    BY <1>3 DEF WorkersOK, DirOK, Begin, BeginRaises, database, disk, bounds
  <2> QED
    BY <2>1, <2>2, <2>3, <2>4
<1>4. ASSUME NEW s \in Syncer,
             ValidateLocal(s) \/ Look(s) \/ Fetch(s) \/ GitFails(s) \/ PullUpToDate(s)
                 \/ Check(s) \/ RemoveRaises(s) \/ CloneRefused(s)
      PROVE  (FlagsOK /\ RowOK /\ DirOK /\ WorkersOK)'
  <2>1. FlagsOK'
    BY <1>4 DEF FlagsOK, ValidateLocal, Look, Fetch, GitFails, PullUpToDate, Check,
                RemoveRaises, CloneRefused, Step, OnlyThePc, NotTheRow, database,
                disk, bounds
  <2>2. RowOK'
    BY <1>4 DEF RowOK, ValidateLocal, Look, Fetch, GitFails, PullUpToDate, Check,
                RemoveRaises, CloneRefused, Step, OnlyThePc, NotTheRow, database,
                disk, bounds
  <2>3. DirOK'
    BY <1>4 DEF DirOK, ValidateLocal, Look, Fetch, GitFails, PullUpToDate, Check,
                RemoveRaises, CloneRefused, Step, OnlyThePc, NotTheRow, database,
                disk, bounds
  <2>4. WorkersOK'
    BY <1>4 DEF WorkersOK, ValidateLocal, Look, Fetch, GitFails, PullUpToDate,
                Check, RemoveRaises, CloneRefused, Step, OnlyThePc, NotTheRow,
                database, disk, bounds
  <2> QED
    BY <2>1, <2>2, <2>3, <2>4
<1>5. ASSUME NEW s \in Syncer,
             PullBegin(s) \/ PullEnd(s) \/ PullFails(s) \/ RemoveBegin(s) \/ RemoveEnd(s)
                 \/ CloneBegin(s) \/ CloneFetched(s) \/ CloneEnd(s) \/ CloneFails(s)
      PROVE  (FlagsOK /\ RowOK /\ DirOK /\ WorkersOK)'
  <2>1. FlagsOK'
    BY <1>5 DEF FlagsOK, PullBegin, PullEnd, PullFails, RemoveBegin, RemoveEnd,
                CloneBegin, CloneFetched, CloneEnd, CloneFails, GitPulls,
                GitPullFails, GitClones, GitCloneFails, Directory, Torn, Absent,
                Bare, Partial, Whole, Step, NotTheRow, database, bounds
  <2>2. RowOK'
    BY <1>5 DEF RowOK, PullBegin, PullEnd, PullFails, RemoveBegin, RemoveEnd,
                CloneBegin, CloneFetched, CloneEnd, CloneFails, GitPulls,
                GitPullFails, GitClones, GitCloneFails, Directory, Torn, Absent,
                Bare, Partial, Whole, Step, NotTheRow, database, bounds
  <2>3. DirOK'
    BY <1>5 DEF DirOK, PullBegin, PullEnd, PullFails, RemoveBegin, RemoveEnd,
                CloneBegin, CloneFetched, CloneEnd, CloneFails, GitPulls,
                GitPullFails, GitClones, GitCloneFails, Directory, Torn, Absent,
                Bare, Partial, Whole, Step, NotTheRow, database, bounds
  <2>4. WorkersOK'
    BY <1>5 DEF WorkersOK, PullBegin, PullEnd, PullFails, RemoveBegin, RemoveEnd,
                CloneBegin, CloneFetched, CloneEnd, CloneFails, GitPulls,
                GitPullFails, GitClones, GitCloneFails, Directory, Torn, Absent,
                Bare, Partial, Whole, Step, NotTheRow, database, bounds
  <2> QED
    BY <2>1, <2>2, <2>3, <2>4
<1>6. ASSUME NEW s \in Syncer, Measure(s)
      PROVE  (FlagsOK /\ RowOK /\ DirOK /\ WorkersOK)'
  <2>1. FlagsOK'
    BY <1>6 DEF FlagsOK, Measure, Answers, Step, NotTheRow, database, disk, bounds
  <2>2. RowOK'
    BY <1>6 DEF RowOK, Measure, Answers, Step, NotTheRow, database, disk, bounds
  <2>3. DirOK'
    BY <1>6 DEF DirOK, Measure, Answers, Step, NotTheRow, database, disk, bounds
  <2>4. WorkersOK'
    BY <1>6 DEF WorkersOK, DirOK, Measure, Answers, Step, NotTheRow, database, disk, bounds
  <2> QED
    BY <2>1, <2>2, <2>3, <2>4
<1>7. ASSUME NEW s \in Syncer, Save(s) \/ SaveRaises(s) \/ Except(s) \/ ExceptRaises(s)
      PROVE  (FlagsOK /\ RowOK /\ DirOK /\ WorkersOK)'
  <2>1. FlagsOK'
    BY <1>7 DEF FlagsOK, Save, SaveRaises, Except, ExceptRaises, Step, Forget,
           NotTheRow, database, disk, bounds
  <2>2. RowOK'
    <3>1. CASE Save(s)
      <4>1. measured[s] \in Commit
        BY DEF WorkersOK
      <4>2. row' = [status |-> "synced", error |-> "none", commit |-> measured[s],
                    located |-> TRUE]
        BY <3>1 DEF Save
      <4> QED
        BY <4>1, <4>2 DEF RowOK
    <3>2. CASE Except(s)
      BY <3>2 DEF RowOK, Except
    <3>3. CASE ExceptRaises(s)
      BY <3>3 DEF RowOK, ExceptRaises
    <3>4. CASE SaveRaises(s)
      BY <3>4 DEF RowOK, SaveRaises, NotTheRow, database
    <3> QED
      BY <1>7, <3>1, <3>2, <3>3, <3>4
  <2>3. DirOK'
    BY <1>7 DEF DirOK, Save, SaveRaises, Except, ExceptRaises, Step, Forget,
           NotTheRow, database, disk, bounds
  <2>4. WorkersOK'
    BY <1>7 DEF WorkersOK, Save, SaveRaises, Except, ExceptRaises, Step, Forget,
           NotTheRow, database, disk, bounds
  <2> QED
    BY <2>1, <2>2, <2>3, <2>4
<1>8. ASSUME NEW s \in Syncer, Crash(s)
      PROVE  (FlagsOK /\ RowOK /\ DirOK /\ WorkersOK)'
  <2>1. FlagsOK'
    BY <1>8 DEF FlagsOK, Crash, Forget, GitDies, Bare, Directory, disk
  <2>2. RowOK'
    BY <1>8 DEF RowOK, Crash, Forget, GitDies, Bare, Directory, disk
  <2>3. DirOK'
    BY <1>8, CrashDirectory
  <2>4. WorkersOK'
    BY <1>8 DEF WorkersOK, Crash, Forget, GitDies, Bare, Directory, disk
  <2> QED
    BY <2>1, <2>2, <2>3, <2>4
<1>9. ASSUME Push \/ LocalPathChanges \/ OrphanStep
      PROVE  (FlagsOK /\ RowOK /\ DirOK /\ WorkersOK)'
  <2>1. FlagsOK'
    BY <1>9 DEF FlagsOK, Push, LocalPathChanges, OrphanStep, GitPulls, GitPullFails,
                GitClones, GitCloneFails, Directory, Torn, Absent, Bare, Partial,
                Whole, database, workers, bounds
  <2>2. RowOK'
    BY <1>9 DEF RowOK, Push, LocalPathChanges, OrphanStep, GitPulls, GitPullFails,
                GitClones, GitCloneFails, Directory, Torn, Absent, Bare, Partial,
                Whole, database, workers, bounds
  <2>3. DirOK'
    BY <1>9 DEF DirOK, Push, LocalPathChanges, OrphanStep, GitPulls, GitPullFails,
                GitClones, GitCloneFails, Directory, Torn, Absent, Bare, Partial,
                Whole, database, workers, bounds
  <2>4. WorkersOK'
    BY <1>9 DEF WorkersOK, DirOK, Push, LocalPathChanges, OrphanStep, GitPulls,
                GitPullFails, GitClones, GitCloneFails, Directory, Torn, Absent,
                Bare, Partial, Whole, database, workers, bounds
  <2> QED
    BY <2>1, <2>2, <2>3, <2>4
<1>10. ASSUME UNCHANGED vars
      PROVE  (FlagsOK /\ RowOK /\ DirOK /\ WorkersOK)'
  <2>1. FlagsOK'
    BY <1>10 DEF FlagsOK, vars, database, disk, workers, bounds
  <2>2. RowOK'
    BY <1>10 DEF RowOK, vars, database, disk, workers, bounds
  <2>3. DirOK'
    BY <1>10 DEF DirOK, vars, database, disk, workers, bounds
  <2>4. WorkersOK'
    BY <1>10 DEF WorkersOK, vars, database, disk, workers, bounds
  <2> QED
    BY <2>1, <2>2, <2>3, <2>4
<1>11. ASSUME NEW s \in Syncer, NEW sync \in BOOLEAN, Insert(s, sync)
      PROVE  (FlagsOK /\ RowOK /\ DirOK /\ WorkersOK)'
  <2>1. FlagsOK'
    BY <1>11 DEF FlagsOK, Insert, disk, bounds
  <2>2. RowOK'
    BY <1>11 DEF RowOK, Insert, disk, bounds
  <2>3. DirOK'
    BY <1>11 DEF DirOK, Insert, disk, bounds
  <2>4. WorkersOK'
    BY <1>11 DEF WorkersOK, Insert, disk, bounds
  <2> QED
    BY <2>1, <2>2, <2>3, <2>4
<1> QED
  BY <1>1, <1>2, <1>3, <1>4, <1>5, <1>6, <1>7, <1>8, <1>9, <1>10, <1>11
     DEF Next, SyncStep, SyncWork

(* Type correctness of row, directory and workers.                         *)
THEOREM TypeCorrect == Spec => []TypeOK
BY TypeInit, TypeNext, PTL DEF Spec

-----------------------------------------------------------------------------
(* The invariants of the row are inductive together with the type.         *)
RowInv == SyncingHasSync /\ FailedExplained

LEMMA RowNext == TypeOK /\ RowInv /\ [Next]_vars => RowInv'
<1> SUFFICES ASSUME TypeOK, RowInv, [Next]_vars PROVE RowInv'
  OBVIOUS
<1> USE DEF TypeOK, RowInv, SyncingHasSync, FailedExplained, Quiet, Working, Goto
<1>1. ASSUME NEW s \in Syncer, RequestById(s) \/ GetOrCreate(s) PROVE RowInv'
  BY <1>1 DEF RequestById, ById, GetOrCreate, ByInput, CountRequest, database, disk
<1>2. ASSUME NEW s \in Syncer, Begin(s) \/ BeginRaises(s) PROVE RowInv'
  BY <1>2 DEF Begin, BeginRaises, database, disk, bounds
<1>3. ASSUME NEW s \in Syncer,
             ValidateLocal(s) \/ Look(s) \/ Fetch(s) \/ GitFails(s) \/ PullUpToDate(s)
                 \/ Check(s) \/ RemoveRaises(s) \/ CloneRefused(s)
      PROVE  RowInv'
  BY <1>3 DEF ValidateLocal, Look, Fetch, GitFails, PullUpToDate, Check,
              RemoveRaises, CloneRefused, Step, OnlyThePc, NotTheRow, database
<1>4. ASSUME NEW s \in Syncer,
             PullBegin(s) \/ PullEnd(s) \/ PullFails(s) \/ RemoveBegin(s) \/ RemoveEnd(s)
                 \/ CloneBegin(s) \/ CloneFetched(s) \/ CloneEnd(s)
                 \/ CloneFails(s) \/ Measure(s)
      PROVE  RowInv'
  BY <1>4 DEF PullBegin, PullEnd, PullFails, RemoveBegin, RemoveEnd, CloneBegin,
              CloneFetched, CloneEnd, CloneFails, Measure, Step, NotTheRow, database
<1>5. ASSUME NEW s \in Syncer, Save(s) \/ SaveRaises(s) \/ Except(s) \/ ExceptRaises(s)
      PROVE  RowInv'
  <2>1. CASE Save(s)
    <3>1. row'.status = "synced" /\ row'.error = "none"
      BY <2>1 DEF Save
    <3> QED
      BY <3>1
  <2>2. CASE Except(s)
    <3>1. row'.status = "failed" /\ row'.error = "exc"
      BY <2>2 DEF Except
    <3> QED
      BY <3>1
  <2>3. CASE ExceptRaises(s)
    BY <2>3 DEF ExceptRaises
  <2>4. CASE SaveRaises(s)
    BY <2>4 DEF SaveRaises, Step, NotTheRow, database
  <2> QED
    BY <1>5, <2>1, <2>2, <2>3, <2>4
<1>6. ASSUME NEW s \in Syncer, Crash(s) PROVE RowInv'
  BY <1>6 DEF Crash
<1>7. ASSUME Push \/ LocalPathChanges \/ OrphanStep \/ UNCHANGED vars PROVE RowInv'
  BY <1>7 DEF Push, LocalPathChanges, OrphanStep, vars, database, workers
<1>8. ASSUME NEW s \in Syncer, NEW sync \in BOOLEAN, Insert(s, sync) PROVE RowInv'
  BY <1>8 DEF Insert
<1> QED
  BY <1>1, <1>2, <1>3, <1>4, <1>5, <1>6, <1>7, <1>8 DEF Next, SyncStep, SyncWork

LEMMA RowAlways == Spec => []RowInv
<1>1. Init => RowInv
  BY DEF Init, RowInv, SyncingHasSync, FailedExplained
<1> QED
  BY <1>1, TypeCorrect, RowNext, PTL DEF Spec

(* A row that says syncing has a worker, or one was cut off.               *)
THEOREM SyncingAlwaysHasSync == Spec => []SyncingHasSync
BY RowAlways, PTL DEF RowInv

(* Status and error message never come apart.                              *)
THEOREM FailedAlwaysExplained == Spec => []FailedExplained
BY RowAlways, PTL DEF RowInv

-----------------------------------------------------------------------------
(* What a worker is about to measure is fresh already, for whatever the    *)
(* others do to the directory, its head is the newest commit or none.      *)
HeadFresh ==
    /\ dir.kind = "bare" => dir.head = NoCommit
    /\ source_type = "local" => dir.kind # "torn" /\ dir.head \in {NoCommit, upstream}
    /\ \A s \in Syncer : pc[s] = "measure" /\ dir.head # NoCommit => dir.head >= since[s]
    /\ \A s \in Syncer : pc[s] = "pulling" /\ dir.writer = s => dir.next >= since[s]
    /\ \A s \in Syncer : pc[s] = "cloning" /\ dir.writer = s /\ dir.head # NoCommit
                             => dir.head >= since[s]
    /\ dir.kind \in {"whole", "torn"} => dir.head # NoCommit
    /\ dir.kind = "torn" /\ dir.writer # Nobody => dir.next >= dir.head
    /\ source_type = "local" => \A s \in Syncer : pc[s] \notin {"fetch", "pull", "pulling"}
FreshInv == HeadFresh /\ SavedIsFresh

LEMMA FreshNext == TypeOK /\ FreshInv /\ [Next]_vars => FreshInv'
<1> SUFFICES ASSUME TypeOK, FreshInv, [Next]_vars PROVE FreshInv'
  OBVIOUS
<1> USE DEF TypeOK, FreshInv, HeadFresh, SavedIsFresh, Goto, NoCommit, Enclosing, Commit
<1>1. ASSUME NEW s \in Syncer, RequestById(s) \/ GetOrCreate(s) PROVE FreshInv'
  BY <1>1 DEF RequestById, ById, GetOrCreate, ByInput, CountRequest, database, disk
<1>2. ASSUME NEW s \in Syncer, Begin(s) \/ BeginRaises(s) PROVE FreshInv'
  BY <1>2 DEF Begin, BeginRaises, database, disk, bounds
<1>3. ASSUME NEW s \in Syncer,
             ValidateLocal(s) \/ Look(s) \/ Fetch(s) \/ GitFails(s) \/ PullUpToDate(s)
                 \/ Check(s) \/ RemoveRaises(s) \/ CloneRefused(s)
      PROVE  FreshInv'
  BY <1>3 DEF ValidateLocal, Look, Fetch, GitFails, PullUpToDate, Check,
              RemoveRaises, CloneRefused, Step, OnlyThePc, NotTheRow, database, disk
<1>4. ASSUME NEW s \in Syncer,
             PullBegin(s) \/ PullEnd(s) \/ PullFails(s) \/ RemoveBegin(s) \/ RemoveEnd(s)
                 \/ CloneBegin(s) \/ CloneFetched(s) \/ CloneEnd(s) \/ CloneFails(s)
      PROVE  FreshInv'
  <2> USE DEF Step, NotTheRow, database, Directory
  <2>1. CASE PullBegin(s)
    BY <2>1 DEF PullBegin, Torn
  <2>2. CASE PullEnd(s)
    BY <2>2 DEF PullEnd, GitPulls, Whole
  <2>3. CASE PullFails(s)
    BY <2>3 DEF PullFails, GitPullFails, Torn
  <2>4. CASE RemoveBegin(s)
    BY <2>4 DEF RemoveBegin, Bare, Partial
  <2>5. CASE RemoveEnd(s) \/ CloneFails(s)
    BY <2>5 DEF RemoveEnd, CloneFails, GitCloneFails, Absent
  <2>6. CASE CloneBegin(s)
    BY <2>6 DEF CloneBegin, Partial
  <2>7. CASE CloneFetched(s)
    BY <2>7 DEF CloneFetched, GitClones, Partial
  <2>8. CASE CloneEnd(s)
    BY <2>8 DEF CloneEnd, GitClones, Whole
  <2> QED
    BY <1>4, <2>1, <2>2, <2>3, <2>4, <2>5, <2>6, <2>7, <2>8
<1>5. ASSUME NEW s \in Syncer, Measure(s) PROVE FreshInv'
  BY <1>5 DEF Measure, Answers, Step, NotTheRow, database, disk
<1>6. ASSUME NEW s \in Syncer, Save(s) \/ SaveRaises(s) \/ Except(s) \/ ExceptRaises(s)
      PROVE  FreshInv'
  BY <1>6 DEF Save, SaveRaises, Except, ExceptRaises, Step, Forget, NotTheRow,
           database, disk
<1>7. ASSUME NEW s \in Syncer, Crash(s) PROVE FreshInv'
  <2>1. /\ UNCHANGED <<source_type, since, upstream>> /\ Forget(s)
        /\ pc' = [pc EXCEPT ![s] = "idle"]
    BY <1>7 DEF Crash
  <2>2. \/ dir' = dir
        \/ dir.head = NoCommit /\ dir' = Bare
        \/ /\ dir'.kind = dir.kind /\ dir'.head = dir.head
           /\ \/ dir'.writer = Nobody
              \/ dir.writer = s /\ dir'.writer = Orphan /\ dir'.next = dir.next
    BY <1>7, CrashDirectory DEF DirOK
  <2> QED
    BY <2>1, <2>2 DEF Forget, Bare, Directory
<1>8. ASSUME Push \/ LocalPathChanges \/ OrphanStep \/ UNCHANGED vars PROVE FreshInv'
  <2>1. CASE Push \/ LocalPathChanges \/ UNCHANGED vars
    BY <2>1 DEF Push, LocalPathChanges, Directory, Absent, Bare, Whole, vars,
                database, disk, workers
  <2>2. CASE OrphanStep
    <3> USE DEF Directory, database, workers
    <3>1. CASE GitPulls(Orphan)
      BY <2>2, <3>1 DEF OrphanStep, GitPulls, Whole
    <3>2. CASE GitPullFails(Orphan)
      BY <2>2, <3>2 DEF OrphanStep, GitPullFails, Torn
    <3>3. CASE GitClones(Orphan)
      BY <2>2, <3>3 DEF OrphanStep, GitClones, Partial, Whole
    <3>4. CASE GitCloneFails(Orphan)
      BY <2>2, <3>4 DEF OrphanStep, GitCloneFails, Absent
    <3> QED
      BY <2>2, <3>1, <3>2, <3>3, <3>4 DEF OrphanStep
  <2> QED
    BY <1>8, <2>1, <2>2
<1>9. ASSUME NEW s \in Syncer, NEW sync \in BOOLEAN, Insert(s, sync) PROVE FreshInv'
  BY <1>9 DEF Insert, disk, bounds
<1> QED
  BY <1>1, <1>2, <1>3, <1>4, <1>5, <1>6, <1>7, <1>8, <1>9 DEF Next, SyncStep, SyncWork

LEMMA FreshAlways == Spec => []FreshInv
<1>1. Init => FreshInv
  BY DEF Init, FreshInv, HeadFresh, SavedIsFresh, Directory, Absent, Whole, NoCommit
<1> QED
  BY <1>1, TypeCorrect, FreshNext, PTL DEF Spec

(* However syncs and crashes interleave, no sync reports a commit that is  *)
(* older than the newest one at its beginning.                             *)
THEOREM SavedAlwaysFresh == Spec => []SavedIsFresh
BY FreshAlways, PTL DEF FreshInv

-----------------------------------------------------------------------------
(* A clone that nobody took for missing is not removed by what follows:    *)
(* syncs, failures of git and the database, workers killed.                *)
LEMMA CloneStep ==
    TypeOK /\ FreshInv /\ [Next]_vars
        => (CloneSafe => CloneSafe' /\ dir'.head >= dir.head)
<1> DEFINE Kept == CloneSafe' /\ dir'.head >= dir.head
<1> SUFFICES ASSUME TypeOK, FreshInv, [Next]_vars, CloneSafe PROVE Kept
  OBVIOUS
<1> USE DEF TypeOK, CloneSafe, CloneBranch, Goto, NoCommit
<1>1. ASSUME NEW s \in Syncer, RequestById(s) \/ GetOrCreate(s) PROVE Kept
  BY <1>1 DEF RequestById, ById, GetOrCreate, ByInput, CountRequest, database, disk
<1>2. ASSUME NEW s \in Syncer, NEW sync \in BOOLEAN, Insert(s, sync) PROVE Kept
  BY <1>2 DEF Insert, disk
<1>3. ASSUME NEW s \in Syncer, Begin(s) \/ BeginRaises(s) PROVE Kept
  BY <1>3 DEF Begin, BeginRaises, database, disk
<1>4. ASSUME NEW s \in Syncer,
             ValidateLocal(s) \/ Look(s) \/ Fetch(s) \/ GitFails(s) \/ PullUpToDate(s)
                 \/ Check(s) \/ RemoveRaises(s) \/ CloneRefused(s)
      PROVE  Kept
  BY <1>4 DEF ValidateLocal, Look, Fetch, GitFails, PullUpToDate, Check,
              RemoveRaises, CloneRefused, Step, OnlyThePc, NotTheRow, database, disk
<1>5. ASSUME NEW s \in Syncer, PullBegin(s) \/ PullEnd(s) \/ PullFails(s) PROVE Kept
  <2> USE DEF Step, NotTheRow, database, Directory
  <2>1. CASE PullBegin(s)
    BY <2>1 DEF PullBegin, Torn
  <2>2. CASE PullEnd(s)
    <3>1. dir.next >= dir.head
      BY <2>2, SyncerAssumption DEF PullEnd, GitPulls, FreshInv, HeadFresh
    <3> QED
      BY <2>2, <3>1 DEF PullEnd, GitPulls, Whole
  <2>3. CASE PullFails(s)
    BY <2>3 DEF PullFails, GitPullFails, Torn
  <2> QED
    BY <1>5, <2>1, <2>2, <2>3
<1>6. ASSUME NEW s \in Syncer,
             RemoveBegin(s) \/ RemoveEnd(s) \/ CloneBegin(s) \/ CloneFetched(s)
                 \/ CloneEnd(s) \/ CloneFails(s)
      PROVE  Kept
  BY <1>6 DEF RemoveBegin, RemoveEnd, CloneBegin, CloneFetched, CloneEnd,
              CloneFails, Step
<1>7. ASSUME NEW s \in Syncer, Measure(s) PROVE Kept
  BY <1>7 DEF Measure, Step, NotTheRow, database, disk
<1>8. ASSUME NEW s \in Syncer, Save(s) \/ SaveRaises(s) \/ Except(s) \/ ExceptRaises(s)
      PROVE  Kept
  BY <1>8 DEF Save, SaveRaises, Except, ExceptRaises, Step, Forget, NotTheRow,
           database, disk
<1>9. ASSUME NEW s \in Syncer, Crash(s) PROVE Kept
  <2>1. dir.head # NoCommit
    BY DEF FreshInv, HeadFresh
  <2>2. \/ dir' = dir
        \/ dir.head = NoCommit /\ dir' = Bare
        \/ dir'.kind = dir.kind /\ dir'.head = dir.head
    BY <1>9, CrashDirectory DEF DirOK
  <2>3. /\ source_type' = source_type /\ orphan' # "clone"
        /\ \A t \in Syncer : pc'[t] \notin CloneBranch
    BY <1>9 DEF Crash, disk
  <2> QED
    BY <2>1, <2>2, <2>3
<1>10. ASSUME Push \/ LocalPathChanges \/ OrphanStep \/ UNCHANGED vars PROVE Kept
  <2>1. CASE Push \/ LocalPathChanges \/ UNCHANGED vars
    BY <2>1 DEF Push, LocalPathChanges, vars, database, disk, workers
  <2>2. CASE OrphanStep
    <3>1. GitPulls(Orphan) => dir.next >= dir.head
      BY SyncerAssumption DEF GitPulls, FreshInv, HeadFresh
    <3> QED
      BY <2>2, <3>1 DEF OrphanStep, GitPulls, GitPullFails, Directory, Torn, Whole,
                        database, workers
  <2> QED
    BY <1>10, <2>1, <2>2
<1> QED
  BY <1>1, <1>2, <1>3, <1>4, <1>5, <1>6, <1>7, <1>8, <1>9, <1>10
     DEF Next, SyncStep, SyncWork

(* A safe clone keeps its .git, and its HEAD never goes back, even when a  *)
(* pull fails or is killed among the files that it rewrites.               *)
THEOREM CloneAlwaysStaysSafe == Spec => CloneStaysSafe
<1>1. TypeOK /\ FreshInv /\ [Next]_vars
          => [CloneSafe => CloneSafe' /\ dir'.head >= dir.head]_vars
  BY CloneStep
<1> QED
  BY <1>1, TypeCorrect, FreshAlways, PTL DEF Spec, CloneStaysSafe

-----------------------------------------------------------------------------
(* While one worker alone serves the repository, the directory is absent,  *)
(* complete or half updated except while it clones, the worker never       *)
(* removes anything, and it measures and saves what is there; a clone that *)
(* was left half updated is behind, and a pull finds it so.                *)
SoloClone ==
    /\ \A s \in Syncer : pc[s] # "idle" => requests[s] > 0
    /\ source_type = "github" /\ crashes = 0 => orphan = "none"
    /\ Solo /\ row.status = "synced" =>
           dir.kind = "whole" /\ row.commit \in {NoCommit, dir.head}
    /\ dir.kind = "torn" => dir.head < upstream
    /\ Solo => \/ dir = Absent \/ dir.kind \in {"whole", "torn"}
               \/ \E s \in Syncer : pc[s] = "cloning"
    /\ Solo => \A s \in Syncer :
           /\ Working(s) => row.status # "synced"
           /\ pc[s] \notin {"remove", "removing"}
           /\ pc[s] \in {"check", "clone"} => dir = Absent
           /\ pc[s] = "cloning" => dir.kind = "partial" /\ dir.writer = s
           /\ pc[s] \in {"fetch", "pull"} => dir.kind \in {"whole", "torn"}
           /\ pc[s] \in {"look", "fetch", "pull"} /\ dir.kind = "torn" =>
                  dir.head < since[s]
           /\ pc[s] = "pulling" => dir.kind = "torn" /\ dir.writer = s
           /\ pc[s] = "measure" => dir.kind = "whole"
           /\ pc[s] = "save" => dir.kind = "whole" /\ measured[s] \in {NoCommit, dir.head}

LEMMA SoloNext == TypeOK /\ SoloClone /\ [Next]_vars => SoloClone'
<1> SUFFICES ASSUME TypeOK, SoloClone, [Next]_vars PROVE SoloClone'
  OBVIOUS
<1> USE DEF TypeOK, SoloClone, Solo, Working, Goto, Directory, Absent, Bare,
            Partial, Torn, Whole, NoCommit
<1>1. ASSUME NEW s \in Syncer, RequestById(s)
      PROVE  SoloClone'
  BY <1>1 DEF RequestById, ById, CountRequest, database, disk
<1>2. ASSUME NEW s \in Syncer, GetOrCreate(s)
      PROVE  SoloClone'
  BY <1>2 DEF GetOrCreate, ByInput, CountRequest, database, disk
<1>3. ASSUME NEW s \in Syncer, NEW sync \in BOOLEAN, Insert(s, sync) PROVE SoloClone'
  BY <1>3 DEF Insert, disk, bounds
<1>4. ASSUME NEW s \in Syncer, Begin(s) \/ BeginRaises(s)
      PROVE  SoloClone'
  <2>1. CASE Begin(s)
    <3>1. row'.status = "syncing"
      BY <2>1 DEF Begin
    <3>2. /\ pc' = [pc EXCEPT ![s] = "look"]
          /\ UNCHANGED <<source_type, dir, orphan, measured>>
          /\ UNCHANGED <<requests, crashes>>
      BY <2>1 DEF Begin, disk, bounds
    <3> QED
      BY <2>1, <3>1, <3>2 DEF Begin
  <2>2. CASE BeginRaises(s)
    BY <2>2 DEF BeginRaises, database, disk, bounds
  <2> QED
    BY <1>4, <2>1, <2>2
<1>5. ASSUME NEW s \in Syncer, ValidateLocal(s) \/ Look(s) \/ Fetch(s) \/ GitFails(s)
                                 \/ PullUpToDate(s) \/ Check(s)
      PROVE  SoloClone'
  BY <1>5 DEF ValidateLocal, Look, Fetch, GitFails, PullUpToDate, Check, Step,
              OnlyThePc, NotTheRow, database, disk, bounds
<1>6. ASSUME NEW s \in Syncer, PullBegin(s) \/ PullEnd(s) \/ PullFails(s)
      PROVE  SoloClone'
  <2> USE DEF Step, NotTheRow, database, bounds
  <2>1. CASE PullBegin(s)
    BY <2>1 DEF PullBegin
  <2>2. CASE PullEnd(s)
    BY <2>2 DEF PullEnd, GitPulls
  <2>3. CASE PullFails(s)
    BY <2>3 DEF PullFails, GitPullFails
  <2> QED
    BY <1>6, <2>1, <2>2, <2>3
<1>7. ASSUME NEW s \in Syncer, RemoveBegin(s) \/ RemoveEnd(s) \/ RemoveRaises(s)
      PROVE  SoloClone'
  BY <1>7 DEF RemoveBegin, RemoveEnd, RemoveRaises, Step, OnlyThePc, NotTheRow,
              database, disk, bounds
<1>8. ASSUME NEW s \in Syncer, CloneBegin(s) \/ CloneRefused(s)
      PROVE  SoloClone'
  BY <1>8 DEF CloneBegin, CloneRefused, Step, OnlyThePc, NotTheRow, database, disk,
              bounds
<1>9. ASSUME NEW s \in Syncer, CloneFetched(s) \/ CloneEnd(s)
      PROVE  SoloClone'
  BY <1>9 DEF CloneFetched, CloneEnd, GitClones, Step, NotTheRow, database, bounds
<1>10. ASSUME NEW s \in Syncer, CloneFails(s)
      PROVE  SoloClone'
  BY <1>10 DEF CloneFails, GitCloneFails, Step, NotTheRow, database, bounds
<1>11. ASSUME NEW s \in Syncer, Measure(s)
      PROVE  SoloClone'
  BY <1>11 DEF Measure, Answers, Step, NotTheRow, database, disk, bounds
<1>12. ASSUME NEW s \in Syncer, Save(s)
      PROVE  SoloClone'
  BY <1>12 DEF Save, Forget, disk, bounds
<1>13. ASSUME NEW s \in Syncer, SaveRaises(s)
      PROVE  SoloClone'
  BY <1>13 DEF SaveRaises, Forget, Step, NotTheRow, database, disk, bounds
<1>14. ASSUME NEW s \in Syncer, Except(s) \/ ExceptRaises(s)
      PROVE  SoloClone'
  <2>1. CASE Except(s)
    <3>1. row'.status = "failed"
      BY <2>1 DEF Except
    <3>2. /\ pc' = [pc EXCEPT ![s] = "idle"]
          /\ UNCHANGED <<source_type, dir, orphan, measured>>
          /\ UNCHANGED <<requests, crashes>>
      BY <2>1 DEF Except, disk, bounds
    <3> QED
      BY <2>1, <3>1, <3>2 DEF Except
  <2>2. CASE ExceptRaises(s)
    BY <2>2 DEF ExceptRaises, disk, bounds
  <2> QED
    BY <1>14, <2>1, <2>2
<1>15. ASSUME NEW s \in Syncer, Crash(s) PROVE SoloClone'
  <2>1. /\ crashes' > 0 /\ requests' = requests
        /\ \A t \in Syncer : pc'[t] # "idle" => pc[t] # "idle"
    BY <1>15 DEF Crash
  <2>2. upstream' = upstream /\ since' = since
    BY <1>15 DEF Crash
  <2>3. dir'.kind = "torn" => dir.kind = "torn" /\ dir'.head = dir.head
    BY <1>15, CrashDirectory DEF DirOK, Bare
  <2> QED
    BY <2>1, <2>2, <2>3
<1>16. ASSUME Push \/ LocalPathChanges \/ OrphanStep \/ UNCHANGED vars PROVE SoloClone'
  <2>1. CASE Push \/ LocalPathChanges \/ UNCHANGED vars
    BY <2>1 DEF Push, LocalPathChanges, vars, database, disk, workers, bounds
  <2>2. CASE OrphanStep
    <3>1. ~Solo /\ ~Solo'
      BY <2>2 DEF OrphanStep, database, workers, bounds
    <3>2. dir'.kind = "torn" => dir.kind = "torn" /\ dir'.head = dir.head
      BY <2>2 DEF OrphanStep, GitPulls, GitPullFails, GitClones, GitCloneFails
    <3> QED
      BY <2>2, <3>1, <3>2 DEF OrphanStep, database, workers, bounds
  <2> QED
    BY <1>16, <2>1, <2>2
<1> QED
  BY <1>1, <1>2, <1>3, <1>4, <1>5, <1>6, <1>7, <1>8, <1>9, <1>10, <1>11, <1>12, <1>13,
     <1>14, <1>15, <1>16
     DEF Next, SyncStep, SyncWork

(* As long as one worker has served every request and was not killed, a    *)
(* row at synced describes a complete clone at the commit it names.        *)
THEOREM SyncedAlwaysHasClone == Spec => []SyncedHasClone
<1>1. Init => SoloClone
  BY DEF Init, SoloClone, Solo, Working, Directory, Absent, Whole
<1>2. SoloClone => SyncedHasClone
  BY DEF SoloClone, SyncedHasClone
<1> QED
  BY <1>1, <1>2, TypeCorrect, SoloNext, PTL DEF Spec
=============================================================================
