--------------------------- MODULE RepositorySync ---------------------------
(***************************************************************************)
(* The synchronisation of one repository.  Each request (the sync          *)
(* endpoint, the create endpoint, a new session, the admin action) runs    *)
(* RepositoryService.sync in its own worker: it marks the row syncing,     *)
(* brings the clone on the disk up to date with git, reads the commit and  *)
(* saves the outcome.  All workers share the row and the directory;        *)
(* nothing locks either, and a worker that is killed leaves both as they   *)
(* are, with its git perhaps still running.                                *)
(***************************************************************************)
EXTENDS Integers

CONSTANTS
    Syncer,        \* workers
    Orphan,        \* stands for a git whose worker is gone
    Nobody,        \* no git is writing the directory
    SourceTypes,   \* kinds of repositories: "github", "local"
    GitMayFail,    \* may a git command fail, rmtree raise?
    DbMayFail,     \* may a save raise?
    MaxRequests,   \* bound: requests of a worker
    MaxVersions,   \* bound: commits of the upstream
    MaxCrashes     \* bound: workers killed

ASSUME SyncerAssumption == Orphan # Nobody /\ {Orphan, Nobody} \cap Syncer = {}
ASSUME SourceAssumption == SourceTypes \subseteq {"github", "local"}
ASSUME SyncFailureAssumption == {GitMayFail, DbMayFail} \subseteq BOOLEAN
ASSUME SyncBoundAssumption ==
    MaxRequests \in Nat /\ MaxVersions \in Nat \ {0} /\ MaxCrashes \in Nat

(* Commits are numbered from 1.  git answers nothing, and "" is stored,    *)
(* when it fails; in a directory without .git it answers for the           *)
(* repository that encloses it, if there is one.                           *)
NoCommit == 0
Enclosing == -1
Commit == {Enclosing} \cup (NoCommit..MaxVersions)

(* A directory without .git is bare; a clone that git has not finished, or *)
(* that is partly removed, is partial; a clone that a pull is updating, or *)
(* has left half updated, is torn: each file is of HEAD or of a newer      *)
(* commit.  The writer is the worker whose git writes it, next the commit  *)
(* that it brings, and lock tells whether .git/index.lock is there.        *)
Directory(kind, head, next, writer, lock) ==
    [kind |-> kind, head |-> head, next |-> next, writer |-> writer, lock |-> lock]
Absent == Directory("absent", NoCommit, NoCommit, Nobody, "free")
Bare == Directory("bare", NoCommit, NoCommit, Nobody, "free")
Partial(head, writer, lock) == Directory("partial", head, NoCommit, writer, lock)
Torn(head, next, writer, lock) == Directory("torn", head, next, writer, lock)
Whole(head) == Directory("whole", head, NoCommit, Nobody, "free")

VARIABLES
    source_type, \* of the repository
    rows,        \* does the repository have its row (1) or none (0)?
    row,         \* sync_status, sync_error, current_commit_hash; local_path set?
    dir,         \* the directory of the repository
    upstream,    \* newest commit of the remote
    pc,          \* what each worker does next
    measured,    \* the commit hash each worker has read and not saved
    since,       \* observer: upstream when the worker's sync began
    orphan,      \* the git that runs without its worker: "clone", "pull", "none"
    cut,         \* observer: a sync was cut off after the last outcome
    requests, crashes   \* counters of the bounds

disk == <<dir, orphan>>
database == <<source_type, rows, row, cut>>
workers == <<pc, measured, since>>
bounds == <<requests, crashes>>
vars == <<database, disk, upstream, workers, bounds>>

Init ==
    /\ source_type \in SourceTypes
    /\ rows = 0
    /\ row = [status |-> "not_synced", error |-> "none", commit |-> NoCommit,
              located |-> source_type = "local"]
    /\ dir = IF source_type = "github" THEN Absent ELSE Whole(1)
    /\ upstream = 1
    /\ pc = [s \in Syncer |-> "idle"]
    /\ measured = [s \in Syncer |-> NoCommit]
    /\ since = [s \in Syncer |-> 1]
    /\ orphan = "none" /\ cut = FALSE
    /\ requests = [s \in Syncer |-> 0] /\ crashes = 0

Goto(s, label) == pc' = [pc EXCEPT ![s] = label]
Working(s) == pc[s] \notin {"idle", "insert", "begin"}

-----------------------------------------------------------------------------
(* Requests.                                                               *)

CountRequest(s) ==
    /\ pc[s] = "idle" /\ requests[s] < MaxRequests
    /\ requests' = [requests EXCEPT ![s] = requests[s] + 1]

(* What becomes of a request for the repository; "begin" starts a sync.    *)
(* By id: a repository that is not there is a 404.                         *)
ById(s) ==
    /\ Goto(s, IF rows > 0 THEN "begin" ELSE "idle")
    /\ UNCHANGED <<database, disk, upstream, measured, since, crashes>>
RequestById(s) == CountRequest(s) /\ ById(s)

(* By URL or path: the SELECT of get_or_create.  A path that is no         *)
(* directory is refused; sync is optional.                                 *)
ByInput(s, sync) ==
    /\ Goto(s, IF source_type = "local" /\ dir = Absent THEN "idle"
               ELSE IF rows = 0 THEN "insert"
               ELSE IF sync THEN "begin" ELSE "idle")
    /\ UNCHANGED <<database, disk, upstream, measured, since, crashes>>
GetOrCreate(s) == CountRequest(s) /\ \E sync \in BOOLEAN : ByInput(s, sync)

(* Its INSERT.  The unique constraint of the database refuses a second row *)
(* and a second SELECT finds the first: one way or the other there is one. *)
Insert(s, sync) ==
    /\ pc[s] = "insert"
    /\ rows' = 1
    /\ Goto(s, IF sync THEN "begin" ELSE "idle")
    /\ UNCHANGED <<source_type, row, cut, disk, upstream, measured, since, bounds>>

-----------------------------------------------------------------------------
(* RepositoryService.sync.                                                 *)

(* Fault: the error of the last sync is kept.                              *)
BeginKeepsError(s) ==
    /\ pc[s] = "begin"
    /\ row' = [row EXCEPT !.status = "syncing"]
    /\ since' = [since EXCEPT ![s] = upstream]
    /\ Goto(s, "look")
    /\ UNCHANGED <<source_type, rows, cut, disk, upstream, measured, bounds>>

Begin(s) ==
    /\ pc[s] = "begin"
    /\ row' = [row EXCEPT !.status = "syncing", !.error = "none"]
    /\ since' = [since EXCEPT ![s] = upstream]
    /\ Goto(s, "look")
    /\ UNCHANGED <<source_type, rows, cut, disk, upstream, measured, bounds>>

(* The INSERT and the first save are outside the try: the row stays as it  *)
(* was.                                                                    *)
BeginRaises(s) ==
    /\ DbMayFail /\ pc[s] \in {"insert", "begin"}
    /\ Goto(s, "idle")
    /\ UNCHANGED <<database, disk, upstream, measured, since, bounds>>

(* A step of the worker on the disk, from one label to another.            *)
Step(s, from, to) == pc[s] = from /\ Goto(s, to)
NotTheRow == UNCHANGED <<database, upstream, since, bounds>>
OnlyThePc == NotTheRow /\ UNCHANGED <<disk, measured>>

(* validate_local_repository.                                              *)
ValidateLocal(s) ==
    /\ source_type = "local"
    /\ Step(s, "look", IF dir = Absent THEN "except" ELSE "measure")
    /\ OnlyThePc

(* Fault: the clone is always made anew.                                   *)
LookNeverReuses(s) ==
    /\ source_type = "github"
    /\ Step(s, "look", "check")
    /\ OnlyThePc

(* clone_or_update_github_repository: is there a clone?                    *)
Look(s) ==
    /\ source_type = "github"
    /\ Step(s, "look",
            IF dir.kind \in {"partial", "torn", "whole"} THEN "fetch" ELSE "check")
    /\ OnlyThePc

(* git stops before it changes anything: on any error, and certainly where *)
(* files are missing or changed, or another git has left its lock.         *)
GitMayRefuse == GitMayFail \/ dir.kind # "whole"

(* Fault: a failed pull is tried again without an end.                     *)
GitFailsRetried(s) ==
    /\ pc[s] \in {"fetch", "pull"} /\ GitMayRefuse
    /\ Goto(s, "fetch")
    /\ OnlyThePc
(* git fetch, git pull: an error message fails the sync.                   *)
GitFails(s) ==
    /\ pc[s] \in {"fetch", "pull"} /\ GitMayRefuse
    /\ Goto(s, "except")
    /\ OnlyThePc
(* Fault: what was fetched is not merged.                                  *)
FetchOnly(s) ==
    /\ dir # Absent
    /\ Step(s, "fetch", "measure")
    /\ OnlyThePc
Fetch(s) ==
    /\ dir # Absent
    /\ Step(s, "fetch", "pull")
    /\ OnlyThePc
(* git pull has fetched what the remote had at some time since the sync    *)
(* began.  There may be nothing to do: HEAD is not older, or it is the     *)
(* enclosing repository that is pulled.                                    *)
PullUpToDate(s) ==
    /\ \/ dir.kind = "bare"
       \/ dir.head # NoCommit /\ \E fetched \in since[s]..upstream : fetched <= dir.head
    /\ Step(s, "pull", "measure")
    /\ OnlyThePc
(* It takes the lock of the index and rewrites the files one by one.  In a *)
(* partial clone it does not bring back the files that are missing.        *)
PullBegin(s) ==
    /\ dir.lock = "free" /\ dir.head # NoCommit
    /\ \E fetched \in since[s]..upstream :
           /\ fetched > dir.head
           /\ \/ /\ dir.kind \in {"whole", "torn"}
                 /\ dir' = Torn(dir.head, fetched, s, "locked")
                 /\ Step(s, "pull", "pulling")
              \/ /\ dir.kind = "partial" /\ dir' = [dir EXCEPT !.head = fetched]
                 /\ Step(s, "pull", "measure")
    /\ NotTheRow /\ UNCHANGED <<measured, orphan>>

(* At last HEAD is moved, and the lock is gone.  w is the worker, or the   *)
(* Orphan for a git alone.  When somebody removes what git is writing, git *)
(* ends before that, or it fails.                                          *)
GitPulls(w) == dir.kind = "torn" /\ dir.writer = w /\ dir' = Whole(dir.next)
(* It fails with some files rewritten (a full disk, a signal).             *)
GitPullFails(w) ==
    IF dir.kind = "torn" /\ dir.writer = w
    THEN GitMayFail /\ dir' = Torn(dir.head, NoCommit, Nobody, "free")
    ELSE UNCHANGED dir
PullEnd(s) ==
    /\ GitPulls(s)
    /\ Step(s, "pulling", "measure")
    /\ NotTheRow /\ UNCHANGED <<measured, orphan>>
PullFails(s) ==
    /\ GitPullFails(s)
    /\ Step(s, "pulling", "except")
    /\ NotTheRow /\ UNCHANGED <<measured, orphan>>

(* What is there without .git is removed.                                  *)
Check(s) ==
    /\ Step(s, "check", IF dir = Absent THEN "clone" ELSE "remove")
    /\ OnlyThePc

(* shutil.rmtree takes the directory apart; it raises when somebody else   *)
(* has removed it or puts files in it.                                     *)
RemoveBegin(s) ==
    /\ dir # Absent
    /\ \/ dir' = Bare
       \/ dir.kind # "bare" /\ dir' = Partial(dir.head, Nobody, "free")
    /\ Step(s, "remove", "removing")
    /\ NotTheRow /\ UNCHANGED <<measured, orphan>>
RemoveEnd(s) ==
    /\ dir # Absent /\ dir' = Absent
    /\ Step(s, "removing", "clone")
    /\ NotTheRow /\ UNCHANGED <<measured, orphan>>
RemoveRaises(s) ==
    /\ pc[s] \in {"remove", "removing"}
    /\ dir = Absent \/ GitMayFail
    /\ Goto(s, "except")
    /\ OnlyThePc

(* git clone starts only where there is nothing, at most an empty          *)
(* directory.                                                              *)
CloneBegin(s) ==
    /\ dir.kind \in {"absent", "bare"}
    /\ dir' = Partial(NoCommit, s, "free")
    /\ Step(s, "clone", "cloning")
    /\ NotTheRow /\ UNCHANGED <<measured, orphan>>
CloneRefused(s) ==
    /\ dir # Absent \/ GitMayFail
    /\ Step(s, "clone", "except")
    /\ OnlyThePc
(* First HEAD is there, then the files are checked out.  A clone that      *)
(* fails removes its directory, by its name.                               *)
GitClones(w) ==
    /\ dir.kind = "partial" /\ dir.writer = w
    /\ dir' = IF dir.head = NoCommit THEN Partial(upstream, w, "locked")
              ELSE Whole(dir.head)
GitCloneFails(w) == (GitMayFail \/ dir.writer # w) /\ dir' = Absent
CloneFetched(s) ==
    /\ dir.head = NoCommit /\ GitClones(s)
    /\ Step(s, "cloning", "cloning")
    /\ NotTheRow /\ UNCHANGED <<measured, orphan>>
CloneEnd(s) ==
    /\ dir.head # NoCommit /\ GitClones(s)
    /\ Step(s, "cloning", "measure")
    /\ NotTheRow /\ UNCHANGED <<measured, orphan>>
(* Fault: the return code of git is not looked at.                         *)
CloneFailsUnseen(s) ==
    /\ GitCloneFails(s)
    /\ Step(s, "cloning", "measure")
    /\ NotTheRow /\ UNCHANGED <<measured, orphan>>
CloneFails(s) ==
    /\ GitCloneFails(s)
    /\ Step(s, "cloning", "except")
    /\ NotTheRow /\ UNCHANGED <<measured, orphan>>

(* What git rev-parse HEAD may answer in the directory.                    *)
Answers ==
    (IF GitMayFail \/ dir.kind # "whole" THEN {NoCommit} ELSE {})
        \cup (IF dir.kind = "bare" THEN {Enclosing} ELSE {dir.head})

(* Fault: the except clause returns None.                                  *)
MeasureReturnsNone(s) ==
    /\ \E answer \in Answers :
           measured' = [measured EXCEPT ![s] = IF answer = NoCommit THEN -2 ELSE answer]
    /\ Step(s, "measure", "save")
    /\ NotTheRow /\ UNCHANGED disk

(* get_current_commit_hash, which swallows git's errors.                   *)
Measure(s) ==
    /\ \E answer \in Answers : measured' = [measured EXCEPT ![s] = answer]
    /\ Step(s, "measure", "save")
    /\ NotTheRow /\ UNCHANGED disk

Forget(s) == measured' = [measured EXCEPT ![s] = NoCommit]

(* The outcomes, each one save.                                            *)
Save(s) ==
    /\ pc[s] = "save"
    /\ row' = [status |-> "synced", error |-> "none", commit |-> measured[s],
               located |-> TRUE]
    /\ cut' = FALSE
    /\ Goto(s, "idle") /\ Forget(s)
    /\ UNCHANGED <<source_type, rows, disk, upstream, since, bounds>>
SaveRaises(s) ==
    /\ DbMayFail
    /\ Step(s, "save", "except") /\ Forget(s)
    /\ NotTheRow /\ UNCHANGED disk
(* Fault: the except clause only saves the error.                          *)
ExceptKeepsStatus(s) ==
    /\ pc[s] = "except"
    /\ row' = [row EXCEPT !.error = "exc"]
    /\ Goto(s, "idle")
    /\ UNCHANGED <<source_type, rows, cut, disk, upstream, measured, since,
                   bounds>>
Except(s) ==
    /\ pc[s] = "except"
    /\ row' = [row EXCEPT !.status = "failed", !.error = "exc"]
    /\ cut' = FALSE
    /\ Goto(s, "idle")
    /\ UNCHANGED <<source_type, rows, disk, upstream, measured, since, bounds>>
(* The save of the except clause raises: the sync is cut off.              *)
ExceptRaises(s) ==
    /\ DbMayFail /\ pc[s] = "except"
    /\ cut' = TRUE
    /\ Goto(s, "idle")
    /\ UNCHANGED <<source_type, rows, row, disk, upstream, measured, since,
                   bounds>>

-----------------------------------------------------------------------------
(* The environment.                                                        *)

(* The remote, or the owner of the local path, commits.                    *)
Push ==
    /\ upstream < MaxVersions
    /\ upstream' = upstream + 1
    /\ dir' = IF source_type = "local" THEN Whole(upstream + 1) ELSE dir
    /\ UNCHANGED <<database, orphan, workers, bounds>>

(* The owner of a local path moves it away, or drops its .git.             *)
LocalPathChanges ==
    /\ source_type = "local"
    /\ dir' \in {Absent, Bare}
    /\ UNCHANGED <<database, orphan, upstream, workers, bounds>>

(* A git that writes the directory is killed: a pull may leave its lock, a *)
(* clone leaves it once it checks out, and may not have made .git before.  *)
GitDies ==
    \/ \E lock \in {"free", "locked"} :
           /\ dir.kind # "torn" => lock = dir.lock
           /\ dir' = Directory(dir.kind, dir.head, NoCommit, Nobody, lock)
    \/ dir.head = NoCommit /\ dir' = Bare

(* A worker is killed and replaced.  Its git goes on (one at most), or     *)
(* dies with it.                                                           *)
Crash(s) ==
    /\ crashes < MaxCrashes
    /\ crashes' = crashes + 1
    /\ cut' = (cut \/ Working(s))
    /\ Goto(s, "idle") /\ Forget(s)
    /\ \/ /\ pc[s] \in {"pulling", "cloning"} /\ orphan = "none"
          /\ orphan' = IF pc[s] = "pulling" THEN "pull" ELSE "clone"
          /\ dir' = IF dir.writer = s THEN [dir EXCEPT !.writer = Orphan] ELSE dir
       \/ /\ pc[s] \in {"pulling", "cloning"} /\ UNCHANGED orphan
          /\ IF dir.writer = s THEN GitDies ELSE UNCHANGED dir
       \/ /\ pc[s] \notin {"pulling", "cloning"} /\ UNCHANGED disk
    /\ UNCHANGED <<source_type, rows, row, upstream, since, requests>>

OrphanStep ==
    /\ \/ /\ orphan = "pull" /\ orphan' = "none"
          /\ GitPulls(Orphan) \/ GitPullFails(Orphan)
       \/ /\ orphan = "clone" /\ GitClones(Orphan)
          /\ orphan' = IF dir.head = NoCommit THEN "clone" ELSE "none"
       \/ /\ orphan = "clone" /\ orphan' = "none"
          /\ GitCloneFails(Orphan)
    /\ UNCHANGED <<database, upstream, workers, bounds>>

-----------------------------------------------------------------------------
SyncWork(s) ==
    \/ Begin(s) \/ BeginRaises(s) \/ ValidateLocal(s) \/ Look(s)
    \/ Fetch(s) \/ GitFails(s)
    \/ PullUpToDate(s) \/ PullBegin(s) \/ PullEnd(s) \/ PullFails(s)
    \/ Check(s) \/ RemoveBegin(s) \/ RemoveEnd(s) \/ RemoveRaises(s)
    \/ CloneBegin(s) \/ CloneRefused(s)
    \/ CloneFetched(s) \/ CloneEnd(s) \/ CloneFails(s)
    \/ Measure(s) \/ Save(s) \/ SaveRaises(s) \/ Except(s) \/ ExceptRaises(s)
SyncStep(s) == (\E sync \in BOOLEAN : Insert(s, sync)) \/ SyncWork(s)

Next ==
    \/ \E s \in Syncer : RequestById(s) \/ GetOrCreate(s) \/ SyncStep(s) \/ Crash(s)
    \/ Push \/ LocalPathChanges \/ OrphanStep

Spec == Init /\ [][Next]_vars

(* A worker that is not killed goes on, and git commands end.              *)
FairSpec == Spec /\ \A s \in Syncer : WF_vars(SyncStep(s))

-----------------------------------------------------------------------------
(* Type invariant; the hashes are commits that exist.                      *)
TypeOK ==
    /\ source_type \in SourceTypes
    /\ rows \in 0..1
    /\ row \in [status : {"not_synced", "syncing", "synced", "failed"},
                error : {"none", "exc"}, commit : Commit, located : BOOLEAN]
    /\ dir \in [kind : {"absent", "bare", "partial", "torn", "whole"},
                head : NoCommit..upstream, next : NoCommit..upstream,
                writer : Syncer \cup {Orphan, Nobody}, lock : {"free", "locked"}]
    /\ upstream \in 1..MaxVersions
    /\ pc \in [Syncer -> {"idle", "insert", "begin", "look", "fetch", "pull", "pulling",
                          "check", "remove", "removing", "clone", "cloning", "measure",
                          "save", "except"}]
    /\ measured \in [Syncer -> Commit]
    /\ since \in [Syncer -> 1..upstream]
    /\ orphan \in {"none", "clone", "pull"} /\ cut \in BOOLEAN
    /\ requests \in [Syncer -> 0..MaxRequests] /\ crashes \in 0..MaxCrashes

Quiet == \A s \in Syncer : ~Working(s)

(* A row that says syncing has a worker that will still write an outcome,  *)
(* unless one was killed, or its last save failed, since the last outcome. *)
SyncingHasSync == row.status = "syncing" => cut \/ ~Quiet

(* sync_error is set exactly when the status is failed, however the saves  *)
(* of concurrent syncs interleave.                                         *)
FailedExplained == row.error # "none" <=> row.status = "failed"

(* Use latest available code: a sync reports a commit that was the newest  *)
(* when it began or is newer, or it could not read the hash of the         *)
(* directory at all.                                                       *)
SavedIsFresh ==
    \A s \in Syncer : pc[s] = "save" /\ measured[s] \notin {NoCommit, Enclosing}
                          => measured[s] >= since[s]

(* One worker has served all the requests so far and was never killed.     *)
Solo ==
    /\ source_type = "github" /\ crashes = 0
    /\ \A s, t \in Syncer : requests[s] > 0 /\ requests[t] > 0 => s = t

(* With one worker that is not killed, a synced row describes the clone:   *)
(* it is complete and at the commit of the row.                            *)
SyncedHasClone ==
    Solo /\ Quiet /\ row.status = "synced" =>
        dir.kind = "whole" /\ row.commit \in {NoCommit, dir.head}

(* Somebody has found no .git, or cloned, and not come to the end of it.   *)
CloneBranch == {"check", "remove", "removing", "clone", "cloning"}
CloneSafe ==
    /\ source_type = "github" /\ dir.kind \in {"whole", "torn"}
    /\ orphan # "clone" /\ \A s \in Syncer : pc[s] \notin CloneBranch
(* Once a clone was complete and nobody is left who found none before, no  *)
(* sync, failure or kill, in the middle of a pull or elsewhere, removes it *)
(* or takes its HEAD back; all that they can do is leave it half updated.  *)
CloneStaysSafe == [][CloneSafe => CloneSafe' /\ dir'.head >= dir.head]_vars

(* README.md: "Reuse already cloned repositories".  A complete clone is    *)
(* updated, never removed.                                                 *)
CloneKept ==
    [][dir.kind \in {"whole", "torn"} => dir'.kind \in {"whole", "torn"}]_vars

(* A sync that was accepted is answered, whatever fails.                   *)
SyncEnds == \A s \in Syncer : pc[s] # "idle" ~> pc[s] = "idle"
=============================================================================
