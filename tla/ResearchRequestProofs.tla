------------------------ MODULE ResearchRequestProofs ------------------------
(***************************************************************************)
(* Theorems about ResearchRequest for any number of workers.               *)
(***************************************************************************)
EXTENDS ResearchRequest, RepositorySyncProofs

USE RerunAssumption

(* RequestTypeOK in parts: the shapes, and how stages and syncs agree.     *)
StagesOK ==
    /\ stage \in [Syncer -> {"none", "resolve", "create", "start", "open", "search",
                             "read", "write"}]
    /\ wants \in [Syncer -> BOOLEAN]
LookOf(newest) ==
    [kind : {"absent", "bare", "partial", "torn", "whole"}, head : NoCommit..newest]
SessionOf(newest) ==
    [status : {"none", "pending", "running", "completed", "failed"},
     synced : BOOLEAN, calm : BOOLEAN, asof : 1..newest,
     path : {"none", "own", "server"}, reruns : 0..MaxReruns,
     seen : SUBSET LookOf(newest)]
SessionsOK == session \in [Syncer -> SessionOf(upstream)]
StagesAgree ==
    \A s \in Syncer :
        /\ stage[s] \notin {"none", "resolve"} => pc[s] = "idle"
        /\ stage[s] = "resolve" => pc[s] # "idle"
        /\ stage[s] \notin {"none", "resolve", "create"} => session[s].status # "none"

LEMMA RequestTypeParts == RequestTypeOK <=> StagesOK /\ SessionsOK /\ StagesAgree
BY DEF RequestTypeOK, StagesOK, SessionsOK, SessionOf, LookOf, StagesAgree

LEMMA StagesNext == StagesOK /\ [RequestNext]_rvars => StagesOK'
<1> SUFFICES ASSUME StagesOK, [RequestNext]_rvars PROVE StagesOK'
  OBVIOUS
<1> USE DEF StagesOK, Enter
<1>1. ASSUME NEW s \in Syncer, RepositoryRequest(s) \/ RepositoryStep(s) PROVE StagesOK'
  BY <1>1 DEF RepositoryRequest, RepositoryStep
<1>2. ASSUME NEW s \in Syncer, StartSession(s) PROVE StagesOK'
  BY <1>2 DEF StartSession, StartById, StartByInput
<1>3. ASSUME NEW s \in Syncer, Resolve(s) PROVE StagesOK'
  BY <1>3 DEF Resolve
<1>4. ASSUME NEW s \in Syncer, CreateSession(s) \/ CreateFails(s) \/ RunExisting(s)
      PROVE  StagesOK'
  BY <1>4 DEF CreateSession, CreateFails, RunExisting
<1>5. ASSUME NEW s \in Syncer,
             \/ StartRun(s) \/ OpenRepository(s) \/ Search(s) \/ ReadFile(s)
             \/ RunFails(s) \/ Complete(s)
      PROVE  StagesOK'
  BY <1>5 DEF StartRun, OpenRepository, Search, ReadFile, RunFails, Complete, RunStep
<1>6. ASSUME NEW s \in Syncer, Kill(s) PROVE StagesOK'
  BY <1>6 DEF Kill
<1>7. ASSUME UNCHANGED <<stage, wants>> PROVE StagesOK'
  BY <1>7
<1> QED
  BY <1>1, <1>2, <1>3, <1>4, <1>5, <1>6, <1>7 DEF RequestNext, SessionStep, rvars

-----------------------------------------------------------------------------
(* What a worker does for a session changes the repository only as one     *)
(* that serves repository requests does.                                   *)
LEMMA StartSimulates ==
    ASSUME TypeOK, NEW s \in Syncer, StartSession(s) PROVE Next
<1> USE DEF TypeOK
<1>1. PICK sync \in BOOLEAN : StartById(s, sync) \/ StartByInput(s, sync)
  BY DEF StartSession
<1>2. Idle(s) /\ CountRequest(s)
  BY DEF StartSession
<1>3. CASE StartById(s, sync) /\ sync
  BY <1>2, <1>3 DEF StartById, RequestById, Next
<1>4. CASE StartById(s, sync) /\ ~sync /\ rows = 0
  <2>1. pc' = [pc EXCEPT ![s] = "idle"]
    BY <1>2, <1>4 DEF StartById, Idle, workers
  <2>2. ById(s)
    BY <1>4, <2>1 DEF StartById, ById, Goto, workers
  <2> QED
    BY <1>2, <2>2 DEF RequestById, Next
<1>5. CASE StartById(s, sync) /\ ~sync /\ rows # 0
  <2>1. pc' = [pc EXCEPT ![s] = "idle"]
    BY <1>2, <1>5 DEF StartById, Idle, workers
  <2>2. ByInput(s, FALSE)
    BY <1>2, <1>5, <2>1 DEF StartById, ByInput, Goto, workers
  <2> QED
    BY <1>2, <2>2 DEF GetOrCreate, Next
<1>6. CASE StartByInput(s, sync)
  BY <1>2, <1>6 DEF StartByInput, GetOrCreate, Next
<1> QED
  BY <1>1, <1>3, <1>4, <1>5, <1>6

LEMMA Simulates == TypeOK /\ StagesOK /\ [RequestNext]_rvars => [Next]_vars
<1> SUFFICES ASSUME TypeOK, StagesOK, [RequestNext]_rvars PROVE [Next]_vars
  OBVIOUS
<1>1. ASSUME NEW s \in Syncer, RepositoryRequest(s) PROVE Next
  BY <1>1 DEF RepositoryRequest, Next
<1>2. ASSUME NEW s \in Syncer, RepositoryStep(s) PROVE Next
  BY <1>2 DEF RepositoryStep, Next
<1>3. ASSUME NEW s \in Syncer, StartSession(s) PROVE Next
  BY <1>3, StartSimulates
<1>4. ASSUME NEW s \in Syncer, Resolve(s) PROVE Next
  <2>1. wants[s] \in BOOLEAN
    BY DEF StagesOK
  <2> QED
    BY <1>4, <2>1 DEF Resolve, SyncStep, Next
<1>5. ASSUME NEW s \in Syncer,
             \/ RunExisting(s) \/ CreateSession(s) \/ CreateFails(s) \/ StartRun(s)
             \/ OpenRepository(s) \/ Search(s) \/ ReadFile(s) \/ RunFails(s) \/ Complete(s)
      PROVE  UNCHANGED vars
  BY <1>5 DEF RunExisting, CreateSession, CreateFails, StartRun, OpenRepository, Search,
              ReadFile, RunFails, Complete, RunStep
<1>6. ASSUME NEW s \in Syncer, Kill(s) PROVE Next
  BY <1>6 DEF Kill, Next
<1>7. CASE UNCHANGED rvars
  BY <1>7 DEF rvars
<1> QED
  BY <1>1, <1>2, <1>3, <1>4, <1>5, <1>6, <1>7 DEF RequestNext, SessionStep, Next

LEMMA RequestSyncType == RequestSpec => [](TypeOK /\ StagesOK)
<1>1. RequestInit => Init /\ StagesOK
  BY DEF RequestInit, StagesOK
<1> QED
  BY <1>1, TypeInit, TypeNext, StagesNext, Simulates, PTL DEF RequestSpec

(* Sessions only synchronise: the theorems of RepositorySyncProofs hold    *)
(* for a server that also starts and runs sessions.                        *)
THEOREM RequestsImplementSync == RequestSpec => ImplementsSync
<1>1. RequestInit => Init
  BY DEF RequestInit
<1> QED
  BY <1>1, RequestSyncType, Simulates, PTL DEF RequestSpec, ImplementsSync, Spec

(* What a synchronisation promises of row and clone it keeps while any     *)
(* number of workers also start, run and rerun sessions.                   *)
THEOREM RequestsKeepRow ==
    RequestSpec => [](/\ SyncingHasSync /\ FailedExplained
                      /\ SavedIsFresh /\ SyncedHasClone)
BY RequestsImplementSync, SyncingAlwaysHasSync, FailedAlwaysExplained,
   SavedAlwaysFresh, SyncedAlwaysHasClone, PTL DEF ImplementsSync

(* Starting, running and rerunning sessions loses no safe clone either.    *)
THEOREM RequestsKeepClone == RequestSpec => CloneStaysSafe
BY RequestsImplementSync, CloneAlwaysStaysSafe, PTL DEF ImplementsSync

-----------------------------------------------------------------------------
(* What steps of a synchronisation do that sessions rely on.               *)
LEMMA OnlyOwnPc ==
    ASSUME TypeOK, NEW s \in Syncer,
           RequestById(s) \/ GetOrCreate(s) \/ SyncStep(s) \/ Crash(s)
    PROVE  \A t \in Syncer \ {s} : pc'[t] = pc[t]
BY DEF TypeOK, RequestById, ById, GetOrCreate, ByInput, CountRequest, SyncStep, SyncWork,
       Insert, Begin, BeginRaises, ValidateLocal, Look, Fetch, GitFails, PullUpToDate,
       PullBegin, PullEnd, PullFails, Check,
       RemoveBegin, RemoveEnd, RemoveRaises, CloneBegin, CloneRefused, CloneFetched,
       CloneEnd,
       CloneFails, Measure, Save, SaveRaises, Except, ExceptRaises, Crash, Step,
       OnlyThePc, NotTheRow, Goto

LEMMA SyncedSaves ==
    ASSUME TypeOK, NEW s \in Syncer, SyncWork(s), pc[s] = "save", pc'[s] = "idle"
    PROVE  row'.located = TRUE /\ UNCHANGED <<disk, upstream, since>>
<1>1. Save(s)
  BY DEF TypeOK, SyncWork, Begin, BeginRaises, ValidateLocal, Look, Fetch, GitFails,
         PullUpToDate, PullBegin, PullEnd, PullFails,
         Check, RemoveBegin, RemoveEnd, RemoveRaises, CloneBegin, CloneRefused,
         CloneFetched, CloneEnd,
         CloneFails, Measure, SaveRaises, Except, ExceptRaises, Step, Goto
<1> QED
  BY <1>1 DEF Save

(* A path that was found once is never lost, and commits are not undone.   *)
LEMMA LocatedStays ==
    ASSUME TypeOK, [Next]_vars
    PROVE  (row.located => row'.located) /\ upstream' >= upstream
<1> DEFINE Goal == (row.located => row'.located) /\ upstream' >= upstream
<1>0. upstream \in Int
  BY DEF TypeOK
<1>1. ASSUME NEW s \in Syncer, Save(s) PROVE Goal
  <2>1. row'.located = TRUE /\ UNCHANGED upstream
    BY <1>1 DEF Save
  <2> QED
    BY <1>0, <2>1
<1>2. ASSUME NEW s \in Syncer, Begin(s) \/ Except(s) PROVE Goal
  <2>1. row'.located = row.located /\ UNCHANGED upstream
    BY <1>2 DEF TypeOK, Begin, Except
  <2> QED
    BY <1>0, <2>1
<1>3. ASSUME NEW s \in Syncer, SyncWork(s), ~Begin(s), ~Save(s), ~Except(s) PROVE Goal
  <2>1. UNCHANGED <<row, upstream>>
    BY <1>3 DEF SyncWork, BeginRaises, ValidateLocal, Look, Fetch, GitFails, PullUpToDate,
                PullBegin, PullEnd, PullFails, Check, RemoveBegin, RemoveEnd, RemoveRaises,
                CloneBegin, CloneRefused, CloneFetched, CloneEnd, CloneFails, Measure,
                SaveRaises, ExceptRaises, OnlyThePc, NotTheRow, database
  <2> QED
    BY <1>0, <2>1
<1>4. ASSUME NEW s \in Syncer, RequestById(s) \/ GetOrCreate(s) \/ Crash(s) PROVE Goal
  <2>1. UNCHANGED <<row, upstream>>
    BY <1>4 DEF RequestById, ById, GetOrCreate, ByInput, Crash, database
  <2> QED
    BY <1>0, <2>1
<1>5. ASSUME NEW s \in Syncer, NEW sync \in BOOLEAN, Insert(s, sync) PROVE Goal
  BY <1>0, <1>5 DEF Insert
<1>6. CASE Push \/ LocalPathChanges \/ OrphanStep \/ UNCHANGED vars
  <2>1. row' = row /\ upstream' \in {upstream, upstream + 1}
    BY <1>6 DEF Push, LocalPathChanges, OrphanStep, vars, database
  <2> QED
    BY <1>0, <2>1
<1> QED
  BY <1>1, <1>2, <1>3, <1>4, <1>5, <1>6 DEF Next, SyncStep

-----------------------------------------------------------------------------
(* A session that was started with a synchronisation has a repository      *)
(* whose path is known, and so had the request that creates it.            *)
SearchInv ==
    \A s \in Syncer :
        /\ stage[s] = "create" /\ wants[s] => row.located
        /\ session[s].synced => row.located /\ session[s].path # "server"

LEMMA SearchNext ==
    ASSUME TypeOK, StagesOK, SessionsOK, SearchInv, [RequestNext]_rvars PROVE SearchInv'
<1> USE DEF StagesOK, SessionsOK, SessionOf, SearchInv, Enter
<1>1. row.located => row'.located
  BY Simulates, LocatedStays
<1>2. ASSUME NEW s \in Syncer, RepositoryRequest(s) \/ RepositoryStep(s) PROVE SearchInv'
  BY <1>1, <1>2 DEF RepositoryRequest, RepositoryStep
<1>3. ASSUME NEW s \in Syncer, StartSession(s) PROVE SearchInv'
  <2>1. PICK sync \in BOOLEAN : /\ wants' = [wants EXCEPT ![s] = sync]
                                /\ StartById(s, sync) \/ StartByInput(s, sync)
    BY <1>3 DEF StartSession
  <2>2. session' = session
    BY <1>3 DEF StartSession
  <2>3. StartById(s, sync) => (stage'[s] = "create" => ~sync)
    BY DEF StartById
  <2>4. StartByInput(s, sync) => (stage'[s] = "create" => ~sync)
    <3>1. CASE rows = 0
      BY <3>1 DEF StartByInput, ByInput, Goto, TypeOK
    <3>2. CASE rows # 0
      BY <3>2 DEF StartByInput, ByInput, Goto, TypeOK
    <3> QED
      BY <3>1, <3>2
  <2>5. \A t \in Syncer \ {s} : stage'[t] = stage[t]
    BY <2>1 DEF StartById, StartByInput
  <2> QED
    BY <1>1, <2>1, <2>2, <2>3, <2>4, <2>5
<1>4. ASSUME NEW s \in Syncer, Resolve(s) PROVE SearchInv'
  <2>1. UNCHANGED <<wants, session>> /\ \A t \in Syncer \ {s} : stage'[t] = stage[t]
    BY <1>4 DEF Resolve
  <2>2. stage'[s] = "create" /\ wants[s] => row'.located
    <3>1. CASE Insert(s, wants[s])
      BY <1>4, <3>1 DEF Resolve, Insert, SyncWork, Begin, BeginRaises, ValidateLocal, Look,
            Fetch, GitFails, PullUpToDate, PullBegin, PullEnd, PullFails, Check,
            RemoveBegin, RemoveEnd, RemoveRaises, CloneBegin,
            CloneRefused, CloneFetched, CloneEnd, CloneFails, Measure, Save, SaveRaises,
            Except,
            ExceptRaises, Step
    <3>2. CASE SyncWork(s) /\ pc[s] = "save" /\ pc'[s] = "idle"
      BY <3>2, SyncedSaves
    <3>3. CASE SyncWork(s) /\ ~(pc[s] = "save" /\ pc'[s] = "idle") /\ ~Insert(s, wants[s])
      BY <1>4, <3>3 DEF Resolve
    <3> QED
      BY <1>4, <3>1, <3>2, <3>3 DEF Resolve
  <2> QED
    BY <1>1, <2>1, <2>2
<1>5. ASSUME NEW s \in Syncer, CreateSession(s) PROVE SearchInv'
  BY <1>1, <1>5 DEF CreateSession, NoSession
<1>6. ASSUME NEW s \in Syncer, CreateFails(s) \/ RunExisting(s) PROVE SearchInv'
  BY <1>1, <1>6 DEF CreateFails, RunExisting
<1>7. ASSUME NEW s \in Syncer, OpenRepository(s) PROVE SearchInv'
  BY <1>1, <1>7 DEF OpenRepository, RunStep
<1>8. ASSUME NEW s \in Syncer,
             StartRun(s) \/ Search(s) \/ ReadFile(s) \/ RunFails(s) \/ Complete(s)
      PROVE  SearchInv'
  BY <1>1, <1>8 DEF StartRun, Search, ReadFile, RunFails, Complete, Looks, RunStep
<1>9. ASSUME NEW s \in Syncer, Kill(s) PROVE SearchInv'
  BY <1>1, <1>9 DEF Kill
<1>10. ASSUME UNCHANGED <<stage, wants, session>> PROVE SearchInv'
  BY <1>1, <1>10
<1> QED
  BY <1>2, <1>3, <1>4, <1>5, <1>6, <1>7, <1>8, <1>9, <1>10
     DEF RequestNext, SessionStep, rvars

-----------------------------------------------------------------------------
(* The types of sessions, and that stages and synchronisations agree.      *)
LEMMA SessionOfGrows ==
    ASSUME NEW u \in Nat, NEW v \in Nat, v >= u PROVE SessionOf(u) \subseteq SessionOf(v)
<1>1. 1..u \subseteq 1..v /\ NoCommit..u \subseteq NoCommit..v
  BY DEF NoCommit
<1>2. LookOf(u) \subseteq LookOf(v)
  BY <1>1 DEF LookOf
<1> QED
  BY <1>1, <1>2 DEF SessionOf

LEMMA SessionsNext ==
    ASSUME TypeOK, StagesOK, SessionsOK, [RequestNext]_rvars PROVE SessionsOK'
<1>1. SessionOf(upstream) \subseteq SessionOf(upstream')
  <2>1. TypeOK'
    BY Simulates, TypeNext
  <2>2. upstream \in Nat /\ upstream' \in Nat
    BY <2>1 DEF TypeOK
  <2>3. upstream' >= upstream
    BY Simulates, LocatedStays
  <2> QED
    BY <2>2, <2>3, SessionOfGrows
<1> SUFFICES session' \in [Syncer -> SessionOf(upstream)]
  BY <1>1 DEF SessionsOK
<1> USE DEF SessionsOK
<1>2. ASSUME NEW s \in Syncer,
             session' = [session EXCEPT ![s] = session'[s]],
             session'[s] \in SessionOf(upstream)
      PROVE  session' \in [Syncer -> SessionOf(upstream)]
  BY <1>2
<1>3. ASSUME NEW s \in Syncer, CreateSession(s)
      PROVE  session' \in [Syncer -> SessionOf(upstream)]
  <2>1. /\ wants[s] \in BOOLEAN /\ CloneSafe \in BOOLEAN
        /\ since[s] \in 1..upstream /\ 1 \in 1..upstream
    BY DEF StagesOK, TypeOK, CloneSafe
  <2>2. NoSession \in SessionOf(upstream)
    BY <2>1, RerunAssumption DEF NoSession, SessionOf
  <2>3. [NoSession EXCEPT !.status = "pending", !.synced = wants[s],
                          !.calm = (wants[s] /\ CloneSafe),
                          !.asof = IF wants[s] /\ CloneSafe THEN since[s] ELSE 1]
            \in SessionOf(upstream)
    BY <2>1, <2>2 DEF SessionOf
  <2> QED
    BY <1>3, <2>3 DEF CreateSession
<1>4. ASSUME NEW s \in Syncer, Looks(s)
      PROVE  session' \in [Syncer -> SessionOf(upstream)]
  <2>1. [kind |-> dir.kind, head |-> dir.head] \in LookOf(upstream)
    BY DEF TypeOK, LookOf
  <2>2. session[s].seen \cup {[kind |-> dir.kind,
  head |-> dir.head]} \in SUBSET LookOf(upstream)
    BY <2>1 DEF SessionOf
  <2>3. [session[s] EXCEPT !.seen = @ \cup {[kind |-> dir.kind, head |-> dir.head]}]
            \in SessionOf(upstream)
    BY <2>2 DEF SessionOf
  <2> QED
    BY <1>4, <2>3 DEF Looks
<1>5. ASSUME NEW s \in Syncer, Search(s) \/ ReadFile(s)
      PROVE  session' \in [Syncer -> SessionOf(upstream)]
  BY <1>4, <1>5 DEF Search, ReadFile
<1>6. ASSUME NEW s \in Syncer, RunExisting(s)
      PROVE  session' \in [Syncer -> SessionOf(upstream)]
  <2>1. [session[s] EXCEPT !.reruns = @ + 1] \in SessionOf(upstream)
    BY <1>6, RerunAssumption DEF RunExisting, SessionOf
  <2> QED
    BY <1>6, <2>1 DEF RunExisting
<1>7. ASSUME NEW s \in Syncer, StartRun(s)
      PROVE  session' \in [Syncer -> SessionOf(upstream)]
  <2>1. [session[s] EXCEPT !.status = "running", !.path = "none", !.seen = {}]
            \in SessionOf(upstream)
    BY DEF SessionOf
  <2> QED
    BY <1>7, <2>1 DEF StartRun
<1>8. ASSUME NEW s \in Syncer, OpenRepository(s)
      PROVE  session' \in [Syncer -> SessionOf(upstream)]
  <2>1. [session[s] EXCEPT !.path = IF row.located THEN "own" ELSE "server"]
            \in SessionOf(upstream)
    BY DEF SessionOf
  <2> QED
    BY <1>8, <2>1 DEF OpenRepository
<1>9. ASSUME NEW s \in Syncer, RunFails(s) \/ Complete(s)
      PROVE  session' \in [Syncer -> SessionOf(upstream)]
  <2>1. ASSUME NEW status \in {"failed", "completed"}
        PROVE  [session[s] EXCEPT !.status = status] \in SessionOf(upstream)
    BY DEF SessionOf
  <2> QED
    BY <1>9, <2>1 DEF RunFails, Complete
<1>10. CASE UNCHANGED session
  BY <1>10
<1> QED
  BY <1>3, <1>5, <1>6, <1>7, <1>8, <1>9, <1>10
     DEF RequestNext, SessionStep, RepositoryRequest, RepositoryStep, StartSession,
         Resolve, CreateFails, Kill, rvars

LEMMA AgreeNext ==
    ASSUME TypeOK, StagesOK, SessionsOK, StagesAgree, [RequestNext]_rvars PROVE StagesAgree'
<1> USE DEF StagesOK, SessionsOK, SessionOf, StagesAgree, Enter
<1>1. ASSUME NEW s \in Syncer, RepositoryRequest(s) \/ RepositoryStep(s) PROVE StagesAgree'
  BY <1>1, OnlyOwnPc DEF RepositoryRequest, RepositoryStep
<1>2. ASSUME NEW s \in Syncer, StartSession(s) PROVE StagesAgree'
  <2>1. PICK sync \in BOOLEAN : StartById(s, sync) \/ StartByInput(s, sync)
    BY <1>2 DEF StartSession
  <2>2. session' = session /\ pc[s] = "idle" /\ DOMAIN pc = Syncer
    BY <1>2 DEF StartSession, Idle, TypeOK
  <2>3. CASE StartById(s, sync)
    BY <2>2, <2>3 DEF StartById, ById, Goto, workers, TypeOK
  <2>4. CASE StartByInput(s, sync)
    BY <2>2, <2>4 DEF StartByInput, ByInput, Goto, TypeOK
  <2> QED
    BY <2>1, <2>3, <2>4
<1>3. ASSUME NEW s \in Syncer, Resolve(s) PROVE StagesAgree'
  <2>1. session' = session /\ \A t \in Syncer \ {s} : stage'[t] = stage[t]
    BY <1>3 DEF Resolve
  <2>2. \A t \in Syncer \ {s} : pc'[t] = pc[t]
    BY <1>3, OnlyOwnPc DEF Resolve, SyncStep
  <2>3. stage'[s] \in {"resolve", "create", "none"}
        /\ (stage'[s] = "resolve" <=> pc'[s] # "idle")
    <3>1. CASE Insert(s, wants[s]) /\ Enter(s, IF wants[s] THEN "resolve" ELSE "create")
      BY <3>1 DEF Insert, Goto, TypeOK
    <3>2. CASE SyncWork(s) /\ Enter(s, IF pc'[s] # "idle" THEN "resolve"
                                       ELSE IF pc[s] = "save" THEN "create" ELSE "none")
      BY <3>2
    <3> QED
      BY <1>3, <3>1, <3>2 DEF Resolve
  <2> QED
    BY <2>1, <2>2, <2>3
<1>4. ASSUME NEW s \in Syncer, CreateSession(s) PROVE StagesAgree'
  <2>1. pc' = pc /\ session'[s].status = "pending"
        /\ \A t \in Syncer \ {s} : session'[t] = session[t] /\ stage'[t] = stage[t]
    BY <1>4 DEF CreateSession, NoSession, vars, workers
  <2>2. stage'[s] \in {"start", "none"} /\ pc[s] = "idle"
    BY <1>4 DEF CreateSession
  <2> QED
    BY <2>1, <2>2
<1>5. ASSUME NEW s \in Syncer, CreateFails(s) \/ RunExisting(s) PROVE StagesAgree'
  BY <1>5 DEF CreateFails, RunExisting, Idle, vars, workers
<1>6. ASSUME NEW s \in Syncer,
             \/ StartRun(s) \/ OpenRepository(s) \/ Search(s) \/ ReadFile(s)
             \/ RunFails(s) \/ Complete(s)
      PROVE  StagesAgree'
  <2>1. pc' = pc /\ stage[s] \notin {"none", "resolve", "create"}
        /\ stage'[s] \notin {"resolve", "create"}
        /\ \A t \in Syncer \ {s} : stage'[t] = stage[t]
    BY <1>6 DEF StartRun, OpenRepository, Search, ReadFile, RunFails, Complete, RunStep,
                vars, workers
  <2>2. \A t \in Syncer : session[t].status # "none" => session'[t].status # "none"
    BY <1>6 DEF StartRun, OpenRepository, Search, ReadFile, RunFails, Complete, Looks
  <2> QED
    BY <2>1, <2>2
<1>7. ASSUME NEW s \in Syncer, Kill(s) PROVE StagesAgree'
  <2>1. pc'[s] = "idle" /\ session' = session
    BY <1>7 DEF Kill, Crash, Goto, TypeOK
  <2> QED
    BY <1>7, <2>1, OnlyOwnPc DEF Kill
<1>8. ASSUME UNCHANGED <<pc, stage, session>> PROVE StagesAgree'
  BY <1>8
<1> QED
  BY <1>1, <1>2, <1>3, <1>4, <1>5, <1>6, <1>7, <1>8
     DEF RequestNext, SessionStep, rvars, vars, workers, Push, LocalPathChanges, OrphanStep

(* Types of workers and sessions; a worker that creates or runs a session  *)
(* is not in a synchronisation, and every run has a session.               *)
THEOREM RequestTypeCorrect == RequestSpec => []RequestTypeOK
<1>1. RequestInit => StagesOK /\ SessionsOK /\ StagesAgree
  <2> SUFFICES ASSUME RequestInit PROVE StagesOK /\ SessionsOK /\ StagesAgree
    OBVIOUS
  <2>1. upstream = 1 /\ NoSession \in SessionOf(1)
    BY RerunAssumption DEF RequestInit, Init, NoSession, SessionOf
  <2>2. SessionsOK
    BY <2>1 DEF RequestInit, SessionsOK
  <2>3. StagesOK /\ StagesAgree
    BY DEF RequestInit, Init, StagesOK, StagesAgree
  <2> QED
    BY <2>2, <2>3
<1> QED
  BY <1>1, RequestSyncType, SessionsNext, AgreeNext, RequestTypeParts, PTL DEF RequestSpec

(* A session that was started with a synchronisation is never researched   *)
(* in the directory of the server, whoever synchronises, fails or is       *)
(* killed meanwhile.                                                       *)
THEOREM AlwaysSearchesOwnTree == RequestSpec => []SearchesOwnTree
<1>1. RequestInit => SearchInv
  <2> SUFFICES ASSUME RequestInit, NEW s \in Syncer
               PROVE  stage[s] = "none" /\ ~session[s].synced
    BY DEF SearchInv
  <2>1. session[s] = NoSession /\ stage[s] = "none"
    BY DEF RequestInit
  <2> QED
    BY <2>1 DEF NoSession
<1>2. SearchInv => SearchesOwnTree
  BY DEF SearchInv, SearchesOwnTree
<1> QED
  BY <1>1, <1>2, RequestSyncType, RequestTypeCorrect, RequestTypeParts, SearchNext,
     PTL DEF RequestSpec

-----------------------------------------------------------------------------
(* What a worker measured, saved or creates a session for is not older     *)
(* than its synchronisation.                                               *)
HeadKept ==
    \A s \in Syncer :
        pc[s] \in {"measure", "save"} /\ dir.head # NoCommit => dir.head >= since[s]

(* HEAD never goes back: it is lost, or stays, or moves to a newer commit. *)
LEMMA HeadGrows ==
    ASSUME TypeOK, FreshInv, [Next]_vars
    PROVE  \/ dir'.head = NoCommit
           \/ dir'.head >= dir.head /\ (dir.head = NoCommit => dir'.head = upstream')
<1> DEFINE Goal == \/ dir'.head = NoCommit
                   \/ /\ dir'.head >= dir.head
                      /\ dir.head = NoCommit => dir'.head = upstream'
<1> USE DEF NoCommit, Directory
<1>0. /\ upstream \in Nat \ {0} /\ dir.head \in Nat /\ dir.next \in Nat
      /\ dir.head <= upstream
  BY DEF TypeOK
<1>1. CASE dir' = dir
  BY <1>0, <1>1
<1>2. ASSUME NEW s \in Syncer, PullBegin(s) PROVE Goal
  <2>1. dir.head # NoCommit /\ dir'.head >= dir.head
    BY <1>0, <1>2 DEF TypeOK, PullBegin, Torn
  <2> QED
    BY <2>1
<1>3. ASSUME NEW w, w # Nobody, GitPulls(w) PROVE Goal
  BY <1>0, <1>3 DEF GitPulls, Whole, FreshInv, HeadFresh
<1>4. ASSUME NEW w, GitPullFails(w) PROVE Goal
  BY <1>0, <1>4 DEF GitPullFails, Torn
<1>5. ASSUME NEW w, GitClones(w), upstream' = upstream PROVE Goal
  BY <1>0, <1>5 DEF GitClones, Partial, Whole
<1>6. ASSUME NEW w, GitCloneFails(w) PROVE Goal
  BY <1>6 DEF GitCloneFails, Absent
<1>7. ASSUME NEW s \in Syncer, RemoveBegin(s) \/ RemoveEnd(s) \/ CloneBegin(s) PROVE Goal
  BY <1>0, <1>7 DEF RemoveBegin, RemoveEnd, CloneBegin, Absent, Bare, Partial, NotTheRow
<1>8. ASSUME NEW s \in Syncer, Crash(s) PROVE Goal
  BY <1>0, <1>8, CrashDirectory DEF TypeOK, DirOK, Bare
<1>9. CASE Push \/ LocalPathChanges
  BY <1>0, <1>9 DEF Push, LocalPathChanges, Absent, Bare, Whole
<1>10. CASE OrphanStep
  <2>1. Orphan # Nobody /\ upstream' = upstream
    BY <1>10, SyncerAssumption DEF OrphanStep
  <2> QED
    BY <2>1, <1>3, <1>4, <1>5, <1>6, <1>10 DEF OrphanStep
<1>11. ASSUME NEW s \in Syncer, SyncWork(s) PROVE Goal
  <2>1. s # Nobody
    BY SyncerAssumption
  <2>2. PullEnd(s) => Goal
    BY <2>1, <1>3 DEF PullEnd
  <2>3. PullFails(s) => Goal
    BY <1>4 DEF PullFails
  <2>4. CloneFetched(s) \/ CloneEnd(s) => Goal
    BY <1>5 DEF CloneFetched, CloneEnd, NotTheRow
  <2>5. CloneFails(s) => Goal
    BY <1>6 DEF CloneFails
  <2>6. \/ Begin(s) \/ BeginRaises(s) \/ ValidateLocal(s) \/ Look(s) \/ Fetch(s)
        \/ GitFails(s) \/ PullUpToDate(s) \/ Check(s) \/ RemoveRaises(s)
        \/ CloneRefused(s) \/ Measure(s) \/ Save(s) \/ SaveRaises(s) \/ Except(s)
        \/ ExceptRaises(s)
        => dir' = dir
    BY DEF Begin, BeginRaises, ValidateLocal, Look, Fetch, GitFails, PullUpToDate, Check,
           RemoveRaises, CloneRefused, Measure, Save, SaveRaises, Except, ExceptRaises,
           OnlyThePc, NotTheRow, disk
  <2> QED
    BY <1>1, <1>2, <1>7, <1>11, <2>2, <2>3, <2>4, <2>5, <2>6 DEF SyncWork
<1>12. ASSUME NEW s \in Syncer, NEW sync \in BOOLEAN,
              RequestById(s) \/ GetOrCreate(s) \/ Insert(s, sync)
       PROVE  Goal
  BY <1>1, <1>12 DEF RequestById, ById, GetOrCreate, ByInput, Insert, disk
<1> QED
  BY <1>1, <1>8, <1>9, <1>10, <1>11, <1>12 DEF Next, SyncStep, vars, disk

(* Only what was measured is saved, and by the same synchronisation.       *)
LEMMA SaveAfterMeasure ==
    ASSUME TypeOK, [Next]_vars, NEW t \in Syncer, pc'[t] = "save"
    PROVE  pc[t] \in {"measure", "save"} /\ since'[t] = since[t]
<1> USE DEF TypeOK, Goto
<1>1. ASSUME NEW s \in Syncer, RequestById(s) \/ GetOrCreate(s) \/ Crash(s)
      PROVE  pc[t] = "save" /\ since' = since
  BY <1>1 DEF RequestById, ById, GetOrCreate, ByInput, CountRequest, Crash
<1>2. ASSUME NEW s \in Syncer, NEW sync \in BOOLEAN, Insert(s, sync)
      PROVE  pc[t] = "save" /\ since' = since
  BY <1>2 DEF Insert
<1>3. ASSUME NEW s \in Syncer, Begin(s)
      PROVE  pc[t] = "save" /\ since'[t] = since[t]
  BY <1>3 DEF Begin
<1>4. ASSUME NEW s \in Syncer, Measure(s)
      PROVE  pc[t] \in {"measure", "save"} /\ since' = since
  BY <1>4 DEF Measure, Step, NotTheRow
<1>5. ASSUME NEW s \in Syncer, SyncWork(s), ~Begin(s), ~Measure(s)
      PROVE  pc[t] = "save" /\ since' = since
  BY <1>5 DEF SyncWork, BeginRaises, ValidateLocal, Look, Fetch, GitFails, PullUpToDate,
              PullBegin, PullEnd, PullFails, Check,
              RemoveBegin, RemoveEnd, RemoveRaises, CloneBegin, CloneRefused,
              CloneFetched, CloneEnd,
              CloneFails, Save, SaveRaises, Except, ExceptRaises, Step, OnlyThePc, NotTheRow
<1>6. CASE Push \/ LocalPathChanges \/ OrphanStep \/ UNCHANGED vars
  BY <1>6 DEF Push, LocalPathChanges, OrphanStep, vars, workers
<1> QED
  BY <1>1, <1>2, <1>3, <1>4, <1>5, <1>6 DEF Next, SyncStep

LEMMA SinceStays ==
    ASSUME TypeOK, [Next]_vars, NEW t \in Syncer, pc[t] # "begin" PROVE since'[t] = since[t]
BY DEF TypeOK, Next, SyncStep, SyncWork, RequestById, ById, GetOrCreate, ByInput, Insert,
       Begin, BeginRaises, ValidateLocal, Look, Fetch, GitFails, PullUpToDate, PullBegin,
       PullEnd, PullFails, Check, RemoveBegin,
       RemoveEnd, RemoveRaises, CloneBegin, CloneRefused, CloneFetched, CloneEnd,
       CloneFails, Measure,
       Save, SaveRaises, Except, ExceptRaises, Crash, OnlyThePc, NotTheRow, Push,
       LocalPathChanges, OrphanStep, vars, workers

LEMMA HeadKeptNext ==
    ASSUME TypeOK, FreshInv, HeadKept, [Next]_vars PROVE HeadKept'
<1> USE DEF HeadKept
<1>1. FreshInv'
  BY FreshNext
<1>2. TypeOK'
  BY TypeNext
<1>3. \/ dir'.head = NoCommit
      \/ dir'.head >= dir.head /\ (dir.head = NoCommit => dir'.head = upstream')
  BY HeadGrows
<1>4. upstream' >= upstream
  BY LocatedStays
<1>5. \A s \in Syncer : pc'[s] = "measure" /\ dir'.head # NoCommit => dir'.head >= since'[s]
  BY <1>1 DEF FreshInv, HeadFresh
<1>6. \A s \in Syncer : pc'[s] = "save" => pc[s] \in {"measure",
"save"} /\ since'[s] = since[s]
  BY SaveAfterMeasure
<1> QED
  BY <1>2, <1>3, <1>4, <1>5, <1>6 DEF TypeOK, NoCommit

(* A request that comes to create a session found, if the clone is there,  *)
(* a commit that is new enough; the clone of a calm session is safe, was   *)
(* new enough and is all that its run saw.                                 *)
FreshSessions ==
    \A s \in Syncer :
        /\ stage[s] = "create" /\ wants[s] /\ dir.head # NoCommit => dir.head >= since[s]
        /\ session[s].calm =>
               /\ CloneSafe /\ dir.head >= session[s].asof
               /\ \A look \in session[s].seen :
                      look.kind \in {"whole", "torn"} /\ look.head >= session[s].asof

LEMMA FreshSessionsNext ==
    ASSUME TypeOK, StagesOK, SessionsOK, StagesAgree, FreshInv, HeadKept, FreshSessions,
           [RequestNext]_rvars
    PROVE  FreshSessions'
<1> USE DEF StagesOK, SessionsOK, SessionOf, FreshSessions, Enter
<1>1. /\ CloneSafe => CloneSafe' /\ dir'.head >= dir.head
      /\ \/ dir'.head = NoCommit
         \/ dir'.head >= dir.head /\ (dir.head = NoCommit => dir'.head = upstream')
      /\ upstream' >= upstream
  BY Simulates, CloneStep, LocatedStays, HeadGrows
<1>2. /\ upstream \in Nat /\ upstream' \in Nat /\ dir.head \in Nat /\ dir'.head \in Nat
      /\ \A s \in Syncer : since[s] \in Nat /\ since[s] <= upstream
      /\ \A s \in Syncer : session[s].asof \in Nat /\ session[s].asof <= upstream
  <2>1. TypeOK'
    BY Simulates, TypeNext
  <2> QED
    BY <2>1 DEF TypeOK, NoCommit
(* What holds of a calm session is not lost while it does not move.        *)
<1>3. \A s \in Syncer : session[s].calm =>
          CloneSafe' /\ dir'.head >= session[s].asof
  BY <1>1, <1>2 DEF CloneSafe
<1>4. \A s \in Syncer : stage[s] = "create" /\ wants[s] /\ dir'.head # NoCommit
          => dir'.head >= since[s]
  BY <1>1, <1>2 DEF NoCommit
<1>5. \A s \in Syncer : stage[s] = "create" => since'[s] = since[s]
  BY Simulates, SinceStays DEF StagesAgree
(* A step that creates no session and lets no run look.                    *)
<1>6. ASSUME \A s \in Syncer : stage'[s] = "create" /\ wants'[s] =>
                 \/ stage[s] = "create" /\ wants[s]
                 \/ dir'.head # NoCommit => dir'.head >= since'[s],
             \A s \in Syncer : /\ session'[s].calm = session[s].calm
                               /\ session'[s].asof = session[s].asof
                               /\ session'[s].seen \subseteq session[s].seen
      PROVE  FreshSessions'
  BY <1>3, <1>4, <1>5, <1>6
<1>7. ASSUME NEW s \in Syncer, StartSession(s) PROVE FreshSessions'
  <2>1. PICK sync \in BOOLEAN : /\ wants' = [wants EXCEPT ![s] = sync]
                                /\ StartById(s, sync) \/ StartByInput(s, sync)
    BY <1>7 DEF StartSession
  <2>2. stage'[s] = "create" => ~sync
    <3>1. CASE StartById(s, sync)
      BY <3>1 DEF StartById
    <3>2. CASE StartByInput(s, sync)
      BY <3>2 DEF StartByInput, ByInput, Goto, TypeOK
    <3> QED
      BY <2>1, <3>1, <3>2
  <2>3. session' = session /\ \A t \in Syncer \ {s} : stage'[t] = stage[t]
    BY <1>7, <2>1 DEF StartSession, StartById, StartByInput
  <2> QED
    BY <1>6, <2>1, <2>2, <2>3
<1>8. ASSUME NEW s \in Syncer, Resolve(s) PROVE FreshSessions'
  <2>1. UNCHANGED <<wants, session>> /\ \A t \in Syncer \ {s} : stage'[t] = stage[t]
    BY <1>8 DEF Resolve
  <2>2. stage'[s] = "create" /\ wants[s]
            => (dir'.head # NoCommit => dir'.head >= since'[s])
    <3>1. CASE Enter(s, IF wants[s] THEN "resolve" ELSE "create")
      BY <3>1
    <3>2. CASE SyncWork(s) /\ pc[s] = "save" /\ pc'[s] = "idle"
      <4>1. UNCHANGED <<dir, since>>
        BY <3>2, SyncedSaves DEF disk
      <4> QED
        BY <3>2, <4>1 DEF HeadKept
    <3>3. CASE ~(pc[s] = "save" /\ pc'[s] = "idle")
               /\ Enter(s, IF pc'[s] # "idle" THEN "resolve"
                           ELSE IF pc[s] = "save" THEN "create" ELSE "none")
      BY <3>3
    <3> QED
      BY <1>8, <3>1, <3>2, <3>3 DEF Resolve
  <2> QED
    BY <1>6, <2>1, <2>2
<1>9. ASSUME NEW s \in Syncer, CreateSession(s) PROVE FreshSessions'
  <2>1. UNCHANGED <<dir, since>> /\ CloneSafe' = CloneSafe
    BY <1>9 DEF CreateSession, vars, disk, workers, CloneSafe, database
  <2>2. /\ stage'[s] # "create"
        /\ \A t \in Syncer \ {s} : /\ stage'[t] = stage[t] /\ wants'[t] = wants[t]
                                   /\ session'[t] = session[t]
    BY <1>9 DEF CreateSession
  <2>3. session'[s].calm => CloneSafe /\ wants[s] /\ stage[s] = "create"
                            /\ session'[s].asof = since[s] /\ session'[s].seen = {}
    BY <1>9 DEF CreateSession, NoSession
  <2>4. CloneSafe => dir.head # NoCommit
    BY DEF CloneSafe, FreshInv, HeadFresh
  <2> QED
    BY <2>1, <2>2, <2>3, <2>4
<1>10. ASSUME NEW s \in Syncer, Search(s) \/ ReadFile(s) PROVE FreshSessions'
  <2>1. UNCHANGED <<dir, since, wants>> /\ Looks(s)
        /\ \A t \in Syncer : stage'[t] = "create" => stage[t] = "create"
    BY <1>10 DEF Search, ReadFile, RunStep, vars, disk, workers
  <2>2. /\ \A t \in Syncer \ {s} : session'[t] = session[t]
        /\ session'[s].calm = session[s].calm /\ session'[s].asof = session[s].asof
        /\ ~session[s].calm \/ session'[s].seen =
               session[s].seen \cup {[kind |-> dir.kind, head |-> dir.head]}
    BY <2>1 DEF Looks
  <2>3. session[s].calm => dir.kind \in {"whole", "torn"} /\ dir.head >= session[s].asof
    BY DEF CloneSafe
  <2> QED
    BY <1>3, <1>4, <2>1, <2>2, <2>3
<1>11. ASSUME NEW s \in Syncer,
              \/ CreateFails(s) \/ RunExisting(s) \/ StartRun(s) \/ OpenRepository(s)
              \/ RunFails(s) \/ Complete(s)
       PROVE  FreshSessions'
  <2>1. /\ wants' = wants
        /\ \A t \in Syncer : stage'[t] = "create" => stage[t] = "create"
        /\ \A t \in Syncer : /\ session'[t].calm = session[t].calm
                             /\ session'[t].asof = session[t].asof
                             /\ session'[t].seen \subseteq session[t].seen
    BY <1>11 DEF CreateFails, RunExisting, StartRun, OpenRepository, RunFails, Complete,
                 RunStep
  <2> QED
    BY <1>6, <2>1
<1>12. ASSUME NEW s \in Syncer, Kill(s) PROVE FreshSessions'
  BY <1>6, <1>12 DEF Kill
<1>13. ASSUME UNCHANGED <<stage, wants, session>> PROVE FreshSessions'
  BY <1>6, <1>13
<1> QED
  BY <1>7, <1>8, <1>9, <1>10, <1>11, <1>12, <1>13
     DEF RequestNext, SessionStep, RepositoryRequest, RepositoryStep, rvars

(* What a calm session sees of its clone is never missing or partly        *)
(* removed, and every file is as new as its own synchronisation promises,  *)
(* whatever other workers do while it runs.                                *)
THEOREM ResearchAlwaysFresh == RequestSpec => []FreshResearch
<1>1. RequestInit => FreshInv /\ HeadKept /\ FreshSessions
  <2> SUFFICES ASSUME RequestInit PROVE FreshInv /\ HeadKept /\ FreshSessions
    OBVIOUS
  <2>1. FreshInv /\ HeadKept
    BY DEF RequestInit, Init, FreshInv, HeadFresh, SavedIsFresh, HeadKept, Directory,
           Absent,
           Whole, NoCommit
  <2>2. \A s \in Syncer : session[s] = NoSession /\ stage[s] = "none"
    BY DEF RequestInit
  <2> QED
    BY <2>1, <2>2 DEF FreshSessions, NoSession
<1>2. FreshSessions => FreshResearch
  BY DEF FreshSessions, FreshResearch
<1> QED
  BY <1>1, <1>2, RequestSyncType, RequestTypeCorrect, RequestTypeParts, Simulates,
     FreshNext, HeadKeptNext, FreshSessionsNext, PTL DEF RequestSpec
=============================================================================
