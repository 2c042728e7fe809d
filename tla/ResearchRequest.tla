--------------------------- MODULE ResearchRequest ---------------------------
(***************************************************************************)
(* Starting a session: POST /api/research/sessions/ resolves the           *)
(* repository, which may register and synchronise it, creates the session  *)
(* and runs the agent, all in one worker.  Meanwhile other workers         *)
(* synchronise the same repository and change its row and its directory.   *)
(* The steps of the synchronisation are those of RepositorySync; of the    *)
(* run only what it does with the repository is modelled, the rest is in   *)
(* ResearchSession and EvidenceSelection.                                  *)
(***************************************************************************)
EXTENDS RepositorySync

CONSTANT MaxReruns   \* bound: how often a session is run again

ASSUME RerunAssumption == MaxReruns \in Nat

VARIABLES
    stage,     \* what each worker does with a session, "none" if nothing
    wants,     \* does the request that it serves want a synchronisation?
    session    \* the session that each worker created last

rvars == <<vars, stage, wants, session>>

(* Observed of a session: did its request synchronise the repository, was  *)
(* the clone safe when it was created, what was the newest commit when the *)
(* synchronisation began, which path did its run open, and, if the clone   *)
(* was safe, what did the run find there; how often was it run again.      *)
NoSession == [status |-> "none", synced |-> FALSE, asof |-> 1, calm |-> FALSE,
              path |-> "none", seen |-> {}, reruns |-> 0]

RequestInit ==
    /\ Init
    /\ stage = [s \in Syncer |-> "none"]
    /\ wants = [s \in Syncer |-> FALSE]
    /\ session = [s \in Syncer |-> NoSession]

Enter(s, label) == stage' = [stage EXCEPT ![s] = label]
Idle(s) == stage[s] = "none" /\ pc[s] = "idle"

-----------------------------------------------------------------------------
(* Requests that have nothing to do with a session.                        *)
RepositoryRequest(s) ==
    /\ stage[s] = "none"
    /\ RequestById(s) \/ GetOrCreate(s)
    /\ UNCHANGED <<stage, wants, session>>
RepositoryStep(s) ==
    /\ stage[s] = "none"
    /\ SyncStep(s)
    /\ UNCHANGED <<stage, wants, session>>

-----------------------------------------------------------------------------
(* ResearchService.start_session.                                          *)

(* Fault: a repository that is not there is not refused.                   *)
StartByIdUnchecked(s, sync) ==
    /\ IF sync THEN ById(s)
       ELSE UNCHANGED <<database, disk, upstream, workers, crashes>>
    /\ Enter(s, IF sync THEN "resolve" ELSE "create")
(* The repository by id: the serializer and the service look for it.       *)
StartById(s, sync) ==
    /\ IF sync THEN ById(s)
       ELSE UNCHANGED <<database, disk, upstream, workers, crashes>>
    /\ Enter(s, IF rows = 0 THEN "none" ELSE IF sync THEN "resolve" ELSE "create")

(* The repository by URL or path.                                          *)
StartByInput(s, sync) ==
    /\ ByInput(s, sync)
    /\ Enter(s, IF source_type = "local" /\ dir = Absent THEN "none"
                ELSE IF pc'[s] = "idle" THEN "create" ELSE "resolve")

StartSession(s) ==
    /\ Idle(s) /\ CountRequest(s)
    /\ \E sync \in BOOLEAN :
           /\ wants' = [wants EXCEPT ![s] = sync]
           /\ StartById(s, sync) \/ StartByInput(s, sync)
    /\ UNCHANGED session

(* Fault: the failure of the synchronisation is caught.                    *)
ResolveCatches(s) ==
    /\ stage[s] = "resolve"
    /\ \/ /\ Insert(s, wants[s])
          /\ Enter(s, IF wants[s] THEN "resolve" ELSE "create")
       \/ /\ SyncWork(s)
          /\ Enter(s, IF pc'[s] # "idle" THEN "resolve" ELSE "create")
    /\ UNCHANGED <<wants, session>>
(* The registration and the synchronisation of resolve_repository.  What   *)
(* fails is answered with 400 and leaves no session.                       *)
Resolve(s) ==
    /\ stage[s] = "resolve"
    /\ \/ /\ Insert(s, wants[s])
          /\ Enter(s, IF wants[s] THEN "resolve" ELSE "create")
       \/ /\ SyncWork(s)
          /\ Enter(s, IF pc'[s] # "idle" THEN "resolve"
                      ELSE IF pc[s] = "save" THEN "create" ELSE "none")
    /\ UNCHANGED <<wants, session>>

(* create_session, in one transaction; run_agent decides what follows.     *)
CreateSession(s) ==
    /\ stage[s] = "create"
    /\ LET calm == wants[s] /\ CloneSafe
       IN session' = [session EXCEPT ![s] =
              [NoSession EXCEPT !.status = "pending", !.synced = wants[s],
                                !.calm = calm, !.asof = IF calm THEN since[s] ELSE 1]]
    /\ \E run \in BOOLEAN : Enter(s, IF run THEN "start" ELSE "none")
    /\ wants' = [wants EXCEPT ![s] = FALSE]
    /\ UNCHANGED vars
CreateFails(s) ==
    /\ DbMayFail /\ stage[s] = "create"
    /\ Enter(s, "none")
    /\ UNCHANGED <<vars, wants, session>>

(* run_existing_session, of a session that this worker created: whatever   *)
(* its status is, with force.                                              *)
RunExisting(s) ==
    /\ Idle(s) /\ session[s].status # "none"
    /\ session[s].reruns < MaxReruns
    /\ session' = [session EXCEPT ![s].reruns = @ + 1]
    /\ Enter(s, "start")
    /\ UNCHANGED <<vars, wants>>

-----------------------------------------------------------------------------
(* What a run does with the repository.                                    *)

RunStep(s, from, to) == stage[s] = from /\ Enter(s, to) /\ UNCHANGED <<vars, wants>>

StartRun(s) ==
    /\ RunStep(s, "start", "open")
    /\ session' = [session EXCEPT ![s].status = "running", ![s].path = "none",
                                  ![s].seen = {}]

(* researcher_node reads local_path once; where it is empty, Path("") is   *)
(* the directory the server runs in.                                       *)
OpenRepository(s) ==
    /\ RunStep(s, "open", "search")
    /\ session' = [session EXCEPT ![s].path = IF row.located THEN "own" ELSE "server"]

(* A run sees what is there then.                                          *)
Looks(s) ==
    session' = IF session[s].calm
               THEN [session EXCEPT ![s].seen =
                        @ \cup {[kind |-> dir.kind, head |-> dir.head]}]
               ELSE session
Gone(s) == session[s].path = "own" /\ dir = Absent

(* search_code finds nothing, or something that is read next.              *)
Search(s) ==
    /\ ~Gone(s) /\ Looks(s)
    /\ RunStep(s, "search", "read") \/ RunStep(s, "search", "write")
ReadFile(s) ==
    /\ ~Gone(s) /\ Looks(s)
    /\ RunStep(s, "read", "write")

(* Fault: a search whose directory is missing waits for it.                *)
RunFailsWaiting(s) ==
    /\ stage[s] \in {"search", "read"} /\ Gone(s)
    /\ UNCHANGED rvars
(* The directory, or the file that was found in it, is not there any more, *)
(* or any node fails: the session fails, the request is answered.          *)
RunFails(s) ==
    /\ stage[s] \in {"open", "search", "read", "write"}
    /\ session' = [session EXCEPT ![s].status = "failed"]
    /\ Enter(s, "none")
    /\ UNCHANGED <<vars, wants>>

(* Fault: the repository is marked as synced with its new date.            *)
CompleteMarksSynced(s) ==
    /\ stage[s] = "write"
    /\ session' = [session EXCEPT ![s].status = "completed"]
    /\ row' = [row EXCEPT !.status = "synced"]
    /\ Enter(s, "none")
    /\ UNCHANGED <<source_type, rows, cut, disk, upstream, workers, bounds, wants>>
(* The answer; of the repository's row only last_analyzed_at is saved.     *)
Complete(s) ==
    /\ RunStep(s, "write", "none")
    /\ session' = [session EXCEPT ![s].status = "completed"]

-----------------------------------------------------------------------------
SessionStep(s) ==
    \/ Resolve(s) \/ CreateSession(s) \/ CreateFails(s)
    \/ StartRun(s) \/ OpenRepository(s) \/ Search(s) \/ ReadFile(s)
    \/ RunFails(s) \/ Complete(s)

(* A worker is killed: its session stays as it is.                         *)
Kill(s) == Crash(s) /\ Enter(s, "none") /\ UNCHANGED <<wants, session>>

RequestNext ==
    \/ \E s \in Syncer :
           \/ RepositoryRequest(s) \/ RepositoryStep(s) \/ StartSession(s)
           \/ RunExisting(s) \/ SessionStep(s) \/ Kill(s)
    \/ (Push \/ LocalPathChanges \/ OrphanStep) /\ UNCHANGED <<stage, wants, session>>

RequestSpec == RequestInit /\ [][RequestNext]_rvars

(* A worker that is not killed goes on.                                    *)
FairRequestSpec ==
    /\ RequestSpec
    /\ \A s \in Syncer : WF_rvars(RepositoryStep(s)) /\ WF_rvars(SessionStep(s))

-----------------------------------------------------------------------------
(* Type invariant; a worker that is done with the repository is not in a   *)
(* synchronisation any more, and every run has a session.                  *)
RequestTypeOK ==
    /\ stage \in [Syncer -> {"none", "resolve", "create", "start", "open", "search",
                             "read", "write"}]
    /\ wants \in [Syncer -> BOOLEAN]
    /\ session \in [Syncer ->
           [status : {"none", "pending", "running", "completed", "failed"},
            synced : BOOLEAN, calm : BOOLEAN, asof : 1..upstream,
            path : {"none", "own", "server"}, reruns : 0..MaxReruns,
            seen : SUBSET [kind : {"absent", "bare", "partial", "torn", "whole"},
                           head : NoCommit..upstream]]]
    /\ \A s \in Syncer :
           /\ stage[s] \notin {"none", "resolve"} => pc[s] = "idle"
           /\ stage[s] = "resolve" => pc[s] # "idle"
           /\ stage[s] \notin {"none", "resolve", "create"} => session[s].status # "none"

(* Clone repository if missing (README.md, sync_repository): the run of a  *)
(* session that was started with a synchronisation searches its repository *)
(* and never the directory of the server, whoever synchronises when.       *)
SearchesOwnTree == \A s \in Syncer : session[s].synced => session[s].path # "server"

(* Use latest available code (README.md, sync_repository): what a run of   *)
(* such a session sees of its clone is never missing or partly removed,    *)
(* and no file is older than the newest commit when the synchronisation    *)
(* began, although others synchronise, fail and are killed during the run; *)
(* unless the clone was missing, incomplete or being cloned when the       *)
(* session was created.  That the files are of one commit is not promised: *)
(* a pull of another worker rewrites them under the run.                   *)
FreshResearch ==
    \A s \in Syncer : session[s].calm =>
        \A look \in session[s].seen :
            look.kind \in {"whole", "torn"} /\ look.head >= session[s].asof

(* Sessions only synchronise: whatever they do to the repository is a      *)
(* behaviour of RepositorySync, whose theorems hold for them too.          *)
ImplementsSync == Spec

(* Every request is answered.                                              *)
RequestsAnswered == \A s \in Syncer : ~Idle(s) ~> Idle(s)
=============================================================================
