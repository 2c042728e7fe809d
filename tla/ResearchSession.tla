-------------------------- MODULE ResearchSession --------------------------
(***************************************************************************)
(* One research session and the request processes that share its row:      *)
(* workers that serve POST .../run (or the create request that runs the    *)
(* agent at once) and execute the whole agent inside the request, and      *)
(* workers that serve POST .../cancel.  A deployment has several worker    *)
(* processes and runs without ATOMIC_REQUESTS, so every SELECT, UPDATE and *)
(* INSERT is a step of its own and any two requests interleave.  Only the  *)
(* database is shared; what a process has read is a private snapshot:      *)
(*   tmp[w]  the instance that a helper fetched and is about to save,      *)
(*   own[w]  the instance AgentRunner.run holds during the whole run.      *)
(* pc[w] names the next statement of process w that touches the database,  *)
(* a tool or the language model; an event's label is its event_type.       *)
(***************************************************************************)
EXTENDS SessionRow

CONSTANTS
    Runner, Canceller,  \* worker processes, by the request they may serve
    CreateMaxSteps,     \* max_steps values a create request may store
    RerunMaxSteps,      \* max_steps values in the options of a run request
                        \* (0: the request has no options)
    ForceValues,        \* values of "force" in a run request
    DbMayFail,          \* may a database statement raise?
    MaxTerms,           \* bound: search terms of a plan
    MaxCount,           \* bound: steps and tokens count up to here and stay
    MaxCancels,         \* bound: cancel requests
    MaxCrashes          \* bound: worker processes killed

ASSUME ProcessAssumption == Runner \cap Canceller = {}
ASSUME ChoiceAssumption ==
    /\ CreateMaxSteps \subseteq Nat
    /\ RerunMaxSteps \subseteq Nat
    /\ ForceValues \subseteq BOOLEAN
    /\ DbMayFail \in BOOLEAN
ASSUME CapAssumption ==
    /\ MaxTerms \in Nat
    /\ MaxCount \in Nat
    /\ MaxCancels \in Nat
    /\ MaxCrashes \in Nat

VARIABLES
    row,       \* the session's row
    findings,  \* the session's Finding rows
    tools,     \* how many ToolCallLog rows the session has
    analyzed,  \* repository.last_analyzed_at is set
    pc, loaded, tmp, own, task, run,   \* per process, see below
    calls,     \* observer: tool functions called so far
    spent,     \* observer: model calls answered in a process's current run
    orphaned,  \* observer: a run was cut off without its except clauses
    runs, cancels, crashes             \* counters of the bounds

db       == <<row, findings, tools, analyzed>>
observer == <<calls, spent, orphaned>>
counters == <<runs, cancels, crashes>>
vars     == <<db, pc, loaded, tmp, own, task, run, observer, counters>>

Process == Runner \cup Canceller

DatabaseTool == {"get_previous_findings", "list_past_sessions"}
CodeTool     == {"search_code", "read_around_match"}
Tool         == DatabaseTool \cup CodeTool \cup {"save_finding"}

AgentEvent ==
    { "agent_started", "planning_started", "planning_warning",
      "planning_completed", "research_started", "finding_saved",
      "research_completed", "answer_started", "llm_completed",
      "llm_fallback", "session_completed", "session_failed" }

(* Statements whose first half fetches the row, in get_session or          *)
(* refresh_from_db, and whose second half saves what was made of it.       *)
Fetching ==
    AgentEvent \cup
    {"log_tool_call", "plan_tokens", "answer_tokens", "answer_save",
     "service_except"}

(* Between the save that sets "running" and the save that ends the run.    *)
RunPhase ==
    (AgentEvent \ {"session_completed", "session_failed"})
      \cup Tool \cup
    {"log_tool_call", "plan_llm", "plan_tokens", "answer_llm",
     "answer_tokens", "answer_save", "except"}

Label ==
    RunPhase \cup
    {"idle", "merge_options", "run_agent", "mark_running",
     "session_completed", "runner_refresh", "runner_totals",
     "session_failed", "service_refresh", "service_except", "cancel"}

(* The part of the LangGraph state that steers the run: the tool whose log *)
(* is due, whether it raised, the terms or matches left, the references.   *)
Task == [ tool : Tool \cup {"none"}, broke : BOOLEAN,
          todo : Nat, cited : SUBSET Finding ]
NoTask == [tool |-> "none", broke |-> FALSE, todo |-> 0, cited |-> {}]

Init ==
    /\ row \in {NewRow(m) : m \in CreateMaxSteps}
    /\ findings = {} /\ tools = 0 /\ analyzed = FALSE
    /\ pc = [w \in Process |-> "idle"]
    /\ loaded = [w \in Process |-> FALSE]
    /\ tmp = [w \in Process |-> NoRow]
    /\ own = [w \in Process |-> NoRow]
    /\ task = [w \in Process |-> NoTask]
    /\ run = [w \in Process |-> 0]
    /\ calls = 0 /\ spent = [w \in Process |-> 0] /\ orphaned = FALSE
    /\ runs = 0 /\ cancels = 0 /\ crashes = 0

-----------------------------------------------------------------------------
(* Building blocks of a process's steps.                                   *)

Goto(w, label) == pc' = [pc EXCEPT ![w] = label]
Forget(w) == loaded' = [loaded EXCEPT ![w] = FALSE]
             /\ tmp' = [tmp EXCEPT ![w] = NoRow]

(* The request has been answered: the process keeps nothing of it.         *)
Return(w) ==
    /\ Goto(w, "idle") /\ Forget(w)
    /\ own' = [own EXCEPT ![w] = NoRow]
    /\ task' = [task EXCEPT ![w] = NoTask]
    /\ run' = [run EXCEPT ![w] = 0]
    /\ spent' = [spent EXCEPT ![w] = 0]

(* The SELECT of get_session(session_id), or of refresh_from_db.           *)
FetchRow(w) ==
    /\ pc[w] \in Fetching /\ ~loaded[w]
    /\ loaded' = [loaded EXCEPT ![w] = TRUE]
    /\ tmp' = [tmp EXCEPT ![w] = IF pc[w] = "answer_save"
                                 THEN Recounted(row, tools, findings)
                                 ELSE row]
    /\ UNCHANGED <<db, pc, own, task, run, observer, counters>>

Bump(n) == IF n < MaxCount THEN n + 1 ELSE n

(* next_step: current_step is computed from the snapshot, then saved alone. *)
NextStep(w) == row' = [row EXCEPT !.step = Bump(tmp[w].step)]

(* emit_event after its SELECT.  The event row itself is not kept here.    *)
EmitEvent(w, event, next) ==
    /\ pc[w] = event /\ loaded[w]
    /\ NextStep(w)
    /\ Goto(w, next) /\ Forget(w)
    /\ UNCHANGED <<findings, tools, calls, spent>>

(* Fault: a tool that raises is not logged.                                *)
CallToolLogsSuccess(w, tool, ok) ==
    /\ pc[w] = tool
    /\ calls' = calls + 1
    /\ task' = [task EXCEPT ![w] = [@ EXCEPT !.tool = tool, !.broke = ~ok]]
    /\ Goto(w, IF ok THEN "log_tool_call" ELSE "except")
    /\ UNCHANGED <<row, findings, tools, loaded, tmp, spent>>

(* execute_logged_tool runs the tool's function; its log comes next, in a  *)
(* finally clause, whether or not the function raised.                     *)
CallTool(w, tool, ok) ==
    /\ pc[w] = tool
    /\ calls' = calls + 1
    /\ task' = [task EXCEPT ![w] = [@ EXCEPT !.tool = tool, !.broke = ~ok]]
    /\ Goto(w, "log_tool_call")
    /\ UNCHANGED <<row, findings, tools, loaded, tmp, spent>>

LogToolCall(w, tool) ==
    /\ pc[w] = "log_tool_call" /\ loaded[w]
    /\ task[w].tool = tool
    /\ NextStep(w)
    /\ tools' = tools + 1
    /\ Forget(w)
    /\ UNCHANGED <<findings, calls, spent>>

(* Fault: the items left to do are counted down once more.                 *)
ToolDoneCountsTwice(w, tool, next, left) ==
    /\ ~task[w].broke
    /\ LogToolCall(w, tool)
    /\ task' = [task EXCEPT ![w] = [@ EXCEPT !.tool = "none", !.todo = left - 1]]
    /\ Goto(w, next)

(* The tool succeeded: its caller goes on, with left items to do.          *)
ToolDone(w, tool, next, left) ==
    /\ ~task[w].broke
    /\ LogToolCall(w, tool)
    /\ task' = [task EXCEPT ![w] = [@ EXCEPT !.tool = "none", !.todo = left]]
    /\ Goto(w, next)

(* The tool raised: the exception leaves the node and the graph.           *)
ToolRaised(w) ==
    /\ task[w].broke
    /\ LogToolCall(w, task[w].tool)
    /\ task' = [task EXCEPT ![w] = NoTask]
    /\ Goto(w, "except")

(* Fault: planning is retried until the model answers.                     *)
InvokeLlmUntilAnswered(w, at, answered, notConfigured, raised) ==
    /\ pc[w] = at
    /\ \/ Goto(w, answered) /\ spent' = [spent EXCEPT ![w] = Bump(@)]
       \/ Goto(w, IF at = "plan_llm" THEN "planning_started" ELSE raised)
          /\ UNCHANGED spent
    /\ UNCHANGED <<row, findings, tools, loaded, tmp, task, calls>>

(* invoke_text_with_usage returns, or raises LLMNotConfiguredError, or     *)
(* raises anything else.                                                   *)
InvokeLlm(w, at, answered, notConfigured, raised) ==
    /\ pc[w] = at
    /\ \/ Goto(w, answered) /\ spent' = [spent EXCEPT ![w] = Bump(@)]
       \/ Goto(w, notConfigured) /\ UNCHANGED spent
       \/ Goto(w, raised) /\ UNCHANGED spent
    /\ UNCHANGED <<row, findings, tools, loaded, tmp, task, calls>>

(* Fault: the usage of a call replaces the sum.                            *)
SetTokenUsage(w, at, next) ==
    /\ pc[w] = at /\ loaded[w]
    /\ row' = [row EXCEPT !.tokens = Bump(0)]
    /\ Goto(w, next) /\ Forget(w)
    /\ UNCHANGED <<findings, tools, task, calls, spent>>

(* increment_token_usage after its SELECT.                                 *)
IncrementTokenUsage(w, at, next) ==
    /\ pc[w] = at /\ loaded[w]
    /\ row' = [row EXCEPT !.tokens = Bump(tmp[w].tokens)]
    /\ Goto(w, next) /\ Forget(w)
    /\ UNCHANGED <<findings, tools, task, calls, spent>>

-----------------------------------------------------------------------------
(* The graph's nodes, in the order of build_research_graph.                *)

(* load_context_node.  Its last statement converts options with int(),     *)
(* which raises for an option that is not a number.                        *)
LoadContext(w) ==
    \/ EmitEvent(w, "agent_started", "get_previous_findings") /\ UNCHANGED task
    \/ \E tool \in DatabaseTool, ok \in {TRUE, ~DbMayFail} : CallTool(w, tool, ok)
    \/ ToolDone(w, "get_previous_findings", "list_past_sessions", 0)
    \/ \E next \in {"planning_started", "except"} :
           ToolDone(w, "list_past_sessions", next, 0)

(* planner_node.  After a model's answer, extract_json returns a plan, or  *)
(* raises and the fallback plan is used, or returns JSON that is no object *)
(* and plan.get raises out of the node.                                    *)
Planner(w) ==
    \/ EmitEvent(w, "planning_started", "plan_llm") /\ UNCHANGED task
    \/ InvokeLlm(w, "plan_llm", "plan_tokens", "planning_completed",
                    "planning_warning")
    \/ \E next \in {"planning_completed", "planning_warning", "except"} :
           IncrementTokenUsage(w, "plan_tokens", next)
    \/ EmitEvent(w, "planning_warning", "planning_completed") /\ UNCHANGED task
    \/ EmitEvent(w, "planning_completed", "research_started") /\ UNCHANGED task

(* researcher_node, first loop: one search_code per term.  The matches it  *)
(* selects are at most max_files_to_read.                                  *)
Search(w) ==
    \/ /\ EmitEvent(w, "research_started", "search_code")
       /\ \E n \in 1..MaxTerms :
              task' = [task EXCEPT ![w] = [@ EXCEPT !.todo = n]]
    \/ \E ok \in BOOLEAN : CallTool(w, "search_code", ok)
    \/ /\ task[w].todo > 1
       /\ ToolDone(w, "search_code", "search_code", task[w].todo - 1)
    \/ /\ task[w].todo = 1
       /\ \/ ToolDone(w, "search_code", "research_completed", 0)
          \/ \E n \in 1..MaxMatches :
                 ToolDone(w, "search_code", "read_around_match", n)

(* save_finding: the Finding is inserted, then its own event is emitted,   *)
(* both inside the logged tool.                                            *)
SaveFinding(w) ==
    /\ pc[w] = "save_finding"
    /\ findings' = findings \cup {<<run[w], task[w].todo>>}
    /\ calls' = calls + 1
    /\ task' = [task EXCEPT ![w] = [@ EXCEPT !.tool = "save_finding"]]
    /\ Goto(w, "finding_saved")
    /\ UNCHANGED <<row, tools, loaded, tmp, spent>>

(* researcher_node, second loop: each match is read and saved as a finding *)
(* whose reference the answer will cite.                                   *)
ReadMatches(w) ==
    \/ \E ok \in BOOLEAN : CallTool(w, "read_around_match", ok)
    \/ ToolDone(w, "read_around_match", "save_finding", task[w].todo)
    \/ SaveFinding(w)
    \/ DbMayFail /\ CallTool(w, "save_finding", FALSE)
    \/ EmitEvent(w, "finding_saved", "log_tool_call") /\ UNCHANGED task
    \/ /\ LogToolCall(w, "save_finding") /\ ~task[w].broke
       /\ task' = [task EXCEPT ![w] =
                     [@ EXCEPT !.tool = "none", !.todo = task[w].todo - 1,
                               !.cited = task[w].cited \cup {<<run[w], task[w].todo>>}]]
       /\ Goto(w, IF task[w].todo > 1 THEN "read_around_match"
                                      ELSE "research_completed")
    \/ EmitEvent(w, "research_completed", "answer_started") /\ UNCHANGED task

(* answer_writer_node saves every column of an instance that it refreshed  *)
(* after the model's answer and recounted.                                 *)
SaveAnswer(w) ==
    /\ pc[w] = "answer_save" /\ loaded[w]
    /\ row' = Completed(tmp[w], run[w], task[w].cited)
    /\ Goto(w, "session_completed") /\ Forget(w)
    /\ UNCHANGED <<findings, tools, task, calls, spent>>

(* Without a model's answer, or if recording it raises, a fallback answer  *)
(* is written from the findings.                                           *)
AnswerWriter(w) ==
    \/ EmitEvent(w, "answer_started", "answer_llm") /\ UNCHANGED task
    \/ InvokeLlm(w, "answer_llm", "answer_tokens", "llm_fallback", "llm_fallback")
    \/ IncrementTokenUsage(w, "answer_tokens", "llm_completed")
    \/ EmitEvent(w, "llm_completed", "answer_save") /\ UNCHANGED task
    \/ EmitEvent(w, "llm_fallback", "answer_save") /\ UNCHANGED task
    \/ SaveAnswer(w)
    \/ EmitEvent(w, "session_completed", "runner_refresh") /\ UNCHANGED task

Graph(w) ==
    /\ \/ LoadContext(w) \/ Planner(w) \/ Search(w) \/ ReadMatches(w)
       \/ AnswerWriter(w) \/ ToolRaised(w)
    /\ UNCHANGED <<own, run, analyzed, orphaned, counters>>

-----------------------------------------------------------------------------
(* AgentRunner.run around the graph.                                       *)

(* The instance fetched here lives as long as the run.                     *)
RunnerGet(w) ==
    /\ pc[w] = "run_agent"
    /\ own' = [own EXCEPT ![w] = Running(row)]
    /\ Goto(w, "mark_running")
    /\ UNCHANGED row

RunnerMarkRunning(w) ==
    /\ pc[w] = "mark_running"
    /\ row' = own[w]
    /\ Goto(w, "agent_started")
    /\ UNCHANGED own

(* refresh_from_db after the graph, and the recount of the totals.         *)
RunnerRefresh(w) ==
    /\ pc[w] = "runner_refresh"
    /\ own' = [own EXCEPT ![w] = Recounted(row, tools, findings)]
    /\ Goto(w, "runner_totals")
    /\ UNCHANGED row

RunnerSaveTotals(w) ==
    /\ pc[w] = "runner_totals"
    /\ row' = WithTotals(row, own[w])
    /\ Goto(w, "service_refresh")
    /\ UNCHANGED own

(* The except clause saves every column of the instance it holds.          *)
RunnerFail(w) ==
    /\ pc[w] = "except"
    /\ row' = Ended(own[w], "failed")
    /\ Goto(w, "session_failed")
    /\ UNCHANGED own

(* The event of the except clause, after which run returns normally.       *)
RunnerFailed(w) ==
    /\ EmitEvent(w, "session_failed", "service_refresh")
    /\ UNCHANGED <<own, task, run, analyzed, orphaned, counters>>

RunnerStep(w) ==
    \/ /\ RunnerGet(w) \/ RunnerMarkRunning(w) \/ RunnerRefresh(w)
          \/ RunnerSaveTotals(w) \/ RunnerFail(w)
       /\ UNCHANGED <<findings, tools, analyzed, loaded, tmp, task, run,
                      observer, counters>>
    \/ RunnerFailed(w)

-----------------------------------------------------------------------------
(* ResearchService around the runner.                                      *)

(* The view fetches the session, run_existing_session checks it and merges *)
(* the options into that snapshot (max_steps 0 keeps the stored value).    *)
(* start_session enters here too, with the pending row it just inserted.   *)
RunRequest(w, force, maxSteps) ==
    /\ pc[w] = "idle"
    /\ runs < MaxRuns
    /\ force \/ ~IsFinished(row)
    /\ runs' = runs + 1
    /\ run' = [run EXCEPT ![w] = runs + 1]
    /\ IF maxSteps = 0
       THEN Goto(w, "run_agent") /\ UNCHANGED tmp
       ELSE /\ Goto(w, "merge_options")
            /\ tmp' = [tmp EXCEPT ![w] = [row EXCEPT !.maxSteps = maxSteps]]
    /\ UNCHANGED <<db, loaded, own, task, observer, cancels, crashes>>

(* Fault: all columns of the snapshot are saved, not the options alone.    *)
MergeOptionsSavesAll(w) ==
    /\ pc[w] = "merge_options"
    /\ row' = tmp[w]
    /\ Goto(w, "run_agent") /\ Forget(w)
    /\ UNCHANGED <<findings, tools, analyzed, own, task, run, observer, counters>>

MergeOptions(w) ==
    /\ pc[w] = "merge_options"
    /\ row' = [row EXCEPT !.maxSteps = tmp[w].maxSteps]
    /\ Goto(w, "run_agent") /\ Forget(w)
    /\ UNCHANGED <<findings, tools, analyzed, own, task, run, observer, counters>>

(* run_agent_for_session after the bridge returned: refresh_from_db, and   *)
(* the repository is stamped if the row says completed.                    *)
ServiceReturn(w) ==
    /\ pc[w] = "service_refresh"
    /\ analyzed' = (analyzed \/ row.status = "completed")
    /\ Return(w)
    /\ UNCHANGED <<row, findings, tools, calls, orphaned, counters>>

(* Faults: the except clause trusts the runner to have failed the session, *)
(* or fails it without looking.                                            *)
ServiceExceptTrusts(w) ==
    /\ pc[w] = "service_except" /\ loaded[w]
    /\ Return(w)
    /\ UNCHANGED <<db, calls, orphaned, counters>>
ServiceExceptFails(w) ==
    /\ pc[w] = "service_except" /\ loaded[w]
    /\ row' = Recounted(Ended(row, "failed"), tools, findings)
    /\ Return(w)
    /\ UNCHANGED <<findings, tools, analyzed, calls, orphaned, counters>>

(* run_agent_for_session's except clause, after its refresh_from_db.       *)
ServiceExcept(w) ==
    /\ pc[w] = "service_except" /\ loaded[w]
    /\ row' = IF IsFinished(tmp[w]) THEN row
              ELSE Recounted(Ended(row, "failed"), tools, findings)
    /\ Return(w)
    /\ UNCHANGED <<findings, tools, analyzed, calls, orphaned, counters>>

(* cancel_session: a finished session is left alone, any other is          *)
(* cancelled in two steps, the view's SELECT and mark_cancelled's UPDATE.  *)
CancelRequest(w) ==
    /\ pc[w] = "idle"
    /\ cancels < MaxCancels
    /\ ~IsFinished(row)
    /\ cancels' = cancels + 1
    /\ Goto(w, "cancel")
    /\ UNCHANGED <<db, loaded, tmp, own, task, run, observer, runs, crashes>>

Cancel(w) ==
    /\ pc[w] = "cancel"
    /\ row' = Ended(row, "cancelled")
    /\ Goto(w, "idle")
    /\ UNCHANGED <<findings, tools, analyzed, loaded, tmp, own, task, run,
                   observer, counters>>

-----------------------------------------------------------------------------
(* What the environment may do to a process.                               *)

(* Where an exception raised by the database at a label is caught.  A tool *)
(* that raises is logged first; recording a model's answer falls back.     *)
Handler(label) ==
    CASE label = "finding_saved" -> "log_tool_call"
      [] label = "plan_tokens" -> "planning_warning"
      [] label \in {"answer_tokens", "llm_completed"} -> "llm_fallback"
      [] label \in {"run_agent", "except", "session_failed",
                    "service_refresh"} -> "service_except"
      [] OTHER -> "except"

(* Labels at which an exception has a handler above it; the tools' own     *)
(* exceptions are CallTool's, the model's are InvokeLlm's.                 *)
Guarded == Label \ (Tool \cup {"idle", "merge_options", "cancel", "plan_llm",
                               "answer_llm", "service_except"})

DbRaise(w) ==
    /\ DbMayFail
    /\ pc[w] \in Guarded
    /\ Goto(w, Handler(pc[w])) /\ Forget(w)
    /\ task' = [task EXCEPT ![w] = [@ EXCEPT !.broke = pc[w] = "finding_saved"]]
    /\ UNCHANGED <<db, own, run, observer, counters>>

Orphan(w) == orphaned' = (orphaned \/ pc[w] \in RunPhase \cup {"service_except"})

(* Outside those, the exception leaves the view: the request ends with 500. *)
RequestFails(w) ==
    /\ DbMayFail
    /\ pc[w] \in {"merge_options", "cancel", "service_except"}
    /\ Orphan(w)
    /\ Return(w)
    /\ UNCHANGED <<db, calls, counters>>

(* The worker is killed (gunicorn's timeout, a deploy, the machine).       *)
Crash(w) ==
    /\ pc[w] # "idle"
    /\ crashes < MaxCrashes
    /\ crashes' = crashes + 1
    /\ Orphan(w)
    /\ Return(w)
    /\ UNCHANGED <<db, calls, runs, cancels>>

(* What a worker does by itself once it has accepted a request.            *)
Work(w) ==
    \/ FetchRow(w) \/ Graph(w) \/ RunnerStep(w)
    \/ MergeOptions(w) \/ ServiceReturn(w) \/ ServiceExcept(w)

Next ==
    \/ \E w \in Runner :
           \/ \E force \in ForceValues, n \in RerunMaxSteps : RunRequest(w, force, n)
           \/ Work(w)
    \/ \E w \in Canceller : CancelRequest(w) \/ Cancel(w)
    \/ \E w \in Process : DbRaise(w) \/ RequestFails(w) \/ Crash(w)

Spec == Init /\ [][Next]_vars

(* A process that has accepted a request keeps executing: statements       *)
(* return, and the model client gives up after its timeout and retries.    *)
FairSpec ==
    /\ Spec
    /\ \A w \in Runner : WF_vars(Work(w))
    /\ \A w \in Canceller : WF_vars(Cancel(w))

-----------------------------------------------------------------------------
(* Type invariant: the variables hold what the code can put there.         *)
TypeOK ==
    /\ row \in Row
    /\ findings \subseteq Finding
    /\ tools \in Nat
    /\ analyzed \in BOOLEAN
    /\ pc \in [Process -> Label]
    /\ loaded \in [Process -> BOOLEAN]
    /\ tmp \in [Process -> Row]
    /\ own \in [Process -> Row]
    /\ task \in [Process -> Task]
    /\ run \in [Process -> 0..MaxRuns]
    /\ calls \in Nat
    /\ spent \in [Process -> Nat]
    /\ orphaned \in BOOLEAN
    /\ runs \in 0..MaxRuns
    /\ cancels \in 0..MaxCancels
    /\ crashes \in 0..MaxCrashes

(* Process w is between setting "running" and the save that will end the   *)
(* run: in the graph, in the runner's except clause, or in the service's   *)
(* except clause unless that has seen a finished row and will not save.    *)
HasToEndRun(w) ==
    \/ pc[w] \in RunPhase
    \/ pc[w] = "service_except" /\ ~(loaded[w] /\ IsFinished(tmp[w]))

(* A row that says "running" has a process that will still end its run,    *)
(* whatever runs and cancels interleave and whichever statements raise: no *)
(* except clause, stale save or early return leaves a session running for  *)
(* ever.  Only a killed worker or a failing service_except orphans it.     *)
RunningHasRun ==
    row.status = "running" => orphaned \/ \E w \in Process : HasToEndRun(w)

(* A status and the columns that explain it never come apart, although     *)
(* some saves write every column of an old snapshot and others only three: *)
(* a completed row has an answer and no error, a failed or cancelled row   *)
(* carries its own kind of error message, a running row none.              *)
StatusExplained(r) ==
    /\ r.status \in FinishedStatus => r.closed
    /\ r.status = "completed" => r.answer # 0 /\ r.error = ""
    /\ r.status \in {"failed", "cancelled"} => r.error = r.status
    /\ r.status \in {"pending", "running"} => r.error = ""
    /\ r.status \notin {"pending", "cancelled"} =>
           r.started \/ r.status = "failed"
ConsistentRow == StatusExplained(row)

(* The stored answer cites exactly the findings that its run saved, even   *)
(* when other runs save theirs meanwhile or an old snapshot of the whole   *)
(* row is saved again: answer and references come from one run.            *)
AnswerCitesItsRun ==
    row.answer # 0 => row.refs = {f \in findings : f[1] = row.answer}

(* Once a session has left "pending" no save of an old instance brings     *)
(* that status back.                                                       *)
NeverPendingAgain == [][row.status # "pending" => row'.status # "pending"]_vars

(* Every call of a tool is in the tool-call log or is just about to be: a  *)
(* tool that raises is logged as well, and a run that ends has logged all. *)
Unlogged(w) ==
    pc[w] = "log_tool_call" \/ pc[w] = "finding_saved"
AuditTrail == calls = tools + Cardinality({w \in Process : Unlogged(w)})

(* When a session of one runner is completed and nobody works on it, its   *)
(* totals are those of the audit tables, whatever was cancelled meanwhile. *)
AtRest == \A w \in Process : pc[w] = "idle"
TotalsExact ==
    AtRest /\ row.status = "completed" =>
        /\ row.toolTotal = tools
        /\ row.findTotal = Cardinality(findings)

(* A run that saves its answer has added the tokens of every model call it *)
(* made to what the row held when the run began.                           *)
TokensRecorded ==
    \A w \in Runner : pc[w] = "session_completed" =>
        row.tokens = own[w].tokens + spent[w]

(* With one runner a stored answer is only ever replaced by a later run's  *)
(* answer: no failing rerun, which saves the instance it fetched at its    *)
(* start, erases or turns it back.                                         *)
AnswerOnlyAdvances == [][row'.answer >= row.answer]_vars

(* A run that is under way ends: the status does not stay "running",       *)
(* unless a killed worker left it so.                                      *)
RunningEnds == row.status = "running" ~> row.status # "running" \/ orphaned

(* Every accepted run request is answered.                                 *)
RequestsReturn == \A w \in Runner : pc[w] = "run_agent" ~> pc[w] = "idle"

-----------------------------------------------------------------------------
(* What documents, messages and checks of the repository say and the code  *)
(* does not keep; each is checked on its own and refuted by a run.         *)

(* run_existing_session's message: "This session is already finished.      *)
(* Pass force=true to rerun."  So without force a finished session keeps   *)
(* its status.                                                             *)
FinishedIsFinal == [][IsFinished(row) => row'.status = row.status]_vars

(* DECISIONS.md: the request flow ends with "Persist the final answer and  *)
(* status": an answer once stored is not erased.                           *)
AnswerKept == [][row.answer # 0 => row'.answer # 0]_vars

-----------------------------------------------------------------------------
(* How far the request of process w is, in the terms of SessionLifecycle.  *)
PhaseOf(w) ==
    CASE pc[w] = "idle" -> "idle"
      [] pc[w] = "cancel" -> "cancelling"
      [] pc[w] \in {"merge_options", "run_agent", "mark_running"} -> "admitted"
      [] pc[w] \in RunPhase \ {"except"} -> "working"
      [] HasToEndRun(w) /\ pc[w] \in {"except", "service_except"} -> "failing"
      [] OTHER -> "closing"

Lifecycle == INSTANCE SessionLifecycle WITH
    status     <- row.status,
    phase      <- [w \in Process |-> PhaseOf(w)],
    AllowForce <- TRUE \in ForceValues,
    MayVanish  <- DbMayFail \/ MaxCrashes > 0

(* The interleaved reads and saves implement the lifecycle: a status only  *)
(* changes by a request in flight, and no request that set "running" is    *)
(* answered before its run has an end.                                     *)
ImplementsLifecycle == Lifecycle!Spec
=============================================================================
