------------------------ MODULE SessionRecordProofs ------------------------
(***************************************************************************)
(* What the runs of a session leave in the database, for any sets of       *)
(* processes and any bounds: the stored answer and its references come     *)
(* from one run, and the log of tool calls is complete.                    *)
(***************************************************************************)
EXTENDS ResearchSessionProofs

(* The statements of a run that may still save a finding and cite it.      *)
Collecting ==
    {"merge_options", "run_agent", "mark_running"} \cup (RunPhase \ {"except"})

FoundBy(n) == {f \in findings : f[1] = n}

(* A finding is stored before its tool has returned and it is cited.       *)
OneAhead(w) ==
    \/ pc[w] = "finding_saved"
    \/ pc[w] = "log_tool_call" /\ task[w].tool = "save_finding"
Claimed(w) ==
    IF OneAhead(w) THEN task[w].cited \cup {<<run[w], task[w].todo>>} ELSE task[w].cited

(* A run that still collects has cited what it saved, except the finding   *)
(* it is about to cite; a tool that raised ends the collecting.            *)
Collected(w) ==
    /\ pc[w] \in {"idle", "cancel"} => task[w].cited = {}
    /\ pc[w] = "finding_saved" => task[w].tool = "save_finding"
    /\ pc[w] \in Collecting => \/ pc[w] = "log_tool_call" /\ task[w].broke
                               \/ FoundBy(run[w]) = Claimed(w)

(* Every run has a number of its own, and saves findings under no other.   *)
Numbered ==
    /\ \A f \in findings : f[1] <= runs
    /\ \A w \in Process : run[w] <= runs
    /\ \A v, w \in Process : run[v] = run[w] /\ run[w] # 0 => v = w

(* The answer of an instance cites all that its run saved, and that run    *)
(* will save no more.                                                      *)
Settled(r) ==
    r.answer # 0 =>
        /\ r.answer <= runs
        /\ r.refs = FoundBy(r.answer)
        /\ \A w \in Process : run[w] = r.answer => pc[w] \notin Collecting

AnswerInv ==
    /\ TypeInv
    /\ Numbered
    /\ \A w \in Process : Collected(w)
    /\ Settled(row)
    /\ \A w \in Process : Settled(own[w])

-----------------------------------------------------------------------------
(* Steps of process w, and what they leave alone.                          *)
Moves(w) ==
    \/ Work(w) \/ Cancel(w) \/ CancelRequest(w)
    \/ DbRaise(w) \/ RequestFails(w) \/ Crash(w)
    \/ \E force \in ForceValues, n \in RerunMaxSteps : RunRequest(w, force, n)

OthersTask(w) ==
    \A p \in Process \ {w} :
        /\ pc'[p] = pc[p] /\ own'[p] = own[p]
        /\ task'[p] = task[p] /\ run'[p] = run[p]

LEMMA OthersTaskKept ==
    ASSUME TypeInv, NEW w \in Process, Moves(w)
    PROVE  OthersTask(w)
<1>0. Others(w)
  BY OthersUnmoved DEF Moves
<1>1. \A p \in Process \ {w} : run'[p] = run[p]
  BY DEF Moves, Work, FetchRow, Graph, RunnerStep, RunnerFailed, MergeOptions, ServiceReturn,
     ServiceExcept, Cancel, CancelRequest, DbRaise, RequestFails, Crash, Return,
     RunRequest, TypeInv, TypeOK
<1>2. ASSUME Graph(w) PROVE \A p \in Process \ {w} : task'[p] = task[p]
  BY <1>2 DEF Graph, LoadContext, Planner, Search, ReadMatches, AnswerWriter, ToolRaised,
     CallTool, ToolDone, InvokeLlm, IncrementTokenUsage, SaveFinding, SaveAnswer,
     TypeInv, TypeOK
<1>3. ASSUME ~Graph(w) PROVE \A p \in Process \ {w} : task'[p] = task[p]
  BY <1>3 DEF Moves, Work, FetchRow, RunnerStep, RunnerFailed, MergeOptions, ServiceReturn,
     ServiceExcept, Cancel, CancelRequest, DbRaise, RequestFails, Crash, Return,
     RunRequest, TypeInv, TypeOK
<1> QED
  BY <1>0, <1>1, <1>2, <1>3 DEF Others, OthersTask

(* Only SaveFinding changes the findings.                                  *)
LEMMA FindingsKept ==
    ASSUME NEW w \in Process, Moves(w)
    PROVE  findings' = findings \/ (SaveFinding(w) /\ Graph(w))
<1>1. ASSUME Graph(w), ~SaveFinding(w) PROVE findings' = findings
  BY <1>1 DEF Graph, LoadContext, Planner, Search, ReadMatches, AnswerWriter, ToolRaised,
     CallTool, ToolDone, LogToolCall, EmitEvent, InvokeLlm, IncrementTokenUsage, SaveAnswer
<1>2. ASSUME ~Graph(w) PROVE findings' = findings
  BY <1>2 DEF Moves, Work, FetchRow, RunnerStep, RunnerFailed, EmitEvent, MergeOptions,
     ServiceReturn, ServiceExcept, Cancel, CancelRequest, DbRaise, RequestFails, Crash,
     RunRequest, db
<1> QED
  BY <1>1, <1>2

(* Only a run request draws a number; a request that ends gives it back.   *)
LEMMA NumbersKept ==
    ASSUME TypeInv, NEW w \in Process, Moves(w)
    PROVE  \/ runs' = runs /\ run'[w] = run[w]
           \/ runs' = runs /\ run'[w] = 0 /\ pc'[w] = "idle" /\ own'[w] = NoRow
                           /\ task'[w] = NoTask
           \/ runs' = runs + 1 /\ run'[w] = runs + 1 /\ findings' = findings
                               /\ row' = row /\ own' = own /\ task' = task
                               /\ pc[w] = "idle" /\ pc'[w] \in {"run_agent", "merge_options"}
  BY DEF Moves, Work, FetchRow, Graph, RunnerStep, RunnerFailed, MergeOptions, ServiceReturn,
     ServiceExcept, Cancel, CancelRequest, DbRaise, RequestFails, Crash, Return,
     RunRequest, Goto, counters, db, TypeInv, TypeOK

(* Answer and references of a saved instance are those of the row or of    *)
(* the instance that the runner holds, or a new answer.                    *)
SameAnswer(r, q) == r.answer = q.answer /\ r.refs = q.refs

LEMMA AnswersKept ==
    ASSUME TypeInv, NEW w \in Process, Moves(w)
    PROVE  /\ SaveAnswer(w) \/ SameAnswer(row', row) \/ SameAnswer(row', own[w])
           /\ SameAnswer(own'[w], row) \/ SameAnswer(own'[w], own[w]) \/ own'[w] = NoRow
<1> USE DEF SameAnswer
<1>1. CASE Graph(w)
  <2>1. own' = own
    BY <1>1 DEF Graph
  <2>2. SaveAnswer(w) \/ StaysInRun(w)
    BY <1>1, GraphEffect
  <2> QED
    BY <2>1, <2>2 DEF StaysInRun, SameStatus
<1>2. CASE RunnerStep(w)
  <2>1. CASE RunnerGet(w)
    BY <2>1 DEF RunnerGet, Running, TypeInv, TypeOK, Row
  <2>2. CASE RunnerMarkRunning(w)
    BY <2>2 DEF RunnerMarkRunning
  <2>3. CASE RunnerRefresh(w)
    BY <2>3 DEF RunnerRefresh, Recounted, TypeInv, TypeOK, Row
  <2>4. CASE RunnerSaveTotals(w) \/ RunnerFail(w)
    BY <2>4 DEF RunnerSaveTotals, RunnerFail, WithTotals, Ended, TypeInv, TypeOK, Row
  <2>5. CASE RunnerFailed(w)
    BY <2>5 DEF RunnerFailed, EmitEvent, NextStep, TypeInv, TypeOK, Row
  <2> QED
    BY <1>2, <2>1, <2>2, <2>3, <2>4, <2>5 DEF RunnerStep
<1>3. CASE MergeOptions(w) \/ Cancel(w) \/ ServiceReturn(w) \/ ServiceExcept(w)
  BY <1>3 DEF MergeOptions, Cancel, ServiceReturn, ServiceExcept, Return, Recounted, Ended,
     TypeInv, TypeOK, Row
<1>4. CASE FetchRow(w) \/ CancelRequest(w) \/ DbRaise(w)
           \/ \E force \in ForceValues, n \in RerunMaxSteps : RunRequest(w, force, n)
  BY <1>4 DEF FetchRow, CancelRequest, DbRaise, RunRequest, db
<1>5. CASE RequestFails(w) \/ Crash(w)
  BY <1>5 DEF RequestFails, Crash, Return, db, TypeInv, TypeOK
<1> QED
  BY <1>1, <1>2, <1>3, <1>4, <1>5 DEF Moves, Work

LEMMA CollectingLabels ==
    \A label \in {"idle", "cancel", "except", "session_completed", "runner_refresh",
                  "runner_totals", "session_failed", "service_refresh", "service_except"} :
        label \notin Collecting
  BY DEF Collecting, RunPhase, AgentEvent, Tool, DatabaseTool, CodeTool

(* A run that has left the collecting does not come back to it.            *)
LEMMA CollectingKept ==
    ASSUME TypeInv, NEW w \in Process, Moves(w), pc'[w] \in Collecting
    PROVE  pc[w] \in Collecting \/ (pc[w] = "idle" /\ run'[w] = runs + 1)
<1>1. CASE Graph(w)
  <2>1. CASE SaveAnswer(w)
    BY <2>1, PcMoves, CollectingLabels
  <2>2. CASE StaysInRun(w)
    BY <2>2, CollectingLabels DEF StaysInRun, Collecting
  <2> QED
    BY <1>1, <2>1, <2>2, GraphEffect
<1>2. CASE RunnerStep(w)
  BY <1>2, PcMoves DEF RunnerStep, Collecting, RunPhase, AgentEvent, Tool, DatabaseTool,
     CodeTool
<1>3. CASE MergeOptions(w) \/ Cancel(w) \/ CancelRequest(w) \/ FetchRow(w)
  BY <1>3, PcMoves DEF FetchRow, Collecting, RunPhase, AgentEvent, Tool, DatabaseTool,
     CodeTool
<1>4. CASE ServiceReturn(w) \/ ServiceExcept(w) \/ RequestFails(w) \/ Crash(w)
  <2>1. pc'[w] = "idle"
    BY <1>4 DEF ServiceReturn, ServiceExcept, RequestFails, Crash, Return, Goto,
       TypeInv, TypeOK
  <2> QED
    BY <2>1, CollectingLabels
<1>5. CASE DbRaise(w)
  <2>1. /\ pc'[w] = Handler(pc[w]) /\ pc[w] \in Guarded
    BY <1>5 DEF DbRaise, Goto, TypeInv, TypeOK
  <2> QED
    BY <2>1, CollectingLabels DEF Handler, Guarded, Label, Collecting
<1>6. ASSUME NEW force, NEW n, RunRequest(w, force, n)
      PROVE  pc[w] = "idle" /\ run'[w] = runs + 1
  BY <1>6 DEF RunRequest, TypeInv, TypeOK
<1> QED
  BY <1>1, <1>2, <1>3, <1>4, <1>5, <1>6 DEF Moves, Work

-----------------------------------------------------------------------------
(* Collected is kept by the process that takes the step.                   *)

(* A step that neither saves a finding nor cites one.                      *)
LEMMA NothingCited ==
    ASSUME AnswerInv, NEW w \in Process, Moves(w),
           findings' = findings, run'[w] = run[w], task'[w].cited = task[w].cited,
           pc[w] # "idle", ~OneAhead(w), pc[w] = "log_tool_call" => ~task[w].broke,
           pc'[w] \notin {"finding_saved", "log_tool_call", "idle", "cancel"}
    PROVE  Collected(w)'
<1>1. pc'[w] \in Collecting => FoundBy(run[w]) = task[w].cited
  BY CollectingKept DEF AnswerInv, Collected, Claimed
<1> QED
  BY <1>1 DEF Collected, Claimed, OneAhead, FoundBy

LEMMA GraphCollects ==
    ASSUME AnswerInv, NEW w \in Process, Graph(w)
    PROVE  Collected(w)'
<1>0. /\ TypeInv /\ Collected(w) /\ Moves(w) /\ run' = run
      /\ task[w] \in Task /\ pc[w] \in Label
  BY DEF AnswerInv, Moves, Work, Graph, TypeInv, TypeOK
<1>1. CASE SaveFinding(w)
  <2>1. /\ pc[w] = "save_finding" /\ pc'[w] = "finding_saved"
        /\ findings' = findings \cup {<<run[w], task[w].todo>>}
        /\ task'[w] = [task[w] EXCEPT !.tool = "save_finding"]
    BY <1>0, <1>1 DEF SaveFinding, Goto, TypeInv, TypeOK
  <2>2. FoundBy(run[w]) = task[w].cited
    BY <1>0, <2>1 DEF Collected, Claimed, OneAhead, Collecting, RunPhase, Tool
  <2>3. FoundBy(run[w])' = FoundBy(run[w]) \cup {<<run[w], task[w].todo>>}
    BY <1>0, <2>1 DEF FoundBy
  <2>4. /\ task'[w].tool = "save_finding" /\ task'[w].cited = task[w].cited
        /\ task'[w].todo = task[w].todo
    BY <1>0, <2>1 DEF Task
  <2> QED
    BY <1>0, <2>1, <2>2, <2>3, <2>4 DEF Collected, Claimed, OneAhead
<1>2. ASSUME ~SaveFinding(w) PROVE findings' = findings
  BY <1>0, <1>2, FindingsKept
<1>3. ASSUME NEW tool \in Tool, NEW ok \in BOOLEAN, CallTool(w, tool, ok),
             tool = "save_finding" => ~ok
      PROVE  Collected(w)'
  <2>1. /\ pc[w] = tool /\ pc'[w] = "log_tool_call" /\ findings' = findings
        /\ task'[w] = [task[w] EXCEPT !.tool = tool, !.broke = ~ok]
    BY <1>0, <1>3 DEF CallTool, Goto, TypeInv, TypeOK
  <2>2. /\ task'[w].tool = tool /\ task'[w].broke = ~ok /\ task'[w].cited = task[w].cited
    BY <1>0, <2>1 DEF Task
  <2>3. FoundBy(run[w]) = task[w].cited
    BY <1>0, <2>1
    DEF Collected, Claimed, OneAhead, Collecting, RunPhase, Tool, DatabaseTool, CodeTool
  <2> QED
    BY <1>0, <1>3, <2>1, <2>2, <2>3 DEF Collected, Claimed, OneAhead, FoundBy
<1>4. ASSUME NEW tool, NEW next, NEW left, ToolDone(w, tool, next, left),
             tool # "save_finding",
             next \notin {"finding_saved", "log_tool_call", "idle", "cancel"}
      PROVE  Collected(w)'
  <2>1. /\ pc[w] = "log_tool_call" /\ pc'[w] = next /\ findings' = findings
        /\ task[w].tool = tool /\ ~task[w].broke
        /\ task'[w] = [task[w] EXCEPT !.tool = "none", !.todo = left]
    BY <1>0, <1>4 DEF ToolDone, LogToolCall, Goto, TypeInv, TypeOK
  <2>2. task'[w].cited = task[w].cited
    BY <1>0, <2>1 DEF Task
  <2> QED
    BY <1>0, <1>4, <2>1, <2>2, NothingCited DEF OneAhead
<1>5. ASSUME pc[w] \in Label \ {"finding_saved", "log_tool_call", "idle", "cancel"},
             pc'[w] \notin {"finding_saved", "log_tool_call", "idle", "cancel"},
             task'[w].cited = task[w].cited, ~SaveFinding(w)
      PROVE  Collected(w)'
  BY <1>0, <1>2, <1>5, NothingCited DEF OneAhead
<1>6. ASSUME NEW e \in AgentEvent \ {"finding_saved"}, NEW next, EmitEvent(w, e, next),
             next \notin {"finding_saved", "log_tool_call", "idle", "cancel"},
             task'[w].cited = task[w].cited
      PROVE  Collected(w)'
  <2>1. pc[w] = e /\ pc'[w] = next
    BY <1>0, <1>6 DEF EmitEvent, Goto, TypeInv, TypeOK
  <2> QED
    BY <1>0, <1>5, <1>6, <2>1 DEF AgentEvent, SaveFinding
<1>7. CASE LoadContext(w)
  <2>1. CASE EmitEvent(w, "agent_started", "get_previous_findings") /\ UNCHANGED task
    BY <1>6, <2>1 DEF AgentEvent
  <2>2. ASSUME NEW tool \in DatabaseTool, NEW ok \in {TRUE, ~DbMayFail},
               CallTool(w, tool, ok)
        PROVE  Collected(w)'
    BY <1>3, <2>2, ChoiceAssumption DEF Tool, DatabaseTool
  <2>3. CASE ToolDone(w, "get_previous_findings", "list_past_sessions", 0)
    BY <1>4, <2>3
  <2>4. ASSUME NEW next \in {"planning_started", "except"},
               ToolDone(w, "list_past_sessions", next, 0)
        PROVE  Collected(w)'
    BY <1>4, <2>4
  <2> QED
    BY <1>7, <2>1, <2>2, <2>3, <2>4 DEF LoadContext
<1>8. CASE Planner(w)
  <2>1. CASE InvokeLlm(w, "plan_llm", "plan_tokens", "planning_completed",
                       "planning_warning")
    BY <1>0, <1>5, <2>1 DEF InvokeLlm, Goto, SaveFinding, TypeInv, TypeOK
  <2>2. ASSUME NEW next \in {"planning_completed", "planning_warning", "except"},
               IncrementTokenUsage(w, "plan_tokens", next)
        PROVE  Collected(w)'
    BY <1>0, <1>5, <2>2 DEF IncrementTokenUsage, Goto, SaveFinding, TypeInv, TypeOK
  <2>3. ASSUME NEW e \in {"planning_started", "planning_warning", "planning_completed"},
               NEW next \in {"plan_llm", "planning_completed", "research_started"},
               EmitEvent(w, e, next), UNCHANGED task
        PROVE  Collected(w)'
    BY <1>6, <2>3 DEF AgentEvent
  <2> QED
    BY <1>8, <2>1, <2>2, <2>3 DEF Planner
<1>9. CASE Search(w)
  <2>1. ASSUME EmitEvent(w, "research_started", "search_code"), NEW n \in 1..MaxTerms,
               task' = [task EXCEPT ![w] = [@ EXCEPT !.todo = n]]
        PROVE  Collected(w)'
    <3>1. task'[w].cited = task[w].cited
      BY <1>0, <2>1 DEF TypeInv, TypeOK, Task
    <3> QED
      BY <1>6, <2>1, <3>1 DEF AgentEvent
  <2>2. ASSUME NEW ok \in BOOLEAN, CallTool(w, "search_code", ok)
        PROVE  Collected(w)'
    BY <1>3, <2>2 DEF Tool, CodeTool
  <2>3. ASSUME NEW next \in {"search_code", "research_completed", "read_around_match"},
               NEW left, ToolDone(w, "search_code", next, left)
        PROVE  Collected(w)'
    BY <1>4, <2>3
  <2> QED
    BY <1>9, <2>1, <2>2, <2>3 DEF Search
<1>10. CASE ReadMatches(w)
  <2>1. ASSUME NEW ok \in BOOLEAN, CallTool(w, "read_around_match", ok)
        PROVE  Collected(w)'
    BY <1>3, <2>1 DEF Tool, CodeTool
  <2>2. CASE ToolDone(w, "read_around_match", "save_finding", task[w].todo)
    BY <1>4, <2>2
  <2>3. CASE CallTool(w, "save_finding", FALSE)
    BY <1>3, <2>3 DEF Tool
  <2>4. CASE EmitEvent(w, "finding_saved", "log_tool_call") /\ UNCHANGED task
    <3>1. pc[w] = "finding_saved" /\ pc'[w] = "log_tool_call" /\ findings' = findings
      BY <1>0, <2>4 DEF EmitEvent, Goto, TypeInv, TypeOK
    <3>2. FoundBy(run[w]) = Claimed(w) /\ task[w].tool = "save_finding"
      BY <1>0, <3>1 DEF Collected, Collecting, RunPhase, AgentEvent
    <3> QED
      BY <1>0, <2>4, <3>1, <3>2 DEF Collected, Claimed, OneAhead, FoundBy
  <2>5. ASSUME LogToolCall(w, "save_finding"), ~task[w].broke,
               task' = [task EXCEPT ![w] =
                     [@ EXCEPT !.tool = "none", !.todo = task[w].todo - 1,
                               !.cited = task[w].cited \cup {<<run[w], task[w].todo>>}]],
               Goto(w, IF task[w].todo > 1 THEN "read_around_match"
                                           ELSE "research_completed")
        PROVE  Collected(w)'
    <3>1. /\ pc[w] = "log_tool_call" /\ task[w].tool = "save_finding"
          /\ pc'[w] \in {"read_around_match", "research_completed"}
          /\ findings' = findings
      BY <1>0, <2>5 DEF LogToolCall, Goto, TypeInv, TypeOK
    <3>2. task'[w].cited = task[w].cited \cup {<<run[w], task[w].todo>>}
      BY <1>0, <2>5 DEF TypeInv, TypeOK, Task
    <3>3. FoundBy(run[w]) = task[w].cited \cup {<<run[w], task[w].todo>>}
      BY <1>0, <2>5, <3>1 DEF Collected, Claimed, OneAhead, Collecting, RunPhase
    <3> QED
      BY <1>0, <3>1, <3>2, <3>3 DEF Collected, Claimed, OneAhead, FoundBy
  <2>6. CASE EmitEvent(w, "research_completed", "answer_started") /\ UNCHANGED task
    BY <1>6, <2>6 DEF AgentEvent
  <2> QED
    BY <1>1, <1>10, <2>1, <2>2, <2>3, <2>4, <2>5, <2>6 DEF ReadMatches
<1>11. CASE AnswerWriter(w)
  <2>1. CASE InvokeLlm(w, "answer_llm", "answer_tokens", "llm_fallback", "llm_fallback")
    BY <1>0, <1>5, <2>1 DEF InvokeLlm, Goto, SaveFinding, TypeInv, TypeOK
  <2>2. CASE IncrementTokenUsage(w, "answer_tokens", "llm_completed")
    BY <1>0, <1>5, <2>2 DEF IncrementTokenUsage, Goto, SaveFinding, TypeInv, TypeOK
  <2>3. ASSUME NEW e \in {"answer_started", "llm_completed", "llm_fallback",
                          "session_completed"},
               NEW next \in {"answer_llm", "answer_save", "runner_refresh"},
               EmitEvent(w, e, next), UNCHANGED task
        PROVE  Collected(w)'
    BY <1>6, <2>3 DEF AgentEvent
  <2>4. CASE SaveAnswer(w)
    BY <1>0, <1>5, <2>4, PcMoves DEF SaveAnswer, SaveFinding
  <2> QED
    BY <1>11, <2>1, <2>2, <2>3, <2>4 DEF AnswerWriter
<1>12. CASE ToolRaised(w)
  <2>1. pc'[w] = "except"
    BY <1>0, <1>12 DEF ToolRaised, Goto, TypeInv, TypeOK
  <2> QED
    BY <2>1, CollectingLabels DEF Collected
<1> QED
  BY <1>7, <1>8, <1>9, <1>10, <1>11, <1>12 DEF Graph

LEMMA CollectedStep ==
    ASSUME AnswerInv, NEW w \in Process, Moves(w)
    PROVE  Collected(w)'
<1>0. /\ TypeInv /\ Collected(w) /\ Numbered
      /\ task[w] \in Task /\ pc[w] \in Label
  BY DEF AnswerInv, TypeInv, TypeOK
<1>1. CASE Graph(w)
  BY <1>1, GraphCollects
<1>2. CASE FetchRow(w)
  BY <1>0, <1>2 DEF FetchRow, db, Collected, Claimed, OneAhead, FoundBy
<1>3. CASE RunnerStep(w) \/ MergeOptions(w)
  <2>1. /\ findings' = findings /\ run' = run /\ task' = task
        /\ pc[w] \notin {"idle", "finding_saved", "log_tool_call"}
        /\ pc'[w] \in {"mark_running", "agent_started", "runner_totals", "service_refresh",
                       "session_failed", "run_agent"}
    BY <1>0, <1>3 DEF RunnerStep, RunnerFailed, RunnerGet, RunnerMarkRunning, RunnerRefresh,
       RunnerSaveTotals, RunnerFail, EmitEvent, MergeOptions, Goto, TypeInv, TypeOK
  <2> QED
    BY <2>1, NothingCited DEF OneAhead
<1>4. CASE ServiceReturn(w) \/ ServiceExcept(w) \/ RequestFails(w) \/ Crash(w)
  <2>1. pc'[w] = "idle" /\ task'[w] = NoTask
    BY <1>0, <1>4 DEF ServiceReturn, ServiceExcept, RequestFails, Crash, Return, Goto,
       TypeInv, TypeOK
  <2>2. task'[w].cited = {}
    BY <2>1 DEF NoTask
  <2> QED
    BY <2>1, <2>2, CollectingLabels DEF Collected
<1>5. CASE Cancel(w) \/ CancelRequest(w)
  <2>1. /\ pc[w] \in {"idle", "cancel"} /\ pc'[w] \in {"idle", "cancel"} /\ task' = task
    BY <1>0, <1>5, PcMoves DEF Cancel, CancelRequest
  <2> QED
    BY <1>0, <2>1, CollectingLabels DEF Collected
<1>6. CASE DbRaise(w)
  <2>1. /\ findings' = findings /\ run' = run
        /\ pc'[w] = Handler(pc[w]) /\ pc[w] \in Guarded
        /\ task'[w] = [task[w] EXCEPT !.broke = pc[w] = "finding_saved"]
    BY <1>0, <1>6 DEF DbRaise, db, Goto, TypeInv, TypeOK
  <2>2. /\ task'[w].cited = task[w].cited
        /\ task'[w].broke = (pc[w] = "finding_saved")
    BY <1>0, <2>1 DEF Task
  <2>3. CASE pc[w] = "finding_saved"
    BY <2>1, <2>2, <2>3 DEF Collected, Handler
  <2>4. CASE pc[w] \in {"plan_tokens", "answer_tokens", "llm_completed"}
    <3>1. pc'[w] \in {"planning_warning", "llm_fallback"}
      BY <2>1, <2>4 DEF Handler
    <3> QED
      BY <2>1, <2>2, <2>4, <3>1, NothingCited DEF OneAhead
  <2>5. CASE pc[w] \notin {"finding_saved", "plan_tokens", "answer_tokens", "llm_completed"}
    <3>1. pc'[w] \in {"except", "service_except"}
      BY <2>1, <2>5 DEF Handler
    <3> QED
      BY <3>1, CollectingLabels DEF Collected
  <2> QED
    BY <2>3, <2>4, <2>5
<1>7. ASSUME NEW force \in ForceValues, NEW n \in RerunMaxSteps, RunRequest(w, force, n)
      PROVE  Collected(w)'
  <2>1. /\ pc[w] = "idle" /\ pc'[w] \in {"run_agent", "merge_options"}
        /\ run'[w] = runs + 1 /\ task' = task /\ findings' = findings
    BY <1>0, <1>7 DEF RunRequest, db, Goto, TypeInv, TypeOK
  <2>2. \A f \in findings : f[1] # runs + 1
    BY <1>0, BoundsAssumption DEF Numbered, TypeInv, TypeOK, Finding
  <2> QED
    BY <1>0, <2>1, <2>2 DEF Collected, Claimed, OneAhead, FoundBy
<1> QED
  BY <1>1, <1>2, <1>3, <1>4, <1>5, <1>6, <1>7 DEF Moves, Work

-----------------------------------------------------------------------------
(* The other parts of the invariant.                                       *)
LEMMA NewFinding ==
    ASSUME TypeInv, NEW w \in Process, Moves(w), findings' # findings
    PROVE  /\ findings' = findings \cup {<<run[w], task[w].todo>>}
           /\ pc[w] = "save_finding" /\ pc[w] \in Collecting /\ run[w] # 0
           /\ runs' = runs /\ run' = run
<1>1. SaveFinding(w) /\ Graph(w)
  BY FindingsKept
<1> QED
  BY <1>1 DEF SaveFinding, Graph, counters, Collecting, RunPhase, Tool, TypeInv, TaskOK

LEMMA NumberedStep ==
    ASSUME TypeInv, Numbered, NEW w \in Process, Moves(w)
    PROVE  Numbered'
<1>0. /\ OthersTask(w) /\ runs \in Nat /\ run \in [Process -> Nat]
      /\ \A f \in findings : f[1] \in Nat
  BY OthersTaskKept, BoundsAssumption DEF TypeInv, TypeOK, Finding
<1>1. \A p \in Process \ {w} : run'[p] = run[p]
  BY <1>0 DEF OthersTask
<1>2. \/ runs' = runs /\ run'[w] \in {run[w], 0}
      \/ runs' = runs + 1 /\ run'[w] = runs + 1
  BY NumbersKept
<1>3. \A f \in findings' : f[1] <= runs'
  <2>1. CASE findings' = findings
    BY <1>0, <1>2, <2>1 DEF Numbered
  <2>2. CASE findings' # findings
    BY <1>0, <2>2, NewFinding DEF Numbered
  <2> QED
    BY <2>1, <2>2
<1>4. \A p \in Process : run'[p] <= runs'
  BY <1>0, <1>1, <1>2 DEF Numbered
<1>5. \A u, v \in Process : run'[u] = run'[v] /\ run'[v] # 0 => u = v
  BY <1>0, <1>1, <1>2 DEF Numbered
<1> QED
  BY <1>3, <1>4, <1>5 DEF Numbered

(* An answer that was settled stays so, whoever takes a step.              *)
LEMMA SettledKept ==
    ASSUME AnswerInv, NEW w \in Process, Moves(w), NEW a \in Nat, a # 0, a <= runs,
           \A p \in Process : run[p] = a => pc[p] \notin Collecting
    PROVE  /\ a <= runs'
           /\ {f \in findings' : f[1] = a} = {f \in findings : f[1] = a}
           /\ \A p \in Process : run'[p] = a => pc'[p] \notin Collecting
<1>0. /\ TypeInv /\ OthersTask(w) /\ runs \in Nat
  BY OthersTaskKept, BoundsAssumption DEF AnswerInv, TypeInv, TypeOK
<1>1. \/ runs' = runs /\ run'[w] = run[w]
      \/ runs' = runs /\ run'[w] = 0
      \/ runs' = runs + 1 /\ run'[w] = runs + 1
  BY <1>0, NumbersKept
<1>2. {f \in findings' : f[1] = a} = {f \in findings : f[1] = a}
  <2>1. CASE findings' = findings
    BY <2>1
  <2>2. CASE findings' # findings
    <3>1. findings' = findings \cup {<<run[w], task[w].todo>>} /\ run[w] # a
      BY <1>0, <2>2, NewFinding
    <3> QED
      BY <3>1
  <2> QED
    BY <2>1, <2>2
<1>3. ASSUME NEW p \in Process, run'[p] = a PROVE pc'[p] \notin Collecting
  <2>1. CASE p # w
    BY <1>0, <1>3, <2>1 DEF OthersTask
  <2>2. CASE p = w
    <3>1. run'[w] = run[w] /\ run'[w] # runs + 1
      BY <1>0, <1>1, <1>3, <2>2
    <3> QED
      BY <1>0, <1>3, <2>2, <3>1, CollectingKept
  <2> QED
    BY <2>1, <2>2
<1> QED
  BY <1>0, <1>1, <1>2, <1>3

LEMMA NoRowAnswer == NoRow.answer = 0
  BY DEF NoRow, NewRow

(* An instance that has the answer of a settled one is settled.            *)
LEMMA SettledCopy ==
    ASSUME AnswerInv, NEW w \in Process, Moves(w),
           NEW r, r.answer \in Nat, Settled(r), NEW q, SameAnswer(q, r)
    PROVE  q.answer # 0 =>
               /\ q.answer <= runs'
               /\ q.refs = {f \in findings' : f[1] = q.answer}
               /\ \A p \in Process : run'[p] = q.answer => pc'[p] \notin Collecting
<1> SUFFICES ASSUME q.answer # 0
             PROVE  /\ q.answer <= runs'
                    /\ q.refs = {f \in findings' : f[1] = q.answer}
                    /\ \A p \in Process : run'[p] = q.answer => pc'[p] \notin Collecting
  OBVIOUS
<1>1. /\ r.answer # 0 /\ r.answer <= runs
      /\ r.refs = {f \in findings : f[1] = r.answer}
      /\ \A p \in Process : run[p] = r.answer => pc[p] \notin Collecting
  BY DEF Settled, SameAnswer, FoundBy
<1>2. /\ r.answer <= runs'
      /\ {f \in findings' : f[1] = r.answer} = {f \in findings : f[1] = r.answer}
      /\ \A p \in Process : run'[p] = r.answer => pc'[p] \notin Collecting
  BY <1>1, SettledKept
<1> QED
  BY <1>1, <1>2 DEF SameAnswer

(* The rows that a step makes are settled because what they are made of is.*)
LEMMA SettledStep ==
    ASSUME AnswerInv, NEW w \in Process, Moves(w)
    PROVE  Settled(row)' /\ \A p \in Process : Settled(own[p])'
<1>0. /\ TypeInv /\ Settled(row) /\ OthersTask(w)
      /\ \A p \in Process : Settled(own[p])
  BY OthersTaskKept DEF AnswerInv
<1>1. row.answer \in Nat /\ \A p \in Process : own[p].answer \in Nat
  <2>1. \A r \in Row : r.answer \in 0..MaxRuns
    BY DEF Row
  <2> QED
    BY <1>0, <2>1, BoundsAssumption DEF TypeInv, TypeOK
<1>2. ASSUME SameAnswer(row', row) PROVE Settled(row)'
  BY <1>0, <1>1, <1>2, SettledCopy DEF Settled, FoundBy
<1>3. ASSUME SameAnswer(row', own[w]) PROVE Settled(row)'
  BY <1>0, <1>1, <1>3, SettledCopy DEF Settled, FoundBy
<1>4. ASSUME SaveAnswer(w) PROVE Settled(row)'
  <2>1. /\ pc[w] = "answer_save" /\ pc'[w] = "session_completed"
        /\ row' = Completed(tmp[w], run[w], task[w].cited) /\ findings' = findings
    BY <1>0, <1>4, PcMoves DEF SaveAnswer
  <2>2. row'.answer = run[w] /\ row'.refs = task[w].cited
    BY <1>0, <2>1 DEF Completed, TypeInv, TypeOK, Row
  <2>3. FoundBy(run[w]) = task[w].cited
    BY <2>1 DEF AnswerInv, Collected, Claimed, OneAhead, Collecting, RunPhase
  <2>4. /\ run[w] <= runs /\ \A v \in Process : run[v] = run[w] => v = w
    BY <2>1 DEF AnswerInv, Numbered, TypeInv, TaskOK
  <2>5. runs' = runs /\ run'[w] = run[w]
    BY <1>0, <2>1, NumbersKept
  <2>6. \A v \in Process : run'[v] = run[w] => pc'[v] \notin Collecting
    BY <1>0, <2>1, <2>4, CollectingLabels DEF OthersTask
  <2> QED
    BY <2>1, <2>2, <2>3, <2>4, <2>5, <2>6 DEF Settled, FoundBy
<1>5. ASSUME NEW p \in Process PROVE Settled(own[p])'
  <2>1. CASE p # w
    <3>1. own'[p] = own[p]
      BY <1>0, <2>1 DEF OthersTask
    <3> QED
      BY <1>0, <1>1, <3>1, SettledCopy DEF Settled, SameAnswer, FoundBy
  <2>2. CASE p = w /\ SameAnswer(own'[w], row)
    BY <1>0, <1>1, <2>2, SettledCopy DEF Settled, FoundBy
  <2>3. CASE p = w /\ SameAnswer(own'[w], own[w])
    BY <1>0, <1>1, <2>3, SettledCopy DEF Settled, FoundBy
  <2>4. CASE p = w /\ own'[w] = NoRow
    BY <2>4, NoRowAnswer DEF Settled
  <2> QED
    BY <1>0, <2>1, <2>2, <2>3, <2>4, AnswersKept
<1> QED
  BY <1>0, <1>2, <1>3, <1>4, <1>5, AnswersKept

(* What another process collects is its own.                               *)
LEMMA CollectedOther ==
    ASSUME AnswerInv, NEW w \in Process, Moves(w), NEW p \in Process \ {w}
    PROVE  Collected(p)'
<1>1. /\ Collected(p) /\ Claimed(p)' = Claimed(p)
      /\ pc'[p] = pc[p] /\ task'[p] = task[p] /\ run'[p] = run[p]
  BY OthersTaskKept DEF AnswerInv, OthersTask, Claimed, OneAhead
<1>2. ASSUME pc[p] \in Collecting
      PROVE  {f \in findings' : f[1] = run[p]} = FoundBy(run[p])
  <2>1. run[p] # 0
    BY <1>2, CollectingLabels DEF AnswerInv, TypeInv, TaskOK
  <2>2. CASE findings' = findings
    BY <2>2 DEF FoundBy
  <2>3. CASE findings' # findings
    <3>1. findings' = findings \cup {<<run[w], task[w].todo>>}
      BY <2>3, NewFinding DEF AnswerInv
    <3>2. run[w] # run[p]
      BY <2>1 DEF AnswerInv, Numbered
    <3> QED
      BY <3>1, <3>2 DEF FoundBy
  <2> QED
    BY <2>2, <2>3
<1> QED
  BY <1>1, <1>2 DEF Collected, FoundBy

-----------------------------------------------------------------------------
LEMMA AnswerInit == Init => AnswerInv
<1> SUFFICES ASSUME Init PROVE AnswerInv
  OBVIOUS
<1>1. row.answer = 0
  <2>1. PICK m \in CreateMaxSteps : row = NewRow(m)
    BY DEF Init
  <2> QED
    BY <2>1 DEF NewRow
<1>2. \A w \in Process : own[w].answer = 0
  BY NoRowAnswer DEF Init
<1>3. \A w \in Process : Collected(w)
  <2>1. NoTask.cited = {}
    BY DEF NoTask
  <2> QED
    BY <2>1, CollectingLabels DEF Init, Collected
<1>4. Numbered
  BY DEF Init, Numbered
<1> QED
  BY <1>1, <1>2, <1>3, <1>4, TypeInit DEF AnswerInv, Settled

LEMMA AnswerNext == AnswerInv /\ [Next]_vars => AnswerInv'
<1> SUFFICES ASSUME AnswerInv, [Next]_vars PROVE AnswerInv'
  OBVIOUS
<1>1. TypeInv'
  BY TypeNext DEF AnswerInv
<1>2. CASE UNCHANGED vars
  BY <1>1, <1>2 DEF vars, db, counters, AnswerInv, Numbered, Collected, Claimed,
     OneAhead, Settled, FoundBy
<1>3. CASE Next
  <2>1. PICK w \in Process : Moves(w)
    BY <1>3, NextActor DEF Moves
  <2>2. Numbered' /\ Settled(row)' /\ \A p \in Process : Settled(own[p])'
    BY <2>1, NumberedStep, SettledStep DEF AnswerInv
  <2>3. ASSUME NEW p \in Process PROVE Collected(p)'
    <3>1. CASE p = w
      BY <2>1, <3>1, CollectedStep
    <3>2. CASE p # w
      BY <2>1, <3>2, CollectedOther
    <3> QED
      BY <3>1, <3>2
  <2> QED
    BY <1>1, <2>2, <2>3 DEF AnswerInv
<1> QED
  BY <1>2, <1>3

(* The stored answer always cites exactly the findings that its own run    *)
(* saved, however runs of the session, failures and saves of old instances *)
(* interleave.                                                             *)
THEOREM AnswerAlwaysCitesItsRun == Spec => []AnswerCitesItsRun
<1>1. AnswerInv => AnswerCitesItsRun
  BY DEF AnswerInv, Settled, AnswerCitesItsRun, FoundBy
<1> QED
  BY <1>1, AnswerInit, AnswerNext, PTL DEF Spec

-----------------------------------------------------------------------------
(* The log of tool calls, where no statement raises and nobody is killed.  *)
Pending == {w \in Process : Unlogged(w)}

Logs(w) ==
    \/ calls' = calls /\ tools' = tools /\ (Unlogged(w)' <=> Unlogged(w))
    \/ calls' = calls + 1 /\ tools' = tools /\ ~Unlogged(w) /\ Unlogged(w)'
    \/ calls' = calls /\ tools' = tools + 1 /\ Unlogged(w) /\ ~Unlogged(w)'

LEMMA GraphLogs ==
    ASSUME TypeInv, NEW w \in Process, Graph(w)
    PROVE  Logs(w)
<1> USE DEF Unlogged, Logs, Goto, TypeInv, TypeOK
<1>1. ASSUME NEW tool \in Tool, NEW ok, CallTool(w, tool, ok) PROVE Logs(w)
  BY <1>1 DEF CallTool, Tool, DatabaseTool, CodeTool
<1>2. ASSUME NEW tool, LogToolCall(w, tool), NEW next, Goto(w, next),
             next \notin {"log_tool_call", "finding_saved"}
      PROVE  Logs(w)
  BY <1>2 DEF LogToolCall
<1>3. ASSUME NEW e \in AgentEvent, NEW next, EmitEvent(w, e, next),
             IF e = "finding_saved" THEN next = "log_tool_call"
             ELSE next \notin {"log_tool_call", "finding_saved"}
      PROVE  Logs(w)
  BY <1>3 DEF EmitEvent, AgentEvent
<1>4. CASE LoadContext(w)
  BY <1>1, <1>2, <1>3, <1>4 DEF LoadContext, ToolDone, Tool, DatabaseTool, AgentEvent
<1>5. CASE Planner(w)
  BY <1>3, <1>5 DEF Planner, InvokeLlm, IncrementTokenUsage, AgentEvent
<1>6. CASE Search(w)
  BY <1>1, <1>2, <1>3, <1>6 DEF Search, ToolDone, Tool, CodeTool, AgentEvent
<1>7. CASE ReadMatches(w)
  <2>1. CASE SaveFinding(w)
    BY <2>1 DEF SaveFinding
  <2>2. CASE ~SaveFinding(w)
    BY <1>1, <1>2, <1>3, <1>7, <2>2 DEF ReadMatches, ToolDone, Tool, CodeTool, AgentEvent
  <2> QED
    BY <2>1, <2>2
<1>8. CASE AnswerWriter(w)
  <2>1. CASE SaveAnswer(w)
    BY <2>1 DEF SaveAnswer
  <2>2. CASE ~SaveAnswer(w)
    BY <1>3, <1>8, <2>2 DEF AnswerWriter, InvokeLlm, IncrementTokenUsage, AgentEvent
  <2> QED
    BY <2>1, <2>2
<1>9. CASE ToolRaised(w)
  BY <1>9 DEF ToolRaised, LogToolCall
<1> QED
  BY <1>4, <1>5, <1>6, <1>7, <1>8, <1>9 DEF Graph

LEMMA StepLogs ==
    ASSUME TypeInv, ~DbMayFail, MaxCrashes = 0, NEW w \in Process, Moves(w)
    PROVE  Logs(w)
<1> USE DEF Logs, Unlogged
<1>1. CASE Graph(w)
  BY <1>1, GraphLogs
<1>2. CASE FetchRow(w)
  BY <1>2 DEF FetchRow, db, observer
<1>3. CASE RunnerStep(w) \/ MergeOptions(w) \/ Cancel(w) \/ CancelRequest(w)
  <2>1. calls' = calls /\ tools' = tools
    BY <1>3 DEF RunnerStep, RunnerFailed, EmitEvent, MergeOptions, Cancel, CancelRequest,
       observer, db
  <2> QED
    BY <1>3, <2>1, PcMoves DEF RunnerStep
<1>4. CASE ServiceReturn(w) \/ ServiceExcept(w)
  <2>1. calls' = calls /\ tools' = tools
    BY <1>4 DEF ServiceReturn, ServiceExcept
  <2> QED
    BY <1>4, <2>1, PcMoves
<1>5. ~DbRaise(w) /\ ~RequestFails(w) /\ ~Crash(w)
  BY DEF DbRaise, RequestFails, Crash, TypeInv, TypeOK
<1>6. ASSUME NEW force \in ForceValues, NEW n \in RerunMaxSteps, RunRequest(w, force, n)
      PROVE  Logs(w)
  BY <1>6 DEF RunRequest, Goto, db, observer, TypeInv, TypeOK
<1> QED
  BY <1>1, <1>2, <1>3, <1>4, <1>5, <1>6 DEF Moves, Work

(* Where no statement raises and nobody is killed, the log and the calls   *)
(* that are about to be logged are all the calls, tools that raise         *)
(* included.                                                               *)
THEOREM AuditTrailKept ==
    ASSUME ~DbMayFail, MaxCrashes = 0, IsFiniteSet(Process)
    PROVE  Spec => []AuditTrail
<1>1. Init => AuditTrail
  <2> SUFFICES ASSUME Init PROVE AuditTrail
    OBVIOUS
  <2>1. {w \in Process : Unlogged(w)} = {}
    BY DEF Init, Unlogged
  <2> QED
    BY <2>1, FS_EmptySet DEF Init, AuditTrail
<1>2. TypeInv /\ AuditTrail /\ [Next]_vars => AuditTrail'
  <2> SUFFICES ASSUME TypeInv, AuditTrail, [Next]_vars PROVE AuditTrail'
    OBVIOUS
  <2>0. IsFiniteSet(Pending) /\ Cardinality(Pending) \in Nat /\ tools \in Nat
    BY FS_Subset, FS_CardinalityType DEF Pending, TypeInv, TypeOK
  <2>1. calls = tools + Cardinality(Pending)
    BY DEF AuditTrail, Pending
  <2>2. ASSUME calls' = tools' + Cardinality(Pending') PROVE AuditTrail'
    BY <2>2 DEF AuditTrail, Pending
  <2>3. CASE UNCHANGED vars
    <3>1. Pending' = Pending /\ calls' = calls /\ tools' = tools
      BY <2>3 DEF vars, db, observer, Pending, Unlogged
    <3> QED
      BY <2>1, <2>2, <3>1
  <2>4. CASE Next
    <3>1. PICK w \in Process : Moves(w)
      BY <2>4, NextActor DEF Moves
    <3>2. \A p \in Process \ {w} : Unlogged(p)' <=> Unlogged(p)
      BY <3>1, OthersTaskKept DEF OthersTask, Unlogged
    <3>3. Logs(w)
      BY <3>1, StepLogs
    <3>4. CASE calls' = calls /\ tools' = tools /\ (Unlogged(w)' <=> Unlogged(w))
      <4>1. Pending' = Pending
        BY <3>2, <3>4 DEF Pending
      <4> QED
        BY <2>1, <2>2, <3>4, <4>1
    <3>5. CASE calls' = calls + 1 /\ tools' = tools /\ ~Unlogged(w) /\ Unlogged(w)'
      <4>1. Pending' = Pending \cup {w} /\ w \notin Pending
        BY <3>2, <3>5 DEF Pending
      <4>2. Cardinality(Pending') = Cardinality(Pending) + 1
        BY <2>0, <4>1, FS_AddElement
      <4> QED
        BY <2>0, <2>1, <2>2, <3>5, <4>2
    <3>6. CASE calls' = calls /\ tools' = tools + 1 /\ Unlogged(w) /\ ~Unlogged(w)'
      <4>1. Pending' = Pending \ {w} /\ w \in Pending
        BY <3>2, <3>6 DEF Pending
      <4>2. Cardinality(Pending') = Cardinality(Pending) - 1
        BY <2>0, <4>1, FS_RemoveElement
      <4> QED
        BY <2>0, <2>1, <2>2, <3>6, <4>2
    <3> QED
      BY <3>3, <3>4, <3>5, <3>6 DEF Logs
  <2> QED
    BY <2>3, <2>4
<1>3. Init => TypeInv
  BY TypeInit
<1>4. TypeInv /\ [Next]_vars => TypeInv'
  BY TypeNext
<1> QED
  BY <1>1, <1>2, <1>3, <1>4, PTL DEF Spec

-----------------------------------------------------------------------------
(* A session of one runner r.  A canceller is nowhere in a run.            *)
Apart == \A w \in Canceller : pc[w] \in {"idle", "cancel"}

SoloStep(r) ==
    \/ Work(r) \/ DbRaise(r) \/ RequestFails(r) \/ Crash(r)
    \/ \E force \in ForceValues, n \in RerunMaxSteps : RunRequest(r, force, n)

(* A step of somebody else, who at most cancels the session.               *)
Aside(r) ==
    /\ pc'[r] = pc[r] /\ loaded'[r] = loaded[r] /\ tmp'[r] = tmp[r]
    /\ own'[r] = own[r] /\ task'[r] = task[r] /\ run'[r] = run[r]
    /\ spent'[r] = spent[r] /\ findings' = findings /\ tools' = tools /\ runs' = runs
    /\ row' = row \/ row' = Ended(row, "cancelled")

LEMMA SoloMove ==
    ASSUME NEW r, Runner = {r}, TypeInv, Apart, [Next]_vars
    PROVE  /\ r \in Process /\ (SoloStep(r) \/ Aside(r))
           /\ Apart'
<1>1. r \in Process /\ r \notin Canceller
  <2>1. r \in Runner /\ \A w \in Runner : w \notin Canceller
    BY ProcessAssumption
  <2> QED
    BY <2>1 DEF Process
<1> USE DEF Process
<1>2. CASE UNCHANGED vars
  BY <1>1, <1>2 DEF vars, db, observer, counters, Aside, Apart
<1>3. ASSUME SoloStep(r) PROVE Apart'
  <2>1. Others(r)
    BY <1>1, <1>3, OthersUnmoved DEF SoloStep
  <2> QED
    BY <1>1, <2>1 DEF Others, Apart
<1>4. ASSUME NEW w \in Canceller,
             Cancel(w) \/ CancelRequest(w) \/ DbRaise(w) \/ RequestFails(w) \/ Crash(w)
      PROVE  Aside(r) /\ Apart'
  <2>1. w \in Process /\ w # r /\ ~DbRaise(w)
    BY <1>1 DEF Apart, DbRaise, Guarded
  <2>2. OthersTask(w) /\ Others(w)
    BY <1>4, <2>1, OthersTaskKept, OthersUnmoved DEF Moves
  <2>3. /\ spent'[r] = spent[r] /\ findings' = findings /\ tools' = tools /\ runs' = runs
        /\ row' = row \/ row' = Ended(row, "cancelled")
        /\ pc'[w] \in {"idle", "cancel"}
    BY <1>1, <1>4, <2>1
    DEF Cancel, CancelRequest, RequestFails, Crash, Return, Goto, db, observer, counters,
        TypeInv, TypeOK
  <2>4. Aside(r)
    BY <1>1, <2>1, <2>2, <2>3 DEF OthersTask, Others, Aside
  <2>5. Apart'
    BY <2>1, <2>2, <2>3 DEF Others, Apart
  <2> QED
    BY <2>4, <2>5
<1>5. CASE Next
  BY <1>1, <1>3, <1>4, <1>5 DEF Next, SoloStep
<1> QED
  BY <1>1, <1>2, <1>5

-----------------------------------------------------------------------------
(* Its totals.                                                             *)
Exact(q) == q.toolTotal = tools /\ q.findTotal = Cardinality(findings)

(* The row is not completed while its runner still calls tools, and the    *)
(* totals that are about to be saved are the last.                         *)
TotalsInv(r) ==
    /\ row.status = "completed" => Exact(row)
    /\ pc[r] \in RunPhase \ {"except"} => row.status # "completed"
    /\ pc[r] = "answer_save" /\ loaded[r] => Exact(tmp[r])
    /\ pc[r] = "runner_totals" => Exact(own[r])

LEMMA PhaseLabels ==
    /\ \A label \in {"idle", "cancel", "merge_options", "run_agent", "mark_running",
                     "session_completed", "runner_refresh", "runner_totals",
                     "session_failed", "service_refresh", "service_except"} :
           label \notin RunPhase
    /\ "answer_save" \in RunPhase
  BY DEF RunPhase, AgentEvent, Tool, DatabaseTool, CodeTool

(* What is left of the graph after the answer is saved.                    *)
LEMMA AfterTheAnswer ==
    ASSUME TypeInv, NEW r \in Process, Graph(r), pc[r] = "session_completed"
    PROVE  EmitEvent(r, "session_completed", "runner_refresh")
  BY DEF Graph, LoadContext, Planner, Search, ReadMatches, AnswerWriter, ToolRaised,
     CallTool, ToolDone, LogToolCall, EmitEvent, InvokeLlm, IncrementTokenUsage,
     SaveFinding, SaveAnswer, DatabaseTool

LEMMA TotalsStep ==
    ASSUME StatusInv, NEW r \in Process, SoloStep(r), TotalsInv(r)
    PROVE  TotalsInv(r)'
<1> USE DEF TotalsInv
<1>0. TypeInv /\ row \in Row
  BY DEF StatusInv, TypeInv, TypeOK
<1>1. CASE FetchRow(r)
  BY <1>0, <1>1 DEF FetchRow, Exact, Recounted, db, TypeInv, TypeOK, Row
<1>2. CASE Graph(r)
  <2>1. CASE SaveAnswer(r)
    <3>1. /\ row' = Completed(tmp[r], run[r], task[r].cited) /\ Exact(tmp[r])
          /\ pc'[r] = "session_completed" /\ findings' = findings /\ tools' = tools
      BY <1>0, <2>1, PcMoves DEF SaveAnswer
    <3>2. row'.toolTotal = tmp[r].toolTotal /\ row'.findTotal = tmp[r].findTotal
      BY <1>0, <3>1 DEF Completed, TypeInv, TypeOK, Row
    <3> QED
      BY <3>1, <3>2, PhaseLabels DEF Exact
  <2>2. CASE StaysInRun(r) /\ pc[r] \in RunPhase \ {"except"} /\ pc'[r] \in RunPhase
    BY <2>2, PhaseLabels DEF StaysInRun, SameStatus
  <2>3. CASE pc[r] = "session_completed" /\ pc'[r] = "runner_refresh"
    <3>1. EmitEvent(r, "session_completed", "runner_refresh")
      BY <1>0, <1>2, <2>3, AfterTheAnswer
    <3>2. /\ row'.status = row.status /\ row'.toolTotal = row.toolTotal
          /\ row'.findTotal = row.findTotal /\ findings' = findings /\ tools' = tools
      BY <1>0, <3>1 DEF EmitEvent, NextStep, Row
    <3> QED
      BY <2>3, <3>2, PhaseLabels DEF Exact
  <2> QED
    BY <1>0, <1>2, <2>1, <2>2, <2>3, GraphEffect DEF StaysInRun
<1>3. CASE RunnerStep(r)
  <2>1. findings' = findings /\ tools' = tools
    BY <1>3 DEF RunnerStep, RunnerFailed, EmitEvent
  <2>2. CASE RunnerGet(r)
    BY <1>0, <2>1, <2>2, PcMoves, PhaseLabels DEF RunnerGet, Exact
  <2>3. CASE RunnerMarkRunning(r)
    <3>1. row'.status = "running" /\ pc'[r] = "agent_started"
      BY <1>0, <2>3, PcMoves DEF RunnerMarkRunning, StatusInv, OwnOK
    <3> QED
      BY <3>1
  <2>4. CASE RunnerRefresh(r)
    <3>1. Exact(own[r])'
      BY <1>0, <2>1, <2>4 DEF RunnerRefresh, Recounted, Exact, TypeInv, TypeOK, Row
    <3> QED
      BY <1>0, <2>1, <2>4, <3>1, PcMoves, PhaseLabels DEF RunnerRefresh, Exact
  <2>5. CASE RunnerSaveTotals(r)
    <3>1. Exact(row)' /\ pc'[r] = "service_refresh"
      BY <1>0, <2>1, <2>5, PcMoves
      DEF RunnerSaveTotals, WithTotals, Exact, TypeInv, TypeOK, Row
    <3> QED
      BY <3>1, PhaseLabels
  <2>6. CASE RunnerFail(r)
    <3>1. row'.status = "failed" /\ pc'[r] = "session_failed"
      BY <1>0, <2>6, PcMoves, RowEffects DEF Fails
    <3> QED
      BY <3>1, PhaseLabels
  <2>7. CASE RunnerFailed(r)
    <3>1. /\ row'.status = row.status /\ row'.toolTotal = row.toolTotal
          /\ row'.findTotal = row.findTotal /\ pc'[r] = "service_refresh"
      BY <1>0, <2>7, PcMoves DEF RunnerFailed, EmitEvent, NextStep, Row
    <3> QED
      BY <2>1, <3>1, PhaseLabels DEF Exact
  <2> QED
    BY <1>3, <2>2, <2>3, <2>4, <2>5, <2>6, <2>7 DEF RunnerStep
<1>4. CASE MergeOptions(r) \/ ServiceReturn(r) \/ ServiceExcept(r)
  <2>1. /\ findings' = findings /\ tools' = tools
        /\ \/ /\ row'.status = row.status /\ row'.toolTotal = row.toolTotal
              /\ row'.findTotal = row.findTotal
           \/ row'.status = "failed"
    BY <1>0, <1>4, RowEffects
    DEF MergeOptions, ServiceReturn, ServiceExcept, Fails, Row
  <2>2. pc'[r] \in {"run_agent", "idle"}
    BY <1>0, <1>4, PcMoves
  <2> QED
    BY <2>1, <2>2, PhaseLabels DEF Exact
<1>5. CASE DbRaise(r)
  <2>1. /\ row' = row /\ tools' = tools /\ findings' = findings /\ loaded'[r] = FALSE
        /\ pc'[r] = Handler(pc[r]) /\ pc[r] \in Guarded
    BY <1>0, <1>5 DEF DbRaise, Goto, Forget, db, TypeInv, TypeOK
  <2>2. /\ pc'[r] # "runner_totals"
        /\ pc'[r] \in RunPhase \ {"except"} => pc[r] \in RunPhase \ {"except"}
    BY <2>1, PhaseLabels DEF Handler, Guarded, Label, RunPhase, AgentEvent
  <2> QED
    BY <2>1, <2>2 DEF Exact
<1>6. CASE RequestFails(r) \/ Crash(r)
  <2>1. row' = row /\ tools' = tools /\ findings' = findings /\ pc'[r] = "idle"
    BY <1>0, <1>6 DEF RequestFails, Crash, Return, Goto, db, TypeInv, TypeOK
  <2> QED
    BY <2>1, PhaseLabels DEF Exact
<1>7. ASSUME NEW force, NEW n, RunRequest(r, force, n) PROVE TotalsInv(r)'
  <2>1. /\ row' = row /\ tools' = tools /\ findings' = findings
        /\ pc'[r] \in {"run_agent", "merge_options"}
    BY <1>0, <1>7 DEF RunRequest, Goto, db, TypeInv, TypeOK
  <2> QED
    BY <2>1, PhaseLabels DEF Exact
<1> QED
  BY <1>1, <1>2, <1>3, <1>4, <1>5, <1>6, <1>7 DEF SoloStep, Work

LEMMA TotalsAside ==
    ASSUME TypeInv, NEW r \in Process, Aside(r), TotalsInv(r)
    PROVE  TotalsInv(r)'
<1>1. row' = row \/ row'.status = "cancelled"
  BY DEF Aside, Ended, TypeInv, TypeOK, Row
<1> QED
  BY <1>1 DEF TotalsInv, Exact, Aside

(* A session that one runner serves has the exact totals whenever it is    *)
(* completed and nobody works on it, for any number of cancellers, with    *)
(* failing statements and killed workers.                                  *)
THEOREM TotalsAlwaysExact ==
    ASSUME NEW r, Runner = {r}
    PROVE  Spec => []TotalsExact
<1>1. Init => Apart /\ TotalsInv(r)
  <2> SUFFICES ASSUME Init PROVE Apart /\ TotalsInv(r)
    OBVIOUS
  <2>1. PICK m \in CreateMaxSteps : row = NewRow(m)
    BY DEF Init
  <2>2. row.status = "pending"
    BY <2>1 DEF NewRow
  <2>3. \A w \in Process : pc[w] = "idle"
    BY DEF Init
  <2> QED
    BY <2>2, <2>3, PhaseLabels DEF Apart, TotalsInv, Process
<1>2. StatusInv /\ Apart /\ TotalsInv(r) /\ [Next]_vars => (Apart /\ TotalsInv(r))'
  BY SoloMove, TotalsStep, TotalsAside DEF StatusInv
<1>3. Apart /\ TotalsInv(r) => TotalsExact
  BY DEF TotalsInv, Exact, TotalsExact
<1> QED
  BY <1>1, <1>2, <1>3, StatusInvariant, PTL DEF Spec

-----------------------------------------------------------------------------
(* Its answer, where no statement raises.  The runner works on the run     *)
(* that was requested last, and the instance that it holds has the row's   *)
(* answer until it saves its own.                                          *)
LastRun(r) ==
    /\ pc[r] # "idle" => run[r] = runs
    /\ pc[r] \in RunPhase \cup {"mark_running"} => own[r].answer = row.answer

Advances == row'.answer >= row.answer

LEMMA RowNumbers == \A q \in Row : q.answer \in Nat /\ q.tokens \in Nat
<1>1. \A q \in Row : q.answer \in 0..MaxRuns /\ q.tokens \in Nat
  BY DEF Row
<1> QED
  BY <1>1, BoundsAssumption

LEMMA AnswerStep ==
    ASSUME AnswerInv, ~DbMayFail, NEW r \in Process, SoloStep(r), LastRun(r)
    PROVE  Advances /\ LastRun(r)'
<1> USE DEF LastRun, Advances
<1>0. /\ TypeInv /\ row \in Row /\ own[r] \in Row /\ Moves(r)
      /\ row.answer \in Nat /\ runs \in Nat
  <2>1. TypeInv /\ row \in Row /\ own[r] \in Row /\ Moves(r) /\ runs \in 0..MaxRuns
    BY DEF AnswerInv, TypeInv, TypeOK, Moves, SoloStep
  <2> QED
    BY <2>1, RowNumbers, BoundsAssumption
<1>1. CASE FetchRow(r)
  BY <1>0, <1>1 DEF FetchRow, db, counters
<1>2. CASE Graph(r)
  <2>1. own' = own /\ run' = run /\ runs' = runs
    BY <1>2 DEF Graph, counters
  <2>2. CASE SaveAnswer(r)
    <3>1. /\ row' = Completed(tmp[r], run[r], task[r].cited) /\ tmp[r] \in Row
          /\ pc[r] = "answer_save" /\ pc'[r] = "session_completed"
      BY <1>0, <2>2, PcMoves DEF SaveAnswer, TypeInv, TypeOK
    <3>2. row'.answer = runs
      BY <3>1 DEF Completed, Row
    <3>3. row.answer <= runs
      BY <1>0, BoundsAssumption DEF AnswerInv, Settled, TypeInv, TypeOK
    <3> QED
      BY <1>0, <2>1, <3>1, <3>2, <3>3, PhaseLabels
  <2>3. CASE StaysInRun(r)
    BY <1>0, <2>1, <2>3, PhaseLabels DEF StaysInRun, SameStatus
  <2> QED
    BY <1>0, <1>2, <2>2, <2>3, GraphEffect
<1>3. CASE RunnerStep(r)
  <2>1. run' = run /\ runs' = runs
    BY <1>3 DEF RunnerStep, RunnerFailed, counters
  <2>2. CASE RunnerGet(r)
    <3>1. /\ own'[r] = Running(row) /\ row' = row
          /\ pc[r] = "run_agent" /\ pc'[r] = "mark_running"
      BY <1>0, <2>2, PcMoves DEF RunnerGet, TypeInv, TypeOK
    <3>2. Running(row).answer = row.answer
      BY <1>0 DEF Running, Row
    <3> QED
      BY <1>0, <2>1, <3>1, <3>2
  <2>3. CASE RunnerMarkRunning(r)
    <3>1. /\ row' = own[r] /\ own' = own
          /\ pc[r] = "mark_running" /\ pc'[r] = "agent_started"
      BY <1>0, <2>3, PcMoves DEF RunnerMarkRunning
    <3> QED
      BY <1>0, <2>1, <3>1
  <2>4. CASE RunnerRefresh(r)
    <3>1. row' = row /\ pc[r] = "runner_refresh" /\ pc'[r] = "runner_totals"
      BY <1>0, <2>4, PcMoves DEF RunnerRefresh
    <3> QED
      BY <1>0, <2>1, <3>1, PhaseLabels
  <2>5. CASE RunnerSaveTotals(r) \/ RunnerFail(r)
    <3>1. row'.answer = row.answer
      BY <1>0, <2>5, PhaseLabels
      DEF RunnerSaveTotals, RunnerFail, WithTotals, Ended, RunPhase, Row
    <3> QED
      BY <1>0, <2>1, <2>5, <3>1, PcMoves, PhaseLabels
  <2>6. CASE RunnerFailed(r)
    <3>1. row'.answer = row.answer
      BY <1>0, <2>6 DEF RunnerFailed, EmitEvent, NextStep, Row
    <3> QED
      BY <1>0, <2>1, <2>6, <3>1, PcMoves, PhaseLabels
  <2> QED
    BY <1>3, <2>2, <2>3, <2>4, <2>5, <2>6 DEF RunnerStep
<1>4. CASE MergeOptions(r) \/ ServiceReturn(r) \/ ServiceExcept(r)
  <2>1. row'.answer = row.answer /\ runs' = runs
    BY <1>0, <1>4 DEF MergeOptions, ServiceReturn, ServiceExcept, Ended, Recounted, Row,
       counters
  <2>2. \/ pc'[r] = "idle"
        \/ pc'[r] = "run_agent" /\ run'[r] = run[r] /\ pc[r] # "idle"
    BY <1>0, <1>4, PcMoves DEF MergeOptions
  <2> QED
    BY <1>0, <2>1, <2>2, PhaseLabels
<1>5. CASE DbRaise(r) \/ RequestFails(r) \/ Crash(r)
  <2>1. row' = row /\ pc'[r] = "idle"
    BY <1>0, <1>5 DEF DbRaise, RequestFails, Crash, Return, Goto, db, TypeInv, TypeOK
  <2> QED
    BY <1>0, <2>1, PhaseLabels
<1>6. ASSUME NEW force, NEW n, RunRequest(r, force, n) PROVE Advances /\ LastRun(r)'
  <2>1. /\ row' = row /\ pc'[r] \in {"run_agent", "merge_options"}
        /\ runs' = runs + 1 /\ run'[r] = runs + 1
    BY <1>0, <1>6 DEF RunRequest, Goto, db, TypeInv, TypeOK
  <2> QED
    BY <1>0, <2>1, PhaseLabels
<1> QED
  BY <1>1, <1>2, <1>3, <1>4, <1>5, <1>6 DEF SoloStep, Work

LEMMA AnswerAside ==
    ASSUME TypeInv, NEW r \in Process, Aside(r), LastRun(r)
    PROVE  Advances /\ LastRun(r)'
<1>0. row \in Row /\ row.answer \in Nat
  BY RowNumbers DEF TypeInv, TypeOK
<1>1. Ended(row, "cancelled").answer = row.answer
  BY <1>0 DEF Ended, Row
<1>2. row'.answer = row.answer
  BY <1>1 DEF Aside
<1> QED
  BY <1>0, <1>2 DEF LastRun, Advances, Aside

(* Where one runner serves a session and no statement raises, the stored   *)
(* answer is only ever replaced by that of a later run, even if workers    *)
(* are killed.                                                             *)
THEOREM AnswerAlwaysAdvances ==
    ASSUME NEW r, Runner = {r}, ~DbMayFail
    PROVE  Spec => AnswerOnlyAdvances
<1>1. Init => Apart /\ LastRun(r)
  <2> SUFFICES ASSUME Init PROVE Apart /\ LastRun(r)
    OBVIOUS
  <2>1. \A w \in Process : pc[w] = "idle"
    BY DEF Init
  <2> QED
    BY <2>1, PhaseLabels DEF Apart, LastRun, Process
<1>2. AnswerInv /\ Apart /\ LastRun(r) /\ [Next]_vars => (Apart /\ LastRun(r))' /\ Advances
  BY SoloMove, AnswerStep, AnswerAside DEF AnswerInv
<1>3. AnswerInv /\ Apart /\ LastRun(r) /\ [Next]_vars => [row'.answer >= row.answer]_vars
  BY <1>2 DEF Advances
<1> QED
  BY <1>1, <1>2, <1>3, AnswerInit, AnswerNext, PTL DEF Spec, AnswerOnlyAdvances

-----------------------------------------------------------------------------
(* Its tokens, where no statement raises.  The model is called at most     *)
(* once for the plan and once for the answer.                              *)
BeforePlan(r) ==
    \/ pc[r] \in {"idle", "merge_options", "run_agent", "mark_running",
                  "agent_started", "planning_started", "plan_llm"} \cup DatabaseTool
    \/ pc[r] = "log_tool_call" /\ task[r].tool \in DatabaseTool
AfterAnswer(r) ==
    pc[r] \in {"answer_tokens", "llm_completed", "answer_save", "session_completed",
               "runner_refresh", "runner_totals", "service_refresh"}
CallsInv(r) ==
    /\ spent[r] \in 0..2
    /\ BeforePlan(r) => spent[r] = 0
    /\ ~AfterAnswer(r) => spent[r] <= 1

(* The row has the tokens that it had when the run began and those of the  *)
(* run, except for the call whose usage is about to be added.              *)
Uncounted(r) == IF pc[r] \in {"plan_tokens", "answer_tokens"} THEN 1 ELSE 0
Sums(r) == row.tokens + Uncounted(r) = own[r].tokens + spent[r]
InRun(r) == pc[r] \in {"mark_running", "session_completed"} \cup RunPhase

TokensInv(r) ==
    /\ InRun(r) => own[r].tokens <= 2 * (runs - 1)
    /\ InRun(r) /\ pc[r] # "except" => Sums(r)
    /\ pc[r] \in {"merge_options", "run_agent"} => row.tokens <= 2 * (runs - 1)
    /\ row.tokens <= 2 * runs
    /\ loaded[r] => pc[r] \in Fetching
    /\ pc[r] \in {"plan_tokens", "answer_tokens", "answer_save"} /\ loaded[r] =>
           tmp[r].tokens = row.tokens

(* A step of the graph at which nothing is spent or recorded.              *)
SpendsNothing(r) ==
    /\ row'.tokens = row.tokens /\ spent'[r] = spent[r]
    /\ {pc[r], pc'[r]} \cap {"plan_tokens", "answer_tokens"} = {}
    /\ BeforePlan(r)' => BeforePlan(r)
    /\ AfterAnswer(r) => AfterAnswer(r)'
    /\ ~loaded'[r] \/ (pc[r] \notin Fetching /\ loaded'[r] = loaded[r])

(* Statements that are not preceded by a SELECT of the row.                *)
LEMMA FetchingLabels ==
    \A label \in Tool \cup {"idle", "merge_options", "run_agent", "mark_running", "plan_llm",
                           "answer_llm", "runner_refresh", "runner_totals", "except"} :
        label \notin Fetching
  BY DEF Fetching, AgentEvent, Tool, DatabaseTool, CodeTool

LEMMA GraphSpends ==
    ASSUME AnswerInv, NEW r \in Process, Graph(r)
    PROVE  \/ SpendsNothing(r)
           \/ InvokeLlm(r, "plan_llm", "plan_tokens", "planning_completed",
                        "planning_warning")
           \/ \E next \in {"planning_completed", "planning_warning", "except"} :
                  IncrementTokenUsage(r, "plan_tokens", next)
           \/ InvokeLlm(r, "answer_llm", "answer_tokens", "llm_fallback", "llm_fallback")
           \/ IncrementTokenUsage(r, "answer_tokens", "llm_completed")
           \/ SaveAnswer(r)
<1> USE DEF SpendsNothing, BeforePlan, AfterAnswer
<1>0. /\ TypeInv /\ Collected(r) /\ row \in Row /\ task[r] \in Task
      /\ spent'[r] = spent[r] \/ InvokeLlm(r, "plan_llm", "plan_tokens",
                                           "planning_completed", "planning_warning")
                              \/ InvokeLlm(r, "answer_llm", "answer_tokens",
                                           "llm_fallback", "llm_fallback")
  BY DEF AnswerInv, TypeInv, TypeOK, Graph, LoadContext, Planner, Search, ReadMatches,
     AnswerWriter, ToolRaised, CallTool, ToolDone, LogToolCall, EmitEvent,
     IncrementTokenUsage, SaveFinding, SaveAnswer
<1>1. ASSUME NEW tool \in Tool, NEW ok, CallTool(r, tool, ok) PROVE SpendsNothing(r)
  <2>1. /\ pc[r] = tool /\ pc'[r] = "log_tool_call" /\ row' = row /\ spent' = spent
        /\ task'[r].tool = tool /\ loaded' = loaded /\ pc[r] \notin Fetching
    BY <1>0, <1>1, FetchingLabels DEF CallTool, Goto, TypeInv, TypeOK, Task
  <2> QED
    BY <2>1 DEF Tool, DatabaseTool, CodeTool
<1>2. ASSUME NEW tool, LogToolCall(r, tool), NEW next, Goto(r, next),
             next \notin {"log_tool_call", "plan_tokens", "answer_tokens", "answer_save"},
             \/ next \notin {"idle", "merge_options", "run_agent", "mark_running",
                             "agent_started", "planning_started", "plan_llm"} \cup DatabaseTool
             \/ tool \in DatabaseTool
      PROVE  SpendsNothing(r)
  <2>1. /\ pc[r] = "log_tool_call" /\ pc'[r] = next /\ task[r].tool = tool
        /\ row'.tokens = row.tokens /\ spent' = spent /\ ~loaded'[r]
    BY <1>0, <1>2 DEF LogToolCall, NextStep, Goto, Forget, TypeInv, TypeOK, Row
  <2> QED
    BY <1>2, <2>1
<1>3. ASSUME NEW e \in AgentEvent, NEW next, EmitEvent(r, e, next),
             next \notin {"plan_tokens", "answer_tokens"},
             e \in {"agent_started", "planning_started"}
                 \/ next \notin {"idle", "merge_options", "run_agent", "mark_running",
                                 "agent_started", "planning_started", "plan_llm"}
                                \cup DatabaseTool,
             next = "log_tool_call" => e = "finding_saved" /\ UNCHANGED task,
             e = "llm_completed" => next = "answer_save",
             e = "session_completed" => next = "runner_refresh"
      PROVE  SpendsNothing(r)
  <2>1. /\ pc[r] = e /\ pc'[r] = next /\ ~loaded'[r]
        /\ row'.tokens = row.tokens /\ spent' = spent
    BY <1>0, <1>3 DEF EmitEvent, NextStep, Goto, Forget, TypeInv, TypeOK, Row
  <2>2. next = "log_tool_call" => task'[r].tool = "save_finding"
    BY <1>0, <1>3, <2>1 DEF Collected
  <2> QED
    BY <1>3, <2>1, <2>2 DEF AgentEvent, DatabaseTool
<1>4. CASE LoadContext(r)
  BY <1>1, <1>2, <1>3, <1>4 DEF LoadContext, ToolDone, Tool, DatabaseTool, AgentEvent
<1>5. CASE Planner(r)
  BY <1>3, <1>5 DEF Planner, AgentEvent, DatabaseTool
<1>6. CASE Search(r)
  <2>1. CASE EmitEvent(r, "research_started", "search_code")
    BY <1>3, <2>1 DEF AgentEvent, DatabaseTool
  <2>2. ASSUME NEW ok \in BOOLEAN, CallTool(r, "search_code", ok)
        PROVE  SpendsNothing(r)
    BY <1>1, <2>2 DEF Tool, CodeTool
  <2>3. ASSUME NEW next \in {"search_code", "research_completed", "read_around_match"},
               NEW left, ToolDone(r, "search_code", next, left)
        PROVE  SpendsNothing(r)
    BY <1>2, <2>3 DEF ToolDone, DatabaseTool
  <2> QED
    BY <1>6, <2>1, <2>2, <2>3 DEF Search
<1>7. CASE ReadMatches(r)
  <2>1. CASE SaveFinding(r)
    BY <1>0, <2>1, FetchingLabels DEF SaveFinding, Goto, TypeInv, TypeOK, DatabaseTool, Tool
  <2>2. CASE LogToolCall(r, "save_finding")
    BY <1>2, <1>7, <2>2 DEF ReadMatches, DatabaseTool, LogToolCall, CallTool, ToolDone,
       SaveFinding, EmitEvent, Goto
  <2>3. ASSUME NEW tool \in {"read_around_match", "save_finding"}, NEW ok \in BOOLEAN,
               CallTool(r, tool, ok)
        PROVE  SpendsNothing(r)
    BY <1>1, <2>3 DEF Tool, CodeTool
  <2>4. CASE ToolDone(r, "read_around_match", "save_finding", task[r].todo)
    BY <1>2, <2>4 DEF ToolDone, DatabaseTool
  <2>5. CASE EmitEvent(r, "finding_saved", "log_tool_call") /\ UNCHANGED task
    BY <1>3, <2>5 DEF AgentEvent, DatabaseTool
  <2>6. CASE EmitEvent(r, "research_completed", "answer_started")
    BY <1>3, <2>6 DEF AgentEvent, DatabaseTool
  <2> QED
    BY <1>7, <2>1, <2>2, <2>3, <2>4, <2>5, <2>6 DEF ReadMatches
<1>8. CASE AnswerWriter(r)
  BY <1>3, <1>8 DEF AnswerWriter, AgentEvent, DatabaseTool
<1>9. CASE ToolRaised(r)
  BY <1>2, <1>9 DEF ToolRaised, DatabaseTool
<1> QED
  BY <1>4, <1>5, <1>6, <1>7, <1>8, <1>9 DEF Graph

LEMMA TokensStep ==
    ASSUME AnswerInv, ~DbMayFail, MaxCount >= 2 * MaxRuns, NEW r \in Process,
           SoloStep(r), CallsInv(r), TokensInv(r)
    PROVE  CallsInv(r)' /\ TokensInv(r)'
<1> USE DEF CallsInv, TokensInv, Sums, Uncounted, InRun, BeforePlan, AfterAnswer
<1>0. /\ TypeInv /\ row \in Row /\ own[r] \in Row /\ tmp[r] \in Row
      /\ row.tokens \in Nat /\ own[r].tokens \in Nat /\ tmp[r].tokens \in Nat
      /\ runs \in Nat /\ runs <= MaxRuns /\ MaxCount \in Nat /\ MaxRuns \in Nat
      /\ spent[r] \in Nat
  <2>1. /\ TypeInv /\ row \in Row /\ own[r] \in Row /\ tmp[r] \in Row
        /\ runs \in 0..MaxRuns /\ spent[r] \in Nat
    BY DEF AnswerInv, TypeInv, TypeOK
  <2> QED
    BY <2>1, RowNumbers, BoundsAssumption, CapAssumption
<1>1. CASE FetchRow(r)
  <2>1. /\ pc' = pc /\ row' = row /\ own' = own /\ task' = task /\ runs' = runs
        /\ spent' = spent /\ pc[r] \in Fetching
        /\ tmp'[r] = IF pc[r] = "answer_save" THEN Recounted(row, tools, findings) ELSE row
    BY <1>0, <1>1 DEF FetchRow, db, observer, counters, TypeInv, TypeOK
  <2>2. Recounted(row, tools, findings).tokens = row.tokens
    BY <1>0 DEF Recounted, Row
  <2>3. tmp'[r].tokens = row.tokens
    BY <2>1, <2>2
  <2> QED
    BY <2>1, <2>3
<1>2. CASE Graph(r)
  <2>0. own' = own /\ runs' = runs /\ run[r] # 0
    BY <1>0, <1>2, GraphEffect, PhaseLabels
    DEF Graph, counters, TypeInv, TaskOK, StaysInRun, SaveAnswer
  <2>1. runs >= 1 /\ MaxCount >= 2
    BY <1>0, <2>0, BoundsAssumption DEF AnswerInv, Numbered, TypeInv, TypeOK
  <2>2. InRun(r) /\ pc[r] # "except"
    BY <1>0, <1>2, GraphEffect, PhaseLabels DEF StaysInRun, SaveAnswer
  <2>3. row.tokens + Uncounted(r) <= 2 * runs
    BY <1>0, <2>1, <2>2
  <2>4. CASE SpendsNothing(r)
    <3>1. StaysInRun(r) \/ pc'[r] = "session_completed"
      BY <1>0, <1>2, GraphEffect, PcMoves
    <3>2. pc'[r] \in {"runner_refresh", "session_completed"} \cup RunPhase
      BY <3>1 DEF StaysInRun
    <3> QED
      BY <1>0, <2>0, <2>2, <2>4, <3>2, PhaseLabels DEF SpendsNothing
  <2>5. CASE InvokeLlm(r, "plan_llm", "plan_tokens", "planning_completed",
                       "planning_warning")
    <3>1. /\ row' = row /\ pc[r] = "plan_llm" /\ spent[r] = 0 /\ ~loaded'[r]
          /\ \/ pc'[r] = "plan_tokens" /\ spent'[r] = Bump(spent[r])
             \/ pc'[r] \in {"planning_completed", "planning_warning"} /\ spent'[r] = spent[r]
      BY <1>0, <2>5, FetchingLabels DEF InvokeLlm, Goto, TypeInv, TypeOK
    <3>2. Bump(spent[r]) = 1
      BY <1>0, <2>1, <3>1 DEF Bump
    <3>3. own[r].tokens <= 2 * (runs - 1) /\ row.tokens = own[r].tokens
      BY <1>0, <2>2, <3>1
    <3> QED
      BY <1>0, <2>0, <3>1, <3>2, <3>3 DEF DatabaseTool
  <2>6. ASSUME NEW next \in {"planning_completed", "planning_warning", "except"},
               IncrementTokenUsage(r, "plan_tokens", next)
        PROVE  CallsInv(r)' /\ TokensInv(r)'
    <3>1. /\ pc[r] = "plan_tokens" /\ loaded[r] /\ pc'[r] = next /\ spent' = spent
          /\ row'.tokens = Bump(row.tokens) /\ ~loaded'[r]
      BY <1>0, <2>6 DEF IncrementTokenUsage, Goto, Forget, TypeInv, TypeOK, Row
    <3>2. Bump(row.tokens) = row.tokens + 1
      BY <1>0, <2>3, <3>1 DEF Bump
    <3> QED
      BY <1>0, <2>0, <2>2, <2>3, <3>1, <3>2, PhaseLabels DEF DatabaseTool
  <2>7. CASE InvokeLlm(r, "answer_llm", "answer_tokens", "llm_fallback", "llm_fallback")
    <3>1. /\ row' = row /\ pc[r] = "answer_llm" /\ spent[r] <= 1 /\ ~loaded'[r]
          /\ \/ pc'[r] = "answer_tokens" /\ spent'[r] = Bump(spent[r])
             \/ pc'[r] = "llm_fallback" /\ spent'[r] = spent[r]
      BY <1>0, <2>7, FetchingLabels DEF InvokeLlm, Goto, TypeInv, TypeOK
    <3>2. Bump(spent[r]) = spent[r] + 1
      BY <1>0, <2>1, <3>1 DEF Bump
    <3>3. own[r].tokens <= 2 * (runs - 1) /\ row.tokens = own[r].tokens + spent[r]
      BY <1>0, <2>2, <3>1
    <3> QED
      BY <1>0, <2>0, <3>1, <3>2, <3>3 DEF DatabaseTool
  <2>8. CASE IncrementTokenUsage(r, "answer_tokens", "llm_completed")
    <3>1. /\ pc[r] = "answer_tokens" /\ loaded[r] /\ pc'[r] = "llm_completed"
          /\ spent' = spent /\ row'.tokens = Bump(row.tokens) /\ ~loaded'[r]
      BY <1>0, <2>8 DEF IncrementTokenUsage, Goto, Forget, TypeInv, TypeOK, Row
    <3>2. Bump(row.tokens) = row.tokens + 1
      BY <1>0, <2>3, <3>1 DEF Bump
    <3> QED
      BY <1>0, <2>0, <2>2, <2>3, <3>1, <3>2, PhaseLabels DEF DatabaseTool
  <2>9. CASE SaveAnswer(r)
    <3>1. /\ pc[r] = "answer_save" /\ loaded[r] /\ pc'[r] = "session_completed"
          /\ spent' = spent /\ row'.tokens = row.tokens /\ ~loaded'[r]
      BY <1>0, <2>9, PcMoves DEF SaveAnswer, Completed, Forget, TypeInv, TypeOK, Row
    <3> QED
      BY <1>0, <2>0, <2>2, <3>1 DEF DatabaseTool
  <2> QED
    BY <1>2, <2>4, <2>5, <2>6, <2>7, <2>8, <2>9, GraphSpends
<1>3. CASE RunnerStep(r)
  <2>1. /\ spent' = spent /\ runs' = runs
        /\ RunnerFailed(r) \/ (loaded' = loaded /\ tmp' = tmp)
    BY <1>3 DEF RunnerStep, RunnerFailed, EmitEvent, observer, counters
  <2>2. ~loaded'[r]
    <3>1. pc[r] \in {"run_agent", "mark_running", "runner_refresh", "runner_totals", "except"}
          \/ RunnerFailed(r)
      BY <1>0, <1>3, PcMoves DEF RunnerStep
    <3>2. CASE RunnerFailed(r)
      BY <1>0, <3>2 DEF RunnerFailed, EmitEvent, Forget, TypeInv, TypeOK
    <3> QED
      BY <2>1, <3>1, <3>2, FetchingLabels
  <2>3. CASE RunnerGet(r)
    <3>1. /\ row' = row /\ own'[r] = Running(row)
          /\ pc[r] = "run_agent" /\ pc'[r] = "mark_running"
      BY <1>0, <2>3, PcMoves DEF RunnerGet, TypeInv, TypeOK
    <3>2. own'[r].tokens = row.tokens
      BY <1>0, <3>1 DEF Running, Row
    <3> QED
      BY <1>0, <2>1, <3>1, <3>2, <2>2
  <2>4. CASE RunnerMarkRunning(r)
    <3>1. /\ row' = own[r] /\ own' = own
          /\ pc[r] = "mark_running" /\ pc'[r] = "agent_started"
      BY <1>0, <2>4, PcMoves DEF RunnerMarkRunning
    <3> QED
      BY <1>0, <2>1, <3>1, <2>2
  <2>5. CASE RunnerRefresh(r)
    <3>1. row' = row /\ pc[r] = "runner_refresh" /\ pc'[r] = "runner_totals"
      BY <1>0, <2>5, PcMoves DEF RunnerRefresh
    <3> QED
      BY <1>0, <2>1, <3>1, <2>2, PhaseLabels DEF DatabaseTool
  <2>6. CASE RunnerSaveTotals(r)
    <3>1. /\ row'.tokens = row.tokens
          /\ pc[r] = "runner_totals" /\ pc'[r] = "service_refresh"
      BY <1>0, <2>6, PcMoves DEF RunnerSaveTotals, WithTotals, Row
    <3> QED
      BY <1>0, <2>1, <3>1, <2>2, PhaseLabels DEF DatabaseTool
  <2>7. CASE RunnerFail(r)
    <3>1. /\ row'.tokens = own[r].tokens
          /\ pc[r] = "except" /\ pc'[r] = "session_failed"
      BY <1>0, <2>7, PcMoves DEF RunnerFail, Ended, Row
    <3>2. own[r].tokens <= 2 * (runs - 1)
      BY <3>1 DEF RunPhase
    <3> QED
      BY <1>0, <2>1, <3>1, <3>2, <2>2, PhaseLabels DEF DatabaseTool
  <2>8. CASE RunnerFailed(r)
    <3>1. /\ row'.tokens = row.tokens
          /\ pc[r] = "session_failed" /\ pc'[r] = "service_refresh" /\ ~loaded'[r]
      BY <1>0, <2>8, PcMoves
      DEF RunnerFailed, EmitEvent, NextStep, Forget, Row, TypeInv, TypeOK
    <3> QED
      BY <1>0, <2>1, <3>1, <2>2, PhaseLabels DEF DatabaseTool
  <2> QED
    BY <1>3, <2>3, <2>4, <2>5, <2>6, <2>7, <2>8 DEF RunnerStep
<1>4. CASE MergeOptions(r)
  <2>1. /\ row'.tokens = row.tokens /\ spent' = spent /\ runs' = runs
        /\ pc[r] = "merge_options" /\ pc'[r] = "run_agent" /\ ~loaded'[r]
    BY <1>0, <1>4, PcMoves
    DEF MergeOptions, Forget, Row, observer, counters, TypeInv, TypeOK
  <2> QED
    BY <1>0, <2>1, PhaseLabels
<1>5. CASE ServiceReturn(r) \/ ServiceExcept(r) \/ RequestFails(r) \/ Crash(r)
  <2>1. row'.tokens = row.tokens /\ runs' = runs
    BY <1>0, <1>5 DEF ServiceReturn, ServiceExcept, RequestFails, Crash, Ended, Recounted,
       Row, counters, db
  <2>2. pc'[r] = "idle" /\ spent'[r] = 0 /\ ~loaded'[r]
    BY <1>0, <1>5 DEF ServiceReturn, ServiceExcept, RequestFails, Crash, Return, Goto,
       Forget, TypeInv, TypeOK
  <2> QED
    BY <1>0, <2>1, <2>2, PhaseLabels
<1>6. CASE DbRaise(r)
  BY <1>6 DEF DbRaise
<1>7. ASSUME NEW force, NEW n, RunRequest(r, force, n)
      PROVE  CallsInv(r)' /\ TokensInv(r)'
  <2>1. /\ row' = row /\ pc[r] = "idle" /\ pc'[r] \in {"run_agent", "merge_options"}
        /\ runs' = runs + 1 /\ spent' = spent /\ ~loaded'[r]
    BY <1>0, <1>7, FetchingLabels DEF RunRequest, Goto, db, observer, TypeInv, TypeOK
  <2> QED
    BY <1>0, <2>1, PhaseLabels
<1> QED
  BY <1>1, <1>2, <1>3, <1>4, <1>5, <1>6, <1>7 DEF SoloStep, Work

LEMMA TokensAside ==
    ASSUME TypeInv, NEW r \in Process, Aside(r), CallsInv(r), TokensInv(r)
    PROVE  CallsInv(r)' /\ TokensInv(r)'
<1>1. row \in Row
  BY DEF TypeInv, TypeOK
<1>2. Ended(row, "cancelled").tokens = row.tokens
  BY <1>1 DEF Ended, Row
<1>3. row'.tokens = row.tokens
  BY <1>2 DEF Aside
<1> QED
  BY <1>3 DEF CallsInv, TokensInv, Sums, Uncounted, InRun, BeforePlan, AfterAnswer, Aside

(* Where one runner serves a session and no statement raises, a run that   *)
(* saves its answer has added the usage of every model call it made.       *)
(* Counts up to twice the number of runs are not capped.                   *)
THEOREM TokensAlwaysRecorded ==
    ASSUME NEW r, Runner = {r}, ~DbMayFail, MaxCount >= 2 * MaxRuns
    PROVE  Spec => []TokensRecorded
<1>1. Init => Apart /\ CallsInv(r) /\ TokensInv(r)
  <2> SUFFICES ASSUME Init PROVE Apart /\ CallsInv(r) /\ TokensInv(r)
    OBVIOUS
  <2>1. PICK m \in CreateMaxSteps : row = NewRow(m)
    BY DEF Init
  <2>2. row.tokens = 0 /\ runs = 0
    BY <2>1 DEF NewRow, Init
  <2>3. r \in Process /\ \A w \in Process : pc[w] = "idle" /\ spent[w] = 0 /\ ~loaded[w]
    BY DEF Init, Process
  <2> QED
    BY <2>2, <2>3, PhaseLabels DEF Apart, CallsInv, TokensInv, InRun, Process
<1>2. /\ AnswerInv /\ Apart /\ CallsInv(r) /\ TokensInv(r) /\ [Next]_vars
      => (Apart /\ CallsInv(r) /\ TokensInv(r))'
  BY SoloMove, TokensStep, TokensAside DEF AnswerInv
<1>3. AnswerInv /\ TokensInv(r) => TokensRecorded
  <2> SUFFICES ASSUME AnswerInv, TokensInv(r), pc[r] = "session_completed"
               PROVE  row.tokens = own[r].tokens + spent[r]
    BY DEF TokensRecorded
  <2>1. row.tokens \in Nat
    BY RowNumbers DEF AnswerInv, TypeInv, TypeOK
  <2> QED
    BY <2>1 DEF TokensInv, InRun, Sums, Uncounted
<1> QED
  BY <1>1, <1>2, <1>3, AnswerInit, AnswerNext, PTL DEF Spec
=============================================================================
