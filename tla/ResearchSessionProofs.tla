----------------------- MODULE ResearchSessionProofs -----------------------
(***************************************************************************)
(* Theorems about ResearchSession, for any sets of processes and any       *)
(* bounds.                                                                 *)
(***************************************************************************)
EXTENDS ResearchSession, FiniteSetTheorems, TLAPS

(* Process w is in the loop over the matches.                              *)
ReadsMatch(w) ==
    \/ pc[w] \in {"read_around_match", "save_finding", "finding_saved"}
    \/ /\ pc[w] = "log_tool_call"
       /\ task[w].tool \in {"read_around_match", "save_finding"}

(* What TypeOK rests on: a request in flight has its run's number, and     *)
(* the loop over the matches has a match left while it is in its body.     *)
TaskOK ==
    \A w \in Process :
        /\ pc[w] \notin {"idle", "cancel"} => run[w] # 0
        /\ ReadsMatch(w) => task[w].todo \in 1..MaxMatches

TypeInv == TypeOK /\ TaskOK

USE DEF Process

-----------------------------------------------------------------------------
(* The number of findings is a number: there are finitely many.            *)
LEMMA FindingsFinite ==
    ASSUME NEW F, F \subseteq Finding
    PROVE  IsFiniteSet(F) /\ Cardinality(F) \in Nat
<1>1. IsFiniteSet(1..MaxRuns) /\ IsFiniteSet(1..MaxMatches)
  BY BoundsAssumption, FS_Interval
<1>2. IsFiniteSet(Finding)
  BY <1>1, FS_Product DEF Finding
<1> QED
  BY <1>2, FS_Subset, FS_CardinalityType

(* The assignments of models.py and of the runner turn rows into rows.     *)
LEMMA RowOperators ==
    ASSUME NEW r \in Row
    PROVE  /\ Running(r) \in Row
           /\ \A t \in Nat, F \in SUBSET Finding : Recounted(r, t, F) \in Row
           /\ \A a \in 0..MaxRuns, F \in SUBSET Finding : Completed(r, a, F) \in Row
           /\ \A s \in {"failed", "cancelled"} : Ended(r, s) \in Row
           /\ \A q \in Row : WithTotals(r, q) \in Row
<1>1. Running(r) \in Row
  BY DEF Running, Row, Status
<1>2. ASSUME NEW t \in Nat, NEW F \in SUBSET Finding
      PROVE  Recounted(r, t, F) \in Row
  BY FindingsFinite DEF Recounted, Row
<1>3. ASSUME NEW a \in 0..MaxRuns, NEW F \in SUBSET Finding
      PROVE  Completed(r, a, F) \in Row
  BY DEF Completed, Row, Status
<1>4. ASSUME NEW s \in {"failed", "cancelled"}
      PROVE  Ended(r, s) \in Row
  BY DEF Ended, Row, Status
<1>5. ASSUME NEW q \in Row
      PROVE  WithTotals(r, q) \in Row
  BY DEF WithTotals, Row
<1> QED
  BY <1>1, <1>2, <1>3, <1>4, <1>5

LEMMA NewRowType == \A m \in Nat : NewRow(m) \in Row
  BY BoundsAssumption DEF NewRow, Row, Status

LEMMA NoRowType == NoRow \in Row
  BY NewRowType DEF NoRow

LEMMA NextStepType ==
    ASSUME NEW r \in Row, NEW n \in Nat
    PROVE  /\ Bump(n) \in Nat
           /\ [r EXCEPT !.step = Bump(n)] \in Row
           /\ [r EXCEPT !.tokens = Bump(n)] \in Row
<1>1. Bump(n) \in Nat
  BY CapAssumption DEF Bump
<1>2. ASSUME NEW k \in Nat
      PROVE  [r EXCEPT !.step = k] \in Row /\ [r EXCEPT !.tokens = k] \in Row
  BY DEF Row
<1> QED
  BY <1>1, <1>2

LEMMA TypeInit == Init => TypeInv
<1> SUFFICES ASSUME Init PROVE TypeInv
  OBVIOUS
<1>1. row \in Row
  BY NewRowType, ChoiceAssumption DEF Init
<1>2. NoTask \in Task
  BY DEF NoTask, Task
<1>3. TypeOK
  <2>1. /\ loaded \in [Process -> BOOLEAN]
        /\ tmp \in [Process -> Row] /\ own \in [Process -> Row]
        /\ task \in [Process -> Task]
    BY <1>2, NoRowType DEF Init
  <2>2. pc \in [Process -> Label]
    BY DEF Init, Label
  <2>3. run \in [Process -> 0..MaxRuns] /\ spent \in [Process -> Nat]
    BY BoundsAssumption DEF Init
  <2>4. /\ tools \in Nat /\ calls \in Nat
        /\ runs \in 0..MaxRuns /\ cancels \in 0..MaxCancels
        /\ crashes \in 0..MaxCrashes
    BY BoundsAssumption, CapAssumption DEF Init
  <2>5. analyzed \in BOOLEAN /\ orphaned \in BOOLEAN /\ findings \subseteq Finding
    BY DEF Init
  <2> QED
    BY <1>1, <2>1, <2>2, <2>3, <2>4, <2>5 DEF TypeOK
<1>4. TaskOK
  BY DEF Init, TaskOK, ReadsMatch
<1> QED
  BY <1>3, <1>4 DEF TypeInv

-----------------------------------------------------------------------------
(* One lemma per building block of the graph's nodes: it keeps TypeInv if  *)
(* the label it goes to may be gone to.                                    *)
GraphFrame == UNCHANGED <<own, run, analyzed, orphaned, counters>>

InLoop == {"read_around_match", "save_finding", "finding_saved"}
Free == Label \ (InLoop \cup {"log_tool_call", "idle", "cancel"})

LEMMA FetchRowType ==
    ASSUME TypeInv, NEW w \in Process, FetchRow(w)
    PROVE  TypeInv'
<1>1. Recounted(row, tools, findings) \in Row
  BY RowOperators DEF TypeInv, TypeOK
<1>2. TypeOK'
  BY <1>1 DEF TypeInv, TypeOK, FetchRow, db, observer, counters
<1>3. TaskOK'
  BY DEF TypeInv, TypeOK, TaskOK, ReadsMatch, FetchRow, db, observer, counters
<1> QED
  BY <1>2, <1>3 DEF TypeInv

LEMMA EmitEventType ==
    ASSUME TypeInv, NEW w \in Process, NEW event \in AgentEvent, NEW next \in Label,
           EmitEvent(w, event, next), UNCHANGED task, GraphFrame,
           next \in Free \/ (next = "log_tool_call" /\ ReadsMatch(w))
    PROVE  TypeInv'
<1>1. row' \in Row
  BY NextStepType DEF TypeInv, TypeOK, EmitEvent, NextStep, Row
<1>2. TypeOK'
  BY <1>1, NoRowType DEF TypeInv, TypeOK, EmitEvent, Goto, Forget, GraphFrame, counters
<1>3. run[w] # 0
  BY DEF TypeInv, TaskOK, EmitEvent, AgentEvent
<1>4. TaskOK'
  BY <1>3 DEF TypeInv, TypeOK, TaskOK, ReadsMatch, EmitEvent, Goto,
              GraphFrame, counters, Free, InLoop
<1> QED
  BY <1>2, <1>4 DEF TypeInv

LEMMA CallToolType ==
    ASSUME TypeInv, NEW w \in Process, NEW tool \in Tool, NEW ok \in BOOLEAN,
           CallTool(w, tool, ok), GraphFrame
    PROVE  TypeInv'
<1>1. [task[w] EXCEPT !.tool = tool, !.broke = ~ok] \in Task
  BY DEF TypeInv, TypeOK, Task
<1>2. TypeOK'
  BY <1>1 DEF TypeInv, TypeOK, CallTool, Goto, GraphFrame, counters, Label, RunPhase
<1>3. run[w] # 0 /\ (tool \in InLoop => task[w].todo \in 1..MaxMatches)
  BY DEF TypeInv, TaskOK, ReadsMatch, CallTool, Tool, DatabaseTool, CodeTool, InLoop
<1>4. TaskOK'
  BY <1>3 DEF TypeInv, TypeOK, TaskOK, ReadsMatch, CallTool, Goto, Task,
              GraphFrame, counters, InLoop
<1> QED
  BY <1>2, <1>4 DEF TypeInv

LEMMA LogToolCallType ==
    ASSUME TypeInv, NEW w \in Process, NEW tool, LogToolCall(w, tool)
    PROVE  /\ row' \in Row /\ tools' \in Nat
           /\ loaded' \in [Process -> BOOLEAN] /\ tmp' \in [Process -> Row]
           /\ run[w] # 0
           /\ tool \in InLoop => task[w].todo \in 1..MaxMatches
<1>1. row' \in Row
  BY NextStepType DEF TypeInv, TypeOK, LogToolCall, NextStep, Row
<1>2. /\ tools' \in Nat
      /\ loaded' \in [Process -> BOOLEAN] /\ tmp' \in [Process -> Row]
  BY NoRowType DEF TypeInv, TypeOK, LogToolCall, Forget
<1>3. run[w] # 0 /\ (tool \in InLoop => task[w].todo \in 1..MaxMatches)
  BY DEF TypeInv, TypeOK, TaskOK, ReadsMatch, LogToolCall, InLoop, Task, Tool,
         DatabaseTool, CodeTool
<1> QED
  BY <1>1, <1>2, <1>3

(* A logged tool call goes on to next with the task t.                     *)
LEMMA LoggedType ==
    ASSUME TypeInv, NEW w \in Process, NEW tool, LogToolCall(w, tool),
           NEW t \in Task, task' = [task EXCEPT ![w] = t],
           NEW next \in Label, Goto(w, next), GraphFrame,
           \/ next \in Free
           \/ next \in InLoop /\ t.todo \in 1..MaxMatches
    PROVE  TypeInv'
<1>1. TypeOK'
  BY LogToolCallType DEF TypeInv, TypeOK, LogToolCall, Goto, GraphFrame, counters
<1>2. run[w] # 0
  BY LogToolCallType
<1>3. TaskOK'
  BY <1>2 DEF TypeInv, TypeOK, TaskOK, ReadsMatch, Goto, GraphFrame, counters,
              Free, InLoop
<1> QED
  BY <1>1, <1>3 DEF TypeInv

LEMMA ToolDoneType ==
    ASSUME TypeInv, NEW w \in Process, NEW tool, NEW next \in Label, NEW left \in Nat,
           ToolDone(w, tool, next, left), GraphFrame,
           \/ next \in Free
           \/ next \in InLoop /\ left \in 1..MaxMatches
    PROVE  TypeInv'
<1> DEFINE t == [task[w] EXCEPT !.tool = "none", !.todo = left]
<1>1. t \in Task /\ t.todo = left
  BY DEF TypeInv, TypeOK, Task
<1>2. task' = [task EXCEPT ![w] = t] /\ LogToolCall(w, tool) /\ Goto(w, next)
  BY DEF ToolDone, TypeInv, TypeOK
<1> QED
  BY <1>1, <1>2, LoggedType

LEMMA InvokeLlmType ==
    ASSUME TypeInv, NEW w \in Process, NEW at \in Label \ {"idle", "cancel"},
           NEW a \in Free, NEW n \in Free, NEW r \in Free,
           InvokeLlm(w, at, a, n, r), GraphFrame
    PROVE  TypeInv'
<1>1. PICK next \in {a, n, r} : Goto(w, next)
  BY DEF InvokeLlm
<1>2. spent' \in [Process -> Nat]
  BY CapAssumption DEF TypeInv, TypeOK, InvokeLlm, Bump
<1>3. TypeOK'
  BY <1>1, <1>2 DEF TypeInv, TypeOK, InvokeLlm, Goto, GraphFrame, counters, Free
<1>4. TaskOK'
  BY <1>1 DEF TypeInv, TypeOK, TaskOK, ReadsMatch, InvokeLlm, Goto,
              GraphFrame, counters, Free, InLoop
<1> QED
  BY <1>3, <1>4 DEF TypeInv

LEMMA IncrementTokenUsageType ==
    ASSUME TypeInv, NEW w \in Process, NEW at \in Label \ {"idle", "cancel"},
           NEW next \in Free, IncrementTokenUsage(w, at, next), GraphFrame
    PROVE  TypeInv'
<1>1. row' \in Row
  BY NextStepType DEF TypeInv, TypeOK, IncrementTokenUsage, Row
<1>2. TypeOK'
  BY <1>1, NoRowType DEF TypeInv, TypeOK, IncrementTokenUsage, Goto, Forget,
                         GraphFrame, counters, Free
<1>3. TaskOK'
  BY DEF TypeInv, TypeOK, TaskOK, ReadsMatch, IncrementTokenUsage, Goto,
         GraphFrame, counters, Free, InLoop
<1> QED
  BY <1>2, <1>3 DEF TypeInv

-----------------------------------------------------------------------------
(* The nodes of the graph, disjunct by disjunct.                           *)
LEMMA LabelTypes ==
    /\ AgentEvent \subseteq Label
    /\ AgentEvent \ {"finding_saved"} \subseteq Free
    /\ DatabaseTool \cup {"search_code"} \subseteq Free
    /\ InLoop \cup {"log_tool_call"} \subseteq Label
    /\ {"plan_llm", "plan_tokens", "answer_llm", "answer_tokens",
        "answer_save", "except", "runner_refresh", "service_refresh"} \subseteq Free
  BY DEF Label, RunPhase, Free, InLoop, AgentEvent, Tool, DatabaseTool, CodeTool

LEMMA LoadContextType ==
    ASSUME TypeInv, NEW w \in Process, LoadContext(w), GraphFrame
    PROVE  TypeInv'
<1>1. CASE EmitEvent(w, "agent_started", "get_previous_findings") /\ UNCHANGED task
  BY <1>1, EmitEventType, LabelTypes DEF AgentEvent, DatabaseTool, Free
<1>2. ASSUME NEW tool \in DatabaseTool, NEW ok \in {TRUE, ~DbMayFail},
             CallTool(w, tool, ok)
      PROVE  TypeInv'
  BY <1>2, CallToolType, ChoiceAssumption DEF Tool
<1>3. CASE ToolDone(w, "get_previous_findings", "list_past_sessions", 0)
  BY <1>3, ToolDoneType, LabelTypes DEF DatabaseTool, Free
<1>4. ASSUME NEW next \in {"planning_started", "except"},
             ToolDone(w, "list_past_sessions", next, 0)
      PROVE  TypeInv'
  BY <1>4, ToolDoneType, LabelTypes DEF AgentEvent, Free
<1> QED
  BY <1>1, <1>2, <1>3, <1>4 DEF LoadContext

LEMMA PlannerType ==
    ASSUME TypeInv, NEW w \in Process, Planner(w), GraphFrame
    PROVE  TypeInv'
<1>1. CASE EmitEvent(w, "planning_started", "plan_llm") /\ UNCHANGED task
  BY <1>1, EmitEventType, LabelTypes DEF AgentEvent, Free
<1>2. CASE InvokeLlm(w, "plan_llm", "plan_tokens", "planning_completed",
                     "planning_warning")
  BY <1>2, InvokeLlmType, LabelTypes DEF AgentEvent, Free
<1>3. ASSUME NEW next \in {"planning_completed", "planning_warning", "except"},
             IncrementTokenUsage(w, "plan_tokens", next)
      PROVE  TypeInv'
  BY <1>3, IncrementTokenUsageType, LabelTypes DEF AgentEvent, Free
<1>4. CASE EmitEvent(w, "planning_warning", "planning_completed") /\ UNCHANGED task
  BY <1>4, EmitEventType, LabelTypes DEF AgentEvent, Free
<1>5. CASE EmitEvent(w, "planning_completed", "research_started") /\ UNCHANGED task
  BY <1>5, EmitEventType, LabelTypes DEF AgentEvent, Free
<1> QED
  BY <1>1, <1>2, <1>3, <1>4, <1>5 DEF Planner

LEMMA SearchType ==
    ASSUME TypeInv, NEW w \in Process, Search(w), GraphFrame
    PROVE  TypeInv'
<1>1. ASSUME EmitEvent(w, "research_started", "search_code"),
             NEW n \in 1..MaxTerms,
             task' = [task EXCEPT ![w] = [@ EXCEPT !.todo = n]]
      PROVE  TypeInv'
  <2>1. row' \in Row
    BY <1>1, NextStepType DEF TypeInv, TypeOK, EmitEvent, NextStep, Row
  <2>2. task' \in [Process -> Task]
    BY <1>1, CapAssumption DEF TypeInv, TypeOK, Task
  <2>3. TypeOK'
    BY <1>1, <2>1, <2>2, NoRowType, LabelTypes
    DEF TypeInv, TypeOK, EmitEvent, Goto, Forget, GraphFrame, counters, Free
  <2>4. TaskOK'
    BY <1>1 DEF TypeInv, TypeOK, TaskOK, ReadsMatch, EmitEvent, Goto,
                GraphFrame, counters
  <2> QED
    BY <2>3, <2>4 DEF TypeInv
<1>2. ASSUME NEW ok \in BOOLEAN, CallTool(w, "search_code", ok)
      PROVE  TypeInv'
  BY <1>2, CallToolType DEF Tool, CodeTool
<1>3. CASE task[w].todo > 1
           /\ ToolDone(w, "search_code", "search_code", task[w].todo - 1)
  <2>1. task[w].todo - 1 \in Nat
    BY <1>3 DEF TypeInv, TypeOK, Task
  <2> QED
    BY <1>3, <2>1, ToolDoneType, LabelTypes DEF Free
<1>4. CASE ToolDone(w, "search_code", "research_completed", 0)
  BY <1>4, ToolDoneType, LabelTypes DEF AgentEvent, Free
<1>5. ASSUME NEW n \in 1..MaxMatches,
             ToolDone(w, "search_code", "read_around_match", n)
      PROVE  TypeInv'
  BY <1>5, ToolDoneType, LabelTypes, BoundsAssumption DEF InLoop
<1> QED
  BY <1>1, <1>2, <1>3, <1>4, <1>5 DEF Search

LEMMA ReadMatchesType ==
    ASSUME TypeInv, NEW w \in Process, ReadMatches(w), GraphFrame
    PROVE  TypeInv'
<1>1. ASSUME NEW ok \in BOOLEAN, CallTool(w, "read_around_match", ok)
      PROVE  TypeInv'
  BY <1>1, CallToolType DEF Tool, CodeTool
<1>2. CASE ToolDone(w, "read_around_match", "save_finding", task[w].todo)
  <2>1. task[w].todo \in 1..MaxMatches
    BY <1>2, LogToolCallType DEF ToolDone, InLoop
  <2> QED
    BY <1>2, <2>1, ToolDoneType, LabelTypes DEF InLoop
<1>3. CASE SaveFinding(w)
  <2>1. run[w] \in 1..MaxRuns /\ task[w].todo \in 1..MaxMatches
    BY <1>3, BoundsAssumption DEF TypeInv, TypeOK, TaskOK, ReadsMatch, SaveFinding
  <2>2. findings' \subseteq Finding
    BY <1>3, <2>1 DEF TypeInv, TypeOK, SaveFinding, Finding
  <2>3. task' \in [Process -> Task]
    BY <1>3 DEF TypeInv, TypeOK, SaveFinding, Task, Tool
  <2>4. TypeOK'
    BY <1>3, <2>2, <2>3, LabelTypes
    DEF TypeInv, TypeOK, SaveFinding, Goto, GraphFrame, counters, InLoop
  <2>5. TaskOK'
    BY <1>3, <2>1 DEF TypeInv, TypeOK, TaskOK, ReadsMatch, SaveFinding, Goto,
                      Task, GraphFrame, counters
  <2> QED
    BY <2>4, <2>5 DEF TypeInv
<1>4. CASE CallTool(w, "save_finding", FALSE)
  BY <1>4, CallToolType DEF Tool
<1>5. CASE EmitEvent(w, "finding_saved", "log_tool_call") /\ UNCHANGED task
  <2>1. ReadsMatch(w)
    BY <1>5 DEF ReadsMatch, EmitEvent
  <2> QED
    BY <1>5, <2>1, EmitEventType, LabelTypes DEF AgentEvent
<1>6. CASE /\ LogToolCall(w, "save_finding") /\ ~task[w].broke
           /\ task' = [task EXCEPT ![w] =
                         [@ EXCEPT !.tool = "none", !.todo = task[w].todo - 1,
                                   !.cited = task[w].cited \cup {<<run[w], task[w].todo>>}]]
           /\ Goto(w, IF task[w].todo > 1 THEN "read_around_match"
                                          ELSE "research_completed")
  <2> DEFINE left == task[w].todo - 1
             t == [task[w] EXCEPT !.tool = "none", !.todo = left,
                          !.cited = task[w].cited \cup {<<run[w], task[w].todo>>}]
             next == IF task[w].todo > 1 THEN "read_around_match"
                                         ELSE "research_completed"
  <2>1. run[w] \in 1..MaxRuns /\ task[w].todo \in 1..MaxMatches
    BY <1>6, LogToolCallType, BoundsAssumption DEF InLoop, TypeInv, TypeOK
  <2>2. task[w] \in Task /\ <<run[w], task[w].todo>> \in Finding
    BY <2>1 DEF TypeInv, TypeOK, Finding
  <2>3. t \in Task /\ t.todo = left
    <3>1. left \in Nat
      BY <2>1, BoundsAssumption
    <3>2. task[w].cited \cup {<<run[w], task[w].todo>>} \in SUBSET Finding
      BY <2>2 DEF Task
    <3> HIDE DEF left
    <3> QED
      BY <2>2, <3>1, <3>2 DEF Task
  <2>4. task' = [task EXCEPT ![w] = t]
    BY <1>6 DEF TypeInv, TypeOK
  <2>5. CASE task[w].todo > 1
    <3>1. next = "read_around_match" /\ left \in 1..MaxMatches
      BY <2>1, <2>5, BoundsAssumption
    <3> QED
      BY <1>6, <2>3, <2>4, <3>1, LoggedType, LabelTypes DEF InLoop
  <2>6. CASE ~(task[w].todo > 1)
    <3>1. next = "research_completed"
      BY <2>6
    <3> QED
      BY <1>6, <2>3, <2>4, <3>1, LoggedType, LabelTypes DEF AgentEvent, Free
  <2> QED
    BY <2>5, <2>6
<1>7. CASE EmitEvent(w, "research_completed", "answer_started") /\ UNCHANGED task
  BY <1>7, EmitEventType, LabelTypes DEF AgentEvent, Free
<1> QED
  BY <1>1, <1>2, <1>3, <1>4, <1>5, <1>6, <1>7 DEF ReadMatches

LEMMA AnswerWriterType ==
    ASSUME TypeInv, NEW w \in Process, AnswerWriter(w), GraphFrame
    PROVE  TypeInv'
<1>1. CASE EmitEvent(w, "answer_started", "answer_llm") /\ UNCHANGED task
  BY <1>1, EmitEventType, LabelTypes DEF AgentEvent, Free
<1>2. CASE InvokeLlm(w, "answer_llm", "answer_tokens", "llm_fallback", "llm_fallback")
  BY <1>2, InvokeLlmType, LabelTypes DEF AgentEvent, Free
<1>3. CASE IncrementTokenUsage(w, "answer_tokens", "llm_completed")
  BY <1>3, IncrementTokenUsageType, LabelTypes DEF AgentEvent, Free
<1>4. CASE EmitEvent(w, "llm_completed", "answer_save") /\ UNCHANGED task
  BY <1>4, EmitEventType, LabelTypes DEF AgentEvent, Free
<1>5. CASE EmitEvent(w, "llm_fallback", "answer_save") /\ UNCHANGED task
  BY <1>5, EmitEventType, LabelTypes DEF AgentEvent, Free
<1>6. CASE SaveAnswer(w)
  <2>1. run[w] \in 0..MaxRuns /\ task[w].cited \in SUBSET Finding /\ tmp[w] \in Row
    BY DEF TypeInv, TypeOK, Task
  <2>2. row' \in Row
    BY <1>6, <2>1, RowOperators DEF SaveAnswer
  <2>3. TypeOK'
    BY <1>6, <2>2, NoRowType, LabelTypes
    DEF TypeInv, TypeOK, SaveAnswer, Goto, Forget, GraphFrame, counters, AgentEvent
  <2>4. TaskOK'
    BY <1>6 DEF TypeInv, TypeOK, TaskOK, ReadsMatch, SaveAnswer, Goto,
                GraphFrame, counters
  <2> QED
    BY <2>3, <2>4 DEF TypeInv
<1>7. CASE EmitEvent(w, "session_completed", "runner_refresh") /\ UNCHANGED task
  BY <1>7, EmitEventType, LabelTypes DEF AgentEvent, Free
<1> QED
  BY <1>1, <1>2, <1>3, <1>4, <1>5, <1>6, <1>7 DEF AnswerWriter

LEMMA GraphType ==
    ASSUME TypeInv, NEW w \in Process, Graph(w)
    PROVE  TypeInv'
<1>1. GraphFrame
  BY DEF Graph, GraphFrame
<1>2. CASE ToolRaised(w)
  <2>1. NoTask \in Task
    BY DEF NoTask, Task
  <2> QED
    BY <1>1, <1>2, <2>1, LoggedType, LabelTypes DEF ToolRaised, Free
<1> QED
  BY <1>1, <1>2, LoadContextType, PlannerType, SearchType, ReadMatchesType,
     AnswerWriterType DEF Graph

-----------------------------------------------------------------------------
(* The runner's, the service's and the environment's steps.                *)
LEMMA RunnerStepType ==
    ASSUME TypeInv, NEW w \in Process, RunnerStep(w)
    PROVE  TypeInv'
<1>1. CASE RunnerFailed(w)
  BY <1>1, EmitEventType, LabelTypes DEF RunnerFailed, AgentEvent, GraphFrame, Free
<1>2. CASE /\ RunnerGet(w) \/ RunnerMarkRunning(w) \/ RunnerRefresh(w)
              \/ RunnerSaveTotals(w) \/ RunnerFail(w)
           /\ UNCHANGED <<findings, tools, analyzed, loaded, tmp, task, run,
                          observer, counters>>
  <2>1. /\ Running(row) \in Row /\ Recounted(row, tools, findings) \in Row
        /\ WithTotals(row, own[w]) \in Row /\ Ended(own[w], "failed") \in Row
    BY RowOperators DEF TypeInv, TypeOK
  <2>2. row' \in Row /\ own' \in [Process -> Row]
    BY <1>2, <2>1 DEF TypeInv, TypeOK, RunnerGet, RunnerMarkRunning, RunnerRefresh,
                      RunnerSaveTotals, RunnerFail
  <2>3. PICK next \in {"mark_running", "agent_started", "runner_totals",
                       "service_refresh", "session_failed"} :
            Goto(w, next) /\ pc[w] \notin {"idle", "cancel"}
    BY <1>2 DEF RunnerGet, RunnerMarkRunning, RunnerRefresh, RunnerSaveTotals,
                RunnerFail
  <2>4. TypeOK'
    BY <1>2, <2>2, <2>3
    DEF TypeInv, TypeOK, Goto, observer, counters, Label, RunPhase, AgentEvent
  <2>5. TaskOK'
    BY <1>2, <2>3 DEF TypeInv, TypeOK, TaskOK, ReadsMatch, Goto
  <2> QED
    BY <2>4, <2>5 DEF TypeInv
<1> QED
  BY <1>1, <1>2 DEF RunnerStep

LEMMA ReturnType ==
    ASSUME TypeInv, NEW w \in Process, Return(w)
    PROVE  /\ pc' \in [Process -> Label] /\ loaded' \in [Process -> BOOLEAN]
           /\ tmp' \in [Process -> Row] /\ own' \in [Process -> Row]
           /\ task' \in [Process -> Task] /\ run' \in [Process -> 0..MaxRuns]
           /\ spent' \in [Process -> Nat] /\ TaskOK'
<1>1. NoTask \in Task
  BY DEF NoTask, Task
<1>2. "idle" \in Label
  BY DEF Label
<1> QED
  BY <1>1, <1>2, NoRowType, BoundsAssumption
  DEF TypeInv, TypeOK, TaskOK, ReadsMatch, Return, Goto, Forget

LEMMA ServiceType ==
    ASSUME TypeInv, NEW w \in Process,
           \/ MergeOptions(w) \/ ServiceReturn(w) \/ ServiceExcept(w) \/ Cancel(w)
    PROVE  TypeInv'
<1>1. CASE MergeOptions(w)
  <2>1. row' \in Row
    BY <1>1 DEF TypeInv, TypeOK, MergeOptions, Row
  <2>2. TypeOK'
    BY <1>1, <2>1, NoRowType
    DEF TypeInv, TypeOK, MergeOptions, Goto, Forget, observer, counters, Label
  <2>3. TaskOK'
    BY <1>1 DEF TypeInv, TypeOK, TaskOK, ReadsMatch, MergeOptions, Goto
  <2> QED
    BY <2>2, <2>3 DEF TypeInv
<1>2. CASE ServiceReturn(w)
  <2>1. analyzed' \in BOOLEAN
    BY <1>2 DEF ServiceReturn
  <2> QED
    BY <1>2, <2>1, ReturnType DEF TypeInv, TypeOK, ServiceReturn, counters
<1>3. CASE ServiceExcept(w)
  <2>1. Ended(row, "failed") \in Row
    BY RowOperators DEF TypeInv, TypeOK
  <2>2. row' \in Row
    BY <1>3, <2>1, RowOperators DEF TypeInv, TypeOK, ServiceExcept
  <2> QED
    BY <1>3, <2>2, ReturnType DEF TypeInv, TypeOK, ServiceExcept, counters
<1>4. CASE Cancel(w)
  <2>1. row' \in Row
    BY <1>4, RowOperators DEF TypeInv, TypeOK, Cancel
  <2>2. TypeOK'
    BY <1>4, <2>1 DEF TypeInv, TypeOK, Cancel, Goto, observer, counters, Label
  <2>3. TaskOK'
    BY <1>4 DEF TypeInv, TypeOK, TaskOK, ReadsMatch, Cancel, Goto
  <2> QED
    BY <2>2, <2>3 DEF TypeInv
<1> QED
  BY <1>1, <1>2, <1>3, <1>4

LEMMA RunRequestType ==
    ASSUME TypeInv, NEW w \in Process, NEW force \in ForceValues,
           NEW n \in RerunMaxSteps, RunRequest(w, force, n)
    PROVE  TypeInv'
<1>1. runs' \in 1..MaxRuns /\ run' = [run EXCEPT ![w] = runs']
  BY BoundsAssumption DEF TypeInv, TypeOK, RunRequest
<1>2. [row EXCEPT !.maxSteps = n] \in Row
  BY ChoiceAssumption DEF TypeInv, TypeOK, Row
<1>3. tmp' \in [Process -> Row]
  BY <1>2 DEF TypeInv, TypeOK, RunRequest
<1>4. PICK next \in {"run_agent", "merge_options"} : Goto(w, next)
  BY DEF RunRequest
<1>5. TypeOK'
  BY <1>1, <1>3, <1>4, BoundsAssumption
  DEF TypeInv, TypeOK, RunRequest, Goto, db, observer, Label
<1>6. TaskOK'
  BY <1>1, <1>4, BoundsAssumption
  DEF TypeInv, TypeOK, TaskOK, ReadsMatch, RunRequest, Goto
<1> QED
  BY <1>5, <1>6 DEF TypeInv

LEMMA CancelRequestType ==
    ASSUME TypeInv, NEW w \in Process, CancelRequest(w)
    PROVE  TypeInv'
<1>1. TypeOK'
  BY CapAssumption
  DEF TypeInv, TypeOK, CancelRequest, Goto, db, observer, Label
<1>2. TaskOK'
  BY DEF TypeInv, TypeOK, TaskOK, ReadsMatch, CancelRequest, Goto
<1> QED
  BY <1>1, <1>2 DEF TypeInv

LEMMA DbRaiseType ==
    ASSUME TypeInv, NEW w \in Process, DbRaise(w)
    PROVE  TypeInv'
<1>1. /\ Handler(pc[w]) \in {"log_tool_call", "planning_warning", "llm_fallback",
                             "service_except", "except"}
      /\ Handler(pc[w]) = "log_tool_call" => pc[w] = "finding_saved"
  BY DEF Handler
<1>2. [task[w] EXCEPT !.broke = pc[w] = "finding_saved"] \in Task
  BY DEF TypeInv, TypeOK, Task
<1>3. TypeOK'
  BY <1>1, <1>2, NoRowType
  DEF TypeInv, TypeOK, DbRaise, Goto, Forget, db, observer, counters, Label,
      RunPhase, AgentEvent
<1>4. TaskOK'
  BY <1>1 DEF TypeInv, TypeOK, TaskOK, ReadsMatch, DbRaise, Goto, Guarded, Task
<1> QED
  BY <1>3, <1>4 DEF TypeInv

LEMMA EndOfProcessType ==
    ASSUME TypeInv, NEW w \in Process, RequestFails(w) \/ Crash(w)
    PROVE  TypeInv'
<1>1. orphaned' \in BOOLEAN
  BY DEF RequestFails, Crash, Orphan
<1>2. crashes' \in 0..MaxCrashes
  BY CapAssumption DEF TypeInv, TypeOK, RequestFails, Crash, counters
<1> QED
  BY <1>1, <1>2, ReturnType DEF TypeInv, TypeOK, RequestFails, Crash, db, counters

LEMMA TypeNext == TypeInv /\ [Next]_vars => TypeInv'
<1> SUFFICES ASSUME TypeInv, [Next]_vars PROVE TypeInv'
  OBVIOUS
<1>1. CASE UNCHANGED vars
  BY <1>1 DEF vars, db, observer, counters, TypeInv, TypeOK, TaskOK, ReadsMatch
<1>2. ASSUME NEW w \in Runner, NEW force \in ForceValues, NEW n \in RerunMaxSteps,
             RunRequest(w, force, n)
      PROVE  TypeInv'
  BY <1>2, RunRequestType
<1>3. ASSUME NEW w \in Runner, Work(w) PROVE TypeInv'
  BY <1>3, FetchRowType, GraphType, RunnerStepType, ServiceType DEF Work
<1>4. ASSUME NEW w \in Canceller, CancelRequest(w) \/ Cancel(w) PROVE TypeInv'
  BY <1>4, CancelRequestType, ServiceType
<1>5. ASSUME NEW w \in Process, DbRaise(w) \/ RequestFails(w) \/ Crash(w)
      PROVE  TypeInv'
  BY <1>5, DbRaiseType, EndOfProcessType
<1> QED
  BY <1>1, <1>2, <1>3, <1>4, <1>5 DEF Next

(* Whatever the requests, failures and bounds, every variable holds a      *)
(* value of its type; with it, the match counter of the researcher's loop  *)
(* never runs out inside the loop.                                         *)
THEOREM TypeCorrect == Spec => []TypeOK
<1>1. TypeInv => TypeOK
  BY DEF TypeInv
<1> QED
  BY <1>1, TypeInit, TypeNext, PTL DEF Spec

-----------------------------------------------------------------------------
(* What a step of the graph does to the status and to process w: it stays  *)
(* in its run and leaves the status alone, unless it saves the answer.     *)
SameStatus ==
    /\ row'.status = row.status /\ row'.error = row.error
    /\ row'.closed = row.closed /\ row'.started = row.started
    /\ row'.answer = row.answer /\ row'.refs = row.refs

OnlyMoves(w) ==
    /\ pc' = [pc EXCEPT ![w] = pc'[w]]
    /\ \A p \in Process \ {w} : loaded'[p] = loaded[p] /\ tmp'[p] = tmp[p]

StaysInRun(w) ==
    /\ OnlyMoves(w) /\ SameStatus
    /\ \/ pc[w] \in RunPhase \ {"except"} /\ pc'[w] \in RunPhase
       \/ pc[w] = "session_completed" /\ pc'[w] = "runner_refresh"
    /\ pc'[w] = "answer_save" => ~loaded'[w]

LEMMA EmitEventEffect ==
    ASSUME TypeInv, NEW w \in Process, NEW e, NEW n, EmitEvent(w, e, n),
           \/ e \in RunPhase \ {"except"} /\ n \in RunPhase
           \/ e = "session_completed" /\ n = "runner_refresh"
    PROVE  StaysInRun(w)
  BY DEF StaysInRun, OnlyMoves, SameStatus, EmitEvent, NextStep, Goto, Forget,
         TypeInv, TypeOK, Row

LEMMA LogToolCallEffect ==
    ASSUME TypeInv, NEW w \in Process, NEW tool, LogToolCall(w, tool),
           NEW n \in RunPhase, Goto(w, n)
    PROVE  StaysInRun(w)
  BY DEF StaysInRun, OnlyMoves, SameStatus, LogToolCall, NextStep, Goto, Forget,
         TypeInv, TypeOK, Row, RunPhase

LEMMA CallToolEffect ==
    ASSUME TypeInv, NEW w \in Process, NEW tool \in Tool, NEW ok, CallTool(w, tool, ok)
    PROVE  StaysInRun(w)
  BY DEF StaysInRun, OnlyMoves, SameStatus, CallTool, Goto, TypeInv, TypeOK, RunPhase,
         Tool, DatabaseTool, CodeTool

LEMMA InvokeLlmEffect ==
    ASSUME TypeInv, NEW w \in Process, NEW at \in RunPhase \ {"except"},
           NEW a \in RunPhase \ {"answer_save"}, NEW n \in RunPhase \ {"answer_save"},
           NEW r \in RunPhase \ {"answer_save"}, InvokeLlm(w, at, a, n, r)
    PROVE  StaysInRun(w)
  BY DEF StaysInRun, OnlyMoves, SameStatus, InvokeLlm, Goto, TypeInv, TypeOK

LEMMA TokenUsageEffect ==
    ASSUME TypeInv, NEW w \in Process, NEW at \in RunPhase \ {"except"}, NEW n \in RunPhase,
           IncrementTokenUsage(w, at, n)
    PROVE  StaysInRun(w)
  BY DEF StaysInRun, OnlyMoves, SameStatus, IncrementTokenUsage, Goto,
         Forget, TypeInv, TypeOK, Row

LEMMA RunPhaseLabels ==
    /\ AgentEvent \ {"session_completed", "session_failed"} \subseteq RunPhase
    /\ Tool \cup {"log_tool_call", "plan_llm", "plan_tokens", "answer_llm",
                  "answer_tokens", "answer_save", "except"} \subseteq RunPhase
  BY DEF RunPhase

LEMMA GraphEffect ==
    ASSUME TypeInv, NEW w \in Process, Graph(w)
    PROVE  StaysInRun(w) \/ SaveAnswer(w)
<1>1. CASE LoadContext(w)
  <2>1. ASSUME NEW n \in {"planning_started", "except"},
               ToolDone(w, "list_past_sessions", n, 0)
        PROVE  StaysInRun(w)
    BY <2>1, LogToolCallEffect, RunPhaseLabels DEF ToolDone, AgentEvent
  <2>2. CASE ToolDone(w, "get_previous_findings", "list_past_sessions", 0)
    BY <2>2, LogToolCallEffect, RunPhaseLabels DEF ToolDone, Tool, DatabaseTool
  <2>3. CASE EmitEvent(w, "agent_started", "get_previous_findings")
    BY <2>3, EmitEventEffect, RunPhaseLabels DEF AgentEvent, Tool, DatabaseTool
  <2>4. CASE \E tool \in DatabaseTool, ok \in {TRUE, ~DbMayFail} :
                 CallTool(w, tool, ok)
    BY <2>4, CallToolEffect DEF Tool
  <2> QED
    BY <1>1, <2>1, <2>2, <2>3, <2>4 DEF LoadContext
<1>2. CASE Planner(w)
  <2>1. ASSUME NEW e \in {"planning_started", "planning_warning",
                          "planning_completed"},
               NEW n \in {"plan_llm", "planning_completed", "research_started"},
               EmitEvent(w, e, n)
        PROVE  StaysInRun(w)
    BY <2>1, EmitEventEffect, RunPhaseLabels DEF AgentEvent
  <2>2. CASE InvokeLlm(w, "plan_llm", "plan_tokens", "planning_completed",
                       "planning_warning")
    <3>1. /\ "plan_llm" \in RunPhase \ {"except"}
          /\ {"plan_tokens", "planning_completed", "planning_warning"}
                \subseteq RunPhase \ {"answer_save"}
      BY RunPhaseLabels DEF AgentEvent
    <3> QED
      BY <2>2, <3>1, InvokeLlmEffect
  <2>3. ASSUME NEW n \in {"planning_completed", "planning_warning", "except"},
               IncrementTokenUsage(w, "plan_tokens", n)
        PROVE  StaysInRun(w)
    BY <2>3, TokenUsageEffect, RunPhaseLabels DEF AgentEvent
  <2> QED
    BY <1>2, <2>1, <2>2, <2>3 DEF Planner
<1>3. CASE Search(w)
  <2>1. CASE EmitEvent(w, "research_started", "search_code")
    BY <2>1, EmitEventEffect, RunPhaseLabels DEF AgentEvent, Tool, CodeTool
  <2>2. ASSUME NEW n \in {"search_code", "research_completed", "read_around_match"},
               NEW left, ToolDone(w, "search_code", n, left)
        PROVE  StaysInRun(w)
    BY <2>2, LogToolCallEffect, RunPhaseLabels
    DEF ToolDone, AgentEvent, Tool, CodeTool
  <2>3. ASSUME NEW ok \in BOOLEAN, CallTool(w, "search_code", ok)
        PROVE  StaysInRun(w)
    BY <2>3, CallToolEffect DEF Tool, CodeTool
  <2> QED
    BY <1>3, <2>1, <2>2, <2>3 DEF Search
<1>4. CASE ReadMatches(w)
  <2>1. CASE SaveFinding(w)
    BY <2>1 DEF SaveFinding, StaysInRun, OnlyMoves, SameStatus, Goto, TypeInv,
                TypeOK, RunPhase, AgentEvent, Tool
  <2>2. CASE ToolDone(w, "read_around_match", "save_finding", task[w].todo)
    BY <2>2, LogToolCallEffect, RunPhaseLabels DEF ToolDone, Tool
  <2>3. ASSUME LogToolCall(w, "save_finding"),
               Goto(w, IF task[w].todo > 1 THEN "read_around_match"
                                           ELSE "research_completed")
        PROVE  StaysInRun(w)
    BY <2>3, LogToolCallEffect, RunPhaseLabels DEF AgentEvent, Tool, CodeTool
  <2>4. CASE EmitEvent(w, "finding_saved", "log_tool_call")
    BY <2>4, EmitEventEffect, RunPhaseLabels DEF AgentEvent
  <2>5. CASE EmitEvent(w, "research_completed", "answer_started")
    BY <2>5, EmitEventEffect, RunPhaseLabels DEF AgentEvent
  <2>6. ASSUME NEW tool \in {"read_around_match", "save_finding"},
               NEW ok \in BOOLEAN, CallTool(w, tool, ok)
        PROVE  StaysInRun(w)
    BY <2>6, CallToolEffect DEF Tool, CodeTool
  <2> QED
    BY <1>4, <2>1, <2>2, <2>3, <2>4, <2>5, <2>6 DEF ReadMatches
<1>5. CASE AnswerWriter(w)
  <2>1. ASSUME NEW e \in {"answer_started", "llm_completed", "llm_fallback"},
               NEW n \in {"answer_llm", "answer_save"}, EmitEvent(w, e, n)
        PROVE  StaysInRun(w)
    BY <2>1, EmitEventEffect, RunPhaseLabels DEF AgentEvent
  <2>2. CASE EmitEvent(w, "session_completed", "runner_refresh")
    BY <2>2, EmitEventEffect
  <2>3. CASE InvokeLlm(w, "answer_llm", "answer_tokens", "llm_fallback",
                       "llm_fallback")
    <3>1. /\ "answer_llm" \in RunPhase \ {"except"}
          /\ {"answer_tokens", "llm_fallback"} \subseteq RunPhase \ {"answer_save"}
      BY RunPhaseLabels DEF AgentEvent
    <3> QED
      BY <2>3, <3>1, InvokeLlmEffect
  <2>4. CASE IncrementTokenUsage(w, "answer_tokens", "llm_completed")
    BY <2>4, TokenUsageEffect, RunPhaseLabels DEF AgentEvent
  <2> QED
    BY <1>5, <2>1, <2>2, <2>3, <2>4 DEF AnswerWriter
<1>6. CASE ToolRaised(w)
  BY <1>6, LogToolCallEffect, RunPhaseLabels DEF ToolRaised
<1> QED
  BY <1>1, <1>2, <1>3, <1>4, <1>5, <1>6 DEF Graph

-----------------------------------------------------------------------------
(* The saves of whole instances are the danger: they write the status and  *)
(* its explanation from a snapshot.  OwnOK says what those snapshots hold  *)
(* by the time they are saved.                                             *)
InRunner == RunPhase \cup {"session_completed", "runner_refresh", "runner_totals"}

OwnOK ==
    \A w \in Process :
        /\ pc[w] = "mark_running" =>
              own[w].status = "running" /\ own[w].error = "" /\ own[w].started
        /\ pc[w] \in InRunner => own[w].started
        /\ pc[w] \in InRunner \ {"except"} => row.started
        /\ pc[w] = "answer_save" /\ loaded[w] => tmp[w].started

StatusInv == TypeInv /\ ConsistentRow /\ OwnOK /\ RunningHasRun

(* Process w records a failure.                                            *)
Fails(w) ==
    /\ row'.status = "failed" /\ row'.error = "failed" /\ row'.closed
    /\ \/ row'.started = row.started
       \/ pc[w] = "except" /\ row'.started = own[w].started

LEMMA StatusInit == Init => StatusInv
<1> SUFFICES ASSUME Init PROVE StatusInv
  OBVIOUS
<1>1. row.status = "pending" /\ row.error = ""
  <2>1. PICK m \in CreateMaxSteps : row = NewRow(m)
    BY DEF Init
  <2> QED
    BY <2>1 DEF NewRow
<1>2. OwnOK
  BY DEF Init, OwnOK, InRunner, RunPhase, AgentEvent, Tool, DatabaseTool, CodeTool
<1> QED
  BY <1>1, <1>2, TypeInit DEF StatusInv, ConsistentRow, StatusExplained,
     FinishedStatus, RunningHasRun

LEMMA RowEffects ==
    ASSUME TypeInv, NEW w \in Process
    PROVE  /\ SaveAnswer(w) =>
                 /\ row'.status = "completed" /\ row'.error = "" /\ row'.closed
                 /\ row'.answer # 0 /\ row'.started = tmp[w].started
           /\ RunnerFail(w) \/ (ServiceExcept(w) /\ ~IsFinished(tmp[w])) => Fails(w)
           /\ Cancel(w) =>
                 /\ row'.status = "cancelled" /\ row'.error = "cancelled"
                 /\ row'.closed /\ row'.started = row.started
           /\ RunnerSaveTotals(w) \/ MergeOptions(w) => SameStatus
           /\ ServiceExcept(w) /\ IsFinished(tmp[w]) => row' = row
<1>1. SaveAnswer(w) => run[w] # 0 /\ tmp[w] \in Row
  BY DEF SaveAnswer, TypeInv, TypeOK, TaskOK
<1>2. SaveAnswer(w) =>
         /\ row'.status = "completed" /\ row'.error = "" /\ row'.closed
         /\ row'.answer # 0 /\ row'.started = tmp[w].started
  BY <1>1 DEF SaveAnswer, Completed, Row
<1>3. RunnerFail(w) => Fails(w)
  BY DEF RunnerFail, Fails, Ended, TypeInv, TypeOK, Row
<1>4. ServiceExcept(w) /\ ~IsFinished(tmp[w]) => Fails(w)
  BY DEF ServiceExcept, Fails, Recounted, Ended, TypeInv, TypeOK, Row
<1>5. Cancel(w) =>
         /\ row'.status = "cancelled" /\ row'.error = "cancelled"
         /\ row'.closed /\ row'.started = row.started
  BY DEF Cancel, Ended, TypeInv, TypeOK, Row
<1>6. RunnerSaveTotals(w) \/ MergeOptions(w) => SameStatus
  BY DEF RunnerSaveTotals, WithTotals, MergeOptions, SameStatus, TypeInv, TypeOK, Row
<1>7. ServiceExcept(w) /\ IsFinished(tmp[w]) => row' = row
  BY DEF ServiceExcept
<1> QED
  BY <1>2, <1>3, <1>4, <1>5, <1>6, <1>7

(* Whatever a step does to the row, it is one of these.                    *)
RowStep(w) ==
    \/ SameStatus
    \/ pc[w] = "mark_running" /\ pc'[w] = "agent_started" /\ row' = own[w]
    \/ SaveAnswer(w)
    \/ Fails(w)
    \/ /\ row'.status = "cancelled" /\ row'.error = "cancelled"
       /\ row'.closed /\ row'.started = row.started

LEMMA WorkRowStep ==
    ASSUME TypeInv, NEW w \in Process, Work(w) \/ Cancel(w)
    PROVE  RowStep(w)
<1>1. CASE FetchRow(w)
  BY <1>1 DEF FetchRow, db, RowStep, SameStatus
<1>2. CASE Graph(w)
  BY <1>2, GraphEffect DEF RowStep, StaysInRun
<1>3. CASE RunnerFailed(w)
  BY <1>3 DEF RunnerFailed, EmitEvent, NextStep, RowStep, SameStatus, TypeInv,
              TypeOK, Row
<1>4. CASE RunnerGet(w) \/ RunnerRefresh(w)
  BY <1>4 DEF RunnerGet, RunnerRefresh, RowStep, SameStatus
<1>5. CASE RunnerMarkRunning(w)
  BY <1>5 DEF RunnerMarkRunning, Goto, RowStep, TypeInv, TypeOK
<1>6. CASE RunnerSaveTotals(w) \/ MergeOptions(w)
  BY <1>6, RowEffects DEF RowStep
<1>7. CASE RunnerFail(w) \/ ServiceExcept(w) \/ Cancel(w)
  BY <1>7, RowEffects DEF RowStep, SameStatus
<1>8. CASE ServiceReturn(w)
  BY <1>8 DEF ServiceReturn, RowStep, SameStatus
<1> QED
  BY <1>1, <1>2, <1>3, <1>4, <1>5, <1>6, <1>7, <1>8 DEF Work, RunnerStep

LEMMA ConsistentNext == StatusInv /\ [Next]_vars => ConsistentRow'
<1> SUFFICES ASSUME StatusInv, [Next]_vars PROVE ConsistentRow'
  OBVIOUS
<1>1. ASSUME NEW w \in Process, RowStep(w)
      PROVE  ConsistentRow'
  <2>1. CASE SameStatus
    BY <2>1 DEF StatusInv, ConsistentRow, StatusExplained, SameStatus
  <2>2. CASE pc[w] = "mark_running" /\ row' = own[w]
    BY <2>2 DEF StatusInv, OwnOK, ConsistentRow, StatusExplained, FinishedStatus
  <2>3. CASE SaveAnswer(w)
    <3>1. tmp[w].started
      BY <2>3 DEF SaveAnswer, StatusInv, OwnOK
    <3> QED
      BY <2>3, <3>1, RowEffects
      DEF StatusInv, ConsistentRow, StatusExplained, FinishedStatus
  <2>4. CASE Fails(w) \/ (row'.status = "cancelled" /\ row'.error = "cancelled" /\ row'.closed)
    BY <2>4 DEF Fails, ConsistentRow, StatusExplained, FinishedStatus
  <2> QED
    BY <1>1, <2>1, <2>2, <2>3, <2>4 DEF RowStep
<1>2. ASSUME row' = row PROVE ConsistentRow'
  BY <1>2 DEF StatusInv, ConsistentRow, StatusExplained
<1>3. ASSUME NEW w \in Process, Work(w) \/ Cancel(w) PROVE ConsistentRow'
  BY <1>1, <1>3, WorkRowStep DEF StatusInv
<1>4. ASSUME NEW w \in Process, DbRaise(w) \/ RequestFails(w) \/ Crash(w) \/ CancelRequest(w)
      PROVE  row' = row
  BY <1>4 DEF DbRaise, RequestFails, Crash, CancelRequest, db
<1>5. ASSUME NEW w, NEW force, NEW n, RunRequest(w, force, n) PROVE row' = row
  BY <1>5 DEF RunRequest, db
<1>6. CASE UNCHANGED vars
  BY <1>2, <1>6 DEF vars, db
<1> QED
  BY <1>2, <1>3, <1>4, <1>5, <1>6 DEF Next

LEMMA StartedStays ==
    ASSUME StatusInv, NEW w \in Process, RowStep(w), row.started
    PROVE  row'.started
<1>1. CASE SaveAnswer(w)
  BY <1>1, RowEffects DEF StatusInv, OwnOK, SaveAnswer
<1>2. CASE Fails(w)
  BY <1>2 DEF Fails, StatusInv, OwnOK, InRunner, RunPhase
<1>3. CASE pc[w] = "mark_running" /\ row' = own[w]
  BY <1>3 DEF StatusInv, OwnOK
<1> QED
  BY <1>1, <1>2, <1>3 DEF RowStep, SameStatus

(* OwnOK for one process, and what a step of w does to it.                 *)
OwnOKOf(w) ==
    /\ pc[w] = "mark_running" =>
          own[w].status = "running" /\ own[w].error = "" /\ own[w].started
    /\ pc[w] \in InRunner => own[w].started
    /\ pc[w] \in InRunner \ {"except"} => row.started
    /\ pc[w] = "answer_save" /\ loaded[w] => tmp[w].started

LEMMA OwnOKAsOf == OwnOK <=> \A w \in Process : OwnOKOf(w)
  BY DEF OwnOK, OwnOKOf

Others(w) ==
    \A p \in Process \ {w} :
        pc'[p] = pc[p] /\ own'[p] = own[p] /\ loaded'[p] = loaded[p] /\ tmp'[p] = tmp[p]

LEMMA OthersUnmoved ==
    ASSUME TypeInv, NEW w \in Process,
           \/ Work(w) \/ Cancel(w) \/ CancelRequest(w)
           \/ DbRaise(w) \/ RequestFails(w) \/ Crash(w)
           \/ \E force \in ForceValues, n \in RerunMaxSteps : RunRequest(w, force, n)
    PROVE  Others(w)
<1>1. CASE FetchRow(w)
  BY <1>1 DEF FetchRow, Others, TypeInv, TypeOK
<1>2. CASE Graph(w)
  <2>1. CASE SaveAnswer(w)
    BY <1>2, <2>1 DEF SaveAnswer, Graph, Goto, Forget, Others, TypeInv, TypeOK
  <2>2. CASE StaysInRun(w)
    BY <1>2, <2>2 DEF StaysInRun, OnlyMoves, Graph, Others, TypeInv, TypeOK
  <2> QED
    BY <1>2, <2>1, <2>2, GraphEffect
<1>3. CASE RunnerStep(w)
  BY <1>3 DEF RunnerStep, RunnerFailed, EmitEvent, RunnerGet, RunnerMarkRunning,
     RunnerRefresh, RunnerSaveTotals, RunnerFail, Goto, Forget, Others, TypeInv, TypeOK
<1>4. CASE MergeOptions(w) \/ Cancel(w) \/ CancelRequest(w) \/ DbRaise(w)
  BY <1>4 DEF MergeOptions, Cancel, CancelRequest, DbRaise, Goto, Forget, Others,
     TypeInv, TypeOK
<1>5. CASE ServiceReturn(w) \/ ServiceExcept(w) \/ RequestFails(w) \/ Crash(w)
  BY <1>5 DEF ServiceReturn, ServiceExcept, RequestFails, Crash, Return, Goto,
     Forget, Others, TypeInv, TypeOK
<1>6. ASSUME NEW force, NEW n, RunRequest(w, force, n)
      PROVE  Others(w)
  BY <1>6 DEF RunRequest, Goto, Others, TypeInv, TypeOK
<1> QED
  BY <1>1, <1>2, <1>3, <1>4, <1>5, <1>6 DEF Work

LEMMA OwnStep ==
    ASSUME StatusInv, NEW w \in Process,
           \/ Work(w) \/ Cancel(w) \/ CancelRequest(w)
           \/ DbRaise(w) \/ RequestFails(w) \/ Crash(w)
           \/ \E force \in ForceValues, n \in RerunMaxSteps : RunRequest(w, force, n)
    PROVE  OwnOKOf(w)'
<1> USE DEF OwnOKOf, Goto
<1>0. TypeInv /\ OwnOKOf(w)
  BY OwnOKAsOf DEF StatusInv
<1>1. CASE FetchRow(w)
  <2>1. "answer_save" \in InRunner \ {"except"}
    BY DEF InRunner, RunPhase
  <2>2. row \in Row /\ Recounted(row, tools, findings).started = row.started
    BY <1>0 DEF TypeInv, TypeOK, Recounted, Row
  <2>3. pc' = pc /\ own' = own /\ row' = row
    BY <1>1 DEF FetchRow, db
  <2>4. pc[w] = "answer_save" => tmp'[w] = Recounted(row, tools, findings)
    BY <1>0, <1>1 DEF FetchRow, TypeInv, TypeOK
  <2> QED
    BY <1>0, <2>1, <2>2, <2>3, <2>4
<1>2. CASE Graph(w)
  <2>1. CASE SaveAnswer(w)
    BY <1>0, <1>2, <2>1, RowEffects
    DEF SaveAnswer, Graph, InRunner, RunPhase, TypeInv, TypeOK
  <2>2. CASE StaysInRun(w)
    BY <1>0, <1>2, <2>2
    DEF StaysInRun, OnlyMoves, SameStatus, Graph, InRunner, RunPhase, AgentEvent,
        Tool, DatabaseTool, CodeTool, TypeInv, TypeOK
  <2> QED
    BY <1>0, <1>2, <2>1, <2>2, GraphEffect
<1>3. CASE RunnerFailed(w) \/ RunnerSaveTotals(w) \/ RunnerFail(w) \/ MergeOptions(w)
           \/ Cancel(w) \/ CancelRequest(w)
  <2>1. pc'[w] \in {"service_refresh", "session_failed", "run_agent", "idle", "cancel"}
    BY <1>0, <1>3 DEF RunnerFailed, EmitEvent, RunnerSaveTotals, RunnerFail,
       MergeOptions, Cancel, CancelRequest, TypeInv, TypeOK
  <2> QED
    BY <2>1 DEF InRunner, RunPhase, AgentEvent, Tool, DatabaseTool, CodeTool
<1>4. CASE RunnerGet(w)
  BY <1>0, <1>4 DEF RunnerGet, Running, Row, TypeInv, TypeOK, InRunner, RunPhase,
     AgentEvent, Tool, DatabaseTool, CodeTool
<1>5. CASE RunnerMarkRunning(w)
  BY <1>0, <1>5 DEF RunnerMarkRunning, TypeInv, TypeOK
<1>6. CASE RunnerRefresh(w)
  BY <1>0, <1>6 DEF RunnerRefresh, Recounted, Row, TypeInv, TypeOK, InRunner
<1>7. CASE ServiceReturn(w) \/ ServiceExcept(w) \/ RequestFails(w) \/ Crash(w)
  <2>1. pc'[w] = "idle"
    BY <1>0, <1>7 DEF ServiceReturn, ServiceExcept, RequestFails, Crash, Return,
       TypeInv, TypeOK
  <2> QED
    BY <2>1 DEF InRunner, RunPhase, AgentEvent, Tool, DatabaseTool, CodeTool
<1>8. CASE DbRaise(w)
  <2>1. /\ pc'[w] \in {"log_tool_call", "planning_warning", "llm_fallback",
                       "service_except", "except"}
        /\ pc'[w] \in {"log_tool_call", "planning_warning", "llm_fallback"}
              => pc[w] \in {"finding_saved", "plan_tokens", "answer_tokens",
                            "llm_completed"}
        /\ pc'[w] = "except" => pc[w] \in InRunner \cup {"mark_running"}
        /\ row' = row /\ own' = own
    BY <1>0, <1>8 DEF DbRaise, Handler, Guarded, Label, InRunner, db, TypeInv, TypeOK
  <2> QED
    BY <1>0, <2>1 DEF InRunner, RunPhase, AgentEvent, Tool, DatabaseTool, CodeTool
<1>9. ASSUME NEW force, NEW n, RunRequest(w, force, n)
      PROVE  OwnOKOf(w)'
  <2>1. pc'[w] \in {"run_agent", "merge_options"}
    BY <1>0, <1>9 DEF RunRequest, TypeInv, TypeOK
  <2> QED
    BY <2>1 DEF InRunner, RunPhase, AgentEvent, Tool, DatabaseTool, CodeTool
<1> QED
  BY <1>1, <1>2, <1>3, <1>4, <1>5, <1>6, <1>7, <1>8, <1>9 DEF Work, RunnerStep

(* Who takes a step.                                                       *)
LEMMA NextActor ==
    ASSUME Next
    PROVE  \E w \in Process :
              \/ Work(w) \/ Cancel(w) \/ CancelRequest(w)
              \/ DbRaise(w) \/ RequestFails(w) \/ Crash(w)
              \/ \E force \in ForceValues, n \in RerunMaxSteps : RunRequest(w, force, n)
  BY DEF Next

LEMMA RowKept ==
    ASSUME NEW w \in Process,
           \/ CancelRequest(w) \/ DbRaise(w) \/ RequestFails(w) \/ Crash(w)
           \/ \E force \in ForceValues, n \in RerunMaxSteps : RunRequest(w, force, n)
    PROVE  row' = row
  BY DEF CancelRequest, DbRaise, RequestFails, Crash, RunRequest, db

LEMMA OwnNext == StatusInv /\ [Next]_vars => OwnOK'
<1> SUFFICES ASSUME StatusInv, [Next]_vars PROVE OwnOK'
  OBVIOUS
<1>1. CASE UNCHANGED vars
  BY <1>1 DEF vars, db, StatusInv, OwnOK
<1>2. CASE Next
  <2>1. PICK w \in Process :
            \/ Work(w) \/ Cancel(w) \/ CancelRequest(w)
            \/ DbRaise(w) \/ RequestFails(w) \/ Crash(w)
            \/ \E force \in ForceValues, n \in RerunMaxSteps : RunRequest(w, force, n)
    BY <1>2, NextActor
  <2>2. OwnOKOf(w)'
    BY <2>1, OwnStep
  <2>3. row.started => row'.started
    BY <2>1, WorkRowStep, StartedStays, RowKept DEF StatusInv
  <2>4. ASSUME NEW p \in Process \ {w} PROVE OwnOKOf(p)'
    BY <2>1, <2>3, OthersUnmoved DEF StatusInv, OwnOK, OwnOKOf, Others
  <2>5. \A p \in Process : OwnOKOf(p)'
    BY <2>2, <2>4
  <2> QED
    BY <2>5 DEF OwnOK, OwnOKOf
<1> QED
  BY <1>1, <1>2

-----------------------------------------------------------------------------
(* RunningHasRun: a step that takes w out of its obligation to end the run *)
(* sets another status, and a step that sets "running" takes it on.        *)
LEMMA RunningStep ==
    ASSUME StatusInv, NEW w \in Process, row'.status = "running",
           \/ Work(w) \/ Cancel(w) \/ CancelRequest(w)
           \/ DbRaise(w) \/ RequestFails(w) \/ Crash(w)
           \/ \E force \in ForceValues, n \in RerunMaxSteps : RunRequest(w, force, n)
    PROVE  \/ HasToEndRun(w)'
           \/ ~HasToEndRun(w) /\ row.status = "running"
           \/ orphaned'
<1> USE DEF HasToEndRun, Goto
<1>0. TypeInv
  BY DEF StatusInv
<1>1. CASE FetchRow(w)
  <2>1. pc'[w] = pc[w] /\ row' = row
    BY <1>1 DEF FetchRow, db
  <2>2. pc[w] = "service_except" => ~IsFinished(tmp'[w])
    BY <1>0, <1>1, <2>1 DEF FetchRow, TypeInv, TypeOK, IsFinished, FinishedStatus
  <2> QED
    BY <2>1, <2>2, <1>1 DEF FetchRow
<1>2. CASE Graph(w)
  <2>1. CASE SaveAnswer(w)
    BY <1>0, <2>1, RowEffects
  <2>2. CASE StaysInRun(w)
    BY <2>2 DEF StaysInRun, SameStatus, RunPhase, AgentEvent, Tool, DatabaseTool,
                CodeTool
  <2> QED
    BY <1>0, <1>2, <2>1, <2>2, GraphEffect
<1>3. CASE RunnerFail(w) \/ Cancel(w) \/ (ServiceExcept(w) /\ ~IsFinished(tmp[w]))
  BY <1>0, <1>3, RowEffects DEF Fails
<1>4. CASE RunnerMarkRunning(w)
  BY <1>0, <1>4
  DEF RunnerMarkRunning, RunPhase, AgentEvent, TypeInv, TypeOK
<1>5. CASE \/ RunnerFailed(w) \/ RunnerGet(w) \/ RunnerRefresh(w)
           \/ RunnerSaveTotals(w) \/ MergeOptions(w) \/ ServiceReturn(w)
           \/ (ServiceExcept(w) /\ IsFinished(tmp[w])) \/ CancelRequest(w)
  <2>1. ~HasToEndRun(w)
    BY <1>5 DEF RunnerFailed, EmitEvent, RunnerGet, RunnerRefresh, RunnerSaveTotals,
       MergeOptions, ServiceReturn, ServiceExcept, CancelRequest, RunPhase, AgentEvent,
       Tool, DatabaseTool, CodeTool
  <2>2. CASE RunnerFailed(w)
    BY <1>0, <2>1, <2>2 DEF RunnerFailed, EmitEvent, NextStep, TypeInv, TypeOK, Row
  <2>3. CASE RunnerSaveTotals(w) \/ MergeOptions(w) \/ (ServiceExcept(w) /\ IsFinished(tmp[w]))
    BY <1>0, <2>1, <2>3, RowEffects DEF SameStatus
  <2>4. CASE RunnerGet(w) \/ RunnerRefresh(w) \/ ServiceReturn(w) \/ CancelRequest(w)
    BY <2>1, <2>4 DEF RunnerGet, RunnerRefresh, ServiceReturn, CancelRequest, db
  <2> QED
    BY <1>5, <2>2, <2>3, <2>4
<1>6. CASE DbRaise(w)
  <2>1. row' = row
    BY <1>6, RowKept
  <2>2. pc[w] \in RunPhase => pc'[w] \in RunPhase \cup {"service_except"}
    BY <1>0, <1>6 DEF DbRaise, Handler, RunPhase, AgentEvent, TypeInv, TypeOK
  <2>3. ~loaded'[w] /\ pc[w] # "service_except"
    BY <1>0, <1>6 DEF DbRaise, Forget, Guarded, TypeInv, TypeOK
  <2> QED
    BY <2>1, <2>2, <2>3
<1>7. CASE RequestFails(w) \/ Crash(w)
  BY <1>7, RowKept DEF RequestFails, Crash, Orphan
<1>8. ASSUME NEW force \in ForceValues, NEW n \in RerunMaxSteps, RunRequest(w, force, n)
      PROVE  ~HasToEndRun(w) /\ row' = row
  BY <1>8, RowKept
  DEF RunRequest, RunPhase, AgentEvent, Tool, DatabaseTool, CodeTool
<1> QED
  BY <1>1, <1>2, <1>3, <1>4, <1>5, <1>6, <1>7, <1>8 DEF Work, RunnerStep

LEMMA OrphanedStays ==
    ASSUME TypeInv, [Next]_vars, orphaned
    PROVE  orphaned'
<1>1. ASSUME NEW w \in Process, Work(w) PROVE orphaned'
  BY <1>1 DEF Work, FetchRow, Graph, RunnerStep, RunnerFailed, MergeOptions,
     ServiceReturn, ServiceExcept, observer
<1>2. ASSUME NEW w \in Process,
             CancelRequest(w) \/ Cancel(w) \/ DbRaise(w) \/ RequestFails(w) \/ Crash(w)
      PROVE  orphaned'
  BY <1>2 DEF CancelRequest, Cancel, DbRaise, RequestFails, Crash, Orphan, observer
<1>3. ASSUME NEW w, NEW force, NEW n, RunRequest(w, force, n) PROVE orphaned'
  BY <1>3 DEF RunRequest, observer
<1> QED
  BY <1>1, <1>2, <1>3 DEF Next, vars, observer

LEMMA RunningNext == StatusInv /\ [Next]_vars => RunningHasRun'
<1> SUFFICES ASSUME StatusInv, [Next]_vars, row'.status = "running", ~orphaned'
             PROVE  \E w \in Process : HasToEndRun(w)'
  BY DEF RunningHasRun
<1>1. ~orphaned
  BY OrphanedStays DEF StatusInv
<1>2. CASE UNCHANGED vars
  BY <1>1, <1>2 DEF vars, db, StatusInv, RunningHasRun, HasToEndRun
<1>3. CASE Next
  <2>1. PICK w \in Process :
            \/ Work(w) \/ Cancel(w) \/ CancelRequest(w)
            \/ DbRaise(w) \/ RequestFails(w) \/ Crash(w)
            \/ \E force \in ForceValues, n \in RerunMaxSteps : RunRequest(w, force, n)
    BY <1>3, NextActor
  <2>2. CASE HasToEndRun(w)'
    BY <2>2
  <2>3. CASE ~HasToEndRun(w) /\ row.status = "running"
    <3>1. PICK p \in Process : HasToEndRun(p)
      BY <1>1, <2>3 DEF StatusInv, RunningHasRun
    <3>2. p # w
      BY <2>3, <3>1
    <3>3. HasToEndRun(p)'
      BY <2>1, <3>1, <3>2, OthersUnmoved DEF StatusInv, Others, HasToEndRun
    <3> QED
      BY <3>3
  <2> QED
    BY <2>1, <2>2, <2>3, RunningStep
<1> QED
  BY <1>2, <1>3

LEMMA StatusNext == StatusInv /\ [Next]_vars => StatusInv'
  BY TypeNext, ConsistentNext, OwnNext, RunningNext DEF StatusInv

LEMMA StatusInvariant == Spec => []StatusInv
  BY StatusInit, StatusNext, PTL DEF Spec

(* No interleaving of runs, cancels, raised database errors and early      *)
(* returns leaves a session "running" without a process that will end its  *)
(* run; only a killed worker, or a database error in the service's last    *)
(* except clause, can.                                                     *)
THEOREM RunningAlwaysHasRun == Spec => []RunningHasRun
<1>1. StatusInv => RunningHasRun
  BY DEF StatusInv
<1> QED
  BY <1>1, StatusInvariant, PTL

(* The status and the columns that explain it never come apart, whichever  *)
(* old instances are saved over the row.                                   *)
THEOREM RowAlwaysConsistent == Spec => []ConsistentRow
<1>1. StatusInv => ConsistentRow
  BY DEF StatusInv
<1> QED
  BY <1>1, StatusInvariant, PTL

(* No save of an old instance brings a session back to "pending": a run    *)
(* that was fetched while the row was pending has overwritten the status   *)
(* before it saves the whole instance.                                     *)
THEOREM PendingIsLeftForGood == Spec => NeverPendingAgain
<1>1. StatusInv /\ [Next]_vars => [row.status # "pending" => row'.status # "pending"]_vars
  <2> SUFFICES ASSUME StatusInv, Next, row.status # "pending"
               PROVE  row'.status # "pending"
    OBVIOUS
  <2>1. PICK w \in Process :
            \/ Work(w) \/ Cancel(w) \/ CancelRequest(w)
            \/ DbRaise(w) \/ RequestFails(w) \/ Crash(w)
            \/ \E force \in ForceValues, n \in RerunMaxSteps : RunRequest(w, force, n)
    BY NextActor
  <2>2. ASSUME RowStep(w) PROVE row'.status # "pending"
    BY <2>2, RowEffects DEF RowStep, SameStatus, Fails, StatusInv, OwnOK
  <2> QED
    BY <2>1, <2>2, WorkRowStep, RowKept DEF StatusInv
<1> QED
  BY <1>1, StatusInvariant, PTL DEF Spec, NeverPendingAgain

-----------------------------------------------------------------------------
(* Refinement: every step is a step of SessionLifecycle, or none.          *)
ThePhase == [p \in Process |-> PhaseOf(p)]

PhaseTable(w) ==
    /\ pc[w] = "idle" => PhaseOf(w) = "idle"
    /\ pc[w] = "cancel" => PhaseOf(w) = "cancelling"
    /\ pc[w] \in {"merge_options", "run_agent", "mark_running"} =>
          PhaseOf(w) = "admitted"
    /\ pc[w] \in RunPhase \ {"except"} => PhaseOf(w) = "working"
    /\ pc[w] = "except" => PhaseOf(w) = "failing"
    /\ pc[w] = "service_except" =>
          PhaseOf(w) = IF loaded[w] /\ IsFinished(tmp[w]) THEN "closing"
                                                         ELSE "failing"
    /\ pc[w] \in {"session_completed", "runner_refresh", "runner_totals",
                  "session_failed", "service_refresh"} =>
          PhaseOf(w) = "closing"

LEMMA PhaseValues ==
    ASSUME NEW w \in Process
    PROVE  PhaseTable(w) /\ PhaseTable(w)'
  BY DEF PhaseTable, PhaseOf, HasToEndRun, RunPhase, AgentEvent, Tool,
         DatabaseTool, CodeTool

LEMMA PhaseMoves ==
    ASSUME NEW w \in Process, Others(w)
    PROVE  ThePhase' = [ThePhase EXCEPT ![w] = PhaseOf(w)']
<1>1. ASSUME NEW p \in Process \ {w} PROVE PhaseOf(p)' = PhaseOf(p)
  BY <1>1 DEF Others, PhaseOf, HasToEndRun
<1> QED
  BY <1>1 DEF ThePhase

LifecycleStutter == row'.status = row.status /\ ThePhase' = ThePhase

(* From which statement to which the steps that move a phase take w.       *)
LEMMA PcMoves ==
    ASSUME TypeInv, NEW w \in Process
    PROVE  /\ SaveAnswer(w) => pc[w] = "answer_save" /\ pc'[w] = "session_completed"
           /\ RunnerMarkRunning(w) => pc[w] = "mark_running" /\ pc'[w] = "agent_started"
           /\ RunnerFail(w) => pc[w] = "except" /\ pc'[w] = "session_failed"
           /\ ServiceExcept(w) => /\ pc[w] = "service_except" /\ pc'[w] = "idle"
                                  /\ loaded[w]
           /\ ServiceReturn(w) => pc[w] = "service_refresh" /\ pc'[w] = "idle"
           /\ RunnerFailed(w) => pc[w] = "session_failed" /\ pc'[w] = "service_refresh"
           /\ RunnerGet(w) => pc[w] = "run_agent" /\ pc'[w] = "mark_running"
           /\ RunnerRefresh(w) => pc[w] = "runner_refresh" /\ pc'[w] = "runner_totals"
           /\ RunnerSaveTotals(w) => pc[w] = "runner_totals" /\ pc'[w] = "service_refresh"
           /\ MergeOptions(w) => pc[w] = "merge_options" /\ pc'[w] = "run_agent"
           /\ Cancel(w) => pc[w] = "cancel" /\ pc'[w] = "idle"
           /\ CancelRequest(w) => pc[w] = "idle" /\ pc'[w] = "cancel"
<1> USE DEF Goto, Return, TypeInv, TypeOK
<1>1. /\ SaveAnswer(w) => pc[w] = "answer_save" /\ pc'[w] = "session_completed"
      /\ RunnerMarkRunning(w) => pc[w] = "mark_running" /\ pc'[w] = "agent_started"
      /\ RunnerFail(w) => pc[w] = "except" /\ pc'[w] = "session_failed"
  BY DEF SaveAnswer, RunnerMarkRunning, RunnerFail
<1>2. /\ ServiceExcept(w) => /\ pc[w] = "service_except" /\ pc'[w] = "idle"
                             /\ loaded[w]
      /\ ServiceReturn(w) => pc[w] = "service_refresh" /\ pc'[w] = "idle"
      /\ RunnerFailed(w) => pc[w] = "session_failed" /\ pc'[w] = "service_refresh"
  BY DEF ServiceExcept, ServiceReturn, RunnerFailed, EmitEvent
<1>3. /\ RunnerGet(w) => pc[w] = "run_agent" /\ pc'[w] = "mark_running"
      /\ RunnerRefresh(w) => pc[w] = "runner_refresh" /\ pc'[w] = "runner_totals"
      /\ RunnerSaveTotals(w) => pc[w] = "runner_totals" /\ pc'[w] = "service_refresh"
      /\ MergeOptions(w) => pc[w] = "merge_options" /\ pc'[w] = "run_agent"
  BY DEF RunnerGet, RunnerRefresh, RunnerSaveTotals, MergeOptions
<1>4. /\ Cancel(w) => pc[w] = "cancel" /\ pc'[w] = "idle"
      /\ CancelRequest(w) => pc[w] = "idle" /\ pc'[w] = "cancel"
  BY DEF Cancel, CancelRequest
<1> QED
  BY <1>1, <1>2, <1>3, <1>4

LEMMA LifecycleMove ==
    ASSUME NEW w \in Process, Others(w), NEW from, PhaseOf(w) \in from
    PROVE  Lifecycle!Move(w, from, PhaseOf(w)')
  BY PhaseMoves DEF Lifecycle!Move, ThePhase

LEMMA LifecycleStays ==
    ASSUME NEW w \in Process, Others(w), PhaseOf(w)' = PhaseOf(w),
           row'.status = row.status
    PROVE  LifecycleStutter
  BY PhaseMoves DEF LifecycleStutter, ThePhase

LEMMA LifecycleStep ==
    ASSUME StatusInv, NEW w \in Process,
           \/ Work(w) \/ (w \in Canceller /\ (Cancel(w) \/ CancelRequest(w)))
           \/ DbRaise(w) \/ RequestFails(w) \/ Crash(w)
           \/ \E force \in ForceValues, n \in RerunMaxSteps : RunRequest(w, force, n)
    PROVE  Lifecycle!Next \/ LifecycleStutter
<1> USE DEF Goto
<1>0. /\ TypeInv /\ Others(w)
      /\ PhaseTable(w) /\ PhaseTable(w)'
  BY OthersUnmoved, PhaseValues DEF StatusInv
<1>1. CASE FetchRow(w)
  <2>1. pc' = pc /\ row' = row /\ tmp'[w] \in {row, Recounted(row, tools, findings)}
        /\ (pc[w] = "service_except" => tmp'[w] = row) /\ ~loaded[w] /\ loaded'[w]
    BY <1>0, <1>1 DEF FetchRow, db, TypeInv, TypeOK
  <2>2. CASE pc[w] = "service_except" /\ IsFinished(row)
    <3>1. PhaseOf(w) = "failing" /\ PhaseOf(w)' = "closing"
      BY <1>0, <2>1, <2>2 DEF PhaseTable, IsFinished
    <3>2. Lifecycle!Excuse(w)
      BY <1>0, <2>1, <2>2, <3>1, LifecycleMove
      DEF Lifecycle!Excuse, Lifecycle!Finished, IsFinished, FinishedStatus
    <3> QED
      BY <3>2 DEF Lifecycle!Next
  <2>3. CASE ~(pc[w] = "service_except" /\ IsFinished(row))
    <3>1. PhaseOf(w)' = PhaseOf(w)
      BY <2>1, <2>3 DEF PhaseOf, HasToEndRun, RunPhase, AgentEvent, Tool,
                        DatabaseTool, CodeTool, IsFinished
    <3> QED
      BY <1>0, <2>1, <3>1, LifecycleStays
  <2> QED
    BY <2>2, <2>3
<1>2. CASE Graph(w)
  <2>1. CASE SaveAnswer(w)
    <3>1. pc[w] = "answer_save" /\ pc'[w] = "session_completed"
      BY <1>0, <2>1, PcMoves
    <3>2. PhaseOf(w) = "working" /\ PhaseOf(w)' = "closing"
      BY <1>0, <3>1 DEF PhaseTable, RunPhase
    <3>3. row'.status = "completed"
      BY <1>0, <2>1, RowEffects
    <3>4. Lifecycle!Complete(w)
      BY <1>0, <3>2, <3>3, LifecycleMove DEF Lifecycle!Complete
    <3> QED
      BY <3>4 DEF Lifecycle!Next
  <2>2. CASE StaysInRun(w)
    <3>1. CASE pc[w] = "session_completed" /\ pc'[w] = "runner_refresh"
      <4>1. PhaseOf(w)' = PhaseOf(w)
        BY <1>0, <3>1 DEF PhaseTable
      <4> QED
        BY <1>0, <2>2, <4>1, LifecycleStays DEF StaysInRun, SameStatus
    <3>2. CASE pc[w] \in RunPhase \ {"except"} /\ pc'[w] \in RunPhase \ {"except"}
      <4>1. PhaseOf(w)' = PhaseOf(w)
        BY <1>0, <3>2 DEF PhaseTable
      <4> QED
        BY <1>0, <2>2, <4>1, LifecycleStays DEF StaysInRun, SameStatus
    <3>3. CASE pc[w] \in RunPhase \ {"except"} /\ pc'[w] = "except"
      <4>1. PhaseOf(w) = "working" /\ PhaseOf(w)' = "failing"
        BY <1>0, <3>3 DEF PhaseTable
      <4>2. Lifecycle!Raise(w)
        BY <1>0, <2>2, <4>1, LifecycleMove
        DEF Lifecycle!Raise, StaysInRun, SameStatus
      <4> QED
        BY <4>2 DEF Lifecycle!Next
    <3> QED
      BY <2>2, <3>1, <3>2, <3>3 DEF StaysInRun
  <2> QED
    BY <1>0, <1>2, <2>1, <2>2, GraphEffect
<1>3. CASE RunnerMarkRunning(w)
  <2>0. pc[w] = "mark_running" /\ pc'[w] = "agent_started"
    BY <1>0, <1>3, PcMoves
  <2>1. row'.status = "running"
    BY <1>3, <2>0 DEF RunnerMarkRunning, StatusInv, OwnOK
  <2>2. PhaseOf(w) = "admitted" /\ PhaseOf(w)' = "working"
    BY <1>0, <2>0 DEF PhaseTable, RunPhase, AgentEvent
  <2>3. Lifecycle!Begin(w)
    BY <1>0, <2>1, <2>2, LifecycleMove DEF Lifecycle!Begin
  <2> QED
    BY <2>3 DEF Lifecycle!Next
<1>4. CASE RunnerFail(w) \/ (ServiceExcept(w) /\ ~IsFinished(tmp[w]))
  <2>1. PhaseOf(w) = "failing" /\ PhaseOf(w)' \in {"closing", "idle"}
    BY <1>0, <1>4, PcMoves DEF PhaseTable
  <2>2. row'.status = "failed"
    BY <1>0, <1>4, RowEffects DEF Fails
  <2>3. Lifecycle!Fail(w)
    BY <1>0, <2>1, <2>2, LifecycleMove DEF Lifecycle!Fail
  <2> QED
    BY <2>3 DEF Lifecycle!Next
<1>5. CASE ServiceReturn(w) \/ (ServiceExcept(w) /\ IsFinished(tmp[w]))
  <2>1. PhaseOf(w) = "closing" /\ PhaseOf(w)' = "idle"
    BY <1>0, <1>5, PcMoves DEF PhaseTable
  <2>2. row' = row
    BY <1>0, <1>5, RowEffects DEF ServiceReturn
  <2>3. Lifecycle!Return(w)
    BY <1>0, <2>1, <2>2, LifecycleMove DEF Lifecycle!Return
  <2> QED
    BY <2>3 DEF Lifecycle!Next
<1>6. CASE RunnerFailed(w) \/ RunnerGet(w) \/ RunnerRefresh(w) \/ RunnerSaveTotals(w)
           \/ MergeOptions(w)
  <2>1. PhaseOf(w)' = PhaseOf(w)
    BY <1>0, <1>6, PcMoves DEF PhaseTable
  <2>2. row'.status = row.status
    <3>1. CASE RunnerFailed(w)
      BY <1>0, <3>1 DEF RunnerFailed, EmitEvent, NextStep, TypeInv, TypeOK, Row
    <3>2. CASE RunnerGet(w) \/ RunnerRefresh(w)
      BY <3>2 DEF RunnerGet, RunnerRefresh
    <3>3. CASE RunnerSaveTotals(w) \/ MergeOptions(w)
      BY <1>0, <3>3, RowEffects DEF SameStatus
    <3> QED
      BY <1>6, <3>1, <3>2, <3>3
  <2> QED
    BY <1>0, <2>1, <2>2, LifecycleStays
<1>7. CASE Cancel(w) \/ CancelRequest(w)
  <2>1. CASE Cancel(w)
    <3>1. PhaseOf(w) = "cancelling" /\ PhaseOf(w)' = "idle"
      BY <1>0, <2>1, PcMoves DEF PhaseTable
    <3>2. row'.status = "cancelled"
      BY <1>0, <2>1, RowEffects
    <3>3. Lifecycle!Cancel(w)
      BY <1>0, <3>1, <3>2, LifecycleMove DEF Lifecycle!Cancel
    <3> QED
      BY <3>3 DEF Lifecycle!Next
  <2>2. CASE CancelRequest(w)
    <3>1. PhaseOf(w) = "idle" /\ PhaseOf(w)' = "cancelling"
      BY <1>0, <2>2, PcMoves DEF PhaseTable
    <3>2. Lifecycle!AdmitCancel(w)
      BY <1>0, <2>2, <3>1, RowKept, LifecycleMove
      DEF Lifecycle!AdmitCancel, Lifecycle!Finished, CancelRequest, IsFinished,
          FinishedStatus
    <3> QED
      BY <3>2 DEF Lifecycle!Next
  <2> QED
    BY <1>7, <2>1, <2>2
<1>8. CASE DbRaise(w)
  <2>1. row' = row
    BY <1>8, RowKept
  <2>2. /\ pc'[w] = Handler(pc[w]) /\ ~loaded'[w]
        /\ pc[w] \in Guarded
    BY <1>0, <1>8 DEF DbRaise, Forget, TypeInv, TypeOK
  <2>3. CASE Handler(pc[w]) \in {"log_tool_call", "planning_warning", "llm_fallback"}
    <3>1. PhaseOf(w) = "working" /\ PhaseOf(w)' = "working"
      BY <1>0, <2>2, <2>3 DEF PhaseTable, Handler, RunPhase, AgentEvent
    <3> QED
      BY <1>0, <2>1, <3>1, LifecycleStays
  <2>4. CASE pc[w] = "except"
    <3>1. PhaseOf(w) = "failing" /\ PhaseOf(w)' = "failing"
      BY <1>0, <2>2, <2>4 DEF PhaseTable, Handler
    <3> QED
      BY <1>0, <2>1, <3>1, LifecycleStays
  <2>5. CASE pc[w] # "except" /\ Handler(pc[w]) \in {"service_except", "except"}
    <3>1. PhaseOf(w) \in {"admitted", "working", "closing"}
      BY <1>0, <2>2, <2>5 DEF PhaseTable, Guarded, Label
    <3>2. PhaseOf(w)' = "failing"
      BY <1>0, <2>2, <2>5 DEF PhaseTable
    <3>3. Lifecycle!Raise(w)
      BY <1>0, <2>1, <3>1, <3>2, LifecycleMove DEF Lifecycle!Raise
    <3> QED
      BY <3>3 DEF Lifecycle!Next
  <2> QED
    BY <2>3, <2>4, <2>5 DEF Handler
<1>9. CASE RequestFails(w) \/ Crash(w)
  <2>1. row' = row /\ PhaseOf(w)' = "idle"
    BY <1>0, <1>9, RowKept
    DEF PhaseTable, RequestFails, Crash, Return, TypeInv, TypeOK
  <2>2. PhaseOf(w) \in Lifecycle!Phase \ {"idle"}
    <3>1. pc[w] \in Label \ {"idle"}
      BY <1>0, <1>9 DEF RequestFails, Crash, TypeInv, TypeOK
    <3>2. PhaseOf(w) \in {"admitted", "working", "failing", "closing", "cancelling"}
      BY <1>0, <3>1 DEF PhaseTable, Label
    <3> QED
      BY <3>2 DEF Lifecycle!Phase
  <2>3. DbMayFail \/ MaxCrashes > 0
    BY <1>0, <1>9, CapAssumption DEF RequestFails, Crash, TypeInv, TypeOK
  <2>4. Lifecycle!Vanish(w)
    BY <1>0, <2>1, <2>2, <2>3, LifecycleMove DEF Lifecycle!Vanish
  <2> QED
    BY <2>4 DEF Lifecycle!Next
<1>10. ASSUME NEW force \in ForceValues, NEW n \in RerunMaxSteps, RunRequest(w, force, n)
       PROVE  Lifecycle!Next
  <2>1. row' = row /\ PhaseOf(w) = "idle" /\ PhaseOf(w)' = "admitted"
    BY <1>0, <1>10, RowKept DEF PhaseTable, RunRequest, TypeInv, TypeOK
  <2>2. Lifecycle!Admissible
    BY <1>10, ChoiceAssumption DEF RunRequest, Lifecycle!Admissible,
       Lifecycle!Finished, IsFinished, FinishedStatus
  <2>3. Lifecycle!Admit(w)
    BY <1>0, <2>1, <2>2, LifecycleMove DEF Lifecycle!Admit
  <2> QED
    BY <2>3 DEF Lifecycle!Next
<1> QED
  BY <1>1, <1>2, <1>3, <1>4, <1>5, <1>6, <1>7, <1>8, <1>9, <1>10 DEF Work, RunnerStep

LEMMA LifecycleInit == Init => row.status = "pending" /\ \A w \in Process : PhaseOf(w) = "idle"
<1> SUFFICES ASSUME Init
             PROVE  row.status = "pending" /\ \A w \in Process : PhaseOf(w) = "idle"
  OBVIOUS
<1>1. row.status = "pending"
  <2>1. PICK m \in CreateMaxSteps : row = NewRow(m)
    BY DEF Init
  <2>2. NewRow(m).status = "pending"
    BY DEF NewRow
  <2> QED
    BY <2>1, <2>2
<1>2. ASSUME NEW w \in Process PROVE PhaseOf(w) = "idle"
  <2>1. pc[w] = "idle"
    BY DEF Init
  <2> QED
    BY <2>1, PhaseValues DEF PhaseTable
<1> QED
  BY <1>1, <1>2

(* The interleaved requests implement the lifecycle: only a request in     *)
(* flight changes the status, it gets in flight only for an unfinished     *)
(* session or by force, and one that set "running" is not answered before  *)
(* its run has an end.                                                     *)
THEOREM Implements == Spec => ImplementsLifecycle
<1>1. Init => Lifecycle!Init
  BY LifecycleInit DEF Lifecycle!Init
<1>2. StatusInv /\ [Next]_vars
        => [Lifecycle!Next]_<<row.status, [w \in Process |-> PhaseOf(w)]>>
  <2> SUFFICES ASSUME StatusInv, [Next]_vars
               PROVE  Lifecycle!Next \/ LifecycleStutter
    BY DEF LifecycleStutter, ThePhase
  <2>1. CASE UNCHANGED vars
    <3>1. row' = row /\ pc' = pc /\ loaded' = loaded /\ tmp' = tmp
      BY <2>1 DEF vars, db
    <3>2. ASSUME NEW p \in Process PROVE PhaseOf(p)' = PhaseOf(p)
      BY <3>1 DEF PhaseOf, HasToEndRun
    <3> QED
      BY <3>1, <3>2 DEF LifecycleStutter, ThePhase
  <2>2. CASE Next
    <3>1. PICK w \in Process :
              \/ Work(w) \/ (w \in Canceller /\ (Cancel(w) \/ CancelRequest(w)))
              \/ DbRaise(w) \/ RequestFails(w) \/ Crash(w)
              \/ \E force \in ForceValues, n \in RerunMaxSteps : RunRequest(w, force, n)
      BY <2>2 DEF Next
    <3> QED
      BY <3>1, LifecycleStep
  <2> QED
    BY <2>1, <2>2
<1> QED
  BY <1>1, <1>2, StatusInvariant, PTL DEF Spec, ImplementsLifecycle, Lifecycle!Spec
=============================================================================
