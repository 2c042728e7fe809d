---------------------------- MODULE SessionRow ----------------------------
(***************************************************************************)
(* The row of a research session in the database, and the assignments that *)
(* apps/research/models.py groups into methods.  A row is a record value:  *)
(* a Django model instance is such a record in a process's memory, and the *)
(* table holds the one everybody shares.  save(update_fields=...) copies   *)
(* some fields of the instance to the table, save() copies all of them.    *)
(***************************************************************************)
EXTENDS Integers, FiniteSets

CONSTANTS
    MaxRuns,     \* bound: runs requested for the session
    MaxMatches   \* bound: matches a run reads and saves a finding for

ASSUME BoundsAssumption == MaxRuns \in Nat /\ MaxMatches \in Nat

Status == {"pending", "running", "completed", "failed", "cancelled"}
FinishedStatus == {"completed", "failed", "cancelled"}

(* A finding is named by the run that saved it and its place in that run.  *)
Finding == (1..MaxRuns) \X (1..MaxMatches)

(* final_answer is the number of the run that wrote it, 0 if none has;     *)
(* answer_references are the findings it cites; error_message is who wrote *)
(* it; tokens counts answered model calls.  started and closed say that    *)
(* started_at and completed_at are set.                                    *)
Row == [ status    : Status,
         started   : BOOLEAN,
         closed    : BOOLEAN,
         error     : {"", "failed", "cancelled"},
         answer    : 0..MaxRuns,
         refs      : SUBSET Finding,
         step      : Nat,
         maxSteps  : Nat,
         tokens    : Nat,
         toolTotal : Nat,
         findTotal : Nat ]

(* ResearchSession.objects.create of ResearchService.create_session.       *)
NewRow(maxSteps) ==
    [ status    |-> "pending", started   |-> FALSE, closed    |-> FALSE,
      error     |-> "",        answer    |-> 0,     refs      |-> {},
      step      |-> 0,         maxSteps  |-> maxSteps,
      tokens    |-> 0,         toolTotal |-> 0,     findTotal |-> 0 ]

(* What a process's snapshot holds while it keeps none.                    *)
NoRow == NewRow(0)

IsFinished(r) == r.status \in FinishedStatus

(* Faults of the assignments below, which the properties must notice.      *)
RunningClearsAnswer(r) ==
    [r EXCEPT !.status = "running", !.started = TRUE, !.error = "", !.answer = 0]
NotRecounted(r, tools, findings) == r
CompletedKeepsError(r, answer, refs) ==
    [r EXCEPT !.status = "completed", !.closed = TRUE,
              !.answer = answer, !.refs = refs]
CompletedKeepsRefs(r, answer, refs) ==
    [r EXCEPT !.status = "completed", !.closed = TRUE, !.error = "",
              !.answer = answer]
EndedKeepsStatus(r, status) == [r EXCEPT !.closed = TRUE, !.error = status]

(* The assignments of AgentRunner.run before its first save.               *)
Running(r) == [r EXCEPT !.status = "running", !.started = TRUE, !.error = ""]

(* The recount of tool calls and findings, done wherever totals are set.   *)
Recounted(r, tools, findings) ==
    [r EXCEPT !.toolTotal = tools, !.findTotal = Cardinality(findings)]

(* The assignments of answer_writer_node before its save.                  *)
Completed(r, answer, refs) ==
    [r EXCEPT !.status = "completed", !.closed = TRUE, !.error = "",
              !.answer = answer, !.refs = refs]

(* The three columns that mark_failed, mark_cancelled and the runner's     *)
(* except clause write together.                                           *)
Ended(r, status) ==
    [r EXCEPT !.status = status, !.closed = TRUE, !.error = status]

(* Totals and columns of a save(update_fields=...): the table's row r gets *)
(* the instance's columns and keeps the rest.                              *)
WithTotals(r, from) ==
    [r EXCEPT !.toolTotal = from.toolTotal, !.findTotal = from.findTotal]
===========================================================================
