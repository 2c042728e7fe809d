-------------------------- MODULE SessionLifecycle --------------------------
(***************************************************************************)
(* What the service promises about a session's status: only a request that *)
(* is in flight changes it, a run request gets in flight only while the    *)
(* session is unfinished (or by force), a run sets "running", and a        *)
(* process that has done so does not finish before the run has an end.     *)
(***************************************************************************)
CONSTANTS
    Process,    \* the processes that serve requests
    AllowForce, \* may requests force a finished session to run again?
    MayVanish   \* may a process disappear in the middle of a request?

VARIABLES status, phase

Finished == {"completed", "failed", "cancelled"}

Phase == {"idle", "admitted", "working", "failing", "closing", "cancelling"}

Init == status = "pending" /\ phase = [p \in Process |-> "idle"]

Move(p, from, to) == phase[p] \in from /\ phase' = [phase EXCEPT ![p] = to]

Admissible == AllowForce \/ status \notin Finished

(* A run request is accepted; later its run starts.                        *)
Admit(p) == Admissible /\ Move(p, {"idle"}, "admitted") /\ UNCHANGED status
Begin(p) == Move(p, {"admitted"}, "working") /\ status' = "running"

(* The run ends with an answer.                                            *)
Complete(p) == Move(p, {"working"}, "closing") /\ status' = "completed"

(* Something raises; then the failure is recorded, unless the session is   *)
(* seen finished already.                                                  *)
Raise(p) == Move(p, {"admitted", "working", "closing"}, "failing")
            /\ UNCHANGED status
Fail(p) == /\ \E to \in {"closing", "idle"} : Move(p, {"failing"}, to)
           /\ status' = "failed"
Excuse(p) == status \in Finished /\ Move(p, {"failing"}, "closing")
             /\ UNCHANGED status

(* Only a request whose run has an end is answered.                        *)
Return(p) == Move(p, {"closing"}, "idle") /\ UNCHANGED status

AdmitCancel(p) == status \notin Finished /\ Move(p, {"idle"}, "cancelling")
                  /\ UNCHANGED status
Cancel(p) == Move(p, {"cancelling"}, "idle") /\ status' = "cancelled"

Vanish(p) == MayVanish /\ Move(p, Phase \ {"idle"}, "idle") /\ UNCHANGED status

Next == \E p \in Process :
    \/ Admit(p) \/ Begin(p) \/ Complete(p) \/ Raise(p) \/ Fail(p) \/ Excuse(p)
    \/ Return(p) \/ AdmitCancel(p) \/ Cancel(p) \/ Vanish(p)

Spec == Init /\ [][Next]_<<status, phase>>

(* Without vanishing processes a running session has somebody at work.     *)
SomebodyWorks ==
    status = "running" =>
        MayVanish \/ \E p \in Process : phase[p] \in {"working", "failing"}
=============================================================================
