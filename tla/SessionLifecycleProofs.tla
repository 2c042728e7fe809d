----------------------- MODULE SessionLifecycleProofs -----------------------
(* What a session's lifecycle promises to somebody who polls its status.   *)
EXTENDS SessionLifecycle, TLAPS

LifecycleInv == phase \in [Process -> Phase] /\ SomebodyWorks

LEMMA LifecycleInvInit == Init => LifecycleInv
  BY DEF Init, LifecycleInv, SomebodyWorks, Phase

LEMMA LifecycleInvNext == LifecycleInv /\ [Next]_<<status, phase>> => LifecycleInv'
<1> SUFFICES ASSUME LifecycleInv, [Next]_<<status, phase>>
             PROVE  LifecycleInv'
  OBVIOUS
<1> USE DEF LifecycleInv, SomebodyWorks
<1>1. CASE UNCHANGED <<status, phase>>
  BY <1>1
<1>2. ASSUME NEW p \in Process,
             \/ Admit(p) \/ Begin(p) \/ Complete(p) \/ Raise(p) \/ Fail(p)
             \/ Excuse(p) \/ Return(p) \/ AdmitCancel(p) \/ Cancel(p) \/ Vanish(p)
      PROVE  LifecycleInv'
  <2>1. CASE Begin(p)
    BY <2>1 DEF Begin, Move, Phase
  <2>2. CASE Complete(p) \/ Fail(p) \/ Cancel(p)
    BY <2>2 DEF Complete, Fail, Cancel, Move, Phase
  <2>3. CASE Excuse(p) \/ Vanish(p)
    BY <2>3 DEF Excuse, Vanish, Move, Finished, Phase
  <2>4. CASE Raise(p)
    BY <2>4 DEF Raise, Move, Phase
  <2>5. CASE Admit(p) \/ AdmitCancel(p) \/ Return(p)
    BY <2>5 DEF Admit, AdmitCancel, Return, Move, Phase
  <2> QED
    BY <1>2, <2>1, <2>2, <2>3, <2>4, <2>5
<1> QED
  BY <1>1, <1>2 DEF Next

(* As long as no process vanishes, a session that says "running" has a     *)
(* request that is running it or recording its failure: whoever polls the  *)
(* status is waiting for somebody.                                         *)
THEOREM RunningIsServed == Spec => []SomebodyWorks
  BY LifecycleInvInit, LifecycleInvNext, PTL DEF Spec, LifecycleInv
=============================================================================
