----------------------- MODULE TimeOutExecutorProofs -----------------------
(***************************************************************************)
(* For any set of calls, with or without spurious wake-ups: the type       *)
(* invariant, SuccessMeansDelivered, NoWriteAfterReturn, that              *)
(* TimeOutExecutor implements TimedCall, and when a call hangs.            *)
(***************************************************************************)
EXTENDS TimeOutExecutor, TLAPS

\* Whose the mutex is follows from where the caller is.  It is what makes the
\* test of is_detach and the write of the result one step.
MutexInv == \A c \in Calls :
    mutex[c] = Caller <=> pc[c] \in {"spawned", "joining"}

\* What a call's worker may have done by the time the caller is where it is.
CallInv == \A c \in Calls :
    /\ worker[c] = "none" <=> pc[c] = "ready"
    /\ status[c] = "none" <=> pc[c] # "returned"
    /\ isDetach[c] <=> status[c] = "TIMEOUT"
    /\ worker[c] = "done" => c \in result \/ isDetach[c]
    /\ c \in result => worker[c] = "done"
    /\ status[c] = "SUCCESS" => c \in result

\* The caller is one thread.
OneCall == \A c, d \in Calls : c \in Executing /\ d \in Executing => c = d

IndInv == TypeOK /\ MutexInv /\ CallInv /\ OneCall

LEMMA BoolUpdate ==
    ASSUME NEW S, NEW f \in [S -> BOOLEAN], NEW c \in S, NEW b \in BOOLEAN
    PROVE  [f EXCEPT ![c] = b] \in [S -> BOOLEAN]
  OBVIOUS

LEMMA InitInd == Init => IndInv
  BY CallsAssumption
  DEF Init, IndInv, TypeOK, MutexInv, CallInv, OneCall, Executing, CallerPCs, WorkerPCs

\* Every step keeps the inductive invariant.
LEMMA StepInd == IndInv /\ [Next]_vars => IndInv'
  <1> SUFFICES ASSUME IndInv, [Next]_vars PROVE IndInv'
      OBVIOUS
  <1> USE CallsAssumption
          DEF IndInv, TypeOK, MutexInv, CallInv, OneCall, Executing, CallerPCs, WorkerPCs
  <1>1. CASE UNCHANGED vars
      BY <1>1 DEF vars
  <1>2. ASSUME NEW c \in Calls, Execute(c) PROVE IndInv'
      BY <1>2 DEF Execute
  <1>3. ASSUME NEW c \in Calls, StartWait(c) PROVE IndInv'
      BY <1>3 DEF StartWait
  <1>4. ASSUME NEW c \in Calls, ReturnTimeout(c) PROVE IndInv'
      BY <1>4 DEF ReturnTimeout
  <1>5. ASSUME NEW c \in Calls, WakeToJoin(c) PROVE IndInv'
      BY <1>5 DEF WakeToJoin
  <1>6. ASSUME NEW c \in Calls, ReturnSuccess(c) PROVE IndInv'
      BY <1>6 DEF ReturnSuccess
  <1>7. ASSUME NEW c \in Calls, PassBarrier(c) PROVE IndInv'
      BY <1>7 DEF PassBarrier
  <1>8. ASSUME NEW c \in Calls, Invoke(c) PROVE IndInv'
      BY <1>8 DEF Invoke
  <1>9. ASSUME NEW c \in Calls, Publish(c) PROVE IndInv'
    <2>1. worker[c] = "publish" /\ worker' = [worker EXCEPT ![c] = "done"]
        BY <1>9 DEF Publish
    <2>2. UNCHANGED <<pc, mutex, isDetach, elapsed, status>>
        BY <1>9 DEF Publish
    <2>3. \/ isDetach[c] /\ result' = result /\ notified' = notified
          \/ /\ ~isDetach[c] /\ result' = result \cup {c}
             /\ notified' = [notified EXCEPT ![c] = (pc[c] = "waiting")]
        BY <1>9 DEF Publish
    <2>4. notified' \in [Calls -> BOOLEAN]
      <3> DEFINE sleeping == (pc[c] = "waiting")
      <3>1. sleeping \in BOOLEAN
          OBVIOUS
      <3>2. notified' = notified \/ notified' = [notified EXCEPT ![c] = sleeping]
          BY <2>3
      <3> HIDE DEF sleeping
      <3> QED
          BY <3>1, <3>2, BoolUpdate
    <2> QED
        BY <2>1, <2>2, <2>3, <2>4
  <1>10. ASSUME NEW c \in Calls, Elapse(c) PROVE IndInv'
      BY <1>10 DEF Elapse
  <1> QED
      BY <1>1, <1>2, <1>3, <1>4, <1>5, <1>6, <1>7, <1>8, <1>9, <1>10
      DEF Next, CallerStep, WorkerStep

LEMMA Inductive == Spec => []IndInv
  BY InitInd, StepInd, PTL DEF Spec

\* Every variable keeps its type.
THEOREM TypeCorrect == Spec => []TypeOK
  BY Inductive, PTL DEF IndInv

\* SUCCESS is returned only with this call's value in the caller's variable.
THEOREM SuccessDelivers == Spec => []SuccessMeansDelivered
  <1>1. IndInv => SuccessMeansDelivered
      BY DEF IndInv, CallInv, SuccessMeansDelivered
  <1> QED
      BY <1>1, Inductive, PTL

\* A worker writes the caller's variable only while its call executes.
LEMMA WriteStep == IndInv /\ [Next]_vars =>
                     (\A c \in Calls : c \in result' \ result => c \in Executing)
  <1> SUFFICES ASSUME IndInv, [Next]_vars, NEW d \in Calls, d \in result' \ result
               PROVE  d \in Executing
      OBVIOUS
  <1>1. Publish(d)
      BY DEF Next, vars, CallerStep, WorkerStep, Execute, StartWait, ReturnTimeout,
             WakeToJoin, ReturnSuccess, PassBarrier, Invoke, Publish, Elapse
  <1>2. ~isDetach[d] /\ worker[d] = "publish"
      BY <1>1 DEF Publish
  <1> QED
      BY <1>2 DEF IndInv, TypeOK, CallInv, Executing, CallerPCs

THEOREM NoLateWrite == Spec => NoWriteAfterReturn
  <1>1. IndInv /\ [Next]_vars =>
          [\A c \in Calls : c \in result' \ result => c \in Executing]_vars
      BY WriteStep
  <1> QED
      BY <1>1, Inductive, PTL DEF Spec, NoWriteAfterReturn

\* A step of Execute or of a worker is a step of TimedCall, or changes nothing
\* TimedCall speaks of.
LEMMA RefineStep == IndInv /\ [Next]_vars => [Abstract!Next]_(Abstract!tcVars)
  <1> SUFFICES ASSUME IndInv, [Next]_vars
               PROVE  Abstract!Next \/ UNCHANGED <<Executing, status, result>>
      BY DEF Abstract!tcVars
  <1> USE DEF IndInv, TypeOK, MutexInv, CallInv, OneCall, Executing, CallerPCs, WorkerPCs
  <1>1. CASE UNCHANGED vars
      BY <1>1 DEF vars
  <1>2. ASSUME NEW c \in Calls, Execute(c) PROVE Abstract!Begin(c)
      BY <1>2 DEF Execute, Abstract!Begin
  <1>3. ASSUME NEW c \in Calls, Publish(c)
        PROVE  Abstract!Deliver(c) \/ UNCHANGED <<Executing, status, result>>
      BY <1>3 DEF Publish, Abstract!Deliver
  <1>4. ASSUME NEW c \in Calls, ReturnSuccess(c) PROVE Abstract!Succeed(c)
    <2>1. c \in Executing /\ c \in result
        BY <1>4 DEF ReturnSuccess
    <2>2. Executing' = {}
        BY <1>4, <2>1 DEF ReturnSuccess
    <2> QED
        BY <1>4, <2>1, <2>2 DEF ReturnSuccess, Abstract!Succeed
  <1>5. ASSUME NEW c \in Calls, ReturnTimeout(c) PROVE Abstract!Expire(c)
    <2>1. c \in Executing
        BY <1>5 DEF ReturnTimeout
    <2>2. Executing' = {}
        BY <1>5, <2>1 DEF ReturnTimeout
    <2> QED
        BY <1>5, <2>1, <2>2 DEF ReturnTimeout, Abstract!Expire
  <1>6. ASSUME NEW c \in Calls,
               \/ StartWait(c)   \/ WakeToJoin(c) \/ Elapse(c)
               \/ PassBarrier(c) \/ Invoke(c)
        PROVE  UNCHANGED <<Executing, status, result>>
      BY <1>6 DEF StartWait, WakeToJoin, Elapse, PassBarrier, Invoke
  <1> QED
      BY <1>1, <1>2, <1>3, <1>4, <1>5, <1>6
      DEF Next, CallerStep, WorkerStep, Abstract!Next

\* Execute keeps the promise TimedCall makes to its caller.
THEOREM Implements == Spec => AbstractSpec
  <1>1. Init => Abstract!Init
      BY DEF Init, Abstract!Init, Executing
  <1> QED
      BY <1>1, RefineStep, Inductive, PTL DEF Spec, AbstractSpec, Abstract!Spec
-----------------------------------------------------------------------------
(* When a call hangs.                                                      *)

\* A notification means a value.  The worker stays at its barrier until the caller
\* sleeps, so the value of a caller that sleeps has been notified.
WakeInv == \A c \in Calls :
    /\ pc[c] = "spawned" => worker[c] = "barrier"
    /\ notified[c] => c \in result
    /\ c \in result /\ pc[c] = "waiting" => notified[c]
    /\ ~SpuriousWakeups /\ pc[c] = "joining" => c \in result

LEMMA InitWake == Init => WakeInv
  BY DEF Init, WakeInv

LEMMA StepWake == IndInv /\ WakeInv /\ [Next]_vars => WakeInv'
  <1> SUFFICES ASSUME IndInv, WakeInv, [Next]_vars PROVE WakeInv'
      OBVIOUS
  <1> USE DEF IndInv, TypeOK, MutexInv, CallInv, WakeInv, CallerPCs, WorkerPCs
  <1>1. CASE UNCHANGED vars
      BY <1>1 DEF vars
  <1>2. ASSUME NEW c \in Calls, Execute(c) PROVE WakeInv'
      BY <1>2, CallsAssumption DEF Execute
  <1>3. ASSUME NEW c \in Calls, StartWait(c) PROVE WakeInv'
      BY <1>3 DEF StartWait
  <1>4. ASSUME NEW c \in Calls, ReturnTimeout(c) PROVE WakeInv'
      BY <1>4 DEF ReturnTimeout
  <1>5. ASSUME NEW c \in Calls, WakeToJoin(c) PROVE WakeInv'
      BY <1>5, CallsAssumption DEF WakeToJoin
  <1>6. ASSUME NEW c \in Calls, ReturnSuccess(c) PROVE WakeInv'
      BY <1>6 DEF ReturnSuccess
  <1>7. ASSUME NEW c \in Calls, PassBarrier(c) PROVE WakeInv'
      BY <1>7, CallsAssumption DEF PassBarrier
  <1>8. ASSUME NEW c \in Calls, Invoke(c) PROVE WakeInv'
      BY <1>8 DEF Invoke
  <1>9. ASSUME NEW c \in Calls, Publish(c) PROVE WakeInv'
    <2> DEFINE sleeping == (pc[c] = "waiting")
    <2>1. /\ worker[c] = "publish" /\ pc[c] # "spawned"
          /\ worker' = [worker EXCEPT ![c] = "done"] /\ pc' = pc
        BY <1>9 DEF Publish
    <2>2. \/ result' = result /\ notified' = notified /\ isDetach[c]
          \/ result' = result \cup {c} /\ notified' = [notified EXCEPT ![c] = sleeping]
        BY <1>9 DEF Publish
    <2>3. isDetach[c] => pc[c] = "returned"
        OBVIOUS
    <2>4. notified'[c] \in BOOLEAN /\ (notified'[c] => c \in result')
        BY <2>2
    <2>5. c \in result' /\ pc'[c] = "waiting" => notified'[c]
        BY <2>1, <2>2, <2>3
    <2>6. \A d \in Calls \ {c} :
            /\ worker'[d] = worker[d] /\ notified'[d] = notified[d]
            /\ d \in result' <=> d \in result
        BY <2>1, <2>2
    <2>7. result \subseteq result'
        BY <2>2
    <2> QED
        BY <2>1, <2>4, <2>5, <2>6, <2>7
  <1>10. ASSUME NEW c \in Calls, Elapse(c) PROVE WakeInv'
      BY <1>10 DEF Elapse
  <1> QED
      BY <1>1, <1>2, <1>3, <1>4, <1>5, <1>6, <1>7, <1>8, <1>9, <1>10
      DEF Next, CallerStep, WorkerStep

LEMMA AlwaysWake == Spec => [](IndInv /\ WakeInv)
  <1>1. IndInv /\ WakeInv /\ [Next]_vars => (IndInv /\ WakeInv)'
      BY StepInd, StepWake
  <1> QED
      BY InitInd, InitWake, <1>1, PTL DEF Spec

\* A caller that sleeps on after its value was delivered has a notification to
\* wake up from: notify_one never comes before the wait.  With it, delivery ends
\* the call even if the clock stands still.
THEOREM NoNotificationIsLost ==
  Spec => [](\A c \in Calls : c \in result /\ pc[c] = "waiting" => notified[c])
  <1>1. IndInv /\ WakeInv =>
          (\A c \in Calls : c \in result /\ pc[c] = "waiting" => notified[c])
      BY DEF WakeInv
  <1> QED
      BY <1>1, AlwaysWake, PTL

\* Only a spurious wake-up of wait_for makes a call hang: without one the caller
\* joins a worker that is through with the mutex.
THEOREM OnlySpuriousWakeupsHang ==
  Spec => []JoinsOnlyTheDone
  <1>1. IndInv /\ WakeInv => JoinsOnlyTheDone
      BY DEF IndInv, CallInv, WakeInv, JoinsOnlyTheDone, Hung
  <1> QED
      BY <1>1, AlwaysWake, PTL

LEMMA HungStays ==
  ASSUME IndInv, [Next]_vars, NEW d \in Calls, Hung(d)
  PROVE  Hung(d)'
  <1> USE CallsAssumption DEF IndInv, TypeOK, MutexInv, Hung, CallerPCs, WorkerPCs
  <1>1. mutex[d] # NoOwner /\ pc[d] = "joining" /\ worker[d] # "done"
      OBVIOUS
  <1>2. CASE UNCHANGED vars
      BY <1>2 DEF vars
  <1>3. ASSUME NEW c \in Calls, CallerStep(c) PROVE Hung(d)'
      BY <1>1, <1>3
      DEF CallerStep, Execute, StartWait, ReturnTimeout, WakeToJoin, ReturnSuccess, Executing
  <1>4. ASSUME NEW c \in Calls, WorkerStep(c) \/ Elapse(c) PROVE Hung(d)'
      BY <1>1, <1>4 DEF WorkerStep, PassBarrier, Invoke, Publish, Elapse
  <1> QED
      BY <1>2, <1>3, <1>4 DEF Next

\* Once a call hangs it hangs for good, whatever the function, the clock and the
\* other workers do: nobody but the caller can free the mutex.
THEOREM HangIsForGood == Spec => [][\A c \in Calls : Hung(c) => Hung(c)']_vars
  <1>1. IndInv /\ [Next]_vars => [\A c \in Calls : Hung(c) => Hung(c)']_vars
      BY HungStays
  <1> QED
      BY <1>1, Inductive, PTL DEF Spec
=============================================================================
