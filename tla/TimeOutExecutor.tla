-------------------------- MODULE TimeOutExecutor --------------------------
(***************************************************************************)
(* TimeOutExecutor<F>::Execute (hdf/camera/common/include/TimeOutExecutor  *)
(* .h): run a function on a worker thread and give up on it after _timeout *)
(* milliseconds.  Every call has a mutex, a condition variable and an      *)
(* is_detach flag of its own, shared with its worker, so a worker that was *)
(* given up goes on by itself while the caller makes its next call.        *)
(*                                                                         *)
(* The caller is one thread.  What the worker computes is abstracted to    *)
(* the call it computes it for.  A step that holds the mutex throughout is *)
(* one action: nobody else sees its middle.                                *)
(***************************************************************************)
EXTENDS FiniteSets

CONSTANTS Calls,            \* the calls of Execute the caller makes
          Caller,           \* the calling thread, as an owner of a mutex
          NoOwner,          \* the mutex is free
          SpuriousWakeups   \* does wait_for return without cause (the C++
                            \* standard lets it)

ASSUME CallsAssumption == /\ Caller \notin Calls
                          /\ NoOwner \notin Calls \cup {Caller}
                          /\ SpuriousWakeups \in BOOLEAN

VARIABLES pc,         \* where the caller is in each call
          worker,     \* where the worker of each call is
          mutex,      \* the owner of each call's mutex
          isDetach,   \* *is_detach of each call
          notified,   \* notify_one has reached the caller's wait_for
          elapsed,    \* _timeout milliseconds have passed since wait_for began
          result,     \* the calls that have written their caller's variable
          status      \* what Execute returned

vars == <<pc, worker, mutex, isDetach, notified, elapsed, result, status>>

CallerPCs == {"ready", "spawned", "waiting", "joining", "returned"}
WorkerPCs == {"none", "barrier", "invoke", "publish", "done"}

TypeOK == /\ pc \in [Calls -> CallerPCs]
          /\ worker \in [Calls -> WorkerPCs]
          /\ mutex \in [Calls -> {Caller, NoOwner}]
          /\ isDetach \in [Calls -> BOOLEAN]
          /\ notified \in [Calls -> BOOLEAN]
          /\ elapsed \in [Calls -> BOOLEAN]
          /\ result \in SUBSET Calls
          /\ status \in [Calls -> {"none", "SUCCESS", "TIMEOUT"}]

Init == /\ pc = [c \in Calls |-> "ready"]
        /\ worker = [c \in Calls |-> "none"]
        /\ mutex = [c \in Calls |-> NoOwner]
        /\ isDetach = [c \in Calls |-> FALSE]
        /\ notified = [c \in Calls |-> FALSE]
        /\ elapsed = [c \in Calls |-> FALSE]
        /\ result = {}
        /\ status = [c \in Calls |-> "none"]

Executing == {c \in Calls : pc[c] \notin {"ready", "returned"}}
-----------------------------------------------------------------------------
(* Mutated forms of the actions below, each a slip the code could have     *)
(* made; none is a part of Next.                                           *)

\* The timeout branch forgets *is_detach = true.
ReturnTimeoutKeepsWorker(c) ==
    /\ pc[c] = "waiting" /\ mutex[c] = NoOwner /\ elapsed[c]
    /\ pc' = [pc EXCEPT ![c] = "returned"]
    /\ status' = [status EXCEPT ![c] = "TIMEOUT"]
    /\ UNCHANGED <<worker, mutex, isDetach, notified, elapsed, result>>

\* The timeout branch joins the worker before it returns.
ReturnTimeoutJoins(c) ==
    /\ pc[c] = "waiting" /\ mutex[c] = NoOwner /\ elapsed[c]
    /\ worker[c] = "done"
    /\ isDetach' = [isDetach EXCEPT ![c] = TRUE]
    /\ pc' = [pc EXCEPT ![c] = "returned"]
    /\ status' = [status EXCEPT ![c] = "TIMEOUT"]
    /\ UNCHANGED <<worker, mutex, notified, elapsed, result>>

\* The worker writes the result without looking at is_detach.
PublishAlways(c) ==
    /\ worker[c] = "publish" /\ mutex[c] = NoOwner
    /\ result' = result \cup {c}
    /\ notified' = [notified EXCEPT ![c] = (pc[c] = "waiting")]
    /\ worker' = [worker EXCEPT ![c] = "done"]
    /\ UNCHANGED <<pc, mutex, isDetach, elapsed, status>>

\* The worker notifies as soon as the function is back, and takes the mutex
\* for the result only then.
InvokeNotifies(c) ==
    /\ worker[c] = "invoke"
    /\ worker' = [worker EXCEPT ![c] = "publish"]
    /\ notified' = [notified EXCEPT ![c] = (pc[c] = "waiting")]
    /\ UNCHANGED <<pc, mutex, isDetach, elapsed, result, status>>

\* lck is taken after the worker has been started, when the worker may be
\* through already: its notification finds nobody asleep.
ExecuteLocksLate(c) ==
    /\ Executing = {} /\ pc[c] = "ready"
    /\ pc' = [pc EXCEPT ![c] = "spawned"]
    /\ worker' = [worker EXCEPT ![c] = "barrier"]
    /\ UNCHANGED <<mutex, isDetach, notified, elapsed, result, status>>
-----------------------------------------------------------------------------
(* The caller.                                                             *)

\* Execute is entered: lck takes the new mutex, then the worker is started.
Execute(c) == /\ Executing = {}
              /\ pc[c] = "ready"
              /\ pc' = [pc EXCEPT ![c] = "spawned"]
              /\ mutex' = [mutex EXCEPT ![c] = Caller]
              /\ worker' = [worker EXCEPT ![c] = "barrier"]
              /\ UNCHANGED <<isDetach, notified, elapsed, result, status>>

\* cv->wait_for gives the mutex up and sleeps.
StartWait(c) == /\ pc[c] = "spawned"
                /\ pc' = [pc EXCEPT ![c] = "waiting"]
                /\ mutex' = [mutex EXCEPT ![c] = NoOwner]
                /\ UNCHANGED <<worker, isDetach, notified, elapsed, result, status>>

\* The clock passes _timeout.
Elapse(c) == /\ pc[c] = "waiting"
             /\ ~elapsed[c]
             /\ elapsed' = [elapsed EXCEPT ![c] = TRUE]
             /\ UNCHANGED <<pc, worker, mutex, isDetach, notified, result, status>>

\* wait_for takes the mutex back and answers cv_status::timeout, by the clock
\* at that moment, whether or not it was notified: the worker is given up.
ReturnTimeout(c) == /\ pc[c] = "waiting"
                    /\ mutex[c] = NoOwner
                    /\ elapsed[c]
                    /\ isDetach' = [isDetach EXCEPT ![c] = TRUE]
                    /\ pc' = [pc EXCEPT ![c] = "returned"]
                    /\ status' = [status EXCEPT ![c] = "TIMEOUT"]
                    /\ UNCHANGED <<worker, mutex, notified, elapsed, result>>

\* wait_for takes the mutex back before the clock has passed _timeout: the
\* caller goes on to workThread.join(), with the mutex in its hands.
WakeToJoin(c) == /\ pc[c] = "waiting"
                 /\ mutex[c] = NoOwner
                 /\ ~elapsed[c]
                 /\ notified[c] \/ SpuriousWakeups
                 /\ mutex' = [mutex EXCEPT ![c] = Caller]
                 /\ pc' = [pc EXCEPT ![c] = "joining"]
                 /\ UNCHANGED <<worker, isDetach, notified, elapsed, result, status>>

\* join returns when the worker has ended; lck's destructor frees the mutex.
ReturnSuccess(c) == /\ pc[c] = "joining"
                    /\ worker[c] = "done"
                    /\ mutex' = [mutex EXCEPT ![c] = NoOwner]
                    /\ pc' = [pc EXCEPT ![c] = "returned"]
                    /\ status' = [status EXCEPT ![c] = "SUCCESS"]
                    /\ UNCHANGED <<worker, isDetach, notified, elapsed, result>>
-----------------------------------------------------------------------------
(* The worker.                                                             *)

\* The worker's first block only locks and unlocks: it waits for the caller
\* to be asleep in wait_for.
PassBarrier(c) == /\ worker[c] = "barrier"
                  /\ mutex[c] = NoOwner
                  /\ worker' = [worker EXCEPT ![c] = "invoke"]
                  /\ UNCHANGED <<pc, mutex, isDetach, notified, elapsed, result, status>>

\* funcImpl->invoke comes back, at any time or never.
Invoke(c) == /\ worker[c] = "invoke"
             /\ worker' = [worker EXCEPT ![c] = "publish"]
             /\ UNCHANGED <<pc, mutex, isDetach, notified, elapsed, result, status>>

\* The worker's last block, under the mutex: write the caller's variable and
\* notify, unless the call was given up.
Publish(c) == /\ worker[c] = "publish"
              /\ mutex[c] = NoOwner
              /\ IF isDetach[c]
                 THEN UNCHANGED <<result, notified>>
                 ELSE /\ result' = result \cup {c}
                      /\ notified' = [notified EXCEPT ![c] = (pc[c] = "waiting")]
              /\ worker' = [worker EXCEPT ![c] = "done"]
              /\ UNCHANGED <<pc, mutex, isDetach, elapsed, status>>
-----------------------------------------------------------------------------
CallerStep(c) == \/ Execute(c)       \/ StartWait(c)  \/ ReturnTimeout(c)
                 \/ WakeToJoin(c)    \/ ReturnSuccess(c)

WorkerStep(c) == PassBarrier(c) \/ Invoke(c) \/ Publish(c)

Next == \E c \in Calls : CallerStep(c) \/ WorkerStep(c) \/ Elapse(c)

Spec == Init /\ [][Next]_vars

\* The scheduler runs every thread that can run; the clock (Elapse) and the
\* function itself (Invoke) owe nobody anything.
Fairness == \A c \in Calls : /\ WF_vars(StartWait(c))
                             /\ WF_vars(ReturnTimeout(c))
                             /\ WF_vars(WakeToJoin(c))
                             /\ WF_vars(ReturnSuccess(c))
                             /\ WF_vars(PassBarrier(c))
                             /\ WF_vars(Publish(c))

FairSpec == Spec /\ Fairness

ClockGoesOn == \A c \in Calls : WF_vars(Elapse(c))
-----------------------------------------------------------------------------
(* Properties.                                                             *)

\* The worker writes the caller's variable only during the call that lent it:
\* after Execute has returned the reference may be dangling
\* (the capture [=, &result] and the test of is_detach).
NoWriteAfterReturn ==
    [][\A c \in Calls : c \in result' \ result => c \in Executing]_vars

\* SUCCESS is only returned for a call whose value is in the caller's
\* variable.
SuccessMeansDelivered ==
    \A c \in Calls : status[c] = "SUCCESS" => c \in result

\* The caller joins with the mutex in its hands, and the worker takes that
\* mutex twice: a call whose caller joins a worker that is not through hangs.
Hung(c) == pc[c] = "joining" /\ worker[c] # "done"

\* No call hangs in workThread.join(): but for a spurious wake-up the caller
\* only gets there after the worker's last use of the mutex, however many
\* given-up workers run beside it.
JoinsOnlyTheDone == ~SpuriousWakeups => \A c \in Calls : ~Hung(c)

\* The notification of a worker cannot come before the caller sleeps: a value
\* that was delivered ends the wait even if the clock never does.
DeliveryEndsTheCall == \A c \in Calls : c \in result ~> pc[c] = "returned"

\* As long as the clock goes on every call returns, with SUCCESS or with
\* TIMEOUT, even if the function never does.
ExecuteReturns ==
    ClockGoesOn => \A c \in Calls : c \in Executing ~> pc[c] = "returned"

\* The promise to the caller.
Abstract == INSTANCE TimedCall WITH running <- Executing
AbstractSpec == Abstract!Spec
=============================================================================
