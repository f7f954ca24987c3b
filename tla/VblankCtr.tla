------------------------------ MODULE VblankCtr ------------------------------
(***************************************************************************)
(* VblankCtr of the composer suites: NotifyVblank, called by the composer  *)
(* on a thread of its own, and WaitVblank, called by the test.  Both hold  *)
(* vblankMutex_, so that each stretch between a lock and the next unlock   *)
(* or wait is one step; the test writes hasVblank_ without the mutex, but  *)
(* never while it waits.                                                   *)
(***************************************************************************)
EXTENDS Naturals

CONSTANT MaxVblanks     \* bound: vblanks the composer sends

ASSUME VblankAssumption == MaxVblanks \in Nat

VARIABLES
  vsync,       \* the composer sends vblanks
  sent,        \* vblanks sent so far
  pending,     \* of these, the ones whose callback has not run yet
  hasVblank,   \* hasVblank_
  waiter,      \* where WaitVblank is
  answer       \* what the last WaitVblank returned

vblank == <<vsync, sent, pending, hasVblank, waiter, answer>>

WaiterPCs == {"none", "called", "parked", "woken", "expired"}
Answers   == {"none", "success", "failure"}

VblankTypeOK ==
  /\ vsync \in BOOLEAN /\ hasVblank \in BOOLEAN
  /\ sent \in 0 .. MaxVblanks /\ pending \in 0 .. sent
  /\ waiter \in WaiterPCs
  /\ answer \in Answers

VblankInit ==
  /\ vsync = FALSE /\ hasVblank = FALSE
  /\ sent = 0 /\ pending = 0
  /\ waiter = "none" /\ answer = "none"
-----------------------------------------------------------------------------
(* The composer.                                                           *)

SendVblank ==
  /\ vsync /\ sent < MaxVblanks
  /\ sent' = sent + 1 /\ pending' = pending + 1
  /\ UNCHANGED <<vsync, hasVblank, waiter, answer>>

\* The callback: TestVBlankCallback and NotifyVblank.
NotifyVblank ==
  /\ pending > 0
  /\ pending' = pending - 1 /\ hasVblank' = TRUE
  /\ waiter' = IF waiter = "parked" THEN "woken" ELSE waiter
  /\ UNCHANGED <<vsync, sent, answer>>
-----------------------------------------------------------------------------
(* The test's thread in WaitVblank: wait_for with a predicate.             *)

CallWaitVblank ==
  /\ waiter' = "called"
  /\ UNCHANGED <<vsync, sent, pending, hasVblank, answer>>

Return(result) == waiter' = "none" /\ answer' = result

\* The predicate is looked at before the thread sleeps, and whenever it wakes.
TestPredicate ==
  /\ waiter \in {"called", "woken"}
  /\ IF hasVblank THEN Return("success") ELSE waiter' = "parked" /\ UNCHANGED answer
  /\ UNCHANGED <<vsync, sent, pending, hasVblank>>

\* A wake-up without a notification, as the C++ standard allows.
WakeSpuriously ==
  /\ waiter = "parked"
  /\ waiter' = "woken"
  /\ UNCHANGED <<vsync, sent, pending, hasVblank, answer>>

\* The milliseconds are over; the thread has still to get the mutex back ...
Expire ==
  /\ waiter = "parked"
  /\ waiter' = "expired"
  /\ UNCHANGED <<vsync, sent, pending, hasVblank, answer>>

\* ... and a vblank that comes before it does counts.
AnswerExpired ==
  /\ waiter = "expired"
  /\ Return(IF hasVblank THEN "success" ELSE "failure")
  /\ UNCHANGED <<vsync, sent, pending, hasVblank>>

-----------------------------------------------------------------------------
(* What the test does beside waiting.                                      *)

\* SetDisplayVsyncEnabled succeeds.
SetVsync(on) ==
  /\ vsync' = on
  /\ UNCHANGED <<sent, pending, hasVblank, waiter, answer>>

ResetHasVblank ==
  /\ hasVblank' = FALSE
  /\ UNCHANGED <<vsync, sent, pending, waiter, answer>>

\* Nobody sleeps on a raised flag: the vblank that came before the wait, or
\* between two wake-ups of it, ends it without waiting for the timeout.
NoLostWakeup == waiter = "parked" => ~hasVblank
=============================================================================
