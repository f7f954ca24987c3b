---------------------------- MODULE StreamConsumer ----------------------------
(***************************************************************************)
(* How the camera suites take the frames of a stream:                      *)
(* hdf/camera/cameraMg/v1_0 (common.cpp, common.h), whose StreamConsumer   *)
(* and TestBufferConsumerListener the other versions repeat.               *)
(*                                                                         *)
(* The driver fills buffers of the stream's surface and calls the listener,*)
(* which sets a flag; the consumer's thread polls the flag and takes ONE   *)
(* buffer for it.  A test starts streams, captures, stops, starts again    *)
(* and drops its Test object; a consumer that is replaced or dropped stops *)
(* its thread and joins it.                                                *)
(*                                                                         *)
(* A consumer is numbered by the StartStream that made it.  The surface and*)
(* the driver are outside the repository: the surface hands out QueueSize  *)
(* buffers and AcquireBuffer the oldest filled one, and the driver fills   *)
(* when it captures and a buffer is free.  Frames are counted, not named.  *)
(* shotCount_ is left out: nothing in the repository waits for it.  So is  *)
(* a surface that cannot be made: CreateProducer then answers nullptr,     *)
(* which StartStream dereferences, and the process is gone.                *)
(***************************************************************************)
EXTENDS Naturals

CONSTANTS QueueSize,   \* SetQueueSize: buffers of a stream (8 in the code)
          MaxStarts    \* bound: StartStream calls

ASSUME StreamAssumption == QueueSize \in Nat \ {0} /\ MaxStarts \in Nat \ {0}

Consumers == 1 .. MaxStarts

VARIABLES
  flag,       \* hasAvailablebuffer of each consumer's listener
  running,    \* running_
  thread,     \* where consumerThread_ is
  queued,     \* the surface: buffers filled and not taken
  driver,     \* the driver: what it does for the stream
  capturing,  \* the driver's captures that nobody has cancelled
  test,       \* where the test thread is
  current     \* the consumer in consumerMap_, 0 if there is none

vars == <<flag, running, thread, queued, driver, capturing, test, current>>

stream == <<flag, thread, queued, driver>>

ThreadPCs == {"none", "loop", "look", "clear", "acquire", "callback", "rest", "ended"}
Holding   == {"callback"}     \* the thread has a buffer it has not released
DriverPCs == {"ready", "filling", "flushed"}

One(b) == IF b THEN 1 ELSE 0

\* Buffers of a stream that nobody has.
Free(c) == QueueSize - queued[c] - One(driver[c] = "filling")
                     - One(thread[c] \in Holding)

Init ==
  /\ flag = [c \in Consumers |-> FALSE]
  /\ running = [c \in Consumers |-> FALSE]
  /\ thread = [c \in Consumers |-> "none"]
  /\ queued = [c \in Consumers |-> 0]
  /\ driver = [c \in Consumers |-> "ready"]
  /\ capturing = {}
  /\ test = "idle" /\ current = 0
-----------------------------------------------------------------------------
(* The consumer's thread.                                                  *)

\* while (running_ == true)
EnterLoop(c) ==
  /\ thread[c] = "loop"
  /\ thread' = [thread EXCEPT ![c] = IF running[c] THEN "look" ELSE "ended"]
  /\ UNCHANGED <<flag, running, queued, driver, capturing, test, current>>

\* checkBufferAvailable reads the flag ...
LookAtFlag(c) ==
  /\ thread[c] = "look"
  /\ thread' = [thread EXCEPT ![c] = IF flag[c] THEN "clear" ELSE "rest"]
  /\ UNCHANGED <<flag, running, queued, driver, capturing, test, current>>

\* ... and clears it, whatever the listener has done in between.
\* Mutated form of ClearFlag: the flag is not reset.
ClearNothing(c) ==
  /\ thread[c] = "clear"
  /\ thread' = [thread EXCEPT ![c] = "acquire"]
  /\ UNCHANGED <<flag, running, queued, driver, capturing, test, current>>

ClearFlag(c) ==
  /\ thread[c] = "clear"
  /\ flag' = [flag EXCEPT ![c] = FALSE]
  /\ thread' = [thread EXCEPT ![c] = "acquire"]
  /\ UNCHANGED <<running, queued, driver, capturing, test, current>>

\* One buffer is taken, if there is one.
AcquireBuffer(c) ==
  /\ thread[c] = "acquire"
  /\ queued' = [queued EXCEPT ![c] = IF @ = 0 THEN 0 ELSE @ - 1]
  /\ thread' = [thread EXCEPT ![c] = IF queued[c] = 0 THEN "rest" ELSE "callback"]
  /\ UNCHANGED <<flag, running, driver, capturing, test, current>>

\* The callback has looked at the frame and the buffer is released.
ReleaseBuffer(c) ==
  /\ thread[c] = "callback"
  /\ thread' = [thread EXCEPT ![c] = "rest"]
  /\ UNCHANGED <<flag, running, queued, driver, capturing, test, current>>

\* Mutated form of Rest: the flag is cleared at the end of the round.
RestClearsFlag(c) ==
  /\ thread[c] = "rest"
  /\ flag' = [flag EXCEPT ![c] = FALSE]
  /\ thread' = [thread EXCEPT ![c] = IF running[c] THEN "loop" ELSE "ended"]
  /\ UNCHANGED <<running, queued, driver, capturing, test, current>>

\* if (running_ == false) break; usleep(1);
Rest(c) ==
  /\ thread[c] = "rest"
  /\ thread' = [thread EXCEPT ![c] = IF running[c] THEN "loop" ELSE "ended"]
  /\ UNCHANGED <<flag, running, queued, driver, capturing, test, current>>

ConsumerStep(c) ==
  \/ EnterLoop(c)     \/ LookAtFlag(c)    \/ ClearFlag(c)
  \/ AcquireBuffer(c) \/ ReleaseBuffer(c) \/ Rest(c)
-----------------------------------------------------------------------------
(* The driver.                                                             *)

RequestBuffer(c) ==
  /\ driver[c] = "ready" /\ c \in capturing
  /\ Free(c) > 0
  /\ driver' = [driver EXCEPT ![c] = "filling"]
  /\ UNCHANGED <<flag, running, thread, queued, capturing, test, current>>

FlushBuffer(c) ==
  /\ driver[c] = "filling"
  /\ queued' = [queued EXCEPT ![c] = @ + 1]
  /\ driver' = [driver EXCEPT ![c] = "flushed"]
  /\ UNCHANGED <<flag, running, thread, capturing, test, current>>

\* The surface tells the listener of the flushed buffer.
OnBufferAvailable(c) ==
  /\ driver[c] = "flushed"
  /\ flag' = [flag EXCEPT ![c] = TRUE]
  /\ driver' = [driver EXCEPT ![c] = "ready"]
  /\ UNCHANGED <<running, thread, queued, capturing, test, current>>

DriverStep(c) == RequestBuffer(c) \/ FlushBuffer(c) \/ OnBufferAvailable(c)
-----------------------------------------------------------------------------
(* The test thread.                                                        *)

\* StartStream makes a consumer; CreateProducer starts its thread.
CreateProducer ==
  /\ test = "idle" /\ current < MaxStarts
  /\ running' = [running EXCEPT ![current + 1] = TRUE]
  /\ thread' = [thread EXCEPT ![current + 1] = "loop"]
  /\ test' = "created"
  /\ UNCHANGED <<flag, queued, driver, capturing, current>>

\* consumerMap_[intent] = consumer: the consumer it held is destroyed, which
\* clears its running_ ...
\* Mutated form of ReplaceConsumer: running_ is left as it is.
ReplaceKeepsRunning ==
  /\ test = "created"
  /\ test' = IF current = 0 THEN "started" ELSE "joining"
  /\ UNCHANGED <<stream, running, capturing, current>>

ReplaceConsumer ==
  /\ test = "created"
  /\ running' = IF current = 0 THEN running ELSE [running EXCEPT ![current] = FALSE]
  /\ test' = IF current = 0 THEN "started" ELSE "joining"
  /\ UNCHANGED <<stream, capturing, current>>

\* ... and joins its thread.
\* Mutated form of JoinThread: the thread is detached.
DetachThread ==
  /\ test = "joining"
  /\ test' = "started"
  /\ UNCHANGED <<stream, running, capturing, current>>

JoinThread ==
  /\ test = "joining" /\ thread[current] = "ended"
  /\ test' = "started"
  /\ UNCHANGED <<stream, running, capturing, current>>

\* The streams are created and committed.
CreateStreams ==
  /\ test = "started"
  /\ current' = current + 1
  /\ test' = "idle"
  /\ UNCHANGED <<stream, running, capturing>>

\* StartCapture and StopStream; the driver may refuse either.
StartCapture ==
  /\ test = "idle" /\ current # 0
  /\ capturing' = capturing \cup {current}
  /\ UNCHANGED <<stream, running, test, current>>

StopStream ==
  /\ test = "idle" /\ current # 0
  /\ capturing' = capturing \ {current}
  /\ UNCHANGED <<stream, running, test, current>>

\* The next test makes a Test object of its own: the consumer goes with the old.
DropTest ==
  /\ test = "idle" /\ current # 0
  /\ running' = [running EXCEPT ![current] = FALSE]
  /\ test' = "dropping"
  /\ UNCHANGED <<stream, capturing, current>>

JoinLast ==
  /\ test = "dropping" /\ thread[current] = "ended"
  /\ test' = "over"
  /\ UNCHANGED <<stream, running, capturing, current>>

TestStep ==
  \/ CreateProducer \/ ReplaceConsumer \/ JoinThread \/ CreateStreams
  \/ StartCapture \/ StopStream \/ DropTest \/ JoinLast

Next == TestStep \/ \E c \in Consumers : ConsumerStep(c) \/ DriverStep(c)

Spec == Init /\ [][Next]_vars

\* The threads of the test process are scheduled; a test that is in StartStream
\* or in a destructor goes on when it can.  The driver owes nothing.
Fairness ==
  /\ \A c \in Consumers : WF_vars(ConsumerStep(c))
  /\ WF_vars(ReplaceConsumer) /\ WF_vars(JoinThread) /\ WF_vars(JoinLast)

FairSpec == Spec /\ Fairness

DriverGoesOn == \A c \in Consumers : WF_vars(DriverStep(c))
-----------------------------------------------------------------------------
TypeOK ==
  /\ flag \in [Consumers -> BOOLEAN] /\ running \in [Consumers -> BOOLEAN]
  /\ thread \in [Consumers -> ThreadPCs]
  /\ queued \in [Consumers -> 0 .. QueueSize]
  /\ driver \in [Consumers -> DriverPCs]
  /\ capturing \subseteq Consumers
  /\ test \in {"idle", "created", "joining", "started", "dropping", "over"}
  /\ current \in 0 .. MaxStarts

\* A set flag is no false alarm: the buffer it stands for is still there, so
\* the null check after AcquireBuffer never has to save a frame's callback
\* (one acquire for one look at the flag, OnBufferAvailable after the flush).
FlagMeansQueued == \A c \in Consumers : flag[c] => queued[c] > 0

\* Although the flag may swallow notifications, a full queue is never left
\* unnoticed: when the driver waits for a free buffer, the flag is up or the
\* thread is about to take one (the thread clears the flag only on its way to
\* AcquireBuffer).
NeverStalls == \A c \in Consumers :
  Free(c) = 0 /\ driver[c] = "ready" =>
     flag[c] \/ thread[c] \in {"acquire", "callback"}

\* Once its destructor has returned, no thread of the consumer runs any more:
\* the frames go to a callback whose Test object may be gone.
NoThreadAfterDestroy ==
  /\ test = "started" /\ current # 0 => thread[current] = "ended"
  /\ test = "over" => \A c \in Consumers : thread[c] \in {"none", "ended"}

\* With a driver that goes on, a consumer that runs gets one frame after the
\* other, however often the flag swallows a notification.
FramesKeepComing ==
  DriverGoesOn => \A c \in Consumers :
    (running[c] /\ c \in capturing)
       ~> (thread[c] = "callback" \/ ~running[c] \/ c \notin capturing)

\* Replacing or dropping a consumer ends: join returns.
DestructorReturns == test \in {"joining", "dropping"} ~> test \in {"started", "over"}
=============================================================================
