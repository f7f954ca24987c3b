------------------------- MODULE StreamConsumerProofs -------------------------
(***************************************************************************)
(* For any queue size and any number of restarts: the type invariant,      *)
(* FlagMeansQueued, NeverStalls and NoThreadAfterDestroy, and why a        *)
(* destructor returns.                                                     *)
(***************************************************************************)
EXTENDS StreamConsumer, TLAPS

\* Buffers that somebody has announced and nobody has taken: by the flag, by
\* the driver about to raise it, by the thread that has just cleared it.
Announced(c) == One(flag[c]) + One(driver[c] = "flushed") + One(thread[c] = "acquire")

\* The flag alone is not inductive: a buffer has to be left for every one of
\* its sources.
QueueInv == \A c \in Consumers :
  /\ Free(c) >= 0
  /\ Announced(c) <= queued[c]
  /\ thread[c] = "clear" => flag[c]

\* The consumers made so far, in the order they were made: all but the current
\* one and the one in the making have ended.
OrderInv ==
  /\ test \in {"created", "joining", "started"} => current < MaxStarts
  /\ test \in {"joining", "dropping", "over"} => current # 0
  /\ \A c \in Consumers :
       /\ c < current => thread[c] = "ended"
       /\ c > current + 1 => thread[c] = "none"
       /\ c = current + 1 /\ test \in {"idle", "dropping", "over"} => thread[c] = "none"

IndInv == TypeOK /\ QueueInv /\ NeverStalls /\ OrderInv /\ NoThreadAfterDestroy

LEMMA InitInd == Init => IndInv
  <1> SUFFICES ASSUME Init PROVE IndInv
      OBVIOUS
  <1>1. TypeOK
      BY StreamAssumption DEF Init, TypeOK, Consumers, ThreadPCs, DriverPCs
  <1>2. ASSUME NEW c \in Consumers
        PROVE /\ ~flag[c] /\ thread[c] = "none" /\ queued[c] = 0 /\ driver[c] = "ready"
              /\ Free(c) = QueueSize /\ Announced(c) = 0
    <2>1. ~flag[c] /\ thread[c] = "none" /\ queued[c] = 0 /\ driver[c] = "ready"
        BY DEF Init
    <2> QED
        BY <2>1, StreamAssumption DEF Free, Announced, One, Holding
  <1>3. QueueInv /\ NeverStalls
      BY <1>2, StreamAssumption DEF QueueInv, NeverStalls
  <1>4. OrderInv /\ NoThreadAfterDestroy
      BY <1>2, StreamAssumption DEF Init, OrderInv, NoThreadAfterDestroy, Consumers
  <1> QED
      BY <1>1, <1>3, <1>4 DEF IndInv

LEMMA StepInd == IndInv /\ [Next]_vars => IndInv'
  <1> SUFFICES ASSUME IndInv, [Next]_vars PROVE IndInv'
      OBVIOUS
  <1> USE StreamAssumption
          DEF IndInv, TypeOK, QueueInv, NeverStalls, OrderInv, NoThreadAfterDestroy,
              Consumers, ThreadPCs, DriverPCs, Free, One, Holding, Announced, stream
  <1>q. ASSUME NEW c \in Consumers,
               Free(c)' >= 0, Announced(c)' <= queued[c]', thread[c]' = "clear" => flag[c]',
               \A d \in Consumers : d # c => UNCHANGED <<flag[d], thread[d], queued[d], driver[d]>>
        PROVE  QueueInv'
    <2>1. ASSUME NEW d \in Consumers, d # c
          PROVE  Free(d)' = Free(d) /\ Announced(d)' = Announced(d)
        BY <1>q, <2>1
    <2> HIDE DEF TypeOK, Free, Announced, OrderInv, NeverStalls
    <2> QED
        BY <1>q, <2>1
  <1>1. CASE UNCHANGED vars
      BY <1>1 DEF vars
  <1>2. ASSUME NEW c \in Consumers, EnterLoop(c) PROVE IndInv'
    <2>1. TypeOK'
      BY <1>2 DEF EnterLoop
    <2>2. QueueInv'
      BY <1>2 DEF EnterLoop
    <2>3. NeverStalls'
      BY <1>2 DEF EnterLoop
    <2>4. OrderInv'
      BY <1>2 DEF EnterLoop
    <2>5. NoThreadAfterDestroy'
      BY <1>2 DEF EnterLoop
    <2> QED
      BY <2>1, <2>2, <2>3, <2>4, <2>5
  <1>3. ASSUME NEW c \in Consumers, LookAtFlag(c) PROVE IndInv'
    <2>1. TypeOK'
      BY <1>3 DEF LookAtFlag
    <2>2. QueueInv'
      BY <1>3 DEF LookAtFlag
    <2>3. NeverStalls'
      BY <1>3 DEF LookAtFlag
    <2>4. OrderInv'
      BY <1>3 DEF LookAtFlag
    <2>5. NoThreadAfterDestroy'
      BY <1>3 DEF LookAtFlag
    <2> QED
      BY <2>1, <2>2, <2>3, <2>4, <2>5
  <1>4. ASSUME NEW c \in Consumers, ClearFlag(c) PROVE IndInv'
    <2>1. TypeOK'
      BY <1>4 DEF ClearFlag
    <2>2. QueueInv'
      <3>a. /\ thread[c] = "clear" /\ flag[c] /\ thread[c]' = "acquire" /\ ~flag[c]'
            /\ queued[c]' = queued[c] /\ driver[c]' = driver[c]
          BY <1>4 DEF ClearFlag
      <3>b. Free(c) >= 0 /\ Announced(c) <= queued[c] /\ queued[c] \in 0 .. QueueSize
          OBVIOUS
      <3>1. Free(c)' >= 0 /\ Announced(c)' <= queued[c]' /\ (thread[c]' = "clear" => flag[c]')
          BY <3>a, <3>b
      <3>2. ASSUME NEW d \in Consumers, d # c
            PROVE UNCHANGED <<flag[d], thread[d], queued[d], driver[d]>>
          BY <1>4, <3>2 DEF ClearFlag
      <3> HIDE DEF TypeOK, QueueInv, Free, Announced, OrderInv, NeverStalls
      <3> QED
          BY <1>q, <3>1, <3>2
    <2>3. NeverStalls'
      BY <1>4 DEF ClearFlag
    <2>4. OrderInv'
      BY <1>4 DEF ClearFlag
    <2>5. NoThreadAfterDestroy'
      BY <1>4 DEF ClearFlag
    <2> QED
      BY <2>1, <2>2, <2>3, <2>4, <2>5
  <1>5. ASSUME NEW c \in Consumers, AcquireBuffer(c) PROVE IndInv'
    <2>0. queued[c] > 0 /\ thread[c] = "acquire" /\ queued[c] \in 0 .. QueueSize
      <3>1. /\ thread[c] = "acquire" /\ queued[c] \in 0 .. QueueSize
            /\ Announced(c) <= queued[c]
          BY <1>5 DEF AcquireBuffer
      <3>2. One(flag[c]) + One(driver[c] = "flushed") + 1 <= queued[c]
          BY <3>1
      <3>3. One(flag[c]) \in {0, 1} /\ One(driver[c] = "flushed") \in {0, 1}
          BY DEF One
      <3> QED
          BY <3>1, <3>2, <3>3
    <2>a. /\ queued' = [queued EXCEPT ![c] = @ - 1]
          /\ thread' = [thread EXCEPT ![c] = "callback"]
          /\ flag' = flag /\ driver' = driver
      <3>1. queued[c] # 0
          BY <2>0
      <3> HIDE DEF IndInv
      <3> QED
          BY <1>5, <3>1 DEF AcquireBuffer
    <2>1. TypeOK'
      <3>1. queued[c] - 1 \in 0 .. QueueSize
          BY <2>0
      <3>2. running' = running /\ capturing' = capturing /\ test' = test /\ current' = current
          BY <1>5 DEF AcquireBuffer
      <3> HIDE DEF QueueInv, OrderInv, NeverStalls
      <3> QED
          BY <2>a, <3>1, <3>2
    <2>2. QueueInv'
      <3>a. /\ queued[c]' = queued[c] - 1 /\ thread[c]' = "callback"
            /\ flag[c]' = flag[c] /\ driver[c]' = driver[c]
          BY <2>a
      <3>b. Free(c) >= 0 /\ Announced(c) <= queued[c]
          OBVIOUS
      <3>c. Free(c)' = Free(c)
          BY <2>0, <3>a
      <3>d. Announced(c)' = Announced(c) - 1
          BY <2>0, <3>a
      <3>e. Announced(c) \in 0 .. 3
          OBVIOUS
      <3>1. /\ Free(c)' >= 0 /\ Announced(c)' <= queued[c]'
            /\ thread[c]' = "callback"
          BY <2>0, <3>a, <3>b, <3>c, <3>d, <3>e
      <3>2. ASSUME NEW d \in Consumers, d # c
            PROVE UNCHANGED <<flag[d], thread[d], queued[d], driver[d]>>
          BY <2>a, <3>2
      <3> HIDE DEF TypeOK, QueueInv, Free, Announced, OrderInv, NeverStalls
      <3> QED
          BY <1>q, <3>1, <3>2
    <2>3. NeverStalls'
      <3>1. thread[c]' = "callback"
          BY <2>a
      <3>2. ASSUME NEW d \in Consumers, d # c
            PROVE UNCHANGED <<flag[d], thread[d], queued[d], driver[d]>>
          BY <2>a, <3>2
      <3> HIDE DEF TypeOK, QueueInv
      <3> QED
          BY <3>1, <3>2
    <2>4. OrderInv'
      BY <1>5 DEF AcquireBuffer
    <2>5. NoThreadAfterDestroy'
      BY <1>5 DEF AcquireBuffer
    <2> QED
      BY <2>1, <2>2, <2>3, <2>4, <2>5
  <1>6. ASSUME NEW c \in Consumers, ReleaseBuffer(c) PROVE IndInv'
    <2>1. TypeOK'
      BY <1>6 DEF ReleaseBuffer
    <2>2. QueueInv'
      <3>a. /\ thread[c] = "callback" /\ thread[c]' = "rest" /\ flag[c]' = flag[c]
            /\ queued[c]' = queued[c] /\ driver[c]' = driver[c]
          BY <1>6 DEF ReleaseBuffer
      <3>b. Free(c) >= 0 /\ Announced(c) <= queued[c] /\ queued[c] \in 0 .. QueueSize
          OBVIOUS
      <3>1. Free(c)' >= 0 /\ Announced(c)' <= queued[c]' /\ (thread[c]' = "clear" => flag[c]')
          BY <3>a, <3>b
      <3>2. ASSUME NEW d \in Consumers, d # c
            PROVE UNCHANGED <<flag[d], thread[d], queued[d], driver[d]>>
          BY <1>6, <3>2 DEF ReleaseBuffer
      <3> HIDE DEF TypeOK, QueueInv, Free, Announced, OrderInv, NeverStalls
      <3> QED
          BY <1>q, <3>1, <3>2
    <2>3. NeverStalls'
      <3>1. Free(c)' > 0
          BY <1>6 DEF ReleaseBuffer
      <3>2. ASSUME NEW d \in Consumers, d # c
            PROVE UNCHANGED <<flag[d], thread[d], queued[d], driver[d]>>
          BY <1>6, <3>2 DEF ReleaseBuffer
      <3>3. ASSUME NEW d \in Consumers, d # c PROVE Free(d)' = Free(d)
          BY <3>2, <3>3
      <3> HIDE DEF TypeOK, QueueInv, Free
      <3> QED
          BY <3>1, <3>2, <3>3
    <2>4. OrderInv'
      BY <1>6 DEF ReleaseBuffer
    <2>5. NoThreadAfterDestroy'
      BY <1>6 DEF ReleaseBuffer
    <2> QED
      BY <2>1, <2>2, <2>3, <2>4, <2>5
  <1>7. ASSUME NEW c \in Consumers, Rest(c) PROVE IndInv'
    <2>1. TypeOK'
      BY <1>7 DEF Rest
    <2>2. QueueInv'
      BY <1>7 DEF Rest
    <2>3. NeverStalls'
      BY <1>7 DEF Rest
    <2>4. OrderInv'
      BY <1>7 DEF Rest
    <2>5. NoThreadAfterDestroy'
      BY <1>7 DEF Rest
    <2> QED
      BY <2>1, <2>2, <2>3, <2>4, <2>5
  <1>8. ASSUME NEW c \in Consumers, RequestBuffer(c) PROVE IndInv'
    <2>1. TypeOK'
      BY <1>8 DEF RequestBuffer
    <2>2. QueueInv'
      <3>a. /\ driver[c] = "ready" /\ Free(c) > 0 /\ driver[c]' = "filling"
            /\ flag[c]' = flag[c] /\ queued[c]' = queued[c] /\ thread[c]' = thread[c]
          BY <1>8 DEF RequestBuffer
      <3>b. Free(c) >= 0 /\ Announced(c) <= queued[c] /\ queued[c] \in 0 .. QueueSize
          OBVIOUS
      <3>1. Free(c)' >= 0 /\ Announced(c)' <= queued[c]' /\ (thread[c]' = "clear" => flag[c]')
          BY <3>a, <3>b
      <3>2. ASSUME NEW d \in Consumers, d # c
            PROVE UNCHANGED <<flag[d], thread[d], queued[d], driver[d]>>
          BY <1>8, <3>2 DEF RequestBuffer
      <3> HIDE DEF TypeOK, QueueInv, Free, Announced, OrderInv, NeverStalls
      <3> QED
          BY <1>q, <3>1, <3>2
    <2>3. NeverStalls'
      BY <1>8 DEF RequestBuffer
    <2>4. OrderInv'
      BY <1>8 DEF RequestBuffer
    <2>5. NoThreadAfterDestroy'
      BY <1>8 DEF RequestBuffer
    <2> QED
      BY <2>1, <2>2, <2>3, <2>4, <2>5
  <1>9. ASSUME NEW c \in Consumers, FlushBuffer(c) PROVE IndInv'
    <2>1. TypeOK'
      <3>1. queued[c] + 1 \in 0 .. QueueSize
        <4>1. driver[c] = "filling" /\ Free(c) >= 0 /\ queued[c] \in 0 .. QueueSize
            BY <1>9 DEF FlushBuffer
        <4>2. QueueSize - queued[c] - 1 >= 0
            BY <4>1
        <4> QED
            BY <4>1, <4>2
      <3> QED
          BY <1>9, <3>1 DEF FlushBuffer
    <2>2. QueueInv'
      <3>a. /\ driver[c] = "filling" /\ driver[c]' = "flushed" /\ queued[c]' = queued[c] + 1
            /\ flag[c]' = flag[c] /\ thread[c]' = thread[c]
          BY <1>9 DEF FlushBuffer
      <3>b. Free(c) >= 0 /\ Announced(c) <= queued[c] /\ queued[c] \in 0 .. QueueSize
          OBVIOUS
      <3>1. Free(c)' >= 0 /\ Announced(c)' <= queued[c]' /\ (thread[c]' = "clear" => flag[c]')
          BY <3>a, <3>b
      <3>2. ASSUME NEW d \in Consumers, d # c
            PROVE UNCHANGED <<flag[d], thread[d], queued[d], driver[d]>>
          BY <1>9, <3>2 DEF FlushBuffer
      <3> HIDE DEF TypeOK, QueueInv, Free, Announced, OrderInv, NeverStalls
      <3> QED
          BY <1>q, <3>1, <3>2
    <2>3. NeverStalls'
      BY <1>9 DEF FlushBuffer
    <2>4. OrderInv'
      BY <1>9 DEF FlushBuffer
    <2>5. NoThreadAfterDestroy'
      BY <1>9 DEF FlushBuffer
    <2> QED
      BY <2>1, <2>2, <2>3, <2>4, <2>5
  <1>10. ASSUME NEW c \in Consumers, OnBufferAvailable(c) PROVE IndInv'
    <2>1. TypeOK'
      BY <1>10 DEF OnBufferAvailable
    <2>2. QueueInv'
      <3>a. /\ driver[c] = "flushed" /\ driver[c]' = "ready" /\ flag[c]'
            /\ queued[c]' = queued[c] /\ thread[c]' = thread[c]
          BY <1>10 DEF OnBufferAvailable
      <3>b. Free(c) >= 0 /\ Announced(c) <= queued[c] /\ queued[c] \in 0 .. QueueSize
          OBVIOUS
      <3>1. Free(c)' >= 0 /\ Announced(c)' <= queued[c]' /\ (thread[c]' = "clear" => flag[c]')
          BY <3>a, <3>b
      <3>2. ASSUME NEW d \in Consumers, d # c
            PROVE UNCHANGED <<flag[d], thread[d], queued[d], driver[d]>>
          BY <1>10, <3>2 DEF OnBufferAvailable
      <3> HIDE DEF TypeOK, QueueInv, Free, Announced, OrderInv, NeverStalls
      <3> QED
          BY <1>q, <3>1, <3>2
    <2>3. NeverStalls'
      BY <1>10 DEF OnBufferAvailable
    <2>4. OrderInv'
      BY <1>10 DEF OnBufferAvailable
    <2>5. NoThreadAfterDestroy'
      BY <1>10 DEF OnBufferAvailable
    <2> QED
      BY <2>1, <2>2, <2>3, <2>4, <2>5
  <1>11. CASE CreateProducer
    <2>1. TypeOK'
      BY <1>11 DEF CreateProducer
    <2>2. QueueInv'
      BY <1>11 DEF CreateProducer
    <2>3. NeverStalls'
      BY <1>11 DEF CreateProducer
    <2>4. OrderInv'
      BY <1>11 DEF CreateProducer
    <2>5. NoThreadAfterDestroy'
      BY <1>11 DEF CreateProducer
    <2> QED
      BY <2>1, <2>2, <2>3, <2>4, <2>5
  <1>12. CASE ReplaceConsumer
      BY <1>12 DEF ReplaceConsumer
  <1>13. CASE JoinThread
      BY <1>13 DEF JoinThread
  <1>14. CASE CreateStreams
      BY <1>14 DEF CreateStreams
  <1>15. CASE StartCapture
      BY <1>15 DEF StartCapture
  <1>16. CASE StopStream
      BY <1>16 DEF StopStream
  <1>17. CASE DropTest
      BY <1>17 DEF DropTest
  <1>18. CASE JoinLast
      BY <1>18 DEF JoinLast
  <1> QED
      BY <1>1, <1>2, <1>3, <1>4, <1>5, <1>6, <1>7, <1>8, <1>9, <1>10, <1>11,
         <1>12, <1>13, <1>14, <1>15, <1>16, <1>17, <1>18
      DEF Next, TestStep, ConsumerStep, DriverStep

LEMMA Inductive == Spec => []IndInv
  BY InitInd, StepInd, PTL DEF Spec

\* Every variable keeps its type.
THEOREM TypeCorrect == Spec => []TypeOK
  BY Inductive, PTL DEF IndInv

\* The listener's flag is never a false alarm.
THEOREM FlagIsHonest == Spec => []FlagMeansQueued
  <1>1. IndInv => FlagMeansQueued
      BY DEF IndInv, TypeOK, QueueInv, Announced, One, FlagMeansQueued, Consumers, DriverPCs,
             ThreadPCs
  <1> QED
      BY <1>1, Inductive, PTL

\* A driver that waits for a free buffer never waits for a thread that sleeps
\* over a full queue.
THEOREM StreamsDoNotStall == Spec => []NeverStalls
  BY Inductive, PTL DEF IndInv

\* Nobody calls back into a destroyed consumer.
THEOREM NoLateCallback == Spec => []NoThreadAfterDestroy
  BY Inductive, PTL DEF IndInv
-----------------------------------------------------------------------------
(* Why the destructor returns.                                             *)

\* How many steps a thread that was told to stop has left, at most.
StepsLeft(c) ==
  CASE thread[c] \in {"none", "ended"} -> 0
    [] thread[c] \in {"loop", "rest"}  -> 1
    [] thread[c] = "callback"          -> 2
    [] thread[c] = "acquire"           -> 3
    [] thread[c] = "clear"             -> 4
    [] thread[c] = "look"              -> 5

\* The consumers of which running_ is true have a thread.
RunInv ==
  /\ \A c \in Consumers : running[c] =>
       /\ thread[c] # "none"
       /\ c = current \/ (c = current + 1 /\ test \in {"created", "joining", "started"})
  /\ current # 0 => thread[current] # "none"
  /\ test \in {"created", "joining", "started"} => running[current + 1]
  /\ test \in {"joining", "started", "dropping", "over"} /\ current # 0 => ~running[current]

LEMMA StepRun == IndInv /\ RunInv /\ [Next]_vars => RunInv'
<1> SUFFICES ASSUME IndInv, RunInv, [Next]_vars PROVE RunInv'
  OBVIOUS
<1>t. /\ running \in [Consumers -> BOOLEAN] /\ thread \in [Consumers -> ThreadPCs]
      /\ current \in 0 .. MaxStarts /\ OrderInv
  BY DEF IndInv, TypeOK
<1> USE StreamAssumption, <1>t DEF RunInv, Consumers, stream
<1>1. CASE UNCHANGED vars
  BY <1>1 DEF vars
<1>2. ASSUME NEW c \in Consumers, ConsumerStep(c) PROVE RunInv'
  BY <1>2 DEF ConsumerStep, EnterLoop, LookAtFlag, ClearFlag, AcquireBuffer, ReleaseBuffer,
     Rest
<1>3. ASSUME NEW c \in Consumers, DriverStep(c) PROVE RunInv'
  BY <1>3 DEF DriverStep, RequestBuffer, FlushBuffer, OnBufferAvailable
<1>4. CASE CreateProducer
  BY <1>4 DEF CreateProducer, OrderInv
<1>5. CASE ReplaceConsumer
  BY <1>5 DEF ReplaceConsumer, OrderInv
<1>6. CASE JoinThread
  BY <1>6 DEF JoinThread, OrderInv
<1>7. CASE CreateStreams
  BY <1>7 DEF CreateStreams, OrderInv
<1>8. CASE StartCapture \/ StopStream
  BY <1>8 DEF StartCapture, StopStream
<1>9. CASE DropTest
  BY <1>9 DEF DropTest, OrderInv
<1>10. CASE JoinLast
  BY <1>10 DEF JoinLast
<1> QED
  BY <1>1, <1>2, <1>3, <1>4, <1>5, <1>6, <1>7, <1>8, <1>9, <1>10 DEF Next, TestStep

LEMMA AlwaysRun == Spec => [](IndInv /\ RunInv)
<1>1. Init => RunInv
  BY StreamAssumption DEF Init, RunInv, Consumers
<1>2. IndInv /\ RunInv /\ [Next]_vars => (IndInv /\ RunInv)'
  BY StepInd, StepRun
<1> QED
  BY <1>1, <1>2, InitInd, PTL DEF Spec

\* A destructor joins a thread that exists and has been told to stop: running_ is
\* cleared before the join, and stays so until it is over.
THEOREM JoinsAStoppedThread ==
  Spec => [](test \in {"joining", "dropping"} =>
               current # 0 /\ ~running[current] /\ thread[current] # "none")
<1> DEFINE Joins == test \in {"joining", "dropping"} =>
                      current # 0 /\ ~running[current] /\ thread[current] # "none"
<1>1. IndInv /\ RunInv => Joins
  BY DEF IndInv, OrderInv, RunInv
<1> QED
  BY <1>1, AlwaysRun, PTL

\* A thread that was told to stop runs out of steps, wherever in its loop it is
\* and whatever the driver does: each of its steps, none of which waits for
\* anybody, brings it nearer to its end.  With JoinsAStoppedThread it is what
\* DestructorReturns takes besides a scheduler.
RunsOut(c) ==
  ~running[c] /\ thread[c] # "none" /\ thread'[c] # thread[c] => StepsLeft(c)' < StepsLeft(c)

THEOREM StoppedThreadsRunOut == Spec => [][\A c \in Consumers : RunsOut(c)]_vars
<1>1. IndInv /\ [Next]_vars => [\A c \in Consumers : RunsOut(c)]_vars
  <2> SUFFICES ASSUME IndInv, Next, NEW c \in Consumers, ~running[c], thread[c] # "none",
                      thread'[c] # thread[c]
               PROVE  StepsLeft(c)' < StepsLeft(c)
    BY DEF RunsOut
  <2>t. thread \in [Consumers -> ThreadPCs] /\ current \in 0 .. MaxStarts /\ OrderInv
    BY DEF IndInv, TypeOK
  <2>1. ConsumerStep(c)
    <3>1. ASSUME NEW d \in Consumers, ConsumerStep(d) PROVE d = c
      BY <2>t, <3>1 DEF ConsumerStep, EnterLoop, LookAtFlag, ClearFlag, AcquireBuffer,
         ReleaseBuffer, Rest
    <3>2. ASSUME NEW d \in Consumers, DriverStep(d) PROVE FALSE
      BY <3>2 DEF DriverStep, RequestBuffer, FlushBuffer, OnBufferAvailable
    <3>3. CASE CreateProducer
      BY <2>t, <3>3 DEF CreateProducer, OrderInv
    <3>4. CASE TestStep /\ ~CreateProducer
      BY <3>4 DEF TestStep, ReplaceConsumer, JoinThread, CreateStreams, StartCapture,
         StopStream, DropTest, JoinLast, stream
    <3> QED
      BY <3>1, <3>2, <3>3, <3>4 DEF Next
  <2>2. CASE EnterLoop(c)
    BY <2>t, <2>2 DEF EnterLoop, StepsLeft
  <2>3. CASE LookAtFlag(c)
    BY <2>t, <2>3 DEF LookAtFlag, StepsLeft
  <2>4. CASE ClearFlag(c)
    BY <2>t, <2>4 DEF ClearFlag, StepsLeft
  <2>5. CASE AcquireBuffer(c)
    BY <2>t, <2>5 DEF AcquireBuffer, StepsLeft
  <2>6. CASE ReleaseBuffer(c) \/ Rest(c)
    BY <2>t, <2>6 DEF ReleaseBuffer, Rest, StepsLeft
  <2> QED
    BY <2>1, <2>2, <2>3, <2>4, <2>5, <2>6 DEF ConsumerStep
<1> QED
  BY <1>1, Inductive, PTL DEF Spec
=============================================================================
