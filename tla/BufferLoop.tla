----------------------------- MODULE BufferLoop -----------------------------
(***************************************************************************)
(* The buffer loop of hdf/camera/cameraHdi/buffer_manager: TestBufferQueue-*)
(* Loop and TestTrackingBufferLoop with their Stream, Pipeline and Nodes.  *)
(*                                                                         *)
(* Five threads pass the buffers of a stream round.  Enqueue asks the      *)
(* surface for a free buffer and adds it to the pool; collect acquires     *)
(* from the pool and appends to the device list; deliver takes the list's  *)
(* front through the nodes (the source node keeps its first CacheSize      *)
(* buffers back) and returns and flushes what comes out; the consumer      *)
(* acquires from the surface and releases.  A stream without a producer    *)
(* rounds inside the pool.  The test thread starts all this and stops it.  *)
(*                                                                         *)
(* The surface and the pool are outside the repository: the surface hands  *)
(* out QueueSize buffers, in any order, and its consumer gets the flushed  *)
(* ones oldest first; the pool hands out what was added, oldest first, or  *)
(* gives up after three seconds.  Buffers are numbered in the order in     *)
(* which StartExternalStream asks for them; the nodes between source and   *)
(* sink hold nothing back and are left out, as is BufferTracking.  That    *)
(* Stream::Init can fail, which the tests do not look at, is left out too. *)
(***************************************************************************)
EXTENDS SequencesExt

CONSTANTS QueueSize,    \* queueSize_: buffers of the stream (7 in the code)
          CacheSize,    \* cacheSize_ of a new SourceNode (3 in the code)
          MaxFaults     \* bound: calls of the surface that fail

ASSUME BufferLoopAssumption ==
  QueueSize \in Nat \ {0} /\ CacheSize \in Nat /\ MaxFaults \in Nat

Buffers == 1 .. QueueSize

VARIABLES
  producer,          \* producer_ # nullptr: the buffers are a surface's
  free,              \* the surface: buffers nobody has
  flushed,           \* the surface: buffers for the consumer
  requested,         \* the enqueue thread: sb
  acquired,          \* the consumer thread: buffer
  lost,              \* taken from the surface and never given back to it
  bufferVec,         \* the buffers bufferVec_ knows
  idle, busy,        \* the pool's lists
  collected,         \* the collect thread: buffer
  deviceBufferList,  \* localStream_->deviceBufferList
  frame,             \* the deliver thread: the buffer on its way
  cache, cacheSize,  \* of the source node
  testRunning,       \* running of the test
  running,           \* running of the Pipeline
  started,           \* iterations of StartExternalStream
  faults,            \* calls of the surface that failed
  pc                 \* where each thread is

surface  == <<free, flushed, lost, faults>>
pool     == <<idle, busy>>
nodes    == <<cache, cacheSize>>
switches == <<testRunning, running>>
stream   == <<producer, bufferVec, started>>
hands    == <<requested, acquired, collected, frame>>

vars == <<surface, pool, nodes, switches, stream, hands, deviceBufferList, pc>>

Threads == {"test", "enqueue", "collect", "deliver", "consume"}

TestPCs == {"start", "run", "joinEnqueue", "joinCollect", "joinDeliver",
            "joinConsume", "over"}
ThreadPCs == {"none", "loop", "ended",
              "request", "add",                  \* enqueue
              "acquire", "append",               \* collect
              "load", "source", "sink", "flush", \* deliver
              "take", "release"}                 \* consume

Goto(t, p) == pc' = [pc EXCEPT ![t] = p]

Init ==
  /\ producer \in BOOLEAN
  /\ free = IF producer THEN Buffers ELSE {}
  /\ idle = IF producer THEN <<>> ELSE [i \in 1 .. QueueSize |-> i]
  /\ flushed = <<>> /\ lost = {} /\ bufferVec = {} /\ busy = {}
  /\ requested = <<>> /\ acquired = <<>> /\ collected = <<>> /\ frame = <<>>
  /\ deviceBufferList = <<>>
  /\ cache = <<>> /\ cacheSize = CacheSize
  /\ testRunning = TRUE /\ running = TRUE
  /\ started = 0 /\ faults = 0
  /\ pc = [t \in Threads |->
             IF t = "test" THEN "start"
             ELSE IF t = "consume" /\ producer THEN "loop" ELSE "none"]

\* A thread at the head of its loop looks at its flag.
Loop(t, flag, first) ==
  /\ pc[t] = "loop"
  /\ Goto(t, IF flag THEN first ELSE "ended")
  /\ UNCHANGED <<surface, pool, nodes, switches, stream, hands, deviceBufferList>>

\* A call of the surface fails.
Fault == faults < MaxFaults /\ faults' = faults + 1
-----------------------------------------------------------------------------
(* Mutated forms of the actions below, each a slip the code could have     *)
(* made; none is a part of Next.                                           *)

\* Mutated form of AppendBuffer: the newest buffer goes first.
PrependBuffer ==
  /\ pc["collect"] = "append"
  /\ deviceBufferList' = collected \o deviceBufferList /\ collected' = <<>>
  /\ Goto("collect", "loop")
  /\ UNCHANGED <<surface, pool, nodes, switches, stream, requested, acquired, frame>>

\* Mutated form of LoadBuffer: front without pop_front.
LoadKeepsFront ==
  /\ pc["deliver"] = "load"
  /\ IF deviceBufferList = <<>>
     THEN Goto("deliver", "loop") /\ UNCHANGED frame
     ELSE frame' = <<deviceBufferList[1]>> /\ Goto("deliver", "source")
  /\ UNCHANGED <<surface, pool, nodes, switches, stream, requested, acquired, collected,
                 deviceBufferList>>

\* Mutated form of FillCache: cacheSize_ >= 0.
FillOneTooMany ==
  /\ pc["deliver"] = "source"
  /\ cache' = cache \o frame /\ cacheSize' = cacheSize - 1 /\ frame' = <<>>
  /\ Goto("deliver", "loop")
  /\ UNCHANGED <<surface, pool, switches, stream, requested, acquired, collected,
                 deviceBufferList>>

\* Mutated form of FillCache: cacheSize_ is never counted down.
FillForEver ==
  /\ pc["deliver"] = "source" /\ cacheSize > 0
  /\ cache' = cache \o frame /\ frame' = <<>>
  /\ Goto("deliver", "loop")
  /\ UNCHANGED <<surface, pool, cacheSize, switches, stream, requested, acquired,
                 collected, deviceBufferList>>

\* Mutated form of ReturnBuffer: a surface's buffer is not returned to the pool.
ReturnInnerOnly ==
  /\ pc["deliver"] = "sink"
  /\ IF producer
     THEN Goto("deliver", "flush") /\ UNCHANGED <<idle, busy, frame>>
     ELSE /\ idle' = idle \o frame /\ busy' = busy \ {frame[1]} /\ frame' = <<>>
          /\ Goto("deliver", "loop")
  /\ UNCHANGED <<surface, nodes, switches, stream, requested, acquired, collected,
                 deviceBufferList>>

\* Mutated form of JoinEnqueue: StopStream does not clear the pipeline's running.
JoinKeepsRunning ==
  /\ pc["test"] = "joinEnqueue" /\ pc["enqueue"] = "ended"
  /\ Goto("test", "joinCollect")
  /\ UNCHANGED <<surface, pool, nodes, switches, stream, hands, deviceBufferList>>
-----------------------------------------------------------------------------
(* The enqueue thread: EnqueueBufferNonBlock, again and again.             *)

\* RequestBuffer does not wait.
RequestBuffer ==
  /\ pc["enqueue"] = "request"
  /\ \/ free = {} /\ Goto("enqueue", "loop") /\ UNCHANGED <<free, requested>>
     \/ \E b \in free : /\ requested' = <<b>> /\ free' = free \ {b}
                        /\ Goto("enqueue", "add")
  /\ UNCHANGED <<flushed, lost, faults, pool, nodes, switches, stream,
                 acquired, collected, frame, deviceBufferList>>

\* A buffer that bufferVec_ does not know is neither added nor given back.
AddBuffer ==
  /\ pc["enqueue"] = "add"
  /\ requested' = <<>>
  /\ IF requested[1] \in bufferVec
     THEN idle' = idle \o requested /\ UNCHANGED lost
     ELSE lost' = lost \cup {requested[1]} /\ UNCHANGED idle
  /\ Goto("enqueue", "loop")
  /\ UNCHANGED <<free, flushed, faults, busy, nodes, switches, stream,
                 acquired, collected, frame, deviceBufferList>>

Enqueue == Loop("enqueue", testRunning, "request") \/ RequestBuffer \/ AddBuffer
-----------------------------------------------------------------------------
(* The collect thread.                                                     *)

\* AcquireBuffer(3) comes back with the oldest idle buffer ...
AcquireBuffer ==
  /\ pc["collect"] = "acquire" /\ idle # <<>>
  /\ collected' = <<idle[1]>> /\ idle' = Tail(idle) /\ busy' = busy \cup {idle[1]}
  /\ Goto("collect", "append")
  /\ UNCHANGED <<surface, nodes, switches, stream, requested, acquired, frame,
                 deviceBufferList>>

\* ... or after three seconds without one.
AcquireTimeout ==
  /\ pc["collect"] = "acquire" /\ idle = <<>>
  /\ Goto("collect", "loop")
  /\ UNCHANGED <<surface, pool, nodes, switches, stream, hands, deviceBufferList>>

AppendBuffer ==
  /\ pc["collect"] = "append"
  /\ deviceBufferList' = deviceBufferList \o collected /\ collected' = <<>>
  /\ Goto("collect", "loop")
  /\ UNCHANGED <<surface, pool, nodes, switches, stream, requested, acquired, frame>>

Collect ==
  Loop("collect", running, "acquire") \/ AcquireBuffer \/ AcquireTimeout \/ AppendBuffer
-----------------------------------------------------------------------------
(* The deliver thread.                                                     *)

\* After its sleep it takes the front of the device list, if there is one.
LoadBuffer ==
  /\ pc["deliver"] = "load"
  /\ IF deviceBufferList = <<>>
     THEN Goto("deliver", "loop") /\ UNCHANGED <<frame, deviceBufferList>>
     ELSE /\ frame' = <<deviceBufferList[1]>> /\ deviceBufferList' = Tail(deviceBufferList)
          /\ Goto("deliver", "source")
  /\ UNCHANGED <<surface, pool, nodes, switches, stream, requested, acquired, collected>>

\* SourceNode::Process: fill the cache first, then exchange the new buffer for
\* the oldest of the cache.
FillCache ==
  /\ pc["deliver"] = "source" /\ cacheSize > 0
  /\ cache' = cache \o frame /\ cacheSize' = cacheSize - 1 /\ frame' = <<>>
  /\ Goto("deliver", "loop")
  /\ UNCHANGED <<surface, pool, switches, stream, requested, acquired, collected,
                 deviceBufferList>>

PassCache ==
  /\ pc["deliver"] = "source" /\ cacheSize = 0
  /\ IF cache = <<>>
     THEN UNCHANGED <<cache, frame>>
     ELSE frame' = <<cache[1]>> /\ cache' = Tail(cache) \o frame
  /\ Goto("deliver", "sink")
  /\ UNCHANGED <<surface, pool, cacheSize, switches, stream, requested, acquired,
                 collected, deviceBufferList>>

\* SinkNode calls DequeueBuffer: the buffer goes back to the pool, which keeps
\* it only if it is one of its own, and then to the surface.
ReturnBuffer ==
  /\ pc["deliver"] = "sink"
  /\ busy' = busy \ {frame[1]}
  /\ IF producer
     THEN Goto("deliver", "flush") /\ UNCHANGED <<idle, frame>>
     ELSE idle' = idle \o frame /\ frame' = <<>> /\ Goto("deliver", "loop")
  /\ UNCHANGED <<surface, nodes, switches, stream, requested, acquired, collected,
                 deviceBufferList>>

FlushBuffer ==
  /\ pc["deliver"] = "flush"
  /\ \/ flushed' = flushed \o frame /\ UNCHANGED <<lost, faults>>
     \/ lost' = lost \cup {frame[1]} /\ Fault /\ UNCHANGED flushed
  /\ frame' = <<>>
  /\ Goto("deliver", "loop")
  /\ UNCHANGED <<free, pool, nodes, switches, stream, requested, acquired, collected,
                 deviceBufferList>>

Deliver ==
  \/ Loop("deliver", running, "load")
  \/ LoadBuffer \/ FillCache \/ PassCache \/ ReturnBuffer \/ FlushBuffer
-----------------------------------------------------------------------------
(* The consumer thread of TestBufferQueueLoop.                             *)

TakeFlushed ==
  /\ pc["consume"] = "take"
  /\ IF flushed = <<>>
     THEN Goto("consume", "loop") /\ UNCHANGED <<flushed, acquired>>
     ELSE /\ acquired' = <<flushed[1]>> /\ flushed' = Tail(flushed)
          /\ Goto("consume", "release")
  /\ UNCHANGED <<free, lost, faults, pool, nodes, switches, stream, requested,
                 collected, frame, deviceBufferList>>

\* What the consumer fails to release is only not reported.
ReleaseBuffer ==
  /\ pc["consume"] = "release"
  /\ \/ free' = free \cup {acquired[1]} /\ UNCHANGED <<lost, faults>>
     \/ lost' = lost \cup {acquired[1]} /\ Fault /\ UNCHANGED free
  /\ acquired' = <<>>
  /\ Goto("consume", "loop")
  /\ UNCHANGED <<flushed, pool, nodes, switches, stream, requested,
                 collected, frame, deviceBufferList>>

Consume == Loop("consume", testRunning, "take") \/ TakeFlushed \/ ReleaseBuffer
-----------------------------------------------------------------------------
(* The test thread.                                                        *)

\* One iteration of StartExternalStream.  Both ways to fail skip the buffer;
\* one that was requested and not converted is not given back.
StartBuffer ==
  /\ pc["test"] = "start" /\ producer /\ started < QueueSize
  /\ started' = started + 1
  /\ LET b == started + 1 IN
     \/ /\ bufferVec' = bufferVec \cup {b} /\ idle' = idle \o <<b>> /\ free' = free \ {b}
        /\ UNCHANGED <<lost, faults>>
     \/ Fault /\ UNCHANGED <<bufferVec, idle, free, lost>>
     \/ Fault /\ free' = free \ {b} /\ lost' = lost \cup {b} /\ UNCHANGED <<bufferVec, idle>>
  /\ UNCHANGED <<producer, flushed, busy, nodes, switches, hands, deviceBufferList, pc>>

\* The enqueue thread and Pipeline::StartStream, which starts the other two.
StartThreads ==
  /\ pc["test"] = "start" /\ (producer => started = QueueSize)
  /\ pc' = [pc EXCEPT !["test"] = "run", !["enqueue"] = "loop",
                      !["collect"] = "loop", !["deliver"] = "loop"]
  /\ UNCHANGED <<surface, pool, nodes, switches, stream, hands, deviceBufferList>>

\* The seconds are over.
StopTest ==
  /\ pc["test"] = "run"
  /\ testRunning' = FALSE
  /\ Goto("test", "joinEnqueue")
  /\ UNCHANGED <<running, surface, pool, nodes, stream, hands, deviceBufferList>>

JoinEnqueue ==
  /\ pc["test"] = "joinEnqueue" /\ pc["enqueue"] = "ended"
  /\ running' = FALSE
  /\ Goto("test", "joinCollect")
  /\ UNCHANGED <<testRunning, surface, pool, nodes, stream, hands, deviceBufferList>>

JoinCollect ==
  /\ pc["test"] = "joinCollect" /\ pc["collect"] = "ended"
  /\ Goto("test", "joinDeliver")
  /\ UNCHANGED <<surface, pool, nodes, switches, stream, hands, deviceBufferList>>

JoinDeliver ==
  /\ pc["test"] = "joinDeliver" /\ pc["deliver"] = "ended"
  /\ Goto("test", IF producer THEN "joinConsume" ELSE "over")
  /\ UNCHANGED <<surface, pool, nodes, switches, stream, hands, deviceBufferList>>

JoinConsume ==
  /\ pc["test"] = "joinConsume" /\ pc["consume"] = "ended"
  /\ Goto("test", "over")
  /\ UNCHANGED <<surface, pool, nodes, switches, stream, hands, deviceBufferList>>

Join == JoinEnqueue \/ JoinCollect \/ JoinDeliver \/ JoinConsume

Next == Enqueue \/ Collect \/ Deliver \/ Consume
          \/ StartBuffer \/ StartThreads \/ StopTest \/ Join

Spec == Init /\ [][Next]_vars

\* The threads of the process are scheduled, and AcquireBuffer's three seconds
\* go by.  When the test stops is open.
Fairness ==
  /\ WF_vars(Enqueue) /\ WF_vars(Collect) /\ WF_vars(Deliver) /\ WF_vars(Consume)
  /\ WF_vars(Join)

FairSpec == Spec /\ Fairness
-----------------------------------------------------------------------------
(* Properties.                                                             *)

TypeOK ==
  /\ producer \in BOOLEAN
  /\ free \subseteq Buffers /\ lost \subseteq Buffers
  /\ bufferVec \subseteq Buffers /\ busy \subseteq Buffers
  /\ {flushed, idle, deviceBufferList, cache} \subseteq Seq(Buffers)
  /\ {requested, acquired, collected, frame} \subseteq {<<>>} \cup {<<b>> : b \in Buffers}
  /\ cacheSize \in 0 .. CacheSize
  /\ testRunning \in BOOLEAN /\ running \in BOOLEAN
  /\ started \in 0 .. QueueSize /\ faults \in 0 .. MaxFaults
  /\ pc \in [Threads -> TestPCs \cup ThreadPCs]

\* The buffers between AcquireBuffer and ReturnBuffer, the oldest first.
Outgoing == IF pc["deliver"] = "sink" THEN frame ELSE <<>>
Incoming == IF pc["deliver"] = "source" THEN frame ELSE <<>>
Flushing == IF pc["deliver"] = "flush" THEN frame ELSE <<>>
Line == Outgoing \o cache \o Incoming \o deviceBufferList \o collected

\* Whatever the threads do in between, every buffer is in one place and no
\* more: no two lists, and no two threads, ever have the same buffer.
OneHolder ==
  LET held == requested \o idle \o Line \o Flushing \o flushed \o acquired IN
  /\ IsInjective(held)
  /\ Buffers = ToSet(held) \cup free \cup lost
  /\ ToSet(held) \cap (free \cup lost) = {} /\ free \cap lost = {}

\* The pool has lent what is in the pipeline: it has a buffer back before the
\* surface's consumer can have it and the enqueue thread add it again.
PoolHasLentTheLine == busy = ToSet(Line)

\* As long as the test runs, and one buffer more goes round than the source node
\* keeps back, buffers come out of the pipeline.
Circulating == IF producer THEN bufferVec \ lost ELSE Buffers
Enough == Cardinality(Circulating) > CacheSize

LoopTurns ==
  (pc["test"] = "run" /\ Enough /\ pc["deliver"] # "sink")
     ~> (pc["deliver"] = "sink" \/ pc["test"] # "run" \/ ~Enough)

\* The test gets through its joins, whatever the threads are waiting for.
TestEnds == pc["test"] \notin {"start", "run"} ~> pc["test"] = "over"

\* Buffers come out of the pipeline in the order in which they were acquired.
Order == INSTANCE FrameOrder WITH line <- Line
OrderSpec == Order!Spec
=============================================================================
