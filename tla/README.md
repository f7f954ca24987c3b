# A verification project for the HATS suites (xts_hats)

The repository is OpenHarmony's HATS: the compatibility suites that test a
device's hardware abstraction layer (HDI services, kernel system calls, drivers).
Most of its 1500 source files are test cases that make one call and compare one
result; there is nothing in them for a model checker. Between them lies a small
amount of real program: the harness code that several suites share, with threads,
callbacks from the services under test, queues, caches, timeouts and tear-downs.
When that code is wrong, a suite hangs, crashes or, worse, passes a device that
fails. This project models that code.

The service, the driver, the surface, the allocator or the component a suite
talks to is never part of the repository. It is modelled from how the code uses
it: it may answer late, never, or with an error, and it promises only what the
property at hand says it promises.

Contents: [inventory](#inventory), [modules and code](#modules-and-the-code),
[runs](#runs), [bounds](#bounds), [fairness](#fairness), [proofs](#proofs),
[what the code does not guarantee](#what-the-code-does-not-guarantee),
[what is not modelled](#what-is-not-modelled), [plan](#plan).
`PROJECT.json` lists components, runs, mutants, hazards, findings and theorems, and
maps every definition to the lines it translates.

## Inventory

| Component (source) | State | Operations | Interacts with | Correct when |
|---|---|---|---|---|
| **TimeOutExecutor** (`hdf/camera/common/include/TimeOutExecutor.h`) | per call: mutex, condition variable, `is_detach`, the caller's result variable | `Execute`: start a worker, wait at most `_timeout`, join or give up | caller thread, one worker per call, the clock | nobody writes the caller's variable after `Execute` returned; SUCCESS means the value is there; every call returns |
| **Composer display and layers** (`hdf/display/composer/common/hdi_test_display.cpp`, `hdi_test_layer.cpp`, `hdi_composer_utils`) | `layerMaps_`, `clientLayer_`, `currentFb_`, `needFlushFb_`; per layer the front and back queues, `currentBuffer_`, per buffer `cacheValid_` | create and init a layer, prepare, refresh types, commit, fences, `SnapShot`, `Clear`, `ResetClientLayer` | composer device and buffer allocator, either may fail at any call; tests that go to the device past the display | buffers are neither lost nor doubled, failures are accounted for, the frame on screen is not painted over, presents of a working device succeed |
| **RIL callback** (`telephony/ril/hdi_v1.0/hdf_ril_hdiService_test.cpp`, `hdi_v1.1_additional/hdf_ril_callback_common.cpp`) | `hdiId_`, `resultInfo_`, `g_currentSerialId`, `isReady_`, one flag per request kind, mutex and condition variable | a test's `GetSerialId`, request, `WaitFor`, `GetBoolResult`; the handlers on IPC threads, `NotifyAll`, `SimStateUpdated` | test thread, IPC threads of the RIL service | an answer to another request neither wakes nor passes a test, its own answer does |
| **Stream consumer** (`hdf/camera/cameraMg/v1_0`, copied by the later versions) | the listener's flag, `running_`, the consumer's thread, the surface's queue | `StartStream`, `StartCapture`, `StopStream`, destruction; `OnBufferAvailable`; the polling thread | test thread, consumer threads, driver | a stream never stalls although notifications merge; no callback after destruction; joins return |
| **Camera buffer loop** (`hdf/camera/cameraHdi/buffer_manager`) | pool lists, device list, the source node's cache, `bufferVec_`, two `running` flags | enqueue, collect, deliver, consume, start, stop | five threads, surface, pool | every buffer has one holder, frames stay in order, the loop turns, the stop gets through its joins |
| **Codec buffer utility** (`hdf/codec/hdi_idlomx/codec_function_utils.cpp`) | `inputBuffers_`, `outputBuffers_` | use, fill and empty, free the buffers of a port; `WaitState`; tear-down | test thread, the component's own thread | memory stays mapped while the component has it, everything is taken back, the poll does not overtake the component |
| **Display device registry** (`hdf/display/composer/common/hdi_test_device.cpp`) | `displays_`, `displayIds_` | `InitDevice`, `HotPlug`, `FindDisplayOrCreate`, `GetDevIds`, `GetFirstDisplay` | composer's callback thread, test thread, no lock between them | an id that is listed has its display; the display a test holds stays the registered one |
| **Vblank counter** (`VblankCtr` of `hdf/display/composer/unittest`) | `hasVblank_`, mutex and condition variable | `NotifyVblank`, `WaitVblank`; `hasVblank_ = false` of the test | composer's callback thread, test thread, the clock | a vblank that has come ends the wait; after vsync is off a wait times out |
| **eventfd2 tests** (`kernel/syscalls/async/eventfd2`) | one descriptor's counter, a `totalRead` per worker | 4 to 32 writers and readers, a child process, joins, `waitpid`, a pipe | test thread, workers, child, kernel | no interleaving loses or doubles a unit, the expected sums hold, every test ends |
| Sensor subscriptions (`hdf/sensor/sensorMultiThreadTest`) | a counter per callback | subscribe, `OnDataEvent` | test threads, IPC threads | not modelled: the counts are printed and decide nothing |
| All other suites (audio, USB, WLAN, Bluetooth, NFC, location, input, light, motion, vibrator, power, thermal, startup, user authentication, distributed camera, neural networks, HDF manager, kernel) | none that outlives a call | one call, one comparison | the service or kernel under test | not modelled, see below |

The hard behaviours, in the order in which they hurt a suite:

* **Late answers.** Every suite gives up on a service after a timeout and goes on;
  the answer it gave up on still comes (TimeOutExecutor's detached worker, the RIL
  handlers, the codec's state).
* **Notifications that merge or get lost.** One boolean stands for any number of
  filled buffers (StreamConsumer); a condition variable is waited on without a
  predicate (TimeOutExecutor, RilCallback).
* **A failing call in the middle.** Presents that fail between the two swaps of the
  client layer, loop starts that skip a buffer, codec tests that abort anywhere, a
  thread or a child that cannot be started.
* **Containers without a lock.** The composer's thread fills the display registry while
  the test thread reads it.
* **Buffers that pass through many hands**, some of them other processes'.
* **Tear-down and restart** while threads and the service are still at work.

The 40 hazards in `PROJECT.json` give each of them a line and the properties that
would catch it, or the reason why none does.

## Modules and the code

A step of a model is what the code does without another thread being able to see
its middle: a block under a mutex is one action, two unlocked reads of a shared
member are two.

### TimeOutExecutor, TimedCall

`TimedCall` is the promise to the caller: a call may write the caller's variable
once and only while it runs; it returns SUCCESS only after that, or TIMEOUT.
`TimeOutExecutor` is `Execute` with its worker. `pc[c]` and `worker[c]` say where
the caller and the worker of call `c` are; mutex, flag and result are those the
lambda captures. `Execute`/`StartWait` are lines up to `wait_for`; `ReturnTimeout`,
`WakeToJoin` and `ReturnSuccess` its outcomes; `PassBarrier`, `Invoke` and `Publish`
the worker's two locked blocks and the function in between. Workers of calls that
timed out run on during later calls. `SpuriousWakeups` lets `wait_for` return
without cause, as the C++ standard allows. `AbstractSpec` is the refinement, with
`running <- Executing`.

### LayerBuffers, HdiTestDisplay

`LayerBuffers` holds the operators of one `HdiTestLayer`: `NewLayer` (`Init`),
`SwapFrontToBackQ`, `SwapBackToFrontQ`, `AcquireBackBuffer`; a buffer is its
`seqNo_`. `HdiTestDisplay` is the display with its layers and client layer, and what
the test drivers do with it: `CreateTestLayer`, `PrepareAndCommit` step by step
(`PreparePresent` and its three ways to fail, `DevicePrepares`,
`RefreshLayersCompType`, `CommitFlush`, `DeviceCommits`, `GetLayersReleaseFence`,
`CommitSwapsBack`), `CheckSnapShot`, `Clear`, `ResetClientLayer`, and the unit
tests' `DestroyLayer` and `ClearClientBuffer`, which go to the device past the
display. The device's side is `devLayers` and `devClient` (what it has been given a
handle for), `onScreen`, and `Fault`: up to `MaxFaults` calls fail, anywhere. A null
pointer that is dereferenced is `pc = "crashed"`. `setting`, chosen once, says what
the suite does besides the display's own calls (`resets`, `destroys`, `clears`) and
whether `GetDisplayReleaseFence` is among the calls that may fail (`fences`), so that
one run covers suites of each kind and a property can name the kind it is about.
`flushed`, `lost` and `faults` are history.

### HdiTestDevice, VblankCtr, DeviceTest

`HdiTestDevice` is the registry: `HotPlug` starts a call on the composer's thread,
which then goes through `EmplaceDisplay`, `BeginPush` and `EndPush`; a display object
is the number of the call that made it, so that the second object of an output that
is plugged in again can be told from the first. The test's lookups are the
operators `GetDevIds` and `GetFirstDisplay`. A copy of the vector while it grows is
undefined behaviour: `CopyTornIds` takes the test to the place "undefined".
`VblankCtr` is the callback counter: `NotifyVblank` under the mutex; `WaitVblank`
as `TestPredicate`, `WakeSpuriously`, `Expire` and `AnswerExpired` (the timeout comes
before the mutex is back, and a vblank in between counts). `DeviceTest` composes both
into a suite: `SetUpTestCase` (`InitDevice`, `CopyDevIds`, `AssertIds`), the test of
the vblank callback from `FindDisplay` to `EndWaitAgain`, and `TearDownTestCase`.
`prompt` says whether the test's `usleep` outlasts the callbacks that were under way.

### RilCallback

`test` is the test thread: `DrawSerial`, `Send`, `CleanBeforeWait` (`WaitFor` calls
`Clean` before it takes the mutex), `Sleep`, `Wake`, and `LookForNone` and
`CompareId`, the two unlocked looks of `GetBoolResult`. `handler[t]` is an IPC thread:
`Receive` (flag, `hdiId_`), `StoreInfo` (`resultInfo_`), then `NotifyAll` under the
mutex: `CheckSerial` and `Notify` or `Drop`. `SimStateUpdated` sends a request, and
draws a serial, on the IPC thread. `RecordsSerial` is the difference between the
two copies of the class: the v1.1 copy never stores the serial it draws, and its
tests may send any number twice (`Repeats`), 0 included, with which the member that
is never stored starts. `named` and
`told` are history: which answers have written `hdiId_` since the test's `Clean`,
and `resultInfo_` ever.

### StreamConsumer

A consumer is numbered by the `StartStream` that made it. Its thread goes through
`EnterLoop`, `LookAtFlag`, `ClearFlag` (two steps: the listener may set the flag in
between), `AcquireBuffer`, `ReleaseBuffer`, `Rest`; the driver through
`RequestBuffer`, `FlushBuffer`, `OnBufferAvailable`; the test through
`CreateProducer`, `ReplaceConsumer`, `JoinThread`, `CreateStreams`, `StartCapture`,
`StopStream`, `DropTest`, `JoinLast`. `consumerMap_[intent] = consumer` destroys the
consumer it held, which is a step that clears `running_` and one that joins.

### BufferLoop, FrameOrder

One action per unlocked step of the five threads of `TestBufferQueueLoop` and
`TestTrackingBufferLoop`, for a stream with a producer (`StartExternalStream`) and
one without. `FillCache` and `PassCache` are the two branches of
`SourceNode::Process`; `ReturnBuffer` and `FlushBuffer` the two halves of
`DequeueBuffer`; `StartBuffer` one iteration of the start with both of its failures.
`FrameOrder` is a plain queue; `Order` maps it to the buffers between the pool's
`AcquireBuffer` and `ReturnBuffer` (`Line`), oldest first, wherever they are.

### FunctionUtil

The encoder's and decoder's tests as one program (`pc`, `todo`, `count`), with
the call that fails next as a choice (`Abort`). `flow` picks the kind of test: the
buffer types of the two ports, the type `FillAndEmptyAllBuffer` is called with, and
whether its answer is asserted. `WaitState` is one poll. `BeginFree`, `FreeBuffer` and
`EndFree` are `FreeBufferOnPort`: `buffer` is a reference to `inputBuffers_`, so for
the output port the assignment overwrites the input map. The component works on its
commands in order; `prompt` says whether it is done with what it can do by the time
a `WaitState` runs out of polls.

### Eventfd2ApiTest

One program for the nine tests that share a descriptor: `test` is a record of what
the test's code fixes (flags, first value, workers, when the test thread reads, which
totals its EXPECTs allow), and the actions are those the tests have in common.
`Create` and `CreateFails` are the loops of `pthread_create` and the `fork`;
`ReadPipe` the parent's wait for its child; `Read` and `Join` the test thread;
`ThreadWriteFunc`, `ThreadReadFunc` and `ThreadEnds` the workers. A system call on the
eventfd is one step: the kernel is outside the repository and the tests take it
to be atomic. `ReadTiming_0055` and the other tests carry the number of the case.

Operators named "Mutated form of ..." are slips a programmer could make. None is part
of a specification; each shows which property would notice it.

## Runs

| Run | Configuration | Result | What it shows |
|---|---|---|---|
| `timeout_calls` | `MCTimeOutExecutor_calls.cfg` | passes | no write after return, no join of a worker that still needs the caller's mutex, `TimedCall` is implemented (so SUCCESS means delivered), a delivered value ends its call even if the clock stands still, every call returns if the clock goes on |
| `timeout_spurious` | `MCTimeOutExecutor_spurious.cfg` | violates `ExecuteReturns` | after a spurious wake-up the caller joins with the mutex locked and the worker waits for it: both hang |
| `display_all` | `MCHdiTestDisplay_all.cfg` | passes, 4.4 M states | whatever fails, queues keep their buffers and the backlog of the client layer is exactly the lost flushes; presents succeed until something fails, the frame on screen is never painted over, a handle is left out only for buffers the device knows, each as far as the setting allows |
| `display_reset` | `MCHdiTestDisplay_reset.cfg` | violates `PresentSucceedsAfterReset` | the module tests' tear-down drops the client layer of a display that stays registered; the next present that needs it dereferences null |
| `ril_suite` | `MCRilCallback_suite.cfg` | passes, 1 M states | v1.0: a match is fresh, a mismatch is foreign, one's own answer alone is never taken for a timeout, notifications are one's own, one's own answer notifies |
| `ril_unstored` | `MCRilCallback_unstored.cfg` | violates `OwnAnswerNotifies` | v1.1: the answer to a request under a drawn serial does not wake its test, which sleeps out its 20 s |
| `stream_restart` | `MCStreamConsumer.cfg` | passes, 110 k states | a set flag has a buffer behind it, a full queue is never left asleep, no thread runs on a destroyed consumer, frames keep coming, replaced consumers end |
| `buffer_loop` | `MCBufferLoop.cfg` | passes, 418 k states | one holder per buffer, the pool has lent what is in the line, frame order, the loop turns exactly if more buffers circulate than the cache keeps back, the stop ends |
| `codec_flows` | `MCFunctionUtil_flows.cfg` | passes, 3.8 k states | memory stays mapped, nothing is left with the component, nothing is freed while it is queued, the poll is never too short by one |
| `codec_slow` | `MCFunctionUtil_slow.cfg` | violates `TrueMeansReached` | `WaitState` returns true, and the test's assertion holds, for a component that is not in the state |
| `device_test` | `MCDeviceTest.cfg` | passes, 2.1 M states | whoever has an id gets its display, the display a test holds stays the registered one although outputs are plugged in again, a wait after vsync is off times out |
| `eventfd_threads` | `MCEventfd2ApiTest.cfg` | passes, 67 k states | every unit written is in the counter, in a worker's total or in the test's, the EXPECTs hold under every schedule, every test ends |

The four violations are the findings of `PROJECT.json`, each with the line of the
repository it contradicts. Deadlock is not checked where the modelled program ends
(a suite that is over) or may crash; in `RilCallback` it is, with `SuiteOver` as the
end.

## Bounds

* **TimeOutExecutor**: three calls, so that two given-up workers are at large during
  a third call. A worker interferes with a call only through what is shared, and a
  call shares its state with its own worker alone; two calls would do.
* **HdiTestDisplay**: `BufferCount = 3` as in the code. `display_all` has `MaxSeq = 9`
  buffers: the client layer and two layers, at once or one after the other under one
  id, and three failing calls, as many as it takes to leave the client layer without a
  front buffer; its settings are "nothing but the display's own calls" and
  "everything at once". `display_reset` needs no failing call and one layer. Layer
  ids are symmetric (the runs check invariants only). The proofs are for any of these
  numbers and any set of settings.
* **RilCallback**: three requests of two kinds: one given up, the current one, and
  either a second late one or the one `SimStateUpdated` sends; one IPC thread, as
  the properties say that need it; 0 is among the serials in both runs. The proofs are for any number of threads.
* **StreamConsumer**: `QueueSize = 8` as in the code; two starts, one replacement.
  Consumers share nothing but the test thread, so a third adds nothing new.
* **BufferLoop**: five buffers (seven in the code), `CacheSize = 3` as in the code, two
  failing calls: 5 - 2 = 3 is the case in which the cache swallows all, and
  5 - 1 = 4 the smallest loop that turns.
* **FunctionUtil**: two buffers per port, so that a loop can fail in its middle;
  `MaxWait = 2` (50 in the code), so that there is a first, a middle and a last poll.
  The proofs are for any number of either.
* **DeviceTest**: outputs 1, 2 and 3 (the first display is the one with the lowest id,
  so the order matters and they are no model values); four calls of `HotPlug`, so
  that an output comes a second time and another in between; three vblanks: one
  before the flag is reset, one to be waited for, one under way when vsync goes off.
* **Eventfd2ApiTest**: `Threads = 2` (4 and 32 in the code), the fewest that can get in
  each other's way on each side; four writes and reads each and six units, so that
  test 0076 has reads to spare as in the code (4 x 50 for 100).

## Fairness

Safety runs need none. Otherwise: a thread of the test process that can run is
scheduled (weak fairness of its steps), and the timeouts of `wait_for`, `AcquireBuffer`
and `usleep` come, because the system's clock does. Beyond that nothing is given:

* `TimeOutExecutor`: the function under `Invoke` may never return. That the clock goes
  on is an antecedent of `ExecuteReturns`; `DeliveryEndsTheCall` does without it.
  Mutexes are only held across steps that are fair themselves, so weak fairness
  suffices for those who wait.
* `StreamConsumer`: the driver owes nothing; that it goes on is an antecedent of
  `FramesKeepComing`. The test is fair only inside `StartStream` and destructors.
* `BufferLoop`: each thread is fair; when the test stops, if ever, is left open.
* `Eventfd2ApiTest`: the test thread and each worker or child are scheduled. A parent
  whose `fork` failed waits in the blocking `read` of the eventfd for good; `TestEnds`
  names that end.

`RilCallback`, `FunctionUtil`, `HdiTestDisplay` and `DeviceTest` are checked for safety
alone.

## Proofs

The theorems hold for every value of the constants under the named assumptions of
the modules (positive sizes, distinct model values); the runs hold for the values
above. Each inductive invariant was checked by TLC before it was proved. The type
invariants of `TimeOutExecutor`, `RilCallback` and `StreamConsumer` are proved and not
checked by a run.

* **TimeOutExecutorProofs** (any set of calls, with or without spurious wake-ups): `TypeCorrect`,
  `SuccessDelivers`, `NoLateWrite`, `Implements`, the refinement of `TimedCall`, and
  `NoNotificationIsLost`, `OnlySpuriousWakeupsHang`, `HangIsForGood`.
  `SuccessMeansDelivered` says nothing of the middle of a call, `JoinsOnlyTheDone` (proved
  as `OnlySpuriousWakeupsHang`) nothing of how the caller woke up. `MutexInv` says who
  owns the mutex at each place, `CallInv` that flag, status and result agree, `OneCall`
  that the caller is one thread; a worker that tests `is_detach` under the mutex can
  then only write while its call is running. Every step maps to one of `TimedCall` or
  to none. `WakeInv` says that a value delivered to a sleeping caller comes with a
  notification, and that a caller who joins with the mutex in hand joins a worker that
  is through with it, unless the wake-up was spurious. So a spurious wake-up is the
  only cause of the hang the run `timeout_spurious` finds, and there is no way out of it.
* **RilCallbackProofs** (any kinds, serials, number of IPC threads): `TypeCorrect`,
  `NothingLeftBehindPasses` and `LateAnswersWakeNobody`. `FreshInv` carries "what
  `hdiId_` names has come since `Clean`" through the unlocked wake-up and both
  looks. `OwnInv` needs serials that are stored and distinct, and holds until a
  `SimStateUpdated`, hence the antecedent of the theorem: then a stored serial
  tells whose answer was stored, and a handler that compared still holds the mutex
  when it signals. `MismatchIsForeign`, `OwnAnswerStays` and `OwnAnswerWakes` assume one
  IPC thread (`OneThread`), as their properties do. `ServedInv` then says that no other handler
  comes between the steps of one: while the test's own answer is the only one that
  came since `Clean`, `hdiId_` is the test's and nobody takes it back.
  `MutexIsGivenBack` (`HolderInv`): only a handler between its comparison and its
  signal has the mutex. `OwnAnswerStays` is the other half of `MismatchIsForeign`: no
  timeout either, if the test's own answer came alone. `UnstoredSerialsWakeOnlyZero` (`MuteInv`)
  and `UnstoredSerialsDropTheRest` (`ZeroInv`, one IPC thread) are the finding about the
  v1.1 copy for any requests, any driver and any updates: with no serial stored a handler
  finds equal what was asked under the serial 0, and nothing else.
* **StreamConsumerProofs** (any queue size, any number of restarts): `TypeCorrect`, `FlagIsHonest`,
  `StreamsDoNotStall`, `NoLateCallback`, `JoinsAStoppedThread`, `StoppedThreadsRunOut`. `FlagMeansQueued` alone is not inductive:
  a thread that has cleared the flag and a driver that is about to set it need a
  buffer each. `QueueInv` counts them: `Announced(c) <= queued[c]`. `OrderInv` says
  that of all consumers only the current one and the one in the making may run.
  `RunInv` ties `running_` and the thread to the place of the test; `StepsLeft` counts what a
  stopped thread still has to do, and none of it waits.
* **BufferLoopProofs** (any buffers, any cache size, any number of faults):
  `TypeCorrect`, `EveryBufferHasOneHolder`, `PoolCountsTheLine`, `PipelineIsAQueue`,
  the refinement of `FrameOrder`; `OutOnlyIfEnough`, `TheCacheIsNeverAll`, `TooFewForGood`;
  `JoinsStoppedThreads`, `StoppedThreadsRunOut`. `HomeInv` gives every buffer one home among lists and
  threads' hands, `UniqueInv` says that no list has a buffer twice, `PlaceInv` at
  which places a thread has one in hand, `StartInv` that the start has not touched the
  buffers above its count, `BusyInv` that the pool has lent what is in the line. Each
  step then appends to `Line`, takes its head, or leaves it. `CacheInv` (cached and still
  wanted buffers make up the size; nothing passes before the cache is full) and
  `KnownInv` (only buffers `bufferVec_` knows are in the pipeline), with one home for
  each, give `CacheSize + 1` different buffers whenever one comes out, all of
  them among those that go round. `StopInv` says which flags are down at each join, `Left` how
  many steps a stopped thread is from its end.
* **HdiTestDisplayProofs** (any finite set of layers, any number of buffers, of failures
  and of commits, any settings): `TypeCorrect`, `LayersKeepTheirBuffers`, `BacklogIsExact`,
  `ScreenIsNotCleared`, `HandlesAreKnown`, `PresentsSucceed`, that is, every property
  of `display_all`. Lemmas say what a queue move does to a well-formed layer: it keeps
  the set of its buffers. `BufferInv` keeps layers apart, since a new buffer's
  number is above all old ones. `FlushInv` counts lost flushes against the back queue.
  `ScreenInv` says that between presents the buffer on the screen is the newest of its
  layer, while `GetBackBuffer` takes the oldest: with two buffers or more these differ,
  hence the assumption `BufferCount > 1` of `ScreenIsNotCleared`. `DeviceInv` says which handles
  the device has, `CalmInv` what a run without failures is like, `VisitInv` that the
  loop over `layerMaps_` leaves no layer out.
* **DeviceTestProofs** (any outputs, any number of plug-ins and vblanks): `TypeCorrect`,
  `IdsAreServed`, `HeldStaysRegistered`, `DisabledVsyncIsSilent`, and `NoVblankIsMissed`:
  `WaitVblank` never sleeps on a raised flag. `IdsInv` says that an id is
  pushed only after its display was emplaced, and that what the test copied was pushed
  before; `QuietInv` that nothing is left to raise the flag once vsync is off and
  a prompt composer has run what it had sent.
* **Eventfd2ApiTestProofs** (any number of threads, writes, reads and units):
  `TypeCorrect`, `NoThreadOutlivesItsTest`, `UnitsAreConserved`, `ExpectsHold`,
  `NobodyWaitsForNothing`. `PlaceInv` says which workers exist at each place of the test,
  `JoinInv` that those joined have ended. The sums over the workers are recursive
  functions. That they exist takes an induction over the naturals, which the module
  derives from the facts about finite sets (a finite set has no injection onto a part
  of itself); `SumUpdate` and `SumConstant` then are all the proof uses of them. `Ledger`
  is `Conserved` with every worker's account named. `StartedInv` gives the total of a test
  that reads before its joins, `EmptiedInv` that the last read of the others leaves
  nothing behind, `PlentyInv` that in test 0076 no read comes away empty while units are
  left, `BirthInv` which workers exist when a `fork` or a thread's start fails.
* **FunctionUtilProofs** (any number of buffers, any `MAX_WAIT`): `TypeCorrect`,
  `MemoryStaysMapped`, `WaitStateSees`, `FreedIsReturned`, `NothingIsLeft`. What
  protects the tests from the overwritten map is the order in which they free the
  ports: `MapInv` says what the maps cover at each place of the test. `LentInv` and
  `BehindInv` say which buffers the component has and how far behind it can be at
  each place; at the last poll `~CanChange` then leaves it only the state it was
  asked for. One lemma per part of the invariant, one case per group of actions.

Only model-checked:

* Liveness (`ExecuteReturns`, `DeliveryEndsTheCall`, `FramesKeepComing`,
  `DestructorReturns`, `LoopTurns`, and the two `TestEnds`): fairness and ENABLED are
  outside the prover. What these need besides a scheduler is a theorem for each of
  them: nobody sleeps without somebody to wake him (`NoNotificationIsLost`,
  `StreamsDoNotStall`, `TheCacheIsNeverAll`, `NobodyWaitsForNothing`), and what is joined
  runs out of steps (`OnlySpuriousWakeupsHang`, the two `StoppedThreadsRunOut`).

## What the code does not guarantee

Met while modelling, and kept out of the properties on purpose:

* **TimeOutExecutor** hangs after a spurious wake-up (finding).
* **Display**: after `GetDisplayReleaseFence` has failed, the next present paints over
  the frame on screen (`NeverClearsOnScreen` is about suites without
  `setting.fences`), and a layer with a single buffer is painted over at every frame.
  After the unit tests' `DestroyLayer`, which leaves the layer in
  `layerMaps_`, every later present fails. After a present that the device composed
  alone, `SnapShot()` still answers the client buffer of an earlier one.
* **Display registry**: `GetFirstDisplay` answers another display once a lower output is
  plugged in. A test that copies `displayIds_` while a plug-in makes it grow may copy
  anything. An output that comes again is created and initialised a second time, and
  listed twice; the second object is dropped.
* **RIL**: a test whose answer comes between the request and `WaitFor` loses it to
  `Clean`, sleeps out its timeout, and passes, because `GetBoolResult` takes
  HREQ_NONE for a pass. With two IPC threads a late serial stored between two steps of
  the right handler drops the right answer. A late answer sets the flag that a later
  test of the same kind looks at. The v1.1 copy wakes a test only by an answer to a
  request under the serial 0, which some of its tests send; all others sleep their
  timeout out (finding).
* **Stream consumer**: after `StopStream` up to `QueueSize - 1` frames stay in the queue.
  `shotCount_` wraps below zero; nobody waits for it.
* **Buffer loop**: if no more than three buffers survive the start, nothing ever comes
  out, no thread stands still, and no assertion of `TestBufferQueueLoop` notices. The
  comment "3:Minimum number of buffer rotation" beside `AcquireBuffer(3)`
  (`buffer_manager_utest.cpp:717`) calls a timeout in seconds a number of buffers.
  Buffers the start skips because a call failed are lost to the loop for good.
* **eventfd2**: a parent whose `fork` failed, which is only EXPECTed not to happen, gets
  past the pipe, of which it has closed the end for writing, and then waits for good in
  the blocking `read` of the eventfd for what no child has written.
* **Codec**: `WaitState` answers true whatever it saw (finding).
  `FillAndEmptyAllBuffer` only queues buffers of the type it is called with: in the
  tests that use two types one port's buffers are never filled or emptied.

## What is not modelled

* The suites that call once and compare. This is nearly all of the repository: of some
  158 000 lines of implementation about one in a hundred belongs to the
  components above, and the map covers hardly more than these. The rest (the largest
  files are the RIL, audio and display-buffer test cases) is test bodies that fill
  in parameters, make one call to a service outside the repository, and compare its
  answer; nothing of theirs outlives the call. A model of them would have to invent
  the service, and would then check the invention. So the share of mapped lines
  stays near one per cent, however many of these bodies were listed.
* Of the display: a `RegHotPlugCallback` that fails (the code ignores it; nothing is then
  plugged in), mode and capability queries, VBlank pass-throughs, pixel checks, and
  release fences' descriptors (`SetReleaseFence` leaks every one, unconditionally).
* Of the camera: a surface or a `Stream::Init` that fails at the start, `CalculateFps`, `DumpImageFile`, the v4l2 `StreamCustomer` (a
  simpler consumer, without a flag; destroyed without `ReceiveFrameOff` it leaves a
  joinable thread, which ends the process), `BufferTracking`, the tests of the pool
  alone, the LITE build, the services' `Init`, `Open` and `Close`.
* Of the codec: port parameters, the kinds of memory behind a buffer, the extra
  `UseBuffer` under SUPPORT_OMX_EXTEND, tests of one raw call. `DestroyComponent` is
  taken to succeed: the tests ignore its answer and drop the component anyway.
* Of the kernel suites: the helper threads of the wait4, inotify and pipe2 tests (one
  sleep and one call each), and a `pipe` that fails in the eventfd2 tests.
* The sensor tests' counters: incremented on IPC threads without a lock, printed, and
  compared with nothing.
* The USB serial `WaitForOffline`, which nobody calls.
* Build files and the test runner: command lines, no state.

## Plan

Done, in this order: TimeOutExecutor (smallest, used by the camera suites, with its
abstract specification), the display, the RIL callback, the stream consumer, the buffer
loop, the codec utility; the display registry with the vblank counter and the suite
that uses both; the eventfd2 tests with their threads. Proofs followed each, until every
safety property of every passing run had its theorem.

What is left is small, and would be added as modules of the same kind: the v4l2
`StreamCustomer` with `TestDisplay`; the release fences' descriptors of a layer; the pool's
own tests.
