---------------------------- MODULE FunctionUtil ----------------------------
(***************************************************************************)
(* How the codec tests drive a component: FunctionUtil of hdf/codec/hdi_   *)
(* idlomx (codec_function_utils.cpp) and the tests that use it, up to their*)
(* tear-down.  A test asks for a state, gives the component the buffers of *)
(* a port, polls the state, queues buffers, takes everything back.         *)
(*                                                                         *)
(* The component is outside the repository.  It works on its commands in a *)
(* thread of its own, in order: it becomes IDLE when both ports have their *)
(* buffers and LOADED when it has none, and hands the queued buffers back  *)
(* when it leaves EXECUTING.  Any call may fail; a test whose assertion    *)
(* fails goes to its tear-down.  A buffer is its port and the id it has    *)
(* there, which the component chooses.                                     *)
(***************************************************************************)
EXTENDS Naturals, Sequences

CONSTANTS BufferCount,   \* nBufferCountActual of either port
          MaxWait        \* MAX_WAIT (50 in the code)

ASSUME FunctionUtilAssumption == BufferCount \in Nat \ {0} /\ MaxWait \in Nat

Ports   == {"input", "output"}
Buffers == [port : Ports, id : 1 .. BufferCount]
OnPort(p) == {b \in Buffers : b.port = p}

\* The tests: the buffer type of either port ("none": the test leaves the port
\* alone), the type FillAndEmptyAllBuffer is called with ("none": it is not),
\* and whether its answer is asserted.
Flows == {
  [input |-> "dynamic", output |-> "ashmem", fill |-> "dynamic", checked |-> TRUE],
  [input |-> "ashmem",  output |-> "ashmem", fill |-> "ashmem",  checked |-> TRUE],
  [input |-> "ashmem",  output |-> "handle", fill |-> "handle",  checked |-> FALSE],
  [input |-> "ashmem",  output |-> "none",   fill |-> "none",    checked |-> TRUE],
  [input |-> "none",    output |-> "ashmem", fill |-> "none",    checked |-> TRUE]}

VARIABLES
  flow,                         \* the test that runs
  prompt,                       \* does the component work off what it can
                                \* within MaxWait polls?
  pc,                           \* the test: where it is
  todo,                         \* ... the buffers its loop has still to visit
  count,                        \* ... of WaitState
  answered,                     \* what the last WaitState that returned true
                                \* was asked for, and what it saw last
  inputBuffers, outputBuffers,  \* the maps of func_
  state, commands,              \* the component: its state, what it was told
  held,                         \* ... the buffers it was given with UseBuffer
  queued                        \* ... those it was given to fill or to empty

maps      == <<inputBuffers, outputBuffers>>
component == <<state, commands, held, queued>>
scenario  == <<flow, prompt>>
vars == <<scenario, pc, todo, count, answered, maps, component>>

Type(b) == flow[b.port]

Init ==
  /\ flow \in Flows /\ prompt \in BOOLEAN
  /\ pc = "start" /\ todo = {} /\ count = 0
  /\ answered = <<"LOADED", "LOADED">>
  /\ inputBuffers = {} /\ outputBuffers = {}
  /\ state = "LOADED" /\ commands = <<>> /\ held = {} /\ queued = {}

\* An assertion fails.
Abort == pc' = "teardown" /\ todo' = {} /\ count' = 0
-----------------------------------------------------------------------------
(* The component.                                                          *)

CanChange ==
  /\ commands # <<>>
  /\ \/ state = "LOADED"    /\ Head(commands) = "IDLE" /\ held = Buffers
     \/ state = "IDLE"      /\ Head(commands) = "EXECUTING"
     \/ state = "EXECUTING" /\ Head(commands) = "IDLE"
     \/ state = "IDLE"      /\ Head(commands) = "LOADED" /\ held = {}

ChangeState ==
  /\ CanChange
  /\ state' = Head(commands) /\ commands' = Tail(commands)
  /\ queued' = IF state = "EXECUTING" THEN {} ELSE queued
  /\ UNCHANGED <<scenario, pc, todo, count, answered, maps, held>>

\* EmptyBufferDone or FillBufferDone; the test's callbacks do nothing.
BufferDone ==
  /\ \E b \in queued : queued' = queued \ {b}
  /\ UNCHANGED <<scenario, pc, todo, count, answered, maps, state, commands, held>>
-----------------------------------------------------------------------------
(* Commands and WaitState.                                                 *)

SendCommand(from, target, to) ==
  /\ pc = from
  /\ \/ commands' = Append(commands, target) /\ pc' = to /\ UNCHANGED <<todo, count>>
     \/ Abort /\ UNCHANGED commands
  /\ UNCHANGED <<scenario, answered, maps, state, held, queued>>

\* Mutated form of WaitState: count < MAX_WAIT.
WaitTooShort(from, target, to) ==
  /\ pc = from
  /\ prompt /\ count >= MaxWait => ~CanChange
  /\ \/ Abort /\ UNCHANGED answered
     \/ /\ state # target /\ count + 1 < MaxWait
        /\ count' = count + 1 /\ UNCHANGED <<pc, todo, answered>>
     \/ /\ state = target \/ count + 1 >= MaxWait
        /\ count' = 0 /\ pc' = to /\ answered' = <<target, state>> /\ UNCHANGED todo
  /\ UNCHANGED <<scenario, maps, component>>

\* Mutated form of WaitState: the count is compared before it goes up.
WaitOnceMore(from, target, to) ==
  /\ pc = from
  /\ prompt /\ count >= MaxWait => ~CanChange
  /\ \/ Abort /\ UNCHANGED answered
     \/ /\ state # target /\ count <= MaxWait
        /\ count' = count + 1 /\ UNCHANGED <<pc, todo, answered>>
     \/ /\ state = target \/ count > MaxWait
        /\ count' = 0 /\ pc' = to /\ answered' = <<target, state>> /\ UNCHANGED todo
  /\ UNCHANGED <<scenario, maps, component>>

\* One poll of WaitState: GetState fails, or the state is not the one asked for
\* and there are polls left, or WaitState returns true.
WaitState(from, target, to) ==
  /\ pc = from
  /\ prompt /\ count >= MaxWait => ~CanChange
  /\ \/ Abort /\ UNCHANGED answered
     \/ /\ state # target /\ count + 1 <= MaxWait
        /\ count' = count + 1 /\ UNCHANGED <<pc, todo, answered>>
     \/ /\ state = target \/ count + 1 > MaxWait
        /\ count' = 0 /\ pc' = to /\ answered' = <<target, state>> /\ UNCHANGED todo
  /\ UNCHANGED <<scenario, maps, component>>
-----------------------------------------------------------------------------
(* The buffers of a port.                                                  *)

\* Where a test goes when a port has its buffers, and when they are freed.
AfterUse(p)  == IF flow.fill # "none" THEN (IF p = "input" THEN "useOutput" ELSE "execute")
                ELSE IF p = "input" THEN "freeInput" ELSE "freeOutput"
AfterFree(p) == IF flow.fill = "none" THEN "passed"
                ELSE IF p = "input" THEN "freeOutput" ELSE "waitLoaded"

Map(p) == IF p = "input" THEN inputBuffers ELSE outputBuffers

\* One iteration of UseDynaBuffer, UseHandleBuffer, UseBufferOnPort or Allocate-
\* BufferOnPort: they differ in the memory behind the buffer and, for the first
\* two, know their map without looking at the port.
UseBuffer(p, from) ==
  /\ pc = from
  /\ \/ \E b \in OnPort(p) \ Map(p) :
           /\ held' = held \cup {b}
           /\ IF p = "input" THEN inputBuffers' = inputBuffers \cup {b} /\ UNCHANGED outputBuffers
                             ELSE outputBuffers' = outputBuffers \cup {b} /\ UNCHANGED inputBuffers
           /\ pc' = IF OnPort(p) \subseteq held' THEN AfterUse(p) ELSE pc
           /\ UNCHANGED <<todo, count>>
     \/ Abort /\ UNCHANGED <<held, maps>>
  /\ UNCHANGED <<scenario, answered, state, commands, queued>>

\* Mutated form of BeginFree: the branch for the output port is missing.
BeginFreeInput(p, from, to) ==
  /\ pc = from
  /\ todo' = inputBuffers
  /\ pc' = to
  /\ UNCHANGED <<scenario, count, answered, maps, component>>

\* buffer is a reference to inputBuffers_: for the output port the assignment
\* overwrites the input map, and the loop runs over the copy.
BeginFree(p, from, to) ==
  /\ pc = from
  /\ inputBuffers' = Map(p)
  /\ todo' = Map(p)
  /\ pc' = to
  /\ UNCHANGED <<scenario, count, answered, outputBuffers, component>>

FreeBuffer(p, from) ==
  /\ pc = from
  /\ \/ \E b \in todo : /\ held' = held \ {b}
                        /\ todo' = todo \ {b}
                        /\ UNCHANGED <<pc, count>>
     \/ todo # {} /\ Abort /\ UNCHANGED held
  /\ UNCHANGED <<scenario, answered, maps, state, commands, queued>>

\* buffer.clear(): the input map, whatever the port.
EndFree(p, from) ==
  /\ pc = from /\ todo = {}
  /\ inputBuffers' = {}
  /\ pc' = AfterFree(p)
  /\ UNCHANGED <<scenario, todo, count, answered, outputBuffers, component>>

FreeBufferOnPort(p, from, loop) == BeginFree(p, from, loop) \/ FreeBuffer(p, loop) \/ EndFree(p, loop)
-----------------------------------------------------------------------------
(* FillAndEmptyAllBuffer.                                                  *)

\* A loop goes over the buffers of one map that have the type asked for.
BeginQueue(p, from, to) ==
  /\ pc = from
  /\ todo' = {b \in Map(p) : Type(b) = flow.fill}
  /\ pc' = to
  /\ UNCHANGED <<scenario, count, answered, maps, component>>

\* FillThisBuffer or EmptyThisBuffer; a component that is not executing refuses.
\* One of the tests goes on although FillAndEmptyAllBuffer has failed.
QueueBuffer(from) ==
  /\ pc = from
  /\ \/ /\ state = "EXECUTING"
        /\ \E b \in todo : queued' = queued \cup {b} /\ todo' = todo \ {b}
        /\ UNCHANGED <<pc, count>>
     \/ /\ todo # {} /\ UNCHANGED queued
        /\ IF flow.checked THEN Abort
           ELSE pc' = "stop" /\ todo' = {} /\ UNCHANGED count
  /\ UNCHANGED <<scenario, answered, maps, state, commands, held>>

EndQueue(from, to) ==
  /\ pc = from /\ todo = {}
  /\ pc' = to
  /\ UNCHANGED <<scenario, todo, count, answered, maps, component>>

FillAndEmptyAllBuffer ==
  \/ BeginQueue("output", "queue", "fill")   \/ QueueBuffer("fill")
  \/ EndQueue("fill", "queueInput")
  \/ BeginQueue("input", "queueInput", "empty") \/ QueueBuffer("empty")
  \/ EndQueue("empty", "stop")
-----------------------------------------------------------------------------
(* TearDown.                                                               *)

\* The last statement of a test.
Pass == pc = "passed" /\ Abort /\ UNCHANGED <<scenario, answered, maps, component>>

\* Mutated form of DestroyComponent: func_ is dropped before the component is
\* destroyed.
DropUtilFirst ==
  /\ pc = "destroy"
  /\ inputBuffers' = {} /\ outputBuffers' = {}
  /\ pc' = "drop"
  /\ UNCHANGED <<scenario, todo, count, answered, component>>

\* The answer to SendCommand(LOADED) is not looked at.
TearDown ==
  /\ pc = "teardown"
  /\ \/ commands' = Append(commands, "LOADED") \/ UNCHANGED commands
  /\ pc' = "destroy"
  /\ UNCHANGED <<scenario, todo, count, answered, maps, state, held, queued>>

DestroyComponent ==
  /\ pc = "destroy"
  /\ state' = "destroyed" /\ commands' = <<>> /\ held' = {} /\ queued' = {}
  /\ pc' = "drop"
  /\ UNCHANGED <<scenario, todo, count, answered, maps>>

\* func_ = nullptr: the buffers' memory is unmapped.
DropUtil ==
  /\ pc = "drop"
  /\ inputBuffers' = {} /\ outputBuffers' = {}
  /\ pc' = "over"
  /\ UNCHANGED <<scenario, todo, count, answered, component>>
-----------------------------------------------------------------------------
TestStep ==
  \/ SendCommand("start", "IDLE", IF flow.input = "none" THEN "useOutput" ELSE "useInput")
  \/ UseBuffer("input", "useInput") \/ UseBuffer("output", "useOutput")
  \/ SendCommand("execute", "EXECUTING", "waitExecuting")
  \/ WaitState("waitExecuting", "EXECUTING", "queue")
  \/ FillAndEmptyAllBuffer
  \/ SendCommand("stop", "IDLE", "waitStopped")
  \/ WaitState("waitStopped", "IDLE", "unload")
  \/ SendCommand("unload", "LOADED", "waitUnloading")
  \/ WaitState("waitUnloading", "IDLE", "freeInput")
  \/ FreeBufferOnPort("input", "freeInput", "freeingInput")
  \/ FreeBufferOnPort("output", "freeOutput", "freeingOutput")
  \/ WaitState("waitLoaded", "LOADED", "passed")
  \/ Pass \/ TearDown \/ DestroyComponent \/ DropUtil

ComponentStep == ChangeState \/ BufferDone

Next == TestStep \/ ComponentStep

Spec == Init /\ [][Next]_vars
-----------------------------------------------------------------------------
PCs == {"start", "useInput", "useOutput", "execute", "waitExecuting", "queue", "fill",
        "queueInput", "empty", "stop", "waitStopped", "unload", "waitUnloading",
        "freeInput", "freeingInput", "freeOutput", "freeingOutput", "waitLoaded",
        "passed", "teardown", "destroy", "drop", "over"}
States == {"LOADED", "IDLE", "EXECUTING"}

TypeOK ==
  /\ flow \in Flows /\ prompt \in BOOLEAN
  /\ pc \in PCs /\ todo \subseteq Buffers
  /\ count \in 0 .. MaxWait
  /\ answered \in States \X (States \cup {"destroyed"})
  /\ inputBuffers \subseteq Buffers /\ outputBuffers \subseteq Buffers
  /\ state \in States \cup {"destroyed"} /\ commands \in Seq(States)
  /\ held \subseteq Buffers /\ queued \subseteq Buffers

\* The memory behind a buffer stays mapped as long as the component has it,
\* although FreeBufferOnPort overwrites one map with the other (BufferInfo's
\* destructor unmaps; the tests free the input port first).
MappedWhileHeld == held \subseteq inputBuffers \cup outputBuffers

\* A test that passes has taken back every buffer of both ports, and a prompt
\* component has unloaded: nothing is left to DestroyComponent.
PassLeavesNothing ==
  pc = "passed" => /\ held = {}
                   /\ prompt /\ flow.fill # "none" => state = "LOADED"

\* No buffer is freed while the component works on it.
FreesNothingQueued ==
  prompt /\ pc \in {"freeInput", "freeingInput", "freeOutput", "freeingOutput"}
    => queued = {}

\* A component that needs no longer than MAX_WAIT polls is never overtaken by
\* WaitState, not even at the last poll.
PromptIsSeen == prompt => answered[1] = answered[2]

\* What the tests assert with ASSERT_TRUE(err) after WaitState: the component
\* has reached the state.
TrueMeansReached == answered[1] = answered[2]
=============================================================================
