------------------------ MODULE FunctionUtilProofs ------------------------
(***************************************************************************)
(* What holds of FunctionUtil for any number of buffers and of polls.      *)
(*                                                                         *)
(* The properties are not inductive: that the ports are freed in the right *)
(* order and that the component is where the test believes it to be are    *)
(* facts about how far the test has come.  MapInv says what the maps still *)
(* cover at each place of the test, PromptInv how far a prompt component   *)
(* may be behind.                                                          *)
(***************************************************************************)
EXTENDS FunctionUtil, SequenceTheorems, TLAPS

\* The places of the test, in the order in which it comes by.
Executing == {"queue", "fill", "queueInput", "empty", "stop"}
Freeing   == {"freeInput", "freeingInput", "freeOutput", "freeingOutput"}
BothPorts == {"execute", "waitExecuting"} \cup Executing
               \cup {"waitStopped", "unload", "waitUnloading", "waitLoaded"}

\* Which tests come by where.
FlowInv ==
  /\ pc \in {"useInput", "freeInput", "freeingInput"} => flow.input # "none"
  /\ pc = "useOutput" => flow.output # "none"
  /\ pc \in BothPorts => flow.fill # "none"
  /\ flow.output = "none" => outputBuffers = {}

\* What the maps cover.  The input map holds output buffers only while the
\* output port is freed.
MapInv ==
  /\ MappedWhileHeld
  /\ pc \in {"drop", "over"} => held = {}
  /\ pc \in {"start", "useInput"} => outputBuffers = {}
  /\ pc = "start" => inputBuffers = {}
  /\ pc = "useOutput" /\ flow.fill = "none" => inputBuffers = {}
  /\ pc = "freeingInput" => held \subseteq todo \cup outputBuffers
  /\ pc = "freeOutput" => held \subseteq outputBuffers
  /\ pc = "freeingOutput" => held \subseteq todo
  /\ pc \in {"waitLoaded", "passed"} => held = {}

\* The tests that use both ports have lent every buffer when they go on.
LentInv == flow.fill # "none" =>
  /\ pc = "useInput" => held \subseteq OnPort("input") /\ held # OnPort("input")
  /\ pc = "useOutput" => OnPort("input") \subseteq held /\ held # Buffers
  /\ pc \in {"execute", "waitExecuting"} \cup Executing => held = Buffers
  /\ pc \in {"waitStopped", "unload", "waitUnloading", "freeInput"} => held = Buffers

At(s, c) == state = s /\ commands = c

\* How far a prompt component may be behind a test that uses both ports.
BehindInv == prompt /\ flow.fill # "none" =>
  /\ pc = "start" => At("LOADED", <<>>)
  /\ pc \in {"useInput", "useOutput"} => At("LOADED", <<"IDLE">>)
  /\ pc = "execute" => At("LOADED", <<"IDLE">>) \/ At("IDLE", <<>>)
  /\ pc = "waitExecuting" => \/ At("LOADED", <<"IDLE", "EXECUTING">>)
                             \/ At("IDLE", <<"EXECUTING">>)
                             \/ At("EXECUTING", <<>>)
  /\ pc \in Executing => At("EXECUTING", <<>>)
  /\ pc = "waitStopped" => At("EXECUTING", <<"IDLE">>) \/ At("IDLE", <<>>)
  /\ pc = "unload" => At("IDLE", <<>>)
  /\ pc \in Freeing \cup {"waitUnloading", "waitLoaded"} =>
       At("IDLE", <<"LOADED">>) \/ (held = {} /\ At("LOADED", <<>>))
  /\ pc = "passed" => At("LOADED", <<>>)

\* Only an executing component has buffers to work on.
QueueInv == /\ flow.fill = "none" => queued = {}
            /\ state # "EXECUTING" => queued = {}

PromptInv == LentInv /\ BehindInv /\ QueueInv /\ PromptIsSeen

IndInv == TypeOK /\ FlowInv /\ MapInv /\ PromptInv

\* The actions, by what they do.
Commands == \/ SendCommand("start", "IDLE", IF flow.input = "none" THEN "useOutput" ELSE "useInput")
            \/ SendCommand("execute", "EXECUTING", "waitExecuting")
            \/ SendCommand("stop", "IDLE", "waitStopped")
            \/ SendCommand("unload", "LOADED", "waitUnloading")
Uses     == UseBuffer("input", "useInput") \/ UseBuffer("output", "useOutput")
Waits    == \/ WaitState("waitExecuting", "EXECUTING", "queue")
            \/ WaitState("waitStopped", "IDLE", "unload")
            \/ WaitState("waitUnloading", "IDLE", "freeInput")
            \/ WaitState("waitLoaded", "LOADED", "passed")
Frees    == \/ FreeBufferOnPort("input", "freeInput", "freeingInput")
            \/ FreeBufferOnPort("output", "freeOutput", "freeingOutput")
Ends     == Pass \/ TearDown \/ DestroyComponent \/ DropUtil

LEMMA Steps ==
    ASSUME [Next]_vars
    PROVE  \/ Commands \/ Uses \/ Waits \/ FillAndEmptyAllBuffer \/ Frees \/ Ends
           \/ ChangeState \/ BufferDone \/ UNCHANGED vars
  BY DEF Next, TestStep, ComponentStep, Commands, Uses, Waits, Frees, Ends

LEMMA PortFacts ==
    /\ OnPort("input") \cup OnPort("output") = Buffers
    /\ OnPort("input") \cap OnPort("output") = {}
    /\ OnPort("input") # {} /\ OnPort("output") # {} /\ Buffers # {}
  <1>1. \A p \in Ports : [port |-> p, id |-> 1] \in OnPort(p)
      BY FunctionUtilAssumption DEF OnPort, Buffers
  <1> QED
      BY <1>1 DEF OnPort, Buffers, Ports

LEMMA TwoCommands == Append(<<"IDLE">>, "EXECUTING") = <<"IDLE", "EXECUTING">>
  <1> DEFINE s == Append(<<"IDLE">>, "EXECUTING")
             t == <<"IDLE", "EXECUTING">>
  <1>1. <<"IDLE">> \in Seq(States) /\ t \in Seq(States)
      BY DEF States
  <1>2. s \in Seq(States) /\ Len(s) = 2 /\ s[1] = "IDLE" /\ s[2] = "EXECUTING"
      BY <1>1, AppendProperties DEF States
  <1>3. Len(t) = 2 /\ t[1] = "IDLE" /\ t[2] = "EXECUTING"
      OBVIOUS
  <1> HIDE DEF s, t
  <1>4. \A i \in 1 .. 2 : s[i] = t[i]
      BY <1>2, <1>3
  <1>5. s = t
      BY <1>1, <1>2, <1>3, <1>4, SeqEqual
  <1> QED
      BY <1>5 DEF s, t

LEMMA CommandFacts ==
    /\ Append(<<>>, "IDLE") = <<"IDLE">>
    /\ Append(<<>>, "EXECUTING") = <<"EXECUTING">>
    /\ Append(<<>>, "LOADED") = <<"LOADED">>
    /\ Append(<<"IDLE">>, "EXECUTING") = <<"IDLE", "EXECUTING">>
    /\ Head(<<"IDLE">>) = "IDLE" /\ Tail(<<"IDLE">>) = <<>>
    /\ Head(<<"EXECUTING">>) = "EXECUTING" /\ Tail(<<"EXECUTING">>) = <<>>
    /\ Head(<<"LOADED">>) = "LOADED" /\ Tail(<<"LOADED">>) = <<>>
    /\ Head(<<"IDLE", "EXECUTING">>) = "IDLE"
    /\ Tail(<<"IDLE", "EXECUTING">>) = <<"EXECUTING">>
    /\ <<"IDLE">> # <<>> /\ <<"EXECUTING">> # <<>> /\ <<"LOADED">> # <<>>
    /\ <<"IDLE", "EXECUTING">> # <<>>
  BY TwoCommands

LEMMA TypeStep == TypeOK /\ [Next]_vars => TypeOK'
  <1> SUFFICES ASSUME TypeOK, [Next]_vars PROVE TypeOK'
      OBVIOUS
  <1>0. \A c \in {"LOADED", "IDLE", "EXECUTING"} : Append(commands, c) \in Seq(States)
    <2>1. commands \in Seq(States)
        BY DEF TypeOK
    <2>2. \A c \in States : Append(commands, c) \in Seq(States)
        BY <2>1, AppendProperties
    <2> QED
        BY <2>2 DEF States
  <1> USE FunctionUtilAssumption DEF TypeOK, PCs, scenario, maps, component
  <1>1. CASE Commands
    <2>1. commands' \in Seq(States)
        BY <1>0, <1>1 DEF Commands, SendCommand
    <2>2. UNCHANGED <<scenario, answered, maps, state, held, queued>>
        BY <1>1 DEF Commands, SendCommand
    <2>3. pc' \in PCs /\ todo' \subseteq Buffers /\ count' \in 0 .. MaxWait
        BY <1>1 DEF Commands, SendCommand, Abort
    <2> QED
        BY <2>1, <2>2, <2>3
  <1>2. CASE Uses
      BY <1>2 DEF Uses, UseBuffer, Abort, Map, AfterUse, OnPort
  <1>3. CASE Waits
      BY <1>3 DEF Waits, WaitState, Abort, States
  <1>4. CASE FillAndEmptyAllBuffer
      BY <1>4 DEF FillAndEmptyAllBuffer, BeginQueue, QueueBuffer, EndQueue, Abort, Map
  <1>5. CASE Frees
      BY <1>5 DEF Frees, FreeBufferOnPort, BeginFree, FreeBuffer, EndFree, Abort, Map, AfterFree
  <1>6. CASE Ends
    <2>1. CASE Pass
        BY <2>1 DEF Pass, Abort
    <2>2. CASE TearDown
        BY <1>0, <2>2 DEF TearDown
    <2>3. CASE DestroyComponent
        BY <2>3 DEF DestroyComponent
    <2>4. CASE DropUtil
        BY <2>4 DEF DropUtil
    <2> QED
        BY <1>6, <2>1, <2>2, <2>3, <2>4 DEF Ends
  <1>7. CASE ChangeState
      BY <1>7, HeadTailProperties DEF ChangeState, CanChange
  <1>8. CASE BufferDone
      BY <1>8 DEF BufferDone
  <1>9. CASE UNCHANGED vars
      BY <1>9 DEF vars
  <1> QED
      BY <1>1, <1>2, <1>3, <1>4, <1>5, <1>6, <1>7, <1>8, <1>9, Steps

LEMMA FlowStep == TypeOK /\ FlowInv /\ [Next]_vars => FlowInv'
  <1> SUFFICES ASSUME TypeOK /\ FlowInv, [Next]_vars PROVE FlowInv'
      OBVIOUS
  <1> USE DEF TypeOK, FlowInv, Flows, BothPorts, Executing, scenario, maps, component
  <1>1. CASE Commands
      BY <1>1 DEF Commands, SendCommand, Abort
  <1>2. CASE Uses
      BY <1>2 DEF Uses, UseBuffer, Abort, Map, AfterUse, OnPort
  <1>3. CASE Waits
      BY <1>3 DEF Waits, WaitState, Abort
  <1>4. CASE FillAndEmptyAllBuffer
      BY <1>4 DEF FillAndEmptyAllBuffer, BeginQueue, QueueBuffer, EndQueue, Abort, Map
  <1>5. CASE Frees
      BY <1>5 DEF Frees, FreeBufferOnPort, BeginFree, FreeBuffer, EndFree, Abort, Map, AfterFree
  <1>6. CASE Ends
      BY <1>6 DEF Ends, Pass, TearDown, DestroyComponent, DropUtil, Abort
  <1>7. CASE ChangeState
      BY <1>7 DEF ChangeState, CanChange
  <1>8. CASE BufferDone
      BY <1>8 DEF BufferDone
  <1>9. CASE UNCHANGED vars
      BY <1>9 DEF vars
  <1> QED
      BY <1>1, <1>2, <1>3, <1>4, <1>5, <1>6, <1>7, <1>8, <1>9, Steps

LEMMA MapStep == TypeOK /\ FlowInv /\ MapInv /\ [Next]_vars => MapInv'
  <1> SUFFICES ASSUME TypeOK /\ FlowInv /\ MapInv, [Next]_vars PROVE MapInv'
      OBVIOUS
  <1> USE DEF TypeOK, FlowInv, MapInv, MappedWhileHeld, Flows, BothPorts, Executing, scenario, maps, component
  <1>1. CASE Commands
      BY <1>1 DEF Commands, SendCommand, Abort
  <1>2. CASE Uses
      BY <1>2 DEF Uses, UseBuffer, Abort, Map, AfterUse, OnPort
  <1>3. CASE Waits
      BY <1>3 DEF Waits, WaitState, Abort
  <1>4. CASE FillAndEmptyAllBuffer
      BY <1>4 DEF FillAndEmptyAllBuffer, BeginQueue, QueueBuffer, EndQueue, Abort, Map
  <1>5. CASE Frees
      BY <1>5 DEF Frees, FreeBufferOnPort, BeginFree, FreeBuffer, EndFree, Abort, Map, AfterFree
  <1>6. CASE Ends
      BY <1>6 DEF Ends, Pass, TearDown, DestroyComponent, DropUtil, Abort
  <1>7. CASE ChangeState
      BY <1>7 DEF ChangeState, CanChange
  <1>8. CASE BufferDone
      BY <1>8 DEF BufferDone
  <1>9. CASE UNCHANGED vars
      BY <1>9 DEF vars
  <1> QED
      BY <1>1, <1>2, <1>3, <1>4, <1>5, <1>6, <1>7, <1>8, <1>9, Steps

LEMMA LentStep == TypeOK /\ FlowInv /\ MapInv /\ LentInv /\ [Next]_vars => LentInv'
  <1> SUFFICES ASSUME TypeOK /\ FlowInv /\ MapInv /\ LentInv, [Next]_vars PROVE LentInv'
      OBVIOUS
  <1> USE DEF TypeOK, FlowInv, MapInv, MappedWhileHeld, LentInv, Flows, BothPorts, Executing, scenario, maps, component
  <1>1. CASE Commands
      BY <1>1, PortFacts DEF Commands, SendCommand, Abort
  <1>2. CASE Uses
      BY <1>2, PortFacts DEF Uses, UseBuffer, Abort, Map, AfterUse
  <1>3. CASE Waits
      BY <1>3, PortFacts DEF Waits, WaitState, Abort
  <1>4. CASE FillAndEmptyAllBuffer
      BY <1>4, PortFacts DEF FillAndEmptyAllBuffer, BeginQueue, QueueBuffer, EndQueue, Abort, Map
  <1>5. CASE Frees
      BY <1>5, PortFacts DEF Frees, FreeBufferOnPort, BeginFree, FreeBuffer, EndFree, Abort, Map, AfterFree
  <1>6. CASE Ends
      BY <1>6, PortFacts DEF Ends, Pass, TearDown, DestroyComponent, DropUtil, Abort
  <1>7. CASE ChangeState
      BY <1>7, PortFacts DEF ChangeState, CanChange
  <1>8. CASE BufferDone
      BY <1>8, PortFacts DEF BufferDone
  <1>9. CASE UNCHANGED vars
      BY <1>9 DEF vars
  <1> QED
      BY <1>1, <1>2, <1>3, <1>4, <1>5, <1>6, <1>7, <1>8, <1>9, Steps

LEMMA BehindStep == TypeOK /\ FlowInv /\ MapInv /\ LentInv /\ BehindInv /\ [Next]_vars => BehindInv'
  <1> SUFFICES ASSUME TypeOK /\ FlowInv /\ MapInv /\ LentInv /\ BehindInv, [Next]_vars PROVE BehindInv'
      OBVIOUS
  <1> USE DEF TypeOK, FlowInv, MapInv, LentInv, BehindInv, BothPorts, Executing, Freeing, At, scenario, maps, component
  <1>1. CASE Commands
      BY <1>1, PortFacts, CommandFacts, FunctionUtilAssumption DEF Commands, SendCommand, Abort
  <1>2. CASE Uses
      BY <1>2, PortFacts, CommandFacts, FunctionUtilAssumption DEF Uses, UseBuffer, Abort, Map, AfterUse
  <1>3. CASE Waits
    <2>1. CASE WaitState("waitExecuting", "EXECUTING", "queue")
        BY <2>1, PortFacts, CommandFacts, FunctionUtilAssumption DEF WaitState, CanChange, Abort
    <2>2. CASE WaitState("waitStopped", "IDLE", "unload")
        BY <2>2, PortFacts, CommandFacts, FunctionUtilAssumption DEF WaitState, CanChange, Abort
    <2>3. CASE WaitState("waitUnloading", "IDLE", "freeInput")
        BY <2>3, PortFacts, CommandFacts, FunctionUtilAssumption DEF WaitState, CanChange, Abort
    <2>4. CASE WaitState("waitLoaded", "LOADED", "passed")
        BY <2>4, PortFacts, CommandFacts, FunctionUtilAssumption DEF WaitState, CanChange, Abort
    <2> QED
        BY <1>3, <2>1, <2>2, <2>3, <2>4 DEF Waits
  <1>4. CASE FillAndEmptyAllBuffer
      BY <1>4, PortFacts, CommandFacts, FunctionUtilAssumption DEF FillAndEmptyAllBuffer, BeginQueue, QueueBuffer, EndQueue, Abort, Map
  <1>5. CASE Frees
      BY <1>5, PortFacts, CommandFacts, FunctionUtilAssumption DEF Frees, FreeBufferOnPort, BeginFree, FreeBuffer, EndFree, Abort, Map, AfterFree
  <1>6. CASE Ends
      BY <1>6, PortFacts, CommandFacts, FunctionUtilAssumption DEF Ends, Pass, TearDown, DestroyComponent, DropUtil, Abort
  <1>7. CASE ChangeState
      BY <1>7, PortFacts, CommandFacts, FunctionUtilAssumption DEF ChangeState, CanChange
  <1>8. CASE BufferDone
      BY <1>8, PortFacts, CommandFacts, FunctionUtilAssumption DEF BufferDone
  <1>9. CASE UNCHANGED vars
      BY <1>9 DEF vars
  <1> QED
      BY <1>1, <1>2, <1>3, <1>4, <1>5, <1>6, <1>7, <1>8, <1>9, Steps

LEMMA QueueStep == TypeOK /\ FlowInv /\ QueueInv /\ [Next]_vars => QueueInv'
  <1> SUFFICES ASSUME TypeOK /\ FlowInv /\ QueueInv, [Next]_vars PROVE QueueInv'
      OBVIOUS
  <1> USE DEF TypeOK, FlowInv, QueueInv, BothPorts, Executing, scenario, maps, component
  <1>1. CASE Commands
      BY <1>1 DEF Commands, SendCommand, Abort
  <1>2. CASE Uses
      BY <1>2 DEF Uses, UseBuffer, Abort, Map, AfterUse, OnPort
  <1>3. CASE Waits
      BY <1>3 DEF Waits, WaitState, Abort
  <1>4. CASE FillAndEmptyAllBuffer
      BY <1>4 DEF FillAndEmptyAllBuffer, BeginQueue, QueueBuffer, EndQueue, Abort, Map
  <1>5. CASE Frees
      BY <1>5 DEF Frees, FreeBufferOnPort, BeginFree, FreeBuffer, EndFree, Abort, Map, AfterFree
  <1>6. CASE Ends
      BY <1>6 DEF Ends, Pass, TearDown, DestroyComponent, DropUtil, Abort
  <1>7. CASE ChangeState
      BY <1>7 DEF ChangeState, CanChange
  <1>8. CASE BufferDone
      BY <1>8 DEF BufferDone
  <1>9. CASE UNCHANGED vars
      BY <1>9 DEF vars
  <1> QED
      BY <1>1, <1>2, <1>3, <1>4, <1>5, <1>6, <1>7, <1>8, <1>9, Steps

LEMMA SeenStep == TypeOK /\ FlowInv /\ MapInv /\ LentInv /\ BehindInv /\ PromptIsSeen /\ [Next]_vars => PromptIsSeen'
  <1> SUFFICES ASSUME TypeOK /\ FlowInv /\ MapInv /\ LentInv /\ BehindInv /\ PromptIsSeen, [Next]_vars PROVE PromptIsSeen'
      OBVIOUS
  <1> USE DEF TypeOK, FlowInv, MapInv, LentInv, BehindInv, PromptIsSeen, BothPorts, Executing, Freeing, At, scenario, maps, component
  <1>1. CASE Commands
      BY <1>1 DEF Commands, SendCommand, Abort
  <1>2. CASE Uses
      BY <1>2 DEF Uses, UseBuffer, Abort, Map, AfterUse, OnPort
  <1>3. CASE Waits
    <2>1. CASE WaitState("waitExecuting", "EXECUTING", "queue")
        BY <2>1, PortFacts, CommandFacts, FunctionUtilAssumption DEF WaitState, CanChange, Abort
    <2>2. CASE WaitState("waitStopped", "IDLE", "unload")
        BY <2>2, PortFacts, CommandFacts, FunctionUtilAssumption DEF WaitState, CanChange, Abort
    <2>3. CASE WaitState("waitUnloading", "IDLE", "freeInput")
        BY <2>3, PortFacts, CommandFacts, FunctionUtilAssumption DEF WaitState, CanChange, Abort
    <2>4. CASE WaitState("waitLoaded", "LOADED", "passed")
        BY <2>4, PortFacts, CommandFacts, FunctionUtilAssumption DEF WaitState, CanChange, Abort
    <2> QED
        BY <1>3, <2>1, <2>2, <2>3, <2>4 DEF Waits
  <1>4. CASE FillAndEmptyAllBuffer
      BY <1>4 DEF FillAndEmptyAllBuffer, BeginQueue, QueueBuffer, EndQueue, Abort, Map
  <1>5. CASE Frees
      BY <1>5 DEF Frees, FreeBufferOnPort, BeginFree, FreeBuffer, EndFree, Abort, Map, AfterFree
  <1>6. CASE Ends
      BY <1>6 DEF Ends, Pass, TearDown, DestroyComponent, DropUtil, Abort
  <1>7. CASE ChangeState
      BY <1>7 DEF ChangeState, CanChange
  <1>8. CASE BufferDone
      BY <1>8 DEF BufferDone
  <1>9. CASE UNCHANGED vars
      BY <1>9 DEF vars
  <1> QED
      BY <1>1, <1>2, <1>3, <1>4, <1>5, <1>6, <1>7, <1>8, <1>9, Steps

LEMMA InitInd == Init => IndInv
  <1> SUFFICES ASSUME Init PROVE IndInv
      OBVIOUS
  <1>1. TypeOK
      BY FunctionUtilAssumption DEF Init, TypeOK, States, PCs
  <1>2. FlowInv /\ MapInv
      BY DEF Init, FlowInv, MapInv, MappedWhileHeld, BothPorts, Executing
  <1>3. PromptInv
      BY DEF Init, PromptInv, LentInv, BehindInv, QueueInv, PromptIsSeen, At, Executing, Freeing
  <1> QED
      BY <1>1, <1>2, <1>3 DEF IndInv

LEMMA Inductive == Spec => []IndInv
  <1>1. IndInv /\ [Next]_vars => IndInv'
      BY TypeStep, FlowStep, MapStep, LentStep, BehindStep, QueueStep, SeenStep
         DEF IndInv, PromptInv
  <1> QED
      BY InitInd, <1>1, PTL DEF Spec

\* Every variable keeps its type, and WaitState its bound, for any MAX_WAIT and
\* any number of buffers (TypeOK).
THEOREM TypeCorrect == Spec => []TypeOK
  BY Inductive, PTL DEF IndInv

\* The memory of a buffer is not unmapped while the component has the buffer:
\* the overwritten map of FreeBufferOnPort does no harm in these tests.
THEOREM MemoryStaysMapped == Spec => []MappedWhileHeld
  BY Inductive, PTL DEF IndInv, MapInv

\* WaitState does not miss a prompt component, however many polls it needs.
THEOREM WaitStateSees == Spec => []PromptIsSeen
  BY Inductive, PTL DEF IndInv, PromptInv

\* The test frees nothing that a prompt component still works on.
THEOREM FreedIsReturned == Spec => []FreesNothingQueued
  <1>1. IndInv => FreesNothingQueued
      BY DEF IndInv, PromptInv, LentInv, BehindInv, QueueInv, FreesNothingQueued, At, Freeing
  <1> QED
      BY <1>1, Inductive, PTL

\* A test that passes leaves nothing with the component.
THEOREM NothingIsLeft == Spec => []PassLeavesNothing
  <1>1. IndInv => PassLeavesNothing
      BY DEF IndInv, MapInv, PromptInv, BehindInv, PassLeavesNothing, At
  <1> QED
      BY <1>1, Inductive, PTL
=============================================================================
