--------------------------- MODULE DeviceTestProofs ---------------------------
(***************************************************************************)
(* For any outputs, any number of hot-plugs and any number of vblanks: the *)
(* type invariant, IdsHaveDisplays, HeldIsRegistered, VsyncStops, and that *)
(* WaitVblank never sleeps on a raised flag.                               *)
(***************************************************************************)
EXTENDS DeviceTest, SequenceTheorems, TLAPS

\* An id is pushed after its display was emplaced; what the test thread copied
\* was pushed before; past its assertion it holds at least one id.
IdsInv ==
  /\ plugging.pc \in {"emplace", "push", "pushing"} =>
       plugging.id \in Outputs /\ plugging.display \in Displays
  /\ plugging.pc \in {"push", "pushing"} => plugging.id \in DOMAIN displays
  /\ \A i \in DOMAIN displayIds : displayIds[i] \in DOMAIN displays
  /\ \A i \in DOMAIN g_displayIds : g_displayIds[i] \in DOMAIN displays
  /\ pc = "display" => g_displayIds # <<>>

AfterSettle == {"resetAgain", "waitAgain", "waitingAgain"}

\* Once vsync is off nothing is sent; once a prompt composer has run what it had
\* sent nothing is left to raise the flag, so that the second wait, from its
\* start on, has nothing to find.
QuietInv ==
  /\ pc \in AfterSettle \cup {"settle"} => ~vsync
  /\ prompt /\ pc \in AfterSettle => pending = 0
  /\ prompt /\ pc \in {"waitAgain", "waitingAgain"} => ~hasVblank
  /\ pc \notin {"waiting", "waitingAgain"} => waiter = "none"
  /\ VsyncStops

IndInv == TypeOK /\ IdsInv /\ HeldIsRegistered /\ QuietInv /\ NoLostWakeup

USE DEF registry, vblank, vars, Mine, Test, Goto, TearDown, PlugPCs, NoPlug, WaiterPCs,
        Answers, PCs, GetDevIds, Return, AfterSettle

LEMMA InitInd == Init => IndInv
  <1> SUFFICES ASSUME Init PROVE IndInv
      OBVIOUS
  <1> USE RegistryAssumption, VblankAssumption
  <1>1. RegistryTypeOK
    <2>1. displays \in [DOMAIN displays -> Displays] /\ DOMAIN displays \subseteq Outputs
        BY DEF Init, RegistryInit
    <2>2. displayIds \in Seq(Outputs)
        BY EmptySeq DEF Init, RegistryInit
    <2>3. plugging \in [pc : PlugPCs, id : Outputs \cup {0}, display : Displays \cup {0}]
        BY DEF Init, RegistryInit
    <2>4. plugs \in 0 .. MaxPlugs
        BY DEF Init, RegistryInit
    <2>5. registered \in BOOLEAN
        BY DEF Init, RegistryInit
    <2> QED
        BY <2>1, <2>2, <2>3, <2>4, <2>5 DEF RegistryTypeOK
  <1>2. TypeOK
    <2>a. vsync \in BOOLEAN /\ hasVblank \in BOOLEAN
        BY DEF Init, VblankInit
    <2>b. /\ sent \in 0 .. MaxVblanks /\ pending \in 0 .. sent
          /\ waiter \in WaiterPCs /\ answer \in Answers
        BY DEF Init, VblankInit
    <2>1. VblankTypeOK
        BY <2>a, <2>b DEF VblankTypeOK
    <2>2. g_displayIds \in Seq(Outputs)
        BY EmptySeq DEF Init
    <2> QED
        BY <1>1, <2>1, <2>2 DEF Init, TypeOK
  <1>3. IdsInv /\ HeldIsRegistered
      BY DEF Init, RegistryInit, IdsInv, HeldIsRegistered
  <1>4. QuietInv /\ NoLostWakeup
      BY DEF Init, VblankInit, QuietInv, VsyncStops, NoLostWakeup
  <1> QED
      BY <1>2, <1>3, <1>4 DEF IndInv

\* The first display is one of the map's.
LEMMA FirstIsRegistered ==
    ASSUME RegistryTypeOK, NEW d \in GetFirstDisplay
    PROVE  /\ d \in [id : Outputs, display : Displays]
           /\ d.id \in DOMAIN displays /\ displays[d.id] = d.display
  BY DEF RegistryTypeOK, GetFirstDisplay

-----------------------------------------------------------------------------
\* Growing the map keeps what was in it.
LEMMA EmplaceKeeps ==
    ASSUME RegistryTypeOK, EmplaceDisplay,
           plugging.id \in Outputs, plugging.display \in Displays
    PROVE  /\ RegistryTypeOK'
           /\ DOMAIN displays' = DOMAIN displays \cup {plugging.id}
           /\ \A i \in DOMAIN displays : displays'[i] = displays[i]
  BY DEF RegistryTypeOK, EmplaceDisplay

LEMMA PlugInd == IndInv /\ OutputPlugged => IndInv'
  <1> SUFFICES ASSUME IndInv, OutputPlugged PROVE IndInv'
      OBVIOUS
  <1> USE RegistryAssumption
  <1>q. QuietInv' /\ NoLostWakeup'
      BY DEF IndInv, OutputPlugged, QuietInv, VsyncStops, NoLostWakeup
  <1>t. RegistryTypeOK' => TypeOK'
      BY DEF IndInv, OutputPlugged, TypeOK, VblankTypeOK
  <1>1. ASSUME NEW id \in Outputs, HotPlug(id) PROVE IndInv'
    <2>1. RegistryTypeOK'
        BY <1>1 DEF IndInv, TypeOK, RegistryTypeOK, HotPlug, Displays
    <2>2. IdsInv' /\ HeldIsRegistered'
        BY <1>1 DEF IndInv, TypeOK, RegistryTypeOK, IdsInv, HeldIsRegistered, HotPlug, Displays,
                    OutputPlugged
    <2> QED
        BY <2>1, <2>2, <1>q, <1>t DEF IndInv
  <1>2. CASE EmplaceDisplay
    <2>1. /\ RegistryTypeOK'
          /\ DOMAIN displays' = DOMAIN displays \cup {plugging.id}
          /\ \A i \in DOMAIN displays : displays'[i] = displays[i]
        BY <1>2, EmplaceKeeps DEF IndInv, TypeOK, IdsInv, EmplaceDisplay
    <2>2. IdsInv'
        BY <1>2, <2>1 DEF IndInv, IdsInv, EmplaceDisplay, OutputPlugged, TypeOK, RegistryTypeOK
    <2>3. HeldIsRegistered'
        BY <2>1 DEF IndInv, HeldIsRegistered, OutputPlugged
    <2> QED
        BY <2>1, <2>2, <2>3, <1>q, <1>t DEF IndInv
  <1>3. CASE BeginPush
    <2>1. RegistryTypeOK'
        BY <1>3 DEF IndInv, TypeOK, RegistryTypeOK, BeginPush
    <2>2. IdsInv' /\ HeldIsRegistered'
        BY <1>3 DEF IndInv, IdsInv, HeldIsRegistered, BeginPush, OutputPlugged, TypeOK,
                    RegistryTypeOK
    <2> QED
        BY <2>1, <2>2, <1>q, <1>t DEF IndInv
  <1>4. CASE EndPush
    <2>0. plugging.id \in Outputs /\ plugging.id \in DOMAIN displays
        BY <1>4 DEF IndInv, IdsInv, EndPush
    <2>1. /\ displayIds' \in Seq(Outputs)
          /\ \A i \in DOMAIN displayIds' :
               displayIds'[i] = plugging.id \/ (i \in DOMAIN displayIds
                                                /\ displayIds'[i] = displayIds[i])
      <3>1. displayIds \in Seq(Outputs)
          BY DEF IndInv, TypeOK, RegistryTypeOK
      <3>2. displayIds' = Append(displayIds, plugging.id)
          BY <1>4 DEF EndPush
      <3> QED
          BY <3>1, <3>2, <2>0, AppendProperties, LenProperties
    <2>2. RegistryTypeOK'
        BY <1>4, <2>1 DEF IndInv, TypeOK, RegistryTypeOK, EndPush
    <2>3. IdsInv' /\ HeldIsRegistered'
        BY <1>4, <2>0, <2>1 DEF IndInv, IdsInv, HeldIsRegistered, EndPush, OutputPlugged
    <2> QED
        BY <2>2, <2>3, <1>q, <1>t DEF IndInv
  <1> QED
      BY <1>1, <1>2, <1>3, <1>4 DEF OutputPlugged, PlugStep

LEMMA VblankInd ==
    ASSUME IndInv, InWaitVblank \/ VblankComes \/ VblankRuns
    PROVE  IndInv'
  <1> USE VblankAssumption
  <1>1. UNCHANGED <<registry, Test>>
      BY DEF InWaitVblank, VblankComes, VblankRuns
  <1>2. VblankTypeOK'
    <2> USE DEF IndInv, TypeOK, VblankTypeOK
    <2>1. CASE VblankComes
        BY <2>1 DEF VblankComes, SendVblank
    <2>2. CASE VblankRuns
        BY <2>2 DEF VblankRuns, NotifyVblank
    <2>3. CASE InWaitVblank
        BY <2>3 DEF InWaitVblank, TestPredicate, WakeSpuriously, Expire, AnswerExpired
    <2> QED
        BY <2>1, <2>2, <2>3
  <1>3. TypeOK' /\ IdsInv' /\ HeldIsRegistered'
      BY <1>1, <1>2 DEF IndInv, TypeOK, RegistryTypeOK, IdsInv, HeldIsRegistered
  <1>4. QuietInv'
      BY <1>1 DEF IndInv, TypeOK, VblankTypeOK, QuietInv, VsyncStops, InWaitVblank, VblankComes,
             VblankRuns, TestPredicate, WakeSpuriously, Expire, AnswerExpired, SendVblank,
             NotifyVblank
  <1>5. NoLostWakeup'
      BY DEF IndInv, NoLostWakeup, InWaitVblank, VblankComes, VblankRuns, TestPredicate,
             WakeSpuriously, Expire, AnswerExpired, SendVblank, NotifyVblank
  <1> QED
      BY <1>3, <1>4, <1>5 DEF IndInv
-----------------------------------------------------------------------------
LEMMA TestInd == IndInv /\ TestStep => IndInv'
  <1> SUFFICES ASSUME IndInv, TestStep PROVE IndInv'
      OBVIOUS
  <1> USE DEF IndInv
  <1>1. /\ UNCHANGED <<displays, displayIds, plugging, plugs, prompt>>
        /\ registered' \in BOOLEAN
      BY DEF TestStep, InitDevice, CopyDevIds, CopyTornIds, AssertIds, FindDisplay, EnableVsync,
             ResetFlag, BeginWait, EndWait, DisableVsync, Settle, ResetFlagAgain, EndWaitAgain,
             TearDownTestCase, RegHotPlugCallback, TypeOK, RegistryTypeOK
  <1>2. RegistryTypeOK'
      BY <1>1 DEF TypeOK, RegistryTypeOK
  <1>3. VblankTypeOK' /\ pc' \in PCs
      BY DEF TestStep, InitDevice, CopyDevIds, CopyTornIds, AssertIds, FindDisplay, EnableVsync,
             ResetFlag, BeginWait, EndWait, DisableVsync, Settle, ResetFlagAgain, EndWaitAgain,
             TearDownTestCase, TypeOK, VblankTypeOK, SetVsync, ResetHasVblank, CallWaitVblank
  <1>4. /\ g_displayIds' \in {g_displayIds, displayIds}
        /\ pc' = "display" => g_displayIds' # <<>>
      BY DEF TestStep, InitDevice, CopyDevIds, CopyTornIds, AssertIds, FindDisplay, EnableVsync,
             ResetFlag, BeginWait, EndWait, DisableVsync, Settle, ResetFlagAgain, EndWaitAgain,
             TearDownTestCase
  <1>5. display' \in {display, GetFirstDisplay}
      BY DEF TestStep, InitDevice, CopyDevIds, CopyTornIds, AssertIds, FindDisplay, EnableVsync,
             ResetFlag, BeginWait, EndWait, DisableVsync, Settle, ResetFlagAgain, EndWaitAgain,
             TearDownTestCase
  <1>6. \A d \in display' : /\ d \in [id : Outputs, display : Displays]
                            /\ d.id \in DOMAIN displays /\ displays[d.id] = d.display
      BY <1>5, FirstIsRegistered DEF TypeOK, HeldIsRegistered
  <1>7. TypeOK' /\ IdsInv' /\ HeldIsRegistered'
      BY <1>1, <1>2, <1>3, <1>4, <1>6 DEF TypeOK, RegistryTypeOK, IdsInv, HeldIsRegistered
  <1>8. NoLostWakeup'
      BY DEF TestStep, InitDevice, CopyDevIds, CopyTornIds, AssertIds, FindDisplay, EnableVsync,
             ResetFlag, BeginWait, EndWait, DisableVsync, Settle, ResetFlagAgain, EndWaitAgain,
             TearDownTestCase, NoLostWakeup, SetVsync, ResetHasVblank, CallWaitVblank
  <1>9. QuietInv'
      BY DEF TestStep, InitDevice, CopyDevIds, CopyTornIds, AssertIds, FindDisplay, EnableVsync,
             ResetFlag, BeginWait, EndWait, DisableVsync, Settle, ResetFlagAgain, EndWaitAgain,
             TearDownTestCase, QuietInv, VsyncStops, SetVsync, ResetHasVblank, CallWaitVblank,
             TypeOK, VblankTypeOK
  <1> QED
      BY <1>7, <1>8, <1>9

LEMMA Inductive == Spec => []IndInv
  <1>1. IndInv /\ UNCHANGED vars => IndInv'
      BY DEF IndInv, TypeOK, RegistryTypeOK, VblankTypeOK, IdsInv, HeldIsRegistered, QuietInv,
             VsyncStops, NoLostWakeup
  <1>2. IndInv /\ [Next]_vars => IndInv'
      BY <1>1, PlugInd, VblankInd, TestInd DEF Next
  <1> QED
      BY InitInd, <1>2, PTL DEF Spec
-----------------------------------------------------------------------------
\* Every variable keeps its type, for any outputs and bounds.
THEOREM TypeCorrect == Spec => []TypeOK
  BY Inductive, PTL DEF IndInv

\* The test never meets an id without a display, nor an empty registry once it
\* has asserted that there is an id, however HotPlug interleaves with it.
THEOREM IdsAreServed == Spec => []IdsHaveDisplays
  <1>1. IndInv => IdsHaveDisplays
    <2> SUFFICES ASSUME IndInv PROVE IdsHaveDisplays
        OBVIOUS
    <2>1. g_displayIds # <<>> => 1 \in DOMAIN g_displayIds
        BY EmptySeq, LenProperties DEF IndInv, TypeOK
    <2> QED
        BY <2>1 DEF IndInv, IdsInv, IdsHaveDisplays
  <1> QED
      BY <1>1, Inductive, PTL

\* The display a test holds stays the registry's, however often its output is
\* plugged in again.
THEOREM HeldStaysRegistered == Spec => []HeldIsRegistered
  BY Inductive, PTL DEF IndInv

\* After vsync was switched off, and a pause that outlasts the callbacks under
\* way, WaitVblank answers DISPLAY_FAILURE, as the test asserts.
THEOREM DisabledVsyncIsSilent == Spec => []VsyncStops
  BY Inductive, PTL DEF IndInv, QuietInv

\* WaitVblank does not sleep on a raised flag, so that a vblank that comes before
\* the wait or between two wake-ups of it ends the wait without its timeout.
THEOREM NoVblankIsMissed == Spec => []NoLostWakeup
  BY Inductive, PTL DEF IndInv
=============================================================================
