----------------------------- MODULE DeviceTest -----------------------------
(***************************************************************************)
(* A composer suite from SetUpTestCase to TearDownTestCase, with the test  *)
(* of the vblank callback (SUB_Driver_Display_HDI_7700, CtrlTest): the     *)
(* test thread against the composer's two callbacks, HotPlug and the       *)
(* vblank.  Layers and commits are HdiTestDisplay's and change nothing     *)
(* here.  A suite whose SetUpTestCase failed goes on to its tear-down, as  *)
(* in the gtest releases that skip the tests of such a suite.              *)
(***************************************************************************)
EXTENDS HdiTestDevice, VblankCtr

VARIABLES
  prompt,         \* callbacks sent before the test's usleep run during it
  pc,             \* where the test thread is
  g_displayIds,   \* the copy SetUpTestCase takes
  display         \* the display the test works with, as a set

vars == <<registry, vblank, prompt, pc, g_displayIds, display>>

PCs == {"init", "ids", "assert", "display", "enable", "reset", "wait", "waiting",
        "disable", "settle", "resetAgain", "waitAgain", "waitingAgain",
        "tearDown", "over", "crashed", "undefined"}

Init ==
  /\ RegistryInit /\ VblankInit
  /\ prompt \in BOOLEAN
  /\ pc = "init"
  /\ g_displayIds = <<>>
  /\ display = {}

Goto(p) == pc' = p
Mine == <<prompt, g_displayIds, display>>

\* An assertion of the test fails, or the test is through.
TearDown == Goto("tearDown")
-----------------------------------------------------------------------------
(* SetUpTestCase.                                                          *)

InitDevice ==
  /\ pc = "init"
  /\ \/ RegHotPlugCallback /\ Goto("ids")
     \/ TearDown /\ UNCHANGED registry
  /\ UNCHANGED <<vblank, Mine>>

CopyDevIds ==
  /\ pc = "ids"
  /\ g_displayIds' = GetDevIds
  /\ Goto("assert")
  /\ UNCHANGED <<registry, vblank, prompt, display>>

CopyTornIds ==
  /\ pc = "ids" /\ CopyIsTorn
  /\ Goto("undefined")
  /\ UNCHANGED <<registry, vblank, Mine>>

\* Mutated form of AssertIds: g_displayIds.size() >= 0.
AssertNothing ==
  /\ pc = "assert"
  /\ Goto("display")
  /\ UNCHANGED <<registry, vblank, Mine>>

AssertIds ==
  /\ pc = "assert"
  /\ IF g_displayIds = <<>> THEN TearDown ELSE Goto("display")
  /\ UNCHANGED <<registry, vblank, Mine>>
-----------------------------------------------------------------------------
(* The test.                                                               *)

\* GetFirstDisplay, asserted not to be null, and RegDisplayVBlankCallback, which
\* may fail.
FindDisplay ==
  /\ pc = "display"
  /\ display' = GetFirstDisplay
  /\ \/ display' # {} /\ Goto("enable")
     \/ TearDown
  /\ UNCHANGED <<registry, vblank, prompt, g_displayIds>>

EnableVsync ==
  /\ pc = "enable"
  /\ \/ SetVsync(TRUE) /\ Goto("reset")
     \/ TearDown /\ UNCHANGED vblank
  /\ UNCHANGED <<registry, Mine>>

\* Once CreateLayers has made the layer: hasVblank_ = false.  PrepareAndCommit's
\* answer is ignored.
ResetFlag ==
  /\ pc = "reset"
  /\ \/ ResetHasVblank /\ Goto("wait")
     \/ TearDown /\ UNCHANGED vblank
  /\ UNCHANGED <<registry, Mine>>

BeginWait(from, to) ==
  /\ pc = from
  /\ CallWaitVblank
  /\ Goto(to)
  /\ UNCHANGED <<registry, Mine>>

\* Only a build with DISPLAY_SUPPORT_ONLINE asserts that a vblank has come.
EndWait ==
  /\ pc = "waiting" /\ waiter = "none"
  /\ \/ Goto("disable")
     \/ answer = "failure" /\ TearDown
  /\ UNCHANGED <<registry, vblank, Mine>>

DisableVsync ==
  /\ pc = "disable"
  /\ \/ SetVsync(FALSE) /\ Goto("settle")
     \/ TearDown /\ UNCHANGED vblank
  /\ UNCHANGED <<registry, Mine>>

\* "avoid the last vsync": callbacks that are under way get a time to run.
Settle ==
  /\ pc = "settle"
  /\ prompt => pending = 0
  /\ Goto("resetAgain")
  /\ UNCHANGED <<registry, vblank, Mine>>

\* Mutated form of ResetFlagAgain: the flag is left as it is.
ResetNothing ==
  /\ pc = "resetAgain"
  /\ Goto("waitAgain")
  /\ UNCHANGED <<registry, vblank, Mine>>

ResetFlagAgain ==
  /\ pc = "resetAgain"
  /\ ResetHasVblank
  /\ Goto("waitAgain")
  /\ UNCHANGED <<registry, Mine>>

EndWaitAgain ==
  /\ pc = "waitingAgain" /\ waiter = "none"
  /\ TearDown
  /\ UNCHANGED <<registry, vblank, Mine>>

\* TearDownTestCase dereferences the first display.
TearDownTestCase ==
  /\ pc = "tearDown"
  /\ Goto(IF GetFirstDisplay = {} THEN "crashed" ELSE "over")
  /\ UNCHANGED <<registry, vblank, Mine>>

TestStep ==
  \/ InitDevice \/ CopyDevIds \/ CopyTornIds \/ AssertIds
  \/ FindDisplay \/ EnableVsync \/ ResetFlag
  \/ BeginWait("wait", "waiting") \/ EndWait
  \/ DisableVsync \/ Settle \/ ResetFlagAgain
  \/ BeginWait("waitAgain", "waitingAgain") \/ EndWaitAgain
  \/ TearDownTestCase
-----------------------------------------------------------------------------
Test == <<prompt, pc, g_displayIds, display>>

InWaitVblank ==
  /\ TestPredicate \/ WakeSpuriously \/ Expire \/ AnswerExpired
  /\ UNCHANGED <<registry, Test>>

VblankComes   == SendVblank /\ UNCHANGED <<registry, Test>>
VblankRuns    == NotifyVblank /\ UNCHANGED <<registry, Test>>
OutputPlugged == PlugStep /\ UNCHANGED <<vblank, Test>>

Next == TestStep \/ InWaitVblank \/ VblankComes \/ VblankRuns \/ OutputPlugged

Spec == Init /\ [][Next]_vars
-----------------------------------------------------------------------------
(* Properties.                                                             *)

TypeOK ==
  /\ RegistryTypeOK /\ VblankTypeOK
  /\ prompt \in BOOLEAN
  /\ pc \in PCs
  /\ g_displayIds \in Seq(Outputs)
  /\ display \subseteq [id : Outputs, display : Displays]

\* Whoever has got an id can get its display, whatever the composer's thread is
\* doing: the map is filled before the list.  So a suite that has asserted that
\* there is an id never meets an empty map, and a null display.
IdsHaveDisplays ==
  /\ \A i \in DOMAIN displayIds : displayIds[i] \in DOMAIN displays
  /\ \A i \in DOMAIN g_displayIds : g_displayIds[i] \in DOMAIN displays
  /\ pc = "display" => DOMAIN displays # {}

\* The display a test works with, and has its layers and its callback on, is
\* and stays the one the registry answers for its id, although an output that
\* is plugged in again makes a new one every time.
HeldIsRegistered ==
  \A d \in display : d.id \in DOMAIN displays /\ displays[d.id] = d.display

\* "vblank do not disable", the test's last assertion: once vsync is off, and
\* the callbacks that were under way have had their time, a wait times out.
VsyncStops ==
  prompt /\ pc = "waitingAgain" /\ waiter = "none" => answer = "failure"
=============================================================================
