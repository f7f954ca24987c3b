---------------------------- MODULE HdiTestDevice ----------------------------
(***************************************************************************)
(* HdiTestDevice, the registry of displays of the composer suites          *)
(* (hdf/display/composer/common/hdi_test_device.cpp).  The composer, which *)
(* is outside the repository, reports outputs by calling HotPlug on a      *)
(* thread of its own, one call after the other; the test thread looks into *)
(* displays_ and displayIds_ meanwhile, and neither takes a lock.          *)
(*                                                                         *)
(* A display object is the number of the call that made it.  Calls with    *)
(* connected = false return at once and are left out.  std::map gives the  *)
(* test either what it held before an emplace or what it holds after it;   *)
(* a copy of a std::vector that is growing may be anything.                *)
(***************************************************************************)
EXTENDS Naturals, Sequences

CONSTANTS Outputs,     \* output ids the composer may report
          MaxPlugs     \* bound: calls of HotPlug

ASSUME RegistryAssumption == Outputs \subseteq Nat /\ MaxPlugs \in Nat

VARIABLES
  registered,   \* RegHotPlugCallback has been called
  displays,     \* displays_
  displayIds,   \* displayIds_
  plugging,     \* the call of HotPlug: its id, its display and where it is
  plugs         \* calls so far

registry == <<registered, displays, displayIds, plugging, plugs>>

Displays == 1 .. MaxPlugs

PlugPCs == {"none", "emplace", "push", "pushing"}

NoPlug == [pc |-> "none", id |-> 0, display |-> 0]

RegistryTypeOK ==
  /\ registered \in BOOLEAN
  /\ DOMAIN displays \subseteq Outputs
  /\ displays \in [DOMAIN displays -> Displays]
  /\ displayIds \in Seq(Outputs)
  /\ plugging \in [pc : PlugPCs, id : Outputs \cup {0}, display : Displays \cup {0}]
  /\ plugs \in 0 .. MaxPlugs

RegistryInit ==
  /\ registered = FALSE
  /\ displays = [i \in {} |-> 0]
  /\ displayIds = <<>>
  /\ plugging = NoPlug
  /\ plugs = 0
-----------------------------------------------------------------------------
(* The composer's thread.                                                  *)

\* Mutated form of HotPlug: the display whose Init failed is kept, as null.
HotPlugNull(id) ==
  /\ registered /\ plugging.pc = "none" /\ plugs < MaxPlugs
  /\ plugs' = plugs + 1
  /\ \E d \in {0, plugs + 1} :
        plugging' = [pc |-> "emplace", id |-> id, display |-> d]
  /\ UNCHANGED <<registered, displays, displayIds>>

\* FindDisplayOrCreate makes and initialises a display whether or not it found
\* one.  Init asks the device for its modes and may fail: nothing is kept then.
HotPlug(id) ==
  /\ registered /\ plugging.pc = "none" /\ plugs < MaxPlugs
  /\ plugs' = plugs + 1
  /\ \/ plugging' = [pc |-> "emplace", id |-> id, display |-> plugs + 1]
     \/ UNCHANGED plugging
  /\ UNCHANGED <<registered, displays, displayIds>>

\* Mutated form of EmplaceDisplay: displays_[id] = display.
AssignDisplay ==
  /\ plugging.pc = "emplace"
  /\ displays' = [i \in DOMAIN displays \cup {plugging.id} |->
                    IF i = plugging.id THEN plugging.display ELSE displays[i]]
  /\ plugging' = [plugging EXCEPT !.pc = "push"]
  /\ UNCHANGED <<registered, displayIds, plugs>>

\* displays_.emplace keeps the display an id already has ...
EmplaceDisplay ==
  /\ plugging.pc = "emplace"
  /\ displays' = [i \in DOMAIN displays \cup {plugging.id} |->
                    IF i \in DOMAIN displays THEN displays[i] ELSE plugging.display]
  /\ plugging' = [plugging EXCEPT !.pc = "push"]
  /\ UNCHANGED <<registered, displayIds, plugs>>

\* ... and displayIds_ gets the id all the same.
BeginPush ==
  /\ plugging.pc = "push"
  /\ plugging' = [plugging EXCEPT !.pc = "pushing"]
  /\ UNCHANGED <<registered, displays, displayIds, plugs>>

EndPush ==
  /\ plugging.pc = "pushing"
  /\ displayIds' = Append(displayIds, plugging.id)
  /\ plugging' = NoPlug
  /\ UNCHANGED <<registered, displays, plugs>>

PlugStep ==
  \/ \E id \in Outputs : HotPlug(id)
  \/ EmplaceDisplay \/ BeginPush \/ EndPush
-----------------------------------------------------------------------------
(* What the test thread calls.                                             *)

\* InitDevice, once the services are there.
RegHotPlugCallback ==
  /\ registered' = TRUE
  /\ UNCHANGED <<displays, displayIds, plugging, plugs>>

GetDevIds == displayIds

\* GetDevIds copies a vector that is being written.
CopyIsTorn == plugging.pc = "pushing"

\* The id and the display of displays_.begin(), if there is one: a std::map is
\* ordered by its keys.
GetFirstDisplay ==
  LET first == {i \in DOMAIN displays : \A j \in DOMAIN displays : i <= j} IN
  {[id |-> i, display |-> displays[i]] : i \in first}
=============================================================================
