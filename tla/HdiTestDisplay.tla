--------------------------- MODULE HdiTestDisplay ---------------------------
(***************************************************************************)
(* HdiTestDisplay with its layers, as the composer tests drive it:         *)
(* CreateTestLayer, PrepareAndCommit, PresentAndCheck, DestroyLayer and    *)
(* the tear-downs of hdf/display/composer/{common,unittest,moduletest}.    *)
(* The test is one thread.  The composer device and the allocator are      *)
(* outside this repository: every call to them may fail, at most MaxFaults *)
(* times, and the device knows the layers it created and the buffers it    *)
(* was given a handle for.                                                 *)
(*                                                                         *)
(* Geometry, colours, composition types and blending are left out; they    *)
(* are handed to the device and decide nothing here.                       *)
(***************************************************************************)
EXTENDS LayerBuffers

CONSTANTS LayerIds,         \* ids the device may give to a layer
          BufferCount,      \* HdiTestLayer::MAX_BUFFER_COUNT
          MaxSeq,           \* bound: buffers ever allocated
          MaxFaults,        \* bound: device and allocator calls that fail
          Settings          \* what the suites and the device may do:

\* fences:   GetDisplayReleaseFence is one of the calls that may fail
\* resets:   tear-down calls ResetClientLayer between tests
\* destroys: tests destroy a layer behind the display's back
\* clears:   tests clear the device's client buffer cache
SettingType == [fences : BOOLEAN, resets : BOOLEAN, destroys : BOOLEAN, clears : BOOLEAN]

ASSUME DisplayAssumption ==
    /\ BufferCount \in Nat \ {0}
    /\ MaxSeq \in Nat /\ BufferCount <= MaxSeq
    /\ MaxFaults \in Nat
    /\ IsFiniteSet(LayerIds)
    /\ NoBuffer \notin Nat
    /\ Settings \subseteq SettingType

VARIABLES setting,      \* one of Settings, the same from start to end
          pc,           \* where PrepareAndCommit is
          checking,     \* it was called by PresentAndCheck
          todo,         \* layers PrepareDisplayLayers has still to visit
          layerMaps,    \* layerMaps_
          client,       \* clientLayer_, as a set of at most one layer
          needFlushFb,  \* needFlushFb_
          currentFb,    \* currentFb_
          cacheValid,   \* the buffers whose cacheValid_ is true
          originSeq,    \* GenerateSeq's counter
          nullLayer,    \* a test holds a null layer pointer
          devLayers,    \* device: its layers, each with the buffers it knows
          devClient,    \* device: the client buffers it knows
          uncached,     \* device: was given a null handle for an unknown buffer
          faults,       \* calls that have failed
          flushed,      \* this commit has given the device a client buffer
          lost,         \* commits that ended between the client layer's swaps
          onScreen      \* device: the client buffer it scans out

vars == <<setting, pc, checking, todo, layerMaps, client, needFlushFb, currentFb,
          cacheValid, originSeq, nullLayer, devLayers, devClient, uncached,
          faults, flushed, lost, onScreen>>

Buffers == 0..(MaxSeq - 1)

PCs == {"idle", "prepare", "refresh", "flush", "commit", "fences", "swap",
        "check", "failed", "crashed"}

TypeOK ==
    /\ setting \in Settings
    /\ pc \in PCs
    /\ {checking, needFlushFb, nullLayer, uncached, flushed} \subseteq BOOLEAN
    /\ todo \subseteq DOMAIN layerMaps
    /\ DOMAIN layerMaps \subseteq LayerIds
    /\ \A id \in DOMAIN layerMaps : layerMaps[id] \in LayerType(Buffers)
    /\ client \subseteq LayerType(Buffers)
    /\ {currentFb, onScreen} \subseteq Buffers \cup {NoBuffer}
    /\ cacheValid \subseteq Buffers
    /\ originSeq \in 0..MaxSeq
    /\ DOMAIN devLayers \subseteq LayerIds
    /\ \A id \in DOMAIN devLayers : devLayers[id] \subseteq Buffers
    /\ devClient \subseteq Buffers
    /\ faults \in 0..MaxFaults
    /\ lost \in 0..BufferCount

\* The display after HdiTestDisplay::Init.
Init ==
    /\ setting \in Settings
    /\ pc = "idle"
    /\ checking = FALSE
    /\ todo = {}
    /\ layerMaps = <<>>
    /\ client = {NewLayer(0, BufferCount)}
    /\ needFlushFb = FALSE
    /\ currentFb = NoBuffer
    /\ cacheValid = {}
    /\ originSeq = BufferCount
    /\ nullLayer = FALSE
    /\ devLayers = <<>>
    /\ devClient = {}
    /\ uncached = FALSE
    /\ faults = 0
    /\ flushed = FALSE
    /\ lost = 0
    /\ onScreen = NoBuffer
-----------------------------------------------------------------------------
\* A device or allocator call fails.
Fault == faults < MaxFaults /\ faults' = faults + 1

\* std::unordered_map::emplace keeps the entry a key already has.
Emplace(map, id, layer) ==
    [i \in DOMAIN map \cup {id} |-> IF i \in DOMAIN map THEN map[i] ELSE layer]

\* The device has created a layer: it knows none of its buffers yet.
DeviceCreates(id) ==
    devLayers' = [i \in DOMAIN devLayers \cup {id} |->
                     IF i = id THEN {} ELSE devLayers[i]]

Display == <<needFlushFb, currentFb, client, devClient, flushed, lost, onScreen>>
Call    == <<setting, checking, todo>>
-----------------------------------------------------------------------------
(* What a test does between presents.                                      *)

\* CreateTestLayer: the device makes the layer, Init allocates its buffers,
\* the display registers it, the test paints one buffer and queues it.
CreateTestLayer(id) ==
    /\ pc = "idle"
    /\ id \notin DOMAIN devLayers
    /\ originSeq + BufferCount <= MaxSeq
    /\ DeviceCreates(id)
    /\ layerMaps' = Emplace(layerMaps, id,
                            SwapFrontToBackQ(NewLayer(originSeq, BufferCount)))
    /\ originSeq' = originSeq + BufferCount
    /\ UNCHANGED <<pc, Call, Display, cacheValid, nullLayer, uncached, faults>>

\* The device refuses to create a layer: the test goes on with a null pointer.
CreateLayerFails ==
    /\ pc = "idle"
    /\ Fault
    /\ nullLayer' = TRUE
    /\ UNCHANGED <<pc, Call, Display, layerMaps, cacheValid, originSeq,
                   devLayers, uncached>>

\* Init runs out of memory at its k-th buffer: the layer object is dropped, the
\* device keeps the layer.
LayerInitFails(id, k) ==
    /\ pc = "idle"
    /\ id \notin DOMAIN devLayers
    /\ originSeq + k <= MaxSeq
    /\ Fault
    /\ DeviceCreates(id)
    /\ originSeq' = originSeq + k
    /\ nullLayer' = TRUE
    /\ UNCHANGED <<pc, Call, Display, layerMaps, cacheValid, uncached>>

\* CreateLayers hands the null pointer on and the tests only look at the size
\* of the vector.
UseNullLayer ==
    /\ pc = "idle"
    /\ nullLayer
    /\ pc' = "crashed"
    /\ UNCHANGED <<Call, Display, layerMaps, cacheValid, originSeq, nullLayer,
                   devLayers, uncached, faults>>

\* The tests' DestroyLayer goes to the device, past the display.
DestroyLayer(id) ==
    /\ pc = "idle"
    /\ setting.destroys
    /\ id \in DOMAIN devLayers
    /\ devLayers' = [i \in DOMAIN devLayers \ {id} |-> devLayers[i]]
    /\ UNCHANGED <<pc, Call, Display, layerMaps, cacheValid, originSeq,
                   nullLayer, uncached, faults>>

\* Mutated form of Clear: only the display's own map is cleared.
ClearMapOnly ==
    /\ pc = "idle"
    /\ layerMaps' = <<>>
    /\ UNCHANGED <<pc, Call, Display, cacheValid, originSeq, nullLayer,
                   devLayers, uncached, faults>>

\* HdiTestDisplay::Clear: every DestroyLayer is tried and its answer ignored.
Clear ==
    /\ pc = "idle"
    /\ \E refused \in SUBSET DOMAIN layerMaps :
          /\ faults + Cardinality(refused) <= MaxFaults
          /\ faults' = faults + Cardinality(refused)
          /\ devLayers' = [i \in DOMAIN devLayers \ (DOMAIN layerMaps \ refused)
                              |-> devLayers[i]]
    /\ layerMaps' = <<>>
    /\ UNCHANGED <<pc, Call, Display, cacheValid, originSeq, nullLayer, uncached>>

\* A tear-down that also drops the client layer.
ResetClientLayer ==
    /\ pc = "idle"
    /\ setting.resets
    /\ client' = {}
    /\ UNCHANGED <<pc, Call, layerMaps, needFlushFb, currentFb, cacheValid,
                   originSeq, nullLayer, devLayers, devClient, uncached, faults,
                   flushed, lost, onScreen>>

\* Tests of ClearClientBuffer make the device forget the client buffers.
ClearClientBuffer ==
    /\ pc = "idle"
    /\ setting.clears
    /\ devClient' = {}
    /\ UNCHANGED <<pc, Call, layerMaps, client, needFlushFb, currentFb,
                   cacheValid, originSeq, nullLayer, devLayers, uncached,
                   faults, flushed, lost, onScreen>>
-----------------------------------------------------------------------------
(* PrepareDisplayLayers.                                                   *)

Rest == <<setting, checking, originSeq, nullLayer>>

\* PrepareAndCommit, from PresentAndCheck or from a test that ignores its
\* answer.
PrepareAndCommit(present) ==
    /\ pc = "idle"
    /\ pc' = "prepare"
    /\ checking' = present
    /\ needFlushFb' = FALSE
    /\ flushed' = FALSE
    /\ todo' = DOMAIN layerMaps
    /\ UNCHANGED <<setting, layerMaps, client, currentFb, cacheValid, originSeq,
                   nullLayer, devLayers, devClient, uncached, faults, lost,
                   onScreen>>

\* Mutated form of Fail: the visit of the layers is not given up.
FailKeepsVisiting == pc' = "failed" /\ UNCHANGED todo

\* A call returned DISPLAY_FAILURE and so does everything above it.
Fail == pc' = "failed" /\ todo' = {}

\* The buffer the layer will show, and what SetGraphicBuffer does with it: the
\* handle is only sent the first time, later the device must know the buffer.
Shown(id) == AcquireBackBuffer(layerMaps[id])

SetLayerBuffer(id) ==
    LET buffer == Shown(id).cur IN
    /\ layerMaps' = [layerMaps EXCEPT ![id] = Shown(id)]
    /\ cacheValid' = cacheValid \cup {buffer}
    /\ IF buffer \in cacheValid
       THEN /\ uncached' = (uncached \/ buffer \notin devLayers[id])
            /\ UNCHANGED devLayers
       ELSE /\ devLayers' = [devLayers EXCEPT ![id] = @ \cup {buffer}]
            /\ UNCHANGED uncached

\* HdiTestLayer::PreparePresent succeeds.
PreparePresent(id) ==
    /\ pc = "prepare"
    /\ id \in todo
    /\ id \in DOMAIN devLayers
    /\ Shown(id).cur # NoBuffer
    /\ SetLayerBuffer(id)
    /\ todo' = todo \ {id}
    /\ UNCHANGED <<pc, Rest, Display, faults>>

\* The device refuses the layer, before anything changed: always when it does
\* not have the layer.  Or there is no buffer to show.
PreparePresentRefused(id) ==
    /\ pc = "prepare"
    /\ id \in todo
    /\ IF id \notin DOMAIN devLayers \/ Shown(id).cur = NoBuffer
       THEN UNCHANGED faults
       ELSE Fault
    /\ Fail
    /\ UNCHANGED <<Rest, Display, layerMaps, cacheValid, devLayers, uncached>>

\* Mutated form of the next action: cacheValid_ is set although SetLayerBuffer
\* failed.
PreparePresentCachesAnyway(id) ==
    /\ pc = "prepare"
    /\ id \in todo \cap DOMAIN devLayers
    /\ Shown(id).cur # NoBuffer
    /\ Fault
    /\ layerMaps' = [layerMaps EXCEPT ![id] = Shown(id)]
    /\ cacheValid' = cacheValid \cup {Shown(id).cur}
    /\ Fail
    /\ UNCHANGED <<Rest, Display, devLayers, uncached>>

\* The device fails once the buffer has been acquired, up to and including
\* SetLayerBuffer.
PreparePresentLosesBuffer(id) ==
    /\ pc = "prepare"
    /\ id \in todo \cap DOMAIN devLayers
    /\ Shown(id).cur # NoBuffer
    /\ Fault
    /\ layerMaps' = [layerMaps EXCEPT ![id] = Shown(id)]
    /\ Fail
    /\ UNCHANGED <<Rest, Display, cacheValid, devLayers, uncached>>

\* SetLayerBlendType, the last call, fails.
PreparePresentFailsLast(id) ==
    /\ pc = "prepare"
    /\ id \in todo \cap DOMAIN devLayers
    /\ Shown(id).cur # NoBuffer
    /\ Fault
    /\ SetLayerBuffer(id)
    /\ Fail
    /\ UNCHANGED <<Rest, Display>>

Layers == <<layerMaps, cacheValid, devLayers, uncached>>

\* device_->PrepareDisplayLayers says whether it needs the client layer.
DevicePrepares ==
    /\ pc = "prepare"
    /\ todo = {}
    /\ \/ needFlushFb' \in BOOLEAN /\ pc' = "refresh" /\ UNCHANGED <<todo, faults>>
       \/ Fault /\ Fail /\ UNCHANGED needFlushFb
    /\ UNCHANGED <<Rest, Layers, currentFb, client, devClient, flushed, lost,
                   onScreen>>

\* The device reports some of its layers; each is looked up with
\* GetLayerFromId, which answers nullptr for one the display does not know,
\* and the answer is dereferenced.
LookUpReported(from, to) ==
    /\ pc = from
    /\ \/ /\ \E reported \in SUBSET DOMAIN devLayers :
                pc' = IF reported \subseteq DOMAIN layerMaps THEN to ELSE "crashed"
          /\ UNCHANGED <<todo, faults>>
       \/ Fault /\ Fail
    /\ UNCHANGED <<Rest, Layers, Display>>

RefreshLayersCompType == LookUpReported("refresh", "flush")
-----------------------------------------------------------------------------
(* Commit.                                                                 *)

\* Without needFlushFb_ the client layer is left alone.
CommitWithoutFlush ==
    /\ pc = "flush"
    /\ ~needFlushFb
    /\ pc' = "commit"
    /\ UNCHANGED <<Rest, todo, Layers, Display, faults>>

\* clientLayer_-> after ResetClientLayer.
CommitWithoutClient ==
    /\ pc = "flush"
    /\ needFlushFb
    /\ client = {}
    /\ pc' = "crashed"
    /\ UNCHANGED <<Rest, todo, Layers, Display, faults>>

\* SwapFrontToBackQ finds no front buffer.
CommitWithoutFront ==
    /\ pc = "flush"
    /\ needFlushFb
    /\ \E layer \in client : ~CanSwapFrontToBackQ(layer)
    /\ Fail
    /\ UNCHANGED <<Rest, Layers, Display, faults>>

\* A client buffer is queued, cleared and given to the device; currentFb_
\* points to it even if the device refuses it.
CommitFlush ==
    /\ pc = "flush"
    /\ needFlushFb
    /\ \E layer \in client :
          LET swapped == SwapFrontToBackQ(layer)
              buffer  == GetBackBuffer(swapped)
          IN /\ CanSwapFrontToBackQ(layer)
             /\ client' = {swapped}
             /\ currentFb' = buffer
             /\ \/ /\ cacheValid' = cacheValid \cup {buffer}
                   /\ IF buffer \in cacheValid
                      THEN /\ uncached' = (uncached \/ buffer \notin devClient)
                           /\ UNCHANGED devClient
                      ELSE /\ devClient' = devClient \cup {buffer}
                           /\ UNCHANGED uncached
                   /\ pc' = "commit"
                   /\ flushed' = TRUE
                   /\ UNCHANGED <<todo, faults, lost>>
                \/ /\ Fault
                   /\ Fail
                   /\ lost' = lost + 1
                   /\ UNCHANGED <<cacheValid, devClient, uncached, flushed>>
    /\ UNCHANGED <<Rest, layerMaps, devLayers, needFlushFb, onScreen>>

\* A failure between the client layer's two swaps leaves a buffer in back.
LoseFlush == lost' = lost + (IF needFlushFb THEN 1 ELSE 0)

DeviceCommits ==
    /\ pc = "commit"
    /\ \/ /\ pc' = "fences"
          /\ onScreen' = IF needFlushFb THEN currentFb ELSE NoBuffer
          /\ UNCHANGED <<todo, faults, lost>>
       \/ Fault /\ Fail /\ LoseFlush /\ UNCHANGED onScreen
    /\ UNCHANGED <<Rest, Layers, needFlushFb, currentFb, client, devClient, flushed>>

GetLayersReleaseFence ==
    /\ pc = "fences"
    /\ \/ /\ \E reported \in SUBSET DOMAIN devLayers :
                pc' = IF reported \subseteq DOMAIN layerMaps THEN "swap" ELSE "crashed"
          /\ UNCHANGED <<todo, faults, lost>>
       \/ setting.fences /\ Fault /\ Fail /\ LoseFlush
    /\ UNCHANGED <<Rest, Layers, needFlushFb, currentFb, client, devClient,
                   flushed, onScreen>>

\* Mutated form of CommitSwapsBack: the client buffer stays in the back queue.
CommitKeepsBuffer ==
    /\ pc = "swap"
    /\ pc' = IF checking THEN "check" ELSE "idle"
    /\ UNCHANGED <<Rest, todo, Layers, Display, faults>>

\* The client buffer goes back to the front queue and Commit succeeds.
CommitSwapsBack ==
    /\ pc = "swap"
    /\ client' = IF needFlushFb THEN {SwapBackToFrontQ(layer) : layer \in client}
                                ELSE client
    /\ pc' = IF checking THEN "check" ELSE "idle"
    /\ UNCHANGED <<Rest, todo, Layers, needFlushFb, currentFb, devClient,
                   flushed, lost, faults, onScreen>>

\* PresentAndCheck reads the pixels behind SnapShot(), if there is one.
CheckSnapShot ==
    /\ pc = "check"
    /\ pc' = IF currentFb = NoBuffer \/ \E layer \in client : currentFb \in Held(layer)
             THEN "idle" ELSE "crashed"
    /\ UNCHANGED <<Rest, todo, Layers, Display, faults>>

\* A test whose present failed ends or goes on; the next call starts over.
ReturnFailure ==
    /\ pc = "failed"
    /\ pc' = "idle"
    /\ UNCHANGED <<Rest, todo, Layers, Display, faults>>
-----------------------------------------------------------------------------
TestStep ==
    \/ \E id \in LayerIds : CreateTestLayer(id) \/ DestroyLayer(id)
    \/ \E id \in LayerIds, k \in 1..BufferCount : LayerInitFails(id, k)
    \/ CreateLayerFails \/ UseNullLayer \/ Clear
    \/ ResetClientLayer \/ ClearClientBuffer
    \/ \E present \in BOOLEAN : PrepareAndCommit(present)

PrepareStep ==
    \/ \E id \in LayerIds :
          \/ PreparePresent(id)            \/ PreparePresentRefused(id)
          \/ PreparePresentLosesBuffer(id) \/ PreparePresentFailsLast(id)
    \/ DevicePrepares \/ RefreshLayersCompType

CommitStep ==
    \/ CommitWithoutFlush \/ CommitWithoutClient \/ CommitWithoutFront
    \/ CommitFlush \/ DeviceCommits \/ GetLayersReleaseFence
    \/ CommitSwapsBack \/ CheckSnapShot \/ ReturnFailure

Next == TestStep \/ PrepareStep \/ CommitStep

Spec == Init /\ [][Next]_vars
-----------------------------------------------------------------------------
(* Properties.                                                             *)

\* However presents fail, a layer keeps its BufferCount buffers, each in one
\* place, and shares none with another layer (the queue moves of hdi_test_layer
\* .cpp and the early returns between them).
BuffersConserved ==
    /\ \A layer \in client \cup Range(layerMaps) :
          Places(layer) = BufferCount /\ Cardinality(Held(layer)) = BufferCount
    /\ \A i, j \in DOMAIN layerMaps :
          i # j => Held(layerMaps[i]) \cap Held(layerMaps[j]) = {}
    /\ \A i \in DOMAIN layerMaps, layer \in client :
          Held(layerMaps[i]) \cap Held(layer) = {}

\* Every client buffer that stays behind in the back queue was left there by a
\* commit that failed between the swaps; so the display is only out of front
\* buffers ("has no front buffer") after BufferCount such failures.
BacklogIsLostFlushes ==
    pc # "crashed" => \A layer \in client :
        Len(layer.back) =
            lost + (IF pc \in {"commit", "fences", "swap"} /\ needFlushFb THEN 1 ELSE 0)

\* The buffer Commit clears and paints is never the one being scanned out, not
\* even with a backlog of flushes the device refused (GetBackBuffer takes the
\* oldest).  It is when GetDisplayReleaseFence fails after the device has
\* committed.
NeverClearsOnScreen ==
    ~setting.fences /\ pc = "commit" /\ flushed => currentFb # onScreen

\* The device is only asked to reuse a buffer it has been given a handle for
\* (SetGraphicBuffer and cacheValid_), unless a test has made it forget.
NullHandleIsKnown == uncached => setting.destroys \/ setting.clears

\* As long as the device does its work, and tests keep to the display's own
\* calls, PresentAndCheck's assertion holds and the process survives.
PresentSucceeds ==
    checking /\ faults = 0 /\ ~setting.destroys /\ ~setting.resets
        => pc \notin {"failed", "crashed"}

\* The assertion as the module tests make it, whose tear-down calls
\* ResetClientLayer.
PresentSucceedsAfterReset == checking /\ faults = 0 => pc \notin {"failed", "crashed"}
=============================================================================
