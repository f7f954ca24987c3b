---------------------------- MODULE LayerBuffers ----------------------------
(***************************************************************************)
(* The buffer queues of one HdiTestLayer                                   *)
(* (hdf/display/composer/common/hdi_test_layer.cpp): buffers that are free *)
(* to be painted wait in front, buffers that are painted wait in back, and *)
(* cur is the buffer the layer shows.  A buffer is its seqNo_, unique in   *)
(* the process (GenerateSeq).                                              *)
(***************************************************************************)
EXTENDS Naturals, Sequences, FiniteSets, Functions

CONSTANT NoBuffer      \* a null HdiGrallocBuffer pointer

LayerType(Buffers) ==
    [front : Seq(Buffers), back : Seq(Buffers), cur : Buffers \cup {NoBuffer}]

\* Init: bufferCount fresh buffers, all of them free.
NewLayer(firstSeq, bufferCount) ==
    [front |-> [i \in 1..bufferCount |-> firstSeq + (i - 1)],
     back  |-> <<>>,
     cur   |-> NoBuffer]

Held(layer) ==
    Range(layer.front) \cup Range(layer.back) \cup ({layer.cur} \ {NoBuffer})

\* How many buffers the three places hold, counted with repetition.
Places(layer) ==
    Len(layer.front) + Len(layer.back) + (IF layer.cur = NoBuffer THEN 0 ELSE 1)

\* Mutated form of GetBackBuffer: the buffer painted last.
GetNewestBackBuffer(layer) ==
    IF layer.back = <<>> THEN NoBuffer ELSE layer.back[Len(layer.back)]

GetBackBuffer(layer) ==
    IF layer.back = <<>> THEN NoBuffer ELSE Head(layer.back)

\* The swaps fail on an empty queue; their callers test CanSwap... first.
CanSwapFrontToBackQ(layer) == layer.front # <<>>

\* Mutated form of SwapFrontToBackQ: frontBuffers_.pop() is missing.
SwapWithoutPop(layer) ==
    [layer EXCEPT !.back = Append(@, Head(layer.front))]

SwapFrontToBackQ(layer) ==
    [layer EXCEPT !.back = Append(@, Head(layer.front)), !.front = Tail(@)]

CanSwapBackToFrontQ(layer) == layer.back # <<>>

SwapBackToFrontQ(layer) ==
    [layer EXCEPT !.front = Append(@, Head(layer.back)), !.back = Tail(@)]

\* The oldest painted buffer replaces the one shown, which is free again; with
\* nothing painted the layer goes on showing what it shows.
AcquireBackBuffer(layer) ==
    IF layer.back = <<>>
    THEN layer
    ELSE [front |-> IF layer.cur = NoBuffer
                    THEN layer.front
                    ELSE Append(layer.front, layer.cur),
          back  |-> Tail(layer.back),
          cur   |-> Head(layer.back)]
=============================================================================
