------------------------ MODULE HdiTestDisplayProofs ------------------------
(***************************************************************************)
(* What holds of HdiTestDisplay for any layer ids, any number of buffers   *)
(* per layer and any number of failing calls.                              *)
(*                                                                         *)
(* A layer is Well when its three places have all its buffers and none     *)
(* twice; the queue moves keep that and what the layer holds.  BufferInv   *)
(* says it of all layers, and that a buffer is in one layer only and older *)
(* than the next one GenerateSeq will number.  FlushInv counts the client  *)
(* buffers in back, ScreenInv says where the one on the screen is: last in *)
(* the queue, which GetBackBuffer takes from the other end of.  DeviceInv  *)
(* says what the device knows, CalmInv what a run without failures is like.*)
(***************************************************************************)
EXTENDS HdiTestDisplay, SequenceTheorems, FiniteSetTheorems, TLAPS

Unique(layer) ==
    /\ IsInjective(layer.front) /\ IsInjective(layer.back)
    /\ Range(layer.front) \cap Range(layer.back) = {}
    /\ layer.cur \notin Range(layer.front) \cup Range(layer.back)

Well(layer) ==
    /\ layer \in LayerType(Buffers)
    /\ Unique(layer)
    /\ Places(layer) = BufferCount

\* The two ends of the queue that back and front are together.
Oldest(layer) == IF layer.back # <<>> THEN layer.back[1] ELSE layer.front[1]
Newest(layer) == IF layer.front # <<>> THEN layer.front[Len(layer.front)]
                                       ELSE layer.back[Len(layer.back)]

Shows(layer) == layer.back # <<>> \/ layer.cur # NoBuffer

BufferInv ==
    /\ \A layer \in client : Well(layer) /\ layer.cur = NoBuffer
    /\ \A layer, other \in client : layer = other
    /\ \A id \in DOMAIN layerMaps : Well(layerMaps[id]) /\ Shows(layerMaps[id])
    /\ \A i, j \in DOMAIN layerMaps :
          i # j => Held(layerMaps[i]) \cap Held(layerMaps[j]) = {}
    /\ \A i \in DOMAIN layerMaps, layer \in client :
          Held(layerMaps[i]) \cap Held(layer) = {}
    /\ \A layer \in client : Held(layer) \subseteq 0 .. (originSeq - 1)
    /\ \A i \in DOMAIN layerMaps : Held(layerMaps[i]) \subseteq 0 .. (originSeq - 1)
    /\ cacheValid \subseteq 0 .. (originSeq - 1)

Committing == {"commit", "fences", "swap"}

FlushInv ==
    /\ BacklogIsLostFlushes
    /\ pc \in {"prepare", "refresh", "flush"} => ~flushed
    /\ pc \in Committing => (flushed <=> needFlushFb)
    /\ pc \in Committing /\ needFlushFb => client # {}

ScreenInv ==
    ~setting.fences /\ pc # "crashed" => \A layer \in client :
        /\ onScreen # NoBuffer =>
              onScreen = IF pc \in {"fences", "swap"} THEN Oldest(layer) ELSE Newest(layer)
        /\ pc \in {"fences", "swap"} /\ ~flushed => onScreen = NoBuffer
        /\ pc \in Committing /\ flushed => currentFb = Oldest(layer) /\ layer.back # <<>>

DeviceInv ==
    ~setting.destroys /\ ~setting.clears =>
        /\ ~uncached
        /\ DOMAIN layerMaps \subseteq DOMAIN devLayers
        /\ \A id \in DOMAIN layerMaps :
              Held(layerMaps[id]) \cap cacheValid \subseteq devLayers[id]
        /\ \A layer \in client : Held(layer) \cap cacheValid \subseteq devClient

CalmInv ==
    /\ lost <= faults
    /\ faults = 0 /\ ~setting.destroys /\ ~setting.resets =>
        /\ pc \notin {"failed", "crashed"}
        /\ ~nullLayer
        /\ client # {}
        /\ DOMAIN layerMaps = DOMAIN devLayers
        /\ \A layer \in client : currentFb \in Held(layer) \cup {NoBuffer}

VisitInv == pc # "prepare" => todo = {}

Inv == TypeOK /\ BufferInv /\ FlushInv /\ ScreenInv /\ DeviceInv /\ CalmInv /\ VisitInv
-----------------------------------------------------------------------------
(* Queues.                                                                 *)

LEMMA ElementsOfSeq ==
    ASSUME NEW S, NEW s \in Seq(S)
    PROVE  /\ Range(s) \subseteq S
           /\ \A x : x \in Range(s) <=> \E i \in 1 .. Len(s) : s[i] = x
           /\ IsInjective(s) <=> \A i, j \in 1 .. Len(s) : s[i] = s[j] => i = j
  BY LenProperties DEF Range, IsInjective

LEMMA LenOfSeq ==
    ASSUME NEW S, NEW s \in Seq(S)
    PROVE  Len(s) \in Nat /\ (s = <<>> <=> Len(s) = 0)
  BY LenProperties, EmptySeq

LEMMA PushBack ==
    ASSUME NEW S, NEW s \in Seq(S), NEW x \in S
    PROVE  /\ Append(s, x) \in Seq(S) /\ Append(s, x) # <<>>
           /\ Len(Append(s, x)) = Len(s) + 1
           /\ Range(Append(s, x)) = Range(s) \cup {x}
           /\ IsInjective(s) /\ x \notin Range(s) => IsInjective(Append(s, x))
           /\ Append(s, x)[Len(s) + 1] = x
           /\ s # <<>> => Append(s, x)[1] = s[1]
  <1>1. /\ Append(s, x) \in Seq(S) /\ Append(s, x) # <<>>
        /\ Len(Append(s, x)) = Len(s) + 1 /\ Len(s) \in Nat
        /\ \A i \in 1 .. Len(s) : Append(s, x)[i] = s[i]
        /\ Append(s, x)[Len(s) + 1] = x
      BY AppendProperties, LenProperties
  <1>2. Range(Append(s, x)) = Range(s) \cup {x}
    <2>1. \A y : y \in Range(s) <=> \E i \in 1 .. Len(s) : s[i] = y
        BY ElementsOfSeq
    <2>0. \A y : y \in Range(Append(s, x)) <=>
                  \E i \in 1 .. Len(Append(s, x)) : Append(s, x)[i] = y
        BY <1>1, ElementsOfSeq
    <2>2. \A y : y \in Range(Append(s, x)) <=> \E i \in 1 .. Len(s) + 1 : Append(s, x)[i] = y
        BY <1>1, <2>0
    <2>3. ASSUME NEW y \in Range(s) PROVE y \in Range(Append(s, x))
        BY <1>1, <2>1, <2>2
    <2>4. x \in Range(Append(s, x))
        BY <1>1, <2>2
    <2>5. ASSUME NEW y \in Range(Append(s, x)) PROVE y \in Range(s) \cup {x}
      <3>1. PICK i \in 1 .. Len(s) + 1 : Append(s, x)[i] = y
          BY <2>2
      <3>2. i \in 1 .. Len(s) \/ i = Len(s) + 1
          BY <1>1
      <3> QED
          BY <1>1, <2>1, <3>1, <3>2
    <2> QED
        BY <2>3, <2>4, <2>5
  <1>3. ASSUME IsInjective(s), x \notin Range(s) PROVE IsInjective(Append(s, x))
    <2>1. \A i, j \in 1 .. Len(s) : s[i] = s[j] => i = j
        BY <1>3, ElementsOfSeq
    <2>2. \A i \in 1 .. Len(s) : s[i] # x
        BY <1>3, ElementsOfSeq
    <2>3. \A i, j \in 1 .. Len(s) + 1 : Append(s, x)[i] = Append(s, x)[j] => i = j
        BY <1>1, <2>1, <2>2
    <2> QED
        BY <1>1, <2>3, ElementsOfSeq
  <1>4. ASSUME s # <<>> PROVE Append(s, x)[1] = s[1]
    <2>1. 1 \in 1 .. Len(s)
        BY <1>4, LenOfSeq
    <2> QED
        BY <1>1, <2>1
  <1> QED
      BY <1>1, <1>2, <1>3, <1>4

LEMMA PopFront ==
    ASSUME NEW S, NEW s \in Seq(S), s # <<>>
    PROVE  /\ Head(s) \in S /\ Head(s) = s[1] /\ Tail(s) \in Seq(S)
           /\ Len(Tail(s)) = Len(s) - 1
           /\ Range(s) = {s[1]} \cup Range(Tail(s))
           /\ IsInjective(s) => IsInjective(Tail(s)) /\ s[1] \notin Range(Tail(s))
           /\ Tail(s) # <<>> => Tail(s)[Len(Tail(s))] = s[Len(s)]
           /\ Tail(s) = <<>> => s[Len(s)] = s[1]
  <1>1. /\ Len(s) \in Nat \ {0} /\ Tail(s) \in Seq(S) /\ Len(Tail(s)) = Len(s) - 1
        /\ \A i \in 1 .. Len(Tail(s)) : Tail(s)[i] = s[i + 1]
        /\ Head(s) = s[1] /\ Head(s) \in S
      BY HeadTailProperties, EmptySeq
  <1>2. /\ \A x : x \in Range(s) <=> \E i \in 1 .. Len(s) : s[i] = x
        /\ \A x : x \in Range(Tail(s)) <=> \E i \in 1 .. Len(Tail(s)) : Tail(s)[i] = x
    <2>1. \A x : x \in Range(s) <=> \E i \in 1 .. Len(s) : s[i] = x
        BY ElementsOfSeq
    <2>2. \A x : x \in Range(Tail(s)) <=> \E i \in 1 .. Len(Tail(s)) : Tail(s)[i] = x
        BY <1>1, ElementsOfSeq
    <2> QED
        BY <2>1, <2>2
  <1>3. Range(s) = {s[1]} \cup Range(Tail(s))
    <2>1. s[1] \in Range(s)
        BY <1>1, <1>2
    <2>2. ASSUME NEW x \in Range(Tail(s)) PROVE x \in Range(s)
      <3>1. PICK i \in 1 .. Len(Tail(s)) : Tail(s)[i] = x
          BY <1>2
      <3>2. i + 1 \in 1 .. Len(s) /\ s[i + 1] = x
          BY <1>1, <3>1
      <3> QED
          BY <1>2, <3>2
    <2>3. ASSUME NEW x \in Range(s), x # s[1] PROVE x \in Range(Tail(s))
      <3>1. PICK i \in 1 .. Len(s) : s[i] = x
          BY <1>2
      <3>2. i - 1 \in 1 .. Len(Tail(s)) /\ Tail(s)[i - 1] = x
          BY <1>1, <2>3, <3>1
      <3> QED
          BY <1>2, <3>2
    <2> QED
        BY <2>1, <2>2, <2>3
  <1>4. ASSUME IsInjective(s) PROVE IsInjective(Tail(s)) /\ s[1] \notin Range(Tail(s))
    <2>1. \A i, j \in 1 .. Len(s) : s[i] = s[j] => i = j
        BY <1>4, ElementsOfSeq
    <2>2. \A i, j \in 1 .. Len(Tail(s)) : Tail(s)[i] = Tail(s)[j] => i = j
        BY <1>1, <2>1
    <2>3. \A i \in 1 .. Len(Tail(s)) : Tail(s)[i] # s[1]
        BY <1>1, <2>1
    <2>4. IsInjective(Tail(s))
        BY <1>1, <2>2, ElementsOfSeq
    <2> QED
        BY <1>2, <2>3, <2>4
  <1>5. /\ Tail(s) # <<>> => Tail(s)[Len(Tail(s))] = s[Len(s)]
        /\ Tail(s) = <<>> => s[Len(s)] = s[1]
    <2>1. Len(Tail(s)) \in Nat /\ (Tail(s) = <<>> <=> Len(Tail(s)) = 0)
        BY <1>1, LenOfSeq
    <2> QED
        BY <1>1, <2>1
  <1> QED
      BY <1>1, <1>3, <1>4, <1>5
-----------------------------------------------------------------------------
(* One layer: its queue moves keep what it holds.                          *)

LEMMA LayerParts ==
    ASSUME NEW layer \in LayerType(Buffers)
    PROVE  /\ layer.front \in Seq(Buffers) /\ layer.back \in Seq(Buffers)
           /\ layer.cur \in Buffers \cup {NoBuffer}
           /\ layer = [front |-> layer.front, back |-> layer.back, cur |-> layer.cur]
           /\ Len(layer.front) \in Nat /\ Len(layer.back) \in Nat
  BY LenProperties DEF LayerType

LEMMA NoBufferApart == NoBuffer \notin Buffers /\ Buffers \subseteq Nat
  BY DisplayAssumption DEF Buffers

LEMMA SwapForth ==
    ASSUME NEW layer, Well(layer), CanSwapFrontToBackQ(layer)
    PROVE  /\ Well(SwapFrontToBackQ(layer))
           /\ Held(SwapFrontToBackQ(layer)) = Held(layer)
           /\ SwapFrontToBackQ(layer).cur = layer.cur
           /\ Len(SwapFrontToBackQ(layer).back) = Len(layer.back) + 1
           /\ SwapFrontToBackQ(layer).back # <<>>
           /\ Oldest(SwapFrontToBackQ(layer)) = Oldest(layer)
           /\ Newest(SwapFrontToBackQ(layer)) = Newest(layer)
  <1> DEFINE f == layer.front
             b == layer.back
             x == f[1]
             swapped == SwapFrontToBackQ(layer)
  <1>1. /\ f \in Seq(Buffers) /\ b \in Seq(Buffers) /\ f # <<>>
        /\ layer = [front |-> f, back |-> b, cur |-> layer.cur]
        /\ layer.cur \in Buffers \cup {NoBuffer}
        /\ Len(f) \in Nat /\ Len(b) \in Nat
      BY LayerParts DEF Well, CanSwapFrontToBackQ
  <1>2. /\ x \in Buffers /\ Head(f) = x /\ Tail(f) \in Seq(Buffers)
        /\ Len(Tail(f)) = Len(f) - 1
        /\ Range(f) = {x} \cup Range(Tail(f))
        /\ IsInjective(f) => IsInjective(Tail(f)) /\ x \notin Range(Tail(f))
        /\ Tail(f) # <<>> => Tail(f)[Len(Tail(f))] = f[Len(f)]
        /\ Tail(f) = <<>> => f[Len(f)] = x
      BY <1>1, PopFront
  <1>3. /\ Append(b, x) \in Seq(Buffers) /\ Append(b, x) # <<>>
        /\ Len(Append(b, x)) = Len(b) + 1
        /\ Range(Append(b, x)) = Range(b) \cup {x}
        /\ IsInjective(b) /\ x \notin Range(b) => IsInjective(Append(b, x))
        /\ Append(b, x)[Len(b) + 1] = x
        /\ b # <<>> => Append(b, x)[1] = b[1]
      BY <1>1, <1>2, PushBack
  <1>4. /\ swapped.front = Tail(f) /\ swapped.back = Append(b, x)
        /\ swapped.cur = layer.cur
        /\ swapped \in LayerType(Buffers)
      BY <1>1, <1>2, <1>3 DEF SwapFrontToBackQ, LayerType
  <1>5. b = <<>> => Append(b, x)[1] = x
      BY <1>1, <1>3, LenOfSeq
  <1> HIDE DEF f, b, x, swapped
  <1>6. Unique(layer) <=> /\ IsInjective(f) /\ IsInjective(b)
                          /\ Range(f) \cap Range(b) = {}
                          /\ layer.cur \notin Range(f) \cup Range(b)
      BY DEF Unique, f, b
  <1>7. Unique(swapped)
      BY <1>2, <1>3, <1>4, <1>6 DEF Unique, Well
  <1>8. Places(swapped) = BufferCount
    <2>1. Places(layer) = Len(f) + Len(b) + (IF layer.cur = NoBuffer THEN 0 ELSE 1)
        BY DEF Places, f, b
    <2> QED
        BY <1>1, <1>2, <1>3, <1>4, <2>1 DEF Places, Well
  <1>9. Held(swapped) = Held(layer)
    <2>1. Held(layer) = Range(f) \cup Range(b) \cup ({layer.cur} \ {NoBuffer})
        BY DEF Held, f, b
    <2> QED
        BY <1>2, <1>3, <1>4, <2>1 DEF Held
  <1>10. Oldest(swapped) = Oldest(layer)
    <2>1. Oldest(layer) = IF b # <<>> THEN b[1] ELSE x
        BY DEF Oldest, f, b, x
    <2> QED
        BY <1>3, <1>4, <1>5, <2>1 DEF Oldest
  <1>11. Newest(swapped) = Newest(layer)
    <2>1. Newest(layer) = f[Len(f)]
        BY <1>1 DEF Newest, f
    <2> QED
        BY <1>2, <1>3, <1>4, <2>1 DEF Newest
  <1> QED
      BY <1>3, <1>4, <1>7, <1>8, <1>9, <1>10, <1>11 DEF Well, b, swapped

LEMMA SwapBack ==
    ASSUME NEW layer, Well(layer), layer.back # <<>>
    PROVE  /\ Well(SwapBackToFrontQ(layer))
           /\ Held(SwapBackToFrontQ(layer)) = Held(layer)
           /\ SwapBackToFrontQ(layer).cur = layer.cur
           /\ Len(SwapBackToFrontQ(layer).back) = Len(layer.back) - 1
           /\ Newest(SwapBackToFrontQ(layer)) = Oldest(layer)
  <1> DEFINE f == layer.front
             b == layer.back
             x == b[1]
             swapped == SwapBackToFrontQ(layer)
  <1>1. /\ f \in Seq(Buffers) /\ b \in Seq(Buffers) /\ b # <<>>
        /\ layer = [front |-> f, back |-> b, cur |-> layer.cur]
        /\ layer.cur \in Buffers \cup {NoBuffer}
        /\ Len(f) \in Nat /\ Len(b) \in Nat
      BY LayerParts DEF Well
  <1>2. /\ x \in Buffers /\ Head(b) = x /\ Tail(b) \in Seq(Buffers)
        /\ Len(Tail(b)) = Len(b) - 1
        /\ Range(b) = {x} \cup Range(Tail(b))
        /\ IsInjective(b) => IsInjective(Tail(b)) /\ x \notin Range(Tail(b))
      BY <1>1, PopFront
  <1>3. /\ Append(f, x) \in Seq(Buffers) /\ Append(f, x) # <<>>
        /\ Len(Append(f, x)) = Len(f) + 1
        /\ Range(Append(f, x)) = Range(f) \cup {x}
        /\ IsInjective(f) /\ x \notin Range(f) => IsInjective(Append(f, x))
        /\ Append(f, x)[Len(f) + 1] = x
      BY <1>1, <1>2, PushBack
  <1>4. /\ swapped.front = Append(f, x) /\ swapped.back = Tail(b)
        /\ swapped.cur = layer.cur
        /\ swapped \in LayerType(Buffers)
      BY <1>1, <1>2, <1>3 DEF SwapBackToFrontQ, LayerType
  <1> HIDE DEF f, b, x, swapped
  <1>6. Unique(layer) <=> /\ IsInjective(f) /\ IsInjective(b)
                          /\ Range(f) \cap Range(b) = {}
                          /\ layer.cur \notin Range(f) \cup Range(b)
      BY DEF Unique, f, b
  <1>7. Unique(swapped)
      BY <1>2, <1>3, <1>4, <1>6 DEF Unique, Well
  <1>8. Places(swapped) = BufferCount
    <2>1. Places(layer) = Len(f) + Len(b) + (IF layer.cur = NoBuffer THEN 0 ELSE 1)
        BY DEF Places, f, b
    <2> QED
        BY <1>1, <1>2, <1>3, <1>4, <2>1 DEF Places, Well
  <1>9. Held(swapped) = Held(layer)
    <2>1. Held(layer) = Range(f) \cup Range(b) \cup ({layer.cur} \ {NoBuffer})
        BY DEF Held, f, b
    <2> QED
        BY <1>2, <1>3, <1>4, <2>1 DEF Held
  <1>10. Newest(swapped) = Oldest(layer)
    <2>1. Oldest(layer) = x
        BY <1>1 DEF Oldest, b, x
    <2> QED
        BY <1>3, <1>4, <2>1 DEF Newest
  <1> QED
      BY <1>2, <1>4, <1>7, <1>8, <1>9, <1>10 DEF Well, b, swapped

LEMMA Acquire ==
    ASSUME NEW layer, Well(layer), Shows(layer)
    PROVE  /\ Well(AcquireBackBuffer(layer))
           /\ Held(AcquireBackBuffer(layer)) = Held(layer)
           /\ AcquireBackBuffer(layer).cur \in Held(layer)
           /\ AcquireBackBuffer(layer).cur # NoBuffer
  <1> DEFINE f == layer.front
             b == layer.back
             c == layer.cur
             x == b[1]
             acquired == AcquireBackBuffer(layer)
  <1>1. /\ f \in Seq(Buffers) /\ b \in Seq(Buffers)
        /\ layer = [front |-> f, back |-> b, cur |-> c]
        /\ c \in Buffers \cup {NoBuffer}
        /\ Len(f) \in Nat /\ Len(b) \in Nat /\ NoBuffer \notin Buffers
      BY LayerParts, NoBufferApart DEF Well
  <1>2. CASE b = <<>>
    <2>1. acquired = layer
        BY <1>2 DEF AcquireBackBuffer
    <2>2. c # NoBuffer
        BY <1>2 DEF Shows
    <2> QED
        BY <2>1, <2>2 DEF Held
  <1>3. CASE b # <<>>
    <2>1. /\ x \in Buffers /\ Head(b) = x /\ Tail(b) \in Seq(Buffers)
          /\ Len(Tail(b)) = Len(b) - 1
          /\ Range(b) = {x} \cup Range(Tail(b))
          /\ IsInjective(b) => IsInjective(Tail(b)) /\ x \notin Range(Tail(b))
        BY <1>1, <1>3, PopFront
    <2>2. /\ acquired.back = Tail(b) /\ acquired.cur = x
          /\ acquired.front = IF c = NoBuffer THEN f ELSE Append(f, c)
          /\ acquired = [front |-> acquired.front, back |-> Tail(b), cur |-> x]
        BY <1>3, <2>1 DEF AcquireBackBuffer
    <2> HIDE DEF f, b, c, x, acquired
    <2>3. Unique(layer) <=> /\ IsInjective(f) /\ IsInjective(b)
                            /\ Range(f) \cap Range(b) = {}
                            /\ c \notin Range(f) \cup Range(b)
        BY DEF Unique, f, b, c
    <2>4. BufferCount = Len(f) + Len(b) + (IF c = NoBuffer THEN 0 ELSE 1)
      <3>1. Places(layer) = BufferCount
          BY DEF Well
      <3> QED
          BY <3>1 DEF Places, f, b, c
    <2>5. Held(layer) = Range(f) \cup Range(b) \cup ({c} \ {NoBuffer})
        BY DEF Held, f, b, c
    <2>6. CASE c = NoBuffer
      <3>1. acquired.front = f
          BY <2>2, <2>6
      <3>2. acquired \in LayerType(Buffers)
          BY <1>1, <2>1, <2>2, <3>1 DEF LayerType
      <3>3. Unique(acquired)
          BY <2>1, <2>2, <2>3, <3>1 DEF Unique, Well
      <3>4. Places(acquired) = BufferCount
        <4>1. acquired.cur # NoBuffer
            BY <1>1, <2>1, <2>2
        <4>2. Places(acquired) = Len(f) + Len(Tail(b)) + 1
            BY <2>2, <3>1, <4>1 DEF Places
        <4> QED
            BY <1>1, <2>1, <2>4, <2>6, <4>2
      <3>5. Held(acquired) = Held(layer)
          BY <1>1, <2>1, <2>2, <2>5, <2>6, <3>1 DEF Held
      <3> QED
          BY <1>1, <2>1, <2>2, <2>5, <3>2, <3>3, <3>4, <3>5 DEF Well, acquired
    <2>7. CASE c # NoBuffer
      <3>1. acquired.front = Append(f, c) /\ c \in Buffers
          BY <1>1, <2>2, <2>7
      <3>2. /\ Append(f, c) \in Seq(Buffers) /\ Len(Append(f, c)) = Len(f) + 1
            /\ Range(Append(f, c)) = Range(f) \cup {c}
            /\ IsInjective(f) /\ c \notin Range(f) => IsInjective(Append(f, c))
          BY <1>1, <3>1, PushBack
      <3>3. acquired \in LayerType(Buffers)
          BY <1>1, <2>1, <2>2, <3>1, <3>2 DEF LayerType
      <3>4. Unique(acquired)
          BY <2>1, <2>2, <2>3, <3>1, <3>2 DEF Unique, Well
      <3>5. Places(acquired) = BufferCount
        <4>1. acquired.cur # NoBuffer
            BY <1>1, <2>1, <2>2
        <4>2. Places(acquired) = Len(Append(f, c)) + Len(Tail(b)) + 1
            BY <2>2, <3>1, <4>1 DEF Places
        <4> QED
            BY <1>1, <2>1, <2>4, <2>7, <3>2, <4>2
      <3>6. Held(acquired) = Held(layer)
          BY <1>1, <2>1, <2>2, <2>5, <2>7, <3>1, <3>2 DEF Held
      <3> QED
          BY <1>1, <2>1, <2>2, <2>5, <3>3, <3>4, <3>5, <3>6 DEF Well, acquired
    <2> QED
        BY <2>6, <2>7
  <1> QED
      BY <1>2, <1>3

LEMMA Fresh ==
    ASSUME NEW first \in Nat, first + BufferCount <= MaxSeq,
           NEW layer, layer = NewLayer(first, BufferCount)
    PROVE  /\ Well(layer) /\ layer.back = <<>> /\ layer.cur = NoBuffer
           /\ CanSwapFrontToBackQ(layer)
           /\ Held(layer) = first .. ((first + BufferCount) - 1)
  <1> DEFINE f == [i \in 1 .. BufferCount |-> first + (i - 1)]
  <1>0. BufferCount \in Nat \ {0} /\ MaxSeq \in Nat
      BY DisplayAssumption
  <1>1. f \in Seq(Buffers) /\ Len(f) = BufferCount /\ f # <<>>
    <2>1. \A i \in 1 .. BufferCount : first + (i - 1) \in Buffers
        BY <1>0 DEF Buffers
    <2>2. f \in Seq(Buffers) /\ Len(f) = BufferCount
        BY <1>0, <2>1
    <2> QED
        BY <1>0, <2>2
  <1>2. IsInjective(f)
      BY <1>0 DEF IsInjective
  <1>3. Range(f) = first .. ((first + BufferCount) - 1)
    <2>1. ASSUME NEW n \in first .. ((first + BufferCount) - 1) PROVE n \in Range(f)
      <3>1. n - first + 1 \in 1 .. BufferCount /\ f[n - first + 1] = n
          BY <1>0
      <3> QED
          BY <3>1 DEF Range
    <2>2. ASSUME NEW n \in Range(f) PROVE n \in first .. ((first + BufferCount) - 1)
        BY <1>0 DEF Range
    <2> QED
        BY <2>1, <2>2
  <1>4. layer = [front |-> f, back |-> <<>>, cur |-> NoBuffer]
      BY DEF NewLayer
  <1> HIDE DEF f
  <1>5. <<>> \in Seq(Buffers) /\ Range(<<>>) = {} /\ IsInjective(<<>>) /\ Len(<<>>) = 0
      BY DEF Range, IsInjective
  <1>6. layer.front = f /\ layer.back = <<>> /\ layer.cur = NoBuffer
        /\ layer \in LayerType(Buffers)
      BY <1>1, <1>4, <1>5 DEF LayerType
  <1>7. Unique(layer)
    <2>1. NoBuffer \notin Range(f)
        BY <1>0, <1>3, DisplayAssumption
    <2> QED
        BY <1>2, <1>5, <1>6, <2>1 DEF Unique
  <1>8. Places(layer) = BufferCount
      BY <1>0, <1>1, <1>5, <1>6 DEF Places
  <1>9. Held(layer) = first .. ((first + BufferCount) - 1)
      BY <1>3, <1>5, <1>6 DEF Held
  <1> QED
      BY <1>1, <1>6, <1>7, <1>8, <1>9 DEF Well, CanSwapFrontToBackQ

\* Where there are two buffers, the ends of the client layer's queue differ.
LEMMA EndsDiffer ==
    ASSUME NEW layer, Well(layer), layer.cur = NoBuffer, BufferCount > 1
    PROVE  Oldest(layer) # Newest(layer)
  <1> DEFINE f == layer.front
             b == layer.back
  <1>1. /\ f \in Seq(Buffers) /\ b \in Seq(Buffers)
        /\ Len(f) \in Nat /\ Len(b) \in Nat
        /\ f = <<>> <=> Len(f) = 0
        /\ b = <<>> <=> Len(b) = 0
      BY LayerParts, LenOfSeq DEF Well
  <1>2. Len(f) + Len(b) = BufferCount /\ BufferCount \in Nat
    <2>1. Places(layer) = BufferCount
        BY DEF Well
    <2>2. Places(layer) = Len(f) + Len(b) + 0
        BY DEF Places
    <2>3. Len(f) \in Nat /\ Len(b) \in Nat
        BY <1>1
    <2>4. BufferCount \in Nat
        BY DisplayAssumption
    <2> HIDE DEF f, b
    <2> QED
        BY <2>1, <2>2, <2>3, <2>4
  <1>3. IsInjective(f) /\ IsInjective(b) /\ Range(f) \cap Range(b) = {}
      BY DEF Well, Unique
  <1>4. /\ \A i, j \in 1 .. Len(f) : f[i] = f[j] => i = j
        /\ \A i, j \in 1 .. Len(b) : b[i] = b[j] => i = j
        /\ \A i \in 1 .. Len(f) : f[i] \in Range(f)
        /\ \A i \in 1 .. Len(b) : b[i] \in Range(b)
      BY <1>1, <1>3, ElementsOfSeq
  <1>5. Oldest(layer) = (IF b # <<>> THEN b[1] ELSE f[1])
        /\ Newest(layer) = (IF f # <<>> THEN f[Len(f)] ELSE b[Len(b)])
      BY DEF Oldest, Newest
  <1> HIDE DEF f, b
  <1>6. CASE f # <<>> /\ b # <<>>
    <2>1. 1 \in 1 .. Len(b) /\ Len(f) \in 1 .. Len(f)
        BY <1>1, <1>6
    <2>2. b[1] \in Range(b) /\ f[Len(f)] \in Range(f)
        BY <1>4, <2>1
    <2> QED
        BY <1>3, <1>5, <1>6, <2>2
  <1>7. CASE b = <<>>
    <2>1. Len(f) > 1 /\ 1 \in 1 .. Len(f) /\ Len(f) \in 1 .. Len(f) /\ f # <<>>
        BY <1>1, <1>2, <1>7
    <2> QED
        BY <1>4, <1>5, <1>7, <2>1
  <1>8. CASE f = <<>>
    <2>1. Len(b) > 1 /\ 1 \in 1 .. Len(b) /\ Len(b) \in 1 .. Len(b) /\ b # <<>>
        BY <1>1, <1>2, <1>8
    <2> QED
        BY <1>4, <1>5, <1>8, <2>1
  <1> QED
      BY <1>6, <1>7, <1>8

LEMMA OldestIsHeld ==
    ASSUME NEW layer, Well(layer), layer.back # <<>>
    PROVE  /\ GetBackBuffer(layer) = Oldest(layer) /\ Oldest(layer) \in Held(layer)
           /\ Oldest(layer) \in Buffers
  <1>1. layer.back \in Seq(Buffers)
      BY LayerParts DEF Well
  <1>2. Head(layer.back) = layer.back[1] /\ layer.back[1] \in Range(layer.back)
        /\ layer.back[1] \in Buffers
      BY <1>1, PopFront
  <1> QED
      BY <1>2 DEF GetBackBuffer, Oldest, Held

\* No room for more in back than the layer has buffers.
LEMMA BackIsBounded ==
    ASSUME NEW layer, Well(layer), layer.cur = NoBuffer
    PROVE  /\ Len(layer.back) \in 0 .. BufferCount
           /\ layer.back = <<>> <=> Len(layer.back) = 0
           /\ layer.back = <<>> => CanSwapFrontToBackQ(layer)
  <1>1. /\ layer.front \in Seq(Buffers) /\ layer.back \in Seq(Buffers)
        /\ Len(layer.front) \in Nat /\ Len(layer.back) \in Nat
        /\ layer.front = <<>> <=> Len(layer.front) = 0
        /\ layer.back = <<>> <=> Len(layer.back) = 0
      BY LayerParts, LenOfSeq DEF Well
  <1> DEFINE n == Len(layer.front)
             m == Len(layer.back)
  <1>3. n \in Nat /\ m \in Nat
      BY <1>1
  <1>2. n + m = BufferCount /\ BufferCount \in Nat \ {0}
    <2>1. Places(layer) = BufferCount
        BY DEF Well
    <2>2. Places(layer) = n + m + 0
        BY DEF Places
    <2>3. BufferCount \in Nat \ {0}
        BY DisplayAssumption
    <2> HIDE DEF n, m
    <2> QED
        BY <1>3, <2>1, <2>2, <2>3
  <1> HIDE DEF n, m
  <1>4. m \in 0 .. BufferCount /\ (m = 0 => n # 0)
      BY <1>2, <1>3
  <1> QED
      BY <1>1, <1>4 DEF CanSwapFrontToBackQ, n, m

LEMMA SeqCardinality ==
    ASSUME NEW S, NEW s \in Seq(S), IsInjective(s)
    PROVE  IsFiniteSet(Range(s)) /\ Cardinality(Range(s)) = Len(s)
  <1>1. Len(s) \in Nat /\ DOMAIN s = 1 .. Len(s) /\ s \in [1 .. Len(s) -> S]
      BY LenProperties
  <1>2. s \in Bijection(1 .. Len(s), Range(s))
      BY <1>1 DEF Bijection, Injection, Surjection, Range, IsInjective
  <1>3. ExistsBijection(1 .. Len(s), Range(s))
      BY <1>2 DEF ExistsBijection
  <1>4. IsFiniteSet(Range(s))
      BY <1>1, <1>3, FS_NatBijection
  <1> QED
      BY <1>1, <1>3, <1>4, FS_CountingElements

LEMMA WellCounts ==
    ASSUME NEW layer, Well(layer)
    PROVE  Cardinality(Held(layer)) = BufferCount
  <1> DEFINE F == Range(layer.front)
             B == Range(layer.back)
             C == {layer.cur} \ {NoBuffer}
  <1>1. layer.front \in Seq(Buffers) /\ layer.back \in Seq(Buffers)
        /\ Len(layer.front) \in Nat /\ Len(layer.back) \in Nat
      BY LayerParts DEF Well
  <1>2. /\ IsFiniteSet(F) /\ Cardinality(F) = Len(layer.front)
        /\ IsFiniteSet(B) /\ Cardinality(B) = Len(layer.back)
      BY <1>1, SeqCardinality DEF Well, Unique
  <1>3. IsFiniteSet(C) /\ Cardinality(C) = IF layer.cur = NoBuffer THEN 0 ELSE 1
    <2>1. CASE layer.cur = NoBuffer
      <3>1. C = {}
          BY <2>1
      <3> QED
          BY <2>1, <3>1, FS_EmptySet
    <2>2. CASE layer.cur # NoBuffer
      <3>1. C = {layer.cur}
          BY <2>2
      <3> QED
          BY <2>2, <3>1, FS_Singleton
    <2> QED
        BY <2>1, <2>2
  <1>4. F \cap B = {} /\ (F \cup B) \cap C = {}
      BY DEF Well, Unique
  <1> HIDE DEF F, B, C
  <1>5. IsFiniteSet(F \cup B) /\ Cardinality(F \cup B) = Len(layer.front) + Len(layer.back)
    <2>1. /\ IsFiniteSet(F \cup B)
          /\ Cardinality(F \cup B) = Cardinality(F) + Cardinality(B) - Cardinality(F \cap B)
        BY <1>2, FS_Union
    <2>2. Cardinality(F \cap B) = 0
        BY <1>4, FS_EmptySet
    <2> QED
        BY <1>1, <1>2, <2>1, <2>2
  <1> DEFINE G == F \cup B
  <1>6. IsFiniteSet(G) /\ G \cap C = {}
        /\ Cardinality(G) = Len(layer.front) + Len(layer.back)
      BY <1>4, <1>5
  <1>7. Cardinality(G \cup C) = Places(layer)
    <2> HIDE DEF G
    <2>1. Cardinality(G \cup C) = Cardinality(G) + Cardinality(C) - Cardinality(G \cap C)
        BY <1>3, <1>6, FS_Union
    <2>2. Cardinality(G \cap C) = 0
        BY <1>6, FS_EmptySet
    <2>3. Cardinality(G) \in Nat /\ Cardinality(C) \in Nat
        BY <1>3, <1>6, FS_CardinalityType
    <2>4. Cardinality(G \cup C) = Cardinality(G) + Cardinality(C)
        BY <2>1, <2>2, <2>3
    <2> QED
        BY <1>3, <1>6, <2>4 DEF Places
  <1> QED
      BY <1>7 DEF Held, F, B, C, Well
-----------------------------------------------------------------------------
(* BufferInv, action by action.                                            *)

\* Layers that keep what they hold.
LEMMA HeldStays ==
    ASSUME BufferInv,
           DOMAIN layerMaps' = DOMAIN layerMaps,
           \A i \in DOMAIN layerMaps :
              /\ Well(layerMaps'[i]) /\ Shows(layerMaps'[i])
              /\ Held(layerMaps'[i]) = Held(layerMaps[i]),
           \A layer \in client' :
              /\ Well(layer) /\ layer.cur = NoBuffer
              /\ \E old \in client : Held(layer) = Held(old),
           \A layer, other \in client' : layer = other,
           originSeq' = originSeq,
           cacheValid' \subseteq 0 .. (originSeq - 1)
    PROVE  BufferInv'
  <1>1. \A i, j \in DOMAIN layerMaps' :
           i # j => Held(layerMaps'[i]) \cap Held(layerMaps'[j]) = {}
      BY DEF BufferInv
  <1>2. \A i \in DOMAIN layerMaps', layer \in client' :
           Held(layerMaps'[i]) \cap Held(layer) = {}
      BY DEF BufferInv
  <1>3. /\ \A layer \in client' : Held(layer) \subseteq 0 .. (originSeq - 1)
        /\ \A i \in DOMAIN layerMaps' : Held(layerMaps'[i]) \subseteq 0 .. (originSeq - 1)
      BY DEF BufferInv
  <1> QED
      BY <1>1, <1>2, <1>3 DEF BufferInv

LEMMA NothingMoves ==
    ASSUME BufferInv, UNCHANGED <<layerMaps, client, originSeq, cacheValid>>
    PROVE  BufferInv'
  BY DEF BufferInv

\* The layer shows its next buffer.
LEMMA ShownStays ==
    ASSUME BufferInv, NEW id \in DOMAIN layerMaps,
           layerMaps' = [layerMaps EXCEPT ![id] = Shown(id)],
           UNCHANGED <<client, originSeq>>,
           cacheValid' = cacheValid \/ cacheValid' = cacheValid \cup {Shown(id).cur}
    PROVE  /\ BufferInv'
           /\ DOMAIN layerMaps' = DOMAIN layerMaps
           /\ \A i \in DOMAIN layerMaps : Held(layerMaps'[i]) = Held(layerMaps[i])
           /\ Shown(id).cur \in Held(layerMaps[id]) /\ Shown(id).cur # NoBuffer
  <1>1. /\ Well(Shown(id)) /\ Held(Shown(id)) = Held(layerMaps[id])
        /\ Shown(id).cur \in Held(layerMaps[id]) /\ Shown(id).cur # NoBuffer
      BY Acquire DEF BufferInv, Shown
  <1>2. /\ DOMAIN layerMaps' = DOMAIN layerMaps
        /\ \A i \in DOMAIN layerMaps :
              layerMaps'[i] = IF i = id THEN Shown(id) ELSE layerMaps[i]
      OBVIOUS
  <1>3. \A i \in DOMAIN layerMaps :
           /\ Well(layerMaps'[i]) /\ Shows(layerMaps'[i])
           /\ Held(layerMaps'[i]) = Held(layerMaps[i])
      BY <1>1, <1>2 DEF BufferInv, Shows
  <1>4. cacheValid' \subseteq 0 .. (originSeq - 1)
      BY <1>1 DEF BufferInv
  <1>5. BufferInv'
      BY <1>2, <1>3, <1>4, HeldStays DEF BufferInv
  <1> QED
      BY <1>1, <1>2, <1>3, <1>5

LEMMA CreateBuffers ==
    ASSUME BufferInv, originSeq \in Nat, NEW id, CreateTestLayer(id)
    PROVE  BufferInv'
  <1> DEFINE new == SwapFrontToBackQ(NewLayer(originSeq, BufferCount))
             next == originSeq + BufferCount
  <1>0. BufferCount \in Nat \ {0} /\ next \in Nat /\ originSeq < next
      BY DisplayAssumption
  <1>1. /\ next <= MaxSeq /\ originSeq' = next
        /\ layerMaps' = Emplace(layerMaps, id, new)
        /\ client' = client /\ cacheValid' = cacheValid
      BY DEF CreateTestLayer, Display
  <1>2. Well(new) /\ Shows(new) /\ Held(new) = originSeq .. (next - 1)
    <2> DEFINE layer == NewLayer(originSeq, BufferCount)
    <2> HIDE DEF layer
    <2>1. layer = NewLayer(originSeq, BufferCount)
        BY DEF layer
    <2>2. /\ Well(layer) /\ CanSwapFrontToBackQ(layer)
          /\ Held(layer) = originSeq .. (next - 1)
        BY <1>1, <2>1, Fresh
    <2> QED
        BY <2>1, <2>2, SwapForth DEF Shows
  <1> HIDE DEF new, next
  <1>3. /\ DOMAIN layerMaps' = DOMAIN layerMaps \cup {id}
        /\ \A i \in DOMAIN layerMaps' :
              layerMaps'[i] = IF i \in DOMAIN layerMaps THEN layerMaps[i] ELSE new
      BY <1>1 DEF Emplace
  <1>4. \A n \in 0 .. (originSeq - 1) : n \in 0 .. (next - 1) /\ n \notin Held(new)
      BY <1>0, <1>2
  <1>5. Held(new) \subseteq 0 .. (next - 1)
      BY <1>0, <1>2
  <1>6. \A i \in DOMAIN layerMaps' :
           /\ Well(layerMaps'[i]) /\ Shows(layerMaps'[i])
           /\ Held(layerMaps'[i]) \subseteq 0 .. (next - 1)
      BY <1>2, <1>3, <1>4, <1>5 DEF BufferInv
  <1>7. \A i, j \in DOMAIN layerMaps' :
           i # j => Held(layerMaps'[i]) \cap Held(layerMaps'[j]) = {}
      BY <1>3, <1>4 DEF BufferInv
  <1>8. \A i \in DOMAIN layerMaps', layer \in client' :
           Held(layerMaps'[i]) \cap Held(layer) = {}
      BY <1>1, <1>3, <1>4 DEF BufferInv
  <1>9. /\ \A layer \in client' : Held(layer) \subseteq 0 .. (next - 1)
        /\ cacheValid' \subseteq 0 .. (next - 1)
      BY <1>1, <1>4 DEF BufferInv
  <1> QED
      BY <1>1, <1>6, <1>7, <1>8, <1>9 DEF BufferInv

LEMMA CommitFlushKeeps ==
    ASSUME BufferInv, CommitFlush
    PROVE  \E layer \in client :
              LET swapped == SwapFrontToBackQ(layer) IN
              /\ client = {layer} /\ client' = {swapped}
              /\ Well(layer) /\ layer.cur = NoBuffer
              /\ Well(swapped) /\ swapped.cur = NoBuffer
              /\ Held(swapped) = Held(layer)
              /\ Len(swapped.back) = Len(layer.back) + 1 /\ swapped.back # <<>>
              /\ Oldest(swapped) = Oldest(layer) /\ Newest(swapped) = Newest(layer)
              /\ currentFb' = Oldest(swapped)
              /\ Oldest(swapped) \in Held(layer) /\ Oldest(swapped) \in Buffers
              /\ GetBackBuffer(swapped) = Oldest(swapped)
  <1>1. PICK layer \in client :
           /\ CanSwapFrontToBackQ(layer)
           /\ client' = {SwapFrontToBackQ(layer)}
           /\ currentFb' = GetBackBuffer(SwapFrontToBackQ(layer))
      BY DEF CommitFlush
  <1>2. Well(layer) /\ layer.cur = NoBuffer /\ client = {layer}
      BY DEF BufferInv
  <1> DEFINE swapped == SwapFrontToBackQ(layer)
  <1>3. /\ Well(swapped) /\ Held(swapped) = Held(layer) /\ swapped.cur = layer.cur
        /\ Len(swapped.back) = Len(layer.back) + 1 /\ swapped.back # <<>>
        /\ Oldest(swapped) = Oldest(layer) /\ Newest(swapped) = Newest(layer)
      BY <1>1, <1>2, SwapForth
  <1>4. /\ GetBackBuffer(swapped) = Oldest(swapped) /\ Oldest(swapped) \in Held(swapped)
        /\ Oldest(swapped) \in Buffers
      BY <1>3, OldestIsHeld
  <1> QED
      BY <1>1, <1>2, <1>3, <1>4

LEMMA CommitFlushBuffers ==
    ASSUME BufferInv, CommitFlush
    PROVE  BufferInv'
  <1>1. PICK layer \in client :
              LET swapped == SwapFrontToBackQ(layer) IN
              /\ client = {layer} /\ client' = {swapped}
              /\ Well(swapped) /\ swapped.cur = NoBuffer
              /\ Held(swapped) = Held(layer)
              /\ Oldest(swapped) \in Held(layer)
              /\ GetBackBuffer(swapped) = Oldest(swapped)
      BY CommitFlushKeeps
  <1>2. /\ UNCHANGED <<layerMaps, originSeq>>
        /\ cacheValid' \subseteq cacheValid \cup Held(layer)
      BY <1>1 DEF CommitFlush, Rest
  <1>3. cacheValid' \subseteq 0 .. (originSeq - 1)
      BY <1>2 DEF BufferInv
  <1>4. /\ DOMAIN layerMaps' = DOMAIN layerMaps
        /\ \A i \in DOMAIN layerMaps :
              /\ Well(layerMaps'[i]) /\ Shows(layerMaps'[i])
              /\ Held(layerMaps'[i]) = Held(layerMaps[i])
      BY <1>2 DEF BufferInv
  <1> QED
      BY <1>1, <1>2, <1>3, <1>4, HeldStays

\* The swap at the end of Commit.
LEMMA SwapsBackKeeps ==
    ASSUME BufferInv, BacklogIsLostFlushes, lost \in Nat, CommitSwapsBack
    PROVE  \/ ~needFlushFb /\ client' = client
           \/ /\ needFlushFb
              /\ \A layer \in client : layer.back # <<>>
              /\ client' = {SwapBackToFrontQ(layer) : layer \in client}
  <1>1. CASE needFlushFb
    <2>1. \A layer \in client : Len(layer.back) = lost + 1
        BY <1>1 DEF CommitSwapsBack, BacklogIsLostFlushes
    <2>2. ASSUME NEW layer \in client PROVE layer.back # <<>>
      <3>1. layer.back = <<>> <=> Len(layer.back) = 0
          BY BackIsBounded DEF BufferInv
      <3> QED
          BY <2>1, <3>1
    <2> QED
        BY <1>1, <2>2 DEF CommitSwapsBack
  <1>2. CASE ~needFlushFb
      BY <1>2 DEF CommitSwapsBack
  <1> QED
      BY <1>1, <1>2

LEMMA SwapsBackBuffers ==
    ASSUME BufferInv, BacklogIsLostFlushes, lost \in Nat, CommitSwapsBack
    PROVE  BufferInv'
  <1>1. UNCHANGED <<layerMaps, originSeq, cacheValid>>
      BY DEF CommitSwapsBack, Rest, Layers
  <1>2. CASE ~needFlushFb /\ client' = client
      BY <1>1, <1>2, NothingMoves
  <1>3. CASE /\ \A layer \in client : layer.back # <<>>
             /\ client' = {SwapBackToFrontQ(layer) : layer \in client}
    <2>1. \A layer \in client :
             /\ Well(SwapBackToFrontQ(layer))
             /\ SwapBackToFrontQ(layer).cur = NoBuffer
             /\ Held(SwapBackToFrontQ(layer)) = Held(layer)
        BY <1>3, SwapBack DEF BufferInv
    <2>2. /\ \A layer \in client' :
                /\ Well(layer) /\ layer.cur = NoBuffer
                /\ \E old \in client : Held(layer) = Held(old)
          /\ \A layer, other \in client' : layer = other
        BY <1>3, <2>1 DEF BufferInv
    <2>3. /\ DOMAIN layerMaps' = DOMAIN layerMaps
          /\ \A i \in DOMAIN layerMaps :
                /\ Well(layerMaps'[i]) /\ Shows(layerMaps'[i])
                /\ Held(layerMaps'[i]) = Held(layerMaps[i])
          /\ cacheValid' \subseteq 0 .. (originSeq - 1)
        BY <1>1 DEF BufferInv
    <2> QED
        BY <1>1, <2>2, <2>3, HeldStays
  <1> QED
      BY <1>2, <1>3, SwapsBackKeeps

LEMMA StepBuffers == Inv /\ [Next]_vars => BufferInv'
  <1> SUFFICES ASSUME Inv, [Next]_vars PROVE BufferInv'
      OBVIOUS
  <1>0. BufferInv /\ BacklogIsLostFlushes /\ lost \in Nat /\ originSeq \in Nat
        /\ todo \subseteq DOMAIN layerMaps
      BY DisplayAssumption DEF Inv, TypeOK, FlushInv
  <1>1. CASE UNCHANGED vars
      BY <1>0, <1>1, NothingMoves DEF vars
  <1>2. ASSUME NEW id \in LayerIds, CreateTestLayer(id) \/ DestroyLayer(id) PROVE BufferInv'
      BY <1>0, <1>2, CreateBuffers, NothingMoves DEF DestroyLayer, Display
  <1>3. ASSUME NEW id \in LayerIds, NEW k \in 1 .. BufferCount, LayerInitFails(id, k)
        PROVE  BufferInv'
    <2>1. UNCHANGED <<layerMaps, client, cacheValid>> /\ originSeq' = originSeq + k
        BY <1>3 DEF LayerInitFails, Display
    <2>2. \A n \in 0 .. (originSeq - 1) : n \in 0 .. (originSeq' - 1)
        BY <1>0, <2>1, DisplayAssumption
    <2> QED
        BY <1>0, <2>1, <2>2 DEF BufferInv
  <1>4. CASE Clear
    <2>1. layerMaps' = <<>> /\ UNCHANGED <<client, originSeq, cacheValid>>
        BY <1>4 DEF Clear, Display
    <2>2. DOMAIN layerMaps' = {}
        BY <2>1
    <2> QED
        BY <1>0, <2>1, <2>2 DEF BufferInv
  <1>5. CASE ResetClientLayer
    <2>1. client' = {} /\ UNCHANGED <<layerMaps, originSeq, cacheValid>>
        BY <1>5 DEF ResetClientLayer
    <2> QED
        BY <1>0, <2>1 DEF BufferInv
  <1>6. CASE CreateLayerFails \/ UseNullLayer \/ ClearClientBuffer
      BY <1>0, <1>6, NothingMoves
         DEF CreateLayerFails, UseNullLayer, ClearClientBuffer, Display
  <1>7. ASSUME NEW present \in BOOLEAN, PrepareAndCommit(present) PROVE BufferInv'
      BY <1>0, <1>7, NothingMoves DEF PrepareAndCommit
  <1>8. ASSUME NEW id \in LayerIds, PreparePresent(id) \/ PreparePresentLosesBuffer(id)
                                      \/ PreparePresentFailsLast(id)
        PROVE  BufferInv'
    <2>1. /\ id \in DOMAIN layerMaps
          /\ layerMaps' = [layerMaps EXCEPT ![id] = Shown(id)]
          /\ UNCHANGED <<client, originSeq>>
          /\ cacheValid' = cacheValid \/ cacheValid' = cacheValid \cup {Shown(id).cur}
        BY <1>0, <1>8 DEF PreparePresent, PreparePresentLosesBuffer,
                          PreparePresentFailsLast, SetLayerBuffer, Rest, Display
    <2> QED
        BY <1>0, <2>1, ShownStays
  <1>9. ASSUME NEW id \in LayerIds, PreparePresentRefused(id) PROVE BufferInv'
      BY <1>0, <1>9, NothingMoves DEF PreparePresentRefused, Rest, Display
  <1>10. CASE DevicePrepares \/ RefreshLayersCompType
      BY <1>0, <1>10, NothingMoves
         DEF DevicePrepares, RefreshLayersCompType, LookUpReported, Rest, Display, Layers
  <1>11. CASE CommitWithoutFlush \/ CommitWithoutClient \/ CommitWithoutFront
                \/ DeviceCommits \/ GetLayersReleaseFence \/ CheckSnapShot \/ ReturnFailure
      BY <1>0, <1>11, NothingMoves
         DEF CommitWithoutFlush, CommitWithoutClient, CommitWithoutFront, DeviceCommits,
             GetLayersReleaseFence, CheckSnapShot, ReturnFailure, Rest, Display, Layers
  <1>12. CASE CommitFlush
      BY <1>0, <1>12, CommitFlushBuffers
  <1>13. CASE CommitSwapsBack
      BY <1>0, <1>13, SwapsBackBuffers
  <1> QED
      BY <1>1, <1>2, <1>3, <1>4, <1>5, <1>6, <1>7, <1>8, <1>9, <1>10, <1>11, <1>12, <1>13
         DEF Next, TestStep, PrepareStep, CommitStep
-----------------------------------------------------------------------------
(* The other parts of the invariant.                                       *)

\* Steps of a test between presents.
Between ==
    \/ \E id \in LayerIds : CreateTestLayer(id) \/ DestroyLayer(id)
    \/ \E id \in LayerIds, k \in 1 .. BufferCount : LayerInitFails(id, k)
    \/ CreateLayerFails \/ Clear \/ ResetClientLayer \/ ClearClientBuffer

\* Steps that visit the layers of the display.
Visiting == \E id \in LayerIds :
    \/ PreparePresent(id)            \/ PreparePresentRefused(id)
    \/ PreparePresentLosesBuffer(id) \/ PreparePresentFailsLast(id)

LEMMA BetweenKeeps ==
    ASSUME Between
    PROVE  /\ pc = "idle" /\ pc' = "idle"
           /\ UNCHANGED <<setting, checking, todo, needFlushFb, currentFb, cacheValid,
                          uncached, flushed, lost, onScreen>>
           /\ \/ client' = client
              \/ setting.resets /\ client' = {}
  <1>1. ASSUME NEW id \in LayerIds, CreateTestLayer(id)
        PROVE  /\ pc = "idle" /\ UNCHANGED <<pc, Call, Display, cacheValid, uncached>>
      BY <1>1 DEF CreateTestLayer
  <1>2. ASSUME NEW id \in LayerIds, DestroyLayer(id)
        PROVE  /\ pc = "idle" /\ UNCHANGED <<pc, Call, Display, cacheValid, uncached>>
      BY <1>2 DEF DestroyLayer
  <1>3. ASSUME NEW id \in LayerIds, NEW k \in 1 .. BufferCount, LayerInitFails(id, k)
        PROVE  /\ pc = "idle" /\ UNCHANGED <<pc, Call, Display, cacheValid, uncached>>
      BY <1>3 DEF LayerInitFails
  <1>4. CASE CreateLayerFails \/ Clear
    <2>1. pc = "idle" /\ UNCHANGED <<pc, Call, Display, cacheValid, uncached>>
        BY <1>4 DEF CreateLayerFails, Clear
    <2> QED
        BY <2>1 DEF Call, Display
  <1>5. CASE ResetClientLayer
      BY <1>5 DEF ResetClientLayer, Call
  <1>6. CASE ClearClientBuffer
      BY <1>6 DEF ClearClientBuffer, Call
  <1> QED
      BY <1>1, <1>2, <1>3, <1>4, <1>5, <1>6 DEF Between, Call, Display

LEMMA VisitingKeeps ==
    ASSUME Visiting
    PROVE  /\ pc = "prepare" /\ pc' \in {"prepare", "failed"}
           /\ UNCHANGED <<setting, checking, originSeq, nullLayer, needFlushFb, currentFb,
                          client, devClient, flushed, lost, onScreen>>
  <1>1. PICK id \in LayerIds :
           \/ PreparePresent(id)            \/ PreparePresentRefused(id)
           \/ PreparePresentLosesBuffer(id) \/ PreparePresentFailsLast(id)
      BY DEF Visiting
  <1>2. pc = "prepare" /\ pc' \in {"prepare", "failed"} /\ UNCHANGED <<Rest, Display>>
      BY <1>1 DEF PreparePresent, PreparePresentRefused, PreparePresentLosesBuffer,
                  PreparePresentFailsLast, Fail
  <1> QED
      BY <1>2 DEF Rest, Display

LEMMA SettingStays == ASSUME [Next]_vars PROVE setting' = setting
  <1>1. CASE Between \/ Visiting
      BY <1>1, BetweenKeeps, VisitingKeeps
  <1>2. CASE UseNullLayer \/ UNCHANGED vars
      BY <1>2 DEF UseNullLayer, vars, Call
  <1>3. ASSUME NEW present \in BOOLEAN, PrepareAndCommit(present) PROVE setting' = setting
      BY <1>3 DEF PrepareAndCommit
  <1>4. CASE DevicePrepares \/ RefreshLayersCompType \/ CommitWithoutFlush
               \/ CommitWithoutClient \/ CommitWithoutFront \/ CommitFlush
      BY <1>4 DEF DevicePrepares, RefreshLayersCompType, LookUpReported, CommitWithoutFlush,
                  CommitWithoutClient, CommitWithoutFront, CommitFlush, Rest
  <1>5. CASE DeviceCommits \/ GetLayersReleaseFence \/ CommitSwapsBack
               \/ CheckSnapShot \/ ReturnFailure
      BY <1>5 DEF DeviceCommits, GetLayersReleaseFence, CommitSwapsBack, CheckSnapShot,
                  ReturnFailure, Rest
  <1> QED
      BY <1>1, <1>2, <1>3, <1>4, <1>5
         DEF Next, TestStep, PrepareStep, CommitStep, Between, Visiting

LEMMA StepFlush == Inv /\ [Next]_vars => FlushInv'
  <1> SUFFICES ASSUME Inv, [Next]_vars PROVE FlushInv'
      OBVIOUS
  <1>0. /\ BufferInv /\ FlushInv /\ lost \in Nat
        /\ \A layer \in client : Len(layer.back) \in Nat
      BY BackIsBounded, DisplayAssumption DEF Inv, TypeOK, BufferInv
  <1> USE DEF FlushInv, BacklogIsLostFlushes, Committing
  <1>1. CASE UNCHANGED vars
      BY <1>0, <1>1 DEF vars
  <1>2. CASE Between
    <2>1. /\ pc = "idle" /\ pc' = "idle" /\ UNCHANGED <<needFlushFb, flushed, lost>>
          /\ client' = client \/ client' = {}
        BY <1>2, BetweenKeeps
    <2> QED
        BY <1>0, <2>1
  <1>3. CASE UseNullLayer
      BY <1>0, <1>3 DEF UseNullLayer, Display
  <1>4. ASSUME NEW present \in BOOLEAN, PrepareAndCommit(present) PROVE FlushInv'
      BY <1>0, <1>4 DEF PrepareAndCommit
  <1>5. CASE Visiting
    <2>1. /\ pc = "prepare" /\ pc' \in {"prepare", "failed"}
          /\ UNCHANGED <<needFlushFb, flushed, lost, client>>
        BY <1>5, VisitingKeeps
    <2> QED
        BY <1>0, <2>1
  <1>6. CASE DevicePrepares \/ RefreshLayersCompType
    <2>1. /\ pc \in {"prepare", "refresh"}
          /\ pc' \in {"refresh", "flush", "failed", "crashed"}
          /\ UNCHANGED <<flushed, lost, client>>
        BY <1>6 DEF DevicePrepares, RefreshLayersCompType, LookUpReported, Fail, Display
    <2> QED
        BY <1>0, <2>1
  <1>7. CASE CommitWithoutFlush \/ CommitWithoutClient \/ CommitWithoutFront
    <2>1. /\ pc = "flush" /\ UNCHANGED <<needFlushFb, flushed, lost, client>>
          /\ \/ pc' \in {"failed", "crashed"}
             \/ pc' = "commit" /\ ~needFlushFb
        BY <1>7 DEF CommitWithoutFlush, CommitWithoutClient, CommitWithoutFront, Fail, Display
    <2> QED
        BY <1>0, <2>1
  <1>8. CASE CommitFlush
    <2>1. PICK layer \in client :
              LET swapped == SwapFrontToBackQ(layer) IN
              /\ client' = {swapped}
              /\ Len(swapped.back) = Len(layer.back) + 1
        BY <1>0, <1>8, CommitFlushKeeps
    <2>2. /\ pc = "flush" /\ needFlushFb /\ needFlushFb' = needFlushFb
          /\ \/ pc' = "commit" /\ flushed' = TRUE /\ lost' = lost
             \/ pc' = "failed" /\ lost' = lost + 1 /\ flushed' = flushed
        BY <1>8 DEF CommitFlush, Fail
    <2>3. Len(layer.back) = lost
        BY <1>0, <2>2
    <2> DEFINE swapped == SwapFrontToBackQ(layer)
    <2>4. client' = {swapped} /\ Len(swapped.back) = lost + 1
        BY <2>1, <2>3
    <2> HIDE DEF swapped
    <2> QED
        BY <1>0, <2>2, <2>4
  <1>9. CASE DeviceCommits \/ GetLayersReleaseFence
    <2>1. /\ pc \in {"commit", "fences"} /\ UNCHANGED <<needFlushFb, flushed, client>>
          /\ \/ pc' \in {"fences", "swap", "crashed"} /\ lost' = lost
             \/ pc' = "failed" /\ lost' = lost + (IF needFlushFb THEN 1 ELSE 0)
        BY <1>9 DEF DeviceCommits, GetLayersReleaseFence, Fail, LoseFlush
    <2> QED
        BY <1>0, <2>1
  <1>10. CASE CommitSwapsBack
    <2>1. /\ pc = "swap" /\ pc' \in {"check", "idle"} /\ lost' = lost
        BY <1>10 DEF CommitSwapsBack
    <2>2. CASE ~needFlushFb /\ client' = client
        BY <1>0, <2>1, <2>2
    <2>3. CASE /\ needFlushFb
               /\ \A layer \in client : layer.back # <<>>
               /\ client' = {SwapBackToFrontQ(layer) : layer \in client}
      <3>1. \A layer \in client : Len(SwapBackToFrontQ(layer).back) = Len(layer.back) - 1
          BY <1>0, <2>3, SwapBack DEF BufferInv
      <3>2. \A layer \in client : Len(layer.back) = lost + 1
          BY <1>0, <2>1, <2>3
      <3>3. \A layer \in client' : Len(layer.back) = lost
          BY <1>0, <2>3, <3>1, <3>2
      <3> QED
          BY <1>0, <2>1, <3>3
    <2> QED
        BY <1>0, <1>10, <2>2, <2>3, SwapsBackKeeps
  <1>11. CASE CheckSnapShot \/ ReturnFailure
    <2>1. /\ pc \in {"check", "failed"} /\ pc' \in {"idle", "crashed"}
          /\ UNCHANGED <<lost, client>>
        BY <1>11 DEF CheckSnapShot, ReturnFailure, Display
    <2> QED
        BY <1>0, <2>1
  <1> QED
      BY <1>1, <1>2, <1>3, <1>4, <1>5, <1>6, <1>7, <1>8, <1>9, <1>10, <1>11
         DEF Next, TestStep, PrepareStep, CommitStep, Between, Visiting

LEMMA StepScreen == Inv /\ [Next]_vars => ScreenInv'
  <1> SUFFICES ASSUME Inv, [Next]_vars PROVE ScreenInv'
      OBVIOUS
  <1> SUFFICES ASSUME ~setting.fences PROVE ScreenInv'
      BY SettingStays DEF ScreenInv
  <1>0. BufferInv /\ FlushInv /\ ScreenInv /\ lost \in Nat
      BY DisplayAssumption DEF Inv, TypeOK
  <1> USE DEF ScreenInv, Committing
  <1>1. CASE UNCHANGED vars
      BY <1>0, <1>1 DEF vars
  <1>2. CASE Between
    <2>1. /\ pc = "idle" /\ pc' = "idle" /\ UNCHANGED <<onScreen, flushed>>
          /\ client' = client \/ client' = {}
        BY <1>2, BetweenKeeps
    <2> QED
        BY <1>0, <2>1
  <1>3. CASE UseNullLayer
      BY <1>0, <1>3 DEF UseNullLayer, Display
  <1>4. ASSUME NEW present \in BOOLEAN, PrepareAndCommit(present) PROVE ScreenInv'
      BY <1>0, <1>4 DEF PrepareAndCommit
  <1>5. CASE Visiting
    <2>1. /\ pc = "prepare" /\ pc' \in {"prepare", "failed"}
          /\ UNCHANGED <<onScreen, client>>
        BY <1>5, VisitingKeeps
    <2> QED
        BY <1>0, <2>1
  <1>6. CASE DevicePrepares \/ RefreshLayersCompType
    <2>1. /\ pc \in {"prepare", "refresh"}
          /\ pc' \in {"refresh", "flush", "failed", "crashed"}
          /\ UNCHANGED <<onScreen, client>>
        BY <1>6 DEF DevicePrepares, RefreshLayersCompType, LookUpReported, Fail, Display
    <2> QED
        BY <1>0, <2>1
  <1>7. CASE CommitWithoutFlush \/ CommitWithoutClient \/ CommitWithoutFront
    <2>1. /\ pc = "flush" /\ UNCHANGED <<flushed, onScreen, client>>
          /\ pc' \in {"failed", "crashed", "commit"}
        BY <1>7 DEF CommitWithoutFlush, CommitWithoutClient, CommitWithoutFront, Fail, Display
    <2> QED
        BY <1>0, <2>1 DEF FlushInv
  <1>8. CASE CommitFlush
    <2>1. PICK layer \in client :
              LET swapped == SwapFrontToBackQ(layer) IN
              /\ client' = {swapped} /\ swapped.back # <<>>
              /\ Newest(swapped) = Newest(layer) /\ currentFb' = Oldest(swapped)
        BY <1>0, <1>8, CommitFlushKeeps
    <2>2. pc = "flush" /\ pc' \in {"commit", "failed"} /\ onScreen' = onScreen
        BY <1>8 DEF CommitFlush, Fail
    <2> DEFINE swapped == SwapFrontToBackQ(layer)
    <2>3. /\ client' = {swapped} /\ swapped.back # <<>>
          /\ Newest(swapped) = Newest(layer) /\ currentFb' = Oldest(swapped)
        BY <2>1
    <2> HIDE DEF swapped
    <2> QED
        BY <1>0, <2>2, <2>3
  <1>9. CASE DeviceCommits \/ GetLayersReleaseFence
    <2>1. /\ UNCHANGED <<needFlushFb, flushed, client, currentFb>>
          /\ \/ /\ pc = "commit" /\ pc' = "fences"
                /\ onScreen' = IF needFlushFb THEN currentFb ELSE NoBuffer
             \/ pc = "commit" /\ pc' = "failed" /\ onScreen' = onScreen
             \/ pc = "fences" /\ pc' \in {"swap", "crashed"} /\ onScreen' = onScreen
        BY <1>9 DEF DeviceCommits, GetLayersReleaseFence, Fail
    <2> QED
        BY <1>0, <2>1 DEF FlushInv
  <1>10. CASE CommitSwapsBack
    <2>1. /\ pc = "swap" /\ pc' \in {"check", "idle"} /\ onScreen' = onScreen
        BY <1>10 DEF CommitSwapsBack
    <2>2. CASE ~needFlushFb /\ client' = client
    \* Nothing was flushed: the device shows no client buffer.
        BY <1>0, <2>1, <2>2 DEF FlushInv
    <2>3. CASE /\ needFlushFb
               /\ \A layer \in client : layer.back # <<>>
               /\ client' = {SwapBackToFrontQ(layer) : layer \in client}
      <3>1. \A layer \in client : Newest(SwapBackToFrontQ(layer)) = Oldest(layer)
          BY <1>0, <2>3, SwapBack DEF BufferInv
      <3> QED
          BY <1>0, <2>1, <2>3, <3>1
    <2> QED
        BY <1>0, <1>10, <2>2, <2>3, SwapsBackKeeps DEF FlushInv
  <1>11. CASE CheckSnapShot \/ ReturnFailure
    <2>1. /\ pc \in {"check", "failed"} /\ pc' \in {"idle", "crashed"}
          /\ UNCHANGED <<onScreen, client>>
        BY <1>11 DEF CheckSnapShot, ReturnFailure, Display
    <2> QED
        BY <1>0, <2>1
  <1> QED
      BY <1>1, <1>2, <1>3, <1>4, <1>5, <1>6, <1>7, <1>8, <1>9, <1>10, <1>11
         DEF Next, TestStep, PrepareStep, CommitStep, Between, Visiting

\* The device learns nothing and the layers keep what they hold.
LEMMA DeviceUntouched ==
    ASSUME DeviceInv,
           UNCHANGED <<setting, uncached, devLayers, devClient, cacheValid>>,
           DOMAIN layerMaps' = DOMAIN layerMaps,
           \A i \in DOMAIN layerMaps : Held(layerMaps'[i]) = Held(layerMaps[i]),
           \A layer \in client' : \E old \in client : Held(layer) = Held(old)
    PROVE  DeviceInv'
  BY DEF DeviceInv

\* The layer shows its next buffer and the device has been told of it.
LEMMA SetLayerBufferTells ==
    ASSUME BufferInv, DeviceInv, NEW id \in DOMAIN layerMaps,
           SetLayerBuffer(id), UNCHANGED <<setting, client, devClient, originSeq>>
    PROVE  DeviceInv'
  <1> SUFFICES ASSUME ~setting.destroys, ~setting.clears PROVE DeviceInv'
      BY DEF DeviceInv
  <1> DEFINE buffer == Shown(id).cur
  <1>1. /\ layerMaps' = [layerMaps EXCEPT ![id] = Shown(id)]
        /\ cacheValid' = cacheValid \cup {buffer}
        /\ IF buffer \in cacheValid
           THEN (uncached' <=> (uncached \/ buffer \notin devLayers[id]))
                /\ devLayers' = devLayers
           ELSE devLayers' = [devLayers EXCEPT ![id] = devLayers[id] \cup {buffer}]
                /\ uncached' = uncached
      BY DEF SetLayerBuffer
  <1>2. /\ DOMAIN layerMaps' = DOMAIN layerMaps
        /\ \A i \in DOMAIN layerMaps : Held(layerMaps'[i]) = Held(layerMaps[i])
        /\ buffer \in Held(layerMaps[id])
      BY <1>1, ShownStays
  <1> HIDE DEF buffer
  <1>3. /\ ~uncached /\ DOMAIN layerMaps \subseteq DOMAIN devLayers
        /\ \A i \in DOMAIN layerMaps : Held(layerMaps[i]) \cap cacheValid \subseteq devLayers[i]
        /\ \A layer \in client : Held(layer) \cap cacheValid \subseteq devClient
      BY DEF DeviceInv
  <1>4. /\ \A i \in DOMAIN layerMaps : i # id => buffer \notin Held(layerMaps[i])
        /\ \A layer \in client : buffer \notin Held(layer)
      BY <1>2 DEF BufferInv
  <1>5. /\ ~uncached' /\ DOMAIN devLayers' = DOMAIN devLayers
        /\ \A i \in DOMAIN devLayers : i # id => devLayers'[i] = devLayers[i]
        /\ devLayers[id] \cup {buffer} \subseteq devLayers'[id]
      BY <1>1, <1>2, <1>3
  <1>6. \A i \in DOMAIN layerMaps' : Held(layerMaps'[i]) \cap cacheValid' \subseteq devLayers'[i]
      BY <1>1, <1>2, <1>3, <1>4, <1>5
  <1>7. \A layer \in client' : Held(layer) \cap cacheValid' \subseteq devClient'
      BY <1>1, <1>3, <1>4
  <1> QED
      BY <1>2, <1>3, <1>5, <1>6, <1>7 DEF DeviceInv

\* The client layer's next buffer is given to the device.
LEMMA CommitFlushTells ==
    ASSUME BufferInv, DeviceInv, CommitFlush
    PROVE  DeviceInv'
  <1> SUFFICES ASSUME ~setting.destroys, ~setting.clears PROVE DeviceInv'
      BY DEF DeviceInv, CommitFlush, Rest
  <1>1. PICK layer \in client :
              LET swapped == SwapFrontToBackQ(layer) IN
              /\ client = {layer} /\ client' = {swapped}
              /\ Held(swapped) = Held(layer)
              /\ Oldest(swapped) \in Held(layer)
              /\ GetBackBuffer(swapped) = Oldest(swapped)
      BY CommitFlushKeeps
  <1> DEFINE swapped == SwapFrontToBackQ(layer)
             buffer  == GetBackBuffer(swapped)
  <1>2. /\ client = {layer} /\ client' = {swapped}
        /\ Held(swapped) = Held(layer) /\ buffer \in Held(layer)
      BY <1>1
  <1>3. /\ UNCHANGED <<setting, layerMaps, devLayers>>
        /\ \/ /\ cacheValid' = cacheValid \cup {buffer}
              /\ IF buffer \in cacheValid
                 THEN (uncached' <=> (uncached \/ buffer \notin devClient))
                      /\ devClient' = devClient
                 ELSE devClient' = devClient \cup {buffer} /\ uncached' = uncached
           \/ UNCHANGED <<cacheValid, devClient, uncached>>
      BY <1>2 DEF CommitFlush, Rest
  <1> HIDE DEF swapped, buffer
  <1>4. /\ ~uncached /\ DOMAIN layerMaps \subseteq DOMAIN devLayers
        /\ \A i \in DOMAIN layerMaps : Held(layerMaps[i]) \cap cacheValid \subseteq devLayers[i]
        /\ Held(layer) \cap cacheValid \subseteq devClient
      BY DEF DeviceInv
  <1>5. \A i \in DOMAIN layerMaps : buffer \notin Held(layerMaps[i])
      BY <1>2 DEF BufferInv
  <1>6. ~uncached' /\ Held(swapped) \cap cacheValid' \subseteq devClient'
      BY <1>2, <1>3, <1>4
  <1>7. \A i \in DOMAIN layerMaps' : Held(layerMaps'[i]) \cap cacheValid' \subseteq devLayers'[i]
      BY <1>3, <1>4, <1>5
  <1> QED
      BY <1>2, <1>3, <1>4, <1>6, <1>7 DEF DeviceInv

\* A layer the device has just made: the display has no layer of that id, and
\* the buffers of a new one have never been sent.
LEMMA DeviceCreatesKeeps ==
    ASSUME BufferInv, DeviceInv, originSeq \in Nat, NEW id,
           id \notin DOMAIN devLayers, DeviceCreates(id),
           UNCHANGED <<setting, uncached, client, devClient, cacheValid>>,
           \/ layerMaps' = layerMaps
           \/ CreateTestLayer(id)
    PROVE  DeviceInv'
  <1> SUFFICES ASSUME ~setting.destroys, ~setting.clears PROVE DeviceInv'
      BY DEF DeviceInv
  <1>1. /\ ~uncached /\ DOMAIN layerMaps \subseteq DOMAIN devLayers
        /\ \A i \in DOMAIN layerMaps : Held(layerMaps[i]) \cap cacheValid \subseteq devLayers[i]
        /\ \A layer \in client : Held(layer) \cap cacheValid \subseteq devClient
      BY DEF DeviceInv
  <1>2. /\ DOMAIN devLayers' = DOMAIN devLayers \cup {id}
        /\ \A i \in DOMAIN devLayers : devLayers'[i] = devLayers[i]
      BY DEF DeviceCreates
  <1>3. CASE layerMaps' = layerMaps
      BY <1>1, <1>2, <1>3 DEF DeviceInv
  <1>4. CASE CreateTestLayer(id)
    <2> DEFINE fresh == NewLayer(originSeq, BufferCount)
               new == SwapFrontToBackQ(fresh)
    <2>1. /\ layerMaps' = Emplace(layerMaps, id, new)
          /\ originSeq + BufferCount <= MaxSeq
        BY <1>4 DEF CreateTestLayer
    <2>2. /\ DOMAIN layerMaps' = DOMAIN layerMaps \cup {id}
          /\ \A i \in DOMAIN layerMaps : layerMaps'[i] = layerMaps[i]
          /\ layerMaps'[id] = new
        BY <1>1, <2>1 DEF Emplace
    <2>3. Held(new) = originSeq .. ((originSeq + BufferCount) - 1)
      <3> HIDE DEF fresh
      <3>1. fresh = NewLayer(originSeq, BufferCount)
          BY DEF fresh
      <3>2. /\ Well(fresh) /\ CanSwapFrontToBackQ(fresh)
            /\ Held(fresh) = originSeq .. ((originSeq + BufferCount) - 1)
          BY <2>1, <3>1, Fresh
      <3> QED
          BY <3>2, SwapForth
    <2> HIDE DEF fresh, new
    <2>4. cacheValid \subseteq 0 .. (originSeq - 1)
        BY DEF BufferInv
    <2>5. Held(new) \cap cacheValid = {}
        BY <2>3, <2>4
    <2>6. \A i \in DOMAIN layerMaps' : Held(layerMaps'[i]) \cap cacheValid \subseteq devLayers'[i]
        BY <1>1, <1>2, <2>2, <2>5
    <2> QED
        BY <1>1, <1>2, <2>2, <2>6 DEF DeviceInv
  <1> QED
      BY <1>3, <1>4

LEMMA StepDevice == Inv /\ [Next]_vars => DeviceInv'
  <1> SUFFICES ASSUME Inv, [Next]_vars PROVE DeviceInv'
      OBVIOUS
  <1>0. /\ BufferInv /\ DeviceInv /\ BacklogIsLostFlushes /\ lost \in Nat
        /\ originSeq \in Nat /\ todo \subseteq DOMAIN layerMaps
      BY DisplayAssumption DEF Inv, TypeOK, FlushInv
  <1>1. CASE UNCHANGED vars
      BY <1>0, <1>1, DeviceUntouched DEF vars
  <1>2. ASSUME NEW id \in LayerIds, CreateTestLayer(id) PROVE DeviceInv'
    <2>1. /\ id \notin DOMAIN devLayers /\ DeviceCreates(id)
          /\ UNCHANGED <<setting, uncached, client, devClient, cacheValid>>
        BY <1>2 DEF CreateTestLayer, Call, Display
    <2> QED
        BY <1>0, <1>2, <2>1, DeviceCreatesKeeps
  <1>3. ASSUME NEW id \in LayerIds, NEW k \in 1 .. BufferCount, LayerInitFails(id, k)
        PROVE  DeviceInv'
    <2>1. /\ id \notin DOMAIN devLayers /\ DeviceCreates(id) /\ layerMaps' = layerMaps
          /\ UNCHANGED <<setting, uncached, client, devClient, cacheValid>>
        BY <1>3 DEF LayerInitFails, Call, Display
    <2> QED
        BY <1>0, <2>1, DeviceCreatesKeeps
  <1>4. ASSUME NEW id \in LayerIds, DestroyLayer(id) PROVE DeviceInv'
      BY <1>4 DEF DestroyLayer, Call, DeviceInv
  <1>5. CASE Clear
    <2>1. layerMaps' = <<>> /\ UNCHANGED <<setting, uncached, client, devClient, cacheValid>>
        BY <1>5 DEF Clear, Call, Display
    <2>2. DOMAIN layerMaps' = {}
        BY <2>1
    <2> QED
        BY <1>0, <2>1, <2>2 DEF DeviceInv
  <1>6. CASE ResetClientLayer
    <2>1. client' = {} /\ layerMaps' = layerMaps
          /\ UNCHANGED <<setting, uncached, devLayers, devClient, cacheValid>>
        BY <1>6 DEF ResetClientLayer, Call
    <2> QED
        BY <1>0, <2>1, DeviceUntouched
  <1>7. CASE ClearClientBuffer
      BY <1>7 DEF ClearClientBuffer, Call, DeviceInv
  <1>8. CASE CreateLayerFails \/ UseNullLayer
    <2>1. UNCHANGED <<setting, uncached, devLayers, devClient, cacheValid, layerMaps, client>>
        BY <1>8 DEF CreateLayerFails, UseNullLayer, Call, Display
    <2> QED
        BY <1>0, <2>1, DeviceUntouched
  <1>9. ASSUME NEW present \in BOOLEAN, PrepareAndCommit(present) PROVE DeviceInv'
    <2>1. UNCHANGED <<setting, uncached, devLayers, devClient, cacheValid, layerMaps, client>>
        BY <1>9 DEF PrepareAndCommit
    <2> QED
        BY <1>0, <2>1, DeviceUntouched
  <1>10. ASSUME NEW id \in LayerIds, PreparePresent(id) \/ PreparePresentFailsLast(id)
         PROVE  DeviceInv'
    <2>1. /\ id \in DOMAIN layerMaps /\ SetLayerBuffer(id)
          /\ UNCHANGED <<setting, client, devClient, originSeq>>
        BY <1>0, <1>10 DEF PreparePresent, PreparePresentFailsLast, Rest, Display
    <2> QED
        BY <1>0, <2>1, SetLayerBufferTells
  <1>11. ASSUME NEW id \in LayerIds, PreparePresentLosesBuffer(id) PROVE DeviceInv'
    <2>1. /\ id \in DOMAIN layerMaps
          /\ layerMaps' = [layerMaps EXCEPT ![id] = Shown(id)]
          /\ UNCHANGED <<setting, uncached, devLayers, devClient, cacheValid, client, originSeq>>
        BY <1>0, <1>11 DEF PreparePresentLosesBuffer, Rest, Display
    <2>2. /\ DOMAIN layerMaps' = DOMAIN layerMaps
          /\ \A i \in DOMAIN layerMaps : Held(layerMaps'[i]) = Held(layerMaps[i])
        BY <1>0, <2>1, ShownStays
    <2> QED
        BY <1>0, <2>1, <2>2, DeviceUntouched
  <1>12. ASSUME NEW id \in LayerIds, PreparePresentRefused(id) PROVE DeviceInv'
    <2>1. UNCHANGED <<setting, uncached, devLayers, devClient, cacheValid, layerMaps, client>>
        BY <1>12 DEF PreparePresentRefused, Rest, Display
    <2> QED
        BY <1>0, <2>1, DeviceUntouched
  <1>13. CASE DevicePrepares \/ RefreshLayersCompType
    <2>1. UNCHANGED <<setting, uncached, devLayers, devClient, cacheValid, layerMaps, client>>
        BY <1>13 DEF DevicePrepares, RefreshLayersCompType, LookUpReported, Rest, Display, Layers
    <2> QED
        BY <1>0, <2>1, DeviceUntouched
  <1>14. CASE CommitWithoutFlush \/ CommitWithoutClient \/ CommitWithoutFront
                \/ DeviceCommits \/ GetLayersReleaseFence \/ CheckSnapShot \/ ReturnFailure
    <2>1. UNCHANGED <<setting, uncached, devLayers, devClient, cacheValid, layerMaps, client>>
        BY <1>14 DEF CommitWithoutFlush, CommitWithoutClient, CommitWithoutFront, DeviceCommits,
                     GetLayersReleaseFence, CheckSnapShot, ReturnFailure, Rest, Display, Layers
    <2> QED
        BY <1>0, <2>1, DeviceUntouched
  <1>15. CASE CommitFlush
      BY <1>0, <1>15, CommitFlushTells
  <1>16. CASE CommitSwapsBack
    <2>1. UNCHANGED <<setting, uncached, devLayers, devClient, cacheValid, layerMaps>>
        BY <1>16 DEF CommitSwapsBack, Rest, Layers
    <2>2. \A layer \in client' : \E old \in client : Held(layer) = Held(old)
        BY <1>0, <1>16, SwapsBackKeeps, SwapBack DEF BufferInv
    <2> QED
        BY <1>0, <2>1, <2>2, DeviceUntouched
  <1> QED
      BY <1>1, <1>2, <1>3, <1>4, <1>5, <1>6, <1>7, <1>8, <1>9, <1>10, <1>11, <1>12, <1>13,
         <1>14, <1>15, <1>16 DEF Next, TestStep, PrepareStep, CommitStep

LEMMA ClearCounts ==
    ASSUME NEW refused \in SUBSET LayerIds
    PROVE  Cardinality(refused) \in Nat /\ (Cardinality(refused) = 0 <=> refused = {})
  <1>1. IsFiniteSet(refused)
      BY FS_Subset, DisplayAssumption
  <1> QED
      BY <1>1, FS_CardinalityType, FS_EmptySet

\* Steps that change nothing of what CalmInv speaks of but pc and faults.
LEMMA CalmStays ==
    ASSUME CalmInv, faults \in Nat, lost \in Nat,
           UNCHANGED <<setting, nullLayer, lost, currentFb>>,
           DOMAIN layerMaps' = DOMAIN layerMaps, DOMAIN devLayers' = DOMAIN devLayers,
           client # {} => client' # {},
           \A layer \in client' : \E old \in client : Held(layer) = Held(old),
           \/ faults' = faults /\ pc' \notin {"failed", "crashed"}
           \/ faults' = faults /\ ~(faults = 0 /\ ~setting.destroys /\ ~setting.resets)
           \/ faults' = faults + 1
    PROVE  CalmInv'
  <1>1. lost' <= faults'
      BY DEF CalmInv
  <1>2. ASSUME faults' = 0, ~setting'.destroys, ~setting'.resets
        PROVE  /\ faults = 0 /\ ~setting.destroys /\ ~setting.resets
               /\ pc' \notin {"failed", "crashed"}
      BY <1>2
  <1>3. ASSUME faults' = 0, ~setting'.destroys, ~setting'.resets
        PROVE  /\ ~nullLayer' /\ client' # {} /\ DOMAIN layerMaps' = DOMAIN devLayers'
               /\ \A layer \in client' : currentFb' \in Held(layer) \cup {NoBuffer}
      BY <1>2, <1>3 DEF CalmInv
  <1> QED
      BY <1>1, <1>2, <1>3 DEF CalmInv

LEMMA StepCalm == Inv /\ [Next]_vars => CalmInv'
  <1> SUFFICES ASSUME Inv, [Next]_vars PROVE CalmInv'
      OBVIOUS
  <1>0. /\ BufferInv /\ FlushInv /\ CalmInv /\ lost \in Nat /\ faults \in Nat
        /\ DOMAIN layerMaps \subseteq LayerIds /\ todo \subseteq DOMAIN layerMaps
        /\ \A layer \in client : Len(layer.back) \in Nat
      BY BackIsBounded, DisplayAssumption DEF Inv, TypeOK, BufferInv
  <1>1. CASE UNCHANGED vars
      BY <1>0, <1>1 DEF vars, CalmInv
  <1>2. ASSUME NEW id \in LayerIds, CreateTestLayer(id) PROVE CalmInv'
    <2>1. /\ id \notin DOMAIN devLayers
          /\ DOMAIN devLayers' = DOMAIN devLayers \cup {id}
          /\ DOMAIN layerMaps' = DOMAIN layerMaps \cup {id}
          /\ UNCHANGED <<setting, pc, nullLayer, lost, currentFb, client, faults>>
        BY <1>2 DEF CreateTestLayer, DeviceCreates, Emplace, Call, Display
    <2> QED
        BY <1>0, <2>1 DEF CalmInv
  <1>3. ASSUME NEW id \in LayerIds, NEW k \in 1 .. BufferCount,
               CreateLayerFails \/ LayerInitFails(id, k)
        PROVE  CalmInv'
    <2>1. faults' = faults + 1 /\ lost' = lost
        BY <1>3 DEF CreateLayerFails, LayerInitFails, Fault, Display
    <2> QED
        BY <1>0, <2>1 DEF CalmInv
  <1>16. CASE CreateLayerFails
    <2>1. faults' = faults + 1 /\ lost' = lost
        BY <1>16 DEF CreateLayerFails, Fault, Display
    <2> QED
        BY <1>0, <2>1 DEF CalmInv
  <1>4. ASSUME NEW id \in LayerIds, DestroyLayer(id) PROVE CalmInv'
    <2>1. /\ setting'.destroys /\ UNCHANGED <<faults, lost>>
        BY <1>4 DEF DestroyLayer, Call, Display
    <2> QED
        BY <1>0, <2>1 DEF CalmInv
  <1>5. CASE Clear
    <2>1. PICK refused \in SUBSET DOMAIN layerMaps :
             /\ faults' = faults + Cardinality(refused)
             /\ DOMAIN devLayers' = DOMAIN devLayers \ (DOMAIN layerMaps \ refused)
        BY <1>5 DEF Clear
    <2>2. Cardinality(refused) \in Nat /\ (Cardinality(refused) = 0 <=> refused = {})
        BY <1>0, ClearCounts
    <2>3. /\ layerMaps' = <<>>
          /\ UNCHANGED <<setting, pc, nullLayer, lost, currentFb, client>>
        BY <1>5 DEF Clear, Call, Display
    <2>4. DOMAIN layerMaps' = {}
        BY <2>3
    <2>5. lost' <= faults'
        BY <1>0, <2>1, <2>2, <2>3 DEF CalmInv
    <2>6. faults' = 0 => faults = 0 /\ refused = {}
        BY <1>0, <2>1, <2>2
    <2>7. faults' = 0 /\ DOMAIN layerMaps = DOMAIN devLayers
             => DOMAIN layerMaps' = DOMAIN devLayers'
        BY <2>1, <2>4, <2>6
    <2> QED
        BY <1>0, <2>3, <2>5, <2>6, <2>7 DEF CalmInv
  <1>6. CASE ResetClientLayer
    <2>1. setting'.resets /\ UNCHANGED <<faults, lost>>
        BY <1>6 DEF ResetClientLayer, Call
    <2> QED
        BY <1>0, <2>1 DEF CalmInv
  <1>7. CASE ClearClientBuffer
    <2>1. UNCHANGED <<setting, pc, nullLayer, lost, currentFb, client, faults, layerMaps, devLayers>>
        BY <1>7 DEF ClearClientBuffer, Call
    <2> QED
        BY <1>0, <2>1 DEF CalmInv
  <1>8. CASE UseNullLayer
    <2>1. /\ nullLayer
          /\ UNCHANGED <<setting, nullLayer, lost, currentFb, client, faults, layerMaps, devLayers>>
        BY <1>8 DEF UseNullLayer, Call, Display
    <2> QED
        BY <1>0, <2>1 DEF CalmInv
  <1>9. ASSUME NEW present \in BOOLEAN, PrepareAndCommit(present) PROVE CalmInv'
    <2>1. /\ pc' = "prepare"
          /\ UNCHANGED <<setting, nullLayer, lost, currentFb, client, faults, layerMaps, devLayers>>
        BY <1>9 DEF PrepareAndCommit
    <2> QED
        BY <1>0, <2>1, CalmStays
  <1>10. CASE Visiting
    <2>1. PICK id \in LayerIds :
             \/ PreparePresent(id)            \/ PreparePresentRefused(id)
             \/ PreparePresentLosesBuffer(id) \/ PreparePresentFailsLast(id)
        BY <1>10 DEF Visiting
    <2>2. UNCHANGED <<setting, nullLayer, lost, currentFb, client>> /\ id \in DOMAIN layerMaps
        BY <1>0, <1>10, <2>1, VisitingKeeps
           DEF PreparePresent, PreparePresentRefused, PreparePresentLosesBuffer,
               PreparePresentFailsLast
    <2>3. Shown(id).cur # NoBuffer
        BY <1>0, <2>2, Acquire DEF BufferInv, Shown
    <2>4. /\ DOMAIN layerMaps' = DOMAIN layerMaps
          /\ DOMAIN devLayers' = DOMAIN devLayers
        BY <2>1 DEF PreparePresent, PreparePresentRefused, PreparePresentLosesBuffer,
                    PreparePresentFailsLast, SetLayerBuffer
    <2>5. \/ faults' = faults /\ pc' = "prepare"
          \/ faults' = faults /\ id \notin DOMAIN devLayers
          \/ faults' = faults + 1
        BY <2>1, <2>3, <1>10, VisitingKeeps
           DEF PreparePresent, PreparePresentRefused, PreparePresentLosesBuffer,
               PreparePresentFailsLast, Fault
    <2>6. id \notin DOMAIN devLayers => ~(faults = 0 /\ ~setting.destroys /\ ~setting.resets)
        BY <1>0, <2>2 DEF CalmInv
    <2> QED
        BY <1>0, <2>2, <2>4, <2>5, <2>6, CalmStays
  <1>11. CASE DevicePrepares \/ RefreshLayersCompType
    <2>1. /\ UNCHANGED <<setting, nullLayer, lost, currentFb, client, layerMaps, devLayers>>
          /\ \/ faults' = faults /\ pc' \in {"refresh", "flush"}
             \/ faults' = faults /\ ~(DOMAIN devLayers \subseteq DOMAIN layerMaps)
             \/ faults' = faults + 1
        BY <1>11 DEF DevicePrepares, RefreshLayersCompType, LookUpReported, Fault, Rest,
                     Display, Layers
    <2>2. ~(DOMAIN devLayers \subseteq DOMAIN layerMaps)
             => ~(faults = 0 /\ ~setting.destroys /\ ~setting.resets)
        BY <1>0 DEF CalmInv
    <2> QED
        BY <1>0, <2>1, <2>2, CalmStays
  <1>12. CASE CommitWithoutFlush \/ CommitWithoutClient \/ CommitWithoutFront
    <2>1. /\ pc = "flush" /\ faults' = faults
          /\ UNCHANGED <<setting, nullLayer, lost, currentFb, client, layerMaps, devLayers>>
          /\ \/ pc' = "commit"
             \/ client = {}
             \/ \E layer \in client : ~CanSwapFrontToBackQ(layer)
        BY <1>12 DEF CommitWithoutFlush, CommitWithoutClient, CommitWithoutFront, Fail, Rest,
                     Display, Layers
    <2>2. client = {} => ~(faults = 0 /\ ~setting.destroys /\ ~setting.resets)
        BY <1>0 DEF CalmInv
    <2>3. ASSUME NEW layer \in client, ~CanSwapFrontToBackQ(layer) PROVE faults # 0
      <3>1. Len(layer.back) = lost
          BY <1>0, <2>1 DEF FlushInv, BacklogIsLostFlushes
      <3>2. layer.back = <<>> <=> Len(layer.back) = 0
          BY <1>0, BackIsBounded DEF BufferInv
      <3>3. layer.back # <<>>
          BY <1>0, <2>3, BackIsBounded DEF BufferInv
      <3> QED
          BY <1>0, <3>1, <3>2, <3>3 DEF CalmInv
    <2> QED
        BY <1>0, <2>1, <2>2, <2>3, CalmStays
  <1>13. CASE CommitFlush
    <2>1. PICK layer \in client :
              LET swapped == SwapFrontToBackQ(layer) IN
              /\ client' = {swapped} /\ Held(swapped) = Held(layer)
              /\ currentFb' = Oldest(swapped) /\ Oldest(swapped) \in Held(layer)
        BY <1>0, <1>13, CommitFlushKeeps
    <2>2. /\ UNCHANGED <<setting, nullLayer, layerMaps, devLayers>>
          /\ \/ faults' = faults /\ pc' = "commit" /\ lost' = lost
             \/ faults' = faults + 1 /\ lost' = lost + 1
        BY <1>13 DEF CommitFlush, Fault, Rest
    <2>3. client' # {} /\ \A l \in client' : currentFb' \in Held(l)
        BY <2>1
    <2>4. lost' <= faults' /\ (faults' = 0 => faults = 0 /\ pc' = "commit")
        BY <1>0, <2>2 DEF CalmInv
    <2> QED
        BY <1>0, <2>2, <2>3, <2>4 DEF CalmInv
  <1>14. CASE DeviceCommits \/ GetLayersReleaseFence
    <2>1. /\ UNCHANGED <<setting, nullLayer, currentFb, client, layerMaps, devLayers>>
          /\ \/ faults' = faults /\ pc' \in {"fences", "swap"} /\ lost' = lost
             \/ /\ faults' = faults /\ lost' = lost
                /\ ~(DOMAIN devLayers \subseteq DOMAIN layerMaps)
             \/ faults' = faults + 1 /\ lost' = lost + (IF needFlushFb THEN 1 ELSE 0)
        BY <1>14 DEF DeviceCommits, GetLayersReleaseFence, Fault, LoseFlush, Rest, Layers
    <2>2. lost' <= faults' /\ (faults' = 0 => faults = 0)
        BY <1>0, <2>1 DEF CalmInv
    <2>3. faults' = 0 /\ ~setting.destroys /\ ~setting.resets => pc' \in {"fences", "swap"}
        BY <1>0, <2>1 DEF CalmInv
    <2> QED
        BY <1>0, <2>1, <2>2, <2>3 DEF CalmInv
  <1>15. CASE CommitSwapsBack \/ CheckSnapShot \/ ReturnFailure
    <2>1. /\ UNCHANGED <<setting, nullLayer, lost, currentFb, layerMaps, devLayers, faults>>
          /\ \/ pc' \in {"check", "idle"}
             \/ currentFb # NoBuffer /\ \A layer \in client : currentFb \notin Held(layer)
        BY <1>15 DEF CommitSwapsBack, CheckSnapShot, ReturnFailure, Rest, Display, Layers
    <2>2. /\ client # {} => client' # {}
          /\ \A layer \in client' : \E old \in client : Held(layer) = Held(old)
      <3>1. CASE CommitSwapsBack
          BY <1>0, <3>1, SwapsBackKeeps, SwapBack DEF BufferInv, FlushInv
      <3>2. CASE CheckSnapShot \/ ReturnFailure
          BY <3>2 DEF CheckSnapShot, ReturnFailure, Display
      <3> QED
          BY <1>15, <3>1, <3>2
    <2>3. currentFb # NoBuffer /\ (\A layer \in client : currentFb \notin Held(layer))
             => ~(faults = 0 /\ ~setting.destroys /\ ~setting.resets)
        BY <1>0 DEF CalmInv
    <2> QED
        BY <1>0, <2>1, <2>2, <2>3, CalmStays
  <1> QED
      BY <1>1, <1>2, <1>3, <1>4, <1>5, <1>6, <1>7, <1>8, <1>9, <1>10, <1>11, <1>12, <1>13,
         <1>14, <1>15, <1>16 DEF Next, TestStep, PrepareStep, CommitStep, Visiting

\* What is left of TypeOK once the layers and cacheValid are known to be right.
Scalars ==
    /\ setting \in Settings /\ pc \in PCs
    /\ checking \in BOOLEAN /\ needFlushFb \in BOOLEAN /\ nullLayer \in BOOLEAN
    /\ uncached \in BOOLEAN /\ flushed \in BOOLEAN
    /\ currentFb \in Buffers \cup {NoBuffer} /\ onScreen \in Buffers \cup {NoBuffer}
    /\ originSeq \in 0 .. MaxSeq
    /\ faults \in 0 .. MaxFaults /\ lost \in 0 .. BufferCount

Maps ==
    /\ todo \subseteq DOMAIN layerMaps /\ DOMAIN layerMaps \subseteq LayerIds
    /\ DOMAIN devLayers \subseteq LayerIds
    /\ \A id \in DOMAIN devLayers : devLayers[id] \subseteq Buffers
    /\ devClient \subseteq Buffers

LEMMA TypesSplit == BufferInv => (TypeOK <=> Scalars /\ Maps)
  <1> SUFFICES ASSUME BufferInv PROVE TypeOK <=> Scalars /\ Maps
      OBVIOUS
  <1>1. /\ \A id \in DOMAIN layerMaps : layerMaps[id] \in LayerType(Buffers)
        /\ client \subseteq LayerType(Buffers)
      BY DEF BufferInv, Well
  <1>2. originSeq \in 0 .. MaxSeq => cacheValid \subseteq Buffers
    <2>1. ASSUME originSeq \in 0 .. MaxSeq, NEW n \in cacheValid PROVE n \in Buffers
      <3>1. n \in 0 .. (originSeq - 1)
          BY DEF BufferInv
      <3> QED
          BY <2>1, <3>1, DisplayAssumption DEF Buffers
    <2> QED
        BY <2>1
  <1>3. /\ {checking, needFlushFb, nullLayer, uncached, flushed} \subseteq BOOLEAN
              <=> /\ checking \in BOOLEAN /\ needFlushFb \in BOOLEAN /\ nullLayer \in BOOLEAN
                  /\ uncached \in BOOLEAN /\ flushed \in BOOLEAN
        /\ {currentFb, onScreen} \subseteq Buffers \cup {NoBuffer}
              <=> /\ currentFb \in Buffers \cup {NoBuffer}
                  /\ onScreen \in Buffers \cup {NoBuffer}
      BY Zenon
  <1> DEFINE flags == {checking, needFlushFb, nullLayer, uncached, flushed} \subseteq BOOLEAN
             shown == {currentFb, onScreen} \subseteq Buffers \cup {NoBuffer}
  <1>4. TypeOK <=> /\ setting \in Settings /\ pc \in PCs /\ flags /\ shown /\ Maps
                   /\ originSeq \in 0 .. MaxSeq /\ faults \in 0 .. MaxFaults
                   /\ lost \in 0 .. BufferCount
      BY <1>1, <1>2, Zenon DEF TypeOK, Maps
  <1> HIDE DEF flags, shown
  <1>5. Scalars <=> /\ setting \in Settings /\ pc \in PCs /\ flags /\ shown
                    /\ originSeq \in 0 .. MaxSeq /\ faults \in 0 .. MaxFaults
                    /\ lost \in 0 .. BufferCount
      BY <1>3, Zenon DEF Scalars, flags, shown
  <1> QED
      BY <1>4, <1>5, Zenon

\* The buffers of a layer are buffers.
LEMMA HeldAreBuffers ==
    ASSUME BufferInv, originSeq \in 0 .. MaxSeq
    PROVE  /\ \A layer \in client : Held(layer) \subseteq Buffers
           /\ \A i \in DOMAIN layerMaps : Held(layerMaps[i]) \subseteq Buffers
  <1>1. 0 .. (originSeq - 1) \subseteq Buffers
      BY DisplayAssumption DEF Buffers
  <1> QED
      BY <1>1 DEF BufferInv

\* Every buffer in back is one of the layer's own, so no more can be lost.
LEMMA LostIsBounded ==
    ASSUME BufferInv, FlushInv, lost \in Nat, pc \in Committing, needFlushFb
    PROVE  lost + 1 \in 0 .. BufferCount
  <1>1. PICK layer \in client : TRUE
      BY DEF FlushInv
  <1>2. Len(layer.back) \in 0 .. BufferCount
      BY BackIsBounded DEF BufferInv
  <1>3. Len(layer.back) = lost + 1
      BY DEF FlushInv, BacklogIsLostFlushes, Committing
  <1> QED
      BY <1>2, <1>3

LEMMA StepScalars == Inv /\ [Next]_vars => Scalars'
  <1> SUFFICES ASSUME Inv, [Next]_vars PROVE Scalars'
      OBVIOUS
  <1>0. BufferInv /\ FlushInv /\ Scalars /\ lost \in Nat /\ faults \in Nat /\ originSeq \in Nat
    <2>1. BufferInv /\ FlushInv /\ Scalars
        BY TypesSplit DEF Inv
    <2> QED
        BY <2>1, DisplayAssumption DEF Scalars
  <1>f. Fault => faults' \in 0 .. MaxFaults
      BY <1>0, DisplayAssumption DEF Fault
  <1> USE DEF PCs
  <1>1. CASE UNCHANGED vars
      BY <1>0, <1>1 DEF vars, Scalars
  <1>2. ASSUME NEW id \in LayerIds, CreateTestLayer(id) PROVE Scalars'
    <2>1. /\ UNCHANGED <<pc, Call, Display, nullLayer, uncached, faults>>
          /\ originSeq' = originSeq + BufferCount /\ originSeq + BufferCount <= MaxSeq
        BY <1>2 DEF CreateTestLayer
    <2>2. originSeq' \in 0 .. MaxSeq
        BY <1>0, <2>1, DisplayAssumption
    <2> QED
        BY <1>0, <2>1, <2>2 DEF Scalars, Call, Display
  <1>3. ASSUME NEW id \in LayerIds, NEW k \in 1 .. BufferCount, LayerInitFails(id, k)
        PROVE  Scalars'
    <2>1. /\ UNCHANGED <<pc, Call, Display, uncached>> /\ nullLayer' = TRUE
          /\ originSeq' = originSeq + k /\ originSeq + k <= MaxSeq /\ Fault
        BY <1>3 DEF LayerInitFails
    <2>2. originSeq' \in 0 .. MaxSeq
        BY <1>0, <2>1, DisplayAssumption
    <2> QED
        BY <1>0, <1>f, <2>1, <2>2 DEF Scalars, Call, Display
  <1>4. ASSUME NEW id \in LayerIds, DestroyLayer(id) PROVE Scalars'
      BY <1>0, <1>4 DEF DestroyLayer, Scalars, Call, Display
  <1>5. CASE CreateLayerFails
      BY <1>0, <1>f, <1>5 DEF CreateLayerFails, Scalars, Call, Display
  <1>6. CASE UseNullLayer \/ ResetClientLayer \/ ClearClientBuffer
      BY <1>0, <1>6 DEF UseNullLayer, ResetClientLayer, ClearClientBuffer, Scalars, Call, Display
  <1>7. CASE Clear
    <2>1. PICK refused \in SUBSET DOMAIN layerMaps :
             /\ faults' = faults + Cardinality(refused)
             /\ faults + Cardinality(refused) <= MaxFaults
        BY <1>7 DEF Clear
    <2>2. Cardinality(refused) \in Nat
        BY ClearCounts DEF Inv, TypeOK
    <2>3. faults' \in 0 .. MaxFaults
        BY <1>0, <2>1, <2>2, DisplayAssumption
    <2>4. UNCHANGED <<pc, Call, Display, originSeq, nullLayer, uncached>>
        BY <1>7 DEF Clear
    <2> QED
        BY <1>0, <2>3, <2>4 DEF Scalars, Call, Display
  <1>8. ASSUME NEW present \in BOOLEAN, PrepareAndCommit(present) PROVE Scalars'
      BY <1>0, <1>8 DEF PrepareAndCommit, Scalars
  <1>9. CASE Visiting
    <2>1. PICK id \in LayerIds :
             \/ PreparePresent(id)            \/ PreparePresentRefused(id)
             \/ PreparePresentLosesBuffer(id) \/ PreparePresentFailsLast(id)
        BY <1>9 DEF Visiting
    <2>2. faults' \in 0 .. MaxFaults
        BY <1>0, <1>f, <2>1 DEF PreparePresent, PreparePresentRefused,
           PreparePresentLosesBuffer, PreparePresentFailsLast, Scalars
    <2>3. uncached' \in BOOLEAN
      <3>1. uncached' = uncached \/ SetLayerBuffer(id)
          BY <2>1 DEF PreparePresent, PreparePresentRefused, PreparePresentLosesBuffer,
                      PreparePresentFailsLast
      <3>2. ASSUME SetLayerBuffer(id) PROVE uncached' \in BOOLEAN
        <4>1. uncached' = uncached
                 \/ uncached' = (uncached \/ Shown(id).cur \notin devLayers[id])
            BY <3>2, Zenon DEF SetLayerBuffer
        <4>2. uncached \in BOOLEAN
            BY <1>0 DEF Scalars
        <4> QED
            BY <4>1, <4>2, Zenon
      <3> QED
          BY <1>0, <3>1, <3>2 DEF Scalars
    <2> QED
        BY <1>0, <1>9, <2>2, <2>3, VisitingKeeps DEF Scalars
  <1>10. CASE DevicePrepares \/ RefreshLayersCompType
      BY <1>0, <1>f, <1>10 DEF DevicePrepares, RefreshLayersCompType, LookUpReported, Fail,
         Scalars, Rest, Layers, Display
  <1>11. CASE CommitWithoutFlush \/ CommitWithoutClient \/ CommitWithoutFront
                \/ CommitSwapsBack \/ CheckSnapShot \/ ReturnFailure
      BY <1>0, <1>11 DEF CommitWithoutFlush, CommitWithoutClient, CommitWithoutFront,
         CommitSwapsBack, CheckSnapShot, ReturnFailure, Fail, Scalars, Rest, Layers, Display
  <1>12. CASE CommitFlush
    <2>1. PICK layer \in client :
              LET swapped == SwapFrontToBackQ(layer) IN
              /\ Well(swapped) /\ swapped.cur = NoBuffer
              /\ Len(swapped.back) = Len(layer.back) + 1
              /\ currentFb' = Oldest(swapped) /\ Oldest(swapped) \in Buffers
        BY <1>0, <1>12, CommitFlushKeeps
    <2>2. currentFb' \in Buffers
        BY <2>1
    <2>3. lost' \in 0 .. BufferCount
      <3> DEFINE swapped == SwapFrontToBackQ(layer)
      <3>1. Len(swapped.back) \in 0 .. BufferCount
          BY <2>1, BackIsBounded
      <3>2. Len(layer.back) = lost
          BY <1>0, <1>12 DEF CommitFlush, FlushInv, BacklogIsLostFlushes
      <3>3. lost' = lost \/ lost' = lost + 1
          BY <1>12 DEF CommitFlush
      <3>4. Len(swapped.back) = lost + 1
          BY <2>1, <3>2
      <3> HIDE DEF swapped
      <3> QED
          BY <1>0, <3>1, <3>3, <3>4 DEF Scalars
    <2>4. faults' \in 0 .. MaxFaults
        BY <1>0, <1>f, <1>12 DEF CommitFlush, Scalars
    <2>5. uncached' \in BOOLEAN
      <3>1. \E buffer : uncached' = uncached
                           \/ uncached' = (uncached \/ buffer \notin devClient)
          BY <1>12, Zenon DEF CommitFlush
      <3>2. uncached \in BOOLEAN
          BY <1>0 DEF Scalars
      <3> QED
          BY <3>1, <3>2, Zenon
    <2>6. pc' \in PCs /\ (flushed' = TRUE \/ flushed' = flushed)
        BY <1>12 DEF CommitFlush, Fail
    <2>7. UNCHANGED <<Rest, needFlushFb, onScreen>>
        BY <1>12 DEF CommitFlush
    <2> QED
        BY <1>0, <2>2, <2>3, <2>4, <2>5, <2>6, <2>7 DEF Scalars, Rest
  <1>13. CASE DeviceCommits \/ GetLayersReleaseFence
    <2>1. /\ pc \in Committing /\ pc' \in PCs
          /\ onScreen' \in {onScreen, currentFb, NoBuffer}
          /\ faults' = faults \/ Fault
          /\ lost' = lost \/ LoseFlush
          /\ UNCHANGED <<Rest, Layers, needFlushFb, currentFb, flushed>>
        BY <1>13 DEF DeviceCommits, GetLayersReleaseFence, Fail, Committing
    <2>2. lost' \in 0 .. BufferCount
        BY <1>0, <2>1, LostIsBounded DEF LoseFlush, Scalars
    <2>3. faults' \in 0 .. MaxFaults
        BY <1>0, <1>f, <2>1 DEF Scalars
    <2> QED
        BY <1>0, <2>1, <2>2, <2>3 DEF Scalars, Rest, Layers
  <1> QED
      BY <1>1, <1>2, <1>3, <1>4, <1>5, <1>6, <1>7, <1>8, <1>9, <1>10, <1>11, <1>12, <1>13
         DEF Next, TestStep, PrepareStep, CommitStep, Visiting

LEMMA StepVisit == Inv /\ [Next]_vars => VisitInv'
  <1> SUFFICES ASSUME Inv, [Next]_vars PROVE VisitInv'
      OBVIOUS
  <1>0. VisitInv
      BY DEF Inv
  <1> USE DEF VisitInv
  <1>1. CASE Between \/ UNCHANGED vars
      BY <1>0, <1>1, BetweenKeeps DEF vars
  <1>2. CASE UseNullLayer
      BY <1>0, <1>2 DEF UseNullLayer, Call
  <1>3. ASSUME NEW present \in BOOLEAN, PrepareAndCommit(present) PROVE VisitInv'
      BY <1>3 DEF PrepareAndCommit
  <1>4. CASE Visiting
      BY <1>4 DEF Visiting, PreparePresent, PreparePresentRefused, PreparePresentLosesBuffer,
         PreparePresentFailsLast, Fail
  <1>5. CASE DevicePrepares \/ RefreshLayersCompType
      BY <1>0, <1>5 DEF DevicePrepares, RefreshLayersCompType, LookUpReported, Fail, Rest
  <1>6. CASE CommitWithoutFlush \/ CommitWithoutClient \/ CommitWithoutFront \/ CommitFlush
      BY <1>0, <1>6 DEF CommitWithoutFlush, CommitWithoutClient, CommitWithoutFront,
         CommitFlush, Fail
  <1>7. CASE DeviceCommits \/ GetLayersReleaseFence \/ CommitSwapsBack
                \/ CheckSnapShot \/ ReturnFailure
      BY <1>0, <1>7 DEF DeviceCommits, GetLayersReleaseFence, CommitSwapsBack, CheckSnapShot,
         ReturnFailure, Fail
  <1> QED
      BY <1>1, <1>2, <1>3, <1>4, <1>5, <1>6, <1>7
         DEF Next, TestStep, PrepareStep, CommitStep, Between, Visiting

LEMMA StepMaps == Inv /\ [Next]_vars => Maps'
  <1> SUFFICES ASSUME Inv, [Next]_vars PROVE Maps'
      OBVIOUS
  <1>0. BufferInv /\ Maps /\ originSeq \in 0 .. MaxSeq
      BY TypesSplit DEF Inv, Scalars
  <1>1. CASE UNCHANGED vars
      BY <1>0, <1>1 DEF vars, Maps
  <1>2. ASSUME NEW id \in LayerIds, CreateTestLayer(id) PROVE Maps'
      BY <1>0, <1>2 DEF CreateTestLayer, DeviceCreates, Emplace, Maps, Call, Display
  <1>3. ASSUME NEW id \in LayerIds, NEW k \in 1 .. BufferCount, LayerInitFails(id, k)
        PROVE  Maps'
      BY <1>0, <1>3 DEF LayerInitFails, DeviceCreates, Maps, Call, Display
  <1>4. ASSUME NEW id \in LayerIds, DestroyLayer(id) PROVE Maps'
      BY <1>0, <1>4 DEF DestroyLayer, Maps, Call, Display
  <1>5. CASE Clear
    <2>1. todo = {}
        BY <1>5 DEF Clear, Inv, VisitInv
    <2> QED
        BY <1>0, <1>5, <2>1 DEF Clear, Maps, Call, Display
  <1>6. CASE CreateLayerFails \/ UseNullLayer \/ ResetClientLayer \/ ClearClientBuffer
      BY <1>0, <1>6 DEF CreateLayerFails, UseNullLayer, ResetClientLayer, ClearClientBuffer,
         Maps, Call, Display
  <1>7. ASSUME NEW present \in BOOLEAN, PrepareAndCommit(present) PROVE Maps'
      BY <1>0, <1>7 DEF PrepareAndCommit, Maps
  <1>8. ASSUME NEW id \in LayerIds, PreparePresent(id) \/ PreparePresentRefused(id)
               \/ PreparePresentLosesBuffer(id) \/ PreparePresentFailsLast(id)
        PROVE  Maps'
    <2>1. /\ DOMAIN layerMaps' = DOMAIN layerMaps /\ id \in DOMAIN layerMaps
          /\ todo' \subseteq todo /\ devClient' = devClient
        BY <1>0, <1>8 DEF PreparePresent, PreparePresentRefused, PreparePresentLosesBuffer,
           PreparePresentFailsLast, SetLayerBuffer, Fail, Display, Maps
    <2>2. Shown(id).cur \in Buffers
        BY <1>0, <2>1, Acquire, HeldAreBuffers DEF BufferInv, Shown
    <2>3. /\ DOMAIN devLayers' = DOMAIN devLayers
          /\ \A i \in DOMAIN devLayers :
                devLayers'[i] \in {devLayers[i], devLayers[i] \cup {Shown(id).cur}}
        BY <1>8 DEF PreparePresent, PreparePresentRefused, PreparePresentLosesBuffer,
           PreparePresentFailsLast, SetLayerBuffer
    <2> QED
        BY <1>0, <2>1, <2>2, <2>3 DEF Maps
  <1>9. CASE DevicePrepares \/ RefreshLayersCompType
      BY <1>0, <1>9 DEF DevicePrepares, RefreshLayersCompType, LookUpReported, Fail, Maps,
         Layers, Display
  <1>10. CASE CommitWithoutFlush \/ CommitWithoutClient \/ CommitWithoutFront
                \/ CommitSwapsBack \/ CheckSnapShot \/ ReturnFailure
      BY <1>0, <1>10 DEF CommitWithoutFlush, CommitWithoutClient, CommitWithoutFront,
         CommitSwapsBack, CheckSnapShot, ReturnFailure, Fail, Maps, Layers, Display
  <1>11. CASE DeviceCommits \/ GetLayersReleaseFence
      BY <1>0, <1>11 DEF DeviceCommits, GetLayersReleaseFence, Fail, Maps, Layers
  <1>12. CASE CommitFlush
    <2>1. PICK layer \in client :
              LET swapped == SwapFrontToBackQ(layer) IN
              /\ client' = {swapped} /\ currentFb' = Oldest(swapped)
              /\ Oldest(swapped) \in Buffers
              /\ GetBackBuffer(swapped) = Oldest(swapped)
        BY <1>0, <1>12, CommitFlushKeeps
    <2>2. \A l : currentFb' = GetBackBuffer(l) => GetBackBuffer(l) \in Buffers
        BY <2>1
    <2>3. devClient' \subseteq devClient \cup {currentFb'}
        BY <1>12 DEF CommitFlush
    <2>4. devClient' \subseteq Buffers
        BY <1>0, <2>1, <2>3 DEF Maps
    <2>5. /\ UNCHANGED <<layerMaps, devLayers>> /\ todo' \subseteq todo
        BY <1>12 DEF CommitFlush, Fail
    <2> QED
        BY <1>0, <2>4, <2>5 DEF Maps
  <1> QED
      BY <1>1, <1>2, <1>3, <1>4, <1>5, <1>6, <1>7, <1>8, <1>9, <1>10, <1>11, <1>12
         DEF Next, TestStep, PrepareStep, CommitStep
-----------------------------------------------------------------------------
(* The theorems.                                                           *)

LEMMA InitHolds == Init => Inv
  <1> SUFFICES ASSUME Init PROVE Inv
      OBVIOUS
  <1> DEFINE fresh == NewLayer(0, BufferCount)
  <1>0. /\ BufferCount \in Nat \ {0} /\ MaxSeq \in Nat /\ BufferCount <= MaxSeq
        /\ MaxFaults \in Nat
      BY DisplayAssumption
  <1>1. /\ Well(fresh) /\ fresh.back = <<>> /\ fresh.cur = NoBuffer
        /\ Held(fresh) = 0 .. (BufferCount - 1)
    <2> HIDE DEF fresh
    <2>1. fresh = NewLayer(0, BufferCount) /\ 0 + BufferCount <= MaxSeq
        BY <1>0 DEF fresh
    <2>2. Held(fresh) = 0 .. ((0 + BufferCount) - 1)
        BY <2>1, Fresh
    <2> QED
        BY <1>0, <2>1, <2>2, Fresh
  <1>2. /\ setting \in Settings /\ pc = "idle" /\ checking = FALSE /\ todo = {}
        /\ layerMaps = <<>> /\ client = {fresh} /\ needFlushFb = FALSE
        /\ currentFb = NoBuffer /\ cacheValid = {} /\ originSeq = BufferCount
        /\ nullLayer = FALSE /\ devLayers = <<>> /\ devClient = {} /\ uncached = FALSE
        /\ faults = 0 /\ flushed = FALSE /\ lost = 0 /\ onScreen = NoBuffer
      BY DEF Init
  <1>3. DOMAIN layerMaps = {} /\ DOMAIN devLayers = {}
      BY <1>2
  <1> HIDE DEF fresh
  <1>4. BufferInv
      BY <1>1, <1>2, <1>3 DEF BufferInv
  <1>5. Len(fresh.back) = 0
      BY <1>1
  <1>6. FlushInv
      BY <1>2, <1>5 DEF FlushInv, BacklogIsLostFlushes, Committing
  <1>7. ScreenInv
      BY <1>2 DEF ScreenInv, Committing
  <1>8. DeviceInv
      BY <1>2, <1>3 DEF DeviceInv
  <1>9. CalmInv /\ VisitInv
      BY <1>2, <1>3 DEF CalmInv, VisitInv
  <1>10. Scalars
    <2>1. originSeq \in 0 .. MaxSeq /\ faults \in 0 .. MaxFaults /\ lost \in 0 .. BufferCount
        BY <1>0, <1>2
    <2> QED
        BY <1>2, <2>1, Zenon DEF Scalars, PCs
  <1>11. Maps
      BY <1>2, <1>3, Zenon DEF Maps
  <1> QED
      BY <1>4, <1>6, <1>7, <1>8, <1>9, <1>10, <1>11, TypesSplit DEF Inv

LEMMA InvStep == Inv /\ [Next]_vars => Inv'
  <1>1. ASSUME BufferInv', Scalars', Maps' PROVE TypeOK'
    <2>1. (BufferInv => (TypeOK <=> Scalars /\ Maps))'
        BY TypesSplit, PTL
    <2> QED
        BY <1>1, <2>1
  <1> QED
      BY <1>1, StepBuffers, StepFlush, StepScreen, StepDevice, StepCalm, StepVisit,
         StepScalars, StepMaps DEF Inv

LEMMA AlwaysInv == Spec => []Inv
  BY InitHolds, InvStep, PTL DEF Spec

\* HdiTestDisplay's types hold whatever calls the device and the allocator
\* refuse; in particular no more than BufferCount flushes can get lost.
THEOREM TypeCorrect == Spec => []TypeOK
  <1>1. Inv => TypeOK
      BY DEF Inv
  <1> QED
      BY <1>1, AlwaysInv, PTL

\* However presents fail, every layer keeps its BufferCount buffers, each in
\* one place, and no buffer is in two layers (SwapFrontToBackQ,
\* SwapBackToFrontQ, AcquireBackBuffer and the returns between them).
THEOREM LayersKeepTheirBuffers == Spec => []BuffersConserved
  <1>1. Inv => BuffersConserved
    <2> SUFFICES ASSUME Inv PROVE BuffersConserved
        OBVIOUS
    <2>1. /\ \A layer \in client : Well(layer)
          /\ \A id \in DOMAIN layerMaps : Well(layerMaps[id])
        BY DEF Inv, BufferInv
    <2>2. \A layer \in client \cup Range(layerMaps) : Well(layer)
        BY <2>1 DEF Range
    <2>3. \A layer \in client \cup Range(layerMaps) :
             Places(layer) = BufferCount /\ Cardinality(Held(layer)) = BufferCount
        BY <2>2, WellCounts DEF Well
    <2> QED
        BY <2>3 DEF Inv, BufferInv, BuffersConserved
  <1> QED
      BY <1>1, AlwaysInv, PTL

\* The client layer's back queue holds exactly the buffers that failed commits
\* left there, plus the one Commit is about to give back: the display runs out
\* of front buffers after BufferCount such failures and not before.
THEOREM BacklogIsExact == Spec => []BacklogIsLostFlushes
  <1>1. Inv => BacklogIsLostFlushes
      BY DEF Inv, FlushInv
  <1> QED
      BY <1>1, AlwaysInv, PTL

\* As long as GetDisplayReleaseFence answers, the client buffer Commit clears is
\* never the one the device scans out, whatever backlog failed commits left; it
\* takes a layer of at least two buffers.
THEOREM ScreenIsNotCleared ==
    ASSUME BufferCount > 1
    PROVE  Spec => []NeverClearsOnScreen
  <1>1. Inv => NeverClearsOnScreen
    <2> SUFFICES ASSUME Inv, ~setting.fences, pc = "commit", flushed
                 PROVE  currentFb # onScreen
        BY DEF NeverClearsOnScreen
    <2>1. PICK layer \in client : TRUE
        BY DEF Inv, FlushInv, Committing
    <2>2. /\ Well(layer) /\ layer.cur = NoBuffer
          /\ currentFb = Oldest(layer) /\ layer.back # <<>>
          /\ onScreen # NoBuffer => onScreen = Newest(layer)
        BY DEF Inv, BufferInv, ScreenInv, Committing
    <2>3. currentFb \in Buffers
        BY <2>2, OldestIsHeld
    <2>4. currentFb # NoBuffer
        BY <2>3, NoBufferApart
    <2> QED
        BY <2>2, <2>4, EndsDiffer
  <1> QED
      BY <1>1, AlwaysInv, PTL

\* The device is never asked to reuse a buffer it has no handle of, unless a
\* test made it forget (SetGraphicBuffer sends the handle only while
\* cacheValid_ is false, and no failure on the way leaves it true too early).
THEOREM HandlesAreKnown == Spec => []NullHandleIsKnown
  <1>1. Inv => NullHandleIsKnown
      BY DEF Inv, DeviceInv, NullHandleIsKnown
  <1> QED
      BY <1>1, AlwaysInv, PTL

\* While no call fails and tests keep to the display's own calls, no sequence
\* of creating layers, presenting and clearing makes PresentAndCheck fail or
\* the process dereference a null layer.
THEOREM PresentsSucceed == Spec => []PresentSucceeds
  <1>1. Inv => PresentSucceeds
      BY DEF Inv, CalmInv, PresentSucceeds
  <1> QED
      BY <1>1, AlwaysInv, PTL
=============================================================================
