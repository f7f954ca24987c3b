-------------------------- MODULE BufferLoopProofs --------------------------
(***************************************************************************)
(* What holds of BufferLoop for any number of buffers, any cache and any   *)
(* number of failing calls.                                                *)
(*                                                                         *)
(* OneHolder speaks of one long sequence.  The proof gives every buffer a  *)
(* home instead, one of the places a buffer can be in: HomeInv says that   *)
(* the places hold what their homes say, so that each step of a thread     *)
(* moves one buffer from one place to another, and UniqueInv that no list  *)
(* has a buffer twice.  PlaceInv says when a thread has a buffer in its    *)
(* hands, StartInv that nothing moves during the start but the buffers it  *)
(* starts, and BusyInv what the pool has lent.                             *)
(*                                                                         *)
(* The last two sections prove what LoopTurns and TestEnds need besides a  *)
(* scheduler.  CacheInv and KnownInv: whatever comes out of the pipeline   *)
(* comes from behind a full cache, of buffers that all go round.  StopInv  *)
(* and Left: which flags are down at each join, and how far a stopped      *)
(* thread is from its end.                                                 *)
(***************************************************************************)
EXTENDS BufferLoop, FiniteSetTheorems, SequenceTheorems, TLAPS

Places == {"free", "lost", "requested", "idle", "cache", "frame", "list",
           "collected", "flushed", "acquired"}

Held(p) ==
  CASE p = "free"      -> free
    [] p = "lost"      -> lost
    [] p = "requested" -> ToSet(requested)
    [] p = "idle"      -> ToSet(idle)
    [] p = "cache"     -> ToSet(cache)
    [] p = "frame"     -> ToSet(frame)
    [] p = "list"      -> ToSet(deviceBufferList)
    [] p = "collected" -> ToSet(collected)
    [] p = "flushed"   -> ToSet(flushed)
    [] p = "acquired"  -> ToSet(acquired)

Fits(home) == \A p \in Places, b \in Buffers : b \in Held(p) <=> home[b] = p

HomeInv == \E home \in [Buffers -> Places] : Fits(home)

UniqueInv ==
  /\ IsInjective(idle) /\ IsInjective(cache)
  /\ IsInjective(deviceBufferList) /\ IsInjective(flushed)

Hand == {<<>>} \cup {<<b>> : b \in Buffers}

PlaceInv ==
  /\ requested = <<>> <=> pc["enqueue"] # "add"
  /\ collected = <<>> <=> pc["collect"] # "append"
  /\ frame = <<>> <=> pc["deliver"] \notin {"source", "sink", "flush"}
  /\ acquired = <<>> <=> pc["consume"] # "release"

StartInv == pc["test"] = "start" =>
  /\ pc["enqueue"] = "none" /\ pc["collect"] = "none" /\ pc["deliver"] = "none"
  /\ producer => \A b \in Buffers : b > started => b \in free

InLine == pc["deliver"] \in {"source", "sink"}

BusyInv == busy = ToSet(cache) \cup ToSet(deviceBufferList) \cup ToSet(collected)
                    \cup (IF InLine THEN ToSet(frame) ELSE {})
-----------------------------------------------------------------------------
(* Sequences and the sets of their elements.                               *)

LEMMA SeqSet ==
  ASSUME NEW S, NEW s \in Seq(S)
  PROVE  /\ ToSet(s) \subseteq S
         /\ \A x : x \in ToSet(s) <=> \E i \in 1 .. Len(s) : s[i] = x
         /\ IsInjective(s) <=> \A i, j \in 1 .. Len(s) : s[i] = s[j] => i = j
  BY LenProperties DEF ToSet, IsInjective

LEMMA EmptyAndOne ==
  ASSUME NEW S, NEW b \in S
  PROVE  /\ <<>> \in Seq(S) /\ ToSet(<<>>) = {} /\ IsInjective(<<>>)
         /\ <<b>> \in Seq(S) /\ ToSet(<<b>>) = {b} /\ IsInjective(<<b>>)
         /\ <<b>> # <<>> /\ <<b>>[1] = b
  BY DEF ToSet, IsInjective

LEMMA ConcatSet ==
  ASSUME NEW S, NEW s \in Seq(S), NEW t \in Seq(S)
  PROVE  /\ s \o t \in Seq(S)
         /\ ToSet(s \o t) = ToSet(s) \cup ToSet(t)
<1>1. /\ s \o t \in Seq(S) /\ Len(s \o t) = Len(s) + Len(t)
      /\ Len(s) \in Nat /\ Len(t) \in Nat
      /\ \A i \in 1 .. Len(s) + Len(t) :
           (s \o t)[i] = IF i <= Len(s) THEN s[i] ELSE t[i - Len(s)]
  BY ConcatProperties, LenProperties
<1>2. ASSUME NEW x \in ToSet(s \o t) PROVE x \in ToSet(s) \cup ToSet(t)
  <2>0. \E i \in 1 .. Len(s \o t) : (s \o t)[i] = x
    BY <1>1, <1>2, SeqSet
  <2>1. PICK i \in 1 .. Len(s) + Len(t) : (s \o t)[i] = x
    BY <1>1, <2>0
  <2>2. CASE i <= Len(s)
    BY <1>1, <2>1, <2>2, SeqSet
  <2>3. CASE i > Len(s)
    <3>1. i - Len(s) \in 1 .. Len(t) /\ t[i - Len(s)] = x
      BY <1>1, <2>1, <2>3
    <3> QED
      BY <3>1, SeqSet
  <2> QED
    BY <1>1, <2>2, <2>3
<1>3. ASSUME NEW x \in ToSet(s) PROVE x \in ToSet(s \o t)
  <2>1. PICK i \in 1 .. Len(s) : s[i] = x
    BY <1>3, SeqSet
  <2>2. i \in 1 .. Len(s \o t) /\ (s \o t)[i] = x
    BY <1>1, <2>1
  <2> QED
    BY <1>1, <2>2, SeqSet
<1>4. ASSUME NEW x \in ToSet(t) PROVE x \in ToSet(s \o t)
  <2>1. PICK i \in 1 .. Len(t) : t[i] = x
    BY <1>4, SeqSet
  <2>2. i + Len(s) \in 1 .. Len(s \o t) /\ (s \o t)[i + Len(s)] = x
    BY <1>1, <2>1
  <2> QED
    BY <1>1, <2>2, SeqSet
<1> QED
  BY <1>1, <1>2, <1>3, <1>4

LEMMA ConcatInjective ==
  ASSUME NEW S, NEW s \in Seq(S), NEW t \in Seq(S),
         IsInjective(s), IsInjective(t), ToSet(s) \cap ToSet(t) = {}
  PROVE  IsInjective(s \o t)
<1>1. /\ s \o t \in Seq(S) /\ Len(s \o t) = Len(s) + Len(t)
      /\ Len(s) \in Nat /\ Len(t) \in Nat
      /\ \A i \in 1 .. Len(s) + Len(t) :
           (s \o t)[i] = IF i <= Len(s) THEN s[i] ELSE t[i - Len(s)]
  BY ConcatProperties, LenProperties
<1>2. /\ \A i, j \in 1 .. Len(s) : s[i] = s[j] => i = j
      /\ \A i, j \in 1 .. Len(t) : t[i] = t[j] => i = j
      /\ \A i \in 1 .. Len(s), j \in 1 .. Len(t) : s[i] # t[j]
  BY SeqSet
<1>3. ASSUME NEW i \in 1 .. Len(s \o t), NEW j \in 1 .. Len(s \o t), (s \o t)[i] = (s \o t)[j]
      PROVE  i = j
  <2>1. CASE i <= Len(s) /\ j <= Len(s)
    BY <1>1, <1>2, <1>3, <2>1
  <2>2. CASE i > Len(s) /\ j > Len(s)
    <3>1. /\ i - Len(s) \in 1 .. Len(t) /\ j - Len(s) \in 1 .. Len(t)
          /\ t[i - Len(s)] = t[j - Len(s)]
      BY <1>1, <1>3, <2>2
    <3> QED
      BY <1>1, <1>2, <3>1
  <2>3. CASE i <= Len(s) /\ j > Len(s)
    <3>1. i \in 1 .. Len(s) /\ j - Len(s) \in 1 .. Len(t) /\ s[i] = t[j - Len(s)]
      BY <1>1, <1>3, <2>3
    <3> QED
      BY <1>2, <3>1
  <2>4. CASE i > Len(s) /\ j <= Len(s)
    <3>1. j \in 1 .. Len(s) /\ i - Len(s) \in 1 .. Len(t) /\ s[j] = t[i - Len(s)]
      BY <1>1, <1>3, <2>4
    <3> QED
      BY <1>2, <3>1
  <2> QED
    BY <1>1, <2>1, <2>2, <2>3, <2>4
<1> QED
  BY <1>1, <1>3, SeqSet

LEMMA AddLast ==
  ASSUME NEW S, NEW s \in Seq(S), NEW b \in S
  PROVE  /\ s \o <<b>> \in Seq(S)
         /\ ToSet(s \o <<b>>) = ToSet(s) \cup {b}
         /\ IsInjective(s) /\ b \notin ToSet(s) => IsInjective(s \o <<b>>)
<1>1. <<b>> \in Seq(S) /\ ToSet(<<b>>) = {b} /\ IsInjective(<<b>>)
  BY EmptyAndOne
<1>2. s \o <<b>> \in Seq(S) /\ ToSet(s \o <<b>>) = ToSet(s) \cup ToSet(<<b>>)
  BY <1>1, ConcatSet
<1>3. ASSUME IsInjective(s), b \notin ToSet(s) PROVE IsInjective(s \o <<b>>)
  <2>1. ToSet(s) \cap ToSet(<<b>>) = {}
    BY <1>1, <1>3
  <2> QED
    BY <1>1, <1>3, <2>1, ConcatInjective
<1> QED
  BY <1>1, <1>2, <1>3

LEMMA TakeFirst ==
  ASSUME NEW S, NEW s \in Seq(S), s # <<>>
  PROVE  /\ s[1] \in S /\ Tail(s) \in Seq(S)
         /\ ToSet(s) = {s[1]} \cup ToSet(Tail(s))
         /\ s = <<s[1]>> \o Tail(s)
         /\ IsInjective(s) => IsInjective(Tail(s)) /\ s[1] \notin ToSet(Tail(s))
<1>1. /\ Len(s) \in Nat \ {0} /\ Tail(s) \in Seq(S) /\ Len(Tail(s)) = Len(s) - 1
      /\ \A i \in 1 .. Len(Tail(s)) : Tail(s)[i] = s[i + 1]
  BY HeadTailProperties, EmptySeq
<1>2. s[1] \in S
  BY <1>1, ElementOfSeq
<1>3. s = <<s[1]>> \o Tail(s)
  BY <1>1, <1>2
<1>4. ToSet(s) = {s[1]} \cup ToSet(Tail(s))
  <2>1. <<s[1]>> \in Seq(S) /\ ToSet(<<s[1]>>) = {s[1]}
    BY <1>2, EmptyAndOne
  <2>2. ToSet(<<s[1]>> \o Tail(s)) = ToSet(<<s[1]>>) \cup ToSet(Tail(s))
    <3>1. PICK one \in Seq(S), rest \in Seq(S) : one = <<s[1]>> /\ rest = Tail(s)
      BY <1>1, <2>1
    <3>2. ToSet(one \o rest) = ToSet(one) \cup ToSet(rest)
      BY ConcatSet
    <3> QED
      BY <3>1, <3>2
  <2> QED
    BY <1>3, <2>1, <2>2
<1>5. ASSUME IsInjective(s) PROVE IsInjective(Tail(s)) /\ s[1] \notin ToSet(Tail(s))
  <2>1. \A i, j \in 1 .. Len(s) : s[i] = s[j] => i = j
    BY <1>5, SeqSet
  <2>2. \A i, j \in 1 .. Len(Tail(s)) : Tail(s)[i] = Tail(s)[j] => i = j
    BY <1>1, <2>1
  <2>3. \A i \in 1 .. Len(Tail(s)) : Tail(s)[i] # s[1]
    BY <1>1, <2>1
  <2>4. IsInjective(Tail(s))
    BY <1>1, <2>2, SeqSet
  <2>5. s[1] \notin ToSet(Tail(s))
    <3>1. \A x : x \in ToSet(Tail(s)) <=> \E i \in 1 .. Len(Tail(s)) : Tail(s)[i] = x
      BY <1>1, SeqSet
    <3> QED
      BY <2>3, <3>1
  <2> QED
    BY <2>4, <2>5
<1> QED
  BY <1>1, <1>2, <1>3, <1>4, <1>5
-----------------------------------------------------------------------------
(* Buffers that change their home.                                         *)

LEMMA Apart ==
  ASSUME HomeInv, NEW p \in Places, NEW q \in Places, p # q,
         NEW b \in Buffers, b \in Held(p)
  PROVE  b \notin Held(q)
  BY DEF HomeInv, Fits

LEMMA NothingMoves ==
  ASSUME HomeInv, \A r \in Places : Held(r)' = Held(r)
  PROVE  HomeInv'
<1>1. PICK home \in [Buffers -> Places] : Fits(home)
  BY DEF HomeInv
<1>2. Fits(home)'
  BY <1>1 DEF Fits, Buffers
<1> QED
  BY <1>2 DEF HomeInv, Buffers

LEMMA OneMoves ==
  ASSUME HomeInv, NEW b \in Buffers,
         NEW p \in Places, NEW q \in Places, p # q, b \in Held(p),
         \A r \in Places : Held(r)' = IF r = p THEN Held(p) \ {b}
                                      ELSE IF r = q THEN Held(q) \cup {b}
                                      ELSE Held(r)
  PROVE  HomeInv'
<1>1. PICK home \in [Buffers -> Places] : Fits(home)
  BY DEF HomeInv
<1> DEFINE moved == [home EXCEPT ![b] = q]
<1>2. moved \in [Buffers -> Places]
  BY <1>1
<1>3. \A c \in Buffers : moved[c] = IF c = b THEN q ELSE home[c]
  BY <1>1
<1>4. home[b] = p
  BY <1>1 DEF Fits
<1> HIDE DEF moved
<1>5. ASSUME NEW r \in Places, NEW c \in Buffers
      PROVE  c \in Held(r)' <=> moved[c] = r
  BY <1>1, <1>3, <1>4, <1>5 DEF Fits
<1>6. Fits(moved)'
  BY <1>5 DEF Fits, Buffers
<1> QED
  BY <1>2, <1>6 DEF HomeInv, Buffers

LEMMA TwoSwap ==
  ASSUME HomeInv, NEW b \in Buffers, NEW c \in Buffers,
         NEW p \in Places, NEW q \in Places, p # q, b \in Held(p), c \in Held(q),
         \A r \in Places : Held(r)' = IF r = p THEN (Held(p) \ {b}) \cup {c}
                                      ELSE IF r = q THEN (Held(q) \ {c}) \cup {b}
                                      ELSE Held(r)
  PROVE  HomeInv'
<1>1. PICK home \in [Buffers -> Places] : Fits(home)
  BY DEF HomeInv
<1> DEFINE moved == [home EXCEPT ![b] = q, ![c] = p]
<1>4. home[b] = p /\ home[c] = q /\ b # c
  BY <1>1 DEF Fits
<1>2. moved \in [Buffers -> Places]
  BY <1>1
<1>3. \A d \in Buffers : moved[d] = IF d = c THEN p ELSE IF d = b THEN q ELSE home[d]
  BY <1>1, <1>4
<1> HIDE DEF moved
<1>5. ASSUME NEW r \in Places, NEW d \in Buffers
      PROVE  d \in Held(r)' <=> moved[d] = r
  BY <1>1, <1>3, <1>4, <1>5 DEF Fits
<1>6. Fits(moved)'
  BY <1>5 DEF Fits, Buffers
<1> QED
  BY <1>2, <1>6 DEF HomeInv, Buffers
-----------------------------------------------------------------------------
(* One lemma per action, or per group of actions that move no buffer.      *)

Inv == TypeOK /\ PlaceInv /\ StartInv /\ UniqueInv /\ HomeInv /\ BusyInv

LEMMA Typed ==
  ASSUME TypeOK
  PROVE  /\ free \subseteq Buffers /\ lost \subseteq Buffers /\ busy \subseteq Buffers
         /\ bufferVec \subseteq Buffers
         /\ flushed \in Seq(Buffers) /\ idle \in Seq(Buffers)
         /\ deviceBufferList \in Seq(Buffers) /\ cache \in Seq(Buffers)
         /\ requested \in Hand /\ acquired \in Hand /\ collected \in Hand /\ frame \in Hand
         /\ pc \in [Threads -> TestPCs \cup ThreadPCs]
  BY DEF TypeOK, Hand

LEMMA HandTyped ==
  ASSUME NEW h \in Hand, h # <<>>
  PROVE  /\ h[1] \in Buffers /\ h = <<h[1]>> /\ ToSet(h) = {h[1]}
         /\ h \in Seq(Buffers)
<1>1. PICK b \in Buffers : h = <<b>>
  BY DEF Hand
<1>2. <<b>> \in Seq(Buffers) /\ ToSet(<<b>>) = {b} /\ <<b>>[1] = b
  BY EmptyAndOne
<1> QED
  BY <1>1, <1>2

LEMMA NoBuffer == ToSet(<<>>) = {} /\ <<>> \in Hand
<1>1. ToSet(<<>>) = {}
  BY DEF ToSet
<1> QED
  BY <1>1 DEF Hand

LEMMA OneBuffer ==
  ASSUME NEW b \in Buffers
  PROVE  <<b>> \in Hand /\ <<b>> # <<>> /\ ToSet(<<b>>) = {b} /\ <<b>>[1] = b
  BY EmptyAndOne DEF Hand

QuietStep ==
  \/ Loop("enqueue", testRunning, "request") \/ Loop("collect", running, "acquire")
  \/ Loop("deliver", running, "load") \/ Loop("consume", testRunning, "take")
  \/ AcquireTimeout \/ StartThreads \/ StopTest \/ Join

NoMove == UNCHANGED <<surface, pool, nodes, stream, hands, deviceBufferList>>

Carrying == {"source", "sink", "flush"}

LEMMA QuietHolds ==
  ASSUME Inv, NoMove, StartInv',
         pc' \in [Threads -> TestPCs \cup ThreadPCs],
         testRunning' \in BOOLEAN /\ running' \in BOOLEAN,
         pc'["enqueue"] = "add" <=> pc["enqueue"] = "add",
         pc'["collect"] = "append" <=> pc["collect"] = "append",
         pc'["consume"] = "release" <=> pc["consume"] = "release",
         \/ pc'["deliver"] = pc["deliver"]
         \/ pc'["deliver"] \notin Carrying /\ pc["deliver"] \notin Carrying
  PROVE  Inv'
<1>1. /\ UNCHANGED <<producer, free, flushed, lost, faults, idle, busy, cache, cacheSize>>
      /\ UNCHANGED <<bufferVec, started, requested, acquired, collected, frame>>
      /\ UNCHANGED deviceBufferList
  BY DEF NoMove, surface, pool, nodes, stream, hands
<1>t. TypeOK'
  BY <1>1 DEF Inv, TypeOK, Buffers
<1>p. PlaceInv'
  BY <1>1 DEF Inv, PlaceInv, Carrying
<1>u. UniqueInv'
  BY <1>1 DEF Inv, UniqueInv
<1>h. HomeInv'
  BY <1>1, NothingMoves DEF Inv, Held, Places
<1>b. BusyInv'
  BY <1>1 DEF Inv, BusyInv, InLine, Carrying
<1> QED
  BY <1>t, <1>p, <1>u, <1>h, <1>b DEF Inv

LEMMA QuietStepHolds == ASSUME Inv, QuietStep PROVE Inv'
<1>w. /\ pc \in [Threads -> TestPCs \cup ThreadPCs]
      /\ testRunning \in BOOLEAN /\ running \in BOOLEAN
      /\ StartInv
  BY DEF Inv, TypeOK
<1>1. CASE Loop("enqueue", testRunning, "request")
  <2>1. NoMove /\ UNCHANGED switches /\ pc["enqueue"] = "loop"
        /\ pc' = [pc EXCEPT !["enqueue"] = IF testRunning THEN "request" ELSE "ended"]
    BY <1>1 DEF Loop, NoMove, Goto
  <2>2. StartInv'
    BY <1>w, <2>1 DEF StartInv, Threads
  <2> QED
    BY <1>w, <2>1, <2>2, QuietHolds DEF switches, Threads, ThreadPCs
<1>2. CASE Loop("collect", running, "acquire")
  <2>1. NoMove /\ UNCHANGED switches /\ pc["collect"] = "loop"
        /\ pc' = [pc EXCEPT !["collect"] = IF running THEN "acquire" ELSE "ended"]
    BY <1>2 DEF Loop, NoMove, Goto
  <2>2. StartInv'
    BY <1>w, <2>1 DEF StartInv, Threads
  <2> QED
    BY <1>w, <2>1, <2>2, QuietHolds DEF switches, Threads, ThreadPCs
<1>3. CASE Loop("deliver", running, "load")
  <2>1. NoMove /\ UNCHANGED switches /\ pc["deliver"] = "loop"
        /\ pc' = [pc EXCEPT !["deliver"] = IF running THEN "load" ELSE "ended"]
    BY <1>3 DEF Loop, NoMove, Goto
  <2>2. StartInv'
    BY <1>w, <2>1 DEF StartInv, Threads
  <2>3. pc'["deliver"] \notin Carrying /\ pc["deliver"] \notin Carrying
    BY <1>w, <2>1 DEF Threads, Carrying
  <2> QED
    BY <1>w, <2>1, <2>2, <2>3, QuietHolds DEF switches, Threads, ThreadPCs
<1>4. CASE Loop("consume", testRunning, "take")
  <2>1. NoMove /\ UNCHANGED switches /\ pc["consume"] = "loop"
        /\ pc' = [pc EXCEPT !["consume"] = IF testRunning THEN "take" ELSE "ended"]
    BY <1>4 DEF Loop, NoMove, Goto
  <2>2. StartInv'
    BY <1>w, <2>1 DEF StartInv, Threads, NoMove, surface, stream, Buffers
  <2> QED
    BY <1>w, <2>1, <2>2, QuietHolds DEF switches, Threads, ThreadPCs
<1>5. CASE AcquireTimeout
  <2>1. NoMove /\ UNCHANGED switches /\ pc["collect"] = "acquire"
        /\ pc' = [pc EXCEPT !["collect"] = "loop"]
    BY <1>5 DEF AcquireTimeout, NoMove, Goto
  <2>2. StartInv'
    BY <1>w, <2>1 DEF StartInv, Threads
  <2> QED
    BY <1>w, <2>1, <2>2, QuietHolds DEF switches, Threads, ThreadPCs
<1>6. CASE StartThreads
  <2>1. NoMove /\ UNCHANGED switches /\ pc["test"] = "start"
        /\ pc' = [pc EXCEPT !["test"] = "run", !["enqueue"] = "loop",
                            !["collect"] = "loop", !["deliver"] = "loop"]
    BY <1>6 DEF StartThreads, NoMove
  <2>2. pc["enqueue"] = "none" /\ pc["collect"] = "none" /\ pc["deliver"] = "none"
    BY <1>w, <2>1 DEF StartInv
  <2>3. StartInv'
    BY <1>w, <2>1 DEF StartInv, Threads
  <2>4. pc'["deliver"] \notin Carrying /\ pc["deliver"] \notin Carrying
    BY <1>w, <2>1, <2>2 DEF Threads, Carrying
  <2> QED
    BY <1>w, <2>1, <2>2, <2>3, <2>4, QuietHolds DEF switches, Threads, ThreadPCs, TestPCs
<1>7. CASE StopTest \/ Join
  <2>1. /\ NoMove /\ pc["test"] # "start"
        /\ testRunning' \in BOOLEAN /\ running' \in BOOLEAN
        /\ \E p \in TestPCs \ {"start"} : pc' = [pc EXCEPT !["test"] = p]
    BY <1>w, <1>7 DEF StopTest, Join, JoinEnqueue, JoinCollect, JoinDeliver, JoinConsume,
                      NoMove, Goto, switches, TestPCs
  <2>2. PICK p \in TestPCs \ {"start"} : pc' = [pc EXCEPT !["test"] = p]
    BY <2>1
  <2>3. StartInv'
    BY <1>w, <2>2 DEF StartInv, Threads
  <2> QED
    BY <1>w, <2>1, <2>2, <2>3, QuietHolds DEF Threads
<1> QED
  BY <1>1, <1>2, <1>3, <1>4, <1>5, <1>6, <1>7 DEF QuietStep

LEMMA RequestBufferStep == ASSUME Inv, RequestBuffer PROVE Inv'
<1>1. CASE free = {} /\ Goto("enqueue", "loop") /\ UNCHANGED <<free, requested>>
  <2>1. NoMove /\ UNCHANGED switches /\ pc["enqueue"] = "request"
        /\ pc' = [pc EXCEPT !["enqueue"] = "loop"]
    BY <1>1 DEF RequestBuffer, NoMove, Goto, surface, hands
  <2>2. pc \in [Threads -> TestPCs \cup ThreadPCs]
        /\ testRunning \in BOOLEAN /\ running \in BOOLEAN
    BY DEF Inv, TypeOK
  <2>3. StartInv'
    BY <2>1, <2>2 DEF Inv, StartInv, Threads
  <2> QED
    BY <2>1, <2>2, <2>3, QuietHolds DEF switches, Threads, ThreadPCs
<1>2. ASSUME NEW c \in free, requested' = <<c>>, free' = free \ {c}, Goto("enqueue", "add")
      PROVE Inv'
  <2>1. UNCHANGED <<flushed, lost, faults, pool, nodes, switches, stream,
                 acquired, collected, frame, deviceBufferList>>
    BY DEF RequestBuffer
  <2>2. pc["enqueue"] = "request" /\ c \in Buffers /\ requested = <<>>
    BY Typed DEF RequestBuffer, Inv, PlaceInv
  <2>3. requested' \in Hand /\ requested' # <<>> /\ ToSet(requested') = {c}
    BY <1>2, <2>2, OneBuffer
  <2>4. pc' = [pc EXCEPT !["enqueue"] = "add"]
    BY <1>2 DEF Goto
  <2>t. TypeOK'
    BY <1>2, <2>1, <2>3, <2>4 DEF Inv, TypeOK, pool, nodes, switches, stream, Hand, Threads, ThreadPCs, Buffers
  <2>p. PlaceInv'
    BY <2>1, <2>3, <2>4, Typed DEF Inv, PlaceInv, Threads
  <2>s. StartInv'
    BY <2>1, <2>2, <2>4, Typed DEF Inv, StartInv, Threads
  <2>u. UniqueInv'
    BY <2>1 DEF Inv, UniqueInv, pool, nodes
  <2>h. HomeInv'
    <3>1. \A r \in Places : Held(r)' = IF r = "free" THEN Held("free") \ {c}
                                      ELSE IF r = "requested" THEN Held("requested") \cup {c}
                                      ELSE Held(r)
      BY <1>2, <2>1, <2>2, <2>3, NoBuffer DEF Held, Places, pool, nodes
    <3>2. c \in Held("free")
      BY <1>2 DEF Held
    <3> QED
      BY <2>2, <3>1, <3>2, OneMoves DEF Inv, Places
  <2>b. BusyInv'
    BY <2>1, <2>4, Typed DEF Inv, BusyInv, InLine, pool, nodes, Threads
  <2> QED
    BY <2>t, <2>p, <2>s, <2>u, <2>h, <2>b DEF Inv
<1> QED
  BY <1>1, <1>2 DEF RequestBuffer

LEMMA AddBufferStep == ASSUME Inv, AddBuffer PROVE Inv'
<1> DEFINE b == requested[1]
<1>1. /\ UNCHANGED <<free, flushed, faults, busy, nodes, switches, stream,
                     acquired, collected, frame, deviceBufferList>>
      /\ pc["enqueue"] = "add" /\ pc' = [pc EXCEPT !["enqueue"] = "loop"]
      /\ requested' = <<>>
      /\ \/ idle' = idle \o requested /\ lost' = lost
         \/ idle' = idle /\ lost' = lost \cup {b}
  BY DEF AddBuffer, Goto
<1>2. /\ requested # <<>> /\ requested \in Hand
      /\ idle \in Seq(Buffers) /\ pc \in [Threads -> TestPCs \cup ThreadPCs]
  BY <1>1, Typed DEF Inv, PlaceInv
<1>3. b \in Buffers /\ requested = <<b>> /\ ToSet(requested) = {b}
  BY <1>2, HandTyped
<1>4. b \in Held("requested") /\ b \notin Held("idle")
  BY <1>3, Apart DEF Held, Inv, Places
<1>5. /\ idle \o <<b>> \in Seq(Buffers) /\ ToSet(idle \o <<b>>) = ToSet(idle) \cup {b}
      /\ IsInjective(idle \o <<b>>)
  BY <1>2, <1>3, <1>4, AddLast DEF Held, Inv, UniqueInv
<1>6. requested' \in Hand /\ ToSet(requested') = {}
  BY <1>1, NoBuffer
<1> HIDE DEF b
<1>t. TypeOK'
  BY <1>1, <1>2, <1>3, <1>5, <1>6
     DEF Inv, TypeOK, nodes, switches, stream, Hand, Threads, ThreadPCs, Buffers
<1>p. PlaceInv'
  BY <1>1, <1>2 DEF Inv, PlaceInv, Threads
<1>s. StartInv'
  BY <1>1, <1>2 DEF Inv, StartInv, Threads
<1>u. UniqueInv'
  BY <1>1, <1>3, <1>5 DEF Inv, UniqueInv, nodes
<1>h. HomeInv'
  <2>1. CASE idle' = idle \o requested /\ lost' = lost
    <3>1. \A r \in Places : Held(r)' = IF r = "requested" THEN Held("requested") \ {b}
                                      ELSE IF r = "idle" THEN Held("idle") \cup {b}
                                      ELSE Held(r)
      BY <1>1, <1>3, <1>5, <1>6, <2>1 DEF Held, Places, nodes
    <3> QED
      BY <1>3, <1>4, <3>1, OneMoves DEF Inv, Places
  <2>2. CASE idle' = idle /\ lost' = lost \cup {b}
    <3>1. \A r \in Places : Held(r)' = IF r = "requested" THEN Held("requested") \ {b}
                                      ELSE IF r = "lost" THEN Held("lost") \cup {b}
                                      ELSE Held(r)
      BY <1>1, <1>3, <1>6, <2>2 DEF Held, Places, nodes
    <3> QED
      BY <1>3, <1>4, <3>1, OneMoves DEF Inv, Places
  <2> QED
    BY <1>1, <2>1, <2>2
<1>b. BusyInv'
  BY <1>1, <1>2 DEF Inv, BusyInv, InLine, nodes, Threads
<1> QED
  BY <1>t, <1>p, <1>s, <1>u, <1>h, <1>b DEF Inv

LEMMA AcquireBufferStep == ASSUME Inv, AcquireBuffer PROVE Inv'
<1> DEFINE b == idle[1]
<1>1. /\ UNCHANGED <<surface, nodes, switches, stream, requested, acquired, frame,
                     deviceBufferList>>
      /\ pc["collect"] = "acquire" /\ pc' = [pc EXCEPT !["collect"] = "append"]
      /\ idle # <<>> /\ collected' = <<b>> /\ idle' = Tail(idle) /\ busy' = busy \cup {b}
  BY DEF AcquireBuffer, Goto
<1>2. /\ idle \in Seq(Buffers) /\ pc \in [Threads -> TestPCs \cup ThreadPCs]
      /\ collected = <<>>
  BY <1>1, Typed DEF Inv, PlaceInv
<1>3. /\ b \in Buffers /\ Tail(idle) \in Seq(Buffers)
      /\ ToSet(idle) = {b} \cup ToSet(Tail(idle))
      /\ IsInjective(Tail(idle)) /\ b \notin ToSet(Tail(idle))
  BY <1>1, <1>2, TakeFirst DEF Inv, UniqueInv
<1>4. b \in Held("idle") /\ ToSet(collected) = {}
  BY <1>2, <1>3, NoBuffer DEF Held
<1>5. collected' \in Hand /\ collected' # <<>> /\ ToSet(collected') = {b}
  BY <1>1, <1>3, OneBuffer
<1> HIDE DEF b
<1>t. TypeOK'
  BY <1>1, <1>2, <1>3, <1>5
     DEF Inv, TypeOK, surface, nodes, switches, stream, Hand, Threads, ThreadPCs, Buffers
<1>p. PlaceInv'
  BY <1>1, <1>2, <1>5 DEF Inv, PlaceInv, Threads
<1>s. StartInv'
  BY <1>1, <1>2 DEF Inv, StartInv, Threads
<1>u. UniqueInv'
  BY <1>1, <1>3 DEF Inv, UniqueInv, surface, nodes
<1>h. HomeInv'
  <2>1. \A r \in Places : Held(r)' = IF r = "idle" THEN Held("idle") \ {b}
                                    ELSE IF r = "collected" THEN Held("collected") \cup {b}
                                    ELSE Held(r)
    BY <1>1, <1>3, <1>4, <1>5 DEF Held, Places, surface, nodes
  <2> QED
    BY <1>3, <1>4, <2>1, OneMoves DEF Inv, Places
<1>b. BusyInv'
  BY <1>1, <1>2, <1>4, <1>5 DEF Inv, BusyInv, InLine, nodes, Threads
<1> QED
  BY <1>t, <1>p, <1>s, <1>u, <1>h, <1>b DEF Inv

LEMMA AppendBufferStep == ASSUME Inv, AppendBuffer PROVE Inv'
<1> DEFINE b == collected[1]
<1>1. /\ UNCHANGED <<surface, pool, nodes, switches, stream, requested, acquired, frame>>
      /\ pc["collect"] = "append" /\ pc' = [pc EXCEPT !["collect"] = "loop"]
      /\ deviceBufferList' = deviceBufferList \o collected /\ collected' = <<>>
  BY DEF AppendBuffer, Goto
<1>2. /\ collected # <<>> /\ collected \in Hand /\ deviceBufferList \in Seq(Buffers)
      /\ pc \in [Threads -> TestPCs \cup ThreadPCs]
  BY <1>1, Typed DEF Inv, PlaceInv
<1>3. b \in Buffers /\ collected = <<b>> /\ ToSet(collected) = {b}
  BY <1>2, HandTyped
<1>4. b \in Held("collected") /\ b \notin Held("list")
  BY <1>3, Apart DEF Held, Inv, Places
<1>5. /\ deviceBufferList \o <<b>> \in Seq(Buffers)
      /\ ToSet(deviceBufferList \o <<b>>) = ToSet(deviceBufferList) \cup {b}
      /\ IsInjective(deviceBufferList \o <<b>>)
  BY <1>2, <1>3, <1>4, AddLast DEF Held, Inv, UniqueInv
<1>6. collected' \in Hand /\ ToSet(collected') = {}
  BY <1>1, NoBuffer
<1> HIDE DEF b
<1>t. TypeOK'
  BY <1>1, <1>2, <1>3, <1>5, <1>6
     DEF Inv, TypeOK, surface, pool, nodes, switches, stream, Hand, Threads, ThreadPCs, Buffers
<1>p. PlaceInv'
  BY <1>1, <1>2 DEF Inv, PlaceInv, Threads
<1>s. StartInv'
  BY <1>1, <1>2 DEF Inv, StartInv, Threads
<1>u. UniqueInv'
  BY <1>1, <1>3, <1>5 DEF Inv, UniqueInv, surface, pool, nodes
<1>h. HomeInv'
  <2>1. \A r \in Places : Held(r)' = IF r = "collected" THEN Held("collected") \ {b}
                                    ELSE IF r = "list" THEN Held("list") \cup {b}
                                    ELSE Held(r)
    BY <1>1, <1>3, <1>5, <1>6 DEF Held, Places, surface, pool, nodes
  <2> QED
    BY <1>3, <1>4, <2>1, OneMoves DEF Inv, Places
<1>b. BusyInv'
  BY <1>1, <1>2, <1>3, <1>5, <1>6 DEF Inv, BusyInv, InLine, pool, nodes, Threads
<1> QED
  BY <1>t, <1>p, <1>s, <1>u, <1>h, <1>b DEF Inv

LEMMA LoadBufferStep == ASSUME Inv, LoadBuffer PROVE Inv'
<1> DEFINE b == deviceBufferList[1]
<1>0. /\ UNCHANGED <<surface, pool, nodes, switches, stream, requested, acquired, collected>>
      /\ pc["deliver"] = "load"
      /\ testRunning \in BOOLEAN /\ running \in BOOLEAN
      /\ deviceBufferList \in Seq(Buffers) /\ pc \in [Threads -> TestPCs \cup ThreadPCs]
  BY DEF LoadBuffer, Inv, TypeOK
<1>1. CASE deviceBufferList = <<>>
  <2>1. NoMove /\ UNCHANGED switches /\ pc' = [pc EXCEPT !["deliver"] = "loop"]
    BY <1>1 DEF LoadBuffer, NoMove, Goto, hands
  <2>2. StartInv'
    BY <1>0, <2>1 DEF Inv, StartInv, Threads
  <2>3. pc'["deliver"] \notin Carrying /\ pc["deliver"] \notin Carrying
    BY <1>0, <2>1 DEF Threads, Carrying
  <2> QED
    BY <1>0, <2>1, <2>2, <2>3, QuietHolds DEF switches, Threads, ThreadPCs
<1>2. CASE deviceBufferList # <<>>
  <2>1. /\ pc' = [pc EXCEPT !["deliver"] = "source"]
        /\ frame' = <<b>> /\ deviceBufferList' = Tail(deviceBufferList)
    BY <1>2 DEF LoadBuffer, Goto
  <2>2. frame = <<>>
    BY <1>0 DEF Inv, PlaceInv
  <2>3. /\ b \in Buffers /\ Tail(deviceBufferList) \in Seq(Buffers)
        /\ ToSet(deviceBufferList) = {b} \cup ToSet(Tail(deviceBufferList))
        /\ IsInjective(Tail(deviceBufferList)) /\ b \notin ToSet(Tail(deviceBufferList))
    BY <1>0, <1>2, TakeFirst DEF Inv, UniqueInv
  <2>4. b \in Held("list") /\ ToSet(frame) = {}
    BY <2>2, <2>3, NoBuffer DEF Held
  <2>5. frame' \in Hand /\ frame' # <<>> /\ ToSet(frame') = {b}
    BY <2>1, <2>3, OneBuffer
  <2> HIDE DEF b
  <2>t. TypeOK'
    BY <1>0, <2>1, <2>3, <2>5
       DEF Inv, TypeOK, surface, pool, nodes, switches, stream, Hand, Threads, ThreadPCs, Buffers
  <2>p. PlaceInv'
    BY <1>0, <2>1, <2>5 DEF Inv, PlaceInv, Threads
  <2>s. StartInv'
    BY <1>0, <2>1 DEF Inv, StartInv, Threads
  <2>u. UniqueInv'
    BY <1>0, <2>1, <2>3 DEF Inv, UniqueInv, surface, pool, nodes
  <2>h. HomeInv'
    <3>1. \A r \in Places : Held(r)' = IF r = "list" THEN Held("list") \ {b}
                                      ELSE IF r = "frame" THEN Held("frame") \cup {b}
                                      ELSE Held(r)
      BY <1>0, <2>1, <2>3, <2>4, <2>5 DEF Held, Places, surface, pool, nodes
    <3> QED
      BY <2>3, <2>4, <3>1, OneMoves DEF Inv, Places
  <2>b. BusyInv'
    BY <1>0, <2>1, <2>3, <2>5 DEF Inv, BusyInv, InLine, pool, nodes, Threads
  <2> QED
    BY <2>t, <2>p, <2>s, <2>u, <2>h, <2>b DEF Inv
<1> QED
  BY <1>1, <1>2

LEMMA FillCacheStep == ASSUME Inv, FillCache PROVE Inv'
<1> DEFINE b == frame[1]
<1>1. /\ UNCHANGED <<surface, pool, switches, stream, requested, acquired, collected,
                     deviceBufferList>>
      /\ pc["deliver"] = "source" /\ pc' = [pc EXCEPT !["deliver"] = "loop"]
      /\ cacheSize > 0 /\ cacheSize' = cacheSize - 1
      /\ cache' = cache \o frame /\ frame' = <<>>
  BY DEF FillCache, Goto
<1>2. /\ frame # <<>> /\ frame \in Hand /\ cache \in Seq(Buffers)
      /\ pc \in [Threads -> TestPCs \cup ThreadPCs]
  BY <1>1, Typed DEF Inv, PlaceInv
<1>3. b \in Buffers /\ frame = <<b>> /\ ToSet(frame) = {b}
  BY <1>2, HandTyped
<1>4. b \in Held("frame") /\ b \notin Held("cache")
  BY <1>3, Apart DEF Held, Inv, Places
<1>5. /\ cache \o <<b>> \in Seq(Buffers) /\ ToSet(cache \o <<b>>) = ToSet(cache) \cup {b}
      /\ IsInjective(cache \o <<b>>)
  BY <1>2, <1>3, <1>4, AddLast DEF Held, Inv, UniqueInv
<1>6. frame' \in Hand /\ ToSet(frame') = {}
  BY <1>1, NoBuffer
<1>7. cacheSize' \in 0 .. CacheSize
  BY <1>1, BufferLoopAssumption DEF Inv, TypeOK
<1> HIDE DEF b
<1>t. TypeOK'
  BY <1>1, <1>2, <1>3, <1>5, <1>6, <1>7
     DEF Inv, TypeOK, surface, pool, switches, stream, Hand, Threads, ThreadPCs, Buffers
<1>p. PlaceInv'
  BY <1>1, <1>2 DEF Inv, PlaceInv, Threads
<1>s. StartInv'
  BY <1>1, <1>2 DEF Inv, StartInv, Threads
<1>u. UniqueInv'
  BY <1>1, <1>3, <1>5 DEF Inv, UniqueInv, surface, pool
<1>h. HomeInv'
  <2>1. \A r \in Places : Held(r)' = IF r = "frame" THEN Held("frame") \ {b}
                                    ELSE IF r = "cache" THEN Held("cache") \cup {b}
                                    ELSE Held(r)
    BY <1>1, <1>3, <1>5, <1>6 DEF Held, Places, surface, pool
  <2> QED
    BY <1>3, <1>4, <2>1, OneMoves DEF Inv, Places
<1>b. BusyInv'
  BY <1>1, <1>2, <1>3, <1>5, <1>6 DEF Inv, BusyInv, InLine, pool, Threads
<1> QED
  BY <1>t, <1>p, <1>s, <1>u, <1>h, <1>b DEF Inv

LEMMA PassCacheStep == ASSUME Inv, PassCache PROVE Inv'
<1> DEFINE b == frame[1]
<1> DEFINE c == cache[1]
<1>0. /\ UNCHANGED <<surface, pool, cacheSize, switches, stream, requested, acquired,
                     collected, deviceBufferList>>
      /\ pc["deliver"] = "source" /\ pc' = [pc EXCEPT !["deliver"] = "sink"]
      /\ IF cache = <<>> THEN cache' = cache /\ frame' = frame
                         ELSE frame' = <<c>> /\ cache' = Tail(cache) \o frame
  BY DEF PassCache, Goto
<1>1. /\ frame # <<>> /\ frame \in Hand /\ cache \in Seq(Buffers)
      /\ pc \in [Threads -> TestPCs \cup ThreadPCs]
  BY <1>0, Typed DEF Inv, PlaceInv
<1>2. b \in Buffers /\ frame = <<b>> /\ ToSet(frame) = {b}
  BY <1>1, HandTyped
<1>3. ASSUME cache # <<>>
      PROVE  /\ c \in Buffers /\ c \in ToSet(cache) /\ Tail(cache) \o <<b>> \in Seq(Buffers)
             /\ ToSet(Tail(cache) \o <<b>>) = (ToSet(cache) \ {c}) \cup {b}
             /\ IsInjective(Tail(cache) \o <<b>>)
  <2>1. /\ c \in Buffers /\ Tail(cache) \in Seq(Buffers)
        /\ ToSet(cache) = {c} \cup ToSet(Tail(cache))
        /\ IsInjective(Tail(cache)) /\ c \notin ToSet(Tail(cache))
    BY <1>1, <1>3, TakeFirst DEF Inv, UniqueInv
  <2>2. b \notin ToSet(cache)
    BY <1>2, Apart DEF Held, Inv, Places
  <2>3. /\ Tail(cache) \o <<b>> \in Seq(Buffers)
        /\ ToSet(Tail(cache) \o <<b>>) = ToSet(Tail(cache)) \cup {b}
        /\ IsInjective(Tail(cache) \o <<b>>)
    <3>1. Tail(cache) \in Seq(Buffers) /\ b \in Buffers
          /\ IsInjective(Tail(cache)) /\ b \notin ToSet(Tail(cache))
      BY <1>2, <2>1, <2>2
    <3> HIDE DEF b, c
    <3> QED
      BY <3>1, AddLast
  <2> QED
    BY <2>1, <2>3
<1>5. /\ frame' \in Hand /\ frame' # <<>>
      /\ ToSet(frame') = IF cache = <<>> THEN {b} ELSE {c}
  BY <1>0, <1>1, <1>2, <1>3, OneBuffer
<1>6. /\ cache' \in Seq(Buffers) /\ IsInjective(cache')
      /\ ToSet(cache') = IF cache = <<>> THEN {} ELSE (ToSet(cache) \ {c}) \cup {b}
  BY <1>0, <1>1, <1>2, <1>3, NoBuffer DEF Inv, UniqueInv
<1> HIDE DEF b, c
<1>t. TypeOK'
  BY <1>0, <1>1, <1>5, <1>6
     DEF Inv, TypeOK, surface, pool, switches, stream, Hand, Threads, ThreadPCs, Buffers
<1>p. PlaceInv'
  BY <1>0, <1>1, <1>5 DEF Inv, PlaceInv, Threads
<1>s. StartInv'
  BY <1>0, <1>1 DEF Inv, StartInv, Threads
<1>u. UniqueInv'
  BY <1>0, <1>6 DEF Inv, UniqueInv, surface, pool
<1>h. HomeInv'
  <2>1. CASE cache = <<>>
    BY <1>0, <2>1, NothingMoves DEF Inv, Held, Places, surface, pool
  <2>2. CASE cache # <<>>
    <3>1. \A r \in Places : Held(r)' = IF r = "frame" THEN (Held("frame") \ {b}) \cup {c}
                                      ELSE IF r = "cache" THEN (Held("cache") \ {c}) \cup {b}
                                      ELSE Held(r)
      BY <1>0, <1>2, <1>5, <1>6, <2>2 DEF Held, Places, surface, pool
    <3>2. b \in Held("frame") /\ c \in Held("cache")
      BY <1>2, <1>3, <2>2 DEF Held
    <3> QED
      BY <1>2, <1>3, <2>2, <3>1, <3>2, TwoSwap DEF Inv, Places
  <2> QED
    BY <2>1, <2>2
<1>b. BusyInv'
  <2>1. InLine /\ InLine'
    BY <1>0, <1>1 DEF InLine, Threads
  <2>2. ToSet(cache') \cup ToSet(frame') = ToSet(cache) \cup ToSet(frame)
    BY <1>2, <1>3, <1>5, <1>6, NoBuffer
  <2> QED
    BY <1>0, <2>1, <2>2 DEF Inv, BusyInv, pool
<1> QED
  BY <1>t, <1>p, <1>s, <1>u, <1>h, <1>b DEF Inv

LEMMA ReturnBufferStep == ASSUME Inv, ReturnBuffer PROVE Inv'
<1> DEFINE b == frame[1]
<1>0. /\ UNCHANGED <<surface, nodes, switches, stream, requested, acquired, collected,
                     deviceBufferList>>
      /\ pc["deliver"] = "sink" /\ busy' = busy \ {b}
      /\ IF producer
         THEN idle' = idle /\ frame' = frame /\ pc' = [pc EXCEPT !["deliver"] = "flush"]
         ELSE idle' = idle \o frame /\ frame' = <<>> /\ pc' = [pc EXCEPT !["deliver"] = "loop"]
  BY DEF ReturnBuffer, Goto
<1>1. /\ frame # <<>> /\ frame \in Hand /\ idle \in Seq(Buffers)
      /\ pc \in [Threads -> TestPCs \cup ThreadPCs] /\ producer \in BOOLEAN
  BY <1>0, Typed DEF Inv, PlaceInv, TypeOK
<1>2. b \in Buffers /\ frame = <<b>> /\ ToSet(frame) = {b}
  BY <1>1, HandTyped
<1>3. /\ b \in Held("frame") /\ b \notin Held("idle") /\ b \notin Held("cache")
      /\ b \notin Held("list") /\ b \notin Held("collected")
  BY <1>2, Apart DEF Held, Inv, Places
<1>5. /\ idle \o <<b>> \in Seq(Buffers) /\ ToSet(idle \o <<b>>) = ToSet(idle) \cup {b}
      /\ IsInjective(idle \o <<b>>)
  BY <1>1, <1>2, <1>3, AddLast DEF Held, Inv, UniqueInv
<1>6. <<>> \in Hand /\ ToSet(<<>>) = {}
  BY NoBuffer
<1>b. BusyInv'
  <2>1. InLine /\ ~InLine'
    BY <1>0, <1>1 DEF InLine, Threads
  <2>2. busy = ToSet(cache) \cup ToSet(deviceBufferList) \cup ToSet(collected) \cup {b}
    BY <1>2, <2>1 DEF Inv, BusyInv
  <2>3. b \notin ToSet(cache) \cup ToSet(deviceBufferList) \cup ToSet(collected)
    BY <1>3 DEF Held
  <2> QED
    BY <1>0, <2>1, <2>2, <2>3 DEF BusyInv, nodes
<1> HIDE DEF b
<1>t. TypeOK'
  BY <1>0, <1>1, <1>2, <1>5, <1>6
     DEF Inv, TypeOK, surface, nodes, switches, stream, Hand, Threads, ThreadPCs, Buffers
<1>p. PlaceInv'
  BY <1>0, <1>1 DEF Inv, PlaceInv, Threads
<1>s. StartInv'
  BY <1>0, <1>1 DEF Inv, StartInv, Threads
<1>u. UniqueInv'
  BY <1>0, <1>2, <1>5 DEF Inv, UniqueInv, surface, nodes
<1>h. HomeInv'
  <2>1. CASE producer
    BY <1>0, <2>1, NothingMoves DEF Inv, Held, Places, surface, nodes
  <2>2. CASE ~producer
    <3>1. \A r \in Places : Held(r)' = IF r = "frame" THEN Held("frame") \ {b}
                                      ELSE IF r = "idle" THEN Held("idle") \cup {b}
                                      ELSE Held(r)
      BY <1>0, <1>2, <1>5, <1>6, <2>2 DEF Held, Places, surface, nodes
    <3> QED
      BY <1>2, <1>3, <3>1, OneMoves DEF Inv, Places
  <2> QED
    BY <2>1, <2>2
<1> QED
  BY <1>t, <1>p, <1>s, <1>u, <1>h, <1>b DEF Inv

LEMMA FlushBufferStep == ASSUME Inv, FlushBuffer PROVE Inv'
<1> DEFINE b == frame[1]
<1>0. /\ UNCHANGED <<free, pool, nodes, switches, stream, requested, acquired, collected,
                     deviceBufferList>>
      /\ pc["deliver"] = "flush" /\ pc' = [pc EXCEPT !["deliver"] = "loop"]
      /\ frame' = <<>>
      /\ \/ flushed' = flushed \o frame /\ lost' = lost /\ faults' = faults
         \/ flushed' = flushed /\ lost' = lost \cup {b}
            /\ faults < MaxFaults /\ faults' = faults + 1
  BY DEF FlushBuffer, Goto, Fault
<1>1. /\ frame # <<>> /\ frame \in Hand /\ flushed \in Seq(Buffers)
      /\ pc \in [Threads -> TestPCs \cup ThreadPCs]
  BY <1>0, Typed DEF Inv, PlaceInv
<1>2. b \in Buffers /\ frame = <<b>> /\ ToSet(frame) = {b}
  BY <1>1, HandTyped
<1>3. b \in Held("frame") /\ b \notin Held("flushed")
  BY <1>2, Apart DEF Held, Inv, Places
<1>5. /\ flushed \o <<b>> \in Seq(Buffers)
      /\ ToSet(flushed \o <<b>>) = ToSet(flushed) \cup {b}
      /\ IsInjective(flushed \o <<b>>)
  BY <1>1, <1>2, <1>3, AddLast DEF Held, Inv, UniqueInv
<1>6. frame' \in Hand /\ ToSet(frame') = {}
  BY <1>0, NoBuffer
<1>7. faults' \in 0 .. MaxFaults
  BY <1>0, BufferLoopAssumption DEF Inv, TypeOK
<1> HIDE DEF b
<1>t. TypeOK'
  BY <1>0, <1>1, <1>2, <1>5, <1>6, <1>7
     DEF Inv, TypeOK, pool, nodes, switches, stream, Hand, Threads, ThreadPCs, Buffers
<1>p. PlaceInv'
  BY <1>0, <1>1 DEF Inv, PlaceInv, Threads
<1>s. StartInv'
  BY <1>0, <1>1 DEF Inv, StartInv, Threads
<1>u. UniqueInv'
  BY <1>0, <1>2, <1>5 DEF Inv, UniqueInv, pool, nodes
<1>h. HomeInv'
  <2>1. CASE flushed' = flushed \o frame /\ lost' = lost
    <3>1. \A r \in Places : Held(r)' = IF r = "frame" THEN Held("frame") \ {b}
                                      ELSE IF r = "flushed" THEN Held("flushed") \cup {b}
                                      ELSE Held(r)
      BY <1>0, <1>2, <1>5, <1>6, <2>1 DEF Held, Places, pool, nodes
    <3> QED
      BY <1>2, <1>3, <3>1, OneMoves DEF Inv, Places
  <2>2. CASE flushed' = flushed /\ lost' = lost \cup {b}
    <3>1. \A r \in Places : Held(r)' = IF r = "frame" THEN Held("frame") \ {b}
                                      ELSE IF r = "lost" THEN Held("lost") \cup {b}
                                      ELSE Held(r)
      BY <1>0, <1>2, <1>6, <2>2 DEF Held, Places, pool, nodes
    <3> QED
      BY <1>2, <1>3, <3>1, OneMoves DEF Inv, Places
  <2> QED
    BY <1>0, <2>1, <2>2
<1>b. BusyInv'
  <2>1. ~InLine /\ ~InLine'
    BY <1>0, <1>1 DEF InLine, Threads
  <2> QED
    BY <1>0, <2>1 DEF Inv, BusyInv, pool, nodes
<1> QED
  BY <1>t, <1>p, <1>s, <1>u, <1>h, <1>b DEF Inv

LEMMA TakeFlushedStep == ASSUME Inv, TakeFlushed PROVE Inv'
<1> DEFINE b == flushed[1]
<1>0. /\ UNCHANGED <<free, lost, faults, pool, nodes, switches, stream, requested,
                     collected, frame, deviceBufferList>>
      /\ pc["consume"] = "take"
      /\ testRunning \in BOOLEAN /\ running \in BOOLEAN
      /\ flushed \in Seq(Buffers) /\ pc \in [Threads -> TestPCs \cup ThreadPCs]
  BY DEF TakeFlushed, Inv, TypeOK
<1>1. CASE flushed = <<>>
  <2>1. NoMove /\ UNCHANGED switches /\ pc' = [pc EXCEPT !["consume"] = "loop"]
    BY <1>0, <1>1 DEF TakeFlushed, NoMove, Goto, hands, surface
  <2>2. StartInv'
    BY <1>0, <2>1 DEF Inv, StartInv, Threads, NoMove, surface, stream, Buffers
  <2> QED
    BY <1>0, <2>1, <2>2, QuietHolds DEF switches, Threads, ThreadPCs
<1>2. CASE flushed # <<>>
  <2>1. /\ pc' = [pc EXCEPT !["consume"] = "release"]
        /\ acquired' = <<b>> /\ flushed' = Tail(flushed)
    BY <1>2 DEF TakeFlushed, Goto
  <2>2. acquired = <<>>
    BY <1>0 DEF Inv, PlaceInv
  <2>3. /\ b \in Buffers /\ Tail(flushed) \in Seq(Buffers)
        /\ ToSet(flushed) = {b} \cup ToSet(Tail(flushed))
        /\ IsInjective(Tail(flushed)) /\ b \notin ToSet(Tail(flushed))
    BY <1>0, <1>2, TakeFirst DEF Inv, UniqueInv
  <2>4. b \in Held("flushed") /\ ToSet(acquired) = {}
    BY <2>2, <2>3, NoBuffer DEF Held
  <2>5. acquired' \in Hand /\ acquired' # <<>> /\ ToSet(acquired') = {b}
    BY <2>1, <2>3, OneBuffer
  <2> HIDE DEF b
  <2>t. TypeOK'
    BY <1>0, <2>1, <2>3, <2>5
       DEF Inv, TypeOK, pool, nodes, switches, stream, Hand, Threads, ThreadPCs, Buffers
  <2>p. PlaceInv'
    BY <1>0, <2>1, <2>5 DEF Inv, PlaceInv, Threads
  <2>s. StartInv'
    BY <1>0, <2>1 DEF Inv, StartInv, Threads, stream, Buffers
  <2>u. UniqueInv'
    BY <1>0, <2>1, <2>3 DEF Inv, UniqueInv, pool, nodes
  <2>h. HomeInv'
    <3>1. \A r \in Places : Held(r)' = IF r = "flushed" THEN Held("flushed") \ {b}
                                      ELSE IF r = "acquired" THEN Held("acquired") \cup {b}
                                      ELSE Held(r)
      BY <1>0, <2>1, <2>3, <2>4, <2>5 DEF Held, Places, pool, nodes
    <3> QED
      BY <2>3, <2>4, <3>1, OneMoves DEF Inv, Places
  <2>b. BusyInv'
    BY <1>0, <2>1 DEF Inv, BusyInv, InLine, pool, nodes, Threads
  <2> QED
    BY <2>t, <2>p, <2>s, <2>u, <2>h, <2>b DEF Inv
<1> QED
  BY <1>1, <1>2

LEMMA ReleaseBufferStep == ASSUME Inv, ReleaseBuffer PROVE Inv'
<1> DEFINE b == acquired[1]
<1>1. /\ UNCHANGED <<flushed, pool, nodes, switches, stream, requested,
                     collected, frame, deviceBufferList>>
      /\ pc["consume"] = "release" /\ pc' = [pc EXCEPT !["consume"] = "loop"]
      /\ acquired' = <<>>
      /\ \/ free' = free \cup {b} /\ lost' = lost /\ faults' = faults
         \/ free' = free /\ lost' = lost \cup {b}
            /\ faults < MaxFaults /\ faults' = faults + 1
  BY DEF ReleaseBuffer, Goto, Fault
<1>2. /\ acquired # <<>> /\ acquired \in Hand /\ free \subseteq Buffers
      /\ pc \in [Threads -> TestPCs \cup ThreadPCs]
  BY <1>1, Typed DEF Inv, PlaceInv
<1>3. b \in Buffers /\ acquired = <<b>> /\ ToSet(acquired) = {b}
  BY <1>2, HandTyped
<1>4. b \in Held("acquired")
  BY <1>3 DEF Held
<1>6. acquired' \in Hand /\ ToSet(acquired') = {}
  BY <1>1, NoBuffer
<1>7. faults' \in 0 .. MaxFaults
  BY <1>1, BufferLoopAssumption DEF Inv, TypeOK
<1> HIDE DEF b
<1>t. TypeOK'
  BY <1>1, <1>2, <1>3, <1>6, <1>7
     DEF Inv, TypeOK, pool, nodes, switches, stream, Hand, Threads, ThreadPCs, Buffers
<1>p. PlaceInv'
  BY <1>1, <1>2 DEF Inv, PlaceInv, Threads
<1>s. StartInv'
  BY <1>1, <1>2 DEF Inv, StartInv, Threads, stream, Buffers
<1>u. UniqueInv'
  BY <1>1 DEF Inv, UniqueInv, pool, nodes
<1>h. HomeInv'
  <2>1. CASE free' = free \cup {b} /\ lost' = lost
    <3>1. \A r \in Places : Held(r)' = IF r = "acquired" THEN Held("acquired") \ {b}
                                      ELSE IF r = "free" THEN Held("free") \cup {b}
                                      ELSE Held(r)
      BY <1>1, <1>3, <1>6, <2>1 DEF Held, Places, pool, nodes
    <3> QED
      BY <1>3, <1>4, <3>1, OneMoves DEF Inv, Places
  <2>2. CASE free' = free /\ lost' = lost \cup {b}
    <3>1. \A r \in Places : Held(r)' = IF r = "acquired" THEN Held("acquired") \ {b}
                                      ELSE IF r = "lost" THEN Held("lost") \cup {b}
                                      ELSE Held(r)
      BY <1>1, <1>3, <1>6, <2>2 DEF Held, Places, pool, nodes
    <3> QED
      BY <1>3, <1>4, <3>1, OneMoves DEF Inv, Places
  <2> QED
    BY <1>1, <2>1, <2>2
<1>b. BusyInv'
  BY <1>1, <1>2 DEF Inv, BusyInv, InLine, pool, nodes, Threads
<1> QED
  BY <1>t, <1>p, <1>s, <1>u, <1>h, <1>b DEF Inv

LEMMA StartBufferStep == ASSUME Inv, StartBuffer PROVE Inv'
<1> DEFINE b == started + 1
<1>1. /\ UNCHANGED <<producer, flushed, busy, nodes, switches, hands, deviceBufferList, pc>>
      /\ pc["test"] = "start" /\ producer /\ started < QueueSize /\ started' = b
      /\ \/ /\ bufferVec' = bufferVec \cup {b} /\ idle' = idle \o <<b>> /\ free' = free \ {b}
            /\ lost' = lost /\ faults' = faults
         \/ /\ faults < MaxFaults /\ faults' = faults + 1
            /\ bufferVec' = bufferVec /\ idle' = idle /\ free' = free /\ lost' = lost
         \/ /\ faults < MaxFaults /\ faults' = faults + 1
            /\ free' = free \ {b} /\ lost' = lost \cup {b}
            /\ bufferVec' = bufferVec /\ idle' = idle
  BY DEF StartBuffer, Fault
<1>2. /\ started \in 0 .. QueueSize /\ QueueSize \in Nat /\ b \in Buffers
      /\ started' \in 0 .. QueueSize /\ b > started
      /\ faults \in 0 .. MaxFaults /\ faults' \in 0 .. MaxFaults
  BY <1>1, BufferLoopAssumption DEF Inv, TypeOK, Buffers
<1>3. idle \in Seq(Buffers) /\ free \subseteq Buffers /\ lost \subseteq Buffers
  BY Typed DEF Inv
<1>4. b \in free
  BY <1>1, <1>2 DEF Inv, StartInv
<1>5. b \in Held("free") /\ b \notin Held("idle")
  BY <1>2, <1>4, Apart DEF Held, Inv, Places
<1>6. /\ idle \o <<b>> \in Seq(Buffers) /\ ToSet(idle \o <<b>>) = ToSet(idle) \cup {b}
      /\ IsInjective(idle \o <<b>>)
  BY <1>2, <1>3, <1>5, AddLast DEF Held, Inv, UniqueInv
<1>s. StartInv'
  <2>1. \A c \in Buffers : c > started' => c \in free'
    BY <1>1, <1>2 DEF Inv, StartInv, Buffers
  <2> QED
    BY <1>1, <2>1 DEF Inv, StartInv, Buffers
<1> HIDE DEF b
<1>t. TypeOK'
  BY <1>1, <1>2, <1>3, <1>6
     DEF Inv, TypeOK, nodes, switches, hands, Hand, Threads, ThreadPCs, Buffers
<1>p. PlaceInv'
  BY <1>1 DEF Inv, PlaceInv, hands
<1>u. UniqueInv'
  BY <1>1, <1>6 DEF Inv, UniqueInv, nodes
<1>h. HomeInv'
  <2>1. CASE bufferVec' = bufferVec \cup {b} /\ idle' = idle \o <<b>>
             /\ free' = free \ {b} /\ lost' = lost
    <3>1. \A r \in Places : Held(r)' = IF r = "free" THEN Held("free") \ {b}
                                      ELSE IF r = "idle" THEN Held("idle") \cup {b}
                                      ELSE Held(r)
      BY <1>1, <1>6, <2>1 DEF Held, Places, nodes, hands
    <3> QED
      BY <1>2, <1>5, <3>1, OneMoves DEF Inv, Places
  <2>2. CASE idle' = idle /\ free' = free /\ lost' = lost
    BY <1>1, <2>2, NothingMoves DEF Inv, Held, Places, nodes, hands
  <2>3. CASE free' = free \ {b} /\ lost' = lost \cup {b} /\ idle' = idle
    <3>1. \A r \in Places : Held(r)' = IF r = "free" THEN Held("free") \ {b}
                                      ELSE IF r = "lost" THEN Held("lost") \cup {b}
                                      ELSE Held(r)
      BY <1>1, <2>3 DEF Held, Places, nodes, hands
    <3> QED
      BY <1>2, <1>5, <3>1, OneMoves DEF Inv, Places
  <2> QED
    BY <1>1, <2>1, <2>2, <2>3
<1>b. BusyInv'
  BY <1>1 DEF Inv, BusyInv, InLine, nodes, hands
<1> QED
  BY <1>t, <1>p, <1>s, <1>u, <1>h, <1>b DEF Inv
-----------------------------------------------------------------------------
LEMMA InitHolds == Init => Inv
<1> SUFFICES ASSUME Init PROVE Inv
  OBVIOUS
<1> DEFINE numbered == [i \in 1 .. QueueSize |-> i]
<1>1. /\ numbered \in Seq(Buffers) /\ IsInjective(numbered) /\ ToSet(numbered) = Buffers
      /\ <<>> \in Seq(Buffers) /\ IsInjective(<<>>) /\ ToSet(<<>>) = {} /\ <<>> \in Hand
  <2>1. QueueSize \in Nat
    BY BufferLoopAssumption
  <2>2. numbered \in [1 .. QueueSize -> Buffers]
    BY DEF Buffers
  <2>3. numbered \in Seq(Buffers)
    BY <2>1, <2>2
  <2>4. IsInjective(numbered)
    BY DEF IsInjective
  <2>5. ToSet(numbered) = Buffers
    BY DEF ToSet, Buffers
  <2>6. <<>> \in Seq(Buffers) /\ IsInjective(<<>>)
    BY DEF IsInjective
  <2> QED
    BY <2>3, <2>4, <2>5, <2>6, NoBuffer
<1> HIDE DEF numbered
<1>2. /\ producer \in BOOLEAN
      /\ free = (IF producer THEN Buffers ELSE {})
      /\ idle = (IF producer THEN <<>> ELSE numbered)
      /\ flushed = <<>> /\ lost = {} /\ bufferVec = {} /\ busy = {}
      /\ requested = <<>> /\ acquired = <<>> /\ collected = <<>> /\ frame = <<>>
      /\ deviceBufferList = <<>> /\ cache = <<>> /\ cacheSize = CacheSize
      /\ testRunning = TRUE /\ running = TRUE /\ started = 0 /\ faults = 0
  BY DEF Init, numbered
<1>3. /\ pc \in [Threads -> TestPCs \cup ThreadPCs] /\ pc["test"] = "start"
      /\ pc["enqueue"] = "none" /\ pc["collect"] = "none" /\ pc["deliver"] = "none"
      /\ pc["consume"] \in {"loop", "none"}
  BY DEF Init, Threads, TestPCs, ThreadPCs
<1>t. TypeOK
  <2>1. cacheSize \in 0 .. CacheSize /\ started \in 0 .. QueueSize /\ faults \in 0 .. MaxFaults
    BY <1>2, BufferLoopAssumption
  <2>2. idle \in Seq(Buffers) /\ free \subseteq Buffers
    BY <1>1, <1>2
  <2>3. testRunning \in BOOLEAN /\ running \in BOOLEAN
    BY <1>2
  <2> QED
    BY <1>1, <1>2, <1>3, <2>1, <2>2, <2>3 DEF TypeOK, Hand
<1>p. PlaceInv
  BY <1>2, <1>3 DEF PlaceInv
<1>s. StartInv
  BY <1>2, <1>3 DEF StartInv
<1>u. UniqueInv
  BY <1>1, <1>2 DEF UniqueInv
<1>h. HomeInv
  <2> DEFINE home == [b \in Buffers |-> IF producer THEN "free" ELSE "idle"]
  <2>1. home \in [Buffers -> Places]
    BY DEF Places
  <2>2. Fits(home)
    BY <1>1, <1>2 DEF Fits, Held, Places
  <2> QED
    BY <2>1, <2>2 DEF HomeInv
<1>b. BusyInv
  BY <1>1, <1>2, <1>3 DEF BusyInv, InLine
<1> QED
  BY <1>t, <1>p, <1>s, <1>u, <1>h, <1>b DEF Inv

LEMMA StepHolds == Inv /\ [Next]_vars => Inv'
<1> SUFFICES ASSUME Inv, [Next]_vars PROVE Inv'
  OBVIOUS
<1>1. CASE UNCHANGED vars
  <2>1. /\ NoMove /\ UNCHANGED switches /\ UNCHANGED pc
        /\ testRunning \in BOOLEAN /\ running \in BOOLEAN
        /\ pc \in [Threads -> TestPCs \cup ThreadPCs]
    BY <1>1 DEF vars, NoMove, Inv, TypeOK
  <2>2. StartInv'
    BY <2>1 DEF Inv, StartInv, NoMove, surface, stream, Buffers
  <2> QED
    BY <2>1, <2>2, QuietHolds DEF switches
<1>2. CASE QuietStep
  BY <1>2, QuietStepHolds
<1>3. CASE RequestBuffer \/ AddBuffer \/ AcquireBuffer \/ AppendBuffer
  BY <1>3, RequestBufferStep, AddBufferStep, AcquireBufferStep, AppendBufferStep
<1>4. CASE LoadBuffer \/ FillCache \/ PassCache \/ ReturnBuffer \/ FlushBuffer
  BY <1>4, LoadBufferStep, FillCacheStep, PassCacheStep, ReturnBufferStep, FlushBufferStep
<1>5. CASE TakeFlushed \/ ReleaseBuffer \/ StartBuffer
  BY <1>5, TakeFlushedStep, ReleaseBufferStep, StartBufferStep
<1> QED
  BY <1>1, <1>2, <1>3, <1>4, <1>5
     DEF Next, Enqueue, Collect, Deliver, Consume, QuietStep

LEMMA AlwaysInv == Spec => []Inv
  BY InitHolds, StepHolds, PTL DEF Spec
-----------------------------------------------------------------------------
(* The lists one after the other.                                          *)

\* A list of different buffers.
Row(s) == s \in Seq(Buffers) /\ IsInjective(s)

LEMMA Rows ==
  ASSUME NEW s, NEW t, Row(s), Row(t), ToSet(s) \cap ToSet(t) = {}
  PROVE  Row(s \o t) /\ ToSet(s \o t) = ToSet(s) \cup ToSet(t)
  BY ConcatSet, ConcatInjective DEF Row

LEMMA Disjoint ==
  ASSUME Inv
  PROVE  \A p, q \in Places : p # q => Held(p) \cap Held(q) = {}
<1>1. \A p \in Places : Held(p) \subseteq Buffers
  <2>1. \A h \in Hand : ToSet(h) \subseteq Buffers
    BY HandTyped, NoBuffer
  <2>2. \A s \in Seq(Buffers) : ToSet(s) \subseteq Buffers
    BY SeqSet
  <2> QED
    BY <2>1, <2>2, Typed DEF Inv, Held, Places
<1> QED
  BY <1>1, Apart DEF Inv

LEMMA RowsOfInv ==
  ASSUME Inv
  PROVE  /\ Row(requested) /\ Row(idle) /\ Row(cache) /\ Row(deviceBufferList)
         /\ Row(collected) /\ Row(flushed) /\ Row(acquired)
         /\ Row(Outgoing) /\ Row(Incoming) /\ Row(Flushing)
         /\ ToSet(Outgoing) = IF pc["deliver"] = "sink" THEN ToSet(frame) ELSE {}
         /\ ToSet(Incoming) = IF pc["deliver"] = "source" THEN ToSet(frame) ELSE {}
         /\ ToSet(Flushing) = IF pc["deliver"] = "flush" THEN ToSet(frame) ELSE {}
<1>1. Row(<<>>) /\ ToSet(<<>>) = {}
  BY NoBuffer DEF Row, IsInjective
<1>2. ASSUME NEW h \in Hand PROVE Row(h)
  <2>1. ASSUME NEW b \in Buffers PROVE Row(<<b>>)
    BY EmptyAndOne DEF Row
  <2> QED
    BY <1>1, <2>1 DEF Hand
<1>3. Row(requested) /\ Row(collected) /\ Row(acquired) /\ Row(frame)
  BY <1>2, Typed DEF Inv
<1>4. Row(idle) /\ Row(cache) /\ Row(deviceBufferList) /\ Row(flushed)
  BY Typed DEF Inv, UniqueInv, Row
<1> QED
  BY <1>1, <1>3, <1>4 DEF Outgoing, Incoming, Flushing

LEMMA LineRow ==
  ASSUME Inv
  PROVE  /\ Row(Line)
         /\ ToSet(Line) = ToSet(cache) \cup ToSet(deviceBufferList) \cup ToSet(collected)
                            \cup (IF InLine THEN ToSet(frame) ELSE {})
<1>1. /\ ToSet(frame) \cap ToSet(cache) = {} /\ ToSet(frame) \cap ToSet(deviceBufferList) = {}
      /\ ToSet(frame) \cap ToSet(collected) = {}
      /\ ToSet(cache) \cap ToSet(deviceBufferList) = {}
      /\ ToSet(cache) \cap ToSet(collected) = {}
      /\ ToSet(deviceBufferList) \cap ToSet(collected) = {}
  BY Disjoint DEF Held, Places
<1> DEFINE two == Outgoing \o cache
           three == two \o Incoming
           four == three \o deviceBufferList
<1>2. Row(two) /\ ToSet(two) = ToSet(Outgoing) \cup ToSet(cache)
  <2>1. ToSet(Outgoing) \cap ToSet(cache) = {}
    BY <1>1, RowsOfInv
  <2> QED
    BY <2>1, RowsOfInv, Rows
<1>3. Row(three) /\ ToSet(three) = ToSet(two) \cup ToSet(Incoming)
  <2> HIDE DEF two
  <2>1. ToSet(two) \cap ToSet(Incoming) = {}
    BY <1>1, <1>2, RowsOfInv
  <2> QED
    BY <1>2, <2>1, RowsOfInv, Rows
<1>4. Row(four) /\ ToSet(four) = ToSet(three) \cup ToSet(deviceBufferList)
  <2> HIDE DEF three
  <2>1. ToSet(three) \cap ToSet(deviceBufferList) = {}
    BY <1>1, <1>2, <1>3, RowsOfInv
  <2> QED
    BY <1>3, <2>1, RowsOfInv, Rows
<1>5. Row(Line) /\ ToSet(Line) = ToSet(four) \cup ToSet(collected)
  <2>0. Line = four \o collected
    BY DEF Line
  <2> HIDE DEF four
  <2>1. ToSet(four) \cap ToSet(collected) = {}
    BY <1>1, <1>2, <1>3, <1>4, RowsOfInv
  <2> QED
    BY <1>4, <2>0, <2>1, RowsOfInv, Rows
<1> HIDE DEF two, three, four
<1> QED
  BY <1>2, <1>3, <1>4, <1>5, RowsOfInv DEF InLine

LEMMA InvLends == Inv => PoolHasLentTheLine
  BY LineRow DEF Inv, BusyInv, PoolHasLentTheLine

LEMMA InvHolds == Inv => OneHolder
<1> SUFFICES ASSUME Inv PROVE OneHolder
  OBVIOUS
<1> DEFINE two == requested \o idle
           three == two \o Line
           four == three \o Flushing
           five == four \o flushed
           held == five \o acquired
<1>0. /\ \A p, q \in Places : p # q => Held(p) \cap Held(q) = {}
      /\ ToSet(requested) = Held("requested") /\ ToSet(idle) = Held("idle")
      /\ ToSet(Line) \cup ToSet(Flushing) = Held("cache") \cup Held("list")
                                              \cup Held("collected") \cup Held("frame")
      /\ ToSet(Line) \cap ToSet(Flushing) = {}
      /\ ToSet(flushed) = Held("flushed") /\ ToSet(acquired) = Held("acquired")
      /\ free = Held("free") /\ lost = Held("lost")
  <2>1. \A p, q \in Places : p # q => Held(p) \cap Held(q) = {}
    BY Disjoint
  <2>2. /\ ToSet(Line) = Held("cache") \cup Held("list") \cup Held("collected")
                           \cup (IF InLine THEN Held("frame") ELSE {})
        /\ ToSet(Flushing) = IF pc["deliver"] = "flush" THEN Held("frame") ELSE {}
    BY LineRow, RowsOfInv DEF Held
  <2>3. Held("frame") = {} \/ InLine \/ pc["deliver"] = "flush"
    BY NoBuffer DEF Inv, PlaceInv, InLine, Held
  <2>4. ~(InLine /\ pc["deliver"] = "flush")
    BY DEF InLine
  <2>5. /\ ToSet(requested) = Held("requested") /\ ToSet(idle) = Held("idle")
        /\ ToSet(flushed) = Held("flushed") /\ ToSet(acquired) = Held("acquired")
        /\ free = Held("free") /\ lost = Held("lost")
    BY DEF Held
  <2>6. /\ Held("frame") \cap Held("cache") = {} /\ Held("frame") \cap Held("list") = {}
        /\ Held("frame") \cap Held("collected") = {}
    BY <2>1 DEF Places
  <2> QED
    BY <2>1, <2>2, <2>3, <2>4, <2>5, <2>6
<1>d. /\ "free" \in Places /\ "lost" \in Places /\ "requested" \in Places
      /\ "idle" \in Places /\ "cache" \in Places /\ "frame" \in Places
      /\ "list" \in Places /\ "collected" \in Places /\ "flushed" \in Places
      /\ "acquired" \in Places
  BY DEF Places
<1>2. Row(two) /\ ToSet(two) = ToSet(requested) \cup ToSet(idle)
  <2>1. ToSet(requested) \cap ToSet(idle) = {}
    BY <1>0, <1>d
  <2> QED
    BY <2>1, RowsOfInv, Rows
<1>3. Row(three) /\ ToSet(three) = ToSet(two) \cup ToSet(Line)
  <2> HIDE DEF two
  <2>1. /\ ToSet(requested) \cap ToSet(Line) = {} /\ ToSet(idle) \cap ToSet(Line) = {}
    BY <1>0, <1>d
  <2>2. ToSet(two) \cap ToSet(Line) = {}
    BY <1>2, <2>1
  <2> QED
    BY <1>2, <2>2, LineRow, Rows
<1>4. Row(four) /\ ToSet(four) = ToSet(three) \cup ToSet(Flushing)
  <2> HIDE DEF three
  <2>1. /\ ToSet(requested) \cap ToSet(Flushing) = {} /\ ToSet(idle) \cap ToSet(Flushing) = {}
    BY <1>0, <1>d
  <2>2. ToSet(three) \cap ToSet(Flushing) = {}
    BY <1>0, <1>2, <1>3, <2>1
  <2> QED
    BY <1>3, <2>2, RowsOfInv, Rows
<1>5. Row(five) /\ ToSet(five) = ToSet(four) \cup ToSet(flushed)
  <2> HIDE DEF four
  <2>1. /\ ToSet(requested) \cap ToSet(flushed) = {} /\ ToSet(idle) \cap ToSet(flushed) = {}
        /\ ToSet(Line) \cap ToSet(flushed) = {} /\ ToSet(Flushing) \cap ToSet(flushed) = {}
    BY <1>0, <1>d
  <2>2. ToSet(four) \cap ToSet(flushed) = {}
    BY <1>2, <1>3, <1>4, <2>1
  <2> QED
    BY <1>4, <2>2, RowsOfInv, Rows
<1>6. Row(held) /\ ToSet(held) = ToSet(five) \cup ToSet(acquired)
  <2> HIDE DEF five
  <2>1. /\ ToSet(requested) \cap ToSet(acquired) = {} /\ ToSet(idle) \cap ToSet(acquired) = {}
        /\ ToSet(Line) \cap ToSet(acquired) = {} /\ ToSet(Flushing) \cap ToSet(acquired) = {}
        /\ ToSet(flushed) \cap ToSet(acquired) = {}
    BY <1>0, <1>d
  <2>2. ToSet(five) \cap ToSet(acquired) = {}
    BY <1>2, <1>3, <1>4, <1>5, <2>1
  <2> QED
    BY <1>5, <2>2, RowsOfInv, Rows
<1>7. ToSet(held) = Held("requested") \cup Held("idle") \cup Held("cache") \cup Held("list")
                      \cup Held("collected") \cup Held("frame") \cup Held("flushed")
                      \cup Held("acquired")
  <2> HIDE DEF two, three, four, five, held
  <2> QED
    BY <1>0, <1>2, <1>3, <1>4, <1>5, <1>6
<1>8. Buffers = ToSet(held) \cup free \cup lost
  <2> HIDE DEF held
  <2>1. ToSet(held) \subseteq Buffers /\ free \subseteq Buffers /\ lost \subseteq Buffers
    BY <1>6, SeqSet, Typed DEF Inv, Row
  <2>2. ASSUME NEW b \in Buffers PROVE \E p \in Places : b \in Held(p)
    BY DEF Inv, HomeInv, Fits
  <2>3. \A p \in Places : Held(p) \subseteq ToSet(held) \cup free \cup lost
    BY <1>0, <1>7 DEF Places
  <2> QED
    BY <2>1, <2>2, <2>3
<1>9. ToSet(held) \cap (free \cup lost) = {} /\ free \cap lost = {}
  <2> HIDE DEF held
  <2>1. \A p \in Places \ {"free", "lost"} :
          Held(p) \cap Held("free") = {} /\ Held(p) \cap Held("lost") = {}
    BY <1>0, <1>d
  <2>2. ToSet(held) \cap Held("free") = {} /\ ToSet(held) \cap Held("lost") = {}
    BY <1>7, <1>d, <2>1
  <2>3. Held("free") \cap Held("lost") = {}
    BY <1>0, <1>d
  <2> QED
    BY <1>0, <2>2, <2>3
<1>10. held = requested \o idle \o Line \o Flushing \o flushed \o acquired
  OBVIOUS
<1> HIDE DEF held
<1> QED
  BY <1>6, <1>8, <1>9, <1>10 DEF OneHolder, Row
-----------------------------------------------------------------------------
(* The pipeline implements FrameOrder: one lemma per action that touches   *)
(* one of its five parts.                                                  *)

Seqs == Seq(Buffers)

LEMMA Associate ==
  ASSUME NEW s \in Seqs, NEW t \in Seqs, NEW u \in Seqs
  PROVE  s \o t \in Seqs /\ (s \o t) \o u = s \o (t \o u)
  BY ConcatAssociative, ConcatProperties DEF Seqs

LEMMA Empty == ASSUME NEW s \in Seqs PROVE s \o <<>> = s /\ <<>> \o s = s /\ <<>> \in Seqs
  BY ConcatEmptySeq DEF Seqs

LEMMA PartsOfLine ==
  ASSUME Inv
  PROVE  /\ Outgoing \in Seqs /\ cache \in Seqs /\ Incoming \in Seqs
         /\ deviceBufferList \in Seqs /\ collected \in Seqs
         /\ frame \in Seqs /\ Line \in Seqs
<1>1. frame \in Seqs
  BY Typed, HandTyped, Empty DEF Inv, Seqs
<1> QED
  BY <1>1, RowsOfInv, LineRow DEF Row, Seqs

LEMMA SameParts ==
  ASSUME UNCHANGED <<cache, deviceBufferList, collected>>,
         Outgoing' = Outgoing, Incoming' = Incoming
  PROVE  Line' = Line
  BY DEF Line

\* Nothing of the deliver thread, or no step into, within or out of its nodes.
LEMMA SamePlace ==
  ASSUME UNCHANGED <<cache, deviceBufferList, collected>>,
         \/ frame' = frame /\ pc'["deliver"] = pc["deliver"]
         \/ ~InLine /\ ~InLine'
  PROVE  Line' = Line
<1>1. Outgoing' = Outgoing /\ Incoming' = Incoming
  BY DEF Outgoing, Incoming, InLine
<1> QED
  BY <1>1, SameParts

LEMMA AppendKeepsLine == ASSUME Inv, AppendBuffer PROVE Line' = Line
<1> DEFINE front == Outgoing \o cache \o Incoming
<1>1. /\ Line = (front \o deviceBufferList) \o collected
      /\ Line' = (front' \o deviceBufferList') \o collected'
  BY DEF Line
<1>2. /\ deviceBufferList' = deviceBufferList \o collected /\ collected' = <<>>
      /\ cache' = cache /\ frame' = frame /\ pc'["deliver"] = pc["deliver"]
  BY Typed DEF AppendBuffer, Goto, nodes, Inv, Threads
<1>3. front' = front
  BY <1>2 DEF Outgoing, Incoming
<1>4. front \in Seqs
  BY PartsOfLine, Associate
<1> HIDE DEF front
<1>5. /\ (front \o deviceBufferList) \o collected = front \o (deviceBufferList \o collected)
      /\ deviceBufferList \o collected \in Seqs /\ front \o (deviceBufferList \o collected) \in Seqs
  <2>1. deviceBufferList \in Seqs /\ collected \in Seqs
    BY PartsOfLine
  <2>2. deviceBufferList \o collected \in Seqs
    BY <2>1, Associate
  <2> QED
    BY <1>4, <2>1, <2>2, Associate
<1>6. (front \o (deviceBufferList \o collected)) \o <<>> = front \o (deviceBufferList \o collected)
  BY <1>5, Empty
<1> QED
  BY <1>1, <1>2, <1>3, <1>5, <1>6

LEMMA LoadKeepsLine == ASSUME Inv, LoadBuffer PROVE Line' = Line
<1> DEFINE d == deviceBufferList[1]
           rest == Tail(deviceBufferList)
<1>1. /\ UNCHANGED <<cache, collected>> /\ pc["deliver"] = "load"
      /\ pc \in [Threads -> TestPCs \cup ThreadPCs]
  BY Typed DEF LoadBuffer, nodes, Inv
<1>2. CASE deviceBufferList = <<>>
  <2>1. UNCHANGED deviceBufferList /\ pc' = [pc EXCEPT !["deliver"] = "loop"]
    BY <1>2 DEF LoadBuffer, Goto
  <2> QED
    BY <1>1, <2>1, SamePlace DEF InLine, Threads
<1>3. CASE deviceBufferList # <<>>
  <2>1. frame' = <<d>> /\ deviceBufferList' = rest /\ pc' = [pc EXCEPT !["deliver"] = "source"]
    BY <1>3 DEF LoadBuffer, Goto
  <2>2. d \in Buffers /\ rest \in Seqs /\ deviceBufferList = <<d>> \o rest
    BY <1>3, TakeFirst, Typed DEF Inv, Seqs
  <2>3. <<d>> \in Seqs
    BY <2>2, EmptyAndOne DEF Seqs
  <2>4. Outgoing = <<>> /\ Incoming = <<>> /\ Outgoing' = <<>> /\ Incoming' = <<d>>
    BY <1>1, <2>1 DEF Outgoing, Incoming, Threads
  <2> HIDE DEF d, rest
  <2>5. Line = (((<<>> \o cache) \o <<>>) \o (<<d>> \o rest)) \o collected
    BY <2>2, <2>4 DEF Line
  <2>6. Line' = (((<<>> \o cache) \o <<d>>) \o rest) \o collected
    BY <1>1, <2>1, <2>4 DEF Line
  <2>7. <<>> \o cache = cache /\ cache \o <<>> = cache
    BY PartsOfLine, Empty
  <2>8. (cache \o <<d>>) \o rest = cache \o (<<d>> \o rest)
    <3>1. cache \in Seqs
      BY PartsOfLine
    <3> QED
      BY <2>2, <2>3, <3>1, Associate
  <2> QED
    BY <2>5, <2>6, <2>7, <2>8
<1> QED
  BY <1>2, <1>3

LEMMA FillKeepsLine == ASSUME Inv, FillCache PROVE Line' = Line
<1>1. /\ UNCHANGED <<deviceBufferList, collected>> /\ pc["deliver"] = "source"
      /\ cache' = cache \o frame /\ pc' = [pc EXCEPT !["deliver"] = "loop"]
      /\ pc \in [Threads -> TestPCs \cup ThreadPCs]
  BY Typed DEF FillCache, Goto, Inv
<1>2. Outgoing = <<>> /\ Incoming = frame /\ Outgoing' = <<>> /\ Incoming' = <<>>
  BY <1>1 DEF Outgoing, Incoming, Threads
<1>3. Line = (((<<>> \o cache) \o frame) \o deviceBufferList) \o collected
  BY <1>2 DEF Line
<1>4. Line' = (((<<>> \o (cache \o frame)) \o <<>>) \o deviceBufferList) \o collected
  BY <1>1, <1>2 DEF Line
<1>5. cache \o frame \in Seqs
  BY PartsOfLine, Associate
<1>6. <<>> \o cache = cache /\ <<>> \o (cache \o frame) = cache \o frame
      /\ (cache \o frame) \o <<>> = cache \o frame
  BY <1>5, PartsOfLine, Empty
<1> QED
  BY <1>3, <1>4, <1>6

LEMMA PassKeepsLine == ASSUME Inv, PassCache PROVE Line' = Line
<1> DEFINE c == cache[1]
           rest == Tail(cache)
<1>1. /\ UNCHANGED <<deviceBufferList, collected>> /\ pc["deliver"] = "source"
      /\ pc' = [pc EXCEPT !["deliver"] = "sink"]
      /\ pc \in [Threads -> TestPCs \cup ThreadPCs]
  BY Typed DEF PassCache, Goto, Inv
<1>2. Outgoing = <<>> /\ Incoming = frame /\ Outgoing' = frame' /\ Incoming' = <<>>
  BY <1>1 DEF Outgoing, Incoming, Threads
<1>3. Line = (((<<>> \o cache) \o frame) \o deviceBufferList) \o collected
  BY <1>2 DEF Line
<1>4. Line' = (((frame' \o cache') \o <<>>) \o deviceBufferList) \o collected
  BY <1>1, <1>2 DEF Line
<1>5. CASE cache = <<>>
  <2>1. cache' = <<>> /\ frame' = frame
    BY <1>5 DEF PassCache
  <2>2. frame \o <<>> = frame /\ <<>> \o frame = frame /\ <<>> \o <<>> = <<>>
    BY PartsOfLine, Empty
  <2> QED
    BY <1>3, <1>4, <1>5, <2>1, <2>2
<1>6. CASE cache # <<>>
  <2>1. frame' = <<c>> /\ cache' = rest \o frame
    BY <1>6 DEF PassCache
  <2>2. c \in Buffers /\ rest \in Seqs /\ cache = <<c>> \o rest
    BY <1>6, TakeFirst, Typed DEF Inv, Seqs
  <2>3. <<c>> \in Seqs
    BY <2>2, EmptyAndOne DEF Seqs
  <2> HIDE DEF c, rest
  <2>4. (<<c>> \o rest) \o frame = <<c>> \o (rest \o frame)
    <3>1. frame \in Seqs
      BY PartsOfLine
    <3> QED
      BY <2>2, <2>3, <3>1, Associate
  <2>5. cache \o frame \in Seqs
    BY PartsOfLine, Associate
  <2>6. <<>> \o cache = cache /\ (cache \o frame) \o <<>> = cache \o frame
    BY <2>5, PartsOfLine, Empty
  <2> QED
    BY <1>3, <1>4, <2>1, <2>2, <2>4, <2>6
<1> QED
  BY <1>5, <1>6

LEMMA AcquireEnters ==
  ASSUME Inv, AcquireBuffer
  PROVE  \E b \in Buffers : b \notin ToSet(Line) /\ Line' = Append(Line, b)
<1> DEFINE b == idle[1]
           front == Outgoing \o cache \o Incoming \o deviceBufferList
<1>1. /\ UNCHANGED <<cache, deviceBufferList, frame>> /\ collected' = <<b>> /\ idle # <<>>
      /\ pc["collect"] = "acquire" /\ pc'["deliver"] = pc["deliver"]
      /\ idle \in Seq(Buffers)
  BY Typed DEF AcquireBuffer, Goto, nodes, Inv, Threads
<1>2. b \in Buffers /\ b \in ToSet(idle)
  BY <1>1, TakeFirst
<1>3. collected = <<>>
  BY <1>1 DEF Inv, PlaceInv
<1>4. front' = front /\ Line = front \o collected /\ Line' = front' \o collected'
  BY <1>1 DEF Outgoing, Incoming, Line
<1>5. front \in Seqs
  <2>1. Outgoing \o cache \in Seqs
    BY PartsOfLine, Associate
  <2>2. Outgoing \o cache \o Incoming \in Seqs
    BY <2>1, PartsOfLine, Associate
  <2> QED
    BY <2>2, PartsOfLine, Associate
<1>6. b \notin ToSet(Line)
  <2>1. b \in Held("idle")
    BY <1>2 DEF Held
  <2>2. /\ b \notin Held("cache") /\ b \notin Held("list") /\ b \notin Held("collected")
        /\ b \notin Held("frame")
    BY <1>2, <2>1, Apart DEF Inv, Places
  <2> QED
    BY <2>2, LineRow DEF Held
<1> HIDE DEF front, b
<1>7. Line = front /\ Line' = front \o <<b>>
  BY <1>1, <1>3, <1>4, <1>5, Empty
<1>8. Append(front, b) = front \o <<b>>
  BY <1>2, <1>5, AppendIsConcat DEF Seqs
<1> QED
  BY <1>2, <1>6, <1>7, <1>8

LEMMA ReturnLeaves ==
  ASSUME Inv, ReturnBuffer
  PROVE  Line # <<>> /\ Line' = Tail(Line)
<1> DEFINE b == frame[1]
<1>1. /\ UNCHANGED <<cache, deviceBufferList, collected>> /\ pc["deliver"] = "sink"
      /\ pc'["deliver"] \notin {"source", "sink"}
      /\ frame # <<>> /\ frame \in Hand
  BY Typed DEF ReturnBuffer, Goto, nodes, Inv, Threads, PlaceInv
<1>2. b \in Buffers /\ frame = <<b>>
  BY <1>1, HandTyped
<1>3. Outgoing = <<b>> /\ Incoming = <<>> /\ Outgoing' = <<>> /\ Incoming' = <<>>
  BY <1>1, <1>2 DEF Outgoing, Incoming
<1>4. <<b>> \in Seqs /\ <<b>> # <<>>
  BY <1>2, EmptyAndOne DEF Seqs
<1> HIDE DEF b
<1>5. <<>> \o cache = cache /\ cache \o <<>> = cache
  BY PartsOfLine, Empty
<1>6. Line' = (cache \o deviceBufferList) \o collected
  BY <1>1, <1>3, <1>5 DEF Line
<1>7. Line = (((<<b>> \o cache) \o <<>>) \o deviceBufferList) \o collected
  BY <1>3 DEF Line
<1>8. <<b>> \o cache \in Seqs /\ (<<b>> \o cache) \o <<>> = <<b>> \o cache
  BY <1>4, PartsOfLine, Associate, Empty
<1>9. /\ (<<b>> \o cache) \o deviceBufferList = <<b>> \o (cache \o deviceBufferList)
      /\ cache \o deviceBufferList \in Seqs
  <2>1. cache \in Seqs /\ deviceBufferList \in Seqs
    BY PartsOfLine
  <2> QED
    BY <1>4, <2>1, Associate
<1>10. /\ (<<b>> \o (cache \o deviceBufferList)) \o collected
            = <<b>> \o ((cache \o deviceBufferList) \o collected)
       /\ (cache \o deviceBufferList) \o collected \in Seqs
  <2>1. collected \in Seqs
    BY PartsOfLine
  <2> QED
    BY <1>4, <1>9, <2>1, Associate
<1>11. Line = <<b>> \o Line' /\ Line' \in Seqs
  BY <1>6, <1>7, <1>8, <1>9, <1>10
<1>12. ASSUME NEW s \in Seqs PROVE <<b>> \o s # <<>> /\ Tail(<<b>> \o s) = s
  BY <1>2 DEF Seqs
<1> QED
  BY <1>11, <1>12

LEMMA LineSteps ==
  ASSUME Inv, [Next]_vars
  PROVE  \/ Line' = Line
         \/ Line # <<>> /\ Line' = Tail(Line)
         \/ \E b \in Buffers : b \notin ToSet(Line) /\ Line' = Append(Line, b)
<1>0. pc \in [Threads -> TestPCs \cup ThreadPCs]
  BY Typed DEF Inv
<1>1. CASE UNCHANGED vars
  <2>1. UNCHANGED <<cache, deviceBufferList, collected, frame, pc>>
    BY <1>1 DEF vars, nodes, hands
  <2> QED
    BY <2>1, SamePlace
<1>2. CASE QuietStep
  <2>1. UNCHANGED <<cache, deviceBufferList, collected, frame>>
    BY <1>2 DEF QuietStep, Loop, AcquireTimeout, StartThreads, StopTest, Join, JoinEnqueue,
                JoinCollect, JoinDeliver, JoinConsume, nodes, hands
  <2>2. CASE Loop("deliver", running, "load")
    <3>1. ~InLine /\ ~InLine'
      BY <1>0, <2>2 DEF Loop, Goto, InLine, Threads
    <3> QED
      BY <2>1, <3>1, SamePlace
  <2>3. CASE StartThreads
    <3>1. ~InLine /\ ~InLine'
      BY <1>0, <2>3 DEF Inv, StartInv, StartThreads, InLine, Threads
    <3> QED
      BY <2>1, <3>1, SamePlace
  <2>4. CASE ~Loop("deliver", running, "load") /\ ~StartThreads
    <3>1. pc'["deliver"] = pc["deliver"]
      BY <1>0, <1>2, <2>4
         DEF QuietStep, Loop, AcquireTimeout, StopTest, Join, JoinEnqueue,
             JoinCollect, JoinDeliver, JoinConsume, Goto, Threads
    <3> QED
      BY <2>1, <3>1, SamePlace
  <2> QED
    BY <2>2, <2>3, <2>4
<1>3. CASE RequestBuffer \/ AddBuffer \/ TakeFlushed \/ ReleaseBuffer
  <2>1. UNCHANGED <<cache, deviceBufferList, collected, frame>> /\ pc'["deliver"] = pc["deliver"]
    BY <1>0, <1>3
       DEF RequestBuffer, AddBuffer, TakeFlushed, ReleaseBuffer, Goto, nodes, Threads
  <2> QED
    BY <2>1, SamePlace
<1>4. CASE StartBuffer
  <2>1. UNCHANGED <<cache, deviceBufferList, collected, frame, pc>>
    BY <1>4 DEF StartBuffer, nodes, hands
  <2> QED
    BY <2>1, SamePlace
<1>5. CASE FlushBuffer
  <2>1. UNCHANGED <<cache, deviceBufferList, collected>> /\ ~InLine /\ ~InLine'
    BY <1>0, <1>5 DEF FlushBuffer, Goto, nodes, InLine, Threads
  <2> QED
    BY <2>1, SamePlace
<1>6. CASE AppendBuffer \/ LoadBuffer \/ FillCache \/ PassCache
  BY <1>6, AppendKeepsLine, LoadKeepsLine, FillKeepsLine, PassKeepsLine
<1>7. CASE AcquireBuffer \/ ReturnBuffer
  BY <1>7, AcquireEnters, ReturnLeaves
<1> QED
  BY <1>1, <1>2, <1>3, <1>4, <1>5, <1>6, <1>7
     DEF Next, Enqueue, Collect, Deliver, Consume, QuietStep
-----------------------------------------------------------------------------
(* When the loop turns.                                                    *)

\* What the source node has cached and what it still wants make up its size, and
\* no buffer passes it before it has what it wants.
CacheInv ==
  /\ Len(cache) + cacheSize = CacheSize
  /\ pc["deliver"] = "sink" => cacheSize = 0

LEMMA LastAndFirst ==
  ASSUME NEW S, NEW s \in Seq(S), NEW b \in S
  PROVE  /\ Len(s \o <<b>>) = Len(s) + 1 /\ Len(s) \in Nat
         /\ s # <<>> => Len(Tail(s) \o <<b>>) = Len(s)
<1>1. <<b>> \in Seq(S) /\ Len(<<b>>) = 1
  OBVIOUS
<1>2. Len(s \o <<b>>) = Len(s) + 1 /\ Len(s) \in Nat
  BY <1>1, ConcatProperties, LenProperties
<1>3. ASSUME s # <<>> PROVE Len(Tail(s) \o <<b>>) = Len(s)
  <2>1. Tail(s) \in Seq(S) /\ Len(Tail(s)) = Len(s) - 1
    BY <1>3, HeadTailProperties
  <2> QED
    BY <1>1, <1>2, <2>1, ConcatProperties
<1> QED
  BY <1>2, <1>3

LEMMA CacheStep == ASSUME Inv, CacheInv, [Next]_vars PROVE CacheInv'
<1>t. /\ cache \in Seq(Buffers) /\ cacheSize \in Nat /\ CacheSize \in Nat /\ Len(cache) \in Nat
      /\ pc \in [Threads -> TestPCs \cup ThreadPCs]
  BY LenProperties, BufferLoopAssumption DEF Inv, TypeOK
<1>f. ASSUME pc["deliver"] = "source"
      PROVE  frame[1] \in Buffers /\ frame = <<frame[1]>>
  BY <1>f, HandTyped, Typed DEF Inv, PlaceInv
<1>1. CASE FillCache
  <2>1. /\ cache' = cache \o frame /\ cacheSize' = cacheSize - 1 /\ cacheSize > 0
        /\ pc["deliver"] = "source" /\ pc'["deliver"] = "loop"
    BY <1>1, <1>t DEF FillCache, Goto, Threads
  <2>2. Len(cache') = Len(cache) + 1
    <3>1. PICK b \in Buffers : frame = <<b>>
      BY <1>f, <2>1
    <3>2. cache' = cache \o <<b>>
      BY <2>1, <3>1
    <3> QED
      BY <1>t, <3>2, LastAndFirst
  <2> DEFINE n == Len(cache)
  <2>3. n \in Nat /\ Len(cache') = n + 1 /\ n + cacheSize = CacheSize
    BY <1>t, <2>2 DEF CacheInv
  <2> HIDE DEF n
  <2> QED
    BY <1>t, <2>1, <2>3 DEF CacheInv
<1>2. CASE PassCache
  <2>1. cacheSize' = cacheSize /\ cacheSize = 0 /\ pc["deliver"] = "source"
    BY <1>2 DEF PassCache
  <2>2. CASE cache = <<>>
    BY <1>2, <2>1, <2>2 DEF PassCache, CacheInv
  <2>3. CASE cache # <<>>
    <3>1. cache' = Tail(cache) \o frame
      BY <1>2, <2>3 DEF PassCache
    <3>2. Len(cache') = Len(cache)
      <4>1. PICK b \in Buffers : frame = <<b>>
        BY <1>f, <2>1
      <4>2. cache' = Tail(cache) \o <<b>>
        BY <3>1, <4>1
      <4> QED
        BY <1>t, <2>3, <4>2, LastAndFirst
    <3> QED
      BY <2>1, <3>2 DEF CacheInv
  <2> QED
    BY <2>2, <2>3
<1>3. CASE ~FillCache /\ ~PassCache
  <2>1. UNCHANGED <<cache, cacheSize>>
    BY <1>3
       DEF Next, Enqueue, Collect, Deliver, Consume, Loop, RequestBuffer, AddBuffer,
           AcquireBuffer, AcquireTimeout, AppendBuffer, LoadBuffer, ReturnBuffer,
           FlushBuffer, TakeFlushed, ReleaseBuffer, StartBuffer, StartThreads, StopTest,
           Join, JoinEnqueue, JoinCollect, JoinDeliver, JoinConsume, nodes, vars
  <2>2. pc'["deliver"] = "sink" => pc["deliver"] = "sink"
    BY <1>3, <1>t
       DEF Next, Enqueue, Collect, Deliver, Consume, Loop, RequestBuffer, AddBuffer,
           AcquireBuffer, AcquireTimeout, AppendBuffer, LoadBuffer, ReturnBuffer,
           FlushBuffer, TakeFlushed, ReleaseBuffer, StartBuffer, StartThreads, StopTest,
           Join, JoinEnqueue, JoinCollect, JoinDeliver, JoinConsume, Goto, Threads, vars
  <2> QED
    BY <2>1, <2>2 DEF CacheInv
<1> QED
  BY <1>1, <1>2, <1>3

\* The buffers between the pool and its return; a buffer of the surface gets
\* there only if bufferVec_ knows it.
Pooled == ToSet(idle) \cup ToSet(cache) \cup ToSet(frame)
            \cup ToSet(deviceBufferList) \cup ToSet(collected)

KnownInv == producer => Pooled \subseteq bufferVec

LEMMA PooledBuffers ==
  ASSUME Inv
  PROVE  /\ idle \in Seq(Buffers) /\ cache \in Seq(Buffers) /\ deviceBufferList \in Seq(Buffers)
         /\ requested \in Seq(Buffers) /\ collected \in Seq(Buffers) /\ frame \in Seq(Buffers)
         /\ ToSet(<<>>) = {}
<1>1. ASSUME NEW h \in Hand PROVE h \in Seq(Buffers)
  BY <1>1, HandTyped, EmptySeq
<1> QED
  BY <1>1, Typed, NoBuffer DEF Inv

\* Nothing but AddBuffer and StartBuffer brings a buffer into the pool.
LEMMA PoolIsClosed ==
  ASSUME Inv, [Next]_vars, ~AddBuffer, ~StartBuffer
  PROVE  Pooled' \subseteq Pooled /\ UNCHANGED <<producer, bufferVec>>
<1>t. /\ idle \in Seq(Buffers) /\ cache \in Seq(Buffers) /\ deviceBufferList \in Seq(Buffers)
      /\ collected \in Seq(Buffers) /\ frame \in Seq(Buffers)
      /\ ToSet(<<>>) = {}
  BY PooledBuffers
<1>1. UNCHANGED <<producer, bufferVec>>
  BY DEF Next, Enqueue, Collect, Deliver, Consume, Loop, RequestBuffer, AcquireBuffer,
         AcquireTimeout, AppendBuffer, LoadBuffer, FillCache, PassCache, ReturnBuffer,
         FlushBuffer, TakeFlushed, ReleaseBuffer, StartThreads, StopTest, Join, JoinEnqueue,
         JoinCollect, JoinDeliver, JoinConsume, stream, vars
<1>2. CASE AcquireBuffer
  <2>1. /\ UNCHANGED <<cache, frame, deviceBufferList>>
        /\ idle # <<>> /\ collected' = <<idle[1]>> /\ idle' = Tail(idle)
    BY <1>2 DEF AcquireBuffer, nodes
  <2>2. idle[1] \in Buffers /\ ToSet(idle) = {idle[1]} \cup ToSet(Tail(idle))
    BY <1>t, <2>1, TakeFirst
  <2>3. ToSet(collected') = {idle[1]}
    BY <2>1, <2>2, OneBuffer
  <2> QED
    BY <1>1, <2>1, <2>2, <2>3 DEF Pooled
<1>3. CASE AppendBuffer
  <2>1. /\ UNCHANGED <<idle, cache, frame>>
        /\ deviceBufferList' = deviceBufferList \o collected /\ collected' = <<>>
    BY <1>3 DEF AppendBuffer, pool, nodes
  <2>2. ToSet(deviceBufferList') = ToSet(deviceBufferList) \cup ToSet(collected)
    BY <1>t, <2>1, ConcatSet
  <2> QED
    BY <1>1, <1>t, <2>1, <2>2 DEF Pooled
<1>4. CASE LoadBuffer
  <2>1. UNCHANGED <<idle, cache, collected>>
    BY <1>4 DEF LoadBuffer, pool, nodes
  <2>2. CASE deviceBufferList = <<>>
    BY <1>1, <1>4, <2>1, <2>2 DEF LoadBuffer, Pooled
  <2>3. CASE deviceBufferList # <<>>
    <3>1. /\ frame' = <<deviceBufferList[1]>> /\ deviceBufferList' = Tail(deviceBufferList)
      BY <1>4, <2>3 DEF LoadBuffer
    <3>2. /\ deviceBufferList[1] \in Buffers
          /\ ToSet(deviceBufferList) = {deviceBufferList[1]} \cup ToSet(Tail(deviceBufferList))
      BY <1>t, <2>3, TakeFirst
    <3>3. ToSet(frame') = {deviceBufferList[1]}
      BY <3>1, <3>2, OneBuffer
    <3> QED
      BY <1>1, <2>1, <3>1, <3>2, <3>3 DEF Pooled
  <2> QED
    BY <2>2, <2>3
<1>5. CASE FillCache
  <2>1. /\ UNCHANGED <<idle, deviceBufferList, collected>>
        /\ cache' = cache \o frame /\ frame' = <<>>
    BY <1>5 DEF FillCache, pool
  <2>2. ToSet(cache') = ToSet(cache) \cup ToSet(frame)
    BY <1>t, <2>1, ConcatSet
  <2> QED
    BY <1>1, <1>t, <2>1, <2>2 DEF Pooled
<1>6. CASE PassCache
  <2>1. UNCHANGED <<idle, deviceBufferList, collected>>
    BY <1>6 DEF PassCache, pool
  <2>2. CASE cache = <<>>
    BY <1>1, <1>6, <2>1, <2>2 DEF PassCache, Pooled
  <2>3. CASE cache # <<>>
    <3>1. frame' = <<cache[1]>> /\ cache' = Tail(cache) \o frame
      BY <1>6, <2>3 DEF PassCache
    <3>2. /\ cache[1] \in Buffers /\ Tail(cache) \in Seq(Buffers)
          /\ ToSet(cache) = {cache[1]} \cup ToSet(Tail(cache))
      BY <1>t, <2>3, TakeFirst
    <3>3. ToSet(frame') = {cache[1]}
      BY <3>1, <3>2, OneBuffer
    <3>4. ToSet(cache') = ToSet(Tail(cache)) \cup ToSet(frame)
      <4>1. PICK rest \in Seq(Buffers) : rest = Tail(cache)
        BY <3>2
      <4>2. ToSet(rest \o frame) = ToSet(rest) \cup ToSet(frame)
        BY <1>t, ConcatSet
      <4> QED
        BY <3>1, <4>1, <4>2
    <3> QED
      BY <1>1, <2>1, <3>2, <3>3, <3>4 DEF Pooled
  <2> QED
    BY <2>2, <2>3
<1>7. CASE ReturnBuffer
  <2>1. UNCHANGED <<cache, deviceBufferList, collected>>
    BY <1>7 DEF ReturnBuffer, nodes
  <2>2. CASE producer
    BY <1>1, <1>7, <2>1, <2>2 DEF ReturnBuffer, Pooled
  <2>3. CASE ~producer
    <3>1. idle' = idle \o frame /\ frame' = <<>>
      BY <1>7, <2>3 DEF ReturnBuffer
    <3>2. ToSet(idle') = ToSet(idle) \cup ToSet(frame)
      BY <1>t, <3>1, ConcatSet
    <3> QED
      BY <1>1, <1>t, <2>1, <3>1, <3>2 DEF Pooled
  <2> QED
    BY <2>2, <2>3
<1>8. CASE FlushBuffer
  <2>1. UNCHANGED <<idle, cache, deviceBufferList, collected>> /\ frame' = <<>>
    BY <1>8 DEF FlushBuffer, pool, nodes
  <2> QED
    BY <1>1, <1>t, <2>1 DEF Pooled
<1>9. CASE /\ ~AcquireBuffer /\ ~AppendBuffer /\ ~LoadBuffer /\ ~FillCache /\ ~PassCache
           /\ ~ReturnBuffer /\ ~FlushBuffer
  <2>1. UNCHANGED <<idle, cache, frame, deviceBufferList, collected>>
    BY <1>9
       DEF Next, Enqueue, Collect, Deliver, Consume, Loop, RequestBuffer, AcquireTimeout,
           TakeFlushed, ReleaseBuffer, StartThreads, StopTest, Join, JoinEnqueue,
           JoinCollect, JoinDeliver, JoinConsume, pool, nodes, hands, vars
  <2> QED
    BY <1>1, <2>1 DEF Pooled
<1> QED
  BY <1>2, <1>3, <1>4, <1>5, <1>6, <1>7, <1>8, <1>9

LEMMA KnownStep == ASSUME Inv, KnownInv, [Next]_vars PROVE KnownInv'
<1>t. idle \in Seq(Buffers) /\ requested \in Seq(Buffers)
  BY PooledBuffers
<1>1. CASE AddBuffer
  <2>1. /\ UNCHANGED <<producer, bufferVec, cache, frame, deviceBufferList, collected>>
        /\ pc["enqueue"] = "add"
        /\ \/ requested[1] \in bufferVec /\ idle' = idle \o requested
           \/ idle' = idle
    BY <1>1 DEF AddBuffer, stream, nodes
  <2>2. ToSet(requested) = {requested[1]}
    BY <2>1, Typed, HandTyped DEF Inv, PlaceInv
  <2>3. ToSet(idle \o requested) = ToSet(idle) \cup ToSet(requested)
    BY <1>t, ConcatSet
  <2> QED
    BY <2>1, <2>2, <2>3 DEF KnownInv, Pooled
<1>2. CASE StartBuffer
  <2>1. /\ UNCHANGED <<producer, cache, frame, deviceBufferList, collected>>
        /\ started + 1 \in Buffers
        /\ \/ /\ bufferVec' = bufferVec \cup {started + 1}
              /\ idle' = idle \o <<started + 1>>
           \/ bufferVec' = bufferVec /\ idle' = idle
    BY <1>2, BufferLoopAssumption DEF StartBuffer, stream, nodes, hands, Buffers, Inv, TypeOK
  <2>2. ToSet(idle \o <<started + 1>>) = ToSet(idle) \cup {started + 1}
    BY <1>t, <2>1, AddLast
  <2> QED
    BY <2>1, <2>2 DEF KnownInv, Pooled
<1>3. CASE ~AddBuffer /\ ~StartBuffer
  BY <1>3, PoolIsClosed DEF KnownInv
<1> QED
  BY <1>1, <1>2, <1>3
LEMMA DistinctCount ==
  ASSUME NEW S, NEW s \in Seq(S), IsInjective(s)
  PROVE  IsFiniteSet(ToSet(s)) /\ Cardinality(ToSet(s)) = Len(s)
<1>1. Len(s) \in Nat /\ s \in [1 .. Len(s) -> ToSet(s)]
  BY LenProperties, SeqSet
<1>2. /\ \A i, j \in 1 .. Len(s) : s[i] = s[j] => i = j
      /\ \A x \in ToSet(s) : \E i \in 1 .. Len(s) : s[i] = x
  BY SeqSet
<1>3. ExistsBijection(1 .. Len(s), ToSet(s))
  BY <1>1, <1>2 DEF ExistsBijection, Bijection, Injection, Surjection, IsInjective
<1>4. Cardinality(ToSet(s)) = Len(s)
  BY <1>1, <1>3, FS_CountingElements
<1>5. IsFiniteSet(1 .. Len(s))
  BY <1>1, FS_Interval
<1> QED
  BY <1>3, <1>4, <1>5, FS_Bijection

LEMMA CirculatingFinite == ASSUME Inv PROVE IsFiniteSet(Circulating)
<1>1. IsFiniteSet(Buffers)
  BY FS_Interval, BufferLoopAssumption DEF Buffers
<1>2. Circulating \subseteq Buffers
  BY Typed DEF Circulating, Inv
<1> QED
  BY <1>1, <1>2, FS_Subset

\* A buffer reaches the sink behind a full cache: it and the cached ones are one
\* more than the cache holds, and all of them go round.
LEMMA OutMeansEnough ==
  ASSUME Inv, CacheInv, KnownInv, pc["deliver"] = "sink"
  PROVE  Enough
<1> DEFINE b == frame[1]
           c == ToSet(cache)
<1>1. /\ cache \in Seq(Buffers) /\ IsInjective(cache) /\ Len(cache) = CacheSize
      /\ CacheSize \in Nat
  BY Typed, LenProperties, BufferLoopAssumption DEF Inv, UniqueInv, CacheInv
<1>2. b \in Buffers /\ ToSet(frame) = {b}
  BY HandTyped, Typed DEF Inv, PlaceInv
<1>3. IsFiniteSet(c) /\ Cardinality(c) = CacheSize
  BY <1>1, DistinctCount
<1>4. b \notin c /\ b \notin lost
  <2>1. b \in Held("frame")
    BY <1>2 DEF Held
  <2>2. b \notin Held("cache") /\ b \notin Held("lost")
    BY <1>2, <2>1, Apart DEF Inv, Places
  <2> QED
    BY <2>2 DEF Held
<1>5. ASSUME NEW x \in c PROVE x \in Buffers /\ x \notin lost
  <2>1. x \in Buffers /\ x \in Held("cache")
    BY <1>1, <1>5, SeqSet DEF Held
  <2>2. x \notin Held("lost")
    BY <2>1, Apart DEF Inv, Places
  <2> QED
    BY <2>1, <2>2 DEF Held
<1>6. c \cup {b} \subseteq Circulating
  <2>1. producer => b \in bufferVec /\ c \subseteq bufferVec
    BY <1>2 DEF KnownInv, Pooled
  <2> QED
    BY <1>2, <1>4, <1>5, <2>1 DEF Circulating
<1> HIDE DEF b, c
<1>7. Cardinality(c \cup {b}) = CacheSize + 1
  BY <1>3, <1>4, FS_AddElement
<1>8. /\ Cardinality(c \cup {b}) <= Cardinality(Circulating)
      /\ Cardinality(Circulating) \in Nat
  BY <1>6, CirculatingFinite, FS_Subset, FS_CardinalityType
<1> QED
  BY <1>1, <1>7, <1>8 DEF Enough

\* The cache alone never holds all the buffers that go round, if they are enough.
LEMMA CacheLeavesOne ==
  ASSUME Inv, CacheInv, Enough
  PROVE  \E b \in Circulating : b \notin ToSet(cache)
<1>1. /\ cache \in Seq(Buffers) /\ IsInjective(cache) /\ Len(cache) \in Nat
      /\ Len(cache) + cacheSize = CacheSize /\ cacheSize \in Nat /\ CacheSize \in Nat
  BY Typed, LenProperties, BufferLoopAssumption DEF Inv, UniqueInv, CacheInv, TypeOK
<1>2. IsFiniteSet(ToSet(cache)) /\ Cardinality(ToSet(cache)) = Len(cache)
  BY <1>1, DistinctCount
<1>3. Cardinality(ToSet(cache)) <= CacheSize
  BY <1>1, <1>2
<1>4. CASE Circulating \subseteq ToSet(cache)
  <2>1. /\ Cardinality(Circulating) <= Cardinality(ToSet(cache))
        /\ Cardinality(Circulating) \in Nat /\ Cardinality(ToSet(cache)) \in Nat
    BY <1>2, <1>4, FS_Subset, FS_CardinalityType
  <2> QED
    BY <1>1, <1>3, <2>1 DEF Enough
<1> QED
  BY <1>4

\* Once the stream has started nothing adds to the buffers that go round.
LEMMA NoneJoins ==
  ASSUME Inv, [Next]_vars, pc["test"] # "start"
  PROVE  Circulating' \subseteq Circulating
<1>1. UNCHANGED <<producer, bufferVec>> /\ lost \subseteq lost'
  BY DEF Next, Enqueue, Collect, Deliver, Consume, Loop, RequestBuffer, AddBuffer,
         AcquireBuffer, AcquireTimeout, AppendBuffer, LoadBuffer, FillCache, PassCache,
         ReturnBuffer, FlushBuffer, TakeFlushed, ReleaseBuffer, StartBuffer, StartThreads,
         StopTest, Join, JoinEnqueue, JoinCollect, JoinDeliver, JoinConsume,
         surface, stream, vars
<1> QED
  BY <1>1 DEF Circulating, Buffers

LEMMA TooFewStaysTooFew ==
  ASSUME Inv, [Next]_vars, pc["test"] # "start", ~Enough
  PROVE  ~Enough'
<1>1. /\ IsFiniteSet(Circulating) /\ IsFiniteSet(Circulating')
      /\ Cardinality(Circulating') <= Cardinality(Circulating)
  BY NoneJoins, CirculatingFinite, FS_Subset
<1>2. Cardinality(Circulating) \in Nat /\ Cardinality(Circulating') \in Nat
  BY <1>1, FS_CardinalityType
<1> QED
  BY <1>1, <1>2, BufferLoopAssumption DEF Enough

TurnInv == Inv /\ CacheInv /\ KnownInv

LEMMA AlwaysTurnInv == Spec => []TurnInv
<1>1. Init => CacheInv /\ KnownInv
  <2> SUFFICES ASSUME Init PROVE CacheInv /\ KnownInv
    OBVIOUS
  <2>1. PICK e : e = <<>> /\ ToSet(e) = {} /\ Len(e) = 0
    BY NoBuffer
  <2>2. /\ cache = e /\ frame = e /\ deviceBufferList = e /\ collected = e
        /\ producer => idle = e
    BY <2>1 DEF Init
  <2>3. cacheSize = CacheSize /\ pc["deliver"] # "sink"
    BY DEF Init, Threads
  <2>4. CacheInv
    BY <2>1, <2>2, <2>3, BufferLoopAssumption DEF CacheInv
  <2>5. ASSUME producer PROVE Pooled = {}
    BY <2>1, <2>2, <2>5 DEF Pooled
  <2> QED
    BY <2>4, <2>5 DEF KnownInv
<1>2. Inv /\ CacheInv /\ [Next]_vars => CacheInv'
  BY CacheStep
<1>3. Inv /\ KnownInv /\ [Next]_vars => KnownInv'
  BY KnownStep
<1> QED
  BY <1>1, <1>2, <1>3, AlwaysInv, PTL DEF Spec, TurnInv
-----------------------------------------------------------------------------
(* When the test ends.                                                     *)

Workers == Threads \ {"test"}

Flag(t) == IF t \in {"enqueue", "consume"} THEN testRunning ELSE running

\* The steps a thread has left before it ends, once its flag is down.
Left(p) ==
  CASE p \in {"none", "ended"} -> 0
    [] p = "loop" -> 1
    [] p \in {"add", "append", "flush", "release"} -> 2
    [] p \in {"request", "acquire", "sink", "take"} -> 3
    [] p = "source" -> 4
    [] p = "load" -> 5

StopInv ==
  /\ pc \in [Threads -> TestPCs \cup ThreadPCs]
  /\ testRunning <=> pc["test"] \in {"start", "run"}
  /\ running <=> pc["test"] \in {"start", "run", "joinEnqueue"}
  /\ pc["consume"] = "none" <=> ~producer
  /\ pc["test"] # "start" => \A t \in {"enqueue", "collect", "deliver"} : pc[t] # "none"
  /\ pc["test"] = "joinConsume" => producer

LEMMA LeftValues ==
  /\ Left("ended") = 0 /\ Left("loop") = 1
  /\ Left("add") = 2 /\ Left("append") = 2 /\ Left("flush") = 2 /\ Left("release") = 2
  /\ Left("request") = 3 /\ Left("acquire") = 3 /\ Left("sink") = 3 /\ Left("take") = 3
  /\ Left("source") = 4 /\ Left("load") = 5
  BY DEF Left

\* A step of a thread moves that thread alone, never before it was started, and
\* nearer to its end if its flag is down.
Advances(u, p) ==
  /\ p \in ThreadPCs \ {"none"}
  /\ pc' = [pc EXCEPT ![u] = p]
  /\ pc[u] # "none"
  /\ ~Flag(u) => Left(p) < Left(pc[u])

LEMMA EnqueueAdvances ==
  ASSUME Enqueue PROVE \E p \in ThreadPCs : Advances("enqueue", p)
<1>1. CASE Loop("enqueue", testRunning, "request")
  <2>1. /\ pc["enqueue"] = "loop"
        /\ \/ testRunning /\ pc' = [pc EXCEPT !["enqueue"] = "request"]
           \/ pc' = [pc EXCEPT !["enqueue"] = "ended"]
    BY <1>1 DEF Loop, Goto
  <2>2. Advances("enqueue", "request") \/ Advances("enqueue", "ended")
    BY <2>1, LeftValues DEF Advances, Flag, ThreadPCs
  <2> QED
    BY <2>2 DEF ThreadPCs
<1>2. CASE RequestBuffer
  <2>1. /\ pc["enqueue"] = "request"
        /\ \/ pc' = [pc EXCEPT !["enqueue"] = "loop"]
           \/ pc' = [pc EXCEPT !["enqueue"] = "add"]
    BY <1>2 DEF RequestBuffer, Goto
  <2>2. Advances("enqueue", "loop") \/ Advances("enqueue", "add")
    BY <2>1, LeftValues DEF Advances, ThreadPCs
  <2> QED
    BY <2>2 DEF ThreadPCs
<1>3. CASE AddBuffer
  <2>1. pc["enqueue"] = "add" /\ pc' = [pc EXCEPT !["enqueue"] = "loop"]
    BY <1>3 DEF AddBuffer, Goto
  <2>2. Advances("enqueue", "loop")
    BY <2>1, LeftValues DEF Advances, ThreadPCs
  <2> QED
    BY <2>2 DEF ThreadPCs
<1> QED
  BY <1>1, <1>2, <1>3 DEF Enqueue

LEMMA CollectAdvances ==
  ASSUME Collect PROVE \E p \in ThreadPCs : Advances("collect", p)
<1>1. CASE Loop("collect", running, "acquire")
  <2>1. /\ pc["collect"] = "loop"
        /\ \/ running /\ pc' = [pc EXCEPT !["collect"] = "acquire"]
           \/ pc' = [pc EXCEPT !["collect"] = "ended"]
    BY <1>1 DEF Loop, Goto
  <2>2. Advances("collect", "acquire") \/ Advances("collect", "ended")
    BY <2>1, LeftValues DEF Advances, Flag, ThreadPCs
  <2> QED
    BY <2>2 DEF ThreadPCs
<1>2. CASE AcquireBuffer
  <2>1. pc["collect"] = "acquire" /\ pc' = [pc EXCEPT !["collect"] = "append"]
    BY <1>2 DEF AcquireBuffer, Goto
  <2>2. Advances("collect", "append")
    BY <2>1, LeftValues DEF Advances, ThreadPCs
  <2> QED
    BY <2>2 DEF ThreadPCs
<1>3. CASE AcquireTimeout \/ AppendBuffer
  <2>1. pc["collect"] \in {"acquire", "append"} /\ pc' = [pc EXCEPT !["collect"] = "loop"]
    BY <1>3 DEF AcquireTimeout, AppendBuffer, Goto
  <2>2. Advances("collect", "loop")
    BY <2>1, LeftValues DEF Advances, ThreadPCs
  <2> QED
    BY <2>2 DEF ThreadPCs
<1> QED
  BY <1>1, <1>2, <1>3 DEF Collect

LEMMA DeliverAdvances ==
  ASSUME Deliver PROVE \E p \in ThreadPCs : Advances("deliver", p)
<1>1. CASE Loop("deliver", running, "load")
  <2>1. /\ pc["deliver"] = "loop"
        /\ \/ running /\ pc' = [pc EXCEPT !["deliver"] = "load"]
           \/ pc' = [pc EXCEPT !["deliver"] = "ended"]
    BY <1>1 DEF Loop, Goto
  <2>2. Advances("deliver", "load") \/ Advances("deliver", "ended")
    BY <2>1, LeftValues DEF Advances, Flag, ThreadPCs
  <2> QED
    BY <2>2 DEF ThreadPCs
<1>2. CASE LoadBuffer
  <2>1. /\ pc["deliver"] = "load"
        /\ \/ pc' = [pc EXCEPT !["deliver"] = "loop"]
           \/ pc' = [pc EXCEPT !["deliver"] = "source"]
    BY <1>2 DEF LoadBuffer, Goto
  <2>2. Advances("deliver", "loop") \/ Advances("deliver", "source")
    BY <2>1, LeftValues DEF Advances, ThreadPCs
  <2> QED
    BY <2>2 DEF ThreadPCs
<1>3. CASE FillCache \/ FlushBuffer
  <2>1. pc["deliver"] \in {"source", "flush"} /\ pc' = [pc EXCEPT !["deliver"] = "loop"]
    BY <1>3 DEF FillCache, FlushBuffer, Goto
  <2>2. Advances("deliver", "loop")
    BY <2>1, LeftValues DEF Advances, ThreadPCs
  <2> QED
    BY <2>2 DEF ThreadPCs
<1>4. CASE PassCache
  <2>1. pc["deliver"] = "source" /\ pc' = [pc EXCEPT !["deliver"] = "sink"]
    BY <1>4 DEF PassCache, Goto
  <2>2. Advances("deliver", "sink")
    BY <2>1, LeftValues DEF Advances, ThreadPCs
  <2> QED
    BY <2>2 DEF ThreadPCs
<1>5. CASE ReturnBuffer
  <2>1. /\ pc["deliver"] = "sink"
        /\ \/ pc' = [pc EXCEPT !["deliver"] = "loop"]
           \/ pc' = [pc EXCEPT !["deliver"] = "flush"]
    BY <1>5 DEF ReturnBuffer, Goto
  <2>2. Advances("deliver", "loop") \/ Advances("deliver", "flush")
    BY <2>1, LeftValues DEF Advances, ThreadPCs
  <2> QED
    BY <2>2 DEF ThreadPCs
<1> QED
  BY <1>1, <1>2, <1>3, <1>4, <1>5 DEF Deliver

LEMMA ConsumeAdvances ==
  ASSUME Consume PROVE \E p \in ThreadPCs : Advances("consume", p)
<1>1. CASE Loop("consume", testRunning, "take")
  <2>1. /\ pc["consume"] = "loop"
        /\ \/ testRunning /\ pc' = [pc EXCEPT !["consume"] = "take"]
           \/ pc' = [pc EXCEPT !["consume"] = "ended"]
    BY <1>1 DEF Loop, Goto
  <2>2. Advances("consume", "take") \/ Advances("consume", "ended")
    BY <2>1, LeftValues DEF Advances, Flag, ThreadPCs
  <2> QED
    BY <2>2 DEF ThreadPCs
<1>2. CASE TakeFlushed
  <2>1. /\ pc["consume"] = "take"
        /\ \/ pc' = [pc EXCEPT !["consume"] = "loop"]
           \/ pc' = [pc EXCEPT !["consume"] = "release"]
    BY <1>2 DEF TakeFlushed, Goto
  <2>2. Advances("consume", "loop") \/ Advances("consume", "release")
    BY <2>1, LeftValues DEF Advances, ThreadPCs
  <2> QED
    BY <2>2 DEF ThreadPCs
<1>3. CASE ReleaseBuffer
  <2>1. pc["consume"] = "release" /\ pc' = [pc EXCEPT !["consume"] = "loop"]
    BY <1>3 DEF ReleaseBuffer, Goto
  <2>2. Advances("consume", "loop")
    BY <2>1, LeftValues DEF Advances, ThreadPCs
  <2> QED
    BY <2>2 DEF ThreadPCs
<1> QED
  BY <1>1, <1>2, <1>3 DEF Consume

LEMMA StopStep ==
  ASSUME StopInv, [Next]_vars
  PROVE  /\ StopInv'
         /\ \A t \in Workers : ~Flag(t) /\ pc'[t] # pc[t] => Left(pc'[t]) < Left(pc[t])
<1>1. CASE Enqueue \/ Collect \/ Deliver \/ Consume
  <2>1. \E u \in Workers : \E p \in ThreadPCs : Advances(u, p)
    BY <1>1, EnqueueAdvances, CollectAdvances, DeliverAdvances, ConsumeAdvances
       DEF Workers, Threads
  <2>2. PICK u \in Workers, p \in ThreadPCs \ {"none"} :
          /\ pc' = [pc EXCEPT ![u] = p] /\ pc[u] # "none"
          /\ ~Flag(u) => Left(p) < Left(pc[u])
    BY <2>1 DEF Advances
  <2>3. UNCHANGED <<testRunning, running, producer>>
    BY <1>1
       DEF Enqueue, Collect, Deliver, Consume, Loop, RequestBuffer, AddBuffer,
           AcquireBuffer, AcquireTimeout, AppendBuffer, LoadBuffer, FillCache, PassCache,
           ReturnBuffer, FlushBuffer, TakeFlushed, ReleaseBuffer, switches, stream
  <2>4. /\ pc' \in [Threads -> TestPCs \cup ThreadPCs]
        /\ \A t \in Threads : pc'[t] = IF t = u THEN p ELSE pc[t]
        /\ u # "test" /\ p # "none"
    BY <2>2 DEF StopInv, Workers
  <2>5. StopInv'
    BY <2>2, <2>3, <2>4 DEF StopInv, Threads
  <2> QED
    BY <2>2, <2>4, <2>5 DEF Workers
<1>2. CASE StartBuffer \/ UNCHANGED vars
  <2>1. UNCHANGED <<testRunning, running, producer, pc>>
    BY <1>2 DEF StartBuffer, switches, stream, vars
  <2> QED
    BY <2>1 DEF StopInv
<1>3. CASE StartThreads
  <2>1. /\ UNCHANGED <<testRunning, running, producer>> /\ pc["test"] = "start"
        /\ pc' = [pc EXCEPT !["test"] = "run", !["enqueue"] = "loop",
                            !["collect"] = "loop", !["deliver"] = "loop"]
    BY <1>3 DEF StartThreads, switches, stream
  <2>2. testRunning /\ running
    BY <2>1 DEF StopInv
  <2>3. /\ pc' \in [Threads -> TestPCs \cup ThreadPCs]
        /\ pc'["test"] = "run" /\ pc'["consume"] = pc["consume"]
        /\ \A t \in {"enqueue", "collect", "deliver"} : pc'[t] = "loop"
    BY <2>1 DEF StopInv, Threads, TestPCs, ThreadPCs
  <2> QED
    BY <2>1, <2>2, <2>3 DEF StopInv, Flag
<1>4. CASE StopTest \/ Join
  <2>1. /\ UNCHANGED producer /\ pc["test"] # "start"
        /\ \/ /\ pc["test"] = "run" /\ pc' = [pc EXCEPT !["test"] = "joinEnqueue"]
              /\ testRunning' = FALSE /\ running' = running
           \/ /\ pc["test"] = "joinEnqueue" /\ pc' = [pc EXCEPT !["test"] = "joinCollect"]
              /\ testRunning' = testRunning /\ running' = FALSE
           \/ /\ pc["test"] \in {"joinCollect", "joinDeliver", "joinConsume"}
              /\ UNCHANGED <<testRunning, running>>
              /\ \/ pc' = [pc EXCEPT !["test"] = "joinDeliver"]
                 \/ pc' = [pc EXCEPT !["test"] = "over"]
                 \/ producer /\ pc' = [pc EXCEPT !["test"] = "joinConsume"]
    BY <1>4 DEF StopTest, Join, JoinEnqueue, JoinCollect, JoinDeliver, JoinConsume, Goto,
                switches, stream
  <2>2. /\ pc' \in [Threads -> TestPCs \cup ThreadPCs]
        /\ \A t \in Workers : pc'[t] = pc[t]
    BY <2>1 DEF StopInv, Workers, TestPCs, ThreadPCs
  <2>3. StopInv'
    BY <2>1, <2>2 DEF StopInv, Workers, Threads
  <2> QED
    BY <2>2, <2>3
<1> QED
  BY <1>1, <1>2, <1>3, <1>4 DEF Next

LEMMA AlwaysStopInv == Spec => []StopInv
<1>1. Init => StopInv
  BY DEF Init, StopInv, Threads, TestPCs, ThreadPCs
<1>2. StopInv /\ [Next]_vars => StopInv'
  BY StopStep
<1> QED
  BY <1>1, <1>2, PTL DEF Spec
-----------------------------------------------------------------------------
(* Theorems.                                                               *)

\* The variables of the loop keep their types: above all, no thread ever has
\* more than one buffer in its hands, and the source node never caches beyond
\* its size.
THEOREM TypeCorrect == Spec => []TypeOK
<1>1. Inv => TypeOK
  BY DEF Inv
<1> QED
  BY <1>1, AlwaysInv, PTL

\* Whatever the threads do, every buffer of the stream is in exactly one place.
THEOREM EveryBufferHasOneHolder == Spec => []OneHolder
  BY AlwaysInv, InvHolds, PTL

\* DequeueBuffer gives a buffer back to the pool before it flushes it: the pool
\* counts as lent what is in the pipeline, no more and no less.
THEOREM PoolCountsTheLine == Spec => []PoolHasLentTheLine
  BY AlwaysInv, InvLends, PTL

\* Whatever the five threads do, the pipeline is a queue: it takes one buffer
\* in or gives the oldest one out, and never has one twice.
THEOREM PipelineIsAQueue == Spec => OrderSpec
<1>1. Init => Order!Init
  <2> SUFFICES ASSUME Init PROVE Line = <<>>
    BY DEF Order!Init
  <2>1. Outgoing = <<>> /\ Incoming = <<>>
    BY DEF Init, Outgoing, Incoming
  <2>2. cache = <<>> /\ deviceBufferList = <<>> /\ collected = <<>>
    BY DEF Init
  <2>3. <<>> \o <<>> = <<>>
    BY Empty DEF Seqs
  <2> QED
    BY <2>1, <2>2, <2>3 DEF Line
<1>2. Inv /\ [Next]_vars => [Order!Next]_Line
  <2> SUFFICES ASSUME Inv, [Next]_vars PROVE [Order!Next]_Line
    OBVIOUS
  <2> QED
    BY LineSteps DEF Order!Next, Order!Leave, Order!Enter, ToSet, Order!ToSet
<1> QED
  BY <1>1, <1>2, AlwaysInv, PTL DEF Spec, OrderSpec, Order!Spec

\* A buffer comes out of the pipeline only while more go round than the source
\* node keeps back: a stream that StartExternalStream or a failing flush has left
\* with fewer delivers nothing at all.
THEOREM OutOnlyIfEnough == Spec => [](pc["deliver"] = "sink" => Enough)
<1>1. TurnInv => (pc["deliver"] = "sink" => Enough)
  BY OutMeansEnough DEF TurnInv
<1> QED
  BY <1>1, AlwaysTurnInv, PTL

\* While enough go round, the source node never has them all: there is always one
\* that some other thread or list can bring to it.
THEOREM TheCacheIsNeverAll ==
  Spec => [](Enough => \E b \in Circulating : b \notin ToSet(cache))
<1> DEFINE LeftOut == Enough => \E b \in Circulating : b \notin ToSet(cache)
<1>1. TurnInv => LeftOut
  BY CacheLeavesOne DEF TurnInv
<1> QED
  BY <1>1, AlwaysTurnInv, PTL

\* What is lost while the stream runs is lost for good: with too few buffers left
\* it never delivers again.
THEOREM TooFewForGood == Spec => [][pc["test"] # "start" /\ ~Enough => ~Enough']_vars
<1>1. Inv /\ [Next]_vars => [pc["test"] # "start" /\ ~Enough => ~Enough']_vars
  BY TooFewStaysTooFew
<1> QED
  BY <1>1, AlwaysInv, PTL DEF Spec

\* TestEnds without the scheduler, first half: a join waits for a thread that was
\* started, and whose flag is down.
THEOREM JoinsStoppedThreads ==
  Spec => []( /\ pc["test"] = "joinEnqueue" => pc["enqueue"] # "none" /\ ~Flag("enqueue")
              /\ pc["test"] = "joinCollect" => pc["collect"] # "none" /\ ~Flag("collect")
              /\ pc["test"] = "joinDeliver" => pc["deliver"] # "none" /\ ~Flag("deliver")
              /\ pc["test"] = "joinConsume" => pc["consume"] # "none" /\ ~Flag("consume") )
<1> DEFINE Joinable ==
      /\ pc["test"] = "joinEnqueue" => pc["enqueue"] # "none" /\ ~Flag("enqueue")
      /\ pc["test"] = "joinCollect" => pc["collect"] # "none" /\ ~Flag("collect")
      /\ pc["test"] = "joinDeliver" => pc["deliver"] # "none" /\ ~Flag("deliver")
      /\ pc["test"] = "joinConsume" => pc["consume"] # "none" /\ ~Flag("consume")
<1>1. StopInv => Joinable
  BY DEF StopInv, Flag
<1> QED
  BY <1>1, AlwaysStopInv, PTL

\* Second half: a thread whose flag is down gets nearer to its end with every step
\* it takes, whatever the buffers, the pool and the surface do.
THEOREM StoppedThreadsRunOut ==
  Spec => [][\A t \in Workers : ~Flag(t) /\ pc'[t] # pc[t] => Left(pc'[t]) < Left(pc[t])]_vars
<1>1. StopInv /\ [Next]_vars =>
        [\A t \in Workers : ~Flag(t) /\ pc'[t] # pc[t] => Left(pc'[t]) < Left(pc[t])]_vars
  BY StopStep
<1> QED
  BY <1>1, AlwaysStopInv, PTL DEF Spec
=============================================================================
