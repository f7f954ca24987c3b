----------------------- MODULE Eventfd2ApiTestProofs -----------------------
(***************************************************************************)
(* What holds of the tests of eventfd2 for any number of threads, writes   *)
(* and reads.                                                              *)
(*                                                                         *)
(* That no thread outlives the locals of its test is a fact about the end  *)
(* of the test.  JoinInv follows the test thread to it: the workers it has *)
(* joined have ended, and a read that comes after the joins, as the last   *)
(* call of the test does, comes after all of them.                         *)
(*                                                                         *)
(* The totals need sums over all workers and over all writes of one.  Sum  *)
(* is a recursive function, so what it does is proved by induction, from   *)
(* the pigeonhole principle of finite sets: that the function exists, that *)
(* changing one element changes it by the difference, and what it is for   *)
(* elements that are all alike.  With these each write, read and join      *)
(* keeps the Ledger balanced, and at the end of a test the Ledger and what *)
(* Expect knows of the test give the total its EXPECT looks for.           *)
(***************************************************************************)
EXTENDS Eventfd2ApiTest, SequenceTheorems, FiniteSetTheorems, TLAPS

\* A worker either writes or reads.
Work == {w \in [values : Seq(Nat), reads : Nat] : w.values = <<>> \/ w.reads = 0}

\* Where a test reads, and that a test that forks reads before it waits.
TestTyped(t) ==
  /\ t.workers \in Seq(Work) /\ Len(t.workers) \in Nat \ {0}
  /\ t.initial \in Nat
  /\ t.forks \in BOOLEAN
  /\ t.read \in {"never", "started", "joined"}
  /\ t.forks => t.read = "started"

PlaceInv ==
  /\ pc = "create" => created < Workers /\ joined = 0
  /\ pc = "pipe" => test.forks /\ joined = 0
  /\ pc = "read" /\ test.read = "started" => joined = 0
  /\ pc = "join" => joined < Workers
  /\ \A t \in DOMAIN worker : t > created => worker[t].pc = "none"

JoinInv ==
  /\ \A t \in 1 .. joined : worker[t].pc = "ended"
  /\ pc = "read" => test.read = "started" \/ joined = Workers
  /\ pc = "over" /\ ~failed => joined = Workers
-----------------------------------------------------------------------------
LEMMA ManyIsSeq ==
  ASSUME NEW w \in Work
  PROVE  /\ Many(w) \in Seq(Work)
         /\ Len(Many(w)) = Threads
<1>1. Threads \in Nat
  BY SizeAssumption
<1>2. Many(w) \in [1 .. Threads -> Work]
  BY DEF Many
<1> QED
  BY <1>1, <1>2, SMTT(30)

LEMMA WorkTyped ==
  /\ ManyWrites \in Work
  /\ Reader(Reads) \in Work /\ Reader(Writes) \in Work
  /\ Writer(<<9>>) \in Work /\ Writer(<<5, 3>>) \in Work
<1>1. [n \in 1 .. Writes |-> 1] \in Seq(Nat)
  BY SizeAssumption
<1>2. <<>> \in Seq(Nat) /\ <<9>> \in Seq(Nat) /\ <<5, 3>> \in Seq(Nat)
  OBVIOUS
<1> QED
  BY <1>1, <1>2, SizeAssumption DEF Work, Writer, Reader, ManyWrites

LEMMA OneWorker ==
  ASSUME NEW w \in Work
  PROVE  <<w>> \in Seq(Work) /\ Len(<<w>>) = 1
OBVIOUS

LEMMA TwoWorkers ==
  ASSUME NEW v \in Work, NEW w \in Work
  PROVE  <<v, w>> \in Seq(Work) /\ Len(<<v, w>>) = 2
OBVIOUS

LEMMA ReadersAndWriters ==
  ASSUME NEW v \in Work, NEW w \in Work
  PROVE  /\ Many(v) \o Many(w) \in Seq(Work)
         /\ Len(Many(v) \o Many(w)) = Threads + Threads
<1>1. /\ Many(v) \in Seq(Work) /\ Len(Many(v)) = Threads
      /\ Many(w) \in Seq(Work) /\ Len(Many(w)) = Threads
  BY ManyIsSeq
<1> QED
  BY <1>1, ConcatProperties

LEMMA TestsTyped == ASSUME NEW t \in Tests PROVE TestTyped(t)
<1>w. /\ ManyWrites \in Work
      /\ Reader(Reads) \in Work /\ Reader(Writes) \in Work
      /\ Writer(<<9>>) \in Work /\ Writer(<<5, 3>>) \in Work
  BY WorkTyped
<1>n. /\ Threads \in Nat \ {0} /\ Threads + Threads \in Nat \ {0} /\ Units \in Nat
      /\ 0 \in Nat /\ 1 \in Nat \ {0} /\ 2 \in Nat \ {0}
  BY SizeAssumption
<1>1. CASE t = ReadTiming_0055
  <2>1. /\ t.workers = <<ManyWrites, Reader(Writes)>> /\ t.initial = 0
        /\ t.forks = FALSE /\ t.read = "never"
    BY <1>1 DEF ReadTiming_0055
  <2>2. t.workers \in Seq(Work) /\ Len(t.workers) \in Nat \ {0}
    BY <2>1, <1>w, <1>n, TwoWorkers
  <2> QED
    BY <2>1, <2>2, <1>n, Zenon DEF TestTyped
<1>2. CASE t = WriteTiming_0060
  <2>1. /\ t.workers = <<ManyWrites, ManyWrites>> /\ t.initial = 0
        /\ t.forks = FALSE /\ t.read = "joined"
    BY <1>2 DEF WriteTiming_0060
  <2>2. t.workers \in Seq(Work) /\ Len(t.workers) \in Nat \ {0}
    BY <2>1, <1>w, <1>n, TwoWorkers
  <2> QED
    BY <2>1, <2>2, <1>n, Zenon DEF TestTyped
<1>3. CASE t = StateBlockingRead_0070
  <2>1. /\ t.workers = <<Writer(<<9>>)>> /\ t.initial = 0
        /\ t.forks = FALSE /\ t.read = "started"
    BY <1>3 DEF StateBlockingRead_0070
  <2>2. t.workers \in Seq(Work) /\ Len(t.workers) \in Nat \ {0}
    BY <2>1, <1>w, <1>n, OneWorker
  <2> QED
    BY <2>1, <2>2, <1>n, Zenon DEF TestTyped
<1>4. CASE t = ConcurrentRead_0076
  <2>1. /\ t.workers = Many(Reader(Reads)) /\ t.initial = Units
        /\ t.forks = FALSE /\ t.read = "never"
    BY <1>4 DEF ConcurrentRead_0076
  <2>2. t.workers \in Seq(Work) /\ Len(t.workers) \in Nat \ {0}
    BY <2>1, <1>w, <1>n, ManyIsSeq
  <2> QED
    BY <2>1, <2>2, <1>n, Zenon DEF TestTyped
<1>5. CASE t = ConcurrentWrite_0077
  <2>1. /\ t.workers = Many(ManyWrites) /\ t.initial = 0
        /\ t.forks = FALSE /\ t.read = "joined"
    BY <1>5 DEF ConcurrentWrite_0077
  <2>2. t.workers \in Seq(Work) /\ Len(t.workers) \in Nat \ {0}
    BY <2>1, <1>w, <1>n, ManyIsSeq
  <2> QED
    BY <2>1, <2>2, <1>n, Zenon DEF TestTyped
<1>6. CASE t = ConcurrentReadWrite_0078
  <2>1. /\ t.workers = Many(ManyWrites) \o Many(Reader(Writes)) /\ t.initial = 0
        /\ t.forks = FALSE /\ t.read = "joined"
    BY <1>6 DEF ConcurrentReadWrite_0078
  <2>2. t.workers \in Seq(Work) /\ Len(t.workers) \in Nat \ {0}
    BY <2>1, <1>w, <1>n, ReadersAndWriters
  <2> QED
    BY <2>1, <2>2, <1>n, Zenon DEF TestTyped
<1>7. CASE t = MassiveConcurrency_0081
  <2>1. /\ t.workers = Many(ManyWrites) \o Many(Reader(Writes)) /\ t.initial = 1
        /\ t.forks = FALSE /\ t.read = "never"
    BY <1>7 DEF MassiveConcurrency_0081, ConcurrentReadWrite_0078
  <2>2. t.workers \in Seq(Work) /\ Len(t.workers) \in Nat \ {0}
    BY <2>1, <1>w, <1>n, ReadersAndWriters
  <2> QED
    BY <2>1, <2>2, <1>n, Zenon DEF TestTyped
<1>8. CASE t = ForkConcurrent_0079
  <2>1. /\ t.workers = <<Writer(<<5, 3>>)>> /\ t.initial = 0
        /\ t.forks = TRUE /\ t.read = "started"
    BY <1>8 DEF ForkConcurrent_0079
  <2>2. t.workers \in Seq(Work) /\ Len(t.workers) \in Nat \ {0}
    BY <2>1, <1>w, <1>n, OneWorker
  <2> QED
    BY <2>1, <2>2, <1>n, Zenon DEF TestTyped
<1> QED
  BY <1>1, <1>2, <1>3, <1>4, <1>5, <1>6, <1>7, <1>8 DEF Tests
-----------------------------------------------------------------------------
LEMMA InitTyped == Init => TestTyped(test) /\ TypeOK /\ PlaceInv /\ JoinInv
<1> SUFFICES ASSUME Init PROVE TestTyped(test) /\ TypeOK /\ PlaceInv /\ JoinInv
  OBVIOUS
<1>1. TestTyped(test)
  BY TestsTyped DEF Init
<1>2. /\ Workers \in Nat \ {0}
      /\ DOMAIN test.workers = 1 .. Workers
      /\ \A t \in 1 .. Workers : test.workers[t] \in Work
  BY <1>1, LenProperties DEF TestTyped, Workers
<1>3. worker = [t \in 1 .. Workers |-> NotStarted]
  BY <1>2 DEF Init
<1>4. \A t \in 1 .. Workers : Values(t) \in Seq(Nat) /\ test.workers[t].reads \in Nat
  BY <1>2 DEF Work, Values
<1>5. \A t \in 1 .. Workers : Len(Values(t)) \in Nat
  BY <1>4, LenProperties
<1>6. TypeOK
  <2>1. /\ test \in Tests /\ failed \in BOOLEAN
        /\ pc \in {"create", "pipe", "read", "join", "over"}
    BY Zenon DEF Init
  <2>2. created \in 0 .. Workers /\ joined \in 0 .. created
    BY <1>2 DEF Init
  <2>3. total \in Nat /\ counter \in Nat
    BY <1>1 DEF Init, TestTyped
  <2>4. /\ DOMAIN worker = 1 .. Workers
        /\ \A t \in 1 .. Workers : /\ worker[t].pc = "none"
                                  /\ worker[t].calls = 0 /\ worker[t].totalRead = 0
    BY <1>3 DEF NotStarted
  <2>5. \A t \in 1 .. Workers : 0 \in 0 .. Len(Values(t)) + test.workers[t].reads
    BY <1>4, <1>5
  <2> QED
    BY <2>1, <2>2, <2>3, <2>4, <2>5 DEF TypeOK
<1>7. PlaceInv /\ JoinInv
  BY <1>2, <1>3 DEF Init, PlaceInv, JoinInv, NotStarted
<1> QED
  BY <1>1, <1>6, <1>7
-----------------------------------------------------------------------------
(* One lemma for the test thread and one for the workers.                  *)

Typed == TestTyped(test) /\ TypeOK

LEMMA WorkersTyped ==
  ASSUME Typed
  PROVE  /\ Workers \in Nat \ {0}
         /\ DOMAIN worker = 1 .. Workers
         /\ \A t \in 1 .. Workers :
              /\ Values(t) \in Seq(Nat) /\ Len(Values(t)) \in Nat
              /\ test.workers[t].reads \in Nat
<1>1. /\ Workers \in Nat \ {0}
      /\ \A t \in 1 .. Workers : test.workers[t] \in Work
  BY LenProperties DEF Typed, TestTyped, Workers
<1>2. \A t \in 1 .. Workers : Values(t) \in Seq(Nat) /\ test.workers[t].reads \in Nat
  BY <1>1 DEF Work, Values
<1>3. \A t \in 1 .. Workers : Len(Values(t)) \in Nat
  BY <1>2, LenProperties
<1> QED
  BY <1>1, <1>2, <1>3 DEF Typed, TypeOK

LEMMA TestStepTyped ==
  ASSUME Typed, PlaceInv, TestStep \/ CreateFails
  PROVE  TypeOK'
<1> DEFINE Rows == \A t \in DOMAIN worker :
       /\ worker[t].pc \in {"none", "running", "ended"}
       /\ worker[t].calls \in 0 .. Len(Values(t)) + test.workers[t].reads
       /\ worker[t].totalRead \in Nat
<1>w. /\ Workers \in Nat \ {0} /\ DOMAIN worker = 1 .. Workers /\ Rows
      /\ test \in Tests /\ failed \in BOOLEAN
      /\ created \in 0 .. Workers /\ joined \in 0 .. created
      /\ total \in Nat /\ counter \in Nat
  BY WorkersTyped DEF Typed, TypeOK
<1>s. test' = test /\ test' \in Tests /\ Workers' = Workers
  BY <1>w DEF TestStep, Create, CreateFails, ReadPipe, Read, Join, Workers
<1>v. \A t : Values(t)' = Values(t)
  BY <1>s DEF Values
<1>f. failed' \in BOOLEAN
  BY <1>w DEF TestStep, Create, CreateFails, ReadPipe, Read, Join
<1>p. pc' \in {"create", "pipe", "read", "join", "over"}
  BY DEF TestStep, Create, CreateFails, ReadPipe, Read, Join, AfterStart, AfterJoin
<1>1. CASE Create
  <2>1. created + 1 \in 1 .. Workers /\ joined = 0
    BY <1>1, <1>w DEF Create, PlaceInv
  <2>2. /\ created' \in 0 .. Workers /\ joined' \in 0 .. created'
        /\ total' \in Nat /\ counter' \in Nat
    BY <1>1, <1>w, <2>1 DEF Create
  <2>3. DOMAIN worker' = 1 .. Workers
    BY <1>1, <1>w DEF Create
  <2>4. \A t \in 1 .. Workers :
           /\ worker'[t].pc \in {"none", "running", "ended"}
           /\ worker'[t].calls = worker[t].calls
           /\ worker'[t].totalRead = worker[t].totalRead
    BY <1>1, <1>w, <2>1 DEF Create
  <2> QED
    BY <1>w, <1>s, <1>v, <1>f, <1>p, <2>2, <2>3, <2>4 DEF TypeOK
<1>2. CASE CreateFails \/ ReadPipe
  <2>1. UNCHANGED <<created, joined, total, counter, worker>>
    BY <1>2 DEF CreateFails, ReadPipe
  <2> QED
    BY <1>w, <1>s, <1>v, <1>f, <1>p, <2>1 DEF TypeOK
<1>3. CASE Read
  <2>1. total' \in Nat /\ counter' \in Nat
    BY <1>3, <1>w DEF Read, Val, Rest
  <2>2. UNCHANGED <<created, joined, worker>>
    BY <1>3 DEF Read
  <2> QED
    BY <1>w, <1>s, <1>v, <1>f, <1>p, <2>1, <2>2 DEF TypeOK
<1>4. CASE Join
  <2>1. joined < Workers /\ joined + 1 \in 1 .. Workers
    BY <1>4, <1>w DEF Join, PlaceInv
  <2>2. joined + 1 <= created
    BY <1>4, <1>w, <2>1 DEF Join, PlaceInv
  <2>3. joined' \in 0 .. created /\ total' \in Nat
    BY <1>4, <1>w, <2>1, <2>2 DEF Join
  <2>4. UNCHANGED <<created, counter, worker>>
    BY <1>4 DEF Join
  <2> QED
    BY <1>w, <1>s, <1>v, <1>f, <1>p, <2>3, <2>4 DEF TypeOK
<1> QED
  BY <1>1, <1>2, <1>3, <1>4 DEF TestStep

WorkerMoves(t) == ThreadWriteFunc(t) \/ ThreadReadFunc(t) \/ ThreadEnds(t)

LEMMA WorkerStepTyped ==
  ASSUME Typed, PlaceInv, NEW t \in DOMAIN worker, WorkerMoves(t)
  PROVE  TypeOK'
<1>w. /\ Workers \in Nat \ {0} /\ DOMAIN worker = 1 .. Workers
      /\ \A u \in 1 .. Workers :
           /\ Values(u) \in Seq(Nat) /\ Len(Values(u)) \in Nat
           /\ test.workers[u].reads \in Nat
           /\ worker[u].pc \in {"none", "running", "ended"}
           /\ worker[u].calls \in 0 .. Len(Values(u)) + test.workers[u].reads
           /\ worker[u].totalRead \in Nat
      /\ counter \in Nat
  BY WorkersTyped DEF Typed, TypeOK
<1>u. UNCHANGED <<test, pc, created, joined, failed, total>>
  BY DEF WorkerMoves, ThreadWriteFunc, ThreadReadFunc, ThreadEnds
<1>s. Workers' = Workers /\ \A u : Values(u)' = Values(u)
  BY <1>u DEF Workers, Values
<1> DEFINE Moved ==
      /\ counter' \in Nat
      /\ DOMAIN worker' = 1 .. Workers
      /\ \A u \in 1 .. Workers :
           /\ worker'[u].pc \in {"none", "running", "ended"}
           /\ worker'[u].calls \in 0 .. Len(Values(u)) + test.workers[u].reads
           /\ worker'[u].totalRead \in Nat
<1>1. ASSUME ThreadWriteFunc(t) PROVE Moved
  <2>1. worker[t].calls + 1 \in 1 .. Len(Values(t))
    BY <1>1, <1>w DEF ThreadWriteFunc
  <2>2. Values(t)[worker[t].calls + 1] \in Nat
    BY <2>1, <1>w, ElementOfSeq
  <2>3. counter' \in Nat
    BY <1>1, <1>w, <2>2 DEF ThreadWriteFunc
  <2>4. worker[t].calls + 1 \in 0 .. Len(Values(t)) + test.workers[t].reads
    BY <1>w, <2>1, SMTT(30)
  <2>5. worker' = [worker EXCEPT ![t].calls = @ + 1]
    BY <1>1 DEF ThreadWriteFunc
  <2> QED
    BY <1>w, <2>3, <2>4, <2>5
<1>2. ASSUME ThreadReadFunc(t) PROVE Moved
  <2>1. Val \in Nat /\ (counter > 0 => Rest \in Nat)
    BY <1>w DEF Val, Rest
  <2>2. worker[t].calls + 1 \in 0 .. Len(Values(t)) + test.workers[t].reads
    BY <1>2, <1>w DEF ThreadReadFunc
  <2>3. CASE counter > 0 /\ counter' = Rest
             /\ worker' = [worker EXCEPT ![t].calls = @ + 1, ![t].totalRead = @ + Val]
    BY <2>3, <1>w, <2>1, <2>2, SMTT(30)
  <2>4. CASE Again /\ worker' = [worker EXCEPT ![t].calls = @ + 1] /\ UNCHANGED counter
    BY <2>4, <1>w, <2>2
  <2> QED
    BY <1>2, <2>3, <2>4 DEF ThreadReadFunc
<1>3. ASSUME ThreadEnds(t) PROVE Moved
  BY <1>3, <1>w DEF ThreadEnds
<1>4. Moved
  BY <1>1, <1>2, <1>3 DEF WorkerMoves
<1> QED
  BY <1>4, <1>u, <1>s, <1>w DEF Typed, TypeOK

\* A worker that has ended does not move again, and none starts by itself.
LEMMA WorkersProceed ==
  ASSUME Typed, NEW t \in DOMAIN worker, WorkerMoves(t)
  PROVE  /\ worker[t].pc = "running"
         /\ \A u \in DOMAIN worker : u # t => worker'[u] = worker[u]
         /\ DOMAIN worker' = DOMAIN worker
  BY DEF WorkerMoves, ThreadWriteFunc, ThreadReadFunc, ThreadEnds

LEMMA WorkerStepInv ==
  ASSUME Typed, PlaceInv, JoinInv, NEW t \in DOMAIN worker, WorkerMoves(t)
  PROVE  PlaceInv' /\ JoinInv'
<1>1. UNCHANGED <<test, pc, created, joined, failed, total>>
  BY DEF WorkerMoves, ThreadWriteFunc, ThreadReadFunc, ThreadEnds
<1>2. Workers' = Workers
  BY <1>1 DEF Workers
<1>3. /\ worker[t].pc = "running" /\ DOMAIN worker' = DOMAIN worker
      /\ \A u \in DOMAIN worker : u # t => worker'[u] = worker[u]
  BY WorkersProceed
<1>4. /\ Workers \in Nat /\ joined \in 0 .. Workers /\ DOMAIN worker = 1 .. Workers
  BY WorkersTyped DEF Typed, TypeOK
<1>5. \A u \in DOMAIN worker' : u > created' => worker'[u].pc = "none"
  BY <1>1, <1>3 DEF PlaceInv
<1>6. \A u \in 1 .. joined' : worker'[u].pc = "ended"
  BY <1>1, <1>3, <1>4 DEF JoinInv
<1> QED
  BY <1>1, <1>2, <1>5, <1>6 DEF PlaceInv, JoinInv

LEMMA TestStepInv ==
  ASSUME Typed, PlaceInv, JoinInv, TestStep \/ CreateFails
  PROVE  PlaceInv' /\ JoinInv'
<1>w. /\ Workers \in Nat \ {0} /\ DOMAIN worker = 1 .. Workers
      /\ created \in 0 .. Workers /\ joined \in 0 .. created
      /\ test.forks \in BOOLEAN
      /\ test.read \in {"never", "started", "joined"}
      /\ test.forks => test.read = "started"
  BY WorkersTyped DEF Typed, TypeOK, TestTyped
<1>s. test' = test /\ Workers' = Workers
  BY DEF TestStep, Create, CreateFails, ReadPipe, Read, Join, Workers
<1>1. CASE Create
  <2>1. created < Workers /\ joined' = 0 /\ joined = 0 /\ created' = created + 1
    BY <1>1 DEF Create, PlaceInv
  <2>2. \A t \in DOMAIN worker' : t > created' => worker'[t].pc = "none"
    BY <1>1, <1>w, <2>1 DEF Create, PlaceInv
  <2>3. pc' = IF created + 1 = Workers THEN AfterStart ELSE "create"
    BY <1>1 DEF Create
  <2> QED
    BY <1>w, <1>s, <2>1, <2>2, <2>3 DEF PlaceInv, JoinInv, AfterStart
<1>2. CASE CreateFails
  BY <1>2, <1>w, <1>s DEF CreateFails, PlaceInv, JoinInv
<1>3. CASE ReadPipe
  BY <1>3, <1>w, <1>s DEF ReadPipe, PlaceInv, JoinInv
<1>4. CASE Read
  <2>1. UNCHANGED <<created, joined, failed, worker>>
    BY <1>4 DEF Read
  <2>2. pc = "read" /\ pc' = IF test.read = "started" THEN "join" ELSE "over"
    BY <1>4 DEF Read
  <2> QED
    BY <1>w, <1>s, <2>1, <2>2 DEF PlaceInv, JoinInv
<1>5. CASE Join
  <2>1. joined < Workers /\ joined' = joined + 1 /\ worker[joined + 1].pc = "ended"
        /\ UNCHANGED <<created, failed, worker>>
    BY <1>5 DEF Join, PlaceInv
  <2>2. pc' = IF joined + 1 = Workers THEN AfterJoin ELSE "join"
    BY <1>5 DEF Join
  <2>3. \A t \in 1 .. joined' : worker'[t].pc = "ended"
    BY <2>1, <1>w DEF JoinInv
  <2> QED
    BY <1>w, <1>s, <2>1, <2>2, <2>3 DEF PlaceInv, JoinInv, AfterJoin
<1> QED
  BY <1>1, <1>2, <1>3, <1>4, <1>5 DEF TestStep
-----------------------------------------------------------------------------
(* Sums.  Sum is a recursive function, so what it yields is shown by       *)
(* induction over the length; the induction is over a set of numbers, and  *)
(* holds because a finite set has no injection onto a part of itself.      *)

LEMMA Induction ==
  ASSUME NEW S, 0 \in S, \A n \in Nat : n \in S => n + 1 \in S
  PROVE  Nat \subseteq S
<1> SUFFICES ASSUME NEW m \in Nat, m \notin S PROVE FALSE
  OBVIOUS
<1> DEFINE T == {n \in 0 .. m : n \in S}
           next == [n \in T |-> n + 1]
<1>1. IsFiniteSet(T)
  <2>1. IsFiniteSet(0 .. m)
    BY FS_Interval
  <2>2. T \in SUBSET (0 .. m)
    OBVIOUS
  <2> QED
    BY <2>1, <2>2, FS_Subset
<1>2. \A n \in T : n + 1 \in T /\ n + 1 # 0
  OBVIOUS
<1>3. next \in Injection(T, T)
  BY <1>2 DEF Injection, IsInjective
<1>4. next \in Surjection(T, T)
  <2> HIDE DEF T, next
  <2> QED
    BY <1>1, <1>3, FS_Injection
<1>5. 0 \in T
  OBVIOUS
<1>6. PICK n \in T : next[n] = 0
  <2> HIDE DEF T, next
  <2> QED
    BY <1>4, <1>5 DEF Surjection
<1> QED
  BY <1>2, <1>6

Term(u, seq, n) == IF n = 0 THEN 0 ELSE u[n - 1] + seq[n]

\* u holds the sums of the first 0, 1, .. m elements of seq.
SumsUpTo(u, seq, m) == u = [n \in 0 .. m |-> Term(u, seq, n)]

LEMMA SumsExist ==
  ASSUME NEW seq \in Seq(Nat)
  PROVE  \E u : SumsUpTo(u, seq, Len(seq)) /\ Sum(seq) = u[Len(seq)]
<1> DEFINE S == {m \in Nat : \E u : SumsUpTo(u, seq, m)}
<1>1. 0 \in S
  <2> DEFINE u == [n \in 0 .. 0 |-> 0]
  <2>1. u = [n \in 0 .. 0 |-> Term(u, seq, n)]
    BY DEF Term
  <2>2. SumsUpTo(u, seq, 0)
    BY <2>1 DEF SumsUpTo
  <2> HIDE DEF u
  <2> QED
    BY <2>2
<1>2. ASSUME NEW m \in Nat, m \in S PROVE m + 1 \in S
  <2>1. PICK u : SumsUpTo(u, seq, m)
    BY <1>2
  <2> DEFINE v == [n \in 0 .. m + 1 |-> Term(u, seq, n)]
  <2>2. \A n \in 0 .. m : v[n] = u[n]
    BY <2>1 DEF SumsUpTo
  <2>3. \A n \in 0 .. m + 1 : Term(v, seq, n) = Term(u, seq, n)
    <3> HIDE DEF v
    <3> QED
      BY <2>2 DEF Term
  <2>4. v = [n \in 0 .. m + 1 |-> Term(v, seq, n)]
    <3>1. v = [n \in 0 .. m + 1 |-> v[n]]
      OBVIOUS
    <3>2. \A n \in 0 .. m + 1 : v[n] = Term(v, seq, n)
      BY <2>3, Zenon
    <3> HIDE DEF v
    <3> QED
      BY <3>1, <3>2, Zenon
  <2>5. SumsUpTo(v, seq, m + 1)
    BY <2>4 DEF SumsUpTo
  <2> HIDE DEF v
  <2> QED
    BY <2>5
<1>3. Nat \subseteq S
  <2> HIDE DEF S
  <2> QED
    BY <1>1, <1>2, Induction
<1>4. \E u : SumsUpTo(u, seq, Len(seq))
  BY <1>3
<1> DEFINE w == CHOOSE u : SumsUpTo(u, seq, Len(seq))
<1>5. SumsUpTo(w, seq, Len(seq))
  BY <1>4, Zenon
<1>6. Sum(seq) = w[Len(seq)]
  BY Zenon DEF Sum, SumsUpTo, Term
<1> QED
  BY <1>5, <1>6

\* The sums of the beginnings of seq, one by one.
LEMMA PartialSums ==
  ASSUME NEW seq \in Seq(Nat)
  PROVE  \E u : /\ u[0] = 0
                /\ \A n \in 1 .. Len(seq) : u[n] = u[n - 1] + seq[n]
                /\ \A n \in 0 .. Len(seq) : u[n] \in Nat
                /\ Sum(seq) = u[Len(seq)]
<1>1. PICK u : SumsUpTo(u, seq, Len(seq)) /\ Sum(seq) = u[Len(seq)]
  BY SumsExist
<1>2. Len(seq) \in Nat /\ \A n \in 1 .. Len(seq) : seq[n] \in Nat
  BY LenProperties, ElementOfSeq
<1>3. u[0] = 0 /\ \A n \in 1 .. Len(seq) : u[n] = u[n - 1] + seq[n]
  <2>1. \A n \in 0 .. Len(seq) : u[n] = Term(u, seq, n)
    BY <1>1 DEF SumsUpTo
  <2> QED
    BY <1>2, <2>1 DEF Term
<1> DEFINE S == {n \in Nat : n <= Len(seq) => u[n] \in Nat}
<1>4. 0 \in S
  BY <1>3
<1>5. ASSUME NEW n \in Nat, n \in S PROVE n + 1 \in S
  <2>1. n + 1 <= Len(seq) => u[n + 1] = u[n] + seq[n + 1] /\ seq[n + 1] \in Nat
    BY <1>2, <1>3
  <2> QED
    BY <1>2, <1>5, <2>1
<1>6. Nat \subseteq S
  <2> HIDE DEF S
  <2> QED
    BY <1>4, <1>5, Induction
<1> QED
  BY <1>1, <1>2, <1>3, <1>6

LEMMA SumType == ASSUME NEW seq \in Seq(Nat) PROVE Sum(seq) \in Nat
<1>1. Len(seq) \in Nat
  BY LenProperties
<1> QED
  BY <1>1, PartialSums

\* Where one element changes, the sum changes by the same amount.
LEMMA SumUpdate ==
  ASSUME NEW a \in Seq(Nat), NEW b \in Seq(Nat), Len(a) = Len(b),
         NEW i \in 1 .. Len(a), \A j \in 1 .. Len(a) : j # i => a[j] = b[j]
  PROVE  Sum(b) + a[i] = Sum(a) + b[i]
<1>1. PICK u : /\ u[0] = 0 /\ \A n \in 1 .. Len(a) : u[n] = u[n - 1] + a[n]
               /\ \A n \in 0 .. Len(a) : u[n] \in Nat
               /\ Sum(a) = u[Len(a)]
  BY PartialSums
<1>2. PICK v : /\ v[0] = 0 /\ \A n \in 1 .. Len(a) : v[n] = v[n - 1] + b[n]
               /\ \A n \in 0 .. Len(a) : v[n] \in Nat
               /\ Sum(b) = v[Len(a)]
  BY PartialSums
<1>3. /\ Len(a) \in Nat
      /\ \A n \in 1 .. Len(a) : a[n] \in Nat /\ b[n] \in Nat
  BY LenProperties, ElementOfSeq
<1> DEFINE Off(n) == IF n < i THEN v[n] = u[n] ELSE v[n] + a[i] = u[n] + b[i]
           S == {n \in Nat : n <= Len(a) => Off(n)}
<1>4. 0 \in S
  BY <1>1, <1>2
<1>5. ASSUME NEW n \in Nat, n \in S PROVE n + 1 \in S
  <2> SUFFICES ASSUME n + 1 <= Len(a) PROVE Off(n + 1)
    OBVIOUS
  <2>1. /\ u[n + 1] = u[n] + a[n + 1] /\ v[n + 1] = v[n] + b[n + 1]
        /\ u[n] \in Nat /\ v[n] \in Nat
        /\ a[n + 1] \in Nat /\ b[n + 1] \in Nat /\ a[i] \in Nat /\ b[i] \in Nat
    BY <1>1, <1>2, <1>3
  <2>2. Off(n)
    BY <1>3, <1>5
  <2>3. n + 1 # i => a[n + 1] = b[n + 1]
    BY <1>3
  <2>4. CASE n + 1 < i
    BY <2>1, <2>2, <2>3, <2>4
  <2>5. CASE n + 1 = i
    BY <2>1, <2>2, <2>5
  <2>6. CASE n + 1 > i
    <3>1. v[n] + a[i] = u[n] + b[i] /\ a[n + 1] = b[n + 1]
      BY <2>2, <2>3, <2>6
    <3> DEFINE x == v[n] y == u[n] p == a[i] q == b[i] d == a[n + 1]
    <3>2. x \in Nat /\ y \in Nat /\ p \in Nat /\ q \in Nat /\ d \in Nat /\ x + p = y + q
      BY <2>1, <3>1
    <3>3. v[n + 1] = x + d /\ u[n + 1] = y + d
      BY <2>1, <3>1
    <3>4. v[n + 1] + p = u[n + 1] + q
      <4> HIDE DEF x, y, p, q, d
      <4> QED
        BY <3>2, <3>3
    <3> QED
      BY <3>4, <2>6
  <2> QED
    BY <2>4, <2>5, <2>6
<1>6. Nat \subseteq S
  <2> HIDE DEF S
  <2> QED
    BY <1>4, <1>5, Induction
<1>7. Off(Len(a))
  BY <1>3, <1>6
<1> QED
  BY <1>1, <1>2, <1>3, <1>7

\* The sum of k times c, and of zeros.
LEMMA SumConstant ==
  ASSUME NEW seq \in Seq(Nat), NEW c \in Nat, NEW k \in 0 .. Len(seq),
         \A j \in 1 .. Len(seq) : seq[j] = IF j <= k THEN c ELSE 0
  PROVE  Sum(seq) = k * c
<1>1. PICK u : /\ u[0] = 0 /\ \A n \in 1 .. Len(seq) : u[n] = u[n - 1] + seq[n]
               /\ \A n \in 0 .. Len(seq) : u[n] \in Nat
               /\ Sum(seq) = u[Len(seq)]
  BY PartialSums
<1>2. Len(seq) \in Nat /\ k \in Nat
  BY LenProperties
<1> DEFINE Times(n) == u[n] = (IF n <= k THEN n ELSE k) * c
           S == {n \in Nat : n <= Len(seq) => Times(n)}
<1>3. 0 \in S
  BY <1>1, <1>2
<1>4. ASSUME NEW n \in Nat, n \in S PROVE n + 1 \in S
  <2> SUFFICES ASSUME n + 1 <= Len(seq) PROVE Times(n + 1)
    OBVIOUS
  <2>1. u[n + 1] = u[n] + seq[n + 1] /\ seq[n + 1] = IF n + 1 <= k THEN c ELSE 0
    BY <1>1, <1>2
  <2>2. Times(n)
    BY <1>2, <1>4
  <2>3. (n + 1) * c = n * c + c
    OBVIOUS
  <2>4. CASE n + 1 <= k
    BY <2>1, <2>2, <2>3, <2>4, <1>2
  <2>5. CASE n + 1 > k
    <3>1. u[n + 1] = u[n] /\ u[n] \in Nat
      BY <1>1, <1>2, <2>1, <2>5
    <3>2. u[n] = k * c
      BY <2>2, <2>5, <1>2
    <3> QED
      BY <3>1, <3>2, <2>5
  <2> QED
    BY <2>4, <2>5, <1>2
<1>5. Nat \subseteq S
  <2> HIDE DEF S
  <2> QED
    BY <1>3, <1>4, Induction
<1>6. Times(Len(seq))
  BY <1>2, <1>5
<1>7. Len(seq) <= k => Len(seq) = k
  BY <1>2
<1> QED
  BY <1>1, <1>2, <1>6, <1>7
-----------------------------------------------------------------------------
(* The ledger: units written, in the counter, read by workers, joined.     *)

AllWritten == [t \in 1 .. Workers |-> Written(t)]
AllPending == [t \in 1 .. Workers |-> Pending(t)]

LEMMA SumOfFunction ==
  ASSUME NEW n \in Nat, NEW f \in [1 .. n -> Nat]
  PROVE  f \in Seq(Nat) /\ Len(f) = n /\ Sum(f) \in Nat
<1>1. f \in Seq(Nat) /\ Len(f) = n
  OBVIOUS
<1> QED
  BY <1>1, SumType

LEMMA SumOfUpdate ==
  ASSUME NEW n \in Nat, NEW f \in [1 .. n -> Nat], NEW g \in [1 .. n -> Nat],
         NEW i \in 1 .. n, \A j \in 1 .. n : j # i => f[j] = g[j]
  PROVE  Sum(g) + f[i] = Sum(f) + g[i]
<1>1. f \in Seq(Nat) /\ Len(f) = n /\ g \in Seq(Nat) /\ Len(g) = n
  BY SumOfFunction
<1> QED
  BY <1>1, SumUpdate

LEMMA LedgerTyped ==
  ASSUME Typed
  PROVE  /\ \A t \in 1 .. Workers : /\ Done(t) \in [1 .. Len(Values(t)) -> Nat]
                                    /\ Written(t) \in Nat
                                    /\ Pending(t) \in Nat
         /\ AllWritten \in [1 .. Workers -> Nat] /\ Sum(AllWritten) \in Nat
         /\ AllPending \in [1 .. Workers -> Nat] /\ Sum(AllPending) \in Nat
<1>w. /\ Workers \in Nat /\ DOMAIN worker = 1 .. Workers
      /\ \A t \in 1 .. Workers :
           Values(t) \in Seq(Nat) /\ Len(Values(t)) \in Nat /\ worker[t].totalRead \in Nat
  BY WorkersTyped DEF Typed, TypeOK
<1>1. \A t \in 1 .. Workers : Done(t) \in [1 .. Len(Values(t)) -> Nat]
  <2> SUFFICES ASSUME NEW t \in 1 .. Workers
               PROVE  Done(t) \in [1 .. Len(Values(t)) -> Nat]
    OBVIOUS
  <2>1. \A n \in 1 .. Len(Values(t)) : Values(t)[n] \in Nat
    BY <1>w, ElementOfSeq
  <2> QED
    BY <2>1 DEF Done
<1>2. \A t \in 1 .. Workers : Written(t) \in Nat
  BY <1>w, <1>1, SumOfFunction DEF Written
<1>3. \A t \in 1 .. Workers : Pending(t) \in Nat
  BY <1>w DEF Pending
<1>4. AllWritten \in [1 .. Workers -> Nat] /\ AllPending \in [1 .. Workers -> Nat]
  BY <1>2, <1>3 DEF AllWritten, AllPending
<1> QED
  BY <1>w, <1>1, <1>2, <1>3, <1>4, SumOfFunction

\* A write adds its value to what its worker has written, and to no other's.
LEMMA WriteIsBooked ==
  ASSUME Typed, NEW t \in DOMAIN worker, ThreadWriteFunc(t)
  PROVE  Sum(AllWritten)' = Sum(AllWritten) + Values(t)[worker[t].calls + 1]
<1>w. /\ Workers \in Nat /\ DOMAIN worker = 1 .. Workers
      /\ Values(t) \in Seq(Nat) /\ Len(Values(t)) \in Nat
      /\ worker[t].calls \in Nat
  BY WorkersTyped DEF Typed, TypeOK
<1>s. /\ test' = test /\ Workers' = Workers
      /\ \A u : Values(u)' = Values(u)
      /\ worker' = [worker EXCEPT ![t].calls = @ + 1]
  BY DEF ThreadWriteFunc, Workers, Values
<1> DEFINE k == worker[t].calls + 1
<1>k. k \in 1 .. Len(Values(t)) /\ Values(t)[k] \in Nat
  BY <1>w, ElementOfSeq DEF ThreadWriteFunc
<1>1. Written(t)' = Written(t) + Values(t)[k]
  <2>1. /\ Done(t) \in [1 .. Len(Values(t)) -> Nat]
        /\ Done(t)' \in [1 .. Len(Values(t)) -> Nat]
        /\ Sum(Done(t)) \in Nat /\ Sum(Done(t)') \in Nat
    <3>1. \A n \in 1 .. Len(Values(t)) : Values(t)[n] \in Nat
      BY <1>w, ElementOfSeq
    <3>2. /\ Done(t) \in [1 .. Len(Values(t)) -> Nat]
          /\ Done(t)' \in [1 .. Len(Values(t)) -> Nat]
      BY <1>s, <3>1 DEF Done
    <3> QED
      BY <1>w, <3>2, SumOfFunction
  <2>2. \A n \in 1 .. Len(Values(t)) : n # k => Done(t)[n] = Done(t)'[n]
    BY <1>w, <1>s DEF Done
  <2>3. Done(t)[k] = 0 /\ Done(t)'[k] = Values(t)[k]
    BY <1>w, <1>s, <1>k DEF Done
  <2>4. Sum(Done(t)') + Done(t)[k] = Sum(Done(t)) + Done(t)'[k]
    <3> HIDE DEF k
    <3> QED
      BY <1>w, <1>k, <2>1, <2>2, SumOfUpdate
  <2>5. Written(t)' = Sum(Done(t)')
    BY DEF Written, Sum
  <2> QED
    BY <1>k, <2>1, <2>3, <2>4, <2>5 DEF Written
<1>2. \A u \in 1 .. Workers : u # t => Written(u)' = Written(u)
  <2> SUFFICES ASSUME NEW u \in 1 .. Workers, u # t PROVE Written(u)' = Written(u)
    OBVIOUS
  <2>1. worker'[u] = worker[u]
    BY <1>w, <1>s
  <2> QED
    <3>1. Done(u)' = Done(u)
      BY <1>s, <2>1 DEF Done
    <3> QED
      BY <3>1, Zenon DEF Written, Sum
<1>3. /\ AllWritten \in [1 .. Workers -> Nat] /\ AllWritten' \in [1 .. Workers -> Nat]
      /\ Sum(AllWritten) \in Nat /\ Written(t) \in Nat
  <2>1. \A u \in 1 .. Workers : Written(u) \in Nat
    BY LedgerTyped
  <2>2. \A u \in 1 .. Workers : Written(u)' \in Nat
    <3> SUFFICES ASSUME NEW u \in 1 .. Workers PROVE Written(u)' \in Nat
      OBVIOUS
    <3>1. CASE u # t
      BY <1>2, <2>1, <3>1, Zenon
    <3>2. Written(t)' \in Nat
      BY <1>1, <1>k, <2>1, <1>w
    <3> QED
      BY <3>1, <3>2
  <2> QED
    BY <1>s, <1>w, <2>1, <2>2, LedgerTyped DEF AllWritten
<1>4. \A u \in 1 .. Workers : u # t => AllWritten[u] = AllWritten'[u]
  BY <1>s, <1>2 DEF AllWritten
<1>5. AllWritten[t] = Written(t) /\ AllWritten'[t] = Written(t)'
  BY <1>w, <1>s DEF AllWritten
<1>6. Sum(AllWritten') + AllWritten[t] = Sum(AllWritten) + AllWritten'[t]
  BY <1>w, <1>3, <1>4, SumOfUpdate
<1>7. Sum(AllWritten)' = Sum(AllWritten') /\ Sum(AllWritten') \in Nat
  BY <1>w, <1>3, SumOfFunction DEF Sum
<1> QED
  BY <1>k, <1>1, <1>3, <1>5, <1>6, <1>7
LEMMA SumOfIncrease ==
  ASSUME NEW n \in Nat, NEW f \in [1 .. n -> Nat], NEW g \in [1 .. n -> Nat],
         NEW i \in 1 .. n, NEW d \in Nat, g[i] = f[i] + d,
         \A j \in 1 .. n : j # i => f[j] = g[j]
  PROVE  Sum(g) = Sum(f) + d
<1>1. Sum(g) + f[i] = Sum(f) + g[i]
  BY SumOfUpdate
<1>2. Sum(f) \in Nat /\ Sum(g) \in Nat /\ f[i] \in Nat
  BY SumOfFunction
<1> DEFINE x == Sum(f) y == Sum(g) p == f[i]
<1>3. y + p = x + (p + d)
  BY <1>1
<1>4. x \in Nat /\ y \in Nat /\ p \in Nat
  BY <1>2
<1>5. y = x + d
  <2> HIDE DEF x, y, p
  <2> QED
    BY <1>3, <1>4
<1> QED
  BY <1>5

\* Nothing is written where only workers without values have made calls.
LEMMA NothingWritten ==
  ASSUME test' = test,
         \A u \in 1 .. Workers : worker'[u].calls = worker[u].calls \/ Len(Values(u)) = 0
  PROVE  Sum(AllWritten)' = Sum(AllWritten)
<1>s. Workers' = Workers /\ \A u : Values(u)' = Values(u)
  BY DEF Workers, Values
<1>1. \A u \in 1 .. Workers : Written(u)' = Written(u)
  <2> SUFFICES ASSUME NEW u \in 1 .. Workers PROVE Written(u)' = Written(u)
    OBVIOUS
  <2>1. Done(u)' = Done(u)
    BY <1>s DEF Done
  <2> QED
    BY <2>1, Zenon DEF Written, Sum
<1>2. AllWritten' = AllWritten
  BY <1>s, <1>1, Zenon DEF AllWritten
<1> QED
  BY <1>2, Zenon DEF Sum

LEMMA NothingPending ==
  ASSUME test' = test, joined' = joined,
         \A u \in 1 .. Workers : worker'[u].totalRead = worker[u].totalRead
  PROVE  Sum(AllPending)' = Sum(AllPending)
<1>1. \A u \in 1 .. Workers : Pending(u)' = Pending(u)
  BY DEF Pending
<1>2. AllPending' = AllPending
  BY <1>1, Zenon DEF AllPending, Workers
<1> QED
  BY <1>2, Zenon DEF Sum

\* A read moves units from the counter to the total of its worker, whom the test
\* has not joined yet.
LEMMA ReadIsBooked ==
  ASSUME Typed, JoinInv, NEW t \in DOMAIN worker, worker[t].pc = "running",
         UNCHANGED <<test, joined>>, NEW d \in Nat,
         worker' = [worker EXCEPT ![t].calls = @ + 1, ![t].totalRead = @ + d]
  PROVE  Sum(AllPending)' = Sum(AllPending) + d
<1>w. Workers \in Nat /\ DOMAIN worker = 1 .. Workers /\ joined \in Nat
  BY WorkersTyped DEF Typed, TypeOK
<1>s. Workers' = Workers
  BY DEF Workers
<1>t. t \in 1 .. Workers /\ ~(t <= joined) /\ worker[t].totalRead \in Nat
  BY <1>w DEF JoinInv, Typed, TypeOK
<1>1. \A u \in 1 .. Workers : u # t => Pending(u)' = Pending(u)
  <2> SUFFICES ASSUME NEW u \in 1 .. Workers, u # t PROVE Pending(u)' = Pending(u)
    OBVIOUS
  <2> QED
    BY <1>w DEF Pending
<1>2. Pending(t) = worker[t].totalRead /\ Pending(t)' = worker[t].totalRead + d
  BY <1>w, <1>t DEF Pending
<1>3. \A u \in 1 .. Workers : Pending(u) \in Nat /\ Pending(u)' \in Nat
  <2> SUFFICES ASSUME NEW u \in 1 .. Workers PROVE Pending(u) \in Nat /\ Pending(u)' \in Nat
    OBVIOUS
  <2>1. Pending(u) \in Nat
    BY LedgerTyped
  <2>2. CASE u # t
    BY <1>1, <2>1, <2>2, Zenon
  <2> QED
    BY <1>2, <1>t, <2>1, <2>2
<1>4. AllPending \in [1 .. Workers -> Nat] /\ AllPending' \in [1 .. Workers -> Nat]
  BY <1>s, <1>3 DEF AllPending
<1>5. /\ \A u \in 1 .. Workers : u # t => AllPending[u] = AllPending'[u]
      /\ AllPending'[t] = AllPending[t] + d
  BY <1>s, <1>t, <1>1, <1>2 DEF AllPending
<1>6. Sum(AllPending') = Sum(AllPending) + d
  BY <1>w, <1>t, <1>4, <1>5, SumOfIncrease
<1> QED
  BY <1>6, Zenon DEF Sum

\* A join moves a worker's total to the test's.
LEMMA JoinIsBooked ==
  ASSUME Typed, UNCHANGED <<test, worker>>, joined < Workers, joined' = joined + 1
  PROVE  /\ Sum(AllPending)' \in Nat
         /\ Sum(AllPending) = Sum(AllPending)' + worker[joined'].totalRead
<1>w. Workers \in Nat /\ DOMAIN worker = 1 .. Workers /\ joined \in Nat
  BY WorkersTyped DEF Typed, TypeOK
<1>s. Workers' = Workers
  BY DEF Workers
<1>i. PICK i \in 1 .. Workers : i = joined + 1
  BY <1>w
<1>v. worker[i].totalRead \in Nat /\ joined' = i
  BY <1>w, <1>i DEF Typed, TypeOK
<1>1. \A u \in 1 .. Workers : u # i => Pending(u)' = Pending(u)
  <2> SUFFICES ASSUME NEW u \in 1 .. Workers, u # i PROVE Pending(u)' = Pending(u)
    OBVIOUS
  <2> QED
    BY <1>w, <1>i, <1>v DEF Pending
<1>2. Pending(i) = worker[i].totalRead /\ Pending(i)' = 0
  BY <1>w, <1>i, <1>v DEF Pending
<1>3. \A u \in 1 .. Workers : Pending(u) \in Nat /\ Pending(u)' \in Nat
  <2> SUFFICES ASSUME NEW u \in 1 .. Workers PROVE Pending(u) \in Nat /\ Pending(u)' \in Nat
    OBVIOUS
  <2>1. Pending(u) \in Nat
    BY LedgerTyped
  <2>2. CASE u # i
    BY <1>1, <2>1, <2>2, Zenon
  <2> QED
    BY <1>2, <1>v, <2>1, <2>2
<1>4. AllPending \in [1 .. Workers -> Nat] /\ AllPending' \in [1 .. Workers -> Nat]
  BY <1>s, <1>3 DEF AllPending
<1>5. /\ \A u \in 1 .. Workers : u # i => AllPending'[u] = AllPending[u]
      /\ AllPending[i] = AllPending'[i] + worker[i].totalRead
  BY <1>s, <1>v, <1>1, <1>2 DEF AllPending
<1>6. /\ Sum(AllPending) = Sum(AllPending') + worker[i].totalRead
      /\ Sum(AllPending') \in Nat
  BY <1>w, <1>v, <1>4, <1>5, SumOfIncrease, SumOfFunction
<1> QED
  BY <1>6, <1>v, Zenon DEF Sum
-----------------------------------------------------------------------------
Ledger == test.initial + Sum(AllWritten) = counter + total + Sum(AllPending)

\* A worker that has ended has made all its calls; a writer reads nothing.
CallsInv ==
  \A t \in 1 .. Workers :
    /\ worker[t].pc = "ended" => worker[t].calls = Len(Values(t)) + test.workers[t].reads
    /\ test.workers[t].reads = 0 => worker[t].totalRead = 0

LEMMA InitLedger == Init => Ledger /\ CallsInv
<1> SUFFICES ASSUME Init PROVE Ledger /\ CallsInv
  OBVIOUS
<1>1. Typed
  BY InitTyped DEF Typed
<1>w. /\ Workers \in Nat /\ DOMAIN worker = 1 .. Workers
      /\ \A t \in 1 .. Workers : Values(t) \in Seq(Nat) /\ Len(Values(t)) \in Nat
  BY <1>1, WorkersTyped
<1>2. \A t \in 1 .. Workers : /\ worker[t].pc = "none" /\ worker[t].calls = 0
                              /\ worker[t].totalRead = 0
  BY <1>w DEF Init, NotStarted
<1>3. \A t \in 1 .. Workers : Written(t) = 0
  <2> SUFFICES ASSUME NEW t \in 1 .. Workers PROVE Written(t) = 0
    OBVIOUS
  <2>1. Done(t) \in Seq(Nat) /\ Len(Done(t)) = Len(Values(t))
    BY <1>1, <1>w, LedgerTyped, SumOfFunction
  <2>2. \A n \in 1 .. Len(Done(t)) : Done(t)[n] = IF n <= 0 THEN 0 ELSE 0
    BY <1>2, <2>1 DEF Done
  <2>3. Sum(Done(t)) = 0 * 0
    <3>1. 0 \in 0 .. Len(Done(t))
      BY <1>w, <2>1
    <3> QED
      BY <2>1, <2>2, <3>1, SumConstant
  <2> QED
    BY <2>3 DEF Written
<1>4. \A t \in 1 .. Workers : Pending(t) = 0
  BY <1>2 DEF Pending
<1>5. \A f \in [1 .. Workers -> Nat] : (\A t \in 1 .. Workers : f[t] = 0) => Sum(f) = 0
  <2> SUFFICES ASSUME NEW f \in [1 .. Workers -> Nat], \A t \in 1 .. Workers : f[t] = 0
               PROVE  Sum(f) = 0
    OBVIOUS
  <2>1. f \in Seq(Nat) /\ Len(f) = Workers
    BY <1>w, SumOfFunction
  <2>2. Sum(f) = 0 * 0
    BY <1>w, <2>1, SumConstant
  <2> QED
    BY <2>2
<1>6. Sum(AllWritten) = 0
  BY <1>1, <1>3, <1>5, LedgerTyped DEF AllWritten
<1>7. Sum(AllPending) = 0
  BY <1>1, <1>4, <1>5, LedgerTyped DEF AllPending
<1>8. test.initial \in Nat /\ counter = test.initial /\ total = 0
  BY <1>1 DEF Init, Typed, TestTyped
<1> QED
  BY <1>2, <1>6, <1>7, <1>8 DEF Ledger, CallsInv

LEMMA LedgerIsNumbers ==
  ASSUME Typed
  PROVE  /\ test.initial \in Nat /\ counter \in Nat /\ total \in Nat
         /\ Sum(AllWritten) \in Nat /\ Sum(AllPending) \in Nat
  BY LedgerTyped DEF Typed, TestTyped, TypeOK

LEMMA WorkerStepLedger ==
  ASSUME Typed, JoinInv, Ledger, CallsInv, NEW t \in DOMAIN worker, WorkerMoves(t)
  PROVE  Ledger' /\ CallsInv'
<1> DEFINE W == Sum(AllWritten)
           P == Sum(AllPending)
<1>n. test.initial \in Nat /\ counter \in Nat /\ total \in Nat /\ W \in Nat /\ P \in Nat
  BY LedgerIsNumbers
<1>l. test.initial + W = counter + total + P
  BY DEF Ledger
<1>w. /\ Workers \in Nat \ {0} /\ DOMAIN worker = 1 .. Workers
      /\ \A u \in 1 .. Workers :
           /\ Values(u) \in Seq(Nat) /\ Len(Values(u)) \in Nat
           /\ test.workers[u].reads \in Nat
           /\ Values(u) = <<>> \/ test.workers[u].reads = 0
           /\ worker[u].calls \in 0 .. Len(Values(u)) + test.workers[u].reads
           /\ worker[u].totalRead \in Nat
  <2>1. \A u \in 1 .. Workers : Values(u) = <<>> \/ test.workers[u].reads = 0
    <3>1. \A u \in 1 .. Workers : test.workers[u] \in Work
      BY ElementOfSeq DEF Typed, TestTyped, Workers
    <3> QED
      BY <3>1 DEF Work, Values
  <2> QED
    BY <2>1, WorkersTyped DEF Typed, TypeOK
<1>u. UNCHANGED <<test, pc, created, joined, failed, total>>
  BY DEF WorkerMoves, ThreadWriteFunc, ThreadReadFunc, ThreadEnds
<1>s. /\ Workers' = Workers /\ (\A u : Values(u)' = Values(u))
      /\ test.initial' = test.initial
  BY <1>u DEF Workers, Values
<1>p. worker[t].pc = "running"
  BY WorkersProceed
<1>1. CASE ThreadWriteFunc(t)
  <2>1. worker' = [worker EXCEPT ![t].calls = @ + 1]
        /\ counter' = counter + Values(t)[worker[t].calls + 1]
    BY <1>1 DEF ThreadWriteFunc
  <2>2. W' = W + Values(t)[worker[t].calls + 1]
    BY <1>1, WriteIsBooked
  <2>3. Values(t)[worker[t].calls + 1] \in Nat
    <3>1. worker[t].calls + 1 \in 1 .. Len(Values(t))
      BY <1>1, <1>w DEF ThreadWriteFunc
    <3> QED
      BY <3>1, <1>w, ElementOfSeq
  <2>4. P' = P
    BY <1>u, <1>w, <2>1, NothingPending
  <2>5. test.initial' + W' = counter' + total' + P'
    <3> DEFINE d == Values(t)[worker[t].calls + 1]
    <3>1. d \in Nat /\ W' = W + d /\ counter' = counter + d
      BY <2>1, <2>2, <2>3
    <3> HIDE DEF d, W, P
    <3> QED
      BY <3>1, <2>4, <1>n, <1>l, <1>u, <1>s
  <2>6. CallsInv'
    BY <1>p, <1>s, <1>u, <1>w, <2>1 DEF CallsInv
  <2> QED
    BY <2>5, <2>6 DEF Ledger
<1>2. CASE ThreadReadFunc(t)
  <2>r. Values(t) = <<>> /\ Len(Values(t)) = 0 /\ test.workers[t].reads # 0
    BY <1>2, <1>w DEF ThreadReadFunc
  <2>1. CASE counter > 0 /\ counter' = Rest
             /\ worker' = [worker EXCEPT ![t].calls = @ + 1, ![t].totalRead = @ + Val]
    <3>1. Val \in Nat /\ counter' + Val = counter /\ counter' \in Nat
      BY <1>n, <2>1 DEF Val, Rest
    <3>2. P' = P + Val
      BY <1>p, <1>u, <2>1, <3>1, ReadIsBooked
    <3>3. W' = W
      <4>1. \A u \in 1 .. Workers : worker'[u].calls = worker[u].calls \/ Len(Values(u)) = 0
        BY <1>w, <2>1, <2>r
      <4> QED
        BY <1>u, <4>1, NothingWritten
    <3>4. test.initial' + W' = counter' + total' + P'
      <4>1. PICK d \in Nat : d = Val
        BY <3>1
      <4>2. counter' + d = counter /\ P' = P + d
        BY <3>1, <3>2, <4>1
      <4>3. total' = total /\ test.initial' = test.initial /\ counter' \in Nat
        BY <1>u, <1>s, <3>1
      <4> HIDE DEF W, P
      <4>4. test.initial + W = (counter' + d) + total + P
        BY <4>2, <1>l
      <4>5. test.initial + W = counter' + total + (P + d)
        BY <4>3, <4>4, <1>n
      <4> QED
        BY <4>2, <4>3, <4>5, <3>3
    <3>5. CallsInv'
      BY <1>p, <1>s, <1>u, <1>w, <2>1, <2>r DEF CallsInv
    <3> QED
      BY <3>4, <3>5 DEF Ledger
  <2>2. CASE Again /\ worker' = [worker EXCEPT ![t].calls = @ + 1] /\ UNCHANGED counter
    <3>1. P' = P
      BY <1>u, <1>w, <2>2, NothingPending
    <3>2. W' = W
      <4>1. \A u \in 1 .. Workers : worker'[u].calls = worker[u].calls \/ Len(Values(u)) = 0
        BY <1>w, <2>2, <2>r
      <4> QED
        BY <1>u, <4>1, NothingWritten
    <3>3. CallsInv'
      BY <1>p, <1>s, <1>u, <1>w, <2>2, <2>r DEF CallsInv
    <3> QED
      BY <3>1, <3>2, <3>3, <1>l, <1>u, <1>s, <2>2 DEF Ledger
  <2> QED
    BY <1>2, <2>1, <2>2 DEF ThreadReadFunc
<1>3. CASE ThreadEnds(t)
  <2>1. /\ worker' = [worker EXCEPT ![t].pc = "ended"] /\ counter' = counter
        /\ worker[t].calls = Len(Values(t)) + test.workers[t].reads
    BY <1>3 DEF ThreadEnds
  <2>2. P' = P
    BY <1>u, <1>w, <2>1, NothingPending
  <2>3. W' = W
    BY <1>u, <1>w, <2>1, NothingWritten
  <2>4. CallsInv'
    BY <1>s, <1>u, <1>w, <2>1 DEF CallsInv
  <2> QED
    BY <2>1, <2>2, <2>3, <2>4, <1>l, <1>u, <1>s DEF Ledger
<1> QED
  BY <1>1, <1>2, <1>3 DEF WorkerMoves

LEMMA TestStepLedger ==
  ASSUME Typed, PlaceInv, Ledger, CallsInv, TestStep \/ CreateFails
  PROVE  Ledger' /\ CallsInv'
<1> DEFINE W == Sum(AllWritten)
           P == Sum(AllPending)
<1>n. test.initial \in Nat /\ counter \in Nat /\ total \in Nat /\ W \in Nat /\ P \in Nat
  BY LedgerIsNumbers
<1>l. test.initial + W = counter + total + P
  BY DEF Ledger
<1>w. /\ Workers \in Nat \ {0} /\ DOMAIN worker = 1 .. Workers
      /\ created \in 0 .. Workers /\ joined \in 0 .. created
      /\ \A u \in 1 .. Workers : worker[u].totalRead \in Nat
  BY WorkersTyped DEF Typed, TypeOK
<1>u. test' = test
  BY DEF TestStep, Create, CreateFails, ReadPipe, Read, Join
<1>s. /\ Workers' = Workers /\ (\A u : Values(u)' = Values(u))
      /\ test.initial' = test.initial
  BY <1>u DEF Workers, Values
<1>1. CASE Create
  <2>1. /\ worker' = [worker EXCEPT ![created + 1].pc = "running"]
        /\ UNCHANGED <<test, joined, failed, total, counter>>
        /\ created + 1 \in 1 .. Workers
    BY <1>1, <1>w DEF Create, PlaceInv
  <2>2. \A u \in 1 .. Workers : /\ worker'[u].calls = worker[u].calls
                                /\ worker'[u].totalRead = worker[u].totalRead
                                /\ worker'[u].pc = "ended" => worker[u].pc = "ended"
    BY <1>w, <2>1
  <2>3. W' = W /\ P' = P
    BY <1>u, <2>1, <2>2, NothingWritten, NothingPending
  <2>4. CallsInv'
    BY <1>s, <1>u, <2>2 DEF CallsInv
  <2> QED
    BY <2>1, <2>3, <2>4, <1>l, <1>s DEF Ledger
<1>2. CASE CreateFails \/ ReadPipe
  <2>1. UNCHANGED <<test, created, joined, total, counter, worker>>
    BY <1>2 DEF CreateFails, ReadPipe
  <2>2. W' = W /\ P' = P
    BY <2>1, NothingWritten, NothingPending
  <2>3. CallsInv'
    BY <1>s, <2>1 DEF CallsInv
  <2> QED
    BY <2>1, <2>2, <2>3, <1>l, <1>s DEF Ledger
<1>3. CASE Read
  <2>1. UNCHANGED <<test, created, joined, failed, worker>>
    BY <1>3 DEF Read
  <2>2. W' = W /\ P' = P
    BY <2>1, NothingWritten, NothingPending
  <2>3. CallsInv'
    BY <1>s, <2>1 DEF CallsInv
  <2>4. counter' + total' = counter + total /\ counter' \in Nat /\ total' \in Nat
    BY <1>3, <1>n DEF Read, Val, Rest
  <2>5. test.initial' + W' = counter' + total' + P'
    <3> HIDE DEF W, P
    <3> QED
      BY <1>n, <1>l, <1>s, <2>2, <2>4
  <2> QED
    BY <2>3, <2>5 DEF Ledger
<1>4. CASE Join
  <2>1. /\ joined < Workers /\ joined' = joined + 1
        /\ UNCHANGED <<test, created, failed, counter, worker>>
        /\ total' = total + worker[joined'].totalRead
    BY <1>4 DEF Join, PlaceInv
  <2>2. P = P' + worker[joined'].totalRead
    BY <2>1, JoinIsBooked
  <2>3. W' = W
    BY <2>1, NothingWritten
  <2>4. CallsInv'
    BY <1>s, <2>1 DEF CallsInv
  <2>5. test.initial' + W' = counter' + total' + P'
    <3>1. PICK d \in Nat : d = worker[joined'].totalRead
      BY <1>w, <2>1
    <3>2. P = P' + d /\ P' \in Nat /\ total' = total + d
      BY <2>1, <2>2, <3>1, JoinIsBooked
    <3> HIDE DEF W, P
    <3> QED
      BY <3>1, <3>2, <2>1, <2>3, <1>n, <1>l, <1>s
  <2> QED
    BY <2>4, <2>5 DEF Ledger
<1> QED
  BY <1>1, <1>2, <1>3, <1>4 DEF TestStep
-----------------------------------------------------------------------------
(* What the EXPECTs need beside the ledger.                                *)

\* The tests that read while their worker may still run: nothing is read before,
\* and the one read finds all that was written.  A child has ended before.
StartedInv ==
  test.read = "started" =>
    /\ pc \in {"create", "pipe", "read"} => total = 0
    /\ pc \in {"join", "over"} /\ ~failed => total \in test.expected
    /\ test.forks /\ pc = "read" /\ ~failed => worker[1].pc = "ended"

\* The tests that read at the end leave nothing in the counter.
EmptiedInv == test.read = "joined" /\ pc = "over" /\ ~failed => counter = 0

\* As long as the counter of test 0076 has something to give, no read has failed.
PlentyInv ==
  test = ConcurrentRead_0076 /\ counter > 0 =>
    /\ total = joined * Reads
    /\ \A t \in 1 .. Workers : worker[t].totalRead = worker[t].calls

\* The first k workers of a test make Writes writes of 1, the others none.
Uniform(t, k) ==
  \A j \in 1 .. Len(t.workers) :
    t.workers[j].values = IF j <= k THEN [n \in 1 .. Writes |-> 1] ELSE <<>>

\* What k such workers write is what a test expects, or within what it allows.
Foreseen(t, k) ==
  /\ k \in 0 .. Len(t.workers) /\ Uniform(t, k)
  /\ t.read = "joined" => t.initial = 0 /\ t.expected = {k * Writes}
  /\ t.read = "never" /\ t # ConcurrentRead_0076 =>
       0 .. (t.initial + k * Writes) \subseteq t.expected

LEMMA TestKinds ==
  ASSUME NEW t \in Tests
  PROVE  /\ t.read = "started" => t \in {StateBlockingRead_0070, ForkConcurrent_0079}
         /\ t.read = "joined" => "EFD_SEMAPHORE" \notin t.flags
         /\ t.forks => t = ForkConcurrent_0079
         /\ t.read # "started" => "EFD_NONBLOCK" \in t.flags
<1>1. CASE t = ReadTiming_0055
  <2>1. t.read = "never" /\ t.forks = FALSE /\ "EFD_NONBLOCK" \in t.flags
    BY <1>1 DEF ReadTiming_0055
  <2> QED
    BY <2>1
<1>2. CASE t = WriteTiming_0060
  <2>1. t.read = "joined" /\ t.forks = FALSE /\ t.flags = {"EFD_NONBLOCK"}
    BY <1>2 DEF WriteTiming_0060
  <2> QED
    BY <2>1
<1>3. CASE t = StateBlockingRead_0070
  BY <1>3 DEF StateBlockingRead_0070
<1>4. CASE t = ConcurrentRead_0076
  <2>1. t.read = "never" /\ t.forks = FALSE /\ "EFD_NONBLOCK" \in t.flags
    BY <1>4 DEF ConcurrentRead_0076
  <2> QED
    BY <2>1
<1>5. CASE t = ConcurrentWrite_0077
  <2>1. t.read = "joined" /\ t.forks = FALSE /\ t.flags = {"EFD_NONBLOCK"}
    BY <1>5 DEF ConcurrentWrite_0077
  <2> QED
    BY <2>1
<1>6. CASE t = ConcurrentReadWrite_0078
  <2>1. t.read = "joined" /\ t.forks = FALSE /\ t.flags = {"EFD_NONBLOCK"}
    BY <1>6 DEF ConcurrentReadWrite_0078
  <2> QED
    BY <2>1
<1>7. CASE t = ForkConcurrent_0079
  BY <1>7 DEF ForkConcurrent_0079
<1>8. CASE t = MassiveConcurrency_0081
  <2>1. t.read = "never" /\ t.forks = FALSE /\ "EFD_NONBLOCK" \in t.flags
    BY <1>8 DEF MassiveConcurrency_0081, ConcurrentReadWrite_0078
  <2> QED
    BY <2>1
<1> QED
  BY <1>1, <1>2, <1>3, <1>4, <1>5, <1>6, <1>7, <1>8 DEF Tests

LEMMA ConcatElement ==
  ASSUME NEW S, NEW v \in Seq(S), NEW w \in Seq(S), NEW n \in Nat,
         Len(v) = n, Len(w) = n, NEW j \in 1 .. n + n
  PROVE  (v \o w)[j] = IF j <= n THEN v[j] ELSE w[j - n]
<1>1. \A i \in 1 .. Len(v) + Len(w) : (v \o w)[i] = IF i <= Len(v) THEN v[i] ELSE w[i - Len(v)]
  BY ConcatProperties
<1> QED
  BY <1>1

LEMMA ManyWriters ==
  /\ \A j \in 1 .. Threads : Many(ManyWrites)[j].values = [n \in 1 .. Writes |-> 1]
  /\ \A c, j \in Nat : j \in 1 .. Threads => Many(Reader(c))[j].values = <<>>
  /\ \A c, j \in Nat : j \in 1 .. Threads + Threads =>
       (Many(ManyWrites) \o Many(Reader(c)))[j].values
         = IF j <= Threads THEN [n \in 1 .. Writes |-> 1] ELSE <<>>
<1>n. Threads \in Nat \ {0}
  BY SizeAssumption
<1>1. \A j \in 1 .. Threads : Many(ManyWrites)[j].values = [n \in 1 .. Writes |-> 1]
  BY DEF Many, ManyWrites, Writer
<1>2. \A c, j \in Nat : j \in 1 .. Threads => Many(Reader(c))[j].values = <<>>
  BY DEF Many, Reader
<1>3. ASSUME NEW c \in Nat, NEW j \in 1 .. Threads + Threads
      PROVE  (Many(ManyWrites) \o Many(Reader(c)))[j].values
               = IF j <= Threads THEN [n \in 1 .. Writes |-> 1] ELSE <<>>
  <2>1. Reader(c) \in Work /\ ManyWrites \in Work
    BY WorkTyped DEF Work, Reader
  <2>2. /\ Many(ManyWrites) \in Seq(Work) /\ Len(Many(ManyWrites)) = Threads
        /\ Many(Reader(c)) \in Seq(Work) /\ Len(Many(Reader(c))) = Threads
    BY <2>1, ManyIsSeq
  <2>3. (Many(ManyWrites) \o Many(Reader(c)))[j]
          = IF j <= Threads THEN Many(ManyWrites)[j] ELSE Many(Reader(c))[j - Threads]
    BY <1>n, <2>2, ConcatElement
  <2>4. CASE j <= Threads
    <3>1. j \in 1 .. Threads
      BY <1>n, <2>4
    <3>2. (Many(ManyWrites) \o Many(Reader(c)))[j] = Many(ManyWrites)[j]
      BY <2>3, <2>4
    <3> QED
      BY <1>1, <2>4, <3>1, <3>2
  <2>5. CASE j > Threads
    <3>1. j - Threads \in 1 .. Threads /\ j - Threads \in Nat
      BY <1>n, <2>5
    <3>2. (Many(ManyWrites) \o Many(Reader(c)))[j] = Many(Reader(c))[j - Threads]
      BY <1>n, <2>3, <2>5
    <3>3. ~(j <= Threads)
      BY <1>n, <2>5
    <3> QED
      BY <1>2, <3>1, <3>2, <3>3
  <2>6. j <= Threads \/ j > Threads
    BY <1>n
  <2> QED
    BY <2>4, <2>5, <2>6, Zenon
<1> QED
  BY <1>n, <1>1, <1>2, <1>3

LEMMA NothingToWrite == Foreseen(ConcurrentRead_0076, 0)
<1> DEFINE t == ConcurrentRead_0076
<1>n. Threads \in Nat \ {0} /\ Reads \in Nat
  BY SizeAssumption
<1>1. t.workers = Many(Reader(Reads)) /\ t.read = "never"
  BY DEF ConcurrentRead_0076
<1>2. Len(t.workers) = Threads
  BY <1>1, ManyIsSeq, WorkTyped
<1>3. Uniform(t, 0)
  BY <1>n, <1>1, <1>2, ManyWriters DEF Uniform
<1>4. 0 \in 0 .. Len(t.workers)
  BY <1>n, <1>2
<1> QED
  BY <1>1, <1>3, <1>4 DEF Foreseen

LEMMA TotalsForeseen ==
  ASSUME NEW t \in Tests, t.read # "started"
  PROVE  \E k : Foreseen(t, k)
<1>n. /\ Threads \in Nat \ {0} /\ Writes \in Nat /\ Reads \in Nat /\ Units \in Nat
      /\ Threads * Writes \in Nat /\ Writes <= Threads * Writes + 1
  <2>1. Threads \in Nat \ {0} /\ Writes \in Nat /\ Reads \in Nat /\ Units \in Nat
    BY SizeAssumption
  <2>2. PICK p \in Nat : Threads = p + 1
    <3>1. Threads - 1 \in Nat /\ Threads = (Threads - 1) + 1
      BY <2>1
    <3> QED
      BY <3>1
  <2>3. Threads * Writes = p * Writes + Writes /\ p * Writes \in Nat
    BY <2>1, <2>2
  <2> QED
    BY <2>1, <2>3
<1>1. CASE t = ReadTiming_0055
  <2>1. /\ t.workers = <<ManyWrites, Reader(Writes)>> /\ t.initial = 0
        /\ t.read = "never" /\ t.expected = AnyTotal
    BY <1>1 DEF ReadTiming_0055
  <2>2. Len(t.workers) = 2 /\ Uniform(t, 1)
    <3>1. /\ Len(t.workers) = 2
          /\ t.workers[1] = ManyWrites /\ t.workers[2] = Reader(Writes)
      BY <2>1
    <3>2. /\ ManyWrites.values = [n \in 1 .. Writes |-> 1]
          /\ Reader(Writes).values = <<>>
      BY DEF ManyWrites, Writer, Reader
    <3>3. \A j \in 1 .. 2 : j = 1 \/ (j = 2 /\ ~(j <= 1))
      OBVIOUS
    <3> QED
      BY <3>1, <3>2, <3>3 DEF Uniform
  <2>3. 0 .. (t.initial + 1 * Writes) \subseteq t.expected
    BY <1>n, <2>1 DEF AnyTotal
  <2> QED
    BY <2>1, <2>2, <2>3 DEF Foreseen
<1>2. CASE t = WriteTiming_0060
  <2>1. /\ t.workers = <<ManyWrites, ManyWrites>> /\ t.initial = 0
        /\ t.read = "joined" /\ t.expected = {2 * Writes}
    BY <1>2 DEF WriteTiming_0060
  <2>2. Len(t.workers) = 2 /\ Uniform(t, 2)
    <3>1. /\ Len(t.workers) = 2
          /\ t.workers[1] = ManyWrites /\ t.workers[2] = ManyWrites
      BY <2>1
    <3>2. ManyWrites.values = [n \in 1 .. Writes |-> 1]
      BY DEF ManyWrites, Writer
    <3>3. \A j \in 1 .. 2 : j <= 2 /\ (j = 1 \/ j = 2)
      OBVIOUS
    <3> QED
      BY <3>1, <3>2, <3>3 DEF Uniform
  <2> QED
    BY <2>1, <2>2 DEF Foreseen
<1>3. CASE t = ConcurrentRead_0076
  BY <1>3, NothingToWrite
<1>4. CASE t = ConcurrentWrite_0077
  <2>1. /\ t.workers = Many(ManyWrites) /\ t.initial = 0
        /\ t.read = "joined" /\ t.expected = {Threads * Writes}
    BY <1>4 DEF ConcurrentWrite_0077
  <2>2. Len(t.workers) = Threads
    BY <2>1, ManyIsSeq, WorkTyped
  <2>3. Uniform(t, Threads)
    BY <1>n, <2>1, <2>2, ManyWriters DEF Uniform
  <2> QED
    BY <1>n, <2>1, <2>2, <2>3 DEF Foreseen
<1>5. CASE t \in {ConcurrentReadWrite_0078, MassiveConcurrency_0081}
  <2>7. ASSUME t = ConcurrentReadWrite_0078
        PROVE  /\ t.workers = Many(ManyWrites) \o Many(Reader(Writes))
               /\ t.initial = 0 /\ t.read = "joined" /\ t.expected = {Threads * Writes}
    BY <2>7 DEF ConcurrentReadWrite_0078
  <2>8. ASSUME t = MassiveConcurrency_0081
        PROVE  /\ t.workers = Many(ManyWrites) \o Many(Reader(Writes))
               /\ t.initial = 1 /\ t.read = "never" /\ t.expected = AnyTotal
    BY <2>8 DEF MassiveConcurrency_0081, ConcurrentReadWrite_0078
  <2>1. t.workers = Many(ManyWrites) \o Many(Reader(Writes))
    BY <1>5, <2>7, <2>8
  <2>2. Len(t.workers) = Threads + Threads
    BY <2>1, ReadersAndWriters, WorkTyped
  <2>3. Uniform(t, Threads)
    BY <1>n, <2>1, <2>2, ManyWriters DEF Uniform
  <2>4. Threads \in 0 .. Len(t.workers)
    BY <1>n, <2>2
  <2>5. CASE t = ConcurrentReadWrite_0078
    BY <2>7, <2>3, <2>4, <2>5 DEF Foreseen
  <2>6. CASE t = MassiveConcurrency_0081
    <3>1. 0 .. (t.initial + Threads * Writes) \subseteq t.expected
      BY <1>n, <2>8, <2>6 DEF AnyTotal
    <3> QED
      BY <2>8, <2>3, <2>4, <2>6, <3>1 DEF Foreseen
  <2> QED
    BY <1>5, <2>5, <2>6
<1>6. CASE t \in {StateBlockingRead_0070, ForkConcurrent_0079}
  BY <1>6 DEF StateBlockingRead_0070, ForkConcurrent_0079
<1> QED
  BY <1>1, <1>2, <1>3, <1>4, <1>5, <1>6 DEF Tests

LEMMA SumOfOne ==
  ASSUME NEW f \in [1 .. 1 -> Nat]
  PROVE  Sum(f) = f[1]
<1>1. f \in Seq(Nat) /\ Len(f) = 1
  BY SumOfFunction
<1>2. PICK u : /\ u[0] = 0 /\ \A n \in 1 .. 1 : u[n] = u[n - 1] + f[n]
               /\ Sum(f) = u[1]
  BY <1>1, PartialSums
<1>3. u[1] = u[0] + f[1] /\ f[1] \in Nat
  BY <1>2
<1> QED
  BY <1>2, <1>3

LEMMA SumOfTwo ==
  ASSUME NEW f \in [1 .. 2 -> Nat]
  PROVE  Sum(f) = f[1] + f[2]
<1>1. f \in Seq(Nat) /\ Len(f) = 2
  BY SumOfFunction
<1>2. PICK u : /\ u[0] = 0 /\ \A n \in 1 .. 2 : u[n] = u[n - 1] + f[n]
               /\ Sum(f) = u[2]
  BY <1>1, PartialSums
<1>3. u[1] = u[0] + f[1] /\ u[2] = u[1] + f[2] /\ f[1] \in Nat /\ f[2] \in Nat
  BY <1>2
<1> QED
  BY <1>2, <1>3

\* The tests with one worker that writes and is read from once.
StartedTest ==
  /\ Workers = 1 /\ test.initial = 0
  /\ "EFD_NONBLOCK" \notin test.flags /\ "EFD_SEMAPHORE" \notin test.flags
  /\ test.workers[1].reads = 0
  /\ \/ /\ test = StateBlockingRead_0070 /\ ~test.forks
        /\ Values(1) = <<9>> /\ test.expected = {9}
     \/ /\ test = ForkConcurrent_0079 /\ test.forks
        /\ Values(1) = <<5, 3>> /\ test.expected = {8}

LEMMA StartedTests ==
  ASSUME Typed, test.read = "started"
  PROVE  StartedTest
<1>1. test \in {StateBlockingRead_0070, ForkConcurrent_0079}
  BY TestKinds DEF Typed, TypeOK
<1>2. ASSUME test = StateBlockingRead_0070 PROVE StartedTest
  <2>1. /\ test.workers = <<Writer(<<9>>)>> /\ test.initial = 0 /\ test.forks = FALSE
        /\ test.flags = {} /\ test.expected = {9}
    BY <1>2 DEF StateBlockingRead_0070
  <2>2. Len(test.workers) = 1 /\ test.workers[1] = Writer(<<9>>)
    BY <2>1
  <2> QED
    BY <1>2, <2>1, <2>2 DEF StartedTest, Workers, Values, Writer
<1>3. ASSUME test = ForkConcurrent_0079 PROVE StartedTest
  <2>1. /\ test.workers = <<Writer(<<5, 3>>)>> /\ test.initial = 0 /\ test.forks = TRUE
        /\ test.flags = {} /\ test.expected = {8}
    BY <1>3 DEF ForkConcurrent_0079
  <2>2. Len(test.workers) = 1 /\ test.workers[1] = Writer(<<5, 3>>)
    BY <2>1
  <2> QED
    BY <1>3, <2>1, <2>2 DEF StartedTest, Workers, Values, Writer
<1> QED
  BY <1>1, <1>2, <1>3

\* What their worker has written is in the counter or with the test.
LEMMA StartedLedger ==
  ASSUME Typed, Ledger, CallsInv, test.read = "started"
  PROVE  /\ Written(1) = counter + total
         /\ worker[1].totalRead = 0
         /\ test = StateBlockingRead_0070 =>
              Written(1) = IF worker[1].calls = 0 THEN 0 ELSE 9
         /\ worker[1].calls = Len(Values(1)) => Written(1) \in test.expected
<1>1. StartedTest
  BY StartedTests
<1>w. /\ Workers = 1 /\ DOMAIN worker = 1 .. 1 /\ worker[1].calls \in Nat
      /\ 1 \in 1 .. Workers
  BY <1>1, WorkersTyped DEF StartedTest, Typed, TypeOK
<1>r. worker[1].totalRead = 0
  BY <1>1, <1>w DEF StartedTest, CallsInv
<1>n. /\ test.initial = 0 /\ counter \in Nat /\ total \in Nat
      /\ Sum(AllWritten) \in Nat /\ Sum(AllPending) \in Nat
  BY <1>1, LedgerIsNumbers DEF StartedTest
<1>2. /\ AllWritten \in [1 .. 1 -> Nat] /\ AllPending \in [1 .. 1 -> Nat]
      /\ Done(1) \in [1 .. Len(Values(1)) -> Nat]
  BY <1>w, LedgerTyped
<1>3. AllWritten[1] = Written(1) /\ AllPending[1] = 0
  BY <1>w, <1>r DEF AllWritten, AllPending, Pending
<1>4. Sum(AllWritten) = Written(1) /\ Sum(AllPending) = 0
  BY <1>2, <1>3, SumOfOne
<1>5. Written(1) = counter + total
  BY <1>4, <1>n DEF Ledger
<1>6. CASE test = StateBlockingRead_0070
  <2>1. Values(1) = <<9>> /\ test.expected = {9}
    BY <1>1, <1>6 DEF StartedTest, StateBlockingRead_0070, ForkConcurrent_0079
  <2>2. Len(Values(1)) = 1 /\ Values(1)[1] = 9
    BY <2>1
  <2>3. Done(1)[1] = IF worker[1].calls = 0 THEN 0 ELSE 9
    BY <1>w, <2>2 DEF Done
  <2>4. Written(1) = IF worker[1].calls = 0 THEN 0 ELSE 9
    BY <1>2, <2>2, <2>3, SumOfOne DEF Written
  <2> QED
    BY <1>5, <1>r, <2>1, <2>2, <2>4
<1>7. CASE test # StateBlockingRead_0070
  <2>1. Values(1) = <<5, 3>> /\ test.expected = {8}
    BY <1>1, <1>7 DEF StartedTest
  <2>2. Len(Values(1)) = 2 /\ Values(1)[1] = 5 /\ Values(1)[2] = 3
    BY <2>1
  <2>3. worker[1].calls = 2 => Done(1)[1] = 5 /\ Done(1)[2] = 3
    BY <2>2 DEF Done
  <2>4. worker[1].calls = 2 => Written(1) = 8
    BY <1>2, <2>2, <2>3, SumOfTwo DEF Written
  <2> QED
    BY <1>5, <1>r, <1>7, <2>1, <2>2, <2>4
<1> QED
  BY <1>6, <1>7

\* Which workers there are, and what a fork that failed leaves behind.
BirthInv ==
  /\ pc = "create" => ~failed
  /\ ~failed /\ pc # "create" => created = Workers
  /\ \A t \in 1 .. created : worker[t].pc # "none"
  /\ test.forks /\ created = 0 => counter = 0
  /\ failed => pc = "over" \/ (pc \in {"pipe", "read"} /\ test.forks /\ created = 0)
  /\ pc = "read" => test.read # "never"

PlentyTest ==
  /\ Workers = Threads /\ test.initial = Units /\ test.expected = {Units}
  /\ "EFD_SEMAPHORE" \in test.flags
  /\ \A t \in 1 .. Workers : Len(Values(t)) = 0 /\ test.workers[t].reads = Reads

LEMMA PlentyTests == ASSUME test = ConcurrentRead_0076 PROVE PlentyTest
<1>1. /\ test.workers = Many(Reader(Reads)) /\ test.initial = Units
      /\ test.expected = {Units} /\ "EFD_SEMAPHORE" \in test.flags
  BY DEF ConcurrentRead_0076
<1>2. Len(test.workers) = Threads
  BY <1>1, ManyIsSeq, WorkTyped
<1>3. \A t \in 1 .. Threads : test.workers[t] = [values |-> <<>>, reads |-> Reads]
  BY <1>1 DEF Many, Reader
<1>4. Workers = Threads
  BY <1>2 DEF Workers
<1>5. \A t \in 1 .. Workers : Len(Values(t)) = 0 /\ test.workers[t].reads = Reads
  BY <1>3, <1>4 DEF Values
<1> QED
  BY <1>1, <1>4, <1>5 DEF PlentyTest

Expect == StartedInv /\ EmptiedInv /\ PlentyInv /\ BirthInv

LEMMA InitExpect == Init => Expect
<1> SUFFICES ASSUME Init PROVE Expect
  OBVIOUS
<1>1. Typed
  BY InitTyped DEF Typed
<1>w. /\ Workers \in Nat \ {0} /\ DOMAIN worker = 1 .. Workers
      /\ worker = [t \in 1 .. Workers |-> NotStarted]
  BY <1>1, WorkersTyped DEF Init
<1>i. pc = "create" /\ created = 0 /\ joined = 0 /\ failed = FALSE /\ total = 0
      /\ counter = test.initial
  BY DEF Init
<1>2. StartedInv /\ EmptiedInv
  BY <1>i DEF StartedInv, EmptiedInv
<1>3. PlentyInv
  <2>1. total = joined * Reads
    BY <1>i, SizeAssumption
  <2> QED
    BY <1>w, <2>1 DEF PlentyInv, NotStarted
<1>4. BirthInv
  <2>1. test.forks => counter = 0
    BY <1>1, <1>i, StartedTests DEF StartedTest, Typed, TestTyped
  <2> QED
    BY <1>i, <2>1 DEF BirthInv
<1> QED
  BY <1>2, <1>3, <1>4 DEF Expect

Known == Typed /\ PlaceInv /\ JoinInv /\ Ledger /\ CallsInv /\ Expect

LEMMA WorkerStepExpect ==
  ASSUME Known, NEW t \in DOMAIN worker, WorkerMoves(t)
  PROVE  Expect'
<1>w. /\ Workers \in Nat \ {0} /\ DOMAIN worker = 1 .. Workers
      /\ created \in 0 .. Workers /\ joined \in 0 .. created /\ counter \in Nat
      /\ \A u \in 1 .. Workers :
           /\ Len(Values(u)) \in Nat /\ test.workers[u].reads \in Nat
           /\ worker[u].calls \in Nat /\ worker[u].totalRead \in Nat
  <2>1. /\ Workers \in Nat \ {0} /\ DOMAIN worker = 1 .. Workers
        /\ \A u \in 1 .. Workers : Len(Values(u)) \in Nat /\ test.workers[u].reads \in Nat
    BY WorkersTyped DEF Known
  <2>2. /\ created \in 0 .. Workers /\ joined \in 0 .. created /\ counter \in Nat
        /\ \A u \in 1 .. Workers :
             /\ worker[u].calls \in 0 .. Len(Values(u)) + test.workers[u].reads
             /\ worker[u].totalRead \in Nat
    BY <2>1 DEF Known, Typed, TypeOK
  <2>3. \A u \in 1 .. Workers : worker[u].calls \in Nat
    BY <2>1, <2>2
  <2> QED
    BY <2>1, <2>2, <2>3
<1>u. UNCHANGED <<test, pc, created, joined, failed, total>>
  BY DEF WorkerMoves, ThreadWriteFunc, ThreadReadFunc, ThreadEnds
<1>s. Workers' = Workers /\ \A u : Values(u)' = Values(u)
  BY <1>u DEF Workers, Values
<1>p. /\ worker[t].pc = "running" /\ DOMAIN worker' = DOMAIN worker
      /\ \A u \in DOMAIN worker : u # t => worker'[u] = worker[u]
  BY WorkersProceed DEF Known
<1>1. StartedInv'
  <2>1. test.forks /\ pc = "read" /\ ~failed => worker'[1].pc = "ended"
    <3>1. test.forks => test.read = "started"
      BY DEF Known, Typed, TestTyped
    <3>2. test.forks /\ pc = "read" /\ ~failed => worker[1].pc = "ended"
      BY <3>1 DEF Known, Expect, StartedInv
    <3>3. worker[1].pc = "ended" => worker'[1] = worker[1]
      <4>1. 1 \in DOMAIN worker
        BY <1>w
      <4> QED
        BY <4>1, <1>p
    <3> QED
      BY <3>2, <3>3
  <2> QED
    BY <1>u, <2>1 DEF Known, Expect, StartedInv
<1>2. EmptiedInv'
  <2>1. ~(pc = "over" /\ ~failed)
    <3> SUFFICES ASSUME pc = "over", ~failed PROVE FALSE
      OBVIOUS
    <3>1. worker[t].pc = "ended"
      BY <1>w DEF Known, JoinInv
    <3> QED
      BY <3>1, <1>p
  <2> QED
    BY <1>u, <2>1 DEF EmptiedInv
<1>3. PlentyInv'
  <2> SUFFICES ASSUME test = ConcurrentRead_0076, counter' > 0
               PROVE  /\ total = joined * Reads
                      /\ \A u \in 1 .. Workers : worker'[u].totalRead = worker'[u].calls
    BY <1>u, <1>s DEF PlentyInv
  <2>1. PlentyTest
    BY PlentyTests
  <2>2. CASE ThreadWriteFunc(t)
    BY <2>1, <2>2, <1>w DEF PlentyTest, ThreadWriteFunc
  <2>3. CASE ThreadReadFunc(t)
    <3>1. /\ counter > 0
          /\ worker' = [worker EXCEPT ![t].calls = @ + 1, ![t].totalRead = @ + Val]
      BY <2>3, <1>w DEF ThreadReadFunc, Again
    <3>2. Val = 1
      BY <2>1 DEF PlentyTest, Val
    <3>3. /\ total = joined * Reads
          /\ \A u \in 1 .. Workers : worker[u].totalRead = worker[u].calls
      BY <3>1 DEF Known, Expect, PlentyInv
    <3> QED
      BY <1>w, <3>1, <3>2, <3>3
  <2>4. CASE ThreadEnds(t)
    <3>1. counter > 0 /\ worker' = [worker EXCEPT ![t].pc = "ended"]
      BY <2>4 DEF ThreadEnds
    <3>2. /\ total = joined * Reads
          /\ \A u \in 1 .. Workers : worker[u].totalRead = worker[u].calls
      BY <3>1 DEF Known, Expect, PlentyInv
    <3> QED
      BY <1>w, <3>1, <3>2
  <2> QED
    BY <2>2, <2>3, <2>4 DEF WorkerMoves
<1>4. BirthInv'
  <2>1. \A u \in 1 .. created' : worker'[u].pc # "none"
    <3>1. worker'[t].pc # "none"
      <4>1. CASE ThreadWriteFunc(t)
        BY <4>1, <1>p, <1>w DEF ThreadWriteFunc
      <4>2. CASE ThreadReadFunc(t)
        <5>1. \/ worker' = [worker EXCEPT ![t].calls = @ + 1, ![t].totalRead = @ + Val]
              \/ worker' = [worker EXCEPT ![t].calls = @ + 1]
          BY <4>2 DEF ThreadReadFunc
        <5>2. CASE worker' = [worker EXCEPT ![t].calls = @ + 1, ![t].totalRead = @ + Val]
          BY <5>2, <1>p, <1>w
        <5>3. CASE worker' = [worker EXCEPT ![t].calls = @ + 1]
          BY <5>3, <1>p, <1>w
        <5> QED
          BY <5>1, <5>2, <5>3
      <4>3. CASE ThreadEnds(t)
        BY <4>3, <1>p, <1>w DEF ThreadEnds
      <4> QED
        BY <4>1, <4>2, <4>3 DEF WorkerMoves
    <3>2. \A u \in 1 .. created : worker[u].pc # "none"
      BY DEF Known, Expect, BirthInv
    <3>3. \A u \in 1 .. created : u \in DOMAIN worker
      BY <1>w
    <3>4. created' = created
      BY <1>u
    <3> QED
      BY <3>1, <3>2, <3>3, <3>4, <1>p
  <2>2. created # 0
    BY <1>p, <1>w DEF Known, PlaceInv
  <2> QED
    BY <1>u, <1>s, <2>1, <2>2 DEF Known, Expect, BirthInv
<1> QED
  BY <1>1, <1>2, <1>3, <1>4 DEF Expect

LEMMA TestStepExpect ==
  ASSUME Known, TestStep \/ CreateFails
  PROVE  Expect'
<1>w. /\ Workers \in Nat \ {0} /\ DOMAIN worker = 1 .. Workers
      /\ created \in 0 .. Workers /\ joined \in 0 .. created
      /\ counter \in Nat /\ total \in Nat
      /\ test.forks \in BOOLEAN
      /\ test.read \in {"never", "started", "joined"}
      /\ test.forks => test.read = "started"
      /\ test \in Tests
  BY WorkersTyped DEF Known, Typed, TypeOK, TestTyped
<1>s. test' = test /\ Workers' = Workers
  BY DEF TestStep, Create, CreateFails, ReadPipe, Read, Join, Workers
<1>f. test.read = "started" => Workers = 1 /\ StartedTest
  BY StartedTests DEF Known, StartedTest
<1>1. CASE Create
  <2>1. /\ created < Workers /\ created' = created + 1
        /\ worker' = [worker EXCEPT ![created + 1].pc = "running"]
        /\ UNCHANGED <<test, joined, failed, total, counter>>
        /\ pc = "create" /\ joined = 0 /\ ~failed
    BY <1>1 DEF Create, Known, PlaceInv, Expect, BirthInv
  <2>2. pc' = IF created + 1 = Workers THEN AfterStart ELSE "create"
    BY <1>1 DEF Create
  <2>3. /\ pc' \in {"create", "pipe", "read", "join"}
        /\ test.read = "started" => pc' \in {"create", "pipe", "read"}
        /\ test.forks => pc' # "read"
        /\ pc' = "read" => test.read = "started"
    BY <2>2, <1>w DEF AfterStart
  <2>4. StartedInv'
    BY <1>w, <2>1, <2>3 DEF Known, Expect, StartedInv
  <2>5. EmptiedInv'
    BY <2>3 DEF EmptiedInv
  <2>6. PlentyInv'
    BY <1>s, <1>w, <2>1 DEF Known, Expect, PlentyInv
  <2>7. BirthInv'
    <3>1. pc' # "create" => created' = Workers'
      BY <1>s, <2>1, <2>2
    <3>2. \A u \in 1 .. created' : worker'[u].pc # "none"
      BY <1>w, <2>1 DEF Known, Expect, BirthInv
    <3>3. created' # 0
      BY <1>w, <2>1
    <3> QED
      BY <2>1, <2>3, <3>1, <3>2, <3>3 DEF BirthInv
  <2> QED
    BY <2>4, <2>5, <2>6, <2>7 DEF Expect
<1>2. CASE CreateFails
  <2>1. /\ UNCHANGED <<test, created, joined, total, counter, worker>>
        /\ failed' = TRUE /\ pc = "create" /\ created < Workers
        /\ pc' = IF test.forks THEN "pipe" ELSE "over"
    BY <1>2 DEF CreateFails, Known, PlaceInv
  <2>2. StartedInv'
    BY <2>1, <1>w DEF Known, Expect, StartedInv
  <2>3. EmptiedInv'
    BY <2>1 DEF EmptiedInv
  <2>4. PlentyInv'
    BY <1>s, <2>1 DEF Known, Expect, PlentyInv
  <2>5. test.forks => created = 0
    BY <1>w, <1>f, <2>1
  <2>6. BirthInv'
    BY <1>s, <1>w, <2>1, <2>5 DEF Known, Expect, BirthInv
  <2> QED
    BY <2>2, <2>3, <2>4, <2>6 DEF Expect
<1>3. CASE ReadPipe
  <2>1. /\ UNCHANGED <<test, created, joined, failed, total, counter, worker>>
        /\ pc = "pipe" /\ pc' = "read" /\ test.forks
        /\ failed \/ worker[1].pc = "ended"
    BY <1>3 DEF ReadPipe, Known, PlaceInv
  <2>2. StartedInv'
    BY <2>1, <1>w DEF Known, Expect, StartedInv
  <2>3. EmptiedInv'
    BY <2>1 DEF EmptiedInv
  <2>4. PlentyInv'
    BY <1>s, <2>1 DEF Known, Expect, PlentyInv
  <2>5. BirthInv'
    BY <1>s, <1>w, <2>1 DEF Known, Expect, BirthInv
  <2> QED
    BY <2>2, <2>3, <2>4, <2>5 DEF Expect
<1>4. CASE Read
  <2>1. /\ UNCHANGED <<test, created, joined, failed, worker>>
        /\ pc = "read" /\ test.read # "never"
        /\ pc' = IF test.read = "started" THEN "join" ELSE "over"
        /\ \/ counter > 0 /\ total' = total + Val /\ counter' = Rest
           \/ Again /\ UNCHANGED <<total, counter>>
    BY <1>4 DEF Read, Known, Expect, BirthInv
  <2>2. StartedInv'
    <3> SUFFICES ASSUME test.read = "started", ~failed
                 PROVE  pc' = "join" /\ total' \in test.expected
      BY <2>1 DEF StartedInv
    <3>1. total = 0 /\ (test.forks => worker[1].pc = "ended")
      BY <2>1 DEF Known, Expect, StartedInv
    <3>2. counter > 0 /\ total' = counter
      <4>1. ~Again /\ Val = counter
        BY <1>f DEF StartedTest, Again, Val
      <4> QED
        BY <1>w, <2>1, <3>1, <4>1
    <3>3. /\ Written(1) = counter /\ worker[1].calls \in 0 .. Len(Values(1))
          /\ worker[1].pc = "ended" => worker[1].calls = Len(Values(1))
      <4>1. Written(1) = counter + total
        BY StartedLedger DEF Known
      <4>2. /\ worker[1].calls \in 0 .. Len(Values(1)) + test.workers[1].reads
            /\ worker[1].pc = "ended" =>
                 worker[1].calls = Len(Values(1)) + test.workers[1].reads
        BY <1>f, <1>w DEF Known, Typed, TypeOK, CallsInv
      <4>3. test.workers[1].reads = 0 /\ Len(Values(1)) \in Nat
        BY <1>f, WorkersTyped DEF StartedTest, Known
      <4> QED
        BY <1>w, <3>1, <4>1, <4>2, <4>3
    <3>4. CASE test.forks
      <4>1. Written(1) \in test.expected
        BY <3>1, <3>3, <3>4, StartedLedger DEF Known
      <4> QED
        BY <2>1, <3>2, <3>3, <4>1
    <3>5. CASE ~test.forks
      <4>1. test = StateBlockingRead_0070 /\ test.expected = {9}
        BY <1>f, <3>5 DEF StartedTest
      <4>2. Written(1) = IF worker[1].calls = 0 THEN 0 ELSE 9
        BY <4>1, StartedLedger DEF Known
      <4> QED
        BY <1>w, <2>1, <3>2, <3>3, <4>1, <4>2
    <3> QED
      BY <3>4, <3>5
  <2>3. EmptiedInv'
    <3> SUFFICES ASSUME test.read = "joined" PROVE counter' = 0
      BY <2>1 DEF EmptiedInv
    <3>1. "EFD_SEMAPHORE" \notin test.flags
      BY <1>w, TestKinds
    <3> QED
      BY <1>w, <2>1, <3>1 DEF Val, Rest, Again
  <2>4. PlentyInv'
    <3>1. test.read # "never" => test # ConcurrentRead_0076
      BY DEF ConcurrentRead_0076
    <3> QED
      BY <1>s, <2>1, <3>1 DEF PlentyInv
  <2>5. BirthInv'
    <3>1. ~failed
      <4> SUFFICES ASSUME failed PROVE FALSE
        OBVIOUS
      <4>1. test.forks /\ created = 0 /\ counter = 0
        BY <2>1 DEF Known, Expect, BirthInv
      <4>2. ~Again
        BY <1>w, <1>f, <4>1 DEF StartedTest, Again
      <4> QED
        BY <2>1, <4>1, <4>2
    <3>2. created # 0
      BY <1>w, <2>1, <3>1 DEF Known, Expect, BirthInv
    <3> QED
      BY <1>s, <2>1, <3>1, <3>2 DEF Known, Expect, BirthInv
  <2> QED
    BY <2>2, <2>3, <2>4, <2>5 DEF Expect
<1>5. CASE Join
  <2>1. /\ UNCHANGED <<test, created, failed, counter, worker>>
        /\ pc = "join" /\ joined < Workers /\ joined' = joined + 1
        /\ worker[joined + 1].pc = "ended"
        /\ total' = total + worker[joined + 1].totalRead
        /\ pc' = IF joined + 1 = Workers THEN AfterJoin ELSE "join"
    BY <1>5 DEF Join, Known, PlaceInv
  <2>2. StartedInv'
    <3> SUFFICES ASSUME test.read = "started"
                 PROVE  pc' \in {"join", "over"} /\ total' = total
      BY <2>1 DEF Known, Expect, StartedInv
    <3>1. joined + 1 = 1
      BY <1>f, <1>w, <2>1
    <3>2. worker[1].totalRead = 0
      BY StartedLedger DEF Known
    <3> QED
      BY <1>w, <2>1, <3>1, <3>2 DEF AfterJoin
  <2>3. EmptiedInv'
    BY <2>1 DEF EmptiedInv, AfterJoin
  <2>4. PlentyInv'
    <3> SUFFICES ASSUME test = ConcurrentRead_0076, counter > 0
                 PROVE  /\ total' = joined' * Reads
                        /\ \A u \in 1 .. Workers : worker[u].totalRead = worker[u].calls
      BY <1>s, <2>1 DEF PlentyInv
    <3>1. /\ total = joined * Reads
          /\ \A u \in 1 .. Workers : worker[u].totalRead = worker[u].calls
      BY DEF Known, Expect, PlentyInv
    <3>2. joined + 1 \in 1 .. Workers
      BY <1>w, <2>1
    <3>3. worker[joined + 1].calls = Reads
      <4>1. PlentyTest
        BY PlentyTests
      <4> QED
        BY <2>1, <3>2, <4>1, SizeAssumption DEF PlentyTest, Known, CallsInv
    <3>4. (joined + 1) * Reads = joined * Reads + Reads
      BY <1>w, SizeAssumption
    <3> QED
      BY <2>1, <3>1, <3>2, <3>3, <3>4
  <2>5. BirthInv'
    BY <1>s, <1>w, <2>1 DEF Known, Expect, BirthInv, AfterJoin
  <2> QED
    BY <2>2, <2>3, <2>4, <2>5 DEF Expect
<1> QED
  BY <1>1, <1>2, <1>3, <1>4, <1>5 DEF TestStep
-----------------------------------------------------------------------------
LEMMA StutterKnown == Known /\ UNCHANGED vars => Known'
<1> SUFFICES ASSUME Known, UNCHANGED vars PROVE Known'
  OBVIOUS
<1>1. /\ test' = test /\ pc' = pc /\ created' = created /\ joined' = joined
      /\ failed' = failed /\ total' = total /\ counter' = counter /\ worker' = worker
  BY DEF vars
<1>2. Workers' = Workers /\ \A u : Values(u)' = Values(u)
  BY <1>1 DEF Workers, Values
<1>3. Typed' /\ PlaceInv' /\ JoinInv' /\ CallsInv' /\ BirthInv'
  BY <1>1, <1>2 DEF Known, Expect, Typed, TestTyped, TypeOK, PlaceInv, JoinInv,
                    CallsInv, BirthInv
<1>4. Ledger'
  <2>1. Sum(AllWritten)' = Sum(AllWritten) /\ Sum(AllPending)' = Sum(AllPending)
    BY <1>1, NothingWritten, NothingPending
  <2> QED
    BY <1>1, <2>1 DEF Known, Ledger
<1>5. StartedInv' /\ EmptiedInv' /\ PlentyInv'
  BY <1>1, <1>2 DEF Known, Expect, StartedInv, EmptiedInv, PlentyInv
<1> QED
  BY <1>3, <1>4, <1>5 DEF Known, Expect

LEMMA KnownStep == Known /\ [Next]_vars => Known'
<1> SUFFICES ASSUME Known, [Next]_vars PROVE Known'
  OBVIOUS
<1>0. CASE UNCHANGED vars
  BY <1>0, StutterKnown
<1>1. CASE TestStep \/ CreateFails
  <2>1. TypeOK' /\ PlaceInv' /\ JoinInv'
    BY <1>1, TestStepTyped, TestStepInv DEF Known
  <2>2. Ledger' /\ CallsInv' /\ Expect'
    BY <1>1, TestStepLedger, TestStepExpect DEF Known
  <2> QED
    BY <2>1, <2>2, TestsTyped DEF Known, Typed, TypeOK
<1>2. CASE \E t \in DOMAIN worker : WorkerMoves(t)
  <2>1. TypeOK' /\ PlaceInv' /\ JoinInv'
    BY <1>2, WorkerStepTyped, WorkerStepInv DEF Known
  <2>2. Ledger' /\ CallsInv' /\ Expect'
    BY <1>2, WorkerStepLedger, WorkerStepExpect DEF Known
  <2> QED
    BY <2>1, <2>2, TestsTyped DEF Known, Typed, TypeOK
<1> QED
  BY <1>0, <1>1, <1>2 DEF Next, TestStep, WorkerMoves

LEMMA KnownAlways == Spec => []Known
<1>1. Init => Known
  BY InitTyped, InitLedger, InitExpect DEF Known, Typed
<1> QED
  BY <1>1, KnownStep, PTL DEF Spec

\* Every variable keeps its type in every test, whatever the numbers of threads,
\* writes and reads: no worker makes more calls than its loop, and no more are
\* joined than were started.
THEOREM TypeCorrect == Spec => []TypeOK
<1>1. Known => TypeOK
  BY DEF Known, Typed
<1> QED
  BY <1>1, KnownAlways, PTL

\* A test whose workers could all be started returns after the last of them has
\* ended: none is left with a pointer to a ThreadArg, or a descriptor, of a test
\* that is over.
THEOREM NoThreadOutlivesItsTest == Spec => []ArgsOutliveThreads
<1>1. Known => ArgsOutliveThreads
  BY WorkersTyped DEF Known, JoinInv, ArgsOutliveThreads
<1> QED
  BY <1>1, KnownAlways, PTL

\* However the writers, the readers and the test thread interleave, and however
\* many there are: the units written are those in the counter, those in the totals
\* of workers the test has not joined, and those the test has.
THEOREM UnitsAreConserved == Spec => []Conserved
<1>1. Known => Conserved
  BY DEF Known, Ledger, AllWritten, AllPending, Conserved
<1> QED
  BY <1>1, KnownAlways, PTL

\* What the workers of a test without a read of its own in between have written.
LEMMA TotalWritten ==
  ASSUME Known, \A t \in 1 .. Workers : worker[t].pc = "ended",
         NEW k, Foreseen(test, k)
  PROVE  Sum(AllWritten) = k * Writes
<1>w. /\ Workers \in Nat \ {0}
      /\ \A t \in 1 .. Workers : Len(Values(t)) \in Nat /\ test.workers[t].reads \in Nat
  BY WorkersTyped DEF Known
<1>n. Writes \in Nat
  BY SizeAssumption
<1>k. k \in 0 .. Workers
  BY DEF Foreseen, Workers
<1>1. \A t \in 1 .. Workers : worker[t].calls >= Len(Values(t))
  <2> SUFFICES ASSUME NEW t \in 1 .. Workers PROVE worker[t].calls >= Len(Values(t))
    OBVIOUS
  <2>1. worker[t].calls = Len(Values(t)) + test.workers[t].reads
    BY DEF Known, CallsInv
  <2> QED
    BY <1>w, <2>1
<1>2. \A t \in 1 .. Workers : Values(t) = IF t <= k THEN [n \in 1 .. Writes |-> 1] ELSE <<>>
  BY DEF Foreseen, Uniform, Values, Workers
<1>3. \A t \in 1 .. Workers : Written(t) = IF t <= k THEN Writes ELSE 0
  <2> SUFFICES ASSUME NEW t \in 1 .. Workers
               PROVE  Written(t) = IF t <= k THEN Writes ELSE 0
    OBVIOUS
  <2> DEFINE m == IF t <= k THEN Writes ELSE 0
  <2>1. Len(Values(t)) = m /\ \A n \in 1 .. m : Values(t)[n] = 1
    BY <1>2, <1>n
  <2>2. Done(t) \in Seq(Nat) /\ Len(Done(t)) = m
    <3>1. Done(t) \in [1 .. m -> Nat] /\ m \in Nat
      BY <2>1, <1>n, LedgerTyped DEF Known
    <3> QED
      BY <3>1, SumOfFunction
  <2>3. \A n \in 1 .. m : Done(t)[n] = 1
    <3>1. m <= worker[t].calls /\ m \in Nat /\ worker[t].calls \in Nat
      <4>1. worker[t].calls = m + test.workers[t].reads
        BY <2>1 DEF Known, CallsInv
      <4> QED
        BY <1>w, <1>n, <4>1
    <3> QED
      BY <2>1, <3>1 DEF Done
  <2>4. Sum(Done(t)) = m * 1
    <3>1. m \in 0 .. Len(Done(t)) /\ m \in Nat
      BY <1>n, <2>2
    <3>2. \A n \in 1 .. Len(Done(t)) : Done(t)[n] = IF n <= m THEN 1 ELSE 0
      BY <2>2, <2>3, <3>1
    <3> HIDE DEF m
    <3> QED
      BY <2>2, <3>1, <3>2, SumConstant
  <2> QED
    BY <1>n, <2>4 DEF Written
<1>4. AllWritten \in Seq(Nat) /\ Len(AllWritten) = Workers
  BY <1>w, LedgerTyped, SumOfFunction DEF Known
<1>5. \A t \in 1 .. Workers : AllWritten[t] = IF t <= k THEN Writes ELSE 0
  BY <1>3 DEF AllWritten
<1> QED
  BY <1>k, <1>n, <1>4, <1>5, SumConstant

\* The EXPECTs hold under every schedule, for any number of threads, writes and
\* reads: a test that could start its workers ends with the total it looks for.
THEOREM ExpectsHold == Spec => []AssertionsHold
<1>1. Known => AssertionsHold
  <2> SUFFICES ASSUME Known, pc = "over", ~failed PROVE total \in test.expected
    BY DEF AssertionsHold
  <2>w. /\ Workers \in Nat \ {0} /\ joined = Workers /\ test \in Tests
        /\ \A t \in 1 .. Workers : worker[t].pc = "ended"
    BY WorkersTyped DEF Known, Typed, TypeOK, JoinInv
  <2>n. /\ test.initial \in Nat /\ counter \in Nat /\ total \in Nat
        /\ Sum(AllWritten) \in Nat
    BY LedgerIsNumbers DEF Known
  <2>1. CASE test.read = "started"
    BY <2>1 DEF Known, Expect, StartedInv
  <2>2. CASE test.read # "started"
    <3>1. PICK k : Foreseen(test, k)
      BY <2>w, <2>2, TotalsForeseen
    <3>2. Sum(AllWritten) = k * Writes
      BY <2>w, <3>1, TotalWritten
    <3>3. Sum(AllPending) = 0
      <4>1. AllPending \in Seq(Nat) /\ Len(AllPending) = Workers
        BY <2>w, LedgerTyped, SumOfFunction DEF Known
      <4>2. \A t \in 1 .. Workers : AllPending[t] = IF t <= 0 THEN 0 ELSE 0
        BY <2>w DEF AllPending, Pending
      <4>3. Sum(AllPending) = 0 * 0
        BY <2>w, <4>1, <4>2, SumConstant, SMTT(30)
      <4> QED
        BY <4>3
    <3>4. test.initial + k * Writes = counter + total /\ k * Writes \in Nat
      BY <2>n, <3>2, <3>3 DEF Known, Ledger
    <3>5. CASE test.read = "joined"
      <4>1. counter = 0
        BY <3>5 DEF Known, Expect, EmptiedInv
      <4>2. test.initial = 0 /\ test.expected = {k * Writes}
        BY <3>1, <3>5 DEF Foreseen
      <4> QED
        BY <2>n, <3>4, <4>1, <4>2
    <3>6. CASE test.read = "never" /\ test # ConcurrentRead_0076
      <4>1. 0 .. (test.initial + k * Writes) \subseteq test.expected
        BY <3>1, <3>6 DEF Foreseen
      <4>2. total \in 0 .. (test.initial + k * Writes)
        <5> DEFINE m == k * Writes
        <5>1. m \in Nat /\ test.initial + m = counter + total
          BY <3>4
        <5> HIDE DEF m
        <5>2. total \in 0 .. (test.initial + m)
          BY <2>n, <5>1
        <5> QED
          BY <5>2 DEF m
      <4> QED
        BY <4>1, <4>2
    <3>7. CASE test = ConcurrentRead_0076
      <4>1. PlentyTest
        BY <3>7, PlentyTests
      <4>2. k * Writes = 0
        <5>1. Sum(AllWritten) = 0 * Writes
          BY <2>w, <3>7, NothingToWrite, TotalWritten
        <5> QED
          BY <3>2, <5>1, SizeAssumption
      <4>3. Units = counter + total
        BY <2>n, <3>4, <4>1, <4>2 DEF PlentyTest
      <4>4. counter = 0
        <5> SUFFICES ASSUME counter > 0 PROVE FALSE
          BY <2>n
        <5>1. total = Threads * Reads
          BY <3>7, <2>w, <4>1 DEF Known, Expect, PlentyInv, PlentyTest
        <5> QED
          BY <2>n, <4>3, <5>1, SizeAssumption
      <4> QED
        BY <2>n, <4>1, <4>3, <4>4 DEF PlentyTest
    <3> QED
      BY <2>2, <3>5, <3>6, <3>7 DEF Known, Typed, TestTyped
  <2> QED
    BY <2>1, <2>2
<1> QED
  BY <1>1, KnownAlways, PTL
\* What lets the test thread, and a worker, make its next step.
TestCanMove ==
  \/ pc = "create"
  \/ pc = "pipe" /\ (failed \/ worker[1].pc = "ended")
  \/ pc = "read" /\ (counter > 0 \/ Again)
  \/ pc = "join" /\ worker[joined + 1].pc = "ended"

CanMove(t) ==
  /\ worker[t].pc = "running"
  /\ \/ worker[t].calls < Len(Values(t))
     \/ worker[t].calls < test.workers[t].reads /\ (counter > 0 \/ Again)
     \/ worker[t].calls = Len(Values(t)) + test.workers[t].reads

\* The worker the test thread waits for.
Awaited == IF pc = "join" THEN joined + 1 ELSE 1

\* No wait is for nothing: as long as the test has not returned and its fork has
\* not failed, the test thread can make its next step, or the worker whose join,
\* byte or write it waits for can.
NoHang == pc # "over" /\ ~(failed /\ pc = "read") => TestCanMove \/ CanMove(Awaited)

LEMMA AliveCanMove ==
  ASSUME Known, NEW t \in 1 .. Workers, t <= created, worker[t].pc # "ended"
  PROVE  CanMove(t)
<1>1. worker[t].pc = "running"
  BY DEF Known, Typed, TypeOK, Expect, BirthInv
<1>2. test.workers[t] \in Work
  BY DEF Known, Typed, TestTyped, Workers
<1>3. /\ worker[t].calls \in 0 .. Len(Values(t)) + test.workers[t].reads
      /\ Len(Values(t)) \in Nat /\ test.workers[t].reads \in Nat
      /\ Values(t) = <<>> \/ test.workers[t].reads = 0
  BY <1>2 DEF Known, Typed, TypeOK, Values, Work
<1>4. CASE test.workers[t].reads = 0
  <2> DEFINE c == worker[t].calls
             n == Len(Values(t))
  <2>1. c \in 0 .. n /\ n \in Nat
    BY <1>3, <1>4
  <2>2. c < n \/ c = n
    BY <2>1
  <2> QED
    BY <1>1, <1>3, <1>4, <2>2 DEF CanMove
<1>5. CASE test.workers[t].reads # 0
  <2>1. test.read # "started"
    <3> SUFFICES ASSUME test.read = "started" PROVE FALSE
      OBVIOUS
    <3>1. StartedTest
      BY StartedTests DEF Known
    <3> QED
      BY <1>5, <3>1 DEF StartedTest
  <2>2. "EFD_NONBLOCK" \in test.flags
    BY <2>1, TestKinds DEF Known, Typed, TypeOK
  <2>3. counter > 0 \/ Again
    BY <2>2 DEF Again, Known, Typed, TypeOK
  <2>4. Len(Values(t)) = 0
    BY <1>3, <1>5
  <2> DEFINE c == worker[t].calls
             r == test.workers[t].reads
  <2>5. c \in 0 .. r /\ r \in Nat
    BY <1>3, <2>4
  <2>6. c < r \/ c = r
    BY <2>5
  <2> QED
    BY <1>1, <1>3, <2>3, <2>4, <2>6 DEF CanMove
<1> QED
  BY <1>4, <1>5

\* For any numbers of threads, writes and reads no test waits for nothing: the
\* part of TestEnds that is not about scheduling.
THEOREM NobodyWaitsForNothing == Spec => []NoHang
<1>1. Known => NoHang
  <2> SUFFICES ASSUME Known, pc # "over", ~(failed /\ pc = "read"), ~TestCanMove
               PROVE  CanMove(Awaited)
    BY DEF NoHang
  <2>w. Workers \in Nat \ {0} /\ created \in 0 .. Workers /\ joined \in 0 .. created
    BY WorkersTyped DEF Known, Typed, TypeOK
  <2>1. CASE pc = "pipe"
    <3>1. ~failed /\ worker[1].pc # "ended" /\ Awaited = 1
      BY <2>1 DEF TestCanMove, Awaited
    <3>2. created = Workers
      BY <2>1, <3>1 DEF Known, Expect, BirthInv
    <3>3. 1 \in 1 .. Workers /\ 1 <= created
      BY <2>w, <3>2
    <3> QED
      BY <3>1, <3>3, AliveCanMove
  <2>2. CASE pc = "read"
    <3>1. ~failed /\ ~(counter > 0) /\ ~Again /\ Awaited = 1
      BY <2>2 DEF TestCanMove, Awaited
    <3>2. created = Workers /\ test \in Tests /\ counter = 0
      BY <2>2, <3>1 DEF Known, Expect, BirthInv, Typed, TypeOK
    <3>3. test.read = "started"
      BY <3>1, <3>2, TestKinds DEF Again
    <3>4. total = 0
      BY <2>2, <3>3 DEF Known, Expect, StartedInv
    <3>5. StartedTest
      BY <3>3, StartedTests DEF Known
    <3>6. Written(1) = 0
      BY <3>2, <3>3, <3>4, StartedLedger DEF Known
    <3>7. 0 \notin test.expected
      BY <3>5 DEF StartedTest, StateBlockingRead_0070, ForkConcurrent_0079
    <3>8. worker[1].calls # Len(Values(1))
      BY <3>3, <3>6, <3>7, StartedLedger DEF Known
    <3>9. 1 \in 1 .. Workers /\ 1 <= created
      BY <2>w, <3>2
    <3>10. worker[1].pc # "ended"
      <4>1. test.workers[1].reads = 0 /\ Len(Values(1)) \in Nat
        BY <3>5, <3>9, SMT DEF StartedTest, Known, Typed, TestTyped, Work, Values, Workers
      <4> QED
        BY <3>8, <3>9, <4>1 DEF Known, CallsInv
    <3> QED
      BY <3>1, <3>9, <3>10, AliveCanMove
  <2>3. CASE pc = "join"
    <3>1. worker[joined + 1].pc # "ended" /\ Awaited = joined + 1
      BY <2>3 DEF TestCanMove, Awaited
    <3>2. joined < Workers /\ ~failed
      BY <2>3 DEF Known, PlaceInv, Expect, BirthInv
    <3>3. created = Workers
      BY <2>3, <3>2 DEF Known, Expect, BirthInv
    <3>4. joined + 1 \in 1 .. Workers /\ joined + 1 <= created
      BY <2>w, <3>2, <3>3
    <3> QED
      BY <3>1, <3>4, AliveCanMove
  <2> QED
    BY <2>1, <2>2, <2>3 DEF Known, Typed, TypeOK, TestCanMove
<1> QED
  BY <1>1, KnownAlways, PTL
=============================================================================
