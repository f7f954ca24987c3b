--------------------------- MODULE Eventfd2ApiTest ---------------------------
(***************************************************************************)
(* The tests of eventfd2 that share one descriptor between threads or with *)
(* a child process (kernel/syscalls/async/eventfd2/Eventfd2ApiTest.cpp).   *)
(* One test runs; the test thread starts its workers one after the other,  *)
(* may read the descriptor, and joins them.  The kernel is outside the     *)
(* repository: a read or a write of an eventfd is one step, as the tests   *)
(* take it to be.  No test comes near the largest value of the counter,    *)
(* and no write is refused.                                                *)
(*                                                                         *)
(* The tests' numbers are parameters.  Closing the descriptor is left out: *)
(* it is the last call of every test.                                      *)
(***************************************************************************)
EXTENDS Naturals, Sequences

CONSTANTS Threads,    \* writers or readers of a test, 4 or 32 in the code
          Writes,     \* writes of a writer, 100, 250 or 1000
          Reads,      \* reads of a reader of test 0076, 50
          Units       \* what test 0076 puts into the counter, 100

\* Test 0076 reads at least as often as there is something to read.
ASSUME SizeAssumption ==
  /\ Threads \in Nat \ {0} /\ Writes \in Nat /\ Reads \in Nat /\ Units \in Nat
  /\ Threads * Reads >= Units

Writer(values) == [values |-> values, reads |-> 0]
Reader(count)  == [values |-> <<>>, reads |-> count]

ManyWrites == Writer([n \in 1 .. Writes |-> 1])

\* What a test without EXPECTs allows.
AnyTotal == 0 .. Threads * Writes + 1

Many(w) == [t \in 1 .. Threads |-> w]
-----------------------------------------------------------------------------
(* The tests: the descriptor's flags and first value, the workers in the   *)
(* order they are started, whether they are a child process, when the test *)
(* thread itself reads, and the totals its EXPECTs allow.                  *)

ReadTiming_0055 ==
  [flags |-> {"EFD_NONBLOCK"}, initial |-> 0, forks |-> FALSE, read |-> "never",
   workers |-> <<ManyWrites, Reader(Writes)>>, expected |-> AnyTotal]

WriteTiming_0060 ==
  [flags |-> {"EFD_NONBLOCK"}, initial |-> 0, forks |-> FALSE, read |-> "joined",
   workers |-> <<ManyWrites, ManyWrites>>, expected |-> {2 * Writes}]

StateBlockingRead_0070 ==
  [flags |-> {}, initial |-> 0, forks |-> FALSE, read |-> "started",
   workers |-> <<Writer(<<9>>)>>, expected |-> {9}]

\* Mutated form of ConcurrentRead_0076: EFD_NONBLOCK is missing.
BlockingRead_0076 ==
  [flags |-> {"EFD_SEMAPHORE"}, initial |-> Units, forks |-> FALSE,
   read |-> "never", workers |-> Many(Reader(Reads)), expected |-> {Units}]

ConcurrentRead_0076 ==
  [flags |-> {"EFD_NONBLOCK", "EFD_SEMAPHORE"}, initial |-> Units, forks |-> FALSE,
   read |-> "never", workers |-> Many(Reader(Reads)), expected |-> {Units}]

ConcurrentWrite_0077 ==
  [flags |-> {"EFD_NONBLOCK"}, initial |-> 0, forks |-> FALSE, read |-> "joined",
   workers |-> Many(ManyWrites), expected |-> {Threads * Writes}]

ConcurrentReadWrite_0078 ==
  [flags |-> {"EFD_NONBLOCK"}, initial |-> 0, forks |-> FALSE, read |-> "joined",
   workers |-> Many(ManyWrites) \o Many(Reader(Writes)),
   expected |-> {Threads * Writes}]

\* Test 0033 is the same with one value.
ForkConcurrent_0079 ==
  [flags |-> {}, initial |-> 0, forks |-> TRUE, read |-> "started",
   workers |-> <<Writer(<<5, 3>>)>>, expected |-> {8}]

MassiveConcurrency_0081 ==
  [ConcurrentReadWrite_0078 EXCEPT !.initial = 1, !.read = "never", !.expected = AnyTotal]

Tests ==
  {ReadTiming_0055, WriteTiming_0060, StateBlockingRead_0070, ConcurrentRead_0076,
   ConcurrentWrite_0077, ConcurrentReadWrite_0078, ForkConcurrent_0079,
   MassiveConcurrency_0081}
-----------------------------------------------------------------------------
VARIABLES
  test,       \* the test that runs
  pc,         \* where the test thread is
  created,    \* workers started
  joined,     \* workers joined
  failed,     \* pthread_create or fork failed
  total,      \* totalRead and rval of the test
  counter,    \* the eventfd's counter
  worker      \* each worker: where it is, its calls so far, its totalRead

vars == <<test, pc, created, joined, failed, total, counter, worker>>

NotStarted == [pc |-> "none", calls |-> 0, totalRead |-> 0]

Init ==
  /\ test \in Tests
  /\ pc = "create"
  /\ created = 0 /\ joined = 0 /\ failed = FALSE
  /\ total = 0
  /\ counter = test.initial
  /\ worker = [t \in DOMAIN test.workers |-> NotStarted]

Workers == Len(test.workers)

\* A read of a counter that is not zero: what it gives and what it leaves.
Val  == IF "EFD_SEMAPHORE" \in test.flags THEN 1 ELSE counter
Rest == counter - Val

\* A read of a counter that is zero fails with EAGAIN, or sleeps.
Again == counter = 0 /\ "EFD_NONBLOCK" \in test.flags
-----------------------------------------------------------------------------
(* The test thread.                                                        *)

AfterStart ==
  IF test.forks THEN "pipe" ELSE IF test.read = "started" THEN "read" ELSE "join"

Create ==
  /\ pc = "create"
  /\ created' = created + 1
  /\ worker' = [worker EXCEPT ![created + 1].pc = "running"]
  /\ pc' = IF created + 1 = Workers THEN AfterStart ELSE pc
  /\ UNCHANGED <<test, joined, failed, total, counter>>

\* ASSERT_EQ leaves the test without joining the workers it has started; a fork
\* that fails is only expected not to, and the test goes on.
CreateFails ==
  /\ pc = "create"
  /\ failed' = TRUE
  /\ pc' = IF test.forks THEN "pipe" ELSE "over"
  /\ UNCHANGED <<test, created, joined, total, counter, worker>>

\* Mutated form of ReadPipe: the parent does not wait for the child.
SkipPipe ==
  /\ pc = "pipe"
  /\ pc' = "read"
  /\ UNCHANGED <<test, created, joined, failed, total, counter, worker>>

\* The byte the child sends after its writes, or the end of the pipe when there
\* is no child: the parent has closed its own end for writing.
ReadPipe ==
  /\ pc = "pipe"
  /\ failed \/ worker[1].pc = "ended"
  /\ pc' = "read"
  /\ UNCHANGED <<test, created, joined, failed, total, counter, worker>>

Read ==
  /\ pc = "read"
  /\ \/ counter > 0 /\ total' = total + Val /\ counter' = Rest
     \/ Again /\ UNCHANGED <<total, counter>>
  /\ pc' = IF test.read = "started" THEN "join" ELSE "over"
  /\ UNCHANGED <<test, created, joined, failed, worker>>

AfterJoin == IF test.read = "joined" THEN "read" ELSE "over"

\* pthread_join or waitpid.
Join ==
  /\ pc = "join"
  /\ worker[joined + 1].pc = "ended"
  /\ joined' = joined + 1
  /\ total' = total + worker[joined'].totalRead
  /\ pc' = IF joined' = Workers THEN AfterJoin ELSE pc
  /\ UNCHANGED <<test, created, failed, counter, worker>>
-----------------------------------------------------------------------------
(* The workers.                                                            *)

Values(t) == test.workers[t].values

\* Mutated form of ThreadWriteFunc: i <= count.
WriteOneMore(t) ==
  /\ worker[t].pc = "running" /\ Values(t) # <<>> /\ worker[t].calls <= Len(Values(t))
  /\ counter' = counter + (Values(t) \o <<1>>)[worker[t].calls + 1]
  /\ worker' = [worker EXCEPT ![t].calls = @ + 1]
  /\ UNCHANGED <<test, pc, created, joined, failed, total>>

\* A write of ThreadWriteFunc, of ThreadDelayWriteFunc or of the child.
ThreadWriteFunc(t) ==
  /\ worker[t].pc = "running" /\ worker[t].calls < Len(Values(t))
  /\ counter' = counter + Values(t)[worker[t].calls + 1]
  /\ worker' = [worker EXCEPT ![t].calls = @ + 1]
  /\ UNCHANGED <<test, pc, created, joined, failed, total>>

\* Mutated form of ThreadReadFunc: totalRead = val.
ReadLastOnly(t) ==
  /\ worker[t].pc = "running" /\ worker[t].calls < test.workers[t].reads
  /\ \/ /\ counter > 0
        /\ counter' = Rest
        /\ worker' = [worker EXCEPT ![t].calls = @ + 1, ![t].totalRead = Val]
     \/ /\ Again
        /\ worker' = [worker EXCEPT ![t].calls = @ + 1]
        /\ UNCHANGED counter
  /\ UNCHANGED <<test, pc, created, joined, failed, total>>

\* A read of ThreadReadFunc: what a read that fails leaves in val is not added.
ThreadReadFunc(t) ==
  /\ worker[t].pc = "running" /\ worker[t].calls < test.workers[t].reads
  /\ \/ /\ counter > 0
        /\ counter' = Rest
        /\ worker' = [worker EXCEPT ![t].calls = @ + 1, ![t].totalRead = @ + Val]
     \/ /\ Again
        /\ worker' = [worker EXCEPT ![t].calls = @ + 1]
        /\ UNCHANGED counter
  /\ UNCHANGED <<test, pc, created, joined, failed, total>>

\* The function returns; the child writes to the pipe, closes it and exits.
ThreadEnds(t) ==
  /\ worker[t].pc = "running"
  /\ worker[t].calls = Len(Values(t)) + test.workers[t].reads
  /\ worker' = [worker EXCEPT ![t].pc = "ended"]
  /\ UNCHANGED <<test, pc, created, joined, failed, total, counter>>
-----------------------------------------------------------------------------
TestStep == Create \/ ReadPipe \/ Read \/ Join

WorkerStep(t) ==
  t \in DOMAIN worker /\ (ThreadWriteFunc(t) \/ ThreadReadFunc(t) \/ ThreadEnds(t))

Next ==
  \/ Create \/ CreateFails \/ ReadPipe \/ Read \/ Join
  \/ \E t \in DOMAIN worker :
        ThreadWriteFunc(t) \/ ThreadReadFunc(t) \/ ThreadEnds(t)

\* The kernel schedules every thread and the child.
Fairness ==
  WF_vars(TestStep) /\ \A t \in 1 .. 2 * Threads + 1 : WF_vars(WorkerStep(t))

Spec == Init /\ [][Next]_vars

FairSpec == Spec /\ Fairness
-----------------------------------------------------------------------------
(* Properties.                                                             *)

TypeOK ==
  /\ test \in Tests
  /\ pc \in {"create", "pipe", "read", "join", "over"}
  /\ created \in 0 .. Workers /\ joined \in 0 .. created
  /\ failed \in BOOLEAN
  /\ total \in Nat /\ counter \in Nat
  /\ DOMAIN worker = 1 .. Workers
  /\ \A t \in DOMAIN worker :
       /\ worker[t].pc \in {"none", "running", "ended"}
       /\ worker[t].calls \in 0 .. Len(Values(t)) + test.workers[t].reads
       /\ worker[t].totalRead \in Nat

Sum(seq) ==
  LET upTo[n \in 0 .. Len(seq)] == IF n = 0 THEN 0 ELSE upTo[n - 1] + seq[n]
  IN  upTo[Len(seq)]

Done(t) == [n \in 1 .. Len(Values(t)) |-> IF n <= worker[t].calls THEN Values(t)[n] ELSE 0]

Written(t) == Sum(Done(t))

\* What a worker has read and the test has not added up yet.
Pending(t) == IF t <= joined THEN 0 ELSE worker[t].totalRead

\* What was written is in the counter, in the total of a worker, or has come to
\* the test with the join of a worker or with its own read: no interleaving of
\* reads and writes loses a unit or counts one twice.
Conserved ==
  test.initial + Sum([t \in 1 .. Workers |-> Written(t)])
    = counter + total + Sum([t \in 1 .. Workers |-> Pending(t)])

\* The EXPECTs at the end of the tests hold under every schedule, if the workers
\* could be started: writes add up, every unit is read by one reader, and the
\* parent sees both writes of its child.
AssertionsHold == pc = "over" /\ ~failed => total \in test.expected

\* The ThreadArgs and the descriptor are locals of the test: no worker is alive
\* when a test that could start them all returns.
ArgsOutliveThreads ==
  pc = "over" /\ ~failed => \A t \in DOMAIN worker : worker[t].pc = "ended"

\* Every test ends, the ones that block in read included, unless fork failed:
\* then the parent waits for good for what only its child would have written.
TestEnds == <>(pc = "over" \/ (failed /\ pc = "read"))
=============================================================================
