------------------------------ MODULE RilCallback ------------------------------
(***************************************************************************)
(* The callback object through which the telephony suites learn of the     *)
(* driver's answers: RilCallback of hdi_v1.0/hdf_ril_hdiService_test.cpp   *)
(* (RecordsSerial = TRUE) and its copy in hdi_v1.1_additional              *)
(* (RecordsSerial = FALSE: there GetSerialId does not store what it draws, *)
(* and some tests send a number of their own, 0 among them).               *)
(*                                                                         *)
(* One test thread sends a request under a serial number, sleeps in        *)
(* WaitFor and judges with GetBoolResult what it finds in hdiId_.  The     *)
(* threads of the IPC pool run the handlers: they write hdiId_ and         *)
(* resultInfo_ without the mutex and take it only in NotifyAll.            *)
(***************************************************************************)
EXTENDS Naturals, Sequences

CONSTANTS
  Kinds,          \* the HdiIds that occur
  SimStatus,      \* HREQ_SIM_GET_SIM_STATUS
  None,           \* HREQ_NONE
  Serials,        \* what the generator may draw or a test sends of its own
  Threads,        \* IPC threads that run handlers
  RecordsSerial,  \* does GetSerialId store the serial it draws?
  Repeats,        \* may a serial be sent twice?
  MaxRequests,    \* bound: requests sent in all
  MaxUpdates      \* bound: unsolicited SimStateUpdated events

ASSUME RilAssumption ==
  /\ SimStatus \in Kinds /\ None \notin Kinds /\ "free" \notin Threads
  /\ Serials \subseteq Nat
  /\ {RecordsSerial, Repeats} \subseteq BOOLEAN
  /\ MaxRequests \in Nat /\ MaxUpdates \in Nat

VARIABLES
  currentSerialId, hdiId, resultSerial,  \* the members, and resultInfo_.serial
  mutex,       \* callbackMutex_: the thread that holds it, or "free"
  notified,    \* cv_ has been signalled for the sleeping test
  ready,       \* simState_ of the slot is neither 0 nor -1
  flag,        \* g_...ResponseFlag of each kind (the v1.1 suites)
  test,        \* the test thread: where it is, what it asked
  verdict,     \* which exit of GetBoolResult the last test took
  log,         \* the requests the driver has, in the order they were sent
  unanswered,  \* those it has not answered
  handler,     \* each IPC thread: where it is, the request it answers
  updates,     \* SimStateUpdated events so far
  named,       \* requests whose handler wrote hdiId_ since WaitFor cleaned it
  told         \* requests whose handler has stored its resultInfo_

vars == <<currentSerialId, hdiId, resultSerial, mutex, notified, ready, flag,
          test, verdict, log, unanswered, handler, updates, named, told>>

callback == <<currentSerialId, hdiId, resultSerial, mutex, notified>>
driver   == <<log, unanswered, updates>>
history  == <<named, told>>

Requests == 1 .. MaxRequests
Kind(r)   == log[r].kind
Serial(r) == log[r].serial

(* The serials that may be drawn next.  Unless they repeat, none is drawn  *)
(* that was sent before or that the test is about to send.                 *)
Draws == {s \in Serials : Repeats \/
            /\ \A r \in DOMAIN log : Serial(r) # s
            /\ test.pc = "drawn" => test.serial # s}

Init ==
  /\ currentSerialId = 0 /\ resultSerial = 0
  /\ hdiId = None
  /\ mutex = "free" /\ notified = FALSE
  /\ ready = FALSE /\ flag = [k \in Kinds |-> FALSE]
  /\ test = [pc |-> "idle", kind |-> SimStatus, serial |-> 0, req |-> 0]
  /\ verdict = "none"
  /\ log = <<>> /\ unanswered = {} /\ updates = 0
  /\ handler = [t \in Threads |-> [pc |-> "idle", req |-> 0]]
  /\ named = {} /\ told = {}

-----------------------------------------------------------------------------
(* The test thread.                                                        *)

(* A test starts: it needs a ready SIM, unless it asks for the SIM's       *)
(* status; it resets its flag and draws a serial (or takes its own number).*)
(* Mutated form of DrawSerial: what is drawn is not stored.                *)
DrawUnstored(k, s) ==
  /\ test.pc = "idle" /\ Len(log) < MaxRequests
  /\ k = SimStatus \/ ready
  /\ flag' = [flag EXCEPT ![k] = FALSE]
  /\ test' = [pc |-> "drawn", kind |-> k, serial |-> s, req |-> 0]
  /\ verdict' = "none"
  /\ UNCHANGED <<callback, ready, driver, handler, history>>

DrawSerial(k, s) ==
  /\ test.pc = "idle" /\ Len(log) < MaxRequests
  /\ k = SimStatus \/ ready
  /\ flag' = [flag EXCEPT ![k] = FALSE]
  /\ test' = [pc |-> "drawn", kind |-> k, serial |-> s, req |-> 0]
  /\ currentSerialId' = IF RecordsSerial THEN s ELSE currentSerialId
  /\ verdict' = "none"
  /\ UNCHANGED <<hdiId, resultSerial, mutex, notified, ready, driver, handler,
                 history>>

(* The driver takes the request.                                           *)
Send ==
  /\ test.pc = "drawn" /\ Len(log) < MaxRequests
  /\ log' = Append(log, [kind |-> test.kind, serial |-> test.serial])
  /\ unanswered' = unanswered \cup {Len(log')}
  /\ test' = [test EXCEPT !.pc = "sent", !.req = Len(log')]
  /\ UNCHANGED <<callback, ready, flag, verdict, handler, updates, history>>

(* The driver does not support it (ret == 2): the test returns.            *)
SendRefused ==
  /\ test.pc = "drawn"
  /\ test' = [test EXCEPT !.pc = "idle"]
  /\ UNCHANGED <<callback, ready, flag, verdict, driver, handler, history>>

(* WaitFor first calls Clean, before it takes the mutex.                   *)
(* Mutated form of CleanBeforeWait: Clean is not called.                   *)
CleanNothing ==
  /\ test.pc = "sent"
  /\ named' = {}
  /\ test' = [test EXCEPT !.pc = "cleaned"]
  /\ UNCHANGED <<callback, ready, flag, verdict, driver, handler, told>>

CleanBeforeWait ==
  /\ test.pc = "sent"
  /\ hdiId' = None /\ named' = {}
  /\ test' = [test EXCEPT !.pc = "cleaned"]
  /\ UNCHANGED <<currentSerialId, resultSerial, mutex, notified, ready, flag,
                 verdict, driver, handler, told>>

(* It takes the mutex and sleeps, which releases the mutex.                *)
Sleep ==
  /\ test.pc = "cleaned" /\ mutex = "free"
  /\ notified' = FALSE
  /\ test' = [test EXCEPT !.pc = "waiting"]
  /\ UNCHANGED <<currentSerialId, hdiId, resultSerial, mutex, ready, flag,
                 verdict, driver, handler, history>>

(* It wakes, notified or at the end of its timeout (or spuriously: wait_for*)
(* has no predicate), and takes and releases the mutex again.              *)
Wake ==
  /\ test.pc = "waiting" /\ mutex = "free"
  /\ test' = [test EXCEPT !.pc = "woken"]
  /\ UNCHANGED <<callback, ready, flag, verdict, driver, handler, history>>

(* GetBoolResult looks twice at hdiId_, without the mutex.  HREQ_NONE is   *)
(* taken for a timeout, and for a pass.                                    *)
LookForNone ==
  /\ test.pc = "woken"
  /\ IF hdiId = None
     THEN /\ verdict' = "timeout" /\ hdiId' = None
          /\ test' = [test EXCEPT !.pc = "idle"]
     ELSE /\ test' = [test EXCEPT !.pc = "compare"]
          /\ UNCHANGED <<hdiId, verdict>>
  /\ UNCHANGED <<currentSerialId, resultSerial, mutex, notified, ready, flag,
                 driver, handler, history>>

(* The second look: is it this test's HdiId?                               *)
CompareId ==
  /\ test.pc = "compare"
  /\ verdict' = IF hdiId = test.kind THEN "match" ELSE "mismatch"
  /\ hdiId' = None
  /\ test' = [test EXCEPT !.pc = "idle"]
  /\ UNCHANGED <<currentSerialId, resultSerial, mutex, notified, ready, flag,
                 driver, handler, history>>

-----------------------------------------------------------------------------
(* The IPC threads.                                                        *)

(* The driver answers r: the handler sets its flag, the SIM's state if it  *)
(* is the answer to GetSimStatus, and hdiId_.                              *)
Receive(t, r) ==
  /\ handler[t].pc = "idle" /\ r \in unanswered
  /\ unanswered' = unanswered \ {r}
  /\ flag' = [flag EXCEPT ![Kind(r)] = TRUE]
  /\ IF Kind(r) = SimStatus THEN ready' \in BOOLEAN ELSE UNCHANGED ready
  /\ hdiId' = Kind(r)
  /\ named' = named \cup {r}
  /\ handler' = [handler EXCEPT ![t] = [pc |-> "named", req |-> r]]
  /\ UNCHANGED <<currentSerialId, resultSerial, mutex, notified, test, verdict,
                 log, updates, told>>

(* resultInfo_ = responseInfo.                                             *)
(* Mutated form of StoreInfo: the handler leaves resultInfo_ as it is.     *)
StoreNothing(t) ==
  /\ handler[t].pc = "named"
  /\ told' = told \cup {handler[t].req}
  /\ handler' = [handler EXCEPT ![t].pc = "stored"]
  /\ UNCHANGED <<callback, ready, flag, test, verdict, driver, named>>

StoreInfo(t) ==
  /\ handler[t].pc = "named"
  /\ resultSerial' = Serial(handler[t].req)
  /\ told' = told \cup {handler[t].req}
  /\ handler' = [handler EXCEPT ![t].pc = "stored"]
  /\ UNCHANGED <<currentSerialId, hdiId, mutex, notified, ready, flag, test,
                 verdict, driver, named>>

(* NotifyAll takes the mutex and compares the serials ...                  *)
(* Mutated form of CheckSerial: the serials are not compared.              *)
CheckNothing(t) ==
  /\ handler[t].pc = "stored" /\ mutex = "free"
  /\ mutex' = t
  /\ handler' = [handler EXCEPT ![t].pc = "notify"]
  /\ UNCHANGED <<currentSerialId, hdiId, resultSerial, notified, ready, flag,
                 test, verdict, driver, history>>

CheckSerial(t) ==
  /\ handler[t].pc = "stored" /\ mutex = "free"
  /\ mutex' = t
  /\ handler' = [handler EXCEPT ![t].pc =
                   IF resultSerial = currentSerialId THEN "notify" ELSE "drop"]
  /\ UNCHANGED <<currentSerialId, hdiId, resultSerial, notified, ready, flag,
                 test, verdict, driver, history>>

(* ... an answer to the current request wakes the test, if it sleeps ...   *)
Notify(t) ==
  /\ handler[t].pc = "notify"
  /\ notified' = (test.pc = "waiting" \/ notified)
  /\ mutex' = "free"
  /\ handler' = [handler EXCEPT ![t].pc = "idle"]
  /\ UNCHANGED <<currentSerialId, hdiId, resultSerial, ready, flag, test,
                 verdict, driver, history>>

(* ... any other is taken back.                                            *)
Drop(t) ==
  /\ handler[t].pc = "drop"
  /\ hdiId' = None
  /\ mutex' = "free"
  /\ handler' = [handler EXCEPT ![t].pc = "idle"]
  /\ UNCHANGED <<currentSerialId, resultSerial, notified, ready, flag, test,
                 verdict, driver, history>>

(* The driver answers r with an error: CommonErrorResponse only logs it.   *)
CommonErrorResponse(t, r) ==
  /\ handler[t].pc = "idle" /\ r \in unanswered
  /\ unanswered' = unanswered \ {r}
  /\ UNCHANGED <<callback, ready, flag, test, verdict, log, handler, updates,
                 history>>

(* SimStateUpdated asks for the SIM's status on the handler's own account. *)
(* The v1.1 copy passes the serial as the slot and the slot (0) as serial. *)
SimStateUpdated(t, s) ==
  /\ handler[t].pc = "idle"
  /\ updates < MaxUpdates /\ Len(log) < MaxRequests
  /\ updates' = updates + 1
  /\ currentSerialId' = IF RecordsSerial THEN s ELSE currentSerialId
  /\ log' = Append(log, [kind |-> SimStatus,
                         serial |-> IF RecordsSerial THEN s ELSE 0])
  /\ unanswered' = unanswered \cup {Len(log')}
  /\ UNCHANGED <<hdiId, resultSerial, mutex, notified, ready, flag, test,
                 verdict, handler, history>>

-----------------------------------------------------------------------------
TestStep ==
  \/ Send \/ SendRefused
  \/ CleanBeforeWait \/ Sleep \/ Wake \/ LookForNone \/ CompareId

(* A handler that has begun runs to its end.                               *)
HandlerStep(t) == StoreInfo(t) \/ CheckSerial(t) \/ Notify(t) \/ Drop(t)

DriverStep(t) ==
  \/ \E r \in unanswered : Receive(t, r) \/ CommonErrorResponse(t, r)
  \/ \E s \in Draws : SimStateUpdated(t, s)

(* The suite is over when no request is left to send.                      *)
SuiteOver ==
  /\ test.pc \in {"idle", "drawn"} /\ Len(log) = MaxRequests
  /\ UNCHANGED vars

Next ==
  \/ \E k \in Kinds, s \in Draws : DrawSerial(k, s)
  \/ TestStep
  \/ \E t \in Threads : HandlerStep(t) \/ DriverStep(t)
  \/ SuiteOver

Spec == Init /\ [][Next]_vars


-----------------------------------------------------------------------------
TypeOK ==
  /\ {currentSerialId, resultSerial} \subseteq Serials \cup {0}
  /\ hdiId \in Kinds \cup {None}
  /\ mutex \in Threads \cup {"free"} /\ notified \in BOOLEAN
  /\ ready \in BOOLEAN /\ flag \in [Kinds -> BOOLEAN]
  /\ test \in [pc : {"idle", "drawn", "sent", "cleaned", "waiting", "woken",
                     "compare"},
               kind : Kinds, serial : Serials \cup {0}, req : Requests \cup {0}]
  /\ verdict \in {"none", "timeout", "match", "mismatch"}
  /\ log \in Seq([kind : Kinds, serial : Serials \cup {0}])
  /\ Len(log) <= MaxRequests /\ updates \in 0 .. MaxUpdates
  /\ unanswered \subseteq DOMAIN log
  /\ handler \in [Threads -> [pc : {"idle", "named", "stored", "notify", "drop"},
                              req : Requests \cup {0}]]
  /\ named \subseteq DOMAIN log /\ told \subseteq DOMAIN log

(* A test that passes because hdiId_ is its own was given, after its       *)
(* WaitFor had cleaned hdiId_, an answer of that kind: what an answer that *)
(* came between two tests left behind never passes the second.             *)
MatchIsFresh ==
  verdict = "match" => \E r \in named : Kind(r) = test.kind

(* A test fails for a wrong hdiId_ only when an answer to another request  *)
(* came in while it waited; its own answer alone never fails it, although  *)
(* GetBoolResult reads hdiId_ twice while the handler writes it.  (With one*)
(* IPC thread, and until SimStateUpdated overwrites the serial.)           *)
FalseMeansForeign ==
  updates = 0 /\ verdict = "mismatch" => \E r \in named : r # test.req

(* GetBoolResult, which takes HREQ_NONE for a timeout and lets the test    *)
(* pass, does not do so to a test whose own answer, and no other, came in  *)
(* after its Clean: NotifyAll takes back nothing that is the test's.  (With*)
(* one IPC thread, and until SimStateUpdated overwrites the serial.)       *)
OwnAnswerIsKept ==
  [][updates = 0 /\ verdict # "timeout" /\ verdict' = "timeout"
       => named # {test.req}]_vars

(* Late answers do not wake a later test: a test is notified only when the *)
(* answer to its own request has been stored.  (Until SimStateUpdated      *)
(* overwrites the serial.)                                                 *)
NotificationIsOwn ==
  updates = 0 /\ test.pc = "waiting" /\ notified => test.req \in told

(* The answer to the request of the sleeping test wakes it: it does not    *)
(* have to sleep out its timeout (NotifyAll; one IPC thread, and until     *)
(* SimStateUpdated overwrites the serial).                                 *)
OwnAnswerNotifies ==
  [][updates = 0 => \A t \in Threads :
       /\ handler[t].pc \in {"notify", "drop"} /\ handler'[t].pc = "idle"
       /\ handler[t].req = test.req /\ test.pc = "waiting"
       => notified']_vars
=============================================================================
