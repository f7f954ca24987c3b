--------------------------- MODULE RilCallbackProofs ---------------------------
(***************************************************************************)
(* For any kinds of request, any number of IPC threads and any bounds: the *)
(* type invariant, MatchIsFresh and, where the serials are stored and      *)
(* distinct, NotificationIsOwn; with a single IPC thread FalseMeansForeign *)
(* OwnAnswerIsKept and OwnAnswerNotifies too.  That nobody waits while it  *)
(* holds the mutex, and that where serials are not stored only answers to  *)
(* requests sent under the serial 0 wake anybody.                          *)
(***************************************************************************)
EXTENDS RilCallback, SequenceTheorems, TLAPS

Judging == {"cleaned", "waiting", "woken", "compare"}

\* A handler works on a request that was sent.
HandlerInv == \A t \in Threads :
    handler[t].pc # "idle" => handler[t].req \in DOMAIN log

\* While a test waits and judges, what hdiId_ names has come since its Clean.
\* The wake-up and the two looks of GetBoolResult are unlocked, so this has to
\* hold in between them too.
FreshInv ==
    /\ hdiId # None /\ test.pc \in Judging => \E r \in named : Kind(r) = hdiId
    /\ verdict # "none" => test.pc = "idle"
    /\ MatchIsFresh

IndInv == TypeOK /\ HandlerInv /\ FreshInv

\* What resultInfo_ holds, once a handler has stored something, is an answer's.
StoredInv ==
    /\ told # {} => \E r \in told : Serial(r) = resultSerial
    /\ \A t \in Threads :
         handler[t].pc \in {"stored", "notify", "drop"} => handler[t].req \in told

\* Under distinct serials a stored serial tells whose answer was stored; a
\* handler that has compared holds the mutex, so the test it finds asleep when
\* it signals was asleep when it compared.
OwnInv ==
    /\ \A t \in Threads : handler[t].pc \in {"notify", "drop"} => mutex = t
    /\ currentSerialId = test.serial
    /\ test.pc \in Judging \cup {"sent"} =>
         test.req \in DOMAIN log /\ Serial(test.req) = test.serial
    /\ \A r, q \in DOMAIN log : Serial(r) = Serial(q) => r = q
    /\ test.pc = "drawn" => \A r \in DOMAIN log : Serial(r) # test.serial
    /\ StoredInv
    /\ \A t \in Threads :
         handler[t].pc = "notify" /\ test.pc = "waiting" => test.req \in told
    /\ NotificationIsOwn

LEMMA BoolUpdate ==
    ASSUME NEW S, NEW f \in [S -> BOOLEAN], NEW c \in S, NEW b \in BOOLEAN
    PROVE  [f EXCEPT ![c] = b] \in [S -> BOOLEAN]
  OBVIOUS

\* A request that is sent is the last of the log and leaves the others alone.
LEMMA SendExtends ==
    ASSUME NEW S, NEW s \in Seq(S), NEW x \in S
    PROVE  /\ Append(s, x) \in Seq(S)
           /\ Len(Append(s, x)) = Len(s) + 1
           /\ DOMAIN s = 1 .. Len(s) /\ Len(s) \in Nat
           /\ DOMAIN Append(s, x) = 1 .. Len(s) + 1
           /\ \A i \in DOMAIN s : Append(s, x)[i] = s[i]
           /\ Append(s, x)[Len(s) + 1] = x
  BY AppendProperties, LenProperties

LEMMA InitInd == Init => IndInv
  <1> SUFFICES ASSUME Init PROVE IndInv
      OBVIOUS
  <1>1. log \in Seq([kind : Kinds, serial : Serials \cup {0}]) /\ Len(log) = 0
      BY DEF Init
  <1>2. /\ {currentSerialId, resultSerial} \subseteq Serials \cup {0}
        /\ hdiId \in Kinds \cup {None}
        /\ mutex \in Threads \cup {"free"} /\ notified \in BOOLEAN
        /\ ready \in BOOLEAN /\ flag \in [Kinds -> BOOLEAN]
      BY DEF Init
  <1>3. /\ test \in [pc : {"idle"}, kind : Kinds, serial : {0}, req : {0}]
        /\ verdict = "none" /\ 0 \in 0 .. MaxUpdates /\ 0 \leq MaxRequests
        /\ handler \in [Threads -> [pc : {"idle"}, req : {0}]]
      BY RilAssumption DEF Init
  <1>4. unanswered = {} /\ named = {} /\ told = {} /\ updates = 0
      BY DEF Init
  <1>5. TypeOK
      BY <1>1, <1>2, <1>3, <1>4 DEF TypeOK
  <1>6. HandlerInv /\ FreshInv
      BY RilAssumption DEF Init, HandlerInv, FreshInv, MatchIsFresh, Judging
  <1> QED
      BY <1>5, <1>6 DEF IndInv

LEMMA StepInd == IndInv /\ [Next]_vars => IndInv'
  <1> SUFFICES ASSUME IndInv, [Next]_vars PROVE IndInv'
      OBVIOUS
  <1> USE RilAssumption
          DEF IndInv, TypeOK, HandlerInv, FreshInv, MatchIsFresh, Judging,
              Requests, Kind, Serial, callback, driver, history
  <1>d. /\ DOMAIN log = 1 .. Len(log) /\ Len(log) \in Nat
        /\ log \in [1 .. Len(log) -> [kind : Kinds, serial : Serials \cup {0}]]
    <2> DEFINE S == [kind : Kinds, serial : Serials \cup {0}]
    <2>1. log \in Seq(S)
        OBVIOUS
    <2> HIDE DEF S
    <2>2. DOMAIN log = 1 .. Len(log) /\ Len(log) \in Nat /\ log \in [1 .. Len(log) -> S]
        BY <2>1, LenProperties
    <2> QED
        BY <2>2 DEF S
  <1>e. \A r \in DOMAIN log : Kind(r) \in Kinds /\ Serial(r) \in Serials \cup {0}
      BY <1>d
  <1>1. CASE UNCHANGED vars
      BY <1>1 DEF vars
  <1>2. ASSUME NEW k \in Kinds, NEW s \in Draws, DrawSerial(k, s) PROVE IndInv'
    <2>1. s \in Serials
        BY DEF Draws
    <2> QED
        BY <1>2, <2>1 DEF DrawSerial
  <1>3. CASE Send
    <2> DEFINE req == [kind |-> test.kind, serial |-> test.serial]
    <2>1. req \in [kind : Kinds, serial : Serials \cup {0}]
        OBVIOUS
    <2>2. log' = Append(log, req) /\ Len(log) < MaxRequests
        BY <1>3 DEF Send
    <2> HIDE DEF req
    <2>3. /\ log' \in Seq([kind : Kinds, serial : Serials \cup {0}])
          /\ Len(log') = Len(log) + 1 /\ DOMAIN log' = 1 .. Len(log) + 1
          /\ \A i \in DOMAIN log : log'[i] = log[i]
        BY <2>1, <2>2, SendExtends
    <2>4. Len(log') \in Requests /\ DOMAIN log \subseteq DOMAIN log'
        BY <1>d, <2>2, <2>3
    <2>5. TypeOK'
      <3>1. unanswered' \subseteq DOMAIN log' /\ named' \subseteq DOMAIN log'
            /\ told' \subseteq DOMAIN log'
          BY <1>3, <1>d, <2>3, <2>4 DEF Send
      <3>2. test' \in [pc : {"sent"}, kind : Kinds, serial : Serials \cup {0},
                       req : Requests]
          BY <1>3, <2>4 DEF Send
      <3>3. Len(log') <= MaxRequests
          BY <1>d, <2>2, <2>3
      <3>4. UNCHANGED <<callback, ready, flag, verdict, handler, updates>>
          BY <1>3 DEF Send
      <3> QED
          BY <2>3, <3>1, <3>2, <3>3, <3>4
    <2>6. HandlerInv'
        BY <1>3, <2>4 DEF Send
    <2>7. FreshInv'
        BY <1>3, <2>3 DEF Send
    <2> QED
        BY <2>5, <2>6, <2>7
  <1>4. CASE SendRefused
      BY <1>4 DEF SendRefused
  <1>5. CASE CleanBeforeWait
      BY <1>5 DEF CleanBeforeWait
  <1>6. CASE Sleep
      BY <1>6 DEF Sleep
  <1>7. CASE Wake
      BY <1>7 DEF Wake
  <1>8. CASE LookForNone
      BY <1>8 DEF LookForNone
  <1>9. CASE CompareId
      BY <1>9 DEF CompareId
  <1>10. ASSUME NEW t \in Threads, NEW r \in unanswered, Receive(t, r)
         PROVE  IndInv'
    <2>1. r \in DOMAIN log /\ Kind(r) \in Kinds /\ r \in Requests
        BY <1>d, <1>e
    <2>2. TypeOK' /\ HandlerInv'
        BY <1>10, <1>d, <2>1 DEF Receive
    <2>3. FreshInv'
        BY <1>10, <2>1 DEF Receive
    <2> QED
        BY <2>2, <2>3
  <1>11. ASSUME NEW t \in Threads, StoreInfo(t) PROVE IndInv'
    <2>1. handler[t].req \in DOMAIN log /\ Serial(handler[t].req) \in Serials \cup {0}
        BY <1>11, <1>e DEF StoreInfo
    <2>2. TypeOK' /\ HandlerInv'
        BY <1>11, <1>d, <2>1 DEF StoreInfo
    <2>3. FreshInv'
        BY <1>11 DEF StoreInfo
    <2> QED
        BY <2>2, <2>3
  <1>12. ASSUME NEW t \in Threads, CheckSerial(t) PROVE IndInv'
      BY <1>12 DEF CheckSerial
  <1>13. ASSUME NEW t \in Threads, Notify(t) PROVE IndInv'
    <2>1. notified' \in BOOLEAN
        BY <1>13, Zenon DEF Notify
    <2> QED
        BY <1>13, <2>1 DEF Notify
  <1>14. ASSUME NEW t \in Threads, Drop(t) PROVE IndInv'
      BY <1>14 DEF Drop
  <1>15. ASSUME NEW t \in Threads, NEW r \in unanswered, CommonErrorResponse(t, r)
         PROVE  IndInv'
      BY <1>15 DEF CommonErrorResponse
  <1>16. ASSUME NEW t \in Threads, NEW s \in Draws, SimStateUpdated(t, s)
         PROVE  IndInv'
    <2> DEFINE req == [kind |-> SimStatus,
                       serial |-> IF RecordsSerial THEN s ELSE 0]
    <2>1. s \in Serials
        BY DEF Draws
    <2>2. req \in [kind : Kinds, serial : Serials \cup {0}]
        BY <2>1
    <2>3. log' = Append(log, req) /\ Len(log) < MaxRequests
        BY <1>16 DEF SimStateUpdated
    <2> HIDE DEF req
    <2>4. /\ log' \in Seq([kind : Kinds, serial : Serials \cup {0}])
          /\ Len(log') = Len(log) + 1 /\ DOMAIN log' = 1 .. Len(log) + 1
          /\ \A i \in DOMAIN log : log'[i] = log[i]
        BY <2>2, <2>3, SendExtends
    <2>5. Len(log') \in Requests /\ DOMAIN log \subseteq DOMAIN log'
        BY <1>d, <2>3, <2>4
    <2>6. TypeOK'
        BY <1>16, <1>d, <2>1, <2>3, <2>4, <2>5 DEF SimStateUpdated
    <2>7. HandlerInv'
        BY <1>16, <2>5 DEF SimStateUpdated
    <2>8. FreshInv'
        BY <1>16, <2>4 DEF SimStateUpdated
    <2> QED
        BY <2>6, <2>7, <2>8
  <1>17. CASE SuiteOver
      BY <1>17 DEF SuiteOver, vars
  <1> QED
      BY <1>1, <1>2, <1>3, <1>4, <1>5, <1>6, <1>7, <1>8, <1>9, <1>10, <1>11,
         <1>12, <1>13, <1>14, <1>15, <1>16, <1>17
      DEF Next, TestStep, HandlerStep, DriverStep

LEMMA Inductive == Spec => []IndInv
  BY InitInd, StepInd, PTL DEF Spec

\* Every variable keeps its type.
THEOREM TypeCorrect == Spec => []TypeOK
  BY Inductive, PTL DEF IndInv

\* A test passes for a matching hdiId_ only if an answer of that kind came in
\* after its own Clean, whatever the IPC threads do in between.
THEOREM NothingLeftBehindPasses == Spec => []MatchIsFresh
  <1>1. IndInv => MatchIsFresh
      BY DEF IndInv, FreshInv
  <1> QED
      BY <1>1, Inductive, PTL

(* The v1.0 suite with a generator that does not repeat itself.            *)
DistinctSerials == RecordsSerial /\ ~Repeats

LEMMA InitOwn == Init => OwnInv
  BY DEF Init, OwnInv, StoredInv, NotificationIsOwn, Judging

LEMMA StepOwn ==
    ASSUME DistinctSerials, IndInv, OwnInv, updates = 0, updates' = 0, [Next]_vars
    PROVE  OwnInv'
  <1> USE RilAssumption
          DEF IndInv, HandlerInv, OwnInv, StoredInv, NotificationIsOwn, Judging,
              DistinctSerials, callback, driver, history
  <1>d. /\ DOMAIN log = 1 .. Len(log) /\ Len(log) \in Nat
        /\ told \subseteq DOMAIN log /\ unanswered \subseteq DOMAIN log
        /\ notified \in BOOLEAN /\ updates = 0
        /\ test = [pc |-> test.pc, kind |-> test.kind, serial |-> test.serial,
                   req |-> test.req]
        /\ handler \in [Threads -> [pc : {"idle", "named", "stored", "notify", "drop"},
                                    req : Requests \cup {0}]]
      BY LenProperties DEF TypeOK
  <1>1. CASE UNCHANGED vars
      BY <1>1 DEF vars, Serial
  <1>2. ASSUME NEW k \in Kinds, NEW s \in Draws, DrawSerial(k, s) PROVE OwnInv'
    <2>1. \A r \in DOMAIN log : Serial(r) # s
        BY DEF Draws
    <2> QED
        BY <1>2, <1>d, <2>1 DEF DrawSerial, Serial
  <1>3. CASE Send
    <2> DEFINE req == [kind |-> test.kind, serial |-> test.serial]
               S   == [kind : Kinds, serial : Serials \cup {0}]
    <2>0. PICK n \in Nat : n = Len(log)
        BY <1>d
    <2>1. req \in S /\ log \in Seq(S) /\ log' = Append(log, req)
        BY <1>3 DEF Send, TypeOK
    <2> HIDE DEF S
    <2>2. /\ DOMAIN log' = DOMAIN log \cup {n + 1}
          /\ Len(log') = n + 1
          /\ \A r \in DOMAIN log : log'[r] = log[r]
          /\ log'[n + 1] = req
        BY <2>0, <2>1, <1>d, AppendProperties, LenProperties
    <2>3. /\ \A r \in DOMAIN log : Serial(r)' = Serial(r)
          /\ Serial(n + 1)' = test.serial
      <3>1. \A r \in DOMAIN log : log'[r].serial = log[r].serial
          BY <2>2
      <3>2. log'[n + 1].serial = test.serial
          BY <2>2
      <3> QED
          BY <3>1, <3>2 DEF Serial
    <2>4. \A r \in DOMAIN log : Serial(r) # test.serial
        BY <1>3 DEF Send
    <2>5. /\ test' = [test EXCEPT !.pc = "sent", !.req = Len(log')]
          /\ UNCHANGED <<callback, handler, told>>
          /\ test.pc = "drawn"
        BY <1>3 DEF Send
    <2>6. /\ test'.pc = "sent" /\ test'.req = n + 1
          /\ test'.serial = test.serial
        BY <2>2, <2>5, <1>d
    <2>7. \A r, q \in DOMAIN log' : Serial(r)' = Serial(q)' => r = q
        BY <2>2, <2>3, <2>4, <2>0, <1>d
    <2>8. told' # {} => \E r \in told' : Serial(r)' = resultSerial'
        BY <1>d, <2>3, <2>5
    <2> QED
        BY <2>2, <2>3, <2>4, <2>5, <2>6, <2>7, <2>8, <1>d
  <1>4. CASE SendRefused
      BY <1>4, <1>d DEF SendRefused, Serial
  <1>5. CASE CleanBeforeWait
      BY <1>5, <1>d DEF CleanBeforeWait, Serial
  <1>6. CASE Sleep
    \* No handler is between its comparison and its signal: the mutex is free.
    <2>1. \A t \in Threads : handler[t].pc # "notify"
        BY <1>6 DEF Sleep
    <2> QED
        BY <1>6, <1>d, <2>1 DEF Sleep, Serial
  <1>7. CASE Wake
      BY <1>7, <1>d DEF Wake, Serial
  <1>8. CASE LookForNone
      BY <1>8, <1>d DEF LookForNone, Serial
  <1>9. CASE CompareId
      BY <1>9, <1>d DEF CompareId, Serial
  <1>10. ASSUME NEW t \in Threads, NEW r \in unanswered, Receive(t, r)
         PROVE  OwnInv'
      BY <1>10, <1>d DEF Receive, Serial
  <1>11. ASSUME NEW t \in Threads, StoreInfo(t) PROVE OwnInv'
      BY <1>11, <1>d DEF StoreInfo, Serial
  <1>12. ASSUME NEW t \in Threads, CheckSerial(t) PROVE OwnInv'
    \* The stored serial is the test's: the answer stored under it is its own.
    <2>1. ASSUME resultSerial = currentSerialId, test.pc = "waiting"
          PROVE  test.req \in told
      <3>1. /\ test.req \in DOMAIN log
            /\ Serial(test.req) = resultSerial /\ told # {}
          BY <1>12, <2>1 DEF CheckSerial
      <3>2. PICK r \in told : Serial(r) = resultSerial
          BY <3>1
      <3> QED
          BY <3>1, <3>2, <1>d
    <2> QED
        BY <1>12, <1>d, <2>1 DEF CheckSerial, Serial
  <1>13. ASSUME NEW t \in Threads, Notify(t) PROVE OwnInv'
    <2>1. test.pc = "waiting" => test.req \in told
        BY <1>13 DEF Notify
    <2> QED
        BY <1>13, <1>d, <2>1 DEF Notify, Serial
  <1>14. ASSUME NEW t \in Threads, Drop(t) PROVE OwnInv'
      BY <1>14, <1>d DEF Drop, Serial
  <1>15. ASSUME NEW t \in Threads, NEW r \in unanswered, CommonErrorResponse(t, r)
         PROVE  OwnInv'
      BY <1>15, <1>d DEF CommonErrorResponse, Serial
  <1>16. ASSUME NEW t \in Threads, NEW s \in Draws, SimStateUpdated(t, s)
         PROVE  FALSE
      BY <1>16, <1>d DEF SimStateUpdated
  <1>17. CASE SuiteOver
      BY <1>17 DEF SuiteOver, vars, Serial
  <1> QED
      BY <1>1, <1>2, <1>3, <1>4, <1>5, <1>6, <1>7, <1>8, <1>9, <1>10, <1>11,
         <1>12, <1>13, <1>14, <1>15, <1>16, <1>17
      DEF Next, TestStep, HandlerStep, DriverStep

LEMMA UpdatesGrow ==
    ASSUME [Next]_vars PROVE updates' = updates \/ updates' = updates + 1
  <1>1. ASSUME TestStep PROVE updates' = updates
      BY <1>1, Zenon
      DEF TestStep, driver, Send, SendRefused, CleanBeforeWait, Sleep, Wake,
          LookForNone, CompareId
  <1>2. ASSUME NEW t \in Threads, HandlerStep(t) PROVE updates' = updates
      BY <1>2, Zenon DEF HandlerStep, driver, StoreInfo, CheckSerial, Notify, Drop
  <1>3. ASSUME NEW t \in Threads, DriverStep(t)
        PROVE  updates' = updates \/ updates' = updates + 1
      BY <1>3, Zenon DEF DriverStep, Receive, CommonErrorResponse, SimStateUpdated
  <1>4. ASSUME NEW k \in Kinds, NEW s \in Draws, DrawSerial(k, s)
        PROVE  updates' = updates
      BY <1>4, Zenon DEF DrawSerial, driver
  <1>5. CASE SuiteOver \/ UNCHANGED vars
      BY <1>5, Zenon DEF SuiteOver, vars
  <1> QED
      BY <1>1, <1>2, <1>3, <1>4, <1>5 DEF Next

\* Under distinct serials a test is notified only when the answer to its own
\* request has been stored, for any number of IPC threads and late answers.
THEOREM LateAnswersWakeNobody ==
    ASSUME DistinctSerials
    PROVE  Spec => []NotificationIsOwn
  <1> DEFINE Inv == updates = 0 => OwnInv
  <1>1. Init => Inv
      BY InitOwn
  <1>2. IndInv /\ Inv /\ [Next]_vars => Inv'
    <2> SUFFICES ASSUME IndInv, Inv, [Next]_vars, updates' = 0 PROVE OwnInv'
        OBVIOUS
    <2>1. updates = 0
      <3>1. updates' = updates \/ updates' = updates + 1
          BY UpdatesGrow
      <3>2. updates \in 0 .. MaxUpdates
          BY DEF IndInv, TypeOK
      <3> QED
          BY <3>1, <3>2, RilAssumption
    <2> QED
        BY <2>1, StepOwn
  <1>3. Inv => NotificationIsOwn
      BY DEF OwnInv, NotificationIsOwn
  <1> QED
      BY <1>1, <1>2, <1>3, Inductive, PTL DEF Spec
-----------------------------------------------------------------------------
(* One IPC thread.                                                         *)

OneThread == \A t, u \in Threads : t = u

\* With one thread no other handler comes between the steps of one: the serial
\* it compares is its request's, and what it takes back is not the test's.  So
\* as long as only the test's own answer has come since Clean, hdiId_ is the
\* test's and nobody is about to take it back.
ServedInv ==
    /\ \A t \in Threads :
          /\ handler[t].pc \in {"stored", "notify", "drop"} =>
                resultSerial = Serial(handler[t].req)
          /\ handler[t].pc = "drop" => handler[t].req # test.req
    /\ test.req # 0 =>
          /\ test.req \in DOMAIN log
          /\ Kind(test.req) = test.kind /\ Serial(test.req) = test.serial
    /\ test.pc \in Judging \cup {"sent"} => test.req # 0
    /\ test.pc \in Judging /\ named = {} => hdiId = None /\ test.pc # "compare"
    /\ test.pc \in Judging /\ named = {test.req} =>
          /\ hdiId = test.kind
          /\ \A t \in Threads : handler[t].pc # "idle" => handler[t].req = test.req
    /\ FalseMeansForeign

LEMMA InitServed == Init => ServedInv
  BY DEF Init, ServedInv, FalseMeansForeign, Judging

LEMMA StepServed ==
    ASSUME DistinctSerials, OneThread, IndInv, OwnInv, ServedInv,
           updates = 0, updates' = 0, [Next]_vars
    PROVE  ServedInv'
  <1> USE RilAssumption
          DEF HandlerInv, FreshInv, ServedInv, FalseMeansForeign, Judging,
              DistinctSerials, OneThread, Kind, Serial, callback, driver, history
  <1>d. /\ DOMAIN log = 1 .. Len(log) /\ Len(log) \in Nat
        /\ named \subseteq DOMAIN log /\ unanswered \subseteq DOMAIN log
        /\ test = [pc |-> test.pc, kind |-> test.kind, serial |-> test.serial,
                   req |-> test.req]
        /\ handler \in [Threads -> [pc : {"idle", "named", "stored", "notify", "drop"},
                                    req : Requests \cup {0}]]
        /\ HandlerInv /\ FreshInv /\ ServedInv /\ currentSerialId = test.serial
      BY LenProperties DEF TypeOK, IndInv, OwnInv
  <1>1. CASE UNCHANGED vars
      BY <1>1, <1>d DEF vars
  <1>2. ASSUME NEW k \in Kinds, NEW s \in Draws, DrawSerial(k, s) PROVE ServedInv'
    <2>1. 0 \notin DOMAIN log
        BY <1>d
    <2> QED
        BY <1>2, <1>d, <2>1 DEF DrawSerial
  <1>3. CASE Send
    <2> DEFINE req == [kind |-> test.kind, serial |-> test.serial]
               S   == [kind : Kinds, serial : Serials \cup {0}]
    <2>0. PICK n \in Nat : n = Len(log)
        BY <1>d
    <2>1. req \in S /\ log \in Seq(S) /\ log' = Append(log, req)
        BY <1>3 DEF Send, TypeOK, IndInv
    <2> HIDE DEF S
    <2>2. /\ DOMAIN log' = DOMAIN log \cup {n + 1}
          /\ Len(log') = n + 1
          /\ \A r \in DOMAIN log : log'[r] = log[r]
          /\ log'[n + 1] = req /\ n + 1 \notin DOMAIN log /\ n + 1 # 0
        BY <2>0, <2>1, <1>d, AppendProperties, LenProperties
    <2>3. /\ test' = [test EXCEPT !.pc = "sent", !.req = Len(log')]
          /\ UNCHANGED <<callback, handler, verdict, named>>
        BY <1>3 DEF Send
    <2>4. /\ test'.pc = "sent" /\ test'.req = n + 1
          /\ test'.kind = test.kind /\ test'.serial = test.serial
        BY <1>d, <2>2, <2>3
    <2>5. \A t \in Threads : handler[t].pc # "idle" =>
             /\ handler[t].req \in DOMAIN log /\ handler[t].req # n + 1
        BY <1>d, <2>2
    <2>6. verdict' = "none"
        BY <1>3, <1>d, <2>3 DEF Send
    <2> QED
        BY <1>d, <2>2, <2>3, <2>4, <2>5, <2>6
  <1>4. CASE SendRefused
      BY <1>4, <1>d DEF SendRefused
  <1>5. CASE CleanBeforeWait
      BY <1>5, <1>d DEF CleanBeforeWait
  <1>6. CASE Sleep \/ Wake
      BY <1>6, <1>d DEF Sleep, Wake
  <1>7. CASE LookForNone
      BY <1>7, <1>d DEF LookForNone
  <1>8. CASE CompareId
      BY <1>8, <1>d DEF CompareId
  <1>9. ASSUME NEW t \in Threads, NEW r \in unanswered, Receive(t, r)
        PROVE  ServedInv'
      BY <1>9, <1>d DEF Receive
  <1>10. ASSUME NEW t \in Threads, StoreInfo(t) PROVE ServedInv'
      BY <1>10, <1>d DEF StoreInfo
  <1>11. ASSUME NEW t \in Threads, CheckSerial(t) PROVE ServedInv'
      BY <1>11, <1>d DEF CheckSerial
  <1>12. ASSUME NEW t \in Threads, Notify(t) PROVE ServedInv'
      BY <1>12, <1>d DEF Notify
  <1>13. ASSUME NEW t \in Threads, Drop(t) PROVE ServedInv'
      BY <1>13, <1>d DEF Drop
  <1>14. ASSUME NEW t \in Threads, NEW r \in unanswered, CommonErrorResponse(t, r)
         PROVE  ServedInv'
      BY <1>14, <1>d DEF CommonErrorResponse
  <1>15. ASSUME NEW t \in Threads, NEW s \in Draws, SimStateUpdated(t, s)
         PROVE  FALSE
      BY <1>15 DEF SimStateUpdated
  <1>16. CASE SuiteOver
      BY <1>16, <1>d DEF SuiteOver, vars
  <1> QED
      BY <1>1, <1>2, <1>3, <1>4, <1>5, <1>6, <1>7, <1>8, <1>9, <1>10, <1>11,
         <1>12, <1>13, <1>14, <1>15, <1>16
      DEF Next, TestStep, HandlerStep, DriverStep

\* Until a SimStateUpdated draws a serial of its own.
UntilUpdate == updates = 0 => OwnInv /\ ServedInv

LEMMA ServedUntilUpdate ==
    ASSUME DistinctSerials, OneThread
    PROVE  Spec => []UntilUpdate
  <1>1. Init => UntilUpdate
      BY InitOwn, InitServed DEF UntilUpdate
  <1>2. IndInv /\ UntilUpdate /\ [Next]_vars => UntilUpdate'
    <2> SUFFICES ASSUME IndInv, UntilUpdate, [Next]_vars, updates' = 0
                 PROVE  OwnInv' /\ ServedInv'
        BY DEF UntilUpdate
    <2>1. updates = 0
      <3>1. updates' = updates \/ updates' = updates + 1
          BY UpdatesGrow
      <3>2. updates \in 0 .. MaxUpdates
          BY DEF IndInv, TypeOK
      <3> QED
          BY <3>1, <3>2, RilAssumption
    <2>2. OwnInv /\ ServedInv
        BY <2>1 DEF UntilUpdate
    <2> QED
        BY <2>1, <2>2, StepOwn, StepServed
  <1> QED
      BY <1>1, <1>2, Inductive, PTL DEF Spec

\* With one IPC thread and distinct serials, a test that GetBoolResult fails has
\* seen another request's answer while it waited: its own answer alone never
\* fails it, although hdiId_ is read twice without the mutex.
THEOREM MismatchIsForeign ==
    ASSUME DistinctSerials, OneThread
    PROVE  Spec => []FalseMeansForeign
  <1>1. UntilUpdate => FalseMeansForeign
      BY DEF UntilUpdate, ServedInv, FalseMeansForeign
  <1> QED
      BY <1>1, ServedUntilUpdate, PTL

\* With one IPC thread and distinct serials, a test that GetBoolResult takes for
\* timed out, and passes, has not had its own answer alone: nothing of the test's
\* is ever taken back as not equal.
THEOREM OwnAnswerStays ==
    ASSUME DistinctSerials, OneThread
    PROVE  Spec => OwnAnswerIsKept
  <1> DEFINE Kept == updates = 0 /\ verdict # "timeout" /\ verdict' = "timeout"
                       => named # {test.req}
  <1>1. IndInv /\ UntilUpdate /\ [Next]_vars => [Kept]_vars
    <2> SUFFICES ASSUME IndInv, UntilUpdate, Next, updates = 0,
                        verdict # "timeout", verdict' = "timeout"
                 PROVE  named # {test.req}
        OBVIOUS
    <2>1. LookForNone
      <3>1. ASSUME NEW t \in Threads, HandlerStep(t) \/ DriverStep(t) PROVE FALSE
          BY <3>1 DEF HandlerStep, DriverStep, StoreInfo, CheckSerial, Notify, Drop,
             Receive, CommonErrorResponse, SimStateUpdated
      <3>2. ASSUME NEW k \in Kinds, NEW s \in Draws, DrawSerial(k, s) PROVE FALSE
          BY <3>2 DEF DrawSerial
      <3>3. CASE TestStep \/ SuiteOver
          BY <3>3 DEF TestStep, Send, SendRefused, CleanBeforeWait, Sleep, Wake,
             CompareId, SuiteOver, vars
      <3> QED
          BY <3>1, <3>2, <3>3 DEF Next
    <2>2. hdiId = None /\ test.pc = "woken"
        BY <2>1 DEF LookForNone
    <2>3. test.kind \in Kinds
        BY DEF IndInv, TypeOK
    <2> QED
        BY <2>2, <2>3, RilAssumption DEF UntilUpdate, ServedInv, Judging
  <1>2. [][Kept]_vars => OwnAnswerIsKept
      BY DEF OwnAnswerIsKept
  <1> QED
      BY <1>1, <1>2, Inductive, ServedUntilUpdate, PTL DEF Spec

\* With one IPC thread and distinct serials, NotifyAll wakes the sleeping test
\* for the answer to its request: it is never dropped as not equal.
THEOREM OwnAnswerWakes ==
    ASSUME DistinctSerials, OneThread
    PROVE  Spec => OwnAnswerNotifies
  <1> DEFINE Woken ==
        updates = 0 => \A t \in Threads :
           /\ handler[t].pc \in {"notify", "drop"} /\ handler'[t].pc = "idle"
           /\ handler[t].req = test.req /\ test.pc = "waiting"
           => notified'
  <1>1. IndInv /\ UntilUpdate /\ [Next]_vars => Woken \/ UNCHANGED vars
    <2> SUFFICES ASSUME IndInv, UntilUpdate, Next, updates = 0, NEW t \in Threads,
                        handler[t].pc \in {"notify", "drop"}, handler'[t].pc = "idle",
                        handler[t].req = test.req, test.pc = "waiting"
                 PROVE  notified'
        OBVIOUS
    <2>1. handler[t].pc = "notify"
        BY DEF UntilUpdate, ServedInv
    <2>2. handler' # handler /\ handler \in [Threads -> [pc : {"idle", "named", "stored",
                                 "notify", "drop"}, req : Requests \cup {0}]]
        BY <2>1 DEF IndInv, TypeOK
    <2>3. ASSUME NEW u \in Threads, HandlerStep(u) \/ DriverStep(u) PROVE notified'
      <3>1. u = t
          BY DEF OneThread
      <3> QED
          BY <2>1, <2>2, <2>3, <3>1
             DEF HandlerStep, DriverStep, StoreInfo, CheckSerial, Notify, Drop, Receive,
                 CommonErrorResponse, SimStateUpdated
    <2>4. ASSUME NEW k \in Kinds, NEW s \in Draws, DrawSerial(k, s) PROVE FALSE
        BY <2>4 DEF DrawSerial
    <2>5. CASE TestStep \/ SuiteOver
        BY <2>2, <2>5 DEF TestStep, Send, SendRefused, CleanBeforeWait, Sleep, Wake,
           LookForNone, CompareId, SuiteOver, vars
    <2> QED
        BY <2>3, <2>4, <2>5 DEF Next
  <1>2. IndInv /\ UntilUpdate /\ [Next]_vars => [Woken]_vars
      BY <1>1
  <1>3. [][Woken]_vars => OwnAnswerNotifies
      BY DEF OwnAnswerNotifies
  <1> QED
      BY <1>2, <1>3, Inductive, ServedUntilUpdate, PTL DEF Spec
-----------------------------------------------------------------------------
(* The mutex.                                                              *)

\* Only a handler between its comparison and its signal has the mutex.
HolderInv == \A t \in Threads : mutex = t <=> handler[t].pc \in {"notify", "drop"}

\* Whoever waits for callbackMutex_, the test in WaitFor or another handler, waits
\* for a handler whose next step gives it back: nobody holds it and waits.
THEOREM MutexIsGivenBack == Spec => []HolderInv
  <1>1. Init => HolderInv
      BY RilAssumption DEF Init, HolderInv
  <1>2. IndInv /\ HolderInv /\ [Next]_vars => HolderInv'
    <2> SUFFICES ASSUME IndInv, HolderInv, [Next]_vars PROVE HolderInv'
        OBVIOUS
    <2>d. handler \in [Threads -> [pc : {"idle", "named", "stored", "notify", "drop"},
                                   req : Requests \cup {0}]]
        BY DEF IndInv, TypeOK
    <2> USE RilAssumption DEF HolderInv, callback, driver, history
    <2>1. CASE UNCHANGED vars \/ SuiteOver
        BY <2>1 DEF vars, SuiteOver
    <2>2. ASSUME NEW k \in Kinds, NEW s \in Draws, DrawSerial(k, s) PROVE HolderInv'
        BY <2>2 DEF DrawSerial
    <2>3. CASE TestStep
        BY <2>3 DEF TestStep, Send, SendRefused, CleanBeforeWait, Sleep, Wake,
           LookForNone, CompareId
    <2>4. ASSUME NEW t \in Threads, HandlerStep(t) PROVE HolderInv'
        BY <2>4, <2>d DEF HandlerStep, StoreInfo, CheckSerial, Notify, Drop
    <2>5. ASSUME NEW t \in Threads, DriverStep(t) PROVE HolderInv'
      <3>1. ASSUME NEW r \in unanswered, Receive(t, r) PROVE HolderInv'
          BY <2>d, <3>1 DEF Receive
      <3>2. ASSUME NEW r \in unanswered, CommonErrorResponse(t, r) PROVE HolderInv'
          BY <3>2 DEF CommonErrorResponse
      <3>3. ASSUME NEW s \in Draws, SimStateUpdated(t, s) PROVE HolderInv'
        <4>1. UNCHANGED <<mutex, handler>>
            BY <3>3, Zenon DEF SimStateUpdated
        <4> QED
            BY <4>1
      <3> QED
          BY <2>5, <3>1, <3>2, <3>3 DEF DriverStep
    <2> QED
        BY <2>1, <2>2, <2>3, <2>4, <2>5 DEF Next
  <1> QED
      BY <1>1, <1>2, Inductive, PTL DEF Spec
-----------------------------------------------------------------------------
(* The v1.1 suites: what is drawn is not stored.                           *)

\* g_currentSerialId keeps the 0 it was defined with.
MuteInv ==
    /\ currentSerialId = 0
    /\ StoredInv
    /\ notified \/ (\E t \in Threads : handler[t].pc = "notify") =>
         \E r \in told : Serial(r) = 0

\* With one thread the serial that is compared is that of the handler's request.
ZeroInv == \A t \in Threads :
    /\ handler[t].pc \in {"stored", "notify", "drop"} =>
         resultSerial = Serial(handler[t].req)
    /\ handler[t].pc = "notify" => Serial(handler[t].req) = 0
    /\ handler[t].pc = "drop" => Serial(handler[t].req) # 0

\* No step renames a request.
LEMMA SerialsStay ==
    ASSUME IndInv, [Next]_vars
    PROVE  \A r \in DOMAIN log : Serial(r)' = Serial(r)
  <1> DEFINE S == [kind : Kinds, serial : Serials \cup {0}]
  <1>0. log \in Seq(S)
      BY DEF IndInv, TypeOK
  <1>1. log' = log \/ \E x \in S : log' = Append(log, x)
    <2>1. CASE TestStep \/ SuiteOver \/ UNCHANGED vars
      <3>1. [kind |-> test.kind, serial |-> test.serial] \in S
          BY DEF IndInv, TypeOK
      <3> HIDE DEF S
      <3> QED
          BY <2>1, <3>1
             DEF TestStep, Send, SendRefused, CleanBeforeWait, Sleep, Wake, LookForNone,
                 CompareId, SuiteOver, vars, driver
    <2>2. ASSUME NEW k \in Kinds, NEW s \in Draws, DrawSerial(k, s) PROVE log' = log
        BY <2>2 DEF DrawSerial, driver
    <2>3. ASSUME NEW t \in Threads, HandlerStep(t) PROVE log' = log
        BY <2>3 DEF HandlerStep, StoreInfo, CheckSerial, Notify, Drop, driver
    <2>4. ASSUME NEW t \in Threads, NEW r \in unanswered,
                 Receive(t, r) \/ CommonErrorResponse(t, r)
          PROVE  log' = log
        BY <2>4 DEF Receive, CommonErrorResponse
    <2>5. ASSUME NEW t \in Threads, NEW s \in Draws, SimStateUpdated(t, s)
          PROVE  \E x \in S : log' = Append(log, x)
      <3>1. [kind |-> SimStatus, serial |-> IF RecordsSerial THEN s ELSE 0] \in S
          BY RilAssumption DEF Draws
      <3> HIDE DEF S
      <3> QED
          BY <2>5, <3>1 DEF SimStateUpdated
    <2> QED
        BY <2>1, <2>2, <2>3, <2>4, <2>5 DEF Next, DriverStep
  <1> HIDE DEF S
  <1>2. \A r \in DOMAIN log : log'[r] = log[r]
      BY <1>0, <1>1, SendExtends
  <1> QED
      BY <1>2 DEF Serial

LEMMA StepMute ==
    ASSUME ~RecordsSerial, IndInv, MuteInv, [Next]_vars
    PROVE  MuteInv'
  <1> USE DEF MuteInv, StoredInv, HandlerInv, callback, driver, history
  <1>d. /\ handler \in [Threads -> [pc : {"idle", "named", "stored", "notify", "drop"},
                                    req : Requests \cup {0}]]
        /\ told \subseteq DOMAIN log /\ HandlerInv /\ notified \in BOOLEAN
      BY DEF IndInv, TypeOK
  <1>s. \A r \in DOMAIN log : Serial(r)' = Serial(r)
      BY SerialsStay
  <1>1. CASE \/ UNCHANGED vars \/ SuiteOver \/ TestStep
             \/ \E k \in Kinds, s \in Draws : DrawSerial(k, s)
    <2>1. UNCHANGED <<currentSerialId, resultSerial, handler, told>>
        BY <1>1
           DEF vars, SuiteOver, TestStep, Send, SendRefused, CleanBeforeWait, Sleep, Wake,
               LookForNone, CompareId, DrawSerial
    <2>2. notified' => notified
        BY <1>1
           DEF vars, SuiteOver, TestStep, Send, SendRefused, CleanBeforeWait, Sleep, Wake,
               LookForNone, CompareId, DrawSerial
    <2> QED
        BY <1>d, <1>s, <2>1, <2>2
  <1>2. ASSUME NEW t \in Threads, StoreInfo(t) PROVE MuteInv'
    <2>1. /\ told' = told \cup {handler[t].req} /\ handler[t].req \in DOMAIN log
          /\ resultSerial' = Serial(handler[t].req)
          /\ handler' = [handler EXCEPT ![t].pc = "stored"]
          /\ UNCHANGED <<currentSerialId, notified>>
        BY <1>2, <1>d DEF StoreInfo
    <2>2. \A u \in Threads : handler'[u].req = handler[u].req
                             /\ (u # t => handler'[u].pc = handler[u].pc)
                             /\ handler'[t].pc = "stored"
        BY <2>1, <1>d
    <2>3. told' # {} => \E r \in told' : Serial(r)' = resultSerial'
        BY <2>1, <1>s
    <2>4. \A u \in Threads :
            handler'[u].pc \in {"stored", "notify", "drop"} => handler'[u].req \in told'
        BY <2>1, <2>2
    <2>5. notified' \/ (\E u \in Threads : handler'[u].pc = "notify") =>
            \E r \in told' : Serial(r)' = 0
        BY <1>d, <1>s, <2>1, <2>2
    <2> QED
        BY <2>1, <2>3, <2>4, <2>5
  <1>3. ASSUME NEW t \in Threads, CheckSerial(t) PROVE MuteInv'
    \* What is compared with the 0 is the serial of an answer that was stored.
    <2>1. resultSerial = 0 => \E r \in told : Serial(r) = 0
        BY <1>3 DEF CheckSerial
    <2>2. /\ UNCHANGED <<currentSerialId, resultSerial, notified, told>>
          /\ \A u \in Threads : handler'[u].req = handler[u].req
                                /\ (u # t => handler'[u].pc = handler[u].pc)
          /\ handler[t].pc = "stored"
          /\ handler'[t].pc = "notify" => resultSerial = 0
        BY <1>3, <1>d DEF CheckSerial
    <2>3. \A u \in Threads :
            handler'[u].pc \in {"stored", "notify", "drop"} => handler'[u].req \in told'
        BY <2>2
    <2>4. notified' \/ (\E u \in Threads : handler'[u].pc = "notify") =>
            \E r \in told' : Serial(r)' = 0
        BY <1>d, <1>s, <2>1, <2>2
    <2> QED
        BY <1>d, <1>s, <2>2, <2>3, <2>4
  <1>4. ASSUME NEW t \in Threads, Notify(t) \/ Drop(t) PROVE MuteInv'
    <2>1. /\ UNCHANGED <<currentSerialId, resultSerial, told>>
          /\ handler' = [handler EXCEPT ![t].pc = "idle"]
          /\ notified' => notified \/ handler[t].pc = "notify"
        BY <1>4 DEF Notify, Drop
    <2>2. \A u \in Threads : handler'[u].req = handler[u].req
                             /\ (u # t => handler'[u].pc = handler[u].pc)
                             /\ handler'[t].pc = "idle"
        BY <2>1, <1>d
    <2> QED
        BY <1>d, <1>s, <2>1, <2>2
  <1>5. ASSUME NEW t \in Threads, DriverStep(t) PROVE MuteInv'
    <2>1. /\ UNCHANGED <<currentSerialId, resultSerial, notified, told>>
          /\ \A u \in Threads : handler'[u] = handler[u] \/ handler'[u].pc = "named"
      <3>1. ASSUME NEW r \in unanswered, Receive(t, r) PROVE <2>1!2
          BY <3>1, <1>d DEF Receive
      <3>2. ASSUME NEW r \in unanswered, Receive(t, r) PROVE <2>1!1
          BY <3>2 DEF Receive
      <3>3. ASSUME NEW r \in unanswered, CommonErrorResponse(t, r)
            PROVE  <2>1!1 /\ handler' = handler
          BY <3>3 DEF CommonErrorResponse
      <3>4. ASSUME NEW s \in Draws, SimStateUpdated(t, s)
            PROVE  <2>1!1 /\ handler' = handler
          BY <3>4 DEF SimStateUpdated
      <3> QED
          BY <1>5, <3>1, <3>2, <3>3, <3>4 DEF DriverStep
    <2> QED
        BY <1>d, <1>s, <2>1
  <1> QED
      BY <1>1, <1>2, <1>3, <1>4, <1>5 DEF Next, HandlerStep

\* In the v1.1 suites only an answer to a request sent under the serial 0 ever
\* wakes a test: as long as none has been stored NotifyAll drops every answer, and
\* each test sleeps its timeout out, whatever the driver does and however many
\* threads serve it.
THEOREM UnstoredSerialsWakeOnlyZero ==
    ASSUME ~RecordsSerial
    PROVE  Spec => [](notified \/ (\E t \in Threads : handler[t].pc = "notify") =>
                        \E r \in told : Serial(r) = 0)
  <1> DEFINE Zero == notified \/ (\E t \in Threads : handler[t].pc = "notify") =>
                        \E r \in told : Serial(r) = 0
  <1>1. Init => MuteInv
      BY DEF Init, MuteInv, StoredInv
  <1>2. IndInv /\ MuteInv /\ [Next]_vars => MuteInv'
      BY StepMute
  <1>3. MuteInv => Zero
      BY DEF MuteInv
  <1> QED
      BY <1>1, <1>2, <1>3, Inductive, PTL DEF Spec

LEMMA StepZero ==
    ASSUME ~RecordsSerial, OneThread, IndInv, MuteInv, ZeroInv, [Next]_vars
    PROVE  ZeroInv'
  <1> USE DEF HandlerInv, ZeroInv, Serial, OneThread, callback, driver, history
  <1>d. /\ handler \in [Threads -> [pc : {"idle", "named", "stored", "notify", "drop"},
                                    req : Requests \cup {0}]]
        /\ HandlerInv /\ currentSerialId = 0
      BY DEF IndInv, TypeOK, MuteInv
  <1>s. \A r \in DOMAIN log : log'[r].serial = log[r].serial
      BY SerialsStay DEF Serial
  <1>1. CASE \/ UNCHANGED vars \/ SuiteOver \/ TestStep
             \/ \E k \in Kinds, s \in Draws : DrawSerial(k, s)
    <2>1. UNCHANGED <<resultSerial, handler>>
        BY <1>1
           DEF vars, SuiteOver, TestStep, Send, SendRefused, CleanBeforeWait, Sleep, Wake,
               LookForNone, CompareId, DrawSerial
    <2> QED
        BY <1>d, <1>s, <2>1
  <1>2. ASSUME NEW t \in Threads, StoreInfo(t) PROVE ZeroInv'
    <2>1. /\ resultSerial' = log[handler[t].req].serial /\ handler[t].pc = "named"
          /\ handler'[t].pc = "stored" /\ handler'[t].req = handler[t].req
        BY <1>2, <1>d DEF StoreInfo
    <2> QED
        BY <1>d, <1>s, <2>1
  <1>3. ASSUME NEW t \in Threads, CheckSerial(t) PROVE ZeroInv'
    <2>1. /\ resultSerial' = resultSerial /\ handler[t].pc = "stored"
          /\ handler'[t].pc = IF resultSerial = 0 THEN "notify" ELSE "drop"
          /\ handler'[t].req = handler[t].req
        BY <1>3, <1>d DEF CheckSerial
    <2> QED
        BY <1>d, <1>s, <2>1
  <1>4. ASSUME NEW t \in Threads, Notify(t) \/ Drop(t) PROVE ZeroInv'
    <2>1. handler'[t].pc = "idle"
        BY <1>4, <1>d DEF Notify, Drop
    <2> QED
        BY <2>1
  <1>5. ASSUME NEW t \in Threads, DriverStep(t) PROVE ZeroInv'
    <2>1. ASSUME NEW r \in unanswered, Receive(t, r) PROVE ZeroInv'
      <3>1. handler'[t].pc = "named"
          BY <2>1, <1>d DEF Receive
      <3> QED
          BY <3>1
    <2>2. ASSUME \/ \E r \in unanswered : CommonErrorResponse(t, r)
                 \/ \E s \in Draws : SimStateUpdated(t, s)
          PROVE  ZeroInv'
      <3>1. UNCHANGED <<resultSerial, handler>>
          BY <2>2 DEF CommonErrorResponse, SimStateUpdated
      <3> QED
          BY <1>d, <1>s, <3>1
    <2> QED
        BY <1>5, <2>1, <2>2 DEF DriverStep
  <1> QED
      BY <1>1, <1>2, <1>3, <1>4, <1>5 DEF Next, HandlerStep

\* With one IPC thread NotifyAll of the v1.1 suites drops every answer to a request
\* that was sent under another serial than 0, the current request's among them, and
\* signals for every answer to a request under the serial 0, an old one's among them.
THEOREM UnstoredSerialsDropTheRest ==
    ASSUME ~RecordsSerial, OneThread
    PROVE  Spec => [](\A t \in Threads : handler[t].pc \in {"notify", "drop"} =>
                        (handler[t].pc = "notify" <=> Serial(handler[t].req) = 0))
  <1> DEFINE Exact == \A t \in Threads : handler[t].pc \in {"notify", "drop"} =>
                        (handler[t].pc = "notify" <=> Serial(handler[t].req) = 0)
  <1>1. Init => MuteInv /\ ZeroInv
      BY DEF Init, MuteInv, StoredInv, ZeroInv
  <1>2. IndInv /\ MuteInv /\ ZeroInv /\ [Next]_vars => (MuteInv /\ ZeroInv)'
      BY StepMute, StepZero
  <1>3. ZeroInv => Exact
      BY DEF ZeroInv
  <1> QED
      BY <1>1, <1>2, <1>3, Inductive, PTL DEF Spec
==============================================================================
