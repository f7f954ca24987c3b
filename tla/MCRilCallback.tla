----------------------------- MODULE MCRilCallback -----------------------------
(* Small sets for RilCallback: two kinds of request, one or two IPC        *)
(* threads, and serials enough for every request (or three that repeat),   *)
(* the 0 that currentSerialId starts with among them.                      *)
EXTENDS RilCallback
CONSTANTS imsi, t1, t2, two
MCKinds == {SimStatus, imsi}
MCThreads == IF two THEN {t1, t2} ELSE {t1}
MCSerials == IF Repeats THEN 0 .. 2 ELSE 0 .. MaxRequests
=============================================================================
