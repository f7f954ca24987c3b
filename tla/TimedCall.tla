----------------------------- MODULE TimedCall -----------------------------
(***************************************************************************)
(* What TimeOutExecutor promises its caller, and nothing of how it does    *)
(* it.  A caller makes the calls of Calls one after the other and lends    *)
(* each of them the variable that receives the result.  A call may write   *)
(* it while the call is running, at most once; it then returns SUCCESS,    *)
(* which means that the caller's variable holds this call's value, or      *)
(* TIMEOUT, which promises nothing about the variable.  Once a call has    *)
(* returned it never touches the caller's variable again: the variable     *)
(* may be gone.                                                            *)
(***************************************************************************)
CONSTANT Calls

VARIABLES running,   \* the call being executed, as a set of at most one call
          status,    \* what each call returned, "none" until it returns
          result     \* the calls that have written their caller's variable

tcVars == <<running, status, result>>

Init == /\ running = {}
        /\ status = [c \in Calls |-> "none"]
        /\ result = {}

Begin(c) == /\ running = {}
            /\ status[c] = "none"
            /\ running' = {c}
            /\ UNCHANGED <<status, result>>

Deliver(c) == /\ c \in running
              /\ c \notin result
              /\ result' = result \cup {c}
              /\ UNCHANGED <<running, status>>

Succeed(c) == /\ c \in running
              /\ c \in result
              /\ running' = {}
              /\ status' = [status EXCEPT ![c] = "SUCCESS"]
              /\ UNCHANGED result

Expire(c) == /\ c \in running
             /\ running' = {}
             /\ status' = [status EXCEPT ![c] = "TIMEOUT"]
             /\ UNCHANGED result

Next == \E c \in Calls : Begin(c) \/ Deliver(c) \/ Succeed(c) \/ Expire(c)

Spec == Init /\ [][Next]_tcVars
=============================================================================
