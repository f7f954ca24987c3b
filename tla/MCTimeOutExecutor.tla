------------------------- MODULE MCTimeOutExecutor -------------------------
(* A few calls, one after the other, with model values for Calls.          *)
EXTENDS TimeOutExecutor
CONSTANTS c1, c2, c3
ThreeCalls == {c1, c2, c3}
=============================================================================
