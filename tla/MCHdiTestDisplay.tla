-------------------------- MODULE MCHdiTestDisplay --------------------------
EXTENDS HdiTestDisplay, TLC

\* The device gives ids out in no particular order.
LayerSymmetry == Permutations(LayerIds)

AllOf(b) == [fences |-> b, resets |-> b, destroys |-> b, clears |-> b]

\* Tests that keep to the display's own calls, and tests that do it all.
BothEnds == {AllOf(FALSE), AllOf(TRUE)}

\* The module tests.
ModuleTests == {[AllOf(FALSE) EXCEPT !.resets = TRUE]}
=============================================================================
