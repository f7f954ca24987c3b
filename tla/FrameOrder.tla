----------------------------- MODULE FrameOrder -----------------------------
(***************************************************************************)
(* What the pipeline of BufferLoop promises and nothing of its threads,    *)
(* lists and cache: buffers come out one at a time, in the order in which  *)
(* they were taken in, and none is in it twice.                            *)
(***************************************************************************)
EXTENDS SequencesExt

CONSTANT Buffers

VARIABLE line     \* the buffers in the pipeline, the oldest first

Init == line = <<>>

Enter(b) == /\ b \notin ToSet(line)
            /\ line' = Append(line, b)

Leave == /\ line # <<>>
         /\ line' = Tail(line)

Next == Leave \/ \E b \in Buffers : Enter(b)

Spec == Init /\ [][Next]_line
=============================================================================
