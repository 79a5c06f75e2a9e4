-------------------------------- MODULE Fifo --------------------------------
(***************************************************************************)
(* What a queue between two threads promises: what was put comes out in    *)
(* the order in which it was put, once, unchanged, and eventually.         *)
(***************************************************************************)
EXTENDS Naturals, Sequences

VARIABLE pending

Init == pending = <<>>

Put == Len(pending') = Len(pending) + 1 /\ SubSeq(pending', 1, Len(pending)) = pending

Take == pending # <<>> /\ pending' = Tail(pending)

Spec == Init /\ [][Put \/ Take]_pending /\ WF_pending(Take)
=============================================================================
