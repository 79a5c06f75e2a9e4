---------------------------- MODULE MCFrameSend ----------------------------
(* Four frames of one to three bytes; a garbage length may be any other. *)
EXTENDS FrameSend

FourLens == <<2, 1, 3, 2>>
=============================================================================
