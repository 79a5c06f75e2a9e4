---------------------------- MODULE MCFrameRecv ----------------------------
(* Four frames of one to three bytes; a garbage length may be any other. *)
EXTENDS FrameRecv

FourLens == <<2, 1, 3, 2>>

FourStarts == <<0, 5, 9, 15, 20>>
=============================================================================
