----------------------------- MODULE MCBacklog -----------------------------
(* A small instance of Backlog for TLC: the constants are in the cfg. *)
EXTENDS Backlog
=============================================================================
