---------------------------- MODULE MCScheduler ----------------------------
(* Small instances of Scheduler for TLC. *)
EXTENDS Scheduler

TwoKeys == {<<"a", 1>>, <<"b", 1>>}

\* Deferred, later and repeated calls of one component, and a parallel delay.
FourTimers ==
    {<<<<"a", 1>>, "timeout", 0>>, <<<<"a", 1>>, "timeout", 1>>, <<<<"a", 1>>, "interval", 0>>,
     <<<<"b", 1>>, "timeout", 1>>}

OneParallel == {<<"b", 1>>}
=============================================================================
