---------------------------- MODULE MCMqttQueue ----------------------------
(* Small instances of MqttQueue for TLC. *)
EXTENDS MqttQueue

\* The pool is one smaller than the queue.
Sizes == [queue |-> PoolSize + 1, free |-> PoolSize]

BothThreads == {"loop", "task"}

BothQueues == {"queue", "free"}

Pool == 1 .. PoolSize
=============================================================================
