--------------------------- MODULE LockFreeQueue ---------------------------
(***************************************************************************)
(* core/lock_free_queue.h: a ring buffer for one producer and one          *)
(* consumer.  push and pop are not atomic: every load and store of an      *)
(* atomic index, and every access to the buffer, is a step of the thread   *)
(* that calls them.  The release and acquire orders of the code make the   *)
(* interleavings of these steps all its behaviours.                        *)
(***************************************************************************)
EXTENDS Naturals, Sequences

CONSTANTS
    Threads,    \* threads that may call push and pop
    Queues,     \* names of the queues
    SIZE,       \* SIZE[q] is the template parameter SIZE of queue q
    Elements,   \* what the pointers point to
    nullptr     \* not an element

ASSUME SizeAssumption == SIZE \in [Queues -> Nat \ {0}]
ASSUME NullAssumption == nullptr \notin Elements

VARIABLES
    ring,   \* ring[q] is the state of queue q
    call    \* call[t] is the state of thread t's last call

ringVars == <<ring, call>>

Returned == [at |-> "returned", queue |-> CHOOSE q \in Queues : TRUE, element |-> nullptr,
             index |-> 0, was_empty |-> FALSE, result |-> FALSE]

RingInit ==
    /\ ring = [q \in Queues |->
                 [buffer |-> [i \in 0 .. SIZE[q] - 1 |-> nullptr], head |-> 0, tail |-> 0]]
    /\ call = [t \in Threads |-> Returned]

\* Mutant of next_index: one slot too many.
NextIndexOff(q, i) == IF i + 1 > SIZE[q] THEN 0 ELSE i + 1

next_index(q, i) == IF i + 1 >= SIZE[q] THEN 0 ELSE i + 1

\* Thread t is in a call, at the point p; Its queue.
At(t, p) == call[t].at = p

On(t) == call[t].queue

-----------------------------------------------------------------------------
(* push_internal_ *)

BeginPush(t, q, e) ==
    call' = [call EXCEPT ![t] = [Returned EXCEPT !.at = "load tail", !.queue = q, !.element = e]]

PushLoadTail(t) ==
    /\ At(t, "load tail")
    /\ call' = [call EXCEPT ![t].at = "load head", ![t].index = ring[On(t)].tail]
    /\ UNCHANGED ring

\* Mutant of PushFull: two slots are kept free.
PushFullEarly(t) ==
    LET next == next_index(On(t), call[t].index)
    IN  /\ At(t, "load head")
        /\ ring[On(t)].head \in {next, next_index(On(t), next)}
        /\ call' = [call EXCEPT ![t].at = "returned"]
        /\ UNCHANGED ring

PushFull(t) ==
    /\ At(t, "load head")
    /\ next_index(On(t), call[t].index) = ring[On(t)].head
    /\ call' = [call EXCEPT ![t].at = "returned"]
    /\ UNCHANGED ring

PushLoadHead(t) ==
    /\ At(t, "load head")
    /\ next_index(On(t), call[t].index) # ring[On(t)].head
    /\ call' = [call EXCEPT ![t].at = "write",
                            ![t].was_empty = (call[t].index = ring[On(t)].head)]
    /\ UNCHANGED ring

PushWrite(t) ==
    /\ At(t, "write")
    /\ ring' = [ring EXCEPT ![On(t)].buffer[call[t].index] = call[t].element]
    /\ call' = [call EXCEPT ![t].at = "store tail"]

PushStoreTail(t) ==
    /\ At(t, "store tail")
    /\ ring' = [ring EXCEPT ![On(t)].tail = next_index(On(t), call[t].index)]
    /\ call' = [call EXCEPT ![t].at = "returned", ![t].result = TRUE]

-----------------------------------------------------------------------------
(* pop.  Only the thread that pops writes head, so its load is no step of    *)
(* its own.                                                                  *)

BeginPop(t, q) ==
    call' = [call EXCEPT ![t] = [Returned EXCEPT !.at = "compare", !.queue = q,
                                                 !.index = ring[q].head]]

PopEmpty(t) ==
    /\ At(t, "compare")
    /\ call[t].index = ring[On(t)].tail
    /\ call' = [call EXCEPT ![t].at = "returned"]
    /\ UNCHANGED ring

\* Mutant of PopCompare: the indices are not compared.
PopUnchecked(t) ==
    /\ At(t, "compare")
    /\ call' = [call EXCEPT ![t].at = "read"]
    /\ UNCHANGED ring

PopCompare(t) ==
    /\ At(t, "compare")
    /\ call[t].index # ring[On(t)].tail
    /\ call' = [call EXCEPT ![t].at = "read"]
    /\ UNCHANGED ring

PopRead(t) ==
    /\ At(t, "read")
    /\ call' = [call EXCEPT ![t].at = "store head",
                            ![t].element = ring[On(t)].buffer[call[t].index]]
    /\ UNCHANGED ring

PopStoreHead(t) ==
    /\ At(t, "store head")
    /\ ring' = [ring EXCEPT ![On(t)].head = next_index(On(t), call[t].index)]
    /\ call' = [call EXCEPT ![t].at = "returned", ![t].result = TRUE]

\* One step of the call that thread t is in.
QueueStep(t) ==
    \/ PushLoadTail(t) \/ PushFull(t) \/ PushLoadHead(t) \/ PushWrite(t) \/ PushStoreTail(t)
    \/ PopEmpty(t) \/ PopCompare(t) \/ PopRead(t) \/ PopStoreHead(t)

-----------------------------------------------------------------------------

size(q) == (ring[q].tail + SIZE[q] - ring[q].head) % SIZE[q]

\* The elements between head and tail, oldest first.
Contents(q) ==
    [k \in 1 .. size(q) |-> ring[q].buffer[(ring[q].head + k - 1) % SIZE[q]]]

RingTypeOK ==
    /\ \A q \in Queues :
         /\ ring[q].buffer \in [0 .. SIZE[q] - 1 -> Elements \cup {nullptr}]
         /\ ring[q].head \in 0 .. SIZE[q] - 1
         /\ ring[q].tail \in 0 .. SIZE[q] - 1
    /\ \A t \in Threads :
         /\ call[t].queue \in Queues
         /\ call[t].element \in Elements \cup {nullptr}
         /\ call[t].index \in 0 .. SIZE[call[t].queue] - 1
         /\ call[t].was_empty \in BOOLEAN /\ call[t].result \in BOOLEAN
=============================================================================
