----------------------------- MODULE MqttQueue -----------------------------
(***************************************************************************)
(* Messages on their way from the main loop to the MQTT task               *)
(* (components/mqtt/mqtt_backend_esp32.cpp): enqueue_ takes an element     *)
(* from an EventPool (core/event_pool.h), fills it, and pushes it to a     *)
(* NotifyingLockFreeQueue; the task sleeps until it is notified, pops      *)
(* until the queue is empty, and releases the elements to the pool.  The   *)
(* free list of the pool is a LockFreeQueue too, in the other direction.   *)
(***************************************************************************)
EXTENDS LockFreeQueue, FiniteSets

CONSTANTS
    PoolSize,       \* SIZE of the EventPool, one below that of the queue
    Messages        \* message numbers 0 .. Messages - 1, reused in turn

ASSUME PoolAssumption ==
    /\ Threads = {"loop", "task"} /\ Queues = {"queue", "free"}
    /\ Elements = 1 .. PoolSize
    /\ SIZE["free"] = PoolSize /\ SIZE["queue"] = PoolSize + 1
    /\ Messages \in Nat \ {0}

VARIABLES
    pc,             \* where each thread is in its own code
    total_created,  \* elements created so far; element e is the e-th
    message,        \* what each element holds
    last,           \* number of the last message
    notified        \* a notification is pending for the task

vars == <<ring, call, pc, total_created, message, last, notified>>

Init ==
    /\ RingInit
    /\ pc = [t \in Threads |-> IF t = "loop" THEN "idle" ELSE "wait"]
    /\ total_created = 0
    /\ message = [e \in Elements |-> 0]
    /\ last = 0
    /\ notified = FALSE

Goto(t, p) == pc' = [pc EXCEPT ![t] = p]

\* The thread's function returns, and its local variables are gone.
Return(t, p) ==
    /\ Goto(t, p)
    /\ call' = [call EXCEPT ![t] = Returned]

\* The thread's call of push or pop has returned.
Done(t) == At(t, "returned")

Element(t) == call[t].element

-----------------------------------------------------------------------------
(* enqueue_, on the main loop. *)

Enqueue ==
    /\ pc["loop"] = "idle"
    /\ BeginPop("loop", "free")
    /\ Goto("loop", "allocate")
    /\ UNCHANGED <<ring, total_created, message, last, notified>>

\* allocate: the free list had an element,
Reuse ==
    /\ pc["loop"] = "allocate" /\ Done("loop") /\ call["loop"].result
    /\ Goto("loop", "fill")
    /\ UNCHANGED <<ring, call, total_created, message, last, notified>>

\* or there is room for a new one,
Create ==
    /\ pc["loop"] = "allocate" /\ Done("loop") /\ ~ call["loop"].result
    /\ total_created < PoolSize
    /\ total_created' = total_created + 1
    /\ call' = [call EXCEPT !["loop"].element = total_created']
    /\ Goto("loop", "fill")
    /\ UNCHANGED <<ring, message, last, notified>>

\* or there is not, or no memory for it, and the message is dropped.
AllocateFails ==
    /\ pc["loop"] = "allocate" /\ Done("loop") /\ ~ call["loop"].result
    /\ Return("loop", "idle")
    /\ UNCHANGED <<ring, total_created, message, last, notified>>

\* set_data copies the message into the element and the element is pushed,
SetData ==
    /\ pc["loop"] = "fill"
    /\ last' = (last + 1) % Messages
    /\ message' = [message EXCEPT ![Element("loop")] = last']
    /\ BeginPush("loop", "queue", Element("loop"))
    /\ Goto("loop", "push")
    /\ UNCHANGED <<ring, total_created, notified>>

\* or finds no memory, or a payload above 64 KiB, and the element goes back to
\* the pool.
SetDataFails ==
    /\ pc["loop"] = "fill"
    /\ BeginPush("loop", "free", Element("loop"))
    /\ Goto("loop", "give back")
    /\ UNCHANGED <<ring, total_created, message, last, notified>>

GivenBack ==
    /\ pc["loop"] = "give back" /\ Done("loop")
    /\ Return("loop", "idle")
    /\ UNCHANGED <<ring, total_created, message, last, notified>>

\* Mutant of NeedsNotification: only what push saw counts.
NotifiesIfWasEmpty == call["loop"].result /\ call["loop"].was_empty

\* NotifyingLockFreeQueue::push: the task is notified if it may have seen the
\* queue empty, before this element or just before it was pushed.
NeedsNotification ==
    /\ call["loop"].result
    /\ call["loop"].was_empty \/ ring["queue"].head = call["loop"].index

Pushed ==
    /\ pc["loop"] = "push" /\ Done("loop")
    /\ Return("loop", IF NeedsNotification THEN "notify" ELSE "idle")
    /\ UNCHANGED <<ring, total_created, message, last, notified>>

Notify ==
    /\ pc["loop"] = "notify"
    /\ notified' = TRUE
    /\ Goto("loop", "idle")
    /\ UNCHANGED <<ring, call, total_created, message, last>>

\* The connection was opened or lost: the task is notified whatever it has to do.
ConnectionChanges ==
    /\ pc["loop"] = "idle"
    /\ notified' = TRUE
    /\ UNCHANGED <<ring, call, pc, total_created, message, last>>

-----------------------------------------------------------------------------
(* esphome_mqtt_task *)

\* ulTaskNotifyTake
Wake ==
    /\ pc["task"] = "wait" /\ notified
    /\ notified' = FALSE
    /\ BeginPop("task", "queue")
    /\ Goto("task", "pop")
    /\ UNCHANGED <<ring, total_created, message, last>>

QueueEmpty ==
    /\ pc["task"] = "pop" /\ Done("task") /\ ~ call["task"].result
    /\ Return("task", "wait")
    /\ UNCHANGED <<ring, total_created, message, last, notified>>

\* The message is published, if there is a connection, and the element released.
Publish ==
    /\ pc["task"] = "pop" /\ Done("task") /\ call["task"].result
    /\ BeginPush("task", "free", Element("task"))
    /\ Goto("task", "release")
    /\ UNCHANGED <<ring, total_created, message, last, notified>>

Released ==
    /\ pc["task"] = "release" /\ Done("task")
    /\ BeginPop("task", "queue")
    /\ Goto("task", "pop")
    /\ UNCHANGED <<ring, total_created, message, last, notified>>

-----------------------------------------------------------------------------

Step(t) ==
    QueueStep(t) /\ UNCHANGED <<pc, total_created, message, last, notified>>

Loop ==
    \/ Step("loop")
    \/ Reuse \/ Create \/ AllocateFails \/ SetData \/ Pushed \/ Notify

Task == Step("task") \/ Wake \/ QueueEmpty \/ Publish \/ Released

Next == Enqueue \/ ConnectionChanges \/ Loop \/ Task

Spec == Init /\ [][Next]_vars

\* Both threads are scheduled; the main loop finishes a call it has begun.
FairSpec == Spec /\ WF_vars(Loop) /\ WF_vars(Task)

\* The same when set_data may fail too.
LowMemoryNext == Next \/ SetDataFails \/ GivenBack

LowMemorySpec == Init /\ [][LowMemoryNext]_vars

-----------------------------------------------------------------------------
(* Properties. *)

\* Every variable has its type.
TypeOK ==
    /\ RingTypeOK
    /\ total_created \in 0 .. PoolSize
    /\ message \in [Elements -> 0 .. Messages - 1]
    /\ last \in 0 .. Messages - 1
    /\ notified \in BOOLEAN

\* The messages on their way, oldest first.
Pending == [k \in 1 .. size("queue") |-> message[Contents("queue")[k]]]

F == INSTANCE Fifo WITH pending <- Pending

\* What enqueue_ accepts is published in its order, once, unchanged, and
\* eventually: elements and indices are reused while the other thread looks at
\* them, and a task that falls asleep has been or will be notified.
ImplementsFifo == F!Spec

\* Who has element e: a thread, from the end of its pop to the end of its push,
\* or a queue.
Holders(e) ==
    {t \in Threads :
       /\ Element(t) = e
       /\ \/ pc[t] = "fill"
          \/ pc[t] \in {"allocate", "pop"} /\ Done(t)
          \/ pc[t] \in {"push", "give back", "release"} /\ ~ Done(t)}
    \cup {q \in Queues : \E k \in 1 .. size(q) : Contents(q)[k] = e}

Lost == {e \in 1 .. total_created : Holders(e) = {}}

\* No element is in two hands: what the main loop fills is neither waiting in the
\* queue nor being read or released by the task, and no element is twice in a
\* queue.  And none is in no hand, except one: the free list of a pool of n
\* elements is a ring of n slots, of which one stays free, so the element released
\* last when all others are free is lost.
OneHolder ==
    /\ \A e \in Elements : Cardinality(Holders(e)) <= 1
    /\ \A q \in Queues : \A j, k \in 1 .. size(q) : Contents(q)[j] = Contents(q)[k] => j = k
    /\ Cardinality(Lost) <= 1

\* "Push to queue - always succeeds since we allocated from the pool"
\* (mqtt_backend_esp32.cpp): the pool runs out before the queue is full.
PushSucceeds == pc["loop"] = "push" /\ Done("loop") => call["loop"].result

\* What the main loop fills is free: no message is overwritten that waits to be
\* published or is being published.
FillsOnlyFree == pc["loop"] = "fill" => "queue" \notin Holders(Element("loop"))

=============================================================================
