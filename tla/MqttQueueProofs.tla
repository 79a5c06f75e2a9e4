-------------------------- MODULE MqttQueueProofs --------------------------
(***************************************************************************)
(* The safety properties of MqttQueue for pools of any size and every      *)
(* interleaving of the steps of push and pop.  The argument is about the   *)
(* slots of a ring that are occupied, from head to tail around its end,    *)
(* and about four sets of elements: what waits in each ring and what is in *)
(* each thread's hands.  These are disjoint.  That push finds room on the  *)
(* queue, and that the pool loses no more than one element, is then a      *)
(* matter of counting.                                                     *)
(***************************************************************************)
EXTENDS MqttQueue, FiniteSetTheorems, TLAPS

-----------------------------------------------------------------------------
(* A ring of n slots with the buffer b, the head h and the tail t. *)

After(n, i) == IF i + 1 >= n THEN 0 ELSE i + 1

Slots(n, h, t) ==
    {i \in 0 .. n - 1 : IF h <= t THEN h <= i /\ i < t ELSE h <= i \/ i < t}

Waiting(n, b, h, t) == {b[i] : i \in Slots(n, h, t)}

Single(n, b, h, t) == \A i, j \in Slots(n, h, t) : b[i] = b[j] => i = j

\* The slots after an element is added at the tail or taken at the head.
LEMMA SlotFacts ==
    ASSUME NEW n \in Nat \ {0}, NEW h \in 0 .. n - 1, NEW t \in 0 .. n - 1
    PROVE  /\ t \notin Slots(n, h, t) /\ Slots(n, h, h) = {}
           /\ Slots(n, h, t) \subseteq 0 .. n - 1
           /\ After(n, t) \in 0 .. n - 1
           /\ After(n, t) # h => Slots(n, h, After(n, t)) = Slots(n, h, t) \cup {t}
           /\ After(n, t) = h => Slots(n, h, t) = (0 .. n - 1) \ {t}
           /\ h # t => /\ h \in Slots(n, h, t)
                       /\ Slots(n, After(n, h), t) = Slots(n, h, t) \ {h}
<1>1. /\ t \notin Slots(n, h, t) /\ Slots(n, h, h) = {}
      /\ Slots(n, h, t) \subseteq 0 .. n - 1
      /\ After(n, t) \in 0 .. n - 1
  BY DEF Slots, After
<1>2. ASSUME After(n, t) # h PROVE Slots(n, h, After(n, t)) = Slots(n, h, t) \cup {t}
  BY <1>2 DEF Slots, After
<1>3. ASSUME After(n, t) = h PROVE Slots(n, h, t) = (0 .. n - 1) \ {t}
  BY <1>3 DEF Slots, After
<1>4. ASSUME h # t
      PROVE  h \in Slots(n, h, t) /\ Slots(n, After(n, h), t) = Slots(n, h, t) \ {h}
  BY <1>4 DEF Slots, After
<1>5. QED
  BY <1>1, <1>2, <1>3, <1>4

\* What the thread that pushes writes at the tail is not seen yet.
LEMMA WriteFacts ==
    ASSUME NEW n \in Nat \ {0}, NEW h \in 0 .. n - 1, NEW t \in 0 .. n - 1,
           NEW b, NEW w, \A i \in (0 .. n - 1) \ {t} : w[i] = b[i]
    PROVE  /\ Waiting(n, w, h, t) = Waiting(n, b, h, t)
           /\ Single(n, b, h, t) => Single(n, w, h, t)
<1>1. \A i \in Slots(n, h, t) : w[i] = b[i]
  BY SlotFacts
<1>2. QED
  BY <1>1 DEF Waiting, Single

LEMMA PushFacts ==
    ASSUME NEW n \in Nat \ {0}, NEW h \in 0 .. n - 1, NEW t \in 0 .. n - 1, NEW b,
           After(n, t) # h
    PROVE  /\ Waiting(n, b, h, After(n, t)) = Waiting(n, b, h, t) \cup {b[t]}
           /\ Single(n, b, h, t) /\ b[t] \notin Waiting(n, b, h, t)
                => Single(n, b, h, After(n, t))
<1>1. Slots(n, h, After(n, t)) = Slots(n, h, t) \cup {t}
  BY SlotFacts
<1>2. QED
  BY <1>1 DEF Waiting, Single

LEMMA PopFacts ==
    ASSUME NEW n \in Nat \ {0}, NEW h \in 0 .. n - 1, NEW t \in 0 .. n - 1, NEW b,
           h # t, Single(n, b, h, t)
    PROVE  /\ Waiting(n, b, After(n, h), t) = Waiting(n, b, h, t) \ {b[h]}
           /\ Single(n, b, After(n, h), t)
           /\ b[h] \in Waiting(n, b, h, t)
<1>1. h \in Slots(n, h, t) /\ Slots(n, After(n, h), t) = Slots(n, h, t) \ {h}
  BY SlotFacts
<1>2. QED
  BY <1>1 DEF Waiting, Single

\* A full ring holds one element less than it has slots.
LEMMA FullFacts ==
    ASSUME NEW n \in Nat \ {0}, NEW h \in 0 .. n - 1, NEW t \in 0 .. n - 1, NEW b,
           After(n, t) = h, Single(n, b, h, t),
           NEW T, IsFiniteSet(T), Cardinality(T) = n - 1, Waiting(n, b, h, t) \subseteq T
    PROVE  Waiting(n, b, h, t) = T
<1> DEFINE S == Slots(n, h, t)
           f == [i \in S |-> b[i]]
<1>1. IsFiniteSet(0 .. n - 1) /\ Cardinality(0 .. n - 1) = n
  BY FS_Interval
<1>2. S = (0 .. n - 1) \ {t}
  BY SlotFacts
<1>3. Cardinality(S) = n - 1
  <2>1. Cardinality((0 .. n - 1) \ {t}) = n - 1
    <3>1. Cardinality((0 .. n - 1) \ {t})
            = IF t \in 0 .. n - 1 THEN Cardinality(0 .. n - 1) - 1 ELSE Cardinality(0 .. n - 1)
      BY <1>1, FS_RemoveElement, Zenon
    <3>2. QED
      BY <1>1, <3>1
  <2>2. QED
    BY <1>2, <2>1
<1>4. f \in Injection(S, T)
  BY DEF Injection, IsInjective, Single, Waiting
<1>5. f \in Surjection(S, T)
  <2>1. Cardinality(S) = Cardinality(T) <=> f \in Surjection(S, T)
    BY <1>4, FS_Injection
  <2>2. QED
    BY <1>3, <2>1
<1>6. \A x \in T : \E i \in S : b[i] = x
  BY <1>5 DEF Surjection
<1>7. QED
  BY <1>6 DEF Waiting

-----------------------------------------------------------------------------
(* The inductive invariant. *)

Index(q) == 0 .. SIZE[q] - 1

Pointers == Elements \cup {nullptr}

Points ==
    {"returned", "load tail", "load head", "write", "store tail", "compare", "read", "store head"}

Calls ==
    [at : Points, queue : Queues, element : Pointers, index : Nat,
     was_empty : BOOLEAN, result : BOOLEAN]

RingsTyped ==
    /\ ring = [q \in Queues |-> ring[q]]
    /\ \A q \in Queues :
         ring[q] \in [buffer : [Index(q) -> Pointers], head : Index(q), tail : Index(q)]

CallsTyped ==
    /\ call \in [Threads -> Calls]
    /\ \A t \in Threads : call[t].index \in Index(call[t].queue)

Types ==
    /\ RingsTyped /\ CallsTyped
    /\ pc \in [Threads -> {"idle", "allocate", "fill", "push", "notify", "wait", "pop", "release"}]
    /\ total_created \in 0 .. PoolSize
    /\ message \in [Elements -> 0 .. Messages - 1]
    /\ last \in 0 .. Messages - 1
    /\ notified \in BOOLEAN

Made == 1 .. total_created

Queued(q) == Waiting(SIZE[q], ring[q].buffer, ring[q].head, ring[q].tail)

NoneTwice(q) == Single(SIZE[q], ring[q].buffer, ring[q].head, ring[q].tail)

\* Thread t is in a call of pop: nobody else moves the head, and the element
\* there stays there until the head moves.
InPop(t, q) ==
    /\ On(t) = q /\ call[t].index = ring[q].head /\ ~ call[t].result
    /\ \/ At(t, "compare") /\ Element(t) = nullptr
       \/ At(t, "read") /\ ring[q].head # ring[q].tail
       \/ /\ At(t, "store head") /\ ring[q].head # ring[q].tail
          /\ Element(t) = ring[q].buffer[ring[q].head]

\* Thread t is in a call of push: nobody else moves the tail, and a ring that
\* was not full does not become full.
InPush(t, q) ==
    /\ On(t) = q /\ Element(t) \in Made
    /\ \/ At(t, "load tail")
       \/ call[t].index = ring[q].tail /\ At(t, "load head")
       \/ /\ call[t].index = ring[q].tail
          /\ After(SIZE[q], ring[q].tail) # ring[q].head
          /\ \/ At(t, "write")
             \/ At(t, "store tail") /\ ring[q].buffer[ring[q].tail] = Element(t)

Popped(t) ==
    Done(t) /\ IF call[t].result THEN Element(t) \in Made ELSE Element(t) = nullptr

Succeeded == Done("loop") /\ call["loop"].result

LoopIs ==
    \/ pc["loop"] \in {"idle", "notify"} /\ Done("loop")
    \/ pc["loop"] = "allocate" /\ (InPop("loop", "free") \/ Popped("loop"))
    \/ pc["loop"] = "fill" /\ Done("loop") /\ Element("loop") \in Made
    \/ pc["loop"] = "push" /\ (InPush("loop", "queue") \/ Succeeded)

TaskIs ==
    \/ pc["task"] = "wait" /\ Done("task")
    \/ pc["task"] = "pop" /\ (InPop("task", "queue") \/ Popped("task"))
    \/ pc["task"] = "release" /\ (InPush("task", "free") \/ Done("task"))

InHand(t) ==
    \/ pc[t] = "fill"
    \/ pc[t] \in {"allocate", "pop"} /\ Done(t)
    \/ pc[t] \in {"push", "give back", "release"} /\ ~ Done(t)

\* The element in thread t's hands, if there is one.
Hand(t) == {e \in Elements : e = Element(t) /\ InHand(t)}

InRings ==
    \A q \in Queues : Queued(q) \subseteq Made /\ NoneTwice(q)

Apart ==
    /\ Queued("queue") \cap Queued("free") = {}
    /\ Hand("loop") \cap Hand("task") = {}
    /\ \A q \in Queues, t \in Threads : Queued(q) \cap Hand(t) = {}

Missing ==
    Made \ (Queued("queue") \cup Queued("free") \cup Hand("loop") \cup Hand("task"))

FewMissing == \A d, e \in Missing : d = e

IInv == Types /\ LoopIs /\ TaskIs /\ InRings /\ Apart /\ FewMissing

-----------------------------------------------------------------------------
(* Steps of push and pop. *)

LEMMA SizeFacts ==
    /\ Threads = {"loop", "task"} /\ Queues = {"queue", "free"}
    /\ \A q \in Queues : SIZE[q] \in Nat \ {0} /\ 0 \in Index(q) /\ Index(q) \subseteq Nat
    /\ \A q \in Queues : \A i \in Index(q) :
         next_index(q, i) = After(SIZE[q], i) /\ next_index(q, i) \in Index(q)
    /\ nullptr \notin Elements
<1>1. Threads = {"loop", "task"} /\ Queues = {"queue", "free"}
  BY PoolAssumption
<1>2. ASSUME NEW q \in Queues
      PROVE  SIZE[q] \in Nat \ {0} /\ 0 \in Index(q) /\ Index(q) \subseteq Nat
  BY SizeAssumption DEF Index
<1>3. ASSUME NEW q \in Queues, NEW i \in Index(q)
      PROVE  next_index(q, i) = After(SIZE[q], i) /\ next_index(q, i) \in Index(q)
  BY <1>2 DEF Index, next_index, After
<1>4. QED
  BY <1>1, <1>2, <1>3, NullAssumption

\* What changing one field of a ring, or of a call, leaves alone.
LEMMA RingUpdates ==
    ASSUME RingsTyped, NEW q \in Queues, NEW x
    PROVE  /\ ring' = [ring EXCEPT ![q].head = x] =>
                /\ ring'[q] = [ring[q] EXCEPT !.head = x]
                /\ \A p \in Queues \ {q} : ring'[p] = ring[p]
                /\ ring' = [p \in Queues |-> ring'[p]]
           /\ ring' = [ring EXCEPT ![q].tail = x] =>
                /\ ring'[q] = [ring[q] EXCEPT !.tail = x]
                /\ \A p \in Queues \ {q} : ring'[p] = ring[p]
                /\ ring' = [p \in Queues |-> ring'[p]]
           /\ \A i : ring' = [ring EXCEPT ![q].buffer[i] = x] =>
                /\ ring'[q] = [ring[q] EXCEPT !.buffer = [@ EXCEPT ![i] = x]]
                /\ \A p \in Queues \ {q} : ring'[p] = ring[p]
                /\ ring' = [p \in Queues |-> ring'[p]]
  BY DEF RingsTyped

LEMMA StepTypes ==
    ASSUME RingsTyped, CallsTyped, NEW t \in Threads, QueueStep(t)
    PROVE  RingsTyped' /\ CallsTyped'
<1>1. /\ call[t].queue \in Queues /\ call[t].index \in Index(call[t].queue)
      /\ call[t].element \in Pointers
  BY DEF CallsTyped, Calls
<1>2. next_index(call[t].queue, call[t].index) \in Index(call[t].queue)
  BY <1>1, SizeFacts
<1>3. /\ ring[call[t].queue].tail \in Index(call[t].queue) /\ Index(call[t].queue) \subseteq Nat
      /\ ring[call[t].queue].buffer[call[t].index] \in Pointers
  BY <1>1, SizeFacts DEF RingsTyped
<1>4. RingsTyped'
  <2>1. CASE UNCHANGED ring
    BY <2>1 DEF RingsTyped
  <2>2. CASE PushWrite(t)
    <3> DEFINE q == call[t].queue
               b == [ring[q].buffer EXCEPT ![call[t].index] = call[t].element]
    <3>1. /\ ring'[q] = [ring[q] EXCEPT !.buffer = b]
          /\ \A p \in Queues \ {q} : ring'[p] = ring[p]
          /\ ring' = [p \in Queues |-> ring'[p]]
      BY <1>1, <2>2, RingUpdates DEF PushWrite, On
    <3>2. b \in [Index(q) -> Pointers]
      BY <1>1 DEF RingsTyped
    <3>3. QED
      BY <1>1, <3>1, <3>2 DEF RingsTyped
  <2>3. CASE PushStoreTail(t)
    <3> DEFINE q == call[t].queue
               i == next_index(q, call[t].index)
    <3>1. /\ ring'[q] = [ring[q] EXCEPT !.tail = i]
          /\ \A p \in Queues \ {q} : ring'[p] = ring[p]
          /\ ring' = [p \in Queues |-> ring'[p]]
      BY <1>1, <2>3, RingUpdates DEF PushStoreTail, On
    <3>2. QED
      BY <1>1, <1>2, <3>1 DEF RingsTyped
  <2>4. CASE PopStoreHead(t)
    <3> DEFINE q == call[t].queue
               i == next_index(q, call[t].index)
    <3>1. /\ ring'[q] = [ring[q] EXCEPT !.head = i]
          /\ \A p \in Queues \ {q} : ring'[p] = ring[p]
          /\ ring' = [p \in Queues |-> ring'[p]]
      BY <1>1, <2>4, RingUpdates DEF PopStoreHead, On
    <3>2. QED
      BY <1>1, <1>2, <3>1 DEF RingsTyped
  <2>5. QED
    BY <2>1, <2>2, <2>3, <2>4
    DEF QueueStep, PushLoadTail, PushFull, PushLoadHead, PopEmpty, PopCompare, PopRead
<1>5. CallsTyped'
  <2> USE <1>1, <1>3 DEF CallsTyped, Calls, Points, On, At
  <2>1. CASE PushLoadTail(t)
    BY <2>1 DEF PushLoadTail
  <2>2. CASE PushFull(t)
    BY <2>2 DEF PushFull
  <2>3. CASE PushLoadHead(t)
    <3>1. PICK w \in BOOLEAN : call' = [call EXCEPT ![t].at = "write", ![t].was_empty = w]
      BY <2>3 DEF PushLoadHead
    <3>2. QED
      BY <3>1
  <2>4. CASE PushWrite(t)
    BY <2>4 DEF PushWrite
  <2>5. CASE PushStoreTail(t)
    BY <2>5 DEF PushStoreTail
  <2>6. CASE PopEmpty(t)
    BY <2>6 DEF PopEmpty
  <2>7. CASE PopCompare(t)
    BY <2>7 DEF PopCompare
  <2>8. CASE PopRead(t)
    BY <2>8 DEF PopRead
  <2>9. CASE PopStoreHead(t)
    BY <2>9 DEF PopStoreHead
  <2>10. QED
    BY <2>1, <2>2, <2>3, <2>4, <2>5, <2>6, <2>7, <2>8, <2>9 DEF QueueStep
<1>6. QED
  BY <1>4, <1>5

\* Everything about queue q, and about thread t's call on it.
LEMMA Typed ==
    ASSUME RingsTyped, CallsTyped, NEW t \in Threads, NEW q \in Queues
    PROVE  /\ SIZE[q] \in Nat \ {0}
           /\ ring[q].head \in 0 .. SIZE[q] - 1 /\ ring[q].tail \in 0 .. SIZE[q] - 1
           /\ ring[q].buffer \in [0 .. SIZE[q] - 1 -> Pointers]
           /\ call[t].element \in Pointers
           /\ \A i \in 0 .. SIZE[q] - 1 : next_index(q, i) = After(SIZE[q], i)
  BY SizeFacts DEF RingsTyped, CallsTyped, Calls, Index

\* A step of pop changes nothing but the head of its ring and its own call, and
\* takes the element at the head when it moves the head.
LEMMA PopSteps ==
    ASSUME RingsTyped, CallsTyped, NEW t \in Threads, NEW q \in Queues,
           InPop(t, q), NoneTwice(q), QueueStep(t)
    PROVE  /\ \A p \in Queues \ {q} : ring'[p] = ring[p]
           /\ \A s \in Threads \ {t} : call'[s] = call[s]
           /\ ring'[q].tail = ring[q].tail /\ ring'[q].buffer = ring[q].buffer
           /\ \/ ring'[q].head = ring[q].head
              \/ /\ ring[q].head # ring[q].tail
                 /\ ring'[q].head = After(SIZE[q], ring[q].head)
           /\ NoneTwice(q)' /\ ~ Done(t)
           /\ \/ InPop(t, q)' /\ ~ Done(t)' /\ Queued(q)' = Queued(q)
              \/ Done(t)' /\ ~ call'[t].result /\ call'[t].element = nullptr
                 /\ Queued(q)' = Queued(q)
              \/ Done(t)' /\ call'[t].result /\ call'[t].element \in Queued(q)
                 /\ Queued(q)' = Queued(q) \ {call'[t].element}
<1> DEFINE h == ring[q].head
           k == ring[q].tail
           b == ring[q].buffer
<1>1. /\ SIZE[q] \in Nat \ {0} /\ h \in 0 .. SIZE[q] - 1 /\ k \in 0 .. SIZE[q] - 1
      /\ next_index(q, h) = After(SIZE[q], h)
  BY Typed
<1>2. ~ Done(t) /\ (PopEmpty(t) \/ PopCompare(t) \/ PopRead(t) \/ PopStoreHead(t))
  BY DEF InPop, Done, At, QueueStep, PushLoadTail, PushFull, PushLoadHead, PushWrite, PushStoreTail
<1>3. CASE PopEmpty(t)
  BY <1>2, <1>3 DEF PopEmpty, InPop, Done, At, On, Element, CallsTyped, Calls, Queued, NoneTwice
<1>4. CASE PopCompare(t)
  BY <1>2, <1>4 DEF PopCompare, InPop, Done, At, On, Element, CallsTyped, Calls, Queued, NoneTwice
<1>5. CASE PopRead(t)
  <2>1. /\ h # k /\ ring' = ring
        /\ call' = [call EXCEPT ![t].at = "store head", ![t].element = b[h]]
    BY <1>5 DEF PopRead, InPop, At, On
  <2>2. /\ \A s \in Threads \ {t} : call'[s] = call[s]
        /\ call'[t].at = "store head" /\ call'[t].element = b[h]
        /\ call'[t].queue = call[t].queue /\ call'[t].index = call[t].index
        /\ call'[t].result = call[t].result
    BY <2>1 DEF CallsTyped, Calls
  <2>3. InPop(t, q)' /\ ~ Done(t)'
    BY <2>1, <2>2 DEF InPop, At, On, Element, Done
  <2>4. Queued(q)' = Queued(q) /\ NoneTwice(q)'
    BY <2>1 DEF Queued, NoneTwice
  <2>5. QED
    BY <1>2, <2>1, <2>2, <2>3, <2>4
<1>6. CASE PopStoreHead(t)
  <2>1. /\ h # k /\ call[t].element = b[h]
        /\ ring' = [ring EXCEPT ![q].head = After(SIZE[q], h)]
        /\ call' = [call EXCEPT ![t].at = "returned", ![t].result = TRUE]
    BY <1>1, <1>6 DEF PopStoreHead, InPop, At, On, Element
  <2>2. /\ ring'[q] = [ring[q] EXCEPT !.head = After(SIZE[q], h)]
        /\ \A p \in Queues \ {q} : ring'[p] = ring[p]
    BY <2>1, RingUpdates
  <2>3. ring'[q].head = After(SIZE[q], h) /\ ring'[q].tail = k /\ ring'[q].buffer = b
    BY <2>2 DEF RingsTyped
  <2>4. /\ \A s \in Threads \ {t} : call'[s] = call[s]
        /\ Done(t)' /\ call'[t].result /\ call'[t].element = b[h]
    BY <2>1 DEF CallsTyped, Calls, Done, At
  <2>5. /\ Waiting(SIZE[q], b, After(SIZE[q], h), k) = Waiting(SIZE[q], b, h, k) \ {b[h]}
        /\ Single(SIZE[q], b, After(SIZE[q], h), k)
        /\ b[h] \in Waiting(SIZE[q], b, h, k)
    BY <1>1, <2>1, PopFacts DEF NoneTwice
  <2>6. Queued(q)' = Queued(q) \ {b[h]} /\ b[h] \in Queued(q) /\ NoneTwice(q)'
    BY <2>3, <2>5 DEF Queued, NoneTwice
  <2>7. QED
    BY <1>2, <2>1, <2>2, <2>3, <2>4, <2>6
<1>7. QED
  BY <1>2, <1>3, <1>4, <1>5, <1>6

\* A step of push changes nothing but its own call, the slot at the tail of its
\* ring, which is not occupied, and the tail, when that slot holds the element.
LEMMA PushSteps ==
    ASSUME RingsTyped, CallsTyped, NEW t \in Threads, NEW q \in Queues,
           InPush(t, q), NoneTwice(q), Element(t) \notin Queued(q),
           QueueStep(t), UNCHANGED total_created
    PROVE  /\ \A p \in Queues \ {q} : ring'[p] = ring[p]
           /\ \A s \in Threads \ {t} : call'[s] = call[s]
           /\ ring'[q].head = ring[q].head
           /\ \/ ring'[q].tail = ring[q].tail
              \/ /\ ring[q].head # After(SIZE[q], ring[q].tail)
                 /\ ring'[q].tail = After(SIZE[q], ring[q].tail)
           /\ \A i \in Index(q) \ {ring[q].tail} : ring'[q].buffer[i] = ring[q].buffer[i]
           /\ NoneTwice(q)' /\ ~ Done(t) /\ call'[t].element = call[t].element
           /\ \/ InPush(t, q)' /\ ~ Done(t)' /\ Queued(q)' = Queued(q)
              \/ Done(t)' /\ call'[t].result /\ Queued(q)' = Queued(q) \cup {call[t].element}
              \/ Done(t)' /\ ring' = ring /\ After(SIZE[q], ring[q].tail) = ring[q].head
<1> DEFINE h == ring[q].head
           k == ring[q].tail
           b == ring[q].buffer
           e == call[t].element
<1>1. /\ SIZE[q] \in Nat \ {0} /\ h \in 0 .. SIZE[q] - 1 /\ k \in 0 .. SIZE[q] - 1
      /\ b \in [0 .. SIZE[q] - 1 -> Pointers]
      /\ next_index(q, k) = After(SIZE[q], k)
  BY Typed
<1>2. Made' = Made
  BY DEF Made
<1>3. /\ ~ Done(t)
      /\ \/ PushLoadTail(t) \/ PushFull(t) \/ PushLoadHead(t)
         \/ PushWrite(t) \/ PushStoreTail(t)
  BY DEF InPush, Done, At, QueueStep, PopEmpty, PopCompare, PopRead, PopStoreHead
<1>4. CASE PushLoadTail(t)
  BY <1>2, <1>3, <1>4
  DEF PushLoadTail, InPush, Done, At, On, Element, CallsTyped, Calls, Queued, NoneTwice
<1>5. CASE PushFull(t)
  BY <1>1, <1>3, <1>5
  DEF PushFull, InPush, Done, At, On, Element, CallsTyped, Calls, Queued, NoneTwice
<1>6. CASE PushLoadHead(t)
  BY <1>1, <1>2, <1>3, <1>6
  DEF PushLoadHead, InPush, Done, At, On, Element, CallsTyped, Calls, Queued, NoneTwice
<1>7. CASE PushWrite(t)
  <2> DEFINE w == [b EXCEPT ![k] = e]
  <2>1. /\ ring' = [ring EXCEPT ![q].buffer[k] = e]
        /\ call' = [call EXCEPT ![t].at = "store tail"]
        /\ After(SIZE[q], k) # h
    BY <1>7 DEF PushWrite, InPush, At, On, Element
  <2>2. /\ ring'[q] = [ring[q] EXCEPT !.buffer = w]
        /\ \A p \in Queues \ {q} : ring'[p] = ring[p]
    BY <2>1, RingUpdates
  <2>3. ring'[q].head = h /\ ring'[q].tail = k /\ ring'[q].buffer = w
    BY <2>2 DEF RingsTyped
  <2>4. /\ \A s \in Threads \ {t} : call'[s] = call[s]
        /\ call'[t] = [call[t] EXCEPT !.at = "store tail"]
    BY <2>1 DEF CallsTyped
  <2>5. /\ call'[t].at = "store tail" /\ call'[t].element = e
        /\ call'[t].queue = call[t].queue /\ call'[t].index = call[t].index
    BY <2>4 DEF CallsTyped, Calls
  <2>6. w[k] = e /\ \A i \in Index(q) \ {k} : w[i] = b[i]
    BY <1>1 DEF Index
  <2>7. Waiting(SIZE[q], w, h, k) = Waiting(SIZE[q], b, h, k) /\ Single(SIZE[q], w, h, k)
    <3>1. Single(SIZE[q], b, h, k)
      BY DEF NoneTwice
    <3>2. \A i \in (0 .. SIZE[q] - 1) \ {k} : w[i] = b[i]
      BY <2>6 DEF Index
    <3> HIDE DEF w, b, h, k
    <3>3. QED
      BY <1>1, <3>1, <3>2, WriteFacts
  <2>8. Queued(q)' = Queued(q) /\ NoneTwice(q)'
    BY <2>3, <2>7 DEF Queued, NoneTwice
  <2>9. InPush(t, q)' /\ ~ Done(t)'
    BY <1>2, <1>7, <2>1, <2>3, <2>5, <2>6 DEF InPush, PushWrite, At, On, Element, Done
  <2>10. QED
    BY <1>3, <2>2, <2>3, <2>4, <2>5, <2>6, <2>8, <2>9
<1>8. CASE PushStoreTail(t)
  <2>1. /\ After(SIZE[q], k) # h /\ b[k] = e
        /\ ring' = [ring EXCEPT ![q].tail = After(SIZE[q], k)]
        /\ call' = [call EXCEPT ![t].at = "returned", ![t].result = TRUE]
    BY <1>1, <1>8 DEF PushStoreTail, InPush, At, On, Element
  <2>2. /\ ring'[q] = [ring[q] EXCEPT !.tail = After(SIZE[q], k)]
        /\ \A p \in Queues \ {q} : ring'[p] = ring[p]
    BY <2>1, RingUpdates
  <2>3. ring'[q].head = h /\ ring'[q].tail = After(SIZE[q], k) /\ ring'[q].buffer = b
    BY <2>2 DEF RingsTyped
  <2>4. /\ \A s \in Threads \ {t} : call'[s] = call[s]
        /\ Done(t)' /\ call'[t].result /\ call'[t].element = e
    BY <2>1 DEF CallsTyped, Calls, Done, At
  <2>5. /\ Waiting(SIZE[q], b, h, After(SIZE[q], k)) = Waiting(SIZE[q], b, h, k) \cup {e}
        /\ Single(SIZE[q], b, h, After(SIZE[q], k))
    BY <1>1, <2>1, PushFacts DEF NoneTwice, Queued, Element
  <2>6. Queued(q)' = Queued(q) \cup {e} /\ NoneTwice(q)'
    BY <2>3, <2>5 DEF Queued, NoneTwice
  <2>7. QED
    BY <1>3, <2>1, <2>2, <2>3, <2>4, <2>6
<1>9. QED
  BY <1>3, <1>4, <1>5, <1>6, <1>7, <1>8

\* What the thread that pushes does to a ring does not disturb a pop,
LEMMA PopUndisturbed ==
    ASSUME NEW s, NEW q \in Queues, InPop(s, q), RingsTyped,
           call'[s] = call[s], ring'[q].head = ring[q].head,
           \/ ring'[q].tail = ring[q].tail
           \/ /\ ring[q].head # After(SIZE[q], ring[q].tail)
              /\ ring'[q].tail = After(SIZE[q], ring[q].tail),
           \A i \in Index(q) \ {ring[q].tail} : ring'[q].buffer[i] = ring[q].buffer[i]
    PROVE  InPop(s, q)'
<1>1. ring[q].head \in Index(q)
  BY DEF RingsTyped
<1>2. ring[q].head # ring[q].tail =>
        /\ ring'[q].head # ring'[q].tail
        /\ ring'[q].buffer[ring[q].head] = ring[q].buffer[ring[q].head]
  BY <1>1
<1>3. QED
  BY <1>2 DEF InPop, At, On, Element

\* and the other way round.
LEMMA PushUndisturbed ==
    ASSUME NEW s \in Threads, NEW q \in Queues, InPush(s, q), RingsTyped, CallsTyped,
           call'[s] = call[s], Made \subseteq Made',
           ring'[q].tail = ring[q].tail, ring'[q].buffer = ring[q].buffer,
           \/ ring'[q].head = ring[q].head
           \/ /\ ring[q].head # ring[q].tail
              /\ ring'[q].head = After(SIZE[q], ring[q].head)
    PROVE  InPush(s, q)'
<1>1. After(SIZE[q], ring[q].tail) # ring[q].head => After(SIZE[q], ring[q].tail) # ring'[q].head
  <2>1. /\ SIZE[q] \in Nat \ {0}
        /\ ring[q].head \in 0 .. SIZE[q] - 1 /\ ring[q].tail \in 0 .. SIZE[q] - 1
    BY Typed
  <2>2. ring[q].head # ring[q].tail
          => After(SIZE[q], ring[q].head) # After(SIZE[q], ring[q].tail)
    BY <2>1 DEF After
  <2>3. QED
    BY <2>2
<1>2. QED
  BY <1>1 DEF InPush, At, On, Element

LEMMA SameRing ==
    ASSUME NEW q \in Queues, ring'[q] = ring[q]
    PROVE  /\ Queued(q)' = Queued(q) /\ NoneTwice(q)' = NoneTwice(q)
           /\ \A s : call'[s] = call[s] =>
                /\ InPop(s, q) => InPop(s, q)'
                /\ InPush(s, q) /\ Made \subseteq Made' => InPush(s, q)'
  BY DEF Queued, NoneTwice, InPop, InPush, At, On, Element

LEMMA MadeFacts ==
    ASSUME total_created \in 0 .. PoolSize
    PROVE  /\ Made \subseteq Elements /\ nullptr \notin Made
           /\ PoolSize \in Nat \ {0} /\ SIZE["free"] = PoolSize /\ SIZE["queue"] = PoolSize + 1
           /\ IsFiniteSet(Elements) /\ Cardinality(Elements) = PoolSize
<1>1. Elements = 1 .. PoolSize /\ SIZE["free"] = PoolSize /\ SIZE["queue"] = PoolSize + 1
  BY PoolAssumption
<1>2. PoolSize \in Nat \ {0}
  BY <1>1, SizeFacts
<1>3. IsFiniteSet(1 .. PoolSize) /\ Cardinality(1 .. PoolSize) = PoolSize
  BY <1>2, FS_Interval
<1>4. Made \subseteq Elements
  BY <1>1, <1>2 DEF Made
<1>5. QED
  BY <1>1, <1>2, <1>3, <1>4, SizeFacts

LEMMA HandFacts ==
    ASSUME NEW t
    PROVE  /\ ~ InHand(t) => Hand(t) = {}
           /\ Element(t) \notin Elements => Hand(t) = {}
           /\ InHand(t) /\ Element(t) \in Elements => Hand(t) = {Element(t)}
  BY DEF Hand

-----------------------------------------------------------------------------
(* Steps of the threads' own code: the rings stay, and the elements stay in  *)
(* their hands.                                                              *)

LEMMA QuietSteps ==
    ASSUME InRings, Apart, FewMissing, ring' = ring, total_created' = total_created,
           Hand("loop")' = Hand("loop"), Hand("task")' = Hand("task")
    PROVE  InRings' /\ Apart' /\ FewMissing'
<1>1. \A q \in Queues : Queued(q)' = Queued(q) /\ NoneTwice(q)' = NoneTwice(q)
  BY SameRing
<1>2. Made' = Made
  BY DEF Made
<1>3. Queued("queue")' = Queued("queue") /\ Queued("free")' = Queued("free")
  BY <1>1, SizeFacts
<1>4. InRings'
  BY <1>1, <1>2 DEF InRings
<1>5. Apart'
  <2>1. \A q \in Queues, t \in Threads : Hand(t)' = Hand(t)
    BY SizeFacts
  <2>2. QED
    BY <1>1, <1>3, <2>1 DEF Apart
<1>6. FewMissing'
  BY <1>2, <1>3 DEF FewMissing, Missing
<1>7. QED
  BY <1>4, <1>5, <1>6

\* The calls that begin or are forgotten.
LEMMA NewCalls ==
    ASSUME RingsTyped, CallsTyped, NEW t \in Threads
    PROVE  /\ \A q \in Queues : BeginPop(t, q) =>
                /\ CallsTyped' /\ (ring' = ring => InPop(t, q)')
                /\ \A s \in Threads \ {t} : call'[s] = call[s]
           /\ \A q \in Queues, e \in Elements : BeginPush(t, q, e) =>
                /\ CallsTyped' /\ (e \in Made' => InPush(t, q)')
                /\ call'[t].element = e
                /\ \A s \in Threads \ {t} : call'[s] = call[s]
           /\ \A p : Return(t, p) =>
                /\ CallsTyped' /\ Done(t)'
                /\ \A s \in Threads \ {t} : call'[s] = call[s]
<1> DEFINE some == CHOOSE q \in Queues : TRUE
<1>1. some \in Queues /\ 0 \in Index(some)
  BY SizeFacts
<1> HIDE DEF some
<1>2. \A q \in Queues : 0 \in Index(q) /\ ring[q].head \in Index(q) /\ Index(q) \subseteq Nat
  BY SizeFacts DEF RingsTyped
<1>3. /\ Returned \in Calls /\ Returned.at = "returned" /\ Returned.queue = some
      /\ Returned.element = nullptr /\ Returned.index = 0 /\ ~ Returned.result
  BY <1>1 DEF Returned, some, Calls, Points, Pointers
<1>4. ASSUME NEW q \in Queues, BeginPop(t, q)
      PROVE  /\ CallsTyped' /\ (ring' = ring => InPop(t, q)')
             /\ \A s \in Threads \ {t} : call'[s] = call[s]
  BY <1>2, <1>3, <1>4 DEF BeginPop, CallsTyped, Calls, Points, Pointers, InPop, At, On, Element
<1>5. ASSUME NEW q \in Queues, NEW e \in Elements, BeginPush(t, q, e)
      PROVE  /\ CallsTyped' /\ (e \in Made' => InPush(t, q)')
             /\ call'[t].element = e
             /\ \A s \in Threads \ {t} : call'[s] = call[s]
  BY <1>2, <1>3, <1>5 DEF BeginPush, CallsTyped, Calls, Points, Pointers, InPush, At, On, Element
<1>6. ASSUME NEW p, Return(t, p)
      PROVE  /\ CallsTyped' /\ Done(t)'
             /\ \A s \in Threads \ {t} : call'[s] = call[s]
  BY <1>1, <1>2, <1>3, <1>6 DEF Return, CallsTyped, Calls, Done, At
<1>7. QED
  BY <1>4, <1>5, <1>6

\* A thread that has not moved is where it was.
LEMMA Elsewhere ==
    ASSUME Types, Made \subseteq Made'
    PROVE  /\ call'["loop"] = call["loop"] /\ pc'["loop"] = pc["loop"] =>
                /\ ring' = ring /\ LoopIs => LoopIs'
                /\ Hand("loop")' = Hand("loop")
           /\ call'["task"] = call["task"] /\ pc'["task"] = pc["task"] =>
                /\ ring' = ring /\ TaskIs => TaskIs'
                /\ Hand("task")' = Hand("task")
<1>1. Queues = {"queue", "free"}
  BY SizeFacts
<1>2. ASSUME call'["loop"] = call["loop"], pc'["loop"] = pc["loop"]
      PROVE  (ring' = ring /\ LoopIs => LoopIs') /\ Hand("loop")' = Hand("loop")
  <2>1. Hand("loop")' = Hand("loop")
    BY <1>2 DEF Hand, InHand, Element, Done, At
  <2>2. ASSUME ring' = ring, LoopIs PROVE LoopIs'
    <3>1. /\ InPop("loop", "free") => InPop("loop", "free")'
          /\ InPush("loop", "queue") => InPush("loop", "queue")'
      BY <1>1, <1>2, <2>2, SameRing
    <3>2. Done("loop")' = Done("loop") /\ (Popped("loop") => Popped("loop")')
          /\ (Succeeded => Succeeded')
      BY <1>2 DEF Done, Popped, Succeeded, At, Element
    <3>3. Element("loop") \in Made => Element("loop")' \in Made'
      BY <1>2 DEF Element
    <3>4. QED
      BY <1>2, <2>2, <3>1, <3>2, <3>3 DEF LoopIs
  <2>3. QED
    BY <2>1, <2>2
<1>3. ASSUME call'["task"] = call["task"], pc'["task"] = pc["task"]
      PROVE  (ring' = ring /\ TaskIs => TaskIs') /\ Hand("task")' = Hand("task")
  <2>1. Hand("task")' = Hand("task")
    BY <1>3 DEF Hand, InHand, Element, Done, At
  <2>2. ASSUME ring' = ring, TaskIs PROVE TaskIs'
    <3>1. /\ InPop("task", "queue") => InPop("task", "queue")'
          /\ InPush("task", "free") => InPush("task", "free")'
      BY <1>1, <1>3, <2>2, SameRing
    <3>2. Done("task")' = Done("task") /\ (Popped("task") => Popped("task")')
      BY <1>3 DEF Done, Popped, At, Element
    <3>3. QED
      BY <1>3, <2>2, <3>1, <3>2 DEF TaskIs
  <2>3. QED
    BY <2>1, <2>2
<1>4. QED
  BY <1>2, <1>3

\* A thread's own step, which leaves the other thread, the rings and what is in
\* its hands.
LEMMA OwnStep ==
    ASSUME IInv, Types', ring' = ring, total_created' = total_created,
           \/ /\ LoopIs' /\ Hand("loop")' = Hand("loop")
              /\ call'["task"] = call["task"] /\ pc'["task"] = pc["task"]
           \/ /\ TaskIs' /\ Hand("task")' = Hand("task")
              /\ call'["loop"] = call["loop"] /\ pc'["loop"] = pc["loop"]
    PROVE  IInv'
<1>1. Made' = Made
  BY DEF Made
<1>2. LoopIs' /\ TaskIs' /\ Hand("loop")' = Hand("loop") /\ Hand("task")' = Hand("task")
  BY <1>1, Elsewhere DEF IInv
<1>3. QED
  BY <1>2, QuietSteps DEF IInv

LEMMA LoopOwnSteps ==
    ASSUME IInv,
           Enqueue \/ Reuse \/ AllocateFails \/ SetData \/ Pushed \/ Notify \/ ConnectionChanges
    PROVE  IInv'
<1> USE DEF IInv
<1>1. /\ "loop" \in Threads /\ "task" \in Threads /\ "task" # "loop"
      /\ "queue" \in Queues /\ "free" \in Queues
  BY SizeFacts
<1>2. RingsTyped /\ CallsTyped /\ Made \subseteq Elements /\ nullptr \notin Elements
  BY MadeFacts, SizeFacts DEF Types
<1>3. CASE Enqueue
  <2>1. /\ CallsTyped' /\ InPop("loop", "free")' /\ call'["task"] = call["task"]
    BY <1>1, <1>2, <1>3, NewCalls DEF Enqueue
  <2>2. Types' /\ pc'["loop"] = "allocate" /\ pc'["task"] = pc["task"]
    BY <1>1, <1>2, <1>3, <2>1 DEF Enqueue, Goto, Types, RingsTyped
  <2>3. LoopIs'
    BY <2>1, <2>2 DEF LoopIs
  <2>4. ~ InHand("loop") /\ ~ InHand("loop")'
    BY <1>3, <2>1, <2>2 DEF Enqueue, InHand, InPop, Done, At
  <2>5. QED
    BY <1>3, <2>1, <2>2, <2>3, <2>4, HandFacts, OwnStep DEF Enqueue, Hand
<1>4. CASE Reuse
  <2>1. Types' /\ pc'["loop"] = "fill" /\ pc'["task"] = pc["task"] /\ UNCHANGED <<ring, call>>
    BY <1>1, <1>4 DEF Reuse, Goto, Types, RingsTyped, CallsTyped
  <2>2. Done("loop") /\ Element("loop") \in Made /\ InHand("loop")
    BY <1>4 DEF Reuse, LoopIs, InPop, Popped, Done, At, InHand
  <2>3. LoopIs' /\ InHand("loop")'
    BY <1>4, <2>1, <2>2 DEF Reuse, LoopIs, Done, At, Element, InHand, Made
  <2>4. QED
    BY <1>4, <2>1, <2>2, <2>3, OwnStep DEF Reuse, Hand, Element
<1>5. CASE AllocateFails
  <2>1. /\ CallsTyped' /\ Done("loop")' /\ call'["task"] = call["task"]
    BY <1>1, <1>2, <1>5, NewCalls DEF AllocateFails
  <2>2. Types' /\ pc'["loop"] = "idle" /\ pc'["task"] = pc["task"]
    BY <1>1, <1>2, <1>5, <2>1 DEF AllocateFails, Return, Goto, Types, RingsTyped
  <2>3. LoopIs' /\ ~ InHand("loop")'
    BY <2>1, <2>2 DEF LoopIs, InHand
  <2>4. Element("loop") = nullptr
    BY <1>5 DEF AllocateFails, LoopIs, InPop, Popped, Done, At
  <2>5. QED
    BY <1>2, <1>5, <2>1, <2>2, <2>3, <2>4, HandFacts, OwnStep DEF AllocateFails, Hand
<1>6. CASE SetData
  <2>1. /\ Element("loop") \in Made /\ Made' = Made
    BY <1>6 DEF SetData, LoopIs, Made
  <2>2. /\ CallsTyped' /\ InPush("loop", "queue")' /\ call'["task"] = call["task"]
        /\ call'["loop"].element = Element("loop")
    BY <1>1, <1>2, <1>6, <2>1, NewCalls DEF SetData
  <2>3. pc' = [pc EXCEPT !["loop"] = "push"] /\ UNCHANGED <<ring, total_created, notified>>
    BY <1>6 DEF SetData, Goto
  <2>4. last' \in 0 .. Messages - 1 /\ message' \in [Elements -> 0 .. Messages - 1]
    <3>1. last' = (last + 1) % Messages /\ last \in 0 .. Messages - 1 /\ Messages \in Nat \ {0}
      BY <1>6, PoolAssumption DEF SetData, Types
    <3>2. last' \in 0 .. Messages - 1
      BY <3>1
    <3>3. QED
      BY <1>2, <1>6, <2>1, <3>2 DEF SetData, Types
  <2>5. Types' /\ pc'["loop"] = "push" /\ pc'["task"] = pc["task"]
    BY <1>1, <1>2, <2>2, <2>3, <2>4 DEF Types, RingsTyped
  <2>6. LoopIs' /\ InHand("loop")'
    BY <2>2, <2>5 DEF LoopIs, InHand, InPush, Done, At
  <2>7. InHand("loop")
    BY <1>6 DEF SetData, InHand
  <2>8. QED
    BY <2>2, <2>3, <2>5, <2>6, <2>7, OwnStep DEF Hand, Element
<1>7. CASE Pushed
  <2>1. /\ CallsTyped' /\ Done("loop")' /\ call'["task"] = call["task"]
    BY <1>1, <1>2, <1>7, NewCalls DEF Pushed
  <2>2. /\ Types' /\ pc'["loop"] \in {"idle", "notify"} /\ pc'["task"] = pc["task"]
    BY <1>1, <1>2, <1>7, <2>1 DEF Pushed, Return, Goto, Types, RingsTyped
  <2>3. LoopIs' /\ ~ InHand("loop")'
    BY <2>1, <2>2 DEF LoopIs, InHand
  <2>4. ~ InHand("loop")
    BY <1>7 DEF Pushed, InHand
  <2>5. QED
    BY <1>7, <2>1, <2>2, <2>3, <2>4, HandFacts, OwnStep DEF Pushed, Hand
<1>8. CASE Notify
  <2>1. /\ Types' /\ pc'["loop"] = "idle" /\ pc'["task"] = pc["task"] /\ UNCHANGED <<ring, call>>
    BY <1>1, <1>8 DEF Notify, Goto, Types, RingsTyped, CallsTyped
  <2>2. Done("loop") /\ ~ InHand("loop")
    BY <1>8 DEF Notify, LoopIs, InHand
  <2>3. LoopIs' /\ ~ InHand("loop")'
    BY <2>1, <2>2 DEF LoopIs, Done, At, InHand
  <2>4. QED
    BY <1>8, <2>1, <2>2, <2>3, HandFacts, OwnStep DEF Notify, Hand
<1>9. CASE ConnectionChanges
  <2>1. Types' /\ UNCHANGED <<ring, call, pc, total_created>>
    BY <1>9 DEF ConnectionChanges, Types, RingsTyped, CallsTyped
  <2>2. LoopIs' /\ Hand("loop")' = Hand("loop")
    BY <2>1, Elsewhere DEF Made
  <2>3. QED
    BY <2>1, <2>2, OwnStep
<1>10. QED
  BY <1>3, <1>4, <1>5, <1>6, <1>7, <1>8, <1>9

LEMMA TaskOwnSteps ==
    ASSUME IInv, Wake \/ QueueEmpty \/ Publish \/ Released
    PROVE  IInv'
<1> USE DEF IInv
<1>1. /\ "loop" \in Threads /\ "task" \in Threads /\ "task" # "loop"
      /\ "queue" \in Queues /\ "free" \in Queues
  BY SizeFacts
<1>2. RingsTyped /\ CallsTyped /\ Made \subseteq Elements /\ nullptr \notin Elements
  BY MadeFacts, SizeFacts DEF Types
<1>3. CASE Wake
  <2>1. /\ CallsTyped' /\ InPop("task", "queue")' /\ call'["loop"] = call["loop"]
    BY <1>1, <1>2, <1>3, NewCalls DEF Wake
  <2>2. Types' /\ pc'["task"] = "pop" /\ pc'["loop"] = pc["loop"]
    BY <1>1, <1>2, <1>3, <2>1 DEF Wake, Goto, Types, RingsTyped
  <2>3. TaskIs' /\ ~ InHand("task")'
    BY <2>1, <2>2 DEF TaskIs, InHand, InPop, Done, At
  <2>4. ~ InHand("task")
    BY <1>3 DEF Wake, InHand
  <2>5. QED
    BY <1>3, <2>1, <2>2, <2>3, <2>4, HandFacts, OwnStep DEF Wake, Hand
<1>4. CASE QueueEmpty
  <2>1. /\ CallsTyped' /\ Done("task")' /\ call'["loop"] = call["loop"]
    BY <1>1, <1>2, <1>4, NewCalls DEF QueueEmpty
  <2>2. Types' /\ pc'["task"] = "wait" /\ pc'["loop"] = pc["loop"]
    BY <1>1, <1>2, <1>4, <2>1 DEF QueueEmpty, Return, Goto, Types, RingsTyped
  <2>3. TaskIs' /\ ~ InHand("task")'
    BY <2>1, <2>2 DEF TaskIs, InHand
  <2>4. Element("task") = nullptr
    BY <1>4 DEF QueueEmpty, TaskIs, InPop, Popped, Done, At
  <2>5. QED
    BY <1>2, <1>4, <2>1, <2>2, <2>3, <2>4, HandFacts, OwnStep DEF QueueEmpty, Hand
<1>5. CASE Publish
  <2>1. Element("task") \in Made /\ Made' = Made /\ InHand("task")
    BY <1>5 DEF Publish, TaskIs, InPop, Popped, Done, At, InHand, Made
  <2>2. /\ CallsTyped' /\ InPush("task", "free")' /\ call'["loop"] = call["loop"]
        /\ call'["task"].element = Element("task")
    BY <1>1, <1>2, <1>5, <2>1, NewCalls DEF Publish
  <2>3. Types' /\ pc'["task"] = "release" /\ pc'["loop"] = pc["loop"]
    BY <1>1, <1>2, <1>5, <2>2 DEF Publish, Goto, Types, RingsTyped
  <2>4. TaskIs' /\ InHand("task")'
    BY <2>2, <2>3 DEF TaskIs, InHand, InPush, Done, At
  <2>5. QED
    BY <1>5, <2>1, <2>2, <2>3, <2>4, OwnStep DEF Publish, Hand, Element
<1>6. CASE Released
  <2>1. /\ CallsTyped' /\ InPop("task", "queue")' /\ call'["loop"] = call["loop"]
    BY <1>1, <1>2, <1>6, NewCalls DEF Released
  <2>2. Types' /\ pc'["task"] = "pop" /\ pc'["loop"] = pc["loop"]
    BY <1>1, <1>2, <1>6, <2>1 DEF Released, Goto, Types, RingsTyped
  <2>3. TaskIs' /\ ~ InHand("task")'
    BY <2>1, <2>2 DEF TaskIs, InHand, InPop, Done, At
  <2>4. ~ InHand("task")
    BY <1>6 DEF Released, InHand
  <2>5. QED
    BY <1>6, <2>1, <2>2, <2>3, <2>4, HandFacts, OwnStep DEF Released, Hand
<1>7. QED
  BY <1>3, <1>4, <1>5, <1>6

\* A new element was in no hand.
LEMMA CreateStep ==
    ASSUME IInv, Create
    PROVE  IInv'
<1> DEFINE new == total_created + 1
<1>1. /\ total_created \in Nat /\ total_created' = new /\ total_created' \in 0 .. PoolSize
      /\ new \in Elements
  BY MadeFacts, PoolAssumption DEF IInv, Types, Create
<1>2. Made' = Made \cup {new} /\ new \notin Made
  BY <1>1 DEF Made
<1> HIDE DEF new
<1>3. /\ RingsTyped /\ CallsTyped /\ Made \subseteq Elements /\ nullptr \notin Elements
      /\ Threads = {"loop", "task"} /\ Queues = {"queue", "free"}
  BY MadeFacts, SizeFacts DEF IInv, Types
<1>4. /\ call' = [call EXCEPT !["loop"].element = new] /\ pc["loop"] = "allocate"
      /\ pc' = [pc EXCEPT !["loop"] = "fill"] /\ ring' = ring
      /\ UNCHANGED <<message, last, notified>>
  BY <1>1 DEF Create, Goto
<1>5. /\ CallsTyped' /\ call'["task"] = call["task"]
      /\ call'["loop"].element = new /\ call'["loop"].at = call["loop"].at
  BY <1>1, <1>3, <1>4 DEF CallsTyped, Calls, Pointers
<1>6. Types' /\ pc'["loop"] = "fill" /\ pc'["task"] = pc["task"]
  BY <1>1, <1>3, <1>4, <1>5 DEF IInv, Types, RingsTyped
<1>7. Element("loop") = nullptr /\ Done("loop")
  BY DEF IInv, Create, LoopIs, InPop, Popped, Done, At
<1>8. LoopIs' /\ InHand("loop")' /\ Element("loop")' = new
  BY <1>2, <1>5, <1>6, <1>7 DEF LoopIs, InHand, Done, At, Element
<1>9. TaskIs' /\ Hand("task")' = Hand("task")
  BY <1>2, <1>4, <1>5, <1>6, Elsewhere DEF IInv
<1>10. Hand("loop") = {} /\ Hand("loop")' = {new}
  BY <1>1, <1>3, <1>7, <1>8, HandFacts DEF Hand
<1>11. Hand("task") \subseteq Made
  BY <1>3 DEF IInv, TaskIs, Hand, InHand, InPop, InPush, Popped, Done, At
<1>12. \A q \in Queues : Queued(q)' = Queued(q) /\ NoneTwice(q)' = NoneTwice(q)
  BY <1>4, SameRing
<1>13. Queued("queue")' = Queued("queue") /\ Queued("free")' = Queued("free")
  BY <1>3, <1>12
<1>14. InRings'
  BY <1>2, <1>12 DEF IInv, InRings
<1>15. Apart'
  <2>1. Queued("queue") \subseteq Made /\ Queued("free") \subseteq Made
    BY <1>3 DEF IInv, InRings
  <2>2. QED
    BY <1>2, <1>3, <1>9, <1>10, <1>11, <1>13, <2>1 DEF IInv, Apart
<1>16. FewMissing'
  BY <1>2, <1>9, <1>10, <1>13 DEF IInv, FewMissing, Missing
<1>17. QED
  BY <1>6, <1>8, <1>9, <1>14, <1>15, <1>16 DEF IInv

-----------------------------------------------------------------------------
(* Steps of push and pop move one element, from one set to another. *)

\* The four sets, by the thread t that moves and the queue q it moves on.
Sets ==
    \A t, s \in Threads, q, p \in Queues : t # s /\ q # p =>
      /\ Apart <=> /\ Queued(q) \cap Queued(p) = {} /\ Hand(t) \cap Hand(s) = {}
                  /\ Queued(q) \cap Hand(t) = {} /\ Queued(q) \cap Hand(s) = {}
                  /\ Queued(p) \cap Hand(t) = {} /\ Queued(p) \cap Hand(s) = {}
      /\ Missing = Made \ (Queued(q) \cup Queued(p) \cup Hand(t) \cup Hand(s))

LEMMA FourSets == Sets
<1> SUFFICES ASSUME NEW t \in Threads, NEW s \in Threads, t # s,
                    NEW q \in Queues, NEW p \in Queues, q # p
    PROVE  /\ Apart <=> /\ Queued(q) \cap Queued(p) = {} /\ Hand(t) \cap Hand(s) = {}
                       /\ Queued(q) \cap Hand(t) = {} /\ Queued(q) \cap Hand(s) = {}
                       /\ Queued(p) \cap Hand(t) = {} /\ Queued(p) \cap Hand(s) = {}
           /\ Missing = Made \ (Queued(q) \cup Queued(p) \cup Hand(t) \cup Hand(s))
  BY DEF Sets
<1>1. /\ Threads = {t, s} /\ Queues = {q, p}
      /\ \/ t = "loop" /\ s = "task"
         \/ t = "task" /\ s = "loop"
      /\ \/ q = "queue" /\ p = "free"
         \/ q = "free" /\ p = "queue"
  BY SizeFacts
<1>2. Apart <=> /\ Queued(q) \cap Queued(p) = {} /\ Hand(t) \cap Hand(s) = {}
                /\ Queued(q) \cap Hand(t) = {} /\ Queued(q) \cap Hand(s) = {}
                /\ Queued(p) \cap Hand(t) = {} /\ Queued(p) \cap Hand(s) = {}
  BY <1>1 DEF Apart
<1>3. Missing = Made \ (Queued(q) \cup Queued(p) \cup Hand(t) \cup Hand(s))
  BY <1>1 DEF Missing
<1>4. QED
  BY <1>2, <1>3

LEMMA SetsAfter == Sets'
  BY FourSets, PTL

LEMMA Pops ==
    ASSUME IInv, NEW t \in Threads, NEW s \in Threads, t # s,
           NEW q \in Queues, NEW p \in Queues, q # p,
           InPop(t, q), pc[t] \in {"allocate", "pop"}, Step(t)
    PROVE  /\ Types' /\ InRings' /\ Apart' /\ FewMissing'
           /\ UNCHANGED pc /\ call'[s] = call[s] /\ Made' = Made
           /\ InPop(t, q)' \/ Popped(t)'
           /\ InPush(s, q) => InPush(s, q)'
           /\ InPop(s, p) => InPop(s, p)'
<1> USE DEF IInv
<1>1. Threads = {t, s} /\ Queues = {q, p}
  BY SizeFacts
<1>2. /\ RingsTyped /\ CallsTyped /\ Made \subseteq Elements /\ nullptr \notin Elements
      /\ QueueStep(t) /\ UNCHANGED <<pc, total_created, message, last, notified>>
  BY MadeFacts, SizeFacts DEF Types, Step
<1>3. Made' = Made /\ Types'
  BY <1>1, <1>2, StepTypes DEF Types, Made
<1>4. /\ NoneTwice(q) /\ Queued(q) \subseteq Made /\ Queued(p) \subseteq Made
  BY DEF InRings
<1>5. /\ ring'[p] = ring[p] /\ call'[s] = call[s]
      /\ ring'[q].tail = ring[q].tail /\ ring'[q].buffer = ring[q].buffer
      /\ \/ ring'[q].head = ring[q].head
         \/ /\ ring[q].head # ring[q].tail
            /\ ring'[q].head = After(SIZE[q], ring[q].head)
      /\ NoneTwice(q)' /\ ~ Done(t)
  BY <1>1, <1>2, <1>4, PopSteps
<1>6. \/ InPop(t, q)' /\ ~ Done(t)' /\ Queued(q)' = Queued(q)
      \/ Done(t)' /\ ~ call'[t].result /\ call'[t].element = nullptr
         /\ Queued(q)' = Queued(q)
      \/ Done(t)' /\ call'[t].result /\ call'[t].element \in Queued(q)
         /\ Queued(q)' = Queued(q) \ {call'[t].element}
  BY <1>2, <1>4, PopSteps
<1>7. Queued(p)' = Queued(p) /\ NoneTwice(p)' = NoneTwice(p)
  BY <1>5, SameRing
<1>8. InPop(t, q)' \/ Popped(t)'
  BY <1>3, <1>4, <1>6 DEF Popped, Element
<1>9. InPush(s, q) => InPush(s, q)'
  BY <1>2, <1>3, <1>5, PushUndisturbed
<1>10. InPop(s, p) => InPop(s, p)'
  BY <1>5, SameRing
<1>11. Hand(s)' = Hand(s)
  BY <1>2, <1>5 DEF Hand, InHand, Done, At, Element
<1>12. InRings'
  BY <1>1, <1>3, <1>4, <1>5, <1>6, <1>7 DEF InRings
<1>13. Hand(t) = {}
  BY <1>5, HandFacts DEF InHand
<1>14. \/ Queued(q)' = Queued(q) /\ Hand(t)' = {}
       \/ \E x \in Queued(q) : Queued(q)' = Queued(q) \ {x} /\ Hand(t)' = {x}
  <2>1. CASE ~ Done(t)'
    <3>1. ~ InHand(t)'
      BY <1>2, <2>1 DEF InHand
    <3>2. QED
      BY <1>6, <2>1, <3>1 DEF Hand
  <2>2. CASE Done(t)' /\ ~ call'[t].result
    BY <1>2, <1>5, <1>6, <2>2 DEF Hand, Element
  <2>3. CASE Done(t)' /\ call'[t].result
    <3>1. InHand(t)'
      BY <1>2, <2>3 DEF InHand
    <3>2. call'[t].element \in Elements
      BY <1>2, <1>4, <1>6, <2>3 DEF InPop, Done, At
    <3>3. Hand(t)' = {call'[t].element}
      BY <3>1, <3>2 DEF Hand, Element
    <3>4. QED
      BY <1>6, <2>3, <3>3 DEF InPop, Done, At
  <2>4. QED
    BY <2>1, <2>2, <2>3
<1>15. Apart'
  BY <1>7, <1>11, <1>13, <1>14, FourSets, SetsAfter DEF Sets
<1>16. FewMissing'
  BY <1>3, <1>7, <1>11, <1>13, <1>14, FourSets, SetsAfter DEF Sets, FewMissing
<1>17. QED
  BY <1>2, <1>3, <1>5, <1>8, <1>9, <1>10, <1>12, <1>15, <1>16

\* The queue has room for every element, so it is never full with one in hand; the
\* free list has room for all but one, so it is full only with all the others.
LEMMA Full ==
    ASSUME total_created \in 0 .. PoolSize, RingsTyped,
           NEW q \in Queues, NEW e \in Made, Queued(q) \subseteq Made, NoneTwice(q),
           e \notin Queued(q), After(SIZE[q], ring[q].tail) = ring[q].head
    PROVE  q = "free" /\ Elements \ {e} \subseteq Queued(q)
<1> DEFINE n == SIZE[q]
           h == ring[q].head
           k == ring[q].tail
           b == ring[q].buffer
<1>1. n \in Nat \ {0} /\ h \in 0 .. n - 1 /\ k \in 0 .. n - 1
  BY SizeFacts DEF RingsTyped, Index
<1>2. /\ Made \subseteq Elements /\ IsFiniteSet(Elements) /\ Cardinality(Elements) = PoolSize
      /\ PoolSize \in Nat \ {0} /\ SIZE["free"] = PoolSize /\ SIZE["queue"] = PoolSize + 1
  BY MadeFacts
<1>3. Queued(q) = Waiting(n, b, h, k) /\ Single(n, b, h, k) /\ After(n, k) = h
  BY DEF Queued, NoneTwice
<1>4. ASSUME NEW T, IsFiniteSet(T), Cardinality(T) = n - 1, Queued(q) \subseteq T
      PROVE  Queued(q) = T
  <2> HIDE DEF n, h, k, b
  <2>1. Waiting(n, b, h, k) = T
    BY <1>1, <1>3, <1>4, FullFacts
  <2>2. QED
    BY <1>3, <2>1
<1>5. q # "queue"
  <2>1. q = "queue" => Cardinality(Elements) = n - 1
    BY <1>2
  <2>2. QED
    BY <1>2, <1>4, <2>1
<1>6. q = "free"
  BY <1>5, SizeFacts
<1>7. Queued(q) = Elements \ {e}
  <2>1. /\ IsFiniteSet(Elements \ {e})
        /\ Cardinality(Elements \ {e})
             = IF e \in Elements THEN Cardinality(Elements) - 1 ELSE Cardinality(Elements)
    BY <1>2, FS_RemoveElement, Zenon
  <2>2. Cardinality(Elements \ {e}) = n - 1
    BY <1>2, <1>6, <2>1
  <2>3. QED
    BY <1>2, <1>4, <2>1, <2>2
<1>8. QED
  BY <1>6, <1>7

LEMMA Pushes ==
    ASSUME IInv, NEW t \in Threads, NEW s \in Threads, t # s,
           NEW q \in Queues, NEW p \in Queues, q # p,
           InPush(t, q), pc[t] \in {"push", "release"}, Step(t)
    PROVE  /\ Types' /\ InRings' /\ Apart' /\ FewMissing'
           /\ UNCHANGED pc /\ call'[s] = call[s] /\ Made' = Made
           /\ InPush(t, q)' \/ Done(t)'
           /\ q = "queue" => InPush(t, q)' \/ (Done(t)' /\ call'[t].result)
           /\ InPop(s, q) => InPop(s, q)'
           /\ InPush(s, p) => InPush(s, p)'
<1> USE DEF IInv
<1> DEFINE e == call[t].element
<1>1. Threads = {t, s} /\ Queues = {q, p}
  BY SizeFacts
<1>2. /\ RingsTyped /\ CallsTyped /\ Made \subseteq Elements /\ nullptr \notin Elements
      /\ QueueStep(t) /\ UNCHANGED <<pc, total_created, message, last, notified>>
      /\ total_created \in 0 .. PoolSize
  BY MadeFacts, SizeFacts DEF Types, Step
<1>3. Made' = Made /\ Types'
  BY <1>1, <1>2, StepTypes DEF Types, Made
<1>4. NoneTwice(q) /\ Queued(q) \subseteq Made /\ Queued(p) \subseteq Made
  BY DEF InRings
<1>5. ~ Done(t) /\ Element(t) = e /\ e \in Made
  BY DEF InPush, Done, At, Element
<1>6. Hand(t) = {e}
  BY <1>2, <1>5, HandFacts DEF InHand
<1>7. e \notin Queued(q)
  BY <1>6, FourSets DEF Sets
<1>8. /\ ring'[p] = ring[p] /\ call'[s] = call[s]
      /\ ring'[q].head = ring[q].head
      /\ \/ ring'[q].tail = ring[q].tail
         \/ /\ ring[q].head # After(SIZE[q], ring[q].tail)
            /\ ring'[q].tail = After(SIZE[q], ring[q].tail)
      /\ \A i \in Index(q) \ {ring[q].tail} : ring'[q].buffer[i] = ring[q].buffer[i]
      /\ NoneTwice(q)' /\ call'[t].element = e
  BY <1>1, <1>2, <1>4, <1>5, <1>7, PushSteps
<1>9. \/ InPush(t, q)' /\ ~ Done(t)' /\ Queued(q)' = Queued(q)
      \/ Done(t)' /\ call'[t].result /\ Queued(q)' = Queued(q) \cup {e}
      \/ Done(t)' /\ ring' = ring /\ After(SIZE[q], ring[q].tail) = ring[q].head
  BY <1>2, <1>4, <1>5, <1>7, PushSteps
<1>10. Queued(p)' = Queued(p) /\ NoneTwice(p)' = NoneTwice(p)
  BY <1>8, SameRing
<1>11. InPop(s, q) => InPop(s, q)'
  BY <1>2, <1>8, PopUndisturbed
<1>12. InPush(s, p) => InPush(s, p)'
  BY <1>3, <1>8, SameRing
<1>13. Hand(s)' = Hand(s)
  BY <1>2, <1>8 DEF Hand, InHand, Done, At, Element
<1>14. \/ InPush(t, q)' /\ Queued(q)' = Queued(q) /\ Hand(t)' = {e}
       \/ /\ Done(t)' /\ call'[t].result
          /\ Queued(q)' = Queued(q) \cup {e} /\ Hand(t)' = {}
       \/ /\ Done(t)' /\ q = "free" /\ Elements \ {e} \subseteq Queued(q)
          /\ Queued(q)' = Queued(q) /\ Hand(t)' = {}
  <2>1. CASE ~ Done(t)'
    <3>1. InHand(t)' /\ Element(t)' = e
      BY <1>2, <1>8, <2>1 DEF InHand, Element
    <3>2. Hand(t)' = {e}
      BY <1>2, <1>5, <3>1 DEF Hand
    <3>3. QED
      BY <1>9, <2>1, <3>2
  <2>2. CASE Done(t)'
    <3>1. Hand(t)' = {}
      BY <1>2, <2>2 DEF Hand, InHand
    <3>2. CASE ring' = ring /\ After(SIZE[q], ring[q].tail) = ring[q].head
      <4>1. q = "free" /\ Elements \ {e} \subseteq Queued(q)
        BY <1>2, <1>4, <1>5, <1>7, <3>2, Full
      <4>2. QED
        BY <2>2, <3>1, <3>2, <4>1, SameRing
    <3>3. QED
      BY <1>9, <2>2, <3>1, <3>2
  <2>3. QED
    BY <2>1, <2>2
<1>15. Queued(q)' \subseteq Made' /\ InRings'
  BY <1>1, <1>3, <1>4, <1>5, <1>8, <1>10, <1>14 DEF InRings
<1>16. Apart'
  BY <1>6, <1>10, <1>13, <1>14, FourSets, SetsAfter DEF Sets
<1>17. FewMissing'
  <2>1. CASE Queued(q)' \cup Hand(t)' = Queued(q) \cup Hand(t)
    BY <1>3, <1>10, <1>13, <2>1, FourSets, SetsAfter DEF Sets, FewMissing
  <2>2. CASE Elements \ {e} \subseteq Queued(q) /\ Queued(q)' = Queued(q)
    <3>1. Missing' \subseteq {e}
      BY <1>2, <1>3, <2>2, SetsAfter DEF Sets
    <3>2. QED
      BY <3>1 DEF FewMissing
  <2>3. QED
    BY <1>6, <1>14, <2>1, <2>2
<1>18. QED
  BY <1>2, <1>3, <1>8, <1>9, <1>11, <1>12, <1>14, <1>15, <1>16, <1>17

-----------------------------------------------------------------------------
(* The invariant, and the theorems. *)

LEMMA Initially == Init => IInv
<1> SUFFICES ASSUME Init PROVE IInv
  OBVIOUS
<1>1. Threads = {"loop", "task"} /\ Queues = {"queue", "free"}
  BY SizeFacts
<1>2. total_created = 0 /\ Made = {} /\ PoolSize \in Nat /\ total_created \in 0 .. PoolSize
  <2>1. total_created = 0
    BY DEF Init
  <2>2. PoolSize \in Nat
    BY PoolAssumption, SizeAssumption
  <2>3. QED
    BY <2>1, <2>2 DEF Made
<1>3. RingsTyped
  BY SizeFacts DEF Init, RingInit, RingsTyped, Index, Pointers
<1>4. CallsTyped /\ \A t \in Threads : Done(t) /\ Element(t) = nullptr
  <2> DEFINE some == CHOOSE q \in Queues : TRUE
  <2>1. some \in Queues /\ 0 \in Index(some)
    BY SizeFacts
  <2>2. call = [t \in Threads |-> Returned]
    BY DEF Init, RingInit
  <2>3. /\ Returned \in Calls /\ Returned.at = "returned" /\ Returned.queue = some
        /\ Returned.element = nullptr /\ Returned.index = 0
    BY <2>1 DEF Returned, Calls, Points, Pointers
  <2> HIDE DEF some
  <2>4. QED
    BY <2>1, <2>2, <2>3 DEF CallsTyped, Done, At, Element
<1>5. Types
  <2>1. 0 \in 0 .. Messages - 1
    BY PoolAssumption
  <2>2. message \in [Elements -> 0 .. Messages - 1] /\ last \in 0 .. Messages - 1
    BY <2>1 DEF Init
  <2>3. /\ pc \in [Threads -> {"idle", "allocate", "fill", "push", "notify",
                             "wait", "pop", "release"}]
        /\ notified \in BOOLEAN
    BY <1>1 DEF Init
  <2>4. QED
    BY <1>2, <1>3, <1>4, <2>2, <2>3 DEF Types
<1>6. LoopIs /\ TaskIs
  BY <1>1, <1>4 DEF Init, LoopIs, TaskIs
<1>7. \A q \in Queues : Queued(q) = {} /\ NoneTwice(q)
  <2>1. ASSUME NEW q \in Queues PROVE Queued(q) = {} /\ NoneTwice(q)
    <3>1. SIZE[q] \in Nat \ {0} /\ ring[q].head = 0 /\ ring[q].tail = 0
      BY SizeFacts DEF Init, RingInit
    <3>2. 0 \in 0 .. SIZE[q] - 1
      BY <3>1
    <3>3. Slots(SIZE[q], 0, 0) = {}
      BY <3>1, <3>2, SlotFacts
    <3>4. QED
      BY <3>1, <3>3 DEF Queued, NoneTwice, Waiting, Single
  <2>2. QED
    BY <2>1
<1>8. \A t \in Threads : Hand(t) = {}
  BY <1>4, SizeFacts, HandFacts
<1>9. InRings /\ Apart /\ FewMissing
  BY <1>1, <1>2, <1>7, <1>8 DEF InRings, Apart, FewMissing, Missing
<1>10. QED
  BY <1>5, <1>6, <1>9 DEF IInv

LEMMA NextStep == IInv /\ [Next]_vars => IInv'
<1> SUFFICES ASSUME IInv, [Next]_vars PROVE IInv'
  OBVIOUS
<1>1. /\ "loop" \in Threads /\ "task" \in Threads /\ "queue" \in Queues /\ "free" \in Queues
      /\ "loop" # "task" /\ "queue" # "free"
  BY SizeFacts
<1>2. CASE UNCHANGED vars
  <2>1. UNCHANGED <<ring, call, pc, total_created, message, last, notified>>
    BY <1>2 DEF vars
  <2>2. Types'
    BY <2>1 DEF IInv, Types, RingsTyped, CallsTyped
  <2>3. LoopIs' /\ Hand("loop")' = Hand("loop")
    BY <2>1, Elsewhere DEF IInv, Made
  <2>4. QED
    BY <2>1, <2>2, <2>3, OwnStep
<1>3. CASE Step("loop")
  <2>1. ~ Done("loop") /\ UNCHANGED pc
    BY <1>3 DEF Step, QueueStep, PushLoadTail, PushFull, PushLoadHead, PushWrite, PushStoreTail,
                PopEmpty, PopCompare, PopRead, PopStoreHead, Done, At
  <2>2. CASE pc["loop"] = "allocate" /\ InPop("loop", "free")
    <3>1. /\ Types' /\ InRings' /\ Apart' /\ FewMissing'
          /\ call'["task"] = call["task"] /\ Made' = Made
          /\ InPop("loop", "free")' \/ Popped("loop")'
          /\ InPush("task", "free") => InPush("task", "free")'
          /\ InPop("task", "queue") => InPop("task", "queue")'
      BY <1>1, <1>3, <2>2, Pops
    <3>2. LoopIs'
      BY <2>1, <2>2, <3>1 DEF LoopIs
    <3>3. TaskIs'
      BY <2>1, <3>1 DEF IInv, TaskIs, Popped, Done, At, Element
    <3>4. QED
      BY <3>1, <3>2, <3>3 DEF IInv
  <2>3. CASE pc["loop"] = "push" /\ InPush("loop", "queue")
    <3>1. /\ Types' /\ InRings' /\ Apart' /\ FewMissing'
          /\ call'["task"] = call["task"] /\ Made' = Made
          /\ InPush("loop", "queue")' \/ (Done("loop")' /\ call'["loop"].result)
          /\ InPop("task", "queue") => InPop("task", "queue")'
          /\ InPush("task", "free") => InPush("task", "free")'
      BY <1>1, <1>3, <2>3, Pushes
    <3>2. LoopIs'
      BY <2>1, <2>3, <3>1 DEF LoopIs, Succeeded
    <3>3. TaskIs'
      BY <2>1, <3>1 DEF IInv, TaskIs, Popped, Done, At, Element
    <3>4. QED
      BY <3>1, <3>2, <3>3 DEF IInv
  <2>4. QED
    BY <2>1, <2>2, <2>3 DEF IInv, LoopIs, Popped, Succeeded
<1>4. CASE Step("task")
  <2>1. ~ Done("task") /\ UNCHANGED pc
    BY <1>4 DEF Step, QueueStep, PushLoadTail, PushFull, PushLoadHead, PushWrite, PushStoreTail,
                PopEmpty, PopCompare, PopRead, PopStoreHead, Done, At
  <2>2. CASE pc["task"] = "pop" /\ InPop("task", "queue")
    <3>1. /\ Types' /\ InRings' /\ Apart' /\ FewMissing'
          /\ call'["loop"] = call["loop"] /\ Made' = Made
          /\ InPop("task", "queue")' \/ Popped("task")'
          /\ InPush("loop", "queue") => InPush("loop", "queue")'
          /\ InPop("loop", "free") => InPop("loop", "free")'
      BY <1>1, <1>4, <2>2, Pops
    <3>2. TaskIs'
      BY <2>1, <2>2, <3>1 DEF TaskIs
    <3>3. LoopIs'
      BY <2>1, <3>1 DEF IInv, LoopIs, Popped, Succeeded, Done, At, Element
    <3>4. QED
      BY <3>1, <3>2, <3>3 DEF IInv
  <2>3. CASE pc["task"] = "release" /\ InPush("task", "free")
    <3>1. /\ Types' /\ InRings' /\ Apart' /\ FewMissing'
          /\ call'["loop"] = call["loop"] /\ Made' = Made
          /\ InPush("task", "free")' \/ Done("task")'
          /\ InPop("loop", "free") => InPop("loop", "free")'
          /\ InPush("loop", "queue") => InPush("loop", "queue")'
      BY <1>1, <1>4, <2>3, Pushes
    <3>2. TaskIs'
      BY <2>1, <2>3, <3>1 DEF TaskIs
    <3>3. LoopIs'
      BY <2>1, <3>1 DEF IInv, LoopIs, Popped, Succeeded, Done, At, Element
    <3>4. QED
      BY <3>1, <3>2, <3>3 DEF IInv
  <2>4. QED
    BY <2>1, <2>2, <2>3 DEF IInv, TaskIs, Popped
<1>5. QED
  BY <1>2, <1>3, <1>4, LoopOwnSteps, TaskOwnSteps, CreateStep DEF Next, Loop, Task

LEMMA Always == Spec => []IInv
  BY Initially, NextStep, PTL DEF Spec

\* Every variable has its type: the indices stay inside the rings.
THEOREM TypeCorrect == Spec => []TypeOK
<1>1. IInv => TypeOK
  <2> SUFFICES ASSUME IInv PROVE TypeOK
    OBVIOUS
  <2>1. RingTypeOK
    BY DEF IInv, Types, RingsTyped, CallsTyped, Calls, RingTypeOK, Index, Pointers
  <2>2. QED
    BY <2>1 DEF IInv, Types, TypeOK
<1>2. QED
  BY <1>1, Always, PTL

\* "Push to queue - always succeeds since we allocated from the pool"
\* (mqtt_backend_esp32.cpp): the pool runs out before the queue is full.
THEOREM PushAlwaysSucceeds == Spec => []PushSucceeds
<1>1. IInv => PushSucceeds
  BY DEF IInv, LoopIs, InPush, Succeeded, PushSucceeds, Done, At
<1>2. QED
  BY <1>1, Always, PTL

\* How many slots are occupied, and which is the k-th of them.
Count(n, h, t) == (t + n - h) % n

Place(n, h, k) == (h + k - 1) % n

\* The positions that size and Contents count are the slots from head to tail,
\* each once.
LEMMA PositionFacts ==
    ASSUME NEW n \in Nat \ {0}, NEW h \in 0 .. n - 1, NEW t \in 0 .. n - 1
    PROVE  /\ Count(n, h, t) = IF h <= t THEN t - h ELSE t + n - h
           /\ \A k \in 1 .. Count(n, h, t) :
                /\ Place(n, h, k) = IF h + k - 1 < n THEN h + k - 1 ELSE h + k - 1 - n
                /\ Place(n, h, k) \in Slots(n, h, t)
           /\ \A i \in Slots(n, h, t) : \E k \in 1 .. Count(n, h, t) : Place(n, h, k) = i
           /\ \A j, k \in 1 .. Count(n, h, t) : Place(n, h, j) = Place(n, h, k) => j = k
<1> DEFINE m == IF h <= t THEN t - h ELSE t + n - h
           Position(k) == IF h + k - 1 < n THEN h + k - 1 ELSE h + k - 1 - n
<1>1. Count(n, h, t) = m
  <2>1. CASE h <= t
    <3>1. t + n - h \in n .. 2 * n - 1
      BY <2>1
    <3>2. (t + n - h) % n = t + n - h - n
      BY <3>1
    <3>3. QED
      BY <2>1, <3>2 DEF Count
  <2>2. CASE t < h
    <3>1. t + n - h \in 0 .. n - 1
      BY <2>2
    <3>2. (t + n - h) % n = t + n - h
      BY <3>1
    <3>3. QED
      BY <2>2, <3>2 DEF Count
  <2>3. QED
    BY <2>1, <2>2
<1>2. ASSUME NEW k \in 1 .. m PROVE Place(n, h, k) = Position(k)
  <2>1. CASE h + k - 1 < n
    <3>1. h + k - 1 \in 0 .. n - 1
      BY <1>1, <2>1
    <3>2. QED
      BY <2>1, <3>1 DEF Place
  <2>2. CASE ~ h + k - 1 < n
    <3>1. h + k - 1 \in n .. 2 * n - 1
      BY <1>1, <2>2
    <3>2. QED
      BY <2>2, <3>1 DEF Place
  <2>3. QED
    BY <2>1, <2>2
<1>3. ASSUME NEW k \in 1 .. m PROVE Position(k) \in Slots(n, h, t)
  BY DEF Slots
<1>4. ASSUME NEW i \in Slots(n, h, t) PROVE \E k \in 1 .. m : Position(k) = i
  <2>1. CASE h <= i
    <3>1. i - h + 1 \in 1 .. m /\ Position(i - h + 1) = i
      BY <2>1 DEF Slots
    <3>2. QED
      BY <3>1
  <2>2. CASE i < h
    <3>1. i + n - h + 1 \in 1 .. m /\ Position(i + n - h + 1) = i
      BY <2>2 DEF Slots
    <3>2. QED
      BY <3>1
  <2>3. QED
    BY <2>1, <2>2 DEF Slots
<1>5. ASSUME NEW j \in 1 .. m, NEW k \in 1 .. m, Position(j) = Position(k) PROVE j = k
  BY <1>5
<1>6. QED
  <2> HIDE DEF Position
  <2>1. \A k \in 1 .. m : Place(n, h, k) = Position(k) /\ Place(n, h, k) \in Slots(n, h, t)
    BY <1>2, <1>3
  <2>2. \A i \in Slots(n, h, t) : \E k \in 1 .. m : Place(n, h, k) = i
    BY <1>2, <1>4
  <2>3. \A j, k \in 1 .. m : Place(n, h, j) = Place(n, h, k) => j = k
    BY <1>2, <1>5
  <2> HIDE DEF m
  <2>4. /\ \A k \in 1 .. Count(n, h, t) :
             Place(n, h, k) = Position(k) /\ Place(n, h, k) \in Slots(n, h, t)
        /\ \A i \in Slots(n, h, t) : \E k \in 1 .. Count(n, h, t) : Place(n, h, k) = i
        /\ \A j, k \in 1 .. Count(n, h, t) : Place(n, h, j) = Place(n, h, k) => j = k
    BY <1>1, <2>1, <2>2, <2>3
  <2>5. QED
    BY <1>1, <2>4 DEF m, Position

LEMMA ContentsFacts ==
    ASSUME RingsTyped, NEW q \in Queues
    PROVE  /\ size(q) \in Nat
           /\ \A e : e \in Queued(q) <=> \E k \in 1 .. size(q) : Contents(q)[k] = e
           /\ NoneTwice(q) =>
                \A j, k \in 1 .. size(q) : Contents(q)[j] = Contents(q)[k] => j = k
<1> DEFINE n == SIZE[q]
           h == ring[q].head
           tail == ring[q].tail
           b == ring[q].buffer
           m == Count(n, h, tail)
<1>1. n \in Nat \ {0} /\ h \in 0 .. n - 1 /\ tail \in 0 .. n - 1
  BY SizeFacts DEF RingsTyped, Index
<1>2. size(q) = m /\ \A k \in 1 .. m : Contents(q)[k] = b[Place(n, h, k)]
  BY DEF size, Contents, Count, Place
<1>3. Queued(q) = {b[i] : i \in Slots(n, h, tail)}
  BY DEF Queued, Waiting
<1>4. NoneTwice(q) <=> \A i, j \in Slots(n, h, tail) : b[i] = b[j] => i = j
  BY DEF NoneTwice, Single
<1> HIDE DEF n, h, tail, b
<1>5. /\ m = IF h <= tail THEN tail - h ELSE tail + n - h
      /\ \A k \in 1 .. m : Place(n, h, k) \in Slots(n, h, tail)
      /\ \A i \in Slots(n, h, tail) : \E k \in 1 .. m : Place(n, h, k) = i
      /\ \A j, k \in 1 .. m : Place(n, h, j) = Place(n, h, k) => j = k
  BY <1>1, PositionFacts
<1> HIDE DEF m
<1>6. m \in Nat
  BY <1>1, <1>5
<1>7. ASSUME NEW e, e \in Queued(q) PROVE \E k \in 1 .. size(q) : Contents(q)[k] = e
  BY <1>2, <1>3, <1>5, <1>7
<1>8. ASSUME NEW k \in 1 .. size(q) PROVE Contents(q)[k] \in Queued(q)
  BY <1>2, <1>3, <1>5
<1>9. ASSUME NoneTwice(q), NEW i \in 1 .. m, NEW j \in 1 .. m, Contents(q)[i] = Contents(q)[j]
      PROVE  i = j
  BY <1>2, <1>4, <1>5, <1>9
<1>10. QED
  BY <1>2, <1>6, <1>7, <1>8, <1>9

LEMMA AtMostOne ==
    ASSUME NEW S, \A x, y \in S : x = y
    PROVE  IsFiniteSet(S) /\ Cardinality(S) <= 1
<1>1. CASE S = {}
  BY <1>1, FS_EmptySet
<1>2. CASE S # {}
  <2>1. PICK x \in S : S = {x}
    BY <1>2
  <2>2. QED
    <3>1. IsFiniteSet({x}) /\ Cardinality({x}) = 1
      BY FS_Singleton, Zenon
    <3>2. QED
      BY <2>1, <3>1
<1>3. QED
  BY <1>1, <1>2

\* No element is in two hands, or twice in a queue, and at most one is in none.
THEOREM HoldersAreUnique == Spec => []OneHolder
<1>1. ASSUME IInv PROVE OneHolder
  <2>1. /\ Threads = {"loop", "task"} /\ Queues = {"queue", "free"}
        /\ RingsTyped /\ Made \subseteq Elements
    BY <1>1, MadeFacts, SizeFacts DEF IInv, Types
  <2>2. ASSUME NEW e \in Elements
        PROVE  Holders(e) = {t \in Threads : e \in Hand(t)} \cup {q \in Queues : e \in Queued(q)}
    BY <2>1, ContentsFacts DEF Holders, Hand, InHand
  <2>3. ASSUME NEW e \in Elements PROVE Cardinality(Holders(e)) <= 1
    <3>1. \A x, y \in Holders(e) : x = y
      BY <1>1, <2>1, <2>2 DEF IInv, Apart
    <3>2. QED
      BY <3>1, AtMostOne
  <2>4. \A q \in Queues : \A j, k \in 1 .. size(q) : Contents(q)[j] = Contents(q)[k] => j = k
    BY <1>1, <2>1, ContentsFacts DEF IInv, InRings
  <2>5. Cardinality(Lost) <= 1
    <3>1. Lost \subseteq Missing
      BY <2>1, <2>2 DEF Lost, Missing, Made
    <3>2. \A x, y \in Lost : x = y
      BY <1>1, <3>1 DEF IInv, FewMissing
    <3>3. QED
      BY <3>2, AtMostOne
  <2>6. QED
    BY <2>3, <2>4, <2>5 DEF OneHolder
<1>2. QED
  BY <1>1, Always, PTL

\* While set_data cannot fail, what the main loop fills is never a message that
\* waits in the queue or is being published (with it: the run mqtt_memory).
THEOREM FillsWhatIsFree == Spec => []FillsOnlyFree
<1>1. ASSUME IInv, pc["loop"] = "fill" PROVE "queue" \notin Holders(Element("loop"))
  <2>1. Threads = {"loop", "task"} /\ Queues = {"queue", "free"} /\ RingsTyped
        /\ Made \subseteq Elements
    BY <1>1, MadeFacts, SizeFacts DEF IInv, Types
  <2>2. Element("loop") \in Made
    BY <1>1 DEF IInv, LoopIs
  <2>3. Element("loop") \in Hand("loop")
    BY <1>1, <2>1, <2>2 DEF Hand, InHand
  <2>4. Element("loop") \notin Queued("queue")
    BY <1>1, <2>1, <2>3 DEF IInv, Apart
  <2>5. \A k \in 1 .. size("queue") : Contents("queue")[k] \in Queued("queue")
    BY <2>1, ContentsFacts
  <2>6. QED
    BY <2>1, <2>4, <2>5 DEF Holders
<1>2. IInv => FillsOnlyFree
  BY <1>1 DEF FillsOnlyFree
<1>3. QED
  BY <1>2, Always, PTL

-----------------------------------------------------------------------------
(* The queue as a whole is a Fifo, liveness apart: the element is put when   *)
(* the tail is stored, and taken when the head is.                           *)

QueuedAt(k) == Contents("queue")[k]

\* Pending is a sequence, of what the elements in the queue hold.
PendingIs ==
    /\ size("queue") \in Nat /\ Pending \in Seq(Nat) /\ Len(Pending) = size("queue")
    /\ \A k \in 1 .. size("queue") :
         Pending[k] = message[QueuedAt(k)] /\ QueuedAt(k) \in Queued("queue")

LEMMA PendingFacts == IInv => PendingIs
<1> SUFFICES ASSUME IInv PROVE PendingIs
  OBVIOUS
<1>1. /\ RingsTyped /\ "queue" \in Queues /\ Queued("queue") \subseteq Elements
      /\ message \in [Elements -> 0 .. Messages - 1] /\ Messages \in Nat
  BY SizeFacts, MadeFacts, PoolAssumption DEF IInv, Types, InRings
<1>2. /\ size("queue") \in Nat
      /\ \A k \in 1 .. size("queue") : QueuedAt(k) \in Queued("queue")
  BY <1>1, ContentsFacts DEF QueuedAt
<1>3. /\ Pending = [k \in 1 .. size("queue") |-> message[QueuedAt(k)]]
      /\ \A k \in 1 .. size("queue") : message[QueuedAt(k)] \in Nat
  BY <1>1, <1>2 DEF Pending, QueuedAt
<1>4. Pending \in [1 .. size("queue") -> Nat]
  BY <1>3
<1>5. Pending \in Seq(Nat) /\ Len(Pending) = size("queue")
  BY <1>2, <1>4
<1>6. QED
  BY <1>2, <1>3, <1>5 DEF PendingIs

LEMMA PendingAfter == IInv' => PendingIs'
  BY PendingFacts, PTL

LEMMA SamePending ==
    ASSUME PendingIs, PendingIs', size("queue")' = size("queue"),
           \A k \in 1 .. size("queue") : QueuedAt(k)' = QueuedAt(k),
           \A e \in Queued("queue") : message'[e] = message[e]
    PROVE  UNCHANGED Pending
<1>1. /\ Pending \in Seq(Nat) /\ Pending' \in Seq(Nat) /\ Len(Pending') = Len(Pending)
      /\ \A k \in 1 .. Len(Pending) : Pending'[k] = Pending[k]
  BY DEF PendingIs
<1>2. QED
  BY <1>1

\* What the elements are, slot by slot.
LEMMA PlaceFacts ==
    ASSUME RingsTyped, "queue" \in Queues
    PROVE  LET n == SIZE["queue"]
               h == ring["queue"].head
               t == ring["queue"].tail
           IN  /\ size("queue") = Count(n, h, t)
               /\ n \in Nat \ {0} /\ h \in 0 .. n - 1 /\ t \in 0 .. n - 1
               /\ \A k \in 1 .. size("queue") : QueuedAt(k) = ring["queue"].buffer[Place(n, h, k)]
  BY SizeFacts DEF RingsTyped, Index, size, Count, Place, Contents, QueuedAt

\* A step on the queue that moves neither index.
LEMMA StillStep ==
    ASSUME IInv, IInv', UNCHANGED message,
           ring'["queue"].head = ring["queue"].head,
           ring'["queue"].tail = ring["queue"].tail,
           \A i \in Index("queue") \ {ring["queue"].tail} :
             ring'["queue"].buffer[i] = ring["queue"].buffer[i]
    PROVE  UNCHANGED Pending
<1> DEFINE n == SIZE["queue"]
           h == ring["queue"].head
           t == ring["queue"].tail
<1>1. RingsTyped /\ RingsTyped' /\ "queue" \in Queues
  BY SizeFacts DEF IInv, Types
<1>2. /\ n \in Nat \ {0} /\ h \in 0 .. n - 1 /\ t \in 0 .. n - 1
      /\ size("queue") = Count(n, h, t)
      /\ \A k \in 1 .. size("queue") : QueuedAt(k) = ring["queue"].buffer[Place(n, h, k)]
  BY <1>1, PlaceFacts
<1>3. /\ size("queue")' = size("queue")
      /\ \A k \in 1 .. size("queue") : QueuedAt(k)' = ring'["queue"].buffer[Place(n, h, k)]
  BY DEF size, QueuedAt, Contents, Place
<1>4. \A k \in 1 .. size("queue") : Place(n, h, k) \in Index("queue") \ {t}
  <2>1. \A k \in 1 .. Count(n, h, t) : Place(n, h, k) \in Slots(n, h, t)
    BY <1>2, PositionFacts
  <2>2. Slots(n, h, t) \subseteq Index("queue") \ {t}
    BY <1>2, SlotFacts DEF Index
  <2>3. QED
    BY <1>2, <2>1, <2>2
<1>5. \A k \in 1 .. size("queue") : QueuedAt(k)' = QueuedAt(k)
  BY <1>2, <1>3, <1>4
<1>6. PendingIs /\ PendingIs'
  BY PendingFacts, PendingAfter
<1>7. QED
  BY <1>3, <1>5, <1>6, SamePending

LEMMA PrefixFacts ==
    ASSUME NEW S, NEW s \in Seq(S), NEW t \in Seq(S), Len(t) = Len(s) + 1,
           \A k \in 1 .. Len(s) : t[k] = s[k]
    PROVE  SubSeq(t, 1, Len(s)) = s
<1>1. Len(s) \in Nat /\ Len(t) \in Nat
  OBVIOUS
<1>2. SubSeq(t, 1, Len(s)) \in Seq(S) /\ Len(SubSeq(t, 1, Len(s))) = Len(s)
  BY <1>1
<1>3. \A k \in 1 .. Len(s) : SubSeq(t, 1, Len(s))[k] = s[k]
  BY <1>1
<1>4. QED
  BY <1>2, <1>3

\* The tail moves over a new element.
LEMMA PutStep ==
    ASSUME IInv, IInv', UNCHANGED message,
           ring'["queue"].head = ring["queue"].head,
           After(SIZE["queue"], ring["queue"].tail) # ring["queue"].head,
           ring'["queue"].tail = After(SIZE["queue"], ring["queue"].tail),
           \A i \in Index("queue") \ {ring["queue"].tail} :
             ring'["queue"].buffer[i] = ring["queue"].buffer[i]
    PROVE  F!Put
<1> DEFINE n == SIZE["queue"]
           h == ring["queue"].head
           t == ring["queue"].tail
           m == size("queue")
<1>1. RingsTyped /\ RingsTyped' /\ "queue" \in Queues /\ PendingIs /\ PendingIs'
  BY SizeFacts, PendingFacts, PendingAfter DEF IInv, Types
<1>2. /\ n \in Nat \ {0} /\ h \in 0 .. n - 1 /\ t \in 0 .. n - 1 /\ m = Count(n, h, t)
      /\ \A k \in 1 .. m : QueuedAt(k) = ring["queue"].buffer[Place(n, h, k)]
      /\ Index("queue") = 0 .. n - 1 /\ After(n, t) # h
      /\ \A i \in Index("queue") \ {t} : ring'["queue"].buffer[i] = ring["queue"].buffer[i]
  BY <1>1, PlaceFacts DEF Index
<1>3. /\ size("queue")' = Count(n, h, After(n, t))
      /\ \A k \in 1 .. size("queue")' : QueuedAt(k)' = ring'["queue"].buffer[Place(n, h, k)]
  BY DEF size, QueuedAt, Contents, Place, Count
<1> HIDE DEF n, h, t
<1>4. m \in Nat /\ size("queue")' = m + 1
  <2>1. After(n, t) \in 0 .. n - 1
    BY <1>2, SlotFacts
  <2>2. /\ Count(n, h, t) = IF h <= t THEN t - h ELSE t + n - h
        /\ Count(n, h, After(n, t)) = IF h <= After(n, t) THEN After(n, t) - h
                                       ELSE After(n, t) + n - h
    BY <1>2, <2>1, PositionFacts
  <2>3. QED
    <3> HIDE DEF m
    <3>1. QED
      BY <1>2, <1>3, <2>2 DEF After
<1>5. \A k \in 1 .. m : Place(n, h, k) \in Index("queue") \ {t}
  <2>1. \A k \in 1 .. Count(n, h, t) : Place(n, h, k) \in Slots(n, h, t)
    BY <1>2, PositionFacts
  <2>2. Slots(n, h, t) \subseteq Index("queue") \ {t}
    BY <1>2, SlotFacts
  <2>3. QED
    BY <1>2, <2>1, <2>2
<1>6. \A k \in 1 .. m : QueuedAt(k)' = QueuedAt(k)
  BY <1>2, <1>3, <1>4, <1>5
<1>7. /\ Pending \in Seq(Nat) /\ Pending' \in Seq(Nat)
      /\ Len(Pending) = m /\ Len(Pending') = m + 1
      /\ \A k \in 1 .. m : Pending'[k] = Pending[k]
  <2>1. /\ Pending \in Seq(Nat) /\ Len(Pending) = m
        /\ \A k \in 1 .. m : Pending[k] = message[QueuedAt(k)]
    BY <1>1 DEF PendingIs
  <2>2. /\ Pending' \in Seq(Nat) /\ Len(Pending') = size("queue")'
        /\ \A k \in 1 .. size("queue")' : Pending'[k] = message'[QueuedAt(k)']
    BY <1>1 DEF PendingIs
  <2> HIDE DEF m
  <2>3. ASSUME NEW k \in 1 .. m PROVE Pending'[k] = Pending[k]
    <3>1. k \in 1 .. size("queue")'
      BY <1>4
    <3>2. Pending'[k] = message'[QueuedAt(k)'] /\ Pending[k] = message[QueuedAt(k)]
      BY <2>1, <2>2, <3>1
    <3>3. QED
      BY <1>6, <3>2
  <2>4. QED
    BY <1>4, <2>1, <2>2, <2>3
<1> HIDE DEF m
<1>8. SubSeq(Pending', 1, Len(Pending)) = Pending
  BY <1>7, PrefixFacts
<1>9. QED
  BY <1>7, <1>8 DEF F!Put

\* The head moves to the next element.
LEMMA TakeStep ==
    ASSUME IInv, IInv', UNCHANGED message,
           ring["queue"].head # ring["queue"].tail,
           ring'["queue"].head = After(SIZE["queue"], ring["queue"].head),
           ring'["queue"].tail = ring["queue"].tail,
           ring'["queue"].buffer = ring["queue"].buffer
    PROVE  F!Take
<1> DEFINE n == SIZE["queue"]
           h == ring["queue"].head
           t == ring["queue"].tail
           m == size("queue")
<1>1. RingsTyped /\ RingsTyped' /\ "queue" \in Queues /\ PendingIs /\ PendingIs'
  BY SizeFacts, PendingFacts, PendingAfter DEF IInv, Types
<1>2. /\ n \in Nat \ {0} /\ h \in 0 .. n - 1 /\ t \in 0 .. n - 1 /\ m = Count(n, h, t)
      /\ \A k \in 1 .. m : QueuedAt(k) = ring["queue"].buffer[Place(n, h, k)]
      /\ h # t
  BY <1>1, PlaceFacts
<1>3. /\ size("queue")' = Count(n, After(n, h), t)
      /\ \A k \in 1 .. size("queue")' :
           QueuedAt(k)' = ring["queue"].buffer[Place(n, After(n, h), k)]
  BY DEF size, QueuedAt, Contents, Place, Count
<1> HIDE DEF n, h, t
<1>4. /\ m \in Nat \ {0} /\ size("queue")' = m - 1
      /\ \A k \in 1 .. m - 1 : Place(n, After(n, h), k) = Place(n, h, k + 1)
  <2>1. After(n, h) \in 0 .. n - 1
    BY <1>2, SlotFacts
  <2>2. /\ Count(n, h, t) = IF h <= t THEN t - h ELSE t + n - h
        /\ Count(n, After(n, h), t) = IF After(n, h) <= t THEN t - After(n, h)
                                       ELSE t + n - After(n, h)
    BY <1>2, <2>1, PositionFacts
  <2>3. m \in Nat \ {0} /\ Count(n, After(n, h), t) = m - 1
    <3> HIDE DEF m
    <3>1. QED
      BY <1>2, <2>2 DEF After
  <2>4. ASSUME NEW k \in 1 .. m - 1
        PROVE  Place(n, After(n, h), k) = Place(n, h, k + 1)
    <3>1. k \in 1 .. Count(n, After(n, h), t) /\ k + 1 \in 1 .. Count(n, h, t)
      BY <1>2, <2>3
    <3>2. /\ Place(n, h, k + 1) = IF h + k < n THEN h + k ELSE h + k - n
          /\ Place(n, After(n, h), k) = IF After(n, h) + k - 1 < n THEN After(n, h) + k - 1
                                        ELSE After(n, h) + k - 1 - n
      <4>1. \A g \in 0 .. n - 1 : \A j \in 1 .. Count(n, g, t) :
              Place(n, g, j) = IF g + j - 1 < n THEN g + j - 1 ELSE g + j - 1 - n
        BY <1>2, PositionFacts
      <4>2. h + (k + 1) - 1 = h + k
        BY <1>2
      <4>3. Place(n, h, k + 1) = IF h + (k + 1) - 1 < n THEN h + (k + 1) - 1
                                 ELSE h + (k + 1) - 1 - n
        BY <1>2, <3>1, <4>1
      <4>4. QED
        BY <2>1, <3>1, <4>1, <4>2, <4>3
    <3>3. k < n
      BY <1>2, <2>2, <2>3
    <3>4. QED
      BY <1>2, <3>2, <3>3 DEF After
  <2>5. QED
    BY <1>3, <2>3, <2>4
<1>5. \A k \in 1 .. m - 1 : QueuedAt(k)' = QueuedAt(k + 1)
  BY <1>2, <1>3, <1>4
<1>6. /\ Pending \in Seq(Nat) /\ Pending' \in Seq(Nat)
      /\ Len(Pending) = m /\ Len(Pending') = m - 1
      /\ \A k \in 1 .. m - 1 : Pending'[k] = Pending[k + 1]
  <2>1. /\ Pending \in Seq(Nat) /\ Len(Pending) = m
        /\ \A k \in 1 .. m : Pending[k] = message[QueuedAt(k)]
    BY <1>1 DEF PendingIs
  <2>2. /\ Pending' \in Seq(Nat) /\ Len(Pending') = size("queue")'
        /\ \A k \in 1 .. size("queue")' : Pending'[k] = message'[QueuedAt(k)']
    BY <1>1 DEF PendingIs
  <2> HIDE DEF m
  <2>3. ASSUME NEW k \in 1 .. m - 1 PROVE Pending'[k] = Pending[k + 1]
    <3>1. k + 1 \in 1 .. m /\ k \in 1 .. size("queue")'
      BY <1>4
    <3>2. Pending'[k] = message'[QueuedAt(k)'] /\ Pending[k + 1] = message[QueuedAt(k + 1)]
      BY <2>1, <2>2, <3>1
    <3>3. QED
      BY <1>5, <3>2
  <2>4. QED
    BY <1>4, <2>1, <2>2, <2>3
<1> HIDE DEF m
<1>7. Pending # <<>> /\ Pending' = Tail(Pending)
  BY <1>4, <1>6
<1>8. QED
  BY <1>7 DEF F!Take

LEMMA PendingStep ==
    ASSUME IInv, IInv', [Next]_vars
    PROVE  F!Put \/ F!Take \/ UNCHANGED Pending
<1>1. /\ "loop" \in Threads /\ "task" \in Threads
      /\ "queue" \in Queues /\ "free" \in Queues /\ "queue" # "free"
      /\ RingsTyped /\ CallsTyped /\ Made \subseteq Elements
  BY MadeFacts, SizeFacts DEF IInv, Types
<1>2. CASE ring'["queue"] = ring["queue"] /\ message' = message
  BY <1>2, StillStep
<1>3. CASE SetData
  <2>1. Element("loop") \in Elements /\ Hand("loop") = {Element("loop")} /\ ring' = ring
    BY <1>1, <1>3, HandFacts DEF IInv, LoopIs, SetData, InHand
  <2>2. \A e \in Queued("queue") : message'[e] = message[e]
    <3>1. Queued("queue") \subseteq Elements /\ Element("loop") \notin Queued("queue")
      BY <1>1, <2>1 DEF IInv, Apart, InRings
    <3>2. QED
      BY <1>3, <2>1, <3>1 DEF IInv, Types, SetData
  <2>3. /\ size("queue")' = size("queue")
        /\ \A k \in 1 .. size("queue") : QueuedAt(k)' = QueuedAt(k)
    BY <2>1 DEF size, QueuedAt, Contents
  <2>4. QED
    BY <2>2, <2>3, SamePending, PendingFacts, PendingAfter
<1>4. ASSUME NEW t \in Threads, Step(t)
      PROVE  ~ Done(t) /\ UNCHANGED <<message, total_created>> /\ QueueStep(t)
  BY <1>4 DEF Step, QueueStep, PushLoadTail, PushFull, PushLoadHead, PushWrite, PushStoreTail,
              PopEmpty, PopCompare, PopRead, PopStoreHead, Done, At
<1>5. CASE Step("loop")
  <2>1. CASE InPop("loop", "free")
    <3>1. ring'["queue"] = ring["queue"]
      BY <1>1, <1>4, <1>5, <2>1, PopSteps DEF IInv, InRings
    <3>2. QED
      BY <1>1, <1>2, <1>4, <1>5, <3>1
  <2>2. CASE pc["loop"] = "push" /\ InPush("loop", "queue")
    <3>1. Element("loop") \notin Queued("queue")
      <4>1. Hand("loop") = {Element("loop")}
        BY <1>1, <1>4, <1>5, <2>2, HandFacts DEF InPush, InHand
      <4>2. QED
        BY <1>1, <4>1 DEF IInv, Apart
    <3>2. /\ ring'["queue"].head = ring["queue"].head
          /\ \/ ring'["queue"].tail = ring["queue"].tail
             \/ /\ ring["queue"].head # After(SIZE["queue"], ring["queue"].tail)
                /\ ring'["queue"].tail = After(SIZE["queue"], ring["queue"].tail)
          /\ \A i \in Index("queue") \ {ring["queue"].tail} :
               ring'["queue"].buffer[i] = ring["queue"].buffer[i]
      BY <1>1, <1>4, <1>5, <2>2, <3>1, PushSteps DEF IInv, InRings
    <3>3. QED
      BY <1>1, <1>4, <1>5, <3>2, StillStep, PutStep
  <2>3. QED
    BY <1>1, <1>4, <1>5, <2>1, <2>2 DEF IInv, LoopIs, Popped, Succeeded
<1>6. CASE Step("task")
  <2>1. CASE InPop("task", "queue")
    <3>1. /\ ring'["queue"].tail = ring["queue"].tail
          /\ ring'["queue"].buffer = ring["queue"].buffer
          /\ \/ ring'["queue"].head = ring["queue"].head
             \/ /\ ring["queue"].head # ring["queue"].tail
                /\ ring'["queue"].head = After(SIZE["queue"], ring["queue"].head)
      BY <1>1, <1>4, <1>6, <2>1, PopSteps DEF IInv, InRings
    <3>2. QED
      BY <1>1, <1>4, <1>6, <3>1, StillStep, TakeStep
  <2>2. CASE pc["task"] = "release" /\ InPush("task", "free")
    <3>1. Element("task") \notin Queued("free")
      <4>1. Hand("task") = {Element("task")}
        BY <1>1, <1>4, <1>6, <2>2, HandFacts DEF InPush, InHand
      <4>2. QED
        BY <1>1, <4>1 DEF IInv, Apart
    <3>2. ring'["queue"] = ring["queue"]
      BY <1>1, <1>4, <1>6, <2>2, <3>1, PushSteps DEF IInv, InRings
    <3>3. QED
      BY <1>1, <1>2, <1>4, <1>6, <3>2
  <2>3. QED
    BY <1>1, <1>4, <1>6, <2>1, <2>2 DEF IInv, TaskIs, Popped
<1>7. CASE UNCHANGED vars
  BY <1>2, <1>7 DEF vars
<1>8. CASE Enqueue \/ ConnectionChanges \/ Reuse \/ Create \/ AllocateFails \/ Pushed \/ Notify
  BY <1>2, <1>8 DEF Enqueue, ConnectionChanges, Reuse, Create, AllocateFails, Pushed, Notify
<1>9. CASE Wake \/ QueueEmpty \/ Publish \/ Released
  BY <1>2, <1>9 DEF Wake, QueueEmpty, Publish, Released
<1>10. QED
  BY <1>3, <1>5, <1>6, <1>7, <1>8, <1>9 DEF Next, Loop, Task

\* What enqueue_ accepts is published in its order, once and unchanged, although
\* elements and indices are reused while the other thread looks at them: every
\* step puts one message at the end, takes the first, or leaves them all.  (That
\* they are published eventually is the rest of ImplementsFifo.)
THEOREM InOrderOnce == Spec => F!Init /\ [][F!Put \/ F!Take]_Pending
<1>1. ASSUME Init PROVE F!Init
  <2>1. PendingIs
    BY <1>1, Initially, PendingFacts
  <2>2. size("queue") = 0
    <3>1. /\ "queue" \in Queues /\ SIZE["queue"] \in Nat \ {0}
          /\ ring["queue"].head = 0 /\ ring["queue"].tail = 0
      BY <1>1, SizeFacts DEF Init, RingInit
    <3>2. 0 \in 0 .. SIZE["queue"] - 1
      BY <3>1
    <3>3. Count(SIZE["queue"], 0, 0) = 0
      BY <3>1, <3>2, PositionFacts
    <3>4. QED
      BY <3>1, <3>3 DEF size, Count
  <2>3. QED
    BY <2>1, <2>2 DEF PendingIs, F!Init
<1>2. IInv /\ IInv' /\ [Next]_vars => [F!Put \/ F!Take]_Pending
  BY PendingStep
<1>3. QED
  BY <1>1, <1>2, Always, PTL DEF Spec
=============================================================================
