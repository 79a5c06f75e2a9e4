------------------------------- MODULE Device -------------------------------
(***************************************************************************)
(* The device's end of one API connection after the Noise handshake and    *)
(* the hello exchange: APIConnection of the ESPHome firmware               *)
(* (esphome/components/api).  Every pass of its loop reads messages, then  *)
(* flushes the deferred batch if its timer expired, then lets the active   *)
(* iterator queue the next part of the entity list or of the current       *)
(* states.  Other components run, and entities change, between passes.     *)
(* A reading is taken when its item is sent, not when it is queued.        *)
(***************************************************************************)
EXTENDS Link

CONSTANTS
    MaxBatch,    \* MAX_INITIAL_PER_BATCH and MAX_MESSAGES_PER_BATCH
    BatchDelay,  \* get_batch_delay_ms_: 0, or 100 by default
    Readings,    \* the readings a sensor or text sensor may have
    Start,       \* the readings after a reboot
    MaxChanges,  \* bound: how often entities change by themselves
    MaxPings     \* bound: how often the device finds the client idle

VARIABLES
    value,       \* current reading of each entity
    phase,       \* where the pass is: "idle" (between passes), "read", "flush"
    iter,        \* active_iterator_: "none", "list" or "state"
    at,          \* the iterator's position; Len(Entities) + 2 is completed
    batch,       \* deferred_batch_: a sequence of items
    subscribed,  \* flags_.state_subscription
    sentPing,    \* flags_.sent_ping
    eager,       \* flags_.should_try_send_immediately
    jumped,      \* history: an urgent message took another item's place
    changes,     \* spontaneous changes so far
    pings        \* idle periods so far

connVars == <<phase, iter, at, batch, subscribed, sentPing, eager, jumped>>

deviceVars == <<value, connVars, changes, pings>>

-----------------------------------------------------------------------------
(* The batch. *)

ReadingsOf(kind) ==
    [switch |-> {0, 1}, binary_sensor |-> {Missing, 0, 1}, button |-> {Missing},
     sensor |-> Readings \cup {Missing}, text_sensor |-> Readings \cup {Missing},
     other |-> Readings \cup {Missing}][kind]

\* A batch takes a message, and an entity starts with a reading it may have.
ASSUME DeviceAssumption ==
    /\ MaxBatch \in Nat \ {0} /\ BatchDelay \in Nat
    /\ Readings \subseteq Int \ {Missing}
    /\ Start \in [Ents -> Int] /\ \A i \in Ents : Start[i] \in ReadingsOf(Entities[i].kind)
    /\ MaxChanges \in Nat /\ MaxPings \in Nat

\* add_item: an item that is already queued is not queued again.
AddItem(b, item) == IF item \in Range(b) THEN b ELSE Append(b, item)

\* add_item_front: the new item swaps places with the first one.
AddItemFront(b, item) ==
    IF b = <<>> THEN <<item>> ELSE Append([b EXCEPT ![1] = item], b[1])

\* dispatch_message_ encodes the entity as it is now.
Encode(item) ==
    IF item.type = "state" THEN StateMsg(item.ent, value[item.ent]) ELSE item

\* Mutant of Room: one message more than the socket takes.
RoomPlusOne(q, n) == Len(q) + n <= MaxQueue + 1

\* The socket's queue q takes n more messages (try_to_clear_buffer).
Room(q, n) == Len(q) + n <= MaxQueue

\* Mutant of FlushSize: the whole batch in one packet, or nothing.
FlushWhole(q, b) == IF Room(q, Len(b)) THEN Len(b) ELSE 0

\* How many items of the batch go out: as many as one packet holds, or none.
FlushSize(q, b) ==
    LET n == IF Len(b) > MaxBatch THEN MaxBatch ELSE Len(b)
    IN  IF Room(q, n) THEN n ELSE 0

\* Mutant of ProcessBatch: the batch is cleared after a partial flush too.
ProcessBatchClears(q, b) ==
    /\ toClient' = q \o [j \in 1 .. FlushSize(q, b) |-> Encode(b[j])]
    /\ batch' = <<>>

\* process_batch_ on the batch b, when the socket's queue is q.
ProcessBatch(q, b) ==
    LET n == FlushSize(q, b)
    IN  /\ toClient' = q \o [j \in 1 .. n |-> Encode(b[j])]
        /\ batch' = SubSeq(b, n + 1, Len(b))

Queue(q, b) == toClient' = q /\ batch' = b

-----------------------------------------------------------------------------
(* The iterators. *)

StateItem(i) == [type |-> "state", ent |-> i]

Immediate == eager /\ BatchDelay = 0

\* send_message_smart_: a state goes out at once if it may and the socket takes
\* it, or with the batch.  x holds the socket's queue q and the batch b.
SendSmart(x, item, msg) ==
    IF Immediate /\ Room(x.q, 1)
      THEN [x EXCEPT !.q = Append(@, msg)]
      ELSE [x EXCEPT !.b = AddItem(@, item)]

Buffers == [q |-> toClient, b |-> batch]

\* A position of the active iterator: entity i, or the end of the list.  The list
\* iterator queues its part of the list, the state iterator sends a state; it is
\* silent about an entity without state.
Visit(x, i) ==
    IF iter = "list"
      THEN [x EXCEPT !.b = AddItem(@, IF i \in Ents THEN ListMsg(i) ELSE Msg("list_done"))]
      ELSE IF i \in Ents /\ Entities[i].kind # "button"
             THEN SendSmart(x, StateItem(i), Encode(StateItem(i)))
             ELSE x

Completed == Len(Entities) + 2

\* The buffers when the iterator gets to a position.
Visited ==
    LET to[p \in at .. Completed] == IF p = at THEN Buffers ELSE Visit(to[p - 1], p - 1)
    IN  to

\* process_iterator_batch_ stops after max_batch new items, or at the end.
NextPosition(visited) ==
    LET enough == {p \in at .. Completed :
                     p = Completed \/ Len(visited[p].b) - Len(batch) >= MaxBatch}
    IN  CHOOSE p \in enough : \A q \in enough : p <= q

-----------------------------------------------------------------------------
(* Actions. *)

DeviceInit ==
    /\ value = Start /\ phase = "idle"
    /\ iter = "none" /\ at = 1 /\ batch = <<>>
    /\ subscribed = FALSE /\ sentPing = FALSE /\ eager = FALSE /\ jumped = FALSE
    /\ changes = 0 /\ pings = 0

\* A new APIConnection, as it is when the hello exchange is over.
Accept ==
    /\ dev' = "up" /\ phase' = "idle"
    /\ iter' = "none" /\ at' = 1 /\ batch' = <<>>
    /\ subscribed' = FALSE /\ sentPing' = FALSE /\ eager' = FALSE /\ jumped' = FALSE
    /\ UNCHANGED <<value, changes, pings>>

Listens == dev = "up" /\ subscribed

\* Mutant of Publish: a change that cannot be sent at once is not queued.
PublishOrDrop(i, v) ==
    /\ value' = [value EXCEPT ![i] = v]
    /\ LET x == SendSmart(Buffers, StateItem(i), StateMsg(i, v))
       IN  IF Listens /\ (Immediate => Room(toClient, 1))
             THEN Queue(x.q, x.b)
             ELSE Queue(toClient, batch)

\* Mutant of Publish: the reading sent is the one before the change.
PublishFirst(i, v) ==
    /\ value' = [value EXCEPT ![i] = v]
    /\ LET x == SendSmart(Buffers, StateItem(i), StateMsg(i, value[i]))
       IN  IF Listens THEN Queue(x.q, x.b) ELSE Queue(toClient, batch)

\* API_DISPATCH_UPDATE: a change is told to a connection that subscribed.
Publish(i, v) ==
    /\ value' = [value EXCEPT ![i] = v]
    /\ LET x == SendSmart(Buffers, StateItem(i), StateMsg(i, v))
       IN  IF Listens THEN Queue(x.q, x.b) ELSE Queue(toClient, batch)

\* An entity changes by itself: a measurement, a button on the device.
EntityChanges ==
    \E i \in Ents :
      /\ phase = "idle" /\ changes < MaxChanges
      /\ \E v \in ReadingsOf(Entities[i].kind) \ {Missing, value[i]} : Publish(i, v)
      /\ changes' = changes + 1
      /\ UNCHANGED <<dev, phase, iter, at, subscribed, sentPing, eager, jumped, pings,
                     toDevice>>

\* get_switch_by_key: the first switch with that key.
SwitchesWithKey(key) ==
    {i \in Ents : Entities[i].kind = "switch" /\ Entities[i].key = key}

Commanded(key) ==
    CHOOSE i \in SwitchesWithKey(key) : \A j \in SwitchesWithKey(key) : i <= j

\* A request that is answered at once.  An answer the socket has no room for is
\* a fatal error: Drop.
Answer(m) ==
    /\ Room(toClient, 1)
    /\ toClient' = Append(toClient, m)
    /\ UNCHANGED <<value, iter, at, batch, subscribed, sentPing>>

OnListEntities ==
    /\ iter' = "list" /\ at' = 1
    /\ UNCHANGED <<value, batch, subscribed, sentPing, toClient>>

\* Mutant of OnSubscribeStates: later changes only, no initial states.
SubscribeToChanges ==
    /\ subscribed' = TRUE
    /\ UNCHANGED <<value, iter, at, batch, sentPing, toClient>>

OnSubscribeStates ==
    /\ subscribed' = TRUE
    /\ IF iter = "none" THEN iter' = "state" /\ at' = 1 ELSE UNCHANGED <<iter, at>>
    /\ UNCHANGED <<value, batch, sentPing, toClient>>

\* Mutant of OnPingResponse: sent_ping is not reset.
PingResponseIgnored ==
    UNCHANGED <<value, iter, at, batch, subscribed, sentPing, toClient>>

OnPingResponse ==
    /\ sentPing' = FALSE
    /\ UNCHANGED <<value, iter, at, batch, subscribed, toClient>>

\* turn_on/turn_off publish only a state that differs from the current one.
OnSwitchCommand(m) ==
    /\ IF SwitchesWithKey(m.key) # {} /\ value[Commanded(m.key)] # m.on
         THEN Publish(Commanded(m.key), m.on)
         ELSE UNCHANGED <<value, batch, toClient>>
    /\ UNCHANGED <<iter, at, subscribed, sentPing>>

\* read_message_ on the next message.
ReadMessage ==
    /\ dev = "up" /\ phase \in {"idle", "read"} /\ toDevice # <<>>
    /\ phase' = "read"
    /\ toDevice' = Tail(toDevice)
    /\ LET m == Head(toDevice)
       IN  \/ m.type = "device_info_request" /\ Answer(Msg("device_info_response"))
           \/ m.type = "ping_request" /\ Answer(Msg("ping_response"))
           \/ m.type = "ping_response" /\ OnPingResponse
           \/ m.type = "list_entities_request" /\ OnListEntities
           \/ m.type = "subscribe_states_request" /\ OnSubscribeStates
           \/ m.type = "switch_command" /\ OnSwitchCommand(m)
    /\ UNCHANGED <<dev, eager, jumped, changes, pings>>

\* The batch timer has expired: process_batch_.
FlushBatch ==
    /\ dev = "up" /\ phase \in {"idle", "read"} /\ FlushSize(toClient, batch) > 0
    /\ phase' = "flush"
    /\ ProcessBatch(toClient, batch)
    /\ UNCHANGED <<value, dev, iter, at, subscribed, sentPing, eager, jumped, changes,
                   pings, toDevice>>

\* The pass ends: no iterator is active,
PassEnds ==
    /\ dev = "up" /\ phase # "idle" /\ iter = "none"
    /\ phase' = "idle"
    /\ UNCHANGED <<value, dev, iter, at, batch, subscribed, sentPing, eager, jumped,
                   changes, pings, toClient, toDevice>>

\* or process_active_iterator_ queues the next items, and flushes a full batch,
IteratorAdvances ==
    /\ dev = "up" /\ iter # "none" /\ at # Completed
    /\ phase' = "idle"
    /\ LET x == Visited[NextPosition(Visited)]
       IN  /\ at' = NextPosition(Visited)
           /\ IF Len(x.b) >= MaxBatch THEN ProcessBatch(x.q, x.b) ELSE Queue(x.q, x.b)
    /\ UNCHANGED <<value, dev, iter, subscribed, sentPing, eager, jumped, changes, pings,
                   toDevice>>

\* or it finds the iterator at its end: a subscribed client gets the current
\* states after the list; otherwise finalize_iterator_sync_ flushes.
IteratorCompletes ==
    /\ dev = "up" /\ iter # "none" /\ at = Completed
    /\ phase' = "idle"
    /\ IF iter = "list" /\ subscribed
         THEN iter' = "state" /\ at' = 1 /\ UNCHANGED <<batch, toClient, eager>>
         ELSE iter' = "none" /\ UNCHANGED at /\ ProcessBatch(toClient, batch) /\ eager' = TRUE
    /\ UNCHANGED <<value, dev, subscribed, sentPing, jumped, changes, pings, toDevice>>

\* A message that cannot wait: at once, or in front of the batch.
SendUrgent(m) ==
    IF Room(toClient, 1)
      THEN Queue(Append(toClient, m), batch) /\ UNCHANGED jumped
      ELSE Queue(toClient, AddItemFront(batch, m)) /\ jumped' = (jumped \/ batch # <<>>)

\* check_keepalive_ on a client that was silent for KEEPALIVE_TIMEOUT_MS.
KeepalivePing ==
    /\ dev = "up" /\ phase = "idle" /\ ~ sentPing /\ pings < MaxPings
    /\ SendUrgent(Msg("ping_request"))
    /\ sentPing' = TRUE
    /\ pings' = pings + 1
    /\ UNCHANGED <<value, dev, phase, iter, at, subscribed, eager, changes, toDevice>>

\* on_shutdown asks the client to disconnect.
Shutdown ==
    /\ dev = "up" /\ phase = "idle"
    /\ Msg("disconnect_request") \notin Range(toClient) \cup Range(batch)
    /\ SendUrgent(Msg("disconnect_request"))
    /\ UNCHANGED <<value, dev, phase, iter, at, subscribed, sentPing, eager, changes, pings,
                   toDevice>>

\* remove_client_: after a fatal error, a keepalive that was not answered, a
\* client that closed; or a reboot, after which entities start afresh.
Drop ==
    /\ dev = "up"
    /\ dev' = "none" /\ phase' = "idle"
    /\ toDevice' = <<>>
    /\ iter' = "none" /\ at' = 1 /\ batch' = <<>>
    /\ subscribed' = FALSE /\ sentPing' = FALSE /\ eager' = FALSE
    /\ value' \in {value, Start}
    /\ UNCHANGED <<jumped, changes, pings, toClient>>

\* What the loop does for a connection that works; Drop and Shutdown end it.
Serve ==
    \/ ReadMessage \/ FlushBatch \/ PassEnds \/ IteratorAdvances \/ IteratorCompletes
    \/ KeepalivePing

DeviceTypeOK ==
    /\ \A i \in Ents : value[i] \in ReadingsOf(Entities[i].kind)
    /\ dev \in {"none", "up"} /\ phase \in {"idle", "read", "flush"}
    /\ iter \in {"none", "list", "state"}
    /\ at \in 1 .. Completed
    /\ subscribed \in BOOLEAN /\ sentPing \in BOOLEAN /\ eager \in BOOLEAN
=============================================================================
