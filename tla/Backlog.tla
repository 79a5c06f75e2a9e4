------------------------------ MODULE Backlog ------------------------------
(***************************************************************************)
(* How the device sends on one API connection (esphome/components/api):    *)
(* components publish, APIConnection sends at once or through the deferred *)
(* batch, the Noise frame helper encrypts, and what the socket does not    *)
(* take at once waits in APIOverflowBuffer.  The socket takes any part of  *)
(* a write, or none of it, or fails.  This is what stands behind Link,     *)
(* where the device's messages are a queue.                                *)
(***************************************************************************)
EXTENDS Integers, SequencesExt

CONSTANTS
    API_MAX_SEND_QUEUE,         \* entries of the overflow buffer
    MAX_MESSAGES_PER_BATCH,
    FrameSize,                  \* bytes of a frame
    Items,                      \* bound: items published, numbered from 1
    Logs                        \* bound: log messages and answers

ASSUME BacklogAssumption ==
    /\ API_MAX_SEND_QUEUE \in Nat \ {0} /\ MAX_MESSAGES_PER_BATCH \in Nat \ {0}
    /\ FrameSize \in Nat \ {0} /\ Items \in Nat /\ Logs \in Nat

VARIABLES
    state,      \* of the helper: "HANDSHAKE", "DATA"; "CLOSED" when removed
    error,      \* "OK", or why flags_.remove is set
    phase,      \* where the pass of APIConnection::loop is: "idle", "flush"
    frames,     \* what each frame written so far holds: an item, or 0
    wire,       \* bytes the socket has taken, <<frame, position in the frame>>
    backlog,    \* overflow_buf_: the bytes each entry still has to send
    batch,      \* deferred_batch_
    published,  \* items published so far
    logs        \* log messages and answers so far

sending == <<frames, wire, backlog, error>>

vars == <<state, phase, sending, batch, published, logs>>

Init ==
    /\ state = "HANDSHAKE" /\ error = "OK" /\ phase = "idle"
    /\ frames = <<>> /\ wire = <<>> /\ backlog = <<>> /\ batch = <<>>
    /\ published = 0 /\ logs = 0

-----------------------------------------------------------------------------
(* The helper.  Its functions are sets of outcomes: what the socket and the *)
(* overflow buffer hold after it, and the APIError it returns.              *)

Now == [wire |-> wire, backlog |-> backlog, err |-> "OK"]

Bytes(k) == [p \in 1 .. FrameSize |-> <<k, p>>]

\* The next n frames, one after the other in the shared buffer.
NextFrames(n) == FlattenSeq([i \in 1 .. n |-> Bytes(Len(frames) + i)])

Taken(o, data) == [o EXCEPT !.wire = @ \o data]

enqueue_iov(o, data) ==
    IF Len(o.backlog) >= API_MAX_SEND_QUEUE
      THEN [o EXCEPT !.err = "FULL"]
      ELSE [o EXCEPT !.backlog = Append(@, data)]

\* Mutant of write_socket: the part the socket took is queued too.
SkipForgotten(o, data) ==
    {[o EXCEPT !.err = "WRITE_FAILED"], Taken(o, data)}
      \cup {enqueue_iov(Taken(o, SubSeq(data, 1, k)), data) : k \in 0 .. Len(data) - 1}

\* A write on the socket, when the overflow buffer is empty: it fails, or takes
\* everything, or a part (none: EWOULDBLOCK), and the rest is queued.
write_socket(o, data) ==
    {[o EXCEPT !.err = "WRITE_FAILED"], Taken(o, data)}
      \cup {enqueue_iov(Taken(o, SubSeq(data, 1, k)), SubSeq(data, k + 1, Len(data))) :
              k \in 0 .. Len(data) - 1}

\* The socket has taken m entries of the overflow buffer and r bytes of the next.
Sent(o, m, r) ==
    LET front == o.backlog[m + 1]
    IN  [o EXCEPT !.wire = @ \o FlattenSeq(SubSeq(o.backlog, 1, m)) \o SubSeq(front, 1, r),
                  !.backlog = <<SubSeq(front, r + 1, Len(front))>>
                                \o SubSeq(@, m + 2, Len(@))]

\* Mutant of try_drain: an entry that was sent whole is not freed at once.
DrainKeepsEntry(o) ==
    {[o EXCEPT !.wire = @ \o FlattenSeq(o.backlog), !.backlog = <<>>]} \cup
    (UNION {{Sent(o, m, r) : r \in 0 .. Len(o.backlog[m + 1])} \cup
            {[Sent(o, m, 0) EXCEPT !.err = "WRITE_FAILED"]} :
              m \in 0 .. Len(o.backlog) - 1})

\* try_drain on a buffer that is not empty, with drain_overflow_and_handle_errors_:
\* it stops where the socket takes only a part, or nothing, or fails.
try_drain(o) ==
    {[o EXCEPT !.wire = @ \o FlattenSeq(o.backlog), !.backlog = <<>>]} \cup
    (UNION {{Sent(o, m, r) : r \in 0 .. Len(o.backlog[m + 1]) - 1} \cup
            {[Sent(o, m, 0) EXCEPT !.err = "WRITE_FAILED"]} :
              m \in 0 .. Len(o.backlog) - 1})

Drained(o) == IF o.backlog = <<>> THEN {o} ELSE try_drain(o)

\* write_raw_iov_, write_raw_fast_buf_: older data goes first.
write_raw(o, data) ==
    UNION {IF d.err # "OK" THEN {d}
           ELSE IF d.backlog = <<>> THEN write_socket(d, data)
           ELSE {enqueue_iov(d, data)} : d \in Drained(o)}

\* Mutant of HelperLoop: the backlog is left to the next write.
LoopWithoutDrain(n) ==
    LET first == Bytes(Len(frames) + 1)
        second == Bytes(Len(frames) + 2)
        Then(outcomes, data) ==
          UNION {IF o.err # "OK" THEN {o} ELSE write_raw(o, data) : o \in outcomes}
        hello == IF n = 0 THEN {Now} ELSE Then({Now}, first)
    IN  IF n < 2 THEN hello ELSE Then(hello, second)

\* The helper's loop writes n frames of the handshake, then drains the backlog.
HelperLoop(n) ==
    LET first == Bytes(Len(frames) + 1)
        second == Bytes(Len(frames) + 2)
        Then(outcomes, data) ==
          UNION {IF o.err # "OK" THEN {o} ELSE write_raw(o, data) : o \in outcomes}
        hello == IF n = 0 THEN {Now} ELSE Then({Now}, first)
        both == IF n < 2 THEN hello ELSE Then(hello, second)
    IN  UNION {IF o.err # "OK" THEN {o} ELSE Drained(o) : o \in both}

-----------------------------------------------------------------------------
(* The connection. *)

\* The helper's outcome o, after which the frames holding new have been written.
\* An error is fatal for the connection.
Becomes(o, new) ==
    /\ wire' = o.wire /\ backlog' = o.backlog /\ error' = o.err
    /\ frames' = frames \o new

can_write_without_blocking == state = "DATA" /\ backlog = <<>>

\* Mutant of Writable: a message may join a backlog that moves.
WritableIfMoving(o) == o.err = "OK"

\* try_to_clear_buffer: a message is written only if no backlog is left.
Writable(o) == o.err = "OK" /\ o.backlog = <<>>

\* send_buffer and write_protobuf_messages: the messages are encrypted and
\* written in one piece, or not at all.
SendBuffer(messages) ==
    \E o \in Drained(Now) :
      IF Writable(o)
        THEN \E w \in write_raw(o, NextFrames(Len(messages))) : Becomes(w, messages)
        ELSE Becomes(o, <<>>)

\* APIConnection::loop runs unless the connection is to be removed, and starts
\* with the helper's loop.  In the handshake it sends the hello and the response
\* as the client's frames arrive.
Loop ==
    /\ state # "CLOSED" /\ error = "OK" /\ phase = "idle"
    /\ \E n \in 0 .. (IF state = "DATA" THEN 0 ELSE 2 - Len(frames)) :
       \E o \in HelperLoop(n) :
         /\ Becomes(o, [i \in 1 .. n |-> 0])
         /\ state' = IF Len(frames) + n = 2 /\ o.err = "OK" THEN "DATA" ELSE state
         /\ phase' = IF o.err = "OK" THEN "flush" ELSE "idle"
    /\ UNCHANGED <<batch, published, logs>>

\* Mutant of Flush: only a batch that went out whole is cleared.
FlushKeepsBatch ==
    /\ phase = "flush" /\ phase' = "idle"
    /\ \/ UNCHANGED <<sending, batch>>
       \/ \E n \in 1 .. MAX_MESSAGES_PER_BATCH :
            /\ n <= Len(batch)
            /\ SendBuffer(SubSeq(batch, 1, n))
            /\ batch' = IF frames' # frames /\ n = Len(batch) THEN <<>> ELSE batch
    /\ UNCHANGED <<state, published, logs>>

\* The pass goes on with process_batch_, if the batch is due: as many messages
\* as fit in a packet, at least one.  They leave the batch once they are written,
\* and even if that failed, unless the batch was a single message.
Flush ==
    /\ phase = "flush" /\ phase' = "idle"
    /\ \/ UNCHANGED <<sending, batch>>
       \/ \E n \in 1 .. MAX_MESSAGES_PER_BATCH :
            /\ n <= Len(batch)
            /\ SendBuffer(SubSeq(batch, 1, n))
            /\ batch' = IF frames' = frames \/ (Len(batch) = 1 /\ error' # "OK") THEN batch
                        ELSE SubSeq(batch, n + 1, Len(batch))
    /\ UNCHANGED <<state, published, logs>>

\* A component publishes while the connection is not in its loop.
\* send_message_smart_ sends at once what is urgent and can be written, and
\* leaves the rest, or what could not be sent, to the batch.
Publish ==
    /\ state = "DATA" /\ error = "OK" /\ phase = "idle" /\ published < Items
    /\ published' = published + 1
    /\ \/ can_write_without_blocking /\ SendBuffer(<<published'>>)
       \/ UNCHANGED sending
    /\ batch' = IF frames' # frames /\ error' = "OK" THEN batch
                ELSE Append(batch, published')
    /\ UNCHANGED <<state, phase, logs>>

\* A log message, or the answer to a request read in the pass, is sent at once
\* or dropped.  The pass ends if the connection is to be removed.
SendLog ==
    /\ state = "DATA" /\ error = "OK" /\ logs < Logs
    /\ logs' = logs + 1
    /\ SendBuffer(<<0>>)
    /\ phase' = IF error' = "OK" THEN phase ELSE "idle"
    /\ UNCHANGED <<state, batch, published>>

\* on_fatal_error for a reason that is not in sending: reading failed, the
\* network is down, the client is silent, or wants to leave.
FatalError ==
    /\ state # "CLOSED" /\ error = "OK"
    /\ error' = "OTHER" /\ phase' = "idle"
    /\ UNCHANGED <<state, frames, wire, backlog, batch, published, logs>>

\* APIServer::loop removes the connection; the buffer frees its entries.
RemoveClient ==
    /\ state # "CLOSED" /\ error # "OK"
    /\ state' = "CLOSED" /\ phase' = "idle" /\ backlog' = <<>>
    /\ UNCHANGED <<error, frames, wire, batch, published, logs>>

Next ==
    Loop \/ Flush \/ Publish \/ SendLog \/ FatalError \/ RemoveClient

Spec == Init /\ [][Next]_vars

\* The device's loop runs, the batch becomes due, and the socket takes bytes
\* again and again; a socket that never does is closed by the keepalive.
FairSpec ==
    /\ Spec
    /\ WF_vars(Loop) /\ WF_vars(Flush)
    /\ SF_vars(Loop /\ wire' # wire) /\ SF_vars(Flush /\ batch' # batch)

-----------------------------------------------------------------------------
(* Properties. *)

\* No entry of the overflow buffer is empty: try_drain would take the 0 that
\* the socket returns for it as "no progress" for ever.
TypeOK ==
    /\ state \in {"HANDSHAKE", "DATA", "CLOSED"}
    /\ error \in {"OK", "WRITE_FAILED", "FULL", "OTHER"}
    /\ phase \in {"idle", "flush"}
    /\ Len(backlog) <= API_MAX_SEND_QUEUE
    /\ \A i \in 1 .. Len(backlog) : backlog[i] # <<>>
    /\ batch \in Seq(1 .. published) /\ frames \in Seq(0 .. published)
    /\ logs \in 0 .. Logs

\* However the socket cuts the writes into pieces, the client gets the frames
\* in the order of their nonces, without a gap and without a byte twice: what
\* the socket has taken, followed by the backlog, is the frames written, one
\* after the other.  After an error it is the beginning of them.
StreamInOrder ==
    LET stream == wire \o FlattenSeq(backlog)
        written == FlattenSeq([k \in 1 .. Len(frames) |-> Bytes(k)])
    IN  IF error = "OK" THEN stream = written ELSE IsPrefix(stream, written)

\* "Overflow buffer full, dropping connection" is never reached, with two
\* entries or more: only the frames of the handshake can wait together, because
\* later messages are not written while anything waits.
NeverFull == error # "FULL"

\* On a connection that is not to be removed every item published is either in
\* the batch or has been written, once: also the one whose write was cut short,
\* the one published while the batch could not be flushed, and the ones of a
\* batch that was flushed in part.
OnceEach ==
    error = "OK" =>
      \A i \in 1 .. published :
        Cardinality({k \in 1 .. Len(frames) : frames[k] = i})
          + Cardinality({k \in 1 .. Len(batch) : batch[k] = i}) = 1

\* What is published reaches the socket, or the connection is removed: a
\* backlog does not stay behind although nothing more is sent.
PublishedIsSent ==
    \A i \in 1 .. Items :
      (published = i) ~>
        \/ error # "OK"
        \/ \E k \in 1 .. Len(frames) : frames[k] = i /\ Len(wire) >= k * FrameSize
=============================================================================
