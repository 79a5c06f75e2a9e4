----------------------------- MODULE FrameSend -----------------------------
(***************************************************************************)
(* esph_frame_send against the device that reads: the frame is encrypted   *)
(* with the next nonce, then its header and its ciphertext are pushed into *)
(* the socket, which may stop taking bytes anywhere (esph_transport_send   *)
(* fails after two seconds).  The application may go on sending after a    *)
(* call that failed.  The device reads with the frame helper's             *)
(* try_read_frame_, which keeps what it has read of a frame between passes *)
(* of its loop.                                                            *)
(***************************************************************************)
EXTENDS Integers, Sequences

CONSTANTS
    Lens,       \* ciphertext lengths of the frames, in order
    MAX_LEN     \* largest length the device accepts (MAX_MESSAGE_SIZE)

NFrames == Len(Lens)

Frames == 1 .. NFrames

ASSUME SendAssumption == Lens \in Seq(1 .. MAX_LEN) /\ MAX_LEN \in Nat

VARIABLES
    nonce,      \* frames encrypted so far; the last one is being sent
    sent,       \* bytes of it the socket has taken; -1 when no call is active
    failed,     \* frames whose call returned -1
    alive,      \* the client process exists
    wire,       \* bytes in the socket, <<frame, position in the frame>>
    state,      \* the helper: "DATA", "FAILED", or "CLOSED" when removed
    rx_header,  \* rx_header_buf_
    rx_buf,     \* rx_buf_, what has been read of it
    msg_size,   \* length the header shows
    delivered   \* frames handed to read_message_

clientVars == <<nonce, sent, failed, alive>>

deviceVars == <<state, rx_header, rx_buf, msg_size, delivered>>

vars == <<clientVars, wire, deviceVars>>

Init ==
    /\ nonce = 0 /\ sent = -1 /\ failed = {} /\ alive = TRUE
    /\ wire = <<>>
    /\ state = "DATA" /\ rx_header = <<>> /\ rx_buf = <<>> /\ msg_size = 0
    /\ delivered = <<>>

-----------------------------------------------------------------------------
(* The client. *)

\* The nonce is used up whatever becomes of the frame.
Call ==
    /\ alive /\ sent = -1 /\ nonce < NFrames
    /\ nonce' = nonce + 1 /\ sent' = 0
    /\ UNCHANGED <<failed, alive, wire, deviceVars>>

Total(f) == 3 + Lens[f]

\* The socket takes one more byte of the header or of the ciphertext.
SendByte ==
    /\ alive /\ sent # -1 /\ sent < Total(nonce)
    /\ sent' = sent + 1
    /\ wire' = Append(wire, <<nonce, sent + 1>>)
    /\ UNCHANGED <<nonce, failed, alive, deviceVars>>

\* send gives up: its buffer stayed full, or the device has closed.
SendFails ==
    /\ alive /\ sent # -1 /\ sent < Total(nonce)
    /\ sent' = -1 /\ failed' = failed \cup {nonce}
    /\ UNCHANGED <<nonce, alive, wire, deviceVars>>

\* What is sent after the device has closed is answered by a reset, and the
\* next send raises SIGPIPE (Linux), which nothing ignores.
SendRaises ==
    /\ alive /\ sent # -1 /\ sent < Total(nonce)
    /\ state = "CLOSED" /\ wire # <<>>
    /\ alive' = FALSE
    /\ UNCHANGED <<nonce, sent, failed, wire, deviceVars>>

SendReturns ==
    /\ alive /\ sent # -1 /\ sent = Total(nonce)
    /\ sent' = -1
    /\ UNCHANGED <<nonce, failed, alive, wire, deviceVars>>

-----------------------------------------------------------------------------
(* The device. *)

\* A header in place shows indicator 1 and the length of its frame; anything
\* else is ciphertext, or a header cut short, and shows any.
Shows(h) ==
    {<<1, Lens[f]>> : f \in {g \in Frames : h = [i \in 1 .. 3 |-> <<g, i>>]}}

ShownBy(h) == IF Shows(h) # {} THEN Shows(h) ELSE {0, 1} \X (0 .. MAX_LEN + 1)

\* try_read_frame_ takes n bytes from the socket.
Take(n) == wire' = SubSeq(wire, n + 1, Len(wire))

Taken(n) == SubSeq(wire, 1, n)

\* Mutant of ReadHeader: a header that comes in pieces starts over.
HeaderStartsOver ==
    \E n \in 1 .. 3 - Len(rx_header) :
      /\ state = "DATA" /\ n <= Len(wire)
      /\ Take(n)
      /\ IF n < 3
           THEN rx_header' = <<>> /\ UNCHANGED <<state, msg_size>>
           ELSE /\ rx_header' = Taken(n)
                /\ \E shown \in ShownBy(Taken(n)) :
                     IF shown[1] # 1 \/ shown[2] > MAX_LEN
                       THEN state' = "FAILED" /\ UNCHANGED msg_size
                       ELSE msg_size' = shown[2] /\ UNCHANGED state
      /\ UNCHANGED <<clientVars, rx_buf, delivered>>

\* The header comes in any number of pieces; a wrong indicator or a length
\* above the limit is fatal.
ReadHeader ==
    \E n \in 1 .. 3 - Len(rx_header) :
      /\ state = "DATA" /\ n <= Len(wire)
      /\ Take(n)
      /\ LET h == rx_header \o Taken(n)
         IN  IF Len(h) < 3
               THEN rx_header' = h /\ UNCHANGED <<state, msg_size>>
               ELSE /\ rx_header' = h
                    /\ \E shown \in ShownBy(h) :
                         IF shown[1] # 1 \/ shown[2] > MAX_LEN
                           THEN state' = "FAILED" /\ UNCHANGED msg_size
                           ELSE msg_size' = shown[2] /\ UNCHANGED state
      /\ UNCHANGED <<clientVars, rx_buf, delivered>>

\* Mutant of ReadBody: as many bytes as there are.
BodyOverrun ==
    \E n \in 1 .. MAX_LEN :
      /\ state = "DATA" /\ Len(rx_header) = 3
      /\ Len(rx_buf) < msg_size /\ n <= Len(wire)
      /\ Take(n)
      /\ rx_buf' = rx_buf \o Taken(n)
      /\ UNCHANGED <<clientVars, state, rx_header, msg_size, delivered>>

\* So does the body.
ReadBody ==
    \E n \in 1 .. MAX_LEN :
      /\ state = "DATA" /\ Len(rx_header) = 3
      /\ n <= msg_size - Len(rx_buf) /\ n <= Len(wire)
      /\ Take(n)
      /\ rx_buf' = rx_buf \o Taken(n)
      /\ UNCHANGED <<clientVars, state, rx_header, msg_size, delivered>>

\* The buffer holds the ciphertext of frame f, whole.
Holds(f) == rx_buf = [i \in 1 .. Lens[f] |-> <<f, 3 + i>>]

\* Mutant of ReadPacket: a frame that does not decrypt is skipped.
PacketSkipped ==
    /\ state = "DATA" /\ Len(rx_header) = 3 /\ Len(rx_buf) = msg_size
    /\ rx_header' = <<>> /\ rx_buf' = <<>>
    /\ \/ \E f \in Frames : Holds(f) /\ delivered' = Append(delivered, f)
       \/ (\A f \in Frames : ~ Holds(f)) /\ UNCHANGED delivered
    /\ UNCHANGED <<clientVars, state, wire, msg_size>>

\* read_packet on a complete frame: one that does not decrypt under the next
\* nonce is fatal.
ReadPacket ==
    /\ state = "DATA" /\ Len(rx_header) = 3 /\ Len(rx_buf) = msg_size
    /\ rx_header' = <<>> /\ rx_buf' = <<>>
    /\ LET f == Len(delivered) + 1
       IN  IF f \in Frames /\ Holds(f)
             THEN delivered' = Append(delivered, f) /\ UNCHANGED state
             ELSE state' = "FAILED" /\ UNCHANGED delivered
    /\ UNCHANGED <<clientVars, wire, msg_size>>

\* remove_client_, after an error or for a reason of the device's own.  Bytes
\* it has not read are lost.
Remove ==
    /\ state # "CLOSED"
    /\ state' = "CLOSED" /\ wire' = <<>>
    /\ UNCHANGED <<clientVars, rx_header, rx_buf, msg_size, delivered>>

Next ==
    \/ Call \/ SendByte \/ SendFails \/ SendRaises \/ SendReturns
    \/ ReadHeader \/ ReadBody \/ ReadPacket \/ Remove

Spec == Init /\ [][Next]_vars

\* The device's loop runs.
FairSpec ==
    Spec /\ WF_vars(ReadHeader) /\ WF_vars(ReadBody) /\ WF_vars(ReadPacket)

-----------------------------------------------------------------------------
(* Properties. *)

\* The device never reads more of a frame than its header says.
TypeOK ==
    /\ nonce \in 0 .. NFrames /\ sent \in -1 .. MAX_LEN + 3
    /\ failed \subseteq 1 .. nonce /\ alive \in BOOLEAN
    /\ state \in {"DATA", "FAILED", "CLOSED"}
    /\ msg_size \in 0 .. MAX_LEN
    /\ Len(rx_header) <= 3 /\ Len(rx_buf) <= msg_size

\* After a call of esph_frame_send that failed the device acts on no frame any
\* more, although later calls may return 0: neither on the one that failed, of
\* which it can never have all bytes, nor on a later one, whose nonce is not
\* the next.  A command is never carried out after the loss of an earlier one.
FailedIsFinal ==
    \A i \in 1 .. Len(delivered) : \A f \in failed : delivered[i] < f

\* As long as no call has failed the device gets every frame that was sent,
\* unless it closes: however the bytes are cut into pieces, it finds no error
\* in what it reads.
SentIsDelivered ==
    \A f \in Frames :
      (nonce = f /\ sent = Total(f)) ~>
        (failed # {} \/ state = "CLOSED" \/ Len(delivered) >= f)
=============================================================================
