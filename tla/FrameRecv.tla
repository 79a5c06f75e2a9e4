----------------------------- MODULE FrameRecv -----------------------------
(***************************************************************************)
(* esph_frame_recv on the byte stream from the device (src/api/frame.c and *)
(* esph_transport_recv of src/transport/transport.c): a header of three    *)
(* bytes with the length, then that many bytes of ciphertext, which are    *)
(* decrypted with the next nonce.  A receive that times out after two      *)
(* seconds fails, and the bytes it had read are gone.                      *)
(*                                                                         *)
(* The device sends frames 1, 2, ..., one after the other.  Only positions *)
(* in the stream are kept: what the client finds at a position is decided  *)
(* by which frame lies there.  A header read at any other position is      *)
(* ciphertext, and its length may be anything.                             *)
(***************************************************************************)
EXTENDS Integers, Sequences

CONSTANTS
    Lens,       \* ciphertext lengths of the frames, in order
    Start,      \* Start[f]: position of frame f; the last one is the end
    MAX_LEN     \* largest ciphertext length accepted (2048)

NFrames == Len(Lens)

Frames == 1 .. NFrames

ASSUME StreamAssumption ==
    /\ Lens \in Seq(1 .. MAX_LEN) /\ MAX_LEN \in Nat
    /\ Start \in [1 .. NFrames + 1 -> Nat]
    /\ Start[1] = 0
    /\ \A f \in Frames : Start[f + 1] = Start[f] + 3 + Lens[f]
    /\ \A f \in Frames, g \in 1 .. NFrames + 1 : f < g => Start[f] + 3 <= Start[g]

VARIABLES
    arrived,    \* bytes of the stream that have reached the socket
    closed,     \* the device has closed the connection
    pc,         \* "idle", or the read in progress: "hdr" or "body"
    rd,         \* bytes taken from the socket
    from,       \* position where the read in progress began
    want,       \* bytes it wants
    rn,         \* nonces used for decryption
    out,        \* frames returned to the caller
    torn        \* history: a call timed out after it had taken bytes

vars == <<arrived, closed, pc, rd, from, want, rn, out, torn>>

Init ==
    /\ arrived = 0 /\ closed = FALSE
    /\ pc = "idle" /\ rd = 0 /\ from = 0 /\ want = 0
    /\ rn = 0 /\ out = <<>> /\ torn = FALSE

-----------------------------------------------------------------------------
(* The network and the device. *)

Arrive ==
    /\ ~ closed /\ arrived < Start[NFrames + 1]
    /\ arrived' = arrived + 1
    /\ UNCHANGED <<closed, pc, rd, from, want, rn, out, torn>>

Close ==
    /\ ~ closed
    /\ closed' = TRUE
    /\ UNCHANGED <<arrived, pc, rd, from, want, rn, out, torn>>

-----------------------------------------------------------------------------
(* esph_frame_recv. *)

\* It asks for a header,
Call ==
    /\ pc = "idle"
    /\ pc' = "hdr" /\ from' = rd /\ want' = 3
    /\ UNCHANGED <<arrived, closed, rd, rn, out, torn>>

\* Mutants of RecvByte: a byte is taken that has not arrived; the last byte that
\* has arrived is left.
RecvByteAhead ==
    /\ pc # "idle" /\ rd < from + want
    /\ rd' = rd + 1
    /\ UNCHANGED <<arrived, closed, pc, from, want, rn, out, torn>>

RecvByteLags ==
    /\ pc # "idle" /\ rd < from + want /\ rd + 1 < arrived
    /\ rd' = rd + 1
    /\ UNCHANGED <<arrived, closed, pc, from, want, rn, out, torn>>

\* takes what has arrived, byte by byte,
RecvByte ==
    /\ pc # "idle" /\ rd < from + want /\ rd < arrived
    /\ rd' = rd + 1
    /\ UNCHANGED <<arrived, closed, pc, from, want, rn, out, torn>>

\* fails when nothing more comes in time, or the device has closed,
RecvFails ==
    /\ pc # "idle" /\ rd < from + want /\ rd = arrived
    /\ pc' = "idle"
    /\ torn' = (torn \/ rd # from \/ pc = "body")
    /\ UNCHANGED <<arrived, closed, rd, from, want, rn, out>>

\* The lengths a header at position p may show.
LengthAt(p) ==
    {n \in 0 .. MAX_LEN + 1 : \A f \in Frames : Start[f] = p => n = Lens[f]}

\* Mutant of HeaderDone: the header counts as part of the length.
HeaderCounted ==
    /\ pc = "hdr" /\ rd = from + want
    /\ \E n \in LengthAt(from) :
         /\ n > 0
         /\ pc' = "body" /\ from' = rd /\ want' = n - 1
    /\ UNCHANGED <<arrived, closed, rd, rn, out, torn>>

\* takes the length from the header; one above the limit is refused, a wrong
\* indicator byte only logged,
HeaderDone ==
    /\ pc = "hdr" /\ rd = from + want
    /\ \E n \in LengthAt(from) :
         IF n > MAX_LEN
           THEN pc' = "idle" /\ UNCHANGED <<from, want>>
           ELSE pc' = "body" /\ from' = rd /\ want' = n
    /\ UNCHANGED <<arrived, closed, rd, rn, out, torn>>

\* The ciphertext read is that of frame f, under the nonce the client is at.
Genuine(f) == from = Start[f] + 3 /\ want = Lens[f] /\ rn = f - 1

\* Mutant of BodyDone: a failed decryption is not noticed, and the caller is
\* given the last frame again.
BodyErrorIgnored ==
    /\ pc = "body" /\ rd = from + want
    /\ pc' = "idle"
    /\ \/ \E f \in Frames :
            /\ Genuine(f)
            /\ out' = Append(out, f) /\ rn' = f
       \/ /\ \A f \in Frames : ~ Genuine(f)
          /\ rn' \in {rn, rn + 1}
          /\ out' = IF out = <<>> THEN out ELSE Append(out, out[Len(out)])
    /\ UNCHANGED <<arrived, closed, rd, from, want, torn>>

\* and decrypts.  What a failed decryption does to the nonce is the library's.
BodyDone ==
    /\ pc = "body" /\ rd = from + want
    /\ pc' = "idle"
    /\ \/ \E f \in Frames :
            /\ Genuine(f)
            /\ out' = Append(out, f) /\ rn' = f
       \/ /\ \A f \in Frames : ~ Genuine(f)
          /\ rn' \in {rn, rn + 1} /\ UNCHANGED out
    /\ UNCHANGED <<arrived, closed, rd, from, want, torn>>

Next ==
    Arrive \/ Close \/ Call \/ RecvByte \/ RecvFails \/ HeaderDone \/ BodyDone

Spec == Init /\ [][Next]_vars

\* The device keeps sending, and the client keeps calling.  Receives may fail
\* at any time, but nothing makes them.
FairSpec ==
    /\ Spec
    /\ WF_vars(Arrive) /\ WF_vars(Call) /\ WF_vars(RecvByte)
    /\ WF_vars(HeaderDone) /\ WF_vars(BodyDone)

-----------------------------------------------------------------------------
(* Properties. *)

\* The client never takes more bytes than have arrived, and never more than the
\* read in progress wants.
TypeOK ==
    /\ arrived \in 0 .. Start[NFrames + 1] /\ closed \in BOOLEAN
    /\ pc \in {"idle", "hdr", "body"}
    /\ rd \in 0 .. arrived
    /\ from \in Nat /\ want \in 0 .. MAX_LEN + 3
    /\ pc # "idle" => from <= rd /\ rd <= from + want
    /\ rn \in Nat /\ out \in Seq(Frames)
    /\ torn \in BOOLEAN

\* As long as no call timed out in the middle of a frame, the caller has every
\* frame the device sent, in order, and the next call begins where the next
\* frame does: a timeout between two frames costs nothing, however the bytes
\* are cut into segments (esph_transport_recv loops until it has them all).
NothingLost ==
    ~ torn =>
      /\ out = [i \in 1 .. rn |-> i]
      /\ rn <= NFrames
      /\ pc = "idle" => rd = Start[rn + 1]

\* Whatever is lost, frames are returned in the order they were sent, and none
\* twice: reading on from the middle of a frame never makes one up, or brings
\* an old one back.
InOrder ==
    \A i, j \in 1 .. Len(out) : i < j => out[i] < out[j]

\* Every frame gets to the caller, unless a call fails in the middle of one or
\* the device closes.
AllDelivered == <>(torn \/ closed \/ Len(out) = NFrames)

=============================================================================
