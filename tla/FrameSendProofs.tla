-------------------------- MODULE FrameSendProofs --------------------------
(***************************************************************************)
(* The safety properties of FrameSend for every sequence of frames.  That  *)
(* nothing is delivered after a failed call rests on one byte: a call that *)
(* fails has not sent the last byte of its frame, and never will, because  *)
(* a frame is sent under its nonce only once.  Whatever the device makes   *)
(* of the bytes it finds, it can only deliver a frame whose last byte it   *)
(* has.                                                                    *)
(***************************************************************************)
EXTENDS FrameSend, SequenceTheorems, TLAPS

Byte == Nat \X Nat

\* The frames the socket has taken whole.
Finished ==
    {f \in 1 .. nonce : f \notin failed /\ (f = nonce => sent \in {-1, Total(nonce)})}

\* The last bytes that occur in s are those of frames in F.
LastBytes(s, F) ==
    \A i \in 1 .. Len(s) : \A f \in Frames : s[i] = <<f, Total(f)>> => f \in F

Buffers ==
    /\ wire \in Seq(Byte)
    /\ rx_header \in Seq(Byte) /\ rx_buf \in Seq(Byte)
    /\ Len(rx_header) < 3 => rx_buf = <<>>

\* The call in progress has not failed, and sends no more than its frame.
Sending == sent # -1 => nonce \in Frames /\ nonce \notin failed /\ sent <= Total(nonce)

OnlyFinished == LastBytes(wire, Finished) /\ LastBytes(rx_buf, Finished)

\* The device delivers frame after frame, and only such as are finished.
InTurn ==
    /\ delivered \in Seq(Frames)
    /\ \A i \in 1 .. Len(delivered) : delivered[i] = i
    /\ 1 .. Len(delivered) \subseteq Finished

IInv == TypeOK /\ Buffers /\ Sending /\ OnlyFinished /\ InTurn

-----------------------------------------------------------------------------
(* Frames and bytes. *)

LEMMA FrameFacts ==
    /\ NFrames \in Nat /\ MAX_LEN \in Nat
    /\ \A f \in Frames : f \in Nat /\ Lens[f] \in 1 .. MAX_LEN
                         /\ Total(f) \in 4 .. MAX_LEN + 3
<1>1. NFrames \in Nat
  BY SendAssumption DEF NFrames
<1>2. \A f \in Frames : f \in Nat /\ Lens[f] \in 1 .. MAX_LEN
  BY SendAssumption DEF Frames, NFrames
<1>3. QED
  BY <1>1, <1>2, SendAssumption DEF Total

\* Neither a piece of a sequence nor two such sequences, one after the other,
\* have last bytes that the sequences have not.
LEMMA LastBytesPiece ==
    ASSUME NEW F, NEW s \in Seq(Byte), LastBytes(s, F),
           NEW a \in Nat \ {0}, NEW b \in 0 .. Len(s)
    PROVE  SubSeq(s, a, b) \in Seq(Byte) /\ LastBytes(SubSeq(s, a, b), F)
<1>1. /\ SubSeq(s, a, b) \in Seq(Byte)
      /\ Len(SubSeq(s, a, b)) = IF a <= b THEN b - a + 1 ELSE 0
      /\ \A i \in 1 .. b - a + 1 : SubSeq(s, a, b)[i] = s[a + i - 1]
  <2>1. \A i \in a .. b : s[i] \in Byte
    OBVIOUS
  <2>2. a \in Int /\ b \in Int
    OBVIOUS
  <2>3. QED
    BY <2>1, <2>2, SubSeqProperties
<1>2. ASSUME NEW i \in 1 .. Len(SubSeq(s, a, b)), NEW f \in Frames,
             SubSeq(s, a, b)[i] = <<f, Total(f)>>
      PROVE  f \in F
  <2>1. i \in 1 .. b - a + 1 /\ a + i - 1 \in 1 .. Len(s)
    BY <1>1
  <2>2. s[a + i - 1] = <<f, Total(f)>>
    BY <1>1, <1>2, <2>1
  <2>3. QED
    BY <2>1, <2>2 DEF LastBytes
<1>3. QED
  BY <1>1, <1>2 DEF LastBytes

LEMMA LastBytesConcat ==
    ASSUME NEW F, NEW s \in Seq(Byte), LastBytes(s, F),
           NEW t \in Seq(Byte), LastBytes(t, F)
    PROVE  s \o t \in Seq(Byte) /\ LastBytes(s \o t, F)
<1>1. ASSUME NEW i \in 1 .. Len(s \o t), NEW f \in Frames,
             (s \o t)[i] = <<f, Total(f)>>
      PROVE  f \in F
  <2>1. Len(s \o t) = Len(s) + Len(t) /\ Len(s) \in Nat /\ Len(t) \in Nat
    OBVIOUS
  <2>2. CASE i <= Len(s)
    <3>1. i \in 1 .. Len(s) /\ s[i] = <<f, Total(f)>>
      BY <1>1, <2>1, <2>2
    <3>2. QED
      BY <3>1 DEF LastBytes
  <2>3. CASE ~ (i <= Len(s))
    <3>1. i - Len(s) \in 1 .. Len(t) /\ t[i - Len(s)] = <<f, Total(f)>>
      BY <1>1, <2>1, <2>3
    <3>2. QED
      BY <3>1 DEF LastBytes
  <2>4. QED
    BY <2>2, <2>3
<1>2. s \o t \in Seq(Byte)
  OBVIOUS
<1>3. QED
  BY <1>1, <1>2 DEF LastBytes

\* The device takes the first n bytes of the wire and leaves the others.
LEMMA TakeFacts ==
    ASSUME NEW F, NEW n \in 1 .. Len(wire), wire \in Seq(Byte),
           LastBytes(wire, F), Take(n)
    PROVE  /\ Taken(n) \in Seq(Byte) /\ Len(Taken(n)) = n /\ LastBytes(Taken(n), F)
           /\ wire' \in Seq(Byte) /\ LastBytes(wire', F)
<1>1. 1 \in Nat \ {0} /\ n + 1 \in Nat \ {0} /\ n \in 0 .. Len(wire)
      /\ Len(wire) \in 0 .. Len(wire)
  OBVIOUS
<1>2. Taken(n) \in Seq(Byte) /\ LastBytes(Taken(n), F)
  BY <1>1, LastBytesPiece DEF Taken
<1>3. Len(Taken(n)) = n
  BY DEF Taken
<1>4. wire' \in Seq(Byte) /\ LastBytes(wire', F)
  BY <1>1, LastBytesPiece DEF Take
<1>5. QED
  BY <1>2, <1>3, <1>4

\* A header shows a length; one that is accepted is within the limit.
LEMMA ShownFacts ==
    ASSUME NEW h, NEW shown \in ShownBy(h), ~ (shown[1] # 1 \/ shown[2] > MAX_LEN)
    PROVE  shown[2] \in 0 .. MAX_LEN
<1>1. CASE Shows(h) # {}
  <2>1. PICK f \in Frames : shown = <<1, Lens[f]>>
    BY <1>1 DEF ShownBy, Shows
  <2>2. QED
    BY <2>1, FrameFacts
<1>2. CASE Shows(h) = {}
  <2>1. shown \in {0, 1} \X (0 .. MAX_LEN + 1)
    BY <1>2 DEF ShownBy
  <2>2. shown[2] \in 0 .. MAX_LEN + 1 /\ MAX_LEN \in Nat
    BY <2>1, FrameFacts
  <2>3. QED
    BY <2>2
<1>3. QED
  BY <1>1, <1>2

-----------------------------------------------------------------------------

LEMMA InitHolds == Init => IInv
<1> SUFFICES ASSUME Init PROVE IInv
  OBVIOUS
<1>1. TypeOK
  BY FrameFacts DEF Init, TypeOK
<1>2. Buffers /\ Sending /\ InTurn
  BY DEF Init, Buffers, Sending, InTurn
<1>3. OnlyFinished
  BY DEF Init, OnlyFinished, LastBytes
<1>4. QED
  BY <1>1, <1>2, <1>3 DEF IInv

\* A finished frame stays finished, and the frame that is being sent is not
\* until its last byte is taken.
LEMMA FinishedStays ==
    ASSUME IInv, [Next]_vars
    PROVE  Finished \subseteq Finished'
<1> USE FrameFacts DEF IInv, TypeOK, Sending, Finished, clientVars
<1>1. CASE Call
  BY <1>1 DEF Call, Total
<1>2. CASE SendByte
  BY <1>2 DEF SendByte, Total
<1>3. CASE SendFails
  BY <1>3 DEF SendFails, Total
<1>4. CASE SendRaises \/ SendReturns
  BY <1>4 DEF SendRaises, SendReturns, Total
<1>5. CASE UNCHANGED clientVars
  BY <1>5 DEF Total
<1>6. CASE UNCHANGED vars
  BY <1>5, <1>6 DEF vars
<1>7. QED
  BY <1>1, <1>2, <1>3, <1>4, <1>5, <1>6 DEF Next, ReadHeader, ReadBody, ReadPacket, Remove

\* The client's steps.
LEMMA ClientStep ==
    ASSUME IInv, Call \/ SendByte \/ SendFails \/ SendRaises \/ SendReturns
    PROVE  IInv'
<1> USE FrameFacts DEF IInv
<1>1. UNCHANGED deviceVars
  BY DEF Call, SendByte, SendFails, SendRaises, SendReturns
<1>2. Finished \subseteq Finished'
  BY FinishedStays DEF Next
<1>3. TypeOK'
  <2>1. nonce' \in 0 .. NFrames /\ sent' \in -1 .. MAX_LEN + 3 /\ failed' \subseteq 1 .. nonce'
    <3>1. CASE Call
      BY <3>1 DEF TypeOK, Call
    <3>2. CASE SendByte
      BY <3>2 DEF TypeOK, Sending, SendByte
    <3>3. CASE SendFails
      <4>1. nonce \in 1 .. nonce /\ failed \subseteq 1 .. nonce /\ nonce' = nonce
        BY <3>3 DEF TypeOK, Sending, SendFails, Frames
      <4>2. failed' \subseteq 1 .. nonce'
        BY <3>3, <4>1 DEF SendFails
      <4>3. QED
        BY <3>3, <4>2 DEF TypeOK, SendFails
    <3>4. CASE SendRaises \/ SendReturns
      <4>1. UNCHANGED <<nonce, failed>> /\ sent' \in {-1, sent}
        BY <3>4 DEF SendRaises, SendReturns
      <4>2. QED
        BY <4>1 DEF TypeOK
    <3>5. QED
      BY <3>1, <3>2, <3>3, <3>4
  <2>2. alive' \in BOOLEAN
    BY DEF TypeOK, Call, SendByte, SendFails, SendRaises, SendReturns
  <2>3. QED
    BY <1>1, <2>1, <2>2 DEF TypeOK, deviceVars
<1>4. Sending'
  BY DEF TypeOK, Sending, Call, SendByte, SendFails, SendRaises, SendReturns, Frames
<1>5. InTurn'
  BY <1>1, <1>2 DEF InTurn, deviceVars
<1>6. LastBytes(rx_buf, Finished)'
  BY <1>1, <1>2 DEF OnlyFinished, LastBytes, deviceVars
<1>7. wire' \in Seq(Byte) /\ LastBytes(wire, Finished)'
  <2>1. CASE SendByte
    <3>1. <<nonce, sent + 1>> \in Byte
      BY <2>1 DEF SendByte, TypeOK, Sending, Byte
    <3>2. /\ wire \in Seq(Byte) /\ wire' = Append(wire, <<nonce, sent + 1>>)
          /\ wire' \in Seq(Byte) /\ Len(wire') = Len(wire) + 1
      BY <2>1, <3>1 DEF SendByte, Buffers
    <3>3. ASSUME NEW i \in 1 .. Len(wire'), NEW f \in Frames, wire'[i] = <<f, Total(f)>>
          PROVE  f \in Finished'
      <4>1. CASE i \in 1 .. Len(wire)
        <5>1. wire[i] = <<f, Total(f)>>
          BY <3>2, <3>3, <4>1
        <5>2. QED
          BY <1>2, <4>1, <5>1 DEF OnlyFinished, LastBytes
      <4>2. CASE i = Len(wire) + 1
        <5>1. f = nonce /\ sent + 1 = Total(nonce)
          BY <3>2, <3>3, <4>2
        <5>2. QED
          BY <2>1, <5>1 DEF SendByte, Finished, TypeOK, Sending, Frames, Total
      <4>3. QED
        BY <3>2, <4>1, <4>2
    <3>4. QED
      BY <3>2, <3>3 DEF LastBytes
  <2>2. CASE Call \/ SendFails \/ SendRaises \/ SendReturns
    <3>1. UNCHANGED wire
      BY <2>2 DEF Call, SendFails, SendRaises, SendReturns
    <3>2. QED
      BY <1>2, <3>1 DEF OnlyFinished, LastBytes, Buffers
  <2>3. QED
    BY <2>1, <2>2
<1>8. Buffers'
  BY <1>1, <1>7 DEF Buffers, deviceVars
<1>9. QED
  BY <1>3, <1>4, <1>5, <1>6, <1>7, <1>8 DEF OnlyFinished

\* The device's steps.
LEMMA HeaderStep == IInv /\ ReadHeader => IInv'
<1> SUFFICES ASSUME IInv, ReadHeader PROVE IInv'
  OBVIOUS
<1> USE FrameFacts DEF IInv
<1>1. PICK n \in 1 .. 3 - Len(rx_header) :
        /\ n <= Len(wire) /\ Take(n)
        /\ rx_header' = rx_header \o Taken(n)
        /\ \/ Len(rx_header') < 3 /\ UNCHANGED <<state, msg_size>>
           \/ \E shown \in ShownBy(rx_header') :
                IF shown[1] # 1 \/ shown[2] > MAX_LEN
                  THEN state' = "FAILED" /\ UNCHANGED msg_size
                  ELSE msg_size' = shown[2] /\ UNCHANGED state
        /\ UNCHANGED <<clientVars, rx_buf, delivered>>
  BY DEF ReadHeader
<1>2. n \in 1 .. Len(wire) /\ wire \in Seq(Byte) /\ rx_header \in Seq(Byte)
  BY <1>1 DEF Buffers
<1>3. /\ Taken(n) \in Seq(Byte) /\ Len(Taken(n)) = n
      /\ wire' \in Seq(Byte) /\ LastBytes(wire', Finished)
  BY <1>1, <1>2, TakeFacts DEF OnlyFinished
<1>4. rx_header' \in Seq(Byte) /\ Len(rx_header') <= 3
  BY <1>1, <1>2, <1>3
<1>5. rx_buf = <<>>
  BY <1>1, <1>2 DEF Buffers
<1>6. Finished' = Finished
  BY <1>1 DEF Finished, clientVars
<1>7. msg_size' \in 0 .. MAX_LEN /\ state' \in {"DATA", "FAILED", "CLOSED"}
  BY <1>1, ShownFacts DEF TypeOK
<1>8. TypeOK'
  BY <1>1, <1>4, <1>5, <1>7 DEF TypeOK, clientVars
<1>9. Buffers' /\ Sending'
  BY <1>1, <1>3, <1>4, <1>5 DEF Buffers, Sending, clientVars
<1>10. OnlyFinished' /\ InTurn'
  BY <1>1, <1>3, <1>6 DEF OnlyFinished, InTurn
<1>11. QED
  BY <1>8, <1>9, <1>10

LEMMA BodyStep == IInv /\ ReadBody => IInv'
<1> SUFFICES ASSUME IInv, ReadBody PROVE IInv'
  OBVIOUS
<1> USE FrameFacts DEF IInv
<1>1. PICK n \in 1 .. MAX_LEN :
        /\ Len(rx_header) = 3 /\ n <= msg_size - Len(rx_buf)
        /\ n <= Len(wire) /\ Take(n)
        /\ rx_buf' = rx_buf \o Taken(n)
        /\ UNCHANGED <<clientVars, state, rx_header, msg_size, delivered>>
  BY DEF ReadBody
<1>2. n \in 1 .. Len(wire) /\ wire \in Seq(Byte) /\ rx_buf \in Seq(Byte)
  BY <1>1 DEF Buffers
<1>3. /\ Taken(n) \in Seq(Byte) /\ Len(Taken(n)) = n /\ LastBytes(Taken(n), Finished)
      /\ wire' \in Seq(Byte) /\ LastBytes(wire', Finished)
  BY <1>1, <1>2, TakeFacts DEF OnlyFinished
<1>4. rx_buf' \in Seq(Byte) /\ LastBytes(rx_buf', Finished)
  BY <1>1, <1>2, <1>3, LastBytesConcat DEF OnlyFinished
<1>5. Finished' = Finished
  BY <1>1 DEF Finished, clientVars
<1>6. Len(rx_buf') <= msg_size
  <2>1. Len(rx_buf \o Taken(n)) = Len(rx_buf) + Len(Taken(n)) /\ Len(rx_buf) \in Nat
    BY <1>2, <1>3
  <2>2. QED
    BY <1>1, <1>3, <2>1 DEF TypeOK
<1>7. TypeOK'
  BY <1>1, <1>6 DEF TypeOK, clientVars
<1>8. Buffers' /\ Sending'
  <2>1. Buffers'
    <3>1. rx_header' = rx_header /\ Len(rx_header) = 3
      BY <1>1
    <3>2. QED
      BY <1>3, <1>4, <3>1 DEF Buffers
  <2>2. Sending'
    BY <1>1 DEF Sending, clientVars
  <2>3. QED
    BY <2>1, <2>2
<1>9. OnlyFinished' /\ InTurn'
  BY <1>1, <1>3, <1>4, <1>5 DEF OnlyFinished, InTurn
<1>10. QED
  BY <1>7, <1>8, <1>9

\* A frame that decrypts is held whole, its last byte too.
LEMMA PacketStep == IInv /\ ReadPacket => IInv'
<1> SUFFICES ASSUME IInv, ReadPacket PROVE IInv'
  OBVIOUS
<1> USE FrameFacts DEF IInv
<1> DEFINE f == Len(delivered) + 1
<1>1. /\ rx_header' = <<>> /\ rx_buf' = <<>> /\ UNCHANGED <<clientVars, wire, msg_size>>
      /\ \/ f \in Frames /\ Holds(f) /\ delivered' = Append(delivered, f) /\ UNCHANGED state
         \/ state' = "FAILED" /\ UNCHANGED delivered
  BY DEF ReadPacket
<1>2. Finished' = Finished
  BY <1>1 DEF Finished, clientVars
<1>3. TypeOK'
  BY <1>1 DEF TypeOK, clientVars
<1>4. Buffers' /\ Sending' /\ OnlyFinished'
  BY <1>1, <1>2 DEF Buffers, Sending, OnlyFinished, LastBytes, clientVars
<1>5. InTurn'
  <2>1. CASE UNCHANGED delivered
    BY <1>2, <2>1 DEF InTurn
  <2>2. CASE f \in Frames /\ Holds(f) /\ delivered' = Append(delivered, f)
    <3>1. f \in Finished
      <4>1. Lens[f] \in 1 .. Len(rx_buf) /\ rx_buf[Lens[f]] = <<f, Total(f)>>
        BY <2>2 DEF Holds, Total, Buffers
      <4>2. QED
        BY <2>2, <4>1 DEF OnlyFinished, LastBytes
    <3>2. QED
      BY <1>2, <2>2, <3>1 DEF InTurn
  <2>3. QED
    BY <1>1, <2>1, <2>2
<1>6. QED
  BY <1>3, <1>4, <1>5

LEMMA Inductive == IInv /\ [Next]_vars => IInv'
<1> SUFFICES ASSUME IInv, [Next]_vars PROVE IInv'
  OBVIOUS
<1>1. CASE Remove
  BY <1>1 DEF IInv, Remove, TypeOK, Buffers, Sending, OnlyFinished, LastBytes, InTurn,
     Finished, clientVars
<1>2. CASE UNCHANGED vars
  BY <1>2 DEF IInv, vars, TypeOK, Buffers, Sending, OnlyFinished, LastBytes, InTurn,
     Finished, clientVars, deviceVars
<1>3. QED
  BY <1>1, <1>2, ClientStep, HeaderStep, BodyStep, PacketStep DEF Next

-----------------------------------------------------------------------------
(* The theorems. *)

LEMMA Always == Spec => []IInv
  BY InitHolds, Inductive, PTL DEF Spec

\* try_read_frame_ never holds more of a frame than the header it read says,
\* whatever bytes the client's broken calls have left on the wire.
THEOREM TypeCorrect == Spec => []TypeOK
<1>1. IInv => TypeOK
  BY DEF IInv
<1>2. QED
  BY <1>1, Always, PTL

\* After a call of esph_frame_send that failed the device delivers neither its
\* frame nor any later one.
THEOREM NothingAfterAFailure == Spec => []FailedIsFinal
<1>1. IInv => FailedIsFinal
  <2> SUFFICES ASSUME IInv, NEW i \in 1 .. Len(delivered), NEW f \in failed
               PROVE  delivered[i] < f
    BY DEF FailedIsFinal
  <2>1. f \in Nat \ {0} /\ Len(delivered) \in Nat
    BY DEF IInv, TypeOK, InTurn
  <2>2. f \notin 1 .. Len(delivered)
    BY DEF IInv, InTurn, Finished
  <2>3. QED
    BY <2>1, <2>2 DEF IInv, InTurn
<1>2. QED
  BY <1>1, Always, PTL
=============================================================================
