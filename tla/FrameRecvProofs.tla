-------------------------- MODULE FrameRecvProofs --------------------------
(***************************************************************************)
(* The safety properties of FrameRecv for every stream of frames.  Neither *)
(* property is inductive: while a read is in progress the position says    *)
(* nothing about frames, so Aligned says where a read that lost nothing    *)
(* began, and Used bounds the frames returned by the nonces used.          *)
(***************************************************************************)
EXTENDS FrameRecv, TLAPS

Aligned ==
    ~ torn =>
      /\ rn <= NFrames
      /\ pc = "idle" => rd = Start[rn + 1]
      /\ pc = "hdr" => from = Start[rn + 1] /\ want = 3
      /\ pc = "body" =>
           rn < NFrames /\ from = Start[rn + 1] + 3 /\ want = Lens[rn + 1]

Used == \A i \in 1 .. Len(out) : out[i] <= rn

Complete == ~ torn => out = [i \in 1 .. rn |-> i]

IInv == TypeOK /\ Aligned /\ Complete /\ Used /\ InOrder

-----------------------------------------------------------------------------
(* The stream. *)

\* The frames are numbered from 1, and every position is a natural number.
LEMMA StreamFacts ==
    /\ NFrames \in Nat /\ MAX_LEN \in Nat
    /\ \A f \in Frames : Lens[f] \in 1 .. MAX_LEN
    /\ \A f \in 1 .. NFrames + 1 : Start[f] \in Nat
    /\ Start[1] = 0
    /\ \A f \in Frames : Start[f + 1] = Start[f] + 3 + Lens[f]
<1>1. NFrames \in Nat
  BY StreamAssumption DEF NFrames
<1>2. \A f \in Frames : Lens[f] \in 1 .. MAX_LEN
  BY StreamAssumption DEF Frames, NFrames
<1>3. QED
  BY <1>1, <1>2, StreamAssumption

\* A header in place shows the length of its frame: LengthAt has no choice.
LEMMA HeaderInPlace ==
    ASSUME NEW f \in Frames, NEW n \in LengthAt(Start[f])
    PROVE  n = Lens[f]
  BY DEF LengthAt

-----------------------------------------------------------------------------
(* Types. *)

LEMMA InitHolds == Init => IInv
<1> SUFFICES ASSUME Init PROVE IInv
  OBVIOUS
<1>1. TypeOK
  <2>1. Start[NFrames + 1] \in Nat /\ MAX_LEN \in Nat
    BY StreamFacts
  <2>2. out \in Seq(Frames)
    BY DEF Init
  <2>3. closed \in BOOLEAN /\ torn \in BOOLEAN
    BY DEF Init
  <2>4. /\ arrived \in 0 .. Start[NFrames + 1] /\ rd \in 0 .. arrived
        /\ from \in Nat /\ want \in 0 .. MAX_LEN + 3 /\ rn \in Nat
    BY <2>1 DEF Init
  <2>5. QED
    BY <2>2, <2>3, <2>4 DEF Init, TypeOK
<1>2. Aligned
  BY StreamFacts DEF Init, Aligned
<1>3. Complete
  BY DEF Init, Complete
<1>4. Used /\ InOrder
  BY DEF Init, Used, InOrder
<1>5. QED
  BY <1>1, <1>2, <1>3, <1>4 DEF IInv

\* The client takes bytes only from what has arrived.
LEMMA TypeStep == TypeOK /\ [Next]_vars => TypeOK'
<1> SUFFICES ASSUME TypeOK, [Next]_vars PROVE TypeOK'
  OBVIOUS
<1> USE StreamFacts DEF TypeOK, vars
<1>1. CASE Arrive
  <2>1. Start[NFrames + 1] \in Nat
    OBVIOUS
  <2>2. QED
    BY <1>1, <2>1 DEF Arrive
<1>2. CASE Close
  BY <1>2 DEF Close
<1>3. CASE Call
  BY <1>3 DEF Call
<1>4. CASE RecvByte
  BY <1>4 DEF RecvByte
<1>5. CASE RecvFails
  BY <1>5 DEF RecvFails
<1>6. CASE HeaderDone
  BY <1>6 DEF HeaderDone, LengthAt
<1>7. CASE BodyDone
  <2>1. UNCHANGED <<arrived, closed, rd, from, want, torn>> /\ pc' = "idle"
    BY <1>7 DEF BodyDone
  <2>2. \A f \in Frames : f \in Nat
    BY DEF Frames
  <2>3. rn' \in Nat /\ out' \in Seq(Frames)
    <3>1. CASE \E f \in Frames : out' = Append(out, f) /\ rn' = f
      BY <3>1, <2>2
    <3>2. CASE rn' \in {rn, rn + 1} /\ UNCHANGED out
      BY <3>2
    <3>3. QED
      BY <1>7, <3>1, <3>2 DEF BodyDone
  <2>4. QED
    BY <2>1, <2>3
<1>8. CASE UNCHANGED vars
  BY <1>8
<1>9. QED
  BY <1>1, <1>2, <1>3, <1>4, <1>5, <1>6, <1>7, <1>8 DEF Next

-----------------------------------------------------------------------------
(* Order. *)

\* A frame is returned only under the nonce that is its number, so it comes
\* after all frames returned before, whatever was lost.
LEMMA OrderStep ==
    ASSUME TypeOK, Used, InOrder, [Next]_vars
    PROVE  Used' /\ InOrder'
<1> USE StreamFacts
<1>1. CASE BodyDone
  <2>1. CASE \E f \in Frames : Genuine(f) /\ out' = Append(out, f) /\ rn' = f
    <3>1. PICK f \in Frames : Genuine(f) /\ out' = Append(out, f) /\ rn' = f
      BY <2>1
    <3>2. f \in Nat /\ rn = f - 1 /\ rn \in Nat /\ out \in Seq(Frames)
      BY <3>1 DEF Genuine, Frames, TypeOK
    <3>3. \A i \in 1 .. Len(out) : out[i] \in Nat /\ out[i] <= rn
      BY <3>2 DEF Used, Frames
    <3>4. /\ Len(out') = Len(out) + 1 /\ Len(out) \in Nat
          /\ out'[Len(out) + 1] = f
          /\ \A i \in 1 .. Len(out) : out'[i] = out[i]
      BY <3>1, <3>2
    <3>5. Used'
      BY <3>1, <3>2, <3>3, <3>4 DEF Used
    <3>6. InOrder'
      <4> SUFFICES ASSUME NEW i \in 1 .. Len(out) + 1, NEW j \in 1 .. Len(out) + 1, i < j
                   PROVE  out'[i] < out'[j]
        BY <3>4 DEF InOrder
      <4>1. i \in 1 .. Len(out) /\ out'[i] = out[i]
        BY <3>4
      <4>2. CASE j = Len(out) + 1
        BY <3>2, <3>3, <3>4, <4>1, <4>2
      <4>3. CASE j \in 1 .. Len(out)
        BY <3>4, <4>1, <4>3 DEF InOrder
      <4>4. QED
        BY <3>4, <4>2, <4>3
    <3>7. QED
      BY <3>5, <3>6
  <2>2. CASE rn' \in {rn, rn + 1} /\ UNCHANGED out
    <3>1. \A i \in 1 .. Len(out) : out[i] \in Nat
      BY DEF TypeOK, Frames
    <3>2. QED
      BY <2>2, <3>1 DEF Used, InOrder, TypeOK
  <2>3. QED
    BY <1>1, <2>1, <2>2 DEF BodyDone
<1>2. CASE UNCHANGED <<rn, out>>
  BY <1>2 DEF Used, InOrder
<1>3. QED
  BY <1>1, <1>2
     DEF Next, vars, Arrive, Close, Call, RecvByte, RecvFails, HeaderDone

-----------------------------------------------------------------------------
(* Alignment. *)

\* While nothing is lost, every read begins where a header or a body does.
LEMMA AlignedStep ==
    ASSUME TypeOK, Aligned, Complete, [Next]_vars
    PROVE  Aligned' /\ Complete'
<1> SUFFICES ASSUME ~ torn' PROVE Aligned' /\ Complete'
  BY DEF Aligned, Complete
<1>1. ~ torn
  BY DEF TypeOK, Next, vars, Arrive, Close, Call, RecvByte, RecvFails, HeaderDone, BodyDone
<1>2. /\ rn \in 0 .. NFrames /\ Start[rn + 1] \in Nat
      /\ rd \in Nat /\ arrived \in Nat /\ rd <= arrived
      /\ arrived <= Start[NFrames + 1] /\ NFrames \in Nat
      /\ from \in Nat /\ want \in Nat
  BY <1>1, StreamFacts DEF TypeOK, Aligned
<1>3. CASE Arrive \/ Close \/ UNCHANGED vars
  BY <1>1, <1>3 DEF Arrive, Close, vars, Aligned, Complete
<1>4. CASE Call
  BY <1>1, <1>4 DEF Call, Aligned, Complete
<1>5. CASE RecvByte
  BY <1>1, <1>2, <1>5 DEF RecvByte, Aligned, Complete
<1>6. CASE RecvFails
  <2>1. pc = "hdr" /\ rd = from
    BY <1>6 DEF RecvFails, TypeOK
  <2>2. QED
    BY <1>1, <1>6, <2>1 DEF RecvFails, Aligned, Complete
<1>7. CASE HeaderDone
  <2>1. pc = "hdr" /\ from = Start[rn + 1] /\ rd = Start[rn + 1] + 3
    BY <1>1, <1>7, <1>2 DEF HeaderDone, Aligned
  \* Behind the last frame there is nothing to read.
  <2>2. rn + 1 \in Frames
    BY <1>2, <2>1 DEF Frames
  <2>3. Lens[rn + 1] \in 1 .. MAX_LEN /\ MAX_LEN \in Nat
    BY <2>2, StreamFacts
  <2>4. pc' = "body" /\ from' = rd /\ want' = Lens[rn + 1]
    BY <1>7, <2>1, <2>2, <2>3, HeaderInPlace DEF HeaderDone
  <2>5. UNCHANGED <<rn, out>>
    BY <1>7 DEF HeaderDone
  <2>6. rn < NFrames
    BY <1>2, <2>2 DEF Frames
  <2>7. QED
    BY <1>1, <1>2, <2>1, <2>4, <2>5, <2>6 DEF Aligned, Complete
<1>8. CASE BodyDone
  <2>1. /\ pc = "body" /\ rn < NFrames
        /\ from = Start[rn + 1] + 3 /\ want = Lens[rn + 1]
        /\ rd = from + want /\ pc' = "idle" /\ rd' = rd
    BY <1>1, <1>8 DEF BodyDone, Aligned
  <2>2. rn + 1 \in Frames
    BY <1>2, <2>1 DEF Frames
  <2>3. Genuine(rn + 1)
    BY <1>2, <2>1 DEF Genuine
  <2>4. PICK f \in Frames : Genuine(f) /\ out' = Append(out, f) /\ rn' = f
    BY <1>8, <2>2, <2>3 DEF BodyDone
  <2>5. f = rn + 1
    BY <1>2, <2>4 DEF Genuine, Frames
  <2>6. rd = Start[rn + 1 + 1] /\ Start[rn + 1 + 1] \in Nat
    BY <1>2, <2>1, <2>2, StreamFacts
  <2>7. Aligned'
    BY <1>2, <2>1, <2>4, <2>5, <2>6 DEF Aligned
  <2>8. out = [i \in 1 .. rn |-> i]
    BY <1>1 DEF Complete
  <2>9. Append([i \in 1 .. rn |-> i], rn + 1) = [i \in 1 .. rn + 1 |-> i]
    BY <1>2
  <2>10. QED
    BY <2>4, <2>5, <2>7, <2>8, <2>9 DEF Complete
<1>9. QED
  BY <1>3, <1>4, <1>5, <1>6, <1>7, <1>8 DEF Next

-----------------------------------------------------------------------------

LEMMA Inductive == Spec => []IInv
<1>1. Init => IInv
  BY InitHolds
<1>2. IInv /\ [Next]_vars => IInv'
  BY TypeStep, OrderStep, AlignedStep DEF IInv
<1>3. QED
  BY <1>1, <1>2, PTL DEF Spec

\* The client never takes a byte that has not arrived, nor one beyond what its
\* read asks for: every stream, every cut into segments.
THEOREM TypeCorrect == Spec => []TypeOK
<1>1. IInv => TypeOK
  BY DEF IInv
<1>2. QED
  BY Inductive, <1>1, PTL

\* Without a timeout in the middle of a frame, esph_frame_recv returns every
\* frame in order and stays aligned with the stream.
THEOREM NothingIsLost == Spec => []NothingLost
<1>1. IInv => NothingLost
  BY DEF IInv, Aligned, Complete, NothingLost
<1>2. QED
  BY Inductive, <1>1, PTL

\* With such timeouts too, esph_frame_recv returns no frame twice and none
\* before an earlier one: the nonce orders them.
THEOREM FramesInOrder == Spec => []InOrder
<1>1. IInv => InOrder
  BY DEF IInv
<1>2. QED
  BY Inductive, <1>1, PTL
=============================================================================
