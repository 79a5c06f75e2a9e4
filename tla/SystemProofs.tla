---------------------------- MODULE SystemProofs ----------------------------
(***************************************************************************)
(* Proofs about a client session and the device's connection together, for *)
(* any entities, any socket and batch size, any order and number of calls, *)
(* with or without failing receives and sends and dropped connections.     *)
(***************************************************************************)
EXTENDS System, SequenceTheorems, WellFoundedInduction, TLAPS

-----------------------------------------------------------------------------
(* The messages. *)

Values == Readings \cup {Missing, 0, 1}

FromClient ==
    [type : {"device_info_request", "ping_request", "ping_response",
             "list_entities_request", "subscribe_states_request"}]
      \cup [type : {"switch_command"}, key : Nat, on : {0, 1}]

ListEntry == {ListMsg(i) : i \in Ents}

ListDone == Msg("list_done")

Urgent == {Msg("ping_request"), Msg("disconnect_request")}

Replies == {Msg("ping_response"), Msg("device_info_response")}

\* What the batch holds, and what the device sends.
Items == ListEntry \cup {ListDone} \cup Urgent \cup {StateItem(i) : i \in Ents}

States == UNION {{StateMsg(i, v) : v \in Values} : i \in Ents}

FromDevice == ListEntry \cup {ListDone} \cup Urgent \cup Replies \cup States

Holds(s, m) == \E k \in 1 .. Len(s) : s[k] = m

-----------------------------------------------------------------------------
(* The end of the list stays behind the list.  known is the set of entities *)
(* the registry has, q the socket's queue and b the batch.                  *)

\* Every entity that is not known is named in q or b before each end of the list.
Behind(known, q, b) ==
    /\ \A p \in 1 .. Len(q) :
         q[p] = ListDone
           => \A i \in Listed \ known : \E k \in 1 .. p - 1 : q[k] = ListMsg(i)
    /\ \A p \in 1 .. Len(b) :
         b[p] = ListDone
           => \A i \in Listed \ known :
                \/ Holds(q, ListMsg(i))
                \/ \E k \in 1 .. p - 1 : b[k] = ListMsg(i)

\* Every entity before n is known, or named in q or b.
Told(known, q, b, n) ==
    \A i \in Listed \ known : i < n => Holds(q, ListMsg(i)) \/ Holds(b, ListMsg(i))

\* The end of the list is on its way.
Ends(q, b) == Holds(q, ListDone) \/ Holds(b, ListDone)

LEMMA ListedAreEnts == Listed \subseteq Ents
BY DEF Listed

\* Messages of different kinds differ, and the encoding keeps apart what it is
\* about: only a state item changes.
LEMMA MessagesDiffer ==
  /\ \A i \in Ents : ListMsg(i) # ListDone /\ StateItem(i) # ListDone
  /\ \A i, j \in Ents : ListMsg(i) # StateItem(j)
  /\ \A i, j \in Ents : ListMsg(i) = ListMsg(j) => i = j
  /\ \A m \in Urgent \cup Replies \cup States :
       m # ListDone /\ \A i \in Ents : m # ListMsg(i)
BY DEF ListMsg, ListDone, Msg, StateItem, Urgent, Replies, States, StateMsg

LEMMA QueueGrows ==
  ASSUME NEW known, NEW q \in Seq(FromDevice), NEW b \in Seq(Items),
         NEW m \in FromDevice \ ({ListDone} \cup ListEntry), Behind(known, q, b)
  PROVE  /\ Behind(known, Append(q, m), b)
         /\ \A n : Told(known, q, b, n) => Told(known, Append(q, m), b, n)
         /\ Ends(Append(q, m), b) => Ends(q, b)
<1> DEFINE r == Append(q, m)
<1>1. /\ r \in Seq(FromDevice) /\ Len(q) \in Nat /\ Len(r) = Len(q) + 1
      /\ \A k \in 1 .. Len(q) : r[k] = q[k]
      /\ r[Len(q) + 1] = m /\ m # ListDone
  BY AppendProperties, LenProperties
<1> HIDE DEF r
<1>2. \A x : Holds(q, x) => Holds(r, x)
  BY <1>1 DEF Holds
<1>3. ASSUME NEW p \in 1 .. Len(r), r[p] = ListDone, NEW i \in Listed \ known
      PROVE  \E k \in 1 .. p - 1 : r[k] = ListMsg(i)
  <2>1. p \in 1 .. Len(q) /\ q[p] = ListDone
    BY <1>1, <1>3
  <2>2. PICK k \in 1 .. p - 1 : q[k] = ListMsg(i)
    BY <2>1 DEF Behind
  <2>3. k \in 1 .. Len(q)
    BY <1>1, <2>1
  <2> QED
    BY <1>1, <2>2, <2>3
<1>4. Behind(known, r, b)
  BY <1>2, <1>3 DEF Behind
<1>5. \A n : Told(known, q, b, n) => Told(known, r, b, n)
  BY <1>2 DEF Told
<1>6. Holds(r, ListDone) => Holds(q, ListDone)
  BY <1>1 DEF Holds
<1> QED
  BY <1>4, <1>5, <1>6 DEF r, Ends

LEMMA BatchGrows ==
  ASSUME NEW known, NEW q \in Seq(FromDevice), NEW b \in Seq(Items), NEW m \in Items,
         Behind(known, q, b),
         m = ListDone => Told(known, q, b, Len(Entities) + 1)
  PROVE  /\ Behind(known, q, Append(b, m))
         /\ \A n : Told(known, q, b, n) => Told(known, q, Append(b, m), n)
         /\ m # ListDone /\ Ends(q, Append(b, m)) => Ends(q, b)
<1> DEFINE c == Append(b, m)
<1>1. /\ c \in Seq(Items) /\ Len(b) \in Nat /\ Len(c) = Len(b) + 1
      /\ \A k \in 1 .. Len(b) : c[k] = b[k]
      /\ c[Len(b) + 1] = m
  BY AppendProperties, LenProperties
<1> HIDE DEF c
<1>2. \A x : Holds(b, x) => Holds(c, x)
  BY <1>1 DEF Holds
<1>3. ASSUME NEW p \in 1 .. Len(c), c[p] = ListDone, NEW i \in Listed \ known
      PROVE  Holds(q, ListMsg(i)) \/ \E k \in 1 .. p - 1 : c[k] = ListMsg(i)
  <2>1. CASE p \in 1 .. Len(b)
    <3>1. b[p] = ListDone
      BY <1>1, <1>3, <2>1
    <3>2. Holds(q, ListMsg(i)) \/ \E k \in 1 .. p - 1 : b[k] = ListMsg(i)
      BY <2>1, <3>1 DEF Behind
    <3>3. \A k \in 1 .. p - 1 : c[k] = b[k]
      BY <1>1, <2>1
    <3> QED
      BY <3>2, <3>3
  <2>2. CASE p = Len(b) + 1
    <3>1. m = ListDone
      BY <1>1, <1>3, <2>2
    <3>2. i \in Nat /\ i < Len(Entities) + 1
      <4>1. Len(Entities) \in Nat
        BY LinkAssumption, LenProperties
      <4> QED
        BY <1>3, <4>1 DEF Listed, Ents
    <3>3. Holds(q, ListMsg(i)) \/ Holds(b, ListMsg(i))
      BY <3>1, <3>2 DEF Told
    <3>4. 1 .. p - 1 = 1 .. Len(b)
      BY <1>1, <2>2
    <3> QED
      BY <1>1, <3>3, <3>4 DEF Holds
  <2> QED
    BY <1>1, <2>1, <2>2
<1>4. Behind(known, q, c)
  BY <1>3 DEF Behind
<1>5. \A n : Told(known, q, b, n) => Told(known, q, c, n)
  BY <1>2 DEF Told
<1>6. m # ListDone /\ Holds(c, ListDone) => Holds(b, ListDone)
  BY <1>1 DEF Holds
<1> QED
  BY <1>4, <1>5, <1>6 DEF c, Ends

LEMMA AddKeeps ==
  ASSUME NEW known, NEW q \in Seq(FromDevice), NEW b \in Seq(Items), NEW m \in Items,
         Behind(known, q, b),
         m = ListDone => Told(known, q, b, Len(Entities) + 1)
  PROVE  /\ AddItem(b, m) \in Seq(Items) /\ Holds(AddItem(b, m), m)
         /\ Behind(known, q, AddItem(b, m))
         /\ \A n : Told(known, q, b, n) => Told(known, q, AddItem(b, m), n)
         /\ m # ListDone /\ Ends(q, AddItem(b, m)) => Ends(q, b)
<1>1. CASE m \in Range(b)
  <2>1. AddItem(b, m) = b
    BY <1>1 DEF AddItem
  <2>2. Holds(b, m)
    BY <1>1, RangeEquality DEF Holds
  <2> QED
    BY <2>1, <2>2
<1>2. CASE m \notin Range(b)
  <2>1. AddItem(b, m) = Append(b, m)
    BY <1>2 DEF AddItem
  <2>2. Append(b, m) \in Seq(Items) /\ Holds(Append(b, m), m)
    BY AppendProperties, LenProperties DEF Holds
  <2>3. /\ Behind(known, q, Append(b, m))
        /\ \A n : Told(known, q, b, n) => Told(known, q, Append(b, m), n)
        /\ m # ListDone /\ Ends(q, Append(b, m)) => Ends(q, b)
    BY BatchGrows
  <2> QED
    BY <2>1, <2>2, <2>3
<1> QED
  BY <1>1, <1>2

\* A part of the batch goes to the socket: s is what the first messages become.
LEMMA FlushKeeps ==
  ASSUME NEW known, NEW q \in Seq(FromDevice), NEW b \in Seq(Items),
         NEW s \in Seq(FromDevice), Len(s) <= Len(b),
         \A j \in 1 .. Len(s) :
           /\ s[j] = ListDone => b[j] = ListDone
           /\ \A i \in Ents : b[j] = ListMsg(i) => s[j] = ListMsg(i),
         Behind(known, q, b)
  PROVE  LET c == SubSeq(b, Len(s) + 1, Len(b))
         IN  /\ Behind(known, q \o s, c)
             /\ \A n : Told(known, q, b, n) => Told(known, q \o s, c, n)
             /\ Ends(q \o s, c) => Ends(q, b)
<1> DEFINE n == Len(s)
           r == q \o s
           c == SubSeq(b, n + 1, Len(b))
<1>1. /\ n \in Nat /\ Len(q) \in Nat /\ Len(b) \in Nat
      /\ Len(r) = Len(q) + n
      /\ \A k \in 1 .. Len(q) : r[k] = q[k]
      /\ \A k \in 1 .. n : r[Len(q) + k] = s[k]
  <2>1. n \in Nat /\ Len(q) \in Nat /\ Len(b) \in Nat
    BY LenProperties
  <2>2. /\ Len(r) = Len(q) + n
        /\ \A k \in 1 .. Len(q) + n : r[k] = IF k <= Len(q) THEN q[k] ELSE s[k - Len(q)]
    BY ConcatProperties
  <2> HIDE DEF r, n
  <2>3. ASSUME NEW k \in 1 .. n PROVE r[Len(q) + k] = s[k]
    BY <2>1, <2>2, <2>3
  <2> QED
    BY <2>1, <2>2, <2>3
<1>2. /\ c \in Seq(Items) /\ Len(c) = Len(b) - n
      /\ \A k \in 1 .. Len(c) : c[k] = b[n + k]
  <2>1. \A k \in n + 1 .. Len(b) : b[k] \in Items
    BY <1>1, ElementOfSeq
  <2>2. /\ c \in Seq(Items)
        /\ Len(c) = IF n + 1 <= Len(b) THEN Len(b) - (n + 1) + 1 ELSE 0
        /\ \A k \in 1 .. Len(b) - (n + 1) + 1 : c[k] = b[(n + 1) + k - 1]
    BY <1>1, <2>1, SubSeqProperties
  <2> HIDE DEF c, n
  <2>3. \A k \in 1 .. Len(c) : (n + 1) + k - 1 = n + k
    BY <1>1, <2>2
  <2>4. n <= Len(b)
    BY DEF n
  <2> QED
    BY <1>1, <2>2, <2>3, <2>4
<1>0. /\ n <= Len(b)
      /\ \A j \in 1 .. n : /\ s[j] = ListDone => b[j] = ListDone
                          /\ \A i \in Ents : b[j] = ListMsg(i) => s[j] = ListMsg(i)
  OBVIOUS
<1> HIDE DEF n, r, c
<1>3. ASSUME NEW i \in Ents, Holds(q, ListMsg(i)) PROVE Holds(r, ListMsg(i))
  <2>1. PICK k \in 1 .. Len(q) : q[k] = ListMsg(i)
    BY <1>3 DEF Holds
  <2> QED
    BY <1>1, <2>1 DEF Holds
<1>4. ASSUME NEW i \in Ents, NEW k \in 1 .. n, b[k] = ListMsg(i)
      PROVE  Len(q) + k \in 1 .. Len(r) /\ r[Len(q) + k] = ListMsg(i)
  BY <1>0, <1>1, <1>4
<1>5. ASSUME NEW i \in Ents, Holds(b, ListMsg(i))
      PROVE  Holds(r, ListMsg(i)) \/ Holds(c, ListMsg(i))
  <2>1. PICK k \in 1 .. Len(b) : b[k] = ListMsg(i)
    BY <1>5 DEF Holds
  <2>2. CASE k \in 1 .. n
    BY <1>4, <2>1, <2>2 DEF Holds
  <2>3. CASE k \notin 1 .. n
    <3>1. k - n \in 1 .. Len(c) /\ n + (k - n) = k
      BY <1>0, <1>1, <1>2, <2>1, <2>3
    <3>2. c[k - n] = ListMsg(i)
      BY <1>2, <2>1, <3>1
    <3> QED
      BY <3>1, <3>2 DEF Holds
  <2> QED
    BY <2>2, <2>3
<1>6. \A x : Told(known, q, b, x) => Told(known, r, c, x)
  BY <1>3, <1>5, ListedAreEnts DEF Told
<1>7. ASSUME NEW p \in 1 .. Len(r), r[p] = ListDone, NEW i \in Listed \ known
      PROVE  \E k \in 1 .. p - 1 : r[k] = ListMsg(i)
  <2>0. i \in Ents
    BY ListedAreEnts
  <2>1. CASE p <= Len(q)
    <3>1. p \in 1 .. Len(q) /\ q[p] = ListDone
      BY <1>1, <1>7, <2>1
    <3>2. PICK k \in 1 .. p - 1 : q[k] = ListMsg(i)
      BY <3>1 DEF Behind
    <3>3. k \in 1 .. Len(q)
      BY <1>1, <3>1
    <3> QED
      BY <1>1, <3>2, <3>3
  <2>2. CASE p > Len(q)
    <3> DEFINE j == p - Len(q)
    <3>1. j \in 1 .. n /\ j \in 1 .. Len(b) /\ Len(q) + j = p /\ j \in Int
      BY <1>0, <1>1, <2>2
    <3> HIDE DEF j
    <3>2. b[j] = ListDone
      BY <1>0, <1>1, <1>7, <3>1
    <3>3. CASE Holds(q, ListMsg(i))
      <4>1. PICK k \in 1 .. Len(q) : q[k] = ListMsg(i)
        BY <3>3 DEF Holds
      <4>2. k \in 1 .. p - 1
        BY <1>1, <2>2, <4>1
      <4> QED
        BY <1>1, <4>1, <4>2
    <3>4. CASE \E k \in 1 .. j - 1 : b[k] = ListMsg(i)
      <4>1. PICK k \in 1 .. j - 1 : b[k] = ListMsg(i)
        BY <3>4
      <4>2. k \in 1 .. n /\ Len(q) + k \in 1 .. p - 1
        BY <1>1, <3>1, <4>1
      <4> QED
        BY <1>4, <2>0, <4>1, <4>2
    <3> QED
      BY <3>1, <3>2, <3>3, <3>4 DEF Behind
  <2> QED
    BY <1>1, <2>1, <2>2
<1>8. ASSUME NEW p \in 1 .. Len(c), c[p] = ListDone, NEW i \in Listed \ known
      PROVE  Holds(r, ListMsg(i)) \/ \E k \in 1 .. p - 1 : c[k] = ListMsg(i)
  <2>0. i \in Ents
    BY ListedAreEnts
  <2> DEFINE j == n + p
  <2>1. j \in 1 .. Len(b) /\ b[j] = ListDone /\ j = n + p
    <3>1. b[n + p] = ListDone
      BY <1>2, <1>8
    <3> QED
      BY <1>0, <1>1, <1>2, <1>8, <3>1
  <2> HIDE DEF j
  <2>2. CASE Holds(q, ListMsg(i))
    BY <1>3, <2>0, <2>2
  <2>3. CASE \E k \in 1 .. j - 1 : b[k] = ListMsg(i)
    <3>1. PICK k \in 1 .. j - 1 : b[k] = ListMsg(i)
      BY <2>3
    <3>2. CASE k \in 1 .. n
      BY <1>4, <2>0, <3>1, <3>2 DEF Holds
    <3>3. CASE k \notin 1 .. n
      <4>1. k - n \in 1 .. p - 1 /\ k - n \in 1 .. Len(c) /\ n + (k - n) = k
        BY <1>1, <1>2, <2>1, <3>1, <3>3
      <4>2. c[k - n] = ListMsg(i)
        BY <1>2, <3>1, <4>1
      <4> QED
        BY <4>1, <4>2
    <3> QED
      BY <3>2, <3>3
  <2> QED
    BY <2>1, <2>2, <2>3 DEF Behind
<1>9. Behind(known, r, c)
  BY <1>7, <1>8 DEF Behind
<1>10. ASSUME Ends(r, c) PROVE Ends(q, b)
  <2>1. CASE Holds(r, ListDone)
    <3>1. PICK p \in 1 .. Len(r) : r[p] = ListDone
      BY <2>1 DEF Holds
    <3>2. CASE p <= Len(q)
      BY <1>1, <3>1, <3>2 DEF Holds, Ends
    <3>3. CASE p > Len(q)
      <4> DEFINE j == p - Len(q)
      <4>1. j \in 1 .. n /\ j \in 1 .. Len(b) /\ Len(q) + j = p
        BY <1>0, <1>1, <3>3
      <4> HIDE DEF j
      <4> QED
        BY <1>0, <1>1, <3>1, <4>1 DEF Holds, Ends
    <3> QED
      BY <1>1, <3>2, <3>3
  <2>2. CASE Holds(c, ListDone)
    <3>1. PICK p \in 1 .. Len(c) : c[p] = ListDone
      BY <2>2 DEF Holds
    <3>2. n + p \in 1 .. Len(b) /\ c[p] = b[n + p]
      BY <1>0, <1>1, <1>2
    <3> QED
      BY <3>1, <3>2 DEF Holds, Ends
  <2> QED
    BY <1>10, <2>1, <2>2 DEF Ends
<1> QED
  BY <1>6, <1>9, <1>10 DEF r, c, n

\* The client takes a message: an entity that it lists is known then, and when it
\* ends the list every entity is.
LEMMA TakeKeeps ==
  ASSUME NEW known, NEW more, NEW q \in Seq(FromDevice), NEW b \in Seq(Items), q # <<>>,
         Behind(known, q, b), known \subseteq more,
         \A i \in Listed : Head(q) = ListMsg(i) => i \in more
  PROVE  /\ Behind(more, Tail(q), b)
         /\ \A n : Told(known, q, b, n) => Told(more, Tail(q), b, n)
         /\ Head(q) = ListDone => Listed \subseteq known /\ Ends(q, b)
         /\ Ends(Tail(q), b) => Ends(q, b)
<1> DEFINE r == Tail(q)
<1>1. /\ Len(q) \in Nat \ {0} /\ Len(r) = Len(q) - 1 /\ Head(q) = q[1]
      /\ \A k \in 1 .. Len(r) : r[k] = q[k + 1]
  BY HeadTailProperties, LenProperties, EmptySeq
<1> HIDE DEF r
<1>2. ASSUME NEW i \in Listed \ more, NEW k \in 1 .. Len(q), q[k] = ListMsg(i)
      PROVE  k - 1 \in 1 .. Len(r) /\ r[k - 1] = ListMsg(i)
  <2>1. k # 1
    BY <1>1, <1>2
  <2>2. k - 1 \in 1 .. Len(r) /\ (k - 1) + 1 = k
    BY <1>1, <2>1
  <2> QED
    BY <1>1, <1>2, <2>2
<1>3. \A i \in Listed \ more : Holds(q, ListMsg(i)) => Holds(r, ListMsg(i))
  BY <1>2 DEF Holds
<1>4. ASSUME NEW p \in 1 .. Len(r), r[p] = ListDone, NEW i \in Listed \ more
      PROVE  \E k \in 1 .. p - 1 : r[k] = ListMsg(i)
  <2>1. p + 1 \in 1 .. Len(q) /\ q[p + 1] = ListDone /\ (p + 1) - 1 = p
    BY <1>1, <1>4
  <2>2. PICK k \in 1 .. (p + 1) - 1 : q[k] = ListMsg(i)
    BY <2>1 DEF Behind
  <2>3. k \in 1 .. Len(q)
    BY <1>1, <2>1
  <2>4. k - 1 \in 1 .. p - 1
    BY <1>2, <2>2, <2>3
  <2> QED
    BY <1>2, <2>2, <2>3, <2>4
<1>5. Behind(more, r, b)
  BY <1>3, <1>4 DEF Behind
<1>6. \A n : Told(known, q, b, n) => Told(more, r, b, n)
  BY <1>3 DEF Told
<1>7. ASSUME Head(q) = ListDone PROVE Listed \subseteq known /\ Ends(q, b)
  <2>1. 1 \in 1 .. Len(q) /\ q[1] = ListDone /\ 1 .. 1 - 1 = {}
    BY <1>1, <1>7
  <2> QED
    BY <2>1 DEF Behind, Ends, Holds
<1>8. Holds(r, ListDone) => Holds(q, ListDone)
  <2>1. ASSUME NEW p \in 1 .. Len(r), r[p] = ListDone
        PROVE  p + 1 \in 1 .. Len(q) /\ q[p + 1] = ListDone
    BY <1>1, <2>1
  <2> QED
    BY <2>1 DEF Holds
<1> QED
  BY <1>5, <1>6, <1>7, <1>8 DEF r, Ends

-----------------------------------------------------------------------------
(* What the device does to its queue and its batch. *)

ValuesTyped ==
    value \in [Ents -> Values] /\ \A i \in Ents : value[i] \in ReadingsOf(Entities[i].kind)

\* Queue and batch are what they should be; known as for Behind.
Sound(known, q, b) ==
    /\ q \in Seq(FromDevice) /\ b \in Seq(Items) /\ Len(q) <= MaxQueue
    /\ Behind(known, q, b)

\* r and c follow q and b without the list or its end being lost, or the end being
\* invented.
Follows(known, q, b, r, c) ==
    /\ \A n : Told(known, q, b, n) => Told(known, r, c, n)
    /\ Ends(r, c) => Ends(q, b)

LEMMA EncodeTyped ==
  ASSUME ValuesTyped, NEW m \in Items
  PROVE  /\ Encode(m) \in FromDevice
         /\ Encode(m) = ListDone => m = ListDone
         /\ \A i \in Ents : m = ListMsg(i) => Encode(m) = ListMsg(i)
         /\ \A i \in Ents : m = StateItem(i) => Encode(m) \in States
<1>1. CASE m \in ListEntry \cup {ListDone} \cup Urgent
  <2>1. m.type # "state"
    BY <1>1 DEF ListEntry, ListMsg, ListDone, Urgent, Msg
  <2>2. Encode(m) = m
    BY <2>1 DEF Encode
  <2>3. \A i \in Ents : m # StateItem(i)
    BY <2>1 DEF StateItem
  <2> QED
    BY <1>1, <2>2, <2>3 DEF FromDevice
<1>2. CASE m \in {StateItem(i) : i \in Ents}
  <2>1. PICK i \in Ents : m = StateItem(i)
    BY <1>2
  <2>2. Encode(m) = StateMsg(i, value[i]) /\ value[i] \in Values
    BY <2>1 DEF Encode, StateItem, ValuesTyped
  <2>3. Encode(m) \in States
    BY <2>2 DEF States
  <2> QED
    BY <2>1, <2>3, MessagesDiffer DEF FromDevice
<1> QED
  BY <1>1, <1>2 DEF Items

LEMMA FlushSizeRange ==
  ASSUME NEW q \in Seq(FromDevice), NEW b \in Seq(Items), Len(q) <= MaxQueue
  PROVE  FlushSize(q, b) \in 0 .. Len(b) /\ Len(q) + FlushSize(q, b) <= MaxQueue
<1>1. Len(q) \in Nat /\ Len(b) \in Nat
  BY LenProperties
<1> QED
  BY <1>1, LinkAssumption, DeviceAssumption DEF FlushSize, Room

\* process_batch_.
LEMMA ProcessKeeps ==
  ASSUME ValuesTyped, NEW known, NEW q, NEW b, Sound(known, q, b), ProcessBatch(q, b)
  PROVE  Sound(known, toClient', batch') /\ Follows(known, q, b, toClient', batch')
<1> DEFINE n == FlushSize(q, b)
           s == [j \in 1 .. n |-> Encode(b[j])]
<1>1. q \in Seq(FromDevice) /\ b \in Seq(Items) /\ Len(q) <= MaxQueue /\ Behind(known, q, b)
  BY DEF Sound
<1>2. n \in Nat /\ n <= Len(b) /\ Len(q) + n <= MaxQueue /\ Len(b) \in Nat /\ Len(q) \in Nat
  BY <1>1, FlushSizeRange, LenProperties
<1>3. toClient' = q \o s /\ batch' = SubSeq(b, n + 1, Len(b))
  BY DEF ProcessBatch
<1> HIDE DEF n
<1>4. \A j \in 1 .. n : b[j] \in Items
  BY <1>1, <1>2, ElementOfSeq
<1>5. s \in Seq(FromDevice) /\ Len(s) = n
  <2>1. \A j \in 1 .. n : Encode(b[j]) \in FromDevice
    BY <1>4, EncodeTyped
  <2>2. s \in [1 .. n -> FromDevice]
    BY <2>1
  <2> HIDE DEF s
  <2> QED
    BY <1>2, <2>2
<1>6. \A j \in 1 .. n : s[j] = Encode(b[j])
  OBVIOUS
<1> HIDE DEF s
<1>7. \A j \in 1 .. Len(s) :
        /\ s[j] = ListDone => b[j] = ListDone
        /\ \A i \in Ents : b[j] = ListMsg(i) => s[j] = ListMsg(i)
  BY <1>4, <1>5, <1>6, EncodeTyped
<1>8. /\ Behind(known, toClient', batch')
      /\ Follows(known, q, b, toClient', batch')
  BY <1>1, <1>2, <1>3, <1>5, <1>7, FlushKeeps DEF Follows
<1>9. toClient' \in Seq(FromDevice) /\ Len(toClient') <= MaxQueue
  BY <1>1, <1>2, <1>3, <1>5, ConcatProperties
<1>10. batch' \in Seq(Items)
  <2>1. \A k \in n + 1 .. Len(b) : b[k] \in Items
    BY <1>1, <1>2, ElementOfSeq
  <2> QED
    BY <1>2, <1>3, <2>1, SubSeqProperties
<1> QED
  BY <1>8, <1>9, <1>10 DEF Sound

LEMMA FollowsTrans ==
  ASSUME NEW known, NEW q, NEW b, NEW r, NEW c, NEW s, NEW d,
         Follows(known, q, b, r, c), Follows(known, r, c, s, d)
  PROVE  Follows(known, q, b, s, d)
BY DEF Follows

\* The socket takes a message that is no part of the list.
LEMMA AppendSound ==
  ASSUME NEW known, NEW q, NEW b, Sound(known, q, b), Room(q, 1),
         NEW m \in Urgent \cup Replies \cup States
  PROVE  Sound(known, Append(q, m), b) /\ Follows(known, q, b, Append(q, m), b)
<1>1. m \in FromDevice \ ({ListDone} \cup ListEntry)
  BY MessagesDiffer DEF FromDevice, ListEntry
<1>2. /\ q \in Seq(FromDevice) /\ b \in Seq(Items) /\ Behind(known, q, b)
      /\ Len(q) \in Nat /\ Len(q) + 1 <= MaxQueue
  BY LenProperties DEF Sound, Room
<1>3. Append(q, m) \in Seq(FromDevice) /\ Len(Append(q, m)) = Len(q) + 1
  BY <1>1, <1>2, AppendProperties
<1> QED
  BY <1>1, <1>2, <1>3, QueueGrows DEF Sound, Follows

\* An item is queued; the end of the list only when every entity was named.
LEMMA AddSound ==
  ASSUME NEW known, NEW q, NEW b, Sound(known, q, b), NEW m \in Items,
         m = ListDone => Told(known, q, b, Len(Entities) + 1)
  PROVE  /\ Sound(known, q, AddItem(b, m)) /\ Holds(AddItem(b, m), m)
         /\ \A n : Told(known, q, b, n) => Told(known, q, AddItem(b, m), n)
         /\ m # ListDone => Follows(known, q, b, q, AddItem(b, m))
<1>1. q \in Seq(FromDevice) /\ b \in Seq(Items) /\ Behind(known, q, b)
  BY DEF Sound
<1> QED
  BY <1>1, AddKeeps DEF Sound, Follows

\* send_message_smart_ for a state.
LEMMA SmartSound ==
  ASSUME NEW known, NEW x, x \in [q : Seq(FromDevice), b : Seq(Items)],
         Sound(known, x.q, x.b), NEW i \in Ents, NEW m \in States
  PROVE  LET y == SendSmart(x, StateItem(i), m)
         IN  /\ y \in [q : Seq(FromDevice), b : Seq(Items)]
             /\ Sound(known, y.q, y.b) /\ Follows(known, x.q, x.b, y.q, y.b)
<1> DEFINE y == SendSmart(x, StateItem(i), m)
<1>1. CASE Immediate /\ Room(x.q, 1)
  <2>1. y = [q |-> Append(x.q, m), b |-> x.b]
    BY <1>1 DEF SendSmart
  <2>2. Sound(known, Append(x.q, m), x.b) /\ Follows(known, x.q, x.b, Append(x.q, m), x.b)
    BY <1>1, AppendSound
  <2> QED
    BY <2>1, <2>2 DEF Sound
<1>2. CASE ~ (Immediate /\ Room(x.q, 1))
  <2>1. y = [q |-> x.q, b |-> AddItem(x.b, StateItem(i))]
    BY <1>2 DEF SendSmart
  <2>2. StateItem(i) \in Items /\ StateItem(i) # ListDone
    BY MessagesDiffer DEF Items
  <2>3. /\ Sound(known, x.q, AddItem(x.b, StateItem(i)))
        /\ Follows(known, x.q, x.b, x.q, AddItem(x.b, StateItem(i)))
    BY <2>2, AddSound
  <2> QED
    BY <2>1, <2>3 DEF Sound
<1> QED
  BY <1>1, <1>2

-----------------------------------------------------------------------------
(* A pass of the active iterator.  Visited is defined by recursion along    *)
(* the positions; that it is what its definition says follows by induction, *)
(* in the form that a set of numbers that is not empty has a least one.     *)

LEMMA Least ==
  ASSUME NEW T \in SUBSET Nat, T # {}
  PROVE  \E x \in T : \A y \in T : x <= y
<1> DEFINE R == {ss \in Nat \X Nat : ss[1] < ss[2]}
<1>1. IsWellFoundedOn(R, Nat)
  BY NatLessThanWellFounded DEF OpToRel
<1>2. \A x, y \in Nat : <<x, y>> \in R <=> x < y
  OBVIOUS
<1> HIDE DEF R
<1>3. PICK x \in T : \A y \in T : ~ (<<y, x>> \in R)
  BY <1>1, WFMin
<1>4. ASSUME NEW y \in T PROVE x <= y
  <2>1. x \in Nat /\ y \in Nat
    OBVIOUS
  <2>2. ~ (y < x)
    BY <1>2, <1>3, <2>1
  <2> QED
    BY <2>1, <2>2
<1> QED
  BY <1>4

LEMMA EntitiesCounted == Len(Entities) \in Nat /\ Completed \in Nat /\ Ents = 1 .. Completed - 2
BY LinkAssumption, LenProperties DEF Completed, Ents

\* f holds the buffers at the positions from at to n.
Along(f, n) ==
    f = [p \in at .. n |-> IF p = at THEN Buffers ELSE Visit(f[p - 1], p - 1)]

LEMMA AlongExists ==
  ASSUME at \in Nat, NEW n \in Nat, at <= n
  PROVE  \E f : Along(f, n)
<1> DEFINE T == {m \in Nat : at <= m /\ ~ \E f : Along(f, m)}
<1>1. SUFFICES ASSUME T # {} PROVE FALSE
  OBVIOUS
<1>2. PICK m \in Nat : m \in T /\ \A k \in T : m <= k
  <2>1. T \in SUBSET Nat
    OBVIOUS
  <2> HIDE DEF T
  <2> QED
    BY <1>1, <2>1, Least
<1>3. at <= m /\ ~ \E f : Along(f, m)
  BY <1>2
<1>4. CASE m = at
  <2>1. Along([p \in at .. m |-> Buffers], m)
    BY <1>4 DEF Along
  <2> QED
    BY <1>3, <2>1
<1>5. CASE m # at
  <2>1. m - 1 \in Nat /\ at <= m - 1 /\ ~ (m <= m - 1)
    BY <1>3, <1>5
  <2>2. m - 1 \notin T
    BY <1>2, <2>1
  <2>3. PICK f : Along(f, m - 1)
    BY <2>1, <2>2
  <2> DEFINE Value(j) == IF j = m THEN Visit(f[m - 1], m - 1) ELSE f[j]
             g == [p \in at .. m |-> Value(p)]
  <2>4. ASSUME NEW p \in at .. m
        PROVE  g[p] = IF p = at THEN Buffers ELSE Visit(g[p - 1], p - 1)
    <3>0. \A j \in at .. m : g[j] = Value(j)
      OBVIOUS
    <3> HIDE DEF g
    <3>1. CASE p = m
      <4>1. m - 1 \in at .. m /\ m - 1 # m
        BY <2>1
      <4>2. g[m - 1] = f[m - 1] /\ g[m] = Visit(f[m - 1], m - 1)
        BY <3>0, <3>1, <4>1
      <4> QED
        BY <1>5, <3>1, <4>2
    <3>2. CASE p # m
      <4>1. p \in at .. m - 1
        BY <3>2
      <4>2. f[p] = IF p = at THEN Buffers ELSE Visit(f[p - 1], p - 1)
        BY <2>3, <4>1 DEF Along
      <4>3. p # at => p - 1 \in at .. m /\ p - 1 # m
        BY <4>1
      <4> QED
        BY <3>0, <3>2, <4>2, <4>3
    <3> QED
      BY <3>1, <3>2
  <2>5. g = [p \in at .. m |-> IF p = at THEN Buffers ELSE Visit(g[p - 1], p - 1)]
    <3>1. g = [p \in at .. m |-> g[p]]
      OBVIOUS
    <3> HIDE DEF g
    <3> QED
      BY <2>4, <3>1
  <2> HIDE DEF g
  <2> QED
    BY <1>3, <2>5 DEF Along
<1> QED
  BY <1>4, <1>5

LEMMA VisitedAlong ==
  ASSUME at \in 1 .. Completed
  PROVE  Along(Visited, Completed)
<1> DEFINE f == CHOOSE g : Along(g, Completed)
<1>1. \E g : Along(g, Completed)
  BY EntitiesCounted, AlongExists
<1>2. Along(f, Completed)
  BY <1>1
<1>3. Visited = f
  BY DEF Visited, Along
<1> QED
  BY <1>2, <1>3

\* What holds of the buffers x at a position p.
Passing(known, x, p) ==
    /\ x \in [q : Seq(FromDevice), b : Seq(Items)]
    /\ Sound(known, x.q, x.b)
    /\ iter = "list" => Told(known, x.q, x.b, p)
    /\ iter # "list" /\ Ends(x.q, x.b) => Ends(toClient, batch)

LEMMA VisitKeeps ==
  ASSUME ValuesTyped, NEW known, NEW x, NEW i \in 1 .. Completed - 1, Passing(known, x, i)
  PROVE  Passing(known, Visit(x, i), i + 1)
<1> DEFINE y == Visit(x, i)
<1>1. x \in [q : Seq(FromDevice), b : Seq(Items)] /\ Sound(known, x.q, x.b)
  BY DEF Passing
<1>2. CASE iter = "list" /\ i \in Ents
  <2> DEFINE c == AddItem(x.b, ListMsg(i))
  <2>1. y = [q |-> x.q, b |-> c]
    BY <1>1, <1>2 DEF Visit
  <2>2. ListMsg(i) \in Items /\ ListMsg(i) # ListDone
    BY <1>2, MessagesDiffer DEF Items, ListEntry
  <2>3. /\ Sound(known, x.q, c) /\ Holds(c, ListMsg(i))
        /\ Told(known, x.q, x.b, i) => Told(known, x.q, c, i)
    BY <1>1, <2>2, AddSound
  <2> HIDE DEF c
  <2>4. Told(known, x.q, c, i + 1)
    <3>1. Told(known, x.q, c, i)
      BY <1>2, <2>3 DEF Passing
    <3>2. \A j \in Listed : j < i + 1 => j < i \/ j = i
      BY EntitiesCounted, ListedAreEnts
    <3> QED
      BY <2>3, <3>1, <3>2 DEF Told
  <2> QED
    BY <1>1, <1>2, <2>1, <2>3, <2>4 DEF Passing, Sound
<1>3. CASE iter = "list" /\ i \notin Ents
  <2> DEFINE c == AddItem(x.b, ListDone)
  <2>1. y = [q |-> x.q, b |-> c]
    BY <1>1, <1>3 DEF Visit, ListDone
  <2>2. i = Len(Entities) + 1
    BY <1>3, EntitiesCounted DEF Completed
  <2>3. ListDone \in Items /\ Told(known, x.q, x.b, Len(Entities) + 1)
    BY <1>3, <2>2 DEF Items, Passing
  <2>4. /\ Sound(known, x.q, c)
        /\ Told(known, x.q, c, Len(Entities) + 1)
    BY <1>1, <2>3, AddSound
  <2> HIDE DEF c
  <2>5. Told(known, x.q, c, i + 1)
    <3>1. \A j \in Listed : j < Len(Entities) + 1
      BY EntitiesCounted, ListedAreEnts DEF Ents
    <3> QED
      BY <2>4, <3>1 DEF Told
  <2> QED
    BY <1>1, <1>3, <2>1, <2>4, <2>5 DEF Passing, Sound
<1>4. CASE iter # "list" /\ i \in Ents /\ Entities[i].kind # "button"
  <2>1. y = SendSmart(x, StateItem(i), Encode(StateItem(i)))
    BY <1>4 DEF Visit
  <2>2. Encode(StateItem(i)) \in States
    BY <1>4, EncodeTyped DEF Items
  <2>3. /\ y \in [q : Seq(FromDevice), b : Seq(Items)]
        /\ Sound(known, y.q, y.b) /\ Follows(known, x.q, x.b, y.q, y.b)
    BY <1>1, <1>4, <2>1, <2>2, SmartSound
  <2> HIDE DEF y
  <2>4. Passing(known, y, i + 1)
    BY <1>4, <2>3 DEF Passing, Follows
  <2> QED
    BY <2>4 DEF y
<1>5. CASE iter # "list" /\ ~ (i \in Ents /\ Entities[i].kind # "button")
  <2>1. y = x
    BY <1>5 DEF Visit
  <2> QED
    BY <1>5, <2>1 DEF Passing
<1> QED
  BY <1>2, <1>3, <1>4, <1>5

LEMMA VisitedPassing ==
  ASSUME ValuesTyped, NEW known, at \in 1 .. Completed, Sound(known, toClient, batch),
         iter = "list" => Told(known, toClient, batch, at),
         NEW p \in at .. Completed
  PROVE  Passing(known, Visited[p], p)
<1> DEFINE T == {k \in at .. Completed : ~ Passing(known, Visited[k], k)}
<1>1. SUFFICES ASSUME T # {} PROVE FALSE
  OBVIOUS
<1>2. PICK k \in Nat : k \in T /\ \A l \in T : k <= l
  <2>1. T \in SUBSET Nat
    BY EntitiesCounted
  <2> HIDE DEF T
  <2> QED
    BY <1>1, <2>1, Least
<1>3. k \in at .. Completed /\ ~ Passing(known, Visited[k], k)
  BY <1>2
<1>4. Visited[k] = IF k = at THEN Buffers ELSE Visit(Visited[k - 1], k - 1)
  BY <1>3, VisitedAlong DEF Along
<1>5. CASE k = at
  <2>1. Passing(known, Buffers, at)
    BY DEF Passing, Buffers, Sound
  <2> QED
    BY <1>3, <1>4, <1>5, <2>1
<1>6. CASE k # at
  <2>1. /\ k - 1 \in at .. Completed /\ k - 1 \in 1 .. Completed - 1 /\ ~ (k <= k - 1)
        /\ (k - 1) + 1 = k
    BY <1>3, <1>6, EntitiesCounted
  <2>2. Passing(known, Visited[k - 1], k - 1)
    BY <1>2, <2>1
  <2> HIDE DEF T
  <2>3. Passing(known, Visit(Visited[k - 1], k - 1), k)
    BY <2>1, <2>2, VisitKeeps
  <2> QED
    BY <1>3, <1>4, <1>6, <2>3
<1> QED
  BY <1>5, <1>6

LEMMA NextPositionRange ==
  ASSUME at \in 1 .. Completed
  PROVE  NextPosition(Visited) \in at .. Completed
<1> DEFINE enough == {p \in at .. Completed :
                        p = Completed \/ Len(Visited[p].b) - Len(batch) >= MaxBatch}
<1>1. enough \in SUBSET Nat /\ Completed \in enough /\ enough \subseteq at .. Completed
  BY EntitiesCounted
<1>2. NextPosition(Visited) = CHOOSE p \in enough : \A q \in enough : p <= q
  BY DEF NextPosition
<1> HIDE DEF enough
<1>3. \E p \in enough : \A q \in enough : p <= q
  BY <1>1, Least
<1> QED
  BY <1>1, <1>2, <1>3

-----------------------------------------------------------------------------
(* The inductive invariant. *)

ListRequest == Msg("list_entities_request")

\* What the device keeps, and the messages on their way.
DeviceTyped ==
    /\ ValuesTyped
    /\ dev \in {"none", "up"} /\ phase \in {"idle", "read", "flush"}
    /\ iter \in {"none", "list", "state"} /\ at \in 1 .. Completed
    /\ subscribed \in BOOLEAN /\ sentPing \in BOOLEAN /\ eager \in BOOLEAN
    /\ batch \in Seq(Items)
    /\ toDevice \in Seq(FromClient)
    /\ toClient \in Seq(FromDevice) /\ Len(toClient) <= MaxQueue

Slots ==
    [object_id : {Reg!Clip(Entities[i].name) : i \in Ents}, key : Nat,
     state : {Reg!Clip(Show(kind, v)) : kind \in ClientKinds, v \in Values} \cup {<<>>},
     type : ClientKinds]

\* What the client keeps.
SessionTyped ==
    /\ pc \in {"none", "idle", "info", "wait"}
    /\ step \in 0 .. WAIT_STEPS /\ ret \in {0, -1}
    /\ calls \in [Ops -> Nat]
    /\ registry \in Seq(Slots) /\ Len(registry) <= MAX_ENTITIES
    /\ done \in BOOLEAN /\ fresh \in BOOLEAN

\* As long as the application has not asked for the list, no part of the
\* request or of its end is anywhere.
NotAsked ==
    calls["list"] = 0
      => ~ done /\ ~ Holds(toDevice, ListRequest) /\ iter # "list" /\ ~ Ends(toClient, batch)

\* An application that has asked once finds list_entities_done set only by the answer.
DoneIsFresh == calls["list"] <= 1 /\ done => fresh

Known == {i \in Listed : InRegistry(i)}

\* The whole list gets to the registry: what the iterator has passed is known or
\* under way, and nothing of it is behind the end of the list.
WholeList ==
    ~ lost /\ ~ jumped /\ Len(registry) < MAX_ENTITIES
      => /\ done => Listed \subseteq Known
         /\ Behind(Known, toClient, batch)
         /\ iter = "list" => Told(Known, toClient, batch, at)

IInv ==
    /\ DeviceTyped /\ SessionTyped
    /\ NotAsked /\ DoneIsFresh
    /\ pc # "none" => WholeList

-----------------------------------------------------------------------------
(* The device's steps. *)

\* What a step of the device may do to the list and to its end.
Delivers ==
    /\ jumped => jumped'
    /\ \A known :
         /\ ~ jumped' /\ Behind(known, toClient, batch)
         /\ iter = "list" => Told(known, toClient, batch, at)
         => /\ Behind(known, toClient', batch')
            /\ iter' = "list" => Told(known, toClient', batch', at')
    /\ ~ Holds(toDevice, ListRequest) /\ iter # "list" /\ ~ Ends(toClient, batch)
         => ~ Holds(toDevice', ListRequest) /\ iter' # "list" /\ ~ Ends(toClient', batch')

LEMMA SoundBuffers ==
  ASSUME DeviceTyped
  PROVE  /\ \A known : Behind(known, toClient, batch) => Sound(known, toClient, batch)
         /\ Sound(Listed, toClient, batch)
         /\ \A q, b, n : Told(Listed, q, b, n)
BY DEF DeviceTyped, Sound, Behind, Told

\* A step of which it is known what it makes of every sound queue and batch.
LEMMA BuffersFollow ==
  ASSUME DeviceTyped, UNCHANGED <<iter, at, jumped>>,
         Holds(toDevice', ListRequest) => Holds(toDevice, ListRequest),
         \A known : Sound(known, toClient, batch)
           => /\ Sound(known, toClient', batch')
              /\ Follows(known, toClient, batch, toClient', batch')
  PROVE  /\ Delivers
         /\ toClient' \in Seq(FromDevice) /\ Len(toClient') <= MaxQueue
         /\ batch' \in Seq(Items)
<1>1. Sound(Listed, toClient', batch')
  BY SoundBuffers
<1>2. ASSUME NEW known, Behind(known, toClient, batch)
      PROVE  /\ Behind(known, toClient', batch')
             /\ \A n : Told(known, toClient, batch, n) => Told(known, toClient', batch', n)
             /\ Ends(toClient', batch') => Ends(toClient, batch)
  BY <1>2, SoundBuffers DEF Sound, Follows
<1>3. Ends(toClient', batch') => Ends(toClient, batch)
  BY SoundBuffers DEF Follows
<1>4. Delivers
  BY <1>2, <1>3 DEF Delivers
<1> QED
  BY <1>1, <1>4 DEF Sound

LEMMA ListedSwitches ==
  ASSUME NEW i \in Ents, Entities[i].kind = "switch"
  PROVE  ReadingsOf(Entities[i].kind) = {0, 1}
BY DEF ReadingsOf

LEMMA ValueChanges ==
  ASSUME ValuesTyped, NEW i \in Ents, NEW v \in ReadingsOf(Entities[i].kind) \cap Values,
         value' = [value EXCEPT ![i] = v]
  PROVE  ValuesTyped'
BY DEF ValuesTyped

LEMMA ReadingsAreValues ==
  ASSUME NEW i \in Ents
  PROVE  ReadingsOf(Entities[i].kind) \subseteq Values
<1>1. Entities[i].kind \in Kinds
  <2>1. Entities[i] \in [name : Seq(STRING), key : Nat, kind : Kinds]
    BY LinkAssumption, ElementOfSeq DEF Ents
  <2> QED
    BY <2>1
<1> QED
  BY <1>1 DEF ReadingsOf, Values, Kinds, ClientKinds

LEMMA PublishKeeps ==
  ASSUME DeviceTyped, NEW i \in Ents, NEW v \in ReadingsOf(Entities[i].kind), Publish(i, v)
  PROVE  /\ ValuesTyped'
         /\ \A known : Sound(known, toClient, batch)
              => /\ Sound(known, toClient', batch')
                 /\ Follows(known, toClient, batch, toClient', batch')
<1>1. v \in Values
  BY ReadingsAreValues
<1>2. ValuesTyped'
  BY <1>1, ValueChanges DEF Publish, DeviceTyped
<1>3. ASSUME NEW known, Sound(known, toClient, batch)
      PROVE  /\ Sound(known, toClient', batch')
             /\ Follows(known, toClient, batch, toClient', batch')
  <2> DEFINE x == SendSmart(Buffers, StateItem(i), StateMsg(i, v))
  <2>1. StateMsg(i, v) \in States
    BY <1>1 DEF States
  <2>2. /\ Buffers \in [q : Seq(FromDevice), b : Seq(Items)]
        /\ Buffers.q = toClient /\ Buffers.b = batch
    BY DEF Buffers, DeviceTyped
  <2>3. Sound(known, x.q, x.b) /\ Follows(known, toClient, batch, x.q, x.b)
    BY <1>3, <2>1, <2>2, SmartSound
  <2>4. \/ toClient' = x.q /\ batch' = x.b
        \/ toClient' = toClient /\ batch' = batch
    BY DEF Publish, Queue
  <2> HIDE DEF x
  <2>5. Follows(known, toClient, batch, toClient, batch)
    BY DEF Follows
  <2> QED
    BY <1>3, <2>3, <2>4, <2>5
<1> QED
  BY <1>2, <1>3

LEMMA EntityChangesKeeps ==
  ASSUME DeviceTyped, EntityChanges
  PROVE  DeviceTyped' /\ Delivers
<1>1. PICK i \in Ents : \E v \in ReadingsOf(Entities[i].kind) : Publish(i, v)
  BY DEF EntityChanges
<1>2. PICK v \in ReadingsOf(Entities[i].kind) : Publish(i, v)
  BY <1>1
<1>3. UNCHANGED <<dev, phase, iter, at, subscribed, sentPing, eager, jumped, toDevice>>
  BY DEF EntityChanges
<1>4. /\ ValuesTyped' /\ Delivers
      /\ toClient' \in Seq(FromDevice) /\ Len(toClient') <= MaxQueue
      /\ batch' \in Seq(Items)
  BY <1>2, <1>3, PublishKeeps, BuffersFollow
<1> QED
  BY <1>3, <1>4 DEF DeviceTyped

LEMMA CommandedIsSwitch ==
  ASSUME NEW key, SwitchesWithKey(key) # {}
  PROVE  Commanded(key) \in Ents /\ Entities[Commanded(key)].kind = "switch"
<1> DEFINE S == SwitchesWithKey(key)
<1>1. S \in SUBSET Nat
  BY EntitiesCounted DEF SwitchesWithKey
<1>2. Commanded(key) = CHOOSE i \in S : \A j \in S : i <= j
  BY DEF Commanded
<1> HIDE DEF S
<1>3. Commanded(key) \in S
  <2>1. \E i \in S : \A j \in S : i <= j
    BY <1>1, Least DEF S
  <2> QED
    BY <1>2, <2>1
<1> QED
  BY <1>3 DEF S, SwitchesWithKey

\* Taking a message from toDevice.
LEMMA RequestTaken ==
  ASSUME DeviceTyped, toDevice # <<>>, toDevice' = Tail(toDevice)
  PROVE  /\ toDevice' \in Seq(FromClient) /\ Head(toDevice) \in FromClient
         /\ Holds(toDevice', ListRequest) => Holds(toDevice, ListRequest)
         /\ Head(toDevice).type = "list_entities_request" => Holds(toDevice, ListRequest)
<1>1. toDevice \in Seq(FromClient)
  BY DEF DeviceTyped
<1>2. /\ Head(toDevice) \in FromClient /\ Tail(toDevice) \in Seq(FromClient)
      /\ Len(toDevice) \in Nat \ {0} /\ Len(Tail(toDevice)) = Len(toDevice) - 1
      /\ Head(toDevice) = toDevice[1]
      /\ \A k \in 1 .. Len(Tail(toDevice)) : Tail(toDevice)[k] = toDevice[k + 1]
  BY <1>1, HeadTailProperties, LenProperties, EmptySeq
<1>3. \A k \in 1 .. Len(Tail(toDevice)) : k + 1 \in 1 .. Len(toDevice)
  BY <1>2
<1>4. Holds(toDevice', ListRequest) => Holds(toDevice, ListRequest)
  BY <1>2, <1>3 DEF Holds
<1>5. ASSUME Head(toDevice).type = "list_entities_request"
      PROVE  Holds(toDevice, ListRequest)
  <2>1. Head(toDevice) = ListRequest
    BY <1>2, <1>5 DEF FromClient, ListRequest, Msg
  <2>2. 1 \in 1 .. Len(toDevice)
    BY <1>2
  <2> QED
    BY <1>2, <2>1, <2>2 DEF Holds
<1> QED
  BY <1>2, <1>4, <1>5

LEMMA AnswerKeeps ==
  ASSUME DeviceTyped, NEW m \in Urgent \cup Replies, Room(toClient, 1),
         toClient' = Append(toClient, m), UNCHANGED batch
  PROVE  \A known : Sound(known, toClient, batch)
           => /\ Sound(known, toClient', batch')
              /\ Follows(known, toClient, batch, toClient', batch')
BY AppendSound

LEMMA ReadMessageKeeps ==
  ASSUME DeviceTyped, ReadMessage
  PROVE  DeviceTyped' /\ Delivers
<1> DEFINE m == Head(toDevice)
<1>1. /\ toDevice' \in Seq(FromClient) /\ m \in FromClient
      /\ Holds(toDevice', ListRequest) => Holds(toDevice, ListRequest)
      /\ m.type = "list_entities_request" => Holds(toDevice, ListRequest)
  BY RequestTaken DEF ReadMessage
<1>2. phase' = "read" /\ UNCHANGED <<dev, eager, jumped>>
  BY DEF ReadMessage
<1>3. CASE \/ m.type = "device_info_request" /\ Answer(Msg("device_info_response"))
           \/ m.type = "ping_request" /\ Answer(Msg("ping_response"))
  <2>1. PICK a \in Replies : Answer(a)
    BY <1>3 DEF Replies
  <2>2. /\ Room(toClient, 1) /\ toClient' = Append(toClient, a)
        /\ UNCHANGED <<value, iter, at, batch, subscribed, sentPing>>
    BY <2>1 DEF Answer
  <2>3. \A known : Sound(known, toClient, batch)
          => /\ Sound(known, toClient', batch')
             /\ Follows(known, toClient, batch, toClient', batch')
    BY <2>2, AnswerKeeps
  <2>4. Delivers /\ toClient' \in Seq(FromDevice) /\ Len(toClient') <= MaxQueue
    BY <1>1, <1>2, <2>2, <2>3, BuffersFollow
  <2> QED
    BY <1>1, <1>2, <2>2, <2>4 DEF DeviceTyped, ValuesTyped
<1>4. CASE m.type = "ping_response" /\ OnPingResponse
  <2>1. UNCHANGED <<value, iter, at, batch, subscribed, toClient>> /\ sentPing' = FALSE
    BY <1>4 DEF OnPingResponse
  <2> QED
    BY <1>1, <1>2, <2>1 DEF DeviceTyped, ValuesTyped, Delivers
<1>5. CASE m.type = "list_entities_request" /\ OnListEntities
  <2>1. /\ UNCHANGED <<value, batch, subscribed, sentPing, toClient>>
        /\ iter' = "list" /\ at' = 1
    BY <1>5 DEF OnListEntities
  <2>2. \A known : Told(known, toClient', batch', at')
    BY <2>1, ListedAreEnts DEF Told, Ents
  <2>3. at' \in 1 .. Completed
    BY <2>1, EntitiesCounted DEF Completed
  <2> QED
    BY <1>1, <1>2, <1>5, <2>1, <2>2, <2>3 DEF DeviceTyped, ValuesTyped, Delivers
<1>6. CASE m.type = "subscribe_states_request" /\ OnSubscribeStates
  <2>1. /\ UNCHANGED <<value, batch, sentPing, toClient>> /\ subscribed' = TRUE
        /\ \/ iter' = "state" /\ at' = 1
           \/ UNCHANGED <<iter, at>>
    BY <1>6 DEF OnSubscribeStates
  <2>2. 1 \in 1 .. Completed
    BY EntitiesCounted DEF Completed
  <2> QED
    BY <1>1, <1>2, <2>1, <2>2 DEF DeviceTyped, ValuesTyped, Delivers
<1>7. CASE m.type = "switch_command" /\ OnSwitchCommand(m)
  <2>1. UNCHANGED <<iter, at, subscribed, sentPing>>
    BY <1>7 DEF OnSwitchCommand
  <2>2. CASE SwitchesWithKey(m.key) # {} /\ value[Commanded(m.key)] # m.on
    <3>1. Publish(Commanded(m.key), m.on)
      BY <1>7, <2>2 DEF OnSwitchCommand
    <3>2. m.on \in {0, 1}
      BY <1>1, <1>7 DEF FromClient
    <3>3. /\ Commanded(m.key) \in Ents
          /\ m.on \in ReadingsOf(Entities[Commanded(m.key)].kind)
      BY <2>2, <3>2, CommandedIsSwitch, ListedSwitches
    <3>4. /\ ValuesTyped'
          /\ \A known : Sound(known, toClient, batch)
               => /\ Sound(known, toClient', batch')
                  /\ Follows(known, toClient, batch, toClient', batch')
      BY <3>1, <3>3, PublishKeeps
    <3>5. /\ Delivers /\ toClient' \in Seq(FromDevice) /\ Len(toClient') <= MaxQueue
          /\ batch' \in Seq(Items)
      BY <1>1, <1>2, <2>1, <3>4, BuffersFollow
    <3> QED
      BY <1>1, <1>2, <2>1, <3>4, <3>5 DEF DeviceTyped
  <2>3. CASE ~ (SwitchesWithKey(m.key) # {} /\ value[Commanded(m.key)] # m.on)
    <3>1. UNCHANGED <<value, batch, toClient>>
      BY <1>7, <2>3 DEF OnSwitchCommand
    <3> QED
      BY <1>1, <1>2, <2>1, <3>1 DEF DeviceTyped, ValuesTyped, Delivers
  <2> QED
    BY <2>2, <2>3
<1> QED
  BY <1>3, <1>4, <1>5, <1>6, <1>7 DEF ReadMessage

LEMMA FlushBatchKeeps ==
  ASSUME DeviceTyped, FlushBatch
  PROVE  DeviceTyped' /\ Delivers
<1>1. /\ ProcessBatch(toClient, batch) /\ phase' = "flush"
      /\ UNCHANGED <<value, dev, iter, at, subscribed, sentPing, eager, jumped, toDevice>>
  BY DEF FlushBatch
<1>2. \A known : Sound(known, toClient, batch)
        => /\ Sound(known, toClient', batch')
           /\ Follows(known, toClient, batch, toClient', batch')
  BY <1>1, ProcessKeeps DEF DeviceTyped
<1>3. /\ Delivers /\ toClient' \in Seq(FromDevice) /\ Len(toClient') <= MaxQueue
      /\ batch' \in Seq(Items)
  BY <1>1, <1>2, BuffersFollow
<1> QED
  BY <1>1, <1>3 DEF DeviceTyped, ValuesTyped

LEMMA IteratorAdvancesKeeps ==
  ASSUME DeviceTyped, IteratorAdvances
  PROVE  DeviceTyped' /\ Delivers
<1> DEFINE p == NextPosition(Visited)
           x == Visited[p]
<1>1. /\ at' = p /\ phase' = "idle" /\ iter # "none"
      /\ UNCHANGED <<value, dev, iter, subscribed, sentPing, eager, jumped, toDevice>>
      /\ \/ ProcessBatch(x.q, x.b)
         \/ toClient' = x.q /\ batch' = x.b
  BY DEF IteratorAdvances, Queue
<1>2. /\ at \in 1 .. Completed /\ p \in at .. Completed /\ p \in 1 .. Completed
      /\ ValuesTyped
  BY NextPositionRange, EntitiesCounted DEF DeviceTyped
<1>3. ASSUME NEW known, Behind(known, toClient, batch),
             iter = "list" => Told(known, toClient, batch, at)
      PROVE  Passing(known, x, p)
  BY <1>2, <1>3, SoundBuffers, VisitedPassing
<1> HIDE DEF x, p
<1>4. ASSUME NEW known, Passing(known, x, p)
      PROVE  /\ Sound(known, toClient', batch')
             /\ iter = "list" => Told(known, toClient', batch', p)
             /\ iter # "list" /\ Ends(toClient', batch') => Ends(toClient, batch)
  <2>1. Sound(known, x.q, x.b)
    BY <1>4 DEF Passing
  <2>2. Sound(known, toClient', batch') /\ Follows(known, x.q, x.b, toClient', batch')
    <3>1. Follows(known, x.q, x.b, x.q, x.b)
      BY DEF Follows
    <3> QED
      BY <1>1, <1>2, <2>1, <3>1, ProcessKeeps
  <2> QED
    BY <1>4, <2>2 DEF Passing, Follows
<1>5. Passing(Listed, x, p)
  BY <1>3, SoundBuffers DEF Sound
<1>6. DeviceTyped'
  BY <1>1, <1>2, <1>4, <1>5 DEF DeviceTyped, ValuesTyped, Sound
<1>7. Delivers
  <2>1. ASSUME NEW known, Behind(known, toClient, batch),
               iter = "list" => Told(known, toClient, batch, at)
        PROVE  /\ Behind(known, toClient', batch')
               /\ iter' = "list" => Told(known, toClient', batch', at')
    BY <1>1, <1>3, <1>4, <2>1 DEF Sound
  <2> QED
    BY <1>1, <1>4, <1>5, <2>1 DEF Delivers
<1> QED
  BY <1>6, <1>7

LEMMA IteratorCompletesKeeps ==
  ASSUME DeviceTyped, IteratorCompletes
  PROVE  DeviceTyped' /\ Delivers
<1>1. /\ phase' = "idle"
      /\ UNCHANGED <<value, dev, subscribed, sentPing, jumped, toDevice>>
  BY DEF IteratorCompletes
<1>2. CASE iter = "list" /\ subscribed
  <2>1. iter' = "state" /\ at' = 1 /\ UNCHANGED <<batch, toClient, eager>>
    BY <1>2 DEF IteratorCompletes
  <2>2. 1 \in 1 .. Completed
    BY EntitiesCounted DEF Completed
  <2> QED
    BY <1>1, <1>2, <2>1, <2>2 DEF DeviceTyped, ValuesTyped, Delivers
<1>3. CASE ~ (iter = "list" /\ subscribed)
  <2>1. iter' = "none" /\ at' = at /\ ProcessBatch(toClient, batch) /\ eager' = TRUE
    BY <1>3 DEF IteratorCompletes
  <2>2. ASSUME NEW known, Behind(known, toClient, batch)
        PROVE  /\ Sound(known, toClient', batch')
               /\ Follows(known, toClient, batch, toClient', batch')
    BY <2>1, <2>2, ProcessKeeps, SoundBuffers DEF DeviceTyped
  <2>3. Behind(Listed, toClient, batch)
    BY SoundBuffers DEF Sound
  <2>4. DeviceTyped'
    BY <1>1, <2>1, <2>2, <2>3 DEF DeviceTyped, ValuesTyped, Sound
  <2>5. Delivers
    BY <1>1, <2>1, <2>2, <2>3 DEF Delivers, Sound, Follows
  <2> QED
    BY <2>4, <2>5
<1> QED
  BY <1>2, <1>3

LEMMA SendUrgentKeeps ==
  ASSUME DeviceTyped, NEW m \in Urgent, SendUrgent(m), UNCHANGED <<iter, at, toDevice>>
  PROVE  /\ Delivers
         /\ toClient' \in Seq(FromDevice) /\ Len(toClient') <= MaxQueue
         /\ batch' \in Seq(Items)
<1>1. m \in Items /\ m # ListDone
  BY MessagesDiffer DEF Items
<1>2. CASE Room(toClient, 1)
  <2>1. toClient' = Append(toClient, m) /\ UNCHANGED <<batch, jumped>>
    BY <1>2 DEF SendUrgent, Queue
  <2>2. \A known : Sound(known, toClient, batch)
          => /\ Sound(known, toClient', batch')
             /\ Follows(known, toClient, batch, toClient', batch')
    BY <1>2, <2>1, AnswerKeeps
  <2> QED
    BY <2>1, <2>2, BuffersFollow
<1>3. CASE ~ Room(toClient, 1)
  <2>1. /\ toClient' = toClient /\ batch' = AddItemFront(batch, m)
        /\ jumped' = (jumped \/ batch # <<>>)
    BY <1>3 DEF SendUrgent, Queue
  <2>2. batch \in Seq(Items) /\ Len(batch) \in Nat
    BY LenProperties DEF DeviceTyped
  <2>3. CASE batch = <<>>
    <3>1. batch' = <<m>> /\ (jumped => jumped')
      BY <2>1, <2>3 DEF AddItemFront
    <3>2. batch' \in Seq(Items) /\ Len(batch') = 1 /\ batch'[1] = m
      BY <1>1, <3>1
    <3>3. ASSUME NEW known, Behind(known, toClient, batch)
          PROVE  Behind(known, toClient', batch')
      BY <1>1, <2>1, <3>2, <3>3 DEF Behind
    <3>4. ASSUME NEW known, NEW n, Told(known, toClient, batch, n)
          PROVE  Told(known, toClient', batch', n)
      <4>1. \A i : ~ Holds(batch, ListMsg(i))
        BY <2>3 DEF Holds
      <4> QED
        BY <2>1, <3>4, <4>1 DEF Told
    <3>5. Ends(toClient', batch') => Ends(toClient, batch)
      BY <1>1, <2>1, <3>2 DEF Ends, Holds
    <3>6. Delivers
      BY <3>1, <3>3, <3>4, <3>5 DEF Delivers
    <3> QED
      BY <2>1, <3>2, <3>6 DEF DeviceTyped
  <2>4. CASE batch # <<>>
    <3> DEFINE c == [batch EXCEPT ![1] = m]
    <3>1. 1 \in 1 .. Len(batch)
      BY <2>2, <2>4, EmptySeq
    <3>2. /\ c \in Seq(Items) /\ Len(c) = Len(batch)
          /\ \A k \in 1 .. Len(batch) : c[k] = IF k = 1 THEN m ELSE batch[k]
      BY <1>1, <2>2, <3>1, ExceptSeq
    <3>3. batch' = Append(c, batch[1]) /\ batch[1] \in Items
      BY <2>1, <2>2, <2>4, <3>1, ElementOfSeq DEF AddItemFront
    <3> HIDE DEF c
    <3>4. /\ batch' \in Seq(Items) /\ Len(batch') = Len(batch) + 1
          /\ \A k \in 1 .. Len(c) : batch'[k] = c[k]
          /\ batch'[Len(c) + 1] = batch[1]
      BY <3>2, <3>3, AppendProperties
    <3>5. ASSUME NEW k \in 1 .. Len(batch'), batch'[k] = ListDone
          PROVE  Holds(batch, ListDone)
      <4>1. CASE k \in 1 .. Len(batch)
        <5>1. batch[k] = ListDone
          BY <1>1, <3>2, <3>4, <3>5, <4>1
        <5> QED
          BY <4>1, <5>1 DEF Holds
      <4>2. CASE k = Len(batch) + 1
        BY <3>1, <3>2, <3>4, <3>5, <4>2 DEF Holds
      <4> QED
        BY <2>2, <3>4, <4>1, <4>2
    <3>6. Ends(toClient', batch') => Ends(toClient, batch)
      BY <2>1, <3>5 DEF Ends, Holds
    <3>7. Delivers
      BY <2>1, <2>4, <3>6 DEF Delivers
    <3> QED
      BY <2>1, <3>4, <3>7 DEF DeviceTyped
  <2> QED
    BY <2>3, <2>4
<1> QED
  BY <1>2, <1>3

LEMMA DropKeeps ==
  ASSUME DeviceTyped, Drop
  PROVE  DeviceTyped' /\ Delivers
<1>1. /\ dev' = "none" /\ phase' = "idle" /\ toDevice' = <<>>
      /\ iter' = "none" /\ at' = 1 /\ batch' = <<>>
      /\ subscribed' = FALSE /\ sentPing' = FALSE /\ eager' = FALSE
      /\ value' \in {value, Start} /\ UNCHANGED <<jumped, toClient>>
  BY DEF Drop
<1>2. ValuesTyped'
  <2>1. \A i \in Ents : Start[i] \in ReadingsOf(Entities[i].kind) /\ Start[i] \in Values
    BY DeviceAssumption, ReadingsAreValues
  <2>2. Start \in [Ents -> Values]
    BY <2>1, DeviceAssumption
  <2> QED
    BY <1>1, <2>1, <2>2 DEF DeviceTyped, ValuesTyped
<1>3. \A m : ~ Holds(batch', m) /\ ~ Holds(toDevice', m)
  BY <1>1 DEF Holds
<1>4. 1 \in 1 .. Completed
  BY EntitiesCounted DEF Completed
<1>5. batch' \in Seq(Items) /\ toDevice' \in Seq(FromClient)
  BY <1>1, EmptySeq
<1>6. DeviceTyped'
  BY <1>1, <1>2, <1>4, <1>5 DEF DeviceTyped
<1>7. Delivers
  <2>1. \A known : Behind(known, toClient, batch) => Behind(known, toClient', batch')
    BY <1>1 DEF Behind
  <2> QED
    BY <1>1, <1>3, <2>1 DEF Delivers, Ends
<1> QED
  BY <1>6, <1>7

\* What the device does by itself.
DeviceActs == EntityChanges \/ Serve \/ Drop \/ Shutdown

LEMMA DeviceKeeps ==
  ASSUME DeviceTyped, DeviceActs
  PROVE  DeviceTyped' /\ Delivers
<1>1. CASE EntityChanges
  BY <1>1, EntityChangesKeeps
<1>2. CASE ReadMessage
  BY <1>2, ReadMessageKeeps
<1>3. CASE FlushBatch
  BY <1>3, FlushBatchKeeps
<1>4. CASE PassEnds
  <2>1. /\ phase' = "idle"
        /\ UNCHANGED <<value, dev, iter, at, batch, subscribed, sentPing, eager, jumped,
                       toClient, toDevice>>
    BY <1>4 DEF PassEnds
  <2> QED
    BY <2>1 DEF DeviceTyped, ValuesTyped, Delivers
<1>5. CASE IteratorAdvances
  BY <1>5, IteratorAdvancesKeeps
<1>6. CASE IteratorCompletes
  BY <1>6, IteratorCompletesKeeps
<1>7. CASE KeepalivePing
  <2>1. /\ SendUrgent(Msg("ping_request")) /\ sentPing' = TRUE
        /\ UNCHANGED <<value, dev, phase, iter, at, subscribed, eager, toDevice>>
    BY <1>7 DEF KeepalivePing
  <2>2. /\ Delivers /\ toClient' \in Seq(FromDevice) /\ Len(toClient') <= MaxQueue
        /\ batch' \in Seq(Items)
    BY <2>1, SendUrgentKeeps DEF Urgent
  <2> QED
    BY <2>1, <2>2 DEF DeviceTyped, ValuesTyped
<1>8. CASE Drop
  BY <1>8, DropKeeps
<1>9. CASE Shutdown
  <2>1. /\ SendUrgent(Msg("disconnect_request"))
        /\ UNCHANGED <<value, dev, phase, iter, at, subscribed, sentPing, eager, toDevice>>
    BY <1>9 DEF Shutdown
  <2>2. /\ Delivers /\ toClient' \in Seq(FromDevice) /\ Len(toClient') <= MaxQueue
        /\ batch' \in Seq(Items)
    BY <2>1, SendUrgentKeeps DEF Urgent
  <2> QED
    BY <2>1, <2>2 DEF DeviceTyped, ValuesTyped
<1> QED
  BY <1>1, <1>2, <1>3, <1>4, <1>5, <1>6, <1>7, <1>8, <1>9 DEF DeviceActs, Serve

LEMMA DeviceStep ==
  ASSUME IInv, DeviceActs, UNCHANGED sessionVars
  PROVE  IInv'
<1>1. DeviceTyped /\ SessionTyped /\ NotAsked /\ DoneIsFresh /\ (pc # "none" => WholeList)
  BY DEF IInv
<1>2. DeviceTyped' /\ Delivers
  BY <1>1, DeviceKeeps
<1>3. UNCHANGED <<pc, done, step, registry, ret, calls, lost, fresh>>
  BY DEF sessionVars
<1>4. SessionTyped' /\ DoneIsFresh'
  BY <1>1, <1>3 DEF SessionTyped, DoneIsFresh
<1>5. NotAsked'
  BY <1>1, <1>2, <1>3 DEF NotAsked, Delivers
<1>6. ASSUME WholeList PROVE WholeList'
  <2>1. Known' = Known
    BY <1>3 DEF Known, InRegistry
  <2> SUFFICES ASSUME ~ lost', ~ jumped', Len(registry') < MAX_ENTITIES
      PROVE  /\ done' => Listed \subseteq Known'
             /\ Behind(Known', toClient', batch')
             /\ iter' = "list" => Told(Known', toClient', batch', at')
    BY DEF WholeList
  <2>2. /\ done => Listed \subseteq Known
        /\ Behind(Known, toClient, batch)
        /\ iter = "list" => Told(Known, toClient, batch, at)
    BY <1>2, <1>3, <1>6 DEF WholeList, Delivers
  <2> QED
    BY <1>2, <1>3, <2>1, <2>2 DEF Delivers
<1> QED
  BY <1>1, <1>2, <1>3, <1>4, <1>5, <1>6 DEF IInv

-----------------------------------------------------------------------------
(* The client's steps: the registry. *)

RegistryTyped == registry \in Seq(Slots) /\ Len(registry) <= MAX_ENTITIES

EntityTyped(e) == e \in [name : Seq(STRING), key : Nat, kind : Kinds]

LEMMA EntitiesTyped == \A i \in Ents : EntityTyped(Entities[i])
BY LinkAssumption, ElementOfSeq DEF Ents, EntityTyped

\* esph_registry_add for an entity of the device.
LEMMA AddedIsKnown ==
  ASSUME RegistryTyped, NEW i \in Ents, Entities[i].kind \in ClientKinds,
         registry' = Reg!esph_registry_add(registry, Entities[i].name, Entities[i].key,
                                           Entities[i].kind)
  PROVE  /\ RegistryTyped'
         /\ Len(registry') < MAX_ENTITIES
              => Len(registry) < MAX_ENTITIES /\ Known \subseteq Known' /\ i \in Known'
<1> DEFINE e == Reg!Entry(Entities[i].name, Entities[i].key, Entities[i].kind)
<1>1. Len(registry) \in Nat /\ registry \in Seq(Slots) /\ MAX_ENTITIES \in Nat
  BY LenProperties, SessionAssumption DEF RegistryTyped
<1>2. /\ e \in Slots /\ e.object_id = Reg!Clip(Entities[i].name)
      /\ e.key = Entities[i].key
  <2>1. Entities[i].key \in Nat
    BY EntitiesTyped DEF EntityTyped
  <2>2. Reg!Clip(Entities[i].name) \in {Reg!Clip(Entities[j].name) : j \in Ents}
    OBVIOUS
  <2> QED
    BY <2>1, <2>2 DEF Slots, Reg!Entry, Reg!NoState
<1>3. CASE Len(registry) >= MAX_ENTITIES
  <2>1. registry' = registry
    BY <1>3 DEF Reg!esph_registry_add
  <2> QED
    BY <1>1, <1>3, <2>1 DEF RegistryTyped
<1>4. CASE ~ Len(registry) >= MAX_ENTITIES
  <2>1. registry' = Append(registry, e)
    BY <1>4 DEF Reg!esph_registry_add
  <2> HIDE DEF e
  <2>2. /\ registry' \in Seq(Slots) /\ Len(registry') = Len(registry) + 1
        /\ \A j \in 1 .. Len(registry) : registry'[j] = registry[j]
        /\ registry'[Len(registry) + 1] = e
    BY <1>1, <1>2, <2>1, AppendProperties
  <2>3. RegistryTyped'
    BY <1>1, <1>4, <2>2 DEF RegistryTyped
  <2>4. ASSUME NEW k \in Known PROVE k \in Known'
    <3>1. PICK j \in 1 .. Len(registry) :
            /\ registry[j].object_id = Reg!Clip(Entities[k].name)
            /\ registry[j].key = Entities[k].key
      BY DEF Known, InRegistry
    <3>2. j \in 1 .. Len(registry') /\ registry'[j] = registry[j]
      BY <1>1, <2>2
    <3>3. k \in Listed
      BY DEF Known
    <3> QED
      BY <3>1, <3>2, <3>3 DEF Known, InRegistry
  <2>5. i \in Known'
    <3>1. Len(registry) + 1 \in 1 .. Len(registry')
      BY <1>1, <2>2
    <3> QED
      BY <1>2, <2>2, <3>1 DEF Known, InRegistry, Listed
  <2> QED
    BY <1>4, <1>1, <2>3, <2>4, <2>5
<1> QED
  BY <1>3, <1>4

LEMMA FirstIsMember ==
  ASSUME NEW S \in SUBSET Nat, S # {}
  PROVE  Reg!First(S) \in S
<1>1. \E i \in S : \A j \in S : i <= j
  BY Least
<1> QED
  BY <1>1 DEF Reg!First

\* esph_registry_update_state for a state of the device.
LEMMA UpdatedIsKnown ==
  ASSUME RegistryTyped, NEW key, NEW kind \in ClientKinds, NEW v \in Values,
         registry' = Reg!esph_registry_update_state(registry, key, Show(kind, v))
  PROVE  RegistryTyped' /\ Len(registry') = Len(registry) /\ Known' = Known
<1>1. Len(registry) \in Nat /\ registry \in Seq(Slots)
  BY LenProperties DEF RegistryTyped
<1>2. CASE Reg!WithKey(registry, key) = {}
  <2>1. registry' = registry
    BY <1>2 DEF Reg!esph_registry_update_state
  <2> QED
    BY <2>1 DEF RegistryTyped, Known, InRegistry
<1>3. CASE Reg!WithKey(registry, key) # {}
  <2> DEFINE f == Reg!First(Reg!WithKey(registry, key))
             text == Reg!Clip(Show(kind, v))
             e == [registry[f] EXCEPT !.state = text]
  <2>1. f \in 1 .. Len(registry)
    <3>1. /\ Reg!WithKey(registry, key) \in SUBSET Nat
          /\ Reg!WithKey(registry, key) \subseteq 1 .. Len(registry)
      BY <1>1 DEF Reg!WithKey
    <3> QED
      BY <1>3, <3>1, FirstIsMember
  <2>2. registry' = [registry EXCEPT ![f] = e]
    BY <1>3 DEF Reg!esph_registry_update_state
  <2>3. text \in {Reg!Clip(Show(k, w)) : k \in ClientKinds, w \in Values}
    OBVIOUS
  <2> HIDE DEF f, text
  <2>4. registry[f] \in Slots
    BY <1>1, <2>1, ElementOfSeq
  <2>5. e \in Slots /\ e.object_id = registry[f].object_id /\ e.key = registry[f].key
    BY <2>3, <2>4 DEF Slots
  <2> HIDE DEF e
  <2>6. /\ registry' \in Seq(Slots) /\ Len(registry') = Len(registry)
        /\ \A j \in 1 .. Len(registry) : registry'[j] = IF j = f THEN e ELSE registry[j]
    BY <1>1, <2>1, <2>2, <2>5, ExceptSeq
  <2>7. \A j \in 1 .. Len(registry) : /\ registry'[j].object_id = registry[j].object_id
                                     /\ registry'[j].key = registry[j].key
    BY <2>5, <2>6
  <2>8. RegistryTyped'
    BY <2>6 DEF RegistryTyped
  <2>9. Known' = Known
    BY <2>6, <2>7 DEF Known, InRegistry
  <2> QED
    BY <2>6, <2>8, <2>9
<1> QED
  BY <1>2, <1>3

LEMMA LookupTyped ==
  ASSUME RegistryTyped, NEW id
  PROVE  Reg!esph_registry_lookup_key(registry, id) \in Nat
<1> DEFINE hits == Reg!WithName(registry, Reg!Target(id))
<1>1. Len(registry) \in Nat /\ registry \in Seq(Slots)
  BY LenProperties DEF RegistryTyped
<1>2. hits \in SUBSET Nat /\ hits \subseteq 1 .. Len(registry)
  BY <1>1 DEF Reg!WithName
<1>3. Reg!esph_registry_lookup_key(registry, id)
        = IF hits = {} THEN 0 ELSE registry[Reg!First(hits)].key
  BY DEF Reg!esph_registry_lookup_key
<1> HIDE DEF hits
<1>4. ASSUME hits # {} PROVE registry[Reg!First(hits)].key \in Nat
  <2>1. Reg!First(hits) \in 1 .. Len(registry)
    BY <1>2, <1>4, FirstIsMember
  <2>2. registry[Reg!First(hits)] \in Slots
    BY <1>1, <2>1, ElementOfSeq
  <2> QED
    BY <2>2 DEF Slots
<1> QED
  BY <1>3, <1>4

-----------------------------------------------------------------------------
(* The client's steps: sending and receiving. *)

LEMMA SendKeeps ==
  ASSUME toDevice \in Seq(FromClient), NEW m \in FromClient, NEW code, Send(m, code)
  PROVE  /\ toDevice' \in Seq(FromClient)
         /\ m # ListRequest /\ Holds(toDevice', ListRequest) => Holds(toDevice, ListRequest)
<1>1. toDevice' = toDevice \/ toDevice' = Append(toDevice, m)
  BY DEF Send
<1>2. CASE toDevice' = Append(toDevice, m)
  <2>1. /\ toDevice' \in Seq(FromClient) /\ Len(toDevice) \in Nat
        /\ Len(toDevice') = Len(toDevice) + 1
        /\ \A k \in 1 .. Len(toDevice) : toDevice'[k] = toDevice[k]
        /\ toDevice'[Len(toDevice) + 1] = m
    BY <1>2, AppendProperties, LenProperties
  <2>2. ASSUME m # ListRequest, NEW k \in 1 .. Len(toDevice'), toDevice'[k] = ListRequest
        PROVE  Holds(toDevice, ListRequest)
    BY <2>1, <2>2 DEF Holds
  <2> QED
    BY <2>1, <2>2 DEF Holds
<1> QED
  BY <1>1, <1>2

\* What receiving may do: the registry and the flags change, the queue gets
\* shorter.
Received ==
    /\ dev' = dev
    /\ toClient' \in Seq(FromDevice) /\ Len(toClient') <= MaxQueue
    /\ toDevice' \in Seq(FromClient)
    /\ RegistryTyped' /\ done' \in BOOLEAN /\ fresh' \in BOOLEAN
    /\ Holds(toDevice', ListRequest) => Holds(toDevice, ListRequest)
    /\ Ends(toClient', batch') => Ends(toClient, batch)
    /\ done' /\ ~ done => Ends(toClient, batch) /\ fresh'
    /\ fresh => fresh'
    /\ WholeList => WholeList'

LEMMA NothingReceived ==
  ASSUME DeviceTyped, SessionTyped, UNCHANGED deviceVars,
         UNCHANGED <<linkVars, done, registry, lost, fresh>>
  PROVE  Received
<1>1. UNCHANGED <<batch, iter, at, jumped>>
  BY DEF deviceVars, connVars
<1>2. UNCHANGED <<dev, toClient, toDevice, done, registry, lost, fresh>>
  BY DEF linkVars
<1>3. Known' = Known
  BY <1>2 DEF Known, InRegistry
<1>4. WholeList => WholeList'
  BY <1>1, <1>2, <1>3 DEF WholeList
<1> QED
  BY <1>1, <1>2, <1>4 DEF Received, DeviceTyped, SessionTyped, RegistryTyped

\* The next message is taken from the queue and what it says is not stored.
LEMMA TakenShape ==
  ASSUME DeviceTyped, toClient # <<>>, UNCHANGED deviceVars, toClient' = Tail(toClient)
  PROVE  /\ toClient' \in Seq(FromDevice) /\ Len(toClient') <= MaxQueue
         /\ Head(toClient) \in FromDevice
         /\ Ends(toClient', batch') => Ends(toClient, batch)
         /\ Head(toClient) = ListDone => Ends(toClient, batch)
         /\ UNCHANGED <<batch, iter, at, jumped>>
<1>1. UNCHANGED <<batch, iter, at, jumped>>
  BY DEF deviceVars, connVars
<1>2. toClient \in Seq(FromDevice) /\ batch \in Seq(Items) /\ Len(toClient) <= MaxQueue
  BY DEF DeviceTyped
<1>3. /\ Tail(toClient) \in Seq(FromDevice) /\ Head(toClient) \in FromDevice
      /\ Len(Tail(toClient)) = Len(toClient) - 1 /\ Len(toClient) \in Nat
  BY <1>2, HeadTailProperties, LenProperties
<1>4. Behind(Listed, toClient, batch)
  BY SoundBuffers DEF Sound
<1>5. /\ Ends(Tail(toClient), batch) => Ends(toClient, batch)
      /\ Head(toClient) = ListDone => Ends(toClient, batch)
  <2>1. Listed \subseteq Listed /\ \A i \in Listed : Head(toClient) = ListMsg(i) => i \in Listed
    OBVIOUS
  <2> QED
    BY <1>2, <1>4, <2>1, TakeKeeps
<1>6. Len(toClient') <= MaxQueue
  BY <1>2, <1>3, LinkAssumption
<1> QED
  BY <1>1, <1>3, <1>5, <1>6

\* The list stays whole when the client takes a message, if it stores the entity
\* that the message lists, and sets the flag only on the end of the list.
LEMMA TakenWhole ==
  ASSUME DeviceTyped, toClient # <<>>, UNCHANGED deviceVars, toClient' = Tail(toClient),
         WholeList, lost => lost',
         Len(registry') < MAX_ENTITIES /\ ~ lost'
           => /\ Len(registry) < MAX_ENTITIES /\ Known \subseteq Known'
              /\ \A i \in Listed : Head(toClient) = ListMsg(i) => i \in Known',
         done' => done \/ Head(toClient) = ListDone
  PROVE  WholeList'
<1>1. UNCHANGED <<batch, iter, at, jumped>>
  BY DEF deviceVars, connVars
<1> SUFFICES ASSUME ~ lost', ~ jumped', Len(registry') < MAX_ENTITIES
    PROVE  /\ done' => Listed \subseteq Known'
           /\ Behind(Known', toClient', batch')
           /\ iter' = "list" => Told(Known', toClient', batch', at')
  BY DEF WholeList
<1>2. /\ Known \subseteq Known'
      /\ \A i \in Listed : Head(toClient) = ListMsg(i) => i \in Known'
      /\ done => Listed \subseteq Known
      /\ Behind(Known, toClient, batch)
      /\ iter = "list" => Told(Known, toClient, batch, at)
  BY <1>1 DEF WholeList
<1>3. toClient \in Seq(FromDevice) /\ batch \in Seq(Items)
  BY DEF DeviceTyped
<1>4. /\ Behind(Known', toClient', batch)
      /\ \A n : Told(Known, toClient, batch, n) => Told(Known', toClient', batch, n)
      /\ Head(toClient) = ListDone => Listed \subseteq Known
  BY <1>2, <1>3, TakeKeeps
<1> QED
  BY <1>1, <1>2, <1>4

LEMMA MessageForms ==
  ASSUME NEW m \in FromDevice
  PROVE  /\ m.type = "list" => \E i \in Ents : m = ListMsg(i) /\ m.ent = i
         /\ m.type = "state"
              => \E i \in Ents : \E v \in Values : m = StateMsg(i, v) /\ m.ent = i /\ m.val = v
         /\ m.type = "list_done" => m = ListDone
         /\ m.type # "list" => \A i \in Ents : m # ListMsg(i)
<1>1. CASE m \in ListEntry
  BY <1>1 DEF ListEntry, ListMsg
<1>2. CASE m \in {ListDone} \cup Urgent \cup Replies
  BY <1>2 DEF ListDone, Urgent, Replies, Msg, ListMsg
<1>3. CASE m \in States
  BY <1>3 DEF States, StateMsg, ListMsg
<1> QED
  BY <1>1, <1>2, <1>3 DEF FromDevice

LEMMA HandleFrameReceives ==
  ASSUME DeviceTyped, SessionTyped, UNCHANGED deviceVars, NEW code, HandleFrame(code)
  PROVE  Received
<1> DEFINE m == Head(toClient)
<1>1. /\ toClient # <<>> /\ toClient' = Tail(toClient) /\ dev' = dev /\ lost' = lost
      /\ toDevice \in Seq(FromClient) /\ RegistryTyped /\ done \in BOOLEAN /\ fresh \in BOOLEAN
  BY DEF HandleFrame, DeviceTyped, SessionTyped, RegistryTyped
<1>2. /\ toClient' \in Seq(FromDevice) /\ Len(toClient') <= MaxQueue
      /\ m \in FromDevice
      /\ Ends(toClient', batch') => Ends(toClient, batch)
      /\ m = ListDone => Ends(toClient, batch)
  BY <1>1, TakenShape
<1> HIDE DEF m
<1>3. ASSUME UNCHANGED registry, m.type # "list", done' => done \/ m = ListDone
      PROVE  WholeList => WholeList'
  <2>1. Known' = Known
    BY <1>3 DEF Known, InRegistry
  <2>2. \A i \in Listed : m # ListMsg(i)
    BY <1>2, <1>3, MessageForms, ListedAreEnts
  <2> QED
    BY <1>1, <1>3, <2>1, <2>2, TakenWhole DEF m
<1>4. ASSUME UNCHANGED toDevice
      PROVE  /\ toDevice' \in Seq(FromClient)
             /\ Holds(toDevice', ListRequest) => Holds(toDevice, ListRequest)
  BY <1>1, <1>4
<1>5. CASE m.type = "ping_request" /\ Send(Msg("ping_response"), code)
             /\ UNCHANGED <<done, registry, fresh>>
  <2>1. Msg("ping_response") \in FromClient /\ Msg("ping_response") # ListRequest
    BY DEF FromClient, Msg, ListRequest
  <2>2. /\ toDevice' \in Seq(FromClient)
        /\ Holds(toDevice', ListRequest) => Holds(toDevice, ListRequest)
    BY <1>1, <1>5, <2>1, SendKeeps
  <2>3. RegistryTyped'
    BY <1>1, <1>5 DEF RegistryTyped
  <2> QED
    BY <1>1, <1>2, <1>3, <1>5, <2>2, <2>3 DEF Received
<1>6. CASE m.type \in {"disconnect_request", "ping_response", "device_info_response"}
             /\ UNCHANGED <<toDevice, done, registry, fresh>>
  <2>1. RegistryTyped'
    BY <1>1, <1>6 DEF RegistryTyped
  <2> QED
    BY <1>1, <1>2, <1>3, <1>4, <1>6, <2>1 DEF Received
<1>7. CASE m.type = "list_done" /\ done' = TRUE /\ fresh' = TRUE
             /\ UNCHANGED <<toDevice, registry>>
  <2>1. m = ListDone
    BY <1>2, <1>7, MessageForms
  <2>2. RegistryTyped'
    BY <1>1, <1>7 DEF RegistryTyped
  <2> QED
    BY <1>1, <1>2, <1>3, <1>4, <1>7, <2>1, <2>2 DEF Received
<1>8. CASE m.type = "list" /\ OnList(Entities[m.ent]) /\ UNCHANGED <<toDevice, done, fresh>>
  <2>1. PICK i \in Ents : m = ListMsg(i) /\ m.ent = i
    BY <1>2, <1>8, MessageForms
  <2>2. \A j \in Listed : m = ListMsg(j) => j = i
    BY <2>1, MessagesDiffer, ListedAreEnts
  <2>3. CASE Entities[i].kind \in ClientKinds
    <3>1. registry' = Reg!esph_registry_add(registry, Entities[i].name, Entities[i].key,
                                            Entities[i].kind)
      BY <1>8, <2>1, <2>3 DEF OnList
    <3>2. /\ RegistryTyped'
          /\ Len(registry') < MAX_ENTITIES
               => Len(registry) < MAX_ENTITIES /\ Known \subseteq Known' /\ i \in Known'
      BY <1>1, <2>3, <3>1, AddedIsKnown
    <3>3. WholeList => WholeList'
      BY <1>1, <1>8, <2>2, <3>2, TakenWhole DEF m
    <3> QED
      BY <1>1, <1>2, <1>4, <1>8, <3>2, <3>3 DEF Received
  <2>4. CASE Entities[i].kind \notin ClientKinds
    <3>1. registry' = registry
      BY <1>8, <2>1, <2>4 DEF OnList
    <3>2. Known' = Known /\ RegistryTyped'
      BY <1>1, <3>1 DEF Known, InRegistry, RegistryTyped
    <3>3. \A j \in Listed : m # ListMsg(j)
      BY <2>2, <2>4 DEF Listed
    <3>4. WholeList => WholeList'
      BY <1>1, <1>8, <3>1, <3>2, <3>3, TakenWhole DEF m
    <3> QED
      BY <1>1, <1>2, <1>4, <1>8, <3>2, <3>4 DEF Received
  <2> QED
    BY <2>3, <2>4
<1>9. CASE m.type = "state" /\ OnState(Entities[m.ent], m.val)
             /\ UNCHANGED <<toDevice, done, fresh>>
  <2>1. PICK i \in Ents : \E v \in Values : m = StateMsg(i, v) /\ m.ent = i /\ m.val = v
    BY <1>2, <1>9, MessageForms
  <2>2. PICK v \in Values : m = StateMsg(i, v) /\ m.ent = i /\ m.val = v
    BY <2>1
  <2>3. RegistryTyped' /\ Len(registry') = Len(registry) /\ Known' = Known
    <3>1. CASE Entities[i].kind \in ClientKinds
      <4>1. registry' = Reg!esph_registry_update_state(registry, Entities[i].key,
                                                       Show(Entities[i].kind, v))
        BY <1>9, <2>2, <3>1 DEF OnState
      <4> QED
        BY <1>1, <3>1, <4>1, UpdatedIsKnown
    <3>2. CASE Entities[i].kind \notin ClientKinds
      <4>1. registry' = registry
        BY <1>9, <2>2, <3>2 DEF OnState
      <4> QED
        BY <1>1, <4>1 DEF RegistryTyped, Known, InRegistry
    <3> QED
      BY <3>1, <3>2
  <2>4. \A j \in Listed : m # ListMsg(j)
    BY <1>2, <1>9, MessageForms, ListedAreEnts
  <2>5. WholeList => WholeList'
    BY <1>1, <1>9, <2>3, <2>4, TakenWhole DEF m
  <2> QED
    BY <1>1, <1>2, <1>4, <1>9, <2>3, <2>5 DEF Received
<1> QED
  BY <1>5, <1>6, <1>7, <1>8, <1>9 DEF HandleFrame, m

LEMMA RecvFailsReceives ==
  ASSUME DeviceTyped, SessionTyped, UNCHANGED deviceVars, RecvFails,
         UNCHANGED <<dev, toDevice, done, registry, fresh>>
  PROVE  Received
<1>1. CASE UNCHANGED <<toClient, lost>>
  BY <1>1, NothingReceived DEF linkVars
<1>2. CASE toClient # <<>> /\ toClient' = Tail(toClient) /\ lost' = TRUE
  <2>1. /\ toClient' \in Seq(FromDevice) /\ Len(toClient') <= MaxQueue
        /\ Ends(toClient', batch') => Ends(toClient, batch)
    BY <1>2, TakenShape
  <2>2. WholeList'
    BY <1>2 DEF WholeList
  <2> QED
    BY <2>1, <2>2 DEF Received, DeviceTyped, SessionTyped, RegistryTyped
<1> QED
  BY <1>1, <1>2 DEF RecvFails

LEMMA RunStepReceives ==
  ASSUME DeviceTyped, SessionTyped, UNCHANGED deviceVars, NEW t, NEW code, RunStep(t, code)
  PROVE  Received
<1>1. CASE UNCHANGED <<linkVars, tx, done, registry, lost, fresh>>
  BY <1>1, NothingReceived
<1>2. CASE RecvFails /\ UNCHANGED <<dev, toDevice, tx, done, registry, fresh>>
  BY <1>2, RecvFailsReceives
<1>3. CASE HandleFrame(code)
  BY <1>3, HandleFrameReceives
<1> QED
  BY <1>1, <1>2, <1>3 DEF RunStep

-----------------------------------------------------------------------------
(* The client's steps: the calls. *)

SessionKeepsPlace ==
    /\ pc' \in {"none", "idle", "info", "wait"} /\ step' \in 0 .. WAIT_STEPS /\ ret' \in {0, -1}

LEMMA ReceivedStep ==
  ASSUME IInv, pc # "none", UNCHANGED deviceVars, Received, UNCHANGED calls,
         SessionKeepsPlace
  PROVE  IInv'
<1>1. DeviceTyped /\ SessionTyped /\ NotAsked /\ DoneIsFresh /\ WholeList
  BY DEF IInv
<1>2. UNCHANGED <<value, phase, iter, at, batch, subscribed, sentPing, eager, jumped>>
  BY DEF deviceVars, connVars
<1>3. DeviceTyped'
  BY <1>1, <1>2 DEF DeviceTyped, ValuesTyped, Received
<1>4. SessionTyped'
  BY <1>1 DEF SessionTyped, Received, RegistryTyped, SessionKeepsPlace
<1>5. NotAsked'
  BY <1>1, <1>2 DEF NotAsked, Received, SessionTyped
<1>6. DoneIsFresh'
  BY <1>1 DEF DoneIsFresh, Received, SessionTyped
<1>7. WholeList'
  BY <1>1 DEF Received
<1> QED
  BY <1>3, <1>4, <1>5, <1>6, <1>7 DEF IInv

\* A call that sends, or that only starts or ends waiting.
LEMMA CallStep ==
  ASSUME IInv, pc # "none", UNCHANGED deviceVars,
         UNCHANGED <<dev, toClient, done, registry, lost>>, SessionKeepsPlace,
         toDevice' \in Seq(FromClient),
         calls' \in [Ops -> Nat], calls["list"] <= calls'["list"],
         Holds(toDevice', ListRequest) => Holds(toDevice, ListRequest) \/ calls'["list"] # 0,
         \/ UNCHANGED fresh
         \/ fresh' = FALSE /\ calls["list"] < calls'["list"]
  PROVE  IInv'
<1>1. DeviceTyped /\ SessionTyped /\ NotAsked /\ DoneIsFresh /\ WholeList
  BY DEF IInv
<1>2. UNCHANGED <<value, phase, iter, at, batch, subscribed, sentPing, eager, jumped>>
  BY DEF deviceVars, connVars
<1>3. DeviceTyped'
  BY <1>1, <1>2 DEF DeviceTyped, ValuesTyped
<1>4. SessionTyped'
  BY <1>1 DEF SessionTyped, SessionKeepsPlace
<1>5. calls["list"] \in Nat /\ calls'["list"] \in Nat
  BY <1>1 DEF SessionTyped, Ops
<1>6. NotAsked'
  BY <1>1, <1>2, <1>5 DEF NotAsked
<1>7. DoneIsFresh'
  BY <1>1, <1>5 DEF DoneIsFresh, NotAsked
<1>8. WholeList'
  <2>1. Known' = Known
    BY DEF Known, InRegistry
  <2> QED
    BY <1>1, <1>2, <2>1 DEF WholeList
<1> QED
  BY <1>3, <1>4, <1>6, <1>7, <1>8 DEF IInv

LEMMA CallCounts ==
  ASSUME SessionTyped, NEW op \in Ops, Call(op)
  PROVE  /\ pc = "idle" /\ calls' \in [Ops -> Nat] /\ calls["list"] <= calls'["list"]
         /\ op = "list" => calls'["list"] # 0 /\ calls["list"] < calls'["list"]
BY DEF Call, SessionTyped, Ops

\* A call that sends a message and returns the code.
LEMMA SendStep ==
  ASSUME IInv, UNCHANGED deviceVars, NEW op \in Ops, Call(op),
         UNCHANGED <<dev, toClient, done, step, registry, lost>>,
         NEW m \in FromClient, m = ListRequest => op = "list",
         NEW code \in {0, -1}, Send(m, code), ret' = code, pc' \in {"idle", "info"},
         \/ UNCHANGED fresh
         \/ op = "list" /\ fresh' = FALSE
  PROVE  IInv'
<1>1. DeviceTyped /\ SessionTyped
  BY DEF IInv
<1>2. toDevice \in Seq(FromClient) /\ step \in 0 .. WAIT_STEPS
  BY <1>1 DEF DeviceTyped, SessionTyped
<1>3. /\ toDevice' \in Seq(FromClient)
      /\ m # ListRequest /\ Holds(toDevice', ListRequest) => Holds(toDevice, ListRequest)
  BY <1>2, SendKeeps
<1>4. /\ pc = "idle" /\ calls' \in [Ops -> Nat] /\ calls["list"] <= calls'["list"]
      /\ op = "list" => calls'["list"] # 0 /\ calls["list"] < calls'["list"]
  BY <1>1, CallCounts
<1>5. SessionKeepsPlace
  BY <1>2 DEF SessionKeepsPlace
<1> QED
  BY <1>3, <1>4, <1>5, CallStep

LEMMA ClientStep ==
  ASSUME IInv, Client
  PROVE  IInv'
<1>0. DeviceTyped /\ SessionTyped /\ UNCHANGED deviceVars /\ toDevice \in Seq(FromClient)
  BY DEF IInv, Client, DeviceTyped
<1>a. /\ pc \in {"none", "idle", "info", "wait"} /\ step \in 0 .. WAIT_STEPS /\ ret \in {0, -1}
      /\ calls \in [Ops -> Nat]
  BY <1>0 DEF SessionTyped
<1>b. /\ Msg("device_info_request") \in FromClient \ {ListRequest}
      /\ Msg("ping_request") \in FromClient \ {ListRequest}
      /\ Msg("subscribe_states_request") \in FromClient \ {ListRequest}
      /\ Msg("list_entities_request") \in FromClient
  BY DEF FromClient, Msg, ListRequest
<1>1. CASE CheckDeviceInfo
  <2>1. PICK code \in {0, -1} :
          /\ Send(Msg("device_info_request"), code) /\ ret' = code
          /\ pc' \in {"idle", "info"}
    BY <1>1 DEF CheckDeviceInfo
  <2>2. Call("info") /\ UNCHANGED <<dev, toClient, done, step, registry, lost, fresh>>
    BY <1>1 DEF CheckDeviceInfo
  <2>3. "info" \in Ops
    BY DEF Ops
  <2> QED
    BY <1>0, <1>b, <2>1, <2>2, <2>3, SendStep
<1>2. CASE DeviceInfoArrives
  <2>1. /\ pc = "info" /\ toClient # <<>> /\ toClient' = Tail(toClient) /\ pc' = "idle"
        /\ UNCHANGED <<dev, toDevice, done, step, registry, calls, fresh>>
        /\ ret' \in {0, -1}
        /\ lost' = (lost \/ Head(toClient).type # "device_info_response")
    BY <1>2 DEF DeviceInfoArrives
  <2>2. /\ toClient' \in Seq(FromDevice) /\ Len(toClient') <= MaxQueue
        /\ Head(toClient) \in FromDevice
        /\ Ends(toClient', batch') => Ends(toClient, batch)
    BY <1>0, <2>1, TakenShape
  <2>3. WholeList => WholeList'
    <3>1. Known' = Known
      BY <2>1 DEF Known, InRegistry
    <3>2. ASSUME ~ lost' PROVE \A i \in Listed : Head(toClient) # ListMsg(i)
      <4>1. Head(toClient).type = "device_info_response"
        BY <2>1, <3>2
      <4> QED
        BY <2>2, <4>1, MessageForms, ListedAreEnts
    <3> QED
      BY <1>0, <2>1, <3>1, <3>2, TakenWhole
  <2>4. Received
    BY <1>0, <2>1, <2>2, <2>3 DEF Received, SessionTyped, RegistryTyped
  <2>5. SessionKeepsPlace
    BY <1>a, <2>1 DEF SessionKeepsPlace
  <2> QED
    BY <1>0, <2>1, <2>4, <2>5, ReceivedStep
<1>3. CASE DeviceInfoFails
  <2>1. /\ pc = "info" /\ RecvFails /\ pc' = "idle" /\ ret' = -1
        /\ UNCHANGED <<dev, toDevice, done, step, registry, calls, fresh>>
    BY <1>3 DEF DeviceInfoFails
  <2>2. Received
    BY <1>0, <2>1, RecvFailsReceives
  <2>3. SessionKeepsPlace
    BY <1>a, <2>1 DEF SessionKeepsPlace
  <2> QED
    BY <1>0, <2>1, <2>2, <2>3, ReceivedStep
<1>4. CASE ListEntities
  <2>1. PICK code \in {0, -1} : Send(Msg("list_entities_request"), code) /\ ret' = code
    BY <1>4 DEF ListEntities
  <2>2. /\ Call("list") /\ fresh' = FALSE
        /\ UNCHANGED <<dev, toClient, pc, done, step, registry, lost>>
    BY <1>4 DEF ListEntities
  <2>3. "list" \in Ops /\ pc = "idle"
    BY <2>2 DEF Ops, Call
  <2> QED
    BY <1>0, <1>b, <2>1, <2>2, <2>3, SendStep
<1>5. CASE WaitListEntitiesDone
  <2>1. /\ Call("wait") /\ pc' = "wait"
        /\ UNCHANGED <<dev, toClient, toDevice, done, step, registry, ret, lost, fresh>>
    BY <1>5 DEF WaitListEntitiesDone, linkVars
  <2>2. "wait" \in Ops
    BY DEF Ops
  <2>3. pc = "idle" /\ calls' \in [Ops -> Nat] /\ calls["list"] <= calls'["list"]
    BY <1>0, <2>1, <2>2, CallCounts
  <2>4. SessionKeepsPlace
    BY <1>a, <2>1 DEF SessionKeepsPlace
  <2> QED
    BY <1>0, <2>1, <2>3, <2>4, CallStep
<1>6. CASE WaitStep
  <2>1. PICK code \in {0, -1} :
          /\ RunStep(150, code) /\ ret' = code
          /\ IF code < 0
               THEN pc' = "idle" /\ step' = 0
               ELSE step' = step + 1 /\ UNCHANGED pc
    BY <1>6 DEF WaitStep
  <2>2. pc = "wait" /\ step < WAIT_STEPS /\ UNCHANGED calls
    BY <1>6 DEF WaitStep
  <2>3. SessionKeepsPlace
    BY <1>a, <2>1, <2>2, SessionAssumption DEF SessionKeepsPlace
  <2>4. Received
    BY <1>0, <2>1, RunStepReceives
  <2> QED
    BY <1>0, <2>2, <2>3, <2>4, ReceivedStep
<1>7. CASE WaitReturns
  <2>1. /\ pc = "wait" /\ pc' = "idle" /\ step' = 0 /\ ret' \in {0, -1}
        /\ UNCHANGED <<linkVars, done, registry, calls, lost, fresh>>
    BY <1>7 DEF WaitReturns
  <2>2. SessionKeepsPlace
    BY <2>1, SessionAssumption DEF SessionKeepsPlace
  <2>3. Received
    BY <1>0, <2>1, NothingReceived
  <2> QED
    BY <1>0, <2>1, <2>2, <2>3, ReceivedStep
<1>8. CASE SubscribeStates
  <2>1. PICK code \in {0, -1} : Send(Msg("subscribe_states_request"), code) /\ ret' = code
    BY <1>8 DEF SubscribeStates
  <2>2. /\ Call("subscribe")
        /\ UNCHANGED <<dev, toClient, pc, done, step, registry, lost, fresh>>
    BY <1>8 DEF SubscribeStates
  <2>3. "subscribe" \in Ops /\ pc = "idle"
    BY <2>2 DEF Ops, Call
  <2> QED
    BY <1>0, <1>b, <2>1, <2>2, <2>3, SendStep
<1>9. CASE \E id \in Names, on \in {0, 1} : SetSwitch(id, on)
  <2>1. PICK id \in Names, on \in {0, 1} : SetSwitch(id, on)
    BY <1>9
  <2> DEFINE key == Reg!esph_registry_lookup_key(registry, id)
  <2>2. /\ Call("switch")
        /\ UNCHANGED <<dev, toClient, pc, done, step, registry, lost, fresh>>
    BY <2>1 DEF SetSwitch
  <2>3. "switch" \in Ops /\ pc = "idle"
    BY <2>2 DEF Ops, Call
  <2>4. CASE key = 0
    <3>1. ret' = -1 /\ UNCHANGED toDevice
      BY <2>1, <2>4 DEF SetSwitch
    <3>2. calls' \in [Ops -> Nat] /\ calls["list"] <= calls'["list"]
      BY <1>0, <2>2, <2>3, CallCounts
    <3>3. SessionKeepsPlace
      BY <1>a, <2>2, <3>1 DEF SessionKeepsPlace
    <3> QED
      BY <1>0, <2>2, <2>3, <3>1, <3>2, <3>3, CallStep
  <2>5. CASE key # 0
    <3>1. PICK code \in {0, -1} : Send(SwitchMsg(key, on), code) /\ ret' = code
      BY <2>1, <2>5 DEF SetSwitch
    <3>2. key \in Nat
      BY <1>0, LookupTyped DEF SessionTyped, RegistryTyped
    <3> HIDE DEF key
    <3>3. SwitchMsg(key, on) \in FromClient /\ SwitchMsg(key, on) # ListRequest
      BY <2>1, <3>2 DEF FromClient, SwitchMsg, ListRequest, Msg
    <3> QED
      BY <1>0, <2>2, <2>3, <3>1, <3>3, SendStep
  <2> QED
    BY <2>4, <2>5
<1>10. CASE SendPing
  <2>1. PICK code \in {0, -1} : Send(Msg("ping_request"), code) /\ ret' = code
    BY <1>10 DEF SendPing
  <2>2. /\ Call("ping")
        /\ UNCHANGED <<dev, toClient, pc, done, step, registry, lost, fresh>>
    BY <1>10 DEF SendPing
  <2>3. "ping" \in Ops /\ pc = "idle"
    BY <2>2 DEF Ops, Call
  <2> QED
    BY <1>0, <1>b, <2>1, <2>2, <2>3, SendStep
<1>11. CASE \E t \in Timeouts : AppRunStep(t)
  <2>1. PICK t \in Timeouts : AppRunStep(t)
    BY <1>11
  <2>2. PICK code \in {0, -1} : RunStep(t, code) /\ ret' = code
    BY <2>1 DEF AppRunStep
  <2>3. pc = "idle" /\ UNCHANGED <<pc, step, calls>>
    BY <2>1 DEF AppRunStep
  <2>4. SessionKeepsPlace
    BY <1>a, <2>2, <2>3 DEF SessionKeepsPlace
  <2>5. Received
    BY <1>0, <2>2, RunStepReceives
  <2> QED
    BY <1>0, <2>3, <2>4, <2>5, ReceivedStep
<1>12. CASE Disconnect
  <2>1. /\ pc' = "none" /\ toClient' = <<>> /\ ret' = 0
        /\ UNCHANGED <<dev, toDevice, done, step, registry, calls, fresh>>
    BY <1>12 DEF Disconnect
  <2>2. UNCHANGED <<value, phase, iter, at, batch, subscribed, sentPing, eager>>
    BY <1>0 DEF deviceVars, connVars
  <2>3. /\ toClient' \in Seq(FromDevice) /\ Len(toClient') <= MaxQueue
        /\ Ends(toClient', batch') => Ends(toClient, batch)
    BY <2>1, <2>2, EmptySeq, LinkAssumption DEF Ends, Holds
  <2>4. DeviceTyped'
    BY <1>0, <2>1, <2>2, <2>3 DEF DeviceTyped, ValuesTyped
  <2>5. SessionTyped'
    BY <1>0, <2>1 DEF SessionTyped
  <2>6. NotAsked' /\ DoneIsFresh'
    BY <2>1, <2>2, <2>3 DEF IInv, NotAsked, DoneIsFresh
  <2> QED
    BY <2>1, <2>4, <2>5, <2>6 DEF IInv
<1>13. CASE ClearRegistry
  <2>1. /\ pc = "none" /\ registry' = <<>>
        /\ UNCHANGED <<dev, toClient, toDevice, pc, done, step, ret, calls, fresh>>
    BY <1>13 DEF ClearRegistry, linkVars
  <2>2. UNCHANGED <<value, phase, iter, at, batch, subscribed, sentPing, eager>>
    BY <1>0 DEF deviceVars, connVars
  <2>3. registry' \in Seq(Slots) /\ Len(registry') <= MAX_ENTITIES
    BY <2>1, EmptySeq, SessionAssumption
  <2>4. DeviceTyped' /\ SessionTyped'
    BY <1>0, <2>1, <2>2, <2>3 DEF DeviceTyped, ValuesTyped, SessionTyped
  <2>5. NotAsked' /\ DoneIsFresh'
    BY <2>1, <2>2 DEF IInv, NotAsked, DoneIsFresh
  <2> QED
    BY <2>1, <2>4, <2>5 DEF IInv
<1> QED
  BY <1>1, <1>2, <1>3, <1>4, <1>5, <1>6, <1>7, <1>8, <1>9, <1>10, <1>11, <1>12, <1>13 DEF Client

-----------------------------------------------------------------------------
(* The theorems. *)

LEMMA EmptyTyped ==
  /\ <<>> \in Seq(Items) /\ <<>> \in Seq(FromClient) /\ <<>> \in Seq(FromDevice)
  /\ <<>> \in Seq(Slots) /\ Len(<<>>) = 0
  /\ 0 <= MaxQueue /\ 0 <= MAX_ENTITIES /\ 0 \in 0 .. WAIT_STEPS
  /\ NoCalls \in [Ops -> Nat]
BY EmptySeq, LinkAssumption, SessionAssumption DEF NoCalls

LEMMA InitIInv == Init => IInv
<1> SUFFICES ASSUME Init PROVE IInv
  OBVIOUS
<1>1. /\ dev = "none" /\ toClient = <<>> /\ toDevice = <<>>
      /\ value = Start /\ phase = "idle" /\ iter = "none" /\ at = 1 /\ batch = <<>>
      /\ subscribed = FALSE /\ sentPing = FALSE /\ eager = FALSE
      /\ pc = "none" /\ done = FALSE /\ step = 0 /\ registry = <<>> /\ ret = 0
      /\ calls = NoCalls /\ fresh = FALSE
  BY DEF Init, DeviceInit, SessionInit
<1>2. ValuesTyped
  <2>1. \A i \in Ents : Start[i] \in ReadingsOf(Entities[i].kind) /\ Start[i] \in Values
    BY DeviceAssumption, ReadingsAreValues
  <2> QED
    BY <1>1, <2>1, DeviceAssumption DEF ValuesTyped
<1>3. 1 \in 1 .. Completed
  BY EntitiesCounted DEF Completed
<1>4. DeviceTyped
  BY <1>1, <1>2, <1>3, EmptyTyped DEF DeviceTyped
<1>5. SessionTyped
  BY <1>1, EmptyTyped DEF SessionTyped
<1>6. NotAsked /\ DoneIsFresh
  BY <1>1, EmptyTyped DEF NotAsked, DoneIsFresh, Ends, Holds
<1> QED
  BY <1>1, <1>4, <1>5, <1>6 DEF IInv

LEMMA ConnectStep ==
  ASSUME IInv, Connect
  PROVE  IInv'
<1>1. DeviceTyped /\ SessionTyped
  BY DEF IInv
<1>2. /\ dev' = "up" /\ phase' = "idle" /\ iter' = "none" /\ at' = 1 /\ batch' = <<>>
      /\ subscribed' = FALSE /\ sentPing' = FALSE /\ eager' = FALSE /\ value' = value
      /\ toClient' = <<>> /\ toDevice' = <<>>
      /\ pc' = "idle" /\ done' = FALSE /\ step' = 0 /\ ret' = 0 /\ calls' = NoCalls
      /\ fresh' = FALSE /\ registry' = registry
  BY DEF Connect, ConnectReturns, Accept
<1>3. 1 \in 1 .. Completed
  BY EntitiesCounted DEF Completed
<1>4. DeviceTyped'
  BY <1>1, <1>2, <1>3, EmptyTyped DEF DeviceTyped, ValuesTyped
<1>5. SessionTyped'
  BY <1>1, <1>2, EmptyTyped DEF SessionTyped
<1>6. NotAsked' /\ DoneIsFresh'
  BY <1>2 DEF NotAsked, DoneIsFresh, Ends, Holds
<1>7. WholeList'
  BY <1>2 DEF WholeList, Behind
<1> QED
  BY <1>4, <1>5, <1>6, <1>7 DEF IInv

LEMMA StutterStep ==
  ASSUME IInv, UNCHANGED vars
  PROVE  IInv'
<1>1. /\ UNCHANGED <<dev, toClient, toDevice, value, phase, iter, at, batch, subscribed,
                     sentPing, eager, jumped>>
      /\ UNCHANGED <<pc, done, step, registry, ret, calls, lost, fresh>>
  BY DEF vars, linkVars, sessionVars, deviceVars, connVars
<1>2. DeviceTyped' /\ SessionTyped'
  BY <1>1 DEF IInv, DeviceTyped, ValuesTyped, SessionTyped
<1>3. NotAsked' /\ DoneIsFresh'
  BY <1>1 DEF IInv, NotAsked, DoneIsFresh
<1>4. WholeList => WholeList'
  <2>1. Known' = Known
    BY <1>1 DEF Known, InRegistry
  <2> QED
    BY <1>1, <2>1 DEF WholeList
<1> QED
  BY <1>1, <1>2, <1>3, <1>4 DEF IInv

LEMMA NextIInv == IInv /\ [Next]_vars => IInv'
<1> SUFFICES ASSUME IInv, [Next]_vars PROVE IInv'
  OBVIOUS
<1>1. CASE Connect
  BY <1>1, ConnectStep
<1>2. CASE Client
  BY <1>2, ClientStep
<1>3. CASE DeviceActs /\ UNCHANGED sessionVars
  BY <1>3, DeviceStep
<1>4. CASE UNCHANGED vars
  BY <1>4, StutterStep
<1> QED
  BY <1>1, <1>2, <1>3, <1>4 DEF Next, DeviceActs

\* The invariant of the session and the device's connection together.
THEOREM Invariant == Spec => []IInv
<1>1. Init => IInv
  BY InitIInv
<1>2. IInv /\ [Next]_vars => IInv'
  BY NextIInv
<1> QED
  BY <1>1, <1>2, PTL DEF Spec

\* Every variable has its type; the device never hands the socket more messages
\* than it takes, whatever the batch, the iterator and the pings add at once, and
\* the registry never has more entries than slots.
THEOREM TypeCorrect == Spec => []TypeOK
<1>1. IInv => TypeOK
  BY DEF IInv, DeviceTyped, SessionTyped, ValuesTyped, TypeOK, DeviceTypeOK
<1> QED
  BY <1>1, Invariant, PTL

\* When list_entities_done is set, the registry has every entity that the device
\* listed: batching, deduplication and a list that is requested again never bring
\* the end of the list before a part of it.
THEOREM ListIsWhole == Spec => []DoneMeansListed
<1>1. IInv => DoneMeansListed
  BY DEF IInv, WholeList, Known, DoneMeansListed
<1> QED
  BY <1>1, Invariant, PTL

\* When esph_wait_list_entities_done returns 0, this session has requested the
\* list; after a single request its end has arrived; and however often it is
\* requested, the registry has the whole list, unless it is full, a frame was lost or
\* an urgent message overtook the batch.
THEOREM WaitIsHonest == Spec => WaitMeansListed
<1>1. ASSUME IInv, [Next]_vars, pc = "wait", pc' = "idle", ret' = 0
      PROVE  /\ calls["list"] > 0
             /\ calls["list"] = 1 => fresh
             /\ ~ lost /\ ~ jumped /\ Len(registry) < MAX_ENTITIES => \A i \in Listed : InRegistry(i)
  <2>1. pc # pc'
    BY <1>1
  <2>2. ~ UNCHANGED vars /\ ~ UNCHANGED sessionVars
    BY <2>1 DEF vars, sessionVars
  <2>3. Client
    BY <1>1, <2>2 DEF Next, Connect, ConnectReturns
  <2>4. WaitStep \/ WaitReturns
    BY <1>1, <2>1, <2>3
       DEF Client, CheckDeviceInfo, DeviceInfoArrives, DeviceInfoFails, ListEntities,
           WaitListEntitiesDone, SubscribeStates, SetSwitch, SendPing, AppRunStep, Disconnect,
           ClearRegistry, Call
  <2>5. CASE WaitStep
    BY <1>1, <2>5 DEF WaitStep
  <2>6. CASE WaitReturns
    <3>1. done
      BY <1>1, <2>6 DEF WaitReturns
    <3>2. calls["list"] \in Nat /\ calls["list"] # 0
      BY <1>1, <3>1 DEF IInv, NotAsked, SessionTyped, Ops
    <3>3. calls["list"] = 1 => fresh
      BY <1>1, <3>1 DEF IInv, DoneIsFresh
    <3>4. WholeList
      BY <1>1 DEF IInv
    <3>5. ~ lost /\ ~ jumped /\ Len(registry) < MAX_ENTITIES => \A i \in Listed : InRegistry(i)
      BY <3>1, <3>4 DEF WholeList, Known
    <3> QED
      BY <3>2, <3>3, <3>5
  <2> QED
    BY <2>4, <2>5, <2>6
<1>2. ASSUME IInv, [Next]_vars
      PROVE  [pc = "wait" /\ pc' = "idle" /\ ret' = 0 =>
               /\ calls["list"] > 0
               /\ calls["list"] = 1 => fresh
               /\ ~ lost /\ ~ jumped /\ Len(registry) < MAX_ENTITIES => \A i \in Listed : InRegistry(i)]_vars
  BY <1>1, <1>2
<1> QED
  BY <1>2, Invariant, PTL DEF Spec, WaitMeansListed
-----------------------------------------------------------------------------
(* The client's cache follows the device: of each entity that was in the    *)
(* registry when states were requested the last word is true.  t is the     *)
(* text the client shows for entity i, v is the entity's reading.           *)

StatesOf(i) == {StateMsg(i, v) : v \in Values}

StateRequest == Msg("subscribe_states_request")

\* The last word about entity i is the reading v: it is to be sent with the batch,
\* or the queue says so, or the queue says nothing and the client shows it.
Word(i, q, b, t, v) ==
    \/ Holds(b, StateItem(i))
    \/ \E p \in 0 .. Len(q) :
         /\ IF p = 0 THEN t = Show(Entities[i].kind, v) ELSE q[p] = StateMsg(i, v)
         /\ \A k \in p + 1 .. Len(q) : q[k] \in StatesOf(i) => q[k] = StateMsg(i, v)

\* The device is going to send a state of the entity, or the last word is true.
Current(i, t) ==
    \/ iter = "list"
    \/ iter = "state" /\ at <= i
    \/ Word(i, toClient, batch, t, value[i])

Followed == {i \in Listed : Alone(i) /\ Entities[i].key \in registered}

\* No states are on their way before they are requested; then the last word about
\* each entity that is followed is true.
CacheInv ==
    /\ iter = "state" => subscribed
    /\ calls["subscribe"] = 0 => ~ subscribed /\ ~ Holds(toDevice, StateRequest)
    /\ pc # "none"
         => /\ registered \subseteq Keys
            /\ Listens /\ ~ lost
                 => \A i \in Followed : Current(i, TextOf(registry, Entities[i].key))

LEMMA StatesDiffer ==
  /\ \A i \in Ents : \A v \in Values : StateMsg(i, v) \in StatesOf(i) /\ StateMsg(i, v) \in States
  /\ \A i, j \in Ents : \A v \in Values : StateMsg(j, v) \in StatesOf(i) => i = j
  /\ \A i \in Ents : \A m \in ListEntry \cup {ListDone} \cup Urgent \cup Replies : m \notin StatesOf(i)
  /\ \A i, j \in Ents : StateItem(i) = StateItem(j) => i = j
  /\ \A i \in Ents : StateItem(i) \in Items
                     /\ \A m \in ListEntry \cup {ListDone} \cup Urgent : m # StateItem(i)
  /\ \A i \in Ents : \A v, w : StateMsg(i, v) = StateMsg(i, w) => v = w
<1>1. \A i \in Ents : \A v \in Values : StateMsg(i, v) \in StatesOf(i) /\ StateMsg(i, v) \in States
  BY DEF StatesOf, States
<1>2. \A i, j : \A v, w : StateMsg(i, v) = StateMsg(j, w) => i = j /\ v = w
  BY DEF StateMsg
<1>3. \A i, j \in Ents : \A v \in Values : StateMsg(j, v) \in StatesOf(i) => i = j
  BY <1>2 DEF StatesOf
<1>4. \A i \in Ents : \A m \in ListEntry \cup {ListDone} \cup Urgent \cup Replies : m \notin StatesOf(i)
  BY DEF StatesOf, StateMsg, ListEntry, ListMsg, ListDone, Urgent, Replies, Msg
<1>5. \A i, j \in Ents : StateItem(i) = StateItem(j) => i = j
  BY DEF StateItem
<1>6. \A i \in Ents : StateItem(i) \in Items
  BY DEF Items
<1>7. \A i \in Ents : \A m \in ListEntry \cup {ListDone} \cup Urgent : m # StateItem(i)
  BY DEF StateItem, ListEntry, ListMsg, ListDone, Urgent, Msg
<1> QED
  BY <1>1, <1>2, <1>3, <1>4, <1>5, <1>6, <1>7

\* A message is appended that says nothing else of the entity.
LEMMA WordAppends ==
  ASSUME NEW q \in Seq(FromDevice), NEW b, NEW i, NEW t, NEW v, NEW m \in FromDevice,
         m \in StatesOf(i) => m = StateMsg(i, v),
         Word(i, q, b, t, v) \/ m = StateMsg(i, v)
  PROVE  Word(i, Append(q, m), b, t, v)
<1> DEFINE r == Append(q, m)
<1>1. /\ Len(q) \in Nat /\ Len(r) = Len(q) + 1 /\ r[Len(q) + 1] = m
      /\ \A k \in 1 .. Len(q) : r[k] = q[k]
  BY AppendProperties, LenProperties
<1> HIDE DEF r
<1>2. CASE m = StateMsg(i, v)
  <2>1. Len(q) + 1 \in 0 .. Len(r) /\ Len(q) + 1 # 0 /\ (Len(q) + 1) + 1 .. Len(r) = {}
    BY <1>1
  <2> QED
    BY <1>1, <1>2, <2>1 DEF Word, r
<1>3. CASE Holds(b, StateItem(i))
  BY <1>3 DEF Word
<1>4. ASSUME NEW p \in 0 .. Len(q),
             IF p = 0 THEN t = Show(Entities[i].kind, v) ELSE q[p] = StateMsg(i, v),
             \A k \in p + 1 .. Len(q) : q[k] \in StatesOf(i) => q[k] = StateMsg(i, v)
      PROVE  Word(i, r, b, t, v)
  <2>1. p \in 0 .. Len(r)
    BY <1>1
  <2>2. IF p = 0 THEN t = Show(Entities[i].kind, v) ELSE r[p] = StateMsg(i, v)
    BY <1>1, <1>4
  <2>3. \A k \in p + 1 .. Len(r) : r[k] \in StatesOf(i) => r[k] = StateMsg(i, v)
    BY <1>1, <1>4
  <2> QED
    BY <2>1, <2>2, <2>3 DEF Word
<1> QED
  BY <1>2, <1>3, <1>4 DEF Word, r

LEMMA AddHolds ==
  ASSUME NEW b \in Seq(Items), NEW m \in Items
  PROVE  /\ AddItem(b, m) \in Seq(Items) /\ Holds(AddItem(b, m), m)
         /\ \A x : Holds(b, x) => Holds(AddItem(b, m), x)
<1>1. CASE m \in Range(b)
  <2>1. AddItem(b, m) = b /\ Holds(b, m)
    BY <1>1, RangeEquality DEF AddItem, Holds
  <2> QED
    BY <2>1
<1>2. CASE m \notin Range(b)
  <2>1. AddItem(b, m) = Append(b, m)
    BY <1>2 DEF AddItem
  <2>2. /\ Append(b, m) \in Seq(Items) /\ Len(b) \in Nat /\ Len(Append(b, m)) = Len(b) + 1
        /\ \A k \in 1 .. Len(b) : Append(b, m)[k] = b[k]
        /\ Append(b, m)[Len(b) + 1] = m
    BY AppendProperties, LenProperties
  <2> QED
    BY <2>1, <2>2 DEF Holds
<1> QED
  BY <1>1, <1>2

\* An item is queued: the entity's own, or another.
LEMMA WordAdds ==
  ASSUME NEW q, NEW b \in Seq(Items), NEW i, NEW t, NEW v, NEW m \in Items,
         Word(i, q, b, t, v) \/ m = StateItem(i)
  PROVE  Word(i, q, AddItem(b, m), t, v)
BY AddHolds DEF Word

\* process_batch_ sends the current reading, and nothing else of the entity.
LEMMA WordFlushed ==
  ASSUME ValuesTyped, NEW q \in Seq(FromDevice), NEW b \in Seq(Items), Len(q) <= MaxQueue,
         ProcessBatch(q, b), NEW i \in Ents, NEW t, Word(i, q, b, t, value[i])
  PROVE  Word(i, toClient', batch', t, value[i])
<1> DEFINE n == FlushSize(q, b)
           s == [j \in 1 .. n |-> Encode(b[j])]
           v == value[i]
<1>1. n \in Nat /\ n <= Len(b) /\ Len(b) \in Nat /\ Len(q) \in Nat
  BY FlushSizeRange, LenProperties
<1>2. toClient' = q \o s /\ batch' = SubSeq(b, n + 1, Len(b))
  BY DEF ProcessBatch
<1> HIDE DEF n
<1>3. \A j \in 1 .. n : b[j] \in Items
  BY <1>1, ElementOfSeq
<1>4. s \in Seq(FromDevice) /\ Len(s) = n
  <2>1. s \in [1 .. n -> FromDevice]
    BY <1>3, EncodeTyped
  <2> HIDE DEF s
  <2> QED
    BY <1>1, <2>1
<1>5. \A j \in 1 .. n : s[j] = Encode(b[j])
  OBVIOUS
<1> HIDE DEF s
<1>6. /\ Len(toClient') = Len(q) + n
      /\ \A k \in 1 .. Len(q) + n : toClient'[k] = IF k <= Len(q) THEN q[k] ELSE s[k - Len(q)]
  BY <1>1, <1>2, <1>4, ConcatProperties
<1>7. ASSUME NEW j \in 1 .. n
      PROVE  /\ b[j] = StateItem(i) => s[j] = StateMsg(i, v)
             /\ s[j] \in StatesOf(i) => s[j] = StateMsg(i, v)
  <2>1. CASE b[j] \in ListEntry \cup {ListDone} \cup Urgent
    <3>1. b[j].type # "state"
      BY <2>1 DEF ListEntry, ListMsg, ListDone, Urgent, Msg
    <3>2. Encode(b[j]) = b[j] /\ b[j] \notin StatesOf(i) /\ b[j] # StateItem(i)
      BY <2>1, <3>1, StatesDiffer DEF Encode
    <3> QED
      BY <1>5, <3>2
  <2>2. CASE b[j] \in {StateItem(k) : k \in Ents}
    <3>1. PICK k \in Ents : b[j] = StateItem(k)
      BY <2>2
    <3>2. Encode(b[j]) = StateMsg(k, value[k]) /\ value[k] \in Values
      BY <3>1 DEF Encode, StateItem, ValuesTyped
    <3>3. b[j] = StateItem(i) => k = i
      BY <3>1, StatesDiffer
    <3>4. StateMsg(k, value[k]) \in StatesOf(i) => k = i
      BY <3>2, StatesDiffer
    <3> QED
      BY <1>5, <3>2, <3>3, <3>4
  <2> QED
    BY <1>3, <2>1, <2>2 DEF Items
<1>8. CASE Holds(b, StateItem(i))
  <2>1. PICK j \in 1 .. Len(b) : b[j] = StateItem(i)
    BY <1>8 DEF Holds
  <2>2. CASE j <= n
    <3> DEFINE p == Len(q) + j
    <3>1. p \in 0 .. Len(toClient') /\ p # 0 /\ p > Len(q) /\ p - Len(q) = j /\ j \in 1 .. n
      BY <1>1, <1>6, <2>2
    <3> HIDE DEF p
    <3>2. toClient'[p] = StateMsg(i, v)
      BY <1>1, <1>6, <1>7, <2>1, <3>1
    <3>3. ASSUME NEW k \in p + 1 .. Len(toClient'), toClient'[k] \in StatesOf(i)
          PROVE  toClient'[k] = StateMsg(i, v)
      <4>1. /\ k \in 1 .. Len(q) + n /\ ~ (k <= Len(q)) /\ k - Len(q) \in 1 .. n
        BY <1>1, <1>6, <3>1
      <4> QED
        BY <1>6, <1>7, <3>3, <4>1
    <3> QED
      BY <3>1, <3>2, <3>3 DEF Word
  <2>3. CASE j > n
    <3>1. \A k \in n + 1 .. Len(b) : b[k] \in Items
      BY <1>1, ElementOfSeq
    <3>2. /\ Len(batch') = Len(b) - n
          /\ \A k \in 1 .. Len(b) - n : batch'[k] = b[n + k]
      <4>1. /\ Len(batch') = IF n + 1 <= Len(b) THEN Len(b) - (n + 1) + 1 ELSE 0
            /\ \A k \in 1 .. Len(b) - (n + 1) + 1 : batch'[k] = b[(n + 1) + k - 1]
        BY <1>1, <1>2, <3>1, SubSeqProperties
      <4>2. \A k \in 1 .. Len(b) - n : (n + 1) + k - 1 = n + k
        BY <1>1
      <4> QED
        BY <1>1, <4>1, <4>2
    <3>3. j - n \in 1 .. Len(batch') /\ n + (j - n) = j
      BY <1>1, <2>3, <3>2
    <3>4. batch'[j - n] = StateItem(i)
      BY <2>1, <3>2, <3>3
    <3> QED
      BY <3>3, <3>4 DEF Word, Holds
  <2> QED
    BY <1>1, <2>2, <2>3
<1>9. ASSUME NEW p \in 0 .. Len(q),
             IF p = 0 THEN t = Show(Entities[i].kind, v) ELSE q[p] = StateMsg(i, v),
             \A k \in p + 1 .. Len(q) : q[k] \in StatesOf(i) => q[k] = StateMsg(i, v)
      PROVE  Word(i, toClient', batch', t, v)
  <2>1. p \in 0 .. Len(toClient')
    BY <1>1, <1>6
  <2>2. IF p = 0 THEN t = Show(Entities[i].kind, v) ELSE toClient'[p] = StateMsg(i, v)
    BY <1>1, <1>6, <1>9
  <2>3. ASSUME NEW k \in p + 1 .. Len(toClient'), toClient'[k] \in StatesOf(i)
        PROVE  toClient'[k] = StateMsg(i, v)
    <3>1. CASE k <= Len(q)
      BY <1>1, <1>6, <1>9, <2>3, <3>1
    <3>2. CASE ~ (k <= Len(q))
      <4>1. k \in 1 .. Len(q) + n /\ k - Len(q) \in 1 .. n
        BY <1>1, <1>6, <3>2
      <4> QED
        BY <1>6, <1>7, <2>3, <3>2, <4>1
    <3> QED
      BY <3>1, <3>2
  <2> QED
    BY <2>1, <2>2, <2>3 DEF Word
<1> QED
  BY <1>8, <1>9 DEF Word

\* send_message_smart_ for a state: the last word about its entity, and none about
\* another.
LEMMA SmartSays ==
  ASSUME NEW x \in [q : Seq(FromDevice), b : Seq(Items)], NEW i \in Ents, NEW j \in Ents,
         NEW v, NEW w \in Values, i = j => w = v, NEW t,
         i = j \/ Word(i, x.q, x.b, t, v)
  PROVE  LET y == SendSmart(x, StateItem(j), StateMsg(j, w))
         IN  y \in [q : Seq(FromDevice), b : Seq(Items)] /\ Word(i, y.q, y.b, t, v)
<1> DEFINE y == SendSmart(x, StateItem(j), StateMsg(j, w))
<1>1. /\ StateMsg(j, w) \in FromDevice /\ StateItem(j) \in Items
      /\ StateMsg(j, w) \in StatesOf(i) => i = j
      /\ x.q \in Seq(FromDevice) /\ x.b \in Seq(Items)
  BY StatesDiffer DEF FromDevice
<1>2. CASE Immediate /\ Room(x.q, 1)
  <2>1. y = [q |-> Append(x.q, StateMsg(j, w)), b |-> x.b]
    BY <1>2 DEF SendSmart
  <2>2. Append(x.q, StateMsg(j, w)) \in Seq(FromDevice)
    BY <1>1, AppendProperties
  <2>3. Word(i, Append(x.q, StateMsg(j, w)), x.b, t, v)
    BY <1>1, WordAppends
  <2> QED
    BY <1>1, <2>1, <2>2, <2>3
<1>3. CASE ~ (Immediate /\ Room(x.q, 1))
  <2>1. y = [q |-> x.q, b |-> AddItem(x.b, StateItem(j))]
    BY <1>3 DEF SendSmart
  <2>2. AddItem(x.b, StateItem(j)) \in Seq(Items)
    BY <1>1, AddHolds
  <2>3. Word(i, x.q, AddItem(x.b, StateItem(j)), t, v)
    BY <1>1, WordAdds
  <2> QED
    BY <1>1, <2>1, <2>2, <2>3
<1> QED
  BY <1>2, <1>3

\* What a step of the device may do to the last words.
Tells ==
    /\ iter' = "state" => subscribed'
    /\ subscribed' => subscribed \/ Holds(toDevice, StateRequest)
    /\ \A m : Holds(toDevice', m) => Holds(toDevice, m)
    /\ \A i \in Listed : \A t : Listens' /\ (Listens => Current(i, t)) => Current(i, t)'

\* A step that leaves the iterator and the subscription alone.
LEMMA WordsTell ==
  ASSUME iter = "state" => subscribed, UNCHANGED <<iter, at, subscribed, dev>>,
         \A m : Holds(toDevice', m) => Holds(toDevice, m),
         \A i \in Listed : \A t :
           Listens /\ Word(i, toClient, batch, t, value[i])
             => Word(i, toClient', batch', t, value'[i])
  PROVE  Tells
<1>1. ASSUME NEW i \in Listed, NEW t, Listens', Listens => Current(i, t)
      PROVE  Current(i, t)'
  <2>1. Current(i, t) /\ Listens
    BY <1>1 DEF Listens
  <2> QED
    BY <2>1 DEF Current
<1> QED
  BY <1>1 DEF Tells

LEMMA PublishTells ==
  ASSUME DeviceTyped, NEW i \in Ents, NEW v \in ReadingsOf(Entities[i].kind), Publish(i, v),
         NEW j \in Ents, NEW t, Listens, Word(j, toClient, batch, t, value[j])
  PROVE  Word(j, toClient', batch', t, value'[j])
<1> DEFINE x == SendSmart(Buffers, StateItem(i), StateMsg(i, v))
<1>1. v \in Values
  BY ReadingsAreValues
<1>2. toClient' = x.q /\ batch' = x.b /\ value' = [value EXCEPT ![i] = v]
  BY DEF Publish, Queue
<1>3. (j = i => value'[j] = v) /\ (j # i => value'[j] = value[j])
  BY <1>2 DEF DeviceTyped, ValuesTyped
<1>4. /\ Buffers \in [q : Seq(FromDevice), b : Seq(Items)]
      /\ Buffers.q = toClient /\ Buffers.b = batch
  BY DEF Buffers, DeviceTyped
<1> HIDE DEF x
<1>5. Word(j, x.q, x.b, t, value'[j])
  <2>1. j = i \/ Word(j, Buffers.q, Buffers.b, t, value'[j])
    BY <1>3, <1>4
  <2> QED
    BY <1>1, <1>3, <1>4, <2>1, SmartSays DEF x
<1> QED
  BY <1>2, <1>5

LEMMA EntityChangesTells ==
  ASSUME DeviceTyped, iter = "state" => subscribed, EntityChanges
  PROVE  Tells
<1>1. PICK i \in Ents : \E v \in ReadingsOf(Entities[i].kind) : Publish(i, v)
  BY DEF EntityChanges
<1>2. PICK v \in ReadingsOf(Entities[i].kind) : Publish(i, v)
  BY <1>1
<1>3. UNCHANGED <<dev, iter, at, subscribed, toDevice>>
  BY DEF EntityChanges
<1>4. ASSUME NEW j \in Listed, NEW t, Listens, Word(j, toClient, batch, t, value[j])
      PROVE  Word(j, toClient', batch', t, value'[j])
  BY <1>2, <1>4, ListedAreEnts, PublishTells
<1>5. \A m : Holds(toDevice', m) => Holds(toDevice, m)
  BY <1>3
<1> QED
  BY <1>3, <1>4, <1>5, WordsTell

LEMMA TailHolds ==
  ASSUME NEW S, NEW q \in Seq(S), q # <<>>
  PROVE  (\A m : Holds(Tail(q), m) => Holds(q, m)) /\ Holds(q, Head(q))
<1>1. /\ Len(q) \in Nat \ {0} /\ Len(Tail(q)) = Len(q) - 1 /\ Head(q) = q[1]
      /\ \A k \in 1 .. Len(Tail(q)) : Tail(q)[k] = q[k + 1]
  BY HeadTailProperties, LenProperties, EmptySeq
<1>2. \A k \in 1 .. Len(Tail(q)) : k + 1 \in 1 .. Len(q)
  BY <1>1
<1>3. 1 \in 1 .. Len(q)
  BY <1>1
<1> QED
  BY <1>1, <1>2, <1>3 DEF Holds

LEMMA ReadMessageTells ==
  ASSUME DeviceTyped, iter = "state" => subscribed, ReadMessage
  PROVE  Tells
<1> DEFINE m == Head(toDevice)
<1>1. /\ \A x : Holds(toDevice', x) => Holds(toDevice, x)
      /\ Holds(toDevice, m) /\ m \in FromClient
  BY TailHolds, RequestTaken DEF ReadMessage, DeviceTyped
<1>2. UNCHANGED <<dev, eager, jumped>>
  BY DEF ReadMessage
<1>3. ASSUME NEW a \in Replies, Answer(a) PROVE Tells
  <2>1. /\ toClient' = Append(toClient, a)
        /\ UNCHANGED <<value, iter, at, batch, subscribed>>
    BY <1>3 DEF Answer
  <2>2. a \in FromDevice /\ \A i \in Ents : a \notin StatesOf(i)
    BY StatesDiffer DEF FromDevice
  <2>3. ASSUME NEW i \in Listed, NEW t, Word(i, toClient, batch, t, value[i])
        PROVE  Word(i, toClient', batch', t, value'[i])
    BY <2>1, <2>2, <2>3, ListedAreEnts, WordAppends DEF DeviceTyped
  <2> QED
    BY <1>1, <1>2, <2>1, <2>3, WordsTell
<1>4. CASE m.type = "ping_response" /\ OnPingResponse
  <2>1. UNCHANGED <<value, iter, at, batch, subscribed, toClient>>
    BY <1>4 DEF OnPingResponse
  <2> QED
    BY <1>1, <1>2, <2>1, WordsTell
<1>5. CASE m.type = "list_entities_request" /\ OnListEntities
  <2>1. iter' = "list" /\ UNCHANGED subscribed
    BY <1>5 DEF OnListEntities
  <2> QED
    BY <1>1, <2>1 DEF Tells, Current
<1>6. CASE m.type = "subscribe_states_request" /\ OnSubscribeStates
  <2>1. /\ UNCHANGED <<value, batch, toClient>> /\ subscribed' = TRUE
        /\ IF iter = "none" THEN iter' = "state" /\ at' = 1 ELSE UNCHANGED <<iter, at>>
    BY <1>6 DEF OnSubscribeStates
  <2>2. m = StateRequest
    BY <1>1, <1>6 DEF FromClient, StateRequest, Msg
  <2>3. ASSUME NEW i \in Listed, NEW t, Listens', Listens => Current(i, t)
        PROVE  Current(i, t)'
    <3>1. CASE iter = "none"
      <4>1. 1 <= i
        BY ListedAreEnts DEF Ents
      <4> QED
        BY <2>1, <3>1, <4>1 DEF Current
    <3>2. CASE iter = "list"
      BY <2>1, <3>2 DEF Current
    <3>3. CASE iter = "state"
      <4>1. Listens
        BY <1>2, <2>3, <3>3 DEF Listens
      <4> QED
        BY <2>1, <2>3, <3>3, <4>1 DEF Current
    <3> QED
      BY <3>1, <3>2, <3>3 DEF DeviceTyped
  <2> QED
    BY <1>1, <2>1, <2>2, <2>3 DEF Tells
<1>7. CASE m.type = "switch_command" /\ OnSwitchCommand(m)
  <2>1. UNCHANGED <<iter, at, subscribed>>
    BY <1>7 DEF OnSwitchCommand
  <2>2. CASE SwitchesWithKey(m.key) # {} /\ value[Commanded(m.key)] # m.on
    <3>1. Publish(Commanded(m.key), m.on)
      BY <1>7, <2>2 DEF OnSwitchCommand
    <3>2. m.on \in {0, 1}
      BY <1>1, <1>7 DEF FromClient
    <3>3. /\ Commanded(m.key) \in Ents
          /\ m.on \in ReadingsOf(Entities[Commanded(m.key)].kind)
      BY <2>2, <3>2, CommandedIsSwitch, ListedSwitches
    <3>4. ASSUME NEW i \in Listed, NEW t, Listens, Word(i, toClient, batch, t, value[i])
          PROVE  Word(i, toClient', batch', t, value'[i])
      BY <3>1, <3>3, <3>4, ListedAreEnts, PublishTells
    <3> QED
      BY <1>1, <1>2, <2>1, <3>4, WordsTell
  <2>3. CASE ~ (SwitchesWithKey(m.key) # {} /\ value[Commanded(m.key)] # m.on)
    <3>1. UNCHANGED <<value, batch, toClient>>
      BY <1>7, <2>3 DEF OnSwitchCommand
    <3> QED
      BY <1>1, <1>2, <2>1, <3>1, WordsTell
  <2> QED
    BY <2>2, <2>3
<1> QED
  BY <1>3, <1>4, <1>5, <1>6, <1>7 DEF ReadMessage, Replies

LEMMA FlushBatchTells ==
  ASSUME DeviceTyped, iter = "state" => subscribed, FlushBatch
  PROVE  Tells
<1>1. /\ ProcessBatch(toClient, batch)
      /\ UNCHANGED <<value, dev, iter, at, subscribed, toDevice>>
  BY DEF FlushBatch
<1>2. ASSUME NEW i \in Listed, NEW t, Word(i, toClient, batch, t, value[i])
      PROVE  Word(i, toClient', batch', t, value'[i])
  BY <1>1, <1>2, ListedAreEnts, WordFlushed DEF DeviceTyped
<1> QED
  BY <1>1, <1>2, WordsTell

\* A pass of the state iterator has told of every entity behind it.
Telling(i, t, x, p) ==
    /\ x \in [q : Seq(FromDevice), b : Seq(Items)]
    /\ at <= i \/ Word(i, toClient, batch, t, value[i])
         => p <= i \/ Word(i, x.q, x.b, t, value[i])

LEMMA VisitTells ==
  ASSUME ValuesTyped, iter = "state", NEW i \in Listed, NEW t, NEW x,
         NEW p \in 1 .. Completed - 1, Telling(i, t, x, p)
  PROVE  Telling(i, t, Visit(x, p), p + 1)
<1>1. x \in [q : Seq(FromDevice), b : Seq(Items)] /\ i \in Ents /\ i \in Nat /\ p \in Nat
  BY EntitiesCounted, ListedAreEnts DEF Telling
<1>2. CASE p \in Ents /\ Entities[p].kind # "button"
  <2> DEFINE y == SendSmart(x, StateItem(p), StateMsg(p, value[p]))
  <2>1. Visit(x, p) = y
    <3>1. Encode(StateItem(p)) = StateMsg(p, value[p])
      BY DEF Encode, StateItem
    <3> QED
      BY <1>2, <3>1 DEF Visit
  <2>2. value[p] \in Values
    BY <1>2 DEF ValuesTyped
  <2>3. ASSUME i = p \/ Word(i, x.q, x.b, t, value[i])
        PROVE  y \in [q : Seq(FromDevice), b : Seq(Items)] /\ Word(i, y.q, y.b, t, value[i])
    BY <1>1, <1>2, <2>2, <2>3, SmartSays
  <2>4. y \in [q : Seq(FromDevice), b : Seq(Items)]
    BY <1>1, <1>2, <2>2, SmartSays
  <2> HIDE DEF y
  <2>5. p <= i => i = p \/ p + 1 <= i
    BY <1>1
  <2> QED
    BY <2>1, <2>3, <2>4, <2>5 DEF Telling
<1>3. CASE ~ (p \in Ents /\ Entities[p].kind # "button")
  <2>1. Visit(x, p) = x
    BY <1>3 DEF Visit
  <2>2. i # p
    BY <1>1, <1>3 DEF Listed, ClientKinds
  <2>3. p <= i => p + 1 <= i
    BY <1>1, <2>2
  <2> QED
    BY <2>1, <2>3 DEF Telling
<1> QED
  BY <1>2, <1>3

LEMMA VisitedTells ==
  ASSUME DeviceTyped, iter = "state", NEW i \in Listed, NEW t, NEW p \in at .. Completed
  PROVE  Telling(i, t, Visited[p], p)
<1>0. ValuesTyped /\ at \in 1 .. Completed
  BY DEF DeviceTyped
<1> DEFINE T == {k \in at .. Completed : ~ Telling(i, t, Visited[k], k)}
<1>1. SUFFICES ASSUME T # {} PROVE FALSE
  OBVIOUS
<1>2. PICK k \in Nat : k \in T /\ \A l \in T : k <= l
  <2>1. T \in SUBSET Nat
    BY <1>0, EntitiesCounted
  <2> HIDE DEF T
  <2> QED
    BY <1>1, <2>1, Least
<1>3. k \in at .. Completed /\ ~ Telling(i, t, Visited[k], k)
  BY <1>2
<1>4. Visited[k] = IF k = at THEN Buffers ELSE Visit(Visited[k - 1], k - 1)
  BY <1>0, <1>3, VisitedAlong DEF Along
<1>5. CASE k = at
  <2>1. Telling(i, t, Buffers, at)
    BY DEF Telling, Buffers, DeviceTyped
  <2> QED
    BY <1>3, <1>4, <1>5, <2>1
<1>6. CASE k # at
  <2>1. /\ k - 1 \in at .. Completed /\ k - 1 \in 1 .. Completed - 1 /\ ~ (k <= k - 1)
        /\ (k - 1) + 1 = k
    BY <1>0, <1>3, <1>6, EntitiesCounted
  <2>2. Telling(i, t, Visited[k - 1], k - 1)
    BY <1>2, <2>1
  <2> HIDE DEF T
  <2>3. Telling(i, t, Visit(Visited[k - 1], k - 1), k)
    BY <1>0, <2>1, <2>2, VisitTells
  <2> QED
    BY <1>3, <1>4, <1>6, <2>3
<1> QED
  BY <1>5, <1>6

LEMMA IteratorAdvancesTells ==
  ASSUME DeviceTyped, iter = "state" => subscribed, IteratorAdvances
  PROVE  Tells
<1> DEFINE p == NextPosition(Visited)
           x == Visited[p]
<1>1. /\ at' = p /\ iter # "none"
      /\ UNCHANGED <<value, dev, iter, subscribed, toDevice>>
      /\ \/ ProcessBatch(x.q, x.b)
         \/ toClient' = x.q /\ batch' = x.b
  BY DEF IteratorAdvances, Queue
<1>2. p \in at .. Completed /\ ValuesTyped /\ at \in 1 .. Completed
  BY NextPositionRange DEF DeviceTyped
<1>3. ASSUME NEW i \in Listed, NEW t, iter = "state",
             at <= i \/ Word(i, toClient, batch, t, value[i])
      PROVE  p <= i \/ Word(i, toClient', batch', t, value[i])
  <2>1. Telling(i, t, x, p)
    BY <1>2, <1>3, VisitedTells
  <2>2. /\ x.q \in Seq(FromDevice) /\ x.b \in Seq(Items)
        /\ p <= i \/ Word(i, x.q, x.b, t, value[i])
    BY <1>3, <2>1 DEF Telling
  <2>3. Len(x.q) <= MaxQueue
    <3>1. Passing(Listed, x, p)
      BY <1>2, SoundBuffers, VisitedPassing
    <3> QED
      BY <3>1 DEF Passing, Sound
  <2> HIDE DEF x, p
  <2>4. ASSUME Word(i, x.q, x.b, t, value[i]), ProcessBatch(x.q, x.b)
        PROVE  Word(i, toClient', batch', t, value[i])
    BY <1>2, <2>2, <2>3, <2>4, ListedAreEnts, WordFlushed
  <2> QED
    BY <1>1, <2>2, <2>4
<1> HIDE DEF x, p
<1>4. ASSUME NEW i \in Listed, NEW t, Listens', Listens => Current(i, t)
      PROVE  Current(i, t)'
  <2>1. Current(i, t)
    BY <1>1, <1>4 DEF Listens
  <2>2. CASE iter = "list"
    BY <1>1, <2>2 DEF Current
  <2>3. CASE iter = "state"
    BY <1>1, <1>3, <2>1, <2>3 DEF Current
  <2> QED
    BY <1>1, <2>2, <2>3 DEF DeviceTyped
<1> QED
  BY <1>1, <1>4 DEF Tells

LEMMA IteratorCompletesTells ==
  ASSUME DeviceTyped, iter = "state" => subscribed, IteratorCompletes
  PROVE  Tells
<1>1. /\ UNCHANGED <<value, dev, subscribed, toDevice>> /\ iter # "none" /\ at = Completed
  BY DEF IteratorCompletes
<1>2. CASE iter = "list" /\ subscribed
  <2>1. iter' = "state" /\ at' = 1
    BY <1>2 DEF IteratorCompletes
  <2>2. \A i \in Listed : 1 <= i
    BY ListedAreEnts DEF Ents
  <2> QED
    BY <1>1, <1>2, <2>1, <2>2 DEF Tells, Current
<1>3. CASE ~ (iter = "list" /\ subscribed)
  <2>1. iter' = "none" /\ ProcessBatch(toClient, batch)
    BY <1>3 DEF IteratorCompletes
  <2>2. ASSUME NEW i \in Listed, NEW t, Listens', Listens => Current(i, t)
        PROVE  Current(i, t)'
    <3>1. subscribed /\ Current(i, t)
      BY <1>1, <2>2 DEF Listens
    <3>2. i \in Ents /\ ~ (at <= i)
      BY <1>1, EntitiesCounted, ListedAreEnts
    <3>3. Word(i, toClient, batch, t, value[i])
      BY <1>3, <3>1, <3>2 DEF Current
    <3>4. Word(i, toClient', batch', t, value[i])
      BY <2>1, <3>2, <3>3, WordFlushed DEF DeviceTyped
    <3> QED
      BY <1>1, <3>4 DEF Current
  <2> QED
    BY <1>1, <2>1, <2>2 DEF Tells
<1> QED
  BY <1>2, <1>3

LEMMA SendUrgentTells ==
  ASSUME DeviceTyped, iter = "state" => subscribed, NEW m \in Urgent, SendUrgent(m),
         UNCHANGED <<iter, at, subscribed, dev, value, toDevice>>
  PROVE  Tells
<1>1. /\ m \in Items /\ m \in FromDevice
      /\ \A i \in Ents : m # StateItem(i) /\ m \notin StatesOf(i)
  BY StatesDiffer DEF Items, FromDevice
<1>2. SUFFICES ASSUME NEW i \in Listed, NEW t, Word(i, toClient, batch, t, value[i])
               PROVE  Word(i, toClient', batch', t, value[i])
  BY WordsTell
<1>3. toClient \in Seq(FromDevice) /\ batch \in Seq(Items) /\ Len(batch) \in Nat /\ i \in Ents
  BY ListedAreEnts, LenProperties DEF DeviceTyped
<1>4. CASE Room(toClient, 1)
  <2>1. toClient' = Append(toClient, m) /\ batch' = batch
    BY <1>4 DEF SendUrgent, Queue
  <2> QED
    BY <1>1, <1>2, <1>3, <2>1, WordAppends
<1>5. CASE ~ Room(toClient, 1)
  <2>1. toClient' = toClient /\ batch' = AddItemFront(batch, m)
    BY <1>5 DEF SendUrgent, Queue
  <2>2. ASSUME Holds(batch, StateItem(i)) PROVE Holds(batch', StateItem(i))
    <3>1. PICK k \in 1 .. Len(batch) : batch[k] = StateItem(i)
      BY <2>2 DEF Holds
    <3> DEFINE c == [batch EXCEPT ![1] = m]
    <3>2. batch # <<>> /\ 1 \in 1 .. Len(batch)
      BY <1>3, <3>1, EmptySeq
    <3>3. /\ c \in Seq(Items) /\ Len(c) = Len(batch)
          /\ \A j \in 1 .. Len(batch) : c[j] = IF j = 1 THEN m ELSE batch[j]
      BY <1>1, <1>3, <3>2, ExceptSeq
    <3>4. batch' = Append(c, batch[1]) /\ batch[1] \in Items
      BY <1>3, <2>1, <3>2, ElementOfSeq DEF AddItemFront
    <3> HIDE DEF c
    <3>5. /\ Len(batch') = Len(batch) + 1
          /\ \A j \in 1 .. Len(c) : batch'[j] = c[j]
          /\ batch'[Len(c) + 1] = batch[1]
      BY <3>3, <3>4, AppendProperties
    <3>6. CASE k = 1
      <4>1. Len(c) + 1 \in 1 .. Len(batch') /\ batch'[Len(c) + 1] = StateItem(i)
        BY <1>3, <3>1, <3>3, <3>5, <3>6
      <4> QED
        BY <4>1 DEF Holds
    <3>7. CASE k # 1
      <4>1. k \in 1 .. Len(batch') /\ batch'[k] = StateItem(i)
        BY <1>3, <3>1, <3>3, <3>5, <3>7
      <4> QED
        BY <4>1 DEF Holds
    <3> QED
      BY <3>6, <3>7
  <2> QED
    BY <1>2, <2>1, <2>2 DEF Word
<1> QED
  BY <1>4, <1>5

LEMMA DeviceTells ==
  ASSUME DeviceTyped, iter = "state" => subscribed, DeviceActs
  PROVE  Tells
<1>1. CASE EntityChanges
  BY <1>1, EntityChangesTells
<1>2. CASE ReadMessage
  BY <1>2, ReadMessageTells
<1>3. CASE FlushBatch
  BY <1>3, FlushBatchTells
<1>4. CASE PassEnds
  <2>1. UNCHANGED <<value, dev, iter, at, batch, subscribed, toClient, toDevice>>
    BY <1>4 DEF PassEnds
  <2> QED
    BY <2>1, WordsTell
<1>5. CASE IteratorAdvances
  BY <1>5, IteratorAdvancesTells
<1>6. CASE IteratorCompletes
  BY <1>6, IteratorCompletesTells
<1>7. CASE KeepalivePing
  <2>1. /\ SendUrgent(Msg("ping_request")) /\ Msg("ping_request") \in Urgent
        /\ UNCHANGED <<value, dev, iter, at, subscribed, toDevice>>
    BY <1>7 DEF KeepalivePing, Urgent
  <2> QED
    BY <2>1, SendUrgentTells
<1>8. CASE Shutdown
  <2>1. /\ SendUrgent(Msg("disconnect_request")) /\ Msg("disconnect_request") \in Urgent
        /\ UNCHANGED <<value, dev, iter, at, subscribed, toDevice>>
    BY <1>8 DEF Shutdown, Urgent
  <2> QED
    BY <2>1, SendUrgentTells
<1>9. CASE Drop
  <2>1. iter' = "none" /\ subscribed' = FALSE /\ toDevice' = <<>>
    BY <1>9 DEF Drop
  <2>2. \A m : ~ Holds(toDevice', m)
    BY <2>1 DEF Holds
  <2> QED
    BY <2>1, <2>2 DEF Tells, Listens
<1> QED
  BY <1>1, <1>2, <1>3, <1>4, <1>5, <1>6, <1>7, <1>8, <1>9 DEF DeviceActs, Serve

LEMMA DeviceCacheStep ==
  ASSUME IInv, CacheInv, DeviceActs, UNCHANGED sessionVars
  PROVE  CacheInv'
<1>1. DeviceTyped /\ (iter = "state" => subscribed)
  BY DEF IInv, CacheInv
<1>2. Tells
  BY <1>1, DeviceTells
<1>3. UNCHANGED <<pc, registry, calls, lost, registered>>
  BY DEF sessionVars
<1>4. calls'["subscribe"] = 0 => ~ subscribed' /\ ~ Holds(toDevice', StateRequest)
  BY <1>2, <1>3 DEF CacheInv, Tells
<1>5. ASSUME pc' # "none"
      PROVE  registered' \subseteq Keys'
  BY <1>3, <1>5 DEF CacheInv, Keys
<1>6. ASSUME pc' # "none", Listens', ~ lost', NEW i \in Followed'
      PROVE  Current(i, TextOf(registry, Entities[i].key))'
  <2>1. i \in Listed /\ i \in Followed
    BY <1>3, <1>6 DEF Followed
  <2> DEFINE t == TextOf(registry, Entities[i].key)
  <2>2. Listens => Current(i, t)
    BY <1>3, <1>6, <2>1 DEF CacheInv
  <2>3. Listens' /\ (Listens => Current(i, t)) => Current(i, t)'
    BY <1>2, <1>3, <2>1 DEF Tells, TextOf
  <2> QED
    BY <1>3, <1>6, <2>2, <2>3
<1> QED
  BY <1>2, <1>4, <1>5, <1>6 DEF CacheInv, Tells

-----------------------------------------------------------------------------
(* The client's steps: the texts it shows. *)

\* No text the client makes of a reading is too long for an entry.
LEMMA ShowFits ==
  ASSUME NEW kind \in ClientKinds, NEW v
  PROVE  Reg!Clip(Show(kind, v)) = Show(kind, v)
<1> DEFINE n == Len(Show(kind, v))
<1>1. n \in 0 .. 2
  BY DEF Show, ClientKinds
<1> HIDE DEF n
<1>2. ~ (n > 63)
  BY <1>1
<1> QED
  BY <1>2 DEF Reg!Clip, n

LEMMA FirstIsLeast ==
  ASSUME NEW S \in SUBSET Nat, NEW x \in S, \A y \in S : x <= y
  PROVE  Reg!First(S) = x
<1>1. /\ Reg!First(S) \in S
      /\ \A y \in S : Reg!First(S) <= y
  BY DEF Reg!First
<1>2. Reg!First(S) \in Nat /\ x \in Nat /\ Reg!First(S) <= x /\ x <= Reg!First(S)
  BY <1>1
<1> QED
  BY <1>2

\* An entity that is added shadows none that the registry has.
LEMMA AddedText ==
  ASSUME RegistryTyped, NEW name, NEW key, NEW kind,
         registry' = Reg!esph_registry_add(registry, name, key, kind)
  PROVE  /\ Keys \subseteq Keys'
         /\ \A k \in Keys : TextOf(registry', k) = TextOf(registry, k)
<1> DEFINE e == Reg!Entry(name, key, kind)
<1>1. Len(registry) \in Nat /\ registry \in Seq(Slots)
  BY LenProperties DEF RegistryTyped
<1>2. registry' = registry \/ registry' = Append(registry, e)
  BY DEF Reg!esph_registry_add
<1> HIDE DEF e
<1>3. CASE registry' = registry
  BY <1>3 DEF Keys
<1>4. CASE registry' = Append(registry, e)
  <2>1. /\ Len(registry') = Len(registry) + 1
        /\ \A j \in 1 .. Len(registry) : registry'[j] = registry[j]
    BY <1>1, <1>4
  <2>2. Keys \subseteq Keys'
    BY <1>1, <2>1 DEF Keys
  <2>3. ASSUME NEW k \in Keys PROVE TextOf(registry', k) = TextOf(registry, k)
    <3> DEFINE S == Reg!WithKey(registry, k)
               T == Reg!WithKey(registry', k)
    <3>1. /\ S \in SUBSET Nat /\ S # {} /\ S \subseteq 1 .. Len(registry)
          /\ T \in SUBSET Nat /\ S \subseteq T /\ T \subseteq S \cup {Len(registry) + 1}
      BY <1>1, <2>1 DEF Keys, Reg!WithKey
    <3>2. TextOf(registry, k) = registry[Reg!First(S)].state
          /\ TextOf(registry', k) = registry'[Reg!First(T)].state
      BY DEF TextOf
    <3> HIDE DEF S, T
    <3>3. PICK x \in S : \A y \in S : x <= y
      BY <3>1, Least
    <3>4. x \in T /\ \A y \in T : x <= y
      BY <1>1, <3>1, <3>3
    <3>5. Reg!First(S) = x /\ Reg!First(T) = x
      BY <3>1, <3>3, <3>4, FirstIsLeast
    <3> QED
      BY <2>1, <3>1, <3>2, <3>5
  <2> QED
    BY <2>2, <2>3
<1> QED
  BY <1>2, <1>3, <1>4

\* A state is stored for its key and for no other.
LEMMA UpdatedText ==
  ASSUME RegistryTyped, NEW key, NEW kind \in ClientKinds, NEW v,
         registry' = Reg!esph_registry_update_state(registry, key, Show(kind, v))
  PROVE  /\ Keys' = Keys
         /\ key \in Keys => TextOf(registry', key) = Show(kind, v)
         /\ \A k \in Keys \ {key} : TextOf(registry', k) = TextOf(registry, k)
<1>1. Len(registry) \in Nat /\ registry \in Seq(Slots)
  BY LenProperties DEF RegistryTyped
<1>2. ASSUME NEW k \in Keys
      PROVE  /\ Reg!WithKey(registry, k) # {}
             /\ Reg!First(Reg!WithKey(registry, k)) \in 1 .. Len(registry)
             /\ registry[Reg!First(Reg!WithKey(registry, k))].key = k
  <2> DEFINE S == Reg!WithKey(registry, k)
  <2>1. /\ S \in SUBSET Nat /\ S # {}
        /\ \A x \in S : x \in 1 .. Len(registry) /\ registry[x].key = k
    BY <1>1 DEF Keys, Reg!WithKey
  <2> HIDE DEF S
  <2>2. Reg!First(S) \in S
    BY <2>1, FirstIsMember
  <2> QED
    BY <2>1, <2>2 DEF S
<1>3. CASE key \notin Keys
  <2>1. Reg!WithKey(registry, key) = {}
    BY <1>3 DEF Keys, Reg!WithKey
  <2>2. registry' = registry
    BY <2>1 DEF Reg!esph_registry_update_state
  <2> QED
    BY <1>3, <2>2 DEF Keys
<1>4. CASE key \in Keys
  <2> DEFINE f == Reg!First(Reg!WithKey(registry, key))
             e == [registry[f] EXCEPT !.state = Reg!Clip(Show(kind, v))]
  <2>1. Reg!WithKey(registry, key) # {} /\ f \in 1 .. Len(registry) /\ registry[f].key = key
    BY <1>2, <1>4
  <2>2. registry' = [registry EXCEPT ![f] = e]
    BY <2>1 DEF Reg!esph_registry_update_state
  <2>3. e.key = key /\ e.state = Show(kind, v)
    <3>1. registry[f] \in Slots
      BY <1>1, <2>1, ElementOfSeq
    <3> HIDE DEF f
    <3>2. e.key = registry[f].key /\ e.state = Reg!Clip(Show(kind, v))
      BY <3>1 DEF Slots
    <3> QED
      BY <2>1, <3>2, ShowFits
  <2> HIDE DEF e
  <2>4. /\ DOMAIN registry = 1 .. Len(registry) /\ Len(registry') = Len(registry)
        /\ \A j \in 1 .. Len(registry) : registry'[j] = IF j = f THEN e ELSE registry[j]
    <3> HIDE DEF f
    <3> QED
      BY <1>1, <2>1, <2>2
  <2>5. \A j \in 1 .. Len(registry) : registry'[j].key = registry[j].key
    <3> HIDE DEF f
    <3> QED
      BY <2>1, <2>3, <2>4
  <2>6. \A k : Reg!WithKey(registry', k) = Reg!WithKey(registry, k)
    BY <2>4, <2>5 DEF Reg!WithKey
  <2>7. Keys' = Keys
    BY <2>4, <2>5 DEF Keys
  <2>8. TextOf(registry', key) = Show(kind, v)
    BY <2>1, <2>3, <2>4, <2>6 DEF TextOf
  <2>9. ASSUME NEW k \in Keys \ {key} PROVE TextOf(registry', k) = TextOf(registry, k)
    <3> DEFINE g == Reg!First(Reg!WithKey(registry, k))
    <3>1. g \in 1 .. Len(registry) /\ registry[g].key = k
      BY <1>2
    <3>2. g # f
      BY <2>1, <3>1
    <3> QED
      BY <2>4, <2>6, <3>1, <3>2 DEF TextOf
  <2> QED
    BY <2>7, <2>8, <2>9
<1> QED
  BY <1>3, <1>4

\* The client takes a message: the text becomes u.
LEMMA WordTaken ==
  ASSUME NEW q \in Seq(FromDevice), q # <<>>, NEW b, NEW i, NEW t, NEW u, NEW v,
         Word(i, q, b, t, v),
         Head(q) = StateMsg(i, v) => u = Show(Entities[i].kind, v),
         Head(q) \notin StatesOf(i) => u = t
  PROVE  Word(i, Tail(q), b, u, v)
<1> DEFINE r == Tail(q)
<1>1. /\ Len(q) \in Nat \ {0} /\ Len(r) = Len(q) - 1 /\ Head(q) = q[1]
      /\ \A k \in 1 .. Len(r) : r[k] = q[k + 1]
  BY HeadTailProperties, LenProperties, EmptySeq
<1> HIDE DEF r
<1>2. CASE Holds(b, StateItem(i))
  BY <1>2 DEF Word
<1>3. ASSUME NEW p \in 0 .. Len(q),
             IF p = 0 THEN t = Show(Entities[i].kind, v) ELSE q[p] = StateMsg(i, v),
             \A k \in p + 1 .. Len(q) : q[k] \in StatesOf(i) => q[k] = StateMsg(i, v)
      PROVE  Word(i, r, b, u, v)
  <2>1. ASSUME NEW o \in 0 .. Len(r), p <= o + 1, NEW k \in o + 1 .. Len(r), r[k] \in StatesOf(i)
        PROVE  r[k] = StateMsg(i, v)
    <3>1. k + 1 \in p + 1 .. Len(q) /\ r[k] = q[k + 1]
      BY <1>1, <2>1
    <3> QED
      BY <1>3, <2>1, <3>1
  <2>2. CASE p \in {0, 1}
    <3>1. u = Show(Entities[i].kind, v)
      <4>1. CASE p = 0
        <5>1. 1 \in p + 1 .. Len(q)
          BY <1>1, <4>1
        <5>2. Head(q) \in StatesOf(i) => Head(q) = StateMsg(i, v)
          BY <1>1, <1>3, <5>1
        <5> QED
          BY <1>3, <4>1, <5>2
      <4>2. CASE p = 1
        BY <1>1, <1>3, <4>2
      <4> QED
        BY <2>2, <4>1, <4>2
    <3>2. 0 \in 0 .. Len(r) /\ p <= 0 + 1
      BY <1>1, <2>2
    <3> QED
      BY <2>1, <3>1, <3>2 DEF Word
  <2>3. CASE p \notin {0, 1}
    <3> DEFINE o == p - 1
    <3>1. o \in 0 .. Len(r) /\ o \in 1 .. Len(r) /\ o # 0 /\ o + 1 = p /\ p <= o + 1
      BY <1>1, <2>3
    <3> HIDE DEF o
    <3>2. r[o] = StateMsg(i, v)
      BY <1>1, <1>3, <2>3, <3>1
    <3> QED
      BY <2>1, <3>1, <3>2 DEF Word
  <2> QED
    BY <2>2, <2>3
<1> QED
  BY <1>2, <1>3 DEF Word, r

-----------------------------------------------------------------------------
(* The client's steps and the last words. *)

\* What a step of the client may do to them: the registry loses no entity, and
\* states are not asked for.
Hears ==
    /\ dev' = dev
    /\ Keys \subseteq Keys'
    /\ Holds(toDevice', StateRequest) => Holds(toDevice, StateRequest)
    /\ lost => lost'
    /\ ~ lost'
         => \A i \in Listed :
              Alone(i) /\ Entities[i].key \in Keys
                => LET t == TextOf(registry, Entities[i].key)
                   IN  Word(i, toClient, batch, t, value[i])
                         => Word(i, toClient, batch, t, value[i])'

LEMMA NothingHeard ==
  ASSUME UNCHANGED deviceVars, UNCHANGED <<dev, toClient, registry, lost>>,
         Holds(toDevice', StateRequest) => Holds(toDevice, StateRequest)
  PROVE  Hears
BY DEF Hears, Keys, deviceVars, connVars

LEMMA SendSays ==
  ASSUME toDevice \in Seq(FromClient), NEW m \in FromClient, NEW code, Send(m, code), NEW x,
         Holds(toDevice', x)
  PROVE  x = m \/ Holds(toDevice, x)
<1>1. toDevice' = toDevice \/ toDevice' = Append(toDevice, m)
  BY DEF Send
<1>2. CASE toDevice' = Append(toDevice, m)
  <2>1. /\ Len(toDevice) \in Nat /\ Len(toDevice') = Len(toDevice) + 1
        /\ \A k \in 1 .. Len(toDevice) : toDevice'[k] = toDevice[k]
        /\ toDevice'[Len(toDevice) + 1] = m
    BY <1>2, AppendProperties, LenProperties
  <2> QED
    BY <2>1 DEF Holds
<1> QED
  BY <1>1, <1>2

LEMMA HandleFrameHears ==
  ASSUME DeviceTyped, SessionTyped, UNCHANGED deviceVars, NEW code, HandleFrame(code)
  PROVE  Hears
<1> DEFINE m == Head(toClient)
<1>1. /\ toClient # <<>> /\ toClient' = Tail(toClient) /\ dev' = dev /\ lost' = lost
      /\ toDevice \in Seq(FromClient) /\ toClient \in Seq(FromDevice) /\ RegistryTyped
  BY DEF HandleFrame, DeviceTyped, SessionTyped, RegistryTyped
<1>2. m \in FromDevice /\ batch' = batch /\ value' = value
  BY TakenShape, <1>1 DEF deviceVars, connVars
<1> HIDE DEF m
<1>3. ASSUME Keys \subseteq Keys',
             Holds(toDevice', StateRequest) => Holds(toDevice, StateRequest),
             \A i \in Listed : Alone(i) /\ Entities[i].key \in Keys
               => /\ m = StateMsg(i, value[i])
                       => TextOf(registry', Entities[i].key) = Show(Entities[i].kind, value[i])
                  /\ m \notin StatesOf(i)
                       => TextOf(registry', Entities[i].key) = TextOf(registry, Entities[i].key)
      PROVE  Hears
  <2>1. ASSUME NEW i \in Listed, Alone(i), Entities[i].key \in Keys,
               Word(i, toClient, batch, TextOf(registry, Entities[i].key), value[i])
        PROVE  Word(i, toClient', batch', TextOf(registry', Entities[i].key), value'[i])
    <3>1. Word(i, Tail(toClient), batch, TextOf(registry', Entities[i].key), value[i])
      BY <1>1, <1>3, <2>1, WordTaken DEF m
    <3> QED
      BY <1>1, <1>2, <3>1
  <2> QED
    BY <1>1, <1>3, <2>1 DEF Hears
<1>4. ASSUME UNCHANGED registry, m.type # "state",
             Holds(toDevice', StateRequest) => Holds(toDevice, StateRequest)
      PROVE  Hears
  <2>1. \A i : \A v : m # StateMsg(i, v)
    BY <1>4 DEF StateMsg
  <2> QED
    BY <1>3, <1>4, <2>1 DEF Keys
<1>5. CASE m.type = "ping_request" /\ Send(Msg("ping_response"), code) /\ UNCHANGED registry
  <2>1. Msg("ping_response") \in FromClient /\ Msg("ping_response") # StateRequest
    BY DEF FromClient, Msg, StateRequest
  <2>2. Holds(toDevice', StateRequest) => Holds(toDevice, StateRequest)
    BY <1>1, <1>5, <2>1, SendSays
  <2> QED
    BY <1>4, <1>5, <2>2
<1>6. CASE m.type # "state" /\ UNCHANGED <<toDevice, registry>>
  BY <1>4, <1>6
<1>7. CASE m.type = "list" /\ OnList(Entities[m.ent]) /\ UNCHANGED toDevice
  <2>1. /\ Keys \subseteq Keys'
        /\ \A k \in Keys : TextOf(registry', k) = TextOf(registry, k)
    <3>1. CASE registry' = registry
      BY <3>1 DEF Keys
    <3>2. CASE registry' # registry
      BY <1>1, <1>7, <3>2, AddedText DEF OnList
    <3> QED
      BY <3>1, <3>2
  <2>2. \A i : \A v : m # StateMsg(i, v)
    BY <1>7 DEF StateMsg
  <2> QED
    BY <1>3, <1>7, <2>1, <2>2
<1>8. CASE m.type = "state" /\ OnState(Entities[m.ent], m.val) /\ UNCHANGED toDevice
  <2>1. PICK j \in Ents : \E w \in Values : m = StateMsg(j, w) /\ m.ent = j /\ m.val = w
    BY <1>2, <1>8, MessageForms
  <2>2. PICK w \in Values : m = StateMsg(j, w) /\ m.ent = j /\ m.val = w
    BY <2>1
  <2>3. m \in StatesOf(j)
    BY <2>2, StatesDiffer
  <2>4. CASE Entities[j].kind \in ClientKinds
    <3>1. registry' = Reg!esph_registry_update_state(registry, Entities[j].key,
                                                     Show(Entities[j].kind, w))
      BY <1>8, <2>2, <2>4 DEF OnState
    <3>2. /\ Keys' = Keys
          /\ Entities[j].key \in Keys
               => TextOf(registry', Entities[j].key) = Show(Entities[j].kind, w)
          /\ \A k \in Keys \ {Entities[j].key} : TextOf(registry', k) = TextOf(registry, k)
      BY <1>1, <2>4, <3>1, UpdatedText
    <3>3. ASSUME NEW i \in Listed, Alone(i), Entities[i].key \in Keys
          PROVE  /\ m = StateMsg(i, value[i])
                      => TextOf(registry', Entities[i].key) = Show(Entities[i].kind, value[i])
                 /\ m \notin StatesOf(i)
                      => TextOf(registry', Entities[i].key) = TextOf(registry, Entities[i].key)
      <4>1. m = StateMsg(i, value[i]) => i = j /\ w = value[i]
        BY <2>2 DEF StateMsg
      <4>2. i # j => Entities[i].key # Entities[j].key
        BY <2>4, <3>3 DEF Alone, Listed
      <4> QED
        BY <2>3, <3>2, <3>3, <4>1, <4>2
    <3> QED
      BY <1>3, <1>8, <3>2, <3>3
  <2>5. CASE Entities[j].kind \notin ClientKinds
    <3>1. registry' = registry
      BY <1>8, <2>2, <2>5 DEF OnState
    <3>2. \A i \in Listed : \A v : m # StateMsg(i, v)
      BY <2>2, <2>5 DEF StateMsg, Listed
    <3> QED
      BY <1>3, <1>8, <3>1, <3>2 DEF Keys
  <2> QED
    BY <2>4, <2>5
<1> QED
  BY <1>5, <1>6, <1>7, <1>8 DEF HandleFrame, m

LEMMA RecvFailsHears ==
  ASSUME UNCHANGED deviceVars, RecvFails, UNCHANGED <<dev, toDevice, registry>>
  PROVE  Hears
<1>1. CASE UNCHANGED <<toClient, lost>>
  BY <1>1, NothingHeard
<1>2. CASE lost' = TRUE
  BY <1>2 DEF Hears, Keys
<1> QED
  BY <1>1, <1>2 DEF RecvFails

LEMMA RunStepHears ==
  ASSUME DeviceTyped, SessionTyped, UNCHANGED deviceVars, NEW t, NEW code, RunStep(t, code)
  PROVE  Hears
<1>1. CASE UNCHANGED <<linkVars, tx, done, registry, lost, fresh>>
  BY <1>1, NothingHeard DEF linkVars
<1>2. CASE RecvFails /\ UNCHANGED <<dev, toDevice, tx, done, registry, fresh>>
  BY <1>2, RecvFailsHears
<1>3. CASE HandleFrame(code)
  BY <1>3, HandleFrameHears
<1> QED
  BY <1>1, <1>2, <1>3 DEF RunStep

LEMMA HeardStep ==
  ASSUME CacheInv, pc # "none", UNCHANGED deviceVars, Hears, UNCHANGED registered,
         calls'["subscribe"] = 0 => calls["subscribe"] = 0
  PROVE  CacheInv'
<1>1. UNCHANGED <<iter, at, subscribed, dev>>
  BY DEF deviceVars, connVars, Hears
<1>2. registered' \subseteq Keys'
  BY DEF CacheInv, Hears
<1>3. ASSUME Listens', ~ lost', NEW i \in Followed'
      PROVE  Current(i, TextOf(registry, Entities[i].key))'
  <2>1. i \in Listed /\ Alone(i) /\ i \in Followed /\ Entities[i].key \in Keys
    BY <1>3 DEF Followed, CacheInv
  <2>2. Listens /\ ~ lost
    BY <1>1, <1>3 DEF Listens, Hears
  <2>3. Current(i, TextOf(registry, Entities[i].key))
    BY <2>1, <2>2 DEF CacheInv
  <2> QED
    BY <1>1, <1>3, <2>1, <2>3 DEF Current, Hears
<1>4. iter' = "state" => subscribed'
  BY <1>1 DEF CacheInv
<1>5. calls'["subscribe"] = 0 => ~ subscribed' /\ ~ Holds(toDevice', StateRequest)
  BY <1>1 DEF CacheInv, Hears
<1> QED
  BY <1>2, <1>3, <1>4, <1>5 DEF CacheInv

\* A call that sends a message other than the request for states, or none.
LEMMA CallHears ==
  ASSUME CacheInv, SessionTyped, UNCHANGED deviceVars, NEW op \in Ops \ {"subscribe"}, Call(op),
         UNCHANGED <<dev, toClient, registry, lost, registered>>,
         Holds(toDevice', StateRequest) => Holds(toDevice, StateRequest)
  PROVE  CacheInv'
<1>1. pc # "none" /\ calls'["subscribe"] = calls["subscribe"]
  BY DEF Call, SessionTyped, Ops
<1>2. Hears
  BY NothingHeard
<1> QED
  BY <1>1, <1>2, HeardStep

LEMMA SubscribeCacheStep ==
  ASSUME IInv, CacheInv, UNCHANGED deviceVars, SubscribeStates
  PROVE  CacheInv'
<1>1. /\ Call("subscribe") /\ pc # "none" /\ pc' = pc
      /\ UNCHANGED <<dev, toClient, registry, lost>>
      /\ registered' = IF calls["subscribe"] = 0 THEN Keys ELSE registered
  BY DEF SubscribeStates, Call
<1>2. UNCHANGED <<iter, at, subscribed, batch, value>>
  BY DEF deviceVars, connVars
<1>3. calls'["subscribe"] # 0
  BY <1>1 DEF Call, IInv, SessionTyped, Ops
<1>4. Keys' = Keys
  BY <1>1 DEF Keys
<1>5. CASE calls["subscribe"] = 0
  <2>1. ~ Listens'
    BY <1>2, <1>5 DEF Listens, CacheInv
  <2> QED
    BY <1>1, <1>2, <1>3, <1>4, <1>5, <2>1 DEF CacheInv
<1>6. CASE calls["subscribe"] # 0
  <2>1. registered' = registered /\ Followed' = Followed /\ Listens' = Listens
    BY <1>1, <1>2, <1>6 DEF Followed, Listens
  <2>2. ASSUME Listens', ~ lost', NEW i \in Followed'
        PROVE  Current(i, TextOf(registry, Entities[i].key))'
    <3>1. Current(i, TextOf(registry, Entities[i].key))
      BY <1>1, <2>1, <2>2 DEF CacheInv
    <3> QED
      BY <1>1, <1>2, <3>1 DEF Current
  <2> QED
    BY <1>1, <1>2, <1>3, <1>4, <2>1, <2>2 DEF CacheInv
<1> QED
  BY <1>5, <1>6

LEMMA ClientCacheStep ==
  ASSUME IInv, CacheInv, Client
  PROVE  CacheInv'
<1>0. /\ DeviceTyped /\ SessionTyped /\ UNCHANGED deviceVars /\ toDevice \in Seq(FromClient)
      /\ toClient \in Seq(FromDevice)
  BY DEF IInv, Client, DeviceTyped
<1>a. /\ Msg("device_info_request") \in FromClient \ {StateRequest}
      /\ Msg("ping_request") \in FromClient \ {StateRequest}
      /\ Msg("list_entities_request") \in FromClient \ {StateRequest}
  BY DEF FromClient, Msg, StateRequest
<1>b. /\ "info" \in Ops \ {"subscribe"} /\ "list" \in Ops \ {"subscribe"}
      /\ "wait" \in Ops \ {"subscribe"} /\ "switch" \in Ops \ {"subscribe"}
      /\ "ping" \in Ops \ {"subscribe"}
  BY DEF Ops
<1>1. CASE CheckDeviceInfo
  <2>1. PICK code \in {0, -1} : Send(Msg("device_info_request"), code)
    BY <1>1 DEF CheckDeviceInfo
  <2>2. Call("info") /\ UNCHANGED <<dev, toClient, registry, lost, registered>>
    BY <1>1 DEF CheckDeviceInfo
  <2>3. Holds(toDevice', StateRequest) => Holds(toDevice, StateRequest)
    BY <1>0, <1>a, <2>1, SendSays
  <2> QED
    BY <1>0, <1>b, <2>2, <2>3, CallHears
<1>2. CASE DeviceInfoArrives
  <2> DEFINE m == Head(toClient)
  <2>1. /\ pc # "none" /\ toClient # <<>> /\ toClient' = Tail(toClient)
        /\ UNCHANGED <<dev, toDevice, registry, calls, registered>>
        /\ lost' = (lost \/ m.type # "device_info_response")
    BY <1>2 DEF DeviceInfoArrives
  <2>2. UNCHANGED <<batch, value>>
    BY <1>0 DEF deviceVars, connVars
  <2> HIDE DEF m
  <2>3. ASSUME ~ lost', NEW i \in Listed, NEW t, Word(i, toClient, batch, t, value[i])
        PROVE  Word(i, toClient', batch, t, value[i])
    <3>0. m.type = "device_info_response"
      BY <2>1, <2>3
    <3>1. \A v : m # StateMsg(i, v)
      BY <3>0 DEF StateMsg
    <3> QED
      BY <1>0, <2>1, <2>3, <3>1, WordTaken DEF m
  <2>4. Hears
    BY <2>1, <2>2, <2>3 DEF Hears, Keys
  <2> QED
    BY <1>0, <2>1, <2>4, HeardStep
<1>3. CASE DeviceInfoFails
  <2>1. pc # "none" /\ RecvFails /\ UNCHANGED <<dev, toDevice, registry, calls, registered>>
    BY <1>3 DEF DeviceInfoFails
  <2> QED
    BY <1>0, <2>1, RecvFailsHears, HeardStep
<1>4. CASE ListEntities
  <2>1. PICK code \in {0, -1} : Send(Msg("list_entities_request"), code)
    BY <1>4 DEF ListEntities
  <2>2. Call("list") /\ UNCHANGED <<dev, toClient, registry, lost, registered>>
    BY <1>4 DEF ListEntities
  <2>3. Holds(toDevice', StateRequest) => Holds(toDevice, StateRequest)
    BY <1>0, <1>a, <2>1, SendSays
  <2> QED
    BY <1>0, <1>b, <2>2, <2>3, CallHears
<1>5. CASE WaitListEntitiesDone
  <2>1. Call("wait") /\ UNCHANGED <<dev, toClient, toDevice, registry, lost, registered>>
    BY <1>5 DEF WaitListEntitiesDone, linkVars
  <2> QED
    BY <1>0, <1>b, <2>1, CallHears
<1>6. CASE WaitStep
  <2>1. PICK code \in {0, -1} : RunStep(150, code)
    BY <1>6 DEF WaitStep
  <2>2. pc # "none" /\ UNCHANGED <<calls, registered>>
    BY <1>6 DEF WaitStep
  <2> QED
    BY <1>0, <2>1, <2>2, RunStepHears, HeardStep
<1>7. CASE WaitReturns
  <2>1. pc # "none" /\ UNCHANGED <<dev, toClient, toDevice, registry, calls, lost, registered>>
    BY <1>7 DEF WaitReturns, linkVars
  <2>2. Hears
    BY <1>0, <2>1, NothingHeard
  <2> QED
    BY <1>0, <2>1, <2>2, HeardStep
<1>8. CASE SubscribeStates
  BY <1>0, <1>8, SubscribeCacheStep
<1>9. CASE \E id \in Names, on \in {0, 1} : SetSwitch(id, on)
  <2>1. PICK id \in Names, on \in {0, 1} : SetSwitch(id, on)
    BY <1>9
  <2> DEFINE key == Reg!esph_registry_lookup_key(registry, id)
  <2>2. Call("switch") /\ UNCHANGED <<dev, toClient, registry, lost, registered>>
    BY <2>1 DEF SetSwitch
  <2>3. Holds(toDevice', StateRequest) => Holds(toDevice, StateRequest)
    <3>1. CASE key = 0
      BY <2>1, <3>1 DEF SetSwitch
    <3>2. CASE key # 0
      <4>1. PICK code \in {0, -1} : Send(SwitchMsg(key, on), code)
        BY <2>1, <3>2 DEF SetSwitch
      <4>2. key \in Nat
        BY <1>0, LookupTyped DEF SessionTyped, RegistryTyped
      <4> HIDE DEF key
      <4>3. SwitchMsg(key, on) \in FromClient /\ SwitchMsg(key, on) # StateRequest
        BY <2>1, <4>2 DEF FromClient, SwitchMsg, StateRequest, Msg
      <4> QED
        BY <1>0, <4>1, <4>3, SendSays
    <3> QED
      BY <3>1, <3>2
  <2> QED
    BY <1>0, <1>b, <2>2, <2>3, CallHears
<1>10. CASE SendPing
  <2>1. PICK code \in {0, -1} : Send(Msg("ping_request"), code)
    BY <1>10 DEF SendPing
  <2>2. Call("ping") /\ UNCHANGED <<dev, toClient, registry, lost, registered>>
    BY <1>10 DEF SendPing
  <2>3. Holds(toDevice', StateRequest) => Holds(toDevice, StateRequest)
    BY <1>0, <1>a, <2>1, SendSays
  <2> QED
    BY <1>0, <1>b, <2>2, <2>3, CallHears
<1>11. CASE \E t \in Timeouts : AppRunStep(t)
  <2>1. PICK t \in Timeouts : AppRunStep(t)
    BY <1>11
  <2>2. PICK code \in {0, -1} : RunStep(t, code)
    BY <2>1 DEF AppRunStep
  <2>3. pc # "none" /\ UNCHANGED <<calls, registered>>
    BY <2>1 DEF AppRunStep
  <2> QED
    BY <1>0, <2>2, <2>3, RunStepHears, HeardStep
<1>12. CASE Disconnect
  <2>1. pc' = "none" /\ UNCHANGED <<toDevice, calls>>
    BY <1>12 DEF Disconnect
  <2>2. UNCHANGED <<iter, subscribed>>
    BY <1>0 DEF deviceVars, connVars
  <2> QED
    BY <2>1, <2>2 DEF CacheInv
<1>13. CASE ClearRegistry
  <2>1. pc' = "none" /\ UNCHANGED <<toDevice, calls>>
    BY <1>13 DEF ClearRegistry, linkVars
  <2>2. UNCHANGED <<iter, subscribed>>
    BY <1>0 DEF deviceVars, connVars
  <2> QED
    BY <2>1, <2>2 DEF CacheInv
<1> QED
  BY <1>1, <1>2, <1>3, <1>4, <1>5, <1>6, <1>7, <1>8, <1>9, <1>10, <1>11, <1>12, <1>13 DEF Client

LEMMA InitCacheInv == Init => CacheInv
<1> SUFFICES ASSUME Init PROVE CacheInv
  OBVIOUS
<1>1. /\ toDevice = <<>> /\ iter = "none" /\ subscribed = FALSE /\ pc = "none"
  BY DEF Init, DeviceInit, SessionInit
<1> QED
  BY <1>1, EmptyTyped DEF CacheInv, Holds

LEMMA NextCacheInv == IInv /\ CacheInv /\ [Next]_vars => CacheInv'
<1> SUFFICES ASSUME IInv, CacheInv, [Next]_vars PROVE CacheInv'
  OBVIOUS
<1>1. CASE Connect
  <2>1. /\ iter' = "none" /\ subscribed' = FALSE /\ toDevice' = <<>> /\ registered' = {}
    BY <1>1 DEF Connect, ConnectReturns, Accept
  <2> QED
    BY <2>1, EmptyTyped DEF CacheInv, Holds, Listens
<1>2. CASE Client
  BY <1>2, ClientCacheStep
<1>3. CASE DeviceActs /\ UNCHANGED sessionVars
  BY <1>3, DeviceCacheStep
<1>4. CASE UNCHANGED vars
  <2>1. UNCHANGED sessionVars /\ UNCHANGED <<dev, toClient, toDevice, value, iter, at, batch, subscribed>>
    BY <1>4 DEF vars, linkVars, deviceVars, connVars
  <2>2. UNCHANGED <<pc, registry, calls, lost, registered>>
    BY <2>1 DEF sessionVars
  <2>3. Keys' = Keys /\ Followed' = Followed /\ Listens' = Listens
    BY <2>1, <2>2 DEF Keys, Followed, Listens
  <2>4. ASSUME NEW i \in Followed, Current(i, TextOf(registry, Entities[i].key))
        PROVE  Current(i, TextOf(registry, Entities[i].key))'
    BY <2>1, <2>2, <2>4 DEF Current
  <2> QED
    BY <2>1, <2>2, <2>3, <2>4 DEF CacheInv
<1> QED
  BY <1>1, <1>2, <1>3, <1>4 DEF Next, DeviceActs

-----------------------------------------------------------------------------
(* The theorems about the cache. *)

\* In every session the last word about each entity that is followed is true, and
\* no followed entity leaves the registry.
THEOREM CacheInvariant == Spec => []CacheInv
<1>1. Init => CacheInv
  BY InitCacheInv
<1>2. IInv /\ CacheInv /\ [Next]_vars => CacheInv'
  BY NextCacheInv
<1> QED
  BY <1>1, <1>2, Invariant, PTL DEF Spec

\* When nothing is on its way, the client shows the current reading of every
\* entity that was in the registry when the application asked for states: no
\* change is lost or overtaken by an older state, whatever the order in which
\* urgent messages, a full socket and the iterator let the batch go.
THEOREM CacheFollows == Spec => []CacheConverges
<1>1. IInv /\ CacheInv => CacheConverges
  <2> SUFFICES ASSUME IInv, CacheInv, Quiescent, subscribed, ~ lost,
                      NEW i \in Listed, Alone(i), Entities[i].key \in registered
               PROVE  Shown(i)
    BY DEF CacheConverges, Shows
  <2> DEFINE key == Entities[i].key
  <2>1. /\ pc # "none" /\ Listens /\ iter = "none"
        /\ toClient = <<>> /\ batch = <<>>
    BY DEF Quiescent, Listens
  <2>2. key \in Keys /\ Current(i, TextOf(registry, key))
    BY <2>1 DEF CacheInv, Followed
  <2>3. TextOf(registry, key) = Show(Entities[i].kind, value[i])
    <3>1. Word(i, <<>>, <<>>, TextOf(registry, key), value[i])
      BY <2>1, <2>2 DEF Current
    <3> QED
      BY <3>1, EmptyTyped DEF Word, Holds
  <2> QED
    BY <2>2, <2>3 DEF Shown
<1> QED
  BY <1>1, Invariant, CacheInvariant, PTL

\* The first request for states of a session, when the list is done and whole.
AsksAfterTheList ==
    /\ calls["subscribe"] = 0 /\ calls'["subscribe"] = 1
    /\ done /\ ~ lost /\ ~ jumped /\ Len(registry) < MAX_ENTITIES

\* An application that asks for states when the list is done follows every entity
\* that the device listed.
THEOREM AskedAfterTheList ==
  Spec => [][AsksAfterTheList => \A i \in Listed : Entities[i].key \in registered']_vars
<1>1. ASSUME IInv, [Next]_vars, AsksAfterTheList, NEW i \in Listed
      PROVE  Entities[i].key \in registered'
  <2>0. /\ calls["subscribe"] = 0 /\ calls'["subscribe"] = 1
        /\ done /\ ~ lost /\ ~ jumped /\ Len(registry) < MAX_ENTITIES
    BY <1>1 DEF AsksAfterTheList
  <2>1. calls' # calls
    BY <2>0
  <2>2. ~ UNCHANGED vars /\ ~ UNCHANGED sessionVars /\ ~ Connect
    <3>1. ~ Connect
      BY <2>0 DEF Connect, ConnectReturns, NoCalls, Ops
    <3> QED
      BY <2>1, <3>1 DEF vars, sessionVars
  <2>3. Client
    BY <1>1, <2>2 DEF Next
  <2>4. ASSUME NEW op \in Ops, Call(op) PROVE op = "subscribe" /\ pc # "none"
    BY <1>1, <2>0, <2>4 DEF Call, IInv, SessionTyped, Ops
  <2>5. SubscribeStates
    <3>1. /\ "info" \in Ops /\ "list" \in Ops /\ "wait" \in Ops /\ "switch" \in Ops
          /\ "ping" \in Ops
      BY DEF Ops
    <3>2. /\ ~ CheckDeviceInfo /\ ~ ListEntities /\ ~ WaitListEntitiesDone /\ ~ SendPing
          /\ ~ \E id \in Names, on \in {0, 1} : SetSwitch(id, on)
      BY <2>4, <3>1
         DEF CheckDeviceInfo, ListEntities, WaitListEntitiesDone, SendPing, SetSwitch
    <3> QED
      BY <2>1, <2>3, <3>2
         DEF Client, DeviceInfoArrives, DeviceInfoFails, WaitStep, WaitReturns, AppRunStep,
             Disconnect, ClearRegistry
  <2>6. registered' = Keys /\ pc # "none"
    BY <2>0, <2>4, <2>5 DEF SubscribeStates, Call
  <2>7. InRegistry(i)
    BY <1>1, <2>0, <2>6 DEF IInv, WholeList, Known
  <2> QED
    BY <2>6, <2>7 DEF InRegistry, Keys
<1>2. IInv /\ [Next]_vars
        => [AsksAfterTheList => \A i \in Listed : Entities[i].key \in registered']_vars
  BY <1>1
<1> QED
  BY <1>2, Invariant, PTL DEF Spec

-----------------------------------------------------------------------------
(* The client's cache mirrors the device: what the device sends is true, and *)
(* only what the client takes changes the texts it shows.  f stands for the  *)
(* readings of the moment.                                                   *)

Truthful(m, f) == m.type = "state" => m.val = f[m.ent]

\* The queue becomes r, and says nothing new that is false.
Extends(q, r, f) ==
    /\ Len(q) <= Len(r)
    /\ \A j \in 1 .. Len(r) : IF j <= Len(q) THEN r[j] = q[j] ELSE Truthful(r[j], f)

LEMMA ExtendsTrans ==
  ASSUME NEW q \in Seq(FromDevice), NEW r \in Seq(FromDevice), NEW s \in Seq(FromDevice), NEW f,
         Extends(q, r, f), Extends(r, s, f)
  PROVE  Extends(q, s, f)
<1>1. Len(q) \in Nat /\ Len(r) \in Nat /\ Len(s) \in Nat
  BY LenProperties
<1>2. Len(q) <= Len(s)
  BY <1>1 DEF Extends
<1>3. ASSUME NEW j \in 1 .. Len(s)
      PROVE  IF j <= Len(q) THEN s[j] = q[j] ELSE Truthful(s[j], f)
  <2>1. CASE j <= Len(r)
    <3>1. j \in 1 .. Len(r) /\ s[j] = r[j]
      BY <1>1, <2>1 DEF Extends
    <3> QED
      BY <3>1 DEF Extends
  <2>2. CASE ~ (j <= Len(r))
    <3>1. Truthful(s[j], f) /\ ~ (j <= Len(q))
      BY <1>1, <2>2 DEF Extends
    <3> QED
      BY <3>1
  <2> QED
    BY <2>1, <2>2
<1> QED
  BY <1>2, <1>3 DEF Extends

LEMMA SameExtends ==
  ASSUME NEW q \in Seq(FromDevice), NEW f
  PROVE  Extends(q, q, f)
<1>1. Len(q) \in Nat
  BY LenProperties
<1> QED
  BY <1>1 DEF Extends

LEMMA AppendExtends ==
  ASSUME NEW q \in Seq(FromDevice), NEW m \in FromDevice, NEW f, Truthful(m, f)
  PROVE  Append(q, m) \in Seq(FromDevice) /\ Extends(q, Append(q, m), f)
<1> DEFINE r == Append(q, m)
<1>1. /\ r \in Seq(FromDevice) /\ Len(q) \in Nat /\ Len(r) = Len(q) + 1
      /\ \A k \in 1 .. Len(q) : r[k] = q[k]
      /\ r[Len(q) + 1] = m
  BY AppendProperties, LenProperties
<1> HIDE DEF r
<1>2. \A j \in 1 .. Len(r) : IF j <= Len(q) THEN r[j] = q[j] ELSE r[j] = m
  BY <1>1
<1>3. Len(q) <= Len(r)
  BY <1>1
<1> QED
  BY <1>1, <1>2, <1>3 DEF Extends, r

\* No message but a state can be false.
LEMMA OthersTruthful ==
  /\ \A m \in ListEntry \cup {ListDone} \cup Urgent \cup Replies : \A f : Truthful(m, f)
  /\ \A i, v : \A f : f[i] = v => Truthful(StateMsg(i, v), f)
<1>1. \A m \in ListEntry \cup {ListDone} \cup Urgent \cup Replies : m.type # "state"
  BY DEF ListEntry, ListMsg, ListDone, Urgent, Replies, Msg
<1> QED
  BY <1>1 DEF Truthful, StateMsg

LEMMA FlushExtends ==
  ASSUME ValuesTyped, NEW q \in Seq(FromDevice), NEW b \in Seq(Items), Len(q) <= MaxQueue,
         ProcessBatch(q, b)
  PROVE  Extends(q, toClient', value)
<1> DEFINE n == FlushSize(q, b)
           s == [j \in 1 .. n |-> Encode(b[j])]
<1>1. n \in Nat /\ n <= Len(b) /\ Len(b) \in Nat /\ Len(q) \in Nat
  BY FlushSizeRange, LenProperties
<1>2. toClient' = q \o s
  BY DEF ProcessBatch
<1> HIDE DEF n
<1>3. \A j \in 1 .. n : b[j] \in Items
  BY <1>1, ElementOfSeq
<1>4. s \in Seq(FromDevice) /\ Len(s) = n
  <2>1. s \in [1 .. n -> FromDevice]
    BY <1>3, EncodeTyped
  <2> HIDE DEF s
  <2> QED
    BY <1>1, <2>1
<1>5. \A j \in 1 .. n : s[j] = Encode(b[j])
  OBVIOUS
<1> HIDE DEF s
<1>6. /\ Len(toClient') = Len(q) + n
      /\ \A k \in 1 .. Len(q) + n : toClient'[k] = IF k <= Len(q) THEN q[k] ELSE s[k - Len(q)]
  BY <1>1, <1>2, <1>4, ConcatProperties
<1>7. ASSUME NEW j \in 1 .. n
      PROVE  Truthful(s[j], value)
  <2>1. CASE b[j] \in ListEntry \cup {ListDone} \cup Urgent
    <3>1. b[j].type # "state"
      BY <2>1 DEF ListEntry, ListMsg, ListDone, Urgent, Msg
    <3>2. Encode(b[j]) = b[j]
      BY <3>1 DEF Encode
    <3> QED
      BY <1>5, <2>1, <3>2, OthersTruthful
  <2>2. CASE b[j] \in {StateItem(k) : k \in Ents}
    <3>1. PICK k \in Ents : b[j] = StateItem(k)
      BY <2>2
    <3>2. Encode(b[j]) = StateMsg(k, value[k])
      BY <3>1 DEF Encode, StateItem
    <3> QED
      BY <1>5, <3>2, OthersTruthful
  <2> QED
    BY <1>3, <2>1, <2>2 DEF Items
<1>8. ASSUME NEW k \in 1 .. Len(toClient')
      PROVE  IF k <= Len(q) THEN toClient'[k] = q[k] ELSE Truthful(toClient'[k], value)
  <2>1. CASE k <= Len(q)
    BY <1>1, <1>6, <2>1
  <2>2. CASE ~ (k <= Len(q))
    <3>1. k \in 1 .. Len(q) + n /\ k - Len(q) \in 1 .. n
      BY <1>1, <1>6, <2>2
    <3> QED
      BY <1>6, <1>7, <2>2, <3>1
  <2> QED
    BY <2>1, <2>2
<1>9. Len(q) <= Len(toClient')
  BY <1>1, <1>6
<1> QED
  BY <1>8, <1>9 DEF Extends

LEMMA FlushTyped ==
  ASSUME ValuesTyped, NEW q \in Seq(FromDevice), NEW b \in Seq(Items), Len(q) <= MaxQueue,
         ProcessBatch(q, b)
  PROVE  toClient' \in Seq(FromDevice)
<1>1. Sound(Listed, q, b)
  BY DEF Sound, Behind
<1> QED
  BY <1>1, ProcessKeeps DEF Sound

LEMMA SmartExtends ==
  ASSUME NEW x \in [q : Seq(FromDevice), b : Seq(Items)], NEW j \in Ents, NEW w \in Values,
         NEW f, f[j] = w
  PROVE  LET y == SendSmart(x, StateItem(j), StateMsg(j, w))
         IN  y \in [q : Seq(FromDevice), b : Seq(Items)] /\ Extends(x.q, y.q, f)
<1> DEFINE y == SendSmart(x, StateItem(j), StateMsg(j, w))
<1>1. /\ StateMsg(j, w) \in FromDevice /\ StateItem(j) \in Items
      /\ Truthful(StateMsg(j, w), f)
      /\ x.q \in Seq(FromDevice) /\ x.b \in Seq(Items)
  BY StatesDiffer, OthersTruthful DEF FromDevice
<1>2. CASE Immediate /\ Room(x.q, 1)
  <2>1. y = [q |-> Append(x.q, StateMsg(j, w)), b |-> x.b]
    BY <1>2 DEF SendSmart
  <2>2. /\ Append(x.q, StateMsg(j, w)) \in Seq(FromDevice)
        /\ Extends(x.q, Append(x.q, StateMsg(j, w)), f)
    BY <1>1, AppendExtends
  <2> QED
    BY <1>1, <2>1, <2>2
<1>3. CASE ~ (Immediate /\ Room(x.q, 1))
  <2>1. y = [q |-> x.q, b |-> AddItem(x.b, StateItem(j))]
    BY <1>3 DEF SendSmart
  <2>2. AddItem(x.b, StateItem(j)) \in Seq(Items)
    BY <1>1, AddHolds
  <2>3. Extends(x.q, x.q, f)
    BY <1>1, SameExtends
  <2> QED
    BY <1>1, <2>1, <2>2, <2>3
<1> QED
  BY <1>2, <1>3

LEMMA VisitExtends ==
  ASSUME ValuesTyped, NEW x \in [q : Seq(FromDevice), b : Seq(Items)],
         NEW p \in 1 .. Completed - 1
  PROVE  /\ Visit(x, p) \in [q : Seq(FromDevice), b : Seq(Items)]
         /\ Extends(x.q, Visit(x, p).q, value)
<1>0. x.q \in Seq(FromDevice) /\ x.b \in Seq(Items)
  OBVIOUS
<1>1. CASE iter = "list"
  <2> DEFINE m == IF p \in Ents THEN ListMsg(p) ELSE Msg("list_done")
  <2>1. m \in Items
    BY DEF Items, ListEntry, ListDone
  <2>2. Visit(x, p) = [q |-> x.q, b |-> AddItem(x.b, m)]
    BY <1>1 DEF Visit
  <2> HIDE DEF m
  <2>3. AddItem(x.b, m) \in Seq(Items) /\ Extends(x.q, x.q, value)
    BY <1>0, <2>1, AddHolds, SameExtends
  <2> QED
    BY <1>0, <2>2, <2>3
<1>2. CASE iter # "list" /\ p \in Ents /\ Entities[p].kind # "button"
  <2>1. value[p] \in Values
    BY <1>2 DEF ValuesTyped
  <2>2. Visit(x, p) = SendSmart(x, StateItem(p), StateMsg(p, value[p]))
    <3>1. Encode(StateItem(p)) = StateMsg(p, value[p])
      BY DEF Encode, StateItem
    <3> QED
      BY <1>2, <3>1 DEF Visit
  <2> QED
    BY <1>2, <2>1, <2>2, SmartExtends
<1>3. CASE iter # "list" /\ ~ (p \in Ents /\ Entities[p].kind # "button")
  <2>1. Visit(x, p) = x
    BY <1>3 DEF Visit
  <2> QED
    BY <1>0, <2>1, SameExtends
<1> QED
  BY <1>1, <1>2, <1>3

LEMMA VisitedExtends ==
  ASSUME DeviceTyped, NEW p \in at .. Completed
  PROVE  /\ Visited[p] \in [q : Seq(FromDevice), b : Seq(Items)]
         /\ Extends(toClient, Visited[p].q, value)
<1> DEFINE Good(k) == /\ Visited[k] \in [q : Seq(FromDevice), b : Seq(Items)]
                      /\ Extends(toClient, Visited[k].q, value)
           T == {k \in at .. Completed : ~ Good(k)}
<1>0. ValuesTyped /\ at \in 1 .. Completed /\ toClient \in Seq(FromDevice)
  BY DEF DeviceTyped
<1>1. SUFFICES ASSUME T # {} PROVE FALSE
  OBVIOUS
<1>2. PICK k \in Nat : k \in T /\ \A l \in T : k <= l
  <2>1. T \in SUBSET Nat
    BY <1>0, EntitiesCounted
  <2> HIDE DEF T
  <2> QED
    BY <1>1, <2>1, Least
<1>3. k \in at .. Completed /\ ~ Good(k)
  BY <1>2
<1>4. Visited[k] = IF k = at THEN Buffers ELSE Visit(Visited[k - 1], k - 1)
  BY <1>0, <1>3, VisitedAlong DEF Along
<1>5. CASE k = at
  <2>1. Buffers \in [q : Seq(FromDevice), b : Seq(Items)] /\ Buffers.q = toClient
    BY DEF Buffers, DeviceTyped
  <2>2. Extends(toClient, toClient, value)
    BY <1>0, SameExtends
  <2> QED
    BY <1>3, <1>4, <1>5, <2>1, <2>2
<1>6. CASE k # at
  <2>1. k - 1 \in at .. Completed /\ k - 1 \in 1 .. Completed - 1 /\ ~ (k <= k - 1)
    BY <1>0, <1>3, <1>6, EntitiesCounted
  <2>2. Good(k - 1)
    BY <1>2, <2>1
  <2> DEFINE x == Visited[k - 1]
             y == Visit(x, k - 1)
  <2>3. x \in [q : Seq(FromDevice), b : Seq(Items)] /\ Extends(toClient, x.q, value)
    BY <2>2
  <2> HIDE DEF x, T
  <2>4. y \in [q : Seq(FromDevice), b : Seq(Items)] /\ Extends(x.q, y.q, value)
    BY <1>0, <2>1, <2>3, VisitExtends
  <2> HIDE DEF y
  <2>5. Extends(toClient, y.q, value)
    BY <1>0, <2>3, <2>4, ExtendsTrans
  <2> QED
    BY <1>3, <1>4, <1>6, <2>4, <2>5 DEF x, y
<1> QED
  BY <1>5, <1>6

LEMMA PublishExtends ==
  ASSUME DeviceTyped, NEW i \in Ents, NEW v \in ReadingsOf(Entities[i].kind), Publish(i, v)
  PROVE  Extends(toClient, toClient', value')
<1> DEFINE x == SendSmart(Buffers, StateItem(i), StateMsg(i, v))
<1>1. v \in Values
  BY ReadingsAreValues
<1>2. value'[i] = v
  BY DEF Publish, DeviceTyped, ValuesTyped
<1>3. /\ Buffers \in [q : Seq(FromDevice), b : Seq(Items)] /\ Buffers.q = toClient
      /\ toClient \in Seq(FromDevice)
  BY DEF Buffers, DeviceTyped
<1>4. toClient' = x.q \/ toClient' = toClient
  BY DEF Publish, Queue
<1> HIDE DEF x
<1>5. Extends(toClient, x.q, value') /\ Extends(toClient, toClient, value')
  BY <1>1, <1>2, <1>3, SmartExtends, SameExtends DEF x
<1> QED
  BY <1>4, <1>5

LEMMA DeviceExtends ==
  ASSUME DeviceTyped, DeviceActs
  PROVE  Extends(toClient, toClient', value')
<1>0. toClient \in Seq(FromDevice) /\ batch \in Seq(Items) /\ Len(toClient) <= MaxQueue
      /\ ValuesTyped /\ at \in 1 .. Completed
  BY DEF DeviceTyped
<1>a. ASSUME UNCHANGED toClient PROVE Extends(toClient, toClient', value')
  BY <1>0, <1>a, SameExtends
<1>b. ASSUME NEW m \in Urgent, SendUrgent(m) PROVE Extends(toClient, toClient', value')
  <2>1. m \in FromDevice /\ Truthful(m, value')
    BY OthersTruthful DEF FromDevice
  <2> QED
    BY <1>0, <1>a, <1>b, <2>1, AppendExtends DEF SendUrgent, Queue
<1>1. CASE EntityChanges
  <2>1. PICK i \in Ents : \E v \in ReadingsOf(Entities[i].kind) : Publish(i, v)
    BY <1>1 DEF EntityChanges
  <2> QED
    BY <2>1, PublishExtends
<1>2. CASE ReadMessage
  <2> DEFINE m == Head(toDevice)
  <2>1. m \in FromClient
    BY <1>2, RequestTaken DEF ReadMessage, DeviceTyped
  <2>2. ASSUME NEW a \in Replies, Answer(a) PROVE Extends(toClient, toClient', value')
    <3>1. a \in FromDevice /\ Truthful(a, value')
      BY OthersTruthful DEF FromDevice
    <3> QED
      BY <1>0, <2>2, <3>1, AppendExtends DEF Answer
  <2>3. CASE m.type = "switch_command" /\ OnSwitchCommand(m)
    <3>1. CASE SwitchesWithKey(m.key) # {} /\ value[Commanded(m.key)] # m.on
      <4>1. Publish(Commanded(m.key), m.on)
        BY <2>3, <3>1 DEF OnSwitchCommand
      <4>2. m.on \in {0, 1}
        BY <2>1, <2>3 DEF FromClient
      <4>3. /\ Commanded(m.key) \in Ents
            /\ m.on \in ReadingsOf(Entities[Commanded(m.key)].kind)
        BY <3>1, <4>2, CommandedIsSwitch, ListedSwitches
      <4> QED
        BY <4>1, <4>3, PublishExtends
    <3>2. CASE ~ (SwitchesWithKey(m.key) # {} /\ value[Commanded(m.key)] # m.on)
      BY <1>a, <2>3, <3>2 DEF OnSwitchCommand
    <3> QED
      BY <3>1, <3>2
  <2>4. CASE OnPingResponse \/ OnListEntities \/ OnSubscribeStates
    BY <1>a, <2>4 DEF OnPingResponse, OnListEntities, OnSubscribeStates
  <2> QED
    BY <1>2, <2>2, <2>3, <2>4 DEF ReadMessage, Replies
<1>3. CASE FlushBatch
  <2>1. ProcessBatch(toClient, batch) /\ value' = value
    BY <1>3 DEF FlushBatch
  <2> QED
    BY <1>0, <2>1, FlushExtends
<1>4. CASE PassEnds \/ Drop
  BY <1>a, <1>4 DEF PassEnds, Drop
<1>5. CASE IteratorAdvances
  <2> DEFINE p == NextPosition(Visited)
             x == Visited[p]
  <2>1. /\ value' = value
        /\ \/ ProcessBatch(x.q, x.b)
           \/ toClient' = x.q
    BY <1>5 DEF IteratorAdvances, Queue
  <2>2. p \in at .. Completed
    BY <1>0, NextPositionRange
  <2>3. /\ x \in [q : Seq(FromDevice), b : Seq(Items)]
        /\ Extends(toClient, x.q, value)
    BY <2>2, VisitedExtends
  <2>4. Len(x.q) <= MaxQueue
    <3>1. Sound(Listed, toClient, batch) /\ Told(Listed, toClient, batch, at)
      BY SoundBuffers
    <3>2. Passing(Listed, x, p)
      BY <1>0, <2>2, <3>1, VisitedPassing
    <3> QED
      BY <3>2 DEF Passing, Sound
  <2> HIDE DEF x, p
  <2>5. ASSUME ProcessBatch(x.q, x.b) PROVE Extends(toClient, toClient', value)
    <3>1. x.q \in Seq(FromDevice) /\ x.b \in Seq(Items)
      BY <2>3
    <3>2. Extends(x.q, toClient', value)
      BY <1>0, <2>4, <2>5, <3>1, FlushExtends
    <3>3. toClient' \in Seq(FromDevice)
      BY <1>0, <2>4, <2>5, <3>1, FlushTyped
    <3> QED
      BY <1>0, <2>3, <3>1, <3>2, <3>3, ExtendsTrans
  <2> QED
    BY <2>1, <2>3, <2>5
<1>6. CASE IteratorCompletes
  <2>1. value' = value /\ (ProcessBatch(toClient, batch) \/ UNCHANGED toClient)
    BY <1>6 DEF IteratorCompletes
  <2> QED
    BY <1>0, <1>a, <2>1, FlushExtends
<1>7. CASE KeepalivePing
  BY <1>b, <1>7 DEF KeepalivePing, Urgent
<1>8. CASE Shutdown
  BY <1>b, <1>8 DEF Shutdown, Urgent
<1> QED
  BY <1>1, <1>2, <1>3, <1>4, <1>5, <1>6, <1>7, <1>8 DEF DeviceActs, Serve


-----------------------------------------------------------------------------
(* The steps of the mirror. *)

\* What a queue reports.
LEMMA QueueReports ==
  ASSUME NEW q \in Seq(FromDevice)
  PROVE  /\ Len(Reports(q)) = Len(q)
         /\ \A j \in 1 .. Len(q) : Reports(q)[j] = Report(q[j])
         /\ q # <<>> => /\ Reports(q) # <<>>
                        /\ Head(Reports(q)) = Report(Head(q))
                        /\ Tail(Reports(q)) = Reports(Tail(q))
<1> DEFINE R == {Report(m) : m \in FromDevice}
           w == Reports(q)
<1>1. Len(q) \in Nat /\ \A j \in 1 .. Len(q) : q[j] \in FromDevice
  BY LenProperties, ElementOfSeq
<1>2. w \in [1 .. Len(q) -> R] /\ \A j \in 1 .. Len(q) : w[j] = Report(q[j])
  BY <1>1 DEF Reports
<1> HIDE DEF R, w
<1>3. w \in Seq(R) /\ Len(w) = Len(q)
  BY <1>1, <1>2
<1>4. ASSUME q # <<>>
      PROVE  w # <<>> /\ Head(w) = Report(Head(q)) /\ Tail(w) = Reports(Tail(q))
  <2> DEFINE t == Tail(q)
  <2>1. /\ Len(q) # 0 /\ w # <<>> /\ Head(q) = q[1] /\ Head(w) = w[1]
        /\ t \in Seq(FromDevice) /\ Len(t) = Len(q) - 1
        /\ \A j \in 1 .. Len(t) : t[j] = q[j + 1]
        /\ Tail(w) \in Seq(R) /\ Len(Tail(w)) = Len(q) - 1
        /\ \A j \in 1 .. Len(Tail(w)) : Tail(w)[j] = w[j + 1]
    BY <1>3, <1>4, HeadTailProperties, EmptySeq, LenProperties
  <2> HIDE DEF t
  <2>2. Head(w) = Report(Head(q))
    BY <1>1, <1>2, <2>1
  <2>3. \A j \in 1 .. Len(t) : Tail(w)[j] = Report(t[j])
    BY <1>1, <1>2, <2>1
  <2>4. Tail(w) = [j \in 1 .. Len(t) |-> Report(t[j])]
    <3>1. Tail(w) \in [1 .. Len(Tail(w)) -> R]
      BY <2>1, LenProperties
    <3> QED
      BY <2>1, <2>3, <3>1
  <2> QED
    BY <2>1, <2>2, <2>4 DEF Reports, t
<1> QED
  BY <1>2, <1>3, <1>4 DEF w

\* What the device sends is true.
LEMMA TruthIsTold ==
  ASSUME toClient \in Seq(FromDevice), toClient' \in Seq(FromDevice),
         Extends(toClient, toClient', value'), UNCHANGED registry
  PROVE  Mirrored!Tell
<1> DEFINE q == toClient
           r == toClient'
<1>0. /\ Len(q) \in Nat /\ Len(r) \in Nat
      /\ \A j \in 1 .. Len(r) : r[j] \in FromDevice
  BY LenProperties, ElementOfSeq
<1>1. /\ Len(q) <= Len(r)
      /\ \A j \in 1 .. Len(r) : IF j <= Len(q) THEN r[j] = q[j] ELSE Truthful(r[j], value')
  BY DEF Extends
<1>2. /\ Len(Reports(q)) = Len(q) /\ Len(Reports(r)) = Len(r)
      /\ \A j \in 1 .. Len(q) : Reports(q)[j] = Report(q[j])
      /\ \A j \in 1 .. Len(r) : Reports(r)[j] = Report(r[j])
  BY QueueReports
<1>3. ASSUME NEW m \in FromDevice, Truthful(m, value')
      PROVE  Report(m) \in Facts' \cup {Mirrored!Silent}
  <2>1. CASE m.type = "state" /\ m.ent \in Listed
    <3>1. Report(m) = Fact(m.ent, value'[m.ent])
      BY <1>3, <2>1 DEF Truthful, Report
    <3> QED
      BY <2>1, <3>1 DEF Facts
  <2>2. CASE ~ (m.type = "state" /\ m.ent \in Listed)
    BY <2>2 DEF Report, Mirrored!Silent, Mirrored!Fact
  <2> QED
    BY <2>1, <2>2
<1>4. ASSUME NEW j \in 1 .. Len(r)
      PROVE  IF j <= Len(q)
               THEN Reports(r)[j] = Reports(q)[j]
               ELSE Reports(r)[j] \in Facts' \cup {Mirrored!Silent}
  <2>1. CASE j <= Len(q)
    <3>1. j \in 1 .. Len(q)
      BY <1>0, <2>1
    <3> QED
      BY <1>1, <1>2, <2>1, <3>1
  <2>2. CASE ~ (j <= Len(q))
    BY <1>0, <1>1, <1>2, <1>3, <2>2
  <2> QED
    BY <2>1, <2>2
<1>5. Screen' = Screen
  BY DEF Screen, Keys
<1>6. Reports(r) = Reports(toClient)'
  BY DEF Reports
<1> QED
  BY <1>1, <1>2, <1>4, <1>5, <1>6 DEF Mirrored!Tell

\* Nothing changes that the mirror is about.
Idle == UNCHANGED <<value, toClient, registry>>

\* A step of the mirror, or none.
Mirrors == Mirrored!Next \/ UNCHANGED Mirrored!vars

LEMMA IdleMirrors ==
  ASSUME Idle
  PROVE  Mirrors
<1>1. value' = value /\ toClient' = toClient /\ registry' = registry
  BY DEF Idle
<1>2. Facts' = Facts /\ Screen' = Screen /\ Reports(toClient)' = Reports(toClient)
  BY <1>1 DEF Facts, Screen, Keys, Reports
<1> QED
  BY <1>2 DEF Mirrors, Mirrored!vars

LEMMA CloseMirrors ==
  ASSUME toClient' = <<>>, UNCHANGED <<value, registry>>
  PROVE  Mirrors
<1>1. Facts' = Facts /\ Screen' = Screen
  BY DEF Facts, Screen, Keys
<1>2. Reports(toClient)' = <<>>
  <2>1. Len(toClient') = 0
    BY EmptySeq
  <2>2. Reports(toClient)' = [j \in 1 .. 0 |-> Report(toClient'[j])]
    BY <2>1 DEF Reports
  <2> QED
    BY <2>2
<1> QED
  BY <1>1, <1>2 DEF Mirrors, Mirrored!Next, Mirrored!Close

LEMMA ForgetMirrors ==
  ASSUME registry' = <<>>, UNCHANGED <<value, toClient>>
  PROVE  Mirrors
<1>1. Facts' = Facts /\ Reports(toClient)' = Reports(toClient)
  BY DEF Facts, Reports
<1>2. DOMAIN Screen' = {}
  <2>1. Keys' = {}
    BY EmptySeq DEF Keys
  <2> QED
    BY <2>1 DEF Screen
<1> QED
  BY <1>1, <1>2 DEF Mirrors, Mirrored!Next, Mirrored!Forget

\* The client takes a message: what it shows for a key stays, or is what the message
\* reports; what it shows for a new key is blank.
LEMMA HearMirrors ==
  ASSUME toClient \in Seq(FromDevice), toClient # <<>>, toClient' = Tail(toClient),
         UNCHANGED value,
         Keys \subseteq Keys',
         \A k \in Keys :
           \/ TextOf(registry', k) = TextOf(registry, k)
           \/ Report(Head(toClient)) = [key |-> k, text |-> TextOf(registry', k)],
         \A k \in Keys' \ Keys :
           TextOf(registry', k) = <<>> /\ Head(toClient).type # "state"
  PROVE  Mirrors
<1>1. /\ Reports(toClient) # <<>>
      /\ Head(Reports(toClient)) = Report(Head(toClient))
      /\ Tail(Reports(toClient)) = Reports(Tail(toClient))
  BY QueueReports
<1>2. Reports(toClient)' = Tail(Reports(toClient))
  BY <1>1 DEF Reports
<1>3. Facts' = Facts
  BY DEF Facts
<1>4. /\ DOMAIN Screen = Keys /\ DOMAIN Screen' = Keys'
      /\ \A k \in Keys : Screen[k] = TextOf(registry, k)
      /\ \A k \in Keys' : Screen'[k] = TextOf(registry', k)
  BY DEF Screen
<1>5. ASSUME NEW k \in Keys
      PROVE  Screen'[k] = Screen[k] \/ Head(Reports(toClient)) = Mirrored!Fact(k, Screen'[k])
  BY <1>1, <1>4, <1>5 DEF Mirrored!Fact
<1>6. ASSUME NEW k \in Keys' \ Keys
      PROVE  Screen'[k] = Mirrored!Blank /\ Head(Reports(toClient)) = Mirrored!Silent
  BY <1>1, <1>4, <1>6 DEF Mirrored!Blank, Mirrored!Silent, Mirrored!Fact, Report
<1>7. Mirrored!Hear
  BY <1>1, <1>2, <1>3, <1>4, <1>5, <1>6 DEF Mirrored!Hear
<1> QED
  BY <1>7 DEF Mirrors, Mirrored!Next

\* A message that is taken and not stored.
LEMMA TakenMirrors ==
  ASSUME toClient \in Seq(FromDevice), toClient # <<>>, toClient' = Tail(toClient),
         UNCHANGED <<value, registry>>
  PROVE  Mirrors
<1>1. Keys' = Keys
  BY DEF Keys
<1> QED
  BY <1>1, HearMirrors

\* A new key has no text.
LEMMA AddedBlank ==
  ASSUME RegistryTyped, NEW name, NEW key, NEW kind,
         registry' = Reg!esph_registry_add(registry, name, key, kind),
         NEW k \in Keys' \ Keys
  PROVE  TextOf(registry', k) = <<>>
<1> DEFINE e == Reg!Entry(name, key, kind)
           n == Len(registry) + 1
           S == Reg!WithKey(registry', k)
<1>1. Len(registry) \in Nat /\ registry \in Seq(Slots)
  BY LenProperties DEF RegistryTyped
<1>2. registry' # registry
  BY DEF Keys
<1>3. registry' = Append(registry, e) /\ e.state = <<>>
  BY <1>2 DEF Reg!esph_registry_add, Reg!Entry, Reg!NoState
<1> HIDE DEF e
<1>4. /\ Len(registry') = n /\ registry'[n] = e
      /\ \A j \in 1 .. Len(registry) : registry'[j] = registry[j]
  BY <1>1, <1>3
<1>5. \A j \in 1 .. Len(registry) : registry'[j].key # k
  BY <1>4 DEF Keys
<1>6. S # {} /\ S \subseteq {n}
  <2>1. S = {j \in 1 .. Len(registry') : registry'[j].key = k}
    BY DEF Reg!WithKey
  <2>2. S # {}
    BY <2>1 DEF Keys
  <2>3. \A j \in 1 .. Len(registry') : j = n \/ j \in 1 .. Len(registry)
    BY <1>1, <1>4
  <2> QED
    BY <1>5, <2>1, <2>2, <2>3
<1>7. S = {n} /\ n \in Nat
  BY <1>1, <1>6
<1> HIDE DEF S, n
<1>8. Reg!First(S) = n
  BY <1>7, FirstIsLeast
<1> QED
  BY <1>3, <1>4, <1>8 DEF TextOf, S

LEMMA HandleFrameMirrors ==
  ASSUME DeviceTyped, SessionTyped, UNCHANGED value, NEW code, HandleFrame(code)
  PROVE  Mirrors
<1> DEFINE m == Head(toClient)
<1>1. /\ toClient # <<>> /\ toClient' = Tail(toClient)
      /\ toClient \in Seq(FromDevice) /\ RegistryTyped
  BY DEF HandleFrame, DeviceTyped, SessionTyped, RegistryTyped
<1>2. m \in FromDevice
  BY <1>1, HeadTailProperties
<1>3. CASE UNCHANGED registry
  BY <1>1, <1>3, TakenMirrors
<1>4. CASE registry' # registry /\ m.type = "list" /\ OnList(Entities[m.ent])
  <2> DEFINE e == Entities[m.ent]
  <2>1. registry' = Reg!esph_registry_add(registry, e.name, e.key, e.kind)
    BY <1>4 DEF OnList
  <2> HIDE DEF e
  <2>2. /\ Keys \subseteq Keys'
        /\ \A k \in Keys : TextOf(registry', k) = TextOf(registry, k)
    BY <1>1, <2>1, AddedText
  <2>3. \A k \in Keys' \ Keys : TextOf(registry', k) = <<>>
    BY <1>1, <2>1, AddedBlank
  <2>4. m.type # "state"
    BY <1>4
  <2> QED
    BY <1>1, <2>2, <2>3, <2>4, HearMirrors
<1>5. CASE registry' # registry /\ m.type = "state" /\ OnState(Entities[m.ent], m.val)
  <2> DEFINE e == Entities[m.ent]
  <2>1. /\ e.kind \in ClientKinds
        /\ registry' = Reg!esph_registry_update_state(registry, e.key, Show(e.kind, m.val))
    BY <1>5 DEF OnState
  <2>2. m.ent \in Listed
    <3>1. m.ent \in Ents
      BY <1>2, <1>5, MessageForms
    <3> QED
      BY <2>1, <3>1 DEF Listed
  <2>3. Report(m) = [key |-> e.key, text |-> Show(e.kind, m.val)]
    BY <1>5, <2>2 DEF Report, Fact
  <2> HIDE DEF e
  <2>4. /\ Keys' = Keys
        /\ e.key \in Keys => TextOf(registry', e.key) = Show(e.kind, m.val)
        /\ \A k \in Keys \ {e.key} : TextOf(registry', k) = TextOf(registry, k)
    BY <1>1, <2>1, UpdatedText
  <2>5. \A k \in Keys : \/ TextOf(registry', k) = TextOf(registry, k)
                        \/ Report(m) = [key |-> k, text |-> TextOf(registry', k)]
    BY <2>3, <2>4
  <2> QED
    BY <1>1, <2>4, <2>5, HearMirrors
<1> QED
  BY <1>3, <1>4, <1>5 DEF HandleFrame

LEMMA RecvFailsMirrors ==
  ASSUME DeviceTyped, UNCHANGED <<value, registry>>, RecvFails
  PROVE  Mirrors
<1>1. CASE UNCHANGED toClient
  BY <1>1, IdleMirrors DEF Idle
<1>2. CASE toClient # <<>> /\ toClient' = Tail(toClient)
  BY <1>2, TakenMirrors DEF DeviceTyped
<1> QED
  BY <1>1, <1>2 DEF RecvFails

LEMMA RunStepMirrors ==
  ASSUME DeviceTyped, SessionTyped, UNCHANGED value, NEW t, NEW code, RunStep(t, code)
  PROVE  Mirrors
<1>1. CASE UNCHANGED <<linkVars, registry>>
  BY <1>1, IdleMirrors DEF Idle, linkVars
<1>2. CASE RecvFails /\ UNCHANGED registry
  BY <1>2, RecvFailsMirrors
<1>3. CASE HandleFrame(code)
  BY <1>3, HandleFrameMirrors
<1> QED
  BY <1>1, <1>2, <1>3 DEF RunStep

LEMMA ClientMirrors ==
  ASSUME IInv, Client
  PROVE  Mirrors
<1>0. DeviceTyped /\ SessionTyped /\ UNCHANGED value /\ toClient \in Seq(FromDevice)
  BY DEF IInv, Client, DeviceTyped, deviceVars
<1>1. CASE \/ CheckDeviceInfo \/ ListEntities \/ WaitListEntitiesDone \/ WaitReturns
           \/ SubscribeStates \/ SendPing
           \/ \E id \in Names, on \in {0, 1} : SetSwitch(id, on)
  <2>1. Idle
    BY <1>0, <1>1
       DEF Idle, CheckDeviceInfo, ListEntities, WaitListEntitiesDone, WaitReturns,
           SubscribeStates, SendPing, SetSwitch, linkVars
  <2> QED
    BY <2>1, IdleMirrors
<1>2. CASE DeviceInfoArrives
  BY <1>0, <1>2, TakenMirrors DEF DeviceInfoArrives
<1>3. CASE DeviceInfoFails
  BY <1>0, <1>3, RecvFailsMirrors DEF DeviceInfoFails
<1>4. CASE WaitStep \/ \E t \in Timeouts : AppRunStep(t)
  <2>1. \E t : \E code \in {0, -1} : RunStep(t, code)
    BY <1>4 DEF WaitStep, AppRunStep
  <2> QED
    BY <1>0, <2>1, RunStepMirrors
<1>5. CASE Disconnect
  BY <1>0, <1>5, CloseMirrors DEF Disconnect
<1>6. CASE ClearRegistry
  BY <1>0, <1>6, ForgetMirrors DEF ClearRegistry, linkVars
<1> QED
  BY <1>1, <1>2, <1>3, <1>4, <1>5, <1>6 DEF Client

LEMMA NextMirrors == IInv /\ [Next]_vars => Mirrors
<1> SUFFICES ASSUME IInv, [Next]_vars PROVE Mirrors
  OBVIOUS
<1>1. CASE Connect
  BY <1>1, CloseMirrors DEF Connect, ConnectReturns, Accept
<1>2. CASE Client
  BY <1>2, ClientMirrors
<1>3. CASE DeviceActs /\ UNCHANGED sessionVars
  <2>1. DeviceTyped /\ DeviceTyped'
    BY <1>3, NextIInv DEF IInv
  <2>2. Extends(toClient, toClient', value')
    BY <1>3, <2>1, DeviceExtends
  <2>3. Mirrored!Tell
    BY <1>3, <2>1, <2>2, TruthIsTold DEF DeviceTyped, sessionVars
  <2> QED
    BY <2>3 DEF Mirrors, Mirrored!Next
<1>4. CASE UNCHANGED vars
  BY <1>4, IdleMirrors DEF Idle, vars, linkVars, sessionVars, deviceVars
<1> QED
  BY <1>1, <1>2, <1>3, <1>4 DEF Next, DeviceActs

\* Whatever is lost, dropped or connected again, the client's cache mirrors the
\* device: a text is shown for a key only after a message that was true when the
\* device sent it, messages are taken in the order in which they were sent, and
\* nothing else changes a text.
THEOREM SystemMirrors == Spec => ImplementsMirror
<1>1. Init => Mirrored!Init
  <2> SUFFICES ASSUME Init PROVE Mirrored!Init
    OBVIOUS
  <2>1. toClient = <<>> /\ registry = <<>>
    BY DEF Init, SessionInit
  <2>2. Reports(toClient) = <<>>
    <3>1. Reports(toClient) = [j \in 1 .. 0 |-> Report(toClient[j])]
      BY <2>1, EmptySeq DEF Reports
    <3> QED
      BY <3>1
  <2>3. DOMAIN Screen = {}
    <3>1. Keys = {}
      BY <2>1, EmptySeq DEF Keys
    <3> QED
      BY <3>1 DEF Screen
  <2> QED
    BY <2>2, <2>3 DEF Mirrored!Init
<1>2. IInv /\ [Next]_vars => [Mirrored!Next]_(Mirrored!vars)
  BY NextMirrors DEF Mirrors
<1> QED
  BY <1>1, <1>2, Invariant, PTL DEF Spec, ImplementsMirror, Mirrored!Spec
=============================================================================
