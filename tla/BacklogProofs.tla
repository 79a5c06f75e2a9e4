--------------------------- MODULE BacklogProofs ---------------------------
(***************************************************************************)
(* Proofs about how the device sends, for every size of the overflow       *)
(* buffer, of a frame and of a batch, and any number of items: whatever    *)
(* part of a write the socket takes, and whenever it fails.                *)
(***************************************************************************)
EXTENDS Backlog, SequenceTheorems, FiniteSetTheorems, WellFoundedInduction,
        TLAPS

-----------------------------------------------------------------------------
(* FlattenSeq.  It is defined by recursion along the sequence; what it does *)
(* to the empty sequence and to one more element follows by induction, in   *)
(* the form that a set of numbers that is not empty has a least one.        *)

LEMMA Least ==
  ASSUME NEW T \in SUBSET Nat, T # {}
  PROVE  \E x \in T : \A y \in T : x <= y
<1> DEFINE R == {ss \in Nat \X Nat : ss[1] < ss[2]}
<1>1. IsWellFoundedOn(R, Nat)
  BY NatLessThanWellFounded DEF OpToRel
<1>2. \A x, y \in Nat : <<x, y>> \in R <=> x < y
  OBVIOUS
<1> HIDE DEF R
<1>3. PICK x \in T : \A y \in T : ~ (<<y, x>> \in R)
  BY <1>1, WFMin
<1>4. ASSUME NEW y \in T PROVE x <= y
  <2>1. x \in Nat /\ y \in Nat
    OBVIOUS
  <2>2. ~ (y < x)
    BY <1>2, <1>3, <2>1
  <2> QED
    BY <2>1, <2>2
<1> QED
  BY <1>4

\* f holds the concatenations of the first elements of s, up to n of them.
Sums(f, s, n) == f = [i \in 1 .. n |-> IF i = 1 THEN s[i] ELSE f[i - 1] \o s[i]]

LEMMA SumsExist ==
  ASSUME NEW s, NEW n \in Nat \ {0}
  PROVE  \E f : Sums(f, s, n)
<1> DEFINE T == {m \in Nat \ {0} : ~ \E f : Sums(f, s, m)}
<1>1. SUFFICES T = {}
  OBVIOUS
<1>2. SUFFICES ASSUME T # {} PROVE FALSE
  OBVIOUS
<1>3. PICK m \in T : \A k \in T : m <= k
  <2>1. T \in SUBSET Nat
    OBVIOUS
  <2> HIDE DEF T
  <2> QED
    BY <1>2, <2>1, Least
<1>4. m \in Nat \ {0} /\ ~ \E f : Sums(f, s, m)
  OBVIOUS
<1>5. CASE m = 1
  <2>1. Sums([i \in 1 .. 1 |-> s[i]], s, 1)
    BY DEF Sums
  <2> QED
    BY <1>4, <1>5, <2>1
<1>6. CASE m # 1
  <2>1. m - 1 \in Nat \ {0} /\ m - 1 < m
    BY <1>4, <1>6
  <2>2. m - 1 \notin T
    BY <1>3, <1>4, <2>1
  <2>3. PICK f : Sums(f, s, m - 1)
    BY <2>1, <2>2
  <2> DEFINE g == [i \in 1 .. m |-> IF i = m THEN f[m - 1] \o s[m] ELSE f[i]]
  <2>4. ASSUME NEW i \in 1 .. m
        PROVE  g[i] = IF i = 1 THEN s[i] ELSE g[i - 1] \o s[i]
    <3> DEFINE Value(j) == IF j = m THEN f[m - 1] \o s[m] ELSE f[j]
    <3>0. \A j \in 1 .. m : g[j] = Value(j)
      OBVIOUS
    <3> HIDE DEF g
    <3>1. CASE i = m
      <4>1. m - 1 \in 1 .. m /\ m - 1 # m
        BY <2>1
      <4>2. g[m - 1] = f[m - 1] /\ g[m] = f[m - 1] \o s[m]
        BY <3>0, <3>1, <4>1
      <4> QED
        BY <1>6, <3>1, <4>2
    <3>2. CASE i # m
      <4>1. i \in 1 .. m - 1
        BY <1>4, <3>2
      <4>2. f[i] = IF i = 1 THEN s[i] ELSE f[i - 1] \o s[i]
        BY <2>3, <4>1 DEF Sums
      <4>3. i # 1 => i - 1 \in 1 .. m /\ i - 1 # m
        BY <1>4, <4>1
      <4> QED
        BY <3>0, <3>2, <4>2, <4>3
    <3> QED
      BY <3>1, <3>2
  <2>5. g = [i \in 1 .. m |-> IF i = 1 THEN s[i] ELSE g[i - 1] \o s[i]]
    <3>1. g = [i \in 1 .. m |-> g[i]]
      OBVIOUS
    <3> HIDE DEF g
    <3> QED
      BY <2>4, <3>1
  <2> HIDE DEF g
  <2> QED
    BY <1>4, <2>5 DEF Sums
<1> QED
  BY <1>5, <1>6

\* Whatever the elements from n + 1 on are, the first n sums are the same.
LEMMA SumsAgree ==
  ASSUME NEW s, NEW t, NEW f, NEW g, NEW n \in Nat, NEW m \in Nat,
         Sums(f, s, n), Sums(g, t, m), n <= m, \A i \in 1 .. n : s[i] = t[i]
  PROVE  \A i \in 1 .. n : f[i] = g[i]
<1> DEFINE T == {i \in 1 .. n : f[i] # g[i]}
<1>1. SUFFICES ASSUME T # {} PROVE FALSE
  OBVIOUS
<1>2. PICK i \in T : \A k \in T : i <= k
  <2>1. T \in SUBSET Nat
    OBVIOUS
  <2> HIDE DEF T
  <2> QED
    BY <1>1, <2>1, Least
<1>3. i \in 1 .. n /\ i \in 1 .. m /\ f[i] # g[i]
  OBVIOUS
<1>4. f[i] = IF i = 1 THEN s[i] ELSE f[i - 1] \o s[i]
  BY <1>3 DEF Sums
<1>5. g[i] = IF i = 1 THEN t[i] ELSE g[i - 1] \o t[i]
  BY <1>3 DEF Sums
<1>6. i # 1 => f[i - 1] = g[i - 1]
  <2>1. ASSUME i # 1 PROVE i - 1 \in 1 .. n /\ ~ (i <= i - 1)
    BY <1>3, <2>1
  <2> QED
    BY <1>2, <2>1
<1> QED
  BY <1>3, <1>4, <1>5, <1>6

LEMMA FlattenIsSum ==
  ASSUME NEW s, NEW f, Len(s) \in Nat \ {0}, Sums(f, s, Len(s))
  PROVE  FlattenSeq(s) = f[Len(s)]
<1> DEFINE g == CHOOSE h : Sums(h, s, Len(s))
<1>1. Sums(g, s, Len(s))
  OBVIOUS
<1>2. FlattenSeq(s) = g[Len(s)]
  BY DEF FlattenSeq, Sums
<1> HIDE DEF g
<1>3. \A i \in 1 .. Len(s) : f[i] = g[i]
  BY <1>1, SumsAgree
<1> QED
  BY <1>2, <1>3

LEMMA FlattenEmpty == FlattenSeq(<<>>) = <<>>
BY DEF FlattenSeq

LEMMA FlattenAppend ==
  ASSUME NEW S, NEW s \in Seq(Seq(S)), NEW x \in Seq(S)
  PROVE  FlattenSeq(Append(s, x)) = FlattenSeq(s) \o x
<1> DEFINE t == Append(s, x)
           n == Len(s)
<1>1. /\ n \in Nat /\ Len(t) = n + 1 /\ t[n + 1] = x
      /\ \A i \in 1 .. n : t[i] = s[i]
  BY AppendProperties, LenProperties
<1>2. PICK g : Sums(g, t, n + 1)
  <2>1. n + 1 \in Nat \ {0}
    BY <1>1
  <2> HIDE DEF t, n
  <2> QED
    BY <2>1, SumsExist
<1>3. FlattenSeq(t) = g[n + 1]
  <2> HIDE DEF t, n
  <2> QED
    BY <1>1, <1>2, FlattenIsSum
<1>4. g[n + 1] = IF n + 1 = 1 THEN x ELSE g[n] \o x
  <2> HIDE DEF t, n
  <2>1. n + 1 \in 1 .. n + 1 /\ n + 1 - 1 = n
    BY <1>1
  <2>2. \A i \in 1 .. n + 1 : g[i] = IF i = 1 THEN t[i] ELSE g[i - 1] \o t[i]
    BY <1>2 DEF Sums
  <2> QED
    BY <1>1, <2>1, <2>2
<1>5. CASE n = 0
  <2>1. s = <<>>
    BY <1>5, EmptySeq
  <2>2. FlattenSeq(s) \o x = x
    BY <2>1, FlattenEmpty, ConcatEmptySeq
  <2> QED
    BY <1>3, <1>4, <1>5, <2>2
<1>6. CASE n # 0
  <2>1. n \in Nat \ {0} /\ n + 1 # 1
    BY <1>1, <1>6
  <2>2. PICK f : Sums(f, s, n)
    BY <2>1, SumsExist
  <2>3. FlattenSeq(s) = f[n]
    BY <2>1, <2>2, FlattenIsSum
  <2>4. f[n] = g[n]
    <3> HIDE DEF t, n
    <3>1. n <= n + 1 /\ n + 1 \in Nat /\ n \in 1 .. n
      BY <2>1
    <3>2. \A i \in 1 .. n : s[i] = t[i]
      BY <1>1
    <3>3. \A i \in 1 .. n : f[i] = g[i]
      BY <1>1, <1>2, <2>2, <3>1, <3>2, SumsAgree
    <3> QED
      BY <3>1, <3>3
  <2> QED
    BY <1>3, <1>4, <2>1, <2>3, <2>4
<1> QED
  BY <1>5, <1>6

LEMMA FlattenTyped ==
  ASSUME NEW S, NEW s \in Seq(Seq(S))
  PROVE  FlattenSeq(s) \in Seq(S)
<1> DEFINE Bad(u) == FlattenSeq(u) \notin Seq(S)
           T == {n \in Nat : \E u \in Seq(Seq(S)) : Len(u) = n /\ Bad(u)}
<1>1. SUFFICES ASSUME Bad(s) PROVE FALSE
  OBVIOUS
<1>2. PICK n \in T : \A k \in T : n <= k
  <2>1. T \in SUBSET Nat /\ T # {}
    BY <1>1, LenProperties
  <2> HIDE DEF T
  <2> QED
    BY <2>1, Least
<1>3. PICK u \in Seq(Seq(S)) : Len(u) = n /\ Bad(u)
  OBVIOUS
<1>4. u # <<>>
  BY <1>3, FlattenEmpty, EmptySeq
<1>5. PICK v \in Seq(Seq(S)), x \in Seq(S) : u = Append(v, x)
  BY <1>4, SequenceEmptyOrAppend
<1>6. Len(v) \in Nat /\ n = Len(v) + 1 /\ ~ (n <= Len(v))
  BY <1>3, <1>5, AppendProperties, LenProperties
<1>7. ~ Bad(v)
  <2>1. Len(v) \notin T
    BY <1>2, <1>6
  <2> QED
    BY <1>6, <2>1
<1>8. FlattenSeq(u) \in Seq(S)
  BY <1>5, <1>7, FlattenAppend, ConcatProperties
<1> QED
  BY <1>3, <1>8

LEMMA FlattenConcat ==
  ASSUME NEW S, NEW s \in Seq(Seq(S)), NEW t \in Seq(Seq(S))
  PROVE  FlattenSeq(s \o t) = FlattenSeq(s) \o FlattenSeq(t)
<1> DEFINE Bad(u) == FlattenSeq(s \o u) # FlattenSeq(s) \o FlattenSeq(u)
           T == {n \in Nat : \E u \in Seq(Seq(S)) : Len(u) = n /\ Bad(u)}
<1>1. SUFFICES ASSUME Bad(t) PROVE FALSE
  OBVIOUS
<1>2. PICK n \in Nat : n \in T /\ \A k \in T : n <= k
  <2>1. T \in SUBSET Nat /\ T # {}
    BY <1>1, LenProperties
  <2> HIDE DEF T
  <2> QED
    BY <2>1, Least
<1>3. PICK u \in Seq(Seq(S)) : Len(u) = n /\ Bad(u)
  BY <1>2
<1>4. u # <<>>
  <2>1. s \o <<>> = s /\ FlattenSeq(s) \o <<>> = FlattenSeq(s)
    BY ConcatEmptySeq, FlattenTyped
  <2> QED
    BY <1>3, <2>1, FlattenEmpty
<1>5. PICK v \in Seq(Seq(S)), x \in Seq(S) : u = Append(v, x)
  BY <1>4, SequenceEmptyOrAppend
<1>6. Len(v) \in Nat /\ n = Len(v) + 1 /\ ~ (n <= Len(v))
  BY <1>3, <1>5, AppendProperties, LenProperties
<1>7. FlattenSeq(s \o v) = FlattenSeq(s) \o FlattenSeq(v)
  <2>1. Len(v) \notin T
    BY <1>2, <1>6
  <2> QED
    BY <1>6, <2>1
<1>8. s \o u = Append(s \o v, x) /\ s \o v \in Seq(Seq(S))
  <2>1. <<x>> \in Seq(Seq(S)) /\ s \o v \in Seq(Seq(S))
    BY ConcatProperties
  <2>2. u = v \o <<x>> /\ Append(s \o v, x) = (s \o v) \o <<x>>
    BY <1>5, <2>1, AppendIsConcat
  <2> QED
    BY <2>1, <2>2, ConcatAssociative
<1>9. FlattenSeq(s \o u) = (FlattenSeq(s) \o FlattenSeq(v)) \o x
  BY <1>7, <1>8, FlattenAppend
<1>10. FlattenSeq(u) = FlattenSeq(v) \o x
  BY <1>5, FlattenAppend
<1>11. ~ Bad(u)
  <2>1. /\ FlattenSeq(s) \in Seq(S) /\ FlattenSeq(v) \in Seq(S)
    BY FlattenTyped
  <2>2. (FlattenSeq(s) \o FlattenSeq(v)) \o x = FlattenSeq(s) \o (FlattenSeq(v) \o x)
    BY <2>1, ConcatAssociative
  <2> QED
    BY <1>9, <1>10, <2>2
<1> QED
  BY <1>3, <1>11

LEMMA FlattenOne ==
  ASSUME NEW S, NEW x \in Seq(S)
  PROVE  FlattenSeq(<<x>>) = x
<1>1. <<>> \in Seq(Seq(S)) /\ Append(<<>>, x) = <<x>>
  OBVIOUS
<1>2. FlattenSeq(<<x>>) = <<>> \o x
  BY <1>1, FlattenAppend, FlattenEmpty
<1> QED
  BY <1>2, ConcatEmptySeq

-----------------------------------------------------------------------------
(* The frames, and the outcomes of the helper's functions. *)

Byte == Nat \X Nat

\* The bytes of the first n frames.
Written(n) == FlattenSeq([k \in 1 .. n |-> Bytes(k)])

Outcome ==
    [wire : Seq(Byte), backlog : Seq(Seq(Byte) \ {<<>>}),
     err : {"OK", "WRITE_FAILED", "FULL"}]

\* What the client has got or will get, if nothing more is written.
Stream(o) == o.wire \o FlattenSeq(o.backlog)

\* s is the beginning of t.
Begins(s, t) == \E u \in Seq(Byte) : t = s \o u

LEMMA BytesTyped ==
  ASSUME NEW k \in Nat
  PROVE  Bytes(k) \in Seq(Byte) /\ Bytes(k) # <<>> /\ Len(Bytes(k)) = FrameSize
<1>1. FrameSize \in Nat \ {0}
  BY BacklogAssumption
<1>2. \A p \in 1 .. FrameSize : <<k, p>> \in Byte
  BY <1>1 DEF Byte
<1> QED
  BY <1>1, <1>2 DEF Bytes

\* The frames from the one after n on.
After(n, m) == FlattenSeq([i \in 1 .. m |-> Bytes(n + i)])

LEMMA AfterTyped ==
  ASSUME NEW n \in Nat, NEW m \in Nat
  PROVE  /\ [i \in 1 .. m |-> Bytes(n + i)] \in Seq(Seq(Byte))
         /\ After(n, m) \in Seq(Byte)
<1>1. \A i \in 1 .. m : Bytes(n + i) \in Seq(Byte)
  BY BytesTyped
<1>2. [i \in 1 .. m |-> Bytes(n + i)] \in Seq(Seq(Byte))
  BY <1>1
<1> QED
  BY <1>2, FlattenTyped DEF After

LEMMA AfterNotEmpty ==
  ASSUME NEW n \in Nat, NEW m \in Nat \ {0}
  PROVE  After(n, m) # <<>>
<1> DEFINE F(l) == [i \in 1 .. l |-> Bytes(n + i)]
<1>1. m - 1 \in Nat /\ m = (m - 1) + 1 /\ n + m \in Nat
  OBVIOUS
<1>2. F(m - 1) \in Seq(Seq(Byte)) /\ Bytes(n + m) \in Seq(Byte) /\ Bytes(n + m) # <<>>
  BY <1>1, AfterTyped, BytesTyped
<1>3. F(m) = Append(F(m - 1), Bytes(n + m))
  BY <1>1
<1>4. After(n, m) = FlattenSeq(F(m - 1)) \o Bytes(n + m)
  <2> HIDE DEF F
  <2>1. FlattenSeq(F(m)) = FlattenSeq(F(m - 1)) \o Bytes(n + m)
    BY <1>2, <1>3, FlattenAppend
  <2> QED
    BY <2>1 DEF After, F
<1> QED
  BY <1>2, <1>4, FlattenTyped, ConcatEqualIffEmpty

LEMMA WrittenMore ==
  ASSUME NEW n \in Nat, NEW m \in Nat
  PROVE  Written(n + m) = Written(n) \o After(n, m)
<1> DEFINE F == [k \in 1 .. n |-> Bytes(k)]
           G == [i \in 1 .. m |-> Bytes(n + i)]
<1>1. G \in Seq(Seq(Byte)) /\ Len(G) = m
  <2>1. G \in Seq(Seq(Byte))
    BY AfterTyped, Zenon
  <2>2. Len(G) = m
    OBVIOUS
  <2> QED
    BY <2>1, <2>2
<1>2. F \in Seq(Seq(Byte)) /\ Len(F) = n
  BY BytesTyped
<1>3. [k \in 1 .. n + m |-> Bytes(k)] = F \o G
  OBVIOUS
<1>4. FlattenSeq(F \o G) = FlattenSeq(F) \o FlattenSeq(G)
  <2> HIDE DEF F, G
  <2> QED
    BY <1>1, <1>2, FlattenConcat
<1> QED
  BY <1>3, <1>4 DEF Written, After

LEMMA WrittenTyped ==
  ASSUME NEW n \in Nat
  PROVE  Written(n) \in Seq(Byte)
<1>1. [k \in 1 .. n |-> Bytes(k)] \in Seq(Seq(Byte))
  BY BytesTyped
<1> QED
  BY <1>1, FlattenTyped DEF Written

LEMMA BeginsTransitive ==
  ASSUME NEW s \in Seq(Byte), NEW t \in Seq(Byte), NEW u,
         Begins(s, t), Begins(t, u)
  PROVE  Begins(s, u)
<1>1. PICK x \in Seq(Byte) : t = s \o x
  BY DEF Begins
<1>2. PICK y \in Seq(Byte) : u = t \o y
  BY DEF Begins
<1>3. u = s \o (x \o y) /\ x \o y \in Seq(Byte)
  BY <1>1, <1>2, ConcatAssociative, ConcatProperties
<1> QED
  BY <1>3 DEF Begins

LEMMA BeginsItself ==
  ASSUME NEW s \in Seq(Byte)
  PROVE  Begins(s, s)
<1>1. s = s \o <<>> /\ <<>> \in Seq(Byte)
  BY ConcatEmptySeq
<1> QED
  BY <1>1 DEF Begins

LEMMA BeginsIsPrefix ==
  ASSUME NEW s \in Seq(Byte), NEW t \in Seq(Byte), Begins(s, t)
  PROVE  IsPrefix(s, t)
<1>1. PICK u \in Seq(Byte) : t = s \o u
  BY DEF Begins
<1>2. /\ Len(s) \in Nat /\ Len(u) \in Nat /\ Len(t) = Len(s) + Len(u)
      /\ \A i \in 1 .. Len(s) : t[i] = s[i]
  BY <1>1, LenProperties, ConcatProperties
<1>3. SubSeq(s, 1, Len(s)) = SubSeq(t, 1, Len(s))
  BY <1>2
<1> QED
  BY <1>2, <1>3 DEF IsPrefix

LEMMA Split ==
  ASSUME NEW data \in Seq(Byte), NEW k \in 0 .. Len(data) - 1
  PROVE  /\ SubSeq(data, 1, k) \in Seq(Byte)
         /\ SubSeq(data, k + 1, Len(data)) \in Seq(Byte) \ {<<>>}
         /\ SubSeq(data, 1, k) \o SubSeq(data, k + 1, Len(data)) = data
<1>1. Len(data) \in Nat /\ \A i \in 1 .. Len(data) : data[i] \in Byte
  BY LenProperties, ElementOfSeq
<1>2. SubSeq(data, 1, k) \in Seq(Byte)
  BY <1>1, SubSeqProperties
<1>3. SubSeq(data, k + 1, Len(data)) \in Seq(Byte)
      /\ Len(SubSeq(data, k + 1, Len(data))) = Len(data) - k
  BY <1>1, SubSeqProperties
<1>4. SubSeq(data, k + 1, Len(data)) # <<>>
  <2>1. Len(data) - k # 0
    BY <1>1
  <2> QED
    BY <1>3, <2>1, EmptySeq
<1>5. 1 \in 1 .. Len(data) + 1 /\ k \in 1 - 1 .. Len(data) /\ Len(data) \in k .. Len(data)
  BY <1>1
<1>6. SubSeq(data, 1, k) \o SubSeq(data, k + 1, Len(data)) = SubSeq(data, 1, Len(data))
  BY <1>5, ConcatAdjacentSubSeq
<1>7. SubSeq(data, 1, Len(data)) = data
  BY SubSeqFull
<1> QED
  BY <1>2, <1>3, <1>4, <1>6, <1>7

LEMMA Regroup ==
  ASSUME NEW a \in Seq(Byte), NEW b \in Seq(Byte), NEW c \in Seq(Byte)
  PROVE  (a \o b) \o c = a \o (b \o c)
BY ConcatAssociative

\* Concatenation under a name of its own: the provers need it to find the
\* instances of the associative law when there are many sequences.
Cat(x, y) == x \o y

LEMMA CatTyped ==
  ASSUME NEW a \in Seq(Byte), NEW b \in Seq(Byte)
  PROVE  Cat(a, b) \in Seq(Byte)
BY ConcatProperties DEF Cat

LEMMA CatAssociative ==
  ASSUME NEW a \in Seq(Byte), NEW b \in Seq(Byte), NEW c \in Seq(Byte)
  PROVE  Cat(Cat(a, b), c) = Cat(a, Cat(b, c))
BY ConcatAssociative DEF Cat

LEMMA RegroupAll ==
  ASSUME NEW a \in Seq(Byte), NEW b \in Seq(Byte), NEW c \in Seq(Byte),
         NEW d \in Seq(Byte), NEW e \in Seq(Byte)
  PROVE  Cat(Cat(Cat(a, b), c), Cat(d, e)) = Cat(a, Cat(Cat(b, Cat(c, d)), e))
<1>1. /\ Cat(a, b) \in Seq(Byte) /\ Cat(c, d) \in Seq(Byte) /\ Cat(d, e) \in Seq(Byte)
  BY CatTyped
<1>2. Cat(Cat(Cat(a, b), c), Cat(d, e)) = Cat(Cat(a, b), Cat(c, Cat(d, e)))
  BY <1>1, CatAssociative
<1>3. Cat(c, Cat(d, e)) = Cat(Cat(c, d), e)
  BY CatAssociative
<1>4. Cat(Cat(c, d), e) \in Seq(Byte)
  BY <1>1, CatTyped
<1>5. Cat(Cat(a, b), Cat(Cat(c, d), e)) = Cat(a, Cat(b, Cat(Cat(c, d), e)))
  BY <1>4, CatAssociative
<1>6. Cat(b, Cat(Cat(c, d), e)) = Cat(Cat(b, Cat(c, d)), e)
  BY <1>1, CatAssociative
<1> QED
  BY <1>2, <1>3, <1>5, <1>6

LEMMA StreamTyped ==
  ASSUME NEW o \in Outcome
  PROVE  /\ o.backlog \in Seq(Seq(Byte)) /\ Len(o.backlog) \in Nat
         /\ FlattenSeq(o.backlog) \in Seq(Byte) /\ Stream(o) \in Seq(Byte)
<1>1. o.wire \in Seq(Byte) /\ o.backlog \in Seq(Seq(Byte) \ {<<>>})
  BY DEF Outcome
<1>2. o.backlog \in Seq(Seq(Byte)) /\ Len(o.backlog) \in Nat
  BY <1>1, SeqMonotonic, LenProperties
<1>3. FlattenSeq(o.backlog) \in Seq(Byte)
  BY <1>2, FlattenTyped
<1> QED
  BY <1>1, <1>2, <1>3, ConcatProperties DEF Stream

\* What the write functions of the helper do, called with an outcome o that is
\* not an error, for n frames that hold data: all of the data is in the stream,
\* or at most a part of it and an error is returned; n entries at most are
\* added, and it is the buffer's limit that says whether they are too many.
Writes(w, o, data, n) ==
    /\ w \in Outcome
    /\ w.err = "OK" => Stream(w) = Stream(o) \o data
    /\ Begins(Stream(w), Stream(o) \o data)
    /\ Len(w.backlog) <= Len(o.backlog) + n
    /\ Len(o.backlog) <= API_MAX_SEND_QUEUE => Len(w.backlog) <= API_MAX_SEND_QUEUE
    /\ w.err = "FULL" => Len(o.backlog) + n > API_MAX_SEND_QUEUE

LEMMA Enqueues ==
  ASSUME NEW o \in Outcome, o.err = "OK", NEW data \in Seq(Byte) \ {<<>>}
  PROVE  Writes(enqueue_iov(o, data), o, data, 1)
<1> DEFINE w == enqueue_iov(o, data)
<1> SUFFICES Writes(w, o, data, 1)
  OBVIOUS
<1>0. data \in Seq(Byte)
  OBVIOUS
<1>1. API_MAX_SEND_QUEUE \in Nat
  BY BacklogAssumption
<1>2. o.backlog \in Seq(Seq(Byte)) /\ Stream(o) \in Seq(Byte) /\ Len(o.backlog) \in Nat
  BY StreamTyped
<1>3. CASE Len(o.backlog) >= API_MAX_SEND_QUEUE
  <2>1. w = [o EXCEPT !.err = "FULL"]
    BY <1>3 DEF enqueue_iov
  <2>2. w \in Outcome /\ w.wire = o.wire /\ w.backlog = o.backlog /\ w.err = "FULL"
    BY <2>1 DEF Outcome
  <2>3. Stream(w) = Stream(o)
    BY <2>2 DEF Stream
  <2>4. Begins(Stream(w), Stream(o) \o data)
    BY <2>3 DEF Begins
  <2> HIDE DEF w
  <2> QED
    BY <1>1, <1>2, <1>3, <2>2, <2>4 DEF Writes
<1>4. CASE ~ (Len(o.backlog) >= API_MAX_SEND_QUEUE)
  <2>1. w = [o EXCEPT !.backlog = Append(@, data)]
    BY <1>4 DEF enqueue_iov
  <2>2. o.backlog \in Seq(Seq(Byte) \ {<<>>}) /\ o.wire \in Seq(Byte)
    BY DEF Outcome
  <2>3. Append(o.backlog, data) \in Seq(Seq(Byte) \ {<<>>})
        /\ Len(Append(o.backlog, data)) = Len(o.backlog) + 1
    BY <2>2, AppendProperties
  <2>4. w \in Outcome /\ w.wire = o.wire /\ w.backlog = Append(o.backlog, data)
        /\ w.err = "OK"
    BY <2>1, <2>3 DEF Outcome
  <2> HIDE DEF w
  <2>5. FlattenSeq(w.backlog) = FlattenSeq(o.backlog) \o data
    BY <1>0, <1>2, <2>4, FlattenAppend
  <2>6. Stream(w) = Stream(o) \o data
    <3>1. FlattenSeq(o.backlog) \in Seq(Byte)
      BY StreamTyped
    <3>2. (o.wire \o FlattenSeq(o.backlog)) \o data
            = o.wire \o (FlattenSeq(o.backlog) \o data)
      BY <1>0, <2>2, <3>1, Regroup
    <3> QED
      BY <2>4, <2>5, <3>2 DEF Stream
  <2>7. Begins(Stream(w), Stream(o) \o data)
    BY <1>0, <1>2, <2>6, BeginsItself, ConcatProperties
  <2> QED
    BY <1>1, <1>2, <1>4, <2>3, <2>4, <2>6, <2>7 DEF Writes
<1> QED
  BY <1>3, <1>4

LEMMA WritesSocket ==
  ASSUME NEW o \in Outcome, o.err = "OK", o.backlog = <<>>,
         NEW data \in Seq(Byte), NEW w \in write_socket(o, data)
  PROVE  Writes(w, o, data, 1)
<1>1. API_MAX_SEND_QUEUE \in Nat \ {0}
  BY BacklogAssumption
<1>2. o.wire \in Seq(Byte) /\ Stream(o) = o.wire /\ Len(o.backlog) = 0
  <2>1. o.wire \in Seq(Byte)
    BY DEF Outcome
  <2> QED
    BY <2>1, FlattenEmpty, ConcatEmptySeq DEF Stream
<1>3. CASE w = [o EXCEPT !.err = "WRITE_FAILED"]
  <2>1. w \in Outcome /\ w.wire = o.wire /\ w.backlog = o.backlog
        /\ w.err = "WRITE_FAILED"
    BY <1>3 DEF Outcome
  <2>2. Stream(w) = Stream(o)
    BY <2>1 DEF Stream
  <2>3. Begins(Stream(w), Stream(o) \o data)
    BY <2>2 DEF Begins
  <2> QED
    BY <1>1, <1>2, <2>1, <2>3 DEF Writes
<1>4. CASE w = Taken(o, data)
  <2>1. o.wire \o data \in Seq(Byte)
    BY <1>2, ConcatProperties
  <2>2. w \in Outcome /\ w.wire = o.wire \o data /\ w.backlog = <<>> /\ w.err = "OK"
    BY <1>4, <2>1 DEF Outcome, Taken
  <2>3. Stream(w) = Stream(o) \o data
    BY <1>2, <2>1, <2>2, FlattenEmpty, ConcatEmptySeq DEF Stream
  <2>4. Begins(Stream(w), Stream(o) \o data)
    BY <1>2, <2>1, <2>3, BeginsItself
  <2> QED
    BY <1>1, <1>2, <2>2, <2>3, <2>4 DEF Writes
<1>5. ASSUME NEW k \in 0 .. Len(data) - 1,
             w = enqueue_iov(Taken(o, SubSeq(data, 1, k)), SubSeq(data, k + 1, Len(data)))
      PROVE  Writes(w, o, data, 1)
  <2> DEFINE one == SubSeq(data, 1, k)
             two == SubSeq(data, k + 1, Len(data))
             p == Taken(o, one)
  <2>1. /\ one \in Seq(Byte) /\ two \in Seq(Byte) /\ one \o two = data
        /\ two \in Seq(Byte) \ {<<>>}
    BY Split
  <2> HIDE DEF one, two
  <2>2. o.wire \o one \in Seq(Byte)
    BY <1>2, <2>1, ConcatProperties
  <2>3. p \in Outcome /\ p.wire = o.wire \o one /\ p.backlog = <<>> /\ p.err = "OK"
    BY <2>2 DEF Outcome, Taken
  <2>4. w = enqueue_iov(p, two)
    BY <1>5 DEF one, two
  <2> HIDE DEF p
  <2>5. Writes(w, p, two, 1)
    BY <2>1, <2>3, <2>4, Enqueues
  <2>6. Stream(p) = o.wire \o one
    BY <2>2, <2>3, FlattenEmpty, ConcatEmptySeq DEF Stream
  <2>7. Stream(p) \o two = Stream(o) \o data
    <3>1. (o.wire \o one) \o two = o.wire \o (one \o two)
      BY <1>2, <2>1, Regroup
    <3> QED
      BY <1>2, <2>1, <2>6, <3>1
  <2>8. Len(p.backlog) = 0
    BY <2>3
  <2> QED
    BY <1>1, <1>2, <2>5, <2>7, <2>8 DEF Writes
<1> QED
  BY <1>3, <1>4, <1>5 DEF write_socket

\* What draining the overflow buffer does: nothing to the stream.
Drains(d, o) ==
    /\ d \in Outcome /\ d.err \in {"OK", "WRITE_FAILED"}
    /\ Stream(d) = Stream(o)
    /\ Len(d.backlog) <= Len(o.backlog)

\* The entry m + 1 of the overflow buffer, and what is before and after it.
LEMMA Entries ==
  ASSUME NEW S, NEW b \in Seq(S), NEW m \in 0 .. Len(b) - 1
  PROVE  /\ b[m + 1] \in S
         /\ SubSeq(b, 1, m) \in Seq(S)
         /\ SubSeq(b, m + 2, Len(b)) \in Seq(S)
         /\ Len(SubSeq(b, m + 2, Len(b))) = Len(b) - m - 1
         /\ b = (SubSeq(b, 1, m) \o <<b[m + 1]>>) \o SubSeq(b, m + 2, Len(b))
<1>1. Len(b) \in Nat /\ \A i \in 1 .. Len(b) : b[i] \in S
  BY LenProperties, ElementOfSeq
<1>2. m \in Nat /\ m + 1 \in 1 .. Len(b)
  BY <1>1
<1>3. SubSeq(b, 1, m) \in Seq(S)
  BY <1>1, <1>2, SubSeqProperties
<1>4. /\ SubSeq(b, m + 2, Len(b)) \in Seq(S)
      /\ Len(SubSeq(b, m + 2, Len(b))) = Len(b) - m - 1
  <2>1. m + 2 \in Int /\ Len(b) \in Int /\ \A i \in m + 2 .. Len(b) : b[i] \in S
    BY <1>1, <1>2
  <2>2. /\ SubSeq(b, m + 2, Len(b)) \in Seq(S)
        /\ Len(SubSeq(b, m + 2, Len(b)))
             = IF m + 2 <= Len(b) THEN Len(b) - (m + 2) + 1 ELSE 0
    BY <2>1, SubSeqProperties
  <2> QED
    BY <1>1, <1>2, <2>2
<1>5. SubSeq(b, m + 1, m + 1) = <<b[m + 1]>>
  <2> DEFINE s == SubSeq(b, m + 1, m + 1)
  <2>1. \A i \in m + 1 .. m + 1 : b[i] \in S
    BY <1>1, <1>2
  <2>2. /\ s \in Seq(S) /\ Len(s) = IF m + 1 <= m + 1 THEN m + 1 - (m + 1) + 1 ELSE 0
        /\ \A i \in 1 .. m + 1 - (m + 1) + 1 : s[i] = b[m + 1 + i - 1]
    BY <1>2, <2>1, SubSeqProperties
  <2>3. s \in Seq(S) /\ Len(s) = 1 /\ s[1] = b[m + 1]
    BY <1>2, <2>2
  <2> HIDE DEF s
  <2>4. <<b[m + 1]>> \in Seq(S) /\ Len(<<b[m + 1]>>) = 1 /\ <<b[m + 1]>>[1] = b[m + 1]
    BY <1>1, <1>2
  <2>5. s = <<b[m + 1]>>
    BY <2>3, <2>4, SeqEqual
  <2> QED
    BY <2>5 DEF s
<1>6. SubSeq(b, 1, m) \o SubSeq(b, m + 1, m + 1) = SubSeq(b, 1, m + 1)
  <2>1. 1 \in 1 .. Len(b) + 1 /\ m \in 1 - 1 .. Len(b) /\ m + 1 \in m .. Len(b)
    BY <1>1, <1>2
  <2> QED
    BY <2>1, ConcatAdjacentSubSeq
<1>7. SubSeq(b, 1, m + 1) \o SubSeq(b, m + 2, Len(b)) = SubSeq(b, 1, Len(b))
  <2>1. /\ 1 \in 1 .. Len(b) + 1 /\ m + 1 \in 1 - 1 .. Len(b)
        /\ Len(b) \in m + 1 .. Len(b) /\ (m + 1) + 1 = m + 2
    BY <1>1, <1>2
  <2>2. SubSeq(b, 1, m + 1) \o SubSeq(b, (m + 1) + 1, Len(b)) = SubSeq(b, 1, Len(b))
    BY <2>1, ConcatAdjacentSubSeq
  <2> QED
    BY <2>1, <2>2
<1>8. SubSeq(b, 1, Len(b)) = b
  BY SubSeqFull
<1> QED
  BY <1>1, <1>2, <1>3, <1>4, <1>5, <1>6, <1>7, <1>8

LEMMA Sends ==
  ASSUME NEW o \in Outcome, NEW m \in 0 .. Len(o.backlog) - 1,
         NEW r \in 0 .. Len(o.backlog[m + 1]) - 1
  PROVE  LET d == Sent(o, m, r)
         IN  /\ d \in Outcome /\ d.err = o.err
             /\ Stream(d) = Stream(o)
             /\ Len(d.backlog) <= Len(o.backlog)
<1> DEFINE b == o.backlog
           front == b[m + 1]
           old == SubSeq(b, 1, m)
           new == SubSeq(b, m + 2, Len(b))
           one == SubSeq(front, 1, r)
           two == SubSeq(front, r + 1, Len(front))
           d == Sent(o, m, r)
<1>1. o.wire \in Seq(Byte) /\ b \in Seq(Seq(Byte) \ {<<>>}) /\ Len(b) \in Nat
      /\ Stream(o) = o.wire \o FlattenSeq(b)
  BY LenProperties DEF Outcome, Stream
<1>2. /\ front \in Seq(Byte) \ {<<>>}
      /\ old \in Seq(Seq(Byte) \ {<<>>}) /\ new \in Seq(Seq(Byte) \ {<<>>})
      /\ Len(new) = Len(b) - m - 1
      /\ b = (old \o <<front>>) \o new
  BY <1>1, Entries
<1>3. /\ one \in Seq(Byte) /\ two \in Seq(Byte) \ {<<>>}
      /\ one \o two = front
  <2>1. front \in Seq(Byte) /\ r \in 0 .. Len(front) - 1
    BY <1>2
  <2> HIDE DEF front
  <2> QED
    BY <2>1, Split
<1>4. d = [o EXCEPT !.wire = (@ \o FlattenSeq(old)) \o one,
                    !.backlog = <<two>> \o new]
  BY DEF Sent
<1> HIDE DEF b, front, old, new, one, two, d
<1>5. /\ old \in Seq(Seq(Byte)) /\ new \in Seq(Seq(Byte))
      /\ <<front>> \in Seq(Seq(Byte)) /\ <<two>> \in Seq(Seq(Byte) \ {<<>>})
      /\ <<two>> \in Seq(Seq(Byte))
      /\ front \in Seq(Byte) /\ two \in Seq(Byte)
  <2>1. old \in Seq(Seq(Byte)) /\ new \in Seq(Seq(Byte))
    BY <1>2, SeqMonotonic
  <2> QED
    BY <1>2, <1>3, <2>1
<1>6. FlattenSeq(old) \in Seq(Byte) /\ FlattenSeq(new) \in Seq(Byte)
  BY <1>5, FlattenTyped
<1>7. FlattenSeq(b) = (FlattenSeq(old) \o front) \o FlattenSeq(new)
  <2>1. old \o <<front>> \in Seq(Seq(Byte))
    BY <1>5, ConcatProperties
  <2>2. FlattenSeq(b) = FlattenSeq(old \o <<front>>) \o FlattenSeq(new)
    BY <1>2, <1>5, <2>1, FlattenConcat
  <2>3. FlattenSeq(old \o <<front>>) = FlattenSeq(old) \o FlattenSeq(<<front>>)
    BY <1>5, FlattenConcat
  <2>4. FlattenSeq(<<front>>) = front
    BY <1>5, FlattenOne
  <2> QED
    BY <2>2, <2>3, <2>4
<1>8. FlattenSeq(<<two>> \o new) = two \o FlattenSeq(new)
  <2>1. FlattenSeq(<<two>>) = two
    BY <1>5, FlattenOne
  <2> QED
    BY <1>5, <2>1, FlattenConcat
<1>9. /\ <<two>> \o new \in Seq(Seq(Byte) \ {<<>>})
      /\ Len(<<two>> \o new) = Len(b) - m
  <2>1. Len(<<two>>) = 1
    OBVIOUS
  <2>2. /\ <<two>> \o new \in Seq(Seq(Byte) \ {<<>>})
        /\ Len(<<two>> \o new) = Len(<<two>>) + Len(new)
    BY <1>2, <1>5, ConcatProperties
  <2> QED
    BY <1>1, <1>2, <2>1, <2>2
<1>10. (o.wire \o FlattenSeq(old)) \o one \in Seq(Byte)
  BY <1>1, <1>3, <1>6, ConcatProperties
<1>11. /\ d \in Outcome /\ d.err = o.err
       /\ d.wire = (o.wire \o FlattenSeq(old)) \o one
       /\ d.backlog = <<two>> \o new
  BY <1>4, <1>9, <1>10 DEF Outcome
<1>12. Stream(d) = Stream(o)
  <2> DEFINE w == o.wire
             x == FlattenSeq(old)
             y == FlattenSeq(new)
  <2>1. w \in Seq(Byte) /\ x \in Seq(Byte) /\ y \in Seq(Byte)
        /\ one \in Seq(Byte) /\ two \in Seq(Byte) /\ front \in Seq(Byte)
    BY <1>1, <1>3, <1>5, <1>6
  <2>2. Stream(d) = ((w \o x) \o one) \o (two \o y)
    BY <1>8, <1>11 DEF Stream
  <2>3. Stream(o) = w \o ((x \o front) \o y)
    BY <1>1, <1>7
  <2> HIDE DEF w, x, y
  <2>4. ((w \o x) \o one) \o (two \o y) = w \o ((x \o (one \o two)) \o y)
    <3>1. Cat(Cat(Cat(w, x), one), Cat(two, y)) = Cat(w, Cat(Cat(x, Cat(one, two)), y))
      BY <2>1, RegroupAll
    <3> QED
      BY <3>1 DEF Cat
  <2> QED
    BY <1>3, <2>2, <2>3, <2>4
<1>13. Len(d.backlog) <= Len(b)
  BY <1>1, <1>9, <1>11
<1> QED
  BY <1>11, <1>12, <1>13 DEF b, d

LEMMA DrainsAll ==
  ASSUME NEW o \in Outcome, o.err = "OK", NEW d \in Drained(o)
  PROVE  Drains(d, o)
<1>1. CASE o.backlog = <<>>
  <2>1. d = o
    BY <1>1 DEF Drained
  <2>2. Len(o.backlog) = 0
    BY <1>1
  <2> QED
    BY <2>1, <2>2 DEF Drains
<1>2. CASE o.backlog # <<>>
  <2>0. /\ o.backlog \in Seq(Seq(Byte) \ {<<>>}) /\ o.wire \in Seq(Byte)
        /\ Len(o.backlog) \in Nat
    BY LenProperties DEF Outcome
  <2>1. d \in try_drain(o)
    BY <1>2 DEF Drained
  <2>2. ASSUME NEW m \in 0 .. Len(o.backlog) - 1,
               NEW r \in 0 .. Len(o.backlog[m + 1]) - 1,
               d = Sent(o, m, r)
        PROVE  Drains(d, o)
    BY <2>2, Sends DEF Drains
  <2>3. ASSUME NEW m \in 0 .. Len(o.backlog) - 1,
               d = [Sent(o, m, 0) EXCEPT !.err = "WRITE_FAILED"]
        PROVE  Drains(d, o)
    <3> DEFINE e == Sent(o, m, 0)
    <3>1. o.backlog[m + 1] \in Seq(Byte) /\ o.backlog[m + 1] # <<>>
      BY <2>0, Entries
    <3>2. 0 \in 0 .. Len(o.backlog[m + 1]) - 1
      BY <3>1, EmptySeq
    <3>3. e \in Outcome /\ Stream(e) = Stream(o) /\ Len(e.backlog) <= Len(o.backlog)
      BY <3>2, Sends
    <3> HIDE DEF e
    <3>4. d = [e EXCEPT !.err = "WRITE_FAILED"]
      BY <2>3 DEF e
    <3>5. d \in Outcome /\ d.wire = e.wire /\ d.backlog = e.backlog
          /\ d.err = "WRITE_FAILED"
      BY <3>3, <3>4 DEF Outcome
    <3> QED
      BY <3>3, <3>5 DEF Drains, Stream
  <2>4. ASSUME d = [o EXCEPT !.wire = @ \o FlattenSeq(o.backlog), !.backlog = <<>>]
        PROVE  Drains(d, o)
    <3>1. o.wire \o FlattenSeq(o.backlog) \in Seq(Byte)
      BY <2>0, StreamTyped, ConcatProperties
    <3> DEFINE s == o.wire \o FlattenSeq(o.backlog)
    <3>a. d = [o EXCEPT !.wire = s, !.backlog = <<>>]
      BY <2>4
    <3>b. s \in Seq(Byte) /\ <<>> \in Seq(Seq(Byte) \ {<<>>})
      BY <3>1, EmptySeq
    <3> HIDE DEF s
    <3>c. d \in Outcome /\ d.backlog = <<>> /\ d.err = "OK" /\ d.wire = s
      BY <3>a, <3>b DEF Outcome
    <3>2. d \in Outcome /\ d.backlog = <<>> /\ d.err = "OK"
          /\ d.wire = o.wire \o FlattenSeq(o.backlog)
      BY <3>c DEF s
    <3>3. Stream(d) = Stream(o)
      BY <3>1, <3>2, FlattenEmpty, ConcatEmptySeq DEF Stream
    <3>4. Len(d.backlog) = 0
      BY <3>2
    <3> QED
      BY <2>0, <3>2, <3>3, <3>4 DEF Drains
  <2>5. \/ \E m \in 0 .. Len(o.backlog) - 1 :
             \/ \E r \in 0 .. Len(o.backlog[m + 1]) - 1 : d = Sent(o, m, r)
             \/ d = [Sent(o, m, 0) EXCEPT !.err = "WRITE_FAILED"]
        \/ d = [o EXCEPT !.wire = @ \o FlattenSeq(o.backlog), !.backlog = <<>>]
    BY <2>1 DEF try_drain
  <2> QED
    BY <2>2, <2>3, <2>4, <2>5, Zenon
<1> QED
  BY <1>1, <1>2

LEMMA WritesRaw ==
  ASSUME NEW o \in Outcome, o.err = "OK", NEW data \in Seq(Byte) \ {<<>>},
         NEW w \in write_raw(o, data)
  PROVE  Writes(w, o, data, 1)
<1>0. /\ data \in Seq(Byte) /\ Stream(o) \in Seq(Byte) /\ Len(o.backlog) \in Nat
      /\ API_MAX_SEND_QUEUE \in Nat \ {0}
  BY StreamTyped, BacklogAssumption
<1>1. PICK d \in Drained(o) :
        w \in IF d.err # "OK" THEN {d}
              ELSE IF d.backlog = <<>> THEN write_socket(d, data)
              ELSE {enqueue_iov(d, data)}
  BY DEF write_raw
<1>2. Drains(d, o)
  BY DrainsAll
<1>3. /\ d \in Outcome /\ d.err \in {"OK", "WRITE_FAILED"}
      /\ Stream(d) = Stream(o) /\ Len(d.backlog) <= Len(o.backlog)
      /\ Len(d.backlog) \in Nat
  BY <1>2, StreamTyped DEF Drains
<1>4. CASE d.err # "OK"
  <2>1. w = d
    BY <1>1, <1>4
  <2>2. Begins(Stream(w), Stream(o) \o data)
    BY <1>0, <1>3, <2>1 DEF Begins
  <2> QED
    BY <1>0, <1>3, <1>4, <2>1, <2>2 DEF Writes
<1>5. CASE d.err = "OK" /\ d.backlog = <<>>
  <2>1. w \in write_socket(d, data)
    BY <1>1, <1>5
  <2>2. Writes(w, d, data, 1)
    BY <1>0, <1>3, <1>5, <2>1, WritesSocket
  <2>3. w \in Outcome /\ Len(w.backlog) \in Nat
    BY <2>2, StreamTyped DEF Writes
  <2> QED
    BY <1>0, <1>3, <2>2, <2>3 DEF Writes
<1>6. CASE d.err = "OK" /\ d.backlog # <<>>
  <2>1. w = enqueue_iov(d, data)
    BY <1>1, <1>6
  <2>2. Writes(w, d, data, 1)
    BY <1>3, <1>6, <2>1, Enqueues
  <2>3. w \in Outcome /\ Len(w.backlog) \in Nat
    BY <2>2, StreamTyped DEF Writes
  <2> QED
    BY <1>0, <1>3, <2>2, <2>3 DEF Writes
<1> QED
  BY <1>3, <1>4, <1>5, <1>6

LEMMA DrainIsWrite ==
  ASSUME NEW o \in Outcome, o.err = "OK", NEW d \in Drained(o)
  PROVE  Writes(d, o, <<>>, 0)
<1>1. Drains(d, o)
  BY DrainsAll
<1>2. /\ d \in Outcome /\ Stream(d) = Stream(o) /\ Len(d.backlog) <= Len(o.backlog)
      /\ d.err # "FULL"
  BY <1>1 DEF Drains
<1>3. /\ Len(d.backlog) \in Nat /\ Len(o.backlog) \in Nat
      /\ Stream(o) \in Seq(Byte) /\ API_MAX_SEND_QUEUE \in Nat
  BY <1>2, StreamTyped, BacklogAssumption
<1>4. Stream(o) \o <<>> = Stream(o) /\ Begins(Stream(o), Stream(o))
  BY <1>3, ConcatEmptySeq, BeginsItself
<1> QED
  BY <1>2, <1>3, <1>4 DEF Writes

\* One write after the other.
LEMMA WritesTwice ==
  ASSUME NEW o \in Outcome, NEW x \in Seq(Byte), NEW y \in Seq(Byte),
         NEW m \in Nat, NEW n \in Nat, NEW v, NEW w, Writes(v, o, x, m),
         IF v.err = "OK" THEN Writes(w, v, y, n) ELSE w = v
  PROVE  Writes(w, o, x \o y, m + n)
<1>1. v \in Outcome /\ Begins(Stream(v), Stream(o) \o x)
  BY DEF Writes
<1>2. /\ Stream(o) \in Seq(Byte) /\ Stream(v) \in Seq(Byte)
      /\ Stream(o) \o x \in Seq(Byte) /\ x \o y \in Seq(Byte)
      /\ Len(o.backlog) \in Nat /\ Len(v.backlog) \in Nat /\ API_MAX_SEND_QUEUE \in Nat
  BY <1>1, StreamTyped, ConcatProperties, BacklogAssumption
<1>3. (Stream(o) \o x) \o y = Stream(o) \o (x \o y)
  <2>1. Cat(Cat(Stream(o), x), y) = Cat(Stream(o), Cat(x, y))
    BY <1>2, CatAssociative
  <2> QED
    BY <2>1 DEF Cat
<1>4. CASE v.err = "OK"
  <2>1. Writes(w, v, y, n)
    BY <1>4
  <2>2. w \in Outcome /\ Len(w.backlog) \in Nat
    BY <2>1, StreamTyped DEF Writes
  <2>3. Stream(v) \o y = Stream(o) \o (x \o y)
    BY <1>3, <1>4 DEF Writes
  <2>4. /\ w.err = "OK" => Stream(w) = Stream(o) \o (x \o y)
        /\ Begins(Stream(w), Stream(o) \o (x \o y))
    BY <2>1, <2>3 DEF Writes
  <2>5. /\ Len(v.backlog) <= Len(o.backlog) + m
        /\ Len(o.backlog) <= API_MAX_SEND_QUEUE => Len(v.backlog) <= API_MAX_SEND_QUEUE
    BY DEF Writes
  <2>6. /\ Len(w.backlog) <= Len(v.backlog) + n
        /\ Len(v.backlog) <= API_MAX_SEND_QUEUE => Len(w.backlog) <= API_MAX_SEND_QUEUE
        /\ w.err = "FULL" => Len(v.backlog) + n > API_MAX_SEND_QUEUE
    BY <2>1 DEF Writes
  <2>7. /\ Len(w.backlog) <= Len(o.backlog) + (m + n)
        /\ Len(o.backlog) <= API_MAX_SEND_QUEUE => Len(w.backlog) <= API_MAX_SEND_QUEUE
        /\ w.err = "FULL" => Len(o.backlog) + (m + n) > API_MAX_SEND_QUEUE
    <3> DEFINE lo == Len(o.backlog)
               lv == Len(v.backlog)
               lw == Len(w.backlog)
               max == API_MAX_SEND_QUEUE
               full == w.err = "FULL"
    <3>1. lo \in Nat /\ lv \in Nat /\ lw \in Nat /\ max \in Nat
      BY <1>2, <2>2
    <3>2. lv <= lo + m /\ (lo <= max => lv <= max)
      BY <2>5
    <3>3. lw <= lv + n /\ (lv <= max => lw <= max) /\ (full => lv + n > max)
      BY <2>6
    <3> HIDE DEF lo, lv, lw, max, full
    <3>4. lw <= lo + (m + n) /\ (lo <= max => lw <= max) /\ (full => lo + (m + n) > max)
      BY <3>1, <3>2, <3>3
    <3> QED
      BY <3>4 DEF lo, lv, lw, max, full
  <2> QED
    BY <2>2, <2>4, <2>7 DEF Writes
<1>5. CASE v.err # "OK"
  <2>1. w = v
    BY <1>5
  <2>2. Begins(Stream(o) \o x, Stream(o) \o (x \o y))
    BY <1>3 DEF Begins
  <2>3. Begins(Stream(v), Stream(o) \o (x \o y))
    BY <1>1, <1>2, <2>2, BeginsTransitive
  <2>4. /\ Len(v.backlog) <= Len(o.backlog) + m
        /\ Len(o.backlog) <= API_MAX_SEND_QUEUE => Len(v.backlog) <= API_MAX_SEND_QUEUE
        /\ v.err = "FULL" => Len(o.backlog) + m > API_MAX_SEND_QUEUE
    BY DEF Writes
  <2>5. /\ Len(v.backlog) <= Len(o.backlog) + (m + n)
        /\ v.err = "FULL" => Len(o.backlog) + (m + n) > API_MAX_SEND_QUEUE
    <3> DEFINE lo == Len(o.backlog)
               lv == Len(v.backlog)
               max == API_MAX_SEND_QUEUE
               full == v.err = "FULL"
    <3>1. lo \in Nat /\ lv \in Nat /\ max \in Nat
      BY <1>2
    <3>2. lv <= lo + m /\ (full => lo + m > max)
      BY <2>4
    <3> HIDE DEF lo, lv, max, full
    <3>3. lv <= lo + (m + n) /\ (full => lo + (m + n) > max)
      BY <3>1, <3>2
    <3> QED
      BY <3>3 DEF lo, lv, max, full
  <2> QED
    BY <1>1, <1>5, <2>1, <2>3, <2>4, <2>5 DEF Writes
<1> QED
  BY <1>4, <1>5

LEMMA AfterTwo ==
  ASSUME NEW n \in Nat
  PROVE  /\ After(n, 0) = <<>>
         /\ After(n, 1) = After(n, 0) \o Bytes(n + 1)
         /\ After(n, 2) = After(n, 1) \o Bytes(n + 2)
<1> DEFINE F(m) == [i \in 1 .. m |-> Bytes(n + i)]
<1>1. F(0) = <<>> /\ F(1) = Append(F(0), Bytes(n + 1)) /\ F(2) = Append(F(1), Bytes(n + 2))
  OBVIOUS
<1>2. /\ F(0) \in Seq(Seq(Byte)) /\ F(1) \in Seq(Seq(Byte))
      /\ Bytes(n + 1) \in Seq(Byte) /\ Bytes(n + 2) \in Seq(Byte)
  BY AfterTyped, BytesTyped
<1>3. \A m : After(n, m) = FlattenSeq(F(m))
  BY DEF After
<1> HIDE DEF F
<1>4. /\ FlattenSeq(F(1)) = FlattenSeq(F(0)) \o Bytes(n + 1)
      /\ FlattenSeq(F(2)) = FlattenSeq(F(1)) \o Bytes(n + 2)
  BY <1>1, <1>2, FlattenAppend
<1> QED
  BY <1>1, <1>3, <1>4, FlattenEmpty

\* A pass of the helper's loop that writes n frames of the handshake.
LEMMA HelperLoopWrites ==
  ASSUME Now \in Outcome, Len(frames) \in Nat, NEW n \in 0 .. 2,
         NEW o \in HelperLoop(n)
  PROVE  Writes(o, Now, After(Len(frames), n), n)
<1> DEFINE L == Len(frames)
           Then(outcomes, data) ==
             UNION {IF u.err # "OK" THEN {u} ELSE write_raw(u, data) : u \in outcomes}
           hello == IF n = 0 THEN {Now} ELSE Then({Now}, Bytes(L + 1))
           both == IF n < 2 THEN hello ELSE Then(hello, Bytes(L + 2))
<1>1. PICK b \in both : o \in IF b.err # "OK" THEN {b} ELSE Drained(b)
  BY DEF HelperLoop
<1>2. /\ Bytes(L + 1) \in Seq(Byte) \ {<<>>} /\ Bytes(L + 2) \in Seq(Byte) \ {<<>>}
      /\ Bytes(L + 1) \in Seq(Byte) /\ Bytes(L + 2) \in Seq(Byte)
  BY BytesTyped
<1>3. /\ After(L, 0) = <<>> /\ After(L, 1) = After(L, 0) \o Bytes(L + 1)
      /\ After(L, 2) = After(L, 1) \o Bytes(L + 2)
      /\ After(L, 0) \in Seq(Byte) /\ After(L, 1) \in Seq(Byte) /\ After(L, 2) \in Seq(Byte)
  <2>1. L \in Nat
    OBVIOUS
  <2> HIDE DEF L
  <2> QED
    BY <2>1, AfterTwo, AfterTyped
<1>4. Now.err = "OK" /\ Stream(Now) \in Seq(Byte)
  BY StreamTyped DEF Now
<1>5. ASSUME NEW u, NEW m \in Nat, Writes(u, Now, After(L, m), m), After(L, m) \in Seq(Byte),
             NEW data \in Seq(Byte) \ {<<>>},
             NEW w \in IF u.err # "OK" THEN {u} ELSE write_raw(u, data),
             NEW k, k = m + 1
      PROVE  Writes(w, Now, After(L, m) \o data, k)
  <2>1. u \in Outcome
    BY <1>5 DEF Writes
  <2>2. u.err = "OK" => Writes(w, u, data, 1)
    BY <2>1, WritesRaw
  <2>3. u.err # "OK" => w = u
    OBVIOUS
  <2> QED
    BY <1>5, <2>2, <2>3, WritesTwice
<1>6. Writes(Now, Now, After(L, 0), 0)
  <2>1. Begins(Stream(Now), Stream(Now)) /\ Stream(Now) \o <<>> = Stream(Now)
    BY <1>4, BeginsItself, ConcatEmptySeq
  <2>2. Len(Now.backlog) \in Nat /\ API_MAX_SEND_QUEUE \in Nat
    BY StreamTyped, BacklogAssumption
  <2>3. Len(Now.backlog) <= Len(Now.backlog) + 0
    BY <2>2
  <2>4. Writes(Now, Now, <<>>, 0)
    BY <1>4, <2>1, <2>3 DEF Writes
  <2> QED
    BY <1>3, <2>4
<1>7. ASSUME n # 0, NEW h \in Then({Now}, Bytes(L + 1)) PROVE Writes(h, Now, After(L, 1), 1)
  <2>1. h \in IF Now.err # "OK" THEN {Now} ELSE write_raw(Now, Bytes(L + 1))
    OBVIOUS
  <2>2. Writes(h, Now, After(L, 0) \o Bytes(L + 1), 1)
    <3>1. 0 \in Nat /\ 1 = 0 + 1
      OBVIOUS
    <3> HIDE DEF L
    <3> QED
      BY <1>2, <1>3, <1>5, <1>6, <2>1, <3>1
  <2> QED
    BY <1>3, <2>2
<1>8. ASSUME n = 2, NEW h \in Then(Then({Now}, Bytes(L + 1)), Bytes(L + 2))
      PROVE  Writes(h, Now, After(L, 2), 2)
  <2>1. PICK u \in Then({Now}, Bytes(L + 1)) :
          h \in IF u.err # "OK" THEN {u} ELSE write_raw(u, Bytes(L + 2))
    OBVIOUS
  <2>2. Writes(u, Now, After(L, 1), 1)
    BY <1>7, <1>8
  <2>3. Writes(h, Now, After(L, 1) \o Bytes(L + 2), 2)
    <3>1. 1 \in Nat /\ 2 = 1 + 1
      OBVIOUS
    <3> HIDE DEF L
    <3> QED
      BY <1>2, <1>3, <1>5, <2>1, <2>2, <3>1
  <2> QED
    BY <1>3, <2>3
<1>9. Writes(b, Now, After(L, n), n)
  <2>1. CASE n = 0
    BY <1>6, <2>1
  <2>2. CASE n = 1
    BY <1>7, <2>2
  <2>3. CASE n = 2
    BY <1>8, <2>3
  <2> QED
    BY <2>1, <2>2, <2>3
<1>10. b \in Outcome /\ After(L, n) \in Seq(Byte) /\ n \in Nat
  <2>1. b \in Outcome
    BY <1>9 DEF Writes
  <2>2. L \in Nat /\ n \in Nat
    OBVIOUS
  <2> HIDE DEF L, both
  <2> QED
    BY <2>1, <2>2, AfterTyped
<1>11. b.err = "OK" => Writes(o, b, <<>>, 0)
  BY <1>1, <1>10, DrainIsWrite
<1>12. b.err # "OK" => o = b
  BY <1>1
<1>13. Writes(o, Now, After(L, n) \o <<>>, n + 0)
  <2> HIDE DEF L, both
  <2>1. <<>> \in Seq(Byte)
    BY EmptySeq
  <2> QED
    BY <1>9, <1>10, <1>11, <1>12, <2>1, WritesTwice
<1> QED
  BY <1>10, <1>13, ConcatEmptySeq

\* What the helper holds after a step.
Held == [wire |-> wire', backlog |-> backlog', err |-> error']

\* Messages are all written, which never fills the buffer, or none is.
LEMMA SendBufferWrites ==
  ASSUME Now \in Outcome, Len(frames) \in Nat, NEW messages, Len(messages) \in Nat \ {0},
         frames \o <<>> = frames, SendBuffer(messages)
  PROVE  /\ error' # "FULL"
         /\ \/ frames' = frames /\ Writes(Held, Now, <<>>, 0)
            \/ /\ frames' = frames \o messages
               /\ Writes(Held, Now, After(Len(frames), Len(messages)), 1)
<1>1. PICK o \in Drained(Now) :
        IF Writable(o)
          THEN \E w \in write_raw(o, NextFrames(Len(messages))) : Becomes(w, messages)
          ELSE Becomes(o, <<>>)
  BY DEF SendBuffer
<1>2. Now.err = "OK" /\ Stream(Now) \in Seq(Byte) /\ Len(Now.backlog) \in Nat
      /\ API_MAX_SEND_QUEUE \in Nat \ {0}
  BY StreamTyped, BacklogAssumption DEF Now
<1>3. Drains(o, Now) /\ Writes(o, Now, <<>>, 0)
  BY <1>2, DrainsAll, DrainIsWrite
<1>4. ASSUME NEW u \in Outcome, NEW new, Becomes(u, new)
      PROVE  Held = u /\ error' = u.err /\ frames' = frames \o new
  BY <1>4 DEF Becomes, Held, Outcome
<1>5. o \in Outcome
  BY <1>3 DEF Writes
<1>6. CASE Writable(o)
  <2> DEFINE data == After(Len(frames), Len(messages))
  <2>1. data \in Seq(Byte) \ {<<>>} /\ data \in Seq(Byte)
    BY AfterTyped, AfterNotEmpty
  <2>2. NextFrames(Len(messages)) = data
    BY DEF NextFrames, After
  <2> HIDE DEF data
  <2>3. PICK w \in write_raw(o, data) : Becomes(w, messages)
    BY <1>1, <1>6, <2>2
  <2>4. o.err = "OK" /\ o.backlog = <<>>
    BY <1>6 DEF Writable
  <2>5. Writes(w, o, data, 1)
    BY <1>5, <2>1, <2>4, WritesRaw
  <2>6. w \in Outcome /\ w.err # "FULL"
    <3>1. Len(o.backlog) = 0
      BY <2>4
    <3> QED
      BY <1>2, <2>5, <3>1 DEF Writes
  <2>7. Writes(w, Now, data, 1)
    <3>1. Writes(w, Now, <<>> \o data, 0 + 1)
      <4>1. <<>> \in Seq(Byte) /\ 0 \in Nat /\ 1 \in Nat
        BY EmptySeq
      <4> QED
        BY <1>3, <2>1, <2>4, <2>5, <4>1, WritesTwice
    <3>2. <<>> \o data = data
      BY <2>1, ConcatEmptySeq
    <3> QED
      BY <3>1, <3>2
  <2>8. Held = w /\ error' = w.err /\ frames' = frames \o messages
    BY <1>4, <2>3, <2>6
  <2> QED
    BY <2>6, <2>7, <2>8 DEF data
<1>7. CASE ~ Writable(o)
  <2>1. Becomes(o, <<>>)
    BY <1>1, <1>7
  <2>2. Held = o /\ error' = o.err /\ frames' = frames \o <<>>
    BY <1>4, <1>5, <2>1
  <2> QED
    BY <1>3, <2>2 DEF Drains
<1> QED
  BY <1>6, <1>7

-----------------------------------------------------------------------------
(* The inductive invariant. *)

Typed ==
    /\ state \in {"HANDSHAKE", "DATA", "CLOSED"}
    /\ error \in {"OK", "WRITE_FAILED", "FULL", "OTHER"}
    /\ phase \in {"idle", "flush"}
    /\ published \in Nat /\ logs \in 0 .. Logs
    /\ frames \in Seq(0 .. published) /\ batch \in Seq(1 .. published)
    /\ wire \in Seq(Byte) /\ backlog \in Seq(Seq(Byte) \ {<<>>})
    /\ Len(backlog) <= API_MAX_SEND_QUEUE

\* A pass goes on, and a connection is kept, only without an error.
Alive ==
    /\ phase = "flush" => error = "OK"
    /\ state = "CLOSED" => error # "OK"

\* Before the handshake is over nothing waits but its frames.
Greeting ==
    state = "HANDSHAKE" =>
      /\ batch = <<>>
      /\ error = "OK" => Len(frames) <= 1 /\ Len(backlog) <= Len(frames)

\* StreamInOrder with the bytes that follow as a witness.
InStream ==
    /\ error = "OK" => Stream(Now) = Written(Len(frames))
    /\ Begins(Stream(Now), Written(Len(frames)))

\* OnceEach without counting.
Once(fs, b, n) ==
    /\ \A i, j \in 1 .. Len(fs) : fs[i] = fs[j] /\ fs[i] # 0 => i = j
    /\ \A i, j \in 1 .. Len(b) : b[i] = b[j] => i = j
    /\ \A i \in 1 .. Len(fs), j \in 1 .. Len(b) : fs[i] # b[j]
    /\ \A x \in 1 .. n : \/ \E i \in 1 .. Len(fs) : fs[i] = x
                         \/ \E j \in 1 .. Len(b) : b[j] = x

Published == error = "OK" => Once(frames, batch, published)

Room == API_MAX_SEND_QUEUE >= 2 => error # "FULL"

IInv == Typed /\ Alive /\ Greeting /\ InStream /\ Published /\ Room

LEMMA NowTyped == Typed => Now \in Outcome /\ Now.err = "OK"
BY DEF Typed, Now, Outcome

LEMMA InitInv == Init => IInv
<1> SUFFICES ASSUME Init PROVE IInv
  OBVIOUS
<1>1. Typed
  BY EmptySeq, BacklogAssumption DEF Init, Typed
<1>2. Stream(Now) = <<>> /\ Written(0) = <<>>
  <2>1. Now.wire = <<>> /\ Now.backlog = <<>>
    BY DEF Init, Now
  <2>2. [k \in 1 .. 0 |-> Bytes(k)] = <<>>
    OBVIOUS
  <2> QED
    BY <2>1, <2>2, FlattenEmpty DEF Stream, Written
<1>3. InStream
  <2>1. Len(frames) = 0
    BY DEF Init
  <2>2. Begins(<<>>, <<>>)
    BY EmptySeq, BeginsItself
  <2> QED
    BY <1>2, <2>1, <2>2 DEF InStream
<1>4. Alive /\ Greeting /\ Room
  BY DEF Init, Alive, Greeting, Room
<1>5. Published
  BY DEF Init, Published, Once
<1> QED
  BY <1>1, <1>3, <1>4, <1>5 DEF IInv

\* A step that writes n frames keeps the stream in order.
LEMMA StaysInStream ==
  ASSUME Typed, InStream, error = "OK", NEW n \in Nat, NEW m,
         Writes(Held, Now, After(Len(frames), n), m),
         Len(frames') = Len(frames) + n
  PROVE  /\ InStream'
         /\ wire' \in Seq(Byte) /\ backlog' \in Seq(Seq(Byte) \ {<<>>})
         /\ Len(backlog') <= API_MAX_SEND_QUEUE
         /\ error' \in {"OK", "WRITE_FAILED", "FULL"}
<1>1. Now \in Outcome /\ Stream(Now) \in Seq(Byte) /\ Len(frames) \in Nat
  BY NowTyped, StreamTyped, LenProperties DEF Typed
<1>2. Written(Len(frames) + n) = Stream(Now) \o After(Len(frames), n)
  BY <1>1, WrittenMore DEF InStream
<1>3. Held \in Outcome /\ Held.wire = wire' /\ Held.backlog = backlog' /\ Held.err = error'
  BY DEF Writes, Held
<1>4. Now.backlog = backlog /\ (Now').wire = wire' /\ (Now').backlog = backlog'
  BY DEF Now
<1>5. Stream(Held) = Stream(Now)'
  BY <1>3, <1>4 DEF Stream
<1>6. /\ error' = "OK" => Stream(Held) = Stream(Now) \o After(Len(frames), n)
      /\ Begins(Stream(Held), Stream(Now) \o After(Len(frames), n))
      /\ Len(backlog) <= API_MAX_SEND_QUEUE => Len(backlog') <= API_MAX_SEND_QUEUE
  BY <1>3, <1>4 DEF Writes
<1>7. Written(Len(frames))' = Written(Len(frames) + n)
  BY DEF Written, Bytes
<1>8. InStream'
  BY <1>2, <1>5, <1>6, <1>7 DEF InStream, Begins
<1> QED
  BY <1>3, <1>6, <1>8 DEF Typed, Outcome

-----------------------------------------------------------------------------
(* The actions. *)

\* More items may be published: sequences of the old ones stay well typed.
LEMMA TypedMore ==
  ASSUME Typed, NEW n \in Nat, published <= n
  PROVE  frames \in Seq(0 .. n) /\ batch \in Seq(1 .. n)
<1>1. 0 .. published \subseteq 0 .. n /\ 1 .. published \subseteq 1 .. n
  BY DEF Typed
<1> QED
  BY <1>1, SeqMonotonic DEF Typed

\* What sending a message leaves to be shown about a step.
LEMMA SendKeeps ==
  ASSUME IInv, error = "OK", NEW n \in Nat, published <= n,
         NEW messages \in Seq(0 .. n), Len(messages) \in Nat \ {0},
         SendBuffer(messages)
  PROVE  /\ error' \in {"OK", "WRITE_FAILED"}
         /\ frames' \in {frames, frames \o messages} /\ frames' \in Seq(0 .. n)
         /\ wire' \in Seq(Byte) /\ backlog' \in Seq(Seq(Byte) \ {<<>>})
         /\ Len(backlog') <= API_MAX_SEND_QUEUE
         /\ InStream'
<1>1. frames \in Seq(0 .. n)
  BY TypedMore DEF IInv
<1>2. /\ Now \in Outcome /\ Len(frames) \in Nat /\ frames \o <<>> = frames
      /\ frames \o messages \in Seq(0 .. n)
      /\ Len(frames \o messages) = Len(frames) + Len(messages)
  BY <1>1, NowTyped, LenProperties, ConcatEmptySeq, ConcatProperties DEF IInv
<1>3. /\ error' # "FULL"
      /\ \/ frames' = frames /\ Writes(Held, Now, <<>>, 0)
         \/ /\ frames' = frames \o messages
            /\ Writes(Held, Now, After(Len(frames), Len(messages)), 1)
  BY <1>2, SendBufferWrites
<1>4. PICK k \in Nat, m \in {0, 1} : /\ Writes(Held, Now, After(Len(frames), k), m)
                          /\ Len(frames') = Len(frames) + k
  <2>1. CASE frames' = frames /\ Writes(Held, Now, <<>>, 0)
    <3>1. After(Len(frames), 0) = <<>> /\ 0 \in Nat /\ Len(frames') = Len(frames) + 0
      BY <1>2, <2>1, AfterTwo
    <3> QED
      BY <2>1, <3>1
  <2>2. CASE /\ frames' = frames \o messages
             /\ Writes(Held, Now, After(Len(frames), Len(messages)), 1)
    BY <1>2, <2>2
  <2> QED
    BY <1>3, <2>1, <2>2
<1>5. /\ InStream'
      /\ wire' \in Seq(Byte) /\ backlog' \in Seq(Seq(Byte) \ {<<>>})
      /\ Len(backlog') <= API_MAX_SEND_QUEUE
      /\ error' \in {"OK", "WRITE_FAILED", "FULL"}
  BY <1>4, StaysInStream DEF IInv
<1>6. frames' \in {frames, frames \o messages} /\ frames' \in Seq(0 .. n)
  BY <1>1, <1>2, <1>3
<1> QED
  BY <1>3, <1>5, <1>6

LEMMA LoopStep == IInv /\ Loop => IInv'
<1> SUFFICES ASSUME IInv, Loop PROVE IInv'
  OBVIOUS
<1>0. PICK n \in 0 .. (IF state = "DATA" THEN 0 ELSE 2 - Len(frames)) :
        \E o \in HelperLoop(n) :
          /\ Becomes(o, [i \in 1 .. n |-> 0])
          /\ state' = IF Len(frames) + n = 2 /\ o.err = "OK" THEN "DATA" ELSE state
          /\ phase' = IF o.err = "OK" THEN "flush" ELSE "idle"
  BY DEF Loop
<1>1. PICK o \in HelperLoop(n) :
        /\ Becomes(o, [i \in 1 .. n |-> 0])
        /\ state' = IF Len(frames) + n = 2 /\ o.err = "OK" THEN "DATA" ELSE state
        /\ phase' = IF o.err = "OK" THEN "flush" ELSE "idle"
  BY <1>0
<1>2. /\ state # "CLOSED" /\ error = "OK"
      /\ UNCHANGED <<batch, published, logs>>
  BY DEF Loop
<1>3. Len(frames) \in Nat /\ Len(backlog) \in Nat /\ Typed
  BY LenProperties DEF IInv, Typed
<1>4. /\ n \in 0 .. 2
      /\ n # 0 => state = "HANDSHAKE" /\ Len(frames) <= 1 /\ Len(backlog) <= Len(frames)
                  /\ Len(frames) + n <= 2
  BY <1>2, <1>3 DEF IInv, Greeting, Typed
<1>5. Now \in Outcome
  BY <1>3, NowTyped
<1>6. Writes(o, Now, After(Len(frames), n), n)
  BY <1>3, <1>4, <1>5, HelperLoopWrites
<1>7. /\ Held = o /\ error' = o.err /\ backlog' = o.backlog
      /\ frames' = frames \o [i \in 1 .. n |-> 0]
  BY <1>1, <1>6 DEF Becomes, Held, Writes, Outcome
<1>8. frames' \in Seq(0 .. published) /\ Len(frames') = Len(frames) + n
      /\ \A i \in 1 .. Len(frames') : frames'[i] = IF i <= Len(frames) THEN frames[i] ELSE 0
  <2> DEFINE zeros == [i \in 1 .. n |-> 0]
  <2>1. zeros \in Seq(0 .. published) /\ Len(zeros) = n
    BY <1>3, <1>4 DEF Typed
  <2>2. \A i \in 1 .. n : zeros[i] = 0
    OBVIOUS
  <2> HIDE DEF zeros
  <2>3. /\ frames \o zeros \in Seq(0 .. published)
        /\ Len(frames \o zeros) = Len(frames) + Len(zeros)
        /\ \A i \in 1 .. Len(frames) + Len(zeros) :
             (frames \o zeros)[i] = IF i <= Len(frames) THEN frames[i] ELSE zeros[i - Len(frames)]
    BY <1>3, <2>1, ConcatProperties DEF Typed
  <2>4. frames' = frames \o zeros
    BY <1>7 DEF zeros
  <2> QED
    BY <1>3, <1>4, <2>1, <2>2, <2>3, <2>4
<1>9. /\ InStream'
      /\ wire' \in Seq(Byte) /\ backlog' \in Seq(Seq(Byte) \ {<<>>})
      /\ Len(backlog') <= API_MAX_SEND_QUEUE
      /\ error' \in {"OK", "WRITE_FAILED", "FULL"}
  BY <1>2, <1>3, <1>4, <1>6, <1>7, <1>8, StaysInStream DEF IInv
<1>10. Typed'
  BY <1>1, <1>2, <1>3, <1>8, <1>9 DEF Typed
<1>11. Alive'
  BY <1>1, <1>2, <1>7 DEF Alive
<1>12. error' = "OK" => Len(backlog') <= Len(backlog) + n
  BY <1>6, <1>7 DEF Writes, Now
<1>13. Greeting'
  <2> SUFFICES ASSUME state' = "HANDSHAKE"
               PROVE  /\ batch' = <<>>
                      /\ error' = "OK" => Len(frames') <= 1 /\ Len(backlog') <= Len(frames')
    BY DEF Greeting
  <2>1. state = "HANDSHAKE"
    BY <1>1
  <2>2. batch' = <<>> /\ Len(frames) <= 1 /\ Len(backlog) <= Len(frames)
    BY <1>2, <2>1 DEF IInv, Greeting
  <2>3. ASSUME error' = "OK" PROVE Len(frames) + n # 2
    BY <1>1, <1>7, <2>3
  <2>4. Len(backlog') \in Nat
    BY <1>9, LenProperties
  <2> QED
    BY <1>3, <1>4, <1>8, <1>12, <2>1, <2>2, <2>3, <2>4
<1>14. Published'
  <2> SUFFICES ASSUME error' = "OK" PROVE Once(frames', batch', published')
    BY DEF Published
  <2>1. Once(frames, batch, published)
    BY <1>2 DEF IInv, Published
  <2>2. \A x \in 1 .. published : x # 0
    BY <1>3 DEF Typed
  <2>3. \A j \in 1 .. Len(batch) : batch[j] # 0
    <3>1. \A j \in 1 .. Len(batch) : batch[j] \in 1 .. published
      BY <1>3, ElementOfSeq DEF Typed
    <3> QED
      BY <2>2, <3>1
  <2>4. \A i \in 1 .. Len(frames) : i \in 1 .. Len(frames') /\ frames'[i] = frames[i]
    BY <1>3, <1>4, <1>8
  <2>5. \A i \in 1 .. Len(frames') :
          frames'[i] = 0 \/ (i \in 1 .. Len(frames) /\ frames'[i] = frames[i])
    BY <1>3, <1>4, <1>8
  <2> QED
    BY <1>2, <2>1, <2>3, <2>4, <2>5 DEF Once
<1>15. Room'
  <2> SUFFICES ASSUME API_MAX_SEND_QUEUE >= 2, error' = "FULL" PROVE FALSE
    BY DEF Room
  <2>1. Len(backlog) + n > API_MAX_SEND_QUEUE
    BY <1>6, <1>7 DEF Writes, Now
  <2> QED
    BY <1>3, <1>4, <2>1, BacklogAssumption DEF Typed
<1> QED
  BY <1>9, <1>10, <1>11, <1>13, <1>14, <1>15 DEF IInv

\* The first n items of the batch are written.
LEMMA OnceFlushed ==
  ASSUME NEW p \in Nat, NEW fs \in Seq(0 .. p), NEW b \in Seq(1 .. p),
         NEW n \in 1 .. Len(b), Once(fs, b, p)
  PROVE  Once(fs \o SubSeq(b, 1, n), SubSeq(b, n + 1, Len(b)), p)
<1> DEFINE g == fs \o SubSeq(b, 1, n)
           c == SubSeq(b, n + 1, Len(b))
           l == Len(fs)
           m == Len(b)
<1>1. l \in Nat /\ m \in Nat /\ n \in Nat /\ n <= m
  BY LenProperties
<1>2. Len(g) = l + n /\ Len(c) = m - n
  BY <1>1
<1>3. \A i \in 1 .. l : i \in 1 .. Len(g) /\ g[i] = fs[i]
  BY <1>1
<1>4. \A i \in 1 .. n : l + i \in 1 .. Len(g) /\ g[l + i] = b[i]
  BY <1>1
<1>5. \A j \in 1 .. m - n : c[j] = b[n + j]
  BY <1>1
<1>6. \A i \in 1 .. l : fs[i] \in 0 .. p
  BY ElementOfSeq
<1> HIDE DEF g, c, l, m
<1>7. \A i \in 1 .. Len(g) :
        \/ i \in 1 .. l /\ g[i] = fs[i]
        \/ i - l \in 1 .. n /\ i - l \in 1 .. m /\ g[i] = b[i - l]
  <2> TAKE i \in 1 .. Len(g)
  <2>1. CASE i <= l
    BY <1>1, <1>2, <1>3, <2>1
  <2>2. CASE i > l
    <3>1. i - l \in 1 .. n /\ i - l \in 1 .. m /\ l + (i - l) = i
      BY <1>1, <1>2, <2>2
    <3> QED
      BY <1>4, <3>1
  <2> QED
    BY <1>1, <1>2, <2>1, <2>2
<1>8. \A j \in 1 .. Len(c) : n + j \in 1 .. m /\ c[j] = b[n + j] /\ n + j > n
  BY <1>1, <1>2, <1>5
<1>o. /\ \A i, j \in 1 .. l : fs[i] = fs[j] /\ fs[i] # 0 => i = j
      /\ \A i, j \in 1 .. m : b[i] = b[j] => i = j
      /\ \A i \in 1 .. l, j \in 1 .. m : fs[i] # b[j]
      /\ \A x \in 1 .. p : \/ \E i \in 1 .. l : fs[i] = x
                           \/ \E j \in 1 .. m : b[j] = x
  BY DEF Once, l, m
<1>9. ASSUME NEW i \in 1 .. Len(g), NEW j \in 1 .. Len(g), g[i] = g[j], g[i] # 0
      PROVE  i = j
  <2>1. CASE i \in 1 .. l /\ g[i] = fs[i] /\ j \in 1 .. l /\ g[j] = fs[j]
    BY <1>9, <1>o, <2>1
  <2>2. CASE i - l \in 1 .. m /\ g[i] = b[i - l] /\ j - l \in 1 .. m /\ g[j] = b[j - l]
    <3>1. i - l = j - l
      BY <1>9, <1>o, <2>2
    <3>2. i \in Int /\ j \in Int
      BY <1>1, <1>2
    <3> QED
      BY <1>1, <3>1, <3>2
  <2>3. CASE i \in 1 .. l /\ g[i] = fs[i] /\ j - l \in 1 .. m /\ g[j] = b[j - l]
    BY <1>9, <1>o, <2>3
  <2>4. CASE j \in 1 .. l /\ g[j] = fs[j] /\ i - l \in 1 .. m /\ g[i] = b[i - l]
    BY <1>9, <1>o, <2>4
  <2> QED
    BY <1>7, <2>1, <2>2, <2>3, <2>4
<1>10. ASSUME NEW i \in 1 .. Len(c), NEW j \in 1 .. Len(c), c[i] = c[j]
       PROVE  i = j
  <2>1. n + i = n + j
    BY <1>8, <1>10, <1>o
  <2> QED
    BY <1>1, <1>2, <2>1
<1>11. ASSUME NEW i \in 1 .. Len(g), NEW j \in 1 .. Len(c) PROVE g[i] # c[j]
  <2>1. n + j \in 1 .. m /\ c[j] = b[n + j] /\ n + j > n
    BY <1>8
  <2>2. CASE i \in 1 .. l /\ g[i] = fs[i]
    BY <1>o, <2>1, <2>2
  <2>3. CASE i - l \in 1 .. n /\ i - l \in 1 .. m /\ g[i] = b[i - l]
    <3>1. i - l # n + j
      BY <1>1, <2>1, <2>3
    <3> QED
      BY <1>o, <2>1, <2>3, <3>1
  <2> QED
    BY <1>7, <2>2, <2>3
<1>12. ASSUME NEW x \in 1 .. p
       PROVE  \/ \E i \in 1 .. Len(g) : g[i] = x
              \/ \E j \in 1 .. Len(c) : c[j] = x
  <2>1. CASE \E i \in 1 .. l : fs[i] = x
    BY <1>3, <2>1
  <2>2. CASE \E j \in 1 .. m : b[j] = x
    <3>1. PICK j \in 1 .. m : b[j] = x
      BY <2>2
    <3>2. CASE j <= n
      <4>1. j \in 1 .. n
        BY <1>1, <3>2
      <4> QED
        BY <1>4, <3>1, <4>1
    <3>3. CASE j > n
      <4>1. j - n \in 1 .. m - n /\ n + (j - n) = j
        BY <1>1, <3>3
      <4>2. c[j - n] = b[j] /\ j - n \in 1 .. Len(c)
        BY <1>2, <1>5, <4>1
      <4> QED
        BY <3>1, <4>2
    <3> QED
      BY <1>1, <3>2, <3>3
  <2> QED
    BY <1>o, <2>1, <2>2
<1>13. Once(g, c, p)
  BY <1>9, <1>10, <1>11, <1>12 DEF Once
<1> QED
  BY <1>13 DEF g, c

\* A new item is written at once, or put into the batch.
LEMMA OncePublished ==
  ASSUME NEW p \in Nat, NEW fs \in Seq(0 .. p), NEW b \in Seq(1 .. p), Once(fs, b, p)
  PROVE  Once(fs \o <<p + 1>>, b, p + 1) /\ Once(fs, Append(b, p + 1), p + 1)
<1> DEFINE g == fs \o <<p + 1>>
           c == Append(b, p + 1)
           l == Len(fs)
           m == Len(b)
<1>1. l \in Nat /\ m \in Nat
  BY LenProperties
<1>2. /\ Len(g) = l + 1 /\ g[l + 1] = p + 1 /\ \A i \in 1 .. l : g[i] = fs[i]
      /\ Len(c) = m + 1 /\ c[m + 1] = p + 1 /\ \A j \in 1 .. m : c[j] = b[j]
  BY <1>1
<1>3. /\ \A i \in 1 .. l : fs[i] # p + 1
      /\ \A j \in 1 .. m : b[j] # p + 1
  <2>1. /\ \A i \in 1 .. l : fs[i] \in 0 .. p
        /\ \A j \in 1 .. m : b[j] \in 1 .. p
    BY ElementOfSeq
  <2>2. p + 1 \notin 0 .. p /\ p + 1 \notin 1 .. p
    OBVIOUS
  <2> QED
    BY <2>1, <2>2
<1> HIDE DEF g, c, l, m
<1>4. /\ \A i \in 1 .. l + 1 : i \in 1 .. l \/ i = l + 1
      /\ \A j \in 1 .. m + 1 : j \in 1 .. m \/ j = m + 1
      /\ l + 1 \in 1 .. l + 1 /\ m + 1 \in 1 .. m + 1
      /\ \A i \in 1 .. l : i \in 1 .. l + 1
      /\ \A j \in 1 .. m : j \in 1 .. m + 1
      /\ \A x \in 1 .. p + 1 : x \in 1 .. p \/ x = p + 1
  BY <1>1
<1>o. /\ \A i, j \in 1 .. l : fs[i] = fs[j] /\ fs[i] # 0 => i = j
      /\ \A i, j \in 1 .. m : b[i] = b[j] => i = j
      /\ \A i \in 1 .. l, j \in 1 .. m : fs[i] # b[j]
      /\ \A x \in 1 .. p : \/ \E i \in 1 .. l : fs[i] = x
                           \/ \E j \in 1 .. m : b[j] = x
  BY DEF Once, l, m
<1>5. Once(g, b, p + 1)
  <2>0. \A i \in 1 .. Len(g) :
          (i \in 1 .. l /\ g[i] = fs[i]) \/ (i = l + 1 /\ g[i] = p + 1)
    BY <1>2, <1>4
  <2>1. \A i, j \in 1 .. Len(g) : g[i] = g[j] /\ g[i] # 0 => i = j
    <3> TAKE i, j \in 1 .. Len(g)
    <3> HAVE g[i] = g[j] /\ g[i] # 0
    <3>1. CASE i \in 1 .. l /\ g[i] = fs[i] /\ j \in 1 .. l /\ g[j] = fs[j]
      BY <1>o, <3>1
    <3>2. CASE i = l + 1 /\ g[i] = p + 1 /\ j = l + 1 /\ g[j] = p + 1
      BY <3>2
    <3>3. CASE i \in 1 .. l /\ g[i] = fs[i] /\ j = l + 1 /\ g[j] = p + 1
      BY <1>3, <3>3
    <3>4. CASE j \in 1 .. l /\ g[j] = fs[j] /\ i = l + 1 /\ g[i] = p + 1
      BY <1>3, <3>4
    <3> QED
      BY <2>0, <3>1, <3>2, <3>3, <3>4
  <2>2. \A i \in 1 .. Len(g), j \in 1 .. m : g[i] # b[j]
    <3> TAKE i \in 1 .. Len(g), j \in 1 .. m
    <3>1. CASE i \in 1 .. l /\ g[i] = fs[i]
      BY <1>o, <3>1
    <3>2. CASE i = l + 1 /\ g[i] = p + 1
      BY <1>3, <3>2
    <3> QED
      BY <2>0, <3>1, <3>2
  <2>3. \A x \in 1 .. p + 1 : \/ \E i \in 1 .. Len(g) : g[i] = x
                              \/ \E j \in 1 .. m : b[j] = x
    BY <1>2, <1>4, <1>o
  <2> QED
    BY <1>o, <2>1, <2>2, <2>3 DEF Once, m
<1>6. Once(fs, c, p + 1)
  <2>1. \A i, j \in 1 .. Len(c) : c[i] = c[j] => i = j
    BY <1>2, <1>3, <1>4, <1>o
  <2>2. \A i \in 1 .. l, j \in 1 .. Len(c) : fs[i] # c[j]
    BY <1>2, <1>3, <1>4, <1>o
  <2>3. \A x \in 1 .. p + 1 : \/ \E i \in 1 .. l : fs[i] = x
                              \/ \E j \in 1 .. Len(c) : c[j] = x
    BY <1>2, <1>4, <1>o
  <2> QED
    BY <1>o, <2>1, <2>2, <2>3 DEF Once, l
<1> QED
  BY <1>5, <1>6 DEF g, c

\* A frame without an item is written.
LEMMA OnceOther ==
  ASSUME NEW p \in Nat, NEW fs \in Seq(0 .. p), NEW b \in Seq(1 .. p), Once(fs, b, p)
  PROVE  Once(fs \o <<0>>, b, p)
<1> DEFINE g == fs \o <<0>>
           l == Len(fs)
<1>1. l \in Nat
  BY LenProperties
<1>2. Len(g) = l + 1 /\ g[l + 1] = 0 /\ \A i \in 1 .. l : g[i] = fs[i]
  BY <1>1
<1>3. \A j \in 1 .. Len(b) : b[j] # 0
  <2>1. \A j \in 1 .. Len(b) : b[j] \in 1 .. p
    BY ElementOfSeq
  <2> QED
    BY <2>1
<1> HIDE DEF g, l
<1>4. /\ \A i \in 1 .. l + 1 : i \in 1 .. l \/ i = l + 1
      /\ \A i \in 1 .. l : i \in 1 .. l + 1
  BY <1>1
<1>o. /\ \A i, j \in 1 .. l : fs[i] = fs[j] /\ fs[i] # 0 => i = j
      /\ \A i, j \in 1 .. Len(b) : b[i] = b[j] => i = j
      /\ \A i \in 1 .. l, j \in 1 .. Len(b) : fs[i] # b[j]
      /\ \A x \in 1 .. p : \/ \E i \in 1 .. l : fs[i] = x
                           \/ \E j \in 1 .. Len(b) : b[j] = x
  BY DEF Once, l
<1>5. Once(g, b, p)
  <2>0. \A i \in 1 .. Len(g) : (i \in 1 .. l /\ g[i] = fs[i]) \/ g[i] = 0
    BY <1>2, <1>4
  <2>1. \A i, j \in 1 .. Len(g) : g[i] = g[j] /\ g[i] # 0 => i = j
    BY <1>o, <2>0
  <2>2. \A i \in 1 .. Len(g), j \in 1 .. Len(b) : g[i] # b[j]
    BY <1>3, <1>o, <2>0
  <2>3. \A x \in 1 .. p : \/ \E i \in 1 .. Len(g) : g[i] = x
                          \/ \E j \in 1 .. Len(b) : b[j] = x
    BY <1>2, <1>4, <1>o
  <2> QED
    BY <1>o, <2>1, <2>2, <2>3 DEF Once
<1> QED
  BY <1>5 DEF g

LEMMA FlushStep == IInv /\ Flush => IInv'
<1> SUFFICES ASSUME IInv, Flush PROVE IInv'
  OBVIOUS
<1>1. /\ phase = "flush" /\ phase' = "idle" /\ error = "OK" /\ state \in {"HANDSHAKE", "DATA"}
      /\ UNCHANGED <<state, published, logs>>
  BY DEF Flush, IInv, Alive, Typed
<1>2. CASE UNCHANGED <<sending, batch>>
  BY <1>1, <1>2 DEF sending, IInv, Typed, Alive, Greeting, InStream, Published, Room, Now,
                    Stream, Written, Bytes
<1>3. ASSUME NEW n \in 1 .. MAX_MESSAGES_PER_BATCH, n <= Len(batch),
             SendBuffer(SubSeq(batch, 1, n)),
             batch' = IF frames' = frames \/ (Len(batch) = 1 /\ error' # "OK") THEN batch
                      ELSE SubSeq(batch, n + 1, Len(batch))
      PROVE  IInv'
  <2> DEFINE messages == SubSeq(batch, 1, n)
             rest == SubSeq(batch, n + 1, Len(batch))
  <2>1. /\ published \in Nat /\ frames \in Seq(0 .. published)
        /\ batch \in Seq(1 .. published) /\ Len(batch) \in Nat
        /\ \A j \in 1 .. Len(batch) : batch[j] \in 1 .. published
    BY LenProperties, ElementOfSeq DEF IInv, Typed
  <2>2. n \in Nat /\ n \in 1 .. Len(batch) /\ MAX_MESSAGES_PER_BATCH \in Nat
    BY <1>3, <2>1, BacklogAssumption
  <2>3. messages \in Seq(0 .. published) /\ Len(messages) = n /\ n \in Nat \ {0}
    <3>1. \A j \in 1 .. n : batch[j] \in 0 .. published
      BY <2>1, <2>2
    <3> QED
      BY <2>2, <3>1, SubSeqProperties
  <2>4. rest \in Seq(1 .. published)
    <3>1. n + 1 \in Int /\ Len(batch) \in Int /\ \A j \in n + 1 .. Len(batch) : batch[j] \in 1 .. published
      BY <2>1, <2>2
    <3> QED
      BY <3>1, SubSeqProperties
  <2>5. /\ error' \in {"OK", "WRITE_FAILED"}
        /\ frames' \in {frames, frames \o messages} /\ frames' \in Seq(0 .. published)
        /\ wire' \in Seq(Byte) /\ backlog' \in Seq(Seq(Byte) \ {<<>>})
        /\ Len(backlog') <= API_MAX_SEND_QUEUE
        /\ InStream'
    <3>1. published <= published
      BY <2>1
    <3> HIDE DEF messages
    <3>2. SendBuffer(messages)
      BY <1>3 DEF messages
    <3> QED
      BY <1>1, <2>1, <2>3, <3>1, <3>2, SendKeeps
  <2>6. batch' \in {batch, rest}
    BY <1>3
  <2>7. Typed'
    BY <1>1, <2>1, <2>4, <2>5, <2>6 DEF IInv, Typed
  <2>8. state = "DATA"
    BY <1>1, <2>2 DEF IInv, Greeting
  <2>9. Alive' /\ Greeting' /\ Room'
    BY <1>1, <2>5, <2>8 DEF Alive, Greeting, Room
  <2>10. Published'
    <3> SUFFICES ASSUME error' = "OK" PROVE Once(frames', batch', published')
      BY DEF Published
    <3>1. Once(frames, batch, published)
      BY <1>1 DEF IInv, Published
    <3>2. CASE frames' = frames
      BY <1>1, <1>3, <3>1, <3>2
    <3>3. CASE frames' # frames
      <4>1. frames' = frames \o messages /\ batch' = rest
        BY <1>3, <2>5, <3>3
      <4>2. Once(frames \o messages, rest, published)
        BY <2>1, <2>2, <3>1, OnceFlushed
      <4> HIDE DEF messages, rest
      <4> QED
        BY <1>1, <4>1, <4>2
    <3> QED
      BY <3>2, <3>3
  <2> QED
    BY <2>5, <2>7, <2>9, <2>10 DEF IInv
<1> QED
  BY <1>2, <1>3 DEF Flush

LEMMA PublishStep == IInv /\ Publish => IInv'
<1> SUFFICES ASSUME IInv, Publish PROVE IInv'
  OBVIOUS
<1>1. /\ state = "DATA" /\ error = "OK" /\ phase = "idle" /\ published' = published + 1
      /\ UNCHANGED <<state, phase, logs>>
      /\ batch' = IF frames' # frames /\ error' = "OK" THEN batch
                  ELSE Append(batch, published')
  BY DEF Publish
<1>2. /\ published \in Nat /\ published' \in Nat /\ published <= published'
      /\ frames \in Seq(0 .. published) /\ batch \in Seq(1 .. published)
      /\ frames \in Seq(0 .. published') /\ batch \in Seq(1 .. published')
      /\ published' \in 1 .. published' /\ published' \in 0 .. published'
  <2>1. published \in Nat
    BY DEF IInv, Typed
  <2>2. published' \in Nat /\ published <= published'
    BY <1>1, <2>1
  <2> QED
    BY <1>1, <2>1, <2>2, TypedMore DEF IInv, Typed
<1>3. /\ error' \in {"OK", "WRITE_FAILED"}
      /\ frames' \in {frames, frames \o <<published'>>} /\ frames' \in Seq(0 .. published')
      /\ wire' \in Seq(Byte) /\ backlog' \in Seq(Seq(Byte) \ {<<>>})
      /\ Len(backlog') <= API_MAX_SEND_QUEUE
      /\ InStream'
  <2>1. CASE SendBuffer(<<published'>>)
    <3>1. <<published'>> \in Seq(0 .. published') /\ Len(<<published'>>) \in Nat \ {0}
      BY <1>2
    <3> QED
      BY <1>1, <1>2, <2>1, <3>1, SendKeeps
  <2>2. CASE UNCHANGED sending
    BY <1>1, <1>2, <2>2 DEF sending, IInv, Typed, InStream, Now, Stream, Written, Bytes
  <2> QED
    BY <2>1, <2>2 DEF Publish
<1>4. batch' \in Seq(1 .. published')
  BY <1>1, <1>2, AppendProperties
<1>5. Typed'
  BY <1>1, <1>2, <1>3, <1>4 DEF IInv, Typed
<1>6. Alive' /\ Greeting' /\ Room'
  BY <1>1, <1>3 DEF Alive, Greeting, Room
<1>7. Published'
  <2> SUFFICES ASSUME error' = "OK" PROVE Once(frames', batch', published')
    BY DEF Published
  <2>1. Once(frames, batch, published)
    BY <1>1 DEF IInv, Published
  <2>2. Once(frames \o <<published'>>, batch, published')
        /\ Once(frames, Append(batch, published'), published')
    BY <1>1, <1>2, <2>1, OncePublished
  <2>3. CASE frames' = frames
    BY <1>1, <2>2, <2>3
  <2>4. CASE frames' # frames
    BY <1>1, <1>3, <2>2, <2>4
  <2> QED
    BY <2>3, <2>4
<1> QED
  BY <1>3, <1>5, <1>6, <1>7 DEF IInv

LEMMA SendLogStep == IInv /\ SendLog => IInv'
<1> SUFFICES ASSUME IInv, SendLog PROVE IInv'
  OBVIOUS
<1>1. /\ state = "DATA" /\ error = "OK" /\ logs < Logs /\ logs' = logs + 1
      /\ SendBuffer(<<0>>)
      /\ phase' = IF error' = "OK" THEN phase ELSE "idle"
      /\ UNCHANGED <<state, batch, published>>
  BY DEF SendLog
<1>2. /\ published \in Nat /\ published <= published
      /\ frames \in Seq(0 .. published) /\ batch \in Seq(1 .. published)
      /\ logs' \in 0 .. Logs
  BY <1>1, BacklogAssumption DEF IInv, Typed
<1>3. /\ error' \in {"OK", "WRITE_FAILED"}
      /\ frames' \in {frames, frames \o <<0>>} /\ frames' \in Seq(0 .. published)
      /\ wire' \in Seq(Byte) /\ backlog' \in Seq(Seq(Byte) \ {<<>>})
      /\ Len(backlog') <= API_MAX_SEND_QUEUE
      /\ InStream'
  <2>1. <<0>> \in Seq(0 .. published) /\ Len(<<0>>) \in Nat \ {0}
    BY <1>2
  <2> QED
    BY <1>1, <1>2, <2>1, SendKeeps
<1>4. Typed'
  BY <1>1, <1>2, <1>3 DEF IInv, Typed
<1>5. Alive' /\ Greeting' /\ Room'
  BY <1>1, <1>3 DEF Alive, Greeting, Room
<1>6. Published'
  <2> SUFFICES ASSUME error' = "OK" PROVE Once(frames', batch', published')
    BY DEF Published
  <2>1. Once(frames, batch, published)
    BY <1>1 DEF IInv, Published
  <2>2. Once(frames \o <<0>>, batch, published)
    BY <1>2, <2>1, OnceOther
  <2> QED
    BY <1>1, <1>3, <2>1, <2>2
<1> QED
  BY <1>3, <1>4, <1>5, <1>6 DEF IInv

LEMMA FatalErrorStep == IInv /\ FatalError => IInv'
<1> SUFFICES ASSUME IInv, FatalError PROVE IInv'
  OBVIOUS
<1> QED
  BY DEF FatalError, IInv, Typed, Alive, Greeting, InStream, Published, Room, Now,
         Stream, Written, Bytes

\* The entries that are freed were the end of what the client would have got.
LEMMA RemoveClientStep == IInv /\ RemoveClient => IInv'
<1> SUFFICES ASSUME IInv, RemoveClient PROVE IInv'
  OBVIOUS
<1>1. /\ state # "CLOSED" /\ error # "OK" /\ state' = "CLOSED" /\ phase' = "idle"
      /\ backlog' = <<>> /\ UNCHANGED <<error, frames, wire, batch, published, logs>>
  BY DEF RemoveClient
<1>2. Now \in Outcome /\ Now.wire = wire /\ wire \in Seq(Byte)
  BY NowTyped DEF IInv, Typed, Now
<1>3. Stream(Now)' = wire
  <2>1. (Now').wire = wire /\ (Now').backlog = <<>>
    BY <1>1 DEF Now
  <2> QED
    BY <1>2, <2>1, FlattenEmpty, ConcatEmptySeq DEF Stream
<1>4. Begins(wire, Written(Len(frames)))
  <2>1. Begins(wire, Stream(Now)) /\ Stream(Now) \in Seq(Byte)
    BY <1>2, StreamTyped DEF Stream, Begins
  <2> QED
    BY <1>2, <2>1, BeginsTransitive DEF IInv, InStream
<1>5. InStream'
  <2>1. Written(Len(frames))' = Written(Len(frames))
    BY <1>1 DEF Written, Bytes
  <2> QED
    BY <1>1, <1>3, <1>4, <2>1 DEF InStream
<1>6. Typed'
  <2>1. <<>> \in Seq(Seq(Byte) \ {<<>>}) /\ Len(<<>>) <= API_MAX_SEND_QUEUE
    BY EmptySeq, BacklogAssumption
  <2> QED
    BY <1>1, <2>1 DEF IInv, Typed
<1>7. Alive' /\ Greeting' /\ Published' /\ Room'
  BY <1>1 DEF IInv, Alive, Greeting, Published, Room
<1> QED
  BY <1>5, <1>6, <1>7 DEF IInv

LEMMA StutterStep == IInv /\ UNCHANGED vars => IInv'
BY DEF vars, sending, IInv, Typed, Alive, Greeting, InStream, Published, Room, Now,
       Stream, Written, Bytes

LEMMA Always == Spec => []IInv
<1>1. IInv /\ [Next]_vars => IInv'
  BY LoopStep, FlushStep, PublishStep, SendLogStep, FatalErrorStep, RemoveClientStep,
     StutterStep DEF Next
<1> QED
  BY InitInv, <1>1, PTL DEF Spec

-----------------------------------------------------------------------------
(* The theorems. *)

\* Every variable has its type, the overflow buffer holds no more than its
\* capacity, and none of its entries is empty.
THEOREM TypeCorrect == Spec => []TypeOK
<1>1. IInv => TypeOK
  <2> SUFFICES ASSUME IInv PROVE TypeOK
    OBVIOUS
  <2>1. \A i \in 1 .. Len(backlog) : backlog[i] \in Seq(Byte) \ {<<>>}
    BY ElementOfSeq DEF IInv, Typed
  <2> QED
    BY <2>1 DEF IInv, Typed, TypeOK
<1> QED
  BY <1>1, Always, PTL

\* Whatever part of each write the socket takes, what it has taken and what
\* waits in the overflow buffer (write_raw_iov_, write_raw_fast_buf_,
\* try_drain) is the frames written, one after the other, without a gap and
\* without a byte twice; after an error it is the beginning of them.
THEOREM FramesStayInOrder == Spec => []StreamInOrder
<1>1. IInv => StreamInOrder
  <2> SUFFICES ASSUME IInv PROVE StreamInOrder
    OBVIOUS
  <2>1. Stream(Now) = wire \o FlattenSeq(backlog)
    BY DEF Stream, Now
  <2>2. Written(Len(frames)) = FlattenSeq([k \in 1 .. Len(frames) |-> Bytes(k)])
    BY DEF Written
  <2>3. Stream(Now) \in Seq(Byte) /\ Written(Len(frames)) \in Seq(Byte)
    BY NowTyped, StreamTyped, LenProperties, WrittenTyped DEF IInv, Typed
  <2>4. IsPrefix(Stream(Now), Written(Len(frames)))
    BY <2>3, BeginsIsPrefix DEF IInv, InStream
  <2> QED
    BY <2>1, <2>2, <2>4 DEF IInv, InStream, StreamInOrder
<1> QED
  BY <1>1, Always, PTL

\* "Overflow buffer full, dropping connection" is never reached, if the buffer
\* has two entries or more, as on every platform unless it is configured to be
\* one.
THEOREM OverflowIsNeverFull ==
  ASSUME API_MAX_SEND_QUEUE >= 2
  PROVE  Spec => []NeverFull
<1>1. IInv => NeverFull
  BY DEF IInv, Room, NeverFull
<1> QED
  BY <1>1, Always, PTL

\* On a connection that is kept each item published is in the batch or has
\* been written, and only once (send_message_smart_, process_batch_).
THEOREM ItemsAreSentOnce == Spec => []OnceEach
<1>1. IInv => OnceEach
  <2> SUFFICES ASSUME IInv, error = "OK", NEW x \in 1 .. published
               PROVE  Cardinality({k \in 1 .. Len(frames) : frames[k] = x})
                        + Cardinality({k \in 1 .. Len(batch) : batch[k] = x}) = 1
    BY DEF OnceEach
  <2> DEFINE inFrames == {k \in 1 .. Len(frames) : frames[k] = x}
             inBatch == {k \in 1 .. Len(batch) : batch[k] = x}
  <2>1. Once(frames, batch, published) /\ x # 0
    BY DEF IInv, Published, Typed
  <2>2. \A k : Cardinality({k}) = 1
    BY FS_Singleton
  <2>3. Cardinality({}) = 0
    BY FS_EmptySet
  <2>4. CASE \E i \in 1 .. Len(frames) : frames[i] = x
    <3>1. PICK i \in 1 .. Len(frames) : frames[i] = x
      BY <2>4
    <3>2. inFrames = {i} /\ inBatch = {}
      BY <2>1, <3>1 DEF Once
    <3> HIDE DEF inFrames, inBatch
    <3>3. Cardinality(inFrames) = 1 /\ Cardinality(inBatch) = 0
      BY <2>2, <2>3, <3>2
    <3>4. Cardinality(inFrames) + Cardinality(inBatch) = 1
      BY <3>3
    <3> QED
      BY <3>4 DEF inFrames, inBatch
  <2>5. CASE \E j \in 1 .. Len(batch) : batch[j] = x
    <3>1. PICK j \in 1 .. Len(batch) : batch[j] = x
      BY <2>5
    <3>2. inFrames = {} /\ inBatch = {j}
      BY <2>1, <3>1 DEF Once
    <3> HIDE DEF inFrames, inBatch
    <3>3. Cardinality(inFrames) = 0 /\ Cardinality(inBatch) = 1
      BY <2>2, <2>3, <3>2
    <3>4. Cardinality(inFrames) + Cardinality(inBatch) = 1
      BY <3>3
    <3> QED
      BY <3>4 DEF inFrames, inBatch
  <2> QED
    BY <2>1, <2>4, <2>5 DEF Once
<1> QED
  BY <1>1, Always, PTL

=============================================================================
