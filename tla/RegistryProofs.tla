--------------------------- MODULE RegistryProofs ---------------------------
(***************************************************************************)
(* Proofs about the entity registry, for every capacity, field length and  *)
(* set of keys and texts.                                                  *)
(***************************************************************************)
EXTENDS Registry, SequenceTheorems, WellFoundedInduction, TLAPS

-----------------------------------------------------------------------------
(* The search from the front. *)

\* First(S) is a member of a non-empty set of indices, and its least.
LEMMA FirstLeast ==
  ASSUME NEW S \in SUBSET Nat, S # {}
  PROVE  First(S) \in S /\ \A j \in S : First(S) <= j
<1> DEFINE R == {ss \in Nat \X Nat : ss[1] < ss[2]}
<1>1. IsWellFoundedOn(R, Nat)
  BY NatLessThanWellFounded DEF OpToRel
<1>2. \A x, y \in Nat : <<x, y>> \in R <=> x < y
  OBVIOUS
<1> HIDE DEF R
<1>3. PICK i \in S : \A j \in S : ~ (<<j, i>> \in R)
  BY <1>1, WFMin
<1>4. ASSUME NEW j \in S PROVE i <= j
  <2>1. i \in Nat /\ j \in Nat
    OBVIOUS
  <2>2. ~ (<<j, i>> \in R)
    BY <1>3
  <2>3. ~ (j < i)
    BY <1>2, <2>1, <2>2
  <2> QED
    BY <2>1, <2>3
<1> QED
  BY <1>4 DEF First

\* The least element is the only one that is below all others.
LEMMA FirstUnique ==
  ASSUME NEW S \in SUBSET Nat, NEW i \in S, \A j \in S : i <= j
  PROVE  First(S) = i
<1>1. First(S) \in S /\ First(S) <= i
  BY FirstLeast
<1>2. i <= First(S)
  BY <1>1
<1>3. First(S) \in Nat /\ i \in Nat
  BY <1>1
<1> QED
  BY <1>1, <1>2, <1>3

\* A search for a name that some slot has finds the first such slot, and a
\* search for a key likewise.
LEMMA FirstWithName ==
  ASSUME NEW r \in Seq(EntrySet), NEW i \in 1 .. Len(r)
  PROVE  LET f == First(WithName(r, r[i].object_id))
         IN  /\ f \in 1 .. Len(r) /\ f <= i
             /\ r[f].object_id = r[i].object_id
             /\ \A j \in 1 .. Len(r) : r[j].object_id = r[i].object_id => f <= j
<1> DEFINE S == WithName(r, r[i].object_id)
<1>1. S \in SUBSET Nat /\ i \in S
  BY DEF WithName
<1>2. First(S) \in S /\ \A j \in S : First(S) <= j
  BY <1>1, FirstLeast
<1> QED
  BY <1>1, <1>2 DEF WithName

LEMMA FirstWithKey ==
  ASSUME NEW r \in Seq(EntrySet), NEW i \in 1 .. Len(r)
  PROVE  LET f == First(WithKey(r, r[i].key))
         IN  /\ f \in 1 .. Len(r) /\ f <= i
             /\ r[f].key = r[i].key
             /\ \A j \in 1 .. Len(r) : r[j].key = r[i].key => f <= j
<1> DEFINE S == WithKey(r, r[i].key)
<1>1. S \in SUBSET Nat /\ i \in S
  BY DEF WithKey
<1>2. First(S) \in S /\ \A j \in S : First(S) <= j
  BY <1>1, FirstLeast
<1> QED
  BY <1>1, <1>2 DEF WithKey

-----------------------------------------------------------------------------
(* What the two operations of the registry do to its slots. *)

\* esph_registry_add with a free slot: the new entity takes the next slot,
\* without a state, and the slots before it stay as they are.
LEMMA AddShape ==
  ASSUME NEW r \in Seq(EntrySet), Len(r) < MAX_ENTITIES,
         NEW name \in Text, NEW key \in Key, NEW type \in Type
  PROVE  LET q == esph_registry_add(r, name, key, type)
         IN  /\ q \in Seq(EntrySet)
             /\ Len(q) = Len(r) + 1
             /\ q[Len(r) + 1].object_id = Clip(name)
             /\ q[Len(r) + 1].key = key
             /\ q[Len(r) + 1].state = NoState
             /\ \A i \in 1 .. Len(r) : q[i] = r[i]
<1>1. Entry(name, key, type) \in EntrySet
  BY DEF Entry, EntrySet, Clipped
<1>2. esph_registry_add(r, name, key, type) = Append(r, Entry(name, key, type))
  BY LenProperties, RegistryAssumption DEF esph_registry_add
<1>3. /\ Entry(name, key, type).object_id = Clip(name)
      /\ Entry(name, key, type).key = key
      /\ Entry(name, key, type).state = NoState
  BY DEF Entry
<1> QED
  BY <1>1, <1>2, <1>3, AppendProperties

\* esph_registry_add on a full registry changes nothing.
LEMMA AddFull ==
  ASSUME NEW r \in Seq(EntrySet), ~ (Len(r) < MAX_ENTITIES),
         NEW name, NEW key, NEW type
  PROVE  esph_registry_add(r, name, key, type) = r
  BY LenProperties, RegistryAssumption DEF esph_registry_add

\* esph_registry_update_state for a listed key: the first slot with the key has
\* the new state, and nothing else changes.
LEMMA UpdateShape ==
  ASSUME NEW r \in Seq(EntrySet), NEW key, NEW value \in Text,
         WithKey(r, key) # {}
  PROVE  LET q == esph_registry_update_state(r, key, value)
             f == First(WithKey(r, key))
         IN  /\ f \in 1 .. Len(r) /\ r[f].key = key
             /\ \A j \in 1 .. Len(r) : r[j].key = key => f <= j
             /\ q \in Seq(EntrySet)
             /\ Len(q) = Len(r)
             /\ \A i \in 1 .. Len(r) :
                  /\ q[i].object_id = r[i].object_id
                  /\ q[i].key = r[i].key
                  /\ q[i].state = IF i = f THEN Clip(value) ELSE r[i].state
<1> DEFINE f == First(WithKey(r, key))
           e == [r[f] EXCEPT !.state = Clip(value)]
<1>1. PICK k \in 1 .. Len(r) : r[k].key = key
  BY DEF WithKey
<1>2. f \in 1 .. Len(r) /\ r[f].key = key /\ \A j \in 1 .. Len(r) : r[j].key = key => f <= j
  BY <1>1, FirstWithKey
<1>3. r[f] \in EntrySet
  BY <1>2, ElementOfSeq
<1>4. /\ e \in EntrySet
      /\ e.object_id = r[f].object_id /\ e.key = r[f].key /\ e.state = Clip(value)
  BY <1>3 DEF EntrySet, Clipped
<1>5. esph_registry_update_state(r, key, value) = [r EXCEPT ![f] = e]
  BY DEF esph_registry_update_state
<1> HIDE DEF f, e
<1>6. /\ [r EXCEPT ![f] = e] \in Seq(EntrySet)
      /\ Len([r EXCEPT ![f] = e]) = Len(r)
      /\ \A j \in 1 .. Len(r) : [r EXCEPT ![f] = e][j] = IF j = f THEN e ELSE r[j]
  BY <1>2, <1>4, ExceptSeq
<1> QED
  BY <1>2, <1>4, <1>5, <1>6 DEF f

\* esph_registry_update_state for an unknown key changes nothing.
LEMMA UpdateUnknown ==
  ASSUME NEW r, NEW key, NEW value, WithKey(r, key) = {}
  PROVE  esph_registry_update_state(r, key, value) = r
  BY DEF esph_registry_update_state

-----------------------------------------------------------------------------
(* Type correctness. *)

LEMMA TypeInit == Init => TypeOK
  BY RegistryAssumption, EmptySeq DEF Init, TypeOK

LEMMA TypeNext == TypeOK /\ [Next]_vars => TypeOK'
<1> SUFFICES ASSUME TypeOK, [Next]_vars PROVE TypeOK'
  OBVIOUS
<1> USE RegistryAssumption
<1>1. Len(registry) \in Nat
  BY LenProperties DEF TypeOK
<1>2. CASE Clear
  BY <1>2, EmptySeq DEF Clear, TypeOK
<1>3. ASSUME NEW name \in Text, NEW key \in Key, NEW type \in Type,
             Add(name, key, type)
      PROVE  TypeOK'
  <2>1. CASE Len(registry) < MAX_ENTITIES
    BY <1>1, <1>3, <2>1, AddShape DEF Add, TypeOK
  <2>2. CASE ~ (Len(registry) < MAX_ENTITIES)
    BY <1>3, <2>2, AddFull DEF Add, TypeOK
  <2> QED
    BY <2>1, <2>2
<1>4. ASSUME NEW key \in Key, NEW value \in Text, UpdateState(key, value)
      PROVE  TypeOK'
  <2>1. CASE WithKey(registry, key) # {}
    BY <1>4, <2>1, UpdateShape DEF UpdateState, TypeOK
  <2>2. CASE WithKey(registry, key) = {}
    BY <1>4, <2>2, UpdateUnknown DEF UpdateState, TypeOK
  <2> QED
    BY <2>1, <2>2
<1>5. CASE UNCHANGED vars
  BY <1>5 DEF vars, TypeOK
<1> QED
  BY <1>2, <1>3, <1>4, <1>5 DEF Next

\* The registry never holds more than MAX_ENTITIES entries, and every text in
\* it fits its field.
THEOREM TypeCorrect == Spec => []TypeOK
  BY TypeInit, TypeNext, PTL DEF Spec

-----------------------------------------------------------------------------
(* Where states go. *)

LEMMA ShadowedInit == Init => ShadowedStateless
  BY EmptySeq DEF Init, ShadowedStateless

LEMMA ShadowedNext == TypeOK /\ ShadowedStateless /\ [Next]_vars => ShadowedStateless'
<1> SUFFICES ASSUME TypeOK, ShadowedStateless, [Next]_vars,
                    NEW j \in 1 .. Len(registry'), NEW i \in 1 .. j - 1,
                    registry'[i].key = registry'[j].key
             PROVE  registry'[j].state = NoState
  BY DEF ShadowedStateless
<1>1. registry \in Seq(EntrySet) /\ Len(registry) \in Nat
  BY LenProperties DEF TypeOK
<1>2. CASE Clear
  BY <1>2, EmptySeq DEF Clear
<1>3. ASSUME NEW name \in Text, NEW key \in Key, NEW type \in Type,
             Add(name, key, type)
      PROVE  registry'[j].state = NoState
  <2>1. CASE Len(registry) < MAX_ENTITIES
    <3>1. /\ Len(registry') = Len(registry) + 1
          /\ registry'[Len(registry) + 1].state = NoState
          /\ \A k \in 1 .. Len(registry) : registry'[k] = registry[k]
      BY <1>1, <1>3, <2>1, AddShape DEF Add
    <3>2. CASE j = Len(registry) + 1
      BY <3>1, <3>2
    <3>3. CASE j # Len(registry) + 1
      <4>1. j \in 1 .. Len(registry) /\ i \in 1 .. Len(registry)
        BY <1>1, <3>1, <3>3
      <4> QED
        BY <3>1, <4>1 DEF ShadowedStateless
    <3> QED
      BY <3>2, <3>3
  <2>2. CASE ~ (Len(registry) < MAX_ENTITIES)
    BY <1>1, <1>3, <2>2, AddFull DEF Add, ShadowedStateless
  <2> QED
    BY <2>1, <2>2
<1>4. ASSUME NEW key \in Key, NEW value \in Text, UpdateState(key, value)
      PROVE  registry'[j].state = NoState
  <2>1. CASE WithKey(registry, key) # {}
    <3> DEFINE f == First(WithKey(registry, key))
    <3>1. /\ f \in 1 .. Len(registry) /\ registry[f].key = key
          /\ \A k \in 1 .. Len(registry) : registry[k].key = key => f <= k
          /\ Len(registry') = Len(registry)
          /\ \A k \in 1 .. Len(registry) :
               /\ registry'[k].key = registry[k].key
               /\ registry'[k].state = IF k = f THEN Clip(value) ELSE registry[k].state
      BY <1>1, <1>4, <2>1, UpdateShape DEF UpdateState
    <3> HIDE DEF f
    <3>2. j \in 1 .. Len(registry) /\ i \in 1 .. Len(registry) /\ i < j
      BY <1>1, <3>1
    <3>3. registry[i].key = registry[j].key
      BY <3>1, <3>2
    <3>4. j # f
      BY <3>1, <3>2, <3>3
    <3> QED
      BY <3>1, <3>2, <3>3, <3>4 DEF ShadowedStateless
  <2>2. CASE WithKey(registry, key) = {}
    BY <1>4, <2>2, UpdateUnknown DEF UpdateState, ShadowedStateless
  <2> QED
    BY <2>1, <2>2
<1>5. CASE UNCHANGED vars
  BY <1>5 DEF vars, ShadowedStateless
<1> QED
  BY <1>2, <1>3, <1>4, <1>5 DEF Next

\* An entity listed behind another one with the same key never gets a state,
\* in a registry of any size.
THEOREM ShadowedNeverUpdated == Spec => []ShadowedStateless
<1>1. Init => TypeOK /\ ShadowedStateless
  BY TypeInit, ShadowedInit
<1>2. TypeOK /\ ShadowedStateless /\ [Next]_vars => (TypeOK /\ ShadowedStateless)'
  BY TypeNext, ShadowedNext
<1> QED
  BY <1>1, <1>2, PTL DEF Spec

-----------------------------------------------------------------------------
(* The registry as a directory and a cache. *)

\* Adding an entity leaves the search for every name and key that is already
\* listed where it was, and a new name or key is found in the new slot.
LEMMA AddSearch ==
  ASSUME NEW r \in Seq(EntrySet), NEW q \in Seq(EntrySet),
         Len(q) = Len(r) + 1, \A i \in 1 .. Len(r) : q[i] = r[i]
  PROVE  /\ \A x : WithName(r, x) # {}
                    => First(WithName(q, x)) = First(WithName(r, x))
         /\ \A x : WithKey(r, x) # {}
                    => First(WithKey(q, x)) = First(WithKey(r, x))
         /\ LET n == q[Len(q)].object_id
            IN  WithName(r, n) = {} => First(WithName(q, n)) = Len(q)
         /\ LET k == q[Len(q)].key
            IN  WithKey(r, k) = {} => First(WithKey(q, k)) = Len(q)
<1>1. Len(r) \in Nat
  BY LenProperties
<1>2. ASSUME NEW x, WithName(r, x) # {}
      PROVE  First(WithName(q, x)) = First(WithName(r, x))
  <2>1. WithName(r, x) \in SUBSET Nat /\ WithName(q, x) \in SUBSET Nat
    BY DEF WithName
  <2>2. First(WithName(r, x)) \in WithName(r, x)
        /\ \A j \in WithName(r, x) : First(WithName(r, x)) <= j
    BY <1>2, <2>1, FirstLeast
  <2> DEFINE f == First(WithName(r, x))
  <2>3. f \in 1 .. Len(r) /\ r[f].object_id = x
    BY <2>2 DEF WithName
  <2>4. \A j \in 1 .. Len(r) : r[j].object_id = x => f <= j
    BY <2>2 DEF WithName
  <2> HIDE DEF f
  <2>5. f \in WithName(q, x)
    BY <1>1, <2>3 DEF WithName
  <2>6. ASSUME NEW j \in WithName(q, x) PROVE f <= j
    <3>1. j \in 1 .. Len(r) + 1 /\ q[j].object_id = x
      BY DEF WithName
    <3>2. CASE j \in 1 .. Len(r)
      BY <2>4, <3>1, <3>2
    <3>3. CASE j \notin 1 .. Len(r)
      BY <1>1, <2>3, <3>1, <3>3
    <3> QED
      BY <3>2, <3>3
  <2>7. First(WithName(q, x)) = f
    BY <2>1, <2>5, <2>6, FirstUnique
  <2> QED
    BY <2>7 DEF f
<1>3. ASSUME NEW x, WithKey(r, x) # {}
      PROVE  First(WithKey(q, x)) = First(WithKey(r, x))
  <2>1. WithKey(r, x) \in SUBSET Nat /\ WithKey(q, x) \in SUBSET Nat
    BY DEF WithKey
  <2>2. First(WithKey(r, x)) \in WithKey(r, x)
        /\ \A j \in WithKey(r, x) : First(WithKey(r, x)) <= j
    BY <1>3, <2>1, FirstLeast
  <2> DEFINE f == First(WithKey(r, x))
  <2>3. f \in 1 .. Len(r) /\ r[f].key = x
    BY <2>2 DEF WithKey
  <2>4. \A j \in 1 .. Len(r) : r[j].key = x => f <= j
    BY <2>2 DEF WithKey
  <2> HIDE DEF f
  <2>5. f \in WithKey(q, x)
    BY <1>1, <2>3 DEF WithKey
  <2>6. ASSUME NEW j \in WithKey(q, x) PROVE f <= j
    <3>1. j \in 1 .. Len(r) + 1 /\ q[j].key = x
      BY DEF WithKey
    <3>2. CASE j \in 1 .. Len(r)
      BY <2>4, <3>1, <3>2
    <3>3. CASE j \notin 1 .. Len(r)
      BY <1>1, <2>3, <3>1, <3>3
    <3> QED
      BY <3>2, <3>3
  <2>7. First(WithKey(q, x)) = f
    BY <2>1, <2>5, <2>6, FirstUnique
  <2> QED
    BY <2>7 DEF f
<1>4. ASSUME WithName(r, q[Len(q)].object_id) = {}
      PROVE  First(WithName(q, q[Len(q)].object_id)) = Len(q)
  <2> DEFINE S == WithName(q, q[Len(q)].object_id)
  <2>1. S = {Len(q)}
    BY <1>1, <1>4 DEF WithName
  <2> QED
    BY <1>1, <2>1, FirstUnique
<1>5. ASSUME WithKey(r, q[Len(q)].key) = {}
      PROVE  First(WithKey(q, q[Len(q)].key)) = Len(q)
  <2> DEFINE S == WithKey(q, q[Len(q)].key)
  <2>1. S = {Len(q)}
    BY <1>1, <1>5 DEF WithKey
  <2> QED
    BY <1>1, <2>1, FirstUnique
<1> QED
  BY <1>2, <1>3, <1>4, <1>5

\* One step never changes what a name resolves to, unless it clears the
\* registry.
LEMMA LookupNext ==
  ASSUME TypeOK, [Next]_vars, registry' # <<>>, NEW id \in Id,
         esph_registry_lookup_key(registry, id) # 0
  PROVE  esph_registry_lookup_key(registry', id)
           = esph_registry_lookup_key(registry, id)
<1> DEFINE n == Target(id)
           f == First(WithName(registry, n))
<1>1. registry \in Seq(EntrySet) /\ Len(registry) \in Nat
  BY LenProperties DEF TypeOK
<1>2. WithName(registry, n) # {}
  BY DEF esph_registry_lookup_key
<1>3. f \in 1 .. Len(registry)
  <2>1. WithName(registry, n) \in SUBSET Nat
    BY DEF WithName
  <2>2. f \in WithName(registry, n)
    BY <1>2, <2>1, FirstLeast
  <2> QED
    BY <2>2 DEF WithName
<1>4. SUFFICES /\ WithName(registry', n) # {}
               /\ First(WithName(registry', n)) = f
               /\ registry'[f].key = registry[f].key
  BY <1>2 DEF esph_registry_lookup_key
<1>5. ASSUME NEW name \in Text, NEW key \in Key, NEW type \in Type,
             Add(name, key, type)
      PROVE  /\ WithName(registry', n) # {}
             /\ First(WithName(registry', n)) = f
             /\ registry'[f].key = registry[f].key
  <2>1. CASE Len(registry) < MAX_ENTITIES
    <3>1. /\ registry' \in Seq(EntrySet)
          /\ Len(registry') = Len(registry) + 1
          /\ \A i \in 1 .. Len(registry) : registry'[i] = registry[i]
      BY <1>1, <1>5, <2>1, AddShape DEF Add
    <3>2. First(WithName(registry', n)) = f
      BY <1>1, <1>2, <3>1, AddSearch
    <3>3. \A i \in WithName(registry, n) : i \in WithName(registry', n)
      BY <1>1, <3>1 DEF WithName
    <3> QED
      BY <1>2, <1>3, <3>1, <3>2, <3>3
  <2>2. CASE ~ (Len(registry) < MAX_ENTITIES)
    BY <1>1, <1>2, <1>5, <2>2, AddFull DEF Add
  <2> QED
    BY <2>1, <2>2
<1>6. ASSUME NEW key \in Key, NEW value \in Text, UpdateState(key, value)
      PROVE  /\ WithName(registry', n) # {}
             /\ First(WithName(registry', n)) = f
             /\ registry'[f].key = registry[f].key
  <2>1. CASE WithKey(registry, key) # {}
    <3>1. /\ Len(registry') = Len(registry)
          /\ \A i \in 1 .. Len(registry) :
               /\ registry'[i].object_id = registry[i].object_id
               /\ registry'[i].key = registry[i].key
      BY <1>1, <1>6, <2>1, UpdateShape DEF UpdateState
    <3>2. WithName(registry', n) = WithName(registry, n)
      BY <3>1 DEF WithName
    <3> QED
      BY <1>2, <1>3, <3>1, <3>2
  <2>2. CASE WithKey(registry, key) = {}
    BY <1>2, <1>6, <2>2, UpdateUnknown DEF UpdateState
  <2> QED
    BY <2>1, <2>2
<1>7. CASE UNCHANGED vars
  BY <1>2, <1>7 DEF vars
<1> QED
  BY <1>5, <1>6, <1>7 DEF Next, Clear

\* Until the registry is cleared, a name that resolves keeps its key.
THEOREM LookupIsStable == Spec => LookupStable
<1>1. TypeOK /\ [Next]_vars =>
        [registry' # <<>> =>
           \A id \in Id :
             LET k == esph_registry_lookup_key(registry, id)
             IN  k # 0 => esph_registry_lookup_key(registry', id) = k]_vars
  BY LookupNext
<1> QED
  BY <1>1, TypeCorrect, PTL DEF Spec, LookupStable

-----------------------------------------------------------------------------
(* The array implements EntityCache. *)

LEMMA RefinementInit == Init => Abstract!Init
  BY EmptySeq DEF Init, Abstract!Init, Directory, Cache

\* Adding with a free slot lists the clipped name and the key.
LEMMA RefinementAdd ==
  ASSUME TypeOK, Len(registry) < MAX_ENTITIES,
         NEW name \in Text, NEW key \in Key, NEW type \in Type,
         Add(name, key, type)
  PROVE  Abstract!List(Clip(name), key)
<1> DEFINE n == Clip(name)
<1>1. registry \in Seq(EntrySet) /\ Len(registry) \in Nat
  BY LenProperties DEF TypeOK
<1>2. /\ registry' \in Seq(EntrySet)
      /\ Len(registry') = Len(registry) + 1
      /\ registry'[Len(registry) + 1].object_id = n
      /\ registry'[Len(registry) + 1].key = key
      /\ registry'[Len(registry) + 1].state = NoState
      /\ \A i \in 1 .. Len(registry) : registry'[i] = registry[i]
  BY <1>1, AddShape DEF Add
<1>3. /\ \A x : WithName(registry, x) # {}
                => First(WithName(registry', x)) = First(WithName(registry, x))
      /\ \A x : WithKey(registry, x) # {}
                => First(WithKey(registry', x)) = First(WithKey(registry, x))
      /\ WithName(registry, n) = {} => First(WithName(registry', n)) = Len(registry')
      /\ WithKey(registry, key) = {} => First(WithKey(registry', key)) = Len(registry')
  BY <1>1, <1>2, AddSearch
<1>4. Directory' = Abstract!FirstWins(Directory, n, key)
  <2> DEFINE D == {registry[i].object_id : i \in 1 .. Len(registry)}
             D2 == {registry'[i].object_id : i \in 1 .. Len(registry')}
  <2>1. D2 = D \cup {n}
    BY <1>1, <1>2
  <2>2. \A x : x \in D <=> WithName(registry, x) # {}
    BY DEF WithName
  <2>3. /\ Directory = [x \in D |-> registry[First(WithName(registry, x))].key]
        /\ Directory' = [x \in D2 |-> registry'[First(WithName(registry', x))].key]
    BY DEF Directory
  <2>4. ASSUME NEW x \in D PROVE Directory'[x] = Directory[x]
    <3>1. PICK i \in 1 .. Len(registry) : x = registry[i].object_id
      OBVIOUS
    <3>2. First(WithName(registry, x)) \in 1 .. Len(registry)
      BY <1>1, <3>1, FirstWithName
    <3>3. First(WithName(registry', x)) = First(WithName(registry, x))
      BY <1>3, <2>2
    <3>4. x \in D2
      BY <2>1
    <3> QED
      BY <1>2, <2>3, <3>2, <3>3, <3>4
  <2>5. n \notin D => Directory'[n] = key
    BY <1>2, <1>3, <2>1, <2>2, <2>3
  <2>6. /\ DOMAIN Directory = D
        /\ Directory = [x \in D |-> Directory[x]]
        /\ Directory' = [x \in D \cup {n} |-> Directory'[x]]
    BY <2>1, <2>3
  <2> HIDE DEF D, D2
  <2>7. CASE n \in D
    <3>1. D \cup {n} = D
      BY <2>7
    <3>2. Directory' = Directory
      BY <2>4, <2>6, <3>1
    <3> QED
      BY <2>6, <2>7, <3>2 DEF Abstract!FirstWins
  <2>8. CASE n \notin D
    <3>1. \A x \in D \cup {n} :
            Directory'[x] = IF x = n THEN key ELSE Directory[x]
      BY <2>4, <2>5, <2>8
    <3> QED
      BY <2>6, <2>8, <3>1 DEF Abstract!FirstWins
  <2> QED
    BY <2>7, <2>8
<1>5. Cache' = Abstract!FirstWins(Cache, key, NoState)
  <2> DEFINE D == {registry[i].key : i \in 1 .. Len(registry)}
             D2 == {registry'[i].key : i \in 1 .. Len(registry')}
  <2>1. D2 = D \cup {key}
    BY <1>1, <1>2
  <2>2. \A x : x \in D <=> WithKey(registry, x) # {}
    BY DEF WithKey
  <2>3. /\ Cache = [x \in D |-> registry[First(WithKey(registry, x))].state]
        /\ Cache' = [x \in D2 |-> registry'[First(WithKey(registry', x))].state]
    BY DEF Cache
  <2>4. ASSUME NEW x \in D PROVE Cache'[x] = Cache[x]
    <3>1. PICK i \in 1 .. Len(registry) : x = registry[i].key
      OBVIOUS
    <3>2. First(WithKey(registry, x)) \in 1 .. Len(registry)
      BY <1>1, <3>1, FirstWithKey
    <3>3. First(WithKey(registry', x)) = First(WithKey(registry, x))
      BY <1>3, <2>2
    <3>4. x \in D2
      BY <2>1
    <3> QED
      BY <1>2, <2>3, <3>2, <3>3, <3>4
  <2>5. key \notin D => Cache'[key] = NoState
    BY <1>2, <1>3, <2>1, <2>2, <2>3
  <2>6. /\ DOMAIN Cache = D
        /\ Cache = [x \in D |-> Cache[x]]
        /\ Cache' = [x \in D \cup {key} |-> Cache'[x]]
    BY <2>1, <2>3
  <2> HIDE DEF D, D2
  <2>7. CASE key \in D
    <3>1. D \cup {key} = D
      BY <2>7
    <3>2. Cache' = Cache
      BY <2>4, <2>6, <3>1
    <3> QED
      BY <2>6, <2>7, <3>2 DEF Abstract!FirstWins
  <2>8. CASE key \notin D
    <3>1. \A x \in D \cup {key} :
            Cache'[x] = IF x = key THEN NoState ELSE Cache[x]
      BY <2>4, <2>5, <2>8
    <3> QED
      BY <2>6, <2>8, <3>1 DEF Abstract!FirstWins
  <2> QED
    BY <2>7, <2>8
<1> QED
  BY <1>2, <1>4, <1>5 DEF Add, Abstract!List

\* Storing a state for a listed key reports it.
LEMMA RefinementUpdate ==
  ASSUME TypeOK, NEW key \in Key, NEW value \in Text,
         WithKey(registry, key) # {}, UpdateState(key, value)
  PROVE  Abstract!Report(key, Clip(value))
<1> DEFINE f == First(WithKey(registry, key))
           K == {registry[i].key : i \in 1 .. Len(registry)}
<1>1. registry \in Seq(EntrySet) /\ Len(registry) \in Nat
  BY LenProperties DEF TypeOK
<1>2. /\ f \in 1 .. Len(registry) /\ registry[f].key = key
      /\ Len(registry') = Len(registry)
      /\ \A i \in 1 .. Len(registry) :
           /\ registry'[i].object_id = registry[i].object_id
           /\ registry'[i].key = registry[i].key
           /\ registry'[i].state = IF i = f THEN Clip(value) ELSE registry[i].state
  BY <1>1, UpdateShape DEF UpdateState
<1>3. \A x : /\ WithName(registry', x) = WithName(registry, x)
             /\ WithKey(registry', x) = WithKey(registry, x)
  BY <1>2 DEF WithName, WithKey
<1>4. Directory' = Directory
  <2> DEFINE D == {registry[i].object_id : i \in 1 .. Len(registry)}
  <2>1. {registry'[i].object_id : i \in 1 .. Len(registry')} = D
    BY <1>2
  <2>2. ASSUME NEW x \in D
        PROVE  registry'[First(WithName(registry', x))].key
                 = registry[First(WithName(registry, x))].key
    <3>1. First(WithName(registry, x)) \in 1 .. Len(registry)
      BY <1>1, FirstWithName
    <3> QED
      BY <1>2, <1>3, <3>1
  <2> QED
    BY <2>1, <2>2 DEF Directory
<1>5. {registry'[i].key : i \in 1 .. Len(registry')} = K
  BY <1>2
<1>6. ASSUME NEW x \in K
      PROVE  registry'[First(WithKey(registry', x))].state
               = IF x = key THEN Clip(value)
                            ELSE registry[First(WithKey(registry, x))].state
  <2>1. /\ First(WithKey(registry, x)) \in 1 .. Len(registry)
        /\ registry[First(WithKey(registry, x))].key = x
    BY <1>1, FirstWithKey
  <2> QED
    BY <1>2, <1>3, <2>1
<1>7. key \in K
  BY <1>2
<1>8. Cache = [x \in K |-> registry[First(WithKey(registry, x))].state]
  BY DEF Cache
<1>9. Cache' = [x \in K |-> registry'[First(WithKey(registry', x))].state]
  BY <1>5 DEF Cache
<1> HIDE DEF K, f
<1>10. Cache' = [Cache EXCEPT ![key] = Clip(value)]
  BY <1>6, <1>7, <1>8, <1>9
<1>11. key \in DOMAIN Cache
  BY <1>7, <1>8
<1> QED
  BY <1>2, <1>4, <1>10, <1>11 DEF UpdateState, Abstract!Report

\* Every step of the array is a step of the directory and cache, or changes
\* neither.
LEMMA RefinementNext == TypeOK /\ [Next]_vars => [Abstract!Next]_(Abstract!vars)
<1> SUFFICES ASSUME TypeOK, [Next]_vars PROVE [Abstract!Next]_(Abstract!vars)
  OBVIOUS
<1>1. CASE Clear
  <2>1. Abstract!Clear
    BY <1>1, EmptySeq DEF Clear, Abstract!Clear, Directory, Cache
  <2> QED
    BY <2>1 DEF Abstract!Next
<1>2. CASE UNCHANGED vars
  BY <1>2 DEF vars, Abstract!vars, Directory, Cache
<1>3. ASSUME NEW name \in Text, NEW key \in Key, NEW type \in Type,
             Add(name, key, type)
      PROVE  [Abstract!Next]_(Abstract!vars)
  <2>1. CASE Len(registry) < MAX_ENTITIES
    <3>1. Abstract!List(Clip(name), key)
      BY <1>3, <2>1, RefinementAdd
    <3>2. Clip(name) \in Clipped
      BY DEF Clipped
    <3> QED
      BY <3>1, <3>2 DEF Abstract!Next
  <2>2. CASE ~ (Len(registry) < MAX_ENTITIES)
    <3>1. registry' = registry
      BY <1>3, <2>2, AddFull DEF Add, TypeOK
    <3>2. Directory' = Directory /\ Cache' = Cache
      BY <3>1 DEF Directory, Cache
    <3>3. Abstract!List(Clip(name), key)
      BY <1>3, <2>2, <3>1, <3>2 DEF Add, Abstract!List
    <3>4. Clip(name) \in Clipped
      BY DEF Clipped
    <3> QED
      BY <3>3, <3>4 DEF Abstract!Next
  <2> QED
    BY <2>1, <2>2
<1>4. ASSUME NEW key \in Key, NEW value \in Text, UpdateState(key, value)
      PROVE  [Abstract!Next]_(Abstract!vars)
  <2>1. CASE WithKey(registry, key) # {}
    <3>1. Abstract!Report(key, Clip(value))
      BY <1>4, <2>1, RefinementUpdate
    <3>2. Clip(value) \in Clipped
      BY DEF Clipped
    <3> QED
      BY <3>1, <3>2 DEF Abstract!Next
  <2>2. CASE WithKey(registry, key) = {}
    <3>1. registry' = registry
      BY <1>4, <2>2, UpdateUnknown DEF UpdateState
    <3>2. Directory' = Directory /\ Cache' = Cache
      BY <3>1 DEF Directory, Cache
    <3>3. key \notin DOMAIN Cache
      BY <2>2 DEF Cache, WithKey
    <3>4. Abstract!Report(key, Clip(value))
      BY <1>4, <3>1, <3>2, <3>3 DEF UpdateState, Abstract!Report
    <3>5. Clip(value) \in Clipped
      BY DEF Clipped
    <3> QED
      BY <3>4, <3>5 DEF Abstract!Next
  <2> QED
    BY <2>1, <2>2
<1> QED
  BY <1>1, <1>2, <1>3, <1>4 DEF Next

\* The array of entries, searched from the front, is the directory and cache
\* that EntityCache specifies, for every capacity.
THEOREM RegistryImplementsCache == Spec => ImplementsCache
  BY TypeCorrect, RefinementInit, RefinementNext, PTL
     DEF Spec, ImplementsCache, Abstract!Spec
=============================================================================
