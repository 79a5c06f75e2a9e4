-------------------------- MODULE SchedulerProofs --------------------------
(***************************************************************************)
(* The safety properties of Scheduler for any timers, any number of calls  *)
(* and items and any interleaving of the threads.  Counting how often an   *)
(* item occurs is no basis for a proof, so the inductive invariant says    *)
(* the same with sets: the containers are pairwise disjoint (Apart), no    *)
(* sequence holds an item twice (Single), and together they are all items  *)
(* (Covered).  The counters are exact where the properties only ask for    *)
(* bounds.                                                                 *)
(***************************************************************************)
EXTENDS Scheduler, FiniteSetTheorems, TLAPS

Indices == DOMAIN item

ItemRecords ==
    [key : Keys \cup {<<>>}, type : {"timeout", "interval", "none"},
     when : Int, interval : Int, removed : BOOLEAN]

Types ==
    /\ item \in Seq(ItemRecords) /\ Len(item) <= MaxItems
    /\ to_add \in Seq(Indices) /\ defer \in Seq(Indices)
    /\ pool \subseteq Indices /\ items \subseteq Indices /\ InHand \subseteq Indices
    /\ to_remove \in Nat /\ to_add_count \in Nat /\ defer_count \in Nat
    /\ left \in Nat /\ now \in Nat /\ now_64 \in Nat
    /\ failed \subseteq Components

\* The items that still may match: all but the recycled and the one in hand.
Live == Indices \ (pool \cup InHand)

\* A recycled item is blank, any other has what it was set with.
Filled ==
    /\ \A i \in pool : item[i] = Blank
    /\ \A i \in Indices \ pool : item[i].key \in Keys /\ item[i].type \in {"timeout", "interval"}

Distinct(s) == \A j, k \in 1 .. Len(s) : s[j] = s[k] => j = k

Single == Distinct(to_add) /\ Distinct(defer)

Apart ==
    /\ ToSet(to_add) \cap ToSet(defer) = {}
    /\ items \cap (ToSet(to_add) \cup ToSet(defer)) = {}
    /\ pool \cap (ToSet(to_add) \cup ToSet(defer) \cup items) = {}
    /\ InHand \cap (ToSet(to_add) \cup ToSet(defer) \cup items \cup pool) = {}

Covered == Indices = ToSet(to_add) \cup ToSet(defer) \cup items \cup pool \cup InHand

HeapFront == top \in IF items = {} THEN {NoItem} ELSE items

\* While a pass over the defer queue is on, left counts the items that were
\* there when it began and defer_count_ those that came later.
PassOver == pc \notin {"deferred", "deferred callback"} => left = 0

Counts ==
    /\ to_add_count = Len(to_add)
    /\ left + defer_count = Len(defer)
    /\ PassOver
    /\ to_remove >= Cardinality(Removed(items))

Running == pc = "callback" => cur = top /\ cur \in items

IInv ==
    /\ Types /\ Filled /\ Single /\ Apart /\ Covered /\ HeapFront /\ Counts /\ Running
    /\ OneTimerPerKey

-----------------------------------------------------------------------------
(* Sequences and sets. *)

LEMMA SeqFacts ==
    ASSUME NEW S, NEW s \in Seq(S)
    PROVE  /\ ToSet(s) = {s[i] : i \in 1 .. Len(s)}
           /\ ToSet(s) \subseteq S
           /\ \A T : S \subseteq T => s \in Seq(T)
<1>1. ToSet(s) = {s[i] : i \in 1 .. Len(s)}
  BY DEF ToSet
<1>2. QED
  BY <1>1

LEMMA EmptyFacts == ToSet(<<>>) = {} /\ Distinct(<<>>) /\ \A S : <<>> \in Seq(S)
  BY DEF ToSet, Distinct

\* A new item at the end of a sequence.
LEMMA AppendFacts ==
    ASSUME NEW S, NEW s \in Seq(S), NEW x \in S
    PROVE  /\ Append(s, x) \in Seq(S) /\ Len(Append(s, x)) = Len(s) + 1
           /\ ToSet(Append(s, x)) = ToSet(s) \cup {x}
           /\ Distinct(s) /\ x \notin ToSet(s) => Distinct(Append(s, x))
<1>1. /\ Append(s, x) \in Seq(S) /\ Len(s) \in Nat /\ Len(Append(s, x)) = Len(s) + 1
      /\ \A i \in 1 .. Len(s) : Append(s, x)[i] = s[i]
      /\ Append(s, x)[Len(s) + 1] = x
  OBVIOUS
<1>2. /\ ToSet(s) = {s[i] : i \in 1 .. Len(s)}
      /\ ToSet(Append(s, x)) = {Append(s, x)[i] : i \in 1 .. Len(s) + 1}
  BY <1>1, SeqFacts
<1>3. ToSet(Append(s, x)) = ToSet(s) \cup {x}
  BY <1>1, <1>2
<1>4. ASSUME Distinct(s), x \notin ToSet(s) PROVE Distinct(Append(s, x))
  BY <1>1, <1>2, <1>4 DEF Distinct
<1>5. QED
  BY <1>1, <1>3, <1>4

\* The first item leaves a sequence.
LEMMA TailFacts ==
    ASSUME NEW S, NEW s \in Seq(S), s # <<>>, Distinct(s)
    PROVE  /\ Head(s) \in ToSet(s) /\ Tail(s) \in Seq(S) /\ Len(Tail(s)) = Len(s) - 1
           /\ ToSet(Tail(s)) = ToSet(s) \ {Head(s)}
           /\ Distinct(Tail(s))
<1>1. /\ Tail(s) \in Seq(S) /\ Len(s) \in Nat \ {0} /\ Len(Tail(s)) = Len(s) - 1
      /\ \A i \in 1 .. Len(s) - 1 : Tail(s)[i] = s[i + 1]
      /\ Head(s) = s[1]
  OBVIOUS
<1>2. /\ ToSet(s) = {s[i] : i \in 1 .. Len(s)}
      /\ ToSet(Tail(s)) = {Tail(s)[i] : i \in 1 .. Len(s) - 1}
  BY <1>1, SeqFacts
<1>3. ASSUME NEW y \in ToSet(Tail(s)) PROVE y \in ToSet(s) \ {Head(s)}
  <2>1. PICK i \in 1 .. Len(s) - 1 : y = s[i + 1]
    BY <1>1, <1>2
  <2>2. i + 1 \in 1 .. Len(s) /\ 1 \in 1 .. Len(s) /\ i + 1 # 1
    BY <1>1
  <2>3. QED
    BY <1>1, <1>2, <2>1, <2>2 DEF Distinct
<1>4. ASSUME NEW y \in ToSet(s), y # Head(s) PROVE y \in ToSet(Tail(s))
  <2>1. PICK i \in 1 .. Len(s) : y = s[i]
    BY <1>2
  <2>2. i - 1 \in 1 .. Len(s) - 1 /\ Tail(s)[i - 1] = y
    BY <1>1, <1>4, <2>1
  <2>3. QED
    BY <1>2, <2>2
<1>5. Distinct(Tail(s))
  <2>1. ASSUME NEW j \in 1 .. Len(Tail(s)), NEW k \in 1 .. Len(Tail(s)),
               Tail(s)[j] = Tail(s)[k]
        PROVE  j = k
    <3>1. j + 1 \in 1 .. Len(s) /\ k + 1 \in 1 .. Len(s) /\ s[j + 1] = s[k + 1]
      BY <1>1, <2>1
    <3>2. j + 1 = k + 1
      BY <3>1 DEF Distinct
    <3>3. QED
      BY <1>1, <3>2
  <2>2. QED
    BY <2>1 DEF Distinct
<1>6. Head(s) \in ToSet(s)
  BY <1>1, <1>2
<1>7. QED
  BY <1>1, <1>3, <1>4, <1>5, <1>6

LEMMA BlankRecord == Blank \in ItemRecords
<1>1. <<>> \in Keys \cup {<<>>} /\ FALSE \in BOOLEAN
  OBVIOUS
<1>2. 0 \in Int /\ "none" \in {"timeout", "interval", "none"}
  OBVIOUS
<1>3. QED
  BY <1>1, <1>2, Zenon DEF Blank, ItemRecords

\* The items are numbered from 1, and the heap is a finite set of them.
LEMMA FiniteHeap ==
    ASSUME Types
    PROVE  /\ Len(item) \in Nat /\ Indices = 1 .. Len(item)
           /\ \A S : S \subseteq Indices => IsFiniteSet(S) /\ Cardinality(S) \in Nat
           /\ Removed(items) \subseteq Indices
<1>1. Len(item) \in Nat /\ Indices = 1 .. Len(item)
  BY DEF Types, Indices
<1>2. IsFiniteSet(Indices)
  BY <1>1, FS_Interval
<1>3. QED
  BY <1>1, <1>2, FS_Subset, FS_CardinalityType DEF Types, Removed

LEMMA BlankedFacts ==
    ASSUME Types, NEW S, item' = Blanked(S)
    PROVE  /\ item' \in Seq(ItemRecords) /\ Len(item') = Len(item) /\ Indices' = Indices
           /\ \A i \in Indices : item'[i] = IF i \in S THEN Blank ELSE item[i]
<1>1. item \in Seq(ItemRecords) /\ DOMAIN item = 1 .. Len(item) /\ Len(item) \in Nat
  BY DEF Types
<1>2. item' = [i \in 1 .. Len(item) |-> IF i \in S THEN Blank ELSE item[i]]
  BY <1>1 DEF Blanked
<1>3. \A i \in 1 .. Len(item) : (IF i \in S THEN Blank ELSE item[i]) \in ItemRecords
  BY <1>1, BlankRecord
<1>4. item' \in Seq(ItemRecords) /\ DOMAIN item' = 1 .. Len(item)
  BY <1>1, <1>2, <1>3
<1>5. Len(item') = Len(item)
  BY <1>1, <1>2
<1>6. QED
  BY <1>1, <1>2, <1>4, <1>5 DEF Indices

\* After a pop or a push the front is one of the items of the heap.
LEMMA FrontFacts ==
    /\ \A S : PopLeaves(S) => items' = S /\ HeapFront'
    /\ \A S, front : PushGives(S, front) => items' = S /\ HeapFront'
<1>1. ASSUME NEW S, NEW x \in Least(S) PROVE x \in IF S = {} THEN {NoItem} ELSE S
  BY DEF Least
<1>2. QED
  BY <1>1 DEF PopLeaves, PushGives, HeapFront

-----------------------------------------------------------------------------
(* Steps that only take timers away from what may match. *)

LEMMA MatchesShrink ==
    ASSUME OneTimerPerKey, Live' \subseteq Live,
           \A i \in Live' : /\ item'[i].key = item[i].key /\ item'[i].type = item[i].type
                            /\ item[i].removed => item'[i].removed
    PROVE  OneTimerPerKey'
  BY DEF OneTimerPerKey, Live, Indices, matches

\* Nothing moves between the containers.
LEMMA NothingMoves ==
    ASSUME IInv, UNCHANGED <<containers, left>>, InHand' = InHand,
           failed' \subseteq Components, now' \in Nat, now_64' \in Nat,
           PassOver', Running'
    PROVE  IInv'
<1> USE DEF IInv, containers
<1>1. Types' /\ Filled' /\ Single' /\ Apart' /\ Covered' /\ HeapFront'
  BY DEF Types, Filled, Single, Apart, Covered, HeapFront, Indices
<1>2. Counts'
  BY DEF Counts, Removed
<1>3. OneTimerPerKey'
  BY MatchesShrink DEF Live, Indices
<1>4. QED
  BY <1>1, <1>2, <1>3

\* Recycling S takes it out of the heap.  The counter may be lowered by as much
\* as the number of removed items in the heap goes down.
LEMMA RecycleStep ==
    ASSUME IInv, NEW S, S \subseteq items, NEW n \in Nat, Recycle(S, n),
           to_remove - n >= Cardinality(Removed(items) \ S),
           UNCHANGED <<left, failed, now, now_64>>, InHand' = InHand,
           PassOver', Running'
    PROVE  IInv'
<1> USE DEF IInv
<1>1. /\ item' = Blanked(S) /\ pool' = pool \cup S
      /\ to_remove' = to_remove - n
      /\ UNCHANGED <<to_add, defer, to_add_count, defer_count>>
  BY DEF Recycle
<1>2. items' = items \ S /\ HeapFront'
  BY FrontFacts DEF Recycle
<1>3. /\ item' \in Seq(ItemRecords) /\ Len(item') = Len(item) /\ Indices' = Indices
      /\ \A i \in Indices : item'[i] = IF i \in S THEN Blank ELSE item[i]
  BY <1>1, BlankedFacts
<1>4. Removed(items)' = Removed(items) \ S
  BY <1>2, <1>3 DEF Removed, Types
<1>5. to_remove' >= Cardinality(Removed(items)') /\ to_remove' \in Nat
  <2>1. Removed(items) \ S \subseteq Indices
    BY FiniteHeap
  <2>2. Cardinality(Removed(items) \ S) \in Nat
    BY <2>1, FiniteHeap
  <2>3. to_remove \in Nat
    BY DEF Types
  <2>4. to_remove' >= Cardinality(Removed(items) \ S) /\ to_remove' \in Nat
    BY <1>1, <2>2, <2>3
  <2>5. QED
    BY <1>4, <2>4
<1>6. Types'
  BY <1>1, <1>2, <1>3, <1>5 DEF Types
<1>7. Filled'
  BY <1>1, <1>3 DEF Filled, Types
<1>8. Single'
  BY <1>1 DEF Single
<1>9. Apart' /\ Covered'
  BY <1>1, <1>2, <1>3 DEF Apart, Covered
<1>10. Counts'
  BY <1>1, <1>5 DEF Counts
<1>11. OneTimerPerKey'
  <2>1. Live' \subseteq Live /\ \A i \in Live' : item'[i] = item[i]
    BY <1>1, <1>3 DEF Live
  <2>2. QED
    BY <2>1, MatchesShrink
<1>12. QED
  BY <1>2, <1>6, <1>7, <1>8, <1>9, <1>10, <1>11

\* How the counter follows when S is recycled: all of it counted, the item in
\* front counted, or nothing of it.
LEMMA RecycleCounts ==
    ASSUME IInv, NEW S, S \subseteq items
    PROVE  /\ to_remove >= Cardinality(Removed(items) \ S)
           /\ S \subseteq Removed(items) =>
                /\ Cardinality(S) \in Nat
                /\ to_remove - Cardinality(S) >= Cardinality(Removed(items) \ S)
           /\ \A i \in Removed(items) :
                to_remove - 1 >= Cardinality(Removed(items) \ {i})
           /\ Cardinality(Removed(items) \ Removed(items)) = 0
<1> DEFINE R == Removed(items)
<1>1. /\ IsFiniteSet(R) /\ Cardinality(R) \in Nat
      /\ IsFiniteSet(S) /\ Cardinality(S) \in Nat
      /\ IsFiniteSet(R \ S) /\ Cardinality(R \ S) \in Nat
  BY FiniteHeap DEF IInv, Types
<1>2. to_remove >= Cardinality(R) /\ to_remove \in Nat
  BY DEF IInv, Counts, Types
<1>3. Cardinality(R \ S) <= Cardinality(R)
  BY <1>1, FS_Subset
<1>4. ASSUME S \subseteq R
      PROVE  Cardinality(R \ S) = Cardinality(R) - Cardinality(S)
  <2>1. Cardinality(R \ S) = Cardinality(R) - Cardinality(R \cap S)
    BY <1>1, FS_Difference
  <2>2. R \cap S = S
    BY <1>4
  <2>3. QED
    BY <2>1, <2>2
<1>5. ASSUME NEW i \in R PROVE Cardinality(R \ {i}) = Cardinality(R) - 1
  BY <1>1, FS_RemoveElement
<1>6. Cardinality(R \ R) = 0
  BY FS_EmptySet
<1>7. QED
  <2> HIDE DEF R
  <2>1. \A i \in R : to_remove - 1 >= Cardinality(R \ {i})
    BY <1>1, <1>2, <1>5
  <2>2. S \subseteq R => to_remove - Cardinality(S) >= Cardinality(R \ S)
    BY <1>1, <1>2, <1>4
  <2>3. to_remove >= Cardinality(R \ S)
    BY <1>1, <1>2, <1>3
  <2>4. QED
    BY <1>1, <1>6, <2>1, <2>2, <2>3 DEF R

\* cleanup_ recycles only removed items.
LEMMA CleanupStep ==
    ASSUME IInv, cleanup, UNCHANGED <<left, failed, now, now_64>>, InHand' = InHand,
           PassOver', Running'
    PROVE  IInv'
<1>1. CASE UNCHANGED containers
  BY <1>1, NothingMoves DEF IInv, Types
<1>2. ASSUME NEW S, S \subseteq Removed(items), Recycle(S, Cardinality(S))
      PROVE  IInv'
  <2>1. S \subseteq items
    BY <1>2 DEF Removed
  <2>2. Cardinality(S) \in Nat /\ to_remove - Cardinality(S) >= Cardinality(Removed(items) \ S)
    BY <1>2, <2>1, RecycleCounts
  <2>3. QED
    BY <1>2, <2>1, <2>2, RecycleStep
<1>3. UNCHANGED containers \/ \E S \in SUBSET Removed(items) : Recycle(S, Cardinality(S))
  BY DEF cleanup
<1>4. QED
  BY <1>1, <1>2, <1>3

\* process_to_add: the removed items of to_add_ go to the pool, the others to
\* the heap.
LEMMA ToAddStep ==
    ASSUME IInv, process_to_add, UNCHANGED <<left, failed, now>>, now_64' \in Nat,
           InHand' = InHand, PassOver', Running'
    PROVE  IInv'
<1> DEFINE A == ToSet(to_add)
           R == Removed(A)
<1>1. CASE UNCHANGED containers
  BY <1>1, NothingMoves DEF IInv, Types
<1>2. CASE ~ UNCHANGED containers
  <2> USE DEF IInv
  <2>1. /\ item' = Blanked(R) /\ pool' = pool \cup R
        /\ to_add' = <<>> /\ to_add_count' = 0
        /\ UNCHANGED <<defer, defer_count, to_remove>>
    BY <1>2 DEF process_to_add
  <2>2. items' = items \cup (A \ R) /\ HeapFront'
    BY <1>2, FrontFacts DEF process_to_add
  <2>3. /\ item' \in Seq(ItemRecords) /\ Len(item') = Len(item) /\ Indices' = Indices
        /\ \A i \in Indices : item'[i] = IF i \in R THEN Blank ELSE item[i]
    BY <2>1, BlankedFacts
  <2>4. R \subseteq A /\ A \subseteq Indices
    BY SeqFacts DEF Removed, Types
  <2>5. ToSet(to_add') = {} /\ Distinct(to_add') /\ to_add' \in Seq(Indices) /\ Len(to_add') = 0
    BY <2>1, EmptyFacts
  <2>6. Removed(items)' = Removed(items)
    <3>1. \A i \in items : i \in Indices /\ i \notin R
      BY <2>4 DEF Types, Apart
    <3>2. \A i \in A \ R : i \in Indices /\ ~ item[i].removed
      BY <2>4 DEF Removed
    <3>3. \A i \in items' : item'[i].removed <=> (i \in items /\ item[i].removed)
      BY <2>2, <2>3, <3>1, <3>2
    <3>4. QED
      BY <2>2, <3>3 DEF Removed
  <2>7. Types'
    BY <2>1, <2>2, <2>3, <2>4, <2>5 DEF Types
  <2>8. Filled'
    BY <2>1, <2>3, <2>4 DEF Filled, Types
  <2>9. Single'
    BY <2>1, <2>5 DEF Single
  <2>10. Apart' /\ Covered'
    BY <2>1, <2>2, <2>3, <2>4, <2>5 DEF Apart, Covered
  <2>11. Counts'
    BY <2>1, <2>5, <2>6 DEF Counts
  <2>12. OneTimerPerKey'
    <3>1. Live' \subseteq Live /\ \A i \in Live' : item'[i] = item[i]
      BY <2>1, <2>3 DEF Live
    <3>2. QED
      BY <3>1, MatchesShrink
  <2>13. QED
    BY <2>2, <2>7, <2>8, <2>9, <2>10, <2>11, <2>12
<1>3. QED
  BY <1>1, <1>2

\* An item is taken from the defer queue; the one in hand before, if any, goes
\* to the pool.
LEMMA DeferredStep ==
    ASSUME IInv, NEW H, H = InHand, NEW n \in Nat \ {0}, n <= Len(defer),
           item' = Blanked(H), pool' = pool \cup H, TakeDeferred(n),
           n - 1 + defer_count' = Len(defer) - 1, defer_count' \in Nat,
           UNCHANGED <<items, top, to_add, to_remove, to_add_count, failed, now, now_64>>
    PROVE  IInv'
<1> USE DEF IInv
<1> DEFINE h == Head(defer)
<1>1. cur' = h /\ defer' = Tail(defer) /\ left' = n - 1 /\ pc' = "deferred"
  BY DEF TakeDeferred
<1>2. /\ h \in ToSet(defer) /\ defer' \in Seq(Indices) /\ Len(defer') = Len(defer) - 1
      /\ ToSet(defer') = ToSet(defer) \ {h} /\ Distinct(defer')
  <2>1. defer \in Seq(Indices) /\ defer # <<>> /\ Distinct(defer)
    BY DEF Types, Single
  <2>2. QED
    BY <1>1, <2>1, TailFacts
<1>3. InHand' = {h}
  BY <1>1 DEF InHand
<1>4. /\ item' \in Seq(ItemRecords) /\ Len(item') = Len(item) /\ Indices' = Indices
      /\ \A i \in Indices : item'[i] = IF i \in H THEN Blank ELSE item[i]
  BY BlankedFacts
<1>5. ToSet(defer) \subseteq Indices /\ H \subseteq Indices
  BY SeqFacts DEF Types
<1>6. Types'
  BY <1>1, <1>2, <1>3, <1>4, <1>5 DEF Types
<1>7. Filled'
  BY <1>4, <1>5 DEF Filled, Types
<1>8. Single' /\ Running'
  BY <1>1, <1>2 DEF Single, Running
<1>9. Apart'
  BY <1>2, <1>3 DEF Apart
<1>10. Covered'
  BY <1>2, <1>3, <1>4 DEF Covered
<1>11. HeapFront'
  BY DEF HeapFront
<1>12. Counts'
  <2>1. \A i \in items : item'[i] = item[i]
    BY <1>4 DEF Apart, Types
  <2>2. Removed(items)' = Removed(items)
    BY <2>1 DEF Removed
  <2>3. PassOver'
    BY <1>1 DEF PassOver
  <2>4. left' + defer_count' = Len(defer')
    BY <1>1, <1>2
  <2>5. QED
    BY <2>2, <2>3, <2>4 DEF Counts
<1>13. OneTimerPerKey'
  <2>1. Live' \subseteq Live /\ \A i \in Live' : item'[i] = item[i]
    BY <1>3, <1>4 DEF Live
  <2>2. QED
    BY <2>1, MatchesShrink
<1>14. QED
  BY <1>6, <1>7, <1>8, <1>9, <1>10, <1>11, <1>12, <1>13

\* The last item of the pass goes to the pool.
LEMMA DeferredEnds ==
    ASSUME IInv, item' = Blanked(InHand), pool' = pool \cup InHand,
           left = 0, DeferQueueDone,
           UNCHANGED <<items, top, to_add, defer, to_remove, to_add_count, defer_count,
                       left, failed, now>>
    PROVE  IInv'
<1> USE DEF IInv
<1>1. pc' = "to_add" /\ now_64' = now
  BY DEF DeferQueueDone
<1>2. InHand' = {}
  BY <1>1 DEF InHand
<1>3. /\ item' \in Seq(ItemRecords) /\ Len(item') = Len(item) /\ Indices' = Indices
      /\ \A i \in Indices : item'[i] = IF i \in InHand THEN Blank ELSE item[i]
  BY BlankedFacts
<1>4. Types'
  BY <1>1, <1>2, <1>3 DEF Types
<1>5. Filled'
  BY <1>3 DEF Filled, Types
<1>6. Single' /\ Running' /\ HeapFront'
  BY <1>1 DEF Single, Running, HeapFront
<1>7. Apart' /\ Covered'
  BY <1>2, <1>3 DEF Apart, Covered
<1>8. Counts'
  <2>1. \A i \in items : item'[i] = item[i]
    BY <1>3 DEF Apart, Types
  <2>2. Removed(items)' = Removed(items)
    BY <2>1 DEF Removed
  <2>3. PassOver'
    BY DEF PassOver
  <2>4. QED
    BY <2>2, <2>3 DEF Counts
<1>9. OneTimerPerKey'
  <2>1. Live' \subseteq Live /\ \A i \in Live' : item'[i] = item[i]
    BY <1>2, <1>3 DEF Live
  <2>2. QED
    BY <2>1, MatchesShrink
<1>10. QED
  BY <1>4, <1>5, <1>6, <1>7, <1>8, <1>9

-----------------------------------------------------------------------------
(* Setting and cancelling. *)

LEMMA LiveIs ==
    ASSUME IInv
    PROVE  Live = ToSet(to_add) \cup ToSet(defer) \cup items
  BY DEF IInv, Live, Apart, Covered

LEMMA FirstMatchFacts ==
    ASSUME NEW s \in Seq(Indices), NEW key, NEW type,
           NEW i \in FirstMatch(s, key, type)
    PROVE  i \in ToSet(s) /\ matches(i, key, type)
  BY SeqFacts DEF FirstMatch

\* What is cancelled was live and matched.
LEMMA CancelledFacts ==
    ASSUME IInv, NEW key, NEW type, NEW find_first,
           NEW S \in Cancelled(key, type, find_first)
    PROVE  S \subseteq Live /\ \A i \in S : matches(i, key, type)
<1>1. to_add \in Seq(Indices) /\ defer \in Seq(Indices)
  BY DEF IInv, Types
<1> DEFINE All == Matching(ToSet(defer) \cup items \cup ToSet(to_add), key, type)
           first == FirstMatch(defer, key, type)
           h == Matching(items, key, type)
<1>2. S = All \/ S = first \/ (\E i \in h : S = {i}) \/ S = FirstMatch(to_add, key, type)
  BY DEF Cancelled
<1>3. CASE S = All
  BY <1>3, LiveIs DEF Matching
<1>4. CASE S = first
  BY <1>1, <1>4, LiveIs, FirstMatchFacts
<1>5. CASE \E i \in h : S = {i}
  BY <1>5, LiveIs DEF Matching
<1>6. CASE S = FirstMatch(to_add, key, type)
  BY <1>1, <1>6, LiveIs, FirstMatchFacts
<1>7. QED
  BY <1>2, <1>3, <1>4, <1>5, <1>6

\* A match in a sequence is the first one, because there is no other.
LEMMA OnlyMatchIsFirst ==
    ASSUME OneTimerPerKey, NEW key \in Keys \ Parallel, NEW type,
           NEW s \in Seq(Indices), Distinct(s), ToSet(s) \subseteq Live,
           NEW j \in ToSet(s), matches(j, key, type)
    PROVE  j \in FirstMatch(s, key, type)
<1>1. PICK n \in 1 .. Len(s) : s[n] = j
  BY SeqFacts
<1>2. ASSUME NEW m \in 1 .. n - 1, matches(s[m], key, type) PROVE FALSE
  <2>1. m \in 1 .. Len(s) /\ m # n /\ s[m] \in ToSet(s)
    BY SeqFacts
  <2>2. s[m] \in Live /\ j \in Live
    BY <2>1
  <2>3. s[m] = j
    BY <1>2, <2>2 DEF OneTimerPerKey, Live, Indices, matches
  <2>4. QED
    BY <1>1, <2>1, <2>3 DEF Distinct
<1>3. QED
  BY <1>1, <1>2 DEF FirstMatch

\* "cancel-before-add guarantees at most one match": marking the first match
\* marks every match.
LEMMA FirstIsAll ==
    ASSUME IInv, NEW key \in Keys \ Parallel, NEW type, NEW S \in Cancelled(key, type, TRUE),
           NEW j \in Live, matches(j, key, type)
    PROVE  j \in S
<1> DEFINE first == FirstMatch(defer, key, type)
           h == Matching(items, key, type)
<1>1. /\ OneTimerPerKey
      /\ to_add \in Seq(Indices) /\ Distinct(to_add) /\ ToSet(to_add) \subseteq Live
      /\ defer \in Seq(Indices) /\ Distinct(defer) /\ ToSet(defer) \subseteq Live
  BY LiveIs DEF IInv, Types, Single
<1>2. \A x \in S : x = j
  <2>1. \A x \in S : x \in Live /\ matches(x, key, type)
    BY CancelledFacts
  <2>2. QED
    BY <1>1, <2>1 DEF OneTimerPerKey, Live, Indices, matches
<1>3. CASE first # {}
  <2>1. S = first
    BY <1>3 DEF Cancelled
  <2>2. QED
    BY <1>2, <1>3, <2>1
<1>4. CASE first = {} /\ h # {}
  <2>1. \E i \in h : S = {i}
    BY <1>4 DEF Cancelled
  <2>2. QED
    BY <1>2, <2>1
<1>5. CASE first = {} /\ h = {}
  <2>1. S = FirstMatch(to_add, key, type)
    BY <1>5 DEF Cancelled
  <2>2. j \notin ToSet(defer)
    BY <1>1, <1>5, OnlyMatchIsFirst
  <2>3. j \notin items
    BY <1>5 DEF Matching
  <2>4. j \in ToSet(to_add)
    BY <2>2, <2>3, LiveIs
  <2>5. QED
    BY <1>1, <2>1, <2>4, OnlyMatchIsFirst
<1>6. QED
  BY <1>3, <1>4, <1>5

LEMMA MarkFacts ==
    ASSUME Types, NEW S
    PROVE  /\ Mark(item, S) \in Seq(ItemRecords)
           /\ Len(Mark(item, S)) = Len(item)
           /\ \A i \in Indices \ S : Mark(item, S)[i] = item[i]
           /\ \A i \in Indices \cap S :
                /\ Mark(item, S)[i].key = item[i].key
                /\ Mark(item, S)[i].type = item[i].type
                /\ Mark(item, S)[i].removed
<1>1. item \in Seq(ItemRecords) /\ DOMAIN item = 1 .. Len(item) /\ Len(item) \in Nat
  BY DEF Types
<1> DEFINE marked(i) == IF i \in S THEN [item[i] EXCEPT !.removed = TRUE] ELSE item[i]
<1>2. Mark(item, S) = [i \in 1 .. Len(item) |-> marked(i)]
  BY <1>1 DEF Mark
<1>3. ASSUME NEW i \in 1 .. Len(item)
      PROVE  /\ marked(i) \in ItemRecords
             /\ i \in S => /\ marked(i).key = item[i].key /\ marked(i).type = item[i].type
                           /\ marked(i).removed
             /\ i \notin S => marked(i) = item[i]
  <2>1. item[i] \in ItemRecords
    BY <1>1
  <2>2. QED
    BY <2>1 DEF ItemRecords
<1> HIDE DEF marked
<1>4. Mark(item, S) \in Seq(ItemRecords) /\ Len(Mark(item, S)) = Len(item)
  BY <1>1, <1>2, <1>3
<1>5. QED
  BY <1>1, <1>2, <1>3, <1>4 DEF Indices

\* Marking S adds to the removed items of the heap those of S.
LEMMA MarkCounts ==
    ASSUME IInv, NEW S, S \subseteq Live
    PROVE  /\ Cardinality(S \cap items) \in Nat
           /\ Cardinality(Removed(items) \cup (S \cap items)) \in Nat
           /\ to_remove + Cardinality(S \cap items)
                >= Cardinality(Removed(items) \cup (S \cap items))
<1> DEFINE R == Removed(items)
           T == S \cap items
<1>1. /\ IsFiniteSet(R) /\ Cardinality(R) \in Nat
      /\ IsFiniteSet(T) /\ Cardinality(T) \in Nat
      /\ Cardinality(R \cap T) \in Nat /\ Cardinality(R \cup T) \in Nat
  BY FiniteHeap DEF IInv, Types
<1>2. to_remove >= Cardinality(R) /\ to_remove \in Nat
  BY DEF IInv, Counts, Types
<1> HIDE DEF R, T
<1>3. Cardinality(R \cup T) = Cardinality(R) + Cardinality(T) - Cardinality(R \cap T)
  BY <1>1, FS_Union
<1>4. to_remove + Cardinality(T) >= Cardinality(R \cup T)
  BY <1>1, <1>2, <1>3
<1>5. QED
  BY <1>1, <1>4 DEF R, T

LEMMA CancelStep ==
    ASSUME IInv, NEW key, NEW type, NEW find_first, cancel(key, type, find_first),
           UNCHANGED <<left, failed, now, now_64, pc, cur>>
    PROVE  IInv'
<1> USE DEF IInv
<1>1. PICK S \in Cancelled(key, type, find_first) :
        /\ item' = Mark(item, S)
        /\ to_remove' = to_remove + Cardinality(S \cap items)
        /\ UNCHANGED <<pool, items, top, to_add, defer, to_add_count, defer_count>>
  BY DEF cancel
<1>2. S \subseteq Live
  BY CancelledFacts
<1>3. /\ item' \in Seq(ItemRecords) /\ Len(item') = Len(item) /\ Indices' = Indices
      /\ \A i \in Indices \ S : item'[i] = item[i]
      /\ \A i \in Indices \cap S : /\ item'[i].key = item[i].key
                                  /\ item'[i].type = item[i].type /\ item'[i].removed
  <2>1. DOMAIN item' = 1 .. Len(item') /\ DOMAIN item = 1 .. Len(item)
    BY <1>1, MarkFacts DEF Types
  <2>2. QED
    BY <1>1, <2>1, MarkFacts DEF Indices
<1>4. InHand' = InHand /\ PassOver' /\ Running'
  BY <1>1 DEF InHand, PassOver, Counts, Running
<1>5. Removed(items)' = Removed(items) \cup (S \cap items)
  BY <1>1, <1>3 DEF Removed, Types
<1>6. to_remove' \in Nat /\ to_remove' >= Cardinality(Removed(items)')
  <2>1. to_remove \in Nat
    BY DEF Types
  <2>2. QED
    BY <1>1, <1>2, <1>5, <2>1, MarkCounts
<1>7. Types'
  BY <1>1, <1>3, <1>4, <1>6 DEF Types
<1>8. Filled'
  BY <1>1, <1>2, <1>3 DEF Filled, Types, Live
<1>9. Single' /\ HeapFront'
  BY <1>1 DEF Single, HeapFront
<1>10. Apart' /\ Covered'
  BY <1>1, <1>3, <1>4 DEF Apart, Covered
<1>11. Counts'
  BY <1>1, <1>4, <1>6 DEF Counts
<1>12. OneTimerPerKey'
  <2>1. Live' \subseteq Live /\ Live \subseteq Indices
    BY <1>1, <1>3, <1>4 DEF Live
  <2>2. QED
    BY <1>3, <2>1, MatchesShrink
<1>13. QED
  BY <1>4, <1>7, <1>8, <1>9, <1>10, <1>11, <1>12

\* Where the new item comes from: it is in no other container.
LEMMA TakeFacts ==
    ASSUME IInv, NEW i \in 1 .. MaxItems, TakeFromPool(i)
    PROVE  /\ i \notin Live /\ i \notin InHand /\ pool' = pool \ {i}
           /\ i \in pool \/ i = Len(item) + 1
<1>1. CASE i \in pool /\ pool' = pool \ {i}
  BY <1>1 DEF IInv, Apart, Live
<1>2. CASE pool = {} /\ i = Len(item) + 1 /\ pool' = pool
  <2>1. i \notin Indices
    BY <1>2, FiniteHeap DEF IInv
  <2>2. QED
    BY <1>2, <2>1 DEF IInv, Types, Live
<1>3. QED
  BY <1>1, <1>2 DEF TakeFromPool

LEMMA StoreFacts ==
    ASSUME Types, NEW S, NEW rec \in ItemRecords, NEW i \in 1 .. MaxItems,
           item' = Store(Mark(item, S), i, rec), i \in Indices \/ i = Len(item) + 1
    PROVE  /\ item' \in Seq(ItemRecords) /\ Len(item') <= MaxItems
           /\ Indices' = Indices \cup {i}
           /\ item'[i] = rec
           /\ \A j \in Indices \ {i} : item'[j] = Mark(item, S)[j]
<1> DEFINE its == Mark(item, S)
<1>1. /\ Len(item) \in Nat /\ Indices = 1 .. Len(item) /\ DOMAIN its = Indices
      /\ its \in Seq(ItemRecords) /\ Len(its) = Len(item)
      /\ item' = Store(its, i, rec) /\ Indices' = DOMAIN item'
  <2>1. its \in Seq(ItemRecords) /\ Len(its) = Len(item)
    BY MarkFacts
  <2>2. QED
    BY <2>1, FiniteHeap DEF Indices
<1> HIDE DEF its
<1>2. CASE i \in Indices
  <2>1. item' = [its EXCEPT ![i] = rec]
    BY <1>1, <1>2 DEF Store
  <2>2. Len([its EXCEPT ![i] = rec]) = Len(its)
    BY <1>1, <1>2
  <2>3. QED
    BY <1>1, <1>2, <2>1, <2>2 DEF Types, its
<1>3. CASE i = Len(item) + 1
  <2>1. i \notin DOMAIN its
    BY <1>1, <1>3
  <2>2. item' = Append(its, rec)
    BY <1>1, <2>1 DEF Store
  <2>3. i <= MaxItems /\ 1 .. Len(item) + 1 = Indices \cup {i}
    BY <1>1, <1>3
  <2>4. /\ Append(its, rec) \in Seq(ItemRecords) /\ Len(Append(its, rec)) = Len(item) + 1
        /\ \A j \in 1 .. Len(item) : Append(its, rec)[j] = its[j]
        /\ Append(its, rec)[Len(item) + 1] = rec
    BY <1>1
  <2>5. DOMAIN Append(its, rec) = 1 .. Len(item) + 1
    BY <2>4
  <2>6. QED
    BY <1>1, <1>3, <2>2, <2>3, <2>4, <2>5 DEF its
<1>4. QED
  BY <1>2, <1>3 DEF its

\* Delays and the times computed from them are numbers.
LEMMA OffsetFacts ==
    ASSUME NEW type, NEW delay \in Nat
    PROVE  /\ Coerced(type, delay) \in Nat
           /\ \A x \in Offsets(type, Coerced(type, delay)) : x \in Int
<1>1. Coerced(type, delay) \in Nat
  BY DEF Coerced
<1>2. QED
  BY <1>1 DEF Offsets

\* A timer is set: its predecessor is marked and the new item queued.
LEMMA SetStep ==
    ASSUME IInv, NEW key \in Keys, NEW type \in {"timeout", "interval"}, NEW delay \in Nat,
           set_timer_common(key, type, delay),
           UNCHANGED <<left, failed, now, now_64, pc, cur>>
    PROVE  IInv'
<1> USE DEF IInv
<1> DEFINE Rec(offset) ==
             [key |-> key, type |-> type, when |-> now + offset,
              interval |-> IF type = "interval" THEN Coerced(type, delay) ELSE 0,
              removed |-> FALSE]
<1>1. PICK i \in 1 .. MaxItems,
           S \in IF key \in Parallel THEN {{}} ELSE Cancelled(key, type, TRUE),
           offset \in Offsets(type, Coerced(type, delay)) :
        /\ TakeFromPool(i)
        /\ item' = Store(Mark(item, S), i, Rec(offset))
        /\ to_remove' = to_remove + Cardinality(S \cap items)
        /\ \/ /\ defer' = Append(defer, i) /\ defer_count' = defer_count + 1
              /\ UNCHANGED <<to_add, to_add_count>>
           \/ /\ to_add' = Append(to_add, i) /\ to_add_count' = to_add_count + 1
              /\ UNCHANGED <<defer, defer_count>>
        /\ UNCHANGED <<items, top>>
  BY DEF set_timer_common
<1> DEFINE rec == Rec(offset)
<1>2. rec \in ItemRecords /\ rec.key = key /\ rec.type = type /\ ~ rec.removed
  <2>1. now + offset \in Int
    BY OffsetFacts DEF Types
  <2>2. (IF type = "interval" THEN Coerced(type, delay) ELSE 0) \in Int
    BY OffsetFacts
  <2>3. FALSE \in BOOLEAN
    OBVIOUS
  <2>4. QED
    BY <2>1, <2>2, <2>3 DEF ItemRecords
<1> HIDE DEF Rec
<1>3. S \subseteq Live
  BY CancelledFacts
<1>4. /\ i \notin Live /\ i \notin InHand /\ pool' = pool \ {i}
      /\ i \in pool \/ i = Len(item) + 1
  BY <1>1, TakeFacts
<1>5. i \in Indices \/ i = Len(item) + 1
  BY <1>4 DEF Types
<1>6. /\ item' \in Seq(ItemRecords) /\ Len(item') <= MaxItems /\ Indices' = Indices \cup {i}
      /\ item'[i] = rec
      /\ \A j \in Indices \ {i} : item'[j] = Mark(item, S)[j]
  BY <1>1, <1>2, <1>5, StoreFacts
<1>7. /\ \A j \in Indices \ {i} : j \notin S => item'[j] = item[j]
      /\ \A j \in Indices \ {i} : j \in S =>
           /\ item'[j].key = item[j].key /\ item'[j].type = item[j].type /\ item'[j].removed
  BY <1>6, MarkFacts
<1>8. InHand' = InHand /\ PassOver' /\ Running' /\ HeapFront'
  BY <1>1 DEF InHand, PassOver, Counts, Running, HeapFront
<1>9. items \subseteq Live /\ ToSet(to_add) \subseteq Live /\ ToSet(defer) \subseteq Live
      /\ Live \subseteq Indices
  BY LiveIs DEF Live
<1>10. /\ to_add' \in Seq(Indices') /\ defer' \in Seq(Indices')
       /\ to_add_count' \in Nat /\ defer_count' \in Nat
       /\ to_add_count' = Len(to_add') /\ left' + defer_count' = Len(defer')
       /\ Single'
       /\ \/ ToSet(to_add') = ToSet(to_add) \cup {i} /\ ToSet(defer') = ToSet(defer)
          \/ ToSet(to_add') = ToSet(to_add) /\ ToSet(defer') = ToSet(defer) \cup {i}
  <2>1. to_add \in Seq(Indices') /\ defer \in Seq(Indices') /\ i \in Indices'
    BY <1>6, SeqFacts DEF Types
  <2>2. i \notin ToSet(to_add) /\ i \notin ToSet(defer)
    BY <1>4, <1>9
  <2>3. /\ to_add_count \in Nat /\ defer_count \in Nat /\ left \in Nat
        /\ to_add_count = Len(to_add) /\ left + defer_count = Len(defer)
        /\ Distinct(to_add) /\ Distinct(defer)
    BY DEF Types, Counts, Single
  <2>4. CASE defer' = Append(defer, i)
    <3>1. /\ defer' \in Seq(Indices') /\ Len(defer') = Len(defer) + 1
          /\ ToSet(defer') = ToSet(defer) \cup {i} /\ Distinct(defer')
      BY <2>1, <2>2, <2>3, <2>4, AppendFacts
    <3>2. defer' # defer
      BY <2>2, <3>1
    <3>3. defer_count' = defer_count + 1 /\ UNCHANGED <<to_add, to_add_count>>
      BY <1>1, <3>2
    <3>4. QED
      BY <2>1, <2>3, <3>1, <3>3 DEF Single
  <2>5. CASE to_add' = Append(to_add, i)
    <3>1. /\ to_add' \in Seq(Indices') /\ Len(to_add') = Len(to_add) + 1
          /\ ToSet(to_add') = ToSet(to_add) \cup {i} /\ Distinct(to_add')
      BY <2>1, <2>2, <2>3, <2>5, AppendFacts
    <3>2. to_add' # to_add
      BY <2>2, <3>1
    <3>3. to_add_count' = to_add_count + 1 /\ UNCHANGED <<defer, defer_count>>
      BY <1>1, <3>2
    <3>4. QED
      BY <2>1, <2>3, <3>1, <3>3 DEF Single
  <2>6. QED
    BY <1>1, <2>4, <2>5
<1>11. Removed(items)' = Removed(items) \cup (S \cap items)
  <2>1. \A j \in items : j \in Indices \ {i}
    BY <1>4, <1>9
  <2>2. QED
    BY <1>1, <1>7, <2>1 DEF Removed
<1>12. to_remove' \in Nat /\ to_remove' >= Cardinality(Removed(items)')
  <2>1. to_remove \in Nat
    BY DEF Types
  <2>2. /\ Cardinality(S \cap items) \in Nat
        /\ to_remove + Cardinality(S \cap items)
             >= Cardinality(Removed(items) \cup (S \cap items))
    BY <1>3, MarkCounts
  <2>3. to_remove' = to_remove + Cardinality(S \cap items)
    BY <1>1
  <2>4. QED
    BY <1>11, <2>1, <2>2, <2>3
<1>13. Types'
  BY <1>1, <1>4, <1>6, <1>8, <1>10, <1>12 DEF Types
<1>14. Filled'
  <2>1. ASSUME NEW j \in pool' PROVE item'[j] = Blank
    BY <1>3, <1>4, <1>7 DEF Filled, Types, Live
  <2>2. ASSUME NEW j \in Indices' \ pool'
        PROVE  item'[j].key \in Keys /\ item'[j].type \in {"timeout", "interval"}
    BY <1>2, <1>4, <1>6, <1>7 DEF Filled
  <2>3. QED
    BY <2>1, <2>2 DEF Filled
<1>15. Apart' /\ Covered'
  BY <1>1, <1>4, <1>6, <1>8, <1>9, <1>10 DEF Apart, Covered
<1>16. Counts'
  BY <1>8, <1>10, <1>12 DEF Counts
<1>17. OneTimerPerKey'
  <2>1. Live' = Live \cup {i}
    BY <1>4, <1>6, <1>8 DEF Live, Types
  <2>2. SUFFICES ASSUME NEW j \in Live', NEW k \in Live', ~ item'[j].removed,
                        matches(k, item[j].key, item[j].type)', item'[j].key \notin Parallel
                 PROVE  j = k
    BY <2>2 DEF OneTimerPerKey, Live, Indices
  <2>3. item'[k].key = item'[j].key /\ item'[k].type = item'[j].type /\ ~ item'[k].removed
    BY <2>2 DEF matches
  <2>4. ASSUME NEW l \in Live, ~ item'[l].removed
        PROVE  /\ l \notin S /\ item'[l] = item[l]
               /\ item'[l].key = key /\ item'[l].type = type => key \in Parallel
    <3>1. l \in Indices \ {i}
      BY <1>4, <1>9
    <3>2. l \notin S /\ item'[l] = item[l]
      BY <1>7, <2>4, <3>1
    <3>3. ASSUME item'[l].key = key, item'[l].type = type, key \notin Parallel
          PROVE  FALSE
      <4>1. S \in Cancelled(key, type, TRUE) /\ key \in Keys \ Parallel
        BY <1>1, <3>3
      <4>2. matches(l, key, type)
        BY <2>4, <3>2, <3>3 DEF matches
      <4>3. QED
        BY <3>2, <4>1, <4>2, FirstIsAll
    <3>4. QED
      BY <3>2, <3>3
  <2>5. CASE j \in Live /\ k \in Live
    <3>1. item'[j] = item[j] /\ item'[k] = item[k]
      BY <2>2, <2>3, <2>4, <2>5
    <3>2. QED
      BY <2>2, <2>3, <2>5, <3>1 DEF OneTimerPerKey, Live, Indices, matches
  <2>6. CASE j = i /\ k \in Live
    BY <1>2, <1>6, <2>2, <2>3, <2>4, <2>6
  <2>7. CASE j \in Live /\ k = i
    BY <1>2, <1>6, <2>2, <2>3, <2>4, <2>7
  <2>8. QED
    BY <2>1, <2>5, <2>6, <2>7
<1>18. QED
  BY <1>8, <1>10, <1>13, <1>14, <1>15, <1>16, <1>17

-----------------------------------------------------------------------------
(* The main loop. *)

\* An interval that has run gets its next time and stays in the heap.
LEMMA IntervalStep ==
    ASSUME IInv, NEW t \in Int, top \in items,
           item' = [item EXCEPT ![top].when = t], NEW front, PushGives(items, front),
           UNCHANGED <<pool, to_add, defer, to_remove, to_add_count, defer_count,
                       left, failed, now, now_64>>,
           InHand' = InHand, PassOver', Running'
    PROVE  IInv'
<1> USE DEF IInv
<1>1. items' = items /\ HeapFront'
  BY FrontFacts
<1>2. /\ item' \in Seq(ItemRecords) /\ Len(item') = Len(item) /\ Indices' = Indices
      /\ \A i \in Indices : /\ item'[i].key = item[i].key /\ item'[i].type = item[i].type
                            /\ item'[i].removed = item[i].removed
                            /\ i # top => item'[i] = item[i]
  <2>1. /\ item \in Seq(ItemRecords) /\ DOMAIN item = 1 .. Len(item) /\ Len(item) \in Nat
        /\ top \in 1 .. Len(item)
    BY DEF Types, Indices
  <2> DEFINE r == [item[top] EXCEPT !.when = t]
  <2>2. item[top] \in ItemRecords
    BY <2>1
  <2>3. /\ r \in ItemRecords /\ r.key = item[top].key /\ r.type = item[top].type
        /\ r.removed = item[top].removed
    BY <2>2 DEF ItemRecords
  <2>4. item' = [item EXCEPT ![top] = r]
    OBVIOUS
  <2> HIDE DEF r
  <2>5. QED
    BY <2>1, <2>3, <2>4 DEF Indices
<1>3. Types'
  BY <1>1, <1>2 DEF Types
<1>4. Filled'
  BY <1>2 DEF Filled, Types, Apart
<1>5. Single' /\ Apart' /\ Covered'
  BY <1>1, <1>2 DEF Single, Apart, Covered
<1>6. Counts'
  <2>1. Removed(items)' = Removed(items)
    BY <1>1, <1>2 DEF Removed, Types
  <2>2. QED
    BY <2>1 DEF Counts
<1>7. OneTimerPerKey'
  <2>1. Live' = Live /\ Live \subseteq Indices
    BY <1>2 DEF Live
  <2>2. QED
    BY <1>2, <2>1, MatchesShrink
<1>8. QED
  BY <1>1, <1>3, <1>4, <1>5, <1>6, <1>7

LEMMA ExecutedStep == IInv /\ Executed => IInv'
<1> SUFFICES ASSUME IInv, Executed PROVE IInv'
  OBVIOUS
<1>1. /\ pc = "callback" /\ pc' = "run"
      /\ UNCHANGED <<left, now_64, now, failed>>
  BY DEF Executed, loopVars
<1>2. InHand' = InHand /\ PassOver' /\ Running'
  BY <1>1 DEF IInv, InHand, Counts, PassOver, Running
<1>3. top \in items /\ {top} \subseteq items
  BY <1>1 DEF IInv, Running
<1>4. CASE item[top].removed
  <2>1. Recycle({top}, 1)
    BY <1>4 DEF Executed
  <2>2. to_remove - 1 >= Cardinality(Removed(items) \ {top})
    BY <1>3, <1>4, RecycleCounts DEF Removed
  <2>3. QED
    BY <1>1, <1>2, <1>3, <2>1, <2>2, RecycleStep
<1>5. CASE ~ item[top].removed /\ item[top].type = "interval"
  <2>1. PICK front \in Least(items \ {top}) :
          /\ item' = [item EXCEPT ![top].when = now_64 + item[top].interval]
          /\ PushGives(items, front)
          /\ UNCHANGED <<pool, to_add, defer, to_remove, to_add_count, defer_count>>
    BY <1>5 DEF Executed
  <2>2. now_64 + item[top].interval \in Int
    <3>1. item[top] \in ItemRecords /\ now_64 \in Nat
      BY <1>3 DEF IInv, Types, Indices
    <3>2. item[top].interval \in Int
      BY <3>1 DEF ItemRecords
    <3>3. QED
      BY <3>1, <3>2
  <2>3. QED
    BY <1>1, <1>2, <1>3, <2>1, <2>2, IntervalStep
<1>6. CASE ~ item[top].removed /\ item[top].type # "interval"
  <2>1. Recycle({top}, 0)
    BY <1>6 DEF Executed
  <2>2. to_remove - 0 >= Cardinality(Removed(items) \ {top})
    <3>1. to_remove \in Nat
      BY DEF IInv, Types
    <3>2. to_remove >= Cardinality(Removed(items) \ {top})
      BY <1>3, RecycleCounts
    <3>3. to_remove - 0 = to_remove
      BY <3>1
    <3>4. QED
      BY <3>2, <3>3
  <2>3. QED
    BY <1>1, <1>2, <1>3, <2>1, <2>2, RecycleStep
<1>7. QED
  BY <1>4, <1>5, <1>6

\* Items dropped from the front without running.
LEMMA DropStep == IInv /\ (DropFailed \/ DropRemoved) => IInv'
<1> SUFFICES ASSUME IInv, DropFailed \/ DropRemoved PROVE IInv'
  OBVIOUS
<1>1. pc = "run" /\ items # {} /\ UNCHANGED <<pc, cur, left, now_64, now, failed>>
  BY DEF DropFailed, DropRemoved, Due, locals
<1>2. InHand' = InHand /\ PassOver' /\ Running'
  BY <1>1 DEF IInv, InHand, Counts, PassOver, Running
<1>3. top \in items /\ {top} \subseteq items /\ to_remove \in Nat
  BY <1>1 DEF IInv, HeapFront, Types
<1>4. CASE DropFailed
  <2>1. Recycle({top}, 0) /\ to_remove - 0 >= Cardinality(Removed(items) \ {top})
    <3>1. to_remove >= Cardinality(Removed(items) \ {top})
      BY <1>3, RecycleCounts
    <3>2. to_remove - 0 = to_remove
      BY <1>3
    <3>3. QED
      BY <1>4, <3>1, <3>2 DEF DropFailed
  <2>2. QED
    BY <1>1, <1>2, <1>3, <2>1, RecycleStep
<1>5. CASE DropRemoved
  <2>1. Recycle({top}, 1) /\ to_remove - 1 >= Cardinality(Removed(items) \ {top})
    BY <1>3, <1>5, RecycleCounts DEF DropRemoved, Removed
  <2>2. QED
    BY <1>1, <1>2, <1>3, <2>1, RecycleStep
<1>6. QED
  BY <1>4, <1>5

LEMMA FullCleanupStep == IInv /\ FullCleanup => IInv'
<1> SUFFICES ASSUME IInv, FullCleanup PROVE IInv'
  OBVIOUS
<1>1. pc = "full cleanup" /\ pc' = "run" /\ UNCHANGED <<cur, left, now_64, now, failed>>
  BY DEF FullCleanup, locals
<1>2. InHand' = InHand /\ PassOver' /\ Running'
  BY <1>1 DEF IInv, InHand, Counts, PassOver, Running
<1>3. CASE UNCHANGED containers
  BY <1>1, <1>2, <1>3, NothingMoves DEF IInv, Types
<1>4. CASE Recycle(Removed(items), to_remove)
  <2>1. /\ Removed(items) \subseteq items /\ to_remove \in Nat
        /\ Cardinality(Removed(items) \ Removed(items)) = 0
    BY RecycleCounts DEF IInv, Types, Removed
  <2>2. to_remove - to_remove >= Cardinality(Removed(items) \ Removed(items))
    BY <2>1
  <2>3. QED
    BY <1>1, <1>2, <1>4, <2>1, <2>2, RecycleStep
<1>5. QED
  BY <1>3, <1>4 DEF FullCleanup

LEMMA DeferQueueStep == IInv /\ (DeferQueueBegins \/ DeferredDone) => IInv'
<1> SUFFICES ASSUME IInv, DeferQueueBegins \/ DeferredDone PROVE IInv'
  OBVIOUS
<1>1. /\ left \in Nat /\ defer_count \in Nat /\ left + defer_count = Len(defer)
      /\ Len(defer) \in Nat
  BY DEF IInv, Types, Counts
<1>2. CASE DeferQueueBegins
  <2>1. /\ pc = "defer" /\ defer_count > 0 /\ defer_count' = 0 /\ TakeDeferred(Len(defer))
        /\ UNCHANGED <<item, pool, items, top, to_add, to_remove, to_add_count, failed, now, now_64>>
    BY <1>2 DEF DeferQueueBegins
  <2>2. InHand = {}
    BY <2>1 DEF InHand
  <2>3. item' = Blanked(InHand) /\ pool' = pool \cup InHand
    <3>1. item = [i \in DOMAIN item |-> item[i]]
      BY DEF IInv, Types
    <3>2. QED
      BY <2>1, <2>2, <3>1 DEF Blanked
  <2>4. /\ Len(defer) \in Nat \ {0} /\ Len(defer) <= Len(defer) /\ defer_count' \in Nat
        /\ Len(defer) - 1 + defer_count' = Len(defer) - 1
    BY <1>1, <2>1
  <2>5. QED
    BY <2>1, <2>3, <2>4, DeferredStep
<1>3. CASE DeferredDone
  <2>1. /\ pc \in {"deferred", "deferred callback"}
        /\ item' = Blanked({cur}) /\ pool' = pool \cup {cur}
        /\ UNCHANGED <<items, top, to_add, to_remove, to_add_count, defer_count, failed, now>>
    BY <1>3 DEF DeferredDone
  <2>2. InHand = {cur}
    BY <2>1 DEF InHand
  <2>3. CASE left > 0
    <3>1. TakeDeferred(left) /\ UNCHANGED now_64
      BY <1>3, <2>3 DEF DeferredDone
    <3>2. /\ left \in Nat \ {0} /\ left <= Len(defer) /\ defer_count' \in Nat
          /\ left - 1 + defer_count' = Len(defer) - 1
      <4>1. defer_count' = defer_count
        BY <2>1
      <4>2. QED
        BY <1>1, <2>3, <4>1
    <3>3. QED
      BY <2>1, <2>2, <3>1, <3>2, DeferredStep
  <2>4. CASE ~ (left > 0)
    <3>1. DeferQueueDone /\ UNCHANGED <<defer, left>>
      BY <1>3, <2>4 DEF DeferredDone
    <3>2. left = 0
      BY <1>1, <2>4
    <3>3. QED
      BY <2>1, <2>2, <3>1, <3>2, DeferredEnds
  <2>5. QED
    BY <2>3, <2>4
<1>4. QED
  BY <1>2, <1>3

LEMMA TimerCallStep == IInv /\ TimerCall => IInv'
<1> SUFFICES ASSUME IInv, TimerCall PROVE IInv'
  OBVIOUS
<1>1. UNCHANGED <<left, failed, now, now_64, pc, cur>>
  BY DEF TimerCall, locals
<1>2. PICK timer \in Timers :
        \/ set_timer_common(timer[1], timer[2], timer[3])
        \/ \E find_first \in BOOLEAN : cancel(timer[1], timer[2], find_first)
  BY DEF TimerCall
<1>3. timer[1] \in Keys /\ timer[2] \in {"timeout", "interval"} /\ timer[3] \in Nat
  <2>1. timer \in Keys \X {"timeout", "interval"} \X Nat
    BY SchedulerAssumption
  <2>2. QED
    BY <2>1
<1>4. CASE set_timer_common(timer[1], timer[2], timer[3])
  BY <1>1, <1>3, <1>4, SetStep
<1>5. CASE \E find_first \in BOOLEAN : cancel(timer[1], timer[2], find_first)
  BY <1>1, <1>5, CancelStep
<1>6. QED
  BY <1>2, <1>4, <1>5

LEMMA InitHolds == Init => IInv
<1> SUFFICES ASSUME Init PROVE IInv
  OBVIOUS
<1> USE DEF Init
<1>1. InHand = {} /\ Indices = {} /\ Live = {}
  BY DEF InHand, Indices, Live
<1>2. ToSet(to_add) = {} /\ ToSet(defer) = {} /\ Single
  BY EmptyFacts DEF Single
<1>3. Removed(items) = {} /\ Cardinality(Removed(items)) = 0
  BY FS_EmptySet DEF Removed
<1>4. Types
  <2>1. item \in Seq(ItemRecords) /\ Len(item) = 0 /\ MaxItems \in Nat
    BY SchedulerAssumption
  <2>2. to_add \in Seq(Indices) /\ defer \in Seq(Indices)
    BY EmptyFacts
  <2>3. QED
    BY <1>1, <2>1, <2>2 DEF Types
<1>5. Filled /\ Apart /\ Covered
  BY <1>1, <1>2 DEF Filled, Apart, Covered
<1>6. HeapFront /\ Counts /\ Running
  BY <1>3 DEF HeapFront, Counts, PassOver, Running
<1>7. OneTimerPerKey
  BY <1>1 DEF OneTimerPerKey, Live, Indices
<1>8. QED
  BY <1>2, <1>4, <1>5, <1>6, <1>7 DEF IInv

LEMMA Inductive == IInv /\ [Next]_vars => IInv'
<1> SUFFICES ASSUME IInv, [Next]_vars PROVE IInv'
  OBVIOUS
<1>1. left \in Nat /\ now \in Nat /\ now_64 \in Nat /\ failed \subseteq Components
      /\ PassOver /\ Running
  BY DEF IInv, Types, Counts
<1>2. CASE Tick \/ MarkFailed \/ WakeLoop \/ UNCHANGED vars
  <2>1. UNCHANGED <<containers, left, cur, pc>> /\ UNCHANGED <<top, items>>
    BY <1>2 DEF Tick, MarkFailed, WakeLoop, vars, locals, containers
  <2>2. now' \in Nat /\ now_64' \in Nat /\ failed' \subseteq Components
    BY <1>1, <1>2 DEF Tick, MarkFailed, WakeLoop, vars, locals
  <2>3. InHand' = InHand /\ PassOver' /\ Running'
    BY <1>1, <2>1 DEF InHand, PassOver, Running
  <2>4. QED
    BY <2>1, <2>2, <2>3, NothingMoves
<1>3. CASE LoopBegins \/ DeferQueueEmpty \/ RunItem \/ ComponentPhase \/ ComponentsDone
  <2>1. /\ UNCHANGED <<containers, left, now, failed>> /\ now_64' \in Nat
        /\ pc \notin {"deferred", "deferred callback"}
        /\ pc' \notin {"deferred", "deferred callback"}
    BY <1>1, <1>3 DEF LoopBegins, DeferQueueEmpty, DeferQueueDone, RunItem,
       ComponentPhase, ComponentsDone, locals
  <2>2. InHand' = InHand /\ PassOver'
    BY <1>1, <2>1 DEF InHand, PassOver
  <2>3. Running'
    <3>1. CASE RunItem
      BY <3>1 DEF RunItem, Due, Running, IInv, HeapFront, containers
    <3>2. CASE ~ RunItem
      BY <1>3, <3>2 DEF LoopBegins, DeferQueueEmpty, DeferQueueDone,
         ComponentPhase, ComponentsDone, Running
    <3>3. QED
      BY <3>1, <3>2
  <2>4. QED
    BY <1>1, <2>1, <2>2, <2>3, NothingMoves
<1>4. CASE RunDeferred
  <2>1. /\ UNCHANGED <<containers, left, cur, now, now_64, failed>>
        /\ pc = "deferred" /\ pc' = "deferred callback"
    BY <1>4 DEF RunDeferred, locals
  <2>2. InHand' = InHand /\ PassOver' /\ Running'
    BY <2>1 DEF InHand, PassOver, Running
  <2>3. QED
    BY <1>1, <2>1, <2>2, NothingMoves
<1>5. CASE DeferQueueBegins \/ DeferredDone
  BY <1>5, DeferQueueStep
<1>6. CASE ProcessToAdd
  <2>1. /\ process_to_add /\ UNCHANGED <<left, now, now_64, failed>>
        /\ pc = "to_add" /\ pc' = "cleanup"
    BY <1>6 DEF ProcessToAdd, locals
  <2>2. InHand' = InHand /\ PassOver' /\ Running'
    BY <1>1, <2>1 DEF InHand, PassOver, Running
  <2>3. QED
    BY <1>1, <2>1, <2>2, ToAddStep
<1>7. CASE CallReturns
  <2>1. /\ process_to_add \/ UNCHANGED containers
        /\ UNCHANGED <<left, now, failed>> /\ now_64' \in Nat
        /\ pc = "run" /\ pc' = "gate"
    BY <1>7 DEF CallReturns
  <2>2. InHand' = InHand /\ PassOver' /\ Running'
    BY <1>1, <2>1 DEF InHand, PassOver, Running
  <2>3. QED
    BY <1>1, <2>1, <2>2, ToAddStep, NothingMoves
<1>8. CASE Cleanup
  <2>1. /\ cleanup /\ UNCHANGED <<left, now, now_64, failed>>
        /\ pc = "cleanup" /\ pc' = "full cleanup"
    BY <1>8 DEF Cleanup, locals
  <2>2. InHand' = InHand /\ PassOver' /\ Running'
    BY <1>1, <2>1 DEF InHand, PassOver, Running
  <2>3. QED
    BY <2>1, <2>2, CleanupStep
<1>9. CASE Sleep
  <2>1. /\ cleanup \/ UNCHANGED containers
        /\ UNCHANGED <<left, now, now_64, failed>>
        /\ pc = "decide" /\ pc' = "sleep"
    BY <1>9 DEF Sleep, locals
  <2>2. InHand' = InHand /\ PassOver' /\ Running'
    BY <1>1, <2>1 DEF InHand, PassOver, Running
  <2>3. QED
    BY <1>1, <2>1, <2>2, CleanupStep, NothingMoves
<1>10. CASE FullCleanup
  BY <1>10, FullCleanupStep
<1>11. CASE DropFailed \/ DropRemoved
  BY <1>11, DropStep
<1>12. CASE Executed
  BY <1>12, ExecutedStep
<1>13. CASE OtherCalls \/ MainCalls
  BY <1>13, TimerCallStep DEF OtherCalls, MainCalls
<1>14. QED
  BY <1>2, <1>3, <1>4, <1>5, <1>6, <1>7, <1>8, <1>9, <1>10, <1>11, <1>12, <1>13
     DEF Next, MainLoop

-----------------------------------------------------------------------------
(* The theorems. *)

LEMMA Always == Spec => []IInv
  BY InitHolds, Inductive, PTL DEF Spec

\* An item occurs once in a sequence without repetition, or not at all.
LEMMA Occurrences ==
    ASSUME NEW S, NEW s \in Seq(S), Distinct(s), NEW i
    PROVE  Cardinality({j \in DOMAIN s : s[j] = i}) = IF i \in ToSet(s) THEN 1 ELSE 0
<1>1. CASE i \in ToSet(s)
  <2>1. PICK k \in 1 .. Len(s) : s[k] = i
    BY <1>1, SeqFacts
  <2>2. {j \in DOMAIN s : s[j] = i} = {k}
    BY <2>1 DEF Distinct
  <2>3. QED
    BY <1>1, <2>2, FS_Singleton
<1>2. CASE i \notin ToSet(s)
  <2>1. {j \in DOMAIN s : s[j] = i} = {}
    BY <1>2, SeqFacts
  <2>2. QED
    BY <1>2, <2>1, FS_EmptySet
<1>3. QED
  BY <1>1, <1>2

LEMMA MemberCount ==
    ASSUME NEW S, NEW i
    PROVE  Cardinality({i} \cap S) = IF i \in S THEN 1 ELSE 0
<1>1. CASE i \in S
  <2>1. {i} \cap S = {i}
    BY <1>1
  <2>2. QED
    BY <1>1, <2>1, FS_Singleton
<1>2. CASE i \notin S
  <2>1. {i} \cap S = {}
    BY <1>2
  <2>2. QED
    BY <1>2, <2>1, FS_EmptySet
<1>3. QED
  BY <1>1, <1>2

LEMMA OneContainer == IInv => ExactlyOneContainer
<1> SUFFICES ASSUME IInv, NEW i \in Indices
             PROVE  1 = Cardinality({j \in DOMAIN to_add : to_add[j] = i})
                        + Cardinality({j \in DOMAIN defer : defer[j] = i})
                        + Cardinality({i} \cap items) + Cardinality({i} \cap pool)
                        + Cardinality({i} \cap InHand)
  BY DEF ExactlyOneContainer, Indices
<1>1. /\ to_add \in Seq(Indices) /\ Distinct(to_add)
      /\ defer \in Seq(Indices) /\ Distinct(defer)
  BY DEF IInv, Types, Single
<1>2. /\ Cardinality({j \in DOMAIN to_add : to_add[j] = i})
           = IF i \in ToSet(to_add) THEN 1 ELSE 0
      /\ Cardinality({j \in DOMAIN defer : defer[j] = i})
           = IF i \in ToSet(defer) THEN 1 ELSE 0
  BY <1>1, Occurrences
<1>3. /\ Cardinality({i} \cap items) = IF i \in items THEN 1 ELSE 0
      /\ Cardinality({i} \cap pool) = IF i \in pool THEN 1 ELSE 0
      /\ Cardinality({i} \cap InHand) = IF i \in InHand THEN 1 ELSE 0
  BY MemberCount
<1>4. /\ i \in ToSet(to_add) \/ i \in ToSet(defer) \/ i \in items \/ i \in pool \/ i \in InHand
      /\ i \in ToSet(to_add) => i \notin ToSet(defer) \cup items \cup pool \cup InHand
      /\ i \in ToSet(defer) => i \notin items \cup pool \cup InHand
      /\ i \in items => i \notin pool \cup InHand
      /\ i \in pool => i \notin InHand
  BY DEF IInv, Apart, Covered
<1>5. CASE i \in ToSet(to_add)
  BY <1>2, <1>3, <1>4, <1>5
<1>6. CASE i \in ToSet(defer)
  BY <1>2, <1>3, <1>4, <1>6
<1>7. CASE i \in items \cup pool \cup InHand
  BY <1>2, <1>3, <1>4, <1>7
<1>8. QED
  BY <1>4, <1>5, <1>6, <1>7

\* "every live SchedulerItem must be in exactly one container": whatever threads
\* set and cancel, no item is leaked, and none is in two containers.
THEOREM TypeCorrect == Spec => []TypeOK
<1>1. IInv => TypeOK
  <2> SUFFICES ASSUME IInv PROVE TypeOK
    OBVIOUS
  <2>1. ToSet(to_add) \subseteq Indices /\ ToSet(defer) \subseteq Indices
    BY SeqFacts DEF IInv, Types
  <2>2. /\ pool \cup items \cup ToSet(to_add) \cup ToSet(defer) \subseteq DOMAIN item
        /\ Len(item) <= MaxItems /\ failed \subseteq Components
        /\ to_remove \in Nat /\ to_add_count \in Nat /\ defer_count \in Nat
    BY <2>1 DEF IInv, Types, Indices
  <2>3. \A i \in DOMAIN item :
          \/ item[i].key \in Keys /\ item[i].type \in {"timeout", "interval"}
          \/ i \in pool /\ item[i] = Blank
    BY DEF IInv, Filled, Indices
  <2>4. QED
    BY <2>2, <2>3, OneContainer DEF IInv, HeapFront, TypeOK
<1>2. QED
  BY <1>1, Always, PTL

\* A counter read without the lock never hides an item, and to_remove_ never
\* wraps around.
THEOREM CountersAreSafe == Spec => []CountersHideNothing
<1>1. IInv => CountersHideNothing
  <2> SUFFICES ASSUME IInv PROVE CountersHideNothing
    OBVIOUS
  <2>1. /\ left \in Nat /\ defer_count \in Nat /\ left + defer_count = Len(defer)
        /\ to_add_count = Len(to_add) /\ to_remove >= Cardinality(Removed(items))
    BY DEF IInv, Types, Counts
  <2>2. left + defer_count >= Len(defer)
    BY <2>1
  <2>3. pc \notin {"deferred", "deferred callback"} => defer_count = Len(defer)
    <3>1. pc \notin {"deferred", "deferred callback"} => left = 0
      BY DEF IInv, Counts, PassOver
    <3>2. left = 0 => defer_count = Len(defer)
      BY <2>1
    <3>3. QED
      BY <3>1, <3>2
  <2>4. QED
    BY <2>1, <2>2, <2>3 DEF CountersHideNothing
<1>2. QED
  BY <1>1, Always, PTL

\* Marking the first match is enough, since there is never a second.
THEOREM TimersAreUnique == Spec => []OneTimerPerKey
<1>1. IInv => OneTimerPerKey
  BY DEF IInv
<1>2. QED
  BY <1>1, Always, PTL

\* The item whose callback runs is neither recycled nor moved.
THEOREM RunningItemIsSafe == Spec => []RunningItemStays
<1>1. IInv => RunningItemStays
  <2> SUFFICES ASSUME IInv PROVE RunningItemStays
    OBVIOUS
  <2>1. pc = "callback" => cur = top /\ cur \in items
    BY DEF IInv, Running
  <2>2. pc = "callback" => cur \notin pool
    BY <2>1 DEF IInv, Apart
  <2>3. pc = "deferred callback" => cur \notin pool
    BY DEF IInv, Apart, InHand
  <2>4. QED
    BY <2>1, <2>2, <2>3 DEF RunningItemStays
<1>2. QED
  BY <1>1, Always, PTL
=============================================================================
