-------------------------- MODULE ValueArrayProofs --------------------------
(***************************************************************************)
(* Proofs about ValueArray, for every set of keys, every hash function and *)
(* arrays of every length.                                                 *)
(*                                                                         *)
(* Every array is a good one: its key table and its vector of pointers     *)
(* list each other, whatever was stored, copied, merged or sorted.  A call *)
(* that builds a new array does so by a fold, which makes good arrays of   *)
(* good ones (FoldSteps).  The pointers into a node stay right until the   *)
(* node is moved, which happens when it has NodeGrowth entries and gets    *)
(* one more.                                                               *)
(*                                                                         *)
(* From there on what a script sees of an array is the ordered map of      *)
(* OrderedMap: each place shows its key and its value (View), and each     *)
(* call of ValueArray does to the view what the call of OrderedMap does,   *)
(* for a call that builds an array in step with the fold it is there.      *)
(***************************************************************************)
EXTENDS ValueArray, Induction, SequenceTheorems

Contents == Data \cup {"freed"}
KeySlots == [symbol : Names, type : {"var"}, data : Contents]
HeapPtrs == [at : {"heap"}, data : Contents]
NodePtrs == [at : {"node"}, bucket : Buckets, index : Nat \ {0}, base : Nat]
Shaped   == [keys : [Buckets -> Seq(KeySlots)], base : [Buckets -> Nat], values : Seq(HeapPtrs \cup NodePtrs)]
Elem     == [symbol : Names \cup {NULL}, data : Contents]

Points(a, i, b, k) == a.values[i].at = "node" /\ a.values[i].bucket = b /\ a.values[i].index = k

\* Each key has one entry, in the node its hash leads to.
KeysProper(a) ==
  \A b \in Buckets : \A k \in 1..Len(a.keys[b]) :
    /\ Hash[a.keys[b][k].symbol] = b
    /\ \A l \in 1..Len(a.keys[b]) : a.keys[b][l].symbol = a.keys[b][k].symbol => l = k

\* Each entry of the key table is listed once, and nothing else.
Listed(a) ==
  /\ \A b \in Buckets : \A k \in 1..Len(a.keys[b]) : \E i \in 1..ArrLen(a) : Points(a, i, b, k)
  /\ \A i \in NodePlaces(a) : a.values[i].index <= Len(a.keys[a.values[i].bucket])
  /\ \A i, j \in NodePlaces(a) :
       a.values[i].bucket = a.values[j].bucket /\ a.values[i].index = a.values[j].index => i = j

\* A node that was never full was never moved.
Unmoved(a) ==
  \A b \in Buckets : Len(a.keys[b]) <= NodeGrowth =>
    /\ a.base[b] = 0
    /\ \A i \in NodePlaces(a) : a.values[i].bucket = b => a.values[i].base = 0

Short(a) == \A b \in Buckets : Len(a.keys[b]) <= ArrLen(a)

Good(a) == KeysProper(a) /\ Listed(a) /\ Unmoved(a) /\ Short(a)
Arrays  == {a \in Shaped : Good(a)}
-----------------------------------------------------------------------------
LEMMA ShapeIs ==
  ASSUME NEW a \in Shaped
  PROVE  /\ a.keys \in [Buckets -> Seq(KeySlots)] /\ a.base \in [Buckets -> Nat]
         /\ a.values \in Seq(HeapPtrs \cup NodePtrs) /\ ArrLen(a) \in Nat
         /\ \A b \in Buckets : a.keys[b] \in Seq(KeySlots) /\ Len(a.keys[b]) \in Nat
         /\ \A i \in 1..ArrLen(a) : a.values[i] \in HeapPtrs \cup NodePtrs
         /\ \A i \in NodePlaces(a) : i \in 1..ArrLen(a) /\ a.values[i] \in NodePtrs
BY DEF Shaped, ArrLen, NodePlaces, HeapPtrs, NodePtrs

\* A sequence with one element replaced.
LEMMA Replaced ==
  ASSUME NEW E, NEW s \in Seq(E), NEW k \in 1..Len(s), NEW e \in E, NEW t, t = [s EXCEPT ![k] = e]
  PROVE  t \in Seq(E) /\ Len(t) = Len(s) /\ \A l \in 1..Len(s) : t[l] = IF l = k THEN e ELSE s[l]
OBVIOUS

LEMMA EmptyIsGood == EmptyArray \in Arrays
<1>1. EmptyArray.keys = [b \in Buckets |-> <<>>] /\ EmptyArray.base = [b \in Buckets |-> 0] /\ EmptyArray.values = <<>>
  BY DEF EmptyArray, NewTable
<1>2. EmptyArray \in Shaped
  BY DEF EmptyArray, NewTable, Shaped
<1>3. Good(EmptyArray)
  BY <1>1 DEF Good, KeysProper, Listed, Unmoved, Short, NodePlaces, ArrLen
<1> QED BY <1>2, <1>3 DEF Arrays

\* Adding to the vector what is no pointer into the table.
LEMMA HeapAdded ==
  ASSUME NEW a \in Arrays, NEW v \in Contents
  PROVE  /\ AddToArray(a, v) \in Arrays
         /\ ArrLen(AddToArray(a, v)) = ArrLen(a) + 1
<1> DEFINE t == AddToArray(a, v)
<1>1. a \in Shaped /\ Good(a)
  BY DEF Arrays
<1>2. t.keys = a.keys /\ t.base = a.base /\ t.values = Append(a.values, InHeap(v)) /\ t \in Shaped
  <2>1. InHeap(v) \in HeapPtrs \cup NodePtrs
    BY DEF InHeap, HeapPtrs
  <2>2. Append(a.values, InHeap(v)) \in Seq(HeapPtrs \cup NodePtrs)
    BY <1>1, <2>1, ShapeIs
  <2>3. t = [a EXCEPT !.values = Append(a.values, InHeap(v))]
    BY DEF AddToArray
  <2> QED BY <1>1, <2>2, <2>3 DEF Shaped
<1> HIDE DEF t
<1>3. ArrLen(t) = ArrLen(a) + 1 /\ NodePlaces(t) = NodePlaces(a)
      /\ \A i \in 1..ArrLen(a) : t.values[i] = a.values[i]
  BY <1>1, <1>2, ShapeIs DEF ArrLen, NodePlaces, InHeap
<1>4. Good(t)
  <2>1. KeysProper(t)
    BY <1>1, <1>2 DEF Good, KeysProper
  <2>2. Listed(t)
    <3>1. \A b \in Buckets : \A k \in 1..Len(t.keys[b]) : \E i \in 1..ArrLen(t) : Points(t, i, b, k)
      <4> SUFFICES ASSUME NEW b \in Buckets, NEW k \in 1..Len(a.keys[b]) PROVE \E i \in 1..ArrLen(t) : Points(t, i, b, k)
        BY <1>2
      <4>1. PICK i \in 1..ArrLen(a) : Points(a, i, b, k)
        BY <1>1 DEF Good, Listed
      <4> QED BY <1>1, <1>3, <4>1, ShapeIs DEF Points
    <3> QED BY <1>1, <1>2, <1>3, <3>1, ShapeIs DEF Good, Listed
  <2>3. Unmoved(t)
    BY <1>1, <1>2, <1>3, ShapeIs, ZenonT(60) DEF Good, Unmoved
  <2>4. Short(t)
    BY <1>1, <1>2, <1>3, ShapeIs DEF Good, Short
  <2> QED BY <2>1, <2>2, <2>3, <2>4 DEF Good
<1> QED BY <1>2, <1>3, <1>4 DEF Arrays, t

\* What is read through a pointer of a good array.
LEMMA ReadIs ==
  ASSUME NEW a \in Arrays, NEW i \in 1..ArrLen(a)
  PROVE  Symbol(a, i) \in Names \cup {NULL} /\ DataAt(a, i) \in Contents
<1>1. a \in Shaped /\ Good(a)
  BY DEF Arrays
<1> DEFINE p == a.values[i]
<1>2. p \in HeapPtrs \cup NodePtrs
  BY <1>1, ShapeIs
<1>3. CASE p \in HeapPtrs
  BY <1>3 DEF Symbol, DataAt, Read, HeapPtrs
<1>4. CASE p \in NodePtrs /\ Fresh(a, p)
  <2>1. i \in NodePlaces(a) /\ p.at = "node" /\ p.bucket \in Buckets /\ p.index \in Nat \ {0}
    BY <1>4 DEF NodePtrs, NodePlaces
  <2>2. p.index \in 1..Len(a.keys[p.bucket])
    BY <1>1, <2>1, ShapeIs DEF Good, Listed
  <2>3. a.keys[p.bucket][p.index] \in KeySlots
    BY <1>1, <2>1, <2>2, ShapeIs, SMTT(40)
  <2>4. Read(a, p) = a.keys[p.bucket][p.index]
    BY <1>4, <2>1 DEF Read
  <2> QED BY <2>3, <2>4 DEF Symbol, DataAt, KeySlots
<1>5. CASE p \in NodePtrs /\ ~Fresh(a, p)
  <2>1. Read(a, p) = Freed
    BY <1>5 DEF Read, NodePtrs
  <2> QED BY <2>1 DEF Symbol, DataAt, Freed, Contents
<1> QED BY <1>2, <1>3, <1>4, <1>5

LEMMA ElemsAre ==
  ASSUME NEW a \in Arrays
  PROVE  Elems(a) \in Seq(Elem) /\ Len(Elems(a)) = ArrLen(a)
<1>1. ArrLen(a) \in Nat
  BY ShapeIs DEF Arrays
<1>2. \A i \in 1..ArrLen(a) : [symbol |-> Symbol(a, i), data |-> DataAt(a, i)] \in Elem
  BY ReadIs DEF Elem
<1> QED BY <1>1, <1>2 DEF Elems

\* Writing through a pointer leaves the keys and the pointers as they are.
SameButData(a, t) ==
  /\ t.base = a.base /\ ArrLen(t) = ArrLen(a)
  /\ \A b \in Buckets : Len(t.keys[b]) = Len(a.keys[b])
  /\ \A b \in Buckets : \A k \in 1..Len(a.keys[b]) : t.keys[b][k].symbol = a.keys[b][k].symbol
  /\ \A i \in 1..ArrLen(a) : t.values[i].at = a.values[i].at
  /\ \A i \in NodePlaces(a) : t.values[i] = a.values[i]

LEMMA SameIsGood ==
  ASSUME NEW a \in Arrays, NEW t \in Shaped, SameButData(a, t)
  PROVE  t \in Arrays
<1>1. a \in Shaped /\ Good(a)
  BY DEF Arrays
<1>2. NodePlaces(t) = NodePlaces(a) /\ \A i \in NodePlaces(a) : t.values[i] = a.values[i]
  BY DEF SameButData, NodePlaces
<1>3. KeysProper(t)
  BY <1>1 DEF Good, KeysProper, SameButData
<1>4. Listed(t)
  <2>1. \A b \in Buckets : \A k \in 1..Len(t.keys[b]) : \E i \in 1..ArrLen(t) : Points(t, i, b, k)
    <3> SUFFICES ASSUME NEW b \in Buckets, NEW k \in 1..Len(a.keys[b]) PROVE \E i \in 1..ArrLen(t) : Points(t, i, b, k)
      BY DEF SameButData
    <3>1. PICK i \in 1..ArrLen(a) : Points(a, i, b, k)
      BY <1>1 DEF Good, Listed
    <3>2. i \in NodePlaces(a)
      BY <3>1 DEF Points, NodePlaces
    <3> QED BY <3>1, <3>2 DEF Points, SameButData
  <2>2. \A i \in NodePlaces(t) : t.values[i].index <= Len(t.keys[t.values[i].bucket])
    <3> SUFFICES ASSUME NEW i \in NodePlaces(a) PROVE t.values[i].index <= Len(t.keys[t.values[i].bucket])
      BY <1>2
    <3>1. a.values[i].bucket \in Buckets
      BY <1>1, ShapeIs DEF NodePtrs
    <3>2. a.values[i].index <= Len(a.keys[a.values[i].bucket])
      BY <1>1 DEF Good, Listed
    <3> QED BY <1>2, <3>1, <3>2 DEF SameButData
  <2>3. \A i, j \in NodePlaces(t) :
          t.values[i].bucket = t.values[j].bucket /\ t.values[i].index = t.values[j].index => i = j
    <3> SUFFICES ASSUME NEW i \in NodePlaces(a), NEW j \in NodePlaces(a),
                        a.values[i].bucket = a.values[j].bucket, a.values[i].index = a.values[j].index
                 PROVE  i = j
      BY <1>2
    <3> QED BY <1>1 DEF Good, Listed
  <2> QED BY <2>1, <2>2, <2>3 DEF Listed
<1>5. Unmoved(t)
  <2> SUFFICES ASSUME NEW b \in Buckets, Len(a.keys[b]) <= NodeGrowth
               PROVE  t.base[b] = 0 /\ \A i \in NodePlaces(t) : t.values[i].bucket = b => t.values[i].base = 0
    BY DEF Unmoved, SameButData
  <2>1. a.base[b] = 0 /\ \A i \in NodePlaces(a) : a.values[i].bucket = b => a.values[i].base = 0
    BY <1>1 DEF Good, Unmoved
  <2> QED BY <1>2, <2>1 DEF SameButData
<1>6. Short(t)
  BY <1>1 DEF Good, Short, SameButData
<1> QED BY <1>3, <1>4, <1>5, <1>6 DEF Arrays, Good

LEMMA WriteIsGood ==
  ASSUME NEW a \in Arrays, NEW i \in 1..ArrLen(a), NEW v \in Contents
  PROVE  Write(a, i, v) \in Arrays /\ ArrLen(Write(a, i, v)) = ArrLen(a)
<1>1. a \in Shaped /\ Good(a)
  BY DEF Arrays
<1> DEFINE p == a.values[i]
           t == Write(a, i, v)
<1>2. p \in HeapPtrs \cup NodePtrs
  BY <1>1, ShapeIs
<1>3. CASE t = a
  BY <1>3
<1>4. CASE p.at = "heap"
  <2> DEFINE q == [p EXCEPT !.data = v]
             V == [a.values EXCEPT ![i] = q]
  <2>1. t = [a EXCEPT !.values = V]
    BY <1>4 DEF Write
  <2>2. q \in HeapPtrs
    BY <1>2, <1>4 DEF HeapPtrs, NodePtrs
  <2> HIDE DEF q
  <2>3. /\ V \in Seq(HeapPtrs \cup NodePtrs) /\ Len(V) = ArrLen(a)
        /\ V[i] = q /\ \A j \in 1..ArrLen(a) : j # i => V[j] = a.values[j]
    BY <1>1, <2>2, ShapeIs DEF ArrLen
  <2> HIDE DEF V
  <2>4. t \in Shaped /\ t.keys = a.keys /\ t.base = a.base /\ t.values = V
    BY <1>1, <2>1, <2>3 DEF Shaped
  <2> HIDE DEF t
  <2>5. i \notin NodePlaces(a) /\ q.at = "heap"
    BY <1>4, <2>2 DEF NodePlaces, HeapPtrs
  <2>6. SameButData(a, t)
    BY <1>4, <2>3, <2>4, <2>5 DEF SameButData, ArrLen, NodePlaces
  <2> QED BY <2>3, <2>4, <2>6, SameIsGood DEF ArrLen, t
<1>5. CASE p.at = "node" /\ Fresh(a, p)
  <2>1. i \in NodePlaces(a) /\ p \in NodePtrs /\ p.bucket \in Buckets /\ p.index \in Nat \ {0}
    BY <1>2, <1>5 DEF NodePtrs, HeapPtrs, NodePlaces
  <2> DEFINE b == p.bucket
             k == p.index
             e == [a.keys[b][k] EXCEPT !.data = v]
             N == [a.keys[b] EXCEPT ![k] = e]
             K == [a.keys EXCEPT ![b] = N]
  <2>2. k \in 1..Len(a.keys[b]) /\ b \in Buckets
    BY <1>1, <2>1, ShapeIs DEF Good, Listed
  <2>3. t = [a EXCEPT !.keys = K]
    BY <1>5 DEF Write
  <2>4. a.keys[b][k] \in KeySlots /\ a.keys[b] \in Seq(KeySlots)
    BY <1>1, <2>2, ShapeIs
  <2>5. e \in KeySlots /\ e.symbol = a.keys[b][k].symbol
    BY <2>4 DEF KeySlots
  <2> HIDE DEF e
  <2>6. /\ N \in Seq(KeySlots) /\ Len(N) = Len(a.keys[b])
        /\ \A l \in 1..Len(a.keys[b]) : N[l].symbol = a.keys[b][l].symbol
    <3>1. PICK s : s = a.keys[b]
      OBVIOUS
    <3>2. s \in Seq(KeySlots) /\ k \in 1..Len(s) /\ N = [s EXCEPT ![k] = e]
      BY <2>2, <2>4, <3>1
    <3>3. N \in Seq(KeySlots) /\ Len(N) = Len(s) /\ \A l \in 1..Len(s) : N[l] = IF l = k THEN e ELSE s[l]
      <4>1. s \in Seq(KeySlots) /\ k \in 1..Len(s)
        BY <3>2
      <4>2. N = [s EXCEPT ![k] = e]
        BY <3>2
      <4>3. e \in KeySlots
        BY <2>5
      <4> HIDE DEF k, N
      <4> QED BY <4>1, <4>2, <4>3, Replaced
    <3>4. e.symbol = s[k].symbol
      BY <2>5, <3>1
    <3> HIDE DEF N, k
    <3> QED BY <3>1, <3>3, <3>4
  <2> HIDE DEF N
  <2>7. K \in [Buckets -> Seq(KeySlots)] /\ K[b] = N /\ \A c \in Buckets : c # b => K[c] = a.keys[c]
    BY <1>1, <2>2, <2>6, ShapeIs
  <2> HIDE DEF K
  <2>8. t \in Shaped /\ t.keys = K /\ t.base = a.base /\ t.values = a.values
    BY <1>1, <2>3, <2>7 DEF Shaped
  <2> HIDE DEF t
  <2>9. SameButData(a, t)
    BY <2>6, <2>7, <2>8 DEF SameButData, ArrLen
  <2> QED BY <2>8, <2>9, SameIsGood DEF ArrLen, t
<1> QED BY <1>3, <1>4, <1>5 DEF Write
-----------------------------------------------------------------------------
\* Where the slot of a key is.
LEMMA SlotIs ==
  ASSUME NEW a \in Shaped, NEW k \in Names
  PROVE  /\ Hash[k] \in Buckets
         /\ Found(a.keys, k) => /\ Index(a.keys, k) \in 1..Len(a.keys[Hash[k]])
                                /\ a.keys[Hash[k]][Index(a.keys, k)].symbol = k
         /\ ~Found(a.keys, k) => \A i \in 1..Len(a.keys[Hash[k]]) : a.keys[Hash[k]][i].symbol # k
<1>1. Hash[k] \in Buckets
  BY HashAssumption
<1>2. ASSUME Found(a.keys, k)
      PROVE  Index(a.keys, k) \in 1..Len(a.keys[Hash[k]]) /\ a.keys[Hash[k]][Index(a.keys, k)].symbol = k
  <2>1. PICK W : W = Where(a.keys, k)
    OBVIOUS
  <2>2. W \in SUBSET Nat /\ W # {}
    BY <1>2, <2>1 DEF Where, Found
  <2>3. PICK x \in W : \A y \in W : x <= y
    BY <2>2, LeastNumber
  <2>4. First(W) \in W
    BY <2>3 DEF First
  <2>5. Index(a.keys, k) \in Where(a.keys, k)
    BY <2>1, <2>4 DEF Index
  <2> QED BY <2>5 DEF Where
<1>3. ~Found(a.keys, k) => \A i \in 1..Len(a.keys[Hash[k]]) : a.keys[Hash[k]][i].symbol # k
  BY DEF Found, Where
<1> QED BY <1>1, <1>2, <1>3

LEMMA EntryIs ==
  ASSUME NEW k \in Names, NEW v \in Contents
  PROVE  \E e \in KeySlots : e = SymbolEntry(k, "var", v) /\ e.symbol = k
<1>1. SymbolEntry(k, "var", v) = [symbol |-> k, type |-> "var", data |-> v]
  BY DEF SymbolEntry
<1>2. [symbol |-> k, type |-> "var", data |-> v] \in KeySlots
  BY DEF KeySlots
<1> QED BY <1>1, <1>2

LEMMA SmallRest ==
  ASSUME NEW m \in Nat, NEW g \in Nat \ {0}, 0 < m, m < g
  PROVE  m % g # 0
OBVIOUS

\* What a key that is there, or is new, does to the table and the vector.
SlotGiven(a, t, b, k, v) ==
  /\ t.values = a.values /\ \A c \in Buckets : Len(t.keys[c]) = Len(a.keys[c])
  /\ \A c \in Buckets : \A l \in 1..Len(a.keys[c]) : c # b \/ l # k => t.keys[c][l] = a.keys[c][l]
  /\ t.keys[b][k].symbol = a.keys[b][k].symbol /\ t.keys[b][k].data = v
SlotNew(a, t, b, e) ==
  /\ ArrLen(t) = ArrLen(a) + 1 /\ \A i \in 1..ArrLen(a) : t.values[i] = a.values[i]
  /\ \A c \in Buckets : Len(t.keys[c]) = IF c = b THEN Len(a.keys[c]) + 1 ELSE Len(a.keys[c])
  /\ \A c \in Buckets : \A l \in 1..Len(a.keys[c]) : t.keys[c][l] = a.keys[c][l]
  /\ Points(t, ArrLen(a) + 1, b, Len(a.keys[b]) + 1) /\ t.keys[b][Len(a.keys[b]) + 1] = e

\* A key that is there: its entry gets another value.
LEMMA KeyGiven ==
  ASSUME NEW a \in Arrays, NEW k \in Names, NEW v \in Contents, Found(a.keys, k)
  PROVE  /\ AddToKeyArray(a, k, v) \in Arrays /\ ArrLen(AddToKeyArray(a, k, v)) = ArrLen(a)
         /\ SlotGiven(a, AddToKeyArray(a, k, v), Hash[k], Index(a.keys, k), v)
<1>1. a \in Shaped /\ Good(a)
  BY DEF Arrays
<1>2. PICK h \in Buckets : h = Hash[k]
  BY <1>1, SlotIs
<1>3. PICK i : i = Index(a.keys, k)
  OBVIOUS
<1>4. PICK s \in Seq(KeySlots) : s = a.keys[h]
  BY <1>1, <1>2, ShapeIs
<1>5. i \in 1..Len(s) /\ s[i].symbol = k
  BY <1>1, <1>2, <1>3, <1>4, SlotIs
<1>6. PICK e \in KeySlots : e = SymbolEntry(k, "var", v) /\ e.symbol = k
  BY EntryIs
<1>7. PICK N : N = [s EXCEPT ![i] = e]
  OBVIOUS
<1>8. N \in Seq(KeySlots) /\ Len(N) = Len(s) /\ \A l \in 1..Len(s) : N[l] = IF l = i THEN e ELSE s[l]
  BY <1>5, <1>7, Replaced
<1>9. PICK K : K = [a.keys EXCEPT ![h] = N]
  OBVIOUS
<1>10. K \in [Buckets -> Seq(KeySlots)] /\ K[h] = N /\ \A c \in Buckets : c # h => K[c] = a.keys[c]
  BY <1>1, <1>2, <1>8, <1>9, ShapeIs
<1>11. AddVariable(a.keys, k, v) = K
  BY <1>2, <1>3, <1>4, <1>6, <1>7, <1>9 DEF AddVariable, SetSlot
<1>12. PICK t : t = AddToKeyArray(a, k, v)
  OBVIOUS
<1>13. t = [a EXCEPT !.keys = K]
  BY <1>11, <1>12, Zenon DEF AddToKeyArray
<1>14. t \in Shaped /\ t.keys = K /\ t.base = a.base /\ t.values = a.values
  BY <1>1, <1>10, <1>13 DEF Shaped
<1>15. SameButData(a, t)
  <2>1. \A b \in Buckets : \A l \in 1..Len(a.keys[b]) : K[b][l].symbol = a.keys[b][l].symbol
    <3> SUFFICES ASSUME NEW b \in Buckets, NEW l \in 1..Len(a.keys[b]) PROVE K[b][l].symbol = a.keys[b][l].symbol
      OBVIOUS
    <3>1. CASE b = h
      BY <1>4, <1>5, <1>6, <1>8, <1>10, <3>1
    <3>2. CASE b # h
      BY <1>10, <3>2
    <3> QED BY <3>1, <3>2
  <2>2. \A b \in Buckets : Len(K[b]) = Len(a.keys[b])
    BY <1>4, <1>8, <1>10
  <2> QED BY <1>14, <2>1, <2>2 DEF SameButData, ArrLen
<1>16. SlotGiven(a, t, h, i, v)
  <2>1. \A c \in Buckets : Len(K[c]) = Len(a.keys[c])
    BY <1>4, <1>8, <1>10
  <2>2. \A c \in Buckets : \A l \in 1..Len(a.keys[c]) : c # h \/ l # i => K[c][l] = a.keys[c][l]
    BY <1>4, <1>8, <1>10
  <2>3. K[h][i].symbol = a.keys[h][i].symbol /\ K[h][i].data = v
    BY <1>4, <1>5, <1>6, <1>8, <1>10 DEF SymbolEntry
  <2> QED BY <1>14, <2>1, <2>2, <2>3 DEF SlotGiven
<1> QED BY <1>2, <1>3, <1>12, <1>14, <1>15, <1>16, SameIsGood DEF ArrLen

\* A key that is not: an entry at the end of its node, which may be moved.
LEMMA KeyNew ==
  ASSUME NEW a \in Arrays, NEW k \in Names, NEW v \in Contents, ~Found(a.keys, k)
  PROVE  /\ AddToKeyArray(a, k, v) \in Arrays /\ ArrLen(AddToKeyArray(a, k, v)) = ArrLen(a) + 1
         /\ SlotNew(a, AddToKeyArray(a, k, v), Hash[k], SymbolEntry(k, "var", v))
<1>1. a \in Shaped /\ Good(a)
  BY DEF Arrays
<1>2. PICK h \in Buckets : h = Hash[k]
  BY <1>1, SlotIs
<1>3. PICK s \in Seq(KeySlots) : s = a.keys[h]
  BY <1>1, <1>2, ShapeIs
<1>4. PICK L \in Nat : L = Len(s)
  OBVIOUS
<1>5. PICK n \in Nat : n = ArrLen(a) /\ n = Len(a.values)
  BY <1>1, ShapeIs DEF ArrLen
<1>6. PICK e \in KeySlots : e = SymbolEntry(k, "var", v) /\ e.symbol = k
  BY EntryIs
<1>7. PICK N : N = Append(s, e)
  OBVIOUS
<1>8. N \in Seq(KeySlots) /\ Len(N) = L + 1 /\ N[L + 1] = e /\ \A l \in 1..L : N[l] = s[l]
  BY <1>4, <1>7
<1>9. PICK K : K = [a.keys EXCEPT ![h] = N]
  OBVIOUS
<1>10. K \in [Buckets -> Seq(KeySlots)] /\ K[h] = N /\ \A c \in Buckets : c # h => K[c] = a.keys[c]
  BY <1>1, <1>2, <1>8, <1>9, ShapeIs
<1>11. AddVariable(a.keys, k, v) = K
  BY <1>2, <1>3, <1>6, <1>7, <1>9 DEF AddVariable, SymtabAdd
<1>12. \A l \in 1..L : s[l].symbol # k
  BY <1>1, <1>2, <1>3, <1>4, SlotIs
<1>13. Index(K, k) = L + 1
  <2>1. Where(K, k) = {L + 1}
    BY <1>2, <1>4, <1>6, <1>8, <1>10, <1>12 DEF Where
  <2>2. First({L + 1}) = L + 1
    BY DEF First
  <2> QED BY <2>1, <2>2 DEF Index
<1>14. PICK B : B = [a.base EXCEPT ![h] = @ + (IF FullNode(a.keys, k) THEN 1 ELSE 0)]
  OBVIOUS
<1>15. /\ B \in [Buckets -> Nat] /\ \A c \in Buckets : c # h => B[c] = a.base[c]
       /\ L < NodeGrowth => B[h] = a.base[h]
  <2>1. a.base \in [Buckets -> Nat] /\ a.base[h] \in Nat
    BY <1>1, ShapeIs
  <2>2. L < NodeGrowth => ~FullNode(a.keys, k)
    BY <1>2, <1>3, <1>4, GrowthAssumption, SmallRest DEF FullNode
  <2> HIDE DEF FullNode
  <2>3. PICK m \in Nat : m = (IF FullNode(a.keys, k) THEN 1 ELSE 0) /\ (L < NodeGrowth => m = 0)
    BY <2>2
  <2>4. B = [a.base EXCEPT ![h] = @ + m]
    BY <1>14, <2>3
  <2> QED BY <2>1, <2>3, <2>4
<1>16. PICK p : p = InNode(h, L + 1, B[h])
  OBVIOUS
<1>17. p \in NodePtrs /\ p.at = "node" /\ p.bucket = h /\ p.index = L + 1 /\ p.base = B[h]
  BY <1>15, <1>16 DEF InNode, NodePtrs
<1>18. PICK V : V = Append(a.values, p)
  OBVIOUS
<1>19. V \in Seq(HeapPtrs \cup NodePtrs) /\ Len(V) = n + 1 /\ V[n + 1] = p /\ \A i \in 1..n : V[i] = a.values[i]
  BY <1>1, <1>5, <1>17, <1>18, ShapeIs
<1>20. PICK t : t = AddToKeyArray(a, k, v)
  OBVIOUS
<1>21. t = [keys |-> K, base |-> B, values |-> V]
  BY <1>2, <1>11, <1>13, <1>14, <1>16, <1>18, <1>20, Zenon DEF AddToKeyArray
<1>22. t \in Shaped /\ t.keys = K /\ t.base = B /\ t.values = V /\ ArrLen(t) = n + 1
  BY <1>10, <1>15, <1>19, <1>21 DEF Shaped, ArrLen
<1>23. NodePlaces(t) = NodePlaces(a) \cup {n + 1} /\ \A i \in NodePlaces(a) : i \in 1..n /\ V[i] = a.values[i]
  BY <1>5, <1>17, <1>19, <1>22 DEF NodePlaces
<1>24. KeysProper(t)
  <2> SUFFICES ASSUME NEW b \in Buckets, NEW i \in 1..Len(K[b])
               PROVE  /\ Hash[K[b][i].symbol] = b
                      /\ \A l \in 1..Len(K[b]) : K[b][l].symbol = K[b][i].symbol => l = i
    BY <1>22 DEF KeysProper
  <2>1. CASE b # h
    BY <1>1, <1>10, <2>1 DEF Good, KeysProper
  <2>2. CASE b = h
    <3>1. \A l \in 1..L : Hash[s[l].symbol] = h /\ \A m \in 1..L : s[m].symbol = s[l].symbol => m = l
      BY <1>1, <1>3, <1>4 DEF Good, KeysProper
    <3>2. i \in 1..(L + 1) /\ Len(K[b]) = L + 1 /\ K[b] = N
      BY <1>8, <1>10, <2>2
    <3>3. CASE i = L + 1
      BY <1>2, <1>6, <1>8, <1>12, <2>2, <3>2, <3>3
    <3>4. CASE i \in 1..L
      BY <1>6, <1>8, <1>12, <2>2, <3>1, <3>2, <3>4
    <3> QED BY <3>2, <3>3, <3>4
  <2> QED BY <2>1, <2>2
<1>25. Listed(t)
  <2>1. ASSUME NEW b \in Buckets, NEW i \in 1..Len(K[b]) PROVE \E j \in 1..(n + 1) : Points(t, j, b, i)
    <3>1. CASE b = h /\ i = L + 1
      BY <1>17, <1>19, <1>22, <3>1 DEF Points
    <3>2. CASE ~(b = h /\ i = L + 1)
      <4>1. i \in 1..Len(a.keys[b])
        BY <1>3, <1>4, <1>8, <1>10, <3>2
      <4>2. PICK j \in 1..n : Points(a, j, b, i)
        BY <1>1, <1>5, <4>1 DEF Good, Listed
      <4> QED BY <1>19, <1>22, <4>2 DEF Points
    <3> QED BY <3>1, <3>2
  <2>2. ASSUME NEW i \in NodePlaces(t) PROVE V[i].index <= Len(K[V[i].bucket])
    <3>1. CASE i = n + 1
      BY <1>8, <1>10, <1>17, <1>19, <3>1
    <3>2. CASE i \in NodePlaces(a)
      <4>1. V[i] \in NodePtrs /\ V[i].bucket \in Buckets /\ V[i].index \in Nat /\ V[i] = a.values[i]
        BY <1>1, <1>23, <3>2, ShapeIs DEF NodePtrs
      <4>2. V[i].index <= Len(a.keys[V[i].bucket])
        BY <1>1, <3>2, <4>1 DEF Good, Listed
      <4>3. PICK c \in Buckets : c = V[i].bucket
        BY <4>1
      <4>4. Len(K[c]) \in Nat /\ Len(a.keys[c]) \in Nat /\ Len(a.keys[c]) <= Len(K[c])
        BY <1>3, <1>4, <1>8, <1>10
      <4>5. PICK x \in Nat : x = V[i].index
        BY <4>1
      <4>6. x <= Len(a.keys[c])
        BY <4>2, <4>3, <4>5
      <4>7. x <= Len(K[c])
        BY <4>4, <4>6
      <4> QED BY <4>3, <4>5, <4>7
    <3> QED BY <1>23, <3>1, <3>2
  <2>3. ASSUME NEW i \in NodePlaces(a) PROVE ~(V[i].bucket = h /\ V[i].index = L + 1)
    <3>1. V[i] = a.values[i] /\ a.values[i].index <= Len(a.keys[a.values[i].bucket])
      BY <1>1, <1>23 DEF Good, Listed
    <3> QED BY <1>3, <1>4, <3>1
  <2>4. ASSUME NEW i \in NodePlaces(t), NEW j \in NodePlaces(t), V[i].bucket = V[j].bucket, V[i].index = V[j].index
        PROVE  i = j
    <3>1. CASE i = n + 1 /\ j \in NodePlaces(a)
      BY <1>17, <1>19, <2>3, <2>4, <3>1
    <3>2. CASE j = n + 1 /\ i \in NodePlaces(a)
      BY <1>17, <1>19, <2>3, <2>4, <3>2
    <3>3. CASE i \in NodePlaces(a) /\ j \in NodePlaces(a)
      <4>1. a.values[i].bucket = a.values[j].bucket /\ a.values[i].index = a.values[j].index
        BY <1>23, <2>4, <3>3
      <4> QED BY <1>1, <3>3, <4>1 DEF Good, Listed
    <3> QED BY <1>23, <3>1, <3>2, <3>3
  <2> QED BY <1>22, <2>1, <2>2, <2>4 DEF Listed
<1>26. Unmoved(t)
  <2> SUFFICES ASSUME NEW b \in Buckets, Len(K[b]) <= NodeGrowth
               PROVE  B[b] = 0 /\ \A i \in NodePlaces(t) : V[i].bucket = b => V[i].base = 0
    BY <1>22 DEF Unmoved
  <2>1. Len(a.keys[b]) <= NodeGrowth /\ (b = h => L < NodeGrowth)
    BY <1>3, <1>4, <1>8, <1>10, GrowthAssumption
  <2>2. a.base[b] = 0 /\ \A i \in NodePlaces(a) : a.values[i].bucket = b => a.values[i].base = 0
    BY <1>1, <2>1 DEF Good, Unmoved
  <2>3. B[b] = 0
    BY <1>15, <2>1, <2>2
  <2> QED BY <1>17, <1>19, <1>23, <2>2, <2>3
<1>27. Short(t)
  <2> SUFFICES ASSUME NEW b \in Buckets PROVE Len(K[b]) <= n + 1
    BY <1>22 DEF Short
  <2>1. Len(a.keys[b]) <= n /\ Len(a.keys[b]) \in Nat
    BY <1>1, <1>5, ShapeIs DEF Good, Short
  <2> QED BY <1>3, <1>4, <1>8, <1>10, <2>1, SMTT(40)
<1>28. SlotNew(a, t, h, e)
  <2>1. \A c \in Buckets : Len(K[c]) = IF c = h THEN Len(a.keys[c]) + 1 ELSE Len(a.keys[c])
    BY <1>3, <1>4, <1>8, <1>10
  <2>2. \A c \in Buckets : \A l \in 1..Len(a.keys[c]) : K[c][l] = a.keys[c][l]
    BY <1>3, <1>4, <1>8, <1>10
  <2>3. Points(t, ArrLen(a) + 1, h, Len(a.keys[h]) + 1) /\ K[h][Len(a.keys[h]) + 1] = e
    BY <1>3, <1>4, <1>5, <1>8, <1>10, <1>17, <1>19, <1>22 DEF Points
  <2> QED BY <1>5, <1>19, <1>22, <2>1, <2>2, <2>3 DEF SlotNew
<1>29. t \in Arrays
  BY <1>22, <1>24, <1>25, <1>26, <1>27 DEF Arrays, Good
<1> QED BY <1>2, <1>5, <1>6, <1>20, <1>22, <1>28, <1>29

LEMMA KeyAdded ==
  ASSUME NEW a \in Arrays, NEW k \in Names, NEW v \in Contents
  PROVE  AddToKeyArray(a, k, v) \in Arrays /\ ArrLen(AddToKeyArray(a, k, v)) \in {ArrLen(a), ArrLen(a) + 1}
BY KeyGiven, KeyNew
-----------------------------------------------------------------------------
\* The elements that a large index makes.
LEMMA HeapsAdded ==
  ASSUME NEW a \in Arrays, NEW w \in Seq(HeapPtrs), NEW t, t = [a EXCEPT !.values = @ \o w]
  PROVE  t \in Arrays /\ ArrLen(t) = ArrLen(a) + Len(w)
<1>1. a \in Shaped /\ Good(a)
  BY DEF Arrays
<1>2. PICK n \in Nat : n = ArrLen(a) /\ n = Len(a.values)
  BY <1>1, ShapeIs DEF ArrLen
<1>3. PICK m \in Nat : m = Len(w)
  OBVIOUS
<1>4. PICK V : V = a.values \o w
  OBVIOUS
<1>5. w \in Seq(HeapPtrs \cup NodePtrs)
  OBVIOUS
<1>6. V \in Seq(HeapPtrs \cup NodePtrs) /\ Len(V) = n + m
      /\ (\A i \in 1..n : V[i] = a.values[i]) /\ \A i \in (n + 1)..(n + m) : V[i] \in HeapPtrs
  <2>1. a.values \in Seq(HeapPtrs \cup NodePtrs)
    BY <1>1, ShapeIs
  <2>2. \A i \in (n + 1)..(n + m) : V[i] = w[i - n] /\ i - n \in 1..m
    BY <1>2, <1>3, <1>4, <2>1
  <2>3. \A i \in 1..m : w[i] \in HeapPtrs
    BY <1>3
  <2> QED BY <1>2, <1>3, <1>4, <1>5, <2>1, <2>2, <2>3
<1>7. t \in Shaped /\ t.keys = a.keys /\ t.base = a.base /\ t.values = V /\ ArrLen(t) = n + m
  <2>1. t = [a EXCEPT !.values = V]
    BY <1>4
  <2> QED BY <1>1, <1>6, <2>1 DEF Shaped, ArrLen
<1>8. NodePlaces(t) = NodePlaces(a) /\ \A i \in NodePlaces(a) : V[i] = a.values[i]
  <2>1. \A i \in (n + 1)..(n + m) : V[i].at # "node"
    BY <1>6 DEF HeapPtrs
  <2>2. \A i \in 1..(n + m) : i \in 1..n \/ i \in (n + 1)..(n + m)
    OBVIOUS
  <2> QED BY <1>2, <1>6, <1>7, <2>1, <2>2 DEF NodePlaces
<1>9. KeysProper(t)
  BY <1>1, <1>7 DEF Good, KeysProper
<1>10. Listed(t)
  <2>1. ASSUME NEW b \in Buckets, NEW k \in 1..Len(a.keys[b]) PROVE \E i \in 1..(n + m) : Points(t, i, b, k)
    <3>1. PICK i \in 1..n : Points(a, i, b, k)
      BY <1>1, <1>2 DEF Good, Listed
    <3>2. i \in 1..(n + m) /\ t.values[i] = a.values[i]
      BY <1>6, <1>7, SMTT(40)
    <3> QED BY <3>1, <3>2 DEF Points
  <2>2. /\ \A i \in NodePlaces(t) : V[i].index <= Len(a.keys[V[i].bucket])
        /\ \A i, j \in NodePlaces(t) : V[i].bucket = V[j].bucket /\ V[i].index = V[j].index => i = j
    BY <1>1, <1>8 DEF Good, Listed
  <2>3. \A b \in Buckets : \A k \in 1..Len(t.keys[b]) : \E i \in 1..ArrLen(t) : Points(t, i, b, k)
    BY <1>7, <2>1
  <2>4. t.values = V /\ t.keys = a.keys
    BY <1>7
  <2>5. \A i \in NodePlaces(t) : t.values[i].index <= Len(t.keys[t.values[i].bucket])
    BY <2>2, <2>4
  <2>6. ASSUME NEW i \in NodePlaces(t), NEW j \in NodePlaces(t),
               t.values[i].bucket = t.values[j].bucket, t.values[i].index = t.values[j].index
        PROVE  i = j
    BY <2>2, <2>4, <2>6
  <2> QED BY <2>3, <2>5, <2>6 DEF Listed
<1>11. Unmoved(t)
  <2> SUFFICES ASSUME NEW b \in Buckets, Len(a.keys[b]) <= NodeGrowth
               PROVE  a.base[b] = 0 /\ \A i \in NodePlaces(a) : V[i].bucket = b => V[i].base = 0
    BY <1>7, <1>8 DEF Unmoved
  <2> QED BY <1>1, <1>8 DEF Good, Unmoved
<1>12. Short(t)
  <2> SUFFICES ASSUME NEW b \in Buckets PROVE Len(a.keys[b]) <= n + m
    BY <1>7 DEF Short
  <2>1. Len(a.keys[b]) <= n /\ Len(a.keys[b]) \in Nat
    BY <1>1, <1>2, ShapeIs DEF Good, Short
  <2> QED BY <2>1
<1> QED BY <1>2, <1>3, <1>7, <1>9, <1>10, <1>11, <1>12 DEF Arrays, Good

LEMMA PosIs ==
  ASSUME NEW a \in Arrays, NEW pos \in Int
  PROVE  /\ ArrLen(a) \in Nat /\ FromEnd(a, pos) \in Int /\ ClampedPos(a, pos) \in Nat
         /\ InBounds(a, pos) => FromEnd(a, pos) + 1 \in 1..ArrLen(a)
<1>1. ArrLen(a) \in Nat
  BY ShapeIs DEF Arrays
<1>2. FromEnd(a, pos) \in Int
  BY <1>1 DEF FromEnd
<1> QED BY <1>1, <1>2 DEF ClampedPos, InBounds

LEMMA FilledIs ==
  ASSUME NEW a \in Arrays, NEW p \in Nat, p >= ArrLen(a)
  PROVE  Filled(a, p) \in Arrays /\ ArrLen(Filled(a, p)) = p
<1>1. PICK n \in Nat : n = ArrLen(a)
  BY ShapeIs DEF Arrays
<1>2. PICK w : w = [i \in 1..(p - n) |-> InHeap(Void)]
  OBVIOUS
<1>3. w \in Seq(HeapPtrs) /\ Len(w) = p - n
  <2>1. InHeap(Void) \in HeapPtrs
    BY DataAssumption DEF InHeap, HeapPtrs, Contents
  <2>2. p - n \in Nat
    BY <1>1
  <2> QED BY <1>2, <2>1, <2>2
<1>4. Filled(a, p) = [a EXCEPT !.values = @ \o w]
  BY <1>1, <1>2 DEF Filled
<1>5. Filled(a, p) \in Arrays /\ ArrLen(Filled(a, p)) = ArrLen(a) + Len(w)
  BY <1>3, <1>4, HeapsAdded
<1> QED BY <1>1, <1>3, <1>5

LEMMA SetIsGood ==
  ASSUME NEW a \in Arrays, NEW pos \in Int, NEW v \in Contents
  PROVE  SetArray(a, pos, v) \in Arrays
<1>1. PICK p \in Nat : p = ClampedPos(a, pos)
  BY PosIs
<1>2. ArrLen(a) \in Nat
  BY PosIs
<1>3. SetArray(a, pos, v) = IF p >= ArrLen(a) THEN AddToArray(Filled(a, p), v) ELSE Write(a, p + 1, v)
  BY <1>1, Zenon DEF SetArray
<1>4. CASE p >= ArrLen(a)
  BY <1>3, <1>4, FilledIs, HeapAdded
<1>5. CASE ~(p >= ArrLen(a))
  <2>1. p + 1 \in 1..ArrLen(a)
    BY <1>2, <1>5
  <2> QED BY <1>3, <1>5, <2>1, WriteIsGood
<1> QED BY <1>4, <1>5

LEMMA StoreIsGood ==
  ASSUME NEW a \in Arrays, NEW w \in Wheres \cup {[by |-> "end"]}, NEW v \in Contents
  PROVE  Store(a, w, v) \in Arrays
<1>1. CASE w.by = "pos" /\ w.pos \in Int
  BY <1>1, SetIsGood DEF Store
<1>2. CASE w.by = "key" /\ w.key \in Names
  BY <1>2, KeyAdded DEF Store
<1>3. CASE w.by = "end"
  BY <1>3, HeapAdded DEF Store
<1>4. Positions \subseteq Int
  BY GrowthAssumption DEF Positions
<1> QED BY <1>1, <1>2, <1>3, <1>4 DEF Wheres

LEMMA DeleteIsGood ==
  ASSUME NEW a \in Arrays, NEW pos \in Int
  PROVE  DeleteArray(a, pos) \in Arrays /\ ArrLen(DeleteArray(a, pos)) = ArrLen(a)
BY PosIs, WriteIsGood, DataAssumption DEF DeleteArray, Contents

LEMMA GetIs ==
  ASSUME NEW a \in Arrays, NEW pos \in Int
  PROVE  GetArray(a, pos) \in Contents
BY PosIs, ReadIs, DataAssumption DEF GetArray, Contents

LEMMA AddCopyIsGood ==
  ASSUME NEW a \in Arrays, NEW e \in Elem
  PROVE  AddCopy(a, e) \in Arrays /\ ArrLen(AddCopy(a, e)) \in {ArrLen(a), ArrLen(a) + 1}
BY KeyAdded, HeapAdded DEF AddCopy, Elem

LEMMA AddUnlessVoidIsGood ==
  ASSUME NEW a \in Arrays, NEW e \in Elem
  PROVE  AddUnlessVoid(a, e) \in Arrays /\ ArrLen(AddUnlessVoid(a, e)) \in {ArrLen(a), ArrLen(a) + 1}
BY AddCopyIsGood DEF AddUnlessVoid

LEMMA ArgStored ==
  ASSUME NEW a \in Arrays, NEW e \in Args
  PROVE  Store(a, e.where, e.val) \in Arrays
BY StoreIsGood, DataAssumption DEF Args, Contents
-----------------------------------------------------------------------------
\* The arrays on the way from the empty one to the one that is built.
LEMMA BuildSteps ==
  ASSUME NEW s \in Seq(Elem)
  PROVE  \E f \in [0..Len(s) -> Arrays] :
           /\ f[0] = EmptyArray /\ f[Len(s)] = Build(s)
           /\ \A k \in 1..Len(s) : f[k] = AddCopy(f[k - 1], s[k])
<1>1. PICK G : G = [p \in Arrays \X Elem |-> AddCopy(p[1], p[2])]
  OBVIOUS
<1>2. G \in [Arrays \X Elem -> Arrays] /\ \A a \in Arrays, e \in Elem : G[<<a, e>>] = AddCopy(a, e)
  BY <1>1, AddCopyIsGood
<1>3. DOMAIN s = 1..Len(s) /\ Len(s) \in Nat
  OBVIOUS
<1>4. PICK g \in FoldTables(Arrays, EmptyArray, G, s) : TRUE
  <2>1. G \in [Arrays \X Elem -> Arrays]
    BY <1>2
  <2> QED BY <2>1, EmptyIsGood, FoldExists, Zenon
<1>5. \A t \in SUBSET (1..Len(s)) : t # {} => t \ {Max(t)} \in SUBSET (1..Len(s)) /\ s[Max(t)] \in Elem
  BY FoldedIn
<1>6. g = [t \in SUBSET (DOMAIN s) |-> IF t = {} THEN EmptyArray ELSE AddCopy(g[t \ {Max(t)}], s[Max(t)])]
  <2>1. \A t \in SUBSET (1..Len(s)) : g[t] = IF t = {} THEN EmptyArray ELSE AddCopy(g[t \ {Max(t)}], s[Max(t)])
    BY <1>2, <1>4, <1>5 DEF FoldTables
  <2> QED BY <1>3, <1>4, <2>1 DEF FoldTables
<1>7. PICK h : h = CHOOSE f : f = [t \in SUBSET (DOMAIN s) |-> IF t = {} THEN EmptyArray
                                                               ELSE AddCopy(f[t \ {Max(t)}], s[Max(t)])]
  OBVIOUS
<1>8. Build(s) = h[DOMAIN s]
  BY <1>7, Zenon DEF Build, FoldLeft, MapThenFoldSet
<1>9. h = [t \in SUBSET (DOMAIN s) |-> IF t = {} THEN EmptyArray ELSE AddCopy(h[t \ {Max(t)}], s[Max(t)])]
  BY <1>6, <1>7, Zenon
<1>10. h[{}] = EmptyArray
  BY <1>3, <1>9
<1>11. \A t \in SUBSET (1..Len(s)) : t # {} /\ h[t \ {Max(t)}] \in Arrays => h[t] = G[<<h[t \ {Max(t)}], s[Max(t)]>>]
  <2> SUFFICES ASSUME NEW t \in SUBSET (1..Len(s)), t # {}, h[t \ {Max(t)}] \in Arrays
               PROVE  h[t] = G[<<h[t \ {Max(t)}], s[Max(t)]>>]
    OBVIOUS
  <2>1. h[t] = AddCopy(h[t \ {Max(t)}], s[Max(t)])
    BY <1>3, <1>9
  <2> QED BY <1>2, <1>5, <2>1
<1>12. PICK f \in FoldRuns(Arrays, EmptyArray, G, s) : f[Len(s)] = h[DOMAIN s]
  <2>1. G \in [Arrays \X Elem -> Arrays]
    BY <1>2
  <2>2. FoldObeys(Arrays, EmptyArray, G, s, h)
    BY <1>10, <1>11, Zenon DEF FoldObeys
  <2>3. FoldReaches(Arrays, EmptyArray, G, s, h[DOMAIN s])
    BY <2>1, <2>2, EmptyIsGood, FoldSteps, Zenon
  <2> QED BY <2>3 DEF FoldReaches
<1>13. \A k \in 1..Len(s) : f[k] = AddCopy(f[k - 1], s[k])
  <2> SUFFICES ASSUME NEW k \in 1..Len(s) PROVE f[k] = AddCopy(f[k - 1], s[k])
    OBVIOUS
  <2>1. f[k - 1] \in Arrays /\ s[k] \in Elem
    BY <1>3, <1>12 DEF FoldRuns
  <2> QED BY <1>2, <1>12, <2>1 DEF FoldRuns
<1> QED BY <1>8, <1>12, <1>13 DEF FoldRuns

\* The same for a list of values, for the values that are not void, and for the
\* arguments of mkkeyarray.
LEMMA ListSteps ==
  ASSUME NEW s \in Seq(Contents)
  PROVE  \E f \in [0..Len(s) -> Arrays] :
           /\ f[0] = EmptyArray /\ f[Len(s)] = ListOf(s)
           /\ \A k \in 1..Len(s) : f[k] = AddToArray(f[k - 1], s[k])
<1>1. PICK G : G = [p \in Arrays \X Contents |-> AddToArray(p[1], p[2])]
  OBVIOUS
<1>2. G \in [Arrays \X Contents -> Arrays] /\ \A a \in Arrays, e \in Contents : G[<<a, e>>] = AddToArray(a, e)
  BY <1>1, HeapAdded
<1>3. DOMAIN s = 1..Len(s) /\ Len(s) \in Nat
  OBVIOUS
<1>4. PICK g \in FoldTables(Arrays, EmptyArray, G, s) : TRUE
  <2>1. G \in [Arrays \X Contents -> Arrays]
    BY <1>2
  <2> QED BY <2>1, EmptyIsGood, FoldExists, Zenon
<1>5. \A t \in SUBSET (1..Len(s)) : t # {} => t \ {Max(t)} \in SUBSET (1..Len(s)) /\ s[Max(t)] \in Contents
  BY FoldedIn
<1>6. g = [t \in SUBSET (DOMAIN s) |-> IF t = {} THEN EmptyArray ELSE AddToArray(g[t \ {Max(t)}], s[Max(t)])]
  <2>1. \A t \in SUBSET (1..Len(s)) : g[t] = IF t = {} THEN EmptyArray ELSE AddToArray(g[t \ {Max(t)}], s[Max(t)])
    BY <1>2, <1>4, <1>5 DEF FoldTables
  <2> QED BY <1>3, <1>4, <2>1 DEF FoldTables
<1>7. PICK h : h = CHOOSE f : f = [t \in SUBSET (DOMAIN s) |-> IF t = {} THEN EmptyArray
                                                               ELSE AddToArray(f[t \ {Max(t)}], s[Max(t)])]
  OBVIOUS
<1>8. ListOf(s) = h[DOMAIN s]
  BY <1>7, Zenon DEF ListOf, FoldLeft, MapThenFoldSet
<1>9. h = [t \in SUBSET (DOMAIN s) |-> IF t = {} THEN EmptyArray ELSE AddToArray(h[t \ {Max(t)}], s[Max(t)])]
  BY <1>6, <1>7, Zenon
<1>10. h[{}] = EmptyArray
  BY <1>3, <1>9
<1>11. \A t \in SUBSET (1..Len(s)) : t # {} /\ h[t \ {Max(t)}] \in Arrays => h[t] = G[<<h[t \ {Max(t)}], s[Max(t)]>>]
  <2> SUFFICES ASSUME NEW t \in SUBSET (1..Len(s)), t # {}, h[t \ {Max(t)}] \in Arrays
               PROVE  h[t] = G[<<h[t \ {Max(t)}], s[Max(t)]>>]
    OBVIOUS
  <2>1. h[t] = AddToArray(h[t \ {Max(t)}], s[Max(t)])
    BY <1>3, <1>9
  <2> QED BY <1>2, <1>5, <2>1
<1>12. PICK f \in FoldRuns(Arrays, EmptyArray, G, s) : f[Len(s)] = h[DOMAIN s]
  <2>1. G \in [Arrays \X Contents -> Arrays]
    BY <1>2
  <2>2. FoldObeys(Arrays, EmptyArray, G, s, h)
    BY <1>10, <1>11, Zenon DEF FoldObeys
  <2>3. FoldReaches(Arrays, EmptyArray, G, s, h[DOMAIN s])
    BY <2>1, <2>2, EmptyIsGood, FoldSteps, Zenon
  <2> QED BY <2>3 DEF FoldReaches
<1>13. \A k \in 1..Len(s) : f[k] = AddToArray(f[k - 1], s[k])
  <2> SUFFICES ASSUME NEW k \in 1..Len(s) PROVE f[k] = AddToArray(f[k - 1], s[k])
    OBVIOUS
  <2>1. f[k - 1] \in Arrays /\ s[k] \in Contents
    BY <1>3, <1>12 DEF FoldRuns
  <2> QED BY <1>2, <1>12, <2>1 DEF FoldRuns
<1> QED BY <1>8, <1>12, <1>13 DEF FoldRuns

LEMMA CompactSteps ==
  ASSUME NEW s \in Seq(Elem)
  PROVE  \E f \in [0..Len(s) -> Arrays] :
           /\ f[0] = EmptyArray /\ f[Len(s)] = FoldLeft(AddUnlessVoid, EmptyArray, s)
           /\ \A k \in 1..Len(s) : f[k] = AddUnlessVoid(f[k - 1], s[k])
<1>1. PICK G : G = [p \in Arrays \X Elem |-> AddUnlessVoid(p[1], p[2])]
  OBVIOUS
<1>2. G \in [Arrays \X Elem -> Arrays] /\ \A a \in Arrays, e \in Elem : G[<<a, e>>] = AddUnlessVoid(a, e)
  BY <1>1, AddUnlessVoidIsGood
<1>3. DOMAIN s = 1..Len(s) /\ Len(s) \in Nat
  OBVIOUS
<1>4. PICK g \in FoldTables(Arrays, EmptyArray, G, s) : TRUE
  <2>1. G \in [Arrays \X Elem -> Arrays]
    BY <1>2
  <2> QED BY <2>1, EmptyIsGood, FoldExists, Zenon
<1>5. \A t \in SUBSET (1..Len(s)) : t # {} => t \ {Max(t)} \in SUBSET (1..Len(s)) /\ s[Max(t)] \in Elem
  BY FoldedIn
<1>6. g = [t \in SUBSET (DOMAIN s) |-> IF t = {} THEN EmptyArray ELSE AddUnlessVoid(g[t \ {Max(t)}], s[Max(t)])]
  <2>1. \A t \in SUBSET (1..Len(s)) : g[t] = IF t = {} THEN EmptyArray ELSE AddUnlessVoid(g[t \ {Max(t)}], s[Max(t)])
    BY <1>2, <1>4, <1>5 DEF FoldTables
  <2> QED BY <1>3, <1>4, <2>1 DEF FoldTables
<1>7. PICK h : h = CHOOSE f : f = [t \in SUBSET (DOMAIN s) |-> IF t = {} THEN EmptyArray
                                                               ELSE AddUnlessVoid(f[t \ {Max(t)}], s[Max(t)])]
  OBVIOUS
<1>8. FoldLeft(AddUnlessVoid, EmptyArray, s) = h[DOMAIN s]
  BY <1>7, Zenon DEF FoldLeft, MapThenFoldSet
<1>9. h = [t \in SUBSET (DOMAIN s) |-> IF t = {} THEN EmptyArray ELSE AddUnlessVoid(h[t \ {Max(t)}], s[Max(t)])]
  BY <1>6, <1>7, Zenon
<1>10. h[{}] = EmptyArray
  BY <1>3, <1>9
<1>11. \A t \in SUBSET (1..Len(s)) : t # {} /\ h[t \ {Max(t)}] \in Arrays => h[t] = G[<<h[t \ {Max(t)}], s[Max(t)]>>]
  <2> SUFFICES ASSUME NEW t \in SUBSET (1..Len(s)), t # {}, h[t \ {Max(t)}] \in Arrays
               PROVE  h[t] = G[<<h[t \ {Max(t)}], s[Max(t)]>>]
    OBVIOUS
  <2>1. h[t] = AddUnlessVoid(h[t \ {Max(t)}], s[Max(t)])
    BY <1>3, <1>9
  <2> QED BY <1>2, <1>5, <2>1
<1>12. PICK f \in FoldRuns(Arrays, EmptyArray, G, s) : f[Len(s)] = h[DOMAIN s]
  <2>1. G \in [Arrays \X Elem -> Arrays]
    BY <1>2
  <2>2. FoldObeys(Arrays, EmptyArray, G, s, h)
    BY <1>10, <1>11, Zenon DEF FoldObeys
  <2>3. FoldReaches(Arrays, EmptyArray, G, s, h[DOMAIN s])
    BY <2>1, <2>2, EmptyIsGood, FoldSteps, Zenon
  <2> QED BY <2>3 DEF FoldReaches
<1>13. \A k \in 1..Len(s) : f[k] = AddUnlessVoid(f[k - 1], s[k])
  <2> SUFFICES ASSUME NEW k \in 1..Len(s) PROVE f[k] = AddUnlessVoid(f[k - 1], s[k])
    OBVIOUS
  <2>1. f[k - 1] \in Arrays /\ s[k] \in Elem
    BY <1>3, <1>12 DEF FoldRuns
  <2> QED BY <1>2, <1>12, <2>1 DEF FoldRuns
<1> QED BY <1>8, <1>12, <1>13 DEF FoldRuns

LEMMA MadeSteps ==
  ASSUME NEW s \in Seq(Args)
  PROVE  \E f \in [0..Len(s) -> Arrays] :
           /\ f[0] = EmptyArray /\ f[Len(s)] = MkKeyArray(s)
           /\ \A k \in 1..Len(s) : f[k] = Store(f[k - 1], s[k].where, s[k].val)
<1>1. PICK G : G = [p \in Arrays \X Args |-> Store(p[1], p[2].where, p[2].val)]
  OBVIOUS
<1>2. G \in [Arrays \X Args -> Arrays] /\ \A a \in Arrays, e \in Args : G[<<a, e>>] = Store(a, e.where, e.val)
  BY <1>1, ArgStored
<1>3. DOMAIN s = 1..Len(s) /\ Len(s) \in Nat
  OBVIOUS
<1>4. PICK g \in FoldTables(Arrays, EmptyArray, G, s) : TRUE
  <2>1. G \in [Arrays \X Args -> Arrays]
    BY <1>2
  <2> QED BY <2>1, EmptyIsGood, FoldExists, Zenon
<1>5. \A t \in SUBSET (1..Len(s)) : t # {} => t \ {Max(t)} \in SUBSET (1..Len(s)) /\ s[Max(t)] \in Args
  BY FoldedIn
<1>6. g = [t \in SUBSET (DOMAIN s) |-> IF t = {} THEN EmptyArray ELSE Store(g[t \ {Max(t)}], s[Max(t)].where, s[Max(t)].val)]
  <2>1. \A t \in SUBSET (1..Len(s)) : g[t] = IF t = {} THEN EmptyArray ELSE Store(g[t \ {Max(t)}], s[Max(t)].where, s[Max(t)].val)
    BY <1>2, <1>4, <1>5 DEF FoldTables
  <2> QED BY <1>3, <1>4, <2>1 DEF FoldTables
<1>7. PICK h : h = CHOOSE f : f = [t \in SUBSET (DOMAIN s) |-> IF t = {} THEN EmptyArray
                                                               ELSE Store(f[t \ {Max(t)}], s[Max(t)].where, s[Max(t)].val)]
  OBVIOUS
<1>8. MkKeyArray(s) = h[DOMAIN s]
  BY <1>7, Zenon DEF MkKeyArray, FoldLeft, MapThenFoldSet
<1>9. h = [t \in SUBSET (DOMAIN s) |-> IF t = {} THEN EmptyArray ELSE Store(h[t \ {Max(t)}], s[Max(t)].where, s[Max(t)].val)]
  BY <1>6, <1>7, Zenon
<1>10. h[{}] = EmptyArray
  BY <1>3, <1>9
<1>11. \A t \in SUBSET (1..Len(s)) : t # {} /\ h[t \ {Max(t)}] \in Arrays => h[t] = G[<<h[t \ {Max(t)}], s[Max(t)]>>]
  <2> SUFFICES ASSUME NEW t \in SUBSET (1..Len(s)), t # {}, h[t \ {Max(t)}] \in Arrays
               PROVE  h[t] = G[<<h[t \ {Max(t)}], s[Max(t)]>>]
    OBVIOUS
  <2>1. h[t] = Store(h[t \ {Max(t)}], s[Max(t)].where, s[Max(t)].val)
    BY <1>3, <1>9
  <2> QED BY <1>2, <1>5, <2>1
<1>12. PICK f \in FoldRuns(Arrays, EmptyArray, G, s) : f[Len(s)] = h[DOMAIN s]
  <2>1. G \in [Arrays \X Args -> Arrays]
    BY <1>2
  <2>2. FoldObeys(Arrays, EmptyArray, G, s, h)
    BY <1>10, <1>11, Zenon DEF FoldObeys
  <2>3. FoldReaches(Arrays, EmptyArray, G, s, h[DOMAIN s])
    BY <2>1, <2>2, EmptyIsGood, FoldSteps, Zenon
  <2> QED BY <2>3 DEF FoldReaches
<1>13. \A k \in 1..Len(s) : f[k] = Store(f[k - 1], s[k].where, s[k].val)
  <2> SUFFICES ASSUME NEW k \in 1..Len(s) PROVE f[k] = Store(f[k - 1], s[k].where, s[k].val)
    OBVIOUS
  <2>1. f[k - 1] \in Arrays /\ s[k] \in Args
    BY <1>3, <1>12 DEF FoldRuns
  <2> QED BY <1>2, <1>12, <2>1 DEF FoldRuns
<1> QED BY <1>8, <1>12, <1>13 DEF FoldRuns
-----------------------------------------------------------------------------
\* What each call makes is a good array.
LEMMA BuildIsGood ==
  ASSUME NEW s \in Seq(Elem)
  PROVE  Build(s) \in Arrays
<1>1. Len(s) \in 0..Len(s)
  OBVIOUS
<1> QED BY <1>1, BuildSteps

LEMMA ListIsGood ==
  ASSUME NEW s \in Seq(Contents)
  PROVE  ListOf(s) \in Arrays
<1>1. Len(s) \in 0..Len(s)
  OBVIOUS
<1> QED BY <1>1, ListSteps

LEMMA MadeIsGood ==
  ASSUME NEW s \in Seq(Args)
  PROVE  MkKeyArray(s) \in Arrays
<1>1. Len(s) \in 0..Len(s)
  OBVIOUS
<1> QED BY <1>1, MadeSteps

LEMMA ArgListsAre == ArgLists \subseteq Seq(Args)
BY GrowthAssumption DEF ArgLists, BoundedSeq, SeqOf

LEMMA CopyIsGood ==
  ASSUME NEW a \in Arrays
  PROVE  CopyArray(a) \in Arrays
BY ElemsAre, BuildIsGood DEF CopyArray

LEMMA CompactIsGood ==
  ASSUME NEW a \in Arrays
  PROVE  ArrayCompact(a) \in Arrays
<1>1. PICK s \in Seq(Elem) : s = Elems(a)
  BY ElemsAre
<1>2. Len(s) \in 0..Len(s)
  OBVIOUS
<1>3. PICK f \in [0..Len(s) -> Arrays] : f[Len(s)] = FoldLeft(AddUnlessVoid, EmptyArray, s)
  BY CompactSteps
<1>4. FoldLeft(AddUnlessVoid, EmptyArray, s) \in Arrays
  BY <1>2, <1>3
<1> QED BY <1>1, <1>4 DEF ArrayCompact

LEMMA ReverseIsGood ==
  ASSUME NEW a \in Arrays
  PROVE  ArrayReverse(a) \in Arrays
<1>1. PICK s \in Seq(Elem) : s = Elems(a)
  BY ElemsAre
<1>2. Reverse(s) \in Seq(Elem)
  <2>1. \A i \in 1..Len(s) : s[(Len(s) - i) + 1] \in Elem
    OBVIOUS
  <2> QED BY <2>1 DEF Reverse
<1> QED BY <1>1, <1>2, BuildIsGood DEF ArrayReverse

LEMMA MergeIsGood ==
  ASSUME NEW a \in Arrays, NEW b \in Arrays
  PROVE  ArrayMerge(a, b) \in Arrays
<1>1. Elems(a) \in Seq(Elem) /\ Elems(b) \in Seq(Elem)
  BY ElemsAre
<1>2. Elems(a) \o Elems(b) \in Seq(Elem)
  BY <1>1
<1> QED BY <1>2, BuildIsGood DEF ArrayMerge

\* Sorting moves the pointers of a good array, each to a place of its own.
LEMMA MovedIsGood ==
  ASSUME NEW a \in Arrays, NEW p \in Bijection(1..ArrLen(a), 1..ArrLen(a)), NEW t,
         t = [a EXCEPT !.values = [i \in 1..ArrLen(a) |-> a.values[p[i]]]]
  PROVE  t \in Arrays
<1>1. a \in Shaped /\ Good(a)
  BY DEF Arrays
<1>2. PICK n \in Nat : n = ArrLen(a) /\ n = Len(a.values)
  BY <1>1, ShapeIs DEF ArrLen
<1>3. /\ p \in [1..n -> 1..n] /\ \A w \in 1..n : \E v \in 1..n : p[v] = w
      /\ \A v, w \in 1..n : p[v] = p[w] => v = w
  BY <1>2 DEF Bijection, Injection, Surjection, IsInjective
<1>4. PICK V : V = [i \in 1..n |-> a.values[p[i]]]
  OBVIOUS
<1>5. V \in Seq(HeapPtrs \cup NodePtrs) /\ Len(V) = n /\ \A i \in 1..n : V[i] = a.values[p[i]] /\ p[i] \in 1..n
  <2>1. \A i \in 1..n : a.values[i] \in HeapPtrs \cup NodePtrs
    BY <1>1, <1>2, ShapeIs
  <2>2. \A i \in 1..n : p[i] \in 1..n
    BY <1>3
  <2>3. \A i \in 1..n : a.values[p[i]] \in HeapPtrs \cup NodePtrs
    BY <2>1, <2>2
  <2>4. V \in Seq(HeapPtrs \cup NodePtrs) /\ Len(V) = n
    BY <1>4, <2>3
  <2> QED BY <1>4, <2>2, <2>4
<1>6. t \in Shaped /\ t.keys = a.keys /\ t.base = a.base /\ t.values = V /\ ArrLen(t) = n
  <2>1. t = [a EXCEPT !.values = V]
    BY <1>2, <1>4
  <2> QED BY <1>1, <1>5, <2>1 DEF Shaped, ArrLen
<1>7. \A i \in NodePlaces(t) : i \in 1..n /\ p[i] \in NodePlaces(a) /\ t.values[i] = a.values[p[i]]
  BY <1>2, <1>5, <1>6 DEF NodePlaces
<1>8. KeysProper(t)
  BY <1>1, <1>6 DEF Good, KeysProper
<1>9. Listed(t)
  <2>1. \A b \in Buckets : \A k \in 1..Len(t.keys[b]) : \E i \in 1..ArrLen(t) : Points(t, i, b, k)
    <3> SUFFICES ASSUME NEW b \in Buckets, NEW k \in 1..Len(a.keys[b]) PROVE \E i \in 1..n : Points(t, i, b, k)
      BY <1>6
    <3>1. PICK i \in 1..n : Points(a, i, b, k)
      BY <1>1, <1>2 DEF Good, Listed
    <3>2. PICK j \in 1..n : p[j] = i
      BY <1>3
    <3>3. t.values[j] = a.values[i]
      BY <1>5, <1>6, <3>2
    <3> QED BY <3>1, <3>3 DEF Points
  <2>2. \A i \in NodePlaces(t) : t.values[i].index <= Len(t.keys[t.values[i].bucket])
    <3> SUFFICES ASSUME NEW i \in NodePlaces(t) PROVE t.values[i].index <= Len(a.keys[t.values[i].bucket])
      BY <1>6
    <3> QED BY <1>1, <1>7 DEF Good, Listed
  <2>3. ASSUME NEW i \in NodePlaces(t), NEW j \in NodePlaces(t),
               t.values[i].bucket = t.values[j].bucket, t.values[i].index = t.values[j].index
        PROVE  i = j
    <3>1. /\ p[i] \in NodePlaces(a) /\ t.values[i] = a.values[p[i]]
          /\ p[j] \in NodePlaces(a) /\ t.values[j] = a.values[p[j]]
      BY <1>7
    <3>2. a.values[p[i]].bucket = a.values[p[j]].bucket /\ a.values[p[i]].index = a.values[p[j]].index
      BY <2>3, <3>1
    <3>3. p[i] = p[j]
      BY <1>1, <3>1, <3>2 DEF Good, Listed
    <3> QED BY <1>3, <1>7, <3>3
  <2> QED BY <2>1, <2>2, <2>3 DEF Listed
<1>10. Unmoved(t)
  <2> SUFFICES ASSUME NEW b \in Buckets, Len(a.keys[b]) <= NodeGrowth
               PROVE  a.base[b] = 0 /\ \A i \in NodePlaces(t) : t.values[i].bucket = b => t.values[i].base = 0
    BY <1>6 DEF Unmoved
  <2> QED BY <1>1, <1>7 DEF Good, Unmoved
<1>11. Short(t)
  BY <1>1, <1>2, <1>6 DEF Good, Short
<1> QED BY <1>6, <1>8, <1>9, <1>10, <1>11 DEF Arrays, Good

LEMMA SortIsGood ==
  ASSUME NEW a \in Arrays, NEW s \in ArraySort(a)
  PROVE  s \in Arrays
BY MovedIsGood, CopyIsGood DEF ArraySort

LEMMA ItemsAre ==
  ASSUME NEW a \in Arrays, NEW from \in Int, NEW to \in Int
  PROVE  Items(a, from, to) \in Seq(Contents)
<1>1. \A i \in 1..(to - from) : GetArray(a, from + i - 1) \in Contents
  BY GetIs
<1> QED BY <1>1 DEF Items
\* The list functions.
LEMMA ListsAreGood ==
  ASSUME NEW a \in Arrays
  PROVE  /\ ListTail(a) \in Arrays /\ ListInitial(a) \in Arrays
         /\ \A n \in Int : ListTake(a, n) \in Arrays /\ ListDrop(a, n) \in Arrays
         /\ \A v \in Contents : ListCons(v, a) \in Arrays /\ ListIntersperse(a, v) \in Arrays
<1>1. PICK m \in Nat : m = ArrLen(a)
  BY PosIs
<1>2. ListTail(a) \in Arrays /\ ListInitial(a) \in Arrays
  BY <1>1, ItemsAre, ListIsGood DEF ListTail, ListInitial
<1>3. \A n \in Int : ListTake(a, n) \in Arrays /\ ListDrop(a, n) \in Arrays
  <2> SUFFICES ASSUME NEW n \in Int PROVE ListTake(a, n) \in Arrays /\ ListDrop(a, n) \in Arrays
    OBVIOUS
  <2>1. PICK k \in Int : k = Min({n, m})
    BY DEF Min
  <2> QED BY <1>1, <2>1, ItemsAre, ListIsGood DEF ListTake, ListDrop
<1>4. ASSUME NEW v \in Contents PROVE ListCons(v, a) \in Arrays
  <2>1. Items(a, 0, ArrLen(a)) \in Seq(Contents)
    BY <1>1, ItemsAre
  <2>2. <<v>> \o Items(a, 0, ArrLen(a)) \in Seq(Contents)
    BY <2>1
  <2> QED BY <2>2, ListIsGood DEF ListCons
<1>5. ASSUME NEW v \in Contents PROVE ListIntersperse(a, v) \in Arrays
  <2>1. \A i \in 1..(2 * m - 1) : (IF i % 2 = 1 THEN GetArray(a, i \div 2) ELSE v) \in Contents
    BY GetIs
  <2>2. [i \in 1..(2 * m - 1) |-> IF i % 2 = 1 THEN GetArray(a, i \div 2) ELSE v] \in Seq(Contents)
    BY <2>1
  <2> QED BY <1>1, <2>2, ListIsGood DEF ListIntersperse
<1> QED BY <1>2, <1>3, <1>4, <1>5

LEMMA ReplicateIsGood ==
  ASSUME NEW v \in Contents, NEW n \in Int
  PROVE  ListReplicate(v, n) \in Arrays
<1>1. [i \in 1..n |-> v] \in Seq(Contents)
  OBVIOUS
<1> QED BY <1>1, ListIsGood DEF ListReplicate

\* A copy has not more elements than there are to copy.
LEMMA BuildLength ==
  ASSUME NEW s \in Seq(Elem)
  PROVE  ArrLen(Build(s)) <= Len(s)
<1>1. PICK f \in [0..Len(s) -> Arrays] :
        /\ f[0] = EmptyArray /\ f[Len(s)] = Build(s)
        /\ \A k \in 1..Len(s) : f[k] = AddCopy(f[k - 1], s[k])
  BY BuildSteps
<1>2. PICK n \in Nat : n = Len(s)
  OBVIOUS
<1> DEFINE T == {k \in Nat : k <= n => ArrLen(f[k]) <= k}
<1>3. 0 \in T
  BY <1>1 DEF EmptyArray, ArrLen
<1>4. ASSUME NEW k \in Nat, k \in T PROVE k + 1 \in T
  <2> SUFFICES ASSUME k + 1 <= n PROVE ArrLen(f[k + 1]) <= k + 1
    OBVIOUS
  <2>1. f[k] \in Arrays /\ s[k + 1] \in Elem /\ ArrLen(f[k]) <= k
    BY <1>1, <1>2, <1>4
  <2>2. f[k + 1] = AddCopy(f[k], s[k + 1])
    BY <1>1, <1>2
  <2>3. ArrLen(f[k + 1]) \in {ArrLen(f[k]), ArrLen(f[k]) + 1}
    BY <2>1, <2>2, AddCopyIsGood
  <2>4. ArrLen(f[k]) \in Nat
    BY <2>1, PosIs
  <2> QED BY <2>1, <2>3, <2>4
<1> HIDE DEF T
<1>5. n \in T
  BY <1>3, <1>4, AllNumbers
<1> QED BY <1>1, <1>2, <1>5 DEF T
-----------------------------------------------------------------------------
\* The inductive invariant.
Kept == arr \in Arrays /\ ArrLen(arr) <= MaxLen

LEMMA AssignedKeeps ==
  ASSUME NEW a \in Arrays, Assigned(a)
  PROVE  Kept'
<1>1. CopyArray(a) \in Arrays /\ ArrLen(CopyArray(a)) <= ArrLen(a)
  BY CopyIsGood, ElemsAre, BuildLength DEF CopyArray
<1>2. ArrLen(a) \in Nat /\ ArrLen(CopyArray(a)) \in Nat
  BY <1>1, ShapeIs DEF Arrays
<1>3. ArrLen(a) <= MaxLen /\ arr' = CopyArray(a)
  BY DEF Assigned
<1>4. arr' \in Arrays /\ ArrLen(arr') <= MaxLen
  BY <1>1, <1>2, <1>3, GrowthAssumption
<1> QED BY <1>4 DEF Kept, ArrLen

LEMMA InitKept == Init => Kept
BY EmptyIsGood, GrowthAssumption DEF Init, Kept, EmptyArray, ArrLen

LEMMA StepKeeps ==
  ASSUME Kept, [Next]_vars
  PROVE  Kept'
<1>1. arr \in Arrays /\ Arg \in Arrays
  BY CopyIsGood DEF Kept, Arg
<1>2. ASSUME NEW w \in Wheres, NEW v \in Data, StoreAt(w, v) PROVE Kept'
  <2>1. Store(arr, w, v) \in Arrays
    BY <1>1, StoreIsGood DEF Contents
  <2> QED BY <1>2, <2>1 DEF StoreAt, Kept, ArrLen
<1>3. ASSUME NEW args \in ArgLists, Make(args) PROVE Kept'
  BY <1>3, ArgListsAre, MadeIsGood, AssignedKeeps DEF Make
<1>4. ASSUME NEW arg \in Args, Merge(<<arg>>) PROVE Kept'
  <2>1. MkKeyArray(<<arg>>) \in Arrays
    <3>1. <<arg>> \in Seq(Args)
      OBVIOUS
    <3> QED BY <3>1, MadeIsGood
  <2>2. CASE arr' = arr
    BY <2>2 DEF Kept, ArrLen
  <2>3. CASE Assigned(ArrayMerge(Arg, MkKeyArray(<<arg>>)))
    BY <1>1, <2>1, <2>3, MergeIsGood, AssignedKeeps
  <2> QED BY <1>4, <2>2, <2>3, Zenon DEF Merge
<1>5. ASSUME NEW p \in Positions, Unset(p) PROVE Kept'
  <2>1. p \in Int
    BY GrowthAssumption DEF Positions
  <2> QED BY <1>1, <1>5, <2>1, DeleteIsGood, AssignedKeeps DEF Unset
<1>6. CASE Compact
  BY <1>1, <1>6, CompactIsGood, AssignedKeeps DEF Compact
<1>7. CASE TurnAround
  BY <1>1, <1>7, ReverseIsGood, AssignedKeeps DEF TurnAround
<1>8. CASE Sort
  BY <1>1, <1>8, SortIsGood, AssignedKeeps DEF Sort
<1>9. CASE Copied
  BY <1>1, <1>9, AssignedKeeps DEF Copied
<1>10. CASE TakeTail
  BY <1>1, <1>10, ListsAreGood, AssignedKeeps DEF TakeTail
<1>11. CASE TakeInitial
  BY <1>1, <1>11, ListsAreGood, AssignedKeeps DEF TakeInitial
<1>12. ASSUME NEW v \in ArgData, Prepend(v) \/ Intersperse(v) PROVE Kept'
  <2>1. v \in Contents
    BY DataAssumption DEF Contents
  <2> QED BY <1>1, <1>12, <2>1, ListsAreGood, AssignedKeeps DEF Prepend, Intersperse
<1>13. ASSUME NEW n \in Counts, TakeFirst(n) \/ Drop(n) PROVE Kept'
  <2>1. n \in Int
    BY GrowthAssumption DEF Counts
  <2> QED BY <1>1, <1>13, <2>1, ListsAreGood, AssignedKeeps DEF TakeFirst, Drop
<1>14. ASSUME NEW n \in Counts, NEW v \in ArgData, Replicate(v, n) PROVE Kept'
  <2>1. v \in Contents /\ n \in Int
    BY DataAssumption, GrowthAssumption DEF Contents, Counts
  <2> QED BY <1>14, <2>1, ReplicateIsGood, AssignedKeeps DEF Replicate
<1>15. CASE UNCHANGED vars
  BY <1>15 DEF vars, Kept, ArrLen
<1> QED BY <1>2, <1>3, <1>4, <1>5, <1>6, <1>7, <1>8, <1>9, <1>10, <1>11, <1>12, <1>13, <1>14, <1>15 DEF Next

\* What a good array with small nodes shows.
SmallNodes == \A b \in Buckets : Len(arr.keys[b]) <= NodeGrowth

LEMMA KeptIsProper ==
  ASSUME Kept, SmallNodes
  PROVE  PointersProper
<1>1. arr \in Shaped /\ Good(arr) /\ ArrLen(arr) \in Nat /\ ArrLen(arr) <= MaxLen
  BY ShapeIs DEF Kept, Arrays
<1>2. \A i \in NodePlaces(arr) : Fresh(arr, arr.values[i])
  <2> SUFFICES ASSUME NEW i \in NodePlaces(arr) PROVE Fresh(arr, arr.values[i])
    OBVIOUS
  <2>1. arr.values[i].bucket \in Buckets
    BY <1>1, ShapeIs DEF NodePtrs
  <2> QED BY <1>1, <2>1 DEF Good, Unmoved, SmallNodes, Fresh
<1> DEFINE S == {<<arr.values[i].bucket, arr.values[i].index>> : i \in NodePlaces(arr)}
<1>3. ASSUME NEW i \in NodePlaces(arr)
      PROVE  <<arr.values[i].bucket, arr.values[i].index>> \in LivePlaces(arr)
  <2>1. PICK b \in Buckets, k \in Nat \ {0} : b = arr.values[i].bucket /\ k = arr.values[i].index
    BY <1>1, ShapeIs DEF NodePtrs
  <2>2. Len(arr.keys[b]) \in Nat /\ Len(arr.keys[b]) <= ArrLen(arr) /\ k <= Len(arr.keys[b])
    BY <1>1, <2>1, ShapeIs DEF Good, Short, Listed
  <2>3. arr.keys[b][k] \in KeySlots
    BY <1>1, <2>2, ShapeIs
  <2>4. arr.keys[b][k] # Dead
    BY <2>3, NullAssumption DEF KeySlots, Dead
  <2>5. k \in 1..MaxLen
    BY <1>1, <2>2, GrowthAssumption
  <2> QED BY <2>1, <2>2, <2>4, <2>5 DEF LivePlaces
<1>4. ASSUME NEW b \in Buckets, NEW k \in 1..MaxLen, k <= Len(arr.keys[b]) PROVE <<b, k>> \in S
  <2>1. k \in 1..Len(arr.keys[b])
    BY <1>1, <1>4, ShapeIs
  <2>2. PICK i \in 1..ArrLen(arr) : Points(arr, i, b, k)
    BY <1>1, <2>1 DEF Good, Listed
  <2> QED BY <2>2 DEF Points, NodePlaces
<1>5. S = LivePlaces(arr)
  BY <1>3, <1>4 DEF LivePlaces
<1>6. \A i, j \in NodePlaces(arr) :
        arr.values[i].bucket = arr.values[j].bucket /\ arr.values[i].index = arr.values[j].index => i = j
  BY <1>1 DEF Good, Listed
<1> QED BY <1>2, <1>5, <1>6 DEF PointersProper

\* Every pointer of an array leads to a live entry, and every entry of the key
\* table has one pointer, as long as no node has got more entries than
\* symtab_node_add (symtab_entry.c) allocates at once.
THEOREM ArrayPointersProper == Spec => [](SmallNodes => PointersProper)
<1>1. Kept => (SmallNodes => PointersProper)
  BY KeptIsProper
<1> QED BY <1>1, InitKept, StepKeeps, PTL DEF Spec

\* The same for every array that is not longer than a node.
THEOREM ShortArraysProper == MaxLen <= NodeGrowth => (Spec => []PointersProper)
<1> SUFFICES ASSUME MaxLen <= NodeGrowth PROVE Spec => []PointersProper
  OBVIOUS
<1>1. Kept => PointersProper
  <2> SUFFICES ASSUME Kept PROVE SmallNodes
    BY KeptIsProper
  <2>1. ASSUME NEW b \in Buckets PROVE Len(arr.keys[b]) <= NodeGrowth
    <3>1. Len(arr.keys[b]) \in Nat /\ ArrLen(arr) \in Nat /\ Len(arr.keys[b]) <= ArrLen(arr)
      BY ShapeIs DEF Kept, Arrays, Good, Short
    <3> QED BY <3>1, GrowthAssumption DEF Kept
  <2> QED BY <2>1 DEF SmallNodes
<1> QED BY <1>1, InitKept, StepKeeps, PTL DEF Spec
-----------------------------------------------------------------------------
\* An array none of whose nodes has moved, and what a script sees of it.
Tidy(a) == a \in Arrays /\ \A b \in Buckets : Len(a.keys[b]) <= NodeGrowth
View(a) == [i \in 1..ArrLen(a) |-> [key |-> Symbol(a, i), val |-> DataAt(a, i)]]
Pair    == [key : Names \cup {NULL}, val : Contents]

\* A place shows its own value, or the slot it points to.
LEMMA HeapRead ==
  ASSUME NEW a \in Shaped, NEW i \in 1..ArrLen(a), a.values[i].at = "heap"
  PROVE  Symbol(a, i) = NULL /\ DataAt(a, i) = a.values[i].data
BY DEF Symbol, DataAt, Read

LEMMA NodeRead ==
  ASSUME NEW a, Tidy(a), NEW i \in 1..ArrLen(a), NEW b \in Buckets, NEW k, Points(a, i, b, k)
  PROVE  /\ k \in 1..Len(a.keys[b]) /\ Fresh(a, a.values[i])
         /\ Symbol(a, i) = a.keys[b][k].symbol /\ DataAt(a, i) = a.keys[b][k].data
         /\ a.keys[b][k] \in KeySlots
<1>1. a \in Shaped /\ Good(a) /\ Len(a.keys[b]) <= NodeGrowth
  BY DEF Tidy, Arrays
<1>2. i \in NodePlaces(a) /\ a.values[i].bucket = b /\ a.values[i].index = k /\ a.values[i].at = "node"
  BY DEF Points, NodePlaces
<1>3. k \in 1..Len(a.keys[b])
  <2>1. k \in Nat \ {0} /\ Len(a.keys[b]) \in Nat
    BY <1>1, <1>2, ShapeIs DEF NodePtrs
  <2>2. k <= Len(a.keys[b])
    BY <1>1, <1>2 DEF Good, Listed
  <2> QED BY <2>1, <2>2
<1>4. Fresh(a, a.values[i])
  BY <1>1, <1>2 DEF Good, Unmoved, Fresh
<1>5. Read(a, a.values[i]) = a.keys[b][k]
  BY <1>2, <1>4 DEF Read
<1>6. a.keys[b][k] \in KeySlots
  BY <1>1, <1>3, ShapeIs
<1> QED BY <1>3, <1>4, <1>5, <1>6 DEF Symbol, DataAt

LEMMA PlaceIs ==
  ASSUME NEW a \in Shaped, NEW i \in 1..ArrLen(a)
  PROVE  \/ a.values[i].at = "heap" /\ a.values[i] \in HeapPtrs
         \/ a.values[i].bucket \in Buckets /\ a.values[i].index \in Nat /\ Points(a, i, a.values[i].bucket, a.values[i].index)
BY ShapeIs DEF HeapPtrs, NodePtrs, Points

\* The place that shows a key is the one that points to its slot.
LEMMA KeyShown ==
  ASSUME NEW a, Tidy(a), NEW k \in Names, NEW i \in 1..ArrLen(a), Symbol(a, i) = k
  PROVE  Found(a.keys, k) /\ Points(a, i, Hash[k], Index(a.keys, k))
<1>1. a \in Shaped /\ Good(a)
  BY DEF Tidy, Arrays
<1>2. a.values[i].at # "heap"
  BY <1>1, HeapRead, NullAssumption
<1>3. PICK b \in Buckets, x \in Nat : Points(a, i, b, x)
  BY <1>1, <1>2, PlaceIs
<1>4. x \in 1..Len(a.keys[b]) /\ a.keys[b][x].symbol = k
  BY <1>3, NodeRead
<1>5. b = Hash[k]
  BY <1>1, <1>4 DEF Good, KeysProper
<1>6. Found(a.keys, k)
  BY <1>1, <1>4, <1>5, SlotIs
<1>7. Index(a.keys, k) \in 1..Len(a.keys[b]) /\ a.keys[b][Index(a.keys, k)].symbol = k
  BY <1>1, <1>5, <1>6, SlotIs
<1>8. x = Index(a.keys, k)
  BY <1>1, <1>4, <1>7 DEF Good, KeysProper
<1> QED BY <1>3, <1>5, <1>6, <1>8

LEMMA KeyHasPlace ==
  ASSUME NEW a, Tidy(a), NEW k \in Names, Found(a.keys, k)
  PROVE  \E i \in 1..ArrLen(a) : Symbol(a, i) = k /\ Points(a, i, Hash[k], Index(a.keys, k))
<1>1. a \in Shaped /\ Good(a)
  BY DEF Tidy, Arrays
<1>2. Hash[k] \in Buckets /\ Index(a.keys, k) \in 1..Len(a.keys[Hash[k]]) /\ a.keys[Hash[k]][Index(a.keys, k)].symbol = k
  BY <1>1, SlotIs
<1>3. PICK i \in 1..ArrLen(a) : Points(a, i, Hash[k], Index(a.keys, k))
  BY <1>1, <1>2 DEF Good, Listed
<1>4. Symbol(a, i) = k
  BY <1>2, <1>3, NodeRead
<1> QED BY <1>3, <1>4

\* No two places show the same key.
LEMMA KeysOnce ==
  ASSUME NEW a, Tidy(a), NEW i \in 1..ArrLen(a), NEW j \in 1..ArrLen(a), Symbol(a, i) = Symbol(a, j), Symbol(a, i) # NULL
  PROVE  i = j
<1>1. PICK k \in Names : k = Symbol(a, i)
  BY ReadIs DEF Tidy
<1>2. Points(a, i, Hash[k], Index(a.keys, k)) /\ Points(a, j, Hash[k], Index(a.keys, k))
  BY <1>1, KeyShown
<1> QED BY <1>2 DEF Tidy, Arrays, Good, Listed, Points, NodePlaces

\* A value written to the slot that one place points to.
LEMMA SlotWritten ==
  ASSUME NEW a, Tidy(a), NEW i \in 1..ArrLen(a), NEW b \in Buckets, NEW k, Points(a, i, b, k),
         NEW v \in Contents, NEW t, Tidy(t), SlotGiven(a, t, b, k, v)
  PROVE  /\ ArrLen(t) = ArrLen(a)
         /\ \A j \in 1..ArrLen(a) : /\ Symbol(t, j) = Symbol(a, j)
                                    /\ DataAt(t, j) = IF j = i THEN v ELSE DataAt(a, j)
<1>1. a \in Shaped /\ Good(a) /\ t \in Shaped /\ ArrLen(t) = ArrLen(a)
  BY DEF Tidy, Arrays, ArrLen, SlotGiven
<1>2. ASSUME NEW j \in 1..ArrLen(a)
      PROVE  Symbol(t, j) = Symbol(a, j) /\ DataAt(t, j) = IF j = i THEN v ELSE DataAt(a, j)
  <2>1. CASE a.values[j].at = "heap"
    <3>1. j # i
      BY <2>1 DEF Points
    <3> QED BY <1>1, <2>1, <3>1, HeapRead DEF SlotGiven
  <2>2. CASE a.values[j].at # "heap"
    <3>1. PICK c \in Buckets, x \in Nat : Points(a, j, c, x)
      BY <1>1, <2>2, PlaceIs
    <3>2. Points(t, j, c, x)
      BY <3>1 DEF Points, SlotGiven
    <3>3. x \in 1..Len(a.keys[c]) /\ Symbol(a, j) = a.keys[c][x].symbol /\ DataAt(a, j) = a.keys[c][x].data
      BY <3>1, NodeRead
    <3>4. Symbol(t, j) = t.keys[c][x].symbol /\ DataAt(t, j) = t.keys[c][x].data
      BY <1>1, <3>2, NodeRead
    <3>5. CASE j = i
      <4>1. c = b /\ x = k
        BY <3>1, <3>5 DEF Points
      <4> QED BY <3>3, <3>4, <3>5, <4>1 DEF SlotGiven
    <3>6. CASE j # i
      <4>1. i \in NodePlaces(a) /\ j \in NodePlaces(a)
        BY <3>1 DEF Points, NodePlaces
      <4>2. c # b \/ x # k
        BY <1>1, <3>1, <3>6, <4>1 DEF Good, Listed, Points
      <4>3. t.keys[c][x] = a.keys[c][x]
        BY <3>3, <4>2 DEF SlotGiven
      <4> QED BY <3>3, <3>4, <3>6, <4>3
    <3> QED BY <3>5, <3>6
  <2> QED BY <2>1, <2>2
<1> QED BY <1>1, <1>2

\* What each operation shows, place by place.
LEMMA WriteShows ==
  ASSUME NEW a, Tidy(a), NEW i \in 1..ArrLen(a), NEW v \in Contents, NEW t, t = Write(a, i, v)
  PROVE  /\ Tidy(t) /\ ArrLen(t) = ArrLen(a)
         /\ \A j \in 1..ArrLen(a) : /\ Symbol(t, j) = Symbol(a, j)
                                    /\ DataAt(t, j) = IF j = i THEN v ELSE DataAt(a, j)
<1>1. a \in Shaped /\ a \in Arrays /\ t \in Arrays /\ ArrLen(t) = ArrLen(a)
  BY WriteIsGood DEF Tidy, Arrays
<1>2. t \in Shaped
  BY <1>1 DEF Arrays
<1>3. CASE a.values[i].at = "heap"
  <2>1. PICK q : q = [a.values[i] EXCEPT !.data = v]
    OBVIOUS
  <2>2. a.values[i] \in HeapPtrs
    BY <1>1, <1>3, PlaceIs DEF Points
  <2>3. q \in HeapPtrs /\ q.at = "heap" /\ q.data = v
    BY <2>1, <2>2 DEF HeapPtrs
  <2>4. PICK V : V = [a.values EXCEPT ![i] = q]
    OBVIOUS
  <2>5. t = [a EXCEPT !.values = V]
    BY <1>3, <2>1, <2>4 DEF Write
  <2>6. t.keys = a.keys /\ t.base = a.base /\ t.values = V
    BY <1>1, <2>5 DEF Shaped
  <2>7. V[i] = q /\ \A j \in 1..ArrLen(a) : j # i => V[j] = a.values[j]
    BY <1>1, <2>4, ShapeIs DEF ArrLen
  <2>8. Tidy(t)
    BY <1>1, <2>6 DEF Tidy
  <2>9. ASSUME NEW j \in 1..ArrLen(a)
        PROVE  Symbol(t, j) = Symbol(a, j) /\ DataAt(t, j) = IF j = i THEN v ELSE DataAt(a, j)
    <3>1. CASE j = i
      BY <1>1, <1>2, <1>3, <2>3, <2>6, <2>7, <3>1, HeapRead
    <3>2. CASE j # i /\ a.values[j].at = "heap"
      BY <1>1, <1>2, <2>6, <2>7, <3>2, HeapRead
    <3>3. CASE j # i /\ a.values[j].at # "heap"
      <4>1. PICK c \in Buckets, x \in Nat : Points(a, j, c, x)
        BY <1>1, <3>3, PlaceIs
      <4>2. Points(t, j, c, x)
        BY <2>6, <2>7, <3>3, <4>1 DEF Points
      <4>3. Symbol(a, j) = a.keys[c][x].symbol /\ DataAt(a, j) = a.keys[c][x].data
        BY <4>1, NodeRead
      <4>4. Symbol(t, j) = t.keys[c][x].symbol /\ DataAt(t, j) = t.keys[c][x].data
        BY <1>1, <2>8, <4>2, NodeRead
      <4> QED BY <2>6, <3>3, <4>3, <4>4
    <3> QED BY <3>1, <3>2, <3>3
  <2> QED BY <1>1, <2>8, <2>9
<1>4. CASE a.values[i].at # "heap"
  <2>1. PICK b \in Buckets, k \in Nat : Points(a, i, b, k)
    BY <1>1, <1>4, PlaceIs
  <2>2. k \in 1..Len(a.keys[b]) /\ Fresh(a, a.values[i]) /\ a.keys[b][k] \in KeySlots
    BY <2>1, NodeRead
  <2>3. a.values[i].at = "node" /\ a.values[i].bucket = b /\ a.values[i].index = k
    BY <2>1 DEF Points
  <2>4. PICK e : e = [a.keys[b][k] EXCEPT !.data = v]
    OBVIOUS
  <2>5. e.symbol = a.keys[b][k].symbol /\ e.data = v
    BY <2>2, <2>4 DEF KeySlots
  <2>6. PICK s \in Seq(KeySlots) : s = a.keys[b]
    BY <1>1, ShapeIs
  <2>7. PICK N : N = [s EXCEPT ![k] = e]
    OBVIOUS
  <2>8. Len(N) = Len(s) /\ N[k] = e /\ \A l \in 1..Len(s) : l # k => N[l] = s[l]
    BY <2>2, <2>6, <2>7
  <2>9. PICK K : K = [a.keys EXCEPT ![b] = N]
    OBVIOUS
  <2>10. K[b] = N /\ \A c \in Buckets : c # b => K[c] = a.keys[c]
    BY <1>1, <2>9, ShapeIs
  <2>11. t = [a EXCEPT !.keys = K]
    BY <2>2, <2>3, <2>4, <2>6, <2>7, <2>9 DEF Write
  <2>12. t.keys = K /\ t.base = a.base /\ t.values = a.values
    BY <1>1, <2>11 DEF Shaped
  <2>13. \A c \in Buckets : Len(t.keys[c]) = Len(a.keys[c])
    BY <2>6, <2>8, <2>10, <2>12
  <2>14. Tidy(t)
    BY <1>1, <2>13 DEF Tidy
  <2>15. \A c \in Buckets : \A l \in 1..Len(a.keys[c]) : c # b \/ l # k => t.keys[c][l] = a.keys[c][l]
    BY <2>6, <2>8, <2>10, <2>12
  <2>16. t.keys[b][k].symbol = a.keys[b][k].symbol /\ t.keys[b][k].data = v
    BY <2>5, <2>8, <2>10, <2>12
  <2>17. SlotGiven(a, t, b, k, v)
    BY <2>12, <2>13, <2>15, <2>16 DEF SlotGiven
  <2> QED BY <2>1, <2>14, <2>17, SlotWritten
<1> QED BY <1>3, <1>4

\* What is added at the end leaves the places before as they are.
Longer(a, t) ==
  /\ ArrLen(a) <= ArrLen(t) /\ \A i \in 1..ArrLen(a) : t.values[i] = a.values[i]
  /\ \A c \in Buckets : \A l \in 1..Len(a.keys[c]) : t.keys[c][l] = a.keys[c][l]

LEMMA PrefixShown ==
  ASSUME NEW a, Tidy(a), NEW t, Tidy(t), Longer(a, t)
  PROVE  \A i \in 1..ArrLen(a) : Symbol(t, i) = Symbol(a, i) /\ DataAt(t, i) = DataAt(a, i)
<1>1. a \in Shaped /\ t \in Shaped /\ ArrLen(a) \in Nat /\ ArrLen(t) \in Nat
  BY ShapeIs DEF Tidy, Arrays
<1>2. SUFFICES ASSUME NEW i \in 1..ArrLen(a) PROVE Symbol(t, i) = Symbol(a, i) /\ DataAt(t, i) = DataAt(a, i)
  OBVIOUS
<1>3. i \in 1..ArrLen(t) /\ t.values[i] = a.values[i]
  BY <1>1 DEF Longer
<1>4. CASE a.values[i].at = "heap"
  BY <1>1, <1>3, <1>4, HeapRead
<1>5. CASE a.values[i].at # "heap"
  <2>1. PICK c \in Buckets, x \in Nat : Points(a, i, c, x)
    BY <1>1, <1>5, PlaceIs
  <2>2. Points(t, i, c, x)
    BY <1>3, <2>1 DEF Points
  <2>3. x \in 1..Len(a.keys[c]) /\ Symbol(a, i) = a.keys[c][x].symbol /\ DataAt(a, i) = a.keys[c][x].data
    BY <2>1, NodeRead
  <2>4. Symbol(t, i) = t.keys[c][x].symbol /\ DataAt(t, i) = t.keys[c][x].data
    BY <1>3, <2>2, NodeRead
  <2> QED BY <2>3, <2>4 DEF Longer
<1> QED BY <1>4, <1>5

LEMMA AddShows ==
  ASSUME NEW a, Tidy(a), NEW v \in Contents, NEW t, t = AddToArray(a, v)
  PROVE  /\ Tidy(t) /\ ArrLen(t) = ArrLen(a) + 1
         /\ \A i \in 1..ArrLen(a) : Symbol(t, i) = Symbol(a, i) /\ DataAt(t, i) = DataAt(a, i)
         /\ Symbol(t, ArrLen(a) + 1) = NULL /\ DataAt(t, ArrLen(a) + 1) = v
<1>1. a \in Shaped /\ a \in Arrays /\ t \in Arrays /\ ArrLen(t) = ArrLen(a) + 1 /\ ArrLen(a) \in Nat
  BY HeapAdded, ShapeIs DEF Tidy, Arrays
<1>2. t.keys = a.keys /\ t.values = Append(a.values, InHeap(v)) /\ t \in Shaped
  BY <1>1 DEF AddToArray, Shaped, Arrays
<1>3. /\ \A i \in 1..ArrLen(a) : t.values[i] = a.values[i]
      /\ t.values[ArrLen(a) + 1] = InHeap(v)
  BY <1>1, <1>2, ShapeIs DEF ArrLen
<1>4. Tidy(t)
  BY <1>1, <1>2 DEF Tidy
<1>5. \A i \in 1..ArrLen(a) : Symbol(t, i) = Symbol(a, i) /\ DataAt(t, i) = DataAt(a, i)
  <2>1. Longer(a, t)
    <3>1. ArrLen(a) <= ArrLen(t)
      BY <1>1
    <3>2. \A c \in Buckets : \A l \in 1..Len(a.keys[c]) : t.keys[c][l] = a.keys[c][l]
      BY <1>2
    <3> QED BY <1>3, <3>1, <3>2 DEF Longer
  <2> QED BY <1>4, <2>1, PrefixShown
<1>6. Symbol(t, ArrLen(a) + 1) = NULL /\ DataAt(t, ArrLen(a) + 1) = v
  <2>1. ArrLen(a) + 1 \in 1..ArrLen(t) /\ InHeap(v).at = "heap" /\ InHeap(v).data = v
    BY <1>1 DEF InHeap
  <2> QED BY <1>2, <1>3, <2>1, HeapRead
<1> QED BY <1>1, <1>4, <1>5, <1>6

\* The elements a large index makes.
LEMMA FilledShows ==
  ASSUME NEW a, Tidy(a), NEW p \in Nat, p >= ArrLen(a), NEW t, t = Filled(a, p)
  PROVE  /\ Tidy(t) /\ ArrLen(t) = p
         /\ \A i \in 1..ArrLen(a) : Symbol(t, i) = Symbol(a, i) /\ DataAt(t, i) = DataAt(a, i)
         /\ \A i \in (ArrLen(a) + 1)..p : Symbol(t, i) = NULL /\ DataAt(t, i) = Void
<1>1. a \in Shaped /\ a \in Arrays /\ t \in Arrays /\ ArrLen(t) = p
  BY FilledIs DEF Tidy, Arrays
<1>2. PICK n \in Nat : n = ArrLen(a) /\ n = Len(a.values) /\ n <= p
  BY <1>1, ShapeIs DEF ArrLen
<1>3. PICK w : w = [i \in 1..(p - n) |-> InHeap(Void)]
  OBVIOUS
<1>4. t = [a EXCEPT !.values = a.values \o w]
  BY <1>2, <1>3 DEF Filled
<1>5. t.keys = a.keys /\ t.values = a.values \o w /\ t \in Shaped
  BY <1>1, <1>4 DEF Shaped, Arrays
<1>6. \A i \in 1..n : t.values[i] = a.values[i]
  <2>1. a.values \in Seq(HeapPtrs \cup NodePtrs)
    BY <1>1, ShapeIs
  <2>2. Len(w) = p - n /\ w \in Seq({InHeap(Void)})
    BY <1>2, <1>3
  <2> QED BY <1>2, <1>5, <2>1, <2>2
<1>7. \A i \in (n + 1)..p : t.values[i] = InHeap(Void)
  <2>1. a.values \in Seq(HeapPtrs \cup NodePtrs)
    BY <1>1, ShapeIs
  <2>2. Len(w) = p - n /\ w \in Seq({InHeap(Void)}) /\ \A i \in 1..(p - n) : w[i] = InHeap(Void)
    BY <1>2, <1>3
  <2> SUFFICES ASSUME NEW i \in (n + 1)..p PROVE t.values[i] = InHeap(Void)
    OBVIOUS
  <2>3. i - n \in 1..(p - n)
    BY <1>2
  <2>4. t.values[i] = w[i - n]
    BY <1>2, <1>5, <2>1, <2>2, <2>3
  <2> QED BY <2>2, <2>3, <2>4
<1>8. Tidy(t)
  BY <1>1, <1>5 DEF Tidy
<1>9. \A i \in 1..n : Symbol(t, i) = Symbol(a, i) /\ DataAt(t, i) = DataAt(a, i)
  <2>1. Longer(a, t)
    BY <1>1, <1>2, <1>5, <1>6 DEF Longer
  <2> QED BY <1>2, <1>8, <2>1, PrefixShown
<1>10. ASSUME NEW i \in (n + 1)..p PROVE Symbol(t, i) = NULL /\ DataAt(t, i) = Void
  <2>1. i \in 1..ArrLen(t) /\ t.values[i].at = "heap" /\ t.values[i].data = Void
    BY <1>1, <1>2, <1>7 DEF InHeap
  <2> QED BY <1>5, <2>1, HeapRead
<1> QED BY <1>1, <1>2, <1>8, <1>9, <1>10

\* A key that is there keeps its place, a new one gets the last.
LEMMA KeyGivenShows ==
  ASSUME NEW a, Tidy(a), NEW k \in Names, NEW v \in Contents, Found(a.keys, k), NEW t, t = AddToKeyArray(a, k, v)
  PROVE  /\ Tidy(t) /\ ArrLen(t) = ArrLen(a)
         /\ \E i \in 1..ArrLen(a) :
              /\ Symbol(a, i) = k
              /\ \A j \in 1..ArrLen(a) : /\ Symbol(t, j) = Symbol(a, j)
                                         /\ DataAt(t, j) = IF j = i THEN v ELSE DataAt(a, j)
<1>1. a \in Arrays /\ a \in Shaped /\ Hash[k] \in Buckets
  BY SlotIs DEF Tidy, Arrays
<1>2. t \in Arrays /\ ArrLen(t) = ArrLen(a) /\ SlotGiven(a, t, Hash[k], Index(a.keys, k), v)
  BY <1>1, KeyGiven
<1>3. Tidy(t)
  BY <1>2 DEF Tidy, SlotGiven
<1>4. PICK i \in 1..ArrLen(a) : Symbol(a, i) = k /\ Points(a, i, Hash[k], Index(a.keys, k))
  BY KeyHasPlace
<1>5. PICK b, x : b = Hash[k] /\ b \in Buckets /\ x = Index(a.keys, k)
  BY <1>1
<1>6. /\ ArrLen(t) = ArrLen(a)
      /\ \A j \in 1..ArrLen(a) : /\ Symbol(t, j) = Symbol(a, j)
                                 /\ DataAt(t, j) = IF j = i THEN v ELSE DataAt(a, j)
  <2>1. SlotGiven(a, t, b, x, v) /\ Points(a, i, b, x)
    BY <1>2, <1>4, <1>5
  <2> QED BY <1>3, <1>5, <2>1, SlotWritten
<1> QED BY <1>3, <1>4, <1>6

LEMMA KeyNewShows ==
  ASSUME NEW a, Tidy(a), NEW k \in Names, NEW v \in Contents, ~Found(a.keys, k), NEW t, t = AddToKeyArray(a, k, v),
         \A b \in Buckets : Len(t.keys[b]) <= NodeGrowth
  PROVE  /\ Tidy(t) /\ ArrLen(t) = ArrLen(a) + 1
         /\ \A i \in 1..ArrLen(a) : Symbol(t, i) = Symbol(a, i) /\ DataAt(t, i) = DataAt(a, i) /\ Symbol(a, i) # k
         /\ Symbol(t, ArrLen(a) + 1) = k /\ DataAt(t, ArrLen(a) + 1) = v
<1>1. a \in Arrays /\ a \in Shaped /\ Hash[k] \in Buckets /\ ArrLen(a) \in Nat
  BY SlotIs, ShapeIs DEF Tidy, Arrays
<1>2. t \in Arrays /\ ArrLen(t) = ArrLen(a) + 1 /\ SlotNew(a, t, Hash[k], SymbolEntry(k, "var", v))
  BY <1>1, KeyNew
<1>3. Tidy(t)
  BY <1>2 DEF Tidy
<1>4. \A i \in 1..ArrLen(a) : Symbol(t, i) = Symbol(a, i) /\ DataAt(t, i) = DataAt(a, i)
  <2>1. Longer(a, t)
    BY <1>1, <1>2 DEF Longer, SlotNew
  <2> QED BY <1>3, <2>1, PrefixShown
<1>5. \A i \in 1..ArrLen(a) : Symbol(a, i) # k
  BY KeyShown
<1>6. Symbol(t, ArrLen(a) + 1) = k /\ DataAt(t, ArrLen(a) + 1) = v
  <2>1. PICK n : n = ArrLen(a) + 1 /\ n \in 1..ArrLen(t)
    BY <1>1, <1>2
  <2>2. PICK b, x : b = Hash[k] /\ b \in Buckets /\ x = Len(a.keys[b]) + 1
    BY <1>1
  <2>3. Points(t, n, b, x) /\ t.keys[b][x] = SymbolEntry(k, "var", v)
    BY <1>2, <2>1, <2>2 DEF SlotNew
  <2>4. Symbol(t, n) = t.keys[b][x].symbol /\ DataAt(t, n) = t.keys[b][x].data
    BY <1>3, <2>1, <2>2, <2>3, NodeRead
  <2> QED BY <2>1, <2>3, <2>4 DEF SymbolEntry
<1> QED BY <1>2, <1>3, <1>4, <1>5, <1>6

-----------------------------------------------------------------------------
(* What the calls do to the elements. *)

\* The view of an array, and how to tell that a sequence is one.
LEMMA ViewIs ==
  ASSUME NEW a \in Arrays
  PROVE  /\ View(a) \in Seq(Pair) /\ Len(View(a)) = ArrLen(a) /\ ArrLen(a) \in Nat
         /\ \A i \in 1..ArrLen(a) : /\ View(a)[i].key = Symbol(a, i) /\ View(a)[i].val = DataAt(a, i)
                                    /\ View(a)[i] = [key |-> Symbol(a, i), val |-> DataAt(a, i)]
<1>1. ArrLen(a) \in Nat
  BY ShapeIs DEF Arrays
<1>2. \A i \in 1..ArrLen(a) : [key |-> Symbol(a, i), val |-> DataAt(a, i)] \in Pair
  BY ReadIs DEF Pair
<1> QED BY <1>1, <1>2 DEF View

LEMMA ViewEq ==
  ASSUME NEW a \in Arrays, NEW s, NEW n \in Nat, s \in Seq(Pair), Len(s) = n, ArrLen(a) = n,
         \A i \in 1..n : s[i].key = Symbol(a, i) /\ s[i].val = DataAt(a, i)
  PROVE  View(a) = s
<1>1. \A i \in 1..n : s[i] = [key |-> Symbol(a, i), val |-> DataAt(a, i)]
  <2> SUFFICES ASSUME NEW i \in 1..n PROVE s[i] = [key |-> Symbol(a, i), val |-> DataAt(a, i)]
    OBVIOUS
  <2>1. s[i] \in Pair
    OBVIOUS
  <2> QED BY <2>1 DEF Pair
<1>2. s = [i \in 1..n |-> [key |-> Symbol(a, i), val |-> DataAt(a, i)]]
  BY <1>1
<1> QED BY <1>2 DEF View

\* An array that is not longer than a node has no node that moved.
LEMMA SmallTidy ==
  ASSUME NEW a \in Arrays, ArrLen(a) <= NodeGrowth
  PROVE  Tidy(a)
<1>1. ASSUME NEW b \in Buckets PROVE Len(a.keys[b]) <= NodeGrowth
  <2>1. Len(a.keys[b]) \in Nat /\ ArrLen(a) \in Nat /\ Len(a.keys[b]) <= ArrLen(a)
    BY ShapeIs DEF Arrays, Good, Short
  <2> QED BY <2>1, GrowthAssumption
<1> QED BY <1>1 DEF Tidy

LEMMA PairIs ==
  ASSUME NEW k \in Names \cup {NULL}, NEW v \in Contents
  PROVE  Abs!Element(k, v) \in Pair /\ Abs!Element(k, v).key = k /\ Abs!Element(k, v).val = v
BY DEF Abs!Element, Pair

LEMMA ViewAdd ==
  ASSUME NEW a, Tidy(a), NEW v \in Contents
  PROVE  View(AddToArray(a, v)) = Abs!PutLast(View(a), v)
<1>1. PICK t : t = AddToArray(a, v)
  OBVIOUS
<1>2. a \in Arrays /\ t \in Arrays
  BY <1>1, AddShows DEF Tidy
<1>3. PICK n \in Nat : n = ArrLen(a)
  BY <1>2, ViewIs
<1>4. PICK e : e = Abs!Element(NULL, v) /\ e \in Pair /\ e.key = NULL /\ e.val = v
  BY PairIs
<1>5. PICK s \in Seq(Pair) : s = View(a) /\ Len(s) = n
  BY <1>2, <1>3, ViewIs
<1>6. PICK u : u = Append(s, e)
  OBVIOUS
<1>7. u \in Seq(Pair) /\ Len(u) = n + 1 /\ u[n + 1] = e /\ \A i \in 1..n : u[i] = s[i]
  BY <1>4, <1>5, <1>6
<1>8. \A i \in 1..(n + 1) : u[i].key = Symbol(t, i) /\ u[i].val = DataAt(t, i)
  <2>1. \A i \in 1..n : s[i].key = Symbol(a, i) /\ s[i].val = DataAt(a, i)
    BY <1>2, <1>3, <1>5, ViewIs
  <2>2. /\ \A i \in 1..n : Symbol(t, i) = Symbol(a, i) /\ DataAt(t, i) = DataAt(a, i)
        /\ Symbol(t, n + 1) = NULL /\ DataAt(t, n + 1) = v
    BY <1>1, <1>3, AddShows
  <2>3. \A i \in 1..(n + 1) : i \in 1..n \/ i = n + 1
    OBVIOUS
  <2> QED BY <1>4, <1>7, <2>1, <2>2, <2>3
<1>9. ArrLen(t) = n + 1
  BY <1>1, <1>3, AddShows
<1>10. View(t) = u
  BY <1>2, <1>7, <1>8, <1>9, ViewEq
<1> QED BY <1>1, <1>4, <1>5, <1>6, <1>10 DEF Abs!PutLast

\* No place shows a key that is not found.
LEMMA PlacesOfKey ==
  ASSUME NEW a, Tidy(a), NEW k \in Names
  PROVE  Found(a.keys, k) <=> Abs!PlacesOf(View(a), k) # {}
<1>1. a \in Arrays
  BY DEF Tidy
<1>2. Abs!PlacesOf(View(a), k) = {i \in 1..ArrLen(a) : Symbol(a, i) = k}
  BY <1>1, ViewIs DEF Abs!PlacesOf
<1>3. Found(a.keys, k) => \E i \in 1..ArrLen(a) : Symbol(a, i) = k
  BY KeyHasPlace
<1>4. \A i \in 1..ArrLen(a) : Symbol(a, i) = k => Found(a.keys, k)
  BY KeyShown
<1> QED BY <1>2, <1>3, <1>4

LEMMA ViewKey ==
  ASSUME NEW a, Tidy(a), NEW k \in Names, NEW v \in Contents, ArrLen(AddToKeyArray(a, k, v)) <= NodeGrowth
  PROVE  View(AddToKeyArray(a, k, v)) = Abs!PutKey(View(a), k, v)
<1>1. PICK t : t = AddToKeyArray(a, k, v)
  OBVIOUS
<1>2. a \in Arrays /\ t \in Arrays /\ Tidy(t)
  BY <1>1, KeyAdded, SmallTidy DEF Tidy
<1>3. PICK n \in Nat : n = ArrLen(a)
  BY <1>2, ViewIs
<1>4. PICK e : e = Abs!Element(k, v) /\ e \in Pair /\ e.key = k /\ e.val = v
  BY PairIs
<1>5. PICK s \in Seq(Pair) : s = View(a) /\ Len(s) = n
  BY <1>2, <1>3, ViewIs
<1>6. \A i \in 1..n : s[i].key = Symbol(a, i) /\ s[i].val = DataAt(a, i)
  BY <1>2, <1>3, <1>5, ViewIs
<1>7. CASE ~Found(a.keys, k)
  <2>1. PICK u : u = Append(s, e)
    OBVIOUS
  <2>2. u \in Seq(Pair) /\ Len(u) = n + 1 /\ u[n + 1] = e /\ \A i \in 1..n : u[i] = s[i]
    BY <1>4, <1>5, <2>1
  <2>3. /\ ArrLen(t) = n + 1
        /\ \A i \in 1..n : Symbol(t, i) = Symbol(a, i) /\ DataAt(t, i) = DataAt(a, i)
        /\ Symbol(t, n + 1) = k /\ DataAt(t, n + 1) = v
    <3>1. \A b \in Buckets : Len(t.keys[b]) <= NodeGrowth
      BY <1>2 DEF Tidy
    <3> QED BY <1>1, <1>3, <1>7, <3>1, KeyNewShows
  <2>4. \A i \in 1..(n + 1) : u[i].key = Symbol(t, i) /\ u[i].val = DataAt(t, i)
    <3>1. \A i \in 1..(n + 1) : i \in 1..n \/ i = n + 1
      OBVIOUS
    <3> QED BY <1>4, <1>6, <2>2, <2>3, <3>1
  <2>5. View(t) = u
    BY <1>2, <2>2, <2>3, <2>4, ViewEq
  <2>6. Abs!PlacesOf(View(a), k) = {}
    BY <1>7, PlacesOfKey
  <2> QED BY <1>1, <1>4, <1>5, <2>1, <2>5, <2>6 DEF Abs!PutKey
<1>8. CASE Found(a.keys, k)
  <2>1. PICK u : u = [i \in 1..n |-> IF s[i].key = k THEN e ELSE s[i]]
    OBVIOUS
  <2>2. u \in Seq(Pair) /\ Len(u) = n /\ \A i \in 1..n : u[i] = IF s[i].key = k THEN e ELSE s[i]
    <3>1. \A i \in 1..n : s[i] \in Pair
      BY <1>5
    <3> QED BY <1>4, <2>1, <3>1
  <2>3. PICK i \in 1..n : /\ Symbol(a, i) = k
                          /\ \A j \in 1..n : /\ Symbol(t, j) = Symbol(a, j)
                                             /\ DataAt(t, j) = IF j = i THEN v ELSE DataAt(a, j)
    BY <1>1, <1>3, <1>8, KeyGivenShows
  <2>4. \A j \in 1..n : Symbol(a, j) = k => j = i
    BY <1>3, <2>3, KeysOnce, NullAssumption
  <2>5. \A j \in 1..n : u[j].key = Symbol(t, j) /\ u[j].val = DataAt(t, j)
    BY <1>4, <1>6, <2>2, <2>3, <2>4
  <2>6. ArrLen(t) = n
    BY <1>1, <1>3, <1>8, KeyGivenShows
  <2>7. View(t) = u
    BY <1>2, <2>2, <2>5, <2>6, ViewEq
  <2>8. Abs!PlacesOf(View(a), k) # {}
    BY <1>8, PlacesOfKey
  <2> QED BY <1>1, <1>4, <1>5, <2>1, <2>7, <2>8 DEF Abs!PutKey
<1> QED BY <1>7, <1>8

\* Assignments and unset.
LEMMA ViewDelete ==
  ASSUME NEW a, Tidy(a), NEW pos \in Int
  PROVE  Tidy(DeleteArray(a, pos)) /\ View(DeleteArray(a, pos)) = Abs!Unset(View(a), pos)
<1>1. a \in Arrays
  BY DEF Tidy
<1>2. PICK n \in Nat : n = ArrLen(a)
  BY <1>1, ViewIs
<1>3. PICK s \in Seq(Pair) : s = View(a) /\ Len(s) = n
  BY <1>1, <1>2, ViewIs
<1>4. PICK p \in Int : p = FromEnd(a, pos)
  BY <1>1, PosIs
<1>5. p = IF pos < 0 THEN Len(s) + pos ELSE pos
  BY <1>2, <1>3, <1>4 DEF FromEnd
<1>6. CASE p \in 0..(n - 1)
  <2>1. PICK i \in 1..n : i = p + 1
    BY <1>6
  <2>2. PICK t : t = DeleteArray(a, pos)
    OBVIOUS
  <2>3. t = Write(a, i, Void)
    BY <1>2, <1>4, <1>6, <2>1, <2>2 DEF DeleteArray, InBounds
  <2>4. /\ Tidy(t) /\ ArrLen(t) = n
        /\ \A j \in 1..n : Symbol(t, j) = Symbol(a, j) /\ DataAt(t, j) = IF j = i THEN Void ELSE DataAt(a, j)
    <3>1. Void \in Contents
      BY DataAssumption DEF Contents
    <3> QED BY <1>2, <2>3, <3>1, WriteShows
  <2>5. PICK e : e = [s[i] EXCEPT !.val = Void]
    OBVIOUS
  <2>6. e \in Pair /\ e.key = s[i].key /\ e.val = Void
    <3>1. s[i] \in Pair
      BY <1>3
    <3> QED BY <2>5, <3>1, DataAssumption DEF Pair, Contents
  <2>7. PICK u : u = [s EXCEPT ![i] = e]
    OBVIOUS
  <2>8. u \in Seq(Pair) /\ Len(u) = n /\ \A j \in 1..n : u[j] = IF j = i THEN e ELSE s[j]
    BY <1>3, <2>6, <2>7, Replaced
  <2>9. \A j \in 1..n : s[j].key = Symbol(a, j) /\ s[j].val = DataAt(a, j)
    BY <1>1, <1>2, <1>3, ViewIs
  <2>10. \A j \in 1..n : u[j].key = Symbol(t, j) /\ u[j].val = DataAt(t, j)
    BY <2>4, <2>6, <2>8, <2>9
  <2>11. View(t) = u
    <3>1. t \in Arrays
      BY <2>4 DEF Tidy
    <3> QED BY <2>4, <2>8, <2>10, <3>1, ViewEq
  <2>12. Abs!Unset(s, pos) = u
    BY <1>3, <1>5, <1>6, <2>1, <2>5, <2>7 DEF Abs!Unset
  <2> QED BY <1>3, <2>2, <2>4, <2>11, <2>12
<1>7. CASE p \notin 0..(n - 1)
  <2>1. DeleteArray(a, pos) = a
    BY <1>2, <1>4, <1>7 DEF DeleteArray, InBounds
  <2>2. Abs!Unset(s, pos) = s
    BY <1>3, <1>5, <1>7 DEF Abs!Unset
  <2> QED BY <1>3, <2>1, <2>2
<1> QED BY <1>6, <1>7

LEMMA SetShows ==
  ASSUME NEW a, Tidy(a), NEW pos \in Int, NEW v \in Contents, NEW n \in Nat, n = ArrLen(a),
         NEW q \in Nat \ {0}, q = ClampedPos(a, pos) + 1, NEW m \in Nat, m = IF q > n THEN q ELSE n,
         NEW t, t = SetArray(a, pos, v)
  PROVE  /\ Tidy(t) /\ ArrLen(t) = m
         /\ \A i \in 1..m : /\ Symbol(t, i) = IF i <= n THEN Symbol(a, i) ELSE NULL
                            /\ DataAt(t, i) = IF i = q THEN v ELSE IF i <= n THEN DataAt(a, i) ELSE Void
<1>1. PICK p \in Nat : p = ClampedPos(a, pos) /\ q = p + 1
  <2>1. ClampedPos(a, pos) \in Nat
    BY PosIs DEF Tidy
  <2> QED BY <2>1
<1>2. CASE p >= n
  <2>1. PICK f : f = Filled(a, p)
    OBVIOUS
  <2>2. /\ Tidy(f) /\ ArrLen(f) = p
        /\ \A i \in 1..n : Symbol(f, i) = Symbol(a, i) /\ DataAt(f, i) = DataAt(a, i)
        /\ \A i \in (n + 1)..p : Symbol(f, i) = NULL /\ DataAt(f, i) = Void
    BY <1>2, <2>1, FilledShows
  <2>3. t = AddToArray(f, v)
    BY <1>1, <1>2, <2>1 DEF SetArray
  <2>4. /\ Tidy(t) /\ ArrLen(t) = p + 1
        /\ \A i \in 1..p : Symbol(t, i) = Symbol(f, i) /\ DataAt(t, i) = DataAt(f, i)
        /\ Symbol(t, p + 1) = NULL /\ DataAt(t, p + 1) = v
    BY <2>2, <2>3, AddShows
  <2>5. m = p + 1 /\ \A i \in 1..m : i = q \/ i \in 1..n \/ i \in (n + 1)..p
    BY <1>1, <1>2
  <2>6. \A i \in 1..n : i \in 1..p /\ i # q /\ i <= n
    BY <1>1, <1>2
  <2>7. \A i \in (n + 1)..p : i \in 1..p /\ i # q /\ ~(i <= n)
    BY <1>1, <1>2
  <2>8. ~(q <= n)
    BY <1>1, <1>2
  <2> QED BY <1>1, <2>2, <2>4, <2>5, <2>6, <2>7, <2>8
<1>3. CASE ~(p >= n)
  <2>1. t = Write(a, q, v) /\ q \in 1..n /\ m = n
    BY <1>1, <1>3 DEF SetArray
  <2>2. /\ Tidy(t) /\ ArrLen(t) = n
        /\ \A j \in 1..n : Symbol(t, j) = Symbol(a, j) /\ DataAt(t, j) = IF j = q THEN v ELSE DataAt(a, j)
    BY <2>1, WriteShows
  <2> QED BY <2>1, <2>2
<1> QED BY <1>2, <1>3

LEMMA ViewSet ==
  ASSUME NEW a, Tidy(a), NEW pos \in Int, NEW v \in Contents
  PROVE  Tidy(SetArray(a, pos, v)) /\ View(SetArray(a, pos, v)) = Abs!PutAt(View(a), pos, v)
<1>1. a \in Arrays
  BY DEF Tidy
<1>2. PICK n \in Nat : n = ArrLen(a)
  BY <1>1, ViewIs
<1>3. PICK s \in Seq(Pair) : s = View(a) /\ Len(s) = n
  BY <1>1, <1>2, ViewIs
<1>4. PICK q \in Nat \ {0} : q = ClampedPos(a, pos) + 1
  <2>1. ClampedPos(a, pos) \in Nat
    BY <1>1, PosIs
  <2> QED BY <2>1
<1>5. Abs!Place(s, pos) = q
  BY <1>2, <1>3, <1>4 DEF Abs!Place, ClampedPos, FromEnd
<1>6. PICK m \in Nat : m = IF q > n THEN q ELSE n
  OBVIOUS
<1>7. PICK t : t = SetArray(a, pos, v)
  OBVIOUS
<1>8. /\ Tidy(t) /\ ArrLen(t) = m
      /\ \A i \in 1..m : /\ Symbol(t, i) = IF i <= n THEN Symbol(a, i) ELSE NULL
                         /\ DataAt(t, i) = IF i = q THEN v ELSE IF i <= n THEN DataAt(a, i) ELSE Void
  BY <1>2, <1>4, <1>6, <1>7, SetShows
<1> DEFINE E(i) == IF i = q THEN Abs!Element(IF i <= n THEN s[i].key ELSE NULL, v)
                   ELSE IF i <= n THEN s[i] ELSE Abs!Element(NULL, Void)
<1>9. \A i \in 1..m : /\ E(i) \in Pair
                      /\ E(i).key = (IF i <= n THEN s[i].key ELSE NULL)
                      /\ E(i).val = IF i = q THEN v ELSE IF i <= n THEN s[i].val ELSE Void
  <2> SUFFICES ASSUME NEW i \in 1..m
               PROVE  /\ E(i) \in Pair /\ E(i).key = (IF i <= n THEN s[i].key ELSE NULL)
                      /\ E(i).val = IF i = q THEN v ELSE IF i <= n THEN s[i].val ELSE Void
    OBVIOUS
  <2>1. i <= n => s[i] \in Pair /\ s[i].key \in Names \cup {NULL} /\ s[i].val \in Contents
    <3>1. i <= n => i \in 1..Len(s)
      BY <1>3
    <3>2. i <= n => s[i] \in Pair
      BY <3>1
    <3> QED BY <3>2 DEF Pair
  <2>2. Void \in Contents
    BY DataAssumption DEF Contents
  <2>3. PICK k \in Names \cup {NULL} : k = IF i <= n THEN s[i].key ELSE NULL
    BY <2>1
  <2>4. Abs!Element(k, v) \in Pair /\ Abs!Element(k, v).key = k /\ Abs!Element(k, v).val = v
    BY PairIs
  <2>5. Abs!Element(NULL, Void) \in Pair /\ Abs!Element(NULL, Void).key = NULL /\ Abs!Element(NULL, Void).val = Void
    BY <2>2, PairIs
  <2> QED BY <2>1, <2>3, <2>4, <2>5
<1>10. Abs!PutAt(s, pos, v) = [i \in 1..m |-> E(i)]
  BY <1>3, <1>5, <1>6 DEF Abs!PutAt
<1> HIDE DEF E
<1>11. PICK u : u = [i \in 1..m |-> E(i)]
  OBVIOUS
<1>12. u \in Seq(Pair) /\ Len(u) = m /\ \A i \in 1..m : u[i] = E(i)
  BY <1>9, <1>11
<1>13. \A i \in 1..n : s[i].key = Symbol(a, i) /\ s[i].val = DataAt(a, i)
  BY <1>1, <1>2, <1>3, ViewIs
<1>14. \A i \in 1..m : u[i].key = Symbol(t, i) /\ u[i].val = DataAt(t, i)
  <2> SUFFICES ASSUME NEW i \in 1..m PROVE u[i].key = Symbol(t, i) /\ u[i].val = DataAt(t, i)
    OBVIOUS
  <2>1. i <= n => i \in 1..n
    OBVIOUS
  <2> QED BY <1>8, <1>9, <1>12, <1>13, <2>1
<1>15. View(t) = u
  <2>1. t \in Arrays
    BY <1>8 DEF Tidy
  <2> QED BY <1>8, <1>12, <1>14, <2>1, ViewEq
<1> QED BY <1>3, <1>7, <1>8, <1>10, <1>11, <1>15

\* No assignment makes an array shorter.
LEMMA StoreLength ==
  ASSUME NEW a \in Arrays, NEW w \in Wheres \cup {[by |-> "end"]}, NEW v \in Contents
  PROVE  ArrLen(a) <= ArrLen(Store(a, w, v)) /\ ArrLen(Store(a, w, v)) \in Nat
<1>1. ArrLen(a) \in Nat /\ Store(a, w, v) \in Arrays /\ ArrLen(Store(a, w, v)) \in Nat
  BY StoreIsGood, ViewIs
<1>2. CASE w = [by |-> "end"]
  BY <1>1, <1>2, HeapAdded DEF Store
<1>3. CASE \E k \in Names : w = [by |-> "key", key |-> k]
  BY <1>1, <1>3, KeyAdded DEF Store
<1>4. CASE \E p \in Positions : w = [by |-> "pos", pos |-> p]
  <2>1. PICK p \in Positions : w = [by |-> "pos", pos |-> p]
    BY <1>4
  <2>2. p \in Int
    BY GrowthAssumption DEF Positions
  <2>3. Store(a, w, v) = SetArray(a, p, v)
    BY <2>1 DEF Store
  <2>4. ClampedPos(a, p) \in Nat
    BY <2>2, PosIs
  <2>5. CASE ClampedPos(a, p) >= ArrLen(a)
    <3>1. PICK f : f = Filled(a, ClampedPos(a, p))
      OBVIOUS
    <3>2. f \in Arrays /\ ArrLen(f) = ClampedPos(a, p)
      BY <2>4, <2>5, <3>1, FilledIs
    <3>3. SetArray(a, p, v) = AddToArray(f, v)
      BY <2>5, <3>1 DEF SetArray
    <3>4. ArrLen(AddToArray(f, v)) = ArrLen(f) + 1
      BY <3>2, HeapAdded
    <3> QED BY <1>1, <2>3, <2>4, <2>5, <3>2, <3>3, <3>4
  <2>6. CASE ~(ClampedPos(a, p) >= ArrLen(a))
    <3>1. SetArray(a, p, v) = Write(a, ClampedPos(a, p) + 1, v) /\ ClampedPos(a, p) + 1 \in 1..ArrLen(a)
      BY <1>1, <2>4, <2>6 DEF SetArray
    <3>2. ArrLen(Write(a, ClampedPos(a, p) + 1, v)) = ArrLen(a)
      BY <3>1, WriteIsGood
    <3> QED BY <1>1, <2>3, <3>1, <3>2
  <2> QED BY <2>5, <2>6
<1> QED BY <1>2, <1>3, <1>4 DEF Wheres

LEMMA ViewStore ==
  ASSUME NEW a, Tidy(a), NEW w \in Wheres \cup {[by |-> "end"]}, NEW v \in Contents,
         ArrLen(Store(a, w, v)) <= NodeGrowth
  PROVE  View(Store(a, w, v)) = Abs!Put(View(a), w, v)
<1>1. CASE w = [by |-> "end"]
  BY <1>1, ViewAdd DEF Store, Abs!Put
<1>2. CASE \E k \in Names : w = [by |-> "key", key |-> k]
  <2>1. PICK k \in Names : w = [by |-> "key", key |-> k]
    BY <1>2
  <2>2. Store(a, w, v) = AddToKeyArray(a, k, v) /\ Abs!Put(View(a), w, v) = Abs!PutKey(View(a), k, v)
    BY <2>1 DEF Store, Abs!Put
  <2> QED BY <2>2, ViewKey
<1>3. CASE \E p \in Positions : w = [by |-> "pos", pos |-> p]
  <2>1. PICK p \in Positions : w = [by |-> "pos", pos |-> p]
    BY <1>3
  <2>2. Store(a, w, v) = SetArray(a, p, v) /\ Abs!Put(View(a), w, v) = Abs!PutAt(View(a), p, v)
    BY <2>1 DEF Store, Abs!Put
  <2>3. p \in Int
    BY GrowthAssumption DEF Positions
  <2> QED BY <2>2, <2>3, ViewSet
<1> QED BY <1>1, <1>2, <1>3 DEF Wheres

Shows(a, s, k) == ArrLen(a) = k /\ \A i \in 1..k : Symbol(a, i) = s[i].symbol /\ DataAt(a, i) = s[i].data
KeysDiffer(s)  == \A i, j \in 1..Len(s) : s[i].symbol = s[j].symbol /\ s[i].symbol # NULL => i = j

\* A copied element whose key no place shows goes to the end.
LEMMA CopyAddedShows ==
  ASSUME NEW a, Tidy(a), NEW e \in Elem, ArrLen(a) < NodeGrowth, NEW t, t = AddCopy(a, e),
         e.symbol # NULL => \A i \in 1..ArrLen(a) : Symbol(a, i) # e.symbol
  PROVE  /\ Tidy(t) /\ ArrLen(t) = ArrLen(a) + 1
         /\ \A i \in 1..ArrLen(a) : Symbol(t, i) = Symbol(a, i) /\ DataAt(t, i) = DataAt(a, i)
         /\ Symbol(t, ArrLen(a) + 1) = e.symbol /\ DataAt(t, ArrLen(a) + 1) = e.data
<1>1. e.data \in Contents /\ e.symbol \in Names \cup {NULL}
  BY DEF Elem
<1>2. CASE e.symbol = NULL
  <2>1. t = AddToArray(a, e.data)
    BY <1>2 DEF AddCopy
  <2> QED BY <1>1, <1>2, <2>1, AddShows
<1>3. CASE e.symbol # NULL
  <2>1. PICK k \in Names : k = e.symbol
    BY <1>1, <1>3
  <2>2. t = AddToKeyArray(a, k, e.data)
    BY <1>3, <2>1 DEF AddCopy
  <2>3. ~Found(a.keys, k)
    <3>1. Found(a.keys, k) => \E i \in 1..ArrLen(a) : Symbol(a, i) = k
      BY KeyHasPlace
    <3> QED BY <1>3, <2>1, <3>1
  <2>4. a \in Arrays /\ t \in Arrays /\ ArrLen(t) = ArrLen(a) + 1 /\ ArrLen(a) \in Nat
    <3>1. a \in Arrays
      BY DEF Tidy
    <3> QED BY <1>1, <2>2, <2>3, <3>1, KeyNew, ViewIs
  <2>5. \A b \in Buckets : Len(t.keys[b]) <= NodeGrowth
    <3>1. ArrLen(t) <= NodeGrowth
      BY <2>4, GrowthAssumption
    <3> QED BY <2>4, <3>1, SmallTidy DEF Tidy
  <2> QED BY <1>1, <2>1, <2>2, <2>3, <2>5, KeyNewShows
<1> QED BY <1>2, <1>3

\* What is built of elements with different keys shows them in their order.
LEMMA EmptyShows == Tidy(EmptyArray) /\ ArrLen(EmptyArray) = 0 /\ View(EmptyArray) = <<>>
<1>1. ArrLen(EmptyArray) = 0
  BY DEF EmptyArray, ArrLen
<1>2. Tidy(EmptyArray)
  BY <1>1, EmptyIsGood, SmallTidy, GrowthAssumption
<1> QED BY <1>1, <1>2 DEF View

LEMMA BuildShows ==
  ASSUME NEW s \in Seq(Elem), KeysDiffer(s), Len(s) <= NodeGrowth
  PROVE  Tidy(Build(s)) /\ Shows(Build(s), s, Len(s))
<1>1. PICK f \in [0..Len(s) -> Arrays] :
        /\ f[0] = EmptyArray /\ f[Len(s)] = Build(s)
        /\ \A k \in 1..Len(s) : f[k] = AddCopy(f[k - 1], s[k])
  BY BuildSteps
<1>2. PICK n \in Nat : n = Len(s)
  OBVIOUS
<1> DEFINE T == {k \in Nat : k <= n => Tidy(f[k]) /\ Shows(f[k], s, k)}
<1>3. 0 \in T
  BY <1>1, EmptyShows DEF Shows
<1>4. ASSUME NEW k \in Nat, k \in T PROVE k + 1 \in T
  <2> SUFFICES ASSUME k + 1 <= n PROVE Tidy(f[k + 1]) /\ Shows(f[k + 1], s, k + 1)
    OBVIOUS
  <2>1. PICK a \in Arrays, e \in Elem, t \in Arrays : a = f[k] /\ e = s[k + 1] /\ t = f[k + 1]
    BY <1>1, <1>2
  <2>2. t = AddCopy(a, e)
    BY <1>1, <1>2, <2>1
  <2>3. Tidy(a) /\ ArrLen(a) = k /\ \A i \in 1..k : Symbol(a, i) = s[i].symbol /\ DataAt(a, i) = s[i].data
    BY <1>4, <2>1 DEF Shows
  <2>4. e.symbol # NULL => \A i \in 1..k : Symbol(a, i) # e.symbol
    BY <1>2, <2>1, <2>3 DEF KeysDiffer
  <2>5. /\ Tidy(t) /\ ArrLen(t) = k + 1
        /\ \A i \in 1..k : Symbol(t, i) = Symbol(a, i) /\ DataAt(t, i) = DataAt(a, i)
        /\ Symbol(t, k + 1) = e.symbol /\ DataAt(t, k + 1) = e.data
    <3>1. k < NodeGrowth
      BY <1>2, GrowthAssumption
    <3> QED BY <2>2, <2>3, <2>4, <3>1, CopyAddedShows
  <2>6. \A i \in 1..(k + 1) : i \in 1..k \/ i = k + 1
    OBVIOUS
  <2> QED BY <2>1, <2>3, <2>5, <2>6 DEF Shows
<1> HIDE DEF T
<1>5. n \in T
  BY <1>3, <1>4, AllNumbers
<1> QED BY <1>1, <1>2, <1>5 DEF T

\* The elements of an array have different keys.
LEMMA ElemIs ==
  ASSUME NEW a \in Arrays
  PROVE  /\ Elems(a) \in Seq(Elem) /\ Len(Elems(a)) = ArrLen(a) /\ ArrLen(a) \in Nat
         /\ \A i \in 1..ArrLen(a) : Elems(a)[i].symbol = Symbol(a, i) /\ Elems(a)[i].data = DataAt(a, i)
BY ElemsAre, ViewIs DEF Elems

LEMMA ElemsDiffer ==
  ASSUME NEW a, Tidy(a)
  PROVE  KeysDiffer(Elems(a))
<1>1. a \in Arrays
  BY DEF Tidy
<1> QED BY <1>1, ElemIs, KeysOnce DEF KeysDiffer

\* A copy shows what the array shows.
LEMMA CopyShows ==
  ASSUME NEW a, Tidy(a), ArrLen(a) <= NodeGrowth
  PROVE  Tidy(CopyArray(a)) /\ ArrLen(CopyArray(a)) = ArrLen(a) /\ View(CopyArray(a)) = View(a)
<1>1. a \in Arrays
  BY DEF Tidy
<1>2. PICK n \in Nat : n = ArrLen(a)
  BY <1>1, ViewIs
<1>3. PICK t : t = CopyArray(a)
  OBVIOUS
<1>4. Tidy(t) /\ Shows(t, Elems(a), n)
  BY <1>1, <1>2, <1>3, ElemIs, ElemsDiffer, BuildShows DEF CopyArray
<1>5. t \in Arrays /\ ArrLen(t) = n
  BY <1>4 DEF Tidy, Shows
<1>6. View(a) \in Seq(Pair) /\ Len(View(a)) = n
  BY <1>1, <1>2, ViewIs
<1>7. \A i \in 1..n : View(a)[i].key = Symbol(t, i) /\ View(a)[i].val = DataAt(t, i)
  <2>1. \A i \in 1..n : View(a)[i].key = Symbol(a, i) /\ View(a)[i].val = DataAt(a, i)
    BY <1>1, <1>2, ViewIs
  <2>2. \A i \in 1..n : Elems(a)[i].symbol = Symbol(a, i) /\ Elems(a)[i].data = DataAt(a, i)
    BY <1>1, <1>2, ElemIs
  <2>3. \A i \in 1..n : Symbol(t, i) = Elems(a)[i].symbol /\ DataAt(t, i) = Elems(a)[i].data
    BY <1>4 DEF Shows
  <2> QED BY <2>1, <2>2, <2>3
<1>8. View(t) = View(a)
  BY <1>5, <1>6, <1>7, ViewEq
<1> QED BY <1>2, <1>3, <1>4, <1>5, <1>8

\* The variable and its copies.
LEMMA KeptTidy ==
  ASSUME Kept, MaxLen <= NodeGrowth
  PROVE  Tidy(arr) /\ ArrLen(arr) \in Nat /\ ArrLen(arr) <= NodeGrowth
<1>1. arr \in Arrays /\ ArrLen(arr) \in Nat /\ ArrLen(arr) <= MaxLen
  BY ViewIs DEF Kept
<1>2. ArrLen(arr) <= NodeGrowth
  BY <1>1, GrowthAssumption
<1> QED BY <1>1, <1>2, SmallTidy

LEMMA ArgShows ==
  ASSUME Kept, MaxLen <= NodeGrowth
  PROVE  Tidy(Arg) /\ View(Arg) = View(arr) /\ ArrLen(Arg) = ArrLen(arr)
BY KeptTidy, CopyShows DEF Arg

\* elems is what the variable shows.
LEMMA ElemsShown == elems = View(arr)
BY DEF elems, View

\* An assignment shows what was assigned.
LEMMA AssignedShows ==
  ASSUME MaxLen <= NodeGrowth, NEW a \in Arrays, Assigned(a)
  PROVE  elems' = View(a) /\ Tidy(a) /\ ArrLen(a) <= NodeGrowth
<1>1. ArrLen(a) <= MaxLen /\ arr' = CopyArray(a) /\ ArrLen(a) \in Nat
  BY ViewIs DEF Assigned
<1>2. ArrLen(a) <= NodeGrowth
  BY <1>1, GrowthAssumption
<1>3. Tidy(a)
  BY <1>2, SmallTidy
<1>4. View(CopyArray(a)) = View(a)
  BY <1>2, <1>3, CopyShows
<1>5. elems' = View(arr')
  BY DEF elems, View
<1> QED BY <1>1, <1>2, <1>3, <1>4, <1>5

\* The calls of ValueArray and those of OrderedMap, one lemma for each.
LEMMA StoreMatches ==
  ASSUME Kept, MaxLen <= NodeGrowth, NEW w \in Wheres, NEW v \in Data, StoreAt(w, v)
  PROVE  elems' = Abs!Put(elems, w, v)
<1>1. Tidy(arr) /\ arr \in Arrays
  BY KeptTidy DEF Kept
<1>2. arr' = Store(arr, w, v) /\ ArrLen(arr') <= MaxLen
  BY DEF StoreAt
<1>3. v \in Contents
  BY DEF Contents
<1>4. ArrLen(Store(arr, w, v)) <= NodeGrowth
  <2>1. ArrLen(Store(arr, w, v)) \in Nat
    BY <1>1, <1>3, StoreLength
  <2> QED BY <1>2, <2>1, GrowthAssumption
<1>5. View(Store(arr, w, v)) = Abs!Put(View(arr), w, v)
  BY <1>1, <1>3, <1>4, ViewStore
<1>6. elems' = View(arr')
  BY DEF elems, View
<1> QED BY <1>2, <1>5, <1>6, ElemsShown

LEMMA UnsetMatches ==
  ASSUME Kept, MaxLen <= NodeGrowth, NEW p \in Positions, Unset(p)
  PROVE  elems' = Abs!Unset(elems, p)
<1>1. p \in Int
  BY GrowthAssumption DEF Positions
<1>2. Tidy(Arg) /\ View(Arg) = View(arr)
  BY ArgShows
<1>3. Assigned(DeleteArray(Arg, p))
  BY DEF Unset
<1>4. Tidy(DeleteArray(Arg, p)) /\ View(DeleteArray(Arg, p)) = Abs!Unset(View(Arg), p)
  BY <1>1, <1>2, ViewDelete
<1>5. elems' = View(DeleteArray(Arg, p))
  BY <1>3, <1>4, AssignedShows DEF Tidy
<1> QED BY <1>2, <1>4, <1>5, ElemsShown

LEMMA CopiedMatches ==
  ASSUME Kept, MaxLen <= NodeGrowth, Copied
  PROVE  elems' = elems
BY AssignedShows, ElemsShown DEF Kept, Copied

\* The elements from the last to the first.
LEMMA ReverseShows ==
  ASSUME NEW a, Tidy(a), ArrLen(a) <= NodeGrowth
  PROVE  Tidy(ArrayReverse(a)) /\ View(ArrayReverse(a)) = Reverse(View(a))
<1>1. a \in Arrays
  BY DEF Tidy
<1>2. PICK n \in Nat : n = ArrLen(a)
  BY <1>1, ViewIs
<1>3. PICK s \in Seq(Elem) : s = Elems(a) /\ Len(s) = n
  BY <1>1, <1>2, ElemIs
<1>4. PICK r : r = Reverse(s)
  OBVIOUS
<1>5. r \in Seq(Elem) /\ Len(r) = n /\ \A i \in 1..n : n - i + 1 \in 1..n /\ r[i] = s[n - i + 1]
  <2>1. \A i \in 1..n : n - i + 1 \in 1..n
    OBVIOUS
  <2>2. r = [i \in 1..n |-> s[(n - i) + 1]]
    BY <1>3, <1>4 DEF Reverse
  <2>3. \A i \in 1..n : s[n - i + 1] \in Elem
    BY <1>3, <2>1
  <2> QED BY <2>1, <2>2, <2>3
<1>6. KeysDiffer(r)
  <2>1. KeysDiffer(s)
    BY <1>3, ElemsDiffer
  <2> SUFFICES ASSUME NEW i \in 1..n, NEW j \in 1..n, r[i].symbol = r[j].symbol, r[i].symbol # NULL
               PROVE  i = j
    BY <1>5 DEF KeysDiffer
  <2>2. n - i + 1 = n - j + 1
    BY <1>3, <1>5, <2>1 DEF KeysDiffer
  <2> QED BY <2>2
<1>7. PICK t : t = ArrayReverse(a)
  OBVIOUS
<1>8. t = Build(r)
  BY <1>3, <1>4, <1>7 DEF ArrayReverse
<1>9. Tidy(t) /\ Shows(t, r, n)
  BY <1>2, <1>5, <1>6, <1>8, BuildShows
<1>10. t \in Arrays /\ ArrLen(t) = n
  BY <1>9 DEF Tidy, Shows
<1>11. PICK w \in Seq(Pair) : w = View(a) /\ Len(w) = n
  BY <1>1, <1>2, ViewIs
<1>12. PICK u : u = Reverse(w)
  OBVIOUS
<1>13. u \in Seq(Pair) /\ Len(u) = n /\ \A i \in 1..n : u[i] = w[n - i + 1]
  <2>1. \A i \in 1..n : n - i + 1 \in 1..n
    OBVIOUS
  <2>2. u = [i \in 1..n |-> w[(n - i) + 1]]
    BY <1>11, <1>12 DEF Reverse
  <2>3. \A i \in 1..n : w[n - i + 1] \in Pair
    BY <1>11, <2>1
  <2> QED BY <2>1, <2>2, <2>3
<1>14. \A i \in 1..n : u[i].key = Symbol(t, i) /\ u[i].val = DataAt(t, i)
  <2> SUFFICES ASSUME NEW i \in 1..n PROVE u[i].key = Symbol(t, i) /\ u[i].val = DataAt(t, i)
    OBVIOUS
  <2>1. PICK j \in 1..n : j = n - i + 1
    BY <1>5
  <2>2. u[i] = w[j] /\ r[i] = s[j]
    BY <1>5, <1>13, <2>1
  <2>3. w[j].key = Symbol(a, j) /\ w[j].val = DataAt(a, j)
    BY <1>1, <1>2, <1>11, ViewIs
  <2>4. s[j].symbol = Symbol(a, j) /\ s[j].data = DataAt(a, j)
    BY <1>1, <1>2, <1>3, ElemIs
  <2>5. Symbol(t, i) = r[i].symbol /\ DataAt(t, i) = r[i].data
    BY <1>9 DEF Shows
  <2> QED BY <2>2, <2>3, <2>4, <2>5
<1>15. View(t) = u
  BY <1>10, <1>13, <1>14, ViewEq
<1> QED BY <1>7, <1>9, <1>11, <1>12, <1>15

LEMMA TurnMatches ==
  ASSUME Kept, MaxLen <= NodeGrowth, TurnAround
  PROVE  elems' = Reverse(elems)
<1>1. Tidy(Arg) /\ View(Arg) = View(arr) /\ ArrLen(Arg) <= NodeGrowth
  BY ArgShows, KeptTidy
<1>2. Tidy(ArrayReverse(Arg)) /\ View(ArrayReverse(Arg)) = Reverse(View(Arg))
  BY <1>1, ReverseShows
<1>3. elems' = View(ArrayReverse(Arg))
  BY <1>2, AssignedShows DEF TurnAround, Tidy
<1> QED BY <1>1, <1>2, <1>3, ElemsShown

\* Moving the pointers moves what they show.
LEMMA MovedShows ==
  ASSUME NEW a, Tidy(a), NEW n \in Nat, n = ArrLen(a), NEW p \in Bijection(1..n, 1..n), NEW t,
         t = [a EXCEPT !.values = [i \in 1..n |-> a.values[p[i]]]]
  PROVE  /\ Tidy(t) /\ ArrLen(t) = n
         /\ \A i \in 1..n : p[i] \in 1..n /\ Symbol(t, i) = Symbol(a, p[i]) /\ DataAt(t, i) = DataAt(a, p[i])
<1>1. a \in Arrays /\ a \in Shaped
  BY DEF Tidy, Arrays
<1>2. PICK V : V = [i \in 1..n |-> a.values[p[i]]]
  OBVIOUS
<1>3. p \in [1..n -> 1..n]
  BY DEF Bijection, Injection
<1>4. t.keys = a.keys /\ t.base = a.base /\ t.values = V
  BY <1>1, <1>2 DEF Shaped
<1>5. t \in Arrays
  BY <1>1, MovedIsGood
<1>6. ArrLen(t) = n /\ \A i \in 1..n : t.values[i] = a.values[p[i]]
  BY <1>2, <1>4 DEF ArrLen
<1>7. Tidy(t)
  BY <1>4, <1>5 DEF Tidy
<1>8. ASSUME NEW i \in 1..n PROVE Symbol(t, i) = Symbol(a, p[i]) /\ DataAt(t, i) = DataAt(a, p[i])
  <2>1. Read(t, t.values[i]) = Read(a, a.values[p[i]])
    BY <1>4, <1>6 DEF Read, Fresh
  <2> QED BY <2>1 DEF Symbol, DataAt
<1> QED BY <1>3, <1>6, <1>7, <1>8

\* The elements are those of the argument, in the order of their values.
LEMMA SortMatches ==
  ASSUME Kept, MaxLen <= NodeGrowth, Sort
  PROVE  elems' \in Abs!Rearranged(elems) /\ Abs!InOrder(elems')
<1>1. Tidy(Arg) /\ View(Arg) = View(arr) /\ ArrLen(Arg) <= NodeGrowth /\ Arg \in Arrays
  BY ArgShows, KeptTidy DEF Tidy
<1>2. PICK a : a = Arg
  OBVIOUS
<1>3. PICK n \in Nat : n = ArrLen(a)
  BY <1>1, <1>2, ViewIs
<1>4. PICK s \in ArraySort(a) : Assigned(s)
  BY <1>2 DEF Sort
<1> DEFINE M(p) == [a EXCEPT !.values = [i \in 1..n |-> a.values[p[i]]]]
<1>4a. PICK p \in Bijection(1..n, 1..n) : Sorted(M(p)) /\ s = CopyArray(M(p))
  BY <1>3, <1>4 DEF ArraySort
<1>5. PICK t : t = M(p) /\ Sorted(t) /\ s = CopyArray(t)
  BY <1>4a
<1>6. /\ Tidy(t) /\ ArrLen(t) = n
      /\ \A i \in 1..n : p[i] \in 1..n /\ Symbol(t, i) = Symbol(a, p[i]) /\ DataAt(t, i) = DataAt(a, p[i])
  BY <1>1, <1>2, <1>3, <1>5, MovedShows
<1>7. Tidy(s) /\ View(s) = View(t)
  BY <1>1, <1>2, <1>3, <1>5, <1>6, CopyShows
<1>8. elems' = View(t)
  BY <1>4, <1>7, AssignedShows DEF Tidy
<1>9. PICK u \in Seq(Pair) : u = View(a) /\ Len(u) = n /\ u = elems
  BY <1>1, <1>2, <1>3, ViewIs, ElemsShown
<1>10. \A i \in 1..n : u[i] = [key |-> Symbol(a, i), val |-> DataAt(a, i)]
  BY <1>1, <1>2, <1>3, <1>9, ViewIs
<1>11. PICK w : w = View(t)
  OBVIOUS
<1>12. w = [i \in 1..n |-> [key |-> Symbol(t, i), val |-> DataAt(t, i)]]
  BY <1>6, <1>11 DEF View
<1>13. w = [i \in 1..n |-> u[p[i]]]
  BY <1>6, <1>10, <1>12
<1>14. w \in Abs!Rearranged(u)
  <2>1. p \in Abs!Bijection(1..n, 1..n)
    BY DEF Bijection, Injection, Surjection, IsInjective, Abs!Bijection, Abs!Injection, Abs!Surjection, Abs!IsInjective
  <2> QED BY <1>9, <1>13, <2>1 DEF Abs!Rearranged
<1>15. Abs!InOrder(w)
  <2>1. Len(w) = n /\ \A i \in 1..n : w[i].val = DataAt(t, i)
    BY <1>12
  <2>2. SUFFICES ASSUME \A i \in 1..n : w[i].val # Void, NEW i \in 1..(n - 1)
                 PROVE  Rank[w[i].val] <= Rank[w[i + 1].val]
    BY <2>1 DEF Abs!InOrder
  <2>3. \A j \in 1..n : DataAt(t, j) # Void
    BY <2>1, <2>2
  <2>4. Rank[DataAt(t, i)] <= Rank[DataAt(t, i + 1)]
    BY <1>5, <1>6, <2>3 DEF Sorted
  <2>5. i \in 1..n /\ i + 1 \in 1..n
    OBVIOUS
  <2> QED BY <2>1, <2>4, <2>5
<1> QED BY <1>8, <1>9, <1>11, <1>14, <1>15

\* A list of values shows them, without keys.
LEMMA ListShows ==
  ASSUME NEW s \in Seq(Contents)
  PROVE  Tidy(ListOf(s)) /\ ArrLen(ListOf(s)) = Len(s) /\ View(ListOf(s)) = Abs!List(s)
<1>1. PICK f \in [0..Len(s) -> Arrays] :
        /\ f[0] = EmptyArray /\ f[Len(s)] = ListOf(s)
        /\ \A k \in 1..Len(s) : f[k] = AddToArray(f[k - 1], s[k])
  BY ListSteps
<1>2. PICK n \in Nat : n = Len(s)
  OBVIOUS
<1> DEFINE T == {k \in Nat : k <= n =>
                   /\ Tidy(f[k]) /\ ArrLen(f[k]) = k
                   /\ \A i \in 1..k : Symbol(f[k], i) = NULL /\ DataAt(f[k], i) = s[i]}
<1>3. 0 \in T
  BY <1>1, EmptyShows
<1>4. ASSUME NEW k \in Nat, k \in T PROVE k + 1 \in T
  <2> SUFFICES ASSUME k + 1 <= n
               PROVE  /\ Tidy(f[k + 1]) /\ ArrLen(f[k + 1]) = k + 1
                      /\ \A i \in 1..(k + 1) : Symbol(f[k + 1], i) = NULL /\ DataAt(f[k + 1], i) = s[i]
    OBVIOUS
  <2>1. PICK a \in Arrays, v \in Contents, t \in Arrays : a = f[k] /\ v = s[k + 1] /\ t = f[k + 1]
    BY <1>1, <1>2
  <2>2. t = AddToArray(a, v)
    BY <1>1, <1>2, <2>1
  <2>3. Tidy(a) /\ ArrLen(a) = k /\ \A i \in 1..k : Symbol(a, i) = NULL /\ DataAt(a, i) = s[i]
    BY <1>4, <2>1
  <2>4. /\ Tidy(t) /\ ArrLen(t) = k + 1
        /\ \A i \in 1..k : Symbol(t, i) = Symbol(a, i) /\ DataAt(t, i) = DataAt(a, i)
        /\ Symbol(t, k + 1) = NULL /\ DataAt(t, k + 1) = v
    BY <2>2, <2>3, AddShows
  <2>5. \A i \in 1..(k + 1) : i \in 1..k \/ i = k + 1
    OBVIOUS
  <2> QED BY <2>1, <2>3, <2>4, <2>5
<1> HIDE DEF T
<1>5. n \in T
  BY <1>3, <1>4, AllNumbers
<1>6. PICK a \in Arrays : a = ListOf(s)
  BY ListIsGood
<1>7. Tidy(a) /\ ArrLen(a) = n /\ \A i \in 1..n : Symbol(a, i) = NULL /\ DataAt(a, i) = s[i]
  BY <1>1, <1>2, <1>5, <1>6 DEF T
<1>8. \A i \in 1..n : /\ Abs!Element(NULL, s[i]) \in Pair
                      /\ Abs!Element(NULL, s[i]).key = NULL /\ Abs!Element(NULL, s[i]).val = s[i]
  <2>1. \A i \in 1..n : s[i] \in Contents
    BY <1>2
  <2> QED BY <2>1, PairIs
<1>9. PICK u : u = Abs!List(s)
  OBVIOUS
<1>10. u = [i \in 1..n |-> Abs!Element(NULL, s[i])]
  BY <1>2, <1>9 DEF Abs!List
<1>11. u \in Seq(Pair) /\ Len(u) = n /\ \A i \in 1..n : u[i].key = Symbol(a, i) /\ u[i].val = DataAt(a, i)
  BY <1>7, <1>8, <1>10
<1>12. View(a) = u
  BY <1>7, <1>11, ViewEq
<1> QED BY <1>2, <1>6, <1>7, <1>9, <1>12

\* The elements a list function takes from its argument.
LEMMA ItemsShown ==
  ASSUME NEW a \in Arrays, NEW from \in Nat, NEW to \in Int, to <= ArrLen(a)
  PROVE  Items(a, from, to) = Abs!Part(View(a), from + 1, to)
<1>1. PICK n \in Nat : n = ArrLen(a)
  BY ViewIs
<1>2. PICK s \in Seq(Pair) : s = View(a) /\ Len(s) = n
  BY <1>1, ViewIs
<1>3. PICK t : t = SubSeq(s, from + 1, to)
  OBVIOUS
<1>4. PICK l \in Nat : l = IF from + 1 <= to THEN to - from ELSE 0
  <2>1. from + 1 <= to => to - from \in Nat
    OBVIOUS
  <2> QED BY <2>1
<1>5. t \in Seq(Pair) /\ Len(t) = l /\ \A i \in 1..(to - from) : t[i] = s[from + i]
  <2>1. \A i \in (from + 1)..to : s[i] \in Pair
    BY <1>1, <1>2
  <2>2. /\ t \in Seq(Pair)
        /\ Len(t) = IF from + 1 <= to THEN to - (from + 1) + 1 ELSE 0
        /\ \A i \in 1..(to - (from + 1) + 1) : t[i] = s[from + 1 + i - 1]
    BY <1>3, <2>1, SubSeqProperties
  <2>3. to - (from + 1) + 1 = to - from /\ \A i \in Int : from + 1 + i - 1 = from + i
    OBVIOUS
  <2> QED BY <1>4, <2>2, <2>3
<1>6. Abs!Part(s, from + 1, to) = [i \in 1..l |-> t[i].val]
  <2>1. ~(to > Len(s))
    BY <1>1, <1>2
  <2> QED BY <1>3, <1>5, <2>1 DEF Abs!Part
<1>7. 1..l = 1..(to - from)
  BY <1>4
<1>8. \A i \in 1..(to - from) : GetArray(a, from + i - 1) = t[i].val
  <2> SUFFICES ASSUME NEW i \in 1..(to - from) PROVE GetArray(a, from + i - 1) = t[i].val
    OBVIOUS
  <2>1. from + i \in 1..n
    BY <1>1
  <2>2. GetArray(a, from + i - 1) = DataAt(a, from + i)
    BY <1>1, <2>1 DEF GetArray, InBounds, FromEnd
  <2>3. s[from + i].val = DataAt(a, from + i)
    BY <1>1, <1>2, <2>1, ViewIs
  <2> QED BY <1>5, <2>2, <2>3
<1> QED BY <1>2, <1>6, <1>7, <1>8 DEF Items

\* A list that is made of elements of the argument.
LEMMA ListMatches ==
  ASSUME Kept, MaxLen <= NodeGrowth, NEW s \in Seq(Contents), Assigned(ListOf(s))
  PROVE  elems' = Abs!List(s)
BY ListShows, ListIsGood, AssignedShows

\* What the list functions take.
LEMMA ArgIs ==
  ASSUME Kept, MaxLen <= NodeGrowth
  PROVE  /\ Arg \in Arrays /\ View(Arg) = elems /\ ArrLen(Arg) \in Nat /\ Len(elems) = ArrLen(Arg)
         /\ elems \in Seq(Pair)
BY ArgShows, ElemsShown, ViewIs DEF Tidy

LEMMA PartMatches ==
  ASSUME Kept, MaxLen <= NodeGrowth, NEW from \in Nat, NEW to \in Int, to <= Len(elems),
         Assigned(ListOf(Items(Arg, from, to)))
  PROVE  elems' = Abs!List(Abs!Part(elems, from + 1, to))
<1>1. Arg \in Arrays /\ View(Arg) = elems /\ to <= ArrLen(Arg)
  BY ArgIs
<1>2. Items(Arg, from, to) \in Seq(Contents)
  BY <1>1, ItemsAre
<1>3. Items(Arg, from, to) = Abs!Part(elems, from + 1, to)
  BY <1>1, ItemsShown
<1> QED BY <1>2, <1>3, ListMatches

LEMMA TailMatches ==
  ASSUME Kept, MaxLen <= NodeGrowth, TakeTail
  PROVE  elems' = Abs!List(Abs!Part(elems, 2, Len(elems)))
<1>1. PICK n \in Nat : n = Len(elems) /\ n = ArrLen(Arg)
  BY ArgIs
<1>2. Assigned(ListOf(Items(Arg, 1, n)))
  BY <1>1 DEF TakeTail, ListTail
<1>3. elems' = Abs!List(Abs!Part(elems, 1 + 1, n))
  BY <1>1, <1>2, PartMatches
<1> QED BY <1>1, <1>3

LEMMA InitialMatches ==
  ASSUME Kept, MaxLen <= NodeGrowth, TakeInitial
  PROVE  elems' = Abs!List(Abs!Part(elems, 1, Len(elems) - 1))
<1>1. PICK n \in Nat : n = Len(elems) /\ n = ArrLen(Arg)
  BY ArgIs
<1>2. Assigned(ListOf(Items(Arg, 0, n - 1)))
  BY <1>1 DEF TakeInitial, ListInitial
<1>3. elems' = Abs!List(Abs!Part(elems, 0 + 1, n - 1))
  BY <1>1, <1>2, PartMatches
<1> QED BY <1>1, <1>3

\* A count that is too large takes what there is.
LEMMA LeastIs ==
  ASSUME NEW i \in Int, NEW j \in Int
  PROVE  Min({i, j}) = IF i > j THEN j ELSE i
<1>1. PICK m : m = IF i > j THEN j ELSE i
  OBVIOUS
<1>2. m \in {i, j} /\ \A x \in {i, j} : m <= x
  BY <1>1
<1>3. \A x \in {i, j} : (\A y \in {i, j} : x <= y) => x = m
  BY <1>1
<1> QED BY <1>1, <1>2, <1>3 DEF Min

LEMMA TakeMatches ==
  ASSUME Kept, MaxLen <= NodeGrowth, NEW k \in Counts, TakeFirst(k)
  PROVE  elems' = Abs!List(Abs!Part(elems, 1, k))
<1>1. PICK n \in Nat : n = Len(elems) /\ n = ArrLen(Arg)
  BY ArgIs
<1>2. k \in Int
  BY GrowthAssumption DEF Counts
<1>3. PICK to \in Int : to = Min({k, n}) /\ to = (IF k > n THEN n ELSE k) /\ to <= n
  BY <1>2, LeastIs
<1>4. Assigned(ListOf(Items(Arg, 0, to)))
  BY <1>1, <1>3 DEF TakeFirst, ListTake
<1>5. elems' = Abs!List(Abs!Part(elems, 0 + 1, to))
  BY <1>1, <1>3, <1>4, PartMatches
<1>6. Abs!Part(elems, 1, k) = Abs!Part(elems, 1, to)
  BY <1>1, <1>2, <1>3 DEF Abs!Part
<1> QED BY <1>5, <1>6

LEMMA DropMatches ==
  ASSUME Kept, MaxLen <= NodeGrowth, NEW k \in Counts, Drop(k), k >= 0
  PROVE  elems' = Abs!List(Abs!Part(elems, k + 1, Len(elems)))
<1>1. PICK n \in Nat : n = Len(elems) /\ n = ArrLen(Arg)
  BY ArgIs
<1>2. k \in Nat
  BY GrowthAssumption DEF Counts
<1>3. PICK from \in Nat : from = Min({k, n}) /\ from = (IF k > n THEN n ELSE k)
  BY <1>2, LeastIs
<1>4. Assigned(ListOf(Items(Arg, from, n)))
  BY <1>1, <1>3 DEF Drop, ListDrop
<1>5. elems' = Abs!List(Abs!Part(elems, from + 1, n))
  BY <1>1, <1>3, <1>4, PartMatches
<1>6. Abs!Part(elems, k + 1, n) = Abs!Part(elems, from + 1, n)
  <2>1. CASE k <= n
    BY <1>2, <1>3, <2>1
  <2>2. CASE k > n
    <3>1. SubSeq(elems, k + 1, n) = <<>> /\ SubSeq(elems, from + 1, n) = <<>>
      BY <1>2, <1>3, <2>2, SubSeqEmpty
    <3> QED BY <1>1, <3>1 DEF Abs!Part
  <2> QED BY <1>2, <2>1, <2>2
<1> QED BY <1>1, <1>5, <1>6

LEMMA PrependMatches ==
  ASSUME Kept, MaxLen <= NodeGrowth, NEW v \in ArgData, Prepend(v)
  PROVE  elems' = Abs!Consed(v, elems)
<1>1. PICK n \in Nat : n = Len(elems) /\ n = ArrLen(Arg)
  BY ArgIs
<1>2. v \in Contents
  BY DataAssumption DEF Contents
<1>3. PICK q \in Seq(Contents) : q = Items(Arg, 0, n) /\ q = Abs!Part(elems, 1, n)
  <2>1. Arg \in Arrays /\ View(Arg) = elems /\ n <= ArrLen(Arg)
    BY <1>1, ArgIs
  <2>2. Items(Arg, 0, n) \in Seq(Contents)
    BY <2>1, ItemsAre
  <2>3. Items(Arg, 0, n) = Abs!Part(elems, 0 + 1, n)
    BY <2>1, ItemsShown
  <2> QED BY <2>2, <2>3
<1>4. PICK l \in Nat : l = Len(q)
  OBVIOUS
<1>5. PICK s : s = <<v>> \o q
  OBVIOUS
<1>6. s \in Seq(Contents) /\ Len(s) = l + 1 /\ s[1] = v /\ \A i \in 2..(l + 1) : s[i] = q[i - 1]
  <2>1. <<v>> \in Seq(Contents) /\ Len(<<v>>) = 1
    BY <1>2
  <2> QED BY <1>2, <1>4, <1>5, <2>1
<1>7. elems' = Abs!List(s)
  <2>1. Assigned(ListOf(s))
    BY <1>1, <1>3, <1>5 DEF Prepend, ListCons
  <2> QED BY <1>6, <2>1, ListMatches
<1>8. PICK e : e = Abs!Element(NULL, v)
  OBVIOUS
<1>9. PICK w : w = Abs!List(q)
  OBVIOUS
<1>10. w = [i \in 1..l |-> Abs!Element(NULL, q[i])]
  BY <1>4, <1>9 DEF Abs!List
<1>11. w \in Seq(Pair) /\ Len(w) = l /\ e \in Pair
  <2>1. \A i \in 1..l : q[i] \in Contents
    BY <1>4
  <2>2. \A i \in 1..l : Abs!Element(NULL, q[i]) \in Pair
    BY <2>1, PairIs
  <2>3. e \in Pair
    BY <1>2, <1>8, PairIs
  <2> QED BY <1>10, <2>2, <2>3
<1>12. PICK u : u = <<e>> \o w
  OBVIOUS
<1>13. u \in Seq(Pair) /\ Len(u) = l + 1 /\ u[1] = e /\ \A i \in 2..(l + 1) : u[i] = w[i - 1]
  <2>1. <<e>> \in Seq(Pair) /\ Len(<<e>>) = 1
    BY <1>11
  <2> QED BY <1>11, <1>12, <2>1
<1>14. Abs!List(s) = [i \in 1..(l + 1) |-> Abs!Element(NULL, s[i])]
  BY <1>6 DEF Abs!List
<1>15. \A i \in 1..(l + 1) : u[i] = Abs!Element(NULL, s[i])
  <2> SUFFICES ASSUME NEW i \in 1..(l + 1) PROVE u[i] = Abs!Element(NULL, s[i])
    OBVIOUS
  <2>1. CASE i = 1
    BY <1>6, <1>8, <1>13, <2>1
  <2>2. CASE i # 1
    <3>1. i \in 2..(l + 1) /\ i - 1 \in 1..l
      BY <2>2
    <3>2. u[i] = w[i - 1] /\ s[i] = q[i - 1] /\ w[i - 1] = Abs!Element(NULL, q[i - 1])
      BY <1>6, <1>10, <1>13, <3>1
    <3> QED BY <3>2
  <2> QED BY <2>1, <2>2
<1>16. u = Abs!List(s)
  BY <1>13, <1>14, <1>15
<1> QED BY <1>1, <1>3, <1>7, <1>8, <1>9, <1>12, <1>16 DEF Abs!Consed

LEMMA ReplicateMatches ==
  ASSUME Kept, MaxLen <= NodeGrowth, NEW v \in ArgData, NEW n \in Counts, Replicate(v, n)
  PROVE  elems' = Abs!List([i \in 1..n |-> v])
<1>1. v \in Contents /\ n \in Int
  BY DataAssumption, GrowthAssumption DEF Contents, Counts
<1>2. [i \in 1..n |-> v] \in Seq(Contents)
  BY <1>1
<1>3. Assigned(ListOf([i \in 1..n |-> v]))
  BY DEF Replicate, ListReplicate
<1> QED BY <1>2, <1>3, ListMatches

\* The values and what comes between them.
LEMMA HalfOdd ==
  ASSUME NEW i \in Nat \ {0}
  PROVE  /\ (2 * i - 1) % 2 = 1 /\ (2 * i - 1) \div 2 = i - 1
         /\ (2 * i) % 2 = 0
OBVIOUS

LEMMA IntersperseMatches ==
  ASSUME Kept, MaxLen <= NodeGrowth, NEW v \in ArgData, Intersperse(v)
  PROVE  Abs!Interspersed(elems', elems, v)
<1>1. PICK n \in Nat : n = Len(elems) /\ n = ArrLen(Arg)
  BY ArgIs
<1>2. v \in Contents /\ Arg \in Arrays /\ View(Arg) = elems /\ elems \in Seq(Pair)
  BY ArgIs, DataAssumption DEF Contents
<1>3. PICK s : s = [i \in 1..(2 * n - 1) |-> IF i % 2 = 1 THEN GetArray(Arg, i \div 2) ELSE v]
  OBVIOUS
<1>4. PICK m \in Nat : m = IF n = 0 THEN 0 ELSE n + n - 1
  OBVIOUS
<1>5. 1..(2 * n - 1) = 1..m
  BY <1>4
<1>6. s \in Seq(Contents) /\ Len(s) = m
  <2>1. \A i \in 1..m : (IF i % 2 = 1 THEN GetArray(Arg, i \div 2) ELSE v) \in Contents
    BY <1>2, GetIs
  <2>2. s = [i \in 1..m |-> IF i % 2 = 1 THEN GetArray(Arg, i \div 2) ELSE v]
    BY <1>3, <1>5
  <2>3. \A i \in 1..m : s[i] \in Contents
    BY <2>1, <2>2
  <2>4. DOMAIN s = 1..m /\ s = [i \in 1..m |-> s[i]]
    BY <2>2
  <2> QED BY <2>3, <2>4
<1>7. elems' = Abs!List(s)
  <2>1. Assigned(ListOf(s))
    BY <1>1, <1>3 DEF Intersperse, ListIntersperse
  <2> QED BY <1>6, <2>1, ListMatches
<1>8. PICK t : t = elems'
  OBVIOUS
<1>9. t = [i \in 1..m |-> Abs!Element(NULL, s[i])]
  BY <1>6, <1>7, <1>8 DEF Abs!List
<1>10. Len(t) = m
  BY <1>9
<1>11. ASSUME NEW i \in 1..n PROVE t[2 * i - 1] = Abs!Element(NULL, elems[i].val)
  <2>1. 2 * i - 1 \in 1..m
    BY <1>4
  <2>2. s[2 * i - 1] = GetArray(Arg, i - 1)
    BY <1>3, <1>5, <2>1, HalfOdd
  <2>3. GetArray(Arg, i - 1) = DataAt(Arg, i)
    BY <1>1 DEF GetArray, InBounds, FromEnd
  <2>4. elems[i].val = DataAt(Arg, i)
    BY <1>1, <1>2, ViewIs
  <2> QED BY <1>9, <2>1, <2>2, <2>3, <2>4
<1>12. ASSUME NEW i \in 1..(n - 1) PROVE t[2 * i] = Abs!Element(NULL, v)
  <2>1. 2 * i \in 1..m
    BY <1>4
  <2>2. s[2 * i] = v
    BY <1>3, <1>5, <2>1, HalfOdd
  <2> QED BY <1>9, <2>1, <2>2
<1>13. n = 0 <=> elems = <<>>
  BY <1>1, <1>2, EmptySeq
<1> QED BY <1>1, <1>4, <1>8, <1>10, <1>11, <1>12, <1>13 DEF Abs!Interspersed

-----------------------------------------------------------------------------
(* What the abstract folds go through. *)

Seqs == Seq(Pair)

\* Each call of the ordered map gives elements.
LEMMA PutIs ==
  ASSUME NEW s \in Seqs, NEW w \in Wheres \cup {[by |-> "end"]}, NEW v \in Contents
  PROVE  Abs!Put(s, w, v) \in Seqs
<1>1. PICK n \in Nat : n = Len(s)
  BY DEF Seqs
<1>2. \A i \in 1..n : s[i] \in Pair /\ s[i].key \in Names \cup {NULL}
  <2>1. \A i \in 1..n : s[i] \in Pair
    BY <1>1 DEF Seqs
  <2> QED BY <2>1 DEF Pair
<1>3. \A k \in Names \cup {NULL} : Abs!Element(k, v) \in Pair
  BY PairIs
<1>4. CASE w = [by |-> "end"]
  <2>1. Abs!Put(s, w, v) = Append(s, Abs!Element(NULL, v))
    BY <1>4 DEF Abs!Put, Abs!PutLast
  <2> QED BY <1>3, <2>1 DEF Seqs
<1>5. CASE \E k \in Names : w = [by |-> "key", key |-> k]
  <2>1. PICK k \in Names : w = [by |-> "key", key |-> k]
    BY <1>5
  <2>2. Abs!Put(s, w, v) = Abs!PutKey(s, k, v)
    BY <2>1 DEF Abs!Put
  <2>3. CASE Abs!PlacesOf(s, k) = {}
    <3>1. Abs!Put(s, w, v) = Append(s, Abs!Element(k, v))
      BY <2>2, <2>3 DEF Abs!PutKey
    <3> QED BY <1>3, <3>1 DEF Seqs
  <2>4. CASE Abs!PlacesOf(s, k) # {}
    <3>1. Abs!Put(s, w, v) = [i \in 1..n |-> IF s[i].key = k THEN Abs!Element(k, v) ELSE s[i]]
      BY <1>1, <2>2, <2>4 DEF Abs!PutKey
    <3>2. \A i \in 1..n : (IF s[i].key = k THEN Abs!Element(k, v) ELSE s[i]) \in Pair
      BY <1>2, <1>3
    <3> QED BY <3>1, <3>2 DEF Seqs
  <2> QED BY <2>3, <2>4
<1>6. CASE \E p \in Positions : w = [by |-> "pos", pos |-> p]
  <2>1. PICK p \in Positions : w = [by |-> "pos", pos |-> p]
    BY <1>6
  <2>2. Abs!Put(s, w, v) = Abs!PutAt(s, p, v)
    BY <2>1 DEF Abs!Put
  <2>3. p \in Int
    BY GrowthAssumption DEF Positions
  <2>4. PICK q \in Nat : q = Abs!Place(s, p)
    BY <1>1, <2>3 DEF Abs!Place
  <2>5. PICK m \in Nat : m = IF q > n THEN q ELSE n
    OBVIOUS
  <2> DEFINE E(i) == IF i = q THEN Abs!Element(IF i <= n THEN s[i].key ELSE NULL, v)
                     ELSE IF i <= n THEN s[i] ELSE Abs!Element(NULL, Void)
  <2>6. Abs!PutAt(s, p, v) = [i \in 1..m |-> E(i)]
    BY <1>1, <2>4, <2>5 DEF Abs!PutAt
  <2>7. ASSUME NEW i \in 1..m PROVE E(i) \in Pair
    <3>1. Abs!Element(NULL, Void) \in Pair
      BY PairIs, DataAssumption DEF Contents
    <3>2. i <= n => i \in 1..n
      OBVIOUS
    <3>3. (IF i <= n THEN s[i].key ELSE NULL) \in Names \cup {NULL}
      BY <1>2, <3>2
    <3>4. Abs!Element(IF i <= n THEN s[i].key ELSE NULL, v) \in Pair
      BY <1>3, <3>3
    <3> QED BY <1>2, <3>1, <3>2, <3>4
  <2> HIDE DEF E
  <2> QED BY <2>2, <2>6, <2>7 DEF Seqs
<1> QED BY <1>4, <1>5, <1>6 DEF Wheres

LEMMA ArgIsPut ==
  ASSUME NEW s \in Seqs, NEW e \in Args
  PROVE  Abs!Put(s, e.where, e.val) \in Seqs
BY PutIs, DataAssumption DEF Args, Contents

\* The sequences on the way from the empty one to the one that is made.
LEMMA AbsMadeSteps ==
  ASSUME NEW s \in Seq(Args)
  PROVE  \E f \in [0..Len(s) -> Seqs] :
           /\ f[0] = <<>> /\ f[Len(s)] = Abs!Made(s)
           /\ \A k \in 1..Len(s) : f[k] = Abs!Put(f[k - 1], s[k].where, s[k].val)
<1>1. PICK G : G = [p \in Seqs \X Args |-> Abs!Put(p[1], p[2].where, p[2].val)]
  OBVIOUS
<1>2. G \in [Seqs \X Args -> Seqs] /\ \A a \in Seqs, e \in Args : G[<<a, e>>] = Abs!Put(a, e.where, e.val)
  BY <1>1, ArgIsPut
<1>3. DOMAIN s = 1..Len(s) /\ Len(s) \in Nat
  OBVIOUS
<1>4. PICK g \in FoldTables(Seqs, <<>>, G, s) : TRUE
  <2>1. G \in [Seqs \X Args -> Seqs] /\ <<>> \in Seqs
    BY <1>2 DEF Seqs
  <2> QED BY <2>1, FoldExists, Zenon
<1>5. \A t \in SUBSET (1..Len(s)) : t # {} => t \ {Max(t)} \in SUBSET (1..Len(s)) /\ s[Max(t)] \in Args
  BY FoldedIn
<1>6. g = [t \in SUBSET (DOMAIN s) |-> IF t = {} THEN <<>> ELSE Abs!Put(g[t \ {Max(t)}], s[Max(t)].where, s[Max(t)].val)]
  <2>1. \A t \in SUBSET (1..Len(s)) : g[t] = IF t = {} THEN <<>> ELSE Abs!Put(g[t \ {Max(t)}], s[Max(t)].where, s[Max(t)].val)
    BY <1>2, <1>4, <1>5 DEF FoldTables
  <2> QED BY <1>3, <1>4, <2>1 DEF FoldTables
<1>7. PICK h : h = CHOOSE f : f = [t \in SUBSET (DOMAIN s) |-> IF t = {} THEN <<>>
                                                               ELSE Abs!Put(f[t \ {Max(t)}], s[Max(t)].where, s[Max(t)].val)]
  OBVIOUS
<1>8. Abs!Made(s) = h[DOMAIN s]
  BY <1>7, Zenon DEF Abs!Made, Abs!FoldLeft, Abs!MapThenFoldSet, Abs!Max, Max
<1>9. h = [t \in SUBSET (DOMAIN s) |-> IF t = {} THEN <<>> ELSE Abs!Put(h[t \ {Max(t)}], s[Max(t)].where, s[Max(t)].val)]
  BY <1>6, <1>7, Zenon
<1>10. h[{}] = <<>>
  BY <1>3, <1>9
<1>11. \A t \in SUBSET (1..Len(s)) : t # {} /\ h[t \ {Max(t)}] \in Seqs => h[t] = G[<<h[t \ {Max(t)}], s[Max(t)]>>]
  <2> SUFFICES ASSUME NEW t \in SUBSET (1..Len(s)), t # {}, h[t \ {Max(t)}] \in Seqs
               PROVE  h[t] = G[<<h[t \ {Max(t)}], s[Max(t)]>>]
    OBVIOUS
  <2>1. h[t] = Abs!Put(h[t \ {Max(t)}], s[Max(t)].where, s[Max(t)].val)
    BY <1>3, <1>9
  <2> QED BY <1>2, <1>5, <2>1
<1>12. PICK f \in FoldRuns(Seqs, <<>>, G, s) : f[Len(s)] = h[DOMAIN s]
  <2>1. G \in [Seqs \X Args -> Seqs] /\ <<>> \in Seqs
    BY <1>2 DEF Seqs
  <2>2. FoldObeys(Seqs, <<>>, G, s, h)
    BY <1>10, <1>11, Zenon DEF FoldObeys
  <2>3. FoldReaches(Seqs, <<>>, G, s, h[DOMAIN s])
    BY <2>1, <2>2, FoldSteps, Zenon
  <2> QED BY <2>3 DEF FoldReaches
<1>13. \A k \in 1..Len(s) : f[k] = Abs!Put(f[k - 1], s[k].where, s[k].val)
  <2> SUFFICES ASSUME NEW k \in 1..Len(s) PROVE f[k] = Abs!Put(f[k - 1], s[k].where, s[k].val)
    OBVIOUS
  <2>1. f[k - 1] \in Seqs /\ s[k] \in Args
    BY <1>3, <1>12 DEF FoldRuns
  <2> QED BY <1>2, <1>12, <2>1 DEF FoldRuns
<1> QED BY <1>8, <1>12, <1>13 DEF FoldRuns

\* What array_compact keeps of a list, and where array_merge puts an element.
Chosen(u, e) == IF e.val = Void THEN u ELSE Append(u, e)
Joined(u, e) == IF e.key = NULL THEN Abs!PutLast(u, e.val) ELSE Abs!PutKey(u, e.key, e.val)

LEMMA ChosenIs ==
  ASSUME NEW s \in Seqs, NEW e \in Pair
  PROVE  Chosen(s, e) \in Seqs
BY DEF Chosen, Seqs

LEMMA JoinedIs ==
  ASSUME NEW s \in Seqs, NEW e \in Pair
  PROVE  Joined(s, e) \in Seqs
<1>1. e.val \in Contents /\ e.key \in Names \cup {NULL}
  BY DEF Pair
<1>2. CASE e.key = NULL
  <2>1. Abs!Put(s, [by |-> "end"], e.val) = Joined(s, e)
    BY <1>2 DEF Abs!Put, Joined
  <2> QED BY <1>1, <2>1, PutIs
<1>3. CASE e.key # NULL
  <2>1. PICK w : w = [by |-> "key", key |-> e.key]
    OBVIOUS
  <2>2. w \in Wheres \cup {[by |-> "end"]}
    BY <1>1, <1>3, <2>1 DEF Wheres
  <2>3. Abs!Put(s, w, e.val) = Joined(s, e)
    BY <1>3, <2>1 DEF Abs!Put, Joined
  <2> QED BY <1>1, <2>2, <2>3, PutIs
<1> QED BY <1>2, <1>3

LEMMA AbsCompactSteps ==
  ASSUME NEW s \in Seqs
  PROVE  \E f \in [0..Len(s) -> Seqs] :
           /\ f[0] = <<>> /\ f[Len(s)] = Abs!Compacted(s)
           /\ \A k \in 1..Len(s) : f[k] = Chosen(f[k - 1], s[k])
<1>1. PICK G : G = [p \in Seqs \X Pair |-> Chosen(p[1], p[2])]
  OBVIOUS
<1>2. G \in [Seqs \X Pair -> Seqs] /\ \A a \in Seqs, e \in Pair : G[<<a, e>>] = Chosen(a, e)
  BY <1>1, ChosenIs
<1>3. DOMAIN s = 1..Len(s) /\ Len(s) \in Nat /\ s \in Seq(Pair)
  BY DEF Seqs
<1>4. PICK g \in FoldTables(Seqs, <<>>, G, s) : TRUE
  <2>1. G \in [Seqs \X Pair -> Seqs] /\ <<>> \in Seqs
    BY <1>2 DEF Seqs
  <2> QED BY <2>1, <1>3, FoldExists, Zenon
<1>5. \A t \in SUBSET (1..Len(s)) : t # {} => t \ {Max(t)} \in SUBSET (1..Len(s)) /\ s[Max(t)] \in Pair
  BY <1>3, FoldedIn
<1>6. g = [t \in SUBSET (DOMAIN s) |-> IF t = {} THEN <<>> ELSE Chosen(g[t \ {Max(t)}], s[Max(t)])]
  <2>1. \A t \in SUBSET (1..Len(s)) : g[t] = IF t = {} THEN <<>> ELSE Chosen(g[t \ {Max(t)}], s[Max(t)])
    BY <1>2, <1>4, <1>5 DEF FoldTables
  <2> QED BY <1>3, <1>4, <2>1 DEF FoldTables
<1>7. PICK h : h = CHOOSE f : f = [t \in SUBSET (DOMAIN s) |-> IF t = {} THEN <<>>
                                                               ELSE Chosen(f[t \ {Max(t)}], s[Max(t)])]
  OBVIOUS
<1>8. Abs!Compacted(s) = h[DOMAIN s]
  BY <1>7, Zenon DEF Chosen, Abs!Compacted, Abs!FoldLeft, Abs!MapThenFoldSet, Abs!Max, Max
<1>9. h = [t \in SUBSET (DOMAIN s) |-> IF t = {} THEN <<>> ELSE Chosen(h[t \ {Max(t)}], s[Max(t)])]
  BY <1>6, <1>7, Zenon
<1>10. h[{}] = <<>>
  BY <1>3, <1>9
<1>11. \A t \in SUBSET (1..Len(s)) : t # {} /\ h[t \ {Max(t)}] \in Seqs => h[t] = G[<<h[t \ {Max(t)}], s[Max(t)]>>]
  <2> SUFFICES ASSUME NEW t \in SUBSET (1..Len(s)), t # {}, h[t \ {Max(t)}] \in Seqs
               PROVE  h[t] = G[<<h[t \ {Max(t)}], s[Max(t)]>>]
    OBVIOUS
  <2>1. h[t] = Chosen(h[t \ {Max(t)}], s[Max(t)])
    BY <1>3, <1>9
  <2> QED BY <1>2, <1>5, <2>1
<1>12. PICK f \in FoldRuns(Seqs, <<>>, G, s) : f[Len(s)] = h[DOMAIN s]
  <2>1. G \in [Seqs \X Pair -> Seqs] /\ <<>> \in Seqs
    BY <1>2 DEF Seqs
  <2>2. FoldObeys(Seqs, <<>>, G, s, h)
    BY <1>10, <1>11, Zenon DEF FoldObeys
  <2>3. FoldReaches(Seqs, <<>>, G, s, h[DOMAIN s])
    BY <2>1, <2>2, <1>3, FoldSteps, Zenon
  <2> QED BY <2>3 DEF FoldReaches
<1>13. \A k \in 1..Len(s) : f[k] = Chosen(f[k - 1], s[k])
  <2> SUFFICES ASSUME NEW k \in 1..Len(s) PROVE f[k] = Chosen(f[k - 1], s[k])
    OBVIOUS
  <2>1. f[k - 1] \in Seqs /\ s[k] \in Pair
    BY <1>3, <1>12 DEF FoldRuns
  <2> QED BY <1>2, <1>12, <2>1 DEF FoldRuns
<1> QED BY <1>8, <1>12, <1>13 DEF FoldRuns

LEMMA AbsMergeSteps ==
  ASSUME NEW o \in Seqs, NEW s \in Seqs
  PROVE  \E f \in [0..Len(s) -> Seqs] :
           /\ f[0] = o /\ f[Len(s)] = Abs!Merged(o, s)
           /\ \A k \in 1..Len(s) : f[k] = Joined(f[k - 1], s[k])
<1>1. PICK G : G = [p \in Seqs \X Pair |-> Joined(p[1], p[2])]
  OBVIOUS
<1>2. G \in [Seqs \X Pair -> Seqs] /\ \A a \in Seqs, e \in Pair : G[<<a, e>>] = Joined(a, e)
  BY <1>1, JoinedIs
<1>3. DOMAIN s = 1..Len(s) /\ Len(s) \in Nat /\ s \in Seq(Pair)
  BY DEF Seqs
<1>4. PICK g \in FoldTables(Seqs, o, G, s) : TRUE
  <2>1. G \in [Seqs \X Pair -> Seqs]
    BY <1>2
  <2> QED BY <2>1, <1>3, FoldExists, Zenon
<1>5. \A t \in SUBSET (1..Len(s)) : t # {} => t \ {Max(t)} \in SUBSET (1..Len(s)) /\ s[Max(t)] \in Pair
  BY <1>3, FoldedIn
<1>6. g = [t \in SUBSET (DOMAIN s) |-> IF t = {} THEN o ELSE Joined(g[t \ {Max(t)}], s[Max(t)])]
  <2>1. \A t \in SUBSET (1..Len(s)) : g[t] = IF t = {} THEN o ELSE Joined(g[t \ {Max(t)}], s[Max(t)])
    BY <1>2, <1>4, <1>5 DEF FoldTables
  <2> QED BY <1>3, <1>4, <2>1 DEF FoldTables
<1>7. PICK h : h = CHOOSE f : f = [t \in SUBSET (DOMAIN s) |-> IF t = {} THEN o
                                                               ELSE Joined(f[t \ {Max(t)}], s[Max(t)])]
  OBVIOUS
<1>8. Abs!Merged(o, s) = h[DOMAIN s]
  BY <1>7, Zenon DEF Joined, Abs!Merged, Abs!FoldLeft, Abs!MapThenFoldSet, Abs!Max, Max
<1>9. h = [t \in SUBSET (DOMAIN s) |-> IF t = {} THEN o ELSE Joined(h[t \ {Max(t)}], s[Max(t)])]
  BY <1>6, <1>7, Zenon
<1>10. h[{}] = o
  BY <1>3, <1>9
<1>11. \A t \in SUBSET (1..Len(s)) : t # {} /\ h[t \ {Max(t)}] \in Seqs => h[t] = G[<<h[t \ {Max(t)}], s[Max(t)]>>]
  <2> SUFFICES ASSUME NEW t \in SUBSET (1..Len(s)), t # {}, h[t \ {Max(t)}] \in Seqs
               PROVE  h[t] = G[<<h[t \ {Max(t)}], s[Max(t)]>>]
    OBVIOUS
  <2>1. h[t] = Joined(h[t \ {Max(t)}], s[Max(t)])
    BY <1>3, <1>9
  <2> QED BY <1>2, <1>5, <2>1
<1>12. PICK f \in FoldRuns(Seqs, o, G, s) : f[Len(s)] = h[DOMAIN s]
  <2>1. G \in [Seqs \X Pair -> Seqs]
    BY <1>2
  <2>2. FoldObeys(Seqs, o, G, s, h)
    BY <1>10, <1>11, Zenon DEF FoldObeys
  <2>3. FoldReaches(Seqs, o, G, s, h[DOMAIN s])
    BY <2>1, <2>2, <1>3, FoldSteps, Zenon
  <2> QED BY <2>3 DEF FoldReaches
<1>13. \A k \in 1..Len(s) : f[k] = Joined(f[k - 1], s[k])
  <2> SUFFICES ASSUME NEW k \in 1..Len(s) PROVE f[k] = Joined(f[k - 1], s[k])
    OBVIOUS
  <2>1. f[k - 1] \in Seqs /\ s[k] \in Pair
    BY <1>3, <1>12 DEF FoldRuns
  <2> QED BY <1>2, <1>12, <2>1 DEF FoldRuns
<1> QED BY <1>8, <1>12, <1>13 DEF FoldRuns

\* mkkeyarray, one argument after the other.
LEMMA MadeShows ==
  ASSUME NEW s \in Seq(Args), ArrLen(MkKeyArray(s)) <= NodeGrowth
  PROVE  Tidy(MkKeyArray(s)) /\ View(MkKeyArray(s)) = Abs!Made(s)
<1>1. PICK f \in [0..Len(s) -> Arrays] :
        /\ f[0] = EmptyArray /\ f[Len(s)] = MkKeyArray(s)
        /\ \A k \in 1..Len(s) : f[k] = Store(f[k - 1], s[k].where, s[k].val)
  BY MadeSteps
<1>2. PICK g \in [0..Len(s) -> Seqs] :
        /\ g[0] = <<>> /\ g[Len(s)] = Abs!Made(s)
        /\ \A k \in 1..Len(s) : g[k] = Abs!Put(g[k - 1], s[k].where, s[k].val)
  BY AbsMadeSteps
<1>3. PICK n \in Nat : n = Len(s)
  OBVIOUS
<1>4. \A k \in 1..n : s[k].where \in Wheres \cup {[by |-> "end"]} /\ s[k].val \in Contents
  <2>1. \A k \in 1..n : s[k] \in Args
    BY <1>3
  <2> QED BY <2>1, DataAssumption DEF Args, Contents
<1>5. \A k \in 0..n : f[k] \in Arrays /\ ArrLen(f[k]) \in Nat
  BY <1>1, <1>3, ViewIs
<1>6. \A k \in 0..n : ArrLen(f[k]) <= NodeGrowth
  <2> DEFINE T == {d \in Nat : d <= n => ArrLen(f[n - d]) <= NodeGrowth}
  <2>1. 0 \in T
    BY <1>1, <1>3
  <2>2. ASSUME NEW d \in Nat, d \in T PROVE d + 1 \in T
    <3> SUFFICES ASSUME d + 1 <= n PROVE ArrLen(f[n - (d + 1)]) <= NodeGrowth
      OBVIOUS
    <3>1. PICK k \in 1..n : k = n - d /\ k - 1 = n - (d + 1)
      OBVIOUS
    <3>2. f[k] = Store(f[k - 1], s[k].where, s[k].val) /\ ArrLen(f[k]) <= NodeGrowth
      <4>1. ArrLen(f[n - d]) <= NodeGrowth
        BY <2>2
      <4> QED BY <1>1, <1>3, <3>1, <4>1
    <3>3. f[k - 1] \in Arrays /\ ArrLen(f[k - 1]) \in Nat /\ ArrLen(f[k]) \in Nat
      BY <1>5
    <3>4. ArrLen(f[k - 1]) <= ArrLen(f[k])
      BY <1>4, <3>2, <3>3, StoreLength
    <3> QED BY <3>1, <3>2, <3>3, <3>4, GrowthAssumption
  <2> HIDE DEF T
  <2>3. Nat \subseteq T
    BY <2>1, <2>2, AllNumbers
  <2> SUFFICES ASSUME NEW k \in 0..n PROVE ArrLen(f[k]) <= NodeGrowth
    OBVIOUS
  <2>4. n - k \in Nat /\ n - k <= n /\ n - (n - k) = k
    OBVIOUS
  <2>5. n - k \in T
    BY <2>3, <2>4
  <2> QED BY <2>4, <2>5 DEF T
<1>7. \A k \in 0..n : Tidy(f[k])
  BY <1>5, <1>6, SmallTidy
<1> DEFINE T == {k \in Nat : k <= n => View(f[k]) = g[k]}
<1>8. 0 \in T
  BY <1>1, <1>2, EmptyShows
<1>9. ASSUME NEW k \in Nat, k \in T PROVE k + 1 \in T
  <2> SUFFICES ASSUME k + 1 <= n PROVE View(f[k + 1]) = g[k + 1]
    OBVIOUS
  <2>1. k \in 0..n /\ k + 1 \in 1..n /\ k + 1 \in 0..n /\ (k + 1) - 1 = k
    OBVIOUS
  <2>2. PICK a \in Arrays, w \in Wheres \cup {[by |-> "end"]}, v \in Contents :
          a = f[k] /\ w = s[k + 1].where /\ v = s[k + 1].val
    BY <1>4, <1>5, <2>1
  <2>3. f[k + 1] = Store(a, w, v) /\ g[k + 1] = Abs!Put(g[k], w, v)
    BY <1>1, <1>2, <1>3, <2>1, <2>2
  <2>4. Tidy(a) /\ ArrLen(Store(a, w, v)) <= NodeGrowth /\ View(a) = g[k]
    BY <1>6, <1>7, <1>9, <2>1, <2>2, <2>3
  <2> QED BY <2>3, <2>4, ViewStore
<1> HIDE DEF T
<1>10. n \in T
  BY <1>8, <1>9, AllNumbers
<1>11. n \in 0..n
  OBVIOUS
<1> QED BY <1>1, <1>2, <1>3, <1>7, <1>10, <1>11 DEF T

LEMMA MakeMatches ==
  ASSUME MaxLen <= NodeGrowth, NEW args \in ArgLists, Make(args)
  PROVE  elems' = Abs!Made(args)
<1>1. args \in Seq(Args)
  BY ArgListsAre
<1>2. MkKeyArray(args) \in Arrays /\ Assigned(MkKeyArray(args))
  BY <1>1, MadeIsGood DEF Make
<1>3. elems' = View(MkKeyArray(args)) /\ ArrLen(MkKeyArray(args)) <= NodeGrowth
  BY <1>2, AssignedShows
<1> QED BY <1>1, <1>3, MadeShows

\* Elements without keys go to the end, however many there are.
LEMMA PlainShows ==
  ASSUME NEW s \in Seq(Elem), \A i \in 1..Len(s) : s[i].symbol = NULL
  PROVE  Build(s) \in Arrays /\ Shows(Build(s), s, Len(s))
<1>1. PICK f \in [0..Len(s) -> Arrays] :
        /\ f[0] = EmptyArray /\ f[Len(s)] = Build(s)
        /\ \A k \in 1..Len(s) : f[k] = AddCopy(f[k - 1], s[k])
  BY BuildSteps
<1>2. PICK n \in Nat : n = Len(s)
  OBVIOUS
<1> DEFINE T == {k \in Nat : k <= n => Tidy(f[k]) /\ Shows(f[k], s, k)}
<1>3. 0 \in T
  BY <1>1, EmptyShows DEF Shows
<1>4. ASSUME NEW k \in Nat, k \in T PROVE k + 1 \in T
  <2> SUFFICES ASSUME k + 1 <= n PROVE Tidy(f[k + 1]) /\ Shows(f[k + 1], s, k + 1)
    OBVIOUS
  <2>1. PICK a \in Arrays, e \in Elem, t \in Arrays : a = f[k] /\ e = s[k + 1] /\ t = f[k + 1]
    BY <1>1, <1>2
  <2>2. e.symbol = NULL /\ e.data \in Contents
    BY <1>2, <2>1 DEF Elem
  <2>3. t = AddToArray(a, e.data)
    BY <1>1, <1>2, <2>1, <2>2 DEF AddCopy
  <2>4. Tidy(a) /\ ArrLen(a) = k /\ \A i \in 1..k : Symbol(a, i) = s[i].symbol /\ DataAt(a, i) = s[i].data
    BY <1>4, <2>1 DEF Shows
  <2>5. /\ Tidy(t) /\ ArrLen(t) = k + 1
        /\ \A i \in 1..k : Symbol(t, i) = Symbol(a, i) /\ DataAt(t, i) = DataAt(a, i)
        /\ Symbol(t, k + 1) = NULL /\ DataAt(t, k + 1) = e.data
    BY <2>2, <2>3, <2>4, AddShows
  <2>6. \A i \in 1..(k + 1) : i \in 1..k \/ i = k + 1
    OBVIOUS
  <2> QED BY <2>1, <2>2, <2>4, <2>5, <2>6 DEF Shows
<1> HIDE DEF T
<1>5. n \in T
  BY <1>3, <1>4, AllNumbers
<1> QED BY <1>1, <1>2, <1>5 DEF T, Tidy

\* Where the elements of a concatenation come from.
LEMMA ConcatIs ==
  ASSUME NEW E, NEW x \in Seq(E), NEW y \in Seq(E), NEW m \in Nat, NEW n \in Nat, m = Len(x), n = Len(y)
  PROVE  /\ x \o y \in Seq(E) /\ Len(x \o y) = m + n
         /\ \A i \in 1..(m + n) : (x \o y)[i] = IF i <= m THEN x[i] ELSE y[i - m]
BY ConcatProperties

\* Merging what has no keys is concatenation.
LEMMA PlainMerged ==
  ASSUME NEW o \in Seqs, NEW s \in Seqs, NEW m \in Nat, NEW n \in Nat, m = Len(o), n = Len(s),
         \A i \in 1..n : s[i].key = NULL
  PROVE  Abs!Merged(o, s) = o \o s
<1>1. PICK g \in [0..Len(s) -> Seqs] :
        /\ g[0] = o /\ g[Len(s)] = Abs!Merged(o, s)
        /\ \A k \in 1..Len(s) : g[k] = Joined(g[k - 1], s[k])
  BY AbsMergeSteps
<1> DEFINE T == {k \in Nat : k <= n =>
                   Len(g[k]) = m + k /\ \A i \in 1..(m + k) : g[k][i] = IF i <= m THEN o[i] ELSE s[i - m]}
<1>2. 0 \in T
  BY <1>1
<1>3. ASSUME NEW k \in Nat, k \in T PROVE k + 1 \in T
  <2> SUFFICES ASSUME k + 1 <= n
               PROVE  /\ Len(g[k + 1]) = m + (k + 1)
                      /\ \A i \in 1..(m + (k + 1)) : g[k + 1][i] = IF i <= m THEN o[i] ELSE s[i - m]
    OBVIOUS
  <2>1. k + 1 \in 1..n /\ (k + 1) - 1 = k
    OBVIOUS
  <2>2. PICK u \in Seqs, e \in Pair : u = g[k] /\ e = s[k + 1]
    <3>1. k \in 0..Len(s) /\ s[k + 1] \in Pair
      BY <2>1 DEF Seqs
    <3> QED BY <1>1, <3>1
  <2>3. e = Abs!Element(NULL, e.val)
    BY <2>1, <2>2 DEF Abs!Element, Pair
  <2>4. g[k + 1] = Append(u, e)
    <3>1. e.key = NULL
      BY <2>1, <2>2
    <3>2. g[k + 1] = Joined(u, e)
      BY <1>1, <2>1, <2>2
    <3> QED BY <2>3, <3>1, <3>2 DEF Joined, Abs!PutLast
  <2>5. Len(u) = m + k /\ \A i \in 1..(m + k) : u[i] = IF i <= m THEN o[i] ELSE s[i - m]
    BY <1>3, <2>2
  <2>6. Len(g[k + 1]) = m + k + 1 /\ g[k + 1][m + k + 1] = e /\ \A i \in 1..(m + k) : g[k + 1][i] = u[i]
    BY <2>2, <2>4, <2>5 DEF Seqs
  <2>7. \A i \in 1..(m + (k + 1)) : i \in 1..(m + k) \/ i = m + k + 1
    OBVIOUS
  <2>8. ~(m + k + 1 <= m) /\ (m + k + 1) - m = k + 1 /\ m + (k + 1) = m + k + 1
    OBVIOUS
  <2>9. PICK w : w = g[k + 1]
    OBVIOUS
  <2>10. \A i \in 1..(m + k) : w[i] = IF i <= m THEN o[i] ELSE s[i - m]
    BY <2>5, <2>6, <2>9
  <2>11. w[m + k + 1] = IF m + k + 1 <= m THEN o[m + k + 1] ELSE s[(m + k + 1) - m]
    BY <2>2, <2>6, <2>8, <2>9
  <2> QED BY <2>6, <2>7, <2>8, <2>9, <2>10, <2>11
<1> HIDE DEF T
<1>4. n \in T
  BY <1>2, <1>3, AllNumbers
<1>5. PICK r \in Seqs : r = Abs!Merged(o, s)
  BY <1>1
<1>6. Len(r) = m + n /\ \A i \in 1..(m + n) : r[i] = IF i <= m THEN o[i] ELSE s[i - m]
  BY <1>1, <1>4, <1>5 DEF T
<1>7. PICK c : c = o \o s
  OBVIOUS
<1>8. c \in Seqs /\ Len(c) = m + n /\ \A i \in 1..(m + n) : c[i] = IF i <= m THEN o[i] ELSE s[i - m]
  BY <1>7, ConcatIs DEF Seqs
<1>9. \A i \in 1..(m + n) : r[i] = c[i]
  BY <1>6, <1>8
<1>10. r = c
  <2>1. r \in Seq(Pair) /\ c \in Seq(Pair) /\ Len(r) = Len(c)
    BY <1>6, <1>8 DEF Seqs
  <2> QED BY <1>6, <1>9, <2>1, SeqEqual
<1> QED BY <1>5, <1>7, <1>10

LEMMA MergeMatches ==
  ASSUME Kept, MaxLen <= NodeGrowth, NEW arg \in Args, Merge(<<arg>>), status' = "ok"
  PROVE  elems' = Abs!Merged(elems, Abs!Made(<<arg>>))
<1>1. PICK args \in Seq(Args) : args = <<arg>>
  <2>1. <<arg>> \in Seq(Args)
    OBVIOUS
  <2> QED BY <2>1
<1>2. PICK b \in Arrays : b = MkKeyArray(args)
  BY MadeIsGood
<1>3. PICK a \in Arrays : a = Arg /\ View(a) = elems
  BY ArgIs
<1>4. ~MergeAborts(a, b) /\ Assigned(ArrayMerge(a, b))
  BY <1>1, <1>2, <1>3 DEF Merge
<1>5. PICK m \in Nat, n \in Nat : m = ArrLen(a) /\ n = ArrLen(b)
  BY ViewIs
<1>6. (\A i \in 1..m : Symbol(a, i) = NULL) /\ \A i \in 1..n : Symbol(b, i) = NULL
  BY <1>4, <1>5 DEF MergeAborts, Keyed
<1>7. PICK x \in Seq(Elem), y \in Seq(Elem) : x = Elems(a) /\ y = Elems(b) /\ Len(x) = m /\ Len(y) = n
  BY <1>5, ElemIs
<1>8. /\ \A i \in 1..m : x[i].symbol = Symbol(a, i) /\ x[i].data = DataAt(a, i)
      /\ \A i \in 1..n : y[i].symbol = Symbol(b, i) /\ y[i].data = DataAt(b, i)
  BY <1>5, <1>7, ElemIs
<1>9. PICK c : c = x \o y
  OBVIOUS
<1>10. c \in Seq(Elem) /\ Len(c) = m + n /\ \A i \in 1..(m + n) : c[i] = IF i <= m THEN x[i] ELSE y[i - m]
  BY <1>7, <1>9, ConcatIs
<1>11. \A i \in 1..(m + n) : c[i].symbol = NULL
  <2> SUFFICES ASSUME NEW i \in 1..(m + n) PROVE c[i].symbol = NULL
    OBVIOUS
  <2>1. CASE i <= m
    BY <1>6, <1>8, <1>10, <2>1
  <2>2. CASE ~(i <= m)
    <3>1. i - m \in 1..n
      BY <2>2
    <3> QED BY <1>6, <1>8, <1>10, <2>2, <3>1
  <2> QED BY <2>1, <2>2
<1>12. PICK t \in Arrays : t = ArrayMerge(a, b) /\ t = Build(c)
  BY <1>7, <1>9, MergeIsGood DEF ArrayMerge
<1>13. ArrLen(t) = m + n /\ \A i \in 1..(m + n) : Symbol(t, i) = c[i].symbol /\ DataAt(t, i) = c[i].data
  <2>1. Shows(Build(c), c, Len(c))
    BY <1>10, <1>11, PlainShows
  <2> QED BY <1>10, <1>12, <2>1 DEF Shows
<1>14. elems' = View(t) /\ ArrLen(t) <= NodeGrowth
  BY <1>4, <1>12, AssignedShows
<1>15. View(b) = Abs!Made(args)
  <2>1. n <= NodeGrowth
    BY <1>13, <1>14, GrowthAssumption
  <2> QED BY <1>2, <1>5, <2>1, MadeShows
<1>16. PICK o \in Seqs, s \in Seqs : o = View(a) /\ s = View(b) /\ Len(o) = m /\ Len(s) = n
  BY <1>5, ViewIs DEF Seqs
<1>17. /\ \A i \in 1..m : o[i].key = Symbol(a, i) /\ o[i].val = DataAt(a, i)
       /\ \A i \in 1..n : s[i].key = Symbol(b, i) /\ s[i].val = DataAt(b, i)
  BY <1>5, <1>16, ViewIs
<1>18. Abs!Merged(o, s) = o \o s
  <2>1. \A i \in 1..n : s[i].key = NULL
    BY <1>6, <1>17
  <2> QED BY <1>16, <2>1, PlainMerged
<1>19. PICK u : u = o \o s
  OBVIOUS
<1>20. u \in Seq(Pair) /\ Len(u) = m + n /\ \A i \in 1..(m + n) : u[i] = IF i <= m THEN o[i] ELSE s[i - m]
  BY <1>16, <1>19, ConcatIs, SMTT(40) DEF Seqs
<1>21. \A i \in 1..(m + n) : u[i].key = Symbol(t, i) /\ u[i].val = DataAt(t, i)
  <2> SUFFICES ASSUME NEW i \in 1..(m + n) PROVE u[i].key = Symbol(t, i) /\ u[i].val = DataAt(t, i)
    OBVIOUS
  <2>1. CASE i <= m
    <3>1. i \in 1..m /\ u[i] = o[i] /\ c[i] = x[i]
      BY <1>10, <1>20, <2>1
    <3> QED BY <1>8, <1>13, <1>17, <3>1
  <2>2. CASE ~(i <= m)
    <3>1. i - m \in 1..n /\ u[i] = s[i - m] /\ c[i] = y[i - m]
      BY <1>10, <1>20, <2>2
    <3> QED BY <1>8, <1>13, <1>17, <3>1
  <2> QED BY <2>1, <2>2
<1>22. View(t) = u
  <2>1. PICK l \in Nat : l = m + n
    OBVIOUS
  <2>2. ArrLen(t) = l /\ Len(u) = l /\ \A i \in 1..l : u[i].key = Symbol(t, i) /\ u[i].val = DataAt(t, i)
    BY <1>13, <1>20, <1>21, <2>1
  <2> QED BY <1>20, <2>2, ViewEq
<1> QED BY <1>1, <1>3, <1>14, <1>15, <1>16, <1>18, <1>19, <1>22

\* One more element at the end.
LEMMA ViewAppended ==
  ASSUME NEW a \in Arrays, NEW t \in Arrays, NEW n \in Nat, n = ArrLen(a), ArrLen(t) = n + 1, NEW p \in Pair,
         \A i \in 1..n : Symbol(t, i) = Symbol(a, i) /\ DataAt(t, i) = DataAt(a, i),
         Symbol(t, n + 1) = p.key, DataAt(t, n + 1) = p.val
  PROVE  View(t) = Append(View(a), p)
<1>1. PICK s \in Seq(Pair) : s = View(a) /\ Len(s) = n
  BY ViewIs
<1>2. \A i \in 1..n : s[i].key = Symbol(a, i) /\ s[i].val = DataAt(a, i)
  BY <1>1, ViewIs
<1>3. PICK u : u = Append(s, p)
  OBVIOUS
<1>4. u \in Seq(Pair) /\ Len(u) = n + 1 /\ u[n + 1] = p /\ \A i \in 1..n : u[i] = s[i]
  BY <1>1, <1>3
<1>5. \A i \in 1..(n + 1) : u[i].key = Symbol(t, i) /\ u[i].val = DataAt(t, i)
  <2>1. \A i \in 1..(n + 1) : i \in 1..n \/ i = n + 1
    OBVIOUS
  <2> QED BY <1>2, <1>4, <2>1
<1>6. View(t) = u
  <2>1. PICK l \in Nat : l = n + 1
    OBVIOUS
  <2> QED BY <1>4, <1>5, <2>1, ViewEq
<1> QED BY <1>1, <1>3, <1>6

\* The keys of the elements that were gone through.
KeysFrom(a, s, k) == \A i \in 1..ArrLen(a) : Symbol(a, i) # NULL => \E j \in 1..k : Symbol(a, i) = s[j].symbol

LEMMA CompactShows ==
  ASSUME NEW a, Tidy(a), ArrLen(a) <= NodeGrowth
  PROVE  View(ArrayCompact(a)) = Abs!Compacted(View(a))
<1>1. a \in Arrays
  BY DEF Tidy
<1>2. PICK n \in Nat : n = ArrLen(a)
  BY <1>1, ViewIs
<1>3. PICK s \in Seq(Elem) : s = Elems(a) /\ Len(s) = n /\ KeysDiffer(s)
  BY <1>1, <1>2, ElemIs, ElemsDiffer
<1>4. PICK w \in Seqs : w = View(a) /\ Len(w) = n
  BY <1>1, <1>2, ViewIs DEF Seqs
<1>5. \A i \in 1..n : w[i] \in Pair /\ w[i].key = s[i].symbol /\ w[i].val = s[i].data
  <2>1. \A i \in 1..n : w[i].key = Symbol(a, i) /\ w[i].val = DataAt(a, i)
    BY <1>1, <1>2, <1>4, ViewIs
  <2>2. \A i \in 1..n : s[i].symbol = Symbol(a, i) /\ s[i].data = DataAt(a, i)
    BY <1>1, <1>2, <1>3, ElemIs
  <2>3. \A i \in 1..n : w[i] \in Pair
    BY <1>4 DEF Seqs
  <2> QED BY <2>1, <2>2, <2>3
<1>6. PICK f \in [0..n -> Arrays] :
        /\ f[0] = EmptyArray /\ f[n] = ArrayCompact(a)
        /\ \A k \in 1..n : f[k] = AddUnlessVoid(f[k - 1], s[k])
  BY <1>3, CompactSteps DEF ArrayCompact
<1>7. PICK g \in [0..n -> Seqs] :
        /\ g[0] = <<>> /\ g[n] = Abs!Compacted(w)
        /\ \A k \in 1..n : g[k] = Chosen(g[k - 1], w[k])
  BY <1>4, AbsCompactSteps
<1> DEFINE T == {k \in Nat : k <= n =>
                   Tidy(f[k]) /\ View(f[k]) = g[k] /\ ArrLen(f[k]) <= k /\ KeysFrom(f[k], s, k)}
<1>8. 0 \in T
  BY <1>6, <1>7, EmptyShows DEF KeysFrom
<1>9. ASSUME NEW k \in Nat, k \in T PROVE k + 1 \in T
  <2> SUFFICES ASSUME k + 1 <= n
               PROVE  /\ Tidy(f[k + 1]) /\ View(f[k + 1]) = g[k + 1]
                      /\ ArrLen(f[k + 1]) <= k + 1 /\ KeysFrom(f[k + 1], s, k + 1)
    OBVIOUS
  <2>1. k \in 0..n /\ k + 1 \in 1..n /\ k + 1 \in 0..n /\ (k + 1) - 1 = k
    OBVIOUS
  <2>2. PICK b \in Arrays, e \in Elem, t \in Arrays : b = f[k] /\ e = s[k + 1] /\ t = f[k + 1]
    BY <1>3, <1>6, <2>1
  <2>3. PICK p \in Pair : p = w[k + 1] /\ p.key = e.symbol /\ p.val = e.data
    BY <1>5, <2>1, <2>2
  <2>4. Tidy(b) /\ View(b) = g[k] /\ ArrLen(b) <= k /\ KeysFrom(b, s, k)
    BY <1>9, <2>2
  <2>5. PICK m \in Nat : m = ArrLen(b)
    BY <2>2, ViewIs
  <2>6. t = AddUnlessVoid(b, e) /\ g[k + 1] = Chosen(g[k], p)
    BY <1>6, <1>7, <2>1, <2>2, <2>3
  <2>7. CASE e.data = Void
    <3>1. t = b /\ g[k + 1] = g[k]
      BY <2>3, <2>6, <2>7 DEF AddUnlessVoid, Chosen
    <3>2. KeysFrom(t, s, k + 1)
      BY <2>4, <3>1 DEF KeysFrom
    <3> QED BY <2>2, <2>4, <2>5, <3>1, <3>2
  <2>8. CASE e.data # Void
    <3>1. t = AddCopy(b, e) /\ g[k + 1] = Append(g[k], p)
      BY <2>3, <2>6, <2>8 DEF AddUnlessVoid, Chosen
    <3>2. e.symbol # NULL => \A i \in 1..m : Symbol(b, i) # e.symbol
      <4> SUFFICES ASSUME e.symbol # NULL, NEW i \in 1..m, Symbol(b, i) = e.symbol PROVE FALSE
        OBVIOUS
      <4>1. PICK j \in 1..k : Symbol(b, i) = s[j].symbol
        BY <2>4, <2>5 DEF KeysFrom
      <4>2. j \in 1..n /\ k + 1 \in 1..n /\ s[j].symbol = s[k + 1].symbol /\ s[j].symbol # NULL
        BY <2>1, <2>2, <4>1
      <4>3. j = k + 1
        BY <1>3, <4>2 DEF KeysDiffer
      <4> QED BY <4>3
    <3>3. m < NodeGrowth
      BY <1>2, <2>4, <2>5, GrowthAssumption
    <3>4. /\ Tidy(t) /\ ArrLen(t) = m + 1
          /\ \A i \in 1..m : Symbol(t, i) = Symbol(b, i) /\ DataAt(t, i) = DataAt(b, i)
          /\ Symbol(t, m + 1) = e.symbol /\ DataAt(t, m + 1) = e.data
      BY <2>4, <2>5, <3>1, <3>2, <3>3, CopyAddedShows
    <3>5. View(t) = Append(View(b), p)
      <4>1. Symbol(t, m + 1) = p.key /\ DataAt(t, m + 1) = p.val
        BY <2>3, <3>4
      <4> QED BY <2>5, <3>4, <4>1, ViewAppended
    <3>6. KeysFrom(t, s, k + 1)
      <4> SUFFICES ASSUME NEW i \in 1..(m + 1), Symbol(t, i) # NULL PROVE \E j \in 1..(k + 1) : Symbol(t, i) = s[j].symbol
        BY <3>4 DEF KeysFrom
      <4>1. CASE i \in 1..m
        <5>1. PICK j \in 1..k : Symbol(b, i) = s[j].symbol
          BY <2>4, <2>5, <3>4, <4>1 DEF KeysFrom
        <5>2. j \in 1..(k + 1) /\ Symbol(t, i) = s[j].symbol
          BY <3>4, <4>1, <5>1
        <5> QED BY <5>2
      <4>2. CASE i = m + 1
        <5>1. k + 1 \in 1..(k + 1) /\ Symbol(t, i) = s[k + 1].symbol
          BY <2>2, <3>4, <4>2
        <5> QED BY <5>1
      <4>3. i \in 1..m \/ i = m + 1
        OBVIOUS
      <4> QED BY <4>1, <4>2, <4>3
    <3> QED BY <2>2, <2>4, <2>5, <3>1, <3>4, <3>5, <3>6
  <2> QED BY <2>7, <2>8
<1> HIDE DEF T
<1>10. n \in T
  BY <1>8, <1>9, AllNumbers
<1> QED BY <1>4, <1>6, <1>7, <1>10 DEF T

LEMMA CompactMatches ==
  ASSUME Kept, MaxLen <= NodeGrowth, Compact
  PROVE  elems' = Abs!Compacted(elems)
<1>1. Tidy(Arg) /\ View(Arg) = elems /\ ArrLen(Arg) <= NodeGrowth /\ Arg \in Arrays
  BY ArgShows, ArgIs, KeptTidy
<1>2. elems' = View(ArrayCompact(Arg))
  BY <1>1, CompactIsGood, AssignedShows DEF Compact
<1>3. View(ArrayCompact(Arg)) = Abs!Compacted(View(Arg))
  BY <1>1, CompactShows
<1> QED BY <1>1, <1>2, <1>3

\* Every call changes the elements as the manual says.
LEMMA StepMatches ==
  ASSUME Kept, MaxLen <= NodeGrowth
  PROVE  StepsMatch
<1>1. \A w \in Wheres, v \in Data : StoreAt(w, v) => elems' = Abs!Put(elems, w, v)
  BY StoreMatches
<1>2. \A args \in ArgLists : Make(args) => elems' = Abs!Made(args)
  BY MakeMatches
<1>3. \A arg \in Args : Merge(<<arg>>) /\ status' = "ok" => elems' = Abs!Merged(elems, Abs!Made(<<arg>>))
  BY MergeMatches
<1>4. \A p \in Positions : Unset(p) => elems' = Abs!Unset(elems, p)
  BY UnsetMatches
<1>5. Compact => elems' = Abs!Compacted(elems)
  BY CompactMatches
<1>6. TurnAround => elems' = Reverse(elems)
  BY TurnMatches
<1>7. Sort => elems' \in Abs!Rearranged(elems) /\ Abs!InOrder(elems')
  BY SortMatches
<1>8. Copied => elems' = elems
  BY CopiedMatches
<1>9. TakeTail => elems' = Abs!List(Abs!Part(elems, 2, Len(elems)))
  BY TailMatches
<1>10. TakeInitial => elems' = Abs!List(Abs!Part(elems, 1, Len(elems) - 1))
  BY InitialMatches
<1>11. \A v \in ArgData : /\ Prepend(v) => elems' = Abs!Consed(v, elems)
                          /\ Intersperse(v) => Abs!Interspersed(elems', elems, v)
  BY PrependMatches, IntersperseMatches
<1>12. \A n \in Counts :
         /\ TakeFirst(n) => elems' = Abs!List(Abs!Part(elems, 1, n))
         /\ Drop(n) /\ n >= 0 => elems' = Abs!List(Abs!Part(elems, n + 1, Len(elems)))
         /\ \A v \in ArgData : Replicate(v, n) => elems' = Abs!List([i \in 1..n |-> v])
  BY TakeMatches, DropMatches, ReplicateMatches
<1> QED BY <1>1, <1>2, <1>3, <1>4, <1>5, <1>6, <1>7, <1>8, <1>9, <1>10, <1>11, <1>12, Zenon DEF StepsMatch

\* The arrays of a script are ordered maps (value_array.c, value_copy.c, array.c,
\* intend_list.c): each call does to the elements, their keys and their order
\* what the manual says of it, for arrays that are not longer than a node.
THEOREM ArraysImplementOrderedMap == MaxLen <= NodeGrowth => (Spec => ImplementsOrderedMap)
<1> SUFFICES ASSUME MaxLen <= NodeGrowth PROVE Spec => ImplementsOrderedMap
  OBVIOUS
<1>1. Init => Abs!Init
  BY EmptyShows DEF Init, Abs!Init, elems, View
<1>2. Kept => StepsMatch
  BY StepMatches
<1> QED BY <1>1, <1>2, InitKept, StepKeeps, PTL DEF Spec, ImplementsOrderedMap
=============================================================================
