----------------------------- MODULE ValueArray -----------------------------
(***************************************************************************)
(* Arrays (libruntime/value_array.c, value_copy.c, libstdlib/array.c).  An  *)
(* array keeps a vector of pointers to entries.  An entry without a key is  *)
(* a block of its own; an entry with one sits in the key table, in a slot   *)
(* of a node, and the pointer goes right into the node's vector, which the  *)
(* next key of the same bucket may reallocate.                              *)
(*                                                                          *)
(* One variable of a script and what the script can do to it.               *)
(***************************************************************************)
EXTENDS Symtab, SequencesExt

CONSTANTS
  Void,        \* the void value, one of Data
  Rank,        \* the order of the values of one type
  NodeGrowth,  \* SYMTAB_NODE_GROWTH (20 in the source)
  MaxLen,      \* bound on the elements of an array
  ArgData,     \* the values given to mkkeyarray and array_merge, some of Data
  MaxArgs      \* bound on the pairs given to mkkeyarray

ASSUME DataAssumption == Void \in Data /\ ArgData \subseteq Data /\ Rank \in [Data -> Int]
ASSUME GrowthAssumption == NodeGrowth \in Nat \ {0} /\ MaxLen \in Nat /\ MaxArgs \in Nat

VARIABLES
  arr,         \* the array the variable holds
  status       \* "ok", or "aborted" once a call has brought the interpreter down

vars == <<arr, status>>

\* keys: the key table; base: how often a node has been moved; values: the
\* vector of pointers.
EmptyArray == [keys |-> NewTable, base |-> [b \in Buckets |-> 0], values |-> <<>>]

InHeap(v)       == [at |-> "heap", data |-> v]
InNode(b, i, k) == [at |-> "node", bucket |-> b, index |-> i, base |-> k]

\* A pointer into a node that was moved points to memory that was freed.
Fresh(a, p) == p.at = "node" => p.base = a.base[p.bucket]
Freed == [symbol |-> NULL, data |-> "freed"]
Read(a, p) ==
  CASE p.at = "heap" -> [symbol |-> NULL, data |-> p.data]
    [] p.at = "node" /\ Fresh(a, p) -> a.keys[p.bucket][p.index]
    [] OTHER -> Freed

ArrLen(a) == Len(a.values)
Symbol(a, i) == Read(a, a.values[i]).symbol
DataAt(a, i) == Read(a, a.values[i]).data

Write(a, i, v) ==
  LET p == a.values[i]
  IN CASE p.at = "heap" -> [a EXCEPT !.values[i].data = v]
       [] p.at = "node" /\ Fresh(a, p) -> [a EXCEPT !.keys[p.bucket][p.index].data = v]
       [] OTHER -> a
-----------------------------------------------------------------------------
(* value_array.c *)

\* symtab_node_add moves the vector of a node when it is full.
FullNode(t, k) == Len(t[Hash[k]]) > 0 /\ Len(t[Hash[k]]) % NodeGrowth = 0

AddToArray(a, v) == [a EXCEPT !.values = Append(@, InHeap(v))]

\* An entry that exists is given the value, a new one goes to the end.
ListedTwice(a, k, v) ==                          \* mutant of AddToKeyArray
  LET keys == AddVariable(a.keys, k, v)
  IN [a EXCEPT !.keys = keys,
               !.values = Append(@, InNode(Hash[k], Index(keys, k), a.base[Hash[k]]))]
AddToKeyArray(a, k, v) ==
  LET keys == AddVariable(a.keys, k, v)
      base == [a.base EXCEPT ![Hash[k]] = @ + (IF FullNode(a.keys, k) THEN 1 ELSE 0)]
  IN IF Found(a.keys, k) THEN [a EXCEPT !.keys = keys]
     ELSE [keys |-> keys, base |-> base,
           values |-> Append(a.values, InNode(Hash[k], Index(keys, k), base[Hash[k]]))]

\* A negative index counts from the end; in an assignment the first element is
\* the least, and the elements up to a large index are filled with void.
OneLess(a, pos) == IF pos < 0 THEN ArrLen(a) + pos - 1 ELSE pos   \* mutant of FromEnd
FromEnd(a, pos) == IF pos < 0 THEN ArrLen(a) + pos ELSE pos
ClampedPos(a, pos) == IF FromEnd(a, pos) < 0 THEN 0 ELSE FromEnd(a, pos)
Filled(a, n) == [a EXCEPT !.values = @ \o [i \in 1..(n - ArrLen(a)) |-> InHeap(Void)]]
SetArray(a, pos, v) ==
  LET p == ClampedPos(a, pos)
  IN IF p >= ArrLen(a) THEN AddToArray(Filled(a, p), v) ELSE Write(a, p + 1, v)

InBounds(a, pos) == FromEnd(a, pos) \in 0..(ArrLen(a) - 1)
GetArray(a, pos) == IF InBounds(a, pos) THEN DataAt(a, FromEnd(a, pos) + 1) ELSE Void
GetKeyArray(a, k) == IF Found(a.keys, k) THEN Lookup(a.keys, k).data ELSE Void

\* The value is released, and not made void: mutant of DeleteArray.
LeftFreed(a, pos) == IF InBounds(a, pos) THEN Write(a, FromEnd(a, pos) + 1, "freed") ELSE a
DeleteArray(a, pos) == IF InBounds(a, pos) THEN Write(a, FromEnd(a, pos) + 1, Void) ELSE a

\* An assignment through an index (eval_assign.c): where to write.
Store(a, where, v) == CASE where.by = "pos" -> SetArray(a, where.pos, v)
                        [] where.by = "key" -> AddToKeyArray(a, where.key, v)
                        [] where.by = "end" -> AddToArray(a, v)

\* copy_array, and the calls of array.c that build a new array the same way
\* from a list of the elements of another.
KeyLost(a, e) == AddToArray(a, e.data)           \* mutant of AddCopy
AddCopy(a, e) == IF e.symbol # NULL THEN AddToKeyArray(a, e.symbol, e.data)
                                    ELSE AddToArray(a, e.data)
Elems(a) == [i \in 1..ArrLen(a) |-> [symbol |-> Symbol(a, i), data |-> DataAt(a, i)]]
Build(s) == FoldLeft(AddCopy, EmptyArray, s)
CopyArray(a) == Build(Elems(a))

(* modules/list/intend_list.c: the elements from one position to before another, *)
(* which lose their keys.  A negative position counts from the end here too.     *)
Items(a, from, to) == [i \in 1..(to - from) |-> GetArray(a, from + i - 1)]
ListOf(s)             == FoldLeft(AddToArray, EmptyArray, s)
ListCons(v, a)        == ListOf(<<v>> \o Items(a, 0, ArrLen(a)))
ListTail(a)           == ListOf(Items(a, 1, ArrLen(a)))
ListInitial(a)        == ListOf(Items(a, 0, ArrLen(a) - 1))
ListTake(a, n)        == ListOf(Items(a, 0, Min({n, ArrLen(a)})))
ListDrop(a, n)        == ListOf(Items(a, Min({n, ArrLen(a)}), ArrLen(a)))
ListIntersperse(a, v) == ListOf([i \in 1..(2 * ArrLen(a) - 1) |->
                                   IF i % 2 = 1 THEN GetArray(a, i \div 2) ELSE v])
ListReplicate(v, n)   == ListOf([i \in 1..n |-> v])

(* libstdlib/array.c *)
MkKeyArray(args) == FoldLeft(LAMBDA a, x : Store(a, x.where, x.val), EmptyArray, args)
AddUnlessVoid(a, e) == IF e.data = Void THEN a ELSE AddCopy(a, e)
ArrayCompact(a)  == FoldLeft(AddUnlessVoid, EmptyArray, Elems(a))
ArrayReverse(a)  == Build(Reverse(Elems(a)))

\* qsort moves the pointers of the argument; with values of different types the
\* order is not one.
Sorted(a) == (\A i \in 1..ArrLen(a) : DataAt(a, i) # Void)
               => \A i \in 1..(ArrLen(a) - 1) : Rank[DataAt(a, i)] <= Rank[DataAt(a, i + 1)]
ArraySort(a) ==
  {CopyArray(s) : s \in {t \in {[a EXCEPT !.values = [i \in 1..ArrLen(a) |-> a.values[p[i]]]] :
                                  p \in Bijection(1..ArrLen(a), 1..ArrLen(a))} : Sorted(t)}}

\* array_merge takes the key of an element from the result, where it has no
\* entry at that place (a null pointer) or one without a key (refused by
\* symtab_add_variable): a first key always ends the interpreter.
Keyed(a) == \E i \in 1..ArrLen(a) : Symbol(a, i) # NULL
MergeAborts(a, b) == Keyed(a) \/ Keyed(b)
ArrayMerge(a, b)  == Build(Elems(a) \o Elems(b))
-----------------------------------------------------------------------------
\* A value passed to a function is a copy, and so is one that is assigned.
Assigned(a) == ArrLen(a) <= MaxLen /\ arr' = CopyArray(a) /\ UNCHANGED status
Arg == CopyArray(arr)

Positions == -(MaxLen + 1)..(MaxLen - 1)
Wheres == {[by |-> "pos", pos |-> p] : p \in Positions} \cup {[by |-> "key", key |-> k] : k \in Names}
Args == [where : Wheres \cup {[by |-> "end"]}, val : ArgData]
ArgLists == BoundedSeq(Args, MaxArgs)

Init == arr = EmptyArray /\ status = "ok"

StoreAt(where, v) ==
  /\ arr' = Store(arr, where, v) /\ ArrLen(arr') <= MaxLen
  /\ UNCHANGED status
\* Made arrays do not depend on the old value: they are made from an empty one.
Make(args)   == ArrLen(arr) = 0 /\ Assigned(MkKeyArray(args))
Unset(pos)   == Assigned(DeleteArray(Arg, pos))
Compact      == Assigned(ArrayCompact(Arg))
TurnAround   == Assigned(ArrayReverse(Arg))
Sort         == \E a \in ArraySort(Arg) : Assigned(a)
Copied       == Assigned(arr)
Merge(args)  ==
  LET other == MkKeyArray(args)
  IN IF MergeAborts(Arg, other)
     THEN status' = "aborted" /\ UNCHANGED arr
     ELSE Assigned(ArrayMerge(Arg, other))

Counts == -2..(MaxLen + 1)
Prepend(v)        == Assigned(ListCons(v, Arg))
TakeTail       == Assigned(ListTail(Arg))
TakeInitial    == Assigned(ListInitial(Arg))
TakeFirst(n)   == Assigned(ListTake(Arg, n))
Drop(n)        == Assigned(ListDrop(Arg, n))
Intersperse(v) == Assigned(ListIntersperse(Arg, v))
Replicate(v, n) == ArrLen(arr) = 0 /\ Assigned(ListReplicate(v, n))

Next ==
  /\ status = "ok"
  /\ \/ \E w \in Wheres, v \in Data : StoreAt(w, v)
     \/ \E args \in ArgLists : Make(args)
     \/ \E arg \in Args : Merge(<<arg>>)
     \/ \E p \in Positions : Unset(p)
     \/ Compact \/ TurnAround \/ Sort \/ Copied
     \/ TakeTail \/ TakeInitial
     \/ \E v \in ArgData : Prepend(v) \/ Intersperse(v)
     \/ \E n \in Counts : TakeFirst(n) \/ Drop(n) \/ \E v \in ArgData : Replicate(v, n)

Spec == Init /\ [][Next]_vars
-----------------------------------------------------------------------------
(* Properties. *)

\* The types of the variables.
Pointers == [at : {"heap"}, data : Data]
              \cup [at : {"node"}, bucket : Buckets, index : 1..MaxLen, base : 0..MaxLen]
TypeOK ==
  /\ arr.keys \in [Buckets -> BoundedSeq(Slot, MaxLen)]
  /\ arr.base \in [Buckets -> 0..MaxLen]
  /\ arr.values \in BoundedSeq(Pointers, MaxLen)
  /\ status \in {"ok", "aborted"}

\* Every entry of the key table is listed once, and every pointer leads to a
\* live entry: value_cleanup releases every entry, and each of them once.
NodePlaces(a) == {i \in 1..ArrLen(a) : a.values[i].at = "node"}
LivePlaces(a) == {p \in Buckets \X (1..MaxLen) :
                    p[2] <= Len(a.keys[p[1]]) /\ a.keys[p[1]][p[2]] # Dead}
PointersProper ==
  /\ \A i \in NodePlaces(arr) : Fresh(arr, arr.values[i])
  /\ {<<arr.values[i].bucket, arr.values[i].index>> : i \in NodePlaces(arr)} = LivePlaces(arr)
  /\ \A i, j \in NodePlaces(arr) :
       /\ arr.values[i].bucket = arr.values[j].bucket
       /\ arr.values[i].index = arr.values[j].index
       => i = j

\* The elements the array stands for.
elems == [i \in 1..ArrLen(arr) |-> [key |-> Symbol(arr, i), val |-> DataAt(arr, i)]]
Abs == INSTANCE OrderedMap WITH Keys <- Names, Values <- Data, NoKey <- NULL

\* An array is an ordered map: it starts empty, and every call changes the
\* elements, their order and their keys as the manual says; drop is only
\* described for counts that are not negative.
StepsMatch ==
  /\ \A w \in Wheres, v \in Data : StoreAt(w, v) => elems' = Abs!Put(elems, w, v)
  /\ \A args \in ArgLists : Make(args) => elems' = Abs!Made(args)
  /\ \A arg \in Args :
       Merge(<<arg>>) /\ status' = "ok" => elems' = Abs!Merged(elems, Abs!Made(<<arg>>))
  /\ \A p \in Positions : Unset(p) => elems' = Abs!Unset(elems, p)
  /\ Compact => elems' = Abs!Compacted(elems)
  /\ TurnAround => elems' = Reverse(elems)
  /\ Sort => elems' \in Abs!Rearranged(elems) /\ Abs!InOrder(elems')
  /\ Copied => elems' = elems
  /\ TakeTail => elems' = Abs!List(Abs!Part(elems, 2, Len(elems)))
  /\ TakeInitial => elems' = Abs!List(Abs!Part(elems, 1, Len(elems) - 1))
  /\ \A v \in ArgData : /\ Prepend(v) => elems' = Abs!Consed(v, elems)
                        /\ Intersperse(v) => Abs!Interspersed(elems', elems, v)
  /\ \A n \in Counts : /\ TakeFirst(n) => elems' = Abs!List(Abs!Part(elems, 1, n))
                       /\ Drop(n) /\ n >= 0 => elems' = Abs!List(Abs!Part(elems, n + 1, Len(elems)))
                       /\ \A v \in ArgData : Replicate(v, n) => elems' = Abs!List([i \in 1..n |-> v])
ImplementsOrderedMap == Abs!Init /\ [][StepsMatch]_vars

\* A reference gives the element the assignments put there, by index and by key.
ReadsRight ==
  /\ \A p \in Positions : GetArray(arr, p) = Abs!At(elems, p)
  /\ \A k \in Names : GetKeyArray(arr, k) = Abs!OfKey(elems, k)

\* "And then access them with [a key] or with the corresponding numeric index"
SameByIndex ==
  \A k \in Names : Found(arr.keys, k) =>
    \E p \in 0..(ArrLen(arr) - 1) : GetArray(arr, p) = GetKeyArray(arr, k)

\* No call of a script ends the interpreter.
NeverAborts == status = "ok"
=============================================================================
