----------------------------- MODULE OrderedMap -----------------------------
(***************************************************************************)
(* What the manual promises of an array: a numbered collection of values,  *)
(* some of which also have a key.                                           *)
(***************************************************************************)
EXTENDS Integers, SequencesExt

CONSTANTS
  Keys,        \* string keys
  Values,      \* values of elements
  NoKey,       \* in place of the key of an element without one
  Void,        \* the void value
  Rank         \* the order of the values of one type

VARIABLE elems \* the elements in their order

Element(k, v) == [key |-> k, val |-> v]
Elements      == Seq([key : Keys \cup {NoKey}, val : Values])

Init == elems = <<>>

\* Where a key is: a set with at most one place.
PlacesOf(s, k) == {i \in 1..Len(s) : s[i].key = k}

PutLast(s, v)   == Append(s, Element(NoKey, v))
PutKey(s, k, v) == IF PlacesOf(s, k) = {} THEN Append(s, Element(k, v))
                   ELSE [i \in 1..Len(s) |-> IF s[i].key = k THEN Element(k, v) ELSE s[i]]

\* "If a negative array index is used in an assignment that does not fall into
\* the bounds of the array, the effect is to assign to the first element"; an
\* index behind the end makes the array longer.
Place(s, pos) == LET p == IF pos < 0 THEN Len(s) + pos ELSE pos
                 IN  IF p < 0 THEN 1 ELSE p + 1
PutAt(s, pos, v) ==
  [i \in 1..(IF Place(s, pos) > Len(s) THEN Place(s, pos) ELSE Len(s)) |->
     IF i = Place(s, pos) THEN Element(IF i <= Len(s) THEN s[i].key ELSE NoKey, v)
     ELSE IF i <= Len(s) THEN s[i] ELSE Element(NoKey, Void)]

Put(s, where, v) == CASE where.by = "pos" -> PutAt(s, where.pos, v)
                      [] where.by = "key" -> PutKey(s, where.key, v)
                      [] where.by = "end" -> PutLast(s, v)

\* An index of a reference that is not valid gives a void value.
At(s, pos) == LET p == IF pos < 0 THEN Len(s) + pos ELSE pos
              IN  IF p \in 0..(Len(s) - 1) THEN s[p + 1].val ELSE Void
OfKey(s, k) == IF PlacesOf(s, k) = {} THEN Void
               ELSE s[CHOOSE i \in PlacesOf(s, k) : TRUE].val

Made(args)     == FoldLeft(LAMBDA s, a : Put(s, a.where, a.val), <<>>, args)
Compacted(s)   == FoldLeft(LAMBDA u, e : IF e.val = Void THEN u ELSE Append(u, e), <<>>, s)
Merged(s, t)   == FoldLeft(LAMBDA u, e : IF e.key = NoKey THEN PutLast(u, e.val)
                                                            ELSE PutKey(u, e.key, e.val), s, t)
Unset(s, pos)  == LET p == IF pos < 0 THEN Len(s) + pos ELSE pos
                  IN  IF p \in 0..(Len(s) - 1) THEN [s EXCEPT ![p + 1].val = Void] ELSE s

\* The list functions: what they return has no keys.  Less elements are there
\* when there are not enough.
List(values)  == [i \in 1..Len(values) |-> Element(NoKey, values[i])]
Part(s, m, n) == LET t == SubSeq(s, m, IF n > Len(s) THEN Len(s) ELSE n)
                 IN  [i \in 1..Len(t) |-> t[i].val]
Consed(v, s)  == <<Element(NoKey, v)>> \o List(Part(s, 1, Len(s)))
Interspersed(t, s, v) ==
  /\ Len(t) = IF s = <<>> THEN 0 ELSE Len(s) + Len(s) - 1
  /\ \A i \in 1..Len(s) : t[2 * i - 1] = Element(NoKey, s[i].val)
  /\ \A i \in 1..(Len(s) - 1) : t[2 * i] = Element(NoKey, v)

\* The order is uncertain when the values are of different types.
Rearranged(s) == {[i \in 1..Len(s) |-> s[p[i]]] : p \in Bijection(1..Len(s), 1..Len(s))}
InOrder(s)    == (\A i \in 1..Len(s) : s[i].val # Void)
                   => \A i \in 1..(Len(s) - 1) : Rank[s[i].val] <= Rank[s[i + 1].val]
=============================================================================
