----------------------------- MODULE Induction -----------------------------
(***************************************************************************)
(* Induction over the natural numbers, as lemmas about sets of numbers,    *)
(* and what it says of a fold over a sequence: the table of its results    *)
(* exists, and each result comes from the one before.  With it sums, more  *)
(* about sequences, and forests: the values of a set that are in a family  *)
(* of sequences, each in one of them, once.                                *)
(***************************************************************************)
EXTENDS Integers, SequencesExt, SequenceTheorems, WellFoundedInduction, TLAPS

Less_ == {p \in Nat \X Nat : p[1] < p[2]}

\* A set of numbers has a least one.
LEMMA LeastNumber ==
  ASSUME NEW T \in SUBSET Nat, T # {}
  PROVE  \E x \in T : \A y \in T : x <= y
<1>1. IsWellFoundedOn(Less_, Nat)
  BY NatLessThanWellFounded, Zenon DEF OpToRel, Less_
<1>2. PICK x \in T : \A y \in T : <<y, x>> \notin Less_
  BY <1>1, WFMin
<1>3. ASSUME NEW y \in T PROVE x <= y
  <2>1. <<y, x>> \in Less_ <=> y < x
    BY DEF Less_
  <2> QED BY <1>2, <2>1
<1> QED BY <1>3

\* What holds of 0, and of the next number of each it holds of, holds of all.
LEMMA AllNumbers ==
  ASSUME NEW S, 0 \in S, \A n \in Nat : n \in S => n + 1 \in S
  PROVE  Nat \subseteq S
<1> SUFFICES ASSUME Nat \ S # {} PROVE FALSE
  OBVIOUS
<1>1. PICK x \in Nat \ S : \A y \in Nat \ S : x <= y
  BY LeastNumber
<1>2. x # 0 /\ x - 1 \in Nat /\ x - 1 \notin Nat \ S
  BY <1>1
<1> QED BY <1>1, <1>2
-----------------------------------------------------------------------------
\* FoldLeft goes through the sets of the places 1..k of a sequence.
LEMMA LastPlace ==
  ASSUME NEW k \in Nat, NEW t \in SUBSET (1..k), k \in t
  PROVE  Max(t) = k
<1>1. \A x \in t : x <= k /\ x \in Int
  OBVIOUS
<1>2. PICK m : m = CHOOSE x \in t : \A y \in t : x >= y
  OBVIOUS
<1>3. m \in t /\ \A y \in t : m >= y
  BY <1>1, <1>2
<1>4. m = k
  BY <1>1, <1>3
<1> QED BY <1>2, <1>4 DEF Max

LEMMA MaxIsIn ==
  ASSUME NEW k \in Nat, NEW t \in SUBSET (1..k), t # {}
  PROVE  Max(t) \in t
<1> DEFINE D == {k - x : x \in t}
<1>1. D \in SUBSET Nat /\ D # {}
  <2>1. \A x \in t : k - x \in Nat
    OBVIOUS
  <2> QED BY <2>1
<1>2. PICK d \in D : \A e \in D : d <= e
  BY <1>1, LeastNumber
<1>3. PICK m \in t : d = k - m
  BY <1>2
<1>4. \A y \in t : k - y \in D
  OBVIOUS
<1>5. \A y \in t : m >= y
  BY <1>2, <1>3, <1>4
<1> QED BY <1>5 DEF Max

LEMMA FoldedIn ==
  ASSUME NEW E, NEW s \in Seq(E), NEW t \in SUBSET (1..Len(s)), t # {}
  PROVE  t \ {Max(t)} \in SUBSET (1..Len(s)) /\ s[Max(t)] \in E
<1>1. PICK m \in t : m = Max(t)
  <2>1. Len(s) \in Nat
    OBVIOUS
  <2> QED BY <2>1, MaxIsIn
<1>2. s[m] \in E
  OBVIOUS
<1> QED BY <1>1, <1>2

\* The tables of a fold over s with the function G, which stays in A: by the
\* set of the places folded, and by their number.
FoldTables(A, base, G, s) ==
  {f \in [SUBSET (1..Len(s)) -> A] :
     \A t \in SUBSET (1..Len(s)) : f[t] = IF t = {} THEN base ELSE G[<<f[t \ {Max(t)}], s[Max(t)]>>]}
FoldRuns(A, base, G, s) ==
  {f \in [0..Len(s) -> A] : f[0] = base /\ \A k \in 1..Len(s) : f[k] = G[<<f[k - 1], s[k]>>]}
FoldObeys(A, base, G, s, h) ==
  /\ h[{}] = base
  /\ \A t \in SUBSET (1..Len(s)) :
       t # {} /\ h[t \ {Max(t)}] \in A => h[t] = G[<<h[t \ {Max(t)}], s[Max(t)]>>]
FoldReaches(A, base, G, s, x) == \E f \in FoldRuns(A, base, G, s) : f[Len(s)] = x

LEMMA FoldExists ==
  ASSUME NEW A, NEW E, NEW base \in A, NEW G \in [A \X E -> A], NEW s \in Seq(E)
  PROVE  FoldTables(A, base, G, s) # {}
<1> DEFINE Right(f, t) == f[t] = IF t = {} THEN base ELSE G[<<f[t \ {Max(t)}], s[Max(t)]>>]
           Tables(k) == {f \in [SUBSET (1..k) -> A] : \A t \in SUBSET (1..k) : Right(f, t)}
           T == {k \in Nat : k <= Len(s) => Tables(k) # {}}
<1>1. 0 \in T
  <2> DEFINE f == [t \in SUBSET (1..0) |-> base]
  <2>1. \A t \in SUBSET (1..0) : t = {}
    OBVIOUS
  <2>2. f \in Tables(0)
    BY <2>1
  <2> QED BY <2>2
<1>2. ASSUME NEW k \in Nat, k \in T PROVE k + 1 \in T
  <2> HIDE DEF Tables
  <2> SUFFICES ASSUME k + 1 <= Len(s) PROVE Tables(k + 1) # {}
    OBVIOUS
  <2>1. k <= Len(s)
    OBVIOUS
  <2>2. Tables(k) # {}
    BY <1>2, <2>1
  <2>3. PICK f \in [SUBSET (1..k) -> A] : \A t \in SUBSET (1..k) : Right(f, t)
    BY <2>2 DEF Tables
  <2> DEFINE g == [t \in SUBSET (1..(k + 1)) |-> IF k + 1 \in t THEN G[<<f[t \ {k + 1}], s[k + 1]>>] ELSE f[t]]
  <2>4. s[k + 1] \in E
    OBVIOUS
  <2>5. \A t \in SUBSET (1..(k + 1)) : t \ {k + 1} \in SUBSET (1..k) /\ (k + 1 \notin t => t \in SUBSET (1..k))
    OBVIOUS
  <2>6. g \in [SUBSET (1..(k + 1)) -> A]
    BY <2>4, <2>5
  <2>7. ASSUME NEW t \in SUBSET (1..(k + 1)) PROVE Right(g, t)
    <3>1. CASE k + 1 \in t
      <4>1. Max(t) = k + 1
        BY <3>1, LastPlace
      <4>2. g[t] = G[<<f[t \ {k + 1}], s[k + 1]>>]
        BY <3>1
      <4>3. t \ {k + 1} \in SUBSET (1..(k + 1)) /\ k + 1 \notin t \ {k + 1}
        OBVIOUS
      <4>4. g[t \ {k + 1}] = f[t \ {k + 1}]
        BY <4>3
      <4> QED BY <3>1, <4>1, <4>2, <4>4
    <3>2. CASE k + 1 \notin t
      <4>1. t \in SUBSET (1..k) /\ g[t] = f[t] /\ Right(f, t)
        BY <2>3, <2>5, <3>2
      <4>2. g[t \ {Max(t)}] = f[t \ {Max(t)}]
        BY <3>2
      <4> QED BY <4>1, <4>2
    <3> QED BY <3>1, <3>2
  <2> HIDE DEF g
  <2>8. g \in Tables(k + 1)
    BY <2>6, <2>7 DEF Tables
  <2> QED BY <2>8
<1> HIDE DEF T
<1>3. Nat \subseteq T
  BY <1>1, <1>2, AllNumbers
<1> HIDE DEF Tables
<1>4. Tables(Len(s)) # {}
  BY <1>3 DEF T
<1> QED BY <1>4 DEF Tables, FoldTables

\* The results one after the other.
LEMMA FoldSteps ==
  ASSUME NEW A, NEW E, NEW base \in A, NEW G \in [A \X E -> A], NEW s \in Seq(E), NEW h,
         FoldObeys(A, base, G, s, h)
  PROVE  FoldReaches(A, base, G, s, h[DOMAIN s])
<1> DEFINE T == {k \in Nat : k <= Len(s) => h[1..k] \in A}
           f == [k \in 0..Len(s) |-> h[1..k]]
<1> USE DEF FoldObeys
<1>1. \A k \in 1..Len(s) : /\ 1..k \in SUBSET (1..Len(s)) /\ 1..k # {}
                           /\ Max(1..k) = k /\ (1..k) \ {k} = 1..(k - 1)
  <2> SUFFICES ASSUME NEW k \in 1..Len(s)
               PROVE  /\ 1..k \in SUBSET (1..Len(s)) /\ 1..k # {}
                      /\ Max(1..k) = k /\ (1..k) \ {k} = 1..(k - 1)
    OBVIOUS
  <2>1. k \in Nat /\ k \in 1..k /\ 1..k \in SUBSET (1..k)
    OBVIOUS
  <2>2. Max(1..k) = k
    BY <2>1, LastPlace
  <2>3. 1..k \subseteq 1..Len(s) /\ (1..k) \ {k} = 1..(k - 1)
    OBVIOUS
  <2> QED BY <2>1, <2>2, <2>3
<1>2. ASSUME NEW k \in 1..Len(s), h[1..(k - 1)] \in A
      PROVE  h[1..k] = G[<<h[1..(k - 1)], s[k]>>] /\ h[1..k] \in A
  <2>1. h[1..k] = G[<<h[1..(k - 1)], s[k]>>]
    BY <1>1, <1>2
  <2>2. s[k] \in E
    OBVIOUS
  <2> QED BY <1>2, <2>1, <2>2
<1>3. 0 \in T
  <2>1. 1..0 = {}
    OBVIOUS
  <2> QED BY <2>1
<1>4. ASSUME NEW k \in Nat, k \in T PROVE k + 1 \in T
  <2>1. CASE k + 1 <= Len(s)
    <3>1. k + 1 \in 1..Len(s) /\ (k + 1) - 1 = k /\ k <= Len(s)
      BY <2>1
    <3>2. h[1..((k + 1) - 1)] \in A
      BY <1>4, <3>1
    <3>3. h[1..(k + 1)] \in A
      BY <1>2, <3>1, <3>2
    <3> QED BY <3>3
  <2>2. CASE ~(k + 1 <= Len(s))
    BY <2>2
  <2> QED BY <2>1, <2>2
<1> HIDE DEF T
<1>5. \A k \in 0..Len(s) : h[1..k] \in A
  <2>1. Nat \subseteq T
    BY <1>3, <1>4, AllNumbers
  <2> QED BY <2>1 DEF T
<1>6. f \in [0..Len(s) -> A]
  BY <1>5
<1>7. f[0] = base /\ f[Len(s)] = h[DOMAIN s]
  <2>1. 1..0 = {} /\ DOMAIN s = 1..Len(s) /\ 0 \in 0..Len(s) /\ Len(s) \in 0..Len(s)
    OBVIOUS
  <2> QED BY <2>1
<1>8. \A k \in 1..Len(s) : f[k] = G[<<f[k - 1], s[k]>>]
  <2> SUFFICES ASSUME NEW k \in 1..Len(s) PROVE f[k] = G[<<f[k - 1], s[k]>>]
    OBVIOUS
  <2>1. k \in 0..Len(s) /\ k - 1 \in 0..Len(s)
    OBVIOUS
  <2> QED BY <1>2, <1>5, <2>1
<1>9. f \in FoldRuns(A, base, G, s)
  BY <1>6, <1>7, <1>8 DEF FoldRuns
<1> QED BY <1>7, <1>9 DEF FoldReaches

LEMMA FoldRunExists ==
  ASSUME NEW A, NEW E, NEW base \in A, NEW G \in [A \X E -> A], NEW s \in Seq(E)
  PROVE  FoldRuns(A, base, G, s) # {}
<1>1. PICK g \in FoldTables(A, base, G, s) : TRUE
  BY FoldExists, Zenon
<1>2. FoldObeys(A, base, G, s, g)
  <2>1. \A t \in SUBSET (1..Len(s)) : g[t] = IF t = {} THEN base ELSE G[<<g[t \ {Max(t)}], s[Max(t)]>>]
    BY <1>1 DEF FoldTables
  <2>2. {} \in SUBSET (1..Len(s))
    OBVIOUS
  <2>3. g[{}] = base
    BY <2>1, <2>2
  <2> QED BY <2>1, <2>3 DEF FoldObeys
<1>3. FoldReaches(A, base, G, s, g[DOMAIN s])
  BY <1>2, FoldSteps, Zenon
<1> QED BY <1>3 DEF FoldReaches

\* The result for a sequence with one more element.
FoldGrows(A, E, base, G, s, e, x, y) ==
  /\ base \in A /\ G \in [A \X E -> A] /\ s \in Seq(E) /\ e \in E
  /\ FoldReaches(A, base, G, s, x) /\ FoldReaches(A, base, G, Append(s, e), y)

LEMMA FoldExtends ==
  ASSUME NEW A, NEW E, NEW base, NEW G, NEW s, NEW e, NEW x, NEW y,
         FoldGrows(A, E, base, G, s, e, x, y)
  PROVE  x \in A /\ y = G[<<x, e>>]
<1> USE DEF FoldGrows
<1>1. PICK f \in FoldRuns(A, base, G, s) : f[Len(s)] = x
  BY DEF FoldReaches
<1>2. PICK g \in FoldRuns(A, base, G, Append(s, e)) : g[Len(Append(s, e))] = y
  BY DEF FoldReaches
<1>3. Len(s) \in Nat /\ Len(Append(s, e)) = Len(s) + 1 /\ Append(s, e)[Len(s) + 1] = e
  OBVIOUS
<1>4. \A k \in 1..Len(s) : Append(s, e)[k] = s[k]
  OBVIOUS
<1> DEFINE T == {k \in Nat : k <= Len(s) => g[k] = f[k]}
<1>5. 0 \in T
  BY <1>1, <1>2 DEF FoldRuns
<1>6. ASSUME NEW k \in Nat, k \in T PROVE k + 1 \in T
  <2> SUFFICES ASSUME k + 1 <= Len(s) PROVE g[k + 1] = f[k + 1]
    OBVIOUS
  <2>1. k + 1 \in 1..Len(s) /\ k + 1 \in 1..Len(Append(s, e)) /\ (k + 1) - 1 = k /\ k <= Len(s)
    BY <1>3
  <2>2. f[k + 1] = G[<<f[k], s[k + 1]>>]
    BY <1>1, <2>1 DEF FoldRuns
  <2>3. g[k + 1] = G[<<g[k], Append(s, e)[k + 1]>>]
    BY <1>2, <2>1 DEF FoldRuns
  <2> QED BY <1>4, <1>6, <2>1, <2>2, <2>3
<1> HIDE DEF T
<1>7. Nat \subseteq T
  BY <1>5, <1>6, AllNumbers
<1>8. g[Len(s)] = f[Len(s)]
  BY <1>3, <1>7 DEF T
<1>9. Len(s) + 1 \in 1..Len(Append(s, e)) /\ (Len(s) + 1) - 1 = Len(s)
  BY <1>3
<1>10. g[Len(s) + 1] = G[<<g[Len(s)], e>>]
  BY <1>2, <1>3, <1>9 DEF FoldRuns
<1>11. f[Len(s)] \in A
  BY <1>1, <1>3 DEF FoldRuns
<1> QED BY <1>1, <1>2, <1>3, <1>8, <1>10, <1>11

LEMMA FoldOfNone ==
  ASSUME NEW A, NEW base, NEW G, NEW x, FoldReaches(A, base, G, <<>>, x)
  PROVE  x = base
<1>1. PICK f \in FoldRuns(A, base, G, <<>>) : f[Len(<<>>)] = x
  BY DEF FoldReaches
<1>2. Len(<<>>) = 0
  OBVIOUS
<1> QED BY <1>1, <1>2 DEF FoldRuns

\* What holds of the empty sequence, and of a sequence with one more element,
\* holds of all.
LEMMA AllSequences ==
  ASSUME NEW E, NEW S, <<>> \in S, \A s \in Seq(E) : \A e \in E : s \in S => Append(s, e) \in S
  PROVE  Seq(E) \subseteq S
<1> DEFINE T == {n \in Nat : \A s \in Seq(E) : Len(s) = n => s \in S}
<1>1. 0 \in T
  <2>1. \A s \in Seq(E) : Len(s) = 0 => s = <<>>
    OBVIOUS
  <2> QED BY <2>1
<1>2. ASSUME NEW n \in Nat, n \in T PROVE n + 1 \in T
  <2> SUFFICES ASSUME NEW s \in Seq(E), Len(s) = n + 1 PROVE s \in S
    OBVIOUS
  <2>1. PICK r : r = SubSeq(s, 1, n)
    OBVIOUS
  <2>2. r \in Seq(E) /\ Len(r) = n /\ s[n + 1] \in E
    BY <2>1
  <2>3. s = Append(r, s[n + 1])
    <3>1. Append(r, s[n + 1]) \in Seq(E) /\ Len(Append(r, s[n + 1])) = n + 1
      BY <2>2
    <3>2. \A i \in 1..(n + 1) : Append(r, s[n + 1])[i] = s[i]
      BY <2>1, <2>2
    <3> QED BY <3>1, <3>2, SeqEqual
  <2>4. r \in S
    BY <1>2, <2>2
  <2> QED BY <2>2, <2>3, <2>4
<1> HIDE DEF T
<1>3. Nat \subseteq T
  BY <1>1, <1>2, AllNumbers
<1>4. ASSUME NEW s \in Seq(E) PROVE s \in S
  <2>1. Len(s) \in T
    BY <1>3
  <2> QED BY <2>1 DEF T
<1> QED BY <1>4
-----------------------------------------------------------------------------
(* Sums. *)

Plus      == [x \in Int \X Int |-> x[1] + x[2]]
SumOf(ws) == (CHOOSE f \in FoldRuns(Int, 0, Plus, ws) : TRUE)[Len(ws)]

LEMMA SumReached ==
  ASSUME NEW ws \in Seq(Int)
  PROVE  FoldReaches(Int, 0, Plus, ws, SumOf(ws)) /\ SumOf(ws) \in Int
<1>1. Plus \in [Int \X Int -> Int]
  BY DEF Plus
<1> 0 \in Int
  OBVIOUS
<1>2. FoldRuns(Int, 0, Plus, ws) # {}
  BY <1>1, FoldRunExists, Zenon
<1>3. PICK f \in FoldRuns(Int, 0, Plus, ws) : SumOf(ws) = f[Len(ws)]
  BY <1>2, Zenon DEF SumOf
<1>4. f[Len(ws)] \in Int
  <2>1. Len(ws) \in 0..Len(ws)
    OBVIOUS
  <2> QED BY <2>1 DEF FoldRuns
<1> QED BY <1>3, <1>4 DEF FoldReaches

LEMMA SumOfNone == SumOf(<<>>) = 0
<1>1. <<>> \in Seq(Int)
  OBVIOUS
<1> QED BY <1>1, SumReached, FoldOfNone

LEMMA SumOfAppend ==
  ASSUME NEW ws \in Seq(Int), NEW w \in Int
  PROVE  SumOf(Append(ws, w)) = SumOf(ws) + w
<1>1. Plus \in [Int \X Int -> Int]
  BY DEF Plus
<1>2. Append(ws, w) \in Seq(Int)
  OBVIOUS
<1> 0 \in Int
  OBVIOUS
<1> FoldReaches(Int, 0, Plus, ws, SumOf(ws)) /\ FoldReaches(Int, 0, Plus, Append(ws, w), SumOf(Append(ws, w)))
  BY <1>2, SumReached
<1>3. FoldGrows(Int, Int, 0, Plus, ws, w, SumOf(ws), SumOf(Append(ws, w)))
  BY <1>1, <1>2, Zenon DEF FoldGrows
<1>4. SumOf(ws) \in Int /\ SumOf(Append(ws, w)) = Plus[<<SumOf(ws), w>>]
  BY <1>3, FoldExtends
<1> QED BY <1>4 DEF Plus

LEMMA SumOfConcat ==
  ASSUME NEW us \in Seq(Int), NEW vs \in Seq(Int)
  PROVE  SumOf(us \o vs) = SumOf(us) + SumOf(vs)
<1> DEFINE S == {ws \in Seq(Int) : SumOf(us \o ws) = SumOf(us) + SumOf(ws)}
<1>1. <<>> \in S
  <2>1. us \o <<>> = us /\ <<>> \in Seq(Int)
    OBVIOUS
  <2> QED BY <2>1, SumOfNone, SumReached
<1>2. ASSUME NEW ws \in Seq(Int), NEW w \in Int, ws \in S PROVE Append(ws, w) \in S
  <2>1. us \o Append(ws, w) = Append(us \o ws, w) /\ us \o ws \in Seq(Int) /\ Append(ws, w) \in Seq(Int)
    OBVIOUS
  <2>2. SumOf(us \o Append(ws, w)) = SumOf(us \o ws) + w /\ SumOf(Append(ws, w)) = SumOf(ws) + w
    BY <2>1, SumOfAppend
  <2>3. SumOf(us \o ws) = SumOf(us) + SumOf(ws)
    BY <1>2
  <2>4. SumOf(us) \in Int /\ SumOf(ws) \in Int
    BY SumReached
  <2>5. SumOf(us \o Append(ws, w)) = SumOf(us) + SumOf(Append(ws, w))
    BY <2>2, <2>3, <2>4
  <2> QED BY <2>1, <2>5
<1> HIDE DEF S
<1>3. Seq(Int) \subseteq S
  BY <1>1, <1>2, AllSequences
<1> QED BY <1>3 DEF S

\* A sum of no positive number is not positive.
LEMMA SumNotAbove ==
  ASSUME NEW ws \in Seq(Int), \A k \in 1..Len(ws) : ws[k] <= 0
  PROVE  SumOf(ws) <= 0
<1> DEFINE S == {vs \in Seq(Int) : (\A k \in 1..Len(vs) : vs[k] <= 0) => SumOf(vs) <= 0}
<1>1. <<>> \in S
  BY SumOfNone
<1>2. ASSUME NEW vs \in Seq(Int), NEW w \in Int, vs \in S PROVE Append(vs, w) \in S
  <2> Append(vs, w) \in Seq(Int)
    OBVIOUS
  <2> SUFFICES ASSUME \A k \in 1..Len(Append(vs, w)) : Append(vs, w)[k] <= 0
               PROVE  SumOf(Append(vs, w)) <= 0
    OBVIOUS
  <2>1. Append(vs, w) \in Seq(Int) /\ Len(Append(vs, w)) = Len(vs) + 1 /\ Len(vs) \in Nat
        /\ Append(vs, w)[Len(vs) + 1] = w /\ \A k \in 1..Len(vs) : Append(vs, w)[k] = vs[k]
    BY AppendProperties
  <2>2. w <= 0 /\ \A k \in 1..Len(vs) : vs[k] <= 0
    BY <2>1
  <2>3. SumOf(vs) <= 0 /\ SumOf(vs) \in Int /\ SumOf(Append(vs, w)) = SumOf(vs) + w
    BY <1>2, <2>2, SumReached, SumOfAppend
  <2> QED BY <2>1, <2>2, <2>3
<1> HIDE DEF S
<1>3. Seq(Int) \subseteq S
  BY <1>1, <1>2, AllSequences
<1> QED BY <1>3 DEF S
-----------------------------------------------------------------------------
(* Sequences. *)

IsList(list) == list \in Seq(Range(list))

LEMMA AList ==
  ASSUME NEW S, NEW list \in Seq(S)
  PROVE  IsList(list) /\ Range(list) \subseteq S
<1>1. Len(list) \in Nat /\ DOMAIN list = 1..Len(list) /\ list = [k \in 1..Len(list) |-> list[k]]
  OBVIOUS
<1>2. \A k \in 1..Len(list) : list[k] \in Range(list) /\ list[k] \in S
  BY <1>1 DEF Range
<1> QED BY <1>1, <1>2 DEF IsList, Range

LEMMA ListProperties ==
  ASSUME NEW list, IsList(list)
  PROVE  /\ Len(list) \in Nat /\ DOMAIN list = 1..Len(list)
         /\ \A x : IsList(Append(list, x)) /\ Len(Append(list, x)) = Len(list) + 1
         /\ list # <<>> => /\ Len(list) >= 1 /\ IsList(Front(list)) /\ Len(Front(list)) = Len(list) - 1
                           /\ Last(list) = list[Len(list)]
                           /\ \A k \in 1..(Len(list) - 1) : Front(list)[k] = list[k]
         /\ list = <<>> <=> Len(list) = 0
<1>1. PICK S : list \in Seq(S)
  BY DEF IsList
<1>2. Len(list) \in Nat /\ DOMAIN list = 1..Len(list) /\ (list = <<>> <=> Len(list) = 0)
  BY <1>1
<1>3. ASSUME NEW x PROVE IsList(Append(list, x)) /\ Len(Append(list, x)) = Len(list) + 1
  <2>1. list \in Seq(S \cup {x}) /\ x \in S \cup {x}
    BY <1>1, SeqMonotonic
  <2>2. Append(list, x) \in Seq(S \cup {x}) /\ Len(Append(list, x)) = Len(list) + 1
    BY <2>1, AppendProperties
  <2> QED BY <2>2, AList
<1>4. ASSUME list # <<>>
      PROVE  /\ Len(list) >= 1 /\ IsList(Front(list)) /\ Len(Front(list)) = Len(list) - 1
             /\ Last(list) = list[Len(list)]
             /\ \A k \in 1..(Len(list) - 1) : Front(list)[k] = list[k]
  <2>1. Len(list) >= 1
    BY <1>2, <1>4
  <2>2. /\ Front(list) \in Seq(S) /\ Len(Front(list)) = Len(list) - 1
        /\ \A k \in 1..(Len(list) - 1) : Front(list)[k] = list[k]
    <3>1. Len(list) - 1 \in Int /\ \A k \in 1..(Len(list) - 1) : list[k] \in S
      BY <1>1, <1>2
    <3>2. SubSeq(list, 1, Len(list) - 1) \in Seq(S) /\ Len(SubSeq(list, 1, Len(list) - 1)) = Len(list) - 1
      BY <1>2, <2>1, <3>1, SubSeqProperties
    <3>3. \A k \in 1..(Len(list) - 1) : SubSeq(list, 1, Len(list) - 1)[k] = list[k]
      BY <1>1, <1>2, <2>1
    <3> QED BY <3>2, <3>3 DEF Front
  <2> QED BY <2>1, <2>2, AList DEF Last
<1> QED BY <1>2, <1>3, <1>4

LEMMA ListReplaced ==
  ASSUME NEW list, IsList(list), NEW k, NEW x
  PROVE  IsList([list EXCEPT ![k] = x]) /\ Len([list EXCEPT ![k] = x]) = Len(list)
<1>1. PICK S : list \in Seq(S)
  BY DEF IsList
<1>2. Len(list) \in Nat /\ list \in [1..Len(list) -> S \cup {x}]
  BY <1>1
<1>3. [list EXCEPT ![k] = x] \in [1..Len(list) -> S \cup {x}]
  BY <1>2
<1>4. [list EXCEPT ![k] = x] \in Seq(S \cup {x}) /\ Len([list EXCEPT ![k] = x]) = Len(list)
  BY <1>2, <1>3
<1> QED BY <1>4, AList

\* A list of S is a list, and stays one of S.
LEMMA FrontOf ==
  ASSUME NEW S, NEW list \in Seq(S), list # <<>>
  PROVE  /\ Front(list) \in Seq(S) /\ Len(Front(list)) = Len(list) - 1 /\ Last(list) \in S
         /\ list = Append(Front(list), Last(list))
<1>1. Len(list) \in Nat /\ Len(list) >= 1 /\ \A k \in 1..Len(list) : list[k] \in S
  OBVIOUS
<1>2. Front(list) \in Seq(S) /\ Len(Front(list)) = Len(list) - 1
  <2>1. Len(list) - 1 \in Int /\ \A k \in 1..(Len(list) - 1) : list[k] \in S
    BY <1>1
  <2>2. SubSeq(list, 1, Len(list) - 1) \in Seq(S)
    BY <2>1, SubSeqProperties
  <2>3. IsList(list)
    BY AList
  <2> QED BY <2>2, <2>3, ListProperties DEF Front
<1>3. \A k \in 1..(Len(list) - 1) : Front(list)[k] = list[k]
  BY <1>1, AList, ListProperties
<1>4. Last(list) = list[Len(list)] /\ Last(list) \in S
  BY <1>1 DEF Last
<1>5. PICK t \in Seq(S) : t = Append(Front(list), Last(list))
  BY <1>2, <1>4, AppendProperties
<1>6. Len(t) = Len(list) /\ \A k \in 1..Len(list) : t[k] = list[k]
  BY <1>1, <1>2, <1>3, <1>4, <1>5, AppendProperties
<1> QED BY <1>2, <1>4, <1>5, <1>6, SeqEqual

\* A sequence of one set is one of another when its elements are there.
LEMMA SeqIn ==
  ASSUME NEW S, NEW T, NEW v \in Seq(S), \A i \in DOMAIN v : v[i] \in T
  PROVE  v \in Seq(T)
<1>1. PICK n \in Nat : n = Len(v)
  OBVIOUS
<1>2. v = [i \in 1..n |-> v[i]] /\ DOMAIN v = 1..n
  BY <1>1
<1>3. v \in [1..n -> T]
  BY <1>2
<1> QED BY <1>1, <1>3

\* A piece of one element.
LEMMA OneOf ==
  ASSUME NEW S, NEW v \in Seq(S), NEW k \in 1..Len(v)
  PROVE  SubSeq(v, k, k) = <<v[k]>>
<1>1. PICK n \in Nat, d \in S : n = Len(v) /\ k \in Nat /\ d = v[k]
  OBVIOUS
<1>2. PICK u \in Seq(S) : u = <<d>> /\ Len(u) = 1 /\ u[1] = d
  <2>1. PICK u : u = <<d>>
    OBVIOUS
  <2>2. u \in Seq(S) /\ Len(u) = 1 /\ u[1] = d
    BY <1>1, <2>1
  <2> QED BY <2>1, <2>2
<1>3. k \in Int /\ \A i \in k..k : v[i] \in S
  BY <1>1
<1>4. PICK w : w = SubSeq(v, k, k)
  OBVIOUS
<1>5. w \in Seq(S) /\ Len(w) = (IF k <= k THEN k - k + 1 ELSE 0) /\ \A i \in 1..(k - k + 1) : w[i] = v[k + i - 1]
  BY <1>3, <1>4, SubSeqProperties
<1>6. k - k + 1 = 1 /\ k + 1 - 1 = k /\ 1 \in 1..1
  BY <1>1
<1>7. Len(w) = 1 /\ w[1] = d
  BY <1>1, <1>5, <1>6
<1>8. \A i \in 1..Len(w) : w[i] = u[i]
  BY <1>2, <1>7
<1>9. w = u
  BY <1>2, <1>5, <1>7, <1>8, SeqEqual
<1> QED BY <1>1, <1>2, <1>4, <1>9

\* Three sequences, one behind the other.
InRow(a, b, c) == (a \o b) \o c = a \o (b \o c)

LEMMA Associative ==
  ASSUME NEW S, NEW a \in Seq(S), NEW b \in Seq(S), NEW c \in Seq(S)
  PROVE  InRow(a, b, c)
BY ConcatAssociative DEF InRow

AllInRow(S, r, a, b, c, d, e, v) == v \in Seq(S) /\ r \o v = r \o a \o b \o c \o d \o e

LEMMA Joins ==
  ASSUME NEW S, NEW r \in Seq(S), NEW a \in Seq(S), NEW b \in Seq(S), NEW c \in Seq(S), NEW d \in Seq(S),
         NEW e \in Seq(S)
  PROVE  \A v : v = a \o b \o c \o d \o e => AllInRow(S, r, a, b, c, d, e, v)
<1> TAKE v
<1> HAVE v = a \o b \o c \o d \o e
<1>1. PICK ab, abc, abcd : ab = a \o b /\ abc = ab \o c /\ abcd = abc \o d
  OBVIOUS
<1>2. ab \in Seq(S)
  BY <1>1, ConcatProperties
<1>3. abc \in Seq(S)
  BY <1>1, <1>2, ConcatProperties
<1>4. abcd \in Seq(S)
  BY <1>1, <1>3, ConcatProperties
<1>5. abcd \o e \in Seq(S)
  BY <1>4, ConcatProperties
<1>6. InRow(r, abcd, e) /\ InRow(r, abc, d) /\ InRow(r, ab, c) /\ InRow(r, a, b)
  BY <1>2, <1>3, <1>4, Associative
<1>7. /\ (r \o abcd) \o e = r \o (abcd \o e) /\ (r \o abc) \o d = r \o (abc \o d)
      /\ (r \o ab) \o c = r \o (ab \o c) /\ (r \o a) \o b = r \o (a \o b)
  BY <1>6 DEF InRow
<1>8. v = abcd \o e
  BY <1>1
<1>9. r \o v = r \o a \o b \o c \o d \o e
  BY <1>1, <1>7, <1>8
<1> QED BY <1>5, <1>8, <1>9 DEF AllInRow

\* The head of an injective sequence, and new elements behind its tail.
NewIds(ids, N, S) ==
  /\ ids = [j \in 1..N |-> ids[j]] /\ \A j \in 1..N : ids[j] \notin S
  /\ \A i, j \in 1..N : ids[i] = ids[j] => i = j

LEMMA TailAndNew ==
  ASSUME NEW S, NEW c \in Seq(S), c # <<>>, IsInjective(c), NEW N \in Nat, NEW ids, NewIds(ids, N, S)
  PROVE  /\ IsInjective(Tail(c) \o ids)
         /\ Head(c) \in Range(c) /\ Head(c) \notin Range(Tail(c) \o ids)
         /\ \A i \in S : i # Head(c) => (i \in Range(Tail(c) \o ids) <=> i \in Range(c))
         /\ \A j \in 1..N : ids[j] \in Range(Tail(c) \o ids)
<1> USE DEF NewIds
<1>1. PICK n \in Nat : n = Len(c) /\ DOMAIN c = 1..n /\ n # 0
  <2>1. PICK n \in Nat : n = Len(c) /\ DOMAIN c = 1..n
    OBVIOUS
  <2>2. n # 0
    BY <2>1, EmptySeq
  <2> QED BY <2>1, <2>2
<1>2. PICK l \in Nat : l = n - 1 /\ n = l + 1
  <2>1. n - 1 \in Nat /\ n = (n - 1) + 1
    BY <1>1
  <2> QED BY <2>1
<1>3. PICK t \in Seq(S) : t = Tail(c) /\ Len(t) = l /\ \A i \in 1..l : t[i] = c[i + 1]
  <2>1. PICK t : t = Tail(c)
    OBVIOUS
  <2>2. t \in Seq(S) /\ Len(t) = n - 1 /\ \A i \in 1..Len(t) : t[i] = c[i + 1]
    BY <1>1, <2>1, HeadTailProperties
  <2> QED BY <1>2, <2>1, <2>2
<1>4. PICK T : T = S \cup {ids[j] : j \in 1..N}
  OBVIOUS
<1>5. ids \in Seq(T) /\ Len(ids) = N /\ t \in Seq(T)
  <2>1. \A j \in 1..N : ids[j] \in T
    BY <1>4
  <2>2. ids \in Seq(T) /\ Len(ids) = N
    BY <2>1
  <2>3. \A i \in 1..l : t[i] \in T
    BY <1>3, <1>4
  <2>4. t \in Seq(T)
    <3>1. DOMAIN t = 1..l
      BY <1>3
    <3>2. \A i \in DOMAIN t : t[i] \in T
      BY <2>3, <3>1
    <3> QED BY <1>3, <3>2, SeqIn
  <2> QED BY <2>2, <2>4
<1>6. PICK u \in Seq(T) : /\ u = t \o ids /\ Len(u) = l + N
                          /\ \A i \in 1..(l + N) : u[i] = IF i <= l THEN t[i] ELSE ids[i - l]
  <2>1. PICK u : u = t \o ids
    OBVIOUS
  <2>2. u \in Seq(T) /\ Len(u) = l + N
    BY <1>3, <1>5, <2>1
  <2>3. \A i \in 1..(l + N) : u[i] = IF i <= l THEN t[i] ELSE ids[i - l]
    BY <1>3, <1>5, <2>1
  <2> QED BY <2>1, <2>2, <2>3
<1>7. DOMAIN u = 1..(l + N)
  BY <1>6
<1>8. Head(c) = c[1] /\ 1 \in 1..n
  BY <1>1
<1>9. \A i, j \in 1..n : c[i] = c[j] => i = j
  BY <1>1 DEF IsInjective
<1>10. ASSUME NEW i \in 1..(l + N)
       PROVE  /\ i <= l => i + 1 \in 1..n /\ u[i] = c[i + 1] /\ u[i] \in S
              /\ ~(i <= l) => i - l \in 1..N /\ u[i] = ids[i - l] /\ u[i] \notin S
  <2>1. CASE i <= l
    <3>1. i \in 1..l /\ i + 1 \in 1..n
      BY <1>2, <2>1
    <3>2. u[i] = c[i + 1] /\ c[i + 1] \in S
      BY <1>1, <1>3, <1>6, <2>1, <3>1
    <3> QED BY <2>1, <3>1, <3>2
  <2>2. CASE ~(i <= l)
    <3>1. i > l /\ i - l \in 1..N
      BY <2>2
    <3>2. u[i] = ids[i - l]
      BY <1>6, <2>2
    <3> QED BY <3>1, <3>2
  <2> QED BY <2>1, <2>2
<1>11. ASSUME NEW i \in 1..(l + N), NEW j \in 1..(l + N), u[i] = u[j] PROVE i = j
  <2>1. CASE i <= l
    <3>3. i + 1 \in 1..n /\ u[i] = c[i + 1] /\ u[i] \in S
      BY <1>10, <2>1
    <3>4. u[j] \in S
      BY <1>11, <3>3
    <3>5. j + 1 \in 1..n /\ u[j] = c[j + 1]
      BY <1>10, <3>4
    <3>1. u[i] = c[i + 1] /\ u[j] = c[j + 1] /\ i + 1 \in 1..n /\ j + 1 \in 1..n
      BY <3>3, <3>5
    <3>2. i + 1 = j + 1
      BY <1>9, <1>11, <3>1
    <3> QED BY <3>2
  <2>2. CASE ~(i <= l)
    <3>1. /\ u[i] = ids[i - l] /\ u[j] = ids[j - l] /\ i - l \in 1..N /\ j - l \in 1..N
      BY <1>10, <1>11, <2>2
    <3>2. i - l = j - l
      BY <1>11, <3>1
    <3> QED BY <3>2
  <2> QED BY <2>1, <2>2
<1>12. IsInjective(u)
  BY <1>7, <1>11 DEF IsInjective
<1>13. Head(c) \in Range(c)
  BY <1>1, <1>8 DEF Range
<1>14. ASSUME Head(c) \in Range(u) PROVE FALSE
  <2>1. PICK i \in 1..(l + N) : u[i] = c[1]
    BY <1>7, <1>8, <1>14 DEF Range
  <2>2. c[1] \in S
    BY <1>1, <1>8
  <2>3. i + 1 \in 1..n /\ c[i + 1] = c[1]
    BY <1>10, <2>1, <2>2
  <2>4. i + 1 = 1
    BY <1>8, <1>9, <2>3
  <2> QED BY <2>4
<1>15. ASSUME NEW d \in S, d # Head(c) PROVE d \in Range(u) <=> d \in Range(c)
  <2>1. ASSUME d \in Range(u) PROVE d \in Range(c)
    <3>1. PICK i \in 1..(l + N) : u[i] = d
      BY <1>7, <2>1 DEF Range
    <3>2. i + 1 \in 1..n /\ c[i + 1] = d
      BY <1>10, <3>1
    <3> QED BY <1>1, <3>2 DEF Range
  <2>2. ASSUME d \in Range(c) PROVE d \in Range(u)
    <3>1. PICK i \in 1..n : c[i] = d
      BY <1>1, <2>2 DEF Range
    <3>2. i # 1
      BY <1>8, <1>15, <3>1
    <3>3. PICK j \in 1..l : i = j + 1
      <4>1. i - 1 \in 1..l /\ i = (i - 1) + 1
        BY <1>2, <3>2
      <4> QED BY <4>1
    <3>4. j \in 1..(l + N) /\ j <= l
      OBVIOUS
    <3>5. u[j] = d
      BY <1>3, <1>6, <3>1, <3>3, <3>4
    <3> QED BY <1>7, <3>4, <3>5 DEF Range
  <2> QED BY <2>1, <2>2
<1>16. ASSUME NEW j \in 1..N PROVE ids[j] \in Range(u)
  <2>1. PICK i \in 1..(l + N) : i = l + j /\ ~(i <= l) /\ i - l = j
    OBVIOUS
  <2>2. u[i] = ids[j]
    BY <1>6, <2>1
  <2> QED BY <1>7, <2>2 DEF Range
<1> QED BY <1>3, <1>6, <1>12, <1>13, <1>14, <1>15, <1>16

LEMMA SumRaised ==
  ASSUME NEW ac \in Seq(Nat \ {0}), ac # <<>>
  PROVE  /\ [ac EXCEPT ![Len(ac)] = @ + 1] \in Seq(Nat \ {0})
         /\ Len([ac EXCEPT ![Len(ac)] = @ + 1]) = Len(ac)
         /\ SumOf([ac EXCEPT ![Len(ac)] = @ + 1]) = SumOf(ac) + 1
<1> DEFINE f == Front(ac)
           l == Last(ac)
           r == [ac EXCEPT ![Len(ac)] = @ + 1]
<1>1. /\ f \in Seq(Nat \ {0}) /\ Len(f) = Len(ac) - 1 /\ l \in Nat \ {0} /\ ac = Append(f, l)
      /\ Len(ac) \in Nat /\ Len(ac) # 0
  <2>1. Len(ac) \in Nat /\ Len(ac) # 0
    OBVIOUS
  <2> QED BY <2>1, FrontOf
<1>2. r \in Seq(Nat \ {0}) /\ Len(r) = Len(ac)
  <2>1. ac \in [1..Len(ac) -> Nat \ {0}] /\ ac[Len(ac)] + 1 \in Nat \ {0}
    BY <1>1
  <2>2. r \in [1..Len(ac) -> Nat \ {0}]
    BY <2>1
  <2> QED BY <1>1, <2>2
<1>3. r[Len(ac)] = l + 1 /\ \A k \in 1..(Len(ac) - 1) : r[k] = f[k]
  <2>1. l = ac[Len(ac)] /\ \A k \in 1..(Len(ac) - 1) : f[k] = ac[k]
    BY AList, ListProperties
  <2> QED BY <1>1, <2>1
<1> HIDE DEF f, l, r
<1>4. Append(f, l + 1) = r
  <2>1. Append(f, l + 1) \in Seq(Nat \ {0}) /\ Len(Append(f, l + 1)) = Len(r)
    BY <1>1, <1>2
  <2>2. \A k \in 1..Len(r) : Append(f, l + 1)[k] = r[k]
    BY <1>1, <1>2, <1>3
  <2> QED BY <1>2, <2>1, <2>2, SeqEqual
<1>5. SumOf(Append(f, l + 1)) = SumOf(f) + (l + 1) /\ SumOf(Append(f, l)) = SumOf(f) + l
  <2>1. f \in Seq(Int) /\ l \in Int /\ l + 1 \in Int
    BY <1>1
  <2> QED BY <2>1, SumOfAppend
<1>6. SumOf(f) \in Int /\ l \in Int
  BY <1>1, SumReached
<1>7. SumOf(r) = SumOf(ac) + 1
  <2>1. SumOf(ac) = SumOf(f) + l /\ SumOf(r) = SumOf(f) + (l + 1)
    BY <1>1, <1>4, <1>5
  <2> QED BY <1>6, <2>1
<1> QED BY <1>2, <1>7 DEF r
-----------------------------------------------------------------------------
(* Forests.  Names are the places of a forest: C[x] is the sequence in place x, *)
(* and every member of D is in one of them, once.                              *)

IsAt(C, T, d) == \E x \in T : \E i \in DOMAIN C[x] : C[x][i] = d
Alone(C, T) ==
  \A x \in T, y \in T : \A i \in DOMAIN C[x], j \in DOMAIN C[y] : C[x][i] = C[y][j] => x = y /\ i = j
Forest(Names, C, D) ==
  /\ \A x \in Names : C[x] \in Seq(D)
  /\ Alone(C, Names)
  /\ \A d \in D : IsAt(C, Names, d)

LEMMA ForestSame ==
  ASSUME NEW Names, NEW C, NEW D, Forest(Names, C, D), NEW C2, \A x \in Names : C2[x] = C[x]
  PROVE  Forest(Names, C2, D)
BY DEF Forest, IsAt, Alone

\* Some places are changed: they hold what they held before, and new nodes.
LEMMA Moved ==
  ASSUME NEW Names, NEW C, NEW D, Forest(Names, C, D), NEW C2, NEW D2, NEW T, T \subseteq Names,
         \A x \in Names \ T : C2[x] = C[x],
         \A x \in T : C2[x] \in Seq(D2),
         Alone(C2, T),
         \A d : IsAt(C2, T, d) => d \notin D \/ IsAt(C, T, d),
         \A d \in D2 : d \notin D \/ IsAt(C, T, d) => IsAt(C2, T, d),
         \A d \in D : d \in D2 \/ IsAt(C, T, d)
  PROVE  Forest(Names, C2, D2)
<1>1. ASSUME NEW x \in Names PROVE C2[x] \in Seq(D2)
  <2>1. CASE x \in T
    BY <2>1
  <2>2. CASE x \notin T
    <3>1. C2[x] = C[x] /\ C[x] \in Seq(D)
      BY <2>2 DEF Forest
    <3>2. ASSUME NEW i \in DOMAIN C[x] PROVE C[x][i] \in D2
      <4>1. C[x][i] \in D
        <5>1. PICK v \in Seq(D) : v = C[x]
          BY <3>1
        <5> QED BY <5>1
      <4>2. ~IsAt(C, T, C[x][i])
        BY <2>2 DEF Forest, Alone, IsAt
      <4> QED BY <4>1, <4>2
    <3> QED BY <3>1, <3>2, SeqIn
  <2> QED BY <2>1, <2>2
<1>2. Alone(C2, Names)
  <2> SUFFICES ASSUME NEW x \in Names, NEW y \in Names, NEW i \in DOMAIN C2[x], NEW j \in DOMAIN C2[y],
                      C2[x][i] = C2[y][j]
               PROVE  x = y /\ i = j
    BY DEF Alone
  <2>1. CASE x \in T /\ y \in T
    BY <2>1 DEF Alone
  <2>2. CASE x \notin T /\ y \notin T
    BY <2>2 DEF Forest, Alone
  <2>3. ASSUME NEW u \in T, NEW w \in Names \ T, NEW k \in DOMAIN C2[u], NEW l \in DOMAIN C2[w],
               C2[u][k] = C2[w][l]
        PROVE  FALSE
    <3>1. C2[w] = C[w] /\ C[w] \in Seq(D)
      BY DEF Forest
    <3>2. C[w][l] \in D
      <4>1. PICK v \in Seq(D) : v = C[w] /\ l \in DOMAIN v
        BY <3>1
      <4> QED BY <4>1
    <3>3. IsAt(C2, T, C2[u][k])
      BY DEF IsAt
    <3>4. IsAt(C, T, C[w][l])
      BY <2>3, <3>1, <3>2, <3>3
    <3> QED BY <3>1, <3>4 DEF IsAt, Forest, Alone
  <2> QED BY <2>1, <2>2, <2>3
<1>3. ASSUME NEW d \in D2 PROVE IsAt(C2, Names, d)
  <2>1. CASE IsAt(C2, T, d)
    BY <2>1 DEF IsAt
  <2>2. CASE ~IsAt(C2, T, d)
    <3>1. d \in D /\ ~IsAt(C, T, d)
      BY <2>2
    <3>2. PICK x \in Names : \E i \in DOMAIN C[x] : C[x][i] = d
      BY <3>1 DEF Forest, IsAt
    <3>3. x \notin T
      BY <3>1, <3>2 DEF IsAt
    <3> QED BY <3>2, <3>3 DEF IsAt
  <2> QED BY <2>1, <2>2
<1> QED BY <1>1, <1>2, <1>3 DEF Forest

\* One place is given another sequence.
LEMMA PlaceSet ==
  ASSUME NEW Names, NEW C, NEW D, Forest(Names, C, D), NEW C2, NEW D2, NEW x \in Names,
         NEW v \in Seq(D2), IsInjective(v),
         C2[x] = v, \A y \in Names \ {x} : C2[y] = C[y],
         \A i \in DOMAIN v : v[i] \notin D \/ v[i] \in Range(C[x]),
         \A d \in D2 : d \notin D \/ d \in Range(C[x]) => d \in Range(v),
         \A d \in D : d \in D2 \/ d \in Range(C[x])
  PROVE  Forest(Names, C2, D2)
<1>1. \A d : IsAt(C, {x}, d) <=> d \in Range(C[x])
  BY DEF IsAt, Range
<1>2. \A d : IsAt(C2, {x}, d) <=> d \in Range(v)
  BY DEF IsAt, Range
<1>3. \A d \in Range(v) : d \notin D \/ d \in Range(C[x])
  BY DEF Range
<1>4. Alone(C2, {x})
  BY DEF Alone, IsInjective
<1>5. {x} \subseteq Names /\ (\A y \in Names \ {x} : C2[y] = C[y]) /\ \A y \in {x} : C2[y] \in Seq(D2)
  OBVIOUS
<1>6. \A d : IsAt(C2, {x}, d) => d \notin D \/ IsAt(C, {x}, d)
  BY <1>1, <1>2, <1>3
<1>7. \A d \in D2 : d \notin D \/ IsAt(C, {x}, d) => IsAt(C2, {x}, d)
  BY <1>1, <1>2
<1>8. \A d \in D : d \in D2 \/ IsAt(C, {x}, d)
  BY <1>1
<1> QED BY <1>4, <1>5, <1>6, <1>7, <1>8, Moved

\* Pointers that were nowhere are given to places that were empty.
LEMMA PutNew ==
  ASSUME NEW Names, NEW C, NEW D, Forest(Names, C, D), NEW C2, NEW D2, D \subseteq D2, NEW T,
         T \subseteq Names,
         \A x \in T : C[x] = <<>>, \A x \in Names \ T : C2[x] = C[x],
         \A x \in T : C2[x] \in Seq(D2), Alone(C2, T),
         \A d : IsAt(C2, T, d) => d \notin D,
         \A d \in D2 : d \notin D => IsAt(C2, T, d)
  PROVE  Forest(Names, C2, D2)
<1>1. \A d : ~IsAt(C, T, d)
  <2> SUFFICES ASSUME NEW d, NEW x \in T, NEW i \in DOMAIN C[x] PROVE FALSE
    BY DEF IsAt
  <2>1. PICK e : e = <<>>
    OBVIOUS
  <2>2. DOMAIN e = {}
    BY <2>1
  <2> QED BY <2>1, <2>2
<1>2. \A d : IsAt(C2, T, d) => d \notin D \/ IsAt(C, T, d)
  OBVIOUS
<1>3. \A d \in D2 : d \notin D \/ IsAt(C, T, d) => IsAt(C2, T, d)
  BY <1>1
<1>4. \A d \in D : d \in D2 \/ IsAt(C, T, d)
  OBVIOUS
<1> QED BY <1>2, <1>3, <1>4, Moved

\* No pointer is twice in a place.
LEMMA OnePlace ==
  ASSUME NEW Names, NEW C, NEW D, Forest(Names, C, D), NEW x \in Names
  PROVE  \A i \in DOMAIN C[x], j \in DOMAIN C[x] : C[x][i] = C[x][j] => i = j
BY DEF Forest, Alone

\* Some places exchange what they hold.
LEMMA Rearranged ==
  ASSUME NEW Names, NEW C, NEW D, Forest(Names, C, D), NEW C2, NEW T, T \subseteq Names,
         \A x \in Names \ T : C2[x] = C[x], \A x \in T : C2[x] \in Seq(D), Alone(C2, T),
         \A d : IsAt(C2, T, d) <=> IsAt(C, T, d)
  PROVE  Forest(Names, C2, D)
<1>1. \A d : IsAt(C2, T, d) => d \notin D \/ IsAt(C, T, d)
  OBVIOUS
<1>2. \A d \in D : d \notin D \/ IsAt(C, T, d) => IsAt(C2, T, d)
  OBVIOUS
<1>3. \A d \in D : d \in D \/ IsAt(C, T, d)
  OBVIOUS
<1> QED BY <1>1, <1>2, <1>3, Moved

\* One place is cut into pieces, which are given to places that were empty: place
\* y gets what was behind lo[y] up to hi[y].
Pieces(Names, C, x, T, lo, hi, C2) ==
  LET n == Len(C[x])
  IN /\ n \in Nat /\ x \in T /\ T \subseteq Names
     /\ \A y \in T \ {x} : C[y] = <<>>
     /\ lo \in [T -> 0..n] /\ hi \in [T -> 0..n] /\ \A y \in T : lo[y] <= hi[y]
     /\ \A i \in 1..n : \E y \in T : lo[y] < i /\ i <= hi[y]
     /\ \A y \in T, z \in T : \A i \in 1..n :
          lo[y] < i /\ i <= hi[y] /\ lo[z] < i /\ i <= hi[z] => y = z
     /\ \A y \in T : C2[y] = SubSeq(C[x], lo[y] + 1, hi[y])
     /\ \A y \in Names \ T : C2[y] = C[y]

LEMMA CutPieces ==
  ASSUME NEW Names, NEW C, NEW D, Forest(Names, C, D), NEW x \in Names, NEW T, NEW lo, NEW hi, NEW C2,
         Pieces(Names, C, x, T, lo, hi, C2)
  PROVE  /\ \A y \in T : C2[y] \in Seq(D)
         /\ Alone(C2, T)
         /\ \A d : IsAt(C2, T, d) <=> IsAt(C, T, d)
<1>a. PICK n : n = Len(C[x])
  OBVIOUS
<1>b. /\ n \in Nat /\ x \in T /\ T \subseteq Names
      /\ \A y \in T \ {x} : C[y] = <<>>
      /\ lo \in [T -> 0..n] /\ hi \in [T -> 0..n] /\ \A y \in T : lo[y] <= hi[y]
      /\ \A i \in 1..n : \E y \in T : lo[y] < i /\ i <= hi[y]
      /\ \A y \in T, z \in T : \A i \in 1..n :
           lo[y] < i /\ i <= hi[y] /\ lo[z] < i /\ i <= hi[z] => y = z
      /\ \A y \in T : C2[y] = SubSeq(C[x], lo[y] + 1, hi[y])
  BY <1>a, Zenon DEF Pieces
<1> USE <1>a, <1>b
<1>1. PICK v \in Seq(D) : v = C[x] /\ Len(v) = n /\ DOMAIN v = 1..n
  BY DEF Forest
<1>2. \A i, j \in 1..n : v[i] = v[j] => i = j
  <2> SUFFICES ASSUME NEW i \in 1..n, NEW j \in 1..n, v[i] = v[j] PROVE i = j
    OBVIOUS
  <2>1. i \in DOMAIN C[x] /\ j \in DOMAIN C[x] /\ C[x][i] = C[x][j]
    BY <1>1
  <2> QED BY <2>1, OnePlace
<1>3. ASSUME NEW y \in T
      PROVE  /\ C2[y] \in Seq(D) /\ DOMAIN C2[y] = 1..(hi[y] - lo[y])
             /\ \A i \in 1..(hi[y] - lo[y]) : C2[y][i] = v[lo[y] + i] /\ lo[y] + i \in 1..n
                                              /\ lo[y] < lo[y] + i /\ lo[y] + i <= hi[y]
  <2>1. PICK a \in 0..n, b \in 0..n : a = lo[y] /\ b = hi[y] /\ a <= b
    OBVIOUS
  <2>2. a + 1 \in Int /\ b \in Int /\ a \in Nat
    OBVIOUS
  <2>3. \A i \in (a + 1)..b : i \in 1..n
    BY <2>1
  <2>4. \A i \in (a + 1)..b : v[i] \in D
    BY <1>1, <2>3
  <2>5. PICK w : w = SubSeq(v, a + 1, b)
    OBVIOUS
  <2>6. /\ w \in Seq(D) /\ Len(w) = (IF a + 1 <= b THEN b - (a + 1) + 1 ELSE 0)
        /\ \A i \in 1..(b - (a + 1) + 1) : w[i] = v[a + 1 + i - 1]
    BY <2>2, <2>4, <2>5, SubSeqProperties
  <2>7. (IF a + 1 <= b THEN b - (a + 1) + 1 ELSE 0) = b - a
    BY <2>1
  <2>8. DOMAIN w = 1..(b - a)
    BY <2>6, <2>7
  <2>9. ASSUME NEW i \in 1..(b - a)
        PROVE  i \in 1..(b - (a + 1) + 1) /\ a + 1 + i - 1 = a + i /\ a + i \in 1..n
                              /\ a < a + i /\ a + i <= b
    <3>1. a \in Nat /\ b \in Nat /\ b <= n /\ i \in Nat /\ 1 <= i /\ i <= b - a
      OBVIOUS
    <3> QED BY <3>1
  <2>10. \A i \in 1..(b - a) : w[i] = v[a + i]
    BY <2>6, <2>9
  <2>11. C2[y] = w
    BY <1>1, <2>1, <2>5
  <2> QED BY <2>1, <2>6, <2>8, <2>9, <2>10, <2>11
<1>4. \A y \in T : C2[y] \in Seq(D)
  BY <1>3
<1>5. Alone(C2, T)
  <2> SUFFICES ASSUME NEW y \in T, NEW z \in T, NEW i \in DOMAIN C2[y], NEW j \in DOMAIN C2[z],
                      C2[y][i] = C2[z][j]
               PROVE  y = z /\ i = j
    BY DEF Alone
  <2>7. i \in 1..(hi[y] - lo[y]) /\ j \in 1..(hi[z] - lo[z])
    BY <1>3, Zenon
  <2>9. /\ C2[y][i] = v[lo[y] + i] /\ lo[y] + i \in 1..n /\ lo[y] < lo[y] + i /\ lo[y] + i <= hi[y]
        /\ C2[z][j] = v[lo[z] + j] /\ lo[z] + j \in 1..n /\ lo[z] < lo[z] + j /\ lo[z] + j <= hi[z]
    BY <1>3, <2>7, Zenon
  <2>1. PICK k \in 1..n : /\ C2[y][i] = v[k] /\ k = lo[y] + i /\ lo[y] < k /\ k <= hi[y]
    BY <2>9, Zenon
  <2>2. PICK l \in 1..n : /\ C2[z][j] = v[l] /\ l = lo[z] + j /\ lo[z] < l /\ l <= hi[z]
    BY <2>9, Zenon
  <2>8. v[k] = v[l]
    BY <2>1, <2>2, Zenon
  <2>3. k = l
    BY <1>2, <2>8, Zenon
  <2>4. y = z
    <3>1. lo[y] < k /\ k <= hi[y] /\ lo[z] < k /\ k <= hi[z]
      BY <2>1, <2>2, <2>3, Zenon
    <3> QED BY <1>b, <3>1, Zenon
  <2>5. i \in Int /\ j \in Int /\ lo[y] \in Int
    <3>1. lo[y] \in 0..n
      OBVIOUS
    <3>2. \A a, b : i \in 1..a /\ j \in 1..b => i \in Int /\ j \in Int
      OBVIOUS
    <3> QED BY <2>7, <3>1, <3>2
  <2>6. lo[y] + i = lo[y] + j
    BY <2>1, <2>2, <2>3, <2>4
  <2> QED BY <2>4, <2>5, <2>6
<1>6. \A d : IsAt(C, T, d) <=> \E i \in 1..n : v[i] = d
  <2> TAKE d
  <2>1. PICK e : e = <<>> /\ DOMAIN e = {}
    <3>1. PICK e : e = <<>>
      OBVIOUS
    <3> QED BY <3>1
  <2>2. \A y \in T \ {x} : DOMAIN C[y] = {}
    BY <2>1
  <2> QED BY <1>1, <2>2 DEF IsAt
<1>7. \A d : IsAt(C2, T, d) => \E i \in 1..n : v[i] = d
  <2> SUFFICES ASSUME NEW d, NEW y \in T, NEW i \in DOMAIN C2[y], C2[y][i] = d
               PROVE  \E k \in 1..n : v[k] = d
    BY DEF IsAt
  <2>1. C2[y][i] = v[lo[y] + i] /\ lo[y] + i \in 1..n
    BY <1>3
  <2> QED BY <2>1
<1>8. ASSUME NEW k \in 1..n PROVE IsAt(C2, T, v[k])
  <2>1. PICK y \in T : lo[y] < k /\ k <= hi[y]
    OBVIOUS
  <2>2. PICK a \in 0..n, b \in 0..n : a = lo[y] /\ b = hi[y]
    OBVIOUS
  <2>3. PICK i \in 1..(b - a) : k = a + i
    <3>2. a \in Nat /\ b \in Nat /\ k \in Nat /\ a < k /\ k <= b
      BY <2>1, <2>2
    <3>1. k - a \in 1..(b - a) /\ k = a + (k - a)
      BY <3>2
    <3> QED BY <3>1
  <2>4. C2[y][i] = v[k] /\ i \in DOMAIN C2[y]
    BY <1>3, <2>2, <2>3
  <2> QED BY <2>4 DEF IsAt
<1>9. \A d : IsAt(C2, T, d) <=> IsAt(C, T, d)
  <2> TAKE d
  <2>1. IsAt(C2, T, d) => IsAt(C, T, d)
    BY <1>6, <1>7
  <2>2. ASSUME NEW i \in 1..n, v[i] = d PROVE IsAt(C2, T, d)
    BY <1>8, <2>2
  <2> QED BY <1>6, <2>1, <2>2
<1> QED BY <1>4, <1>5, <1>9

LEMMA Cut ==
  ASSUME NEW Names, NEW C, NEW D, Forest(Names, C, D), NEW x \in Names, NEW T, NEW lo, NEW hi, NEW C2,
         Pieces(Names, C, x, T, lo, hi, C2)
  PROVE  Forest(Names, C2, D)
<1>1. /\ \A y \in T : C2[y] \in Seq(D)
      /\ Alone(C2, T)
      /\ \A d : IsAt(C2, T, d) <=> IsAt(C, T, d)
  BY CutPieces
<1>2. T \subseteq Names /\ \A y \in Names \ T : C2[y] = C[y]
  BY DEF Pieces
<1> QED BY <1>1, <1>2, Rearranged

\* The pieces are taken from the end, one after the other: t[k] elements before the
\* k-th piece, which goes to g[k].  What is left goes to r.
Dealt(Names, C, x, r, K, t, g, C2) ==
  LET n == Len(C[x])
  IN /\ n \in Nat /\ K \in Nat
     /\ t \in [1..(K + 1) -> 0..n] /\ t[1] = 0
     /\ \A j, k \in 1..(K + 1) : j <= k => t[j] <= t[k]
     /\ g \in [1..K -> Names] /\ \A j, k \in 1..K : g[j] = g[k] => j = k
     /\ \A k \in 1..K : g[k] # x /\ g[k] # r /\ C[g[k]] = <<>>
     /\ r # x => C[r] = <<>> /\ C2[x] = <<>>
     /\ \A k \in 1..K : C2[g[k]] = SubSeq(C[x], n - t[k + 1] + 1, n - t[k])
     /\ C2[r] = SubSeq(C[x], 1, n - t[K + 1])
     /\ \A y \in Names : y # x /\ y # r /\ (\A k \in 1..K : y # g[k]) => C2[y] = C[y]

LEMMA DealtIsCut ==
  ASSUME NEW Names, NEW C, NEW x \in Names, NEW r \in Names, NEW K, NEW t, NEW g, NEW C2,
         Dealt(Names, C, x, r, K, t, g, C2)
  PROVE  \E T, lo, hi : Pieces(Names, C, x, T, lo, hi, C2)
<1>1. PICK n : n = Len(C[x])
  OBVIOUS
<1>2. /\ n \in Nat /\ K \in Nat
      /\ t \in [1..(K + 1) -> 0..n] /\ t[1] = 0
      /\ \A j, k \in 1..(K + 1) : j <= k => t[j] <= t[k]
      /\ g \in [1..K -> Names] /\ \A j, k \in 1..K : g[j] = g[k] => j = k
      /\ \A k \in 1..K : g[k] # x /\ g[k] # r /\ C[g[k]] = <<>>
      /\ r # x => C[r] = <<>> /\ C2[x] = <<>>
      /\ \A k \in 1..K : C2[g[k]] = SubSeq(C[x], n - t[k + 1] + 1, n - t[k])
      /\ C2[r] = SubSeq(C[x], 1, n - t[K + 1])
      /\ \A y \in Names : y # x /\ y # r /\ (\A k \in 1..K : y # g[k]) => C2[y] = C[y]
  BY <1>1, Zenon DEF Dealt
<1> DEFINE T    == {x, r} \cup {g[k] : k \in 1..K}
           N(y) == CHOOSE k \in 1..K : g[k] = y
           Lo(y) == IF y \in {x, r} THEN 0 ELSE n - t[N(y) + 1]
           Hi(y) == IF y = r THEN n - t[K + 1] ELSE IF y = x THEN 0 ELSE n - t[N(y)]
<1>3. PICK lo : lo = [y \in T |-> Lo(y)]
  OBVIOUS
<1>4. PICK hi : hi = [y \in T |-> Hi(y)]
  OBVIOUS
<1>5. \A k \in 1..K : N(g[k]) = k
  BY <1>2
<1>6. \A k \in 1..K : k \in 1..(K + 1) /\ k + 1 \in 1..(K + 1) /\ k <= k + 1
  BY <1>2
<1>7. \A k \in 1..(K + 1) : t[k] \in 0..n
  BY <1>2
<1>8. K + 1 \in 1..(K + 1) /\ 1 \in 1..(K + 1)
  BY <1>2
<1>9. \A k \in 1..K : g[k] \in T /\ lo[g[k]] = n - t[k + 1] /\ hi[g[k]] = n - t[k]
  <2> TAKE k \in 1..K
  <2>1. g[k] \in T /\ g[k] \notin {x, r} /\ g[k] # x /\ g[k] # r
    BY <1>2
  <2> HIDE DEF T, N
  <2> QED BY <1>3, <1>4, <1>5, <2>1
<1>10. x \in T /\ r \in T /\ lo[x] = 0 /\ lo[r] = 0 /\ hi[r] = n - t[K + 1] /\ (r # x => hi[x] = 0)
  <2>1. x \in T /\ r \in T
    OBVIOUS
  <2> HIDE DEF T, N
  <2> QED BY <1>3, <1>4, <2>1
<1>11. T \subseteq Names
  BY <1>2
<1>12. \A y \in T : y = x \/ y = r \/ \E k \in 1..K : y = g[k]
  OBVIOUS
<1>13. DOMAIN lo = T /\ DOMAIN hi = T /\ lo = [y \in T |-> lo[y]] /\ hi = [y \in T |-> hi[y]]
  BY <1>3, <1>4
<1> HIDE DEF T, N, Lo, Hi
<1>14. \A k \in 1..K : /\ n - t[k + 1] \in 0..n /\ n - t[k] \in 0..n /\ n - t[k + 1] <= n - t[k]
                       /\ n - t[K + 1] <= n - t[k + 1]
  <2> SUFFICES ASSUME NEW k \in 1..K
               PROVE  /\ n - t[k + 1] \in 0..n /\ n - t[k] \in 0..n /\ n - t[k + 1] <= n - t[k]
                      /\ n - t[K + 1] <= n - t[k + 1]
    OBVIOUS
  <2>1. k + 1 <= K + 1
    BY <1>2
  <2>2. PICK a \in 0..n, b \in 0..n, c \in 0..n : a = t[k] /\ b = t[k + 1] /\ c = t[K + 1]
    BY <1>6, <1>7, <1>8
  <2>3. a <= b /\ b <= c
    BY <1>2, <1>6, <1>8, <2>1, <2>2
  <2>4. n - b \in 0..n /\ n - a \in 0..n /\ n - b <= n - a /\ n - c <= n - b
    BY <1>2, <2>3
  <2> QED BY <2>2, <2>4
<1>15. n - t[K + 1] \in 0..n /\ 0 \in 0..n /\ 0 <= n - t[K + 1]
  <2>1. PICK c \in 0..n : c = t[K + 1]
    BY <1>7, <1>8
  <2>2. n - c \in 0..n /\ 0 \in 0..n /\ 0 <= n - c
    BY <1>2
  <2> QED BY <2>1, <2>2
<1>16. \A y \in T : lo[y] \in 0..n /\ hi[y] \in 0..n /\ lo[y] <= hi[y]
  <2> SUFFICES ASSUME NEW y \in T PROVE lo[y] \in 0..n /\ hi[y] \in 0..n /\ lo[y] <= hi[y]
    OBVIOUS
  <2>1. CASE y = r
    BY <1>10, <1>15, <2>1
  <2>2. CASE y = x /\ r # x
    BY <1>10, <1>15, <2>2
  <2>3. ASSUME NEW k \in 1..K, y = g[k] PROVE lo[y] \in 0..n /\ hi[y] \in 0..n /\ lo[y] <= hi[y]
    BY <1>9, <1>14, <2>3
  <2> QED BY <1>12, <2>1, <2>2, <2>3
<1>17. lo \in [T -> 0..n] /\ hi \in [T -> 0..n]
  BY <1>13, <1>16
<1>18. ASSUME NEW i \in 1..n PROVE \E y \in T : lo[y] < i /\ i <= hi[y]
  <2>1. CASE i <= n - t[K + 1]
    <3>1. 0 < i
      BY <1>2
    <3> QED BY <1>10, <2>1, <3>1
  <2>2. CASE ~(i <= n - t[K + 1])
    <3> DEFINE U == {k \in 1..(K + 1) : ~(i <= n - t[k])}
    <3>8. \A k \in 1..(K + 1) : k \in Nat
      OBVIOUS
    <3>1. U \in SUBSET Nat /\ K + 1 \in U
      BY <1>8, <2>2, <3>8
    <3>2. PICK k \in U : \A l \in U : k <= l
      BY <3>1, LeastNumber
    <3>3. k # 1
      BY <1>2
    <3>4. PICK l \in 1..K : k = l + 1
      <4>1. k - 1 \in 1..K /\ k = (k - 1) + 1
        BY <1>2, <3>2, <3>3
      <4> QED BY <4>1
    <3>5. l \notin U
      BY <1>2, <3>2, <3>4
    <3>6. i <= n - t[l] /\ ~(i <= n - t[l + 1])
      BY <1>6, <3>2, <3>4, <3>5
    <3>7. n - t[l + 1] < i
      <4>1. PICK a \in 0..n : a = n - t[l + 1]
        BY <1>14
      <4> QED BY <1>2, <3>6, <4>1
    <3> QED BY <1>9, <3>6, <3>7
  <2> QED BY <2>1, <2>2
<1>19. ASSUME NEW y \in T, NEW z \in T, NEW i \in 1..n, lo[y] < i, i <= hi[y], lo[z] < i, i <= hi[z]
       PROVE  y = z
  <2>1. ASSUME NEW k \in 1..K, NEW u \in T, u \in {x, r}, lo[u] < i, i <= hi[u], n - t[k + 1] < i
        PROVE  FALSE
    <3>1. PICK a \in 0..n, c \in 0..n : a = n - t[k + 1] /\ c = n - t[K + 1] /\ c <= a
      BY <1>14, <1>15
    <3>2. i <= c \/ i <= 0
      BY <1>10, <2>1, <3>1
    <3> QED BY <1>2, <2>1, <3>1, <3>2
  <2>2. ASSUME NEW k \in 1..K, NEW l \in 1..K, k < l, n - t[k + 1] < i, i <= n - t[l]
        PROVE  FALSE
    <3>1. k + 1 \in 1..(K + 1) /\ l \in 1..(K + 1) /\ k + 1 <= l
      BY <1>2, <2>2
    <3>2. PICK a \in 0..n, b \in 0..n : a = t[k + 1] /\ b = t[l] /\ a <= b
      BY <1>2, <1>7, <3>1
    <3>3. n - a < i /\ i <= n - b
      BY <2>2, <3>2
    <3> QED BY <1>2, <3>2, <3>3
  <2>3. CASE y \in {x, r} /\ z \in {x, r}
    <3>1. SUFFICES ASSUME r # x, y = x \/ z = x PROVE FALSE
      BY <2>3
    <3>2. hi[x] = 0
      BY <1>10, <3>1
    <3>3. ~(i <= 0)
      BY <1>2
    <3> QED BY <1>19, <3>1, <3>2, <3>3
  <2>4. CASE y \in {x, r} /\ z \notin {x, r}
    <3>1. PICK k \in 1..K : z = g[k]
      BY <1>12, <2>4
    <3>2. n - t[k + 1] < i
      BY <1>9, <1>19, <3>1
    <3> QED BY <1>19, <2>1, <2>4, <3>2
  <2>5. CASE y \notin {x, r} /\ z \in {x, r}
    <3>1. PICK k \in 1..K : y = g[k]
      BY <1>12, <2>5
    <3>2. n - t[k + 1] < i
      BY <1>9, <1>19, <3>1
    <3> QED BY <1>19, <2>1, <2>5, <3>2
  <2>6. CASE y \notin {x, r} /\ z \notin {x, r}
    <3>1. PICK k \in 1..K, l \in 1..K : y = g[k] /\ z = g[l]
      BY <1>12, <2>6
    <3>2. n - t[k + 1] < i /\ i <= n - t[k] /\ n - t[l + 1] < i /\ i <= n - t[l]
      BY <1>9, <1>19, <3>1
    <3>3. ~(k < l) /\ ~(l < k)
      BY <2>2, <3>2
    <3>4. k = l
      BY <1>2, <3>3
    <3> QED BY <3>1, <3>4
  <2> QED BY <2>3, <2>4, <2>5, <2>6
<1>20. ASSUME NEW y \in T PROVE C2[y] = SubSeq(C[x], lo[y] + 1, hi[y])
  <2>1. CASE y = r
    <3>1. lo[y] + 1 = 1 /\ hi[y] = n - t[K + 1]
      BY <1>10, <2>1
    <3> QED BY <1>2, <2>1, <3>1
  <2>2. CASE y = x /\ r # x
    <3>1. lo[y] + 1 = 1 /\ hi[y] = 0
      BY <1>10, <2>2
    <3>2. SubSeq(C[x], 1, 0) = <<>>
      BY SubSeqEmpty
    <3> QED BY <1>2, <2>2, <3>1, <3>2
  <2>3. ASSUME NEW k \in 1..K, y = g[k] PROVE C2[y] = SubSeq(C[x], lo[y] + 1, hi[y])
    BY <1>2, <1>9, <2>3
  <2> QED BY <1>12, <2>1, <2>2, <2>3
<1>21. \A y \in T \ {x} : C[y] = <<>>
  <2> SUFFICES ASSUME NEW y \in T, y # x PROVE C[y] = <<>>
    OBVIOUS
  <2>1. CASE y = r
    BY <1>2, <2>1
  <2>2. ASSUME NEW k \in 1..K, y = g[k] PROVE C[y] = <<>>
    BY <1>2, <2>2
  <2> QED BY <1>12, <2>1, <2>2
<1>22. \A y \in Names \ T : C2[y] = C[y]
  <2> SUFFICES ASSUME NEW y \in Names, y \notin T PROVE C2[y] = C[y]
    OBVIOUS
  <2>1. y # x /\ y # r /\ \A k \in 1..K : y # g[k]
    BY <1>9, <1>10
  <2> QED BY <1>2, <2>1
<1>23. \A y \in T : lo[y] <= hi[y]
  BY <1>16
<1>24. Pieces(Names, C, x, T, lo, hi, C2)
  BY <1>1, <1>2, <1>10, <1>11, <1>17, <1>18, <1>19, <1>20, <1>21, <1>22, <1>23, Zenon DEF Pieces
<1> QED BY <1>24, Zenon

LEMMA Deal ==
  ASSUME NEW Names, NEW C, NEW D, Forest(Names, C, D), NEW x \in Names, NEW r \in Names, NEW K,
         NEW t, NEW g, NEW C2,
         Dealt(Names, C, x, r, K, t, g, C2)
  PROVE  Forest(Names, C2, D)
<1>1. PICK T, lo, hi : Pieces(Names, C, x, T, lo, hi, C2)
  BY DealtIsCut
<1> QED BY <1>1, Cut

\* One place is put behind another.
LEMMA JoinedTo ==
  ASSUME NEW Names, NEW C, NEW D, Forest(Names, C, D), NEW x \in Names, NEW y \in Names, x # y,
         NEW C2, C2[x] = C[x] \o C[y], C2[y] = <<>>, \A z \in Names \ {x, y} : C2[z] = C[z]
  PROVE  Forest(Names, C2, D)
<1>1. PICK v \in Seq(D), w \in Seq(D) : v = C[x] /\ w = C[y]
  BY DEF Forest
<1>2. PICK a \in Nat, b \in Nat : a = Len(v) /\ b = Len(w) /\ DOMAIN v = 1..a /\ DOMAIN w = 1..b
  OBVIOUS
<1>3. PICK u \in Seq(D) : /\ u = v \o w /\ DOMAIN u = 1..(a + b)
                          /\ \A i \in 1..(a + b) : u[i] = IF i <= a THEN v[i] ELSE w[i - a]
  <2>1. /\ v \o w \in Seq(D) /\ Len(v \o w) = Len(v) + Len(w)
        /\ \A i \in 1..(Len(v) + Len(w)) : (v \o w)[i] = IF i <= Len(v) THEN v[i] ELSE w[i - Len(v)]
    BY ConcatProperties
  <2>2. PICK u : u = v \o w
    OBVIOUS
  <2>3. u \in Seq(D) /\ Len(u) = a + b
    BY <1>2, <2>1, <2>2
  <2>4. DOMAIN u = 1..(a + b)
    BY <2>3
  <2>5. \A i \in 1..(a + b) : u[i] = IF i <= a THEN v[i] ELSE w[i - a]
    BY <1>2, <2>1, <2>2
  <2> QED BY <2>2, <2>3, <2>4, <2>5
<1>4. PICK e : e = <<>> /\ DOMAIN e = {} /\ e \in Seq(D)
  <2>1. PICK e : e = <<>>
    OBVIOUS
  <2>2. DOMAIN e = {} /\ e \in Seq(D)
    BY <2>1
  <2> QED BY <2>1, <2>2
<1>5. C2[x] = u /\ C2[y] = e
  BY <1>1, <1>3, <1>4
<1>6. /\ \A i \in 1..a : i \in 1..(a + b) /\ u[i] = v[i]
      /\ \A i \in 1..b : a + i \in 1..(a + b) /\ u[a + i] = w[i]
      /\ \A i \in 1..(a + b) : (i \in 1..a) \/ \E j \in 1..b : i = a + j
  <2>1. \A i \in 1..a : i \in 1..(a + b) /\ i <= a
    OBVIOUS
  <2>2. \A i \in 1..b : a + i \in 1..(a + b) /\ ~(a + i <= a) /\ a + i - a = i
    OBVIOUS
  <2>3. ASSUME NEW i \in 1..(a + b), i \notin 1..a PROVE \E j \in 1..b : i = a + j
    <3>1. i - a \in 1..b /\ i = a + (i - a)
      BY <2>3
    <3> QED BY <3>1
  <2> QED BY <1>3, <2>1, <2>2, <2>3
<1>7. \A d : IsAt(C, {x, y}, d) <=> (\E i \in 1..a : v[i] = d) \/ (\E i \in 1..b : w[i] = d)
  BY <1>1, <1>2 DEF IsAt
<1>8. \A d : IsAt(C2, {x, y}, d) <=> \E i \in 1..(a + b) : u[i] = d
  BY <1>3, <1>4, <1>5 DEF IsAt
<1>9. \A d : IsAt(C2, {x, y}, d) <=> IsAt(C, {x, y}, d)
  <2> TAKE d
  <2>1. (\E i \in 1..(a + b) : u[i] = d) <=> (\E i \in 1..a : v[i] = d) \/ (\E i \in 1..b : w[i] = d)
    <3>1. ASSUME NEW i \in 1..(a + b), u[i] = d
          PROVE  (\E k \in 1..a : v[k] = d) \/ (\E k \in 1..b : w[k] = d)
      <4>1. CASE i \in 1..a
        BY <1>6, <3>1, <4>1
      <4>2. ASSUME NEW j \in 1..b, i = a + j PROVE \E k \in 1..b : w[k] = d
        BY <1>6, <3>1, <4>2
      <4> QED BY <1>6, <4>1, <4>2
    <3>2. ASSUME NEW i \in 1..a, v[i] = d PROVE \E k \in 1..(a + b) : u[k] = d
      BY <1>6, <3>2
    <3>3. ASSUME NEW i \in 1..b, w[i] = d PROVE \E k \in 1..(a + b) : u[k] = d
      BY <1>6, <3>3
    <3> QED BY <3>1, <3>2, <3>3
  <2> QED BY <1>7, <1>8, <2>1, Zenon
<1>10. ASSUME NEW i \in 1..(a + b), NEW j \in 1..(a + b), u[i] = u[j] PROVE i = j
  <2>1. \A k \in DOMAIN v, l \in DOMAIN v : v[k] = v[l] => k = l
    BY <1>1, OnePlace
  <2>2. \A k \in DOMAIN w, l \in DOMAIN w : w[k] = w[l] => k = l
    BY <1>1, OnePlace
  <2>3. \A k \in DOMAIN v, l \in DOMAIN w : v[k] # w[l]
    <3>1. \A k \in DOMAIN C[x], l \in DOMAIN C[y] : C[x][k] # C[y][l]
      BY DEF Forest, Alone
    <3> QED BY <1>1, <3>1
  <2>4. ASSUME NEW k \in 1..(a + b), k \notin 1..a PROVE \E l \in DOMAIN w : k = a + l /\ u[k] = w[l]
    <3>1. PICK l \in 1..b : k = a + l
      BY <1>6, <2>4
    <3>2. l \in DOMAIN w
      BY <1>2
    <3>3. u[k] = w[l]
      BY <1>6, <3>1
    <3> QED BY <3>1, <3>2, <3>3
  <2>5. \A k \in 1..a : u[k] = v[k] /\ k \in DOMAIN v
    BY <1>2, <1>6
  <2>6. CASE i \in 1..a /\ j \in 1..a
    BY <1>10, <2>1, <2>5, <2>6
  <2>7. CASE i \in 1..a /\ j \notin 1..a
    <3>1. PICK l \in DOMAIN w : u[j] = w[l]
      BY <2>4, <2>7
    <3> QED BY <1>10, <2>3, <2>5, <2>7, <3>1
  <2>8. CASE i \notin 1..a /\ j \in 1..a
    <3>1. PICK l \in DOMAIN w : u[i] = w[l]
      BY <2>4, <2>8
    <3> QED BY <1>10, <2>3, <2>5, <2>8, <3>1
  <2>9. CASE i \notin 1..a /\ j \notin 1..a
    <3>1. PICK k \in DOMAIN w : i = a + k /\ u[i] = w[k]
      BY <2>4, <2>9
    <3>2. PICK l \in DOMAIN w : j = a + l /\ u[j] = w[l]
      BY <2>4, <2>9
    <3>3. k = l
      BY <1>10, <2>2, <3>1, <3>2
    <3> QED BY <3>1, <3>2, <3>3
  <2> QED BY <2>6, <2>7, <2>8, <2>9
<1>11. Alone(C2, {x, y})
  <2>1. \A i \in DOMAIN C2[x], j \in DOMAIN C2[x] : C2[x][i] = C2[x][j] => i = j
    BY <1>3, <1>5, <1>10
  <2>2. DOMAIN C2[y] = {}
    BY <1>4, <1>5
  <2> QED BY <2>1, <2>2 DEF Alone
<1>12. \A z \in {x, y} : C2[z] \in Seq(D)
  BY <1>4, <1>5
<1> QED BY <1>9, <1>11, <1>12, Rearranged

\* A new pointer is put behind a place.
LEMMA Added ==
  ASSUME NEW Names, NEW C, NEW D, Forest(Names, C, D), NEW x \in Names, NEW d, d \notin D,
         NEW C2, C2[x] = Append(C[x], d), \A z \in Names \ {x} : C2[z] = C[z]
  PROVE  Forest(Names, C2, D \cup {d})
<1>1. PICK S : S = D \cup {d}
  OBVIOUS
<1>2. PICK v \in Seq(D) : v = C[x] /\ v \in Seq(S)
  <2>1. C[x] \in Seq(D)
    BY DEF Forest
  <2> QED BY <1>1, <2>1, SeqMonotonic
<1>3. PICK a \in Nat : a = Len(v) /\ DOMAIN v = 1..a
  BY <1>2
<1>4. PICK u \in Seq(S) : u = Append(v, d) /\ Len(u) = a + 1 /\ (\A i \in 1..a : u[i] = v[i]) /\ u[a + 1] = d
  BY <1>1, <1>2, <1>3, AppendProperties
<1>5. DOMAIN u = 1..(a + 1) /\ \A i \in 1..(a + 1) : i \in 1..a \/ i = a + 1
  BY <1>4
<1>6. \A i \in 1..a : v[i] \in D /\ v[i] # d
  BY <1>2, <1>3
<1>7. \A i \in 1..a, j \in 1..a : v[i] = v[j] => i = j
  BY <1>2, <1>3, OnePlace
<1>8. IsInjective(u)
  BY <1>4, <1>5, <1>6, <1>7 DEF IsInjective
<1>9. \A i \in DOMAIN u : u[i] \notin D \/ u[i] \in Range(C[x])
  BY <1>2, <1>3, <1>4, <1>5 DEF Range
<1>10. \A e \in S : e \notin D \/ e \in Range(C[x]) => e \in Range(u)
  <2>1. d \in Range(u)
    <3>1. a + 1 \in 1..(a + 1)
      OBVIOUS
    <3> QED BY <1>4, <1>5, <3>1 DEF Range
  <2>2. \A i \in 1..a : v[i] \in Range(u)
    <3>1. \A i \in 1..a : i \in 1..(a + 1)
      OBVIOUS
    <3> QED BY <1>4, <1>5, <3>1 DEF Range
  <2>3. \A e \in Range(C[x]) : \E i \in 1..a : e = v[i]
    BY <1>2, <1>3 DEF Range
  <2> QED BY <1>1, <2>1, <2>2, <2>3
<1>11. \A e \in D : e \in S \/ e \in Range(C[x])
  BY <1>1
<1>12. C2[x] = u
  BY <1>2, <1>4
<1> QED BY <1>1, <1>8, <1>9, <1>10, <1>11, <1>12, PlaceSet

\* A sequence with a new element before the last one.
BeforeLast(v, d) == Front(v) \o <<d, Last(v)>>

LEMMA InsertIs ==
  ASSUME NEW D, NEW v \in Seq(D), IsInjective(v), v # <<>>, NEW d, d \notin D
  PROVE  LET u == BeforeLast(v, d)
         IN u \in Seq(D \cup {d}) /\ IsInjective(u) /\ Range(u) = Range(v) \cup {d}
<1>1. PICK S : S = D \cup {d}
  OBVIOUS
<1>3. PICK a \in Nat : Len(v) = a + 1 /\ DOMAIN v = 1..(a + 1)
  <2>1. PICK n \in Nat : n = Len(v) /\ n # 0
    BY EmptySeq
  <2>2. n - 1 \in Nat /\ n = (n - 1) + 1
    BY <2>1
  <2>3. PICK b \in Nat : n = b + 1
    BY <2>2
  <2>4. Len(v) = b + 1
    BY <2>1, <2>3
  <2>5. DOMAIN v = 1..(b + 1)
    <3>1. DOMAIN v = 1..Len(v)
      OBVIOUS
    <3> QED BY <2>4, <3>1
  <2> QED BY <2>4, <2>5
<1>4. PICK w \in Seq(D) : w = Front(v) /\ Len(w) = a /\ \A i \in 1..a : w[i] = v[i]
  <2>1. Front(v) \in Seq(D) /\ Len(Front(v)) = Len(v) - 1 /\ v = Append(Front(v), Last(v)) /\ Last(v) \in D
    BY FrontOf
  <2>2. PICK w \in Seq(D), l \in D : w = Front(v) /\ l = Last(v)
    BY <2>1
  <2>3. Len(w) = a /\ v = Append(w, l)
    BY <1>3, <2>1, <2>2
  <2>4. \A i \in 1..a : w[i] = v[i]
    BY <2>3, AppendProperties
  <2> QED BY <2>2, <2>3, <2>4
<1>5. PICK l : l = v[a + 1] /\ l = Last(v)
  BY <1>3 DEF Last
<1>6. PICK q \in Seq(S) : q = <<d, l>> /\ Len(q) = 2 /\ q[1] = d /\ q[2] = l
  <2>1. PICK q : q = <<d, l>>
    OBVIOUS
  <2>2. l \in S /\ d \in S
    <3>1. a + 1 \in 1..(a + 1)
      OBVIOUS
    <3>2. v[a + 1] \in D
      BY <1>3, <3>1
    <3> QED BY <1>1, <1>5, <3>2
  <2>3. q \in Seq(S) /\ Len(q) = 2 /\ q[1] = d /\ q[2] = l
    BY <2>1, <2>2
  <2> QED BY <2>1, <2>3
<1>7. PICK u \in Seq(S) : /\ u = w \o q /\ Len(u) = a + 2 /\ (\A i \in 1..a : u[i] = v[i])
                          /\ u[a + 1] = d /\ u[a + 2] = l
  <2>1. w \in Seq(S)
    BY <1>1, <1>4, SeqMonotonic
  <2>2. /\ w \o q \in Seq(S) /\ Len(w \o q) = Len(w) + Len(q)
        /\ \A i \in 1..(Len(w) + Len(q)) : (w \o q)[i] = IF i <= Len(w) THEN w[i] ELSE q[i - Len(w)]
    BY <1>6, <2>1, ConcatProperties
  <2>3. PICK u : u = w \o q
    OBVIOUS
  <2>4. u \in Seq(S) /\ Len(u) = a + 2 /\ \A i \in 1..(a + 2) : u[i] = IF i <= a THEN w[i] ELSE q[i - a]
    BY <1>4, <1>6, <2>2, <2>3
  <2>5. /\ \A i \in 1..a : i \in 1..(a + 2) /\ i <= a
        /\ a + 1 \in 1..(a + 2) /\ ~(a + 1 <= a) /\ a + 1 - a = 1
        /\ a + 2 \in 1..(a + 2) /\ ~(a + 2 <= a) /\ a + 2 - a = 2
    OBVIOUS
  <2>6. \A i \in 1..a : u[i] = v[i]
    BY <1>4, <2>4, <2>5
  <2>7. u[a + 1] = d /\ u[a + 2] = l
    BY <1>6, <2>4, <2>5
  <2> QED BY <2>3, <2>4, <2>6, <2>7
<1>8. DOMAIN u = 1..(a + 2) /\ \A i \in 1..(a + 2) : i \in 1..a \/ i = a + 1 \/ i = a + 2
  BY <1>7
<1>9. \A i \in 1..a : i \in 1..(a + 1) /\ i # a + 1
  OBVIOUS
<1>10. \A i \in 1..(a + 1) : v[i] \in D /\ v[i] # d /\ (i \in 1..a \/ i = a + 1)
  BY <1>3
<1>11. \A i \in 1..(a + 1), j \in 1..(a + 1) : v[i] = v[j] => i = j
  BY <1>3 DEF IsInjective
<1>12. a + 1 \in 1..(a + 1)
  OBVIOUS
<1>13. l # d /\ l \in D /\ \A i \in 1..a : v[i] # l /\ v[i] # d
  BY <1>5, <1>9, <1>10, <1>11, <1>12
<1>14. IsInjective(u)
  <2> SUFFICES ASSUME NEW i \in 1..(a + 2), NEW j \in 1..(a + 2), u[i] = u[j] PROVE i = j
    BY <1>8 DEF IsInjective
  <2>1. CASE i \in 1..a /\ j \in 1..a
    BY <1>7, <1>9, <1>11, <2>1
  <2>2. CASE i \in 1..a /\ j \notin 1..a
    BY <1>7, <1>8, <1>13, <2>2
  <2>3. CASE i \notin 1..a /\ j \in 1..a
    BY <1>7, <1>8, <1>13, <2>3
  <2>4. CASE i \notin 1..a /\ j \notin 1..a
    BY <1>7, <1>8, <1>13, <2>4
  <2> QED BY <2>1, <2>2, <2>3, <2>4
<1>15. Range(v) = {v[i] : i \in 1..(a + 1)}
  BY <1>3 DEF Range
<1>16. l \in Range(v) /\ \A i \in 1..a : v[i] \in Range(v)
  BY <1>5, <1>9, <1>12, <1>15
<1>18. d \in Range(u) /\ l \in Range(u) /\ \A i \in 1..a : v[i] \in Range(u)
  <2>1. a + 1 \in 1..(a + 2) /\ a + 2 \in 1..(a + 2) /\ \A i \in 1..a : i \in 1..(a + 2)
    OBVIOUS
  <2>2. \A i \in 1..(a + 2) : u[i] \in Range(u)
    BY <1>8 DEF Range
  <2> QED BY <1>7, <2>1, <2>2
<1>19. \A i \in DOMAIN u : u[i] \in Range(v) \cup {d}
  BY <1>7, <1>8, <1>16
<1>20. Range(u) \subseteq Range(v) \cup {d}
  BY <1>19 DEF Range
<1>21. \A e \in Range(v) : e = l \/ \E i \in 1..a : e = v[i]
  BY <1>5, <1>10, <1>15
<1>22. Range(v) \cup {d} \subseteq Range(u)
  BY <1>18, <1>21
<1>23. u = BeforeLast(v, d)
  BY <1>4, <1>5, <1>6, <1>7 DEF BeforeLast
<1>24. Range(u) = Range(v) \cup {d}
  BY <1>20, <1>22
<1> QED BY <1>1, <1>14, <1>23, <1>24

\* A new pointer is put before the last one of a place.
LEMMA Inserted ==
  ASSUME NEW Names, NEW C, NEW D, Forest(Names, C, D), NEW x \in Names, NEW d, d \notin D, C[x] # <<>>,
         NEW C2, C2[x] = BeforeLast(C[x], d), \A z \in Names \ {x} : C2[z] = C[z]
  PROVE  Forest(Names, C2, D \cup {d})
<1>1. PICK v \in Seq(D) : v = C[x]
  BY DEF Forest
<1>2. IsInjective(v)
  BY <1>1, OnePlace DEF IsInjective
<1>3. PICK u : u = BeforeLast(v, d)
  OBVIOUS
<1>4. u \in Seq(D \cup {d}) /\ IsInjective(u) /\ Range(u) = Range(v) \cup {d}
  BY <1>1, <1>2, <1>3, InsertIs
<1>5. C2[x] = u
  BY <1>1, <1>3
<1>6. \A i \in DOMAIN u : u[i] \in Range(u)
  BY DEF Range
<1>7. \A i \in DOMAIN u : u[i] \notin D \/ u[i] \in Range(C[x])
  BY <1>1, <1>4, <1>6
<1>8. \A e \in D \cup {d} : e \notin D \/ e \in Range(C[x]) => e \in Range(u)
  BY <1>1, <1>4
<1>9. \A e \in D : e \in D \cup {d} \/ e \in Range(C[x])
  OBVIOUS
<1>10. PICK S : S = D \cup {d}
  OBVIOUS
<1>11. u \in Seq(S) /\ IsInjective(u)
  BY <1>4, <1>10
<1>12. /\ \A e \in S : e \notin D \/ e \in Range(C[x]) => e \in Range(u)
       /\ \A e \in D : e \in S \/ e \in Range(C[x])
  BY <1>8, <1>9, <1>10
<1>13. Forest(Names, C2, S)
  BY <1>5, <1>7, <1>11, <1>12, PlaceSet
<1> QED BY <1>10, <1>13

\* The first pointer of a place is no more, nor is what it points to.
LEMMA HeadGone ==
  ASSUME NEW Names, NEW C, NEW D, Forest(Names, C, D), NEW x \in Names, C[x] # <<>>,
         NEW C2, C2[x] = Tail(C[x]), \A z \in Names \ {x} : C2[z] = C[z]
  PROVE  Head(C[x]) \in D /\ Forest(Names, C2, D \ {Head(C[x])})
<1>1. PICK v \in Seq(D) : v = C[x]
  BY DEF Forest
<1>2. PICK a \in Nat : Len(v) = a + 1 /\ DOMAIN v = 1..(a + 1)
  <2>1. Len(v) - 1 \in Nat
    BY <1>1
  <2> QED BY <1>1, <2>1
<1>3. PICK d : d = Head(C[x])
  OBVIOUS
<1>4. d = v[1] /\ d \in D /\ 1 \in 1..(a + 1)
  BY <1>1, <1>2, <1>3
<1>5. PICK u \in Seq(D) : u = Tail(v) /\ Len(u) = a /\ DOMAIN u = 1..a /\ \A i \in 1..a : u[i] = v[i + 1]
  <2>1. Tail(v) \in Seq(D) /\ Len(Tail(v)) = Len(v) - 1 /\ \A i \in 1..Len(Tail(v)) : Tail(v)[i] = v[i + 1]
    BY <1>1, HeadTailProperties
  <2>2. PICK u \in Seq(D) : u = Tail(v)
    BY <2>1
  <2>3. Len(u) = a /\ \A i \in 1..a : u[i] = v[i + 1]
    BY <1>2, <2>1, <2>2
  <2>4. DOMAIN u = 1..a
    BY <2>3
  <2> QED BY <2>2, <2>3, <2>4
<1>6. /\ \A i \in 1..a : i + 1 \in 1..(a + 1) /\ i + 1 # 1
      /\ \A i \in 1..a, j \in 1..a : i + 1 = j + 1 => i = j
  OBVIOUS
<1>7. \A i \in 1..(a + 1) : i # 1 => \E j \in 1..a : i = j + 1
  <2> SUFFICES ASSUME NEW i \in 1..(a + 1), i # 1 PROVE \E j \in 1..a : i = j + 1
    OBVIOUS
  <2>1. i - 1 \in 1..a /\ i = (i - 1) + 1
    OBVIOUS
  <2> QED BY <2>1
<1>8. \A i \in 1..(a + 1), j \in 1..(a + 1) : v[i] = v[j] => i = j
  BY <1>1, <1>2, OnePlace
<1>9. IsInjective(u)
  <2> SUFFICES ASSUME NEW i \in 1..a, NEW j \in 1..a, u[i] = u[j] PROVE i = j
    BY <1>5 DEF IsInjective
  <2>1. v[i + 1] = v[j + 1]
    BY <1>5
  <2>2. i + 1 = j + 1
    BY <1>6, <1>8, <2>1
  <2> QED BY <1>6, <2>2
<1>10. \A i \in 1..a : u[i] \in Range(v) /\ u[i] \in D /\ u[i] # d
  <2> SUFFICES ASSUME NEW i \in 1..a PROVE u[i] \in Range(v) /\ u[i] \in D /\ u[i] # d
    OBVIOUS
  <2>1. u[i] = v[i + 1] /\ i + 1 \in 1..(a + 1) /\ i + 1 # 1
    BY <1>5, <1>6
  <2>2. v[i + 1] # v[1]
    BY <1>4, <1>8, <2>1
  <2>3. v[i + 1] \in D /\ v[i + 1] \in Range(v)
    BY <1>1, <1>2, <2>1 DEF Range
  <2> QED BY <1>4, <2>1, <2>2, <2>3
<1>11. \A e \in Range(v) : e = d \/ e \in Range(u)
  <2> SUFFICES ASSUME NEW i \in 1..(a + 1) PROVE v[i] = d \/ v[i] \in Range(u)
    BY <1>2 DEF Range
  <2>1. CASE i = 1
    BY <1>4, <2>1
  <2>2. CASE i # 1
    <3>1. PICK j \in 1..a : i = j + 1
      BY <1>7, <2>2
    <3>2. v[i] = u[j]
      BY <1>5, <3>1
    <3> QED BY <1>5, <3>2 DEF Range
  <2> QED BY <2>1, <2>2
<1>12. PICK S : S = D \ {d}
  OBVIOUS
<1>13. u \in Seq(S)
  BY <1>5, <1>10, <1>12, SeqIn
<1>14. \A i \in DOMAIN u : u[i] \notin D \/ u[i] \in Range(C[x])
  BY <1>1, <1>5, <1>10
<1>15. \A e \in S : e \notin D \/ e \in Range(C[x]) => e \in Range(u)
  BY <1>1, <1>11, <1>12
<1>16. \A e \in D : e \in S \/ e \in Range(C[x])
  BY <1>1, <1>2, <1>4, <1>12 DEF Range
<1>17. C2[x] = u
  BY <1>1, <1>5
<1>18. Forest(Names, C2, S)
  BY <1>9, <1>13, <1>14, <1>15, <1>16, <1>17, PlaceSet
<1> QED BY <1>3, <1>4, <1>12, <1>18
============================================================================
