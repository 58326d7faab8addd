---------------------------- MODULE ParserProofs ----------------------------
(***************************************************************************)
(* Proofs about Parser, for every set of sources.                          *)
(*                                                                         *)
(* The stacks: every symbol of the grammar changes the length of each      *)
(* stack by a number of its own (Weight), and the symbols of a production  *)
(* add up to what its left-hand side changes (the lemmas on the rules).    *)
(* Hence what is on a stack and what the goal still adds to it are always  *)
(* the same (Balanced), and nothing is left when there is no goal.         *)
(*                                                                         *)
(* The nodes: pointers are numbers that were allocated, each part of a     *)
(* node is a sequence of them, and what is still to be copied is in the    *)
(* heap (Memory).  While no copy shares a node the nodes are a forest: the *)
(* stacks, the lists, the parts of the nodes and what is to be freed are   *)
(* places, every node is in one place, once (Forest), and a node has a     *)
(* higher rank than the nodes in its parts (Ranked).                       *)
(***************************************************************************)
EXTENDS Parser, Induction, SequenceTheorems, TLAPS

-----------------------------------------------------------------------------
(* What a goal consists of. *)

\* Fields that are taken off a stack, each once.
Orders(fields) == {q \in Seq(fields) : IsInjective(q)}
Pops      == Orders({"inner", "index", "elif", "argv"})
ExprOrder == Orders({"expr", "guard", "init"})
StmtOrder == Orders({"true_case", "false_case"})

IsSymbol(x) ==
  /\ x.do = "expr" => x.pops \in Pops
  /\ x.do = "stmt" => /\ x.exprs \in ExprOrder /\ x.stmts \in StmtOrder
                      /\ x.leave \in {"open", "free", "block"}
                      /\ x.leave = "open" => x.stmts = <<>>
IsGoal(g)    == IsList(g) /\ \A x \in Range(g) : IsSymbol(x)

LEMMA GoalOf ==
  ASSUME NEW S, NEW g \in Seq(S), \A x \in S : IsSymbol(x)
  PROVE  IsGoal(g)
BY AList DEF IsGoal

LEMMA GoalProperties ==
  ASSUME NEW g, IsGoal(g)
  PROVE  /\ g \in Seq(Range(g)) /\ Len(g) \in Nat /\ DOMAIN g = 1..Len(g)
         /\ \A k \in 1..Len(g) : IsSymbol(g[k])
<1>1. g \in Seq(Range(g))
  BY DEF IsGoal, IsList
<1>2. Len(g) \in Nat /\ DOMAIN g = 1..Len(g)
  BY <1>1
<1> QED BY <1>1, <1>2 DEF IsGoal, Range

LEMMA GoalJoin ==
  ASSUME NEW g, IsGoal(g), NEW h, IsGoal(h)
  PROVE  /\ IsGoal(g \o h) /\ Len(g \o h) = Len(g) + Len(h)
         /\ \A k \in 1..Len(g \o h) : (g \o h)[k] = IF k <= Len(g) THEN g[k] ELSE h[k - Len(g)]
<1> DEFINE S == Range(g) \cup Range(h)
<1>1. g \in Seq(S) /\ h \in Seq(S)
  BY GoalProperties, SeqMonotonic
<1>2. \A x \in S : IsSymbol(x)
  BY DEF IsGoal
<1> HIDE DEF S
<1>3. /\ g \o h \in Seq(S) /\ Len(g \o h) = Len(g) + Len(h)
      /\ \A k \in 1..(Len(g) + Len(h)) : (g \o h)[k] = IF k <= Len(g) THEN g[k] ELSE h[k - Len(g)]
  BY <1>1, ConcatProperties
<1> QED BY <1>2, <1>3, GoalOf

\* What a symbol, with all that it is expanded to, adds to a stack: expressions
\* that are not counted as arguments, counts, statement lists, definitions and
\* included files.
Exprs(lhs)  == IF lhs \in {"expr", "base", "indexable", "indexed", "argexpr", "nullexpr"} THEN 1
               ELSE IF lhs \in {"arrarg", "structarg"} THEN 2 ELSE 0
Counts(lhs) == IF lhs \in {"refexp", "arglist", "modlist", "arrlist", "structlist"} THEN 1 ELSE 0
Weight(q, x) ==
  CASE x.do = "nonterminal" ->
         IF q = "exprs" THEN Exprs(x.lhs) ELSE IF q = "counts" THEN Counts(x.lhs) ELSE 0
    [] x.do = "expr" ->
         IF q = "exprs" THEN IF HasArgv(x.pops) THEN 2 - Len(x.pops) ELSE 1 - Len(x.pops)
         ELSE IF q = "counts" /\ HasArgv(x.pops) THEN -1 ELSE 0
    [] x.do = "stmt" ->
         IF q = "exprs" THEN 0 - Len(x.exprs)
         ELSE IF q = "lists" /\ x.leave # "open" THEN -1 ELSE 0
    [] x.do = "first" -> IF q = "exprs" THEN -1 ELSE IF q = "counts" THEN 1 ELSE 0
    [] x.do = "next" -> IF q = "exprs" THEN -1 ELSE 0
    [] x.do = "keyarray_single" -> IF q = "exprs" THEN 1 ELSE 0
    [] x.do = "op_assign_array" -> IF q = "counts" THEN -1 ELSE 0
    [] x.do = "enter" -> IF q = "lists" THEN 1 ELSE 0
    [] x.do = "begin_func" -> IF q \in {"lists", "defs"} THEN 1 ELSE 0
    [] x.do = "end_lambda" -> IF q = "exprs" THEN 1 ELSE IF q \in {"lists", "defs"} THEN -1 ELSE 0
    [] x.do \in {"end_if", "end_case"} -> IF q \in {"exprs", "lists"} THEN -1 ELSE 0
    [] x.do = "end_func" -> IF q \in {"lists", "defs"} THEN -1 ELSE 0
    [] x.do = "eof" -> IF q = "files" THEN -1 ELSE 0
    [] OTHER -> 0
Quantities == {"exprs", "counts", "lists", "defs", "files"}

LEMMA WeightIsInt ==
  ASSUME NEW q, NEW x, IsSymbol(x)
  PROVE  Weight(q, x) \in Int
<1>1. CASE x.do = "expr"
  <2>1. Len(x.pops) \in Nat
    BY <1>1 DEF IsSymbol, Pops, Orders
  <2> QED BY <1>1, <2>1 DEF Weight
<1>2. CASE x.do = "stmt"
  <2>1. Len(x.exprs) \in Nat
    BY <1>2 DEF IsSymbol, ExprOrder, Orders
  <2> QED BY <1>2, <2>1 DEF Weight
<1>3. CASE x.do \notin {"expr", "stmt"}
  BY <1>3 DEF Weight, Exprs, Counts
<1> QED BY <1>1, <1>2, <1>3

-----------------------------------------------------------------------------
(* Sums. *)

Weights(q, g) == [k \in DOMAIN g |-> Weight(q, g[k])]
Total(q, g)   == SumOf(Weights(q, g))

LEMMA WeightsIsSeq ==
  ASSUME NEW q, NEW g, IsGoal(g)
  PROVE  Weights(q, g) \in Seq(Int) /\ Len(Weights(q, g)) = Len(g) /\ Total(q, g) \in Int
<1>1. Len(g) \in Nat /\ DOMAIN g = 1..Len(g) /\ \A k \in 1..Len(g) : Weight(q, g[k]) \in Int
  BY WeightIsInt, GoalProperties
<1>2. Weights(q, g) \in Seq(Int) /\ Len(Weights(q, g)) = Len(g)
  BY <1>1 DEF Weights
<1> QED BY <1>2, SumReached DEF Total

LEMMA TotalOfNone == \A q : Total(q, <<>>) = 0
<1>1. \A q : Weights(q, <<>>) = <<>>
  BY DEF Weights
<1> QED BY <1>1, SumOfNone DEF Total

LEMMA TotalOfOne ==
  ASSUME NEW q, NEW x, IsSymbol(x)
  PROVE  Total(q, <<x>>) = Weight(q, x)
<1>1. Weights(q, <<x>>) = Append(<<>>, Weight(q, x))
  BY DEF Weights
<1>2. Weight(q, x) \in Int /\ <<>> \in Seq(Int)
  BY WeightIsInt
<1>3. SumOf(Append(<<>>, Weight(q, x))) = SumOf(<<>>) + Weight(q, x)
  BY <1>2, SumOfAppend
<1> QED BY <1>1, <1>2, <1>3, SumOfNone DEF Total

LEMMA TotalOfConcat ==
  ASSUME NEW q, NEW g, IsGoal(g), NEW h, IsGoal(h)
  PROVE  Total(q, g \o h) = Total(q, g) + Total(q, h)
<1>1. Weights(q, g \o h) = Weights(q, g) \o Weights(q, h)
  <2>1. /\ IsGoal(g \o h) /\ Len(g \o h) = Len(g) + Len(h)
        /\ DOMAIN (g \o h) = 1..Len(g \o h) /\ DOMAIN g = 1..Len(g) /\ DOMAIN h = 1..Len(h)
        /\ Len(g) \in Nat /\ Len(h) \in Nat
    BY GoalJoin, GoalProperties
  <2>2. \A k \in 1..Len(g \o h) : (g \o h)[k] = IF k <= Len(g) THEN g[k] ELSE h[k - Len(g)]
    BY GoalJoin
  <2> HIDE DEF IsGoal
  <2>3. PICK u \in Seq(Int) : u = Weights(q, g) /\ Len(u) = Len(g)
    BY WeightsIsSeq
  <2>4. PICK v \in Seq(Int) : v = Weights(q, h) /\ Len(v) = Len(h)
    BY WeightsIsSeq
  <2>5. PICK w \in Seq(Int) : w = Weights(q, g \o h) /\ Len(w) = Len(g) + Len(h)
    BY <2>1, WeightsIsSeq
  <2>6. \A k \in 1..Len(w) : w[k] = (u \o v)[k]
    <3> SUFFICES ASSUME NEW k \in 1..Len(w) PROVE w[k] = (u \o v)[k]
      OBVIOUS
    <3>1. w[k] = Weight(q, (g \o h)[k])
      BY <2>1, <2>5 DEF Weights
    <3>2. CASE k <= Len(g)
      <4>1. k \in DOMAIN g /\ (u \o v)[k] = u[k]
        BY <2>3, <2>4, <2>5, <3>2
      <4>2. u[k] = Weight(q, g[k])
        BY <2>3, <4>1 DEF Weights
      <4> QED BY <2>1, <2>2, <2>5, <3>1, <3>2, <4>1, <4>2
    <3>3. CASE ~(k <= Len(g))
      <4>1. k - Len(g) \in DOMAIN h /\ (u \o v)[k] = v[k - Len(g)]
        <5>1. k \in 1..(Len(u) + Len(v)) /\ k > Len(u) /\ k - Len(g) \in 1..Len(h)
          BY <2>3, <2>4, <2>5, <3>3
        <5>2. (u \o v)[k] = v[k - Len(u)]
          BY <5>1, ConcatProperties
        <5> QED BY <2>1, <2>3, <5>1, <5>2
      <4>2. v[k - Len(g)] = Weight(q, h[k - Len(g)])
        BY <2>4, <4>1 DEF Weights
      <4> QED BY <2>1, <2>2, <2>5, <3>1, <3>3, <4>1, <4>2
    <3> QED BY <3>2, <3>3
  <2>7. u \o v \in Seq(Int) /\ Len(u \o v) = Len(w)
    <3>1. u \o v \in Seq(Int) /\ Len(u \o v) = Len(u) + Len(v)
      BY ConcatProperties
    <3> QED BY <2>3, <2>4, <2>5, <3>1
  <2>8. w = u \o v
    BY <2>6, <2>7, SeqEqual
  <2> QED BY <2>3, <2>4, <2>5, <2>8
<1> QED BY <1>1, WeightsIsSeq, SumOfConcat DEF Total

-----------------------------------------------------------------------------
(* Every production adds what its left-hand side stands for. *)

Adds(g, e, c, l, d) ==
  /\ IsGoal(g)
  /\ Total("exprs", g) = e /\ Total("counts", g) = c /\ Total("lists", g) = l
  /\ Total("defs", g) = d /\ Total("files", g) = 0

Fits(r) == \A lhs \in r.lhs : Adds(r.rhs, Exprs(lhs), Counts(lhs), 0, 0)

LEMMA GoalOfOne ==
  ASSUME NEW x, IsSymbol(x)
  PROVE  IsGoal(<<x>>)
<1>1. PICK S : S = {x}
  OBVIOUS
<1>2. PICK g : g = <<x>>
  OBVIOUS
<1>3. g \in Seq(S) /\ \A y \in S : IsSymbol(y)
  BY <1>1, <1>2
<1>4. IsGoal(g)
  BY <1>3, GoalOf
<1> QED BY <1>2, <1>4

LEMMA AddsOne ==
  ASSUME NEW x, IsSymbol(x), x.do # "eof"
  PROVE  Adds(<<x>>, Weight("exprs", x), Weight("counts", x), Weight("lists", x), Weight("defs", x))
<1>1. IsGoal(<<x>>)
  BY GoalOfOne
<1>2. Weight("files", x) = 0
  BY DEF Weight
<1> QED BY <1>1, <1>2, TotalOfOne DEF Adds

LEMMA AddsJoin ==
  \A g, e1, c1, l1, d1, h, e2, c2, l2, d2 :
     Adds(g, e1, c1, l1, d1) /\ Adds(h, e2, c2, l2, d2)
     => Adds(g \o h, e1 + e2, c1 + c2, l1 + l2, d1 + d2)
<1> TAKE g, e1, c1, l1, d1, h, e2, c2, l2, d2
<1> HAVE Adds(g, e1, c1, l1, d1) /\ Adds(h, e2, c2, l2, d2)
<1>1. IsGoal(g) /\ IsGoal(h) /\ IsGoal(g \o h)
  BY GoalJoin DEF Adds
<1>2. \A q : Total(q, g \o h) = Total(q, g) + Total(q, h)
  BY <1>1, TotalOfConcat
<1> QED BY <1>1, <1>2 DEF Adds

LEMMA AddsNone == Adds(<<>>, 0, 0, 0, 0)
<1>1. IsGoal(<<>>)
  <2>1. PICK S : S = {}
    OBVIOUS
  <2>2. PICK g : g = <<>>
    OBVIOUS
  <2>3. g \in Seq(S) /\ \A y \in S : IsSymbol(y)
    BY <2>1, <2>2
  <2>4. IsGoal(g)
    BY <2>3, GoalOf
  <2> QED BY <2>2, <2>4
<1> QED BY <1>1, TotalOfNone DEF Adds

LEMMA Adds2 ==
  \A x, e1, c1, l1, d1, y, e2, c2, l2, d2 :
     Adds(<<x>>, e1, c1, l1, d1) /\ Adds(<<y>>, e2, c2, l2, d2)
     => Adds(<<x, y>>, e1 + e2, c1 + c2, l1 + l2, d1 + d2)
<1> TAKE x, e1, c1, l1, d1, y, e2, c2, l2, d2
<1> HAVE Adds(<<x>>, e1, c1, l1, d1) /\ Adds(<<y>>, e2, c2, l2, d2)
<1>1. Adds(<<x>> \o <<y>>, e1 + e2, c1 + c2, l1 + l2, d1 + d2)
  BY AddsJoin, Zenon
<1>2. <<x>> \o <<y>> = <<x, y>>
  <2>1. <<x>> \in Seq({x, y}) /\ y \in {x, y}
    OBVIOUS
  <2>2. Append(<<x>>, y) = <<x>> \o <<y>>
    BY <2>1, AppendIsConcat
  <2>3. Append(<<x>>, y) \in Seq({x, y}) /\ <<x, y>> \in Seq({x, y})
    OBVIOUS
  <2>4. Len(Append(<<x>>, y)) = 2 /\ Len(<<x, y>>) = 2
    OBVIOUS
  <2>5. \A k \in 1..2 : Append(<<x>>, y)[k] = <<x, y>>[k]
    OBVIOUS
  <2>6. Append(<<x>>, y) = <<x, y>>
    BY <2>3, <2>4, <2>5, SeqEqual
  <2> QED BY <2>2, <2>6
<1> QED BY <1>1, <1>2

LEMMA Adds3 ==
  \A x, e1, c1, l1, d1, y, e2, c2, l2, d2, z, e3, c3, l3, d3 :
     Adds(<<x>>, e1, c1, l1, d1) /\ Adds(<<y>>, e2, c2, l2, d2) /\ Adds(<<z>>, e3, c3, l3, d3)
     => Adds(<<x, y, z>>, e1 + e2 + e3, c1 + c2 + c3, l1 + l2 + l3, d1 + d2 + d3)
<1> TAKE x, e1, c1, l1, d1, y, e2, c2, l2, d2, z, e3, c3, l3, d3
<1> HAVE Adds(<<x>>, e1, c1, l1, d1) /\ Adds(<<y>>, e2, c2, l2, d2) /\ Adds(<<z>>, e3, c3, l3, d3)
<1>1. Adds(<<x, y>> \o <<z>>, e1 + e2 + e3, c1 + c2 + c3, l1 + l2 + l3, d1 + d2 + d3)
  <2>1. Adds(<<x, y>>, e1 + e2, c1 + c2, l1 + l2, d1 + d2)
    BY Adds2, Zenon
  <2> QED BY <2>1, AddsJoin, Zenon
<1>2. <<x, y>> \o <<z>> = <<x, y, z>>
  <2>1. <<x, y>> \in Seq({x, y, z}) /\ z \in {x, y, z}
    OBVIOUS
  <2>2. Append(<<x, y>>, z) = <<x, y>> \o <<z>>
    BY <2>1, AppendIsConcat
  <2>3. Append(<<x, y>>, z) \in Seq({x, y, z}) /\ <<x, y, z>> \in Seq({x, y, z})
    OBVIOUS
  <2>4. Len(Append(<<x, y>>, z)) = 3 /\ Len(<<x, y, z>>) = 3
    OBVIOUS
  <2>5. \A k \in 1..3 : Append(<<x, y>>, z)[k] = <<x, y, z>>[k]
    OBVIOUS
  <2>6. Append(<<x, y>>, z) = <<x, y, z>>
    BY <2>3, <2>4, <2>5, SeqEqual
  <2> QED BY <2>2, <2>6
<1> QED BY <1>1, <1>2

LEMMA Adds4 ==
  \A x, e1, c1, l1, d1, y, e2, c2, l2, d2, z, e3, c3, l3, d3, u, e4, c4, l4, d4 :
     Adds(<<x>>, e1, c1, l1, d1) /\ Adds(<<y>>, e2, c2, l2, d2) /\ Adds(<<z>>, e3, c3, l3, d3)
     /\ Adds(<<u>>, e4, c4, l4, d4)
     => Adds(<<x, y, z, u>>, e1 + e2 + e3 + e4, c1 + c2 + c3 + c4, l1 + l2 + l3 + l4, d1 + d2 + d3 + d4)
<1> TAKE x, e1, c1, l1, d1, y, e2, c2, l2, d2, z, e3, c3, l3, d3, u, e4, c4, l4, d4
<1> HAVE Adds(<<x>>, e1, c1, l1, d1) /\ Adds(<<y>>, e2, c2, l2, d2) /\ Adds(<<z>>, e3, c3, l3, d3)
     /\ Adds(<<u>>, e4, c4, l4, d4)
<1>1. Adds(<<x, y, z>> \o <<u>>, e1 + e2 + e3 + e4, c1 + c2 + c3 + c4, l1 + l2 + l3 + l4, d1 + d2 + d3 + d4)
  <2>1. Adds(<<x, y, z>>, e1 + e2 + e3, c1 + c2 + c3, l1 + l2 + l3, d1 + d2 + d3)
    BY Adds3, Zenon
  <2> QED BY <2>1, AddsJoin, Zenon
<1>2. <<x, y, z>> \o <<u>> = <<x, y, z, u>>
  <2>1. <<x, y, z>> \in Seq({x, y, z, u}) /\ u \in {x, y, z, u}
    OBVIOUS
  <2>2. Append(<<x, y, z>>, u) = <<x, y, z>> \o <<u>>
    BY <2>1, AppendIsConcat
  <2>3. Append(<<x, y, z>>, u) \in Seq({x, y, z, u}) /\ <<x, y, z, u>> \in Seq({x, y, z, u})
    OBVIOUS
  <2>4. Len(Append(<<x, y, z>>, u)) = 4 /\ Len(<<x, y, z, u>>) = 4
    OBVIOUS
  <2>5. \A k \in 1..4 : Append(<<x, y, z>>, u)[k] = <<x, y, z, u>>[k]
    OBVIOUS
  <2>6. Append(<<x, y, z>>, u) = <<x, y, z, u>>
    BY <2>3, <2>4, <2>5, SeqEqual
  <2> QED BY <2>2, <2>6
<1> QED BY <1>1, <1>2

LEMMA Adds5 ==
  \A x, e1, c1, l1, d1, y, e2, c2, l2, d2, z, e3, c3, l3, d3, u, e4, c4, l4, d4, v, e5, c5, l5,
     d5 :
     Adds(<<x>>, e1, c1, l1, d1) /\ Adds(<<y>>, e2, c2, l2, d2) /\ Adds(<<z>>, e3, c3, l3, d3)
     /\ Adds(<<u>>, e4, c4, l4, d4) /\ Adds(<<v>>, e5, c5, l5, d5)
     => Adds(<<x, y, z, u, v>>, e1 + e2 + e3 + e4 + e5, c1 + c2 + c3 + c4 + c5, l1 + l2 + l3 + l4 + l5, d1 + d2 + d3 + d4 + d5)
<1> TAKE x, e1, c1, l1, d1, y, e2, c2, l2, d2, z, e3, c3, l3, d3, u, e4, c4, l4, d4, v, e5, c5, l5,
     d5
<1> HAVE Adds(<<x>>, e1, c1, l1, d1) /\ Adds(<<y>>, e2, c2, l2, d2) /\ Adds(<<z>>, e3, c3, l3, d3)
     /\ Adds(<<u>>, e4, c4, l4, d4) /\ Adds(<<v>>, e5, c5, l5, d5)
<1>1. Adds(<<x, y, z, u>> \o <<v>>, e1 + e2 + e3 + e4 + e5, c1 + c2 + c3 + c4 + c5, l1 + l2 + l3 + l4 + l5, d1 + d2 + d3 + d4 + d5)
  <2>1. Adds(<<x, y, z, u>>, e1 + e2 + e3 + e4, c1 + c2 + c3 + c4, l1 + l2 + l3 + l4, d1 + d2 + d3 + d4)
    BY Adds4, Zenon
  <2> QED BY <2>1, AddsJoin, Zenon
<1>2. <<x, y, z, u>> \o <<v>> = <<x, y, z, u, v>>
  <2>1. <<x, y, z, u>> \in Seq({x, y, z, u, v}) /\ v \in {x, y, z, u, v}
    OBVIOUS
  <2>2. Append(<<x, y, z, u>>, v) = <<x, y, z, u>> \o <<v>>
    BY <2>1, AppendIsConcat
  <2>3. Append(<<x, y, z, u>>, v) \in Seq({x, y, z, u, v}) /\ <<x, y, z, u, v>> \in Seq({x, y, z, u, v})
    OBVIOUS
  <2>4. Len(Append(<<x, y, z, u>>, v)) = 5 /\ Len(<<x, y, z, u, v>>) = 5
    OBVIOUS
  <2>5. \A k \in 1..5 : Append(<<x, y, z, u>>, v)[k] = <<x, y, z, u, v>>[k]
    OBVIOUS
  <2>6. Append(<<x, y, z, u>>, v) = <<x, y, z, u, v>>
    BY <2>3, <2>4, <2>5, SeqEqual
  <2> QED BY <2>2, <2>6
<1> QED BY <1>1, <1>2

\* What a construct says adds nothing.
LEMMA AddsSay ==
  ASSUME NEW w
  PROVE  Adds(<<Say(w)>>, 0, 0, 0, 0)
<1>1. IsSymbol(Say(w)) /\ Say(w).do = "say"
  BY DEF Say, IsSymbol
<1>2. \A q : Weight(q, Say(w)) = 0
  BY <1>1 DEF Weight
<1>3. Say(w).do # "eof"
  BY <1>1
<1>4. Adds(<<Say(w)>>, Weight("exprs", Say(w)), Weight("counts", Say(w)), Weight("lists", Say(w)),
           Weight("defs", Say(w)))
  BY <1>1, <1>3, AddsOne
<1> QED BY <1>2, <1>4

LEMMA AddsNode ==
  ASSUME NEW w, NEW rhs, NEW e, NEW c, NEW l, NEW d, Adds(rhs, e, c, l, d)
  PROVE  Adds(<<Say(w)>> \o rhs \o <<Close>>, e, c, l, d)
<1>1. Adds(<<Say(w)>>, 0, 0, 0, 0) /\ Adds(<<Close>>, 0, 0, 0, 0)
  BY AddsSay DEF Close
<1>2. Adds(<<Say(w)>> \o rhs, 0 + e, 0 + c, 0 + l, 0 + d)
  BY <1>1, AddsJoin, Zenon
<1>3. Adds((<<Say(w)>> \o rhs) \o <<Close>>, (0 + e) + 0, (0 + c) + 0, (0 + l) + 0, (0 + d) + 0)
  BY <1>1, <1>2, AddsJoin, Zenon
<1>4. e \in Int /\ c \in Int /\ l \in Int /\ d \in Int
  BY WeightsIsSeq DEF Adds
<1>5. (0 + e) + 0 = e /\ (0 + c) + 0 = c /\ (0 + l) + 0 = l /\ (0 + d) + 0 = d
  BY <1>4
<1> QED BY <1>3, <1>5

LEMMA AddsNT ==
  ASSUME NEW lhs
  PROVE  Adds(<<NT(lhs)>>, Exprs(lhs), Counts(lhs), 0, 0)
<1>1. IsSymbol(NT(lhs)) /\ NT(lhs).do = "nonterminal" /\ NT(lhs).lhs = lhs
  BY DEF NT, IsSymbol
<1>2. /\ Weight("exprs", NT(lhs)) = Exprs(lhs) /\ Weight("counts", NT(lhs)) = Counts(lhs)
      /\ Weight("lists", NT(lhs)) = 0 /\ Weight("defs", NT(lhs)) = 0
  BY <1>1 DEF Weight
<1>3. NT(lhs).do # "eof"
  BY <1>1
<1>4. Adds(<<NT(lhs)>>, Weight("exprs", NT(lhs)), Weight("counts", NT(lhs)), Weight("lists", NT(lhs)),
           Weight("defs", NT(lhs)))
  BY <1>1, <1>3, AddsOne
<1> QED BY <1>2, <1>4

LEMMA AddsExpr ==
  ASSUME NEW type, NEW op, NEW x, NEW y, NEW pops \in Pops
  PROVE  Adds(<<Expr(type, op, x, y, pops)>>, IF HasArgv(pops) THEN 2 - Len(pops) ELSE 1 - Len(pops),
              IF HasArgv(pops) THEN -1 ELSE 0, 0, 0)
<1> DEFINE i == Expr(type, op, x, y, pops)
<1>1. IsSymbol(i) /\ i.do = "expr" /\ i.pops = pops
  BY DEF Expr, IsSymbol
<1> HIDE DEF i
<1>2. /\ Weight("exprs", i) = IF HasArgv(pops) THEN 2 - Len(pops) ELSE 1 - Len(pops)
      /\ Weight("counts", i) = IF HasArgv(pops) THEN -1 ELSE 0
      /\ Weight("lists", i) = 0 /\ Weight("defs", i) = 0
  BY <1>1 DEF Weight
<1>3. i.do # "eof"
  BY <1>1
<1>4. Adds(<<i>>, Weight("exprs", i), Weight("counts", i), Weight("lists", i), Weight("defs", i))
  BY <1>1, <1>3, AddsOne
<1>5. Adds(<<i>>, IF HasArgv(pops) THEN 2 - Len(pops) ELSE 1 - Len(pops),
           IF HasArgv(pops) THEN -1 ELSE 0, 0, 0)
  BY <1>2, <1>4
<1> QED BY <1>5 DEF i

LEMMA AddsStmt ==
  ASSUME NEW type, NEW op, NEW x, NEW exprs \in ExprOrder,
         NEW stmts \in StmtOrder, NEW leave \in {"open", "free", "block"},
         leave = "open" => stmts = <<>>
  PROVE  Adds(<<Stmt(type, op, x, exprs, stmts, leave)>>, 0 - Len(exprs), 0,
              IF leave # "open" THEN -1 ELSE 0, 0)
<1> DEFINE i == Stmt(type, op, x, exprs, stmts, leave)
<1>1. IsSymbol(i) /\ i.do = "stmt" /\ i.exprs = exprs /\ i.leave = leave
  BY DEF Stmt, IsSymbol
<1> HIDE DEF i
<1>2. /\ Weight("exprs", i) = 0 - Len(exprs) /\ Weight("counts", i) = 0
      /\ Weight("lists", i) = IF leave # "open" THEN -1 ELSE 0
      /\ Weight("defs", i) = 0
  BY <1>1 DEF Weight
<1>3. i.do # "eof"
  BY <1>1
<1>4. Adds(<<i>>, Weight("exprs", i), Weight("counts", i), Weight("lists", i), Weight("defs", i))
  BY <1>1, <1>3, AddsOne
<1>5. Adds(<<i>>, 0 - Len(exprs), 0, IF leave # "open" THEN -1 ELSE 0, 0)
  BY <1>2, <1>4
<1> QED BY <1>5 DEF i

LEMMA AddsExprs ==
  ASSUME NEW type, NEW op, NEW x, NEW y
  PROVE  /\ Adds(<<Expr(type, op, x, y, <<>>)>>, 1, 0, 0, 0)
         /\ Adds(<<Expr(type, op, x, y, <<"inner">>)>>, 0, 0, 0, 0)
         /\ Adds(<<Expr(type, op, x, y, <<"argv">>)>>, 1, -1, 0, 0)
         /\ Adds(<<Expr(type, op, x, y, <<"inner", "argv">>)>>, 0, -1, 0, 0)
         /\ Adds(<<Expr(type, op, x, y, <<"argv", "inner">>)>>, 0, -1, 0, 0)
         /\ Adds(<<Expr(type, op, x, y, <<"index", "inner">>)>>, -1, 0, 0, 0)
         /\ Adds(<<Expr(type, op, x, y, <<"elif", "index", "inner">>)>>, -2, 0, 0, 0)
<1>1. Adds(<<Expr(type, op, x, y, <<>>)>>, 1, 0, 0, 0)
  <2>1. PICK pops : pops = <<>>
    OBVIOUS
  <2>2. pops \in Pops /\ Len(pops) = 0 /\ DOMAIN pops = 1..0
    BY <2>1 DEF Pops, Orders, IsInjective
  <2>3. ~HasArgv(pops)
    BY <2>1, <2>2 DEF HasArgv, Range
  <2>4. Adds(<<Expr(type, op, x, y, pops)>>, IF HasArgv(pops) THEN 2 - Len(pops) ELSE 1 - Len(pops),
             IF HasArgv(pops) THEN -1 ELSE 0, 0, 0)
    BY <2>2, AddsExpr
  <2> QED BY <2>1, <2>2, <2>3, <2>4
<1>2. Adds(<<Expr(type, op, x, y, <<"inner">>)>>, 0, 0, 0, 0)
  <2>1. PICK pops : pops = <<"inner">>
    OBVIOUS
  <2>2. pops \in Pops /\ Len(pops) = 1 /\ DOMAIN pops = 1..1
    BY <2>1 DEF Pops, Orders, IsInjective
  <2>3. ~HasArgv(pops)
    BY <2>1, <2>2 DEF HasArgv, Range
  <2>4. Adds(<<Expr(type, op, x, y, pops)>>, IF HasArgv(pops) THEN 2 - Len(pops) ELSE 1 - Len(pops),
             IF HasArgv(pops) THEN -1 ELSE 0, 0, 0)
    BY <2>2, AddsExpr
  <2> QED BY <2>1, <2>2, <2>3, <2>4
<1>3. Adds(<<Expr(type, op, x, y, <<"argv">>)>>, 1, -1, 0, 0)
  <2>1. PICK pops : pops = <<"argv">>
    OBVIOUS
  <2>2. pops \in Pops /\ Len(pops) = 1 /\ DOMAIN pops = 1..1
    BY <2>1 DEF Pops, Orders, IsInjective
  <2>3. HasArgv(pops)
    BY <2>1, <2>2 DEF HasArgv, Range
  <2>4. Adds(<<Expr(type, op, x, y, pops)>>, IF HasArgv(pops) THEN 2 - Len(pops) ELSE 1 - Len(pops),
             IF HasArgv(pops) THEN -1 ELSE 0, 0, 0)
    BY <2>2, AddsExpr
  <2> QED BY <2>1, <2>2, <2>3, <2>4
<1>4. Adds(<<Expr(type, op, x, y, <<"inner", "argv">>)>>, 0, -1, 0, 0)
  <2>1. PICK pops : pops = <<"inner", "argv">>
    OBVIOUS
  <2>2. pops \in Pops /\ Len(pops) = 2 /\ DOMAIN pops = 1..2
    BY <2>1 DEF Pops, Orders, IsInjective
  <2>3. HasArgv(pops)
    BY <2>1, <2>2 DEF HasArgv, Range
  <2>4. Adds(<<Expr(type, op, x, y, pops)>>, IF HasArgv(pops) THEN 2 - Len(pops) ELSE 1 - Len(pops),
             IF HasArgv(pops) THEN -1 ELSE 0, 0, 0)
    BY <2>2, AddsExpr
  <2> QED BY <2>1, <2>2, <2>3, <2>4
<1>5. Adds(<<Expr(type, op, x, y, <<"argv", "inner">>)>>, 0, -1, 0, 0)
  <2>1. PICK pops : pops = <<"argv", "inner">>
    OBVIOUS
  <2>2. pops \in Pops /\ Len(pops) = 2 /\ DOMAIN pops = 1..2
    BY <2>1 DEF Pops, Orders, IsInjective
  <2>3. HasArgv(pops)
    BY <2>1, <2>2 DEF HasArgv, Range
  <2>4. Adds(<<Expr(type, op, x, y, pops)>>, IF HasArgv(pops) THEN 2 - Len(pops) ELSE 1 - Len(pops),
             IF HasArgv(pops) THEN -1 ELSE 0, 0, 0)
    BY <2>2, AddsExpr
  <2> QED BY <2>1, <2>2, <2>3, <2>4
<1>6. Adds(<<Expr(type, op, x, y, <<"index", "inner">>)>>, -1, 0, 0, 0)
  <2>1. PICK pops : pops = <<"index", "inner">>
    OBVIOUS
  <2>2. pops \in Pops /\ Len(pops) = 2 /\ DOMAIN pops = 1..2
    BY <2>1 DEF Pops, Orders, IsInjective
  <2>3. ~HasArgv(pops)
    BY <2>1, <2>2 DEF HasArgv, Range
  <2>4. Adds(<<Expr(type, op, x, y, pops)>>, IF HasArgv(pops) THEN 2 - Len(pops) ELSE 1 - Len(pops),
             IF HasArgv(pops) THEN -1 ELSE 0, 0, 0)
    BY <2>2, AddsExpr
  <2> QED BY <2>1, <2>2, <2>3, <2>4
<1>7. Adds(<<Expr(type, op, x, y, <<"elif", "index", "inner">>)>>, -2, 0, 0, 0)
  <2>1. PICK pops : pops = <<"elif", "index", "inner">>
    OBVIOUS
  <2>2. pops \in Pops /\ Len(pops) = 3 /\ DOMAIN pops = 1..3
    BY <2>1 DEF Pops, Orders, IsInjective
  <2>3. ~HasArgv(pops)
    BY <2>1, <2>2 DEF HasArgv, Range
  <2>4. Adds(<<Expr(type, op, x, y, pops)>>, IF HasArgv(pops) THEN 2 - Len(pops) ELSE 1 - Len(pops),
             IF HasArgv(pops) THEN -1 ELSE 0, 0, 0)
    BY <2>2, AddsExpr
  <2> QED BY <2>1, <2>2, <2>3, <2>4
<1> QED BY <1>1, <1>2, <1>3, <1>4, <1>5, <1>6, <1>7

LEMMA AddsStmts ==
  ASSUME NEW type, NEW op, NEW x
  PROVE  /\ Adds(<<Stmt(type, op, x, <<>>, <<>>, "open")>>, 0, 0, 0, 0)
         /\ Adds(<<Stmt(type, op, x, <<"expr">>, <<>>, "open")>>, -1, 0, 0, 0)
         /\ Adds(<<Stmt(type, op, x, <<>>, <<>>, "block")>>, 0, 0, -1, 0)
         /\ Adds(<<Stmt(type, op, x, <<"expr">>, <<>>, "block")>>, -1, 0, -1, 0)
         /\ Adds(<<Stmt(type, op, x, <<"expr">>, <<"true_case">>, "free")>>, -1, 0, -1, 0)
         /\ Adds(<<Stmt(type, op, x, <<"guard", "expr", "init">>, <<"true_case">>, "free")>>, -3, 0, -1, 0)
         /\ Adds(<<Stmt(type, op, x, <<>>, <<"false_case", "true_case">>, "free")>>, 0, 0, -1, 0)
<1>1. Adds(<<Stmt(type, op, x, <<>>, <<>>, "open")>>, 0, 0, 0, 0)
  <2>1. PICK exprs, stmts : exprs = <<>> /\ stmts = <<>>
    OBVIOUS
  <2>2. exprs \in ExprOrder /\ Len(exprs) = 0 /\ stmts \in StmtOrder /\ stmts = <<>>
    BY <2>1 DEF ExprOrder, StmtOrder, Orders, IsInjective
  <2>3. Adds(<<Stmt(type, op, x, exprs, stmts, "open")>>, 0 - Len(exprs), 0, 0, 0)
    BY <2>2, AddsStmt
  <2> QED BY <2>1, <2>2, <2>3
<1>2. Adds(<<Stmt(type, op, x, <<"expr">>, <<>>, "open")>>, -1, 0, 0, 0)
  <2>1. PICK exprs, stmts : exprs = <<"expr">> /\ stmts = <<>>
    OBVIOUS
  <2>2. exprs \in ExprOrder /\ Len(exprs) = 1 /\ stmts \in StmtOrder /\ stmts = <<>>
    BY <2>1 DEF ExprOrder, StmtOrder, Orders, IsInjective
  <2>3. Adds(<<Stmt(type, op, x, exprs, stmts, "open")>>, 0 - Len(exprs), 0, 0, 0)
    BY <2>2, AddsStmt
  <2> QED BY <2>1, <2>2, <2>3
<1>3. Adds(<<Stmt(type, op, x, <<>>, <<>>, "block")>>, 0, 0, -1, 0)
  <2>1. PICK exprs, stmts : exprs = <<>> /\ stmts = <<>>
    OBVIOUS
  <2>2. exprs \in ExprOrder /\ Len(exprs) = 0 /\ stmts \in StmtOrder
    BY <2>1 DEF ExprOrder, StmtOrder, Orders, IsInjective
  <2>3. Adds(<<Stmt(type, op, x, exprs, stmts, "block")>>, 0 - Len(exprs), 0, -1, 0)
    BY <2>2, AddsStmt
  <2> QED BY <2>1, <2>2, <2>3
<1>4. Adds(<<Stmt(type, op, x, <<"expr">>, <<>>, "block")>>, -1, 0, -1, 0)
  <2>1. PICK exprs, stmts : exprs = <<"expr">> /\ stmts = <<>>
    OBVIOUS
  <2>2. exprs \in ExprOrder /\ Len(exprs) = 1 /\ stmts \in StmtOrder
    BY <2>1 DEF ExprOrder, StmtOrder, Orders, IsInjective
  <2>3. Adds(<<Stmt(type, op, x, exprs, stmts, "block")>>, 0 - Len(exprs), 0, -1, 0)
    BY <2>2, AddsStmt
  <2> QED BY <2>1, <2>2, <2>3
<1>5. Adds(<<Stmt(type, op, x, <<"expr">>, <<"true_case">>, "free")>>, -1, 0, -1, 0)
  <2>1. PICK exprs, stmts : exprs = <<"expr">> /\ stmts = <<"true_case">>
    OBVIOUS
  <2>2. exprs \in ExprOrder /\ Len(exprs) = 1 /\ stmts \in StmtOrder
    BY <2>1 DEF ExprOrder, StmtOrder, Orders, IsInjective
  <2>3. Adds(<<Stmt(type, op, x, exprs, stmts, "free")>>, 0 - Len(exprs), 0, -1, 0)
    BY <2>2, AddsStmt
  <2> QED BY <2>1, <2>2, <2>3
<1>6. Adds(<<Stmt(type, op, x, <<"guard", "expr", "init">>, <<"true_case">>, "free")>>, -3, 0, -1, 0)
  <2>1. PICK exprs, stmts : exprs = <<"guard", "expr", "init">> /\ stmts = <<"true_case">>
    OBVIOUS
  <2>2. exprs \in ExprOrder /\ Len(exprs) = 3 /\ stmts \in StmtOrder
    BY <2>1 DEF ExprOrder, StmtOrder, Orders, IsInjective
  <2>3. Adds(<<Stmt(type, op, x, exprs, stmts, "free")>>, 0 - Len(exprs), 0, -1, 0)
    BY <2>2, AddsStmt
  <2> QED BY <2>1, <2>2, <2>3
<1>7. Adds(<<Stmt(type, op, x, <<>>, <<"false_case", "true_case">>, "free")>>, 0, 0, -1, 0)
  <2>1. PICK exprs, stmts : exprs = <<>> /\ stmts = <<"false_case", "true_case">>
    OBVIOUS
  <2>2. exprs \in ExprOrder /\ Len(exprs) = 0 /\ stmts \in StmtOrder
    BY <2>1 DEF ExprOrder, StmtOrder, Orders, IsInjective
  <2>3. Adds(<<Stmt(type, op, x, exprs, stmts, "free")>>, 0 - Len(exprs), 0, -1, 0)
    BY <2>2, AddsStmt
  <2> QED BY <2>1, <2>2, <2>3
<1> QED BY <1>1, <1>2, <1>3, <1>4, <1>5, <1>6, <1>7

LEMMA AddsOthers ==
  ASSUME NEW x, NEW op
  PROVE  /\ Adds(<<[do |-> "again", name |-> x]>>, 0, 0, 0, 0)
         /\ Adds(<<[do |-> "first"]>>, -1, 1, 0, 0)
         /\ Adds(<<[do |-> "next"]>>, -1, 0, 0, 0)
         /\ Adds(<<[do |-> "keyarray_single"]>>, 1, 0, 0, 0)
         /\ Adds(<<[do |-> "op_assign", name |-> x, op |-> op]>>, 0, 0, 0, 0)
         /\ Adds(<<[do |-> "op_assign_array", name |-> x, op |-> op]>>, 0, -1, 0, 0)
         /\ Adds(<<[do |-> "begin_func"]>>, 0, 0, 1, 1)
         /\ Adds(<<[do |-> "end_lambda"]>>, 1, 0, -1, -1)
         /\ Adds(<<[do |-> "enter"]>>, 0, 0, 1, 0)
         /\ Adds(<<[do |-> "end_if"]>>, -1, 0, -1, 0)
         /\ Adds(<<[do |-> "end_case", thru |-> x]>>, -1, 0, -1, 0)
         /\ Adds(<<[do |-> "rettype", type |-> x]>>, 0, 0, 0, 0)
         /\ Adds(<<[do |-> "arg", type |-> op, name |-> x]>>, 0, 0, 0, 0)
         /\ Adds(<<[do |-> "end_func", name |-> x]>>, 0, 0, -1, -1)
         /\ Adds(<<[do |-> "extends", name |-> x]>>, 0, 0, 0, 0)
         /\ Adds(<<[do |-> "include", name |-> x]>>, 0, 0, 0, 0)
<1>1. Adds(<<[do |-> "again", name |-> x]>>, 0, 0, 0, 0)
  <2>1. PICK i : i = [do |-> "again", name |-> x]
    OBVIOUS
  <2>2. IsSymbol(i) /\ i.do # "eof"
    BY <2>1 DEF IsSymbol
  <2>3. /\ Weight("exprs", i) = 0 /\ Weight("counts", i) = 0
        /\ Weight("lists", i) = 0 /\ Weight("defs", i) = 0
    BY <2>1 DEF Weight
  <2>4. Adds(<<i>>, Weight("exprs", i), Weight("counts", i), Weight("lists", i), Weight("defs", i))
    BY <2>2, AddsOne
  <2> QED BY <2>1, <2>3, <2>4
<1>2. Adds(<<[do |-> "first"]>>, -1, 1, 0, 0)
  <2>1. PICK i : i = [do |-> "first"]
    OBVIOUS
  <2>2. IsSymbol(i) /\ i.do # "eof"
    BY <2>1 DEF IsSymbol
  <2>3. /\ Weight("exprs", i) = -1 /\ Weight("counts", i) = 1
        /\ Weight("lists", i) = 0 /\ Weight("defs", i) = 0
    BY <2>1 DEF Weight
  <2>4. Adds(<<i>>, Weight("exprs", i), Weight("counts", i), Weight("lists", i), Weight("defs", i))
    BY <2>2, AddsOne
  <2> QED BY <2>1, <2>3, <2>4
<1>3. Adds(<<[do |-> "next"]>>, -1, 0, 0, 0)
  <2>1. PICK i : i = [do |-> "next"]
    OBVIOUS
  <2>2. IsSymbol(i) /\ i.do # "eof"
    BY <2>1 DEF IsSymbol
  <2>3. /\ Weight("exprs", i) = -1 /\ Weight("counts", i) = 0
        /\ Weight("lists", i) = 0 /\ Weight("defs", i) = 0
    BY <2>1 DEF Weight
  <2>4. Adds(<<i>>, Weight("exprs", i), Weight("counts", i), Weight("lists", i), Weight("defs", i))
    BY <2>2, AddsOne
  <2> QED BY <2>1, <2>3, <2>4
<1>4. Adds(<<[do |-> "keyarray_single"]>>, 1, 0, 0, 0)
  <2>1. PICK i : i = [do |-> "keyarray_single"]
    OBVIOUS
  <2>2. IsSymbol(i) /\ i.do # "eof"
    BY <2>1 DEF IsSymbol
  <2>3. /\ Weight("exprs", i) = 1 /\ Weight("counts", i) = 0
        /\ Weight("lists", i) = 0 /\ Weight("defs", i) = 0
    BY <2>1 DEF Weight
  <2>4. Adds(<<i>>, Weight("exprs", i), Weight("counts", i), Weight("lists", i), Weight("defs", i))
    BY <2>2, AddsOne
  <2> QED BY <2>1, <2>3, <2>4
<1>5. Adds(<<[do |-> "op_assign", name |-> x, op |-> op]>>, 0, 0, 0, 0)
  <2>1. PICK i : i = [do |-> "op_assign", name |-> x, op |-> op]
    OBVIOUS
  <2>2. IsSymbol(i) /\ i.do # "eof"
    BY <2>1 DEF IsSymbol
  <2>3. /\ Weight("exprs", i) = 0 /\ Weight("counts", i) = 0
        /\ Weight("lists", i) = 0 /\ Weight("defs", i) = 0
    BY <2>1 DEF Weight
  <2>4. Adds(<<i>>, Weight("exprs", i), Weight("counts", i), Weight("lists", i), Weight("defs", i))
    BY <2>2, AddsOne
  <2> QED BY <2>1, <2>3, <2>4
<1>6. Adds(<<[do |-> "op_assign_array", name |-> x, op |-> op]>>, 0, -1, 0, 0)
  <2>1. PICK i : i = [do |-> "op_assign_array", name |-> x, op |-> op]
    OBVIOUS
  <2>2. IsSymbol(i) /\ i.do # "eof"
    BY <2>1 DEF IsSymbol
  <2>3. /\ Weight("exprs", i) = 0 /\ Weight("counts", i) = -1
        /\ Weight("lists", i) = 0 /\ Weight("defs", i) = 0
    BY <2>1 DEF Weight
  <2>4. Adds(<<i>>, Weight("exprs", i), Weight("counts", i), Weight("lists", i), Weight("defs", i))
    BY <2>2, AddsOne
  <2> QED BY <2>1, <2>3, <2>4
<1>7. Adds(<<[do |-> "begin_func"]>>, 0, 0, 1, 1)
  <2>1. PICK i : i = [do |-> "begin_func"]
    OBVIOUS
  <2>2. IsSymbol(i) /\ i.do # "eof"
    BY <2>1 DEF IsSymbol
  <2>3. /\ Weight("exprs", i) = 0 /\ Weight("counts", i) = 0
        /\ Weight("lists", i) = 1 /\ Weight("defs", i) = 1
    BY <2>1 DEF Weight
  <2>4. Adds(<<i>>, Weight("exprs", i), Weight("counts", i), Weight("lists", i), Weight("defs", i))
    BY <2>2, AddsOne
  <2> QED BY <2>1, <2>3, <2>4
<1>8. Adds(<<[do |-> "end_lambda"]>>, 1, 0, -1, -1)
  <2>1. PICK i : i = [do |-> "end_lambda"]
    OBVIOUS
  <2>2. IsSymbol(i) /\ i.do # "eof"
    BY <2>1 DEF IsSymbol
  <2>3. /\ Weight("exprs", i) = 1 /\ Weight("counts", i) = 0
        /\ Weight("lists", i) = -1 /\ Weight("defs", i) = -1
    BY <2>1 DEF Weight
  <2>4. Adds(<<i>>, Weight("exprs", i), Weight("counts", i), Weight("lists", i), Weight("defs", i))
    BY <2>2, AddsOne
  <2> QED BY <2>1, <2>3, <2>4
<1>9. Adds(<<[do |-> "enter"]>>, 0, 0, 1, 0)
  <2>1. PICK i : i = [do |-> "enter"]
    OBVIOUS
  <2>2. IsSymbol(i) /\ i.do # "eof"
    BY <2>1 DEF IsSymbol
  <2>3. /\ Weight("exprs", i) = 0 /\ Weight("counts", i) = 0
        /\ Weight("lists", i) = 1 /\ Weight("defs", i) = 0
    BY <2>1 DEF Weight
  <2>4. Adds(<<i>>, Weight("exprs", i), Weight("counts", i), Weight("lists", i), Weight("defs", i))
    BY <2>2, AddsOne
  <2> QED BY <2>1, <2>3, <2>4
<1>10. Adds(<<[do |-> "end_if"]>>, -1, 0, -1, 0)
  <2>1. PICK i : i = [do |-> "end_if"]
    OBVIOUS
  <2>2. IsSymbol(i) /\ i.do # "eof"
    BY <2>1 DEF IsSymbol
  <2>3. /\ Weight("exprs", i) = -1 /\ Weight("counts", i) = 0
        /\ Weight("lists", i) = -1 /\ Weight("defs", i) = 0
    BY <2>1 DEF Weight
  <2>4. Adds(<<i>>, Weight("exprs", i), Weight("counts", i), Weight("lists", i), Weight("defs", i))
    BY <2>2, AddsOne
  <2> QED BY <2>1, <2>3, <2>4
<1>11. Adds(<<[do |-> "end_case", thru |-> x]>>, -1, 0, -1, 0)
  <2>1. PICK i : i = [do |-> "end_case", thru |-> x]
    OBVIOUS
  <2>2. IsSymbol(i) /\ i.do # "eof"
    BY <2>1 DEF IsSymbol
  <2>3. /\ Weight("exprs", i) = -1 /\ Weight("counts", i) = 0
        /\ Weight("lists", i) = -1 /\ Weight("defs", i) = 0
    BY <2>1 DEF Weight
  <2>4. Adds(<<i>>, Weight("exprs", i), Weight("counts", i), Weight("lists", i), Weight("defs", i))
    BY <2>2, AddsOne
  <2> QED BY <2>1, <2>3, <2>4
<1>12. Adds(<<[do |-> "rettype", type |-> x]>>, 0, 0, 0, 0)
  <2>1. PICK i : i = [do |-> "rettype", type |-> x]
    OBVIOUS
  <2>2. IsSymbol(i) /\ i.do # "eof"
    BY <2>1 DEF IsSymbol
  <2>3. /\ Weight("exprs", i) = 0 /\ Weight("counts", i) = 0
        /\ Weight("lists", i) = 0 /\ Weight("defs", i) = 0
    BY <2>1 DEF Weight
  <2>4. Adds(<<i>>, Weight("exprs", i), Weight("counts", i), Weight("lists", i), Weight("defs", i))
    BY <2>2, AddsOne
  <2> QED BY <2>1, <2>3, <2>4
<1>13. Adds(<<[do |-> "arg", type |-> op, name |-> x]>>, 0, 0, 0, 0)
  <2>1. PICK i : i = [do |-> "arg", type |-> op, name |-> x]
    OBVIOUS
  <2>2. IsSymbol(i) /\ i.do # "eof"
    BY <2>1 DEF IsSymbol
  <2>3. /\ Weight("exprs", i) = 0 /\ Weight("counts", i) = 0
        /\ Weight("lists", i) = 0 /\ Weight("defs", i) = 0
    BY <2>1 DEF Weight
  <2>4. Adds(<<i>>, Weight("exprs", i), Weight("counts", i), Weight("lists", i), Weight("defs", i))
    BY <2>2, AddsOne
  <2> QED BY <2>1, <2>3, <2>4
<1>14. Adds(<<[do |-> "end_func", name |-> x]>>, 0, 0, -1, -1)
  <2>1. PICK i : i = [do |-> "end_func", name |-> x]
    OBVIOUS
  <2>2. IsSymbol(i) /\ i.do # "eof"
    BY <2>1 DEF IsSymbol
  <2>3. /\ Weight("exprs", i) = 0 /\ Weight("counts", i) = 0
        /\ Weight("lists", i) = -1 /\ Weight("defs", i) = -1
    BY <2>1 DEF Weight
  <2>4. Adds(<<i>>, Weight("exprs", i), Weight("counts", i), Weight("lists", i), Weight("defs", i))
    BY <2>2, AddsOne
  <2> QED BY <2>1, <2>3, <2>4
<1>15. Adds(<<[do |-> "extends", name |-> x]>>, 0, 0, 0, 0)
  <2>1. PICK i : i = [do |-> "extends", name |-> x]
    OBVIOUS
  <2>2. IsSymbol(i) /\ i.do # "eof"
    BY <2>1 DEF IsSymbol
  <2>3. /\ Weight("exprs", i) = 0 /\ Weight("counts", i) = 0
        /\ Weight("lists", i) = 0 /\ Weight("defs", i) = 0
    BY <2>1 DEF Weight
  <2>4. Adds(<<i>>, Weight("exprs", i), Weight("counts", i), Weight("lists", i), Weight("defs", i))
    BY <2>2, AddsOne
  <2> QED BY <2>1, <2>3, <2>4
<1>16. Adds(<<[do |-> "include", name |-> x]>>, 0, 0, 0, 0)
  <2>1. PICK i : i = [do |-> "include", name |-> x]
    OBVIOUS
  <2>2. IsSymbol(i) /\ i.do # "eof"
    BY <2>1 DEF IsSymbol
  <2>3. /\ Weight("exprs", i) = 0 /\ Weight("counts", i) = 0
        /\ Weight("lists", i) = 0 /\ Weight("defs", i) = 0
    BY <2>1 DEF Weight
  <2>4. Adds(<<i>>, Weight("exprs", i), Weight("counts", i), Weight("lists", i), Weight("defs", i))
    BY <2>2, AddsOne
  <2> QED BY <2>1, <2>3, <2>4
<1> QED BY <1>1, <1>2, <1>3, <1>4, <1>5, <1>6, <1>7, <1>8, <1>9, <1>10, <1>11, <1>12, <1>13, <1>14, <1>15, <1>16

LEMMA FitsRule ==
  ASSUME NEW lhs, NEW name, NEW size, NEW rhs, NEW e, NEW c, NEW l, NEW d, Adds(rhs, e, c, l, d),
         l = 0, d = 0, \A x \in lhs : Exprs(x) = e /\ Counts(x) = c
  PROVE  Fits(Rule(lhs, name, size, rhs))
BY DEF Fits, Rule

LEMMA ExprRulesFit ==
  ASSUME NEW a, NEW b, NEW f, NEW r \in ExprRules(a, b, f)
  PROVE  Fits(r)
<1> DEFINE node(type, op, x, t, rhs) == <<Say(Word(type, op, x, t, f))>> \o rhs \o <<Close>>
           leaf(type, op, x, t, act) == node(type, op, x, t, <<act>>)
           R(name, size, rhs) == Rule({"expr"}, name, size, rhs)
<1>s1. Adds(<<expr_end_ref(a)>>, 1, 0, 0, 0)
  BY AddsExprs DEF expr_end_ref
<1>s2. Adds(<<NT("refexp")>>, 0, 1, 0, 0)
  BY AddsNT DEF Exprs, Counts
<1>s3. Adds(<<expr_end_ref_array(a)>>, 1, -1, 0, 0)
  BY AddsExprs DEF expr_end_ref_array
<1>s4. Adds(<<expr_end_static_ref(a, b)>>, 1, 0, 0, 0)
  BY AddsExprs DEF expr_end_static_ref
<1>s5. Adds(<<expr_end_const("CONST_INT", a)>>, 1, 0, 0, 0)
  BY AddsExprs DEF expr_end_const
<1>s6. Adds(<<expr_end_simple("CONST_VOID")>>, 1, 0, 0, 0)
  BY AddsExprs DEF expr_end_simple
<1>s7. Adds(<<expr_end_simple("LINE")>>, 1, 0, 0, 0)
  BY AddsExprs DEF expr_end_simple
<1>s8. Adds(<<NT("modlist")>>, 0, 1, 0, 0)
  BY AddsNT DEF Exprs, Counts
<1>s9. Adds(<<expr_end_use>>, 1, -1, 0, 0)
  BY AddsExprs DEF expr_end_use
<1>s10. Adds(<<NT("indexable")>>, 1, 0, 0, 0)
  BY AddsNT DEF Exprs, Counts
<1>s11. Adds(<<NT("indexed")>>, 1, 0, 0, 0)
  BY AddsNT DEF Exprs, Counts
<1>s12. Adds(<<E>>, 1, 0, 0, 0)
  BY AddsNT DEF E, Exprs, Counts
<1>s13. Adds(<<expr_end_cast("int")>>, 0, 0, 0, 0)
  BY AddsExprs DEF expr_end_cast
<1>s14. Adds(<<expr_end_prefix("NOT")>>, 0, 0, 0, 0)
  BY AddsExprs DEF expr_end_prefix
<1>s15. Adds(<<expr_end_postfix("POSTINC")>>, 0, 0, 0, 0)
  BY AddsExprs DEF expr_end_postfix
<1>s16. Adds(<<expr_end_infix("MINUS")>>, -1, 0, 0, 0)
  BY AddsExprs DEF expr_end_infix
<1>s17. Adds(<<expr_end_const("CONST_STRING", a)>>, 1, 0, 0, 0)
  BY AddsExprs DEF expr_end_const
<1>s18. Adds(<<expr_end_const("CONST_STRING", b)>>, 1, 0, 0, 0)
  BY AddsExprs DEF expr_end_const
<1>s19. Adds(<<expr_end_infix("PLUS")>>, -1, 0, 0, 0)
  BY AddsExprs DEF expr_end_infix
<1>s20. Adds(<<expr_end_if>>, -2, 0, 0, 0)
  BY AddsExprs DEF expr_end_if
<1>s21. Adds(<<expr_begin_lambda>>, 0, 0, 1, 1)
  BY AddsOthers DEF expr_begin_lambda
<1>s22. Adds(<<NT("argdefs")>>, 0, 0, 0, 0)
  BY AddsNT DEF Exprs, Counts
<1>s23. Adds(<<NT("statements")>>, 0, 0, 0, 0)
  BY AddsNT DEF Exprs, Counts
<1>s24. Adds(<<expr_end_lambda>>, 1, 0, -1, -1)
  BY AddsOthers DEF expr_end_lambda
<1>s25. Adds(<<expr_end_assign(a)>>, 0, 0, 0, 0)
  BY AddsExprs DEF expr_end_assign
<1>s26. Adds(<<expr_end_assign_array(a)>>, 0, -1, 0, 0)
  BY AddsExprs DEF expr_end_assign_array
<1>s27. Adds(<<Say(Word("REF", "", a, 0, f))>>, 0, 0, 0, 0)
  BY AddsSay
<1>s28. Adds(<<Close>>, 0, 0, 0, 0)
  BY AddsSay DEF Close
<1>s29. Adds(<<expr_end_op_assign(a, "PLUS")>>, 0, 0, 0, 0)
  BY AddsOthers DEF expr_end_op_assign
<1>s30. Adds(<<[do |-> "again", name |-> a]>>, 0, 0, 0, 0)
  BY AddsOthers
<1>s31. Adds(<<expr_end_op_assign_array(a, "PLUS")>>, 0, -1, 0, 0)
  BY AddsOthers DEF expr_end_op_assign_array
<1>1. Fits(R("ref", 0, leaf("REF", "", a, 0, expr_end_ref(a))))
  BY <1>s1, AddsNode, FitsRule DEF Exprs, Counts
<1>2. Fits(R("ref_array", 1, node("REF_ARRAY", "", a, 0, <<NT("refexp"), expr_end_ref_array(a)>>)))
  <2>1. Adds(node("REF_ARRAY", "", a, 0, <<NT("refexp"), expr_end_ref_array(a)>>), 0 + 1, 1 + -1, 0
      + 0, 0 + 0)
    BY <1>s2, <1>s3, Adds2, AddsNode, Zenon
  <2>2. 0 + 0 = 0 /\ 0 + 0 = 0 /\ \A x \in {"expr"} : Exprs(x) = 0 + 1 /\ Counts(x) = 1 + -1
    BY DEF Exprs, Counts
  <2> QED BY <2>2, <2>1, FitsRule, Zenon
<1>3. Fits(R("static_ref", 0, leaf("STATIC_REF", "", b, a, expr_end_static_ref(a, b))))
  BY <1>s4, AddsNode, FitsRule DEF Exprs, Counts
<1>4. Fits(R("const", 0, leaf("CONST_INT", "", a, 0, expr_end_const("CONST_INT", a))))
  BY <1>s5, AddsNode, FitsRule DEF Exprs, Counts
<1>5. Fits(R("void", 0, leaf("CONST_VOID", "", 0, 0, expr_end_simple("CONST_VOID"))))
  BY <1>s6, AddsNode, FitsRule DEF Exprs, Counts
<1>6. Fits(R("line", 0, leaf("LINE", "", 0, 0, expr_end_simple("LINE"))))
  BY <1>s7, AddsNode, FitsRule DEF Exprs, Counts
<1>7. Fits(R("use", 1, node("CALL", "module_load", 0, 0, <<NT("modlist"), expr_end_use>>)))
  <2>1. Adds(node("CALL", "module_load", 0, 0, <<NT("modlist"), expr_end_use>>), 0 + 1, 1 + -1, 0 +
      0, 0 + 0)
    BY <1>s8, <1>s9, Adds2, AddsNode, Zenon
  <2>2. 0 + 0 = 0 /\ 0 + 0 = 0 /\ \A x \in {"expr"} : Exprs(x) = 0 + 1 /\ Counts(x) = 1 + -1
    BY DEF Exprs, Counts
  <2> QED BY <2>2, <2>1, FitsRule, Zenon
<1>8. Fits(R("indexable", 0, <<NT("indexable")>>))
  BY <1>s10, FitsRule DEF Exprs, Counts
<1>9. Fits(R("indexed", 1, <<NT("indexed")>>))
  BY <1>s11, FitsRule DEF Exprs, Counts
<1>10. Fits(R("cast", 1, node("CAST", "int", 0, 0, <<E, expr_end_cast("int")>>)))
  <2>1. Adds(node("CAST", "int", 0, 0, <<E, expr_end_cast("int")>>), 1 + 0, 0 + 0, 0 + 0, 0 + 0)
    BY <1>s12, <1>s13, Adds2, AddsNode, Zenon
  <2>2. 0 + 0 = 0 /\ 0 + 0 = 0 /\ \A x \in {"expr"} : Exprs(x) = 1 + 0 /\ Counts(x) = 0 + 0
    BY DEF Exprs, Counts
  <2> QED BY <2>2, <2>1, FitsRule, Zenon
<1>11. Fits(R("prefix", 1, node("PREFIX", "NOT", 0, 0, <<E, expr_end_prefix("NOT")>>)))
  <2>1. Adds(node("PREFIX", "NOT", 0, 0, <<E, expr_end_prefix("NOT")>>), 1 + 0, 0 + 0, 0 + 0, 0 + 0)
    BY <1>s12, <1>s14, Adds2, AddsNode, Zenon
  <2>2. 0 + 0 = 0 /\ 0 + 0 = 0 /\ \A x \in {"expr"} : Exprs(x) = 1 + 0 /\ Counts(x) = 0 + 0
    BY DEF Exprs, Counts
  <2> QED BY <2>2, <2>1, FitsRule, Zenon
<1>12. Fits(R("postfix", 1, node("POSTFIX", "POSTINC", 0, 0, <<E, expr_end_postfix("POSTINC")>>)))
  <2>1. Adds(node("POSTFIX", "POSTINC", 0, 0, <<E, expr_end_postfix("POSTINC")>>), 1 + 0, 0 + 0, 0
      + 0, 0 + 0)
    BY <1>s12, <1>s15, Adds2, AddsNode, Zenon
  <2>2. 0 + 0 = 0 /\ 0 + 0 = 0 /\ \A x \in {"expr"} : Exprs(x) = 1 + 0 /\ Counts(x) = 0 + 0
    BY DEF Exprs, Counts
  <2> QED BY <2>2, <2>1, FitsRule, Zenon
<1>13. Fits(R("infix", 1, node("INFIX", "MINUS", 0, 0, <<E, E, expr_end_infix("MINUS")>>)))
  <2>1. Adds(node("INFIX", "MINUS", 0, 0, <<E, E, expr_end_infix("MINUS")>>), 1 + 1 + -1, 0 + 0 +
      0, 0 + 0 + 0, 0 + 0 + 0)
    BY <1>s12, <1>s16, Adds3, AddsNode, Zenon
  <2>2. 0 + 0 + 0 = 0 /\ 0 + 0 + 0 = 0 /\ \A x \in {"expr"} : Exprs(x) = 1 + 1 + -1 /\ Counts(x) =
      0 + 0 + 0
    BY DEF Exprs, Counts
  <2> QED BY <2>2, <2>1, FitsRule, Zenon
<1>14. Fits(R("strings", 1, node("INFIX", "PLUS", 0, 0, leaf("CONST_STRING", "", a, 0,
    expr_end_const("CONST_STRING", a)) \o leaf("CONST_STRING", "", b, 0,
        expr_end_const("CONST_STRING", b)) \o <<expr_end_infix("PLUS")>>)))
  <2>1. Adds(leaf("CONST_STRING", "", a, 0, expr_end_const("CONST_STRING", a)), 1, 0, 0, 0)
    BY <1>s17, AddsNode, Zenon
  <2>2. Adds(leaf("CONST_STRING", "", b, 0, expr_end_const("CONST_STRING", b)), 1, 0, 0, 0)
    BY <1>s18, AddsNode, Zenon
  <2>3. Adds(leaf("CONST_STRING", "", a, 0, expr_end_const("CONST_STRING", a)) \o
      leaf("CONST_STRING", "", b, 0, expr_end_const("CONST_STRING", b)), 1 + 1, 0 + 0, 0 + 0, 0 + 0)
    BY <2>1, <2>2, AddsJoin, Zenon
  <2>4. Adds(leaf("CONST_STRING", "", a, 0, expr_end_const("CONST_STRING", a)) \o
      leaf("CONST_STRING", "", b, 0, expr_end_const("CONST_STRING", b)) \o
          <<expr_end_infix("PLUS")>>, (1 + 1) + -1, (0 + 0) + 0, (0 + 0) + 0, (0 + 0) + 0)
    BY <2>3, <1>s19, AddsJoin, Zenon
  <2>5. Adds(node("INFIX", "PLUS", 0, 0, leaf("CONST_STRING", "", a, 0,
      expr_end_const("CONST_STRING", a)) \o leaf("CONST_STRING", "", b, 0,
          expr_end_const("CONST_STRING", b)) \o <<expr_end_infix("PLUS")>>), 1 + 1 + -1, 0 + 0 + 0,
              0 + 0 + 0, 0 + 0 + 0)
    BY <2>4, AddsNode
  <2>6. 0 + 0 + 0 = 0 /\ 0 + 0 + 0 = 0 /\ \A x \in {"expr"} : Exprs(x) = 1 + 1 + -1 /\ Counts(x) =
      0 + 0 + 0
    BY DEF Exprs, Counts
  <2> QED BY <2>6, <2>5, FitsRule, Zenon
<1>15. Fits(R("if", 1, node("IF", "", 0, 0, <<E, E, E, expr_end_if>>)))
  <2>1. Adds(node("IF", "", 0, 0, <<E, E, E, expr_end_if>>), 1 + 1 + 1 + -2, 0 + 0 + 0 + 0, 0 + 0 +
      0 + 0, 0 + 0 + 0 + 0)
    BY <1>s12, <1>s20, Adds4, AddsNode, Zenon
  <2>2. 0 + 0 + 0 + 0 = 0 /\ 0 + 0 + 0 + 0 = 0 /\ \A x \in {"expr"} : Exprs(x) = 1 + 1 + 1 + -2 /\
      Counts(x) = 0 + 0 + 0 + 0
    BY DEF Exprs, Counts
  <2> QED BY <2>2, <2>1, FitsRule, Zenon
<1>16. Fits(R("lambda", 1, node("LAMBDA", "", 0, 0, <<expr_begin_lambda, NT("argdefs"),
    NT("statements"), expr_end_lambda>>)))
  <2>1. Adds(node("LAMBDA", "", 0, 0, <<expr_begin_lambda, NT("argdefs"), NT("statements"),
      expr_end_lambda>>), 0 + 0 + 0 + 1, 0 + 0 + 0 + 0, 1 + 0 + 0 + -1, 1 + 0 + 0 + -1)
    BY <1>s21, <1>s22, <1>s23, <1>s24, Adds4, AddsNode, Zenon
  <2>2. 1 + 0 + 0 + -1 = 0 /\ 1 + 0 + 0 + -1 = 0 /\ \A x \in {"expr"} : Exprs(x) = 0 + 0 + 0 + 1 /\
      Counts(x) = 0 + 0 + 0 + 0
    BY DEF Exprs, Counts
  <2> QED BY <2>2, <2>1, FitsRule, Zenon
<1>17. Fits(R("assign", 1, node("ASSIGN", "", a, 0, <<E, expr_end_assign(a)>>)))
  <2>1. Adds(node("ASSIGN", "", a, 0, <<E, expr_end_assign(a)>>), 1 + 0, 0 + 0, 0 + 0, 0 + 0)
    BY <1>s12, <1>s25, Adds2, AddsNode, Zenon
  <2>2. 0 + 0 = 0 /\ 0 + 0 = 0 /\ \A x \in {"expr"} : Exprs(x) = 1 + 0 /\ Counts(x) = 0 + 0
    BY DEF Exprs, Counts
  <2> QED BY <2>2, <2>1, FitsRule, Zenon
<1>18. Fits(R("assign_array", 1, node("ASSIGN_ARRAY", "", a, 0, <<NT("refexp"), E,
    expr_end_assign_array(a)>>)))
  <2>1. Adds(node("ASSIGN_ARRAY", "", a, 0, <<NT("refexp"), E, expr_end_assign_array(a)>>), 0 + 1 +
      0, 1 + 0 + -1, 0 + 0 + 0, 0 + 0 + 0)
    BY <1>s2, <1>s12, <1>s26, Adds3, AddsNode, Zenon
  <2>2. 0 + 0 + 0 = 0 /\ 0 + 0 + 0 = 0 /\ \A x \in {"expr"} : Exprs(x) = 0 + 1 + 0 /\ Counts(x) = 1
      + 0 + -1
    BY DEF Exprs, Counts
  <2> QED BY <2>2, <2>1, FitsRule, Zenon
<1>19. Fits(R("op_assign", 1, node("ASSIGN", "", a, 0, node("INFIX", "PLUS", 0, 0,
    <<Say(Word("REF", "", a, 0, f)), Close, E>>) \o <<expr_end_op_assign(a, "PLUS")>>)))
  <2>1. Adds(node("INFIX", "PLUS", 0, 0, <<Say(Word("REF", "", a, 0, f)), Close, E>>), 0 + 0 + 1, 0
      + 0 + 0, 0 + 0 + 0, 0 + 0 + 0)
    BY <1>s27, <1>s28, <1>s12, Adds3, AddsNode, Zenon
  <2>2. Adds(node("INFIX", "PLUS", 0, 0, <<Say(Word("REF", "", a, 0, f)), Close, E>>) \o
      <<expr_end_op_assign(a, "PLUS")>>, (0 + 0 + 1) + 0, (0 + 0 + 0) + 0, (0 + 0 + 0) + 0, (0 + 0
          + 0) + 0)
    BY <2>1, <1>s29, AddsJoin, Zenon
  <2>3. Adds(node("ASSIGN", "", a, 0, node("INFIX", "PLUS", 0, 0, <<Say(Word("REF", "", a, 0, f)),
      Close, E>>) \o <<expr_end_op_assign(a, "PLUS")>>), (0 + 0 + 1) + 0, (0 + 0 + 0) + 0, (0 + 0 +
          0) + 0, (0 + 0 + 0) + 0)
    BY <2>2, AddsNode
  <2>4. (0 + 0 + 0) + 0 = 0 /\ (0 + 0 + 0) + 0 = 0 /\ \A x \in {"expr"} : Exprs(x) = (0 + 0 + 1) +
      0 /\ Counts(x) = (0 + 0 + 0) + 0
    BY DEF Exprs, Counts
  <2> QED BY <2>4, <2>3, FitsRule, Zenon
<1>20. Fits(R("op_assign_array", 1, node("ASSIGN_ARRAY", "", a, 0, <<NT("refexp")>> \o
    node("INFIX", "PLUS", 0, 0, node("REF_ARRAY", "", a, 0, <<[do |-> "again", name |-> a]>>) \o
        <<E>>) \o <<expr_end_op_assign_array(a, "PLUS")>>)))
  <2>1. Adds(node("REF_ARRAY", "", a, 0, <<[do |-> "again", name |-> a]>>), 0, 0, 0, 0)
    BY <1>s30, AddsNode, Zenon
  <2>2. Adds(node("REF_ARRAY", "", a, 0, <<[do |-> "again", name |-> a]>>) \o <<E>>, 0 + 1, 0 + 0,
      0 + 0, 0 + 0)
    BY <2>1, <1>s12, AddsJoin, Zenon
  <2>3. Adds(node("INFIX", "PLUS", 0, 0, node("REF_ARRAY", "", a, 0, <<[do |-> "again", name |->
      a]>>) \o <<E>>), 0 + 1, 0 + 0, 0 + 0, 0 + 0)
    BY <2>2, AddsNode
  <2>4. Adds(<<NT("refexp")>> \o node("INFIX", "PLUS", 0, 0, node("REF_ARRAY", "", a, 0, <<[do |->
      "again", name |-> a]>>) \o <<E>>), 0 + (0 + 1), 1 + (0 + 0), 0 + (0 + 0), 0 + (0 + 0))
    BY <1>s2, <2>3, AddsJoin, Zenon
  <2>5. Adds(<<NT("refexp")>> \o node("INFIX", "PLUS", 0, 0, node("REF_ARRAY", "", a, 0, <<[do |->
      "again", name |-> a]>>) \o <<E>>) \o <<expr_end_op_assign_array(a, "PLUS")>>, (0 + (0 + 1)) +
          0, (1 + (0 + 0)) + -1, (0 + (0 + 0)) + 0, (0 + (0 + 0)) + 0)
    BY <2>4, <1>s31, AddsJoin, Zenon
  <2>6. Adds(node("ASSIGN_ARRAY", "", a, 0, <<NT("refexp")>> \o node("INFIX", "PLUS", 0, 0,
      node("REF_ARRAY", "", a, 0, <<[do |-> "again", name |-> a]>>) \o <<E>>) \o
          <<expr_end_op_assign_array(a, "PLUS")>>), 0 + (0 + 1) + 0, 1 + (0 + 0) + -1, 0 + (0 + 0)
              + 0, 0 + (0 + 0) + 0)
    BY <2>5, AddsNode
  <2>7. 0 + (0 + 0) + 0 = 0 /\ 0 + (0 + 0) + 0 = 0 /\ \A x \in {"expr"} : Exprs(x) = 0 + (0 + 1) +
      0 /\ Counts(x) = 1 + (0 + 0) + -1
    BY DEF Exprs, Counts
  <2> QED BY <2>7, <2>6, FitsRule, Zenon
<1> QED BY <1>1, <1>2, <1>3, <1>4, <1>5, <1>6, <1>7, <1>8, <1>9, <1>10, <1>11, <1>12, <1>13, <1>14,
    <1>15, <1>16, <1>17, <1>18, <1>19, <1>20 DEF ExprRules

LEMMA IndexRulesFit ==
  ASSUME NEW a, NEW b, NEW f, NEW r \in IndexRules(a, b, f)
  PROVE  Fits(r)
<1> DEFINE node(type, x, rhs) == <<Say(Word(type, "", x, 0, f))>> \o rhs \o <<Close>>
           field == node("FIELD", b, <<expr_end_const("FIELD", b)>>)
           base == NT("base")
<1>s1. Adds(<<expr_end_const("FIELD", b)>>, 1, 0, 0, 0)
  BY AddsExprs DEF expr_end_const
<1>s2. Adds(<<E>>, 1, 0, 0, 0)
  BY AddsNT DEF E, Exprs, Counts
<1>s3. Adds(<<expr_end_first>>, -1, 1, 0, 0)
  BY AddsOthers DEF expr_end_first
<1>s4. Adds(<<NT("refexp")>>, 0, 1, 0, 0)
  BY AddsNT DEF Exprs, Counts
<1>s5. Adds(<<expr_end_next>>, -1, 0, 0, 0)
  BY AddsOthers DEF expr_end_next
<1>s6. Adds(<<NT("indexable")>>, 1, 0, 0, 0)
  BY AddsNT DEF Exprs, Counts
<1>s7. Adds(<<NT("indexed")>>, 1, 0, 0, 0)
  BY AddsNT DEF Exprs, Counts
<1>s8. Adds(<<base>>, 1, 0, 0, 0)
  BY AddsNT DEF Exprs, Counts
<1>s9. Adds(<<expr_end_index>>, 0, -1, 0, 0)
  BY AddsExprs DEF expr_end_index
<1>s10. Adds(<<expr_end_method_void(b)>>, 0, 0, 0, 0)
  BY AddsExprs DEF expr_end_method_void
<1>s11. Adds(<<NT("arglist")>>, 0, 1, 0, 0)
  BY AddsNT DEF Exprs, Counts
<1>s12. Adds(<<expr_end_method(b)>>, 0, -1, 0, 0)
  BY AddsExprs DEF expr_end_method
<1>field. Adds(field, 1, 0, 0, 0)
  <2>1. Adds(node("FIELD", b, <<expr_end_const("FIELD", b)>>), 1, 0, 0, 0)
    BY <1>s1, AddsNode, Zenon
  <2> QED BY <2>1
<1>1. Fits(Rule({"refexp"}, "index", 0, <<E, expr_end_first>>))
  <2>1. 0 + 0 = 0 /\ 0 + 0 = 0 /\ \A x \in {"refexp"} : Exprs(x) = 1 + -1 /\ Counts(x) = 0 + 1
    BY DEF Exprs, Counts
  <2> QED BY <2>1, <1>s2, <1>s3, Adds2, FitsRule, Zenon
<1>2. Fits(Rule({"refexp"}, "field", 0, field \o <<expr_end_first>>))
  <2>1. Adds(field \o <<expr_end_first>>, 1 + -1, 0 + 1, 0 + 0, 0 + 0)
    BY <1>field, <1>s3, AddsJoin, Zenon
  <2>2. 0 + 0 = 0 /\ 0 + 0 = 0 /\ \A x \in {"refexp"} : Exprs(x) = 1 + -1 /\ Counts(x) = 0 + 1
    BY DEF Exprs, Counts
  <2> QED BY <2>2, <2>1, FitsRule, Zenon
<1>3. Fits(Rule({"refexp"}, "index_next", 1, <<NT("refexp"), E, expr_end_next>>))
  <2>1. 0 + 0 + 0 = 0 /\ 0 + 0 + 0 = 0 /\ \A x \in {"refexp"} : Exprs(x) = 0 + 1 + -1 /\ Counts(x)
      = 1 + 0 + 0
    BY DEF Exprs, Counts
  <2> QED BY <2>1, <1>s4, <1>s2, <1>s5, Adds3, FitsRule, Zenon
<1>4. Fits(Rule({"refexp"}, "field_next", 1, <<NT("refexp")>> \o field \o <<expr_end_next>>))
  <2>1. Adds(<<NT("refexp")>> \o field, 0 + 1, 1 + 0, 0 + 0, 0 + 0)
    BY <1>s4, <1>field, AddsJoin, Zenon
  <2>2. Adds(<<NT("refexp")>> \o field \o <<expr_end_next>>, (0 + 1) + -1, (1 + 0) + 0, (0 + 0) +
      0, (0 + 0) + 0)
    BY <2>1, <1>s5, AddsJoin, Zenon
  <2>3. 0 + 0 + 0 = 0 /\ 0 + 0 + 0 = 0 /\ \A x \in {"refexp"} : Exprs(x) = 0 + 1 + -1 /\ Counts(x)
      = 1 + 0 + 0
    BY DEF Exprs, Counts
  <2> QED BY <2>3, <2>2, FitsRule, Zenon
<1>5. Fits(Rule({"base"}, "base", 0, <<NT("indexable")>>))
  BY <1>s6, FitsRule DEF Exprs, Counts
<1>6. Fits(Rule({"base"}, "base_indexed", 1, <<NT("indexed")>>))
  BY <1>s7, FitsRule DEF Exprs, Counts
<1>7. Fits(Rule({"indexed"}, "by_index", 0, node("INDEX", 0, <<base, E, expr_end_first,
    expr_end_index>>)))
  <2>1. Adds(node("INDEX", 0, <<base, E, expr_end_first, expr_end_index>>), 1 + 1 + -1 + 0, 0 + 0 +
      1 + -1, 0 + 0 + 0 + 0, 0 + 0 + 0 + 0)
    BY <1>s8, <1>s2, <1>s3, <1>s9, Adds4, AddsNode, Zenon
  <2>2. 0 + 0 + 0 + 0 = 0 /\ 0 + 0 + 0 + 0 = 0 /\ \A x \in {"indexed"} : Exprs(x) = 1 + 1 + -1 + 0
      /\ Counts(x) = 0 + 0 + 1 + -1
    BY DEF Exprs, Counts
  <2> QED BY <2>2, <2>1, FitsRule, Zenon
<1>8. Fits(Rule({"indexed"}, "by_field", 0, node("INDEX", 0, <<base>> \o field \o <<expr_end_first,
    expr_end_index>>)))
  <2>1. Adds(<<expr_end_first, expr_end_index>>, -1 + 0, 1 + -1, 0 + 0, 0 + 0)
    BY <1>s3, <1>s9, Adds2, Zenon
  <2>2. Adds(<<base>> \o field, 1 + 1, 0 + 0, 0 + 0, 0 + 0)
    BY <1>s8, <1>field, AddsJoin, Zenon
  <2>3. Adds(<<base>> \o field \o <<expr_end_first, expr_end_index>>, (1 + 1) + (-1 + 0), (0 + 0) +
      (1 + -1), (0 + 0) + (0 + 0), (0 + 0) + (0 + 0))
    BY <2>2, <2>1, AddsJoin, Zenon
  <2>4. Adds(node("INDEX", 0, <<base>> \o field \o <<expr_end_first, expr_end_index>>), 1 + 1 + (-1
      + 0), 0 + 0 + (1 + -1), 0 + 0 + (0 + 0), 0 + 0 + (0 + 0))
    BY <2>3, AddsNode
  <2>5. 0 + 0 + (0 + 0) = 0 /\ 0 + 0 + (0 + 0) = 0 /\ \A x \in {"indexed"} : Exprs(x) = 1 + 1 + (-1
      + 0) /\ Counts(x) = 0 + 0 + (1 + -1)
    BY DEF Exprs, Counts
  <2> QED BY <2>5, <2>4, FitsRule, Zenon
<1>9. Fits(Rule({"indexed"}, "by_method_void", 0, node("METHOD", b, <<base,
    expr_end_method_void(b)>>)))
  <2>1. Adds(node("METHOD", b, <<base, expr_end_method_void(b)>>), 1 + 0, 0 + 0, 0 + 0, 0 + 0)
    BY <1>s8, <1>s10, Adds2, AddsNode, Zenon
  <2>2. 0 + 0 = 0 /\ 0 + 0 = 0 /\ \A x \in {"indexed"} : Exprs(x) = 1 + 0 /\ Counts(x) = 0 + 0
    BY DEF Exprs, Counts
  <2> QED BY <2>2, <2>1, FitsRule, Zenon
<1>10. Fits(Rule({"indexed"}, "by_method", 0, node("METHOD", b, <<base, NT("arglist"),
    expr_end_method(b)>>)))
  <2>1. Adds(node("METHOD", b, <<base, NT("arglist"), expr_end_method(b)>>), 1 + 0 + 0, 0 + 1 + -1,
      0 + 0 + 0, 0 + 0 + 0)
    BY <1>s8, <1>s11, <1>s12, Adds3, AddsNode, Zenon
  <2>2. 0 + 0 + 0 = 0 /\ 0 + 0 + 0 = 0 /\ \A x \in {"indexed"} : Exprs(x) = 1 + 0 + 0 /\ Counts(x)
      = 0 + 1 + -1
    BY DEF Exprs, Counts
  <2> QED BY <2>2, <2>1, FitsRule, Zenon
<1> QED BY <1>1, <1>2, <1>3, <1>4, <1>5, <1>6, <1>7, <1>8, <1>9, <1>10 DEF IndexRules

LEMMA CallRulesFit ==
  ASSUME NEW a, NEW b, NEW f, NEW r \in CallRules(a, b, f)
  PROVE  Fits(r)
<1> DEFINE node(type, op, x, t, rhs) == <<Say(Word(type, op, x, t, f))>> \o rhs \o <<Close>>
           ref == node("REF", "", a, 0, <<expr_end_ref(a)>>)
           refs == node("REF_ARRAY", "", a, 0, <<NT("refexp"), expr_end_ref_array(a)>>)
           void == Say(Word("CONST_VOID", "", 0, 0, f))
           string == node("CONST_STRING", "", a, 0, <<expr_end_const("CONST_STRING", a)>>)
           args == NT("arglist")
           pair == <<expr_end_next, expr_end_next>>
           I(name, size, rhs) == Rule({"indexable"}, name, size, rhs)
<1>s1. Adds(<<expr_end_ref(a)>>, 1, 0, 0, 0)
  BY AddsExprs DEF expr_end_ref
<1>s2. Adds(<<NT("refexp")>>, 0, 1, 0, 0)
  BY AddsNT DEF Exprs, Counts
<1>s3. Adds(<<expr_end_ref_array(a)>>, 1, -1, 0, 0)
  BY AddsExprs DEF expr_end_ref_array
<1>s4. Adds(<<expr_end_const("CONST_STRING", a)>>, 1, 0, 0, 0)
  BY AddsExprs DEF expr_end_const
<1>s5. Adds(<<expr_end_next>>, -1, 0, 0, 0)
  BY AddsOthers DEF expr_end_next
<1>s6. Adds(<<E>>, 1, 0, 0, 0)
  BY AddsNT DEF E, Exprs, Counts
<1>s7. Adds(<<expr_end_call_void(a, FALSE)>>, 1, 0, 0, 0)
  BY AddsExprs DEF expr_end_call_void
<1>s8. Adds(<<args>>, 0, 1, 0, 0)
  BY AddsNT DEF Exprs, Counts
<1>s9. Adds(<<expr_end_call(a, FALSE)>>, 1, -1, 0, 0)
  BY AddsExprs DEF expr_end_call
<1>s10. Adds(<<expr_end_call_void(a, TRUE)>>, 1, 0, 0, 0)
  BY AddsExprs DEF expr_end_call_void
<1>s11. Adds(<<expr_end_call(a, TRUE)>>, 1, -1, 0, 0)
  BY AddsExprs DEF expr_end_call
<1>s12. Adds(<<expr_end_typeinit_void(TRUE)>>, 1, 0, 0, 0)
  BY AddsExprs DEF expr_end_typeinit_void
<1>s13. Adds(<<NT("arrlist")>>, 0, 1, 0, 0)
  BY AddsNT DEF Exprs, Counts
<1>s14. Adds(<<expr_end_typeinit(TRUE)>>, 1, -1, 0, 0)
  BY AddsExprs DEF expr_end_typeinit
<1>s15. Adds(<<expr_end_typeinit_void(FALSE)>>, 1, 0, 0, 0)
  BY AddsExprs DEF expr_end_typeinit_void
<1>s16. Adds(<<NT("structlist")>>, 0, 1, 0, 0)
  BY AddsNT DEF Exprs, Counts
<1>s17. Adds(<<expr_end_typeinit(FALSE)>>, 1, -1, 0, 0)
  BY AddsExprs DEF expr_end_typeinit
<1>s18. Adds(<<expr_end_static_void(a, b)>>, 1, 0, 0, 0)
  BY AddsExprs DEF expr_end_static_void
<1>s19. Adds(<<expr_end_static(a, b)>>, 1, -1, 0, 0)
  BY AddsExprs DEF expr_end_static
<1>s20. Adds(<<expr_end_method_void(b)>>, 0, 0, 0, 0)
  BY AddsExprs DEF expr_end_method_void
<1>s21. Adds(<<expr_end_method(b)>>, 0, -1, 0, 0)
  BY AddsExprs DEF expr_end_method
<1>s22. Adds(<<NT("argexpr")>>, 1, 0, 0, 0)
  BY AddsNT DEF Exprs, Counts
<1>s23. Adds(<<expr_end_first>>, -1, 1, 0, 0)
  BY AddsOthers DEF expr_end_first
<1>s24. Adds(<<expr_end_pass_ref>>, 0, 0, 0, 0)
  BY AddsExprs DEF expr_end_pass_ref
<1>s25. Adds(<<NT("modlist")>>, 0, 1, 0, 0)
  BY AddsNT DEF Exprs, Counts
<1>s26. Adds(<<NT("arrarg")>>, 2, 0, 0, 0)
  BY AddsNT DEF Exprs, Counts
<1>s27. Adds(<<void>>, 0, 0, 0, 0)
  BY AddsSay
<1>s28. Adds(<<Close>>, 0, 0, 0, 0)
  BY AddsSay DEF Close
<1>s29. Adds(<<expr_end_keyarray_single>>, 1, 0, 0, 0)
  BY AddsOthers DEF expr_end_keyarray_single
<1>s30. Adds(<<NT("structarg")>>, 2, 0, 0, 0)
  BY AddsNT DEF Exprs, Counts
<1>s31. Adds(<<expr_end_simple("CONST_VOID")>>, 1, 0, 0, 0)
  BY AddsExprs DEF expr_end_simple
<1>ref. Adds(ref, 1, 0, 0, 0)
  <2>1. Adds(node("REF", "", a, 0, <<expr_end_ref(a)>>), 1, 0, 0, 0)
    BY <1>s1, AddsNode, Zenon
  <2> QED BY <2>1
<1>refs. Adds(refs, 0 + 1, 1 + -1, 0 + 0, 0 + 0)
  <2>1. Adds(node("REF_ARRAY", "", a, 0, <<NT("refexp"), expr_end_ref_array(a)>>), 0 + 1, 1 + -1, 0
      + 0, 0 + 0)
    BY <1>s2, <1>s3, Adds2, AddsNode, Zenon
  <2> QED BY <2>1
<1>string. Adds(string, 1, 0, 0, 0)
  <2>1. Adds(node("CONST_STRING", "", a, 0, <<expr_end_const("CONST_STRING", a)>>), 1, 0, 0, 0)
    BY <1>s4, AddsNode, Zenon
  <2> QED BY <2>1
<1>pair. Adds(pair, -1 + -1, 0 + 0, 0 + 0, 0 + 0)
  <2>1. Adds(<<expr_end_next, expr_end_next>>, -1 + -1, 0 + 0, 0 + 0, 0 + 0)
    BY <1>s5, Adds2, Zenon
  <2> QED BY <2>1
<1>1. Fits(I("paren", 1, <<E>>))
  BY <1>s6, FitsRule DEF Exprs, Counts
<1>2. Fits(I("call_void", 0, node("CALL", "", a, 0, <<expr_end_call_void(a, FALSE)>>)))
  BY <1>s7, AddsNode, FitsRule DEF Exprs, Counts
<1>3. Fits(I("call", 1, node("CALL", "", a, 0, <<args, expr_end_call(a, FALSE)>>)))
  <2>1. Adds(node("CALL", "", a, 0, <<args, expr_end_call(a, FALSE)>>), 0 + 1, 1 + -1, 0 + 0, 0 + 0)
    BY <1>s8, <1>s9, Adds2, AddsNode, Zenon
  <2>2. 0 + 0 = 0 /\ 0 + 0 = 0 /\ \A x \in {"indexable"} : Exprs(x) = 0 + 1 /\ Counts(x) = 1 + -1
    BY DEF Exprs, Counts
  <2> QED BY <2>2, <2>1, FitsRule, Zenon
<1>4. Fits(I("new_void", 0, node("NEW", "", a, 0, <<expr_end_call_void(a, TRUE)>>)))
  BY <1>s10, AddsNode, FitsRule DEF Exprs, Counts
<1>5. Fits(I("new", 1, node("NEW", "", a, 0, <<args, expr_end_call(a, TRUE)>>)))
  <2>1. Adds(node("NEW", "", a, 0, <<args, expr_end_call(a, TRUE)>>), 0 + 1, 1 + -1, 0 + 0, 0 + 0)
    BY <1>s8, <1>s11, Adds2, AddsNode, Zenon
  <2>2. 0 + 0 = 0 /\ 0 + 0 = 0 /\ \A x \in {"indexable"} : Exprs(x) = 0 + 1 /\ Counts(x) = 1 + -1
    BY DEF Exprs, Counts
  <2> QED BY <2>2, <2>1, FitsRule, Zenon
<1>6. Fits(I("array_void", 0, node("CALL", "mkarray", 0, 0, <<expr_end_typeinit_void(TRUE)>>)))
  BY <1>s12, AddsNode, FitsRule DEF Exprs, Counts
<1>7. Fits(I("array", 1, node("CALL", "mkkeyarray", 0, 0, <<NT("arrlist"),
    expr_end_typeinit(TRUE)>>)))
  <2>1. Adds(node("CALL", "mkkeyarray", 0, 0, <<NT("arrlist"), expr_end_typeinit(TRUE)>>), 0 + 1, 1
      + -1, 0 + 0, 0 + 0)
    BY <1>s13, <1>s14, Adds2, AddsNode, Zenon
  <2>2. 0 + 0 = 0 /\ 0 + 0 = 0 /\ \A x \in {"indexable"} : Exprs(x) = 0 + 1 /\ Counts(x) = 1 + -1
    BY DEF Exprs, Counts
  <2> QED BY <2>2, <2>1, FitsRule, Zenon
<1>8. Fits(I("struct_void", 0, node("CALL", "mkstruct", 0, 0, <<expr_end_typeinit_void(FALSE)>>)))
  BY <1>s15, AddsNode, FitsRule DEF Exprs, Counts
<1>9. Fits(I("struct", 1, node("CALL", "mkstruct", 0, 0, <<NT("structlist"),
    expr_end_typeinit(FALSE)>>)))
  <2>1. Adds(node("CALL", "mkstruct", 0, 0, <<NT("structlist"), expr_end_typeinit(FALSE)>>), 0 + 1,
      1 + -1, 0 + 0, 0 + 0)
    BY <1>s16, <1>s17, Adds2, AddsNode, Zenon
  <2>2. 0 + 0 = 0 /\ 0 + 0 = 0 /\ \A x \in {"indexable"} : Exprs(x) = 0 + 1 /\ Counts(x) = 1 + -1
    BY DEF Exprs, Counts
  <2> QED BY <2>2, <2>1, FitsRule, Zenon
<1>10. Fits(I("static_void", 0, node("STATIC", "", b, a, <<expr_end_static_void(a, b)>>)))
  BY <1>s18, AddsNode, FitsRule DEF Exprs, Counts
<1>11. Fits(I("static", 1, node("STATIC", "", b, a, <<args, expr_end_static(a, b)>>)))
  <2>1. Adds(node("STATIC", "", b, a, <<args, expr_end_static(a, b)>>), 0 + 1, 1 + -1, 0 + 0, 0 + 0)
    BY <1>s8, <1>s19, Adds2, AddsNode, Zenon
  <2>2. 0 + 0 = 0 /\ 0 + 0 = 0 /\ \A x \in {"indexable"} : Exprs(x) = 0 + 1 /\ Counts(x) = 1 + -1
    BY DEF Exprs, Counts
  <2> QED BY <2>2, <2>1, FitsRule, Zenon
<1>12. Fits(I("method_void", 0, node("METHOD", "", b, 0, ref \o <<expr_end_method_void(b)>>)))
  <2>1. Adds(ref \o <<expr_end_method_void(b)>>, 1 + 0, 0 + 0, 0 + 0, 0 + 0)
    BY <1>ref, <1>s20, AddsJoin, Zenon
  <2>2. Adds(node("METHOD", "", b, 0, ref \o <<expr_end_method_void(b)>>), 1 + 0, 0 + 0, 0 + 0, 0 +
      0)
    BY <2>1, AddsNode
  <2>3. 0 + 0 = 0 /\ 0 + 0 = 0 /\ \A x \in {"indexable"} : Exprs(x) = 1 + 0 /\ Counts(x) = 0 + 0
    BY DEF Exprs, Counts
  <2> QED BY <2>3, <2>2, FitsRule, Zenon
<1>13. Fits(I("method", 1, node("METHOD", "", b, 0, ref \o <<args, expr_end_method(b)>>)))
  <2>1. Adds(<<args, expr_end_method(b)>>, 0 + 0, 1 + -1, 0 + 0, 0 + 0)
    BY <1>s8, <1>s21, Adds2, Zenon
  <2>2. Adds(ref \o <<args, expr_end_method(b)>>, 1 + (0 + 0), 0 + (1 + -1), 0 + (0 + 0), 0 + (0 +
      0))
    BY <1>ref, <2>1, AddsJoin, Zenon
  <2>3. Adds(node("METHOD", "", b, 0, ref \o <<args, expr_end_method(b)>>), 1 + (0 + 0), 0 + (1 +
      -1), 0 + (0 + 0), 0 + (0 + 0))
    BY <2>2, AddsNode
  <2>4. 0 + (0 + 0) = 0 /\ 0 + (0 + 0) = 0 /\ \A x \in {"indexable"} : Exprs(x) = 1 + (0 + 0) /\
      Counts(x) = 0 + (1 + -1)
    BY DEF Exprs, Counts
  <2> QED BY <2>4, <2>3, FitsRule, Zenon
<1>14. Fits(I("ref_method_void", 1, node("METHOD", "", b, 0, refs \o <<expr_end_method_void(b)>>)))
  <2>1. Adds(refs \o <<expr_end_method_void(b)>>, (0 + 1) + 0, (1 + -1) + 0, (0 + 0) + 0, (0 + 0) +
      0)
    BY <1>refs, <1>s20, AddsJoin, Zenon
  <2>2. Adds(node("METHOD", "", b, 0, refs \o <<expr_end_method_void(b)>>), (0 + 1) + 0, (1 + -1) +
      0, (0 + 0) + 0, (0 + 0) + 0)
    BY <2>1, AddsNode
  <2>3. (0 + 0) + 0 = 0 /\ (0 + 0) + 0 = 0 /\ \A x \in {"indexable"} : Exprs(x) = (0 + 1) + 0 /\
      Counts(x) = (1 + -1) + 0
    BY DEF Exprs, Counts
  <2> QED BY <2>3, <2>2, FitsRule, Zenon
<1>15. Fits(I("ref_method", 1, node("METHOD", "", b, 0, refs \o <<args, expr_end_method(b)>>)))
  <2>1. Adds(<<args, expr_end_method(b)>>, 0 + 0, 1 + -1, 0 + 0, 0 + 0)
    BY <1>s8, <1>s21, Adds2, Zenon
  <2>2. Adds(refs \o <<args, expr_end_method(b)>>, (0 + 1) + (0 + 0), (1 + -1) + (1 + -1), (0 + 0)
      + (0 + 0), (0 + 0) + (0 + 0))
    BY <1>refs, <2>1, AddsJoin, Zenon
  <2>3. Adds(node("METHOD", "", b, 0, refs \o <<args, expr_end_method(b)>>), (0 + 1) + (0 + 0), (1
      + -1) + (1 + -1), (0 + 0) + (0 + 0), (0 + 0) + (0 + 0))
    BY <2>2, AddsNode
  <2>4. (0 + 0) + (0 + 0) = 0 /\ (0 + 0) + (0 + 0) = 0 /\ \A x \in {"indexable"} : Exprs(x) = (0 +
      1) + (0 + 0) /\ Counts(x) = (1 + -1) + (1 + -1)
    BY DEF Exprs, Counts
  <2> QED BY <2>4, <2>3, FitsRule, Zenon
<1>16. Fits(Rule({"arglist"}, "arg", 0, <<NT("argexpr"), expr_end_first>>))
  <2>1. 0 + 0 = 0 /\ 0 + 0 = 0 /\ \A x \in {"arglist"} : Exprs(x) = 1 + -1 /\ Counts(x) = 0 + 1
    BY DEF Exprs, Counts
  <2> QED BY <2>1, <1>s22, <1>s23, Adds2, FitsRule, Zenon
<1>17. Fits(Rule({"arglist"}, "arg_next", 1, <<args, NT("argexpr"), expr_end_next>>))
  <2>1. 0 + 0 + 0 = 0 /\ 0 + 0 + 0 = 0 /\ \A x \in {"arglist"} : Exprs(x) = 0 + 1 + -1 /\ Counts(x)
      = 1 + 0 + 0
    BY DEF Exprs, Counts
  <2> QED BY <2>1, <1>s8, <1>s22, <1>s5, Adds3, FitsRule, Zenon
<1>18. Fits(Rule({"argexpr"}, "by_value", 0, <<E>>))
  BY <1>s6, FitsRule DEF Exprs, Counts
<1>19. Fits(Rule({"argexpr"}, "by_ref", 1, node("PASS_REF", "", 0, 0, <<E, expr_end_pass_ref>>)))
  <2>1. Adds(node("PASS_REF", "", 0, 0, <<E, expr_end_pass_ref>>), 1 + 0, 0 + 0, 0 + 0, 0 + 0)
    BY <1>s6, <1>s24, Adds2, AddsNode, Zenon
  <2>2. 0 + 0 = 0 /\ 0 + 0 = 0 /\ \A x \in {"argexpr"} : Exprs(x) = 1 + 0 /\ Counts(x) = 0 + 0
    BY DEF Exprs, Counts
  <2> QED BY <2>2, <2>1, FitsRule, Zenon
<1>20. Fits(Rule({"modlist"}, "module", 0, string \o <<expr_end_first>>))
  <2>1. Adds(string \o <<expr_end_first>>, 1 + -1, 0 + 1, 0 + 0, 0 + 0)
    BY <1>string, <1>s23, AddsJoin, Zenon
  <2>2. 0 + 0 = 0 /\ 0 + 0 = 0 /\ \A x \in {"modlist"} : Exprs(x) = 1 + -1 /\ Counts(x) = 0 + 1
    BY DEF Exprs, Counts
  <2> QED BY <2>2, <2>1, FitsRule, Zenon
<1>21. Fits(Rule({"modlist"}, "module_next", 1, <<NT("modlist")>> \o string \o <<expr_end_next>>))
  <2>1. Adds(<<NT("modlist")>> \o string, 0 + 1, 1 + 0, 0 + 0, 0 + 0)
    BY <1>s25, <1>string, AddsJoin, Zenon
  <2>2. Adds(<<NT("modlist")>> \o string \o <<expr_end_next>>, (0 + 1) + -1, (1 + 0) + 0, (0 + 0) +
      0, (0 + 0) + 0)
    BY <2>1, <1>s5, AddsJoin, Zenon
  <2>3. 0 + 0 + 0 = 0 /\ 0 + 0 + 0 = 0 /\ \A x \in {"modlist"} : Exprs(x) = 0 + 1 + -1 /\ Counts(x)
      = 1 + 0 + 0
    BY DEF Exprs, Counts
  <2> QED BY <2>3, <2>2, FitsRule, Zenon
<1>22. Fits(Rule({"arrlist"}, "element", 0, <<NT("arrarg"), expr_end_first, expr_end_next>>))
  <2>1. 0 + 0 + 0 = 0 /\ 0 + 0 + 0 = 0 /\ \A x \in {"arrlist"} : Exprs(x) = 2 + -1 + -1 /\
      Counts(x) = 0 + 1 + 0
    BY DEF Exprs, Counts
  <2> QED BY <2>1, <1>s26, <1>s23, <1>s5, Adds3, FitsRule, Zenon
<1>23. Fits(Rule({"arrlist"}, "element_next", 1, <<NT("arrlist"), NT("arrarg")>> \o pair))
  <2>1. Adds(<<NT("arrlist"), NT("arrarg")>>, 0 + 2, 1 + 0, 0 + 0, 0 + 0)
    BY <1>s13, <1>s26, Adds2, Zenon
  <2>2. Adds(<<NT("arrlist"), NT("arrarg")>> \o pair, (0 + 2) + (-1 + -1), (1 + 0) + (0 + 0), (0 +
      0) + (0 + 0), (0 + 0) + (0 + 0))
    BY <2>1, <1>pair, AddsJoin, Zenon
  <2>3. (0 + 0) + (0 + 0) = 0 /\ (0 + 0) + (0 + 0) = 0 /\ \A x \in {"arrlist"} : Exprs(x) = (0 + 2)
      + (-1 + -1) /\ Counts(x) = (1 + 0) + (0 + 0)
    BY DEF Exprs, Counts
  <2> QED BY <2>3, <2>2, FitsRule, Zenon
<1>24. Fits(Rule({"arrarg"}, "no_key", 0, <<void, Close, E, expr_end_keyarray_single>>))
  <2>1. Adds(<<void, Close, E, expr_end_keyarray_single>>, 0 + 0 + 1 + 1, 0 + 0 + 0 + 0, 0 + 0 + 0
      + 0, 0 + 0 + 0 + 0)
    BY <1>s27, <1>s28, <1>s6, <1>s29, Adds4, Zenon
  <2>2. 0 + 0 + 0 + 0 = 0 /\ 0 + 0 + 0 + 0 = 0 /\ \A x \in {"arrarg"} : Exprs(x) = 0 + 0 + 1 + 1 /\
      Counts(x) = 0 + 0 + 0 + 0
    BY DEF Exprs, Counts
  <2> QED BY <2>2, <2>1, FitsRule, Zenon
<1>25. Fits(Rule({"arrarg"}, "with_key", 0, <<E, E>>))
  <2>1. 0 + 0 = 0 /\ 0 + 0 = 0 /\ \A x \in {"arrarg"} : Exprs(x) = 1 + 1 /\ Counts(x) = 0 + 0
    BY DEF Exprs, Counts
  <2> QED BY <2>1, <1>s6, Adds2, FitsRule, Zenon
<1>26. Fits(Rule({"structlist"}, "member", 0, <<NT("structarg"), expr_end_first, expr_end_next>>))
  <2>1. 0 + 0 + 0 = 0 /\ 0 + 0 + 0 = 0 /\ \A x \in {"structlist"} : Exprs(x) = 2 + -1 + -1 /\
      Counts(x) = 0 + 1 + 0
    BY DEF Exprs, Counts
  <2> QED BY <2>1, <1>s30, <1>s23, <1>s5, Adds3, FitsRule, Zenon
<1>27. Fits(Rule({"structlist"}, "member_next", 1, <<NT("structlist"), NT("structarg")>> \o pair))
  <2>1. Adds(<<NT("structlist"), NT("structarg")>>, 0 + 2, 1 + 0, 0 + 0, 0 + 0)
    BY <1>s16, <1>s30, Adds2, Zenon
  <2>2. Adds(<<NT("structlist"), NT("structarg")>> \o pair, (0 + 2) + (-1 + -1), (1 + 0) + (0 + 0),
      (0 + 0) + (0 + 0), (0 + 0) + (0 + 0))
    BY <2>1, <1>pair, AddsJoin, Zenon
  <2>3. (0 + 0) + (0 + 0) = 0 /\ (0 + 0) + (0 + 0) = 0 /\ \A x \in {"structlist"} : Exprs(x) = (0 +
      2) + (-1 + -1) /\ Counts(x) = (1 + 0) + (0 + 0)
    BY DEF Exprs, Counts
  <2> QED BY <2>3, <2>2, FitsRule, Zenon
<1>28. Fits(Rule({"structarg"}, "member_void", 0, string \o <<void, expr_end_simple("CONST_VOID"),
    Close>>))
  <2>1. Adds(<<void, expr_end_simple("CONST_VOID"), Close>>, 0 + 1 + 0, 0 + 0 + 0, 0 + 0 + 0, 0 + 0
      + 0)
    BY <1>s27, <1>s31, <1>s28, Adds3, Zenon
  <2>2. Adds(string \o <<void, expr_end_simple("CONST_VOID"), Close>>, 1 + (0 + 1 + 0), 0 + (0 + 0
      + 0), 0 + (0 + 0 + 0), 0 + (0 + 0 + 0))
    BY <1>string, <2>1, AddsJoin, Zenon
  <2>3. 0 + (0 + 0 + 0) = 0 /\ 0 + (0 + 0 + 0) = 0 /\ \A x \in {"structarg"} : Exprs(x) = 1 + (0 +
      1 + 0) /\ Counts(x) = 0 + (0 + 0 + 0)
    BY DEF Exprs, Counts
  <2> QED BY <2>3, <2>2, FitsRule, Zenon
<1>29. Fits(Rule({"structarg"}, "member_value", 0, string \o <<E>>))
  <2>1. Adds(string \o <<E>>, 1 + 1, 0 + 0, 0 + 0, 0 + 0)
    BY <1>string, <1>s6, AddsJoin, Zenon
  <2>2. 0 + 0 = 0 /\ 0 + 0 = 0 /\ \A x \in {"structarg"} : Exprs(x) = 1 + 1 /\ Counts(x) = 0 + 0
    BY DEF Exprs, Counts
  <2> QED BY <2>2, <2>1, FitsRule, Zenon
<1> QED BY <1>1, <1>2, <1>3, <1>4, <1>5, <1>6, <1>7, <1>8, <1>9, <1>10, <1>11, <1>12, <1>13, <1>14,
    <1>15, <1>16, <1>17, <1>18, <1>19, <1>20, <1>21, <1>22, <1>23, <1>24, <1>25, <1>26, <1>27,
        <1>28, <1>29 DEF CallRules

LEMMA StmtRulesFit ==
  ASSUME NEW a, NEW b, NEW f, NEW r \in StmtRules(a, b, f)
  PROVE  Fits(r)
<1> DEFINE node(type, op, x, rhs) == <<Say(Word(type, op, x, 0, 0))>> \o rhs \o <<Close>>
           simple(type) == node(type, "", 0, <<stmt_end_simple(type)>>)
           simple_expr(type) == node(type, "", 0, <<E, stmt_end_simple_expr(type)>>)
           begun(type, x, rhs) == node(type, "", x, <<stmt_begin>> \o rhs)
           group(thru, rhs) == <<stmt_begin>> \o node("CASE", thru, 0, <<E>> \o rhs)
           brk == simple("BREAK")
           lone == <<Say(Word("NOP", "", 0, 0, 0)), stmt_end_simple("BREAK"), Close>>
           body == NT("body")
           list == NT("statements")
           tails == NT("tails")
           B(name, size, rhs) == Rule({"block", "body", "tail"}, name, size, rhs)
           C(name, size, rhs) == Rule({"case"}, name, size, rhs)
<1>s1. Adds(<<stmt_end_simple("BREAK")>>, 0, 0, 0, 0)
  BY AddsStmts DEF stmt_end_simple
<1>s2. Adds(<<Say(Word("NOP", "", 0, 0, 0))>>, 0, 0, 0, 0)
  BY AddsSay
<1>s3. Adds(<<Close>>, 0, 0, 0, 0)
  BY AddsSay DEF Close
<1>s4. Adds(<<NT("block")>>, 0, 0, 0, 0)
  BY AddsNT DEF Exprs, Counts
<1>s5. Adds(<<list>>, 0, 0, 0, 0)
  BY AddsNT DEF Exprs, Counts
<1>s6. Adds(<<NT("tail")>>, 0, 0, 0, 0)
  BY AddsNT DEF Exprs, Counts
<1>s7. Adds(<<tails>>, 0, 0, 0, 0)
  BY AddsNT DEF Exprs, Counts
<1>s8. Adds(<<E>>, 1, 0, 0, 0)
  BY AddsNT DEF E, Exprs, Counts
<1>s9. Adds(<<stmt_end_simple_expr("EXPR")>>, -1, 0, 0, 0)
  BY AddsStmts DEF stmt_end_simple_expr
<1>s10. Adds(<<stmt_end_simple("CONTINUE")>>, 0, 0, 0, 0)
  BY AddsStmts DEF stmt_end_simple
<1>s11. Adds(<<stmt_end_simple("RETURN")>>, 0, 0, 0, 0)
  BY AddsStmts DEF stmt_end_simple
<1>s12. Adds(<<stmt_end_simple_expr("RETURN")>>, -1, 0, 0, 0)
  BY AddsStmts DEF stmt_end_simple_expr
<1>s13. Adds(<<stmt_end_simple_expr("THROW")>>, -1, 0, 0, 0)
  BY AddsStmts DEF stmt_end_simple_expr
<1>s14. Adds(<<stmt_end_simple("NOP")>>, 0, 0, 0, 0)
  BY AddsStmts DEF stmt_end_simple
<1>s15. Adds(<<parser_enter_include(a)>>, 0, 0, 0, 0)
  BY AddsOthers DEF parser_enter_include
<1>s16. Adds(<<stmt_begin>>, 0, 0, 1, 0)
  BY AddsOthers DEF stmt_begin
<1>s17. Adds(<<stmt_end_block>>, 0, 0, -1, 0)
  BY AddsStmts DEF stmt_end_block
<1>s18. Adds(<<body>>, 0, 0, 0, 0)
  BY AddsNT DEF Exprs, Counts
<1>s19. Adds(<<stmt_end_if>>, -1, 0, -1, 0)
  BY AddsOthers DEF stmt_end_if
<1>s20. Adds(<<stmt_end_while>>, -1, 0, -1, 0)
  BY AddsStmts DEF stmt_end_while
<1>s21. Adds(<<stmt_end_do>>, -1, 0, -1, 0)
  BY AddsStmts DEF stmt_end_do
<1>s22. Adds(<<NT("nullexpr")>>, 1, 0, 0, 0)
  BY AddsNT DEF Exprs, Counts
<1>s23. Adds(<<stmt_end_for>>, -3, 0, -1, 0)
  BY AddsStmts DEF stmt_end_for
<1>s24. Adds(<<NT("cases")>>, 0, 0, 0, 0)
  BY AddsNT DEF Exprs, Counts
<1>s25. Adds(<<stmt_end_switch>>, -1, 0, -1, 0)
  BY AddsStmts DEF stmt_end_switch
<1>s26. Adds(<<stmt_end_try(a)>>, 0, 0, -1, 0)
  BY AddsStmts DEF stmt_end_try
<1>s27. Adds(<<Say(Word("CONST_BOOL", "true", 0, 0, f))>>, 0, 0, 0, 0)
  BY AddsSay
<1>s28. Adds(<<expr_end_true>>, 1, 0, 0, 0)
  BY AddsExprs DEF expr_end_true
<1>s29. Adds(<<NT("case")>>, 0, 0, 0, 0)
  BY AddsNT DEF Exprs, Counts
<1>s30. Adds(<<stmt_end_case(TRUE)>>, -1, 0, -1, 0)
  BY AddsOthers DEF stmt_end_case
<1>s31. Adds(<<stmt_end_case(FALSE)>>, -1, 0, -1, 0)
  BY AddsOthers DEF stmt_end_case
<1>s32. Adds(<<stmt_end_default>>, 0, 0, -1, 0)
  BY AddsStmts DEF stmt_end_default
<1>brk. Adds(brk, 0, 0, 0, 0)
  <2>1. Adds(node("BREAK", "", 0, <<stmt_end_simple("BREAK")>>), 0, 0, 0, 0)
    BY <1>s1, AddsNode, Zenon
  <2> QED BY <2>1
<1>lone. Adds(lone, 0 + 0 + 0, 0 + 0 + 0, 0 + 0 + 0, 0 + 0 + 0)
  <2>1. Adds(<<Say(Word("NOP", "", 0, 0, 0)), stmt_end_simple("BREAK"), Close>>, 0 + 0 + 0, 0 + 0 +
      0, 0 + 0 + 0, 0 + 0 + 0)
    BY <1>s2, <1>s1, <1>s3, Adds3, Zenon
  <2> QED BY <2>1
<1>1. Fits(Rule({"statements"}, "one", 0, <<NT("block")>>))
  BY <1>s4, FitsRule DEF Exprs, Counts
<1>2. Fits(Rule({"statements"}, "more", 1, <<list, NT("block")>>))
  <2>1. 0 + 0 = 0 /\ 0 + 0 = 0 /\ \A x \in {"statements"} : Exprs(x) = 0 + 0 /\ Counts(x) = 0 + 0
    BY DEF Exprs, Counts
  <2> QED BY <2>1, <1>s5, <1>s4, Adds2, FitsRule, Zenon
<1>3. Fits(Rule({"tails"}, "tail", 0, <<NT("tail")>>))
  BY <1>s6, FitsRule DEF Exprs, Counts
<1>4. Fits(Rule({"tails"}, "tails", 1, <<tails, NT("tail")>>))
  <2>1. 0 + 0 = 0 /\ 0 + 0 = 0 /\ \A x \in {"tails"} : Exprs(x) = 0 + 0 /\ Counts(x) = 0 + 0
    BY DEF Exprs, Counts
  <2> QED BY <2>1, <1>s7, <1>s6, Adds2, FitsRule, Zenon
<1>5. Fits(Rule({"block", "body"}, "break", 0, brk))
  BY <1>brk, FitsRule DEF Exprs, Counts
<1>6. Fits(B("expr", 0, simple_expr("EXPR")))
  <2>1. Adds(node("EXPR", "", 0, <<E, stmt_end_simple_expr("EXPR")>>), 1 + -1, 0 + 0, 0 + 0, 0 + 0)
    BY <1>s8, <1>s9, Adds2, AddsNode, Zenon
  <2>2. 1 + -1 = 0 /\ 0 + 0 = 0 /\ \A x \in {"block", "body", "tail"} : Exprs(x) = 0 /\ Counts(x) =
      0
    BY DEF Exprs, Counts
  <2>3. Adds(simple_expr("EXPR"), 0, 0, 0, 0)
    BY <2>1, <2>2, Zenon
  <2> QED BY <2>2, <2>3, FitsRule, Zenon
<1>7. Fits(B("continue", 0, simple("CONTINUE")))
  <2>1. Adds(node("CONTINUE", "", 0, <<stmt_end_simple("CONTINUE")>>), 0, 0, 0, 0)
    BY <1>s10, AddsNode, Zenon
  <2> QED BY <2>1, FitsRule DEF Exprs, Counts
<1>8. Fits(B("return", 0, simple("RETURN")))
  <2>1. Adds(node("RETURN", "", 0, <<stmt_end_simple("RETURN")>>), 0, 0, 0, 0)
    BY <1>s11, AddsNode, Zenon
  <2> QED BY <2>1, FitsRule DEF Exprs, Counts
<1>9. Fits(B("return_value", 0, simple_expr("RETURN")))
  <2>1. Adds(node("RETURN", "", 0, <<E, stmt_end_simple_expr("RETURN")>>), 1 + -1, 0 + 0, 0 + 0, 0
      + 0)
    BY <1>s8, <1>s12, Adds2, AddsNode, Zenon
  <2>2. 1 + -1 = 0 /\ 0 + 0 = 0 /\ \A x \in {"block", "body", "tail"} : Exprs(x) = 0 /\ Counts(x) =
      0
    BY DEF Exprs, Counts
  <2>3. Adds(simple_expr("RETURN"), 0, 0, 0, 0)
    BY <2>1, <2>2, Zenon
  <2> QED BY <2>2, <2>3, FitsRule, Zenon
<1>10. Fits(B("throw", 0, simple_expr("THROW")))
  <2>1. Adds(node("THROW", "", 0, <<E, stmt_end_simple_expr("THROW")>>), 1 + -1, 0 + 0, 0 + 0, 0 +
      0)
    BY <1>s8, <1>s13, Adds2, AddsNode, Zenon
  <2>2. 1 + -1 = 0 /\ 0 + 0 = 0 /\ \A x \in {"block", "body", "tail"} : Exprs(x) = 0 /\ Counts(x) =
      0
    BY DEF Exprs, Counts
  <2>3. Adds(simple_expr("THROW"), 0, 0, 0, 0)
    BY <2>1, <2>2, Zenon
  <2> QED BY <2>2, <2>3, FitsRule, Zenon
<1>11. Fits(B("nop", 0, simple("NOP")))
  <2>1. Adds(node("NOP", "", 0, <<stmt_end_simple("NOP")>>), 0, 0, 0, 0)
    BY <1>s14, AddsNode, Zenon
  <2> QED BY <2>1, FitsRule DEF Exprs, Counts
<1>12. Fits(B("include", 1, <<parser_enter_include(a)>>))
  BY <1>s15, FitsRule DEF Exprs, Counts
<1>13. Fits(B("block", 1, begun("BLOCK", 0, <<list, stmt_end_block>>)))
  <2>1. Adds(<<list, stmt_end_block>>, 0 + 0, 0 + 0, 0 + -1, 0 + 0)
    BY <1>s5, <1>s17, Adds2, Zenon
  <2>2. Adds(<<stmt_begin>> \o <<list, stmt_end_block>>, 0 + (0 + 0), 0 + (0 + 0), 1 + (0 + -1), 0
      + (0 + 0))
    BY <1>s16, <2>1, AddsJoin, Zenon
  <2>3. Adds(node("BLOCK", "", 0, <<stmt_begin>> \o <<list, stmt_end_block>>), 0 + (0 + 0), 0 + (0
      + 0), 1 + (0 + -1), 0 + (0 + 0))
    BY <2>2, AddsNode
  <2>4. 1 + (0 + -1) = 0 /\ 0 + (0 + 0) = 0 /\ \A x \in {"block", "body", "tail"} : Exprs(x) = 0 +
      (0 + 0) /\ Counts(x) = 0 + (0 + 0)
    BY DEF Exprs, Counts
  <2> QED BY <2>4, <2>3, FitsRule, Zenon
<1>14. Fits(B("empty", 0, begun("BLOCK", 0, simple("NOP") \o <<stmt_end_block>>)))
  <2>1. Adds(node("NOP", "", 0, <<stmt_end_simple("NOP")>>), 0, 0, 0, 0)
    BY <1>s14, AddsNode, Zenon
  <2>2. Adds(simple("NOP") \o <<stmt_end_block>>, 0 + 0, 0 + 0, 0 + -1, 0 + 0)
    BY <2>1, <1>s17, AddsJoin, Zenon
  <2>3. Adds(<<stmt_begin>> \o (simple("NOP") \o <<stmt_end_block>>), 0 + (0 + 0), 0 + (0 + 0), 1 +
      (0 + -1), 0 + (0 + 0))
    BY <1>s16, <2>2, AddsJoin, Zenon
  <2>4. Adds(node("BLOCK", "", 0, <<stmt_begin>> \o (simple("NOP") \o <<stmt_end_block>>)), 0 + (0
      + 0), 0 + (0 + 0), 1 + (0 + -1), 0 + (0 + 0))
    BY <2>3, AddsNode
  <2>5. 1 + (0 + -1) = 0 /\ 0 + (0 + 0) = 0 /\ \A x \in {"block", "body", "tail"} : Exprs(x) = 0 +
      (0 + 0) /\ Counts(x) = 0 + (0 + 0)
    BY DEF Exprs, Counts
  <2> QED BY <2>5, <2>4, FitsRule, Zenon
<1>15. Fits(B("if", 1, begun("IF", 0, <<E, body, stmt_end_if>>)))
  <2>1. Adds(<<E, body, stmt_end_if>>, 1 + 0 + -1, 0 + 0 + 0, 0 + 0 + -1, 0 + 0 + 0)
    BY <1>s8, <1>s18, <1>s19, Adds3, Zenon
  <2>2. Adds(<<stmt_begin>> \o <<E, body, stmt_end_if>>, 0 + (1 + 0 + -1), 0 + (0 + 0 + 0), 1 + (0
      + 0 + -1), 0 + (0 + 0 + 0))
    BY <1>s16, <2>1, AddsJoin, Zenon
  <2>3. Adds(node("IF", "", 0, <<stmt_begin>> \o <<E, body, stmt_end_if>>), 0 + (1 + 0 + -1), 0 +
      (0 + 0 + 0), 1 + (0 + 0 + -1), 0 + (0 + 0 + 0))
    BY <2>2, AddsNode
  <2>4. 1 + (0 + 0 + -1) = 0 /\ 0 + (0 + 0 + 0) = 0 /\ \A x \in {"block", "body", "tail"} :
      Exprs(x) = 0 + (1 + 0 + -1) /\ Counts(x) = 0 + (0 + 0 + 0)
    BY DEF Exprs, Counts
  <2> QED BY <2>4, <2>3, FitsRule, Zenon
<1>16. Fits(B("if_else", 1, begun("IF_ELSE", 0, <<E, body, body, stmt_end_if>>)))
  <2>1. Adds(<<E, body, body, stmt_end_if>>, 1 + 0 + 0 + -1, 0 + 0 + 0 + 0, 0 + 0 + 0 + -1, 0 + 0 +
      0 + 0)
    BY <1>s8, <1>s18, <1>s19, Adds4, Zenon
  <2>2. Adds(<<stmt_begin>> \o <<E, body, body, stmt_end_if>>, 0 + (1 + 0 + 0 + -1), 0 + (0 + 0 + 0
      + 0), 1 + (0 + 0 + 0 + -1), 0 + (0 + 0 + 0 + 0))
    BY <1>s16, <2>1, AddsJoin, Zenon
  <2>3. Adds(node("IF_ELSE", "", 0, <<stmt_begin>> \o <<E, body, body, stmt_end_if>>), 0 + (1 + 0 +
      0 + -1), 0 + (0 + 0 + 0 + 0), 1 + (0 + 0 + 0 + -1), 0 + (0 + 0 + 0 + 0))
    BY <2>2, AddsNode
  <2>4. 1 + (0 + 0 + 0 + -1) = 0 /\ 0 + (0 + 0 + 0 + 0) = 0 /\ \A x \in {"block", "body", "tail"} :
      Exprs(x) = 0 + (1 + 0 + 0 + -1) /\ Counts(x) = 0 + (0 + 0 + 0 + 0)
    BY DEF Exprs, Counts
  <2> QED BY <2>4, <2>3, FitsRule, Zenon
<1>17. Fits(B("while", 1, begun("WHILE", 0, <<E, body, stmt_end_while>>)))
  <2>1. Adds(<<E, body, stmt_end_while>>, 1 + 0 + -1, 0 + 0 + 0, 0 + 0 + -1, 0 + 0 + 0)
    BY <1>s8, <1>s18, <1>s20, Adds3, Zenon
  <2>2. Adds(<<stmt_begin>> \o <<E, body, stmt_end_while>>, 0 + (1 + 0 + -1), 0 + (0 + 0 + 0), 1 +
      (0 + 0 + -1), 0 + (0 + 0 + 0))
    BY <1>s16, <2>1, AddsJoin, Zenon
  <2>3. Adds(node("WHILE", "", 0, <<stmt_begin>> \o <<E, body, stmt_end_while>>), 0 + (1 + 0 + -1),
      0 + (0 + 0 + 0), 1 + (0 + 0 + -1), 0 + (0 + 0 + 0))
    BY <2>2, AddsNode
  <2>4. 1 + (0 + 0 + -1) = 0 /\ 0 + (0 + 0 + 0) = 0 /\ \A x \in {"block", "body", "tail"} :
      Exprs(x) = 0 + (1 + 0 + -1) /\ Counts(x) = 0 + (0 + 0 + 0)
    BY DEF Exprs, Counts
  <2> QED BY <2>4, <2>3, FitsRule, Zenon
<1>18. Fits(B("do", 1, begun("DO", 0, <<body, E, stmt_end_do>>)))
  <2>1. Adds(<<body, E, stmt_end_do>>, 0 + 1 + -1, 0 + 0 + 0, 0 + 0 + -1, 0 + 0 + 0)
    BY <1>s18, <1>s8, <1>s21, Adds3, Zenon
  <2>2. Adds(<<stmt_begin>> \o <<body, E, stmt_end_do>>, 0 + (0 + 1 + -1), 0 + (0 + 0 + 0), 1 + (0
      + 0 + -1), 0 + (0 + 0 + 0))
    BY <1>s16, <2>1, AddsJoin, Zenon
  <2>3. Adds(node("DO", "", 0, <<stmt_begin>> \o <<body, E, stmt_end_do>>), 0 + (0 + 1 + -1), 0 +
      (0 + 0 + 0), 1 + (0 + 0 + -1), 0 + (0 + 0 + 0))
    BY <2>2, AddsNode
  <2>4. 1 + (0 + 0 + -1) = 0 /\ 0 + (0 + 0 + 0) = 0 /\ \A x \in {"block", "body", "tail"} :
      Exprs(x) = 0 + (0 + 1 + -1) /\ Counts(x) = 0 + (0 + 0 + 0)
    BY DEF Exprs, Counts
  <2> QED BY <2>4, <2>3, FitsRule, Zenon
<1>19. Fits(B("for", 1, begun("FOR", 0, <<NT("nullexpr"), NT("nullexpr"), NT("nullexpr"), body,
    stmt_end_for>>)))
  <2>1. Adds(<<NT("nullexpr"), NT("nullexpr"), NT("nullexpr"), body, stmt_end_for>>, 1 + 1 + 1 + 0
      + -3, 0 + 0 + 0 + 0 + 0, 0 + 0 + 0 + 0 + -1, 0 + 0 + 0 + 0 + 0)
    BY <1>s22, <1>s18, <1>s23, Adds5, Zenon
  <2>2. Adds(<<stmt_begin>> \o <<NT("nullexpr"), NT("nullexpr"), NT("nullexpr"), body,
      stmt_end_for>>, 0 + (1 + 1 + 1 + 0 + -3), 0 + (0 + 0 + 0 + 0 + 0), 1 + (0 + 0 + 0 + 0 + -1),
          0 + (0 + 0 + 0 + 0 + 0))
    BY <1>s16, <2>1, AddsJoin, Zenon
  <2>3. Adds(node("FOR", "", 0, <<stmt_begin>> \o <<NT("nullexpr"), NT("nullexpr"), NT("nullexpr"),
      body, stmt_end_for>>), 0 + (1 + 1 + 1 + 0 + -3), 0 + (0 + 0 + 0 + 0 + 0), 1 + (0 + 0 + 0 + 0
          + -1), 0 + (0 + 0 + 0 + 0 + 0))
    BY <2>2, AddsNode
  <2>4. 1 + (0 + 0 + 0 + 0 + -1) = 0 /\ 0 + (0 + 0 + 0 + 0 + 0) = 0 /\ \A x \in {"block", "body",
      "tail"} : Exprs(x) = 0 + (1 + 1 + 1 + 0 + -3) /\ Counts(x) = 0 + (0 + 0 + 0 + 0 + 0)
    BY DEF Exprs, Counts
  <2> QED BY <2>4, <2>3, FitsRule, Zenon
<1>20. Fits(B("switch", 1, begun("SWITCH", 0, <<E, NT("cases"), stmt_end_switch>>)))
  <2>1. Adds(<<E, NT("cases"), stmt_end_switch>>, 1 + 0 + -1, 0 + 0 + 0, 0 + 0 + -1, 0 + 0 + 0)
    BY <1>s8, <1>s24, <1>s25, Adds3, Zenon
  <2>2. Adds(<<stmt_begin>> \o <<E, NT("cases"), stmt_end_switch>>, 0 + (1 + 0 + -1), 0 + (0 + 0 +
      0), 1 + (0 + 0 + -1), 0 + (0 + 0 + 0))
    BY <1>s16, <2>1, AddsJoin, Zenon
  <2>3. Adds(node("SWITCH", "", 0, <<stmt_begin>> \o <<E, NT("cases"), stmt_end_switch>>), 0 + (1 +
      0 + -1), 0 + (0 + 0 + 0), 1 + (0 + 0 + -1), 0 + (0 + 0 + 0))
    BY <2>2, AddsNode
  <2>4. 1 + (0 + 0 + -1) = 0 /\ 0 + (0 + 0 + 0) = 0 /\ \A x \in {"block", "body", "tail"} :
      Exprs(x) = 0 + (1 + 0 + -1) /\ Counts(x) = 0 + (0 + 0 + 0)
    BY DEF Exprs, Counts
  <2> QED BY <2>4, <2>3, FitsRule, Zenon
<1>21. Fits(B("try", 1, begun("TRY", a, <<body, body, stmt_end_try(a)>>)))
  <2>1. Adds(<<body, body, stmt_end_try(a)>>, 0 + 0 + 0, 0 + 0 + 0, 0 + 0 + -1, 0 + 0 + 0)
    BY <1>s18, <1>s26, Adds3, Zenon
  <2>2. Adds(<<stmt_begin>> \o <<body, body, stmt_end_try(a)>>, 0 + (0 + 0 + 0), 0 + (0 + 0 + 0), 1
      + (0 + 0 + -1), 0 + (0 + 0 + 0))
    BY <1>s16, <2>1, AddsJoin, Zenon
  <2>3. Adds(node("TRY", "", a, <<stmt_begin>> \o <<body, body, stmt_end_try(a)>>), 0 + (0 + 0 +
      0), 0 + (0 + 0 + 0), 1 + (0 + 0 + -1), 0 + (0 + 0 + 0))
    BY <2>2, AddsNode
  <2>4. 1 + (0 + 0 + -1) = 0 /\ 0 + (0 + 0 + 0) = 0 /\ \A x \in {"block", "body", "tail"} :
      Exprs(x) = 0 + (0 + 0 + 0) /\ Counts(x) = 0 + (0 + 0 + 0)
    BY DEF Exprs, Counts
  <2> QED BY <2>4, <2>3, FitsRule, Zenon
<1>22. Fits(Rule({"nullexpr"}, "given", 0, <<E>>))
  BY <1>s8, FitsRule DEF Exprs, Counts
<1>23. Fits(Rule({"nullexpr"}, "omitted", 0, <<Say(Word("CONST_BOOL", "true", 0, 0, f)),
    expr_end_true, Close>>))
  <2>1. Adds(<<Say(Word("CONST_BOOL", "true", 0, 0, f)), expr_end_true, Close>>, 0 + 1 + 0, 0 + 0 +
      0, 0 + 0 + 0, 0 + 0 + 0)
    BY <1>s27, <1>s28, <1>s3, Adds3, Zenon
  <2>2. 0 + 0 + 0 = 0 /\ 0 + 0 + 0 = 0 /\ \A x \in {"nullexpr"} : Exprs(x) = 0 + 1 + 0 /\ Counts(x)
      = 0 + 0 + 0
    BY DEF Exprs, Counts
  <2> QED BY <2>2, <2>1, FitsRule, Zenon
<1>24. Fits(Rule({"cases"}, "case", 0, <<NT("case")>>))
  BY <1>s29, FitsRule DEF Exprs, Counts
<1>25. Fits(Rule({"cases"}, "cases", 1, <<NT("cases"), NT("case")>>))
  <2>1. 0 + 0 = 0 /\ 0 + 0 = 0 /\ \A x \in {"cases"} : Exprs(x) = 0 + 0 /\ Counts(x) = 0 + 0
    BY DEF Exprs, Counts
  <2> QED BY <2>1, <1>s24, <1>s29, Adds2, FitsRule, Zenon
<1>26. Fits(C("thru", 0, group("thru", <<tails, stmt_end_case(TRUE)>>)))
  <2>1. Adds(<<tails, stmt_end_case(TRUE)>>, 0 + -1, 0 + 0, 0 + -1, 0 + 0)
    BY <1>s7, <1>s30, Adds2, Zenon
  <2>2. Adds(<<E>> \o <<tails, stmt_end_case(TRUE)>>, 1 + (0 + -1), 0 + (0 + 0), 0 + (0 + -1), 0 +
      (0 + 0))
    BY <1>s8, <2>1, AddsJoin, Zenon
  <2>3. Adds(node("CASE", "thru", 0, <<E>> \o <<tails, stmt_end_case(TRUE)>>), 1 + (0 + -1), 0 + (0
      + 0), 0 + (0 + -1), 0 + (0 + 0))
    BY <2>2, AddsNode
  <2>4. Adds(<<stmt_begin>> \o node("CASE", "thru", 0, <<E>> \o <<tails, stmt_end_case(TRUE)>>), 0
      + (1 + (0 + -1)), 0 + (0 + (0 + 0)), 1 + (0 + (0 + -1)), 0 + (0 + (0 + 0)))
    BY <1>s16, <2>3, AddsJoin, Zenon
  <2>5. 1 + (0 + (0 + -1)) = 0 /\ 0 + (0 + (0 + 0)) = 0 /\ \A x \in {"case"} : Exprs(x) = 0 + (1 +
      (0 + -1)) /\ Counts(x) = 0 + (0 + (0 + 0))
    BY DEF Exprs, Counts
  <2> QED BY <2>5, <2>4, FitsRule, Zenon
<1>27. Fits(C("thru_empty", 0, group("thru", simple("NOP") \o <<stmt_end_case(TRUE)>>)))
  <2>1. Adds(node("NOP", "", 0, <<stmt_end_simple("NOP")>>), 0, 0, 0, 0)
    BY <1>s14, AddsNode, Zenon
  <2>2. Adds(simple("NOP") \o <<stmt_end_case(TRUE)>>, 0 + -1, 0 + 0, 0 + -1, 0 + 0)
    BY <2>1, <1>s30, AddsJoin, Zenon
  <2>3. Adds(<<E>> \o (simple("NOP") \o <<stmt_end_case(TRUE)>>), 1 + (0 + -1), 0 + (0 + 0), 0 + (0
      + -1), 0 + (0 + 0))
    BY <1>s8, <2>2, AddsJoin, Zenon
  <2>4. Adds(node("CASE", "thru", 0, <<E>> \o (simple("NOP") \o <<stmt_end_case(TRUE)>>)), 1 + (0 +
      -1), 0 + (0 + 0), 0 + (0 + -1), 0 + (0 + 0))
    BY <2>3, AddsNode
  <2>5. Adds(<<stmt_begin>> \o node("CASE", "thru", 0, <<E>> \o (simple("NOP") \o
      <<stmt_end_case(TRUE)>>)), 0 + (1 + (0 + -1)), 0 + (0 + (0 + 0)), 1 + (0 + (0 + -1)), 0 + (0
          + (0 + 0)))
    BY <1>s16, <2>4, AddsJoin, Zenon
  <2>6. 1 + (0 + (0 + -1)) = 0 /\ 0 + (0 + (0 + 0)) = 0 /\ \A x \in {"case"} : Exprs(x) = 0 + (1 +
      (0 + -1)) /\ Counts(x) = 0 + (0 + (0 + 0))
    BY DEF Exprs, Counts
  <2> QED BY <2>6, <2>5, FitsRule, Zenon
<1>28. Fits(C("break_alone", 0, group("", lone \o <<stmt_end_case(TRUE)>>)))
  <2>1. Adds(lone \o <<stmt_end_case(TRUE)>>, (0 + 0 + 0) + -1, (0 + 0 + 0) + 0, (0 + 0 + 0) + -1,
      (0 + 0 + 0) + 0)
    BY <1>lone, <1>s30, AddsJoin, Zenon
  <2>2. Adds(<<E>> \o (lone \o <<stmt_end_case(TRUE)>>), 1 + ((0 + 0 + 0) + -1), 0 + ((0 + 0 + 0) +
      0), 0 + ((0 + 0 + 0) + -1), 0 + ((0 + 0 + 0) + 0))
    BY <1>s8, <2>1, AddsJoin, Zenon
  <2>3. Adds(node("CASE", "", 0, <<E>> \o (lone \o <<stmt_end_case(TRUE)>>)), 1 + ((0 + 0 + 0) +
      -1), 0 + ((0 + 0 + 0) + 0), 0 + ((0 + 0 + 0) + -1), 0 + ((0 + 0 + 0) + 0))
    BY <2>2, AddsNode
  <2>4. Adds(<<stmt_begin>> \o node("CASE", "", 0, <<E>> \o (lone \o <<stmt_end_case(TRUE)>>)), 0 +
      (1 + ((0 + 0 + 0) + -1)), 0 + (0 + ((0 + 0 + 0) + 0)), 1 + (0 + ((0 + 0 + 0) + -1)), 0 + (0 +
          ((0 + 0 + 0) + 0)))
    BY <1>s16, <2>3, AddsJoin, Zenon
  <2>5. 1 + (0 + ((0 + 0 + 0) + -1)) = 0 /\ 0 + (0 + ((0 + 0 + 0) + 0)) = 0 /\ \A x \in {"case"} :
      Exprs(x) = 0 + (1 + ((0 + 0 + 0) + -1)) /\ Counts(x) = 0 + (0 + ((0 + 0 + 0) + 0))
    BY DEF Exprs, Counts
  <2> QED BY <2>5, <2>4, FitsRule, Zenon
<1>29. Fits(C("break_twice", 0, group("", lone \o <<stmt_end_case(FALSE)>>)))
  <2>1. Adds(lone \o <<stmt_end_case(FALSE)>>, (0 + 0 + 0) + -1, (0 + 0 + 0) + 0, (0 + 0 + 0) + -1,
      (0 + 0 + 0) + 0)
    BY <1>lone, <1>s31, AddsJoin, Zenon
  <2>2. Adds(<<E>> \o (lone \o <<stmt_end_case(FALSE)>>), 1 + ((0 + 0 + 0) + -1), 0 + ((0 + 0 + 0)
      + 0), 0 + ((0 + 0 + 0) + -1), 0 + ((0 + 0 + 0) + 0))
    BY <1>s8, <2>1, AddsJoin, Zenon
  <2>3. Adds(node("CASE", "", 0, <<E>> \o (lone \o <<stmt_end_case(FALSE)>>)), 1 + ((0 + 0 + 0) +
      -1), 0 + ((0 + 0 + 0) + 0), 0 + ((0 + 0 + 0) + -1), 0 + ((0 + 0 + 0) + 0))
    BY <2>2, AddsNode
  <2>4. Adds(<<stmt_begin>> \o node("CASE", "", 0, <<E>> \o (lone \o <<stmt_end_case(FALSE)>>)), 0
      + (1 + ((0 + 0 + 0) + -1)), 0 + (0 + ((0 + 0 + 0) + 0)), 1 + (0 + ((0 + 0 + 0) + -1)), 0 + (0
          + ((0 + 0 + 0) + 0)))
    BY <1>s16, <2>3, AddsJoin, Zenon
  <2>5. 1 + (0 + ((0 + 0 + 0) + -1)) = 0 /\ 0 + (0 + ((0 + 0 + 0) + 0)) = 0 /\ \A x \in {"case"} :
      Exprs(x) = 0 + (1 + ((0 + 0 + 0) + -1)) /\ Counts(x) = 0 + (0 + ((0 + 0 + 0) + 0))
    BY DEF Exprs, Counts
  <2> QED BY <2>5, <2>4, FitsRule, Zenon
<1>30. Fits(C("break_first", 0, group("thru", brk \o simple_expr("EXPR") \o
    <<stmt_end_case(TRUE)>>)))
  <2>1. Adds(node("EXPR", "", 0, <<E, stmt_end_simple_expr("EXPR")>>), 1 + -1, 0 + 0, 0 + 0, 0 + 0)
    BY <1>s8, <1>s9, Adds2, AddsNode, Zenon
  <2>2. Adds(brk \o simple_expr("EXPR"), 0 + (1 + -1), 0 + (0 + 0), 0 + (0 + 0), 0 + (0 + 0))
    BY <1>brk, <2>1, AddsJoin, Zenon
  <2>3. Adds(brk \o simple_expr("EXPR") \o <<stmt_end_case(TRUE)>>, (0 + (1 + -1)) + -1, (0 + (0 +
      0)) + 0, (0 + (0 + 0)) + -1, (0 + (0 + 0)) + 0)
    BY <2>2, <1>s30, AddsJoin, Zenon
  <2>4. Adds(<<E>> \o (brk \o simple_expr("EXPR") \o <<stmt_end_case(TRUE)>>), 1 + (0 + (1 + -1) +
      -1), 0 + (0 + (0 + 0) + 0), 0 + (0 + (0 + 0) + -1), 0 + (0 + (0 + 0) + 0))
    BY <1>s8, <2>3, AddsJoin, Zenon
  <2>5. Adds(node("CASE", "thru", 0, <<E>> \o (brk \o simple_expr("EXPR") \o
      <<stmt_end_case(TRUE)>>)), 1 + (0 + (1 + -1) + -1), 0 + (0 + (0 + 0) + 0), 0 + (0 + (0 + 0) +
          -1), 0 + (0 + (0 + 0) + 0))
    BY <2>4, AddsNode
  <2>6. Adds(<<stmt_begin>> \o node("CASE", "thru", 0, <<E>> \o (brk \o simple_expr("EXPR") \o
      <<stmt_end_case(TRUE)>>)), 0 + (1 + (0 + (1 + -1) + -1)), 0 + (0 + (0 + (0 + 0) + 0)), 1 + (0
          + (0 + (0 + 0) + -1)), 0 + (0 + (0 + (0 + 0) + 0)))
    BY <1>s16, <2>5, AddsJoin, Zenon
  <2>7. 1 + (0 + (0 + (0 + 0) + -1)) = 0 /\ 0 + (0 + (0 + (0 + 0) + 0)) = 0 /\ \A x \in {"case"} :
      Exprs(x) = 0 + (1 + (0 + (1 + -1) + -1)) /\ Counts(x) = 0 + (0 + (0 + (0 + 0) + 0))
    BY DEF Exprs, Counts
  <2> QED BY <2>7, <2>6, FitsRule, Zenon
<1>31. Fits(C("break_last", 0, group("", <<tails, stmt_end_case(FALSE)>>)))
  <2>1. Adds(<<tails, stmt_end_case(FALSE)>>, 0 + -1, 0 + 0, 0 + -1, 0 + 0)
    BY <1>s7, <1>s31, Adds2, Zenon
  <2>2. Adds(<<E>> \o <<tails, stmt_end_case(FALSE)>>, 1 + (0 + -1), 0 + (0 + 0), 0 + (0 + -1), 0 +
      (0 + 0))
    BY <1>s8, <2>1, AddsJoin, Zenon
  <2>3. Adds(node("CASE", "", 0, <<E>> \o <<tails, stmt_end_case(FALSE)>>), 1 + (0 + -1), 0 + (0 +
      0), 0 + (0 + -1), 0 + (0 + 0))
    BY <2>2, AddsNode
  <2>4. Adds(<<stmt_begin>> \o node("CASE", "", 0, <<E>> \o <<tails, stmt_end_case(FALSE)>>), 0 +
      (1 + (0 + -1)), 0 + (0 + (0 + 0)), 1 + (0 + (0 + -1)), 0 + (0 + (0 + 0)))
    BY <1>s16, <2>3, AddsJoin, Zenon
  <2>5. 1 + (0 + (0 + -1)) = 0 /\ 0 + (0 + (0 + 0)) = 0 /\ \A x \in {"case"} : Exprs(x) = 0 + (1 +
      (0 + -1)) /\ Counts(x) = 0 + (0 + (0 + 0))
    BY DEF Exprs, Counts
  <2> QED BY <2>5, <2>4, FitsRule, Zenon
<1>32. Fits(C("default", 0, <<stmt_begin>> \o node("DEFAULT", "", 0, <<list, stmt_end_default>>)))
  <2>1. Adds(node("DEFAULT", "", 0, <<list, stmt_end_default>>), 0 + 0, 0 + 0, 0 + -1, 0 + 0)
    BY <1>s5, <1>s32, Adds2, AddsNode, Zenon
  <2>2. Adds(<<stmt_begin>> \o node("DEFAULT", "", 0, <<list, stmt_end_default>>), 0 + (0 + 0), 0 +
      (0 + 0), 1 + (0 + -1), 0 + (0 + 0))
    BY <1>s16, <2>1, AddsJoin, Zenon
  <2>3. 1 + (0 + -1) = 0 /\ 0 + (0 + 0) = 0 /\ \A x \in {"case"} : Exprs(x) = 0 + (0 + 0) /\
      Counts(x) = 0 + (0 + 0)
    BY DEF Exprs, Counts
  <2> QED BY <2>3, <2>2, FitsRule, Zenon
<1>33. Fits(C("default_empty", 0, <<stmt_begin>> \o node("DEFAULT", "", 0, simple("NOP") \o
    <<stmt_end_default>>)))
  <2>1. Adds(node("NOP", "", 0, <<stmt_end_simple("NOP")>>), 0, 0, 0, 0)
    BY <1>s14, AddsNode, Zenon
  <2>2. Adds(simple("NOP") \o <<stmt_end_default>>, 0 + 0, 0 + 0, 0 + -1, 0 + 0)
    BY <2>1, <1>s32, AddsJoin, Zenon
  <2>3. Adds(node("DEFAULT", "", 0, simple("NOP") \o <<stmt_end_default>>), 0 + 0, 0 + 0, 0 + -1, 0
      + 0)
    BY <2>2, AddsNode
  <2>4. Adds(<<stmt_begin>> \o node("DEFAULT", "", 0, simple("NOP") \o <<stmt_end_default>>), 0 +
      (0 + 0), 0 + (0 + 0), 1 + (0 + -1), 0 + (0 + 0))
    BY <1>s16, <2>3, AddsJoin, Zenon
  <2>5. 1 + (0 + -1) = 0 /\ 0 + (0 + 0) = 0 /\ \A x \in {"case"} : Exprs(x) = 0 + (0 + 0) /\
      Counts(x) = 0 + (0 + 0)
    BY DEF Exprs, Counts
  <2> QED BY <2>5, <2>4, FitsRule, Zenon
<1> QED BY <1>1, <1>2, <1>3, <1>4, <1>5, <1>6, <1>7, <1>8, <1>9, <1>10, <1>11, <1>12, <1>13, <1>14,
    <1>15, <1>16, <1>17, <1>18, <1>19, <1>20, <1>21, <1>22, <1>23, <1>24, <1>25, <1>26, <1>27,
        <1>28, <1>29, <1>30, <1>31, <1>32, <1>33 DEF StmtRules

LEMMA DefinitionRulesFit ==
  ASSUME NEW a, NEW b, NEW f, NEW r \in DefinitionRules(a, b, f)
  PROVE  Fits(r)
<1> DEFINE node(type, op, x, t, file, rhs) == <<Say(Word(type, op, x, t, file))>> \o rhs \o <<Close>>
           value(rhs) == node("EXPR", "", 0, 0, 0, node("ASSIGN", "", a, 0, f,
                         rhs \o <<expr_end_assign(a)>>) \o <<stmt_end_simple_expr("EXPR")>>)
           class(parent) == node("CLASS", "", a, parent, 0,
                         <<stmt_begin, stmt_end_extends(parent), NT("classdecls"), stmt_end_class(a)>>)
           void == node("CONST_VOID", "", 0, 0, f, <<expr_end_simple("CONST_VOID")>>)
<1>s1. Adds(<<expr_end_simple("CONST_VOID")>>, 1, 0, 0, 0)
  BY AddsExprs DEF expr_end_simple
<1>s2. Adds(<<NT("fstatements")>>, 0, 0, 0, 0)
  BY AddsNT DEF Exprs, Counts
<1>s3. Adds(<<NT("fblock")>>, 0, 0, 0, 0)
  BY AddsNT DEF Exprs, Counts
<1>s4. Adds(<<NT("fundef")>>, 0, 0, 0, 0)
  BY AddsNT DEF Exprs, Counts
<1>s5. Adds(<<stmt_begin>>, 0, 0, 1, 0)
  BY AddsOthers DEF stmt_begin
<1>s6. Adds(<<stmt_end_extends(0)>>, 0, 0, 0, 0)
  BY AddsOthers DEF stmt_end_extends
<1>s7. Adds(<<NT("classdecls")>>, 0, 0, 0, 0)
  BY AddsNT DEF Exprs, Counts
<1>s8. Adds(<<stmt_end_class(a)>>, 0, 0, -1, 0)
  BY AddsStmts DEF stmt_end_class
<1>s9. Adds(<<stmt_end_extends(b)>>, 0, 0, 0, 0)
  BY AddsOthers DEF stmt_end_extends
<1>s10. Adds(<<NT("block")>>, 0, 0, 0, 0)
  BY AddsNT DEF Exprs, Counts
<1>s11. Adds(<<stmt_begin_func>>, 0, 0, 1, 1)
  BY AddsOthers DEF stmt_begin_func
<1>s12. Adds(<<stmt_end_rettype("i")>>, 0, 0, 0, 0)
  BY AddsOthers DEF stmt_end_rettype
<1>s13. Adds(<<NT("argdefs")>>, 0, 0, 0, 0)
  BY AddsNT DEF Exprs, Counts
<1>s14. Adds(<<NT("body")>>, 0, 0, 0, 0)
  BY AddsNT DEF Exprs, Counts
<1>s15. Adds(<<stmt_end_func(a)>>, 0, 0, -1, -1)
  BY AddsOthers DEF stmt_end_func
<1>s16. Adds(<<stmt_end_arg("b", a)>>, 0, 0, 0, 0)
  BY AddsOthers DEF stmt_end_arg
<1>s17. Adds(<<NT("classdecl")>>, 0, 0, 0, 0)
  BY AddsNT DEF Exprs, Counts
<1>s18. Adds(<<expr_end_assign(a)>>, 0, 0, 0, 0)
  BY AddsExprs DEF expr_end_assign
<1>s19. Adds(<<stmt_end_simple_expr("EXPR")>>, -1, 0, 0, 0)
  BY AddsStmts DEF stmt_end_simple_expr
<1>s20. Adds(<<E>>, 1, 0, 0, 0)
  BY AddsNT DEF E, Exprs, Counts
<1>void. Adds(void, 1, 0, 0, 0)
  <2>1. Adds(node("CONST_VOID", "", 0, 0, f, <<expr_end_simple("CONST_VOID")>>), 1, 0, 0, 0)
    BY <1>s1, AddsNode, Zenon
  <2> QED BY <2>1
<1>1. Fits(Rule({"program"}, "no_program", 0, <<>>))
  BY AddsNone, FitsRule DEF Exprs, Counts
<1>2. Fits(Rule({"program"}, "program", 0, <<NT("fstatements")>>))
  BY <1>s2, FitsRule DEF Exprs, Counts
<1>3. Fits(Rule({"fstatements"}, "fone", 0, <<NT("fblock")>>))
  BY <1>s3, FitsRule DEF Exprs, Counts
<1>4. Fits(Rule({"fstatements"}, "fmore", 1, <<NT("fstatements"), NT("fblock")>>))
  <2>1. 0 + 0 = 0 /\ 0 + 0 = 0 /\ \A x \in {"fstatements"} : Exprs(x) = 0 + 0 /\ Counts(x) = 0 + 0
    BY DEF Exprs, Counts
  <2> QED BY <2>1, <1>s2, <1>s3, Adds2, FitsRule, Zenon
<1>5. Fits(Rule({"fblock"}, "fundef", 0, <<NT("fundef")>>))
  BY <1>s4, FitsRule DEF Exprs, Counts
<1>6. Fits(Rule({"fblock"}, "classdef", 1, class(0)))
  <2>1. Adds(node("CLASS", "", a, 0, 0, <<stmt_begin, stmt_end_extends(0), NT("classdecls"),
      stmt_end_class(a)>>), 0 + 0 + 0 + 0, 0 + 0 + 0 + 0, 1 + 0 + 0 + -1, 0 + 0 + 0 + 0)
    BY <1>s5, <1>s6, <1>s7, <1>s8, Adds4, AddsNode, Zenon
  <2>2. 1 + 0 + 0 + -1 = 0 /\ 0 + 0 + 0 + 0 = 0 /\ \A x \in {"fblock"} : Exprs(x) = 0 + 0 + 0 + 0
      /\ Counts(x) = 0 + 0 + 0 + 0
    BY DEF Exprs, Counts
  <2> QED BY <2>2, <2>1, FitsRule, Zenon
<1>7. Fits(Rule({"fblock"}, "extends", 1, class(b)))
  <2>1. Adds(node("CLASS", "", a, b, 0, <<stmt_begin, stmt_end_extends(b), NT("classdecls"),
      stmt_end_class(a)>>), 0 + 0 + 0 + 0, 0 + 0 + 0 + 0, 1 + 0 + 0 + -1, 0 + 0 + 0 + 0)
    BY <1>s5, <1>s9, <1>s7, <1>s8, Adds4, AddsNode, Zenon
  <2>2. 1 + 0 + 0 + -1 = 0 /\ 0 + 0 + 0 + 0 = 0 /\ \A x \in {"fblock"} : Exprs(x) = 0 + 0 + 0 + 0
      /\ Counts(x) = 0 + 0 + 0 + 0
    BY DEF Exprs, Counts
  <2> QED BY <2>2, <2>1, FitsRule, Zenon
<1>8. Fits(Rule({"fblock"}, "fblock", 0, <<NT("block")>>))
  BY <1>s10, FitsRule DEF Exprs, Counts
<1>9. Fits(Rule({"fundef"}, "func", 1, <<stmt_begin_func>> \o node("FUNC", "i", a, 0, 0,
    <<stmt_end_rettype("i"), NT("argdefs"), NT("body"), stmt_end_func(a)>>)))
  <2>1. Adds(node("FUNC", "i", a, 0, 0, <<stmt_end_rettype("i"), NT("argdefs"), NT("body"),
      stmt_end_func(a)>>), 0 + 0 + 0 + 0, 0 + 0 + 0 + 0, 0 + 0 + 0 + -1, 0 + 0 + 0 + -1)
    BY <1>s12, <1>s13, <1>s14, <1>s15, Adds4, AddsNode, Zenon
  <2>2. Adds(<<stmt_begin_func>> \o node("FUNC", "i", a, 0, 0, <<stmt_end_rettype("i"),
      NT("argdefs"), NT("body"), stmt_end_func(a)>>), 0 + (0 + 0 + 0 + 0), 0 + (0 + 0 + 0 + 0), 1 +
          (0 + 0 + 0 + -1), 1 + (0 + 0 + 0 + -1))
    BY <1>s11, <2>1, AddsJoin, Zenon
  <2>3. 1 + (0 + 0 + 0 + -1) = 0 /\ 1 + (0 + 0 + 0 + -1) = 0 /\ \A x \in {"fundef"} : Exprs(x) = 0
      + (0 + 0 + 0 + 0) /\ Counts(x) = 0 + (0 + 0 + 0 + 0)
    BY DEF Exprs, Counts
  <2> QED BY <2>3, <2>2, FitsRule, Zenon
<1>10. Fits(Rule({"argdefs"}, "no_args", 0, <<>>))
  BY AddsNone, FitsRule DEF Exprs, Counts
<1>11. Fits(Rule({"argdefs"}, "args", 1, <<NT("argdefs")>> \o node("arg", "b", a, 0, 0,
    <<stmt_end_arg("b", a)>>)))
  <2>1. Adds(node("arg", "b", a, 0, 0, <<stmt_end_arg("b", a)>>), 0, 0, 0, 0)
    BY <1>s16, AddsNode, Zenon
  <2>2. Adds(<<NT("argdefs")>> \o node("arg", "b", a, 0, 0, <<stmt_end_arg("b", a)>>), 0 + 0, 0 +
      0, 0 + 0, 0 + 0)
    BY <1>s13, <2>1, AddsJoin, Zenon
  <2>3. 0 + 0 = 0 /\ 0 + 0 = 0 /\ \A x \in {"argdefs"} : Exprs(x) = 0 + 0 /\ Counts(x) = 0 + 0
    BY DEF Exprs, Counts
  <2> QED BY <2>3, <2>2, FitsRule, Zenon
<1>12. Fits(Rule({"classdecls"}, "decl", 0, <<NT("classdecl")>>))
  BY <1>s17, FitsRule DEF Exprs, Counts
<1>13. Fits(Rule({"classdecls"}, "decls", 1, <<NT("classdecls"), NT("classdecl")>>))
  <2>1. 0 + 0 = 0 /\ 0 + 0 = 0 /\ \A x \in {"classdecls"} : Exprs(x) = 0 + 0 /\ Counts(x) = 0 + 0
    BY DEF Exprs, Counts
  <2> QED BY <2>1, <1>s7, <1>s17, Adds2, FitsRule, Zenon
<1>14. Fits(Rule({"classdecl"}, "member_function", 0, <<NT("fundef")>>))
  BY <1>s4, FitsRule DEF Exprs, Counts
<1>15. Fits(Rule({"classdecl"}, "member_without_value", 0, value(void)))
  <2>1. Adds(void \o <<expr_end_assign(a)>>, 1 + 0, 0 + 0, 0 + 0, 0 + 0)
    BY <1>void, <1>s18, AddsJoin, Zenon
  <2>2. Adds(node("ASSIGN", "", a, 0, f, void \o <<expr_end_assign(a)>>), 1 + 0, 0 + 0, 0 + 0, 0 +
      0)
    BY <2>1, AddsNode
  <2>3. Adds(node("ASSIGN", "", a, 0, f, void \o <<expr_end_assign(a)>>) \o
      <<stmt_end_simple_expr("EXPR")>>, (1 + 0) + -1, (0 + 0) + 0, (0 + 0) + 0, (0 + 0) + 0)
    BY <2>2, <1>s19, AddsJoin, Zenon
  <2>4. Adds(node("EXPR", "", 0, 0, 0, node("ASSIGN", "", a, 0, f, void \o <<expr_end_assign(a)>>)
      \o <<stmt_end_simple_expr("EXPR")>>), (1 + 0) + -1, (0 + 0) + 0, (0 + 0) + 0, (0 + 0) + 0)
    BY <2>3, AddsNode
  <2>5. (0 + 0) + 0 = 0 /\ (0 + 0) + 0 = 0 /\ \A x \in {"classdecl"} : Exprs(x) = (1 + 0) + -1 /\
      Counts(x) = (0 + 0) + 0
    BY DEF Exprs, Counts
  <2> QED BY <2>5, <2>4, FitsRule, Zenon
<1>16. Fits(Rule({"classdecl"}, "member_with_value", 0, value(<<E>>)))
  <2>1. Adds(<<E>> \o <<expr_end_assign(a)>>, 1 + 0, 0 + 0, 0 + 0, 0 + 0)
    BY <1>s20, <1>s18, AddsJoin, Zenon
  <2>2. Adds(node("ASSIGN", "", a, 0, f, <<E>> \o <<expr_end_assign(a)>>), 1 + 0, 0 + 0, 0 + 0, 0 +
      0)
    BY <2>1, AddsNode
  <2>3. Adds(node("ASSIGN", "", a, 0, f, <<E>> \o <<expr_end_assign(a)>>) \o
      <<stmt_end_simple_expr("EXPR")>>, (1 + 0) + -1, (0 + 0) + 0, (0 + 0) + 0, (0 + 0) + 0)
    BY <2>2, <1>s19, AddsJoin, Zenon
  <2>4. Adds(node("EXPR", "", 0, 0, 0, node("ASSIGN", "", a, 0, f, <<E>> \o <<expr_end_assign(a)>>)
      \o <<stmt_end_simple_expr("EXPR")>>), (1 + 0) + -1, (0 + 0) + 0, (0 + 0) + 0, (0 + 0) + 0)
    BY <2>3, AddsNode
  <2>5. (0 + 0) + 0 = 0 /\ (0 + 0) + 0 = 0 /\ \A x \in {"classdecl"} : Exprs(x) = (1 + 0) + -1 /\
      Counts(x) = (0 + 0) + 0
    BY DEF Exprs, Counts
  <2> QED BY <2>5, <2>4, FitsRule, Zenon
<1> QED BY <1>1, <1>2, <1>3, <1>4, <1>5, <1>6, <1>7, <1>8, <1>9, <1>10, <1>11, <1>12, <1>13, <1>14,
    <1>15, <1>16 DEF DefinitionRules

-----------------------------------------------------------------------------
(* The types of the state. *)

IsParser(q) ==
  /\ q \in [expr_stack : Seq(Nat), arg_count : Seq(Nat \ {0}), stack : Seq(Seq(Nat)),
            fn_arg : {q.fn_arg}, class_parent : {q.class_parent}, include : {q.include},
            parser_error : Nat, made : Nat]
  /\ IsList(q.fn_arg) /\ IsList(q.include)
Types == IsGoal(goal) /\ IsParser(p)

\* While a script is read, what is on a stack and what the goal adds to it are
\* what is left in the end: nothing, but for the list of the script itself.
\* Loose expressions are not counted as arguments.
Loose(exprs, counts) == Len(exprs) - SumOf(counts)
Balanced(q, g) ==
  /\ Loose(q.expr_stack, q.arg_count) + Total("exprs", g) = 0
  /\ Len(q.arg_count) + Total("counts", g) = 0
  /\ Len(q.stack) + Total("lists", g) = 1
  /\ Len(q.fn_arg) + Total("defs", g) = 0
  /\ Len(q.include) + Total("files", g) = 0
Balance == phase = "parse" => Balanced(p, goal)

\* The outermost file is the one that was given to parser_run.
Outermost(q, file) == IF q.include = <<>> THEN file = MainFile ELSE q.include[1] = MainFile

AllUsed(q) == /\ q.expr_stack = <<>> /\ q.arg_count = <<>> /\ q.stack = <<>>
              /\ q.fn_arg = <<>> /\ q.include = <<>>
Emptied == phase \in {"done", "freed"} => AllUsed(p)

StackInv == Types /\ Balance /\ Outermost(p, s.source_file) /\ Emptied

-----------------------------------------------------------------------------
(* Lists. *)

\* The first symbol of the goal, and what is left.
LEMMA GoalStep ==
  ASSUME NEW g, IsGoal(g), g # <<>>
  PROVE  /\ IsSymbol(Head(g)) /\ IsGoal(Tail(g)) /\ g = <<Head(g)>> \o Tail(g)
         /\ \A q : Total(q, g) = Weight(q, Head(g)) + Total(q, Tail(g))
         /\ \A q : Total(q, Tail(g)) \in Int /\ Weight(q, Head(g)) \in Int
<1>1. /\ g \in Seq(Range(g)) /\ Len(g) \in Nat /\ DOMAIN g = 1..Len(g) /\ Len(g) # 0
      /\ \A k \in 1..Len(g) : IsSymbol(g[k])
  BY GoalProperties
<1>2. Head(g) = g[1] /\ 1 \in 1..Len(g) /\ IsSymbol(Head(g))
  BY <1>1
<1>3. Tail(g) \in Seq(Range(g))
  BY <1>1
<1>4. IsGoal(Tail(g))
  BY <1>3, GoalOf DEF IsGoal
<1>5. g = <<Head(g)>> \o Tail(g)
  BY <1>1, HeadTailProperties
<1>7. IsGoal(<<Head(g)>>)
  BY <1>2, GoalOfOne
<1>8. \A q : Total(q, g) = Total(q, <<Head(g)>>) + Total(q, Tail(g))
  BY <1>4, <1>5, <1>7, TotalOfConcat
<1>9. \A q : Total(q, <<Head(g)>>) = Weight(q, Head(g)) /\ Weight(q, Head(g)) \in Int
  BY <1>2, TotalOfOne, WeightIsInt
<1>10. \A q : Total(q, Tail(g)) \in Int
  BY <1>4, WeightsIsSeq
<1> QED BY <1>2, <1>4, <1>5, <1>8, <1>9, <1>10

LEMMA TotalOfFiles ==
  ASSUME NEW g, IsGoal(g)
  PROVE  Total("files", g) <= 0
<1>1. Weights("files", g) \in Seq(Int) /\ Len(Weights("files", g)) = Len(g) /\ DOMAIN g = 1..Len(g)
  BY WeightsIsSeq, GoalProperties
<1>2. ASSUME NEW k \in 1..Len(Weights("files", g)) PROVE Weights("files", g)[k] <= 0
  <2>1. Weights("files", g)[k] = Weight("files", g[k])
    BY <1>1 DEF Weights
  <2> QED BY <2>1 DEF Weight
<1> QED BY <1>1, <1>2, SumNotAbove DEF Total

-----------------------------------------------------------------------------
(* What is popped. *)

LEMMA OrderIs ==
  ASSUME NEW F, NEW pops \in Orders(F)
  PROVE  /\ pops \in Seq(F) /\ Len(pops) \in Nat /\ DOMAIN pops = 1..Len(pops)
         /\ \A j, k \in 1..Len(pops) : pops[j] = pops[k] => j = k
         /\ HasArgv(pops) <=> \E j \in 1..Len(pops) : pops[j] = "argv"
         /\ Range(pops) \subseteq F /\ \A f : f \in Range(pops) <=> \E k \in 1..Len(pops) : pops[k] = f
<1>1. pops \in Seq(F) /\ IsInjective(pops)
  BY DEF Orders
<1>2. Len(pops) \in Nat /\ DOMAIN pops = 1..Len(pops) /\ \A k \in 1..Len(pops) : pops[k] \in F
  BY <1>1
<1>3. \A f : f \in Range(pops) <=> \E k \in 1..Len(pops) : pops[k] = f
  BY <1>2 DEF Range
<1> QED BY <1>1, <1>2, <1>3 DEF IsInjective, HasArgv

LEMMA PoppedIs ==
  ASSUME NEW F, NEW pops \in Orders(F), NEW k \in 1..(Len(pops) + 1)
  PROVE  Popped(pops, k) = k - 1 + (IF \E j \in 1..(k - 1) : pops[j] = "argv"
                                    THEN Last(p.arg_count) - 1 ELSE 0)
<1>1. pops \in Seq(F) /\ Len(pops) \in Nat /\ k - 1 \in Nat /\ k - 1 <= Len(pops)
  BY OrderIs
<1> DEFINE q == SubSeq(pops, 1, k - 1)
<1>2. q \in Seq(F) /\ Len(q) = k - 1 /\ \A j \in 1..(k - 1) : q[j] = pops[j]
  <2>1. k - 1 \in Int /\ 1 \in Int /\ \A j \in 1..(k - 1) : pops[j] \in F
    BY <1>1
  <2>2. q \in Seq(F)
    BY <2>1, SubSeqProperties
  <2> QED BY <1>1, <2>2
<1>3. "argv" \in Range(q) <=> \E j \in 1..(k - 1) : pops[j] = "argv"
  <2>1. DOMAIN q = 1..(k - 1)
    BY <1>2
  <2> HIDE DEF q
  <2> QED BY <1>2, <2>1 DEF Range
<1> HIDE DEF q
<1>4. Popped(pops, k) = k - 1 + (IF "argv" \in Range(q) THEN Last(p.arg_count) - 1 ELSE 0)
  BY DEF Popped, q
<1> QED BY <1>3, <1>4

LEMMA PoppedGrows ==
  ASSUME NEW F, NEW pops \in Orders(F), p.arg_count \in Seq(Nat \ {0}), ExprsSane(pops)
  PROVE  /\ \A k \in 1..(Len(pops) + 1) : Popped(pops, k) \in Nat
         /\ Popped(pops, 1) = 0
         /\ \A k \in 1..Len(pops) :
              Popped(pops, k + 1) = Popped(pops, k) + (IF pops[k] = "argv" THEN Last(p.arg_count) ELSE 1)
         /\ \A j, k \in 1..(Len(pops) + 1) : j <= k => Popped(pops, j) <= Popped(pops, k)
         /\ Depth(pops) = Len(pops) + (IF HasArgv(pops) THEN Last(p.arg_count) - 1 ELSE 0)
         /\ Depth(pops) = Popped(pops, Len(pops) + 1)
<1> DEFINE n == Last(p.arg_count)
           Seen(k) == \E j \in 1..(k - 1) : pops[j] = "argv"
<1>1. HasArgv(pops) => n \in Nat \ {0}
  BY FrontOf DEF ExprsSane
<1>2. /\ Len(pops) \in Nat /\ DOMAIN pops = 1..Len(pops)
      /\ HasArgv(pops) <=> \E j \in 1..Len(pops) : pops[j] = "argv"
      /\ \A j, k \in 1..Len(pops) : pops[j] = pops[k] => j = k
  BY OrderIs
<1>3. \A k \in 1..(Len(pops) + 1) : Popped(pops, k) = k - 1 + (IF Seen(k) THEN n - 1 ELSE 0)
  BY PoppedIs
<1>4. \A k \in 1..(Len(pops) + 1) : Seen(k) => HasArgv(pops)
  BY <1>2
<1>5. Seen(Len(pops) + 1) <=> HasArgv(pops)
  BY <1>2
<1>6. \A k \in 1..Len(pops) : Seen(k + 1) <=> Seen(k) \/ pops[k] = "argv"
  BY <1>2
<1>7. \A k \in 1..Len(pops) : ~(Seen(k) /\ pops[k] = "argv")
  BY <1>2
<1>8. \A j, k \in 1..(Len(pops) + 1) : j <= k /\ Seen(j) => Seen(k)
  BY <1>2
<1>9. ~Seen(1)
  OBVIOUS
<1> HIDE DEF n, Seen
<1>10. \A k \in 1..(Len(pops) + 1) : Popped(pops, k) \in Nat
  BY <1>1, <1>2, <1>3, <1>4
<1>11. Popped(pops, 1) = 0
  BY <1>2, <1>3, <1>9
<1>12. ASSUME NEW k \in 1..Len(pops)
       PROVE  Popped(pops, k + 1) = Popped(pops, k) + (IF pops[k] = "argv" THEN n ELSE 1)
  <2>1. k \in 1..(Len(pops) + 1) /\ k + 1 \in 1..(Len(pops) + 1)
    BY <1>2
  <2>2. Seen(k + 1) => n \in Nat \ {0}
    BY <1>1, <1>4, <2>1
  <2>3. /\ Popped(pops, k) = k - 1 + (IF Seen(k) THEN n - 1 ELSE 0)
        /\ Popped(pops, k + 1) = k + 1 - 1 + (IF Seen(k + 1) THEN n - 1 ELSE 0)
    BY <1>3, <2>1
  <2>4. /\ Seen(k + 1) <=> Seen(k) \/ pops[k] = "argv"
        /\ ~(Seen(k) /\ pops[k] = "argv")
    BY <1>6, <1>7
  <2>5. k \in Nat
    BY <1>2
  <2> QED BY <2>2, <2>3, <2>4, <2>5
<1>13. ASSUME NEW j \in 1..(Len(pops) + 1), NEW k \in 1..(Len(pops) + 1), j <= k
       PROVE  Popped(pops, j) <= Popped(pops, k)
  <2>1. Seen(k) => n \in Nat \ {0}
    BY <1>1, <1>4
  <2> QED BY <1>2, <1>3, <1>8, <1>13, <2>1
<1>14. Depth(pops) = Popped(pops, Len(pops) + 1)
  BY DEF Depth
<1>15. Depth(pops) = Len(pops) + (IF HasArgv(pops) THEN n - 1 ELSE 0)
  BY <1>1, <1>2, <1>3, <1>5, <1>14
<1> QED BY <1>10, <1>11, <1>12, <1>13, <1>14, <1>15 DEF n

\* What a node leaves on the two stacks.
LEMMA PopsLeave ==
  ASSUME NEW F, NEW pops \in Orders(F), IsParser(p), ExprsSane(pops)
  PROVE  /\ ExprsLeft(pops) \in Seq(Nat) /\ CountsLeft(pops) \in Seq(Nat \ {0})
         /\ Loose(ExprsLeft(pops), CountsLeft(pops))
              = Loose(p.expr_stack, p.arg_count) - Len(pops) + (IF HasArgv(pops) THEN 1 ELSE 0)
         /\ Len(CountsLeft(pops)) = Len(p.arg_count) - (IF HasArgv(pops) THEN 1 ELSE 0)
<1>1. p.arg_count \in Seq(Nat \ {0}) /\ p.expr_stack \in Seq(Nat) /\ Len(p.expr_stack) \in Nat
  BY DEF IsParser
<1> DEFINE n == Last(p.arg_count)
<1>2. /\ Depth(pops) = Len(pops) + (IF HasArgv(pops) THEN n - 1 ELSE 0)
      /\ Depth(pops) <= Len(p.expr_stack) /\ Len(pops) \in Nat
      /\ HasArgv(pops) => n \in Nat \ {0} /\ p.arg_count # <<>>
      /\ Depth(pops) \in Nat
  <2>1. Len(pops) + 1 \in 1..(Len(pops) + 1) /\ Len(pops) \in Nat
    BY OrderIs
  <2>2. Depth(pops) = Len(pops) + (IF HasArgv(pops) THEN n - 1 ELSE 0) /\ Depth(pops) \in Nat
    BY <1>1, <2>1, PoppedGrows
  <2>3. Depth(pops) <= Len(p.expr_stack) /\ (HasArgv(pops) => p.arg_count # <<>>)
    BY DEF ExprsSane
  <2>4. HasArgv(pops) => n \in Nat \ {0}
    BY <1>1, <2>3, FrontOf
  <2> QED BY <2>1, <2>2, <2>3, <2>4
<1>3. ExprsLeft(pops) \in Seq(Nat) /\ Len(ExprsLeft(pops)) = Len(p.expr_stack) - Depth(pops)
  <2>1. Len(p.expr_stack) - Depth(pops) \in 0..Len(p.expr_stack)
    BY <1>1, <1>2
  <2> QED BY <1>1, <2>1 DEF ExprsLeft
<1>4. /\ CountsLeft(pops) \in Seq(Nat \ {0})
      /\ Len(CountsLeft(pops)) = Len(p.arg_count) - (IF HasArgv(pops) THEN 1 ELSE 0)
      /\ SumOf(p.arg_count) = SumOf(CountsLeft(pops)) + (IF HasArgv(pops) THEN n ELSE 0)
      /\ SumOf(CountsLeft(pops)) \in Int
  <2>1. CASE HasArgv(pops)
    <3>1. CountsLeft(pops) = Front(p.arg_count)
      BY <2>1 DEF CountsLeft
    <3>2. /\ Front(p.arg_count) \in Seq(Nat \ {0}) /\ Len(Front(p.arg_count)) = Len(p.arg_count) - 1
          /\ p.arg_count = Append(Front(p.arg_count), n)
      BY <1>1, <1>2, <2>1, FrontOf
    <3>3. Front(p.arg_count) \in Seq(Int) /\ n \in Int
      BY <1>2, <2>1, <3>2
    <3>4. SumOf(Append(Front(p.arg_count), n)) = SumOf(Front(p.arg_count)) + n
      BY <3>3, SumOfAppend
    <3>5. SumOf(Front(p.arg_count)) \in Int
      BY <3>3, SumReached
    <3> HIDE DEF n
    <3> QED BY <2>1, <3>1, <3>2, <3>4, <3>5
  <2>2. CASE ~HasArgv(pops)
    <3>1. CountsLeft(pops) = p.arg_count /\ p.arg_count \in Seq(Int)
      BY <1>1, <2>2 DEF CountsLeft
    <3>2. Len(p.arg_count) \in Nat /\ SumOf(p.arg_count) \in Int
      BY <3>1, SumReached
    <3> QED BY <1>1, <2>2, <3>1, <3>2
  <2> QED BY <2>1, <2>2
<1>5. Len(ExprsLeft(pops)) - SumOf(CountsLeft(pops))
        = Len(p.expr_stack) - SumOf(p.arg_count) - Len(pops) + (IF HasArgv(pops) THEN 1 ELSE 0)
  <2> HIDE DEF n
  <2>1. CASE HasArgv(pops)
    <3>1. Depth(pops) = Len(pops) + n - 1 /\ n \in Nat /\ Len(pops) \in Nat
      BY <1>2, <2>1
    <3>2. SumOf(p.arg_count) = SumOf(CountsLeft(pops)) + n /\ SumOf(CountsLeft(pops)) \in Int
      BY <1>4, <2>1
    <3>3. Len(ExprsLeft(pops)) - SumOf(CountsLeft(pops))
            = Len(p.expr_stack) - SumOf(p.arg_count) - Len(pops) + 1
      BY <1>1, <1>3, <3>1, <3>2
    <3> QED BY <2>1, <3>3
  <2>2. CASE ~HasArgv(pops)
    <3>1. Depth(pops) = Len(pops) /\ Len(pops) \in Nat
      BY <1>2, <2>2
    <3>2. SumOf(p.arg_count) = SumOf(CountsLeft(pops)) /\ SumOf(CountsLeft(pops)) \in Int
      BY <1>4, <2>2
    <3>3. Len(ExprsLeft(pops)) - SumOf(CountsLeft(pops))
            = Len(p.expr_stack) - SumOf(p.arg_count) - Len(pops) + 0
      BY <1>1, <1>3, <3>1, <3>2
    <3> QED BY <2>2, <3>3
  <2> QED BY <2>1, <2>2
<1> QED BY <1>3, <1>4, <1>5 DEF Loose

-----------------------------------------------------------------------------
(* What is left of the goal and what is on the stacks change together. *)

LEMMA TypesHold ==
  ASSUME Types
  PROVE  /\ p.expr_stack \in Seq(Nat) /\ p.arg_count \in Seq(Nat \ {0}) /\ p.stack \in Seq(Seq(Nat))
         /\ IsList(p.fn_arg) /\ IsList(p.include) /\ p.made \in Nat /\ p.parser_error \in Nat
         /\ Len(p.expr_stack) \in Nat /\ Len(p.arg_count) \in Nat /\ Len(p.stack) \in Nat
         /\ Len(p.fn_arg) \in Nat /\ Len(p.include) \in Nat
         /\ Loose(p.expr_stack, p.arg_count) \in Int
         /\ IsGoal(goal)
         /\ goal # <<>> =>
              /\ IsGoal(Tail(goal)) /\ IsSymbol(Head(goal))
              /\ \A q : /\ Total(q, goal) = Weight(q, Head(goal)) + Total(q, Tail(goal))
                       /\ Total(q, Tail(goal)) \in Int
                       /\ Weight(q, Head(goal)) \in Int
<1>1. IsParser(p) /\ IsGoal(goal)
  BY DEF Types
<1>2. /\ p.expr_stack \in Seq(Nat) /\ p.arg_count \in Seq(Nat \ {0}) /\ p.stack \in Seq(Seq(Nat))
      /\ IsList(p.fn_arg) /\ IsList(p.include) /\ p.made \in Nat /\ p.parser_error \in Nat
  BY <1>1 DEF IsParser
<1>3. Len(p.fn_arg) \in Nat /\ Len(p.include) \in Nat
  BY <1>2, ListProperties
<1>4. p.arg_count \in Seq(Int)
  BY <1>2
<1>5. Len(p.expr_stack) \in Nat /\ Len(p.arg_count) \in Nat /\ Len(p.stack) \in Nat
  BY <1>2
<1>6. Loose(p.expr_stack, p.arg_count) \in Int
  BY <1>4, <1>5, SumReached DEF Loose
<1>7. ASSUME goal # <<>>
      PROVE  /\ IsGoal(Tail(goal)) /\ IsSymbol(Head(goal))
             /\ \A q : /\ Total(q, goal) = Weight(q, Head(goal)) + Total(q, Tail(goal))
                      /\ Total(q, Tail(goal)) \in Int
                      /\ Weight(q, Head(goal)) \in Int
  BY <1>1, <1>7, GoalStep
<1> QED BY <1>1, <1>2, <1>3, <1>5, <1>6, <1>7

\* A call that changes the stacks as its symbol says.
Follows(q, x) ==
  /\ IsParser(q)
  /\ Loose(q.expr_stack, q.arg_count) = Loose(p.expr_stack, p.arg_count) + Weight("exprs", x)
  /\ Len(q.arg_count) = Len(p.arg_count) + Weight("counts", x)
  /\ Len(q.stack) = Len(p.stack) + Weight("lists", x)
  /\ Len(q.fn_arg) = Len(p.fn_arg) + Weight("defs", x)

LEMMA CallFollows ==
  ASSUME StackInv, phase = "parse", phase' = "parse", goal # <<>>, goal' = Tail(goal),
         Follows(p', Head(goal)), Weight("files", Head(goal)) = 0, p'.include = p.include, s' = s
  PROVE  StackInv'
<1>1. IsGoal(goal') /\ IsParser(p')
  <2>1. Types
    BY DEF StackInv
  <2>2. IsGoal(Tail(goal))
    BY <2>1, TypesHold
  <2>3. IsParser(p')
    BY DEF Follows
  <2> QED BY <2>2, <2>3
<1>2. /\ Loose(p.expr_stack, p.arg_count) + Total("exprs", goal) = 0
      /\ Len(p.arg_count) + Total("counts", goal) = 0
      /\ Len(p.stack) + Total("lists", goal) = 1
      /\ Len(p.fn_arg) + Total("defs", goal) = 0
      /\ Len(p.include) + Total("files", goal) = 0
  BY DEF StackInv, Balance, Balanced
<1>3. /\ Len(p.arg_count) \in Nat /\ Len(p.stack) \in Nat
      /\ Len(p.fn_arg) \in Nat /\ Len(p.include) \in Nat /\ Loose(p.expr_stack, p.arg_count) \in Int
  BY TypesHold DEF StackInv
<1>4. \A q : /\ Total(q, goal) = Weight(q, Head(goal)) + Total(q, goal')
            /\ Total(q, goal') \in Int /\ Weight(q, Head(goal)) \in Int
  <2>1. Types
    BY DEF StackInv
  <2> QED BY <2>1, TypesHold, Zenon
<1>5. /\ Loose(p'.expr_stack, p'.arg_count) + Total("exprs", goal') = 0
      /\ Len(p'.arg_count) + Total("counts", goal') = 0
      /\ Len(p'.stack) + Total("lists", goal') = 1
      /\ Len(p'.fn_arg) + Total("defs", goal') = 0
      /\ Len(p'.include) + Total("files", goal') = 0
  <2>1. /\ Loose(p'.expr_stack, p'.arg_count) = Loose(p.expr_stack, p.arg_count) + Weight("exprs", Head(goal))
        /\ Len(p'.arg_count) = Len(p.arg_count) + Weight("counts", Head(goal))
        /\ Len(p'.stack) = Len(p.stack) + Weight("lists", Head(goal))
        /\ Len(p'.fn_arg) = Len(p.fn_arg) + Weight("defs", Head(goal))
        /\ Len(p'.include) = Len(p.include) + Weight("files", Head(goal))
    BY <1>3 DEF Follows
  <2>2. Loose(p'.expr_stack, p'.arg_count) + Total("exprs", goal') = 0
    <3>1. /\ Total("exprs", goal) = Weight("exprs", Head(goal)) + Total("exprs", goal')
          /\ Total("exprs", goal') \in Int /\ Weight("exprs", Head(goal)) \in Int
      BY <1>4, Zenon
    <3> QED BY <1>2, <1>3, <2>1, <3>1
  <2>3. Len(p'.arg_count) + Total("counts", goal') = 0
    <3>1. /\ Total("counts", goal) = Weight("counts", Head(goal)) + Total("counts", goal')
          /\ Total("counts", goal') \in Int /\ Weight("counts", Head(goal)) \in Int
      BY <1>4, Zenon
    <3> QED BY <1>2, <1>3, <2>1, <3>1
  <2>4. Len(p'.stack) + Total("lists", goal') = 1
    <3>1. /\ Total("lists", goal) = Weight("lists", Head(goal)) + Total("lists", goal')
          /\ Total("lists", goal') \in Int /\ Weight("lists", Head(goal)) \in Int
      BY <1>4, Zenon
    <3> QED BY <1>2, <1>3, <2>1, <3>1
  <2>5. Len(p'.fn_arg) + Total("defs", goal') = 0
    <3>1. /\ Total("defs", goal) = Weight("defs", Head(goal)) + Total("defs", goal')
          /\ Total("defs", goal') \in Int /\ Weight("defs", Head(goal)) \in Int
      BY <1>4, Zenon
    <3> QED BY <1>2, <1>3, <2>1, <3>1
  <2>6. Len(p'.include) + Total("files", goal') = 0
    <3>1. /\ Total("files", goal) = Weight("files", Head(goal)) + Total("files", goal')
          /\ Total("files", goal') \in Int /\ Weight("files", Head(goal)) \in Int
      BY <1>4, Zenon
    <3> QED BY <1>2, <1>3, <2>1, <3>1
  <2> QED BY <2>2, <2>3, <2>4, <2>5, <2>6
<1>6. Balanced(p', goal')
  BY <1>5 DEF Balanced
<1>7. Outermost(p', s'.source_file)
  BY DEF StackInv, Outermost
<1> QED BY <1>1, <1>6, <1>7 DEF StackInv, Types, Balance, Emptied

\* A step that leaves the stacks and the rest of the script alone.
\* A node that is put on the stack of expressions is loose.
LEMMA LooseBy ==
  ASSUME NEW e \in Seq(Nat), NEW f \in Seq(Nat), NEW c \in Seq(Nat \ {0}), NEW n \in Int,
         Len(f) = Len(e) + n
  PROVE  Loose(f, c) = Loose(e, c) + n
<1>1. c \in Seq(Int) /\ Len(e) \in Int
  OBVIOUS
<1>2. PICK k \in Int, m \in Int : k = Len(e) /\ m = SumOf(c)
  BY <1>1, SumReached
<1>3. Loose(e, c) = k - m /\ Loose(f, c) = k + n - m
  BY <1>2 DEF Loose
<1> QED BY <1>2, <1>3

LEMMA LooseMore ==
  ASSUME NEW e \in Seq(Nat), NEW c \in Seq(Nat \ {0}), NEW i \in Nat
  PROVE  /\ Append(e, i) \in Seq(Nat) /\ Loose(Append(e, i), c) = Loose(e, c) + 1
<1>1. PICK f \in Seq(Nat) : f = Append(e, i) /\ Len(f) = Len(e) + 1
  BY AppendProperties
<1>2. 1 \in Int
  OBVIOUS
<1>3. Loose(f, c) = Loose(e, c) + 1
  BY <1>1, <1>2, LooseBy
<1> QED BY <1>1, <1>3

\* One that is counted is not.
LEMMA LooseLess ==
  ASSUME NEW e \in Seq(Nat), NEW c \in Seq(Nat \ {0}), NEW d \in Seq(Nat \ {0}), SumOf(d) = SumOf(c) + 1
  PROVE  Loose(e, d) = Loose(e, c) - 1
<1>1. c \in Seq(Int) /\ d \in Seq(Int) /\ Len(e) \in Int
  OBVIOUS
<1>2. PICK k \in Int, m \in Int, n \in Int : k = Len(e) /\ m = SumOf(c) /\ n = SumOf(d)
  BY <1>1, SumReached
<1>3. Loose(e, d) = k - n /\ Loose(e, c) = k - m /\ n = m + 1
  BY <1>2 DEF Loose
<1> QED BY <1>2, <1>3

LEMMA OthersKeep ==
  ASSUME StackInv, goal' = goal, phase' \in {phase, "internal"},
         p' = p \/ \E n \in Nat : p' = [p EXCEPT !.made = p.made + n],
         s' = s
  PROVE  StackInv'
<1>1. IsParser(p) /\ p.made \in Nat
  BY DEF StackInv, Types, IsParser
<1>2. IsParser(p')
  BY <1>1 DEF IsParser
<1>3. /\ p'.expr_stack = p.expr_stack /\ p'.arg_count = p.arg_count /\ p'.stack = p.stack
      /\ p'.fn_arg = p.fn_arg /\ p'.include = p.include
  BY <1>1 DEF IsParser
<1>4. Types'
  BY <1>2 DEF StackInv, Types
<1>5. Balance'
  BY <1>3 DEF StackInv, Balance, Balanced
<1>6. Outermost(p', s'.source_file)
  BY <1>3 DEF StackInv, Outermost
<1>7. Emptied'
  BY <1>3 DEF StackInv, Emptied, AllUsed
<1> QED BY <1>4, <1>5, <1>6, <1>7 DEF StackInv

-----------------------------------------------------------------------------
(* The functions of the parser on its stacks. *)

\* The parser's data, field by field.
Data(e, c, L, fn, parent, inc, err, m) ==
  [expr_stack |-> e, arg_count |-> c, stack |-> L, fn_arg |-> fn, class_parent |-> parent,
   include |-> inc, parser_error |-> err, made |-> m]

LEMMA DataIs ==
  \A e, c, L, fn, parent, inc, err, m, q :
    q = Data(e, c, L, fn, parent, inc, err, m) =>
      /\ q.expr_stack = e /\ q.arg_count = c /\ q.stack = L /\ q.fn_arg = fn
      /\ q.class_parent = parent /\ q.include = inc /\ q.parser_error = err /\ q.made = m
BY DEF Data

\* What the functions of the parser make of it.
LEMMA DataMade ==
  ASSUME NEW e, NEW c, NEW L, NEW fn, NEW parent, NEW inc, NEW err, NEW m, NEW q,
         q = Data(e, c, L, fn, parent, inc, err, m)
  PROVE  /\ LeaveList(q) = Data(e, c, Front(L), fn, parent, inc, err, m)
         /\ \A d : [q EXCEPT !.made = d] = Data(e, c, L, fn, parent, inc, err, d)
         /\ \A d : [q EXCEPT !.expr_stack = d] = Data(d, c, L, fn, parent, inc, err, m)
         /\ \A d : [q EXCEPT !.fn_arg = d] = Data(e, c, L, d, parent, inc, err, m)
         /\ \A i : PushExpr(q, i) = Data(Append(e, i), c, L, fn, parent, inc, err, m)
<1>1. PICK F : F = Front(L)
  OBVIOUS
<1>2. LeaveList(q) = [q EXCEPT !.stack = F]
  BY <1>1 DEF LeaveList, Data
<1>3. [q EXCEPT !.stack = F] = Data(e, c, F, fn, parent, inc, err, m)
  BY DEF Data
<1>4. ASSUME NEW d
      PROVE  /\ [q EXCEPT !.made = d] = Data(e, c, L, fn, parent, inc, err, d)
             /\ [q EXCEPT !.expr_stack = d] = Data(d, c, L, fn, parent, inc, err, m)
             /\ [q EXCEPT !.fn_arg = d] = Data(e, c, L, d, parent, inc, err, m)
  BY DEF Data
<1>5. ASSUME NEW i PROVE PushExpr(q, i) = Data(Append(e, i), c, L, fn, parent, inc, err, m)
  <2>1. PICK a : a = Append(e, i)
    OBVIOUS
  <2>2. PushExpr(q, i) = [q EXCEPT !.expr_stack = a]
    BY <2>1 DEF PushExpr, Data
  <2> QED BY <1>4, <2>1, <2>2
<1> QED BY <1>1, <1>2, <1>3, <1>4, <1>5

LEMMA DataTyped ==
  \A e, c, L, fn, parent, inc, err, m, q :
    /\ e \in Seq(Nat) /\ c \in Seq(Nat \ {0}) /\ L \in Seq(Seq(Nat)) /\ IsList(fn) /\ IsList(inc)
    /\ err \in Nat /\ m \in Nat /\ q = Data(e, c, L, fn, parent, inc, err, m)
    => IsParser(q)
BY DEF Data, IsParser

LEMMA ParserIsData ==
  ASSUME NEW q, IsParser(q)
  PROVE  q = Data(q.expr_stack, q.arg_count, q.stack, q.fn_arg, q.class_parent, q.include,
                  q.parser_error, q.made)
BY DEF Data, IsParser

\* The statement lists, with a statement added to the topmost one.
Pushed(L, i) == [L EXCEPT ![Len(L)] = Append(@, i)]

LEMMA PushedIs ==
  ASSUME NEW L \in Seq(Seq(Nat)), NEW i \in Nat
  PROVE  Pushed(L, i) \in Seq(Seq(Nat)) /\ Len(Pushed(L, i)) = Len(L)
<1>1. PICK S : S = Seq(Nat)
  OBVIOUS
<1>2. \A l \in S : Append(l, i) \in S
  BY <1>1, AppendProperties
<1>3. L \in Seq(S) /\ Len(L) \in Nat
  BY <1>1
<1>4. L \in [1..Len(L) -> S]
  BY <1>3
<1>5. PICK f : f = Pushed(L, i)
  OBVIOUS
<1>6. f \in [1..Len(L) -> S]
  <2>1. f = [k \in 1..Len(L) |-> IF k = Len(L) THEN Append(L[k], i) ELSE L[k]]
    BY <1>4, <1>5 DEF Pushed
  <2>2. \A k \in 1..Len(L) : L[k] \in S /\ Append(L[k], i) \in S
    BY <1>2, <1>4
  <2> QED BY <2>1, <2>2
<1>7. f \in Seq(S) /\ Len(f) = Len(L)
  <2>1. PICK n \in Nat : n = Len(L)
    BY <1>3
  <2>2. f \in [1..n -> S]
    BY <1>6, <2>1
  <2>3. f \in Seq(S) /\ Len(f) = n
    BY <2>2
  <2> QED BY <2>1, <2>3
<1> QED BY <1>1, <1>5, <1>7

LEMMA PushStmtIs ==
  ASSUME NEW e, NEW c, NEW L, NEW fn, NEW parent, NEW inc, NEW err, NEW m, NEW q, NEW i,
         q = Data(e, c, L, fn, parent, inc, err, m)
  PROVE  PushStmt(q, i) = Data(e, c, Pushed(L, i), fn, parent, inc, err, m)
<1>1. PICK F : F = Pushed(L, i)
  OBVIOUS
<1>2. q.stack = L
  BY DataIs
<1>3. PushStmt(q, i) = [q EXCEPT !.stack = [L EXCEPT ![Len(L)] = Append(@, i)]]
  BY <1>2 DEF PushStmt
<1>4. PushStmt(q, i) = [q EXCEPT !.stack = F]
  BY <1>1, <1>3, Zenon DEF Pushed
<1>5. [q EXCEPT !.stack = F] = Data(e, c, F, fn, parent, inc, err, m)
  BY DEF Data
<1> QED BY <1>1, <1>4, <1>5

\* A function that leaves the topmost list and puts a statement on the one below.
LEMMA LeaveAndPush ==
  ASSUME IsParser(p), NEW i
  PROVE  /\ PushStmt([LeaveList(p) EXCEPT !.expr_stack = Front(@), !.made = @ + 1], i)
              = Data(Front(p.expr_stack), p.arg_count, Pushed(Front(p.stack), i), p.fn_arg,
                     p.class_parent, p.include, p.parser_error, p.made + 1)
         /\ PushStmt([LeaveList(p) EXCEPT !.fn_arg = Front(@), !.made = @ + 1], i)
              = Data(p.expr_stack, p.arg_count, Pushed(Front(p.stack), i), Front(p.fn_arg),
                     p.class_parent, p.include, p.parser_error, p.made + 1)
         /\ PushExpr([LeaveList(p) EXCEPT !.fn_arg = Front(@), !.made = @ + 3], i)
              = Data(Append(p.expr_stack, i), p.arg_count, Front(p.stack), Front(p.fn_arg),
                     p.class_parent, p.include, p.parser_error, p.made + 3)
<1>1. PICK q : q = LeaveList(p)
  OBVIOUS
<1>2. PICK F : F = Front(p.stack)
  OBVIOUS
<1>3. q = Data(p.expr_stack, p.arg_count, F, p.fn_arg, p.class_parent, p.include, p.parser_error, p.made)
  BY <1>1, <1>2, ParserIsData, DataMade
<1>4. q.expr_stack = p.expr_stack /\ q.fn_arg = p.fn_arg /\ q.made = p.made
  BY <1>3, DataIs
<1>5. PICK e, fn, m, k : e = Front(p.expr_stack) /\ fn = Front(p.fn_arg) /\ m = p.made + 1 /\ k = p.made + 3
  OBVIOUS
<1>6. [q EXCEPT !.expr_stack = Front(@), !.made = @ + 1]
        = Data(e, p.arg_count, F, p.fn_arg, p.class_parent, p.include, p.parser_error, m)
  <2>1. PICK r : r = [q EXCEPT !.expr_stack = e]
    OBVIOUS
  <2>2. [q EXCEPT !.expr_stack = Front(@), !.made = @ + 1] = [r EXCEPT !.made = m]
    BY <1>3, <1>4, <1>5, <2>1
  <2>3. r = Data(e, p.arg_count, F, p.fn_arg, p.class_parent, p.include, p.parser_error, p.made)
    BY <1>3, <2>1, DataMade
  <2>4. [r EXCEPT !.made = m]
          = Data(e, p.arg_count, F, p.fn_arg, p.class_parent, p.include, p.parser_error, m)
    BY <2>3, DataMade
  <2> QED BY <2>2, <2>4
<1>7. [q EXCEPT !.fn_arg = Front(@), !.made = @ + 1]
        = Data(p.expr_stack, p.arg_count, F, fn, p.class_parent, p.include, p.parser_error, m)
  <2>1. PICK r : r = [q EXCEPT !.fn_arg = fn]
    OBVIOUS
  <2>2. [q EXCEPT !.fn_arg = Front(@), !.made = @ + 1] = [r EXCEPT !.made = m]
    BY <1>3, <1>4, <1>5, <2>1
  <2>3. r = Data(p.expr_stack, p.arg_count, F, fn, p.class_parent, p.include, p.parser_error, p.made)
    BY <1>3, <2>1, DataMade
  <2>4. [r EXCEPT !.made = m]
          = Data(p.expr_stack, p.arg_count, F, fn, p.class_parent, p.include, p.parser_error, m)
    BY <2>3, DataMade
  <2> QED BY <2>2, <2>4
<1>8. [q EXCEPT !.fn_arg = Front(@), !.made = @ + 3]
        = Data(p.expr_stack, p.arg_count, F, fn, p.class_parent, p.include, p.parser_error, k)
  <2>1. PICK r : r = [q EXCEPT !.fn_arg = fn]
    OBVIOUS
  <2>2. [q EXCEPT !.fn_arg = Front(@), !.made = @ + 3] = [r EXCEPT !.made = k]
    BY <1>3, <1>4, <1>5, <2>1
  <2>3. r = Data(p.expr_stack, p.arg_count, F, fn, p.class_parent, p.include, p.parser_error, p.made)
    BY <1>3, <2>1, DataMade
  <2>4. [r EXCEPT !.made = k]
          = Data(p.expr_stack, p.arg_count, F, fn, p.class_parent, p.include, p.parser_error, k)
    BY <2>3, DataMade
  <2> QED BY <2>2, <2>4
<1>9. PushStmt([q EXCEPT !.expr_stack = Front(@), !.made = @ + 1], i)
        = Data(e, p.arg_count, Pushed(F, i), p.fn_arg, p.class_parent, p.include, p.parser_error, m)
  BY <1>6, PushStmtIs
<1>10. PushStmt([q EXCEPT !.fn_arg = Front(@), !.made = @ + 1], i)
        = Data(p.expr_stack, p.arg_count, Pushed(F, i), fn, p.class_parent, p.include, p.parser_error, m)
  BY <1>7, PushStmtIs
<1>11. PushExpr([q EXCEPT !.fn_arg = Front(@), !.made = @ + 3], i)
        = Data(Append(p.expr_stack, i), p.arg_count, F, fn, p.class_parent, p.include, p.parser_error, k)
  BY <1>8, DataMade
<1> QED BY <1>1, <1>2, <1>5, <1>9, <1>10, <1>11

LEMMA Appended ==
  ASSUME NEW L \in Seq(Seq(Nat))
  PROVE  Append(L, <<>>) \in Seq(Seq(Nat)) /\ Len(Append(L, <<>>)) = Len(L) + 1
<1>1. <<>> \in Seq(Nat)
  OBVIOUS
<1> QED BY <1>1, AppendProperties

-----------------------------------------------------------------------------
(* The calls, one by one. *)

LEMMA SaneIs ==
  ASSUME NEW x, Sane(x)
  PROVE  /\ x.do = "expr" => ExprsSane(x.pops)
         /\ x.do = "next" => p.arg_count # <<>>
         /\ x.do = "keyarray_single" => p.expr_stack # <<>>
         /\ x.do \in {"op_assign", "op_assign_array"} => ExprsSane(Combines(x))
         /\ x.do = "stmt" => /\ StmtsSane(x.stmts) /\ ExprsSane(x.exprs)
                             /\ Len(p.stack) > (IF x.leave = "open" THEN 0 ELSE 1)
         /\ x.do = "end_if" => Len(p.stack) > 1 /\ p.expr_stack # <<>> /\ List # <<>>
         /\ x.do = "end_case" => Len(p.stack) > 1 /\ p.expr_stack # <<>>
         /\ x.do \in {"arg", "rettype"} => p.fn_arg # <<>>
         /\ x.do = "end_func" => p.fn_arg # <<>> /\ Len(p.stack) > 1 /\ List # <<>>
         /\ x.do = "end_lambda" => p.fn_arg # <<>> /\ p.stack # <<>>
BY DEF Sane

\* What is known when the parser calls a function.
LEMMA CallIs ==
  ASSUME StackInv, NEW act, Called(act)
  PROVE  /\ phase = "parse" /\ phase' = "parse" /\ goal # <<>> /\ goal' = Tail(goal)
         /\ Head(goal).do = act /\ IsSymbol(Head(goal)) /\ Sane(Head(goal))
         /\ IsParser(p) /\ copying = <<>> /\ freeing = <<>>
<1>1. /\ phase = "parse" /\ phase' = "parse" /\ goal # <<>> /\ goal' = Tail(goal)
      /\ Head(goal).do = act /\ Sane(Head(goal)) /\ copying = <<>> /\ freeing = <<>>
  BY DEF Called, At, Idle
<1>2. Types
  BY DEF StackInv
<1> QED BY <1>1, <1>2, TypesHold DEF Types

LEMMA CombinesIs ==
  ASSUME NEW x
  PROVE  /\ Combines(x) \in Pops
         /\ x.do = "op_assign_array" => /\ Combines(x) = <<"inner", "argv">> /\ Len(Combines(x)) = 2
                                        /\ HasArgv(Combines(x))
         /\ x.do # "op_assign_array" => /\ Combines(x) = <<"inner">> /\ Len(Combines(x)) = 1
                                        /\ ~HasArgv(Combines(x))
<1>1. CASE x.do = "op_assign_array"
  <2>1. PICK pops : pops = <<"inner", "argv">>
    OBVIOUS
  <2>2. pops \in Pops /\ Len(pops) = 2 /\ DOMAIN pops = 1..2
    BY <2>1 DEF Pops, Orders, IsInjective
  <2>3. HasArgv(pops)
    BY <2>1, <2>2 DEF HasArgv, Range
  <2> QED BY <1>1, <2>1, <2>2, <2>3 DEF Combines
<1>2. CASE x.do # "op_assign_array"
  <2>1. PICK pops : pops = <<"inner">>
    OBVIOUS
  <2>2. pops \in Pops /\ Len(pops) = 1 /\ DOMAIN pops = 1..1
    BY <2>1 DEF Pops, Orders, IsInjective
  <2>3. ~HasArgv(pops)
    BY <2>1, <2>2 DEF HasArgv, Range
  <2> QED BY <1>2, <2>1, <2>2, <2>3 DEF Combines
<1> QED BY <1>1, <1>2

\* A call keeps the invariant when its symbol says how it changes the stacks.
Changes(x, e, c, L, fn) ==
  /\ e \in Seq(Nat) /\ c \in Seq(Nat \ {0}) /\ L \in Seq(Seq(Nat)) /\ IsList(fn)
  /\ Loose(e, c) = Loose(p.expr_stack, p.arg_count) + Weight("exprs", x)
  /\ Len(c) = Len(p.arg_count) + Weight("counts", x)
  /\ Len(L) = Len(p.stack) + Weight("lists", x)
  /\ Len(fn) = Len(p.fn_arg) + Weight("defs", x)
  /\ Weight("files", x) = 0

LEMMA CallKeeps ==
  ASSUME NEW act, NEW e, NEW c, NEW L, NEW fn, NEW parent, NEW err, NEW m,
         StackInv, Called(act), Changes(Head(goal), e, c, L, fn), err \in Nat, m \in Nat,
         p' = Data(e, c, L, fn, parent, p.include, err, m), s' = s
  PROVE  StackInv'
<1>1. phase = "parse" /\ phase' = "parse" /\ goal # <<>> /\ goal' = Tail(goal)
  BY CallIs
<1>2. IsParser(p) /\ IsList(p.include)
  BY DEF StackInv, Types, IsParser
<1>3. IsParser(p')
  BY <1>2, DataTyped DEF Changes
<1>4. /\ p'.expr_stack = e /\ p'.arg_count = c /\ p'.stack = L /\ p'.fn_arg = fn
      /\ p'.include = p.include
  BY DataIs
<1>5. Follows(p', Head(goal))
  BY <1>3, <1>4 DEF Follows, Changes
<1>6. Weight("files", Head(goal)) = 0
  BY DEF Changes
<1> QED BY <1>1, <1>4, <1>5, <1>6, CallFollows

LEMMA EndExprKeeps ==
  ASSUME StackInv, EndExpr
  PROVE  StackInv'
<1> DEFINE x == Head(goal)
           pops == x.pops
           e == Append(ExprsLeft(pops), Id(1))
           c == CountsLeft(pops)
<1>1. /\ Called("expr") /\ s' = s
      /\ p' = PushExpr([p EXCEPT !.expr_stack = ExprsLeft(pops), !.arg_count = c, !.made = @ + 1], Id(1))
  BY DEF EndExpr
<1>2. x.do = "expr" /\ IsSymbol(x) /\ Sane(x) /\ IsParser(p)
  BY <1>1, CallIs
<1>3. pops \in Pops /\ ExprsSane(pops) /\ Len(pops) \in Nat
  BY <1>2, SaneIs, OrderIs DEF IsSymbol, Pops
<1>4. /\ ExprsLeft(pops) \in Seq(Nat) /\ c \in Seq(Nat \ {0})
      /\ Loose(ExprsLeft(pops), c)
           = Loose(p.expr_stack, p.arg_count) - Len(pops) + (IF HasArgv(pops) THEN 1 ELSE 0)
      /\ Len(c) = Len(p.arg_count) - (IF HasArgv(pops) THEN 1 ELSE 0)
  BY <1>2, <1>3, PopsLeave DEF Pops
<1>5. e \in Seq(Nat) /\ Loose(e, c) = Loose(ExprsLeft(pops), c) + 1
  <2>1. Id(1) \in Nat
    BY <1>2 DEF Id, IsParser
  <2> QED BY <1>4, <2>1, LooseMore
<1>6. p' = Data(e, c, p.stack, p.fn_arg, p.class_parent, p.include, p.parser_error, p.made + 1)
  BY <1>1, <1>2 DEF PushExpr, IsParser, Data
<1>7. /\ Weight("exprs", x) = IF HasArgv(pops) THEN 2 - Len(pops) ELSE 1 - Len(pops)
      /\ Weight("counts", x) = IF HasArgv(pops) THEN -1 ELSE 0
      /\ Weight("lists", x) = 0 /\ Weight("defs", x) = 0 /\ Weight("files", x) = 0
  BY <1>2 DEF Weight
<1> HIDE DEF x, pops, e, c
<1>8. /\ p.stack \in Seq(Seq(Nat)) /\ IsList(p.fn_arg) /\ p.parser_error \in Nat /\ p.made + 1 \in Nat
      /\ Len(p.stack) \in Nat /\ Len(p.fn_arg) \in Nat /\ Len(p.arg_count) \in Nat
      /\ Loose(p.expr_stack, p.arg_count) \in Int
  BY TypesHold DEF StackInv
<1>9. Loose(e, c) = Loose(p.expr_stack, p.arg_count) + Weight("exprs", x)
  BY <1>3, <1>4, <1>5, <1>7, <1>8
<1>10. Len(c) = Len(p.arg_count) + Weight("counts", x)
  <2>1. CASE HasArgv(pops)
    BY <1>4, <1>7, <1>8, <2>1
  <2>2. CASE ~HasArgv(pops)
    BY <1>4, <1>7, <1>8, <2>2
  <2> QED BY <2>1, <2>2
<1>11. Len(p.stack) = Len(p.stack) + Weight("lists", x) /\ Len(p.fn_arg) = Len(p.fn_arg) + Weight("defs", x)
  BY <1>7, <1>8
<1>12. Changes(x, e, c, p.stack, p.fn_arg)
  BY <1>4, <1>5, <1>7, <1>8, <1>9, <1>10, <1>11, Zenon DEF Changes
<1> QED BY <1>1, <1>6, <1>8, <1>12, CallKeeps DEF x

LEMMA EndFirstKeeps ==
  ASSUME StackInv, EndFirst \/ EndNext
  PROVE  StackInv'
<1> DEFINE x == Head(goal)
           c == IF EndFirst THEN Append(p.arg_count, 1) ELSE [p.arg_count EXCEPT ![Len(p.arg_count)] = @ + 1]
<1>1. PICK act \in {"first", "next"} : Called(act) /\ s' = s /\ (EndFirst <=> act = "first")
  BY CallIs DEF EndFirst, EndNext
<1>2. x.do = act /\ Sane(x) /\ IsParser(p)
  BY <1>1, CallIs
<1>3. /\ p.expr_stack \in Seq(Nat) /\ p.arg_count \in Seq(Nat \ {0})
      /\ p.stack \in Seq(Seq(Nat)) /\ IsList(p.fn_arg) /\ p.parser_error \in Nat /\ p.made \in Nat
      /\ Len(p.stack) \in Nat /\ Len(p.fn_arg) \in Nat /\ Len(p.arg_count) \in Nat
      /\ Loose(p.expr_stack, p.arg_count) \in Int
  BY TypesHold DEF StackInv
<1>4. p' = Data(p.expr_stack, c, p.stack, p.fn_arg, p.class_parent, p.include, p.parser_error, p.made)
  BY <1>2 DEF EndFirst, EndNext, IsParser, Data
<1>5. /\ c \in Seq(Nat \ {0}) /\ Len(c) = Len(p.arg_count) + (IF act = "first" THEN 1 ELSE 0)
      /\ SumOf(c) = SumOf(p.arg_count) + 1
  <2>1. CASE act = "first"
    <3>1. 1 \in Nat \ {0} /\ 1 \in Int /\ p.arg_count \in Seq(Int)
      BY <1>3
    <3>2. SumOf(Append(p.arg_count, 1)) = SumOf(p.arg_count) + 1
      BY <3>1, SumOfAppend
    <3> QED BY <1>1, <1>3, <2>1, <3>1, <3>2, AppendProperties
  <2>2. CASE act = "next"
    <3>1. p.arg_count # <<>>
      BY <1>2, <2>2, SaneIs
    <3>2. c = [p.arg_count EXCEPT ![Len(p.arg_count)] = @ + 1]
      BY <1>1, <2>2
    <3>3. c \in Seq(Nat \ {0}) /\ Len(c) = Len(p.arg_count) /\ SumOf(c) = SumOf(p.arg_count) + 1
      BY <1>3, <3>1, <3>2, SumRaised, Zenon
    <3> QED BY <1>3, <2>2, <3>3
  <2> QED BY <2>1, <2>2
<1> HIDE DEF c, x
<1>6. Loose(p.expr_stack, c) = Loose(p.expr_stack, p.arg_count) - 1
  BY <1>3, <1>5, LooseLess
<1>7. /\ Weight("exprs", x) = -1 /\ Weight("counts", x) = IF act = "first" THEN 1 ELSE 0
      /\ Weight("lists", x) = 0 /\ Weight("defs", x) = 0 /\ Weight("files", x) = 0
  BY <1>1, <1>2 DEF Weight
<1>8. /\ Loose(p.expr_stack, c) = Loose(p.expr_stack, p.arg_count) + Weight("exprs", x)
      /\ Len(c) = Len(p.arg_count) + Weight("counts", x)
      /\ Len(p.stack) = Len(p.stack) + Weight("lists", x)
      /\ Len(p.fn_arg) = Len(p.fn_arg) + Weight("defs", x)
  <2>1. Len(c) = Len(p.arg_count) + Weight("counts", x)
    <3>1. Len(c) = Len(p.arg_count) + (IF act = "first" THEN 1 ELSE 0)
      BY <1>5
    <3>2. Weight("counts", x) = IF act = "first" THEN 1 ELSE 0
      BY <1>7
    <3> QED BY <3>1, <3>2
  <2>2. /\ Loose(p.expr_stack, p.arg_count) \in Int /\ Len(p.stack) \in Nat /\ Len(p.fn_arg) \in Nat
        /\ Weight("exprs", x) = -1 /\ Weight("lists", x) = 0 /\ Weight("defs", x) = 0
    BY <1>3, <1>7
  <2> QED BY <1>6, <2>1, <2>2
<1>9. Changes(x, p.expr_stack, c, p.stack, p.fn_arg)
  BY <1>3, <1>5, <1>7, <1>8, Zenon DEF Changes
<1> QED BY <1>1, <1>3, <1>4, <1>9, CallKeeps DEF x

LEMMA DefinitionChanges ==
  ASSUME NEW act \in {"rettype", "arg"}, NEW r, StackInv, Called(act), s' = s,
         p' = [p EXCEPT !.fn_arg = [p.fn_arg EXCEPT ![Len(p.fn_arg)] = r]]
  PROVE  StackInv'
<1> DEFINE x == Head(goal)
<1>1. /\ p.expr_stack \in Seq(Nat) /\ p.arg_count \in Seq(Nat \ {0})
      /\ p.stack \in Seq(Seq(Nat)) /\ IsList(p.fn_arg) /\ p.parser_error \in Nat /\ p.made \in Nat
      /\ Len(p.stack) \in Nat /\ Len(p.fn_arg) \in Nat /\ Len(p.arg_count) \in Nat
      /\ Loose(p.expr_stack, p.arg_count) \in Int
  BY TypesHold DEF StackInv
<1>2. IsParser(p)
  BY DEF StackInv, Types
<1>3. PICK fn : fn = [p.fn_arg EXCEPT ![Len(p.fn_arg)] = r]
  OBVIOUS
<1>4. p' = Data(p.expr_stack, p.arg_count, p.stack, fn, p.class_parent, p.include, p.parser_error, p.made)
  BY <1>2, <1>3 DEF IsParser, Data
<1>5. /\ Weight("exprs", x) = 0 /\ Weight("counts", x) = 0 /\ Weight("lists", x) = 0
      /\ Weight("defs", x) = 0 /\ Weight("files", x) = 0
  BY CallIs DEF Weight
<1>6. IsList(fn) /\ Len(fn) = Len(p.fn_arg)
  BY <1>1, <1>3, ListReplaced
<1>7. Changes(x, p.expr_stack, p.arg_count, p.stack, fn)
  BY <1>1, <1>5, <1>6 DEF Changes
<1> QED BY <1>1, <1>4, <1>7, CallKeeps

LEMMA NoteKeeps ==
  ASSUME NEW act \in {"extends", "include"}, NEW parent, NEW err \in Nat, StackInv, Called(act), s' = s,
         p' = [p EXCEPT !.class_parent = parent, !.parser_error = err]
  PROVE  StackInv'
<1> DEFINE x == Head(goal)
<1>1. /\ p.expr_stack \in Seq(Nat) /\ p.arg_count \in Seq(Nat \ {0})
      /\ p.stack \in Seq(Seq(Nat)) /\ IsList(p.fn_arg) /\ p.made \in Nat
      /\ Len(p.stack) \in Nat /\ Len(p.fn_arg) \in Nat /\ Len(p.arg_count) \in Nat
      /\ Loose(p.expr_stack, p.arg_count) \in Int
  BY TypesHold DEF StackInv
<1>2. IsParser(p)
  BY DEF StackInv, Types
<1>3. p' = Data(p.expr_stack, p.arg_count, p.stack, p.fn_arg, parent, p.include, err, p.made)
  BY <1>2 DEF IsParser, Data
<1>4. /\ Weight("exprs", x) = 0 /\ Weight("counts", x) = 0 /\ Weight("lists", x) = 0
      /\ Weight("defs", x) = 0 /\ Weight("files", x) = 0
  BY CallIs DEF Weight
<1>5. Changes(x, p.expr_stack, p.arg_count, p.stack, p.fn_arg)
  BY <1>1, <1>4 DEF Changes
<1> QED BY <1>1, <1>3, <1>5, CallKeeps

LEMMA DefinitionKeeps ==
  ASSUME StackInv, BeginFunc \/ Enter \/ EndRettype \/ EndArg \/ EndExtends \/ IncludeFails
  PROVE  StackInv'
<1> DEFINE x == Head(goal)
           D(L, fn, parent, err) == Data(p.expr_stack, p.arg_count, L, fn, parent, p.include, err, p.made)
<1>1. /\ p.expr_stack \in Seq(Nat) /\ p.arg_count \in Seq(Nat \ {0})
      /\ p.stack \in Seq(Seq(Nat)) /\ IsList(p.fn_arg) /\ p.parser_error \in Nat /\ p.made \in Nat
      /\ Len(p.stack) \in Nat /\ Len(p.fn_arg) \in Nat /\ Len(p.arg_count) \in Nat
      /\ Loose(p.expr_stack, p.arg_count) \in Int
  BY TypesHold DEF StackInv
<1>2. IsParser(p)
  BY DEF StackInv, Types
<1>3. CASE BeginFunc
  <2>1. PICK r : r = [args |-> <<>>, rettype |-> "?"]
    OBVIOUS
  <2>2. /\ Called("begin_func") /\ s' = s
        /\ p' = [p EXCEPT !.fn_arg = Append(@, r), !.stack = Append(@, <<>>)]
    BY <1>3, <2>1 DEF BeginFunc
  <2>3. p' = D(Append(p.stack, <<>>), Append(p.fn_arg, r), p.class_parent, p.parser_error)
    BY <1>2, <2>2 DEF IsParser, Data
  <2>4. x.do = "begin_func"
    BY <2>2, CallIs
  <2>5. /\ Weight("exprs", x) = 0 /\ Weight("counts", x) = 0 /\ Weight("lists", x) = 1
        /\ Weight("defs", x) = 1 /\ Weight("files", x) = 0
    BY <2>4 DEF Weight
  <2>6. Append(p.stack, <<>>) \in Seq(Seq(Nat)) /\ Len(Append(p.stack, <<>>)) = Len(p.stack) + 1
    BY <1>1, Appended
  <2>7. IsList(Append(p.fn_arg, r)) /\ Len(Append(p.fn_arg, r)) = Len(p.fn_arg) + 1
    BY <1>1, ListProperties
  <2>8. Changes(x, p.expr_stack, p.arg_count, Append(p.stack, <<>>), Append(p.fn_arg, r))
    BY <1>1, <2>5, <2>6, <2>7 DEF Changes
  <2> QED BY <1>1, <2>2, <2>3, <2>8, CallKeeps
<1>4. CASE Enter
  <2>1. Called("enter") /\ s' = s /\ p' = [p EXCEPT !.stack = Append(@, <<>>)]
    BY <1>4 DEF Enter
  <2>2. p' = D(Append(p.stack, <<>>), p.fn_arg, p.class_parent, p.parser_error)
    BY <1>2, <2>1 DEF IsParser, Data
  <2>3. x.do = "enter"
    BY <2>1, CallIs
  <2>4. /\ Weight("exprs", x) = 0 /\ Weight("counts", x) = 0 /\ Weight("lists", x) = 1
        /\ Weight("defs", x) = 0 /\ Weight("files", x) = 0
    BY <2>3 DEF Weight
  <2>5. Append(p.stack, <<>>) \in Seq(Seq(Nat)) /\ Len(Append(p.stack, <<>>)) = Len(p.stack) + 1
    BY <1>1, Appended
  <2>6. Changes(x, p.expr_stack, p.arg_count, Append(p.stack, <<>>), p.fn_arg)
    BY <1>1, <2>4, <2>5 DEF Changes
  <2> QED BY <1>1, <2>1, <2>2, <2>6, CallKeeps
<1>5. CASE EndRettype
  <2>1. PICK r : r = [p.fn_arg[Len(p.fn_arg)] EXCEPT !.rettype = x.type]
    OBVIOUS
  <2>2. Called("rettype") /\ s' = s /\ p' = [p EXCEPT !.fn_arg = [p.fn_arg EXCEPT ![Len(p.fn_arg)] = r]]
    BY <1>5, <2>1 DEF EndRettype
  <2> QED BY <2>2, DefinitionChanges
<1>6. CASE EndArg
  <2>1. PICK a : a = [type |-> x.type, name |-> x.name]
    OBVIOUS
  <2>2. PICK r : r = [p.fn_arg[Len(p.fn_arg)] EXCEPT !.args = Append(p.fn_arg[Len(p.fn_arg)].args, a)]
    OBVIOUS
  <2>3. Called("arg") /\ s' = s /\ p' = [p EXCEPT !.fn_arg[Len(p.fn_arg)].args = Append(@, a)]
    BY <1>6, <2>1, Zenon DEF EndArg
  <2>4. p' = [p EXCEPT !.fn_arg = [p.fn_arg EXCEPT ![Len(p.fn_arg)] = r]]
    BY <1>2, <2>2, <2>3
  <2> QED BY <2>3, <2>4, DefinitionChanges
<1>7. CASE EndExtends
  <2>1. Called("extends") /\ s' = s /\ p' = [p EXCEPT !.class_parent = x.name]
    BY <1>7 DEF EndExtends
  <2>2. p' = [p EXCEPT !.class_parent = x.name, !.parser_error = p.parser_error]
    BY <1>2, <2>1 DEF IsParser
  <2> QED BY <1>1, <2>1, <2>2, NoteKeeps
<1>8. CASE IncludeFails
  <2>1. Called("include") /\ s' = s /\ p' = [p EXCEPT !.parser_error = @ + 1]
    BY <1>8 DEF IncludeFails
  <2>2. p' = [p EXCEPT !.class_parent = p.class_parent, !.parser_error = p.parser_error + 1]
    BY <1>2, <2>1 DEF IsParser
  <2>3. p.parser_error + 1 \in Nat
    BY <1>1
  <2> QED BY <2>1, <2>2, <2>3, NoteKeeps
<1> QED BY <1>3, <1>4, <1>5, <1>6, <1>7, <1>8

\* The expressions a field takes: those between what was popped before it and
\* what was popped after it.
LEMMA PopExprIs ==
  ASSUME NEW F, NEW pops \in Orders(F), IsParser(p), ExprsSane(pops), NEW k \in 1..Len(pops)
  PROVE  /\ PopExpr(pops, pops[k]) = SubSeq(p.expr_stack, Len(p.expr_stack) - Popped(pops, k + 1) + 1,
                                                          Len(p.expr_stack) - Popped(pops, k))
         /\ PopExpr(pops, pops[k]) \in Seq(Nat)
         /\ Len(PopExpr(pops, pops[k])) = Popped(pops, k + 1) - Popped(pops, k)
<1> DEFINE n == Last(p.arg_count)
           w == IF pops[k] = "argv" THEN n ELSE 1
<1>1. /\ Len(pops) \in Nat /\ DOMAIN pops = 1..Len(pops)
      /\ \A i, j \in 1..Len(pops) : pops[i] = pops[j] => i = j
  BY OrderIs
<1>2. (CHOOSE j \in DOMAIN pops : pops[j] = pops[k]) = k
  BY <1>1
<1>3. p.arg_count \in Seq(Nat \ {0}) /\ p.expr_stack \in Seq(Nat) /\ Len(p.expr_stack) \in Nat
  BY DEF IsParser
<1>4. k \in 1..(Len(pops) + 1) /\ k + 1 \in 1..(Len(pops) + 1) /\ Len(pops) + 1 \in 1..(Len(pops) + 1)
      /\ k <= k + 1 /\ k + 1 <= Len(pops) + 1
  BY <1>1
<1>5. /\ Popped(pops, k) \in Nat /\ Popped(pops, k + 1) \in Nat
      /\ Popped(pops, k + 1) = Popped(pops, k) + w
      /\ Popped(pops, k) <= Popped(pops, k + 1) /\ Popped(pops, k + 1) <= Depth(pops)
  BY <1>3, <1>4, PoppedGrows
<1>6. Depth(pops) <= Len(p.expr_stack)
  BY DEF ExprsSane
<1> DEFINE l == Len(p.expr_stack)
<1>7. PopExpr(pops, pops[k]) = SubSeq(p.expr_stack, l - Popped(pops, k) - w + 1, l - Popped(pops, k))
  BY <1>2 DEF PopExpr
<1>8. PICK d \in Nat : d = Depth(pops) /\ d <= l /\ Popped(pops, k + 1) <= d
  <2>1. Depth(pops) \in Nat
    BY <1>3, <1>4, PoppedGrows
  <2> QED BY <1>5, <1>6, <2>1
<1>9. PICK a \in Nat, b \in Nat : a = Popped(pops, k) /\ b = Popped(pops, k + 1)
  BY <1>5
<1>10. w = b - a /\ a <= b /\ b <= l /\ l \in Nat
  <2>1. b = a + w /\ a <= b /\ b <= l /\ l \in Nat
    BY <1>3, <1>5, <1>8, <1>9
  <2>2. w \in Int
    <3>1. CASE pops[k] = "argv"
      <4>1. HasArgv(pops) /\ p.arg_count # <<>>
        BY <3>1, OrderIs DEF ExprsSane
      <4>2. n \in Nat \ {0}
        BY <1>3, <4>1, FrontOf
      <4> QED BY <3>1, <4>2
    <3>2. CASE pops[k] # "argv"
      BY <3>2
    <3> QED BY <3>1, <3>2
  <2> HIDE DEF w
  <2> QED BY <2>1, <2>2
<1> HIDE DEF w, l
<1>11. l - Popped(pops, k) - w + 1 = l - b + 1
  BY <1>9, <1>10
<1>12. PopExpr(pops, pops[k]) = SubSeq(p.expr_stack, l - b + 1, l - a)
  BY <1>7, <1>9, <1>11
<1>13. PICK c \in 1..(l + 1), e \in 0..l : c = l - b + 1 /\ e = l - a /\ e = c + b - a - 1
  <2>1. a <= b /\ b <= l /\ l \in Nat
    BY <1>10
  <2>2. PICK c \in 1..(l + 1) : c = l - b + 1
    BY <2>1
  <2>3. PICK e \in 0..l : e = l - a
    BY <2>1
  <2>4. e = c + b - a - 1
    BY <2>1, <2>2, <2>3
  <2> QED BY <2>2, <2>3, <2>4
<1>14. /\ SubSeq(p.expr_stack, c, e) \in Seq(Nat)
       /\ Len(SubSeq(p.expr_stack, c, e)) = b - a
  <2>1. c \in Int /\ e \in Int /\ \A i \in c..e : p.expr_stack[i] \in Nat
    <3>1. \A i \in 1..l : p.expr_stack[i] \in Nat
      BY <1>3 DEF l
    <3> QED BY <1>10, <1>13, <3>1
  <2>2. SubSeq(p.expr_stack, c, e) \in Seq(Nat)
    BY <2>1, SubSeqProperties
  <2>3. Len(SubSeq(p.expr_stack, c, e)) = IF c <= e THEN e - c + 1 ELSE 0
    BY <2>1, SubSeqProperties
  <2>4. e = c + b - a - 1 /\ a <= b /\ c \in Int /\ e \in Int
    BY <1>10, <1>13, <2>1
  <2>5. (IF c <= e THEN e - c + 1 ELSE 0) = b - a
    BY <2>4
  <2> QED BY <2>2, <2>3, <2>5
<1> QED BY <1>9, <1>12, <1>13, <1>14 DEF l

\* A node on the stack of expressions, for those that were popped.
LEMMA NodeKeeps ==
  ASSUME NEW act, NEW pops, NEW e, NEW i \in Nat, NEW m \in Nat,
         StackInv, Called(act), pops \in Pops, ExprsSane(pops),
         e = Append(ExprsLeft(pops), i),
         p' = Data(e, CountsLeft(pops), p.stack, p.fn_arg, p.class_parent, p.include,
                   p.parser_error, m),
         s' = s,
         Weight("exprs", Head(goal)) = IF HasArgv(pops) THEN 2 - Len(pops) ELSE 1 - Len(pops),
         Weight("counts", Head(goal)) = IF HasArgv(pops) THEN -1 ELSE 0,
         Weight("lists", Head(goal)) = 0, Weight("defs", Head(goal)) = 0,
         Weight("files", Head(goal)) = 0
  PROVE  StackInv'
<1> DEFINE x == Head(goal)
           c == CountsLeft(pops)
<1>2. IsParser(p)
  BY CallIs
<1>3. Len(pops) \in Nat
  BY OrderIs DEF Pops
<1>4. /\ ExprsLeft(pops) \in Seq(Nat) /\ c \in Seq(Nat \ {0})
      /\ Loose(ExprsLeft(pops), c)
           = Loose(p.expr_stack, p.arg_count) - Len(pops) + (IF HasArgv(pops) THEN 1 ELSE 0)
      /\ Len(c) = Len(p.arg_count) - (IF HasArgv(pops) THEN 1 ELSE 0)
  BY <1>2, PopsLeave DEF Pops
<1>5. e \in Seq(Nat) /\ Loose(e, c) = Loose(ExprsLeft(pops), c) + 1
  BY <1>4, LooseMore
<1> HIDE DEF x, c
<1>7. /\ Weight("exprs", x) = IF HasArgv(pops) THEN 2 - Len(pops) ELSE 1 - Len(pops)
      /\ Weight("counts", x) = IF HasArgv(pops) THEN -1 ELSE 0
      /\ Weight("lists", x) = 0 /\ Weight("defs", x) = 0 /\ Weight("files", x) = 0
  BY DEF x
<1>8. /\ p.stack \in Seq(Seq(Nat)) /\ IsList(p.fn_arg) /\ p.parser_error \in Nat
      /\ Len(p.stack) \in Nat /\ Len(p.fn_arg) \in Nat /\ Len(p.arg_count) \in Nat
      /\ Loose(p.expr_stack, p.arg_count) \in Int
  BY TypesHold DEF StackInv
<1>9. Loose(e, c) = Loose(p.expr_stack, p.arg_count) + Weight("exprs", x)
  BY <1>3, <1>4, <1>5, <1>7, <1>8
<1>10. Len(c) = Len(p.arg_count) + Weight("counts", x)
  <2>1. CASE HasArgv(pops)
    BY <1>4, <1>7, <1>8, <2>1
  <2>2. CASE ~HasArgv(pops)
    BY <1>4, <1>7, <1>8, <2>2
  <2> QED BY <2>1, <2>2
<1>11. Len(p.stack) = Len(p.stack) + Weight("lists", x) /\ Len(p.fn_arg) = Len(p.fn_arg) + Weight("defs", x)
  BY <1>7, <1>8
<1>12. Changes(x, e, c, p.stack, p.fn_arg)
  BY <1>4, <1>5, <1>7, <1>8, <1>9, <1>10, <1>11, Zenon DEF Changes
<1> QED BY <1>8, <1>12, CallKeeps DEF x, c

LEMMA CombinedIs ==
  ASSUME NEW x, IsParser(p), ExprsSane(Combines(x))
  PROVE  Arguments(x) \in Seq(Nat) /\ Len(Combined(x)) = 3 + Len(Arguments(x))
<1>1. Arguments(x) \in Seq(Nat)
  <2>1. CASE x.do = "op_assign_array"
    <3>1. PICK pops \in Pops : pops = Combines(x) /\ Len(pops) = 2 /\ pops[2] = "argv"
      BY <2>1, CombinesIs
    <3>2. 2 \in 1..Len(pops) /\ ExprsSane(pops)
      BY <3>1
    <3>3. PopExpr(pops, pops[2]) \in Seq(Nat)
      BY <3>2, PopExprIs DEF Pops
    <3> QED BY <2>1, <3>1, <3>3 DEF Arguments
  <2>2. CASE x.do # "op_assign_array"
    <3>1. Arguments(x) = <<>>
      BY <2>2 DEF Arguments
    <3> QED BY <3>1
  <2> QED BY <2>1, <2>2
<1>2. PICK as \in Seq(Nat) : as = Arguments(x)
  BY <1>1
<1> DEFINE t == [j \in DOMAIN as |-> heap[as[j]]]
<1>3. PICK a, b, c : Combined(x) = <<a, b, c>> \o t
  BY <1>2 DEF Combined
<1>4. PICK S : S = Range(t) \cup {a, b, c}
  OBVIOUS
<1>5. t \in Seq(S) /\ Len(t) = Len(as)
  <2>1. DOMAIN as = 1..Len(as) /\ Len(as) \in Nat
    BY <1>2
  <2>2. DOMAIN t = 1..Len(as)
    BY <2>1
  <2>3. \A j \in DOMAIN t : t[j] \in Range(t)
    BY Zenon DEF Range
  <2>4. PICK n \in Nat : n = Len(as)
    BY <2>1
  <2>5. PICK f : f = t
    OBVIOUS
  <2>6. DOMAIN f = 1..n /\ \A j \in 1..n : f[j] \in S
    BY <1>4, <2>2, <2>3, <2>4, <2>5, Zenon
  <2>7. f = [j \in 1..n |-> f[j]]
    BY <2>2, <2>4, <2>5
  <2>8. f \in Seq(S) /\ Len(f) = n
    BY <2>6, <2>7
  <2> QED BY <2>4, <2>5, <2>8
<1>6. PICK h \in Seq(S) : h = <<a, b, c>> /\ Len(h) = 3
  <2>1. a \in S /\ b \in S /\ c \in S
    BY <1>4
  <2>2. PICK h : h = <<a, b, c>>
    OBVIOUS
  <2>3. h \in Seq(S) /\ Len(h) = 3
    BY <2>1, <2>2
  <2> QED BY <2>2, <2>3
<1> HIDE DEF t
<1>7. Len(h \o t) = Len(h) + Len(t)
  BY <1>5, <1>6, ConcatProperties
<1> QED BY <1>1, <1>2, <1>3, <1>5, <1>6, <1>7

LEMMA EndOpAssignKeeps ==
  ASSUME StackInv, EndOpAssign
  PROVE  StackInv'
<1> DEFINE x == Head(goal)
           pops == Combines(x)
<1>1. PICK act \in {"op_assign", "op_assign_array"} : Called(act)
  BY DEF EndOpAssign
<1>2. x.do = act /\ Sane(x) /\ IsParser(p)
  BY <1>1, CallIs
<1>3. ExprsSane(pops) /\ pops \in Pops
  BY <1>1, <1>2, SaneIs, CombinesIs
<1>4. PICK i \in Nat, m \in Nat :
         /\ p' = Data(Append(ExprsLeft(pops), i), CountsLeft(pops), p.stack, p.fn_arg, p.class_parent, p.include, p.parser_error, m)
         /\ s' = s
  <2>1. p.made \in Nat
    BY <1>2 DEF IsParser
  <2>2. PICK n \in Nat : n = Len(Combined(x))
    <3>1. Arguments(x) \in Seq(Nat) /\ Len(Combined(x)) = 3 + Len(Arguments(x))
      BY <1>2, <1>3, CombinedIs
    <3> QED BY <3>1
  <2>3. PICK i \in Nat : i = Id(3)
    BY <2>1 DEF Id
  <2>4. PICK m \in Nat : m = p.made + n
    BY <2>1
  <2>6. p' = PushExpr([p EXCEPT !.expr_stack = ExprsLeft(pops), !.arg_count = CountsLeft(pops),
                                !.made = @ + n], i) /\ s' = s
    BY <2>2, <2>3 DEF EndOpAssign
  <2>7. p' = Data(Append(ExprsLeft(pops), i), CountsLeft(pops), p.stack, p.fn_arg, p.class_parent,
                  p.include, p.parser_error, m)
    BY <1>2, <2>4, <2>6 DEF PushExpr, IsParser, Data
  <2> QED BY <2>3, <2>4, <2>6, <2>7, Zenon
<1>5. /\ Weight("exprs", x) = IF HasArgv(pops) THEN 2 - Len(pops) ELSE 1 - Len(pops)
      /\ Weight("counts", x) = IF HasArgv(pops) THEN -1 ELSE 0
      /\ Weight("lists", x) = 0 /\ Weight("defs", x) = 0 /\ Weight("files", x) = 0
  <2>1. /\ x.do = "op_assign_array" => Len(pops) = 2 /\ HasArgv(pops)
        /\ x.do # "op_assign_array" => Len(pops) = 1 /\ ~HasArgv(pops)
    BY CombinesIs
  <2> HIDE DEF pops, x
  <2>2. CASE x.do = "op_assign"
    BY <2>1, <2>2 DEF Weight
  <2>3. CASE x.do = "op_assign_array"
    BY <2>1, <2>3 DEF Weight
  <2> QED BY <1>1, <1>2, <2>2, <2>3 DEF x
<1> HIDE DEF pops
<1> QED BY <1>1, <1>3, <1>4, <1>5, NodeKeeps

LEMMA EndKeyarraySingleKeeps ==
  ASSUME StackInv, EndKeyarraySingle
  PROVE  StackInv'
<1> DEFINE x == Head(goal)
<1>1. /\ Called("keyarray_single") /\ s' = s
      /\ p' = [p EXCEPT !.expr_stack = Front(@) \o <<Id(1), Last(@)>>, !.made = @ + 1]
  BY DEF EndKeyarraySingle
<1>2. x.do = "keyarray_single" /\ Sane(x) /\ IsParser(p) /\ p.expr_stack # <<>>
  BY <1>1, CallIs, SaneIs
<1>3. /\ p.expr_stack \in Seq(Nat) /\ p.arg_count \in Seq(Nat \ {0})
      /\ p.stack \in Seq(Seq(Nat)) /\ IsList(p.fn_arg) /\ p.parser_error \in Nat /\ p.made \in Nat
      /\ Len(p.stack) \in Nat /\ Len(p.fn_arg) \in Nat /\ Len(p.arg_count) \in Nat
      /\ Loose(p.expr_stack, p.arg_count) \in Int
  BY TypesHold DEF StackInv
<1>4. PICK e \in Seq(Nat) : e = Front(p.expr_stack) \o <<Id(1), Last(p.expr_stack)>>
                            /\ Len(e) = Len(p.expr_stack) + 1
  <2>1. Front(p.expr_stack) \in Seq(Nat) /\ Len(Front(p.expr_stack)) = Len(p.expr_stack) - 1
        /\ Last(p.expr_stack) \in Nat
    BY <1>2, <1>3, FrontOf
  <2>2. Id(1) \in Nat
    BY <1>3 DEF Id
  <2>3. PICK t \in Seq(Nat) : t = <<Id(1), Last(p.expr_stack)>> /\ Len(t) = 2
    <3>1. PICK a \in Nat, b \in Nat : a = Id(1) /\ b = Last(p.expr_stack)
      BY <2>1, <2>2
    <3>2. PICK t : t = <<a, b>>
      OBVIOUS
    <3>3. t \in Seq(Nat) /\ Len(t) = 2
      BY <3>2
    <3> QED BY <3>1, <3>2, <3>3, Zenon
  <2>4. PICK u \in Seq(Nat) : u = Front(p.expr_stack) /\ Len(u) = Len(p.expr_stack) - 1
    BY <2>1
  <2>5. u \o t \in Seq(Nat) /\ Len(u \o t) = Len(u) + Len(t)
    BY ConcatProperties
  <2>6. Len(p.expr_stack) \in Nat
    BY <1>3
  <2>7. Len(u \o t) = Len(p.expr_stack) + 1
    BY <2>3, <2>4, <2>5, <2>6
  <2> QED BY <2>3, <2>4, <2>5, <2>7
<1>5. p' = Data(e, p.arg_count, p.stack, p.fn_arg, p.class_parent, p.include, p.parser_error, p.made + 1)
  BY <1>1, <1>2, <1>4 DEF IsParser, Data
<1>6. /\ Weight("exprs", x) = 1 /\ Weight("counts", x) = 0
      /\ Weight("lists", x) = 0 /\ Weight("defs", x) = 0 /\ Weight("files", x) = 0
  BY <1>2 DEF Weight
<1>7. Loose(e, p.arg_count) = Loose(p.expr_stack, p.arg_count) + 1
  <2>1. 1 \in Int
    OBVIOUS
  <2> QED BY <1>3, <1>4, <2>1, LooseBy
<1>8. Changes(x, e, p.arg_count, p.stack, p.fn_arg)
  BY <1>3, <1>6, <1>7 DEF Changes
<1>9. p.made + 1 \in Nat
  BY <1>3
<1> QED BY <1>1, <1>3, <1>5, <1>8, <1>9, CallKeeps

-----------------------------------------------------------------------------
(* Statements. *)

\* A statement on the list below the topmost one, or on the topmost one.
LEMMA FrontPushed ==
  ASSUME NEW L \in Seq(Seq(Nat)), NEW i \in Nat, Len(L) > 1
  PROVE  /\ Front(L) \in Seq(Seq(Nat)) /\ Len(Front(L)) = Len(L) - 1 /\ Len(Front(L)) > 0
         /\ Pushed(Front(L), i) \in Seq(Seq(Nat)) /\ Len(Pushed(Front(L), i)) = Len(L) - 1
<1>1. Len(L) \in Nat
  OBVIOUS
<1>2. L # <<>>
  <2>1. Len(<<>>) = 0
    OBVIOUS
  <2> QED BY <1>1, <2>1
<1>3. Front(L) \in Seq(Seq(Nat)) /\ Len(Front(L)) = Len(L) - 1
  <2>1. PICK S : S = Seq(Nat)
    OBVIOUS
  <2>2. L \in Seq(S)
    BY <2>1
  <2> QED BY <1>2, <2>1, <2>2, FrontOf
<1> QED BY <1>1, <1>3, PushedIs

\* A statement takes expressions, but no arguments.
LEMMA NoArguments ==
  ASSUME NEW exprs \in ExprOrder
  PROVE  ~HasArgv(exprs) /\ CountsLeft(exprs) = p.arg_count /\ Len(exprs) \in Nat
<1>1. ~HasArgv(exprs) /\ Len(exprs) \in Nat
  BY OrderIs DEF ExprOrder, HasArgv
<1> QED BY <1>1 DEF CountsLeft

LEMMA StatementKeeps ==
  ASSUME NEW act, NEW exprs \in ExprOrder, NEW L, NEW fn, NEW parent, NEW m \in Nat,
         StackInv, Called(act), ExprsSane(exprs), L \in Seq(Seq(Nat)), IsList(fn),
         p' = Data(ExprsLeft(exprs), p.arg_count, L, fn, parent, p.include, p.parser_error, m), s' = s,
         Weight("exprs", Head(goal)) = 0 - Len(exprs), Weight("counts", Head(goal)) = 0,
         Len(L) = Len(p.stack) + Weight("lists", Head(goal)),
         Len(fn) = Len(p.fn_arg) + Weight("defs", Head(goal)),
         Weight("files", Head(goal)) = 0
  PROVE  StackInv'
<1>1. IsParser(p)
  BY CallIs
<1>2. ~HasArgv(exprs) /\ CountsLeft(exprs) = p.arg_count /\ Len(exprs) \in Nat
  BY NoArguments
<1>3. /\ ExprsLeft(exprs) \in Seq(Nat)
      /\ Loose(ExprsLeft(exprs), p.arg_count) = Loose(p.expr_stack, p.arg_count) - Len(exprs) + 0
  BY <1>1, <1>2, PopsLeave DEF ExprOrder
<1>4. /\ p.arg_count \in Seq(Nat \ {0}) /\ Len(p.arg_count) \in Nat /\ p.parser_error \in Nat
      /\ Loose(p.expr_stack, p.arg_count) \in Int
  BY TypesHold DEF StackInv
<1>5. Loose(ExprsLeft(exprs), p.arg_count) = Loose(p.expr_stack, p.arg_count) + Weight("exprs", Head(goal))
  BY <1>2, <1>3, <1>4
<1>6. Len(p.arg_count) = Len(p.arg_count) + Weight("counts", Head(goal))
  BY <1>4
<1>7. Changes(Head(goal), ExprsLeft(exprs), p.arg_count, L, fn)
  BY <1>3, <1>4, <1>5, <1>6, Zenon DEF Changes
<1> QED BY <1>4, <1>7, CallKeeps

LEMMA EndStmtKeeps ==
  ASSUME StackInv, EndStmt
  PROVE  StackInv'
<1> DEFINE x == Head(goal)
           open == x.leave = "open"
           L == IF open THEN Pushed(p.stack, Id(1)) ELSE Pushed(Front(p.stack), Id(1))
<1>1. Called("stmt") /\ s' = s
  BY DEF EndStmt
<1>2. x.do = "stmt" /\ Sane(x) /\ IsParser(p) /\ IsSymbol(x)
  BY <1>1, CallIs
<1>3. /\ x.exprs \in ExprOrder /\ ExprsSane(x.exprs)
      /\ Len(p.stack) > (IF x.leave = "open" THEN 0 ELSE 1)
      /\ x.leave \in {"open", "free", "block"}
  BY <1>2, SaneIs DEF IsSymbol
<1>4. /\ p.stack \in Seq(Seq(Nat)) /\ IsList(p.fn_arg) /\ p.made \in Nat /\ Len(p.stack) \in Nat
      /\ Len(p.fn_arg) \in Nat
  BY TypesHold DEF StackInv
<1>5. Id(1) \in Nat /\ p.made + 1 \in Nat
  BY <1>4 DEF Id
<1>6. L \in Seq(Seq(Nat)) /\ Len(L) = Len(p.stack) + (IF open THEN 0 ELSE -1)
  <2>1. CASE open
    <3>1. Pushed(p.stack, Id(1)) \in Seq(Seq(Nat)) /\ Len(Pushed(p.stack, Id(1))) = Len(p.stack)
      BY <1>4, <1>5, PushedIs
    <3> QED BY <1>4, <2>1, <3>1
  <2>2. CASE ~open
    <3>1. Pushed(Front(p.stack), Id(1)) \in Seq(Seq(Nat)) /\ Len(Pushed(Front(p.stack), Id(1))) = Len(p.stack) - 1
      BY <1>3, <1>4, <1>5, <2>2, FrontPushed
    <3> QED BY <1>4, <2>2, <3>1
  <2> QED BY <2>1, <2>2
<1>7. CountsLeft(x.exprs) = p.arg_count
  BY <1>3, NoArguments
<1>8. p' = Data(ExprsLeft(x.exprs), p.arg_count, L, p.fn_arg, p.class_parent, p.include,
                p.parser_error, p.made + 1)
  <2>1. PICK q : q = [p EXCEPT !.expr_stack = ExprsLeft(x.exprs), !.arg_count = CountsLeft(x.exprs),
                               !.made = @ + 1]
                 /\ p' = PushStmt(IF open THEN q ELSE LeaveList(q), Id(1))
    BY DEF EndStmt
  <2>2. q = Data(ExprsLeft(x.exprs), p.arg_count, p.stack, p.fn_arg, p.class_parent, p.include,
                 p.parser_error, p.made + 1)
    BY <1>2, <1>7, <2>1 DEF IsParser, Data
  <2>3. CASE open
    BY <2>1, <2>2, <2>3, PushStmtIs
  <2>4. CASE ~open
    <3>1. LeaveList(q) = Data(ExprsLeft(x.exprs), p.arg_count, Front(p.stack), p.fn_arg, p.class_parent,
                              p.include, p.parser_error, p.made + 1)
      BY <2>2, DataMade
    <3> QED BY <2>1, <2>4, <3>1, PushStmtIs
  <2> QED BY <2>3, <2>4
<1>9. /\ Weight("exprs", x) = 0 - Len(x.exprs) /\ Weight("counts", x) = 0
      /\ Weight("lists", x) = (IF open THEN 0 ELSE -1) /\ Weight("defs", x) = 0 /\ Weight("files", x) = 0
  BY <1>2 DEF Weight
<1> HIDE DEF L, x, open
<1>10. Len(L) = Len(p.stack) + Weight("lists", x) /\ Len(p.fn_arg) = Len(p.fn_arg) + Weight("defs", x)
  <2>1. Len(L) = Len(p.stack) + Weight("lists", x)
    BY <1>6, <1>9, Zenon
  <2>2. Weight("defs", x) = 0 /\ Len(p.fn_arg) \in Nat
    BY <1>4, <1>9
  <2> QED BY <2>1, <2>2
<1> QED BY <1>1, <1>3, <1>4, <1>5, <1>6, <1>8, <1>9, <1>10, StatementKeeps DEF x

LEMMA EndIfKeeps ==
  ASSUME StackInv, EndIf \/ EndCase
  PROVE  StackInv'
<1> DEFINE x == Head(goal)
           L == Pushed(Front(p.stack), Id(1))
<1>1. PICK act \in {"end_if", "end_case"} :
         /\ Called(act) /\ s' = s
         /\ p' = PushStmt([LeaveList(p) EXCEPT !.expr_stack = Front(@), !.made = @ + 1], Id(1))
  <2>1. CASE EndIf
    BY <2>1, Zenon DEF EndIf
  <2>2. CASE EndCase
    BY <2>2, Zenon DEF EndCase
  <2> QED BY <2>1, <2>2
<1>2. /\ x.do = act /\ Sane(x) /\ IsParser(p)
      /\ Len(p.stack) > 1 /\ p.expr_stack # <<>>
  BY <1>1, CallIs, SaneIs
<1>3. /\ p.expr_stack \in Seq(Nat) /\ p.arg_count \in Seq(Nat \ {0})
      /\ p.stack \in Seq(Seq(Nat)) /\ IsList(p.fn_arg) /\ p.parser_error \in Nat /\ p.made \in Nat
      /\ Len(p.stack) \in Nat /\ Len(p.fn_arg) \in Nat /\ Len(p.arg_count) \in Nat
      /\ Loose(p.expr_stack, p.arg_count) \in Int /\ Len(p.expr_stack) \in Nat
  BY TypesHold DEF StackInv
<1>4. Id(1) \in Nat /\ p.made + 1 \in Nat
  BY <1>3 DEF Id
<1>5. L \in Seq(Seq(Nat)) /\ Len(L) = Len(p.stack) - 1
  BY <1>2, <1>3, <1>4, FrontPushed
<1>6. PICK e \in Seq(Nat) : e = Front(p.expr_stack) /\ Len(e) = Len(p.expr_stack) + (0 - 1)
  <2>1. Front(p.expr_stack) \in Seq(Nat) /\ Len(Front(p.expr_stack)) = Len(p.expr_stack) - 1
    BY <1>2, <1>3, FrontOf
  <2> QED BY <1>3, <2>1
<1>7. p' = Data(e, p.arg_count, L, p.fn_arg, p.class_parent, p.include, p.parser_error, p.made + 1)
  BY <1>1, <1>2, <1>6, LeaveAndPush
<1>8. /\ Weight("exprs", x) = -1 /\ Weight("counts", x) = 0
      /\ Weight("lists", x) = -1 /\ Weight("defs", x) = 0 /\ Weight("files", x) = 0
  BY <1>1, <1>2 DEF Weight
<1>9. Loose(e, p.arg_count) = Loose(p.expr_stack, p.arg_count) + (0 - 1)
  <2>1. 0 - 1 \in Int
    OBVIOUS
  <2> QED BY <1>3, <1>6, <2>1, LooseBy
<1> HIDE DEF L, x
<1>10. Changes(x, e, p.arg_count, L, p.fn_arg)
  <2>1. Loose(e, p.arg_count) = Loose(p.expr_stack, p.arg_count) + Weight("exprs", x)
    BY <1>3, <1>5, <1>8, <1>9
  <2>2. Len(p.arg_count) = Len(p.arg_count) + Weight("counts", x)
    BY <1>3, <1>5, <1>8, <1>9
  <2>3. Len(L) = Len(p.stack) + Weight("lists", x)
    BY <1>3, <1>5, <1>8, <1>9
  <2>4. Len(p.fn_arg) = Len(p.fn_arg) + Weight("defs", x)
    BY <1>3, <1>5, <1>8, <1>9
  <2> QED BY <1>3, <1>5, <1>6, <1>8, <2>1, <2>2, <2>3, <2>4, Zenon DEF Changes
<1> QED BY <1>1, <1>3, <1>4, <1>7, <1>10, CallKeeps DEF x

LEMMA EndFuncKeeps ==
  ASSUME StackInv, EndFunc
  PROVE  StackInv'
<1> DEFINE x == Head(goal)
           L == Pushed(Front(p.stack), Id(1))
<1>1. /\ Called("end_func") /\ s' = s
      /\ p' = PushStmt([LeaveList(p) EXCEPT !.fn_arg = Front(@), !.made = @ + 1], Id(1))
  BY DEF EndFunc
<1>2. /\ x.do = "end_func" /\ Sane(x) /\ IsParser(p) /\ Len(p.stack) > 1 /\ p.fn_arg # <<>>
  BY <1>1, CallIs, SaneIs
<1>3. /\ p.expr_stack \in Seq(Nat) /\ p.arg_count \in Seq(Nat \ {0})
      /\ p.stack \in Seq(Seq(Nat)) /\ IsList(p.fn_arg) /\ p.parser_error \in Nat /\ p.made \in Nat
      /\ Len(p.stack) \in Nat /\ Len(p.fn_arg) \in Nat /\ Len(p.arg_count) \in Nat
      /\ Loose(p.expr_stack, p.arg_count) \in Int
  BY TypesHold DEF StackInv
<1>4. Id(1) \in Nat /\ p.made + 1 \in Nat
  BY <1>3 DEF Id
<1>5. L \in Seq(Seq(Nat)) /\ Len(L) = Len(p.stack) - 1
  BY <1>2, <1>3, <1>4, FrontPushed
<1>6. PICK fn : fn = Front(p.fn_arg) /\ IsList(fn) /\ Len(fn) = Len(p.fn_arg) - 1
  BY <1>2, <1>3, ListProperties
<1>7. p' = Data(p.expr_stack, p.arg_count, L, fn, p.class_parent, p.include, p.parser_error, p.made + 1)
  BY <1>1, <1>2, <1>6, LeaveAndPush
<1>8. /\ Weight("exprs", x) = 0 /\ Weight("counts", x) = 0
      /\ Weight("lists", x) = -1 /\ Weight("defs", x) = -1 /\ Weight("files", x) = 0
  BY <1>1, <1>2 DEF Weight
<1> HIDE DEF L, x
<1>10. Changes(x, p.expr_stack, p.arg_count, L, fn)
  <2>1. Loose(p.expr_stack, p.arg_count) = Loose(p.expr_stack, p.arg_count) + Weight("exprs", x)
    BY <1>3, <1>5, <1>6, <1>8
  <2>2. Len(p.arg_count) = Len(p.arg_count) + Weight("counts", x)
    BY <1>3, <1>5, <1>6, <1>8
  <2>3. Len(L) = Len(p.stack) + Weight("lists", x)
    BY <1>3, <1>5, <1>6, <1>8
  <2>4. Len(fn) = Len(p.fn_arg) + Weight("defs", x)
    BY <1>3, <1>5, <1>6, <1>8
  <2> QED BY <1>3, <1>5, <1>6, <1>8, <2>1, <2>2, <2>3, <2>4, Zenon DEF Changes
<1> QED BY <1>1, <1>3, <1>4, <1>7, <1>10, CallKeeps DEF x

LEMMA EndLambdaKeeps ==
  ASSUME StackInv, EndLambda
  PROVE  StackInv'
<1> DEFINE x == Head(goal)
<1>1. /\ Called("end_lambda") /\ s' = s
      /\ p' = PushExpr([LeaveList(p) EXCEPT !.fn_arg = Front(@), !.made = @ + 3], Id(3))
  BY DEF EndLambda
<1>2. /\ x.do = "end_lambda" /\ Sane(x) /\ IsParser(p) /\ p.stack # <<>> /\ p.fn_arg # <<>>
  BY <1>1, CallIs, SaneIs
<1>3. /\ p.expr_stack \in Seq(Nat) /\ p.arg_count \in Seq(Nat \ {0})
      /\ p.stack \in Seq(Seq(Nat)) /\ IsList(p.fn_arg) /\ p.parser_error \in Nat /\ p.made \in Nat
      /\ Len(p.stack) \in Nat /\ Len(p.fn_arg) \in Nat /\ Len(p.arg_count) \in Nat
      /\ Loose(p.expr_stack, p.arg_count) \in Int
  BY TypesHold DEF StackInv
<1>4. Id(3) \in Nat /\ p.made + 3 \in Nat
  BY <1>3 DEF Id
<1>5. PICK L \in Seq(Seq(Nat)) : L = Front(p.stack) /\ Len(L) = Len(p.stack) - 1
  <2>1. PICK S : S = Seq(Nat)
    OBVIOUS
  <2>2. p.stack \in Seq(S)
    BY <1>3, <2>1
  <2>3. Front(p.stack) \in Seq(S) /\ Len(Front(p.stack)) = Len(p.stack) - 1
    BY <1>2, <2>2, FrontOf
  <2> QED BY <2>1, <2>3
<1>6. PICK fn : fn = Front(p.fn_arg) /\ IsList(fn) /\ Len(fn) = Len(p.fn_arg) - 1
  BY <1>2, <1>3, ListProperties
<1>7. PICK e \in Seq(Nat) : e = Append(p.expr_stack, Id(3))
                            /\ Loose(e, p.arg_count) = Loose(p.expr_stack, p.arg_count) + 1
  BY <1>3, <1>4, LooseMore
<1>8. p' = Data(e, p.arg_count, L, fn, p.class_parent, p.include, p.parser_error, p.made + 3)
  BY <1>1, <1>2, <1>5, <1>6, <1>7, LeaveAndPush
<1>9. /\ Weight("exprs", x) = 1 /\ Weight("counts", x) = 0
      /\ Weight("lists", x) = -1 /\ Weight("defs", x) = -1 /\ Weight("files", x) = 0
  BY <1>1, <1>2 DEF Weight
<1> HIDE DEF x
<1>10. Changes(x, e, p.arg_count, L, fn)
  <2>1. Loose(e, p.arg_count) = Loose(p.expr_stack, p.arg_count) + Weight("exprs", x)
    BY <1>3, <1>5, <1>6, <1>7, <1>9
  <2>2. Len(p.arg_count) = Len(p.arg_count) + Weight("counts", x)
    BY <1>3, <1>5, <1>6, <1>7, <1>9
  <2>3. Len(L) = Len(p.stack) + Weight("lists", x)
    BY <1>3, <1>5, <1>6, <1>7, <1>9
  <2>4. Len(fn) = Len(p.fn_arg) + Weight("defs", x)
    BY <1>3, <1>5, <1>6, <1>7, <1>9
  <2> QED BY <1>3, <1>5, <1>6, <1>7, <1>9, <2>1, <2>2, <2>3, <2>4, Zenon DEF Changes
<1> QED BY <1>1, <1>3, <1>4, <1>8, <1>10, CallKeeps DEF x

-----------------------------------------------------------------------------
(* The heap. *)

IsNode(n) ==
  n \in [type : {n.type}, op : {n.op}, name : {n.name}, tname : {n.tname}, file : {n.file},
         args : {n.args}, part : [Fields -> Seq(Nat)]]
IsHeap(h, m) == /\ h = [i \in DOMAIN h |-> h[i]] /\ DOMAIN h \subseteq 1..m
                /\ \A i \in DOMAIN h : IsNode(h[i])

\* Nothing is copied while something is freed.
Memory ==
  /\ IsHeap(heap, p.made)
  /\ copying \in Seq(DOMAIN heap) /\ freeing \in Seq(Nat)
  /\ s \in [source_file : {s.source_file}, script : Seq(Nat)]
  /\ copying # <<>> => phase = "parse" /\ freeing = <<>>
  /\ phase = "done" => freeing = <<>>

TypeInv == StackInv /\ Memory

LEMMA NodeIs ==
  \A type, op, name, tname, file :
    IsNode(Node(type, op, name, tname, file)) /\ Node(type, op, name, tname, file).part = NoParts
<1>1. NoParts \in [Fields -> Seq(Nat)]
  <2>1. <<>> \in Seq(Nat)
    OBVIOUS
  <2> QED BY <2>1 DEF NoParts
<1> HIDE DEF NoParts
<1> QED BY <1>1 DEF Node, IsNode

LEMMA NodeWith ==
  ASSUME NEW n, IsNode(n), NEW q \in [Fields -> Seq(Nat)]
  PROVE  IsNode([n EXCEPT !.part = q]) /\ [n EXCEPT !.part = q].part = q
BY DEF IsNode

LEMMA NodeNoted ==
  ASSUME NEW n, IsNode(n), NEW x
  PROVE  /\ IsNode([n EXCEPT !.tname = x]) /\ [n EXCEPT !.tname = x].part = n.part
         /\ IsNode([n EXCEPT !.args = x]) /\ [n EXCEPT !.args = x].part = n.part
         /\ IsNode([n EXCEPT !.type = x]) /\ [n EXCEPT !.type = x].part = n.part
         /\ n.part \in [Fields -> Seq(Nat)]
<1>1. IsNode([n EXCEPT !.tname = x]) /\ [n EXCEPT !.tname = x].part = n.part
  BY DEF IsNode
<1>2. IsNode([n EXCEPT !.args = x]) /\ [n EXCEPT !.args = x].part = n.part
  BY DEF IsNode
<1>3. IsNode([n EXCEPT !.type = x]) /\ [n EXCEPT !.type = x].part = n.part
  BY DEF IsNode
<1>4. n.part \in [Fields -> Seq(Nat)]
  BY DEF IsNode
<1> QED BY <1>1, <1>2, <1>3, <1>4

LEMMA NodePart ==
  ASSUME NEW n, IsNode(n), NEW f \in Fields, NEW v \in Seq(Nat)
  PROVE  /\ IsNode([n EXCEPT !.part[f] = v]) /\ [n EXCEPT !.part[f] = v].part = [n.part EXCEPT ![f] = v]
         /\ [n EXCEPT !.part[f] = v].part \in [Fields -> Seq(Nat)]
<1>1. n.part \in [Fields -> Seq(Nat)]
  BY DEF IsNode
<1>2. PICK q \in [Fields -> Seq(Nat)] : q = [n.part EXCEPT ![f] = v]
  BY <1>1
<1>3. [n EXCEPT !.part[f] = v] = [n EXCEPT !.part = q]
  BY <1>2 DEF IsNode
<1> QED BY <1>2, <1>3, NodeWith

\* What Alloc adds.
LEMMA AllocIs ==
  ASSUME NEW new, NEW k \in Nat, Len(new) = k, DOMAIN new = 1..k, \A j \in 1..k : IsNode(new[j]),
         IsHeap(heap, p.made), p.made \in Nat
  PROVE  /\ IsHeap(Alloc(new), p.made + k)
         /\ DOMAIN Alloc(new) = DOMAIN heap \cup {Id(j) : j \in 1..k}
         /\ \A i \in DOMAIN heap : Alloc(new)[i] = heap[i]
         /\ \A j \in 1..k : Alloc(new)[Id(j)] = new[j] /\ Id(j) \notin DOMAIN heap /\ Id(j) \in Nat
         /\ \A i, j \in 1..k : Id(i) = Id(j) => i = j
<1> DEFINE h == Alloc(new)
<1>1. DOMAIN h = DOMAIN heap \cup (Id(1)..Id(k))
  BY DEF Alloc
<1>2. \A i \in DOMAIN h : h[i] = IF i \in DOMAIN heap THEN heap[i] ELSE new[i - p.made]
  BY DEF Alloc
<1>3. h = [i \in DOMAIN h |-> h[i]]
  BY DEF Alloc
<1>4. /\ DOMAIN heap \subseteq 1..p.made
      /\ \A i \in DOMAIN heap : IsNode(heap[i])
  BY DEF IsHeap
<1>5. Id(1)..Id(k) = {Id(j) : j \in 1..k}
  <2>1. \A i \in Id(1)..Id(k) : i - p.made \in 1..k /\ i = Id(i - p.made)
    BY DEF Id
  <2>2. \A j \in 1..k : Id(j) \in Id(1)..Id(k)
    BY DEF Id
  <2> QED BY <2>1, <2>2
<1>6. \A j \in 1..k : /\ Id(j) \notin DOMAIN heap /\ Id(j) \in Nat /\ Id(j) \in 1..(p.made + k)
                      /\ Id(j) - p.made = j
  BY <1>4 DEF Id
<1>7. \A i, j \in 1..k : Id(i) = Id(j) => i = j
  BY DEF Id
<1> HIDE DEF h
<1>8. \A j \in 1..k : h[Id(j)] = new[j]
  BY <1>1, <1>2, <1>5, <1>6
<1>9. \A i \in DOMAIN heap : h[i] = heap[i]
  BY <1>1, <1>2
<1>10. \A i \in DOMAIN h : IsNode(h[i])
  BY <1>1, <1>4, <1>5, <1>8, <1>9
<1>11. DOMAIN h \subseteq 1..(p.made + k)
  <2>1. 1..p.made \subseteq 1..(p.made + k)
    OBVIOUS
  <2> QED BY <1>1, <1>4, <1>5, <1>6, <2>1
<1> QED BY <1>1, <1>3, <1>5, <1>6, <1>7, <1>8, <1>9, <1>10, <1>11 DEF h, IsHeap

LEMMA AllocOne ==
  ASSUME NEW n, IsNode(n), IsHeap(heap, p.made), p.made \in Nat
  PROVE  /\ IsHeap(Alloc(<<n>>), p.made + 1)
         /\ DOMAIN Alloc(<<n>>) = DOMAIN heap \cup {Id(1)} /\ Id(1) \notin DOMAIN heap
         /\ \A i \in DOMAIN heap : Alloc(<<n>>)[i] = heap[i]
         /\ Alloc(<<n>>)[Id(1)] = n
<1>1. PICK new : new = <<n>>
  OBVIOUS
<1>2. Len(new) = 1 /\ DOMAIN new = 1..1 /\ new[1] = n /\ \A j \in 1..1 : IsNode(new[j])
  BY <1>1
<1>3. 1 \in Nat /\ 1 \in 1..1 /\ {Id(j) : j \in 1..1} = {Id(1)}
  OBVIOUS
<1>4. /\ IsHeap(Alloc(new), p.made + 1)
      /\ DOMAIN Alloc(new) = DOMAIN heap \cup {Id(j) : j \in 1..1}
      /\ \A i \in DOMAIN heap : Alloc(new)[i] = heap[i]
      /\ \A j \in 1..1 : Alloc(new)[Id(j)] = new[j] /\ Id(j) \notin DOMAIN heap
  BY <1>2, <1>3, AllocIs
<1>5. Alloc(new)[Id(1)] = n /\ Id(1) \notin DOMAIN heap
  BY <1>2, <1>3, <1>4
<1> HIDE DEF Alloc, Id
<1> QED BY <1>1, <1>3, <1>4, <1>5

-----------------------------------------------------------------------------
(* The nodes the calls make. *)

LEMMA ExprPartsIs ==
  ASSUME NEW F, NEW pops \in Orders(F), IsParser(p), ExprsSane(pops)
  PROVE  /\ ExprParts(pops) \in [Fields -> Seq(Nat)]
         /\ \A f \in Range(pops) : PopExpr(pops, f) \in Seq(Nat)
<1>1. \A f : f \in Range(pops) <=> \E k \in 1..Len(pops) : pops[k] = f
  BY OrderIs
<1>2. \A f \in Range(pops) : PopExpr(pops, f) \in Seq(Nat)
  BY <1>1, PopExprIs
<1>3. <<>> \in Seq(Nat)
  OBVIOUS
<1> QED BY <1>2, <1>3 DEF ExprParts

LEMMA ListIs ==
  ASSUME IsParser(p), p.stack # <<>>
  PROVE  List \in Seq(Nat) /\ Len(List) \in Nat
<1>1. PICK S : S = Seq(Nat)
  OBVIOUS
<1>2. p.stack \in Seq(S)
  BY <1>1 DEF IsParser
<1>3. Last(p.stack) \in S
  BY <1>2, FrontOf
<1> QED BY <1>1, <1>3 DEF List

LEMMA StmtPartsIs ==
  ASSUME NEW x, IsParser(p), x.exprs \in ExprOrder, x.stmts \in StmtOrder, ExprsSane(x.exprs),
         StmtsSane(x.stmts)
  PROVE  /\ StmtsLeft(x.stmts) \in Seq(Nat)
         /\ \A f \in Range(x.stmts) : TakeStmt(x.stmts, f) \in Seq(Nat)
         /\ StmtParts(x) \in [Fields -> Seq(Nat)]
<1>1. List \in Seq(Nat) /\ Len(List) \in Nat /\ Len(x.stmts) <= Len(List)
  BY ListIs DEF StmtsSane
<1>2. Len(x.stmts) \in Nat /\ \A f : f \in Range(x.stmts) <=> \E k \in 1..Len(x.stmts) : x.stmts[k] = f
  BY OrderIs DEF StmtOrder
<1>3. StmtsLeft(x.stmts) \in Seq(Nat)
  <2>1. 1 \in Int /\ Len(List) - Len(x.stmts) \in Int
        /\ \A k \in 1..(Len(List) - Len(x.stmts)) : List[k] \in Nat
    BY <1>1, <1>2
  <2> QED BY <2>1, SubSeqProperties DEF StmtsLeft
<1>4. ASSUME NEW f \in Range(x.stmts) PROVE TakeStmt(x.stmts, f) \in Seq(Nat)
  <2>1. PICK k : k = CHOOSE l \in DOMAIN x.stmts : x.stmts[l] = f
    OBVIOUS
  <2>2. k \in 1..Len(x.stmts)
    <3>1. DOMAIN x.stmts = 1..Len(x.stmts)
      BY OrderIs DEF StmtOrder
    <3> QED BY <1>2, <2>1, <3>1
  <2>3. Len(List) + 1 - k \in 1..Len(List)
    BY <1>1, <1>2, <2>2
  <2>4. PICK a \in Nat : a = List[Len(List) + 1 - k]
    BY <1>1, <2>3
  <2>5. PICK t : t = <<a>>
    OBVIOUS
  <2>6. t \in Seq(Nat)
    BY <2>5
  <2> QED BY <2>1, <2>4, <2>5, <2>6 DEF TakeStmt
<1>5. \A f \in Range(x.exprs) : PopExpr(x.exprs, f) \in Seq(Nat)
  BY ExprPartsIs DEF ExprOrder
<1>6. <<>> \in Seq(Nat)
  OBVIOUS
<1>7. StmtParts(x) \in [Fields -> Seq(Nat)]
  BY <1>3, <1>4, <1>5, <1>6 DEF StmtParts
<1> QED BY <1>3, <1>4, <1>7

LEMMA BuiltIs ==
  ASSUME NEW x, IsParser(p), x.pops \in Pops, ExprsSane(x.pops)
  PROVE  IsNode(Built(x)) /\ Built(x).part = ExprParts(x.pops)
<1>1. IsNode(NewExpr(x.type, x.op, x.name, x.tname))
  BY NodeIs DEF NewExpr
<1>2. ExprParts(x.pops) \in [Fields -> Seq(Nat)]
  BY ExprPartsIs DEF Pops
<1> QED BY <1>1, <1>2, NodeWith DEF Built

LEMMA StmtBuiltIs ==
  ASSUME NEW x, IsParser(p), x.exprs \in ExprOrder, x.stmts \in StmtOrder, ExprsSane(x.exprs),
         StmtsSane(x.stmts)
  PROVE  IsNode(StmtBuilt(x)) /\ StmtBuilt(x).part = StmtParts(x)
<1>1. PICK n : n = NewStmt(x.type, x.op, x.name) /\ IsNode(n)
  BY NodeIs DEF NewStmt
<1>2. StmtParts(x) \in [Fields -> Seq(Nat)]
  BY StmtPartsIs
<1>3. PICK t : t = IF x.type = "CLASS" THEN p.class_parent ELSE 0
  OBVIOUS
<1>4. PICK m : m = [n EXCEPT !.part = StmtParts(x)]
  OBVIOUS
<1>5. IsNode(m) /\ m.part = StmtParts(x)
  BY <1>1, <1>2, <1>4, NodeWith
<1>6. StmtBuilt(x) = [m EXCEPT !.tname = t]
  BY <1>1, <1>3, <1>4 DEF StmtBuilt
<1>7. IsNode([m EXCEPT !.tname = t]) /\ [m EXCEPT !.tname = t].part = m.part
  BY <1>5, NodeNoted
<1> QED BY <1>5, <1>6, <1>7

LEMMA TheOrders ==
  /\ <<"expr">> \in ExprOrder /\ <<>> \in ExprOrder /\ <<>> \in StmtOrder /\ <<"true_case">> \in StmtOrder
  /\ <<"false_case", "true_case">> \in StmtOrder
  /\ Len(<<"expr">>) = 1 /\ Len(<<>>) = 0 /\ Len(<<"true_case">>) = 1
  /\ Len(<<"false_case", "true_case">>) = 2
<1>1. PICK t : t = <<"expr">>
  OBVIOUS
<1>2. t \in ExprOrder /\ Len(t) = 1
  BY <1>1 DEF ExprOrder, Orders, IsInjective
<1>3. PICK e : e = <<>>
  OBVIOUS
<1>4. e \in ExprOrder /\ e \in StmtOrder /\ Len(e) = 0
  BY <1>3 DEF ExprOrder, StmtOrder, Orders, IsInjective
<1>5. PICK u : u = <<"true_case">>
  OBVIOUS
<1>6. u \in StmtOrder /\ Len(u) = 1
  BY <1>5 DEF StmtOrder, Orders, IsInjective
<1>7. PICK v : v = <<"false_case", "true_case">>
  OBVIOUS
<1>8. v \in StmtOrder /\ Len(v) = 2
  <2>1. v \in Seq({"true_case", "false_case"}) /\ Len(v) = 2 /\ DOMAIN v = 1..2
        /\ v[1] = "false_case" /\ v[2] = "true_case"
    BY <1>7
  <2>2. IsInjective(v)
    BY <2>1 DEF IsInjective
  <2> QED BY <2>1, <2>2 DEF StmtOrder, Orders
<1> QED BY <1>1, <1>2, <1>3, <1>4, <1>5, <1>6, <1>7, <1>8, Zenon

-----------------------------------------------------------------------------
(* The heap of every call that makes one node. *)

\* What is known when the parser calls a function.
LEMMA Calling ==
  ASSUME TypeInv, NEW act, Called(act)
  PROVE  /\ phase = "parse" /\ phase' = "parse" /\ goal # <<>> /\ goal' = Tail(goal)
         /\ Head(goal).do = act /\ IsSymbol(Head(goal)) /\ Sane(Head(goal))
         /\ IsParser(p) /\ copying = <<>> /\ freeing = <<>> /\ p.made \in Nat
         /\ IsHeap(heap, p.made)
<1>1. StackInv /\ IsHeap(heap, p.made)
  BY DEF TypeInv, Memory
<1>2. IsParser(p) /\ p.made \in Nat
  BY <1>1 DEF StackInv, Types, IsParser
<1> QED BY <1>1, <1>2, CallIs

LEMMA EndExprMakes ==
  ASSUME TypeInv, EndExpr
  PROVE  \E n : /\ IsNode(n) /\ heap' = Alloc(<<n>>) /\ n.part = ExprParts(Head(goal).pops)
                /\ Head(goal).pops \in Pops /\ ExprsSane(Head(goal).pops)
<1>1. Called("expr") /\ heap' = Alloc(<<Built(Head(goal))>>)
  BY DEF EndExpr
<1>2. Head(goal).do = "expr" /\ IsSymbol(Head(goal)) /\ Sane(Head(goal)) /\ IsParser(p)
  BY <1>1, Calling
<1>3. Head(goal).pops \in Pops /\ ExprsSane(Head(goal).pops)
  BY <1>2, SaneIs DEF IsSymbol
<1>4. IsNode(Built(Head(goal))) /\ Built(Head(goal)).part = ExprParts(Head(goal).pops)
  BY <1>2, <1>3, BuiltIs
<1> QED BY <1>1, <1>3, <1>4

LEMMA EndKeyarraySingleMakes ==
  ASSUME EndKeyarraySingle
  PROVE  \E n : IsNode(n) /\ heap' = Alloc(<<n>>) /\ n.part = NoParts
BY NodeIs DEF EndKeyarraySingle, NewExpr

\* A function that makes a statement of what `x' says.
Makes(x) ==
  \E n : /\ IsNode(n) /\ n.part = StmtParts(x)
         /\ DOMAIN heap' = DOMAIN Alloc(<<n>>) /\ IsHeap(heap', p.made + 1)
         /\ \A i \in DOMAIN heap' : heap'[i].part = Alloc(<<n>>)[i].part
Takes(x) ==
  x.exprs \in ExprOrder /\ x.stmts \in StmtOrder /\ ExprsSane(x.exprs) /\ StmtsSane(x.stmts)

LEMMA EndStmtMakes ==
  ASSUME TypeInv, EndStmt
  PROVE  /\ Takes(Head(goal)) /\ Makes(Head(goal))
         /\ Head(goal).leave \in {"open", "free", "block"}
         /\ Head(goal).leave = "open" => Head(goal).stmts = <<>>
         /\ Len(p.stack) > (IF Head(goal).leave = "open" THEN 0 ELSE 1)
<1>1. Called("stmt") /\ heap' = Alloc(<<StmtBuilt(Head(goal))>>)
  BY DEF EndStmt
<1>2. /\ Head(goal).do = "stmt" /\ IsSymbol(Head(goal)) /\ Sane(Head(goal)) /\ IsParser(p)
      /\ IsHeap(heap, p.made) /\ p.made \in Nat
  BY <1>1, Calling
<1>3. /\ Head(goal).exprs \in ExprOrder /\ Head(goal).stmts \in StmtOrder
      /\ Head(goal).leave \in {"open", "free", "block"}
      /\ Head(goal).leave = "open" => Head(goal).stmts = <<>>
      /\ ExprsSane(Head(goal).exprs) /\ StmtsSane(Head(goal).stmts)
      /\ Len(p.stack) > (IF Head(goal).leave = "open" THEN 0 ELSE 1)
  BY <1>2, SaneIs DEF IsSymbol
<1>4. IsNode(StmtBuilt(Head(goal))) /\ StmtBuilt(Head(goal)).part = StmtParts(Head(goal))
  BY <1>2, <1>3, StmtBuiltIs
<1>5. IsHeap(Alloc(<<StmtBuilt(Head(goal))>>), p.made + 1)
  BY <1>2, <1>4, AllocOne
<1> QED BY <1>1, <1>3, <1>4, <1>5, Zenon DEF Takes, Makes

\* The statement that EndIf, EndCase and EndFunc make.
IfTakes   == IF Len(List) > 1 THEN <<"false_case", "true_case">> ELSE <<"true_case">>
IfMade    == Stmt(IF Len(List) > 1 THEN "IF_ELSE" ELSE "IF", "", 0, <<"expr">>, IfTakes, "free")
CaseMade(thru) == Stmt("CASE", IF thru THEN "thru" ELSE "", 0, <<"expr">>, <<>>, "block")
FuncMade  == Stmt("FUNC", Last(p.fn_arg).rettype, Head(goal).name, <<>>, <<"true_case">>, "free")

LEMMA OneExprSane ==
  ASSUME IsParser(p), p.expr_stack # <<>>
  PROVE  ExprsSane(<<"expr">>) /\ ExprsLeft(<<"expr">>) = Front(p.expr_stack)
<1>1. PICK t \in ExprOrder : t = <<"expr">> /\ Len(t) = 1
  BY TheOrders
<1>2. ~HasArgv(t)
  BY NoArguments
<1>3. Popped(t, 2) = 1
  <2>1. 2 \in 1..(Len(t) + 1) /\ ~ \E j \in 1..(2 - 1) : t[j] = "argv"
    <3>1. t[1] = "expr"
      BY <1>1
    <3> QED BY <1>1, <3>1
  <2>2. Popped(t, 2) = 2 - 1 + (IF \E j \in 1..(2 - 1) : t[j] = "argv" THEN Last(p.arg_count) - 1 ELSE 0)
    BY <2>1, PoppedIs DEF ExprOrder
  <2> QED BY <2>1, <2>2
<1>4. Depth(t) = 1
  BY <1>1, <1>3 DEF Depth
<1>5. Len(p.expr_stack) >= 1
  BY DEF IsParser
<1> QED BY <1>1, <1>2, <1>4, <1>5 DEF ExprsSane, ExprsLeft, Front

LEMMA NoExprSane == ExprsSane(<<>>) /\ ExprsLeft(<<>>) = SubSeq(p.expr_stack, 1, Len(p.expr_stack) - 0)
<1>1. PICK t \in ExprOrder : t = <<>> /\ Len(t) = 0
  BY TheOrders
<1>2. ~HasArgv(t)
  BY NoArguments
<1>3. Popped(t, 1) = 0
  <2>1. 1 \in 1..(Len(t) + 1) /\ ~ \E j \in 1..(1 - 1) : t[j] = "argv"
    BY <1>1
  <2>2. Popped(t, 1) = 1 - 1 + (IF \E j \in 1..(1 - 1) : t[j] = "argv" THEN Last(p.arg_count) - 1 ELSE 0)
    BY <2>1, PoppedIs DEF ExprOrder
  <2> QED BY <2>1, <2>2
<1>4. Depth(t) = 0
  BY <1>1, <1>3 DEF Depth
<1> QED BY <1>1, <1>2, <1>4 DEF ExprsSane, ExprsLeft

LEMMA EndIfMakes ==
  ASSUME TypeInv, EndIf
  PROVE  /\ Takes(IfMade) /\ Makes(IfMade) /\ IfMade.leave = "free" /\ freeing' = StmtsLeft(IfMade.stmts)
         /\ IfMade.exprs = <<"expr">> /\ p.expr_stack # <<>> /\ Len(p.stack) > 1
<1>1. /\ Called("end_if") /\ heap' = Alloc(<<StmtBuilt(IfMade)>>) /\ freeing' = StmtsLeft(IfTakes)
  BY DEF EndIf, IfMade, IfTakes
<1>2. /\ Head(goal).do = "end_if" /\ Sane(Head(goal)) /\ IsParser(p)
      /\ IsHeap(heap, p.made) /\ p.made \in Nat
  BY <1>1, Calling
<1>3. Len(p.stack) > 1 /\ p.expr_stack # <<>> /\ List # <<>>
  BY <1>2, SaneIs
<1>4. IfMade.exprs = <<"expr">> /\ IfMade.stmts = IfTakes /\ IfMade.leave = "free"
  BY DEF IfMade, Stmt
<1>5. p.stack # <<>>
  <2>1. Len(<<>>) = 0
    OBVIOUS
  <2> QED BY <1>3, <2>1
<1>6. List \in Seq(Nat) /\ Len(List) \in Nat /\ Len(List) # 0
  BY <1>2, <1>3, <1>5, ListIs
<1>7. IfTakes \in StmtOrder /\ Len(IfTakes) <= Len(List)
  <2>1. CASE Len(List) > 1
    <3>1. PICK t \in StmtOrder : t = IfTakes /\ Len(t) = 2
      BY <2>1, TheOrders DEF IfTakes
    <3> QED BY <1>6, <2>1, <3>1
  <2>2. CASE ~(Len(List) > 1)
    <3>1. PICK t \in StmtOrder : t = IfTakes /\ Len(t) = 1
      BY <2>2, TheOrders DEF IfTakes
    <3> QED BY <1>6, <3>1
  <2> QED BY <2>1, <2>2
<1>8. Takes(IfMade)
  BY <1>2, <1>3, <1>4, <1>5, <1>7, OneExprSane, TheOrders DEF Takes, StmtsSane
<1>9. IsNode(StmtBuilt(IfMade)) /\ StmtBuilt(IfMade).part = StmtParts(IfMade)
  BY <1>2, <1>8, StmtBuiltIs DEF Takes
<1>10. IsHeap(Alloc(<<StmtBuilt(IfMade)>>), p.made + 1)
  BY <1>2, <1>9, AllocOne
<1>11. Makes(IfMade)
  BY <1>1, <1>9, <1>10, Zenon DEF Makes
<1> QED BY <1>1, <1>3, <1>4, <1>8, <1>11

LEMMA EndFuncMakes ==
  ASSUME TypeInv, EndFunc
  PROVE  /\ Takes(FuncMade) /\ Makes(FuncMade) /\ FuncMade.leave = "free" /\ freeing' = StmtsLeft(FuncMade.stmts)
         /\ FuncMade.exprs = <<>> /\ Len(p.stack) > 1
<1>1. /\ Called("end_func") /\ freeing' = Front(List)
      /\ heap' = Alloc(<<[StmtBuilt(FuncMade) EXCEPT !.args = Last(p.fn_arg).args]>>)
  BY DEF EndFunc, FuncMade
<1>2. /\ Head(goal).do = "end_func" /\ Sane(Head(goal)) /\ IsParser(p)
      /\ IsHeap(heap, p.made) /\ p.made \in Nat
  BY <1>1, Calling
<1>3. Len(p.stack) > 1 /\ List # <<>>
  BY <1>2, SaneIs
<1>4. FuncMade.exprs = <<>> /\ FuncMade.stmts = <<"true_case">> /\ FuncMade.leave = "free"
  BY DEF FuncMade, Stmt
<1>5. p.stack # <<>>
  <2>1. Len(<<>>) = 0
    OBVIOUS
  <2> QED BY <1>3, <2>1
<1>6. List \in Seq(Nat) /\ Len(List) \in Nat /\ Len(List) # 0
  BY <1>2, <1>3, <1>5, ListIs
<1>7. FuncMade.stmts \in StmtOrder /\ Len(FuncMade.stmts) = 1
  BY <1>4, TheOrders
<1>8. Takes(FuncMade)
  BY <1>4, <1>5, <1>6, <1>7, NoExprSane, TheOrders DEF Takes, StmtsSane
<1>9. IsNode(StmtBuilt(FuncMade)) /\ StmtBuilt(FuncMade).part = StmtParts(FuncMade)
  BY <1>2, <1>8, StmtBuiltIs DEF Takes
<1>10. PICK n : /\ n = [StmtBuilt(FuncMade) EXCEPT !.args = Last(p.fn_arg).args]
                /\ IsNode(n) /\ n.part = StmtParts(FuncMade)
  <2>1. PICK m, o : m = StmtBuilt(FuncMade) /\ o = Last(p.fn_arg).args
    OBVIOUS
  <2>4. IsNode(m)
    BY <1>9, <2>1
  <2>2. IsNode([m EXCEPT !.args = o]) /\ [m EXCEPT !.args = o].part = m.part
    BY <2>4, NodeNoted
  <2>3. PICK n : n = [m EXCEPT !.args = o]
    OBVIOUS
  <2> QED BY <1>9, <2>1, <2>2, <2>3
<1>11. IsHeap(Alloc(<<n>>), p.made + 1) /\ heap' = Alloc(<<n>>)
  BY <1>1, <1>2, <1>10, AllocOne
<1>12. Makes(FuncMade)
  BY <1>10, <1>11, Zenon DEF Makes
<1>13. freeing' = StmtsLeft(FuncMade.stmts)
  BY <1>1, <1>7 DEF StmtsLeft, Front
<1> QED BY <1>3, <1>4, <1>8, <1>12, <1>13

LEMMA EndCaseMakes ==
  ASSUME TypeInv, EndCase
  PROVE  \E thru \in BOOLEAN :
           /\ Takes(CaseMade(thru)) /\ Makes(CaseMade(thru)) /\ CaseMade(thru).leave = "block"
           /\ CaseMade(thru).exprs = <<"expr">> /\ CaseMade(thru).stmts = <<>>
           /\ p.expr_stack # <<>> /\ Len(p.stack) > 1
<1> DEFINE lone == Len(List) = 1 /\ heap[List[1]].type = "BREAK"
<1>1. PICK thru \in BOOLEAN :
        heap' = IF lone THEN [Alloc(<<StmtBuilt(CaseMade(thru))>>) EXCEPT ![List[1]].type = "NOP"]
                ELSE Alloc(<<StmtBuilt(CaseMade(thru))>>)
  <2>1. PICK thru \in BOOLEAN : thru = (IF Head(goal).thru /\ ~lone THEN TRUE ELSE FALSE)
    OBVIOUS
  <2>2. (IF thru THEN "thru" ELSE "") = (IF Head(goal).thru /\ ~lone THEN "thru" ELSE "")
    BY <2>1
  <2>3. CaseMade(thru) = Stmt("CASE", IF Head(goal).thru /\ ~lone THEN "thru" ELSE "", 0, <<"expr">>, <<>>, "block")
    BY <2>2, Zenon DEF CaseMade
  <2> QED BY <2>3 DEF EndCase
<1> DEFINE x == CaseMade(thru)
           n == StmtBuilt(x)
           a == Alloc(<<n>>)
<1>2. Called("end_case")
  BY DEF EndCase
<1>3. /\ Head(goal).do = "end_case" /\ Sane(Head(goal)) /\ IsParser(p)
      /\ IsHeap(heap, p.made) /\ p.made \in Nat
  BY <1>2, Calling
<1>4. Len(p.stack) > 1 /\ p.expr_stack # <<>>
  BY <1>3, SaneIs
<1>5. x.exprs = <<"expr">> /\ x.stmts = <<>> /\ x.leave = "block"
  BY DEF CaseMade, Stmt
<1>6. p.stack # <<>>
  <2>1. Len(<<>>) = 0
    OBVIOUS
  <2> QED BY <1>4, <2>1
<1>7. List \in Seq(Nat) /\ Len(List) \in Nat
  BY <1>3, <1>6, ListIs
<1>8. x.stmts \in StmtOrder /\ Len(x.stmts) = 0 /\ x.exprs \in ExprOrder
  BY <1>5, TheOrders
<1>9. Takes(x)
  <2>1. StmtsSane(x.stmts)
    BY <1>6, <1>7, <1>8 DEF StmtsSane
  <2>2. ExprsSane(x.exprs)
    BY <1>3, <1>4, <1>5, OneExprSane
  <2> QED BY <1>8, <2>1, <2>2 DEF Takes
<1>10. IsNode(n) /\ n.part = StmtParts(x)
  BY <1>3, <1>9, StmtBuiltIs DEF Takes
<1> HIDE DEF x, n
<1>11. IsHeap(a, p.made + 1)
  BY <1>3, <1>10, AllocOne
<1> HIDE DEF a, lone
<1>12. DOMAIN heap' = DOMAIN a /\ IsHeap(heap', p.made + 1) /\ \A i \in DOMAIN heap' : heap'[i].part = a[i].part
  <2>1. CASE ~lone
    BY <1>1, <1>11, <2>1 DEF a, n, x
  <2>2. CASE lone
    <3>1. PICK h : h = heap'
      OBVIOUS
    <3>2. h = [a EXCEPT ![List[1]].type = "NOP"]
      BY <1>1, <2>2, <3>1 DEF a, n, x
    <3>3. DOMAIN h = DOMAIN a
      BY <3>2
    <3>4. \A i \in DOMAIN a : h[i] = IF i = List[1] THEN [a[i] EXCEPT !.type = "NOP"] ELSE a[i]
      BY <3>2
    <3>5. \A i \in DOMAIN a : IsNode(a[i])
      BY <1>11 DEF IsHeap
    <3>6. \A i \in DOMAIN a : IsNode(h[i]) /\ h[i].part = a[i].part
      <4> SUFFICES ASSUME NEW i \in DOMAIN a PROVE IsNode(h[i]) /\ h[i].part = a[i].part
        OBVIOUS
      <4>1. PICK m : m = a[i] /\ IsNode(m)
        BY <3>5
      <4>2. PICK o : o = "NOP"
        OBVIOUS
      <4>3. IsNode([m EXCEPT !.type = o]) /\ [m EXCEPT !.type = o].part = m.part
        BY <4>1, NodeNoted
      <4>4. h[i] = IF i = List[1] THEN [m EXCEPT !.type = o] ELSE m
        BY <3>4, <4>1, <4>2
      <4> QED BY <4>1, <4>3, <4>4
    <3>7. h = [i \in DOMAIN h |-> h[i]]
      BY <3>2
    <3>8. DOMAIN h \subseteq 1..(p.made + 1)
      BY <1>11, <3>3 DEF IsHeap
    <3>9. IsHeap(h, p.made + 1)
      BY <3>3, <3>6, <3>7, <3>8 DEF IsHeap
    <3> QED BY <3>1, <3>3, <3>6, <3>9
  <2> QED BY <2>1, <2>2
<1>13. Makes(x)
  BY <1>10, <1>12, Zenon DEF Makes, a
<1> QED BY <1>4, <1>5, <1>9, <1>13 DEF x

-----------------------------------------------------------------------------
(* The calls that make more nodes. *)

\* A node with one part.
OnlyPart(f, v) == [NoParts EXCEPT ![f] = v]

\* A node that is given a part, arguments or another type.
Put(n, f, v)  == [n EXCEPT !.part[f] = v]
WithArgs(n, x) == [n EXCEPT !.args = x]

LEMMA PutIs ==
  ASSUME NEW n, IsNode(n), NEW f \in Fields, NEW v \in Seq(Nat)
  PROVE  IsNode(Put(n, f, v)) /\ Put(n, f, v).part = [n.part EXCEPT ![f] = v]
BY NodePart DEF Put

LEMMA OneField ==
  ASSUME NEW n, IsNode(n), n.part = NoParts, NEW f \in Fields, NEW v \in Seq(Nat)
  PROVE  IsNode(Put(n, f, v)) /\ Put(n, f, v).part = OnlyPart(f, v)
BY PutIs DEF OnlyPart

LEMMA TwoFields ==
  ASSUME NEW n, IsNode(n), n.part = NoParts, NEW f \in Fields, NEW v \in Seq(Nat),
         NEW g \in Fields, NEW w \in Seq(Nat)
  PROVE  /\ IsNode(Put(Put(n, f, v), g, w))
         /\ Put(Put(n, f, v), g, w).part = [OnlyPart(f, v) EXCEPT ![g] = w]
<1>1. PICK l : l = Put(n, f, v)
  OBVIOUS
<1>2. IsNode(l) /\ l.part = OnlyPart(f, v)
  BY <1>1, OneField
<1>3. PICK q : q = OnlyPart(f, v)
  OBVIOUS
<1>4. IsNode(Put(l, g, w)) /\ Put(l, g, w).part = [l.part EXCEPT ![g] = w]
  BY <1>2, PutIs
<1> QED BY <1>1, <1>2, <1>3, <1>4

LEMMA Noted ==
  ASSUME NEW n, IsNode(n), NEW x
  PROVE  IsNode(WithArgs(n, x)) /\ WithArgs(n, x).part = n.part
BY NodeNoted DEF WithArgs

\* A sequence of one pointer.
LEMMA OnePointer ==
  ASSUME NEW i \in Nat
  PROVE  <<i>> \in Seq(Nat) /\ Len(<<i>>) = 1 /\ <<i>>[1] = i
<1>1. PICK t : t = <<i>>
  OBVIOUS
<1>2. t \in Seq(Nat) /\ Len(t) = 1 /\ t[1] = i
  BY <1>1
<1> QED BY <1>1, <1>2

\* Fields by name.
LEMMA FieldNames ==
  /\ {"inner", "index", "elif", "argv", "lambda"} \subseteq Fields
  /\ {"init", "expr", "guard", "true_case", "false_case", "block"} \subseteq Fields
BY DEF Fields

LEMMA EndLambdaMakes ==
  ASSUME TypeInv, EndLambda
  PROVE  /\ IsHeap(heap', p.made + 3) /\ DOMAIN heap' = DOMAIN heap \cup {Id(1), Id(2), Id(3)}
         /\ \A i \in DOMAIN heap : heap'[i] = heap[i]
         /\ heap'[Id(1)].part = OnlyPart("block", List)
         /\ heap'[Id(2)].part = OnlyPart("true_case", <<Id(1)>>)
         /\ heap'[Id(3)].part = OnlyPart("lambda", <<Id(2)>>)
         /\ {Id(1), Id(2), Id(3)} \cap DOMAIN heap = {} /\ p.stack # <<>>
<1> DEFINE a == [NewStmt("BLOCK", "", 0) EXCEPT !.part["block"] = List]
           b == [NewStmt("FUNC", "?", 0) EXCEPT !.part["true_case"] = <<Id(1)>>, !.args = Last(p.fn_arg).args]
           c == [NewExpr("LAMBDA", "", 0, 0) EXCEPT !.part["lambda"] = <<Id(2)>>]
<1>1. Called("end_lambda") /\ heap' = Alloc(<<a, b, c>>)
  BY DEF EndLambda
<1>2. /\ Head(goal).do = "end_lambda" /\ Sane(Head(goal)) /\ IsParser(p)
      /\ IsHeap(heap, p.made) /\ p.made \in Nat
  BY <1>1, Calling
<1>3. p.stack # <<>>
  BY <1>2, SaneIs
<1>4. List \in Seq(Nat)
  BY <1>2, <1>3, ListIs
<1>5. Id(1) \in Nat /\ Id(2) \in Nat
  BY <1>2 DEF Id
<1>6. <<Id(1)>> \in Seq(Nat) /\ <<Id(2)>> \in Seq(Nat)
  BY <1>5, OnePointer
<1>7. IsNode(a) /\ a.part = OnlyPart("block", List)
  <2>1. PICK n : n = NewStmt("BLOCK", "", 0) /\ IsNode(n) /\ n.part = NoParts
    BY NodeIs DEF NewStmt
  <2>2. IsNode(n) /\ n.part = NoParts /\ "block" \in Fields
    BY <2>1, FieldNames
  <2>3. a = Put(n, "block", List)
    BY <2>1 DEF Put
  <2> HIDE DEF a
  <2> QED BY <1>4, <2>2, <2>3, OneField
<1>8. IsNode(b) /\ b.part = OnlyPart("true_case", <<Id(1)>>)
  <2>1. PICK n : n = NewStmt("FUNC", "?", 0) /\ IsNode(n) /\ n.part = NoParts
    BY NodeIs DEF NewStmt
  <2>2. IsNode(n) /\ n.part = NoParts /\ "true_case" \in Fields
    BY <2>1, FieldNames
  <2>3. PICK m : m = Put(n, "true_case", <<Id(1)>>)
    OBVIOUS
  <2>4. IsNode(m) /\ m.part = OnlyPart("true_case", <<Id(1)>>)
    BY <1>6, <2>2, <2>3, OneField
  <2>5. b = WithArgs(m, Last(p.fn_arg).args)
    BY <2>1, <2>3 DEF Put, WithArgs
  <2> HIDE DEF b
  <2>6. IsNode(b) /\ b.part = m.part
    BY <2>4, <2>5, Noted
  <2> QED BY <2>4, <2>6
<1>9. IsNode(c) /\ c.part = OnlyPart("lambda", <<Id(2)>>)
  <2>1. PICK n : n = NewExpr("LAMBDA", "", 0, 0) /\ IsNode(n) /\ n.part = NoParts
    BY NodeIs DEF NewExpr
  <2>2. IsNode(n) /\ n.part = NoParts /\ "lambda" \in Fields
    BY <2>1, FieldNames
  <2>3. c = Put(n, "lambda", <<Id(2)>>)
    BY <2>1 DEF Put
  <2> HIDE DEF c
  <2> QED BY <1>6, <2>2, <2>3, OneField
<1> HIDE DEF a, b, c
<1>10. PICK new : new = <<a, b, c>>
  OBVIOUS
<1>11. Len(new) = 3 /\ DOMAIN new = 1..3 /\ new[1] = a /\ new[2] = b /\ new[3] = c
  BY <1>10
<1>12. \A j \in 1..3 : IsNode(new[j])
  BY <1>7, <1>8, <1>9, <1>11
<1>13. /\ IsHeap(Alloc(new), p.made + 3)
       /\ DOMAIN Alloc(new) = DOMAIN heap \cup {Id(j) : j \in 1..3}
       /\ \A i \in DOMAIN heap : Alloc(new)[i] = heap[i]
       /\ \A j \in 1..3 : Alloc(new)[Id(j)] = new[j] /\ Id(j) \notin DOMAIN heap
  BY <1>2, <1>11, <1>12, AllocIs
<1>14. 1 \in 1..3 /\ 2 \in 1..3 /\ 3 \in 1..3 /\ {Id(j) : j \in 1..3} = {Id(1), Id(2), Id(3)}
  OBVIOUS
<1>15. heap' = Alloc(new)
  BY <1>1, <1>10
<1> HIDE DEF Id, Alloc
<1>16. heap'[Id(1)] = a /\ heap'[Id(2)] = b /\ heap'[Id(3)] = c
       /\ Id(1) \notin DOMAIN heap /\ Id(2) \notin DOMAIN heap /\ Id(3) \notin DOMAIN heap
  BY <1>11, <1>13, <1>14, <1>15
<1> QED BY <1>3, <1>7, <1>8, <1>9, <1>13, <1>14, <1>15, <1>16

\* The nodes of a combined assignment, one by one.
LEMMA CombinedAre ==
  ASSUME NEW x, NEW k \in Nat
  PROVE  IsParser(p) /\ ExprsSane(Combines(x)) /\ k = Len(Arguments(x)) =>
         /\ Arguments(x) \in Seq(Nat) /\ Len(Combined(x)) = 3 + k /\ DOMAIN Combined(x) = 1..(3 + k)
         /\ Combined(x)[1] = [NewExpr(TypeOf(x, "REF", "REF_ARRAY"), "", x.name, 0) EXCEPT
                                 !.part["argv"] = Arguments(x)]
         /\ Combined(x)[2] = [NewExpr("INFIX", x.op, 0, 0) EXCEPT
                                 !.part["inner"] = <<Id(1)>>,
                                 !.part["index"] = PopExpr(Combines(x), "inner")]
         /\ Combined(x)[3] = [NewExpr(TypeOf(x, "ASSIGN", "ASSIGN_ARRAY"), "", x.name, 0) EXCEPT
                                 !.part["inner"] = <<Id(2)>>, !.part["argv"] = Copies(x)]
         /\ \A j \in 1..k : Combined(x)[3 + j] = heap[Arguments(x)[j]]
<1> HAVE IsParser(p) /\ ExprsSane(Combines(x)) /\ k = Len(Arguments(x))
<1> DEFINE t == [j \in DOMAIN Arguments(x) |-> heap[Arguments(x)[j]]]
<1>1. Arguments(x) \in Seq(Nat) /\ Len(Combined(x)) = 3 + k
  BY CombinedIs
<1>2. DOMAIN t = 1..k /\ \A j \in 1..k : t[j] = heap[Arguments(x)[j]]
  BY <1>1
<1>3. PICK a, b, c :
        /\ a = [NewExpr(TypeOf(x, "REF", "REF_ARRAY"), "", x.name, 0) EXCEPT !.part["argv"] = Arguments(x)]
        /\ b = [NewExpr("INFIX", x.op, 0, 0) EXCEPT
                   !.part["inner"] = <<Id(1)>>, !.part["index"] = PopExpr(Combines(x), "inner")]
        /\ c = [NewExpr(TypeOf(x, "ASSIGN", "ASSIGN_ARRAY"), "", x.name, 0) EXCEPT
                   !.part["inner"] = <<Id(2)>>, !.part["argv"] = Copies(x)]
  OBVIOUS
<1>4. Combined(x) = <<a, b, c>> \o t
  BY <1>3, Zenon DEF Combined
<1>5. PICK S : S = {t[j] : j \in 1..k} \cup {a, b, c}
  OBVIOUS
<1>6. PICK u \in Seq(S) : u = t /\ Len(u) = k
  <2>1. PICK u : u = t
    OBVIOUS
  <2>2. DOMAIN u = 1..k /\ \A j \in 1..k : u[j] \in S
    BY <1>2, <1>5, <2>1
  <2>3. u = [j \in 1..k |-> u[j]]
    BY <1>2, <2>1
  <2>4. u \in Seq(S) /\ Len(u) = k
    BY <2>2, <2>3
  <2> QED BY <2>1, <2>4
<1> HIDE DEF t
<1>7. PICK h \in Seq(S) : h = <<a, b, c>> /\ Len(h) = 3 /\ h[1] = a /\ h[2] = b /\ h[3] = c
  <2>1. a \in S /\ b \in S /\ c \in S
    BY <1>5
  <2>2. PICK h : h = <<a, b, c>>
    OBVIOUS
  <2>3. h \in Seq(S) /\ Len(h) = 3 /\ h[1] = a /\ h[2] = b /\ h[3] = c
    BY <2>1, <2>2
  <2> QED BY <2>2, <2>3
<1>8. PICK w \in Seq(S) : w = Combined(x) /\ Len(w) = 3 + k
                          /\ \A j \in 1..(3 + k) : w[j] = IF j <= 3 THEN h[j] ELSE u[j - 3]
  <2>1. /\ h \o u \in Seq(S) /\ Len(h \o u) = Len(h) + Len(u)
        /\ \A j \in 1..(Len(h) + Len(u)) : (h \o u)[j] = IF j <= Len(h) THEN h[j] ELSE u[j - Len(h)]
    BY ConcatProperties
  <2> QED BY <1>4, <1>6, <1>7, <2>1
<1>9. w[1] = a /\ w[2] = b /\ w[3] = c /\ DOMAIN w = 1..(3 + k)
  BY <1>7, <1>8
<1>10. \A j \in 1..k : w[3 + j] = u[j]
  <2> TAKE j \in 1..k
  <2>1. 3 + j \in 1..(3 + k) /\ ~(3 + j <= 3) /\ 3 + j - 3 = j
    OBVIOUS
  <2> QED BY <1>8, <2>1
<1>11. \A j \in 1..k : w[3 + j] = heap[Arguments(x)[j]]
  BY <1>2, <1>6, <1>10, Zenon
<1> QED BY <1>1, <1>3, <1>8, <1>9, <1>11, Zenon

\* Where the copies of the arguments are.
LEMMA CopiesAre ==
  ASSUME NEW x, Arguments(x) \in Seq(Nat), NEW k \in Nat, k = Len(Arguments(x)), p.made \in Nat
  PROVE  /\ Copies(x) \in Seq({Id(3 + j) : j \in 1..k}) /\ Len(Copies(x)) = k /\ Copies(x) \in Seq(Nat)
         /\ \A j \in 1..k : Copies(x)[j] = Id(3 + j)
<1>1. DOMAIN Arguments(x) = 1..k
  OBVIOUS
<1>2. PICK c : c = Copies(x)
  OBVIOUS
<1>3. c = [j \in 1..k |-> Id(3 + j)]
  BY <1>1, <1>2 DEF Copies
<1>4. PICK S : S = {Id(3 + j) : j \in 1..k}
  OBVIOUS
<1>5. \A j \in 1..k : Id(3 + j) \in S /\ Id(3 + j) \in Nat
  BY <1>4 DEF Id
<1> HIDE DEF Id
<1>6. c \in Seq(S) /\ c \in Seq(Nat) /\ Len(c) = k
  BY <1>3, <1>5
<1> QED BY <1>2, <1>3, <1>4, <1>6

LEMMA ArgumentsThere ==
  ASSUME NEW act, Called(act), CanCopy, act \in {"op_assign", "op_assign_array"}
  PROVE  Range(Arguments(Head(goal))) \subseteq DOMAIN heap
<1>1. At(act) /\ Sane(Head(goal)) /\ copying = <<>> /\ Head(goal).do = act
  BY DEF Called, At, Idle
<1>2. CASE act = "op_assign_array"
  <2>1. CopiedNext = Arguments(Head(goal))
    BY <1>1, <1>2 DEF CopiedNext
  <2> QED BY <2>1 DEF CanCopy
<1>3. CASE act = "op_assign"
  <2>1. Arguments(Head(goal)) = <<>>
    BY <1>1, <1>3 DEF Arguments
  <2>2. PICK e : e = <<>>
    OBVIOUS
  <2>3. Range(e) = {}
    BY <2>2 DEF Range
  <2> QED BY <2>1, <2>2, <2>3
<1> QED BY <1>2, <1>3

LEMMA EndOpAssignMakes ==
  ASSUME TypeInv, EndOpAssign
  PROVE  LET x     == Head(goal)
             argv  == Arguments(x)
             inner == PopExpr(Combines(x), "inner")
         IN /\ ExprsSane(Combines(x)) /\ argv \in Seq(DOMAIN heap) /\ inner \in Seq(Nat)
            /\ argv \in Seq(Nat) /\ Copies(x) \in Seq(Nat)
            /\ IsHeap(heap', p.made + (3 + Len(argv)))
            /\ DOMAIN heap' = DOMAIN heap \cup {Id(j) : j \in 1..(3 + Len(argv))}
            /\ \A i \in DOMAIN heap : heap'[i] = heap[i]
            /\ heap'[Id(1)].part = OnlyPart("argv", argv)
            /\ heap'[Id(2)].part = [OnlyPart("inner", <<Id(1)>>) EXCEPT !["index"] = inner]
            /\ heap'[Id(3)].part = [OnlyPart("inner", <<Id(2)>>) EXCEPT !["argv"] = Copies(x)]
            /\ \A j \in 1..Len(argv) : heap'[Id(3 + j)] = heap[argv[j]]
            /\ copying' = Copies(x) /\ Copies(x) \in Seq(DOMAIN heap')
            /\ p'.made = p.made + (3 + Len(argv))
<1> DEFINE x     == Head(goal)
           argv  == Arguments(x)
           inner == PopExpr(Combines(x), "inner")
<1>1. PICK act \in {"op_assign", "op_assign_array"} : Called(act)
  BY DEF EndOpAssign
<1>2. /\ x.do = act /\ Sane(x) /\ IsParser(p) /\ IsHeap(heap, p.made) /\ p.made \in Nat
  BY <1>1, Calling
<1>3. /\ heap' = Alloc(Combined(x)) /\ copying' = Copies(x) /\ CanCopy
      /\ p' = PushExpr([p EXCEPT !.expr_stack = ExprsLeft(Combines(x)),
                                   !.arg_count = CountsLeft(Combines(x)),
                                   !.made = @ + Len(Combined(x))], Id(3))
  BY DEF EndOpAssign
<1>4. ExprsSane(Combines(x)) /\ Combines(x) \in Pops
  BY <1>1, <1>2, SaneIs, CombinesIs
<1>5. PICK k \in Nat : k = Len(argv)
  BY <1>2, <1>4, CombinedIs
<1>6. /\ argv \in Seq(Nat) /\ Len(Combined(x)) = 3 + k /\ DOMAIN Combined(x) = 1..(3 + k)
      /\ Combined(x)[1] = [NewExpr(TypeOf(x, "REF", "REF_ARRAY"), "", x.name, 0) EXCEPT !.part["argv"] = argv]
      /\ Combined(x)[2] = [NewExpr("INFIX", x.op, 0, 0) EXCEPT
                             !.part["inner"] = <<Id(1)>>, !.part["index"] = inner]
      /\ Combined(x)[3] = [NewExpr(TypeOf(x, "ASSIGN", "ASSIGN_ARRAY"), "", x.name, 0) EXCEPT
                             !.part["inner"] = <<Id(2)>>, !.part["argv"] = Copies(x)]
      /\ \A j \in 1..k : Combined(x)[3 + j] = heap[argv[j]]
  BY <1>2, <1>4, <1>5, CombinedAre, Zenon
<1>7. inner \in Seq(Nat)
  <2>1. "inner" \in Range(Combines(x))
    <3>1. PICK o \in Pops : o = Combines(x) /\ 1 \in 1..Len(o) /\ o[1] = "inner"
      BY CombinesIs
    <3> QED BY <3>1, OrderIs DEF Pops
  <2> QED BY <1>2, <1>4, <2>1, ExprPartsIs DEF Pops
<1>8. /\ Copies(x) \in Seq({Id(3 + j) : j \in 1..k}) /\ Copies(x) \in Seq(Nat)
  BY <1>2, <1>5, <1>6, CopiesAre
<1>9. Id(1) \in Nat /\ Id(2) \in Nat /\ <<Id(1)>> \in Seq(Nat) /\ <<Id(2)>> \in Seq(Nat)
  <2>1. Id(1) \in Nat /\ Id(2) \in Nat
    BY <1>2 DEF Id
  <2> QED BY <2>1, OnePointer
<1>10. argv \in Seq(DOMAIN heap) /\ \A j \in 1..k : argv[j] \in DOMAIN heap
  <2>1. Range(argv) \subseteq DOMAIN heap
    BY <1>1, <1>3, ArgumentsThere
  <2>2. DOMAIN argv = 1..k
    <3>1. argv \in Seq(Nat)
      BY <1>6, Zenon
    <3>2. PICK t : t = argv
      OBVIOUS
    <3>3. t \in Seq(Nat) /\ k = Len(t)
      BY <1>5, <3>1, <3>2, Zenon
    <3>4. DOMAIN t = 1..k
      BY <3>3
    <3> QED BY <3>2, <3>4
  <2>3. \A j \in 1..k : argv[j] \in DOMAIN heap
    BY <2>1, <2>2 DEF Range
  <2>4. PICK t : t = argv
    OBVIOUS
  <2>5. t = [j \in 1..k |-> t[j]]
    <3>1. t \in Seq(Nat) /\ DOMAIN t = 1..k
      BY <1>6, <2>2, <2>4, Zenon
    <3> QED BY <3>1
  <2>6. t \in Seq(DOMAIN heap)
    BY <2>3, <2>4, <2>5
  <2> QED BY <2>3, <2>4, <2>6
<1> DEFINE c == Combined(x)
<1>11. IsNode(c[1]) /\ c[1].part = OnlyPart("argv", argv)
  <2>1. PICK n : n = NewExpr(TypeOf(x, "REF", "REF_ARRAY"), "", x.name, 0) /\ IsNode(n) /\ n.part = NoParts
    BY NodeIs DEF NewExpr
  <2>2. IsNode(n) /\ n.part = NoParts /\ "argv" \in Fields
    BY <2>1, FieldNames
  <2>3. c[1] = Put(n, "argv", argv)
    BY <1>6, <2>1, Zenon DEF Put
  <2>4. argv \in Seq(Nat)
    BY <1>6, Zenon
  <2> HIDE DEF c, argv
  <2> QED BY <2>2, <2>3, <2>4, OneField
<1>12. IsNode(c[2]) /\ c[2].part = [OnlyPart("inner", <<Id(1)>>) EXCEPT !["index"] = inner]
  <2>1. PICK n : n = NewExpr("INFIX", x.op, 0, 0) /\ IsNode(n) /\ n.part = NoParts
    BY NodeIs DEF NewExpr
  <2>2. IsNode(n) /\ n.part = NoParts /\ "inner" \in Fields /\ "index" \in Fields
    BY <2>1, FieldNames
  <2>3. c[2] = Put(Put(n, "inner", <<Id(1)>>), "index", inner)
    BY <1>6, <2>1, Zenon DEF Put
  <2>4. PICK v : v = <<Id(1)>> /\ v \in Seq(Nat)
    BY <1>9
  <2> HIDE DEF c, inner
  <2>5. PICK w : w = inner /\ w \in Seq(Nat)
    BY <1>7
  <2>7. v \in Seq(Nat) /\ w \in Seq(Nat)
    BY <2>4, <2>5
  <2>6. /\ IsNode(Put(Put(n, "inner", v), "index", w))
        /\ Put(Put(n, "inner", v), "index", w).part = [OnlyPart("inner", v) EXCEPT !["index"] = w]
    BY <2>2, <2>7, TwoFields
  <2> QED BY <2>3, <2>4, <2>5, <2>6, Zenon
<1>13. IsNode(c[3]) /\ c[3].part = [OnlyPart("inner", <<Id(2)>>) EXCEPT !["argv"] = Copies(x)]
  <2>1. PICK n : n = NewExpr(TypeOf(x, "ASSIGN", "ASSIGN_ARRAY"), "", x.name, 0) /\ IsNode(n) /\ n.part = NoParts
    BY NodeIs DEF NewExpr
  <2>2. IsNode(n) /\ n.part = NoParts /\ "inner" \in Fields /\ "argv" \in Fields
    BY <2>1, FieldNames
  <2>3. c[3] = Put(Put(n, "inner", <<Id(2)>>), "argv", Copies(x))
    BY <1>6, <2>1, Zenon DEF Put
  <2>4. PICK v : v = <<Id(2)>> /\ v \in Seq(Nat)
    BY <1>9
  <2>5. PICK w : w = Copies(x) /\ w \in Seq(Nat)
    BY <1>8
  <2> HIDE DEF c
  <2>7. v \in Seq(Nat) /\ w \in Seq(Nat)
    BY <2>4, <2>5
  <2>6. /\ IsNode(Put(Put(n, "inner", v), "argv", w))
        /\ Put(Put(n, "inner", v), "argv", w).part = [OnlyPart("inner", v) EXCEPT !["argv"] = w]
    BY <2>2, <2>7, TwoFields
  <2> QED BY <2>3, <2>4, <2>5, <2>6, Zenon
<1>14. \A j \in 1..(3 + k) : IsNode(c[j])
  <2> SUFFICES ASSUME NEW j \in 1..(3 + k) PROVE IsNode(c[j])
    OBVIOUS
  <2> HIDE DEF c
  <2>1. CASE j \in 1..3
    BY <1>11, <1>12, <1>13, <2>1
  <2>2. CASE j \notin 1..3
    <3>1. PICK l \in 1..k : j = 3 + l
      <4>1. j - 3 \in 1..k /\ j = 3 + (j - 3)
        BY <2>2
      <4> QED BY <4>1
    <3>2. c[j] = heap[argv[l]] /\ argv[l] \in DOMAIN heap
      BY <1>6, <1>10, <3>1 DEF c
    <3>3. IsNode(heap[argv[l]])
      BY <1>2, <3>2 DEF IsHeap
    <3> QED BY <3>2, <3>3
  <2> QED BY <2>1, <2>2
<1>15. 3 + k \in Nat /\ 1 \in 1..(3 + k) /\ 2 \in 1..(3 + k) /\ 3 \in 1..(3 + k)
  OBVIOUS
<1>16. /\ IsHeap(Alloc(c), p.made + (3 + k))
       /\ DOMAIN Alloc(c) = DOMAIN heap \cup {Id(j) : j \in 1..(3 + k)}
       /\ \A i \in DOMAIN heap : Alloc(c)[i] = heap[i]
       /\ \A j \in 1..(3 + k) : Alloc(c)[Id(j)] = c[j]
  <2>1. PICK m \in Nat : m = 3 + k
    BY <1>15
  <2>2. PICK d : d = c /\ Len(d) = m /\ DOMAIN d = 1..m
    BY <1>6, <2>1, Zenon
  <2>3. \A j \in 1..m : IsNode(d[j])
    BY <1>14, <2>1, <2>2
  <2> HIDE DEF c
  <2>4. IsHeap(heap, p.made) /\ p.made \in Nat
    BY <1>2
  <2>5. /\ IsHeap(Alloc(d), p.made + m)
        /\ DOMAIN Alloc(d) = DOMAIN heap \cup {Id(j) : j \in 1..m}
        /\ \A i \in DOMAIN heap : Alloc(d)[i] = heap[i]
        /\ \A j \in 1..m : Alloc(d)[Id(j)] = d[j]
    BY <2>1, <2>2, <2>3, <2>4, AllocIs
  <2> HIDE DEF Alloc, Id
  <2> QED BY <2>1, <2>2, <2>5
<1>17. \A j \in 1..k : 3 + j \in 1..(3 + k)
  OBVIOUS
<1>18. p'.made = p.made + (3 + k)
  BY <1>2, <1>3, <1>6 DEF PushExpr, IsParser
<1>19. Copies(x) \in Seq(DOMAIN Alloc(c))
  <2>1. {Id(3 + j) : j \in 1..k} \subseteq DOMAIN Alloc(c)
    BY <1>16, <1>17
  <2> QED BY <1>8, <2>1, SeqMonotonic
<1>20. \A j \in 1..k : Alloc(c)[Id(3 + j)] = heap[argv[j]]
  <2> TAKE j \in 1..k
  <2>1. 3 + j \in 1..(3 + k) /\ c[3 + j] = heap[argv[j]]
    BY <1>6, <1>17
  <2> QED BY <1>16, <2>1
<1>21. Alloc(c)[Id(1)] = c[1] /\ Alloc(c)[Id(2)] = c[2] /\ Alloc(c)[Id(3)] = c[3]
  BY <1>15, <1>16
<1>22. heap' = Alloc(c)
  BY <1>3
<1> HIDE DEF c, inner, argv, x, Alloc, Id
<1> QED BY <1>3, <1>4, <1>5, <1>6, <1>7, <1>8, <1>10, <1>11, <1>12, <1>13, <1>16, <1>18, <1>19, <1>20, <1>21, <1>22
   DEF x, inner, argv

-----------------------------------------------------------------------------
(* The steps that are no calls. *)

\* The goal is changed, and what it adds to the stacks is the same.
LEMMA BalanceMoves ==
  ASSUME StackInv, phase = "parse", phase' = "parse", IsGoal(goal'), IsParser(p'),
         p'.expr_stack = p.expr_stack, p'.arg_count = p.arg_count, p'.stack = p.stack,
         p'.fn_arg = p.fn_arg,
         \A q \in {"exprs", "counts", "lists", "defs"} : Total(q, goal') = Total(q, goal),
         Len(p'.include) + Total("files", goal') = Len(p.include) + Total("files", goal),
         Outermost(p', s'.source_file)
  PROVE  StackInv'
<1>1. Balanced(p, goal)
  BY DEF StackInv, Balance
<1>2. Balanced(p', goal')
  BY <1>1 DEF Balanced
<1> QED BY <1>2 DEF StackInv, Types, Balance, Emptied

LEMMA NonterminalIs ==
  ASSUME NEW x, x.do = "nonterminal"
  PROVE  /\ Weight("exprs", x) = Exprs(x.lhs) /\ Weight("counts", x) = Counts(x.lhs)
         /\ Weight("lists", x) = 0 /\ Weight("defs", x) = 0 /\ Weight("files", x) = 0
BY DEF Weight

LEMMA ExpandKeeps ==
  ASSUME StackInv, Expand
  PROVE  StackInv'
<1>1. /\ phase = "parse" /\ phase' = "parse" /\ goal # <<>> /\ Head(goal).do = "nonterminal"
      /\ p' = p /\ s' = s
  BY DEF Expand, At
<1>2. PICK r : /\ r \in Rules(2 * used + 1, 2 * used + 2, s.source_file) /\ Head(goal).lhs \in r.lhs
               /\ goal' = r.rhs \o Tail(goal)
  BY DEF Expand
<1>3. Fits(r)
  BY <1>2, ExprRulesFit, IndexRulesFit, CallRulesFit, StmtRulesFit, DefinitionRulesFit DEF Rules
<1>4. Adds(r.rhs, Exprs(Head(goal).lhs), Counts(Head(goal).lhs), 0, 0)
  BY <1>2, <1>3 DEF Fits
<1>5. /\ IsGoal(r.rhs) /\ Total("exprs", r.rhs) = Weight("exprs", Head(goal))
      /\ Total("counts", r.rhs) = Weight("counts", Head(goal))
      /\ Total("lists", r.rhs) = Weight("lists", Head(goal))
      /\ Total("defs", r.rhs) = Weight("defs", Head(goal))
      /\ Total("files", r.rhs) = Weight("files", Head(goal))
  BY <1>1, <1>4, NonterminalIs DEF Adds
<1>6. /\ IsGoal(Tail(goal)) /\ \A q : Total(q, goal) = Weight(q, Head(goal)) + Total(q, Tail(goal))
      /\ IsParser(p)
  BY <1>1, GoalStep DEF StackInv, Types
<1>7. IsGoal(goal') /\ \A q : Total(q, goal') = Total(q, r.rhs) + Total(q, Tail(goal))
  BY <1>2, <1>5, <1>6, GoalJoin, TotalOfConcat
<1>8. \A q \in {"exprs", "counts", "lists", "defs", "files"} : Total(q, goal') = Total(q, goal)
  BY <1>5, <1>6, <1>7
<1>9. Outermost(p', s'.source_file)
  BY <1>1 DEF StackInv
<1> QED BY <1>1, <1>6, <1>7, <1>8, <1>9, BalanceMoves

LEMMA ReadKeeps ==
  ASSUME StackInv, Read \/ ReadAgain
  PROVE  StackInv'
<1>1. /\ phase = "parse" /\ phase' = "parse" /\ goal # <<>> /\ Head(goal).do \in {"say", "again"}
      /\ p' = p /\ s' = s /\ goal' = Tail(goal)
  BY DEF Read, ReadAgain, At
<1>2. \A q \in {"exprs", "counts", "lists", "defs", "files"} : Weight(q, Head(goal)) = 0
  BY <1>1 DEF Weight
<1>3. /\ IsGoal(Tail(goal)) /\ \A q : Total(q, goal) = Weight(q, Head(goal)) + Total(q, Tail(goal))
      /\ \A q : Total(q, Tail(goal)) \in Int
      /\ IsParser(p)
  BY <1>1, GoalStep DEF StackInv, Types
<1>4. \A q \in {"exprs", "counts", "lists", "defs", "files"} : Total(q, goal') = Total(q, goal)
  BY <1>1, <1>2, <1>3
<1>5. Outermost(p', s'.source_file)
  BY <1>1 DEF StackInv
<1> QED BY <1>1, <1>3, <1>4, <1>5, BalanceMoves

LEMMA LeftList ==
  ASSUME NEW L \in Seq(Seq(Nat))
  PROVE  Front(L) \in Seq(Seq(Nat)) /\ (Len(L) = 1 => Front(L) = <<>>)
<1>1. CASE L = <<>>
  <2>1. Len(L) = 0
    BY <1>1
  <2>2. Front(L) = <<>>
    BY <2>1, SubSeqEmpty DEF Front
  <2>3. PICK e : e = <<>> /\ e \in Seq(Seq(Nat))
    <3>1. PICK S : S = Seq(Nat)
      OBVIOUS
    <3>2. PICK e : e = <<>>
      OBVIOUS
    <3>3. e \in Seq(S)
      BY <3>2
    <3> QED BY <3>1, <3>2, <3>3
  <2> QED BY <2>1, <2>2, <2>3
<1>2. CASE L # <<>>
  <2>1. PICK S : S = Seq(Nat)
    OBVIOUS
  <2>2. PICK F : F = Front(L)
    OBVIOUS
  <2>3. F \in Seq(S) /\ Len(F) = Len(L) - 1
    BY <1>2, <2>1, <2>2, FrontOf
  <2>4. Len(L) = 1 => F = <<>>
    BY <2>3
  <2> QED BY <2>1, <2>2, <2>3, <2>4
<1> QED BY <1>1, <1>2

LEMMA SyntaxErrorKeeps ==
  ASSUME StackInv, SyntaxError
  PROVE  StackInv'
<1>1. /\ phase' = "failed" /\ goal' = goal /\ s' = s
      /\ p' = [LeaveList(p) EXCEPT !.parser_error = @ + 1]
  BY DEF SyntaxError
<1>2. IsParser(p) /\ IsGoal(goal) /\ Outermost(p, s.source_file)
  BY DEF StackInv, Types
<1>3. PICK F : F = Front(p.stack)
  OBVIOUS
<1>4. F \in Seq(Seq(Nat))
  BY <1>2, <1>3, LeftList DEF IsParser
<1>5. p' = Data(p.expr_stack, p.arg_count, F, p.fn_arg, p.class_parent, p.include,
                p.parser_error + 1, p.made)
  <2>1. LeaveList(p) = Data(p.expr_stack, p.arg_count, F, p.fn_arg, p.class_parent, p.include,
                            p.parser_error, p.made)
    BY <1>2, <1>3, ParserIsData, DataMade
  <2> QED BY <1>1, <2>1 DEF Data
<1>6. IsParser(p')
  <2>1. /\ p.expr_stack \in Seq(Nat) /\ p.arg_count \in Seq(Nat \ {0}) /\ IsList(p.fn_arg)
        /\ IsList(p.include) /\ p.parser_error + 1 \in Nat /\ p.made \in Nat
    BY <1>2 DEF IsParser
  <2> QED BY <1>4, <1>5, <2>1, DataTyped, Zenon
<1>7. p'.include = p.include
  BY <1>5, DataIs
<1> QED BY <1>1, <1>2, <1>6, <1>7 DEF StackInv, Types, Balance, Emptied, Outermost

LEMMA FinishKeeps ==
  ASSUME StackInv, s \in [source_file : {s.source_file}, script : Seq(Nat)], Finish
  PROVE  StackInv'
<1>1. /\ phase = "parse" /\ phase' \in {"failed", "done"} /\ goal = <<>> /\ goal' = goal
      /\ p' = LeaveList(p) /\ (s' = s \/ s' = [s EXCEPT !.script = List])
  BY DEF Finish
<1>2. IsParser(p) /\ IsGoal(goal) /\ Outermost(p, s.source_file)
  BY DEF StackInv, Types
<1>3. PICK F : F = Front(p.stack)
  OBVIOUS
<1>4. F \in Seq(Seq(Nat)) /\ (Len(p.stack) = 1 => F = <<>>)
  BY <1>2, <1>3, LeftList DEF IsParser
<1>5. p' = Data(p.expr_stack, p.arg_count, F, p.fn_arg, p.class_parent, p.include,
                p.parser_error, p.made)
  BY <1>1, <1>2, <1>3, ParserIsData, DataMade
<1>6. /\ p.expr_stack \in Seq(Nat) /\ p.arg_count \in Seq(Nat \ {0}) /\ IsList(p.fn_arg)
      /\ IsList(p.include) /\ p.parser_error \in Nat /\ p.made \in Nat
  BY <1>2 DEF IsParser
<1>7. IsParser(p')
  BY <1>4, <1>5, <1>6, DataTyped, Zenon
<1>8. /\ p'.include = p.include /\ p'.expr_stack = p.expr_stack /\ p'.arg_count = p.arg_count
      /\ p'.fn_arg = p.fn_arg /\ p'.stack = F
  BY <1>5, DataIs
<1>9. s'.source_file = s.source_file
  BY <1>1
<1>10. /\ Loose(p.expr_stack, p.arg_count) = 0 /\ Len(p.arg_count) = 0 /\ Len(p.stack) = 1
       /\ Len(p.fn_arg) = 0 /\ Len(p.include) = 0
  <2>1. Balanced(p, goal)
    BY <1>1 DEF StackInv, Balance
  <2>2. /\ Total("exprs", goal) = 0 /\ Total("counts", goal) = 0 /\ Total("lists", goal) = 0
        /\ Total("defs", goal) = 0 /\ Total("files", goal) = 0
    BY <1>1, TotalOfNone
  <2>3. /\ Loose(p.expr_stack, p.arg_count) \in Int /\ Len(p.arg_count) \in Nat /\ Len(p.stack) \in Nat
        /\ Len(p.fn_arg) \in Nat /\ Len(p.include) \in Nat
    BY TypesHold DEF StackInv
  <2>4. Loose(p.expr_stack, p.arg_count) = 0
    <3>1. PICK l \in Int : l = Loose(p.expr_stack, p.arg_count)
      BY <2>3
    <3>2. l + 0 = 0
      BY <2>1, <2>2, <3>1, Zenon DEF Balanced
    <3> QED BY <3>1, <3>2
  <2>9. PICK c \in Nat, l \in Nat, d \in Nat, i \in Nat :
          c = Len(p.arg_count) /\ l = Len(p.stack) /\ d = Len(p.fn_arg) /\ i = Len(p.include)
    BY <2>3
  <2>10. c + 0 = 0 /\ l + 0 = 1 /\ d + 0 = 0 /\ i + 0 = 0
    BY <2>1, <2>2, <2>9, Zenon DEF Balanced
  <2>11. c = 0 /\ l = 1 /\ d = 0 /\ i = 0
    BY <2>9, <2>10
  <2> QED BY <2>4, <2>9, <2>11
<1>11. p.arg_count = <<>> /\ p.fn_arg = <<>> /\ p.include = <<>>
  <2>1. p.arg_count = <<>>
    BY <1>6, <1>10
  <2> QED BY <1>6, <1>10, <2>1, ListProperties
<1>12. p.expr_stack = <<>>
  <2>1. SumOf(p.arg_count) = 0
    BY <1>11, SumOfNone
  <2>2. Len(p.expr_stack) = 0
    BY <1>6, <1>10, <2>1 DEF Loose
  <2> QED BY <1>6, <2>2
<1>13. AllUsed(p')
  BY <1>4, <1>8, <1>10, <1>11, <1>12 DEF AllUsed
<1>14. Outermost(p', s'.source_file)
  BY <1>2, <1>8, <1>9 DEF Outermost
<1>15. Types'
  BY <1>1, <1>2, <1>7 DEF Types
<1> QED BY <1>1, <1>13, <1>14, <1>15 DEF StackInv, Balance, Emptied
LEMMA EofIs == IsSymbol([do |-> "eof"]) /\ \A q : Weight(q, [do |-> "eof"]) = IF q = "files" THEN -1 ELSE 0
<1>1. PICK x : x = [do |-> "eof"]
  OBVIOUS
<1>2. x.do = "eof"
  BY <1>1
<1>3. IsSymbol(x) /\ \A q : Weight(q, x) = IF q = "files" THEN -1 ELSE 0
  BY <1>2 DEF IsSymbol, Weight
<1> QED BY <1>1, <1>3

LEMMA GoalPart ==
  ASSUME NEW g, IsGoal(g), NEW m \in Int, NEW n \in Int, 1 <= m, n <= Len(g)
  PROVE  IsGoal(SubSeq(g, m, n))
<1>1. /\ g \in Seq(Range(g)) /\ Len(g) \in Nat /\ DOMAIN g = 1..Len(g)
      /\ \A x \in Range(g) : IsSymbol(x)
  BY GoalProperties DEF IsGoal
<1>2. \A i \in m..n : g[i] \in Range(g)
  BY <1>1 DEF Range
<1>3. SubSeq(g, m, n) \in Seq(Range(g))
  BY <1>2, SubSeqProperties
<1> QED BY <1>1, <1>3, GoalOf

LEMMA EnterIncludeKeeps ==
  ASSUME StackInv, s \in [source_file : {s.source_file}, script : Seq(Nat)], EnterInclude
  PROVE  StackInv'
<1>1. /\ phase = "parse" /\ phase' = "parse" /\ goal # <<>> /\ Head(goal).do = "include"
      /\ p' = [p EXCEPT !.include = Append(@, s.source_file)]
      /\ s' = [s EXCEPT !.source_file = Head(goal).name]
  BY DEF EnterInclude, At
<1>2. PICK eof : eof = [do |-> "eof"]
  OBVIOUS
<1>3. PICK k \in 0..(Len(goal) - 1) :
        goal' = SubSeq(goal, 2, k + 1) \o <<eof>> \o SubSeq(goal, k + 2, Len(goal))
  BY <1>2 DEF EnterInclude
<1>4. IsGoal(goal) /\ IsParser(p) /\ Outermost(p, s.source_file)
  BY DEF StackInv, Types
<1>5. goal \in Seq(Range(goal)) /\ Len(goal) \in Nat /\ Len(goal) >= 1
  BY <1>1, <1>4, GoalProperties
<1>6. PICK A, B : A = SubSeq(goal, 2, k + 1) /\ B = SubSeq(goal, k + 2, Len(goal))
  OBVIOUS
<1>7. IsGoal(A) /\ IsGoal(B)
  <2>1. k + 1 \in Int /\ k + 2 \in Int /\ 1 <= k + 2 /\ k + 1 <= Len(goal) /\ Len(goal) \in Int
        /\ 1 <= 2 /\ Len(goal) <= Len(goal)
    BY <1>3, <1>5
  <2>2. IsGoal(A)
    <3>1. 2 \in Int /\ k + 1 \in Int /\ 1 <= 2 /\ k + 1 <= Len(goal)
      BY <2>1
    <3>2. IsGoal(SubSeq(goal, 2, k + 1))
      BY <1>4, <3>1, GoalPart
    <3> QED BY <1>6, <3>2
  <2>3. IsGoal(B)
    <3>1. IsGoal(SubSeq(goal, k + 2, Len(goal)))
      BY <1>4, <2>1, GoalPart
    <3> QED BY <1>6, <3>1
  <2> QED BY <2>2, <2>3
<1>8. Tail(goal) = A \o B
  <2>1. Tail(goal) = SubSeq(goal, 2, Len(goal))
    BY <1>1, <1>5, TailIsSubSeq
  <2>2. 2 \in 1..(Len(goal) + 1) /\ k + 1 \in (2 - 1)..Len(goal) /\ Len(goal) \in (k + 1)..Len(goal)
        /\ k + 1 + 1 = k + 2
    BY <1>3, <1>5
  <2>3. SubSeq(goal, 2, k + 1) \o SubSeq(goal, k + 1 + 1, Len(goal)) = SubSeq(goal, 2, Len(goal))
    BY <1>5, <2>2, ConcatAdjacentSubSeq
  <2> QED BY <1>6, <2>1, <2>2, <2>3
<1>9. IsGoal(<<eof>>) /\ \A q : Total(q, <<eof>>) = IF q = "files" THEN -1 ELSE 0
  BY <1>2, EofIs, GoalOfOne, TotalOfOne
<1>10. IsGoal(A \o <<eof>>) /\ \A q : Total(q, A \o <<eof>>) = Total(q, A) + Total(q, <<eof>>)
  BY <1>7, <1>9, GoalJoin, TotalOfConcat
<1>11. IsGoal(goal') /\ \A q : Total(q, goal') = Total(q, A \o <<eof>>) + Total(q, B)
  BY <1>3, <1>6, <1>7, <1>10, GoalJoin, TotalOfConcat
<1>12. \A q : Total(q, goal) = Weight(q, Head(goal)) + (Total(q, A) + Total(q, B))
  <2>1. \A q : Total(q, goal) = Weight(q, Head(goal)) + Total(q, Tail(goal))
    BY <1>1, <1>4, GoalStep
  <2>2. \A q : Total(q, A \o B) = Total(q, A) + Total(q, B)
    BY <1>7, TotalOfConcat
  <2> QED BY <1>8, <2>1, <2>2
<1>13. \A q : Weight(q, Head(goal)) = 0
  BY <1>1 DEF Weight
<1>14. \A q : Total(q, A) \in Int /\ Total(q, B) \in Int
  BY <1>7, WeightsIsSeq
<1>15. \A q : Total(q, goal') = Total(q, goal) + (IF q = "files" THEN -1 ELSE 0)
  <2> TAKE q
  <2>1. PICK a \in Int, b \in Int, e \in Int :
          a = Total(q, A) /\ b = Total(q, B) /\ e = IF q = "files" THEN -1 ELSE 0
    BY <1>14
  <2>2. Total(q, goal) = 0 + (a + b)
    BY <1>12, <1>13, <2>1
  <2>3. Total(q, goal') = (a + e) + b
    BY <1>9, <1>10, <1>11, <2>1
  <2> QED BY <2>1, <2>2, <2>3
<1>16. PICK inc : inc = Append(p.include, s.source_file)
  OBVIOUS
<1>17. IsList(p.include) /\ Len(p.include) \in Nat /\ IsList(inc) /\ Len(inc) = Len(p.include) + 1
       /\ DOMAIN p.include = 1..Len(p.include) /\ (p.include = <<>> <=> Len(p.include) = 0)
  BY <1>4, <1>16, ListProperties DEF IsParser
<1>18. p' = Data(p.expr_stack, p.arg_count, p.stack, p.fn_arg, p.class_parent, inc, p.parser_error, p.made)
  BY <1>1, <1>4, <1>16 DEF IsParser, Data
<1>19. IsParser(p')
  <2>1. /\ p.expr_stack \in Seq(Nat) /\ p.arg_count \in Seq(Nat \ {0}) /\ IsList(p.fn_arg)
        /\ p.stack \in Seq(Seq(Nat)) /\ p.parser_error \in Nat /\ p.made \in Nat
    BY <1>4 DEF IsParser
  <2> QED BY <1>17, <1>18, <2>1, DataTyped, Zenon
<1>20. /\ p'.include = inc /\ p'.expr_stack = p.expr_stack /\ p'.arg_count = p.arg_count
       /\ p'.fn_arg = p.fn_arg /\ p'.stack = p.stack
  BY <1>18, DataIs
<1>21. inc # <<>> /\ inc[1] = MainFile
  <2>1. inc[Len(p.include) + 1] = s.source_file /\ \A j \in 1..Len(p.include) : inc[j] = p.include[j]
    <3>1. PICK S : p.include \in Seq(S)
      BY <1>17 DEF IsList
    <3> QED BY <1>16, <3>1
  <2>2. inc # <<>>
    <3>1. Len(<<>>) = 0
      OBVIOUS
    <3> QED BY <1>17, <3>1
  <2>3. CASE p.include = <<>>
    BY <1>4, <1>17, <2>1, <2>2, <2>3 DEF Outermost
  <2>4. CASE p.include # <<>>
    BY <1>4, <1>17, <2>1, <2>2, <2>4 DEF Outermost
  <2> QED BY <2>3, <2>4
<1>22. Outermost(p', s'.source_file)
  BY <1>20, <1>21 DEF Outermost
<1>23. \A q \in {"exprs", "counts", "lists", "defs"} : Total(q, goal') = Total(q, goal)
  <2> TAKE q \in {"exprs", "counts", "lists", "defs"}
  <2>1. Total(q, goal) \in Int
    BY <1>4, WeightsIsSeq
  <2> QED BY <1>15, <2>1
<1>24. Len(p'.include) + Total("files", goal') = Len(p.include) + Total("files", goal)
  <2>1. Total("files", goal) \in Int
    BY <1>4, WeightsIsSeq
  <2>2. Total("files", goal') = Total("files", goal) + (-1)
    BY <1>15
  <2> QED BY <1>17, <1>20, <2>1, <2>2
<1> QED BY <1>1, <1>11, <1>19, <1>20, <1>22, <1>23, <1>24, BalanceMoves

LEMMA LeaveIncludeKeeps ==
  ASSUME StackInv, s \in [source_file : {s.source_file}, script : Seq(Nat)], LeaveInclude
  PROVE  StackInv'
<1>1. /\ Called("eof") /\ s' = [s EXCEPT !.source_file = Last(p.include)]
      /\ p' = [p EXCEPT !.include = Front(@)]
  BY DEF LeaveInclude
<1>2. /\ phase = "parse" /\ phase' = "parse" /\ goal # <<>> /\ goal' = Tail(goal)
      /\ Head(goal).do = "eof" /\ IsParser(p)
  BY <1>1, CallIs
<1>3. IsGoal(goal) /\ Outermost(p, s.source_file)
  BY DEF StackInv, Types
<1>4. /\ IsGoal(goal') /\ \A q : Total(q, goal) = Weight(q, Head(goal)) + Total(q, goal')
      /\ \A q : Total(q, goal') \in Int
  BY <1>2, <1>3, GoalStep
<1>5. \A q : Weight(q, Head(goal)) = IF q = "files" THEN -1 ELSE 0
  BY <1>2 DEF Weight
<1>6. IsList(p.include) /\ Len(p.include) \in Nat
  BY <1>2, ListProperties DEF IsParser
<1>7. Len(p.include) >= 1
  <2>1. Len(p.include) + Total("files", goal) = 0
    BY <1>2 DEF StackInv, Balance, Balanced
  <2>2. Total("files", goal') <= 0 /\ Total("files", goal') \in Int
    BY <1>4, TotalOfFiles
  <2>3. Total("files", goal) = -1 + Total("files", goal')
    BY <1>4, <1>5
  <2> QED BY <1>6, <2>1, <2>2, <2>3
<1>8. PICK inc : inc = Front(p.include)
  OBVIOUS
<1>9. /\ IsList(inc) /\ Len(inc) = Len(p.include) - 1 /\ Last(p.include) = p.include[Len(p.include)]
      /\ \A k \in 1..(Len(p.include) - 1) : inc[k] = p.include[k]
      /\ p.include # <<>>
  <2>1. p.include # <<>>
    BY <1>6, <1>7, ListProperties
  <2> QED BY <1>6, <1>8, <2>1, ListProperties
<1>10. p' = Data(p.expr_stack, p.arg_count, p.stack, p.fn_arg, p.class_parent, inc, p.parser_error, p.made)
  BY <1>1, <1>2, <1>8 DEF IsParser, Data
<1>11. IsParser(p')
  <2>1. /\ p.expr_stack \in Seq(Nat) /\ p.arg_count \in Seq(Nat \ {0}) /\ IsList(p.fn_arg)
        /\ p.stack \in Seq(Seq(Nat)) /\ p.parser_error \in Nat /\ p.made \in Nat
    BY <1>2 DEF IsParser
  <2>2. IsList(inc)
    BY <1>9
  <2> QED BY <1>10, <2>1, <2>2, DataTyped, Zenon
<1>12. /\ p'.include = inc /\ p'.expr_stack = p.expr_stack /\ p'.arg_count = p.arg_count
       /\ p'.fn_arg = p.fn_arg /\ p'.stack = p.stack
  BY <1>10, DataIs
<1>13. p.include[1] = MainFile
  BY <1>3, <1>9 DEF Outermost
<1>14. s'.source_file = p.include[Len(p.include)]
  BY <1>1, <1>9
<1>15. Outermost(p', s'.source_file)
  <2>1. CASE inc = <<>>
    <3>1. Len(inc) = 0
      BY <2>1
    <3>2. Len(p.include) = 1
      <4>1. Len(inc) = Len(p.include) - 1
        BY <1>9
      <4> QED BY <1>6, <3>1, <4>1
    <3> QED BY <1>12, <1>13, <1>14, <2>1, <3>2 DEF Outermost
  <2>2. CASE inc # <<>>
    <3>1. Len(inc) # 0 /\ Len(inc) \in Nat
      BY <1>9, <2>2, ListProperties
    <3>2. 1 \in 1..(Len(p.include) - 1)
      <4>1. PICK m \in Nat, n \in Nat : m = Len(inc) /\ n = Len(p.include)
        BY <1>6, <3>1
      <4>2. m = n - 1 /\ m # 0
        BY <1>9, <3>1, <4>1
      <4>3. \A i, j \in Nat : i = j - 1 /\ i # 0 => 1 \in 1..(j - 1)
        OBVIOUS
      <4>5. m \in Nat /\ n \in Nat
        BY <4>1
      <4>6. 1 \in 1..(n - 1)
        BY <4>2, <4>3, <4>5
      <4> QED BY <4>1, <4>6
    <3> QED BY <1>9, <1>12, <1>13, <2>2, <3>2 DEF Outermost
  <2> QED BY <2>1, <2>2
<1>16. \A q \in {"exprs", "counts", "lists", "defs"} : Total(q, goal') = Total(q, goal)
  BY <1>4, <1>5
<1>17. Len(p'.include) + Total("files", goal') = Len(p.include) + Total("files", goal)
  <2>1. Total("files", goal) = -1 + Total("files", goal') /\ Total("files", goal') \in Int
    BY <1>4, <1>5
  <2> QED BY <1>6, <1>9, <1>12, <2>1
<1> QED BY <1>2, <1>4, <1>11, <1>12, <1>15, <1>16, <1>17, BalanceMoves
LEMMA CopyKeeps ==
  ASSUME TypeInv, Copy
  PROVE  StackInv' /\ Len(Copied(heap[Head(copying)])) \in Nat
<1>1. /\ copying # <<>> /\ goal' = goal /\ phase' = phase /\ s' = s
      /\ p' = [p EXCEPT !.made = @ + Len(Copied(heap[Head(copying)]))]
  BY DEF Copy
<1>2. copying \in Seq(DOMAIN heap) /\ IsHeap(heap, p.made)
  BY DEF TypeInv, Memory
<1>3. Head(copying) \in DOMAIN heap
  BY <1>1, <1>2
<1>4. IsNode(heap[Head(copying)])
  BY <1>2, <1>3 DEF IsHeap
<1>5. PICK n : n = heap[Head(copying)]
  OBVIOUS
<1>6. n.part \in [Fields -> Seq(Nat)]
  BY <1>4, <1>5, NodeNoted
<1>7. n.part["inner"] \in Seq(Nat) /\ n.part["index"] \in Seq(Nat) /\ n.part["argv"] \in Seq(Nat)
  BY <1>6, FieldNames
<1>8. Copied(n) \in Seq(Nat) /\ Len(Copied(n)) \in Nat
  <2>1. PICK a \in Seq(Nat), b \in Seq(Nat), c \in Seq(Nat) :
          a = n.part["inner"] /\ b = n.part["index"] /\ c = n.part["argv"]
    BY <1>7
  <2>2. Copied(n) = a \o b \o c
    BY <2>1, Zenon DEF Copied
  <2>3. PICK d \in Seq(Nat) : d = a \o b
    BY <2>1, ConcatProperties
  <2>4. d \o c \in Seq(Nat)
    BY <2>1, <2>3, ConcatProperties
  <2> QED BY <2>2, <2>3, <2>4
<1>9. p' = [p EXCEPT !.made = p.made + Len(Copied(n))]
  <2>1. IsParser(p)
    BY DEF TypeInv, StackInv, Types
  <2> QED BY <1>1, <1>5, <2>1 DEF IsParser
<1>10. StackInv
  BY DEF TypeInv
<1>11. StackInv'
  <2>1. \E k \in Nat : p' = [p EXCEPT !.made = p.made + k]
    BY <1>8, <1>9
  <2>2. phase' \in {phase, "internal"}
    BY <1>1
  <2> QED BY <1>1, <1>10, <2>1, <2>2, OthersKeep
<1> QED BY <1>5, <1>8, <1>11

LEMMA OtherStepsKeep ==
  ASSUME TypeInv, InternalError \/ Free \/ FreeScript \/ UNCHANGED vars
  PROVE  StackInv'
<1>1. StackInv
  BY DEF TypeInv
<1>2. CASE InternalError \/ Free \/ UNCHANGED vars
  <2>1. goal' = goal /\ phase' \in {phase, "internal"} /\ p' = p /\ s' = s
    BY <1>2 DEF InternalError, Free, vars
  <2> QED BY <1>1, <2>1, OthersKeep
<1>3. CASE FreeScript
  <2>1. goal' = goal /\ phase = "done" /\ phase' = "freed" /\ p' = p /\ s' = s
    BY <1>3 DEF FreeScript
  <2> QED BY <1>1, <2>1 DEF StackInv, Types, Balance, Balanced, Emptied, Outermost, AllUsed
<1> QED BY <1>2, <1>3

LEMMA StackInvHolds ==
  ASSUME TypeInv, [Next]_vars
  PROVE  StackInv'
<1>1. StackInv /\ s \in [source_file : {s.source_file}, script : Seq(Nat)]
  BY DEF TypeInv, Memory
<1>2. CASE Expand
  BY <1>1, <1>2, ExpandKeeps
<1>3. CASE Read \/ ReadAgain
  BY <1>1, <1>3, ReadKeeps
<1>4. CASE SyntaxError
  BY <1>1, <1>4, SyntaxErrorKeeps
<1>5. CASE InternalError \/ Free \/ FreeScript \/ UNCHANGED vars
  BY <1>5, OtherStepsKeep
<1>6. CASE Copy
  BY <1>6, CopyKeeps
<1>7. CASE EndExpr
  BY <1>1, <1>7, EndExprKeeps
<1>8. CASE EndFirst \/ EndNext
  BY <1>1, <1>8, EndFirstKeeps
<1>9. CASE EndKeyarraySingle
  BY <1>1, <1>9, EndKeyarraySingleKeeps
<1>10. CASE EndOpAssign
  BY <1>1, <1>10, EndOpAssignKeeps
<1>11. CASE BeginFunc \/ Enter \/ EndRettype \/ EndArg \/ EndExtends \/ IncludeFails
  BY <1>1, <1>11, DefinitionKeeps
<1>12. CASE EndLambda
  BY <1>1, <1>12, EndLambdaKeeps
<1>13. CASE EndStmt
  BY <1>1, <1>13, EndStmtKeeps
<1>14. CASE EndIf \/ EndCase
  BY <1>1, <1>14, EndIfKeeps
<1>15. CASE EndFunc
  BY <1>1, <1>15, EndFuncKeeps
<1>16. CASE EnterInclude
  BY <1>1, <1>16, EnterIncludeKeeps
<1>17. CASE LeaveInclude
  BY <1>1, <1>17, LeaveIncludeKeeps
<1>18. CASE Finish
  BY <1>1, <1>18, FinishKeeps
<1> QED BY <1>2, <1>3, <1>4, <1>5, <1>6, <1>7, <1>8, <1>9, <1>10, <1>11, <1>12, <1>13, <1>14,
           <1>15, <1>16, <1>17, <1>18 DEF Next

LEMMA InitHolds == Init => TypeInv
<1> SUFFICES ASSUME Init PROVE TypeInv
  OBVIOUS
<1>1. PICK src \in Sources : goal = <<NT(src.start)>>
  BY DEF Init
<1>2. src.start \in {"program", "statements", "block"}
  BY SourcesAssumption
<1>3. PICK x : x = NT(src.start) /\ x.do = "nonterminal" /\ x.lhs \in {"program", "statements", "block"}
  <2>1. PICK start : start = src.start
    OBVIOUS
  <2>2. PICK x : x = NT(start)
    OBVIOUS
  <2>3. x.do = "nonterminal" /\ x.lhs = start
    BY <2>2 DEF NT
  <2> QED BY <1>2, <2>1, <2>2, <2>3
<1>4. IsSymbol(x) /\ \A q \in {"exprs", "counts", "lists", "defs", "files"} : Weight(q, x) = 0
  BY <1>3 DEF IsSymbol, Weight, Exprs, Counts
<1>5. IsGoal(goal) /\ \A q \in {"exprs", "counts", "lists", "defs", "files"} : Total(q, goal) = 0
  BY <1>1, <1>3, <1>4, GoalOfOne, TotalOfOne
<1>6. PICK e : e = <<>>
  OBVIOUS
<1>7. PICK L : L = <<e>>
  OBVIOUS
<1>8. p = Data(e, e, L, e, 0, e, 0, 0)
  BY <1>6, <1>7, Zenon DEF Init, Data
<1>9. e \in Seq(Nat) /\ e \in Seq(Nat \ {0}) /\ Len(e) = 0
  BY <1>6
<1>10. L \in Seq(Seq(Nat)) /\ Len(L) = 1
  <2>1. PICK S : S = Seq(Nat)
    OBVIOUS
  <2>2. e \in S
    BY <1>9, <2>1
  <2>3. L \in Seq(S) /\ Len(L) = 1
    BY <1>7, <2>2
  <2> QED BY <2>1, <2>3
<1>11. IsList(e)
  BY <1>9, AList
<1>12. IsParser(p)
  <2>1. 0 \in Nat
    OBVIOUS
  <2> QED BY <1>8, <1>9, <1>10, <1>11, <2>1, DataTyped, Zenon
<1>13. /\ p.expr_stack = e /\ p.arg_count = e /\ p.stack = L /\ p.fn_arg = e /\ p.include = e
       /\ p.made = 0
  BY <1>8, DataIs
<1>14. Loose(e, e) = 0
  BY <1>6, <1>9, SumOfNone DEF Loose
<1>15. Balanced(p, goal)
  <2>1. /\ Total("exprs", goal) = 0 /\ Total("counts", goal) = 0 /\ Total("lists", goal) = 0
        /\ Total("defs", goal) = 0 /\ Total("files", goal) = 0
    BY <1>5
  <2>2. 0 + 0 = 0 /\ 1 + 0 = 1
    OBVIOUS
  <2> QED BY <1>9, <1>10, <1>13, <1>14, <2>1, <2>2, Zenon DEF Balanced
<1>16. phase = "parse" /\ s = [source_file |-> MainFile, script |-> e] /\ heap = e /\ copying = e
       /\ freeing = e
  BY <1>6 DEF Init
<1>17. StackInv
  BY <1>5, <1>6, <1>12, <1>13, <1>15, <1>16 DEF StackInv, Types, Balance, Outermost, Emptied
<1>18. IsHeap(heap, p.made)
  <2>1. DOMAIN heap = {} /\ heap = [i \in {} |-> heap[i]]
    BY <1>6, <1>16
  <2> QED BY <2>1 DEF IsHeap
<1>19. Memory
  <2>1. copying \in Seq(DOMAIN heap)
    BY <1>6, <1>16
  <2>2. s \in [source_file : {s.source_file}, script : Seq(Nat)]
    BY <1>9, <1>16
  <2> QED BY <1>6, <1>9, <1>16, <1>18, <2>1, <2>2 DEF Memory
<1> QED BY <1>17, <1>19 DEF TypeInv

-----------------------------------------------------------------------------
(* The heap, the calls that are still to be made and the fields of the state. *)

LEMMA MemoryIs ==
  ASSUME TypeInv
  PROVE  /\ StackInv /\ IsParser(p) /\ p.made \in Nat /\ IsHeap(heap, p.made)
         /\ copying \in Seq(DOMAIN heap) /\ freeing \in Seq(Nat) /\ s.script \in Seq(Nat)
         /\ s \in [source_file : {s.source_file}, script : Seq(Nat)]
         /\ copying # <<>> => phase = "parse" /\ freeing = <<>>
         /\ phase = "done" => freeing = <<>>
<1>1. /\ StackInv /\ IsHeap(heap, p.made)
      /\ copying \in Seq(DOMAIN heap) /\ freeing \in Seq(Nat)
      /\ s \in [source_file : {s.source_file}, script : Seq(Nat)]
      /\ copying # <<>> => phase = "parse" /\ freeing = <<>>
      /\ phase = "done" => freeing = <<>>
  BY DEF TypeInv, Memory
<1>2. IsParser(p)
  BY <1>1 DEF StackInv, Types
<1>3. p.made \in Nat
  BY <1>2 DEF IsParser
<1>4. s.script \in Seq(Nat)
  BY <1>1
<1> QED BY <1>1, <1>2, <1>3, <1>4

LEMMA ScriptSame ==
  ASSUME TypeInv, NEW file, s' = s \/ s' = [s EXCEPT !.source_file = file]
  PROVE  s' \in [source_file : {s'.source_file}, script : Seq(Nat)] /\ s'.script = s.script
<1>1. s \in [source_file : {s.source_file}, script : Seq(Nat)]
  BY MemoryIs
<1> QED BY <1>1

LEMMA MemorySame ==
  ASSUME TypeInv, heap' = heap, p'.made = p.made, copying' = copying, freeing' = freeing,
         s' \in [source_file : {s'.source_file}, script : Seq(Nat)],
         phase' = phase \/ (phase' = "internal" /\ copying = <<>>)
  PROVE  Memory'
BY MemoryIs DEF Memory

LEMMA MadeSame ==
  ASSUME NEW q, IsParser(q), NEW c, NEW inc, NEW f, NEW e, NEW a, NEW k
  PROVE  /\ [q EXCEPT !.arg_count = a].made = q.made
         /\ [q EXCEPT !.fn_arg = f].made = q.made
         /\ [q EXCEPT !.stack = c].made = q.made
         /\ [q EXCEPT !.include = inc].made = q.made
         /\ [q EXCEPT !.class_parent = c].made = q.made
         /\ [q EXCEPT !.parser_error = k].made = q.made
         /\ [q EXCEPT !.fn_arg = f, !.stack = c].made = q.made
BY DEF IsParser

LEMMA ReadingRemembers ==
  ASSUME TypeInv, Expand \/ Read \/ ReadAgain \/ InternalError \/ UNCHANGED vars
  PROVE  Memory'
<1>1. /\ heap' = heap /\ p' = p /\ copying' = copying /\ freeing' = freeing /\ s' = s
      /\ phase' = phase \/ (phase' = "internal" /\ copying = <<>>)
  BY DEF Expand, Read, ReadAgain, InternalError, vars, calls, Idle
<1>2. s' \in [source_file : {s'.source_file}, script : Seq(Nat)]
  BY <1>1, ScriptSame
<1> QED BY <1>1, <1>2, MemorySame

LEMMA IncludeRemembers ==
  ASSUME TypeInv, EnterInclude \/ LeaveInclude
  PROVE  Memory'
<1>1. PICK file, inc : /\ heap' = heap /\ copying' = copying /\ freeing' = freeing
                       /\ s' = [s EXCEPT !.source_file = file]
                       /\ p' = [p EXCEPT !.include = inc] /\ phase' = phase
  BY DEF EnterInclude, LeaveInclude, calls, Called
<1>2. p'.made = p.made
  BY <1>1, MadeSame, MemoryIs
<1>3. s' \in [source_file : {s'.source_file}, script : Seq(Nat)]
  BY <1>1, ScriptSame
<1> QED BY <1>1, <1>2, <1>3, MemorySame

LEMMA NotingRemembers ==
  ASSUME TypeInv,
         EndFirst \/ EndNext \/ BeginFunc \/ Enter \/ EndRettype \/ EndArg \/ EndExtends \/ IncludeFails
  PROVE  Memory'
<1>1. /\ heap' = heap /\ copying' = copying /\ freeing' = freeing /\ s' = s /\ phase' = phase
  BY DEF EndFirst, EndNext, BeginFunc, Enter, EndRettype, EndArg, EndExtends, IncludeFails, calls, Called
<1>2. IsParser(p)
  BY MemoryIs
<1>3. p'.made = p.made
  <2>1. CASE EndFirst \/ EndNext
    BY <1>2, <2>1 DEF EndFirst, EndNext, IsParser
  <2>2. CASE BeginFunc
    BY <1>2, <2>2 DEF BeginFunc, IsParser
  <2>3. CASE Enter
    BY <1>2, <2>3 DEF Enter, IsParser
  <2>4. CASE EndRettype
    BY <1>2, <2>4 DEF EndRettype, IsParser
  <2>5. CASE EndArg
    BY <1>2, <2>5 DEF EndArg, IsParser
  <2>6. CASE EndExtends \/ IncludeFails
    BY <1>2, <2>6 DEF EndExtends, IncludeFails, IsParser
  <2> QED BY <2>1, <2>2, <2>3, <2>4, <2>5, <2>6
<1>4. s' \in [source_file : {s'.source_file}, script : Seq(Nat)]
  BY <1>1, ScriptSame
<1> QED BY <1>1, <1>3, <1>4, MemorySame

\* What is left of a topmost list is freed.
LEMMA FreedListIs ==
  ASSUME IsParser(p)
  PROVE  FreedList \in Seq(Nat)
<1>1. CASE p.stack = <<>>
  <2>1. PICK e : e = <<>>
    OBVIOUS
  <2>2. e \in Seq(Nat)
    BY <2>1
  <2> QED BY <1>1, <2>1, <2>2 DEF FreedList
<1>2. CASE p.stack # <<>>
  BY <1>2, ListIs DEF FreedList
<1> QED BY <1>1, <1>2

LEMMA EndingRemembers ==
  ASSUME TypeInv, SyntaxError \/ Finish \/ FreeScript
  PROVE  Memory'
<1>1. /\ heap' = heap /\ copying' = copying
  BY DEF SyntaxError, Finish, FreeScript
<1>2. IsParser(p) /\ IsHeap(heap, p.made) /\ p.made \in Nat /\ copying \in Seq(DOMAIN heap)
      /\ s.script \in Seq(Nat) /\ FreedList \in Seq(Nat) /\ freeing \in Seq(Nat)
      /\ s \in [source_file : {s.source_file}, script : Seq(Nat)]
  BY MemoryIs, FreedListIs
<1>3. p'.made = p.made
  <2>1. CASE SyntaxError
    BY <1>2, <2>1 DEF SyntaxError, LeaveList, IsParser
  <2>2. CASE Finish \/ FreeScript
    BY <1>2, <2>2 DEF Finish, FreeScript, LeaveList, IsParser
  <2> QED BY <2>1, <2>2
<1>4. copying = <<>>
  <2>1. CASE SyntaxError \/ Finish
    BY <2>1 DEF SyntaxError, Finish, At, Idle
  <2>2. CASE FreeScript
    <3>1. phase = "done"
      BY <2>2 DEF FreeScript
    <3> QED BY <3>1, MemoryIs
  <2> QED BY <2>1, <2>2
<1>5. freeing' \in Seq(Nat) /\ (phase' = "done" => freeing' = <<>>)
  <2>1. CASE SyntaxError
    BY <1>2, <2>1 DEF SyntaxError
  <2>2. CASE FreeScript
    BY <1>2, <2>2 DEF FreeScript
  <2>3. CASE Finish
    <3>1. freeing = <<>> /\ freeing' \in {FreedList, freeing} /\ (phase' = "done" => freeing' = freeing)
      BY <2>3 DEF Finish, Idle
    <3> QED BY <1>2, <3>1
  <2> QED BY <2>1, <2>2, <2>3
<1>6. s' \in [source_file : {s'.source_file}, script : Seq(Nat)]
  <2>1. CASE SyntaxError \/ FreeScript
    <3>1. s' = s
      BY <2>1 DEF SyntaxError, FreeScript
    <3> QED BY <1>2, <3>1
  <2>2. CASE Finish
    <3>1. CASE p.parser_error > 0
      <4>1. s' = s
        BY <2>2, <3>1 DEF Finish
      <4> QED BY <1>2, <4>1
    <3>2. CASE ~(p.parser_error > 0)
      <4>1. s' = [s EXCEPT !.script = List] /\ Balanced(p, goal) /\ goal = <<>>
        <5>1. StackInv /\ phase = "parse"
          BY <2>2, MemoryIs DEF Finish
        <5> QED BY <2>2, <3>2, <5>1 DEF Finish, StackInv, Balance
      <4>2. p.stack # <<>>
        <5>1. Total("lists", goal) = 0
          BY <4>1, TotalOfNone
        <5>2. Len(p.stack) + 0 = 1
          BY <4>1, <5>1, Zenon DEF Balanced
        <5>3. Len(<<>>) = 0
          OBVIOUS
        <5> QED BY <5>2, <5>3
      <4>3. List \in Seq(Nat)
        BY <1>2, <4>2, ListIs
      <4> QED BY <1>2, <4>1, <4>3
    <3> QED BY <3>1, <3>2
  <2> QED BY <2>1, <2>2
<1> QED BY <1>1, <1>2, <1>3, <1>4, <1>5, <1>6 DEF Memory
\* A call that makes one node.
LEMMA OneNode ==
  ASSUME TypeInv, NEW act, Called(act), copying' = copying, s' = s, IsHeap(heap', p.made + 1),
         p'.made = p.made + 1, freeing' \in Seq(Nat)
  PROVE  Memory'
<1>1. phase' = "parse" /\ copying = <<>>
  BY Calling
<1>2. s' \in [source_file : {s'.source_file}, script : Seq(Nat)]
  BY ScriptSame
<1>3. copying' \in Seq(DOMAIN heap')
  <2>1. PICK e : e = <<>>
    OBVIOUS
  <2>2. e \in Seq(DOMAIN heap')
    BY <2>1
  <2> QED BY <1>1, <2>1, <2>2
<1> QED BY <1>1, <1>2, <1>3 DEF Memory

LEMMA NodeRemembers ==
  ASSUME TypeInv, EndExpr \/ EndKeyarraySingle
  PROVE  Memory'
<1>1. IsParser(p) /\ p.made \in Nat /\ IsHeap(heap, p.made) /\ freeing \in Seq(Nat)
  BY MemoryIs
<1>2. copying' = copying /\ s' = s /\ freeing' = freeing
  BY DEF EndExpr, EndKeyarraySingle, calls
<1>3. PICK n : IsNode(n) /\ heap' = Alloc(<<n>>)
  BY EndExprMakes, EndKeyarraySingleMakes
<1>4. IsHeap(heap', p.made + 1)
  BY <1>1, <1>3, AllocOne
<1>5. p'.made = p.made + 1
  <2>1. CASE EndExpr
    BY <1>1, <2>1 DEF EndExpr, PushExpr, IsParser
  <2>2. CASE EndKeyarraySingle
    BY <1>1, <2>2 DEF EndKeyarraySingle, IsParser
  <2> QED BY <2>1, <2>2
<1>6. PICK act : Called(act)
  BY DEF EndExpr, EndKeyarraySingle
<1> QED BY <1>1, <1>2, <1>4, <1>5, <1>6, OneNode

LEMMA StatementRemembers ==
  ASSUME TypeInv, EndStmt \/ EndIf \/ EndCase \/ EndFunc
  PROVE  Memory'
<1>1. IsParser(p) /\ p.made \in Nat /\ IsHeap(heap, p.made) /\ freeing \in Seq(Nat)
  BY MemoryIs
<1>2. copying' = copying /\ s' = s
  BY DEF EndStmt, EndIf, EndCase, EndFunc, calls
<1>3. PICK act : Called(act)
  BY DEF EndStmt, EndIf, EndCase, EndFunc
<1>4. PICK x : Takes(x) /\ Makes(x) /\ (freeing' = StmtsLeft(x.stmts) \/ freeing' = <<>>)
  <2>1. CASE EndStmt
    <3>1. Takes(Head(goal)) /\ Makes(Head(goal))
      BY <2>1, EndStmtMakes
    <3>2. freeing' = StmtsLeft(Head(goal).stmts) \/ freeing' = <<>>
      BY <2>1 DEF EndStmt
    <3> QED BY <3>1, <3>2
  <2>2. CASE EndIf
    BY <2>2, EndIfMakes
  <2>3. CASE EndFunc
    BY <2>3, EndFuncMakes
  <2>4. CASE EndCase
    <3>1. freeing' = <<>>
      BY <2>4, Calling DEF EndCase, calls
    <3> QED BY <2>4, <3>1, EndCaseMakes
  <2> QED BY <2>1, <2>2, <2>3, <2>4
<1>5. IsHeap(heap', p.made + 1)
  BY <1>4 DEF Makes
<1>6. freeing' \in Seq(Nat)
  <2>1. StmtsLeft(x.stmts) \in Seq(Nat)
    BY <1>1, <1>4, StmtPartsIs DEF Takes
  <2>2. PICK e : e = <<>>
    OBVIOUS
  <2>3. e \in Seq(Nat)
    BY <2>2
  <2> QED BY <1>4, <2>1, <2>2, <2>3
<1>7. p'.made = p.made + 1
  <2>1. CASE EndStmt
    BY <1>1, <2>1 DEF EndStmt, PushStmt, LeaveList, IsParser
  <2>2. CASE EndIf \/ EndCase
    BY <1>1, <2>2 DEF EndIf, EndCase, PushStmt, LeaveList, IsParser
  <2>3. CASE EndFunc
    BY <1>1, <2>3 DEF EndFunc, PushStmt, LeaveList, IsParser
  <2> QED BY <2>1, <2>2, <2>3
<1> QED BY <1>2, <1>3, <1>5, <1>6, <1>7, OneNode

LEMMA LambdaRemembers ==
  ASSUME TypeInv, EndLambda
  PROVE  Memory'
<1>1. IsParser(p) /\ p.made \in Nat /\ freeing \in Seq(Nat)
  BY MemoryIs
<1>2. copying' = copying /\ s' = s /\ freeing' = freeing /\ Called("end_lambda")
  BY DEF EndLambda, calls
<1>3. phase' = "parse" /\ copying = <<>>
  BY <1>2, Calling
<1>4. IsHeap(heap', p.made + 3)
  BY EndLambdaMakes
<1>5. p'.made = p.made + 3
  BY <1>1 DEF EndLambda, PushExpr, LeaveList, IsParser
<1>6. s' \in [source_file : {s'.source_file}, script : Seq(Nat)]
  BY <1>2, ScriptSame
<1>7. copying' \in Seq(DOMAIN heap')
  <2>1. PICK e : e = <<>>
    OBVIOUS
  <2>2. e \in Seq(DOMAIN heap')
    BY <2>1
  <2> QED BY <1>2, <1>3, <2>1, <2>2
<1> QED BY <1>1, <1>2, <1>3, <1>4, <1>5, <1>6, <1>7 DEF Memory

LEMMA CombinedRemembers ==
  ASSUME TypeInv, EndOpAssign
  PROVE  Memory'
<1>1. PICK act : Called(act)
  BY DEF EndOpAssign
<1>2. freeing' = freeing /\ s' = s
  BY DEF EndOpAssign
<1>3. phase' = "parse" /\ freeing = <<>>
  BY <1>1, Calling
<1>4. PICK k : IsHeap(heap', p.made + k) /\ copying' \in Seq(DOMAIN heap') /\ p'.made = p.made + k
  BY EndOpAssignMakes, Zenon
<1>5. freeing \in Seq(Nat)
  BY MemoryIs
<1>6. s' \in [source_file : {s'.source_file}, script : Seq(Nat)]
  BY <1>2, ScriptSame
<1> QED BY <1>2, <1>3, <1>4, <1>5, <1>6 DEF Memory

\* One node is copied: the copies of its parts are allocated, and take their place.
LEMMA CopyMakes ==
  ASSUME TypeInv, Copy
  PROVE  LET k == Head(copying)
             n == heap[k]
             m == Copied(n)
         IN /\ k \in DOMAIN heap /\ IsNode(n) /\ m \in Seq(DOMAIN heap) /\ m \in Seq(Nat)
            /\ Len(m) \in Nat /\ p'.made = p.made + Len(m)
            /\ IsHeap(heap', p.made + Len(m))
            /\ DOMAIN heap' = DOMAIN heap \cup {Id(j) : j \in 1..Len(m)}
            /\ \A i \in DOMAIN heap \ {k} : heap'[i] = heap[i]
            /\ \A j \in 1..Len(m) : /\ heap'[Id(j)] = heap[m[j]] /\ Id(j) \notin DOMAIN heap
                                    /\ Id(j) \in Nat
            /\ heap'[k].part = [f \in Fields |-> expr_copy(n, f)]
            /\ copying' = Tail(copying) \o [j \in 1..Len(m) |-> Id(j)]
            /\ copying' \in Seq(DOMAIN heap')
<1> DEFINE k == Head(copying)
           n == heap[k]
           m == Copied(n)
<1>1. /\ copying # <<>> /\ CanCopy
      /\ heap' = [Alloc([j \in DOMAIN m |-> heap[m[j]]]) EXCEPT ![k].part = [f \in Fields |-> expr_copy(n, f)]]
      /\ p' = [p EXCEPT !.made = @ + Len(m)]
      /\ copying' = Tail(copying) \o [j \in DOMAIN m |-> Id(j)]
  BY DEF Copy
<1>2. IsParser(p) /\ p.made \in Nat /\ IsHeap(heap, p.made) /\ copying \in Seq(DOMAIN heap)
  BY MemoryIs
<1>3. k \in DOMAIN heap /\ Tail(copying) \in Seq(DOMAIN heap)
  BY <1>1, <1>2
<1>4. IsNode(n)
  BY <1>2, <1>3 DEF IsHeap
<1>5. n.part["inner"] \in Seq(Nat) /\ n.part["index"] \in Seq(Nat) /\ n.part["argv"] \in Seq(Nat)
      /\ n.part["elif"] \in Seq(Nat) /\ n.part["lambda"] \in Seq(Nat)
  BY <1>4, NodeNoted, FieldNames
<1>6. PICK a \in Seq(Nat), b \in Seq(Nat), c \in Seq(Nat) :
        a = n.part["inner"] /\ b = n.part["index"] /\ c = n.part["argv"]
  BY <1>5
<1>7. m = (a \o b) \o c
  BY <1>6, Zenon DEF Copied
<1> HIDE DEF m
<1>8. m \in Seq(Nat) /\ Len(m) = Len(a) + Len(b) + Len(c)
  <2>1. PICK d \in Seq(Nat) : d = a \o b /\ Len(d) = Len(a) + Len(b)
    BY <1>6, ConcatProperties
  <2>2. d \o c \in Seq(Nat) /\ Len(d \o c) = Len(d) + Len(c)
    BY <1>6, <2>1, ConcatProperties
  <2> QED BY <1>7, <2>1, <2>2
<1>9. PICK l \in Nat : l = Len(m) /\ DOMAIN m = 1..l
  BY <1>8
<1>10. \A j \in 1..l : m[j] \in DOMAIN heap
  <2>1. CopiedNext = m
    BY <1>1 DEF CopiedNext, m
  <2>2. Range(m) \subseteq DOMAIN heap
    BY <1>1, <2>1 DEF CanCopy
  <2> QED BY <1>9, <2>2 DEF Range
<1>11. PICK new : new = [j \in 1..l |-> heap[m[j]]]
  OBVIOUS
<1>12. Len(new) = l /\ DOMAIN new = 1..l /\ \A j \in 1..l : new[j] = heap[m[j]] /\ IsNode(new[j])
  <2>1. \A j \in 1..l : IsNode(heap[m[j]])
    BY <1>2, <1>10 DEF IsHeap
  <2> QED BY <1>9, <1>11, <2>1
<1>13. PICK h : h = Alloc(new)
  OBVIOUS
<1>14. /\ IsHeap(h, p.made + l)
       /\ DOMAIN h = DOMAIN heap \cup {Id(j) : j \in 1..l}
       /\ \A i \in DOMAIN heap : h[i] = heap[i]
       /\ \A j \in 1..l : h[Id(j)] = new[j] /\ Id(j) \notin DOMAIN heap /\ Id(j) \in Nat
  BY <1>2, <1>9, <1>12, <1>13, AllocIs
<1>15. PICK q : q = [f \in Fields |-> expr_copy(n, f)]
  OBVIOUS
<1>16. heap' = [h EXCEPT ![k].part = q]
  <2>1. [j \in DOMAIN m |-> heap[m[j]]] = new
    BY <1>9, <1>11
  <2> QED BY <1>1, <1>13, <1>15, <2>1 DEF m
<1>17. \A j \in 1..l : Id(j) \in Nat
  BY <1>14
<1>18. q \in [Fields -> Seq(Nat)]
  <2> SUFFICES ASSUME NEW f \in Fields PROVE expr_copy(n, f) \in Seq(Nat)
    BY <1>15
  <2>1. ASSUME f = "inner" \/ f = "index" \/ f = "argv" PROVE expr_copy(n, f) \in Seq(Nat)
    <3>1. PICK v \in Seq(Nat), w \in Seq(Nat) : v = n.part[f] /\ w = m
      BY <1>5, <1>8, <2>1
    <3>2. PICK at \in Nat : at = CopyAt(n, f)
      <4>1. PICK x \in Nat, y \in Nat : x = Len(a) /\ y = Len(b)
        BY <1>6
      <4>2. /\ f = "inner" => CopyAt(n, f) = 0
            /\ f = "index" => CopyAt(n, f) = x
            /\ f = "argv" => CopyAt(n, f) = x + y
        BY <1>6, <4>1 DEF CopyAt
      <4>3. x + y \in Nat /\ 0 \in Nat
        BY <4>1
      <4> QED BY <2>1, <4>1, <4>2, <4>3
    <3>3. \A j \in Nat : Id(at + j) \in Nat
      BY <1>2, <3>2 DEF Id
    <3>5. DOMAIN v = 1..Len(v) /\ Len(v) \in Nat
      BY <3>1
    <3>4. PICK r : r = [j \in 1..Len(v) |-> Id(CopyAt(n, f) + j)]
      OBVIOUS
    <3> HIDE DEF Id
    <3>6. r \in Seq(Nat)
      <4>1. PICK len \in Nat : len = Len(v)
        BY <3>5
      <4>2. r = [j \in 1..len |-> Id(at + j)]
        BY <3>2, <3>4, <4>1
      <4>3. \A j \in 1..len : Id(at + j) \in Nat
        <5> TAKE j \in 1..len
        <5>1. j \in Nat
          BY <4>1
        <5> QED BY <3>3, <5>1
      <4> QED BY <4>1, <4>2, <4>3
    <3>7. expr_copy(n, f) = r
      BY <2>1, <3>1, <3>4, <3>5 DEF expr_copy
    <3> QED BY <3>6, <3>7
  <2>2. ASSUME f = "elif" \/ f = "lambda" PROVE expr_copy(n, f) \in Seq(Nat)
    BY <1>5, <2>2 DEF expr_copy
  <2>3. ASSUME f \notin {"inner", "index", "argv", "elif", "lambda"} PROVE expr_copy(n, f) \in Seq(Nat)
    <3>1. PICK e : e = <<>>
      OBVIOUS
    <3>2. e \in Seq(Nat)
      BY <3>1
    <3> QED BY <2>3, <3>1, <3>2 DEF expr_copy
  <2> QED BY <2>1, <2>2, <2>3
<1>19. k \in DOMAIN h /\ h[k] = n
  BY <1>3, <1>14
<1>20. /\ DOMAIN heap' = DOMAIN h /\ \A i \in DOMAIN h : i # k => heap'[i] = h[i]
       /\ heap'[k] = [n EXCEPT !.part = q]
       /\ heap' = [i \in DOMAIN heap' |-> heap'[i]]
  BY <1>16, <1>19
<1>21. IsNode([n EXCEPT !.part = q]) /\ [n EXCEPT !.part = q].part = q
  BY <1>4, <1>18, NodeWith
<1>22. IsHeap(heap', p.made + l)
  BY <1>14, <1>20, <1>21 DEF IsHeap
<1>23. \A j \in 1..l : heap'[Id(j)] = heap[m[j]]
  BY <1>3, <1>12, <1>14, <1>20
<1>24. p'.made = p.made + Len(m)
  BY <1>1, <1>2 DEF IsParser
<1>25. copying' = Tail(copying) \o [j \in 1..l |-> Id(j)]
  BY <1>1, <1>9 DEF m
<1>26. copying' \in Seq(DOMAIN heap')
  <2>1. PICK t : t = [j \in 1..l |-> Id(j)]
    OBVIOUS
  <2>2. \A j \in 1..l : Id(j) \in DOMAIN heap'
    BY <1>14, <1>20
  <2>3. t \in Seq(DOMAIN heap')
    BY <1>9, <2>1, <2>2
  <2>4. Tail(copying) \in Seq(DOMAIN heap')
    <3>1. DOMAIN heap \subseteq DOMAIN heap'
      BY <1>14, <1>20
    <3> QED BY <1>3, <3>1, SeqMonotonic
  <2>5. Tail(copying) \o t \in Seq(DOMAIN heap')
    BY <2>3, <2>4, ConcatProperties
  <2> QED BY <1>25, <2>1, <2>5
<1>27. m \in Seq(DOMAIN heap)
  <2>1. PICK t : t = m
    OBVIOUS
  <2>2. t \in [1..l -> Nat]
    BY <1>8, <1>9, <2>1
  <2>3. t \in [1..l -> DOMAIN heap]
    BY <1>10, <2>1, <2>2
  <2>4. t \in Seq(DOMAIN heap)
    <3>1. PICK D : D = DOMAIN heap
      OBVIOUS
    <3>2. t \in [1..l -> D] /\ l \in Nat
      BY <1>9, <2>3, <3>1
    <3>3. t \in Seq(D)
      BY <3>2
    <3> QED BY <3>1, <3>3
  <2> QED BY <2>1, <2>4
<1>28. \A i \in DOMAIN heap \ {k} : heap'[i] = heap[i]
  BY <1>14, <1>20
<1>29. heap'[k].part = [f \in Fields |-> expr_copy(n, f)]
  BY <1>15, <1>20, <1>21
<1> HIDE DEF Id
<1> QED BY <1>3, <1>4, <1>8, <1>9, <1>14, <1>20, <1>22, <1>23, <1>24, <1>25, <1>26, <1>27, <1>28, <1>29 DEF m
\* One node is freed.
LEMMA FreeIs ==
  ASSUME TypeInv, Free
  PROVE  LET k == Head(freeing)
             n == heap[k]
         IN /\ k \in DOMAIN heap /\ IsNode(n) /\ p' = p /\ freeing # <<>> /\ copying = <<>>
            /\ DOMAIN heap' = DOMAIN heap \ {k} /\ \A i \in DOMAIN heap' : heap'[i] = heap[i]
            /\ heap' = [i \in DOMAIN heap' |-> heap'[i]]
            /\ freeing' = Tail(freeing) \o expr_free(n) \o stmt_free(n)
            /\ expr_free(n) \in Seq(Nat) /\ stmt_free(n) \in Seq(Nat) /\ freeing' \in Seq(Nat)
<1> DEFINE k == Head(freeing)
           n == heap[k]
<1>1. /\ freeing # <<>> /\ k \in DOMAIN heap /\ p' = p
      /\ freeing' = Tail(freeing) \o expr_free(n) \o stmt_free(n)
      /\ heap' = [i \in DOMAIN heap \ {k} |-> heap[i]]
  BY DEF Free
<1>2. IsHeap(heap, p.made) /\ freeing \in Seq(Nat)
  BY MemoryIs
<1>3. copying = <<>>
  BY <1>1, MemoryIs
<1>4. IsNode(n)
  BY <1>1, <1>2 DEF IsHeap
<1>5. PICK m : m = n
  OBVIOUS
<1>6. \A f \in Fields : m.part[f] \in Seq(Nat)
  BY <1>4, <1>5, NodeNoted
<1>7. expr_free(m) \in Seq(Nat)
  <2>1. PICK a \in Seq(Nat), b \in Seq(Nat), c \in Seq(Nat), d \in Seq(Nat), e \in Seq(Nat) :
          /\ a = m.part["inner"] /\ b = m.part["index"] /\ c = m.part["elif"] /\ d = m.part["argv"]
          /\ e = m.part["lambda"]
    BY <1>6, FieldNames
  <2>2. expr_free(m) = a \o b \o c \o d \o e
    BY <2>1, Zenon DEF expr_free
  <2>3. a \o b \in Seq(Nat)
    BY <2>1, ConcatProperties
  <2>4. a \o b \o c \in Seq(Nat)
    BY <2>1, <2>3, ConcatProperties
  <2>5. a \o b \o c \o d \in Seq(Nat)
    BY <2>1, <2>4, ConcatProperties
  <2>6. a \o b \o c \o d \o e \in Seq(Nat)
    BY <2>1, <2>5, ConcatProperties
  <2> QED BY <2>2, <2>6
<1>8. stmt_free(m) \in Seq(Nat)
  <2>1. PICK a \in Seq(Nat), b \in Seq(Nat), c \in Seq(Nat), d \in Seq(Nat), e \in Seq(Nat), g \in Seq(Nat) :
          /\ a = m.part["init"] /\ b = m.part["expr"] /\ c = m.part["guard"] /\ d = m.part["true_case"]
          /\ e = m.part["false_case"] /\ g = m.part["block"]
    BY <1>6, FieldNames
  <2>2. stmt_free(m) = a \o b \o c \o d \o e \o g
    BY <2>1, Zenon DEF stmt_free
  <2>3. a \o b \in Seq(Nat)
    BY <2>1, ConcatProperties
  <2>4. a \o b \o c \in Seq(Nat)
    BY <2>1, <2>3, ConcatProperties
  <2>5. a \o b \o c \o d \in Seq(Nat)
    BY <2>1, <2>4, ConcatProperties
  <2>6. a \o b \o c \o d \o e \in Seq(Nat)
    BY <2>1, <2>5, ConcatProperties
  <2>7. a \o b \o c \o d \o e \o g \in Seq(Nat)
    BY <2>1, <2>6, ConcatProperties
  <2> QED BY <2>2, <2>7
<1>9. freeing' \in Seq(Nat)
  <2>1. PICK t \in Seq(Nat), u \in Seq(Nat), v \in Seq(Nat) :
          t = Tail(freeing) /\ u = expr_free(n) /\ v = stmt_free(n)
    <3>1. Tail(freeing) \in Seq(Nat)
      BY <1>1, <1>2
    <3>2. expr_free(n) \in Seq(Nat) /\ stmt_free(n) \in Seq(Nat)
      BY <1>5, <1>7, <1>8
    <3> QED BY <3>1, <3>2
  <2>2. t \o u \in Seq(Nat)
    BY <2>1, ConcatProperties
  <2>3. t \o u \o v \in Seq(Nat)
    BY <2>1, <2>2, ConcatProperties
  <2> QED BY <1>1, <2>1, <2>3
<1>10. DOMAIN heap' = DOMAIN heap \ {k} /\ (\A i \in DOMAIN heap' : heap'[i] = heap[i])
       /\ heap' = [i \in DOMAIN heap' |-> heap'[i]]
  BY <1>1
<1> QED BY <1>1, <1>3, <1>4, <1>5, <1>7, <1>8, <1>9, <1>10

LEMMA MovingRemembers ==
  ASSUME TypeInv, Copy \/ Free
  PROVE  Memory'
<1>1. /\ IsParser(p) /\ p.made \in Nat /\ IsHeap(heap, p.made) /\ freeing \in Seq(Nat)
      /\ copying # <<>> => phase = "parse" /\ freeing = <<>>
      /\ phase = "done" => freeing = <<>>
  BY MemoryIs
<1>2. s' = s /\ phase' = phase
  BY DEF Copy, Free
<1>3. s' \in [source_file : {s'.source_file}, script : Seq(Nat)]
  BY <1>2, ScriptSame
<1>4. CASE Copy
  <2>1. PICK l : IsHeap(heap', p.made + l) /\ p'.made = p.made + l /\ copying' \in Seq(DOMAIN heap')
    BY <1>4, CopyMakes, Zenon
  <2>2. freeing' = freeing /\ copying # <<>>
    BY <1>4 DEF Copy
  <2> QED BY <1>1, <1>2, <1>3, <2>1, <2>2 DEF Memory
<1>5. CASE Free
  <2>1. /\ p' = p /\ freeing # <<>> /\ copying = <<>> /\ freeing' \in Seq(Nat)
        /\ DOMAIN heap' \subseteq DOMAIN heap /\ \A i \in DOMAIN heap' : heap'[i] = heap[i]
        /\ heap' = [i \in DOMAIN heap' |-> heap'[i]]
    BY <1>5, FreeIs
  <2>2. IsHeap(heap', p'.made)
    BY <1>1, <2>1 DEF IsHeap
  <2>3. copying' = copying /\ phase # "done"
    BY <1>1, <1>5, <2>1 DEF Free
  <2>4. copying' \in Seq(DOMAIN heap')
    <3>1. PICK e : e = <<>>
      OBVIOUS
    <3>2. e \in Seq(DOMAIN heap')
      BY <3>1
    <3> QED BY <2>1, <2>3, <3>1, <3>2
  <2> QED BY <1>2, <1>3, <2>1, <2>2, <2>3, <2>4 DEF Memory
<1> QED BY <1>4, <1>5

LEMMA MemoryHolds ==
  ASSUME TypeInv, [Next]_vars
  PROVE  Memory'
<1>1. CASE Expand \/ Read \/ ReadAgain \/ InternalError \/ UNCHANGED vars
  BY <1>1, ReadingRemembers
<1>2. CASE EnterInclude \/ LeaveInclude
  BY <1>2, IncludeRemembers
<1>3. CASE EndFirst \/ EndNext \/ BeginFunc \/ Enter \/ EndRettype \/ EndArg \/ EndExtends \/ IncludeFails
  BY <1>3, NotingRemembers
<1>4. CASE SyntaxError \/ Finish \/ FreeScript
  BY <1>4, EndingRemembers
<1>5. CASE EndExpr \/ EndKeyarraySingle
  BY <1>5, NodeRemembers
<1>6. CASE EndStmt \/ EndIf \/ EndCase \/ EndFunc
  BY <1>6, StatementRemembers
<1>7. CASE EndLambda
  BY <1>7, LambdaRemembers
<1>8. CASE EndOpAssign
  BY <1>8, CombinedRemembers
<1>9. CASE Copy \/ Free
  BY <1>9, MovingRemembers
<1> QED BY <1>1, <1>2, <1>3, <1>4, <1>5, <1>6, <1>7, <1>8, <1>9 DEF Next

\* The stacks, the goal and the nodes have their types, and while a script is
\* read each stack balances with what the functions of libparser still put on it
\* or take from it (expr_stack.c, stmt_stack.c, stmt_parse.c, leave_include).
THEOREM TypesAndBalance == Spec => []TypeInv
<1>1. Init => TypeInv
  BY InitHolds
<1>2. TypeInv /\ [Next]_vars => TypeInv'
  BY StackInvHolds, MemoryHolds DEF TypeInv
<1> QED BY <1>1, <1>2, PTL DEF Spec

\* When a script was parsed nothing is left on the stacks: every expression,
\* argument count, list, definition and included file that was opened has been
\* used (parser_run, expr_stack.c, stmt_stack.c, leave_include), whatever the
\* script says and includes.
THEOREM EverythingUsed == Spec => []NothingLeftOver
<1>1. TypeInv => NothingLeftOver
  <2> SUFFICES ASSUME TypeInv, phase = "done"
               PROVE  /\ p.expr_stack = <<>> /\ p.arg_count = <<>> /\ p.stack = <<>>
                      /\ p.fn_arg = <<>> /\ p.include = <<>> /\ s.source_file = MainFile
    BY DEF NothingLeftOver
  <2>1. AllUsed(p) /\ Outermost(p, s.source_file)
    BY DEF TypeInv, StackInv, Emptied
  <2> QED BY <2>1 DEF AllUsed, Outermost
<1> QED BY <1>1, TypesAndBalance, PTL

-----------------------------------------------------------------------------
(* Where the pointers to nodes are: on the stack of expressions, in the       *)
(* statement lists, in the parts of nodes, and among those that are freed or  *)
(* are the script.                                                            *)

AtExprs      == <<"exprs", 0, "">>
AtRoot       == <<"root", 0, "">>
AtList(k)    == <<"list", k, "">>
AtPart(i, f) == <<"part", i, f>>
Names == {AtExprs, AtRoot} \cup {AtList(k) : k \in Nat}
         \cup {AtPart(u[1], u[2]) : u \in Nat \X Fields}

ListAt(L, k)    == IF k \in DOMAIN L THEN L[k] ELSE <<>>
PartAt(P, i, f) == IF i \in DOMAIN P THEN P[i][f] ELSE <<>>
Places(E1, L, P, R) ==
  [x \in Names |->
     IF x[1] = "exprs" THEN E1
     ELSE IF x[1] = "root" THEN R
     ELSE IF x[1] = "list" THEN ListAt(L, x[2])
     ELSE PartAt(P, x[2], x[3])]

LEMMA NamesAre ==
  /\ AtExprs \in Names /\ AtRoot \in Names /\ \A k \in Nat : AtList(k) \in Names
  /\ \A i \in Nat, f \in Fields : AtPart(i, f) \in Names
  /\ \A x \in Names : \/ x = AtExprs \/ x = AtRoot \/ \E k \in Nat : x = AtList(k)
                      \/ \E i \in Nat, f \in Fields : x = AtPart(i, f)
<1>1. \A i \in Nat, f \in Fields : AtPart(i, f) \in {AtPart(u[1], u[2]) : u \in Nat \X Fields}
  <2> TAKE i \in Nat, f \in Fields
  <2>1. PICK u : u = <<i, f>>
    OBVIOUS
  <2>2. u \in Nat \X Fields /\ u[1] = i /\ u[2] = f
    BY <2>1
  <2> QED BY <2>2
<1>2. \A x \in {AtPart(u[1], u[2]) : u \in Nat \X Fields} : \E i \in Nat, f \in Fields : x = AtPart(i, f)
  <2> SUFFICES ASSUME NEW u \in Nat \X Fields
               PROVE  \E i \in Nat, f \in Fields : AtPart(u[1], u[2]) = AtPart(i, f)
    OBVIOUS
  <2>1. u[1] \in Nat /\ u[2] \in Fields
    OBVIOUS
  <2> QED BY <2>1
<1> HIDE DEF AtExprs, AtRoot, AtList, AtPart
<1> QED BY <1>1, <1>2 DEF Names

LEMMA NamesDiffer ==
  /\ AtExprs # AtRoot
  /\ \A k : AtList(k) # AtExprs /\ AtList(k) # AtRoot
  /\ \A k, l : AtList(k) = AtList(l) => k = l
  /\ \A i, f : AtPart(i, f) # AtExprs /\ AtPart(i, f) # AtRoot
  /\ \A i, f, k : AtPart(i, f) # AtList(k)
  /\ \A i, f, j, g : AtPart(i, f) = AtPart(j, g) => i = j /\ f = g
BY DEF AtExprs, AtRoot, AtList, AtPart

LEMMA PlacesAre ==
  ASSUME NEW E1, NEW L, NEW P, NEW R
  PROVE  /\ Places(E1, L, P, R)[AtExprs] = E1 /\ Places(E1, L, P, R)[AtRoot] = R
         /\ \A k \in Nat : Places(E1, L, P, R)[AtList(k)] = ListAt(L, k)
         /\ \A i \in Nat, f \in Fields : Places(E1, L, P, R)[AtPart(i, f)] = PartAt(P, i, f)
<1> DEFINE C == Places(E1, L, P, R)
<1>1. AtExprs \in Names /\ AtRoot \in Names /\ (\A k \in Nat : AtList(k) \in Names)
      /\ \A i \in Nat, f \in Fields : AtPart(i, f) \in Names
  BY NamesAre
<1>2. /\ AtExprs[1] = "exprs" /\ AtRoot[1] = "root"
      /\ \A k : AtList(k)[1] = "list" /\ AtList(k)[2] = k
      /\ \A i, f : AtPart(i, f)[1] = "part" /\ AtPart(i, f)[2] = i /\ AtPart(i, f)[3] = f
  BY DEF AtExprs, AtRoot, AtList, AtPart
<1> HIDE DEF AtExprs, AtRoot, AtList, AtPart, Names
<1>3. \A x \in Names : C[x] = IF x[1] = "exprs" THEN E1
                              ELSE IF x[1] = "root" THEN R
                              ELSE IF x[1] = "list" THEN ListAt(L, x[2])
                              ELSE PartAt(P, x[2], x[3])
  BY DEF Places
<1> HIDE DEF C, ListAt, PartAt
<1>4. C[AtExprs] = E1 /\ C[AtRoot] = R
  BY <1>1, <1>2, <1>3
<1>5. \A k \in Nat : C[AtList(k)] = ListAt(L, k)
  BY <1>1, <1>2, <1>3
<1>6. \A i \in Nat, f \in Fields : C[AtPart(i, f)] = PartAt(P, i, f)
  BY <1>1, <1>2, <1>3
<1> QED BY <1>4, <1>5, <1>6 DEF C

\* A place that is the same in two states.
LEMMA PlaceSame ==
  ASSUME NEW E1, NEW L, NEW P, NEW R, NEW E2, NEW M, NEW Q, NEW S, NEW y \in Names,
         y = AtExprs => E2 = E1, y = AtRoot => S = R,
         \A k \in Nat : y = AtList(k) => ListAt(M, k) = ListAt(L, k),
         \A i \in Nat, f \in Fields : y = AtPart(i, f) => PartAt(Q, i, f) = PartAt(P, i, f)
  PROVE  Places(E2, M, Q, S)[y] = Places(E1, L, P, R)[y]
<1>1. CASE y = AtExprs \/ y = AtRoot
  BY <1>1, PlacesAre
<1>2. ASSUME NEW k \in Nat, y = AtList(k) PROVE Places(E2, M, Q, S)[y] = Places(E1, L, P, R)[y]
  BY <1>2, PlacesAre
<1>3. ASSUME NEW i \in Nat, NEW f \in Fields, y = AtPart(i, f)
      PROVE  Places(E2, M, Q, S)[y] = Places(E1, L, P, R)[y]
  BY <1>3, PlacesAre
<1> QED BY <1>1, <1>2, <1>3, NamesAre

-----------------------------------------------------------------------------
(* The parts of the nodes.  A node that is still to be copied has none of its *)
(* own: those it shows are of the node it is a copy of.                       *)

Parts(h, c) == [i \in DOMAIN h |-> IF i \in Range(c) THEN NoParts ELSE h[i].part]

LEMMA PartsAre ==
  ASSUME NEW h, NEW c, NEW i, NEW f \in Fields
  PROVE  PartAt(Parts(h, c), i, f) = IF i \in DOMAIN h /\ i \notin Range(c) THEN h[i].part[f] ELSE <<>>
<1>1. PICK e : e = <<>>
  OBVIOUS
<1>2. NoParts[f] = e
  BY <1>1 DEF NoParts
<1>3. PICK S : S = Range(c)
  OBVIOUS
<1>4. DOMAIN Parts(h, c) = DOMAIN h /\ \A j \in DOMAIN h : Parts(h, c)[j] = IF j \in S THEN NoParts ELSE h[j].part
  BY <1>3 DEF Parts
<1>5. PartAt(Parts(h, c), i, f) = IF i \in DOMAIN h THEN Parts(h, c)[i][f] ELSE e
  BY <1>1, <1>4 DEF PartAt
<1> QED BY <1>1, <1>2, <1>3, <1>4, <1>5

\* Only what is at the places counts.
LEMMA PlacesLike ==
  ASSUME NEW E1, NEW L, NEW P, NEW R, NEW D, Forest(Names, Places(E1, L, P, R), D), NEW M, NEW Q,
         \A k \in Nat : ListAt(M, k) = ListAt(L, k),
         \A i \in Nat, f \in Fields : PartAt(Q, i, f) = PartAt(P, i, f)
  PROVE  Forest(Names, Places(E1, M, Q, R), D)
<1>1. \A y \in Names : Places(E1, M, Q, R)[y] = Places(E1, L, P, R)[y]
  BY PlaceSame
<1> QED BY <1>1, ForestSame

\* Expressions are popped into parts that were empty.
PopsTo(pops, K, a, b, P, Q) ==
  /\ K \in Nat /\ K = Len(pops) /\ a \in [1..K -> Nat] /\ b \in [1..K -> Fields]
  /\ \A j, k \in 1..K : a[j] = a[k] /\ b[j] = b[k] => j = k
  /\ \A k \in 1..K : PartAt(P, a[k], b[k]) = <<>>
  /\ \A k \in 1..K : PartAt(Q, a[k], b[k]) = PopExpr(pops, pops[k])
  /\ \A i \in Nat, f \in Fields :
       (\A k \in 1..K : ~(a[k] = i /\ b[k] = f)) => PartAt(Q, i, f) = PartAt(P, i, f)

LEMMA PopsForest ==
  ASSUME NEW F, F \subseteq Fields, NEW pops \in Orders(F), IsParser(p), ExprsSane(pops),
         NEW L, NEW P, NEW R, NEW D, Forest(Names, Places(p.expr_stack, L, P, R), D),
         NEW K, NEW a, NEW b, NEW Q, PopsTo(pops, K, a, b, P, Q)
  PROVE  Forest(Names, Places(ExprsLeft(pops), L, Q, R), D)
<1> USE DEF PopsTo
<1> DEFINE C  == Places(p.expr_stack, L, P, R)
           C2 == Places(ExprsLeft(pops), L, Q, R)
           x  == AtExprs
           n  == Len(p.expr_stack)
<1>1. PICK t : t = [k \in 1..(K + 1) |-> Popped(pops, k)]
  OBVIOUS
<1>2. PICK g : g = [k \in 1..K |-> AtPart(a[k], b[k])]
  OBVIOUS
<1>3. p.expr_stack \in Seq(Nat) /\ p.arg_count \in Seq(Nat \ {0}) /\ n \in Nat
  BY DEF IsParser
<1>4. /\ \A k \in 1..(K + 1) : Popped(pops, k) \in Nat
      /\ Popped(pops, 1) = 0
      /\ \A j, k \in 1..(K + 1) : j <= k => Popped(pops, j) <= Popped(pops, k)
      /\ Depth(pops) = Popped(pops, K + 1)
  BY <1>3, PoppedGrows
<1>5. Depth(pops) <= n
  BY DEF ExprsSane
<1>6. \A k \in 1..(K + 1) : t[k] = Popped(pops, k)
  BY <1>1
<1>7. ASSUME NEW k \in 1..(K + 1) PROVE t[k] \in 0..n
  <2>1. k <= K + 1 /\ K + 1 \in 1..(K + 1)
    OBVIOUS
  <2>2. Popped(pops, k) <= Popped(pops, K + 1)
    BY <1>4, <2>1
  <2>3. PICK u \in Nat, w \in Nat : u = Popped(pops, k) /\ w = Popped(pops, K + 1)
    BY <1>4, <2>1
  <2>4. u <= w /\ w <= n
    BY <1>4, <1>5, <2>2, <2>3
  <2> QED BY <1>3, <1>6, <2>3, <2>4
<1>8. t \in [1..(K + 1) -> 0..n]
  BY <1>1, <1>7
<1>9. t[1] = 0 /\ \A j, k \in 1..(K + 1) : j <= k => t[j] <= t[k]
  <2>1. 1 \in 1..(K + 1)
    OBVIOUS
  <2> QED BY <1>4, <1>6, <2>1
<1>10. C[x] = p.expr_stack /\ C2[x] = ExprsLeft(pops)
  BY PlacesAre
<1>11. ASSUME NEW k \in 1..K
       PROVE  /\ g[k] \in Names /\ g[k] # x /\ C[g[k]] = <<>>
              /\ C2[g[k]] = PopExpr(pops, pops[k]) /\ g[k] = AtPart(a[k], b[k])
  <2>1. a[k] \in Nat /\ b[k] \in Fields /\ g[k] = AtPart(a[k], b[k])
    BY <1>2
  <2>2. g[k] \in Names /\ g[k] # x
    BY <2>1, NamesAre, NamesDiffer
  <2>3. C[g[k]] = PartAt(P, a[k], b[k]) /\ C2[g[k]] = PartAt(Q, a[k], b[k])
    BY <2>1, PlacesAre
  <2> QED BY <2>1, <2>2, <2>3
<1>12. g \in [1..K -> Names]
  BY <1>2, <1>11
<1>13. \A j, k \in 1..K : g[j] = g[k] => j = k
  BY <1>11, NamesDiffer
<1>14. ASSUME NEW k \in 1..K PROVE C2[g[k]] = SubSeq(C[x], n - t[k + 1] + 1, n - t[k])
  <2>1. k \in 1..(K + 1) /\ k + 1 \in 1..(K + 1)
    OBVIOUS
  <2>2. PopExpr(pops, pops[k]) = SubSeq(p.expr_stack, n - Popped(pops, k + 1) + 1, n - Popped(pops, k))
    BY PopExprIs
  <2> QED BY <1>6, <1>10, <1>11, <2>1, <2>2
<1>15. C2[x] = SubSeq(C[x], 1, n - t[K + 1])
  <2>1. K + 1 \in 1..(K + 1)
    OBVIOUS
  <2>2. t[K + 1] = Depth(pops)
    BY <1>4, <1>6, <2>1
  <2> QED BY <1>10, <2>2 DEF ExprsLeft
<1>16. ASSUME NEW y \in Names, y # x, \A k \in 1..K : y # g[k] PROVE C2[y] = C[y]
  <2>1. ASSUME NEW i \in Nat, NEW f \in Fields, y = AtPart(i, f) PROVE PartAt(Q, i, f) = PartAt(P, i, f)
    <3>1. \A k \in 1..K : ~(a[k] = i /\ b[k] = f)
      BY <1>11, <1>16, <2>1
    <3> QED BY <3>1
  <2>2. /\ y = AtExprs => ExprsLeft(pops) = p.expr_stack
        /\ y = AtRoot => R = R
        /\ \A k \in Nat : y = AtList(k) => ListAt(L, k) = ListAt(L, k)
    BY <1>16
  <2>3. Places(ExprsLeft(pops), L, Q, R)[y] = Places(p.expr_stack, L, P, R)[y]
    BY <2>1, <2>2, PlaceSame
  <2> QED BY <2>3
<1> HIDE DEF C, C2, x
<1>17. Len(C[x]) = n
  BY <1>10
<1>18. /\ \A k \in 1..K : g[k] # x /\ g[k] # x /\ C[g[k]] = <<>>
       /\ \A k \in 1..K : C2[g[k]] = SubSeq(C[x], n - t[k + 1] + 1, n - t[k])
       /\ \A y \in Names : y # x /\ y # x /\ (\A k \in 1..K : y # g[k]) => C2[y] = C[y]
  BY <1>11, <1>14, <1>16
<1>19. Dealt(Names, C, x, x, K, t, g, C2)
  BY <1>3, <1>8, <1>9, <1>12, <1>13, <1>15, <1>17, <1>18, Zenon DEF Dealt
<1>20. x \in Names
  BY NamesAre DEF x
<1>21. Forest(Names, C, D)
  BY DEF C
<1>22. Forest(Names, C2, D)
  BY <1>19, <1>20, <1>21, Deal
<1> QED BY <1>22 DEF C2

\* The same, into the parts of one node that was nowhere.
LEMMA NodePops ==
  ASSUME NEW F, F \subseteq Fields, NEW pops \in Orders(F), IsParser(p), ExprsSane(pops),
         NEW L, NEW P, NEW R, NEW D, Forest(Names, Places(p.expr_stack, L, P, R), D),
         NEW m \in Nat, \A f \in Fields : PartAt(P, m, f) = <<>>, NEW Q,
         \A i \in Nat, f \in Fields :
           PartAt(Q, i, f) = IF i = m THEN (IF f \in Range(pops) THEN PopExpr(pops, f) ELSE <<>>)
                             ELSE PartAt(P, i, f)
  PROVE  Forest(Names, Places(ExprsLeft(pops), L, Q, R), D)
<1>1. PICK K \in Nat : K = Len(pops)
  BY OrderIs
<1>2. PICK a : a = [k \in 1..K |-> m]
  OBVIOUS
<1>3. pops \in Seq(F) /\ DOMAIN pops = 1..K /\ (\A j, k \in 1..K : pops[j] = pops[k] => j = k)
      /\ \A f : f \in Range(pops) <=> \E k \in 1..K : pops[k] = f
  BY <1>1, OrderIs
<1>4. pops = [k \in 1..K |-> pops[k]] /\ \A k \in 1..K : pops[k] \in Fields
  BY <1>1, <1>3
<1>5. pops \in [1..K -> Fields] /\ a \in [1..K -> Nat] /\ \A k \in 1..K : a[k] = m
  BY <1>2, <1>4
<1>6. \A j, k \in 1..K : a[j] = a[k] /\ pops[j] = pops[k] => j = k
  BY <1>3
<1>7. \A k \in 1..K : PartAt(P, a[k], pops[k]) = <<>>
  BY <1>4, <1>5
<1>8. \A k \in 1..K : PartAt(Q, a[k], pops[k]) = PopExpr(pops, pops[k])
  BY <1>3, <1>4, <1>5
<1>9. ASSUME NEW i \in Nat, NEW f \in Fields, \A k \in 1..K : ~(a[k] = i /\ pops[k] = f)
      PROVE  PartAt(Q, i, f) = PartAt(P, i, f)
  <2>1. CASE i # m
    BY <2>1
  <2>2. CASE i = m
    <3>1. f \notin Range(pops)
      BY <1>3, <1>5, <1>9, <2>2
    <3>2. PartAt(Q, i, f) = <<>>
      BY <2>2, <3>1
    <3> QED BY <2>2, <3>2
  <2> QED BY <2>1, <2>2
<1>10. \A i \in Nat, f \in Fields :
         (\A k \in 1..K : ~(a[k] = i /\ pops[k] = f)) => PartAt(Q, i, f) = PartAt(P, i, f)
  BY <1>9
<1>11. PopsTo(pops, K, a, pops, P, Q)
  BY <1>1, <1>5, <1>6, <1>7, <1>8, <1>10, Zenon DEF PopsTo
<1> QED BY <1>11, PopsForest
\* The statement lists, when the topmost one is left, one is opened or a statement
\* is put on the topmost one.
LEMMA ListsLeft ==
  ASSUME NEW L \in Seq(Seq(Nat)), L # <<>>
  PROVE  /\ Len(L) \in Nat /\ ListAt(L, Len(L)) = Last(L) /\ ListAt(Front(L), Len(L)) = <<>>
         /\ \A k \in Nat : k # Len(L) => ListAt(Front(L), k) = ListAt(L, k)
<1>1. PICK S : S = Seq(Nat)
  OBVIOUS
<1>2. L \in Seq(S)
  BY <1>1
<1>3. PICK n \in Nat : n = Len(L) /\ n # 0 /\ DOMAIN L = 1..n
  BY <1>2, EmptySeq
<1>4. Front(L) \in Seq(S) /\ Len(Front(L)) = Len(L) - 1 /\ L = Append(Front(L), Last(L)) /\ Last(L) \in S
  BY <1>2, FrontOf
<1>5. PICK w \in Seq(S), x \in S : w = Front(L) /\ x = Last(L)
  BY <1>4
<1>6. PICK m \in Nat : m = n - 1 /\ n = m + 1
  <2>1. n - 1 \in Nat /\ n = (n - 1) + 1
    BY <1>3
  <2> QED BY <2>1
<1>7. Len(w) = m /\ L = Append(w, x)
  BY <1>3, <1>4, <1>5, <1>6
<1>8. DOMAIN w = 1..m /\ \A k \in 1..m : L[k] = w[k]
  BY <1>7, AppendProperties
<1>9. L[n] = x
  BY <1>6, <1>7, AppendProperties
<1>10. n \in DOMAIN L /\ n \notin DOMAIN w
  BY <1>3, <1>6, <1>8
<1>11. \A k \in Nat : k # n => (k \in DOMAIN L <=> k \in DOMAIN w)
  BY <1>3, <1>6, <1>8
<1>12. ListAt(L, n) = x /\ ListAt(w, n) = <<>>
  BY <1>9, <1>10 DEF ListAt
<1>13. \A k \in Nat : k # n => ListAt(w, k) = ListAt(L, k)
  BY <1>8, <1>11 DEF ListAt
<1> QED BY <1>3, <1>5, <1>12, <1>13

LEMMA ListOpened ==
  ASSUME NEW L \in Seq(Seq(Nat))
  PROVE  \A k \in Nat : ListAt(Append(L, <<>>), k) = ListAt(L, k)
<1>1. PICK S : S = Seq(Nat)
  OBVIOUS
<1>2. PICK n \in Nat : L \in Seq(S) /\ n = Len(L) /\ DOMAIN L = 1..n
  BY <1>1
<1>3. PICK e \in S : e = <<>>
  <2>1. PICK e : e = <<>>
    OBVIOUS
  <2>2. e \in S
    BY <1>1, <2>1
  <2> QED BY <2>1, <2>2
<1>4. PICK w \in Seq(S) : w = Append(L, e) /\ Len(w) = n + 1 /\ (\A k \in 1..n : w[k] = L[k]) /\ w[n + 1] = e
  BY <1>2, <1>3, AppendProperties
<1>5. DOMAIN w = 1..(n + 1)
  BY <1>4
<1>6. ASSUME NEW k \in Nat PROVE ListAt(w, k) = ListAt(L, k)
  <2>1. CASE k \in 1..n
    <3>1. k \in 1..(n + 1)
      BY <2>1
    <3> QED BY <1>2, <1>4, <1>5, <2>1, <3>1 DEF ListAt
  <2>2. CASE k = n + 1
    <3>1. k \in 1..(n + 1) /\ k \notin 1..n
      BY <2>2
    <3> QED BY <1>2, <1>3, <1>4, <1>5, <2>2, <3>1 DEF ListAt
  <2>3. CASE k \notin 1..(n + 1)
    <3>1. k \notin 1..n
      BY <2>3
    <3> QED BY <1>2, <1>5, <2>3, <3>1 DEF ListAt
  <2> QED BY <2>1, <2>2, <2>3
<1> QED BY <1>2, <1>3, <1>4, <1>6

LEMMA ListPushed ==
  ASSUME NEW L \in Seq(Seq(Nat)), L # <<>>, NEW i
  PROVE  /\ ListAt(Pushed(L, i), Len(L)) = Append(ListAt(L, Len(L)), i) /\ Len(L) \in Nat
         /\ \A k \in Nat : k # Len(L) => ListAt(Pushed(L, i), k) = ListAt(L, k)
<1>1. PICK n \in Nat : n = Len(L) /\ n # 0 /\ DOMAIN L = 1..n
  BY EmptySeq
<1>2. n \in DOMAIN L
  BY <1>1
<1>3. /\ DOMAIN Pushed(L, i) = DOMAIN L /\ Pushed(L, i)[n] = Append(L[n], i)
      /\ \A k \in DOMAIN L : k # n => Pushed(L, i)[k] = L[k]
  BY <1>1, <1>2 DEF Pushed
<1> QED BY <1>1, <1>2, <1>3 DEF ListAt

\* Statements are taken from the topmost list into parts of a node that were
\* empty, and the others are left to be freed.
TakesTo(takes, m, P, Q) ==
  /\ \A f \in Range(takes) : PartAt(P, m, f) = <<>>
  /\ \A i \in Nat, f \in Fields :
       PartAt(Q, i, f) = IF i = m /\ f \in Range(takes) THEN TakeStmt(takes, f) ELSE PartAt(P, i, f)

LEMMA TakesForest ==
  ASSUME IsParser(p), p.stack # <<>>, NEW takes \in StmtOrder, Len(takes) <= Len(List),
         NEW E1, NEW P, NEW D, Forest(Names, Places(E1, p.stack, P, <<>>), D),
         NEW m \in Nat, NEW Q, TakesTo(takes, m, P, Q)
  PROVE  Forest(Names, Places(E1, Front(p.stack), Q, StmtsLeft(takes)), D)
<1> USE DEF TakesTo
<1> DEFINE C  == Places(E1, p.stack, P, <<>>)
           C2 == Places(E1, Front(p.stack), Q, StmtsLeft(takes))
<1>1. p.stack \in Seq(Seq(Nat))
  BY DEF IsParser
<1>2. PICK h \in Nat : h = Len(p.stack)
  BY <1>1
<1>3. PICK n \in Nat, K \in Nat : n = Len(List) /\ K = Len(takes) /\ K <= n /\ List \in Seq(Nat)
  BY ListIs, OrderIs DEF StmtOrder
<1>4. PICK x : x = AtList(h)
  OBVIOUS
<1>5. x \in Names /\ x # AtRoot /\ x # AtExprs /\ AtRoot \in Names
  BY <1>4, NamesAre, NamesDiffer
<1>6. C[x] = List /\ C2[x] = <<>> /\ C[AtRoot] = <<>> /\ C2[AtRoot] = StmtsLeft(takes)
  <2>1. ListAt(p.stack, h) = List /\ ListAt(Front(p.stack), h) = <<>>
    BY <1>1, <1>2, ListsLeft DEF List
  <2>2. C[x] = ListAt(p.stack, h) /\ C2[x] = ListAt(Front(p.stack), h)
    BY <1>4, PlacesAre
  <2>3. C[AtRoot] = <<>> /\ C2[AtRoot] = StmtsLeft(takes)
    BY PlacesAre
  <2> QED BY <2>1, <2>2, <2>3
<1>7. PICK t : t = [k \in 1..(K + 1) |-> k - 1]
  OBVIOUS
<1>8. PICK g : g = [k \in 1..K |-> AtPart(m, takes[k])]
  OBVIOUS
<1>9. \A k \in 1..(K + 1) : t[k] = k - 1 /\ k - 1 \in 0..n
  BY <1>3, <1>7
<1>10. t \in [1..(K + 1) -> 0..n] /\ t[1] = 0 /\ t[K + 1] = K
  BY <1>7, <1>9
<1>11. \A j, k \in 1..(K + 1) : j <= k => t[j] <= t[k]
  <2>1. \A j, k \in 1..(K + 1) : j <= k => j - 1 <= k - 1
    OBVIOUS
  <2> QED BY <1>9, <2>1
<1>12. /\ \A j, k \in 1..K : takes[j] = takes[k] => j = k
       /\ \A f : f \in Range(takes) <=> \E k \in 1..K : takes[k] = f
       /\ \A k \in 1..K : takes[k] \in Fields /\ takes[k] \in Range(takes)
       /\ DOMAIN takes = 1..K
  <2>1. {"true_case", "false_case"} \subseteq Fields
    BY FieldNames
  <2>2. PICK G : G = {"true_case", "false_case"} /\ G \subseteq Fields /\ takes \in Orders(G)
    BY <2>1 DEF StmtOrder
  <2>3. /\ takes \in Seq(G) /\ DOMAIN takes = 1..Len(takes)
        /\ \A j, k \in 1..Len(takes) : takes[j] = takes[k] => j = k
        /\ \A f : f \in Range(takes) <=> \E k \in 1..Len(takes) : takes[k] = f
    BY <2>2, OrderIs
  <2>4. \A k \in 1..K : takes[k] \in G
    BY <1>3, <2>3
  <2> QED BY <1>3, <2>2, <2>3, <2>4
<1>13. ASSUME NEW k \in 1..K
       PROVE  /\ g[k] = AtPart(m, takes[k]) /\ g[k] \in Names /\ g[k] # x /\ g[k] # AtRoot
              /\ C[g[k]] = <<>> /\ C2[g[k]] = TakeStmt(takes, takes[k])
  <2>1. g[k] = AtPart(m, takes[k]) /\ takes[k] \in Fields /\ takes[k] \in Range(takes)
    BY <1>8, <1>12
  <2>2. g[k] \in Names /\ g[k] # x /\ g[k] # AtRoot
    BY <1>4, <2>1, NamesAre, NamesDiffer
  <2>3. C[g[k]] = PartAt(P, m, takes[k]) /\ C2[g[k]] = PartAt(Q, m, takes[k])
    BY <2>1, PlacesAre
  <2>4. PartAt(P, m, takes[k]) = <<>> /\ PartAt(Q, m, takes[k]) = TakeStmt(takes, takes[k])
    BY <2>1
  <2> QED BY <2>1, <2>2, <2>3, <2>4
<1>14. g \in [1..K -> Names] /\ \A j, k \in 1..K : g[j] = g[k] => j = k
  <2>1. \A j, k \in 1..K : g[j] = g[k] => takes[j] = takes[k]
    BY <1>13, NamesDiffer
  <2>2. \A k \in 1..K : g[k] \in Names
    BY <1>13
  <2>3. g \in [1..K -> Names]
    BY <1>8, <2>2
  <2> QED BY <1>12, <2>1, <2>3
<1>15. ASSUME NEW k \in 1..K PROVE C2[g[k]] = SubSeq(C[x], n - t[k + 1] + 1, n - t[k])
  <2>1. k \in 1..(K + 1) /\ k + 1 \in 1..(K + 1) /\ k + 1 - 1 = k
    OBVIOUS
  <2>2. t[k] = k - 1 /\ t[k + 1] = k
    BY <1>9, <2>1
  <2>8. n + 1 - k \in 1..n
    BY <1>3
  <2>3. PICK l \in 1..n : l = n + 1 - k
    BY <2>8
  <2>4. n - k + 1 = l /\ n - (k - 1) = l
    BY <2>3
  <2>5. (CHOOSE j \in DOMAIN takes : takes[j] = takes[k]) = k
    BY <1>12
  <2>6. TakeStmt(takes, takes[k]) = <<List[n + 1 - k]>>
    BY <1>3, <2>5 DEF TakeStmt
  <2>7. SubSeq(List, l, l) = <<List[l]>>
    BY <1>3, OneOf
  <2> QED BY <1>6, <1>13, <2>2, <2>3, <2>4, <2>6, <2>7
<1>16. C2[AtRoot] = SubSeq(C[x], 1, n - t[K + 1])
  BY <1>3, <1>6, <1>10 DEF StmtsLeft
<1>17. ASSUME NEW y \in Names, y # x, y # AtRoot, \A k \in 1..K : y # g[k] PROVE C2[y] = C[y]
  <2>1. ASSUME NEW i \in Nat, NEW f \in Fields, y = AtPart(i, f) PROVE PartAt(Q, i, f) = PartAt(P, i, f)
    <3>1. ~(i = m /\ f \in Range(takes))
      BY <1>12, <1>13, <1>17, <2>1
    <3> QED BY <3>1
  <2>2. ASSUME NEW k \in Nat, y = AtList(k) PROVE ListAt(Front(p.stack), k) = ListAt(p.stack, k)
    <3>1. k # h
      BY <1>4, <1>17, <2>2
    <3> QED BY <1>1, <1>2, <3>1, ListsLeft
  <2>3. y # AtRoot
    BY <1>17
  <2> QED BY <2>1, <2>2, <2>3, PlaceSame
<1>18. Forest(Names, C, D) /\ Len(C[x]) = n
  BY <1>3, <1>6
<1> HIDE DEF C, C2
<1>19. /\ \A k \in 1..K : g[k] # x /\ g[k] # AtRoot /\ C[g[k]] = <<>>
       /\ \A k \in 1..K : C2[g[k]] = SubSeq(C[x], n - t[k + 1] + 1, n - t[k])
       /\ \A y \in Names : y # x /\ y # AtRoot /\ (\A k \in 1..K : y # g[k]) => C2[y] = C[y]
  BY <1>13, <1>15, <1>17
<1>20. Dealt(Names, C, x, AtRoot, K, t, g, C2)
  BY <1>3, <1>6, <1>10, <1>11, <1>14, <1>16, <1>18, <1>19, Zenon DEF Dealt
<1>21. Forest(Names, C2, D)
  BY <1>5, <1>18, <1>20, Deal
<1> QED BY <1>21 DEF C2
\* A pointer is put on the stack of expressions, or on the topmost list.
LEMMA AddExpr ==
  ASSUME NEW E1, NEW L, NEW P, NEW R, NEW D, Forest(Names, Places(E1, L, P, R), D), NEW d, d \notin D
  PROVE  Forest(Names, Places(Append(E1, d), L, P, R), D \cup {d})
<1> DEFINE C == Places(E1, L, P, R)
           C2 == Places(Append(E1, d), L, P, R)
<1>1. C2[AtExprs] = Append(C[AtExprs], d)
  <2>1. PICK A : A = Append(E1, d)
    OBVIOUS
  <2>2. C[AtExprs] = E1 /\ Places(A, L, P, R)[AtExprs] = A
    BY PlacesAre
  <2> QED BY <2>1, <2>2
<1>2. \A y \in Names \ {AtExprs} : C2[y] = C[y]
  BY PlaceSame
<1>3. AtExprs \in Names
  BY NamesAre
<1> HIDE DEF C2
<1> QED BY <1>1, <1>2, <1>3, Added DEF C2

LEMMA AddStmt ==
  ASSUME NEW E1, NEW L \in Seq(Seq(Nat)), L # <<>>, NEW P, NEW R, NEW D, Forest(Names, Places(E1, L, P, R), D),
         NEW d, d \notin D
  PROVE  Forest(Names, Places(E1, Pushed(L, d), P, R), D \cup {d})
<1> DEFINE C == Places(E1, L, P, R)
           C2 == Places(E1, Pushed(L, d), P, R)
<1>1. PICK n \in Nat : n = Len(L)
  BY ListPushed
<1>2. /\ ListAt(Pushed(L, d), n) = Append(ListAt(L, n), d)
      /\ \A k \in Nat : k # n => ListAt(Pushed(L, d), k) = ListAt(L, k)
  BY <1>1, ListPushed
<1>3. C2[AtList(n)] = Append(C[AtList(n)], d)
  <2>1. PICK M : M = Pushed(L, d)
    OBVIOUS
  <2>2. C[AtList(n)] = ListAt(L, n) /\ Places(E1, M, P, R)[AtList(n)] = ListAt(M, n)
    BY PlacesAre
  <2> QED BY <1>2, <2>1, <2>2
<1>4. \A y \in Names \ {AtList(n)} : C2[y] = C[y]
  <2> TAKE y \in Names \ {AtList(n)}
  <2>1. \A k \in Nat : y = AtList(k) => ListAt(Pushed(L, d), k) = ListAt(L, k)
    BY <1>2
  <2> QED BY <2>1, PlaceSame
<1>5. AtList(n) \in Names
  BY NamesAre
<1> HIDE DEF C2
<1> QED BY <1>3, <1>4, <1>5, Added DEF C2

\* What is in the parts is among the nodes.
LEMMA PartsIn ==
  ASSUME NEW E1, NEW L, NEW P, NEW R, NEW D, Forest(Names, Places(E1, L, P, R), D)
  PROVE  /\ \A i \in Nat, f \in Fields : PartAt(P, i, f) \in Seq(D)
         /\ E1 \in Seq(D) /\ R \in Seq(D)
<1>1. \A y \in Names : Places(E1, L, P, R)[y] \in Seq(D)
  BY DEF Forest
<1> QED BY <1>1, NamesAre, PlacesAre

\* Pointers that were nowhere are put into a part that was empty.
PutAt(P, m, f, v, Q) ==
  /\ PartAt(P, m, f) = <<>> /\ PartAt(Q, m, f) = v
  /\ \A i \in Nat, g \in Fields : ~(i = m /\ g = f) => PartAt(Q, i, g) = PartAt(P, i, g)

LEMMA PartPut ==
  ASSUME NEW E1, NEW L, NEW P, NEW R, NEW D, Forest(Names, Places(E1, L, P, R), D),
         NEW m \in Nat, NEW f \in Fields, NEW D2, D \subseteq D2, NEW v \in Seq(D2), IsInjective(v),
         \A i \in DOMAIN v : v[i] \notin D, D2 \ D \subseteq Range(v),
         NEW Q, PutAt(P, m, f, v, Q)
  PROVE  Forest(Names, Places(E1, L, Q, R), D2)
<1> DEFINE C == Places(E1, L, P, R)
           C2 == Places(E1, L, Q, R)
<1>1. PICK x \in Names : x = AtPart(m, f)
  BY NamesAre
<1>2. C[x] = <<>> /\ C2[x] = v
  BY <1>1, PlacesAre DEF PutAt
<1>3. \A y \in Names \ {x} : C2[y] = C[y]
  <2> TAKE y \in Names \ {x}
  <2>1. \A i \in Nat, g \in Fields : y = AtPart(i, g) => PartAt(Q, i, g) = PartAt(P, i, g)
    BY <1>1 DEF PutAt
  <2> QED BY <2>1, PlaceSame
<1>4. Range(C[x]) = {}
  <2>1. PICK e : e = <<>>
    OBVIOUS
  <2>2. Range(e) = {}
    BY <2>1 DEF Range
  <2> QED BY <1>2, <2>1, <2>2
<1>5. \A d \in D2 : d \notin D \/ d \in Range(C[x]) => d \in Range(v)
  BY <1>4
<1>6. \A d \in D : d \in D2 \/ d \in Range(C[x])
  OBVIOUS
<1> HIDE DEF C2
<1>7. Forest(Names, C2, D2)
  BY <1>2, <1>3, <1>5, <1>6, PlaceSet
<1> QED BY <1>7 DEF C2

LEMMA OnePut ==
  ASSUME NEW E1, NEW L, NEW P, NEW R, NEW D, Forest(Names, Places(E1, L, P, R), D),
         NEW m \in Nat, NEW f \in Fields, NEW d, d \notin D, NEW Q, PutAt(P, m, f, <<d>>, Q)
  PROVE  Forest(Names, Places(E1, L, Q, R), D \cup {d})
<1>1. PICK S : S = D \cup {d}
  OBVIOUS
<1>2. PICK v : v = <<d>>
  OBVIOUS
<1>3. v \in Seq(S) /\ DOMAIN v = {1} /\ v[1] = d
  BY <1>1, <1>2
<1>4. IsInjective(v) /\ (\A i \in DOMAIN v : v[i] \notin D) /\ d \in Range(v)
  BY <1>3 DEF IsInjective, Range
<1>5. D \subseteq S /\ S \ D \subseteq Range(v)
  BY <1>1, <1>4
<1>6. PutAt(P, m, f, v, Q)
  BY <1>2
<1>7. Forest(Names, Places(E1, L, Q, R), S)
  BY <1>3, <1>4, <1>5, <1>6, PartPut
<1> QED BY <1>1, <1>7

\* What was to be freed becomes a part that was empty.
LEMMA RootToPart ==
  ASSUME NEW E1, NEW L, NEW P, NEW R, NEW D, Forest(Names, Places(E1, L, P, R), D),
         NEW m \in Nat, NEW f \in Fields, NEW Q, PutAt(P, m, f, R, Q)
  PROVE  Forest(Names, Places(E1, L, Q, <<>>), D)
<1> DEFINE C == Places(E1, L, P, R)
           C2 == Places(E1, L, Q, <<>>)
<1>1. PICK x \in Names : x = AtPart(m, f) /\ x # AtRoot
  BY NamesAre, NamesDiffer
<1>2. C[x] = <<>> /\ C2[x] = R /\ C[AtRoot] = R /\ C2[AtRoot] = <<>>
  BY <1>1, PlacesAre DEF PutAt
<1>3. \A y \in Names \ {x, AtRoot} : C2[y] = C[y]
  <2> SUFFICES ASSUME NEW y \in Names, y # x, y # AtRoot PROVE C2[y] = C[y]
    OBVIOUS
  <2>1. \A i \in Nat, g \in Fields : y = AtPart(i, g) => PartAt(Q, i, g) = PartAt(P, i, g)
    BY <1>1 DEF PutAt
  <2>2. \A k \in Nat : y = AtList(k) => ListAt(L, k) = ListAt(L, k)
    OBVIOUS
  <2>3. PICK e : e = <<>>
    OBVIOUS
  <2>4. Places(E1, L, Q, e)[y] = Places(E1, L, P, R)[y]
    BY <2>1, <2>2, PlaceSame
  <2> QED BY <2>3, <2>4
<1>4. R \in Seq(D) /\ AtRoot \in Names
  BY PartsIn, NamesAre
<1>5. <<>> \o R = R
  BY <1>4, ConcatEmptySeq
<1>6. C2[x] = C[x] \o C[AtRoot]
  BY <1>2, <1>5
<1> HIDE DEF C2
<1>7. Forest(Names, C, D)
  OBVIOUS
<1> HIDE DEF C
<1>8. PICK y \in Names : y = AtRoot /\ x # y
  BY <1>1, <1>4
<1>9. C2[x] = C[x] \o C[y] /\ C2[y] = <<>> /\ \A z \in Names \ {x, y} : C2[z] = C[z]
  BY <1>2, <1>3, <1>6, <1>8
<1>10. Forest(Names, C2, D)
  <2>1. /\ C2[x] = C[x] \o C[y]
    BY <1>9
  <2>2. C2[y] = <<>>
    BY <1>9
  <2>3. \A z \in Names \ {x, y} : C2[z] = C[z]
    BY <1>9
  <2>4. x # y
    BY <1>8
  <2> QED BY <1>7, <2>1, <2>2, <2>3, <2>4, JoinedTo, Zenon
<1> QED BY <1>10 DEF C2

\* The topmost list is left, and what is in it is to be freed.
LEMMA ListFreed ==
  ASSUME IsParser(p), NEW E1, NEW P, NEW D, Forest(Names, Places(E1, p.stack, P, <<>>), D)
  PROVE  /\ Forest(Names, Places(E1, Front(p.stack), P, FreedList), D)
         /\ p.stack # <<>> => FreedList = List
<1>1. CASE p.stack = <<>>
  <2>1. Front(p.stack) = <<>> /\ FreedList = <<>>
    <3>1. PICK e : e = <<>>
      OBVIOUS
    <3>2. Front(e) = e
      BY <3>1 DEF Front
    <3> QED BY <1>1, <3>1, <3>2 DEF FreedList
  <2> QED BY <1>1, <2>1
<1>2. CASE p.stack # <<>>
  <2>1. PICK takes : takes = <<>>
    OBVIOUS
  <2>2. takes \in StmtOrder /\ Len(takes) = 0 /\ Range(takes) = {}
    BY <2>1, TheOrders DEF Range
  <2>3. List \in Seq(Nat) /\ Len(List) \in Nat
    BY <1>2, ListIs
  <2>4. StmtsLeft(takes) = List
    <3>1. Len(List) - Len(takes) = Len(List)
      BY <2>2, <2>3
    <3>2. SubSeq(List, 1, Len(List)) = List
      BY <2>3, SubSeqFull
    <3> QED BY <3>1, <3>2 DEF StmtsLeft
  <2>5. Len(takes) <= Len(List)
    BY <2>2, <2>3
  <2>6. 0 \in Nat /\ TakesTo(takes, 0, P, P)
    BY <2>2 DEF TakesTo
  <2>7. Forest(Names, Places(E1, Front(p.stack), P, StmtsLeft(takes)), D)
    BY <1>2, <2>2, <2>5, <2>6, TakesForest
  <2> QED BY <1>2, <2>4, <2>7 DEF FreedList
<1> QED BY <1>1, <1>2

-----------------------------------------------------------------------------
(* A statement is made of expressions and of statements of the topmost list.  *)

\* The parts, with those of one node.
WithNode(P, m, q) == [i \in DOMAIN P \cup {m} |-> IF i = m THEN q ELSE P[i]]

LEMMA WithNodeIs ==
  ASSUME NEW P, NEW m, NEW q, NEW i, NEW f
  PROVE  PartAt(WithNode(P, m, q), i, f) = IF i = m THEN q[f] ELSE PartAt(P, i, f)
BY DEF WithNode, PartAt

\* What is in the parts of a statement before it is given its block.
Taken(x) == [f \in Fields |-> IF f \in Range(x.exprs) THEN PopExpr(x.exprs, f)
                              ELSE IF f \in Range(x.stmts) THEN TakeStmt(x.stmts, f) ELSE <<>>]
OnlyExprs(x) == [f \in Fields |-> IF f \in Range(x.exprs) THEN PopExpr(x.exprs, f) ELSE <<>>]

LEMMA TakesAre ==
  ASSUME NEW x, Takes(x)
  PROVE  /\ x.exprs \in ExprOrder /\ x.stmts \in StmtOrder /\ ExprsSane(x.exprs)
         /\ p.stack # <<>> /\ Len(x.stmts) <= Len(List)
         /\ {"expr", "guard", "init"} \subseteq Fields
         /\ Range(x.exprs) \subseteq {"expr", "guard", "init"}
         /\ Range(x.stmts) \subseteq {"true_case", "false_case"}
         /\ x.exprs \in Orders({"expr", "guard", "init"})
<1>1. x.exprs \in ExprOrder /\ x.stmts \in StmtOrder /\ ExprsSane(x.exprs) /\ StmtsSane(x.stmts)
  BY DEF Takes
<1>2. p.stack # <<>> /\ Len(x.stmts) <= Len(List)
  BY <1>1 DEF StmtsSane
<1>3. {"expr", "guard", "init"} \subseteq Fields
  BY FieldNames
<1>4. Range(x.exprs) \subseteq {"expr", "guard", "init"} /\ x.exprs \in Orders({"expr", "guard", "init"})
  BY <1>1, OrderIs DEF ExprOrder
<1>5. Range(x.stmts) \subseteq {"true_case", "false_case"}
  BY <1>1, OrderIs DEF StmtOrder
<1> QED BY <1>1, <1>2, <1>3, <1>4, <1>5

LEMMA StatementForest ==
  ASSUME NEW x, Takes(x), IsParser(p), NEW P, NEW D, Forest(Names, Places(p.expr_stack, p.stack, P, <<>>), D),
         NEW m \in Nat, \A f \in Fields : PartAt(P, m, f) = <<>>, NEW Q,
         \A i \in Nat, f \in Fields : PartAt(Q, i, f) = IF i = m THEN StmtParts(x)[f] ELSE PartAt(P, i, f)
  PROVE  /\ x.leave = "open" /\ x.stmts = <<>> => Forest(Names, Places(ExprsLeft(x.exprs), p.stack, Q, <<>>), D)
         /\ x.leave = "free" =>
              Forest(Names, Places(ExprsLeft(x.exprs), Front(p.stack), Q, StmtsLeft(x.stmts)), D)
         /\ x.leave = "block" => Forest(Names, Places(ExprsLeft(x.exprs), Front(p.stack), Q, <<>>), D)
<1>1. /\ x.exprs \in ExprOrder /\ x.stmts \in StmtOrder /\ ExprsSane(x.exprs)
      /\ p.stack # <<>> /\ Len(x.stmts) <= Len(List)
      /\ {"expr", "guard", "init"} \subseteq Fields
      /\ Range(x.exprs) \subseteq {"expr", "guard", "init"}
      /\ Range(x.stmts) \subseteq {"true_case", "false_case"}
      /\ x.exprs \in Orders({"expr", "guard", "init"})
  BY TakesAre
<1>2. PICK Q1 : Q1 = WithNode(P, m, OnlyExprs(x))
  OBVIOUS
<1>3. PICK Q2 : Q2 = WithNode(P, m, Taken(x))
  OBVIOUS
<1>4. \A f \in Fields : OnlyExprs(x)[f] = IF f \in Range(x.exprs) THEN PopExpr(x.exprs, f) ELSE <<>>
  BY DEF OnlyExprs
<1>5. \A f \in Fields : Taken(x)[f] = IF f \in Range(x.exprs) THEN PopExpr(x.exprs, f)
                                     ELSE IF f \in Range(x.stmts) THEN TakeStmt(x.stmts, f) ELSE <<>>
  BY DEF Taken
<1>6. \A f \in Fields :
        StmtParts(x)[f] = IF f \in Range(x.exprs) THEN PopExpr(x.exprs, f)
                          ELSE IF f \in Range(x.stmts) THEN TakeStmt(x.stmts, f)
                          ELSE IF f = "block" /\ x.leave = "block" THEN StmtsLeft(x.stmts) ELSE <<>>
  BY DEF StmtParts
<1>7. \A i \in Nat, f \in Fields :
        PartAt(Q1, i, f) = IF i = m THEN (IF f \in Range(x.exprs) THEN PopExpr(x.exprs, f) ELSE <<>>)
                           ELSE PartAt(P, i, f)
  BY <1>2, <1>4, WithNodeIs
<1>8. Forest(Names, Places(ExprsLeft(x.exprs), p.stack, Q1, <<>>), D)
  BY <1>1, <1>7, NodePops
<1>9. \A f : ~(f \in Range(x.exprs) /\ f \in Range(x.stmts))
  BY <1>1
<1>10. \A f \in Range(x.stmts) : f \in Fields /\ PartAt(Q1, m, f) = <<>>
  <2>1. {"true_case", "false_case"} \subseteq Fields
    BY FieldNames
  <2> QED BY <1>1, <1>7, <1>9, <2>1
<1>11. ASSUME NEW i \in Nat, NEW f \in Fields
       PROVE  PartAt(Q2, i, f) = IF i = m /\ f \in Range(x.stmts) THEN TakeStmt(x.stmts, f)
                                 ELSE PartAt(Q1, i, f)
  <2>1. PartAt(Q2, i, f) = IF i = m THEN Taken(x)[f] ELSE PartAt(P, i, f)
    BY <1>3, WithNodeIs
  <2>2. CASE i = m /\ f \in Range(x.stmts)
    BY <1>5, <1>9, <2>1, <2>2
  <2>3. CASE i = m /\ f \notin Range(x.stmts)
    BY <1>5, <1>7, <2>1, <2>3
  <2>4. CASE i # m
    BY <1>7, <2>1, <2>4
  <2> QED BY <2>2, <2>3, <2>4
<1>12. Forest(Names, Places(ExprsLeft(x.exprs), Front(p.stack), Q2, StmtsLeft(x.stmts)), D)
  <2>1. TakesTo(x.stmts, m, Q1, Q2)
    BY <1>10, <1>11, Zenon DEF TakesTo
  <2> QED BY <1>1, <1>8, <2>1, TakesForest
<1>13. ASSUME x.leave # "block"
       PROVE  \A i \in Nat, f \in Fields : PartAt(Q, i, f) = PartAt(Q2, i, f)
  <2> SUFFICES ASSUME NEW i \in Nat, NEW f \in Fields PROVE PartAt(Q, i, f) = PartAt(Q2, i, f)
    OBVIOUS
  <2>1. PartAt(Q2, i, f) = IF i = m THEN Taken(x)[f] ELSE PartAt(P, i, f)
    BY <1>3, WithNodeIs
  <2>2. x.leave # "block"
    BY <1>13
  <2>3. StmtParts(x)[f] = Taken(x)[f]
    BY <1>5, <1>6, <2>2
  <2> QED BY <2>1, <2>3
<1>14. CASE x.leave = "free"
  <2>1. Forest(Names, Places(ExprsLeft(x.exprs), Front(p.stack), Q, StmtsLeft(x.stmts)), D)
    <3>1. \A i \in Nat, f \in Fields : PartAt(Q, i, f) = PartAt(Q2, i, f)
      <4>1. x.leave # "block"
        BY <1>14
      <4> QED BY <1>13, <4>1
    <3> QED BY <1>12, <3>1, PlacesLike
  <2> QED BY <1>14, <2>1
<1>15. CASE x.leave = "open" /\ x.stmts = <<>>
  <2>1. \A i \in Nat, f \in Fields : PartAt(Q, i, f) = PartAt(Q1, i, f)
    <3>1. Range(x.stmts) = {}
      <4>1. PICK e : e = <<>> /\ Range(e) = {}
        <5>1. PICK e : e = <<>>
          OBVIOUS
        <5>2. Range(e) = {}
          BY <5>1 DEF Range
        <5> QED BY <5>1, <5>2
      <4> QED BY <1>15, <4>1
    <3>2. x.leave # "block"
      BY <1>15
    <3>3. \A i \in Nat, f \in Fields : PartAt(Q, i, f) = PartAt(Q2, i, f)
      BY <1>13, <3>2
    <3> QED BY <1>11, <3>1, <3>3
  <2>2. Forest(Names, Places(ExprsLeft(x.exprs), p.stack, Q, <<>>), D)
    BY <1>8, <2>1, PlacesLike
  <2> QED BY <1>15, <2>2
<1>16. CASE x.leave = "block"
  <2>1. "block" \in Fields /\ "block" \notin Range(x.exprs) /\ "block" \notin Range(x.stmts)
    BY <1>1, FieldNames
  <2>2. PartAt(Q2, m, "block") = <<>>
    BY <1>3, <1>5, <2>1, WithNodeIs
  <2>3. PartAt(Q, m, "block") = StmtsLeft(x.stmts)
    BY <1>6, <1>16, <2>1
  <2>4. ASSUME NEW i \in Nat, NEW f \in Fields, ~(i = m /\ f = "block")
        PROVE  PartAt(Q, i, f) = PartAt(Q2, i, f)
    <3>1. PartAt(Q2, i, f) = IF i = m THEN Taken(x)[f] ELSE PartAt(P, i, f)
      BY <1>3, WithNodeIs
    <3>2. f # "block" => StmtParts(x)[f] = Taken(x)[f]
      BY <1>5, <1>6
    <3> QED BY <2>4, <3>1, <3>2
  <2>5. PutAt(Q2, m, "block", StmtsLeft(x.stmts), Q)
    BY <2>2, <2>3, <2>4 DEF PutAt
  <2>6. Forest(Names, Places(ExprsLeft(x.exprs), Front(p.stack), Q, <<>>), D)
    BY <1>12, <2>1, <2>5, RootToPart
  <2> QED BY <1>16, <2>6
<1> QED BY <1>14, <1>15, <1>16

-----------------------------------------------------------------------------
(* While nothing is shared the nodes form a forest: every node is on one of   *)
(* the stacks or in one part of one node, once, and a node is of higher rank  *)
(* than those in its parts.                                                   *)

Rest == IF phase = "done" THEN s.script ELSE freeing

Ranked(r, h, m) ==
  \A i \in DOMAIN h :
    /\ r[i] \in Nat /\ r[i] <= m
    /\ \A f \in Fields : \A j \in DOMAIN h[i].part[f] :
         h[i].part[f][j] \in DOMAIN h /\ r[h[i].part[f][j]] < r[i]

Tree ==
  /\ IsInjective(copying)
  /\ Forest(Names, Places(p.expr_stack, p.stack, Parts(heap, copying), Rest), DOMAIN heap)
  /\ \E r : Ranked(r, heap, p.made)

TreeInv == TypeInv /\ ("shared" \notin odd => Tree)

\* A new node has the highest rank.
LEMMA RankGrows ==
  ASSUME NEW h, NEW m \in Nat, \E r : Ranked(r, h, m), NEW k, k \notin DOMAIN h, NEW h2,
         DOMAIN h2 = DOMAIN h \cup {k}, \A i \in DOMAIN h : h2[i].part = h[i].part,
         \A f \in Fields : h2[k].part[f] \in Seq(DOMAIN h)
  PROVE  \E r : Ranked(r, h2, m + 1)
<1>1. PICK r : Ranked(r, h, m)
  OBVIOUS
<1>2. PICK q : q = [i \in DOMAIN h2 |-> IF i = k THEN m + 1 ELSE r[i]]
  OBVIOUS
<1>3. q[k] = m + 1 /\ \A i \in DOMAIN h : q[i] = r[i]
  BY <1>2
<1>4. ASSUME NEW i \in DOMAIN h
      PROVE  /\ q[i] \in Nat /\ q[i] <= m + 1
             /\ \A f \in Fields : \A j \in DOMAIN h2[i].part[f] :
                  h2[i].part[f][j] \in DOMAIN h2 /\ q[h2[i].part[f][j]] < q[i]
  <2>1. PICK a \in Nat : a = r[i] /\ a <= m
    BY <1>1 DEF Ranked
  <2>2. q[i] \in Nat /\ q[i] <= m + 1
    BY <1>3, <2>1
  <2>3. ASSUME NEW f \in Fields, NEW j \in DOMAIN h2[i].part[f]
        PROVE  h2[i].part[f][j] \in DOMAIN h2 /\ q[h2[i].part[f][j]] < q[i]
    <3>1. j \in DOMAIN h[i].part[f] /\ h2[i].part[f] = h[i].part[f]
      BY <2>3
    <3>2. h[i].part[f][j] \in DOMAIN h /\ r[h[i].part[f][j]] < r[i]
      BY <1>1, <3>1 DEF Ranked
    <3> QED BY <1>3, <3>1, <3>2
  <2> QED BY <2>2, <2>3
<1>5. /\ q[k] \in Nat /\ q[k] <= m + 1
      /\ \A f \in Fields : \A j \in DOMAIN h2[k].part[f] :
           h2[k].part[f][j] \in DOMAIN h2 /\ q[h2[k].part[f][j]] < q[k]
  <2>1. q[k] \in Nat /\ q[k] <= m + 1
    BY <1>3
  <2>2. ASSUME NEW f \in Fields, NEW j \in DOMAIN h2[k].part[f]
        PROVE  h2[k].part[f][j] \in DOMAIN h2 /\ q[h2[k].part[f][j]] < q[k]
    <3>1. PICK v \in Seq(DOMAIN h) : v = h2[k].part[f]
      OBVIOUS
    <3>2. PICK d \in DOMAIN h : d = v[j]
      BY <2>2, <3>1
    <3>3. PICK a \in Nat : a = r[d] /\ a <= m
      BY <1>1 DEF Ranked
    <3>4. q[d] < q[k]
      BY <1>3, <3>3
    <3> QED BY <3>1, <3>2, <3>4
  <2> QED BY <2>1, <2>2
<1>6. Ranked(q, h2, m + 1)
  BY <1>4, <1>5 DEF Ranked
<1> QED BY <1>6

\* The parts of a heap with one more node.
Grown(h, k, h2) == /\ k \notin DOMAIN h /\ DOMAIN h2 = DOMAIN h \cup {k}
                   /\ \A i \in DOMAIN h : h2[i].part = h[i].part

LEMMA PartsGrow ==
  ASSUME NEW h, NEW h2, NEW k, Grown(h, k, h2)
  PROVE  /\ \A f \in Fields : PartAt(Parts(h, <<>>), k, f) = <<>>
         /\ \A i \in Nat, f \in Fields :
              PartAt(Parts(h2, <<>>), i, f) = IF i = k THEN h2[k].part[f] ELSE PartAt(Parts(h, <<>>), i, f)
<1> USE DEF Grown
<1>1. PICK c : c = <<>>
  OBVIOUS
<1>2. Range(c) = {}
  BY <1>1 DEF Range
<1>3. \A f \in Fields : PartAt(Parts(h, c), k, f) = <<>>
  BY <1>2, PartsAre
<1>4. ASSUME NEW i \in Nat, NEW f \in Fields
      PROVE  PartAt(Parts(h2, c), i, f) = IF i = k THEN h2[k].part[f] ELSE PartAt(Parts(h, c), i, f)
  <2>1. PartAt(Parts(h2, c), i, f) = IF i \in DOMAIN h2 THEN h2[i].part[f] ELSE <<>>
    BY <1>2, PartsAre
  <2>2. PartAt(Parts(h, c), i, f) = IF i \in DOMAIN h THEN h[i].part[f] ELSE <<>>
    BY <1>2, PartsAre
  <2>3. CASE i = k
    BY <2>1, <2>3
  <2>4. CASE i # k /\ i \in DOMAIN h
    BY <2>1, <2>2, <2>4
  <2>5. CASE i # k /\ i \notin DOMAIN h
    BY <2>1, <2>2, <2>5
  <2> QED BY <2>3, <2>4, <2>5
<1> QED BY <1>1, <1>3, <1>4

\* What is known when a function is called.
LEMMA TreeCalling ==
  ASSUME TypeInv, Tree, NEW act, Called(act)
  PROVE  /\ phase = "parse" /\ phase' = "parse" /\ IsParser(p) /\ p.made \in Nat
         /\ copying = <<>> /\ freeing = <<>> /\ IsHeap(heap, p.made)
         /\ Forest(Names, Places(p.expr_stack, p.stack, Parts(heap, <<>>), <<>>), DOMAIN heap)
         /\ \E r : Ranked(r, heap, p.made)
         /\ Id(1) \in Nat /\ Id(1) \notin DOMAIN heap
         /\ Rest' = freeing'
<1>1. /\ phase = "parse" /\ phase' = "parse" /\ IsParser(p) /\ p.made \in Nat
      /\ copying = <<>> /\ freeing = <<>> /\ IsHeap(heap, p.made)
  BY Calling
<1>2. Rest = <<>> /\ Rest' = freeing'
  BY <1>1 DEF Rest
<1>3. Forest(Names, Places(p.expr_stack, p.stack, Parts(heap, <<>>), <<>>), DOMAIN heap)
  BY <1>1, <1>2 DEF Tree
<1>4. DOMAIN heap \subseteq 1..p.made
  BY <1>1 DEF IsHeap
<1>5. Id(1) \in Nat /\ Id(1) \notin DOMAIN heap
  BY <1>1, <1>4 DEF Id
<1> QED BY <1>1, <1>2, <1>3, <1>5 DEF Tree

\* Nothing is being copied.
LEMMA NoCopies == IsInjective(<<>>)
<1>1. PICK c : c = <<>> /\ DOMAIN c = {}
  <2>1. PICK c : c = <<>>
    OBVIOUS
  <2>2. DOMAIN c = {}
    BY <2>1
  <2> QED BY <2>1, <2>2
<1> QED BY <1>1 DEF IsInjective

-----------------------------------------------------------------------------
(* The calls, one by one. *)

\* A call that makes one node.
LEMMA NodeTree ==
  ASSUME TypeInv, Tree, NEW act, Called(act), copying' = copying, p'.made = p.made + 1,
         NEW m, Grown(heap, m, heap'),
         Forest(Names, Places(p'.expr_stack, p'.stack, Parts(heap', <<>>), freeing'), DOMAIN heap \cup {m}),
         \A f \in Fields : heap'[m].part[f] \in Seq(DOMAIN heap)
  PROVE  Tree'
<1>1. copying = <<>> /\ p.made \in Nat /\ Rest' = freeing' /\ \E r : Ranked(r, heap, p.made)
  BY TreeCalling
<1>2. DOMAIN heap' = DOMAIN heap \cup {m}
  BY DEF Grown
<1>3. Forest(Names, Places(p.expr_stack, p.stack, Parts(heap, copying), Rest)', DOMAIN heap')
  BY <1>1, <1>2
<1>4. \E r : Ranked(r, heap', p.made + 1)
  BY <1>1, RankGrows DEF Grown
<1> QED BY <1>1, <1>3, <1>4, NoCopies DEF Tree

\* The heap of a call that makes one node.
LEMMA OneGrown ==
  ASSUME NEW n, IsNode(n), IsHeap(heap, p.made), p.made \in Nat, NEW h,
         DOMAIN h = DOMAIN Alloc(<<n>>), \A i \in DOMAIN h : h[i].part = Alloc(<<n>>)[i].part
  PROVE  \E m \in Nat : m = Id(1) /\ m \notin DOMAIN heap /\ Grown(heap, m, h) /\ h[m].part = n.part
<1>1. /\ DOMAIN Alloc(<<n>>) = DOMAIN heap \cup {Id(1)} /\ Id(1) \notin DOMAIN heap
      /\ \A i \in DOMAIN heap : Alloc(<<n>>)[i] = heap[i]
      /\ Alloc(<<n>>)[Id(1)] = n
  BY AllocOne
<1>2. PICK m \in Nat : m = Id(1)
  BY DEF Id
<1>3. Grown(heap, m, h)
  BY <1>1, <1>2 DEF Grown
<1>4. h[m].part = n.part
  BY <1>1, <1>2
<1> QED BY <1>1, <1>2, <1>3, <1>4

LEMMA EndExprTrees ==
  ASSUME TypeInv, Tree, EndExpr
  PROVE  Tree'
<1> DEFINE pops == Head(goal).pops
           D == DOMAIN heap
<1>1. Called("expr") /\ s' = s /\ copying' = copying /\ freeing' = freeing
  BY DEF EndExpr, calls
<1>2. /\ IsParser(p) /\ p.made \in Nat /\ freeing = <<>> /\ IsHeap(heap, p.made)
      /\ Forest(Names, Places(p.expr_stack, p.stack, Parts(heap, <<>>), <<>>), D)
  BY <1>1, TreeCalling
<1>3. PICK n : IsNode(n) /\ heap' = Alloc(<<n>>) /\ n.part = ExprParts(pops) /\ pops \in Pops /\ ExprsSane(pops)
  BY EndExprMakes
<1>4. PICK h : h = heap' /\ DOMAIN h = DOMAIN Alloc(<<n>>) /\ \A i \in DOMAIN h : h[i].part = Alloc(<<n>>)[i].part
  BY <1>3
<1>5. PICK m \in Nat : m = Id(1) /\ m \notin D /\ Grown(heap, m, h) /\ h[m].part = ExprParts(pops)
  BY <1>2, <1>3, <1>4, OneGrown
<1>6. p'.expr_stack = Append(ExprsLeft(pops), m) /\ p'.stack = p.stack /\ p'.made = p.made + 1
  BY <1>2, <1>5 DEF EndExpr, PushExpr, IsParser
<1>7. PICK Q : Q = Parts(h, <<>>)
  OBVIOUS
<1>8. /\ \A f \in Fields : PartAt(Parts(heap, <<>>), m, f) = <<>>
      /\ \A i \in Nat, f \in Fields :
           PartAt(Q, i, f) = IF i = m THEN h[m].part[f] ELSE PartAt(Parts(heap, <<>>), i, f)
  BY <1>5, <1>7, PartsGrow
<1>9. \A i \in Nat, f \in Fields :
        PartAt(Q, i, f) = IF i = m THEN (IF f \in Range(pops) THEN PopExpr(pops, f) ELSE <<>>)
                          ELSE PartAt(Parts(heap, <<>>), i, f)
  <2>1. \A f \in Fields : h[m].part[f] = IF f \in Range(pops) THEN PopExpr(pops, f) ELSE <<>>
    BY <1>5 DEF ExprParts
  <2> QED BY <1>8, <2>1
<1>10. {"inner", "index", "elif", "argv"} \subseteq Fields /\ pops \in Orders({"inner", "index", "elif", "argv"})
  BY <1>3, FieldNames DEF Pops
<1> HIDE DEF pops
<1>11. Forest(Names, Places(ExprsLeft(pops), p.stack, Q, <<>>), D)
  BY <1>2, <1>3, <1>8, <1>9, <1>10, NodePops
<1>12. Forest(Names, Places(Append(ExprsLeft(pops), m), p.stack, Q, <<>>), D \cup {m})
  BY <1>5, <1>11, AddExpr
<1>13. \A f \in Fields : h[m].part[f] \in Seq(D)
  <2>1. \A f \in Fields : PartAt(Q, m, f) \in Seq(D)
    BY <1>11, PartsIn
  <2> QED BY <1>8, <2>1
<1>14. Forest(Names, Places(p'.expr_stack, p'.stack, Parts(heap', <<>>), freeing'), D \cup {m})
  BY <1>1, <1>2, <1>4, <1>6, <1>7, <1>12
<1> QED BY <1>1, <1>4, <1>5, <1>6, <1>13, <1>14, NodeTree

\* A pointer that is put before the last one of the stack of expressions.
LEMMA AddBeforeLast ==
  ASSUME NEW E1, E1 # <<>>, NEW L, NEW P, NEW R, NEW D, Forest(Names, Places(E1, L, P, R), D), NEW d, d \notin D
  PROVE  Forest(Names, Places(BeforeLast(E1, d), L, P, R), D \cup {d})
<1> DEFINE C == Places(E1, L, P, R)
           C2 == Places(BeforeLast(E1, d), L, P, R)
<1>1. PICK A : A = BeforeLast(E1, d)
  OBVIOUS
<1>2. C[AtExprs] = E1 /\ Places(A, L, P, R)[AtExprs] = A
  BY PlacesAre
<1>3. C2[AtExprs] = BeforeLast(C[AtExprs], d) /\ C[AtExprs] # <<>>
  BY <1>1, <1>2
<1>4. \A y \in Names \ {AtExprs} : C2[y] = C[y]
  BY PlaceSame
<1>5. AtExprs \in Names
  BY NamesAre
<1> HIDE DEF C2
<1> QED BY <1>3, <1>4, <1>5, Inserted DEF C2

LEMMA EndKeyarraySingleTrees ==
  ASSUME TypeInv, Tree, EndKeyarraySingle
  PROVE  Tree'
<1> DEFINE D == DOMAIN heap
<1>1. Called("keyarray_single") /\ s' = s /\ copying' = copying /\ freeing' = freeing
  BY DEF EndKeyarraySingle, calls
<1>2. /\ IsParser(p) /\ p.made \in Nat /\ freeing = <<>> /\ IsHeap(heap, p.made)
      /\ Forest(Names, Places(p.expr_stack, p.stack, Parts(heap, <<>>), <<>>), D)
  BY <1>1, TreeCalling
<1>3. p.expr_stack # <<>>
  <2>1. Head(goal).do = "keyarray_single" /\ Sane(Head(goal))
    BY <1>1, Calling
  <2> QED BY <2>1, SaneIs
<1>4. PICK n : IsNode(n) /\ heap' = Alloc(<<n>>) /\ n.part = NoParts
  BY EndKeyarraySingleMakes
<1>5. PICK h : h = heap' /\ DOMAIN h = DOMAIN Alloc(<<n>>) /\ \A i \in DOMAIN h : h[i].part = Alloc(<<n>>)[i].part
  BY <1>4
<1>6. PICK m \in Nat : m = Id(1) /\ m \notin D /\ Grown(heap, m, h) /\ h[m].part = NoParts
  BY <1>2, <1>4, <1>5, OneGrown
<1>7. p'.expr_stack = BeforeLast(p.expr_stack, m) /\ p'.stack = p.stack /\ p'.made = p.made + 1
  BY <1>2, <1>6 DEF EndKeyarraySingle, BeforeLast, IsParser
<1>8. PICK Q : Q = Parts(h, <<>>)
  OBVIOUS
<1>9. /\ \A f \in Fields : PartAt(Parts(heap, <<>>), m, f) = <<>>
      /\ \A i \in Nat, f \in Fields :
           PartAt(Q, i, f) = IF i = m THEN h[m].part[f] ELSE PartAt(Parts(heap, <<>>), i, f)
  BY <1>6, <1>8, PartsGrow
<1>10. \A f \in Fields : h[m].part[f] = <<>>
  BY <1>6 DEF NoParts
<1>11. \A i \in Nat, f \in Fields : PartAt(Q, i, f) = PartAt(Parts(heap, <<>>), i, f)
  BY <1>9, <1>10
<1>12. Forest(Names, Places(p.expr_stack, p.stack, Q, <<>>), D)
  BY <1>2, <1>11, PlacesLike
<1>13. Forest(Names, Places(BeforeLast(p.expr_stack, m), p.stack, Q, <<>>), D \cup {m})
  BY <1>3, <1>6, <1>12, AddBeforeLast
<1>14. \A f \in Fields : h[m].part[f] \in Seq(D)
  <2>1. \A f \in Fields : PartAt(Q, m, f) \in Seq(D)
    BY <1>12, PartsIn
  <2> QED BY <1>9, <2>1
<1>15. Forest(Names, Places(p'.expr_stack, p'.stack, Parts(heap', <<>>), freeing'), D \cup {m})
  BY <1>1, <1>2, <1>5, <1>7, <1>8, <1>13
<1> QED BY <1>1, <1>5, <1>6, <1>7, <1>14, <1>15, NodeTree
-----------------------------------------------------------------------------
(* Statements. *)

\* A function that makes a statement, and leaves the topmost list or not.
StatementMade(x) ==
  /\ Takes(x) /\ Makes(x) /\ p'.expr_stack = ExprsLeft(x.exprs) /\ p'.made = p.made + 1
  /\ \/ /\ x.leave = "open" /\ x.stmts = <<>> /\ Len(p.stack) > 0
        /\ p'.stack = Pushed(p.stack, Id(1)) /\ freeing' = <<>>
     \/ /\ x.leave = "free" /\ Len(p.stack) > 1
        /\ p'.stack = Pushed(Front(p.stack), Id(1)) /\ freeing' = StmtsLeft(x.stmts)
     \/ /\ x.leave = "block" /\ Len(p.stack) > 1
        /\ p'.stack = Pushed(Front(p.stack), Id(1)) /\ freeing' = <<>>

LEMMA ListsThere ==
  ASSUME NEW L \in Seq(Seq(Nat))
  PROVE  /\ Len(L) > 0 => L # <<>>
         /\ Len(L) > 1 => Front(L) \in Seq(Seq(Nat)) /\ Front(L) # <<>>
<1>1. PICK e : e = <<>> /\ Len(e) = 0
  <2>1. PICK e : e = <<>>
    OBVIOUS
  <2>2. Len(e) = 0
    BY <2>1
  <2> QED BY <2>1, <2>2
<1>2. CASE Len(L) > 1
  <2>1. Front(L) \in Seq(Seq(Nat)) /\ Len(Front(L)) > 0
    BY <1>2, FrontPushed
  <2> QED BY <1>1, <1>2, <2>1
<1>3. CASE ~(Len(L) > 1)
  BY <1>1, <1>3
<1> QED BY <1>2, <1>3

LEMMA StatementTrees ==
  ASSUME TypeInv, Tree, NEW act, Called(act), copying' = copying, NEW x, StatementMade(x)
  PROVE  Tree'
<1> DEFINE D == DOMAIN heap
<1>1. /\ IsParser(p) /\ p.made \in Nat /\ IsHeap(heap, p.made)
      /\ Forest(Names, Places(p.expr_stack, p.stack, Parts(heap, <<>>), <<>>), D)
  BY TreeCalling
<1>2. Takes(x) /\ Makes(x) /\ p'.expr_stack = ExprsLeft(x.exprs) /\ p'.made = p.made + 1
  BY DEF StatementMade
<1>3. PICK n : /\ IsNode(n) /\ n.part = StmtParts(x)
               /\ DOMAIN heap' = DOMAIN Alloc(<<n>>)
               /\ \A i \in DOMAIN heap' : heap'[i].part = Alloc(<<n>>)[i].part
  BY <1>2 DEF Makes
<1>4. PICK h : h = heap' /\ DOMAIN h = DOMAIN Alloc(<<n>>) /\ \A i \in DOMAIN h : h[i].part = Alloc(<<n>>)[i].part
  BY <1>3
<1>5. PICK m \in Nat : m = Id(1) /\ m \notin D /\ Grown(heap, m, h) /\ h[m].part = StmtParts(x)
  BY <1>1, <1>3, <1>4, OneGrown
<1>6. PICK Q : Q = Parts(h, <<>>)
  OBVIOUS
<1>7. PICK P : P = Parts(heap, <<>>)
  OBVIOUS
<1>8. /\ \A f \in Fields : PartAt(P, m, f) = <<>>
      /\ \A i \in Nat, f \in Fields : PartAt(Q, i, f) = IF i = m THEN h[m].part[f] ELSE PartAt(P, i, f)
  BY <1>5, <1>6, <1>7, PartsGrow
<1>9. \A i \in Nat, f \in Fields : PartAt(Q, i, f) = IF i = m THEN StmtParts(x)[f] ELSE PartAt(P, i, f)
  BY <1>5, <1>8
<1>10. /\ x.leave = "open" /\ x.stmts = <<>> => Forest(Names, Places(ExprsLeft(x.exprs), p.stack, Q, <<>>), D)
       /\ x.leave = "free" =>
            Forest(Names, Places(ExprsLeft(x.exprs), Front(p.stack), Q, StmtsLeft(x.stmts)), D)
       /\ x.leave = "block" => Forest(Names, Places(ExprsLeft(x.exprs), Front(p.stack), Q, <<>>), D)
  <2>1. IsParser(p) /\ Takes(x) /\ Forest(Names, Places(p.expr_stack, p.stack, P, <<>>), D)
    BY <1>1, <1>2, <1>7
  <2>2. \A f \in Fields : PartAt(P, m, f) = <<>>
    BY <1>8
  <2> QED BY <1>9, <2>1, <2>2, StatementForest
<1>11. PICK L \in Seq(Seq(Nat)) : /\ L # <<>> /\ p'.stack = Pushed(L, m)
                                  /\ Forest(Names, Places(ExprsLeft(x.exprs), L, Q, freeing'), D)
  <2>1. p.stack \in Seq(Seq(Nat))
    BY <1>1 DEF IsParser
  <2>2. CASE /\ x.leave = "open" /\ x.stmts = <<>> /\ Len(p.stack) > 0
             /\ p'.stack = Pushed(p.stack, Id(1)) /\ freeing' = <<>>
    <3>1. p.stack # <<>>
      BY <2>1, <2>2, ListsThere
    <3> QED BY <1>5, <1>10, <2>1, <2>2, <3>1
  <2>3. CASE /\ x.leave = "free" /\ Len(p.stack) > 1
             /\ p'.stack = Pushed(Front(p.stack), Id(1)) /\ freeing' = StmtsLeft(x.stmts)
    <3>1. Front(p.stack) \in Seq(Seq(Nat)) /\ Front(p.stack) # <<>>
      BY <2>1, <2>3, ListsThere
    <3> QED BY <1>5, <1>10, <2>3, <3>1
  <2>4. CASE /\ x.leave = "block" /\ Len(p.stack) > 1
             /\ p'.stack = Pushed(Front(p.stack), Id(1)) /\ freeing' = <<>>
    <3>1. Front(p.stack) \in Seq(Seq(Nat)) /\ Front(p.stack) # <<>>
      BY <2>1, <2>4, ListsThere
    <3> QED BY <1>5, <1>10, <2>4, <3>1
  <2> QED BY <2>2, <2>3, <2>4 DEF StatementMade
<1>12. Forest(Names, Places(ExprsLeft(x.exprs), Pushed(L, m), Q, freeing'), D \cup {m})
  BY <1>5, <1>11, AddStmt
<1>13. \A f \in Fields : h[m].part[f] \in Seq(D)
  <2>1. \A f \in Fields : PartAt(Q, m, f) \in Seq(D)
    BY <1>11, PartsIn
  <2> QED BY <1>8, <2>1
<1>14. Forest(Names, Places(p'.expr_stack, p'.stack, Parts(heap', <<>>), freeing'), D \cup {m})
  BY <1>2, <1>4, <1>6, <1>11, <1>12
<1> QED BY <1>2, <1>4, <1>5, <1>13, <1>14, NodeTree

LEMMA EndStmtTrees ==
  ASSUME TypeInv, Tree, EndStmt
  PROVE  Tree'
<1> DEFINE x == Head(goal)
<1>1. Called("stmt") /\ copying' = copying
  BY DEF EndStmt
<1>2. IsParser(p)
  BY MemoryIs
<1>3. /\ Takes(x) /\ Makes(x) /\ x.leave \in {"open", "free", "block"}
      /\ x.leave = "open" => x.stmts = <<>>
      /\ Len(p.stack) > (IF x.leave = "open" THEN 0 ELSE 1)
  BY EndStmtMakes
<1>4. CountsLeft(x.exprs) = p.arg_count
  BY <1>3, NoArguments DEF Takes
<1>5. /\ p'.expr_stack = ExprsLeft(x.exprs) /\ p'.made = p.made + 1
      /\ p'.stack = IF x.leave = "open" THEN Pushed(p.stack, Id(1)) ELSE Pushed(Front(p.stack), Id(1))
  <2>1. PICK q : q = [p EXCEPT !.expr_stack = ExprsLeft(x.exprs), !.arg_count = CountsLeft(x.exprs),
                               !.made = @ + 1]
                 /\ p' = PushStmt(IF x.leave = "open" THEN q ELSE LeaveList(q), Id(1))
    BY DEF EndStmt
  <2>2. q = Data(ExprsLeft(x.exprs), p.arg_count, p.stack, p.fn_arg, p.class_parent, p.include,
                 p.parser_error, p.made + 1)
    BY <1>2, <1>4, <2>1 DEF IsParser, Data
  <2>3. PICK L : /\ L = (IF x.leave = "open" THEN p.stack ELSE Front(p.stack))
                 /\ p' = Data(ExprsLeft(x.exprs), p.arg_count, Pushed(L, Id(1)), p.fn_arg, p.class_parent,
                              p.include, p.parser_error, p.made + 1)
    <3>1. CASE x.leave = "open"
      BY <2>1, <2>2, <3>1, PushStmtIs
    <3>2. CASE ~(x.leave = "open")
      <4>1. LeaveList(q) = Data(ExprsLeft(x.exprs), p.arg_count, Front(p.stack), p.fn_arg, p.class_parent,
                                p.include, p.parser_error, p.made + 1)
        BY <2>2, DataMade
      <4> QED BY <2>1, <3>2, <4>1, PushStmtIs
    <3> QED BY <3>1, <3>2
  <2>4. p'.expr_stack = ExprsLeft(x.exprs) /\ p'.made = p.made + 1 /\ p'.stack = Pushed(L, Id(1))
    BY <2>3, DataIs
  <2> QED BY <2>3, <2>4
<1>6. freeing' = IF x.leave = "free" THEN StmtsLeft(x.stmts) ELSE <<>>
  BY DEF EndStmt
<1> HIDE DEF x
<1>7. StatementMade(x)
  <2>1. CASE x.leave = "open"
    <3>1. Len(p.stack) > 0 /\ x.stmts = <<>> /\ p'.stack = Pushed(p.stack, Id(1)) /\ freeing' = <<>>
      BY <1>3, <1>5, <1>6, <2>1
    <3> QED BY <1>3, <1>5, <2>1, <3>1, Zenon DEF StatementMade
  <2>2. CASE x.leave = "free"
    <3>1. Len(p.stack) > 1 /\ p'.stack = Pushed(Front(p.stack), Id(1)) /\ freeing' = StmtsLeft(x.stmts)
      BY <1>3, <1>5, <1>6, <2>2
    <3> QED BY <1>3, <1>5, <2>2, <3>1, Zenon DEF StatementMade
  <2>3. CASE x.leave = "block"
    <3>1. Len(p.stack) > 1 /\ p'.stack = Pushed(Front(p.stack), Id(1)) /\ freeing' = <<>>
      BY <1>3, <1>5, <1>6, <2>3
    <3> QED BY <1>3, <1>5, <2>3, <3>1, Zenon DEF StatementMade
  <2> QED BY <1>3, <2>1, <2>2, <2>3
<1> QED BY <1>1, <1>7, StatementTrees

LEMMA EndIfTrees ==
  ASSUME TypeInv, Tree, EndIf
  PROVE  Tree'
<1>1. Called("end_if") /\ copying' = copying
  BY DEF EndIf
<1>2. IsParser(p)
  BY MemoryIs
<1>3. /\ Takes(IfMade) /\ Makes(IfMade) /\ IfMade.leave = "free" /\ freeing' = StmtsLeft(IfMade.stmts)
      /\ IfMade.exprs = <<"expr">> /\ p.expr_stack # <<>> /\ Len(p.stack) > 1
  BY EndIfMakes
<1>4. p' = PushStmt([LeaveList(p) EXCEPT !.expr_stack = Front(@), !.made = @ + 1], Id(1))
  BY Zenon DEF EndIf
<1>5. p'.expr_stack = Front(p.expr_stack) /\ p'.made = p.made + 1 /\ p'.stack = Pushed(Front(p.stack), Id(1))
  BY <1>2, <1>4, LeaveAndPush, DataIs
<1>6. ExprsLeft(IfMade.exprs) = Front(p.expr_stack)
  BY <1>2, <1>3, OneExprSane
<1>7. StatementMade(IfMade)
  BY <1>3, <1>5, <1>6, Zenon DEF StatementMade
<1> QED BY <1>1, <1>7, StatementTrees

LEMMA EndCaseTrees ==
  ASSUME TypeInv, Tree, EndCase
  PROVE  Tree'
<1>1. Called("end_case") /\ copying' = copying /\ freeing' = freeing
  BY DEF EndCase, calls
<1>2. IsParser(p) /\ freeing = <<>>
  BY <1>1, TreeCalling
<1>3. PICK thru \in BOOLEAN :
           /\ Takes(CaseMade(thru)) /\ Makes(CaseMade(thru)) /\ CaseMade(thru).leave = "block"
           /\ CaseMade(thru).exprs = <<"expr">> /\ CaseMade(thru).stmts = <<>>
           /\ p.expr_stack # <<>> /\ Len(p.stack) > 1
  BY EndCaseMakes
<1>4. p' = PushStmt([LeaveList(p) EXCEPT !.expr_stack = Front(@), !.made = @ + 1], Id(1))
  BY Zenon DEF EndCase
<1>5. p'.expr_stack = Front(p.expr_stack) /\ p'.made = p.made + 1 /\ p'.stack = Pushed(Front(p.stack), Id(1))
  BY <1>2, <1>4, LeaveAndPush, DataIs
<1>6. ExprsLeft(CaseMade(thru).exprs) = Front(p.expr_stack)
  BY <1>2, <1>3, OneExprSane
<1>7. StatementMade(CaseMade(thru))
  BY <1>1, <1>2, <1>3, <1>5, <1>6, Zenon DEF StatementMade
<1> QED BY <1>1, <1>7, StatementTrees

LEMMA EndFuncTrees ==
  ASSUME TypeInv, Tree, EndFunc
  PROVE  Tree'
<1>1. Called("end_func") /\ copying' = copying
  BY DEF EndFunc
<1>2. IsParser(p)
  BY MemoryIs
<1>3. /\ Takes(FuncMade) /\ Makes(FuncMade) /\ FuncMade.leave = "free" /\ freeing' = StmtsLeft(FuncMade.stmts)
      /\ FuncMade.exprs = <<>> /\ Len(p.stack) > 1
  BY EndFuncMakes
<1>4. p' = PushStmt([LeaveList(p) EXCEPT !.fn_arg = Front(@), !.made = @ + 1], Id(1))
  BY Zenon DEF EndFunc
<1>5. p'.expr_stack = p.expr_stack /\ p'.made = p.made + 1 /\ p'.stack = Pushed(Front(p.stack), Id(1))
  BY <1>2, <1>4, LeaveAndPush, DataIs
<1>6. ExprsLeft(FuncMade.exprs) = p.expr_stack
  <2>1. p.expr_stack \in Seq(Nat) /\ Len(p.expr_stack) \in Nat
    BY <1>2 DEF IsParser
  <2>2. Len(p.expr_stack) - 0 = Len(p.expr_stack) /\ SubSeq(p.expr_stack, 1, Len(p.expr_stack)) = p.expr_stack
    BY <2>1, SubSeqFull
  <2> QED BY <1>3, <2>2, NoExprSane
<1>7. StatementMade(FuncMade)
  BY <1>3, <1>5, <1>6, Zenon DEF StatementMade
<1> QED BY <1>1, <1>7, StatementTrees
-----------------------------------------------------------------------------
(* The calls that make more nodes. *)

LEMMA OnlyPartAt ==
  ASSUME NEW f \in Fields, NEW v
  PROVE  \A g \in Fields : OnlyPart(f, v)[g] = IF g = f THEN v ELSE <<>>
BY DEF OnlyPart, NoParts

LEMMA OnlyPartIn ==
  ASSUME NEW f \in Fields, NEW S, NEW v \in Seq(S)
  PROVE  \A g \in Fields : OnlyPart(f, v)[g] \in Seq(S)
<1>1. PICK e \in Seq(S) : e = <<>>
  <2>1. PICK e : e = <<>>
    OBVIOUS
  <2>2. e \in Seq(S)
    BY <2>1
  <2> QED BY <2>1, <2>2
<1>2. \A g \in Fields : OnlyPart(f, v)[g] = IF g = f THEN v ELSE e
  BY <1>1, OnlyPartAt
<1> QED BY <1>2

\* A node with one part.
LEMMA OnlyPut ==
  ASSUME NEW P, NEW m, \A g \in Fields : PartAt(P, m, g) = <<>>, NEW f \in Fields, NEW v
  PROVE  PutAt(P, m, f, v, WithNode(P, m, OnlyPart(f, v)))
<1>1. PICK Q : Q = WithNode(P, m, OnlyPart(f, v))
  OBVIOUS
<1>2. \A i, g : PartAt(Q, i, g) = IF i = m THEN OnlyPart(f, v)[g] ELSE PartAt(P, i, g)
  BY <1>1, WithNodeIs
<1>3. PartAt(Q, m, f) = v
  BY <1>2, OnlyPartAt
<1>4. ASSUME NEW i \in Nat, NEW g \in Fields, ~(i = m /\ g = f) PROVE PartAt(Q, i, g) = PartAt(P, i, g)
  <2>1. OnlyPart(f, v)[g] = IF g = f THEN v ELSE <<>>
    BY OnlyPartAt
  <2>2. CASE i = m
    <3>1. PartAt(Q, i, g) = <<>>
      BY <1>2, <1>4, <2>1, <2>2
    <3> QED BY <2>2, <3>1
  <2>3. CASE i # m
    BY <1>2, <2>3
  <2> QED BY <2>2, <2>3
<1> QED BY <1>1, <1>3, <1>4 DEF PutAt

LEMMA RankNode ==
  ASSUME NEW h, NEW m \in Nat, \E r : Ranked(r, h, m), NEW k, NEW h2, Grown(h, k, h2),
         \A f \in Fields : h2[k].part[f] \in Seq(DOMAIN h)
  PROVE  \E r : Ranked(r, h2, m + 1)
BY RankGrows DEF Grown

LEMMA EndLambdaTrees ==
  ASSUME TypeInv, Tree, EndLambda
  PROVE  Tree'
<1> DEFINE D == DOMAIN heap
           E1 == p.expr_stack
           L == Front(p.stack)
<1>1. Called("end_lambda") /\ s' = s /\ copying' = copying /\ freeing' = freeing
  BY DEF EndLambda, calls
<1>2. /\ IsParser(p) /\ p.made \in Nat /\ freeing = <<>> /\ IsHeap(heap, p.made) /\ copying = <<>>
      /\ Forest(Names, Places(p.expr_stack, p.stack, Parts(heap, <<>>), <<>>), D)
      /\ Rest' = freeing' /\ \E r : Ranked(r, heap, p.made)
  BY <1>1, TreeCalling
<1>3. PICK m1 \in Nat, m2 \in Nat, m3 \in Nat :
         /\ m1 = Id(1) /\ m2 = Id(2) /\ m3 = Id(3) /\ m1 # m2 /\ m1 # m3 /\ m2 # m3
  <2>1. Id(1) \in Nat /\ Id(2) \in Nat /\ Id(3) \in Nat /\ Id(1) # Id(2) /\ Id(1) # Id(3) /\ Id(2) # Id(3)
    BY <1>2 DEF Id
  <2> QED BY <2>1
<1>4. PICK h : /\ h = heap' /\ DOMAIN h = D \cup {m1, m2, m3}
               /\ \A i \in D : h[i] = heap[i]
               /\ h[m1].part = OnlyPart("block", List)
               /\ h[m2].part = OnlyPart("true_case", <<m1>>)
               /\ h[m3].part = OnlyPart("lambda", <<m2>>)
               /\ {m1, m2, m3} \cap D = {} /\ p.stack # <<>>
  BY <1>3, EndLambdaMakes
<1>5. p'.expr_stack = Append(E1, m3) /\ p'.stack = L /\ p'.made = p.made + 3
  <2>1. PICK q, A : /\ q = p' /\ A = Append(E1, m3)
                    /\ q = Data(A, p.arg_count, L, Front(p.fn_arg), p.class_parent, p.include,
                                p.parser_error, p.made + 3)
    BY <1>2, <1>3, LeaveAndPush DEF EndLambda
  <2>2. q.expr_stack = A /\ q.stack = L /\ q.made = p.made + 3
    BY <2>1 DEF Data
  <2> QED BY <2>1, <2>2
<1>6. "block" \in Fields /\ "true_case" \in Fields /\ "lambda" \in Fields
  BY FieldNames
<1>7. PICK P : P = Parts(heap, <<>>)
  OBVIOUS
<1>8. \A i \in Nat, f \in Fields : PartAt(P, i, f) = IF i \in D THEN heap[i].part[f] ELSE <<>>
  <2>1. PICK c : c = <<>>
    OBVIOUS
  <2>2. Range(c) = {}
    BY <2>1 DEF Range
  <2>3. \A i \in Nat, f \in Fields : PartAt(Parts(heap, c), i, f) = IF i \in D THEN heap[i].part[f] ELSE <<>>
    BY <2>2, PartsAre
  <2> QED BY <1>7, <2>1, <2>3
<1>9. PICK Q1 : Q1 = WithNode(P, m1, OnlyPart("block", List))
  OBVIOUS
<1>10. PICK Q2 : Q2 = WithNode(Q1, m2, OnlyPart("true_case", <<m1>>))
  OBVIOUS
<1>11. PICK Q3 : Q3 = WithNode(Q2, m3, OnlyPart("lambda", <<m2>>))
  OBVIOUS
<1>12. \A i, f : PartAt(Q1, i, f) = IF i = m1 THEN OnlyPart("block", List)[f] ELSE PartAt(P, i, f)
  BY <1>9, WithNodeIs
<1>13. \A i, f : PartAt(Q2, i, f) = IF i = m2 THEN OnlyPart("true_case", <<m1>>)[f] ELSE PartAt(Q1, i, f)
  BY <1>10, WithNodeIs
<1>14. \A i, f : PartAt(Q3, i, f) = IF i = m3 THEN OnlyPart("lambda", <<m2>>)[f] ELSE PartAt(Q2, i, f)
  BY <1>11, WithNodeIs
<1>15. m1 \notin D /\ m2 \notin D /\ m3 \notin D
  BY <1>4
<1>16. Forest(Names, Places(E1, L, P, List), D)
  BY <1>2, <1>4, <1>7, ListFreed
<1>17. Forest(Names, Places(E1, L, Q1, <<>>), D)
  <2>1. \A f \in Fields : PartAt(P, m1, f) = <<>>
    BY <1>8, <1>15
  <2>2. PutAt(P, m1, "block", List, Q1)
    BY <1>6, <1>9, <2>1, OnlyPut
  <2> QED BY <1>6, <1>16, <2>2, RootToPart
<1>18. Forest(Names, Places(E1, L, Q2, <<>>), D \cup {m1})
  <2>1. \A f \in Fields : PartAt(Q1, m2, f) = <<>>
    BY <1>3, <1>8, <1>12, <1>15
  <2>2. PutAt(Q1, m2, "true_case", <<m1>>, Q2)
    BY <1>6, <1>10, <2>1, OnlyPut
  <2> QED BY <1>6, <1>15, <1>17, <2>2, OnePut
<1>19. Forest(Names, Places(E1, L, Q3, <<>>), D \cup {m1} \cup {m2})
  <2>1. \A f \in Fields : PartAt(Q2, m3, f) = <<>>
    BY <1>3, <1>8, <1>12, <1>13, <1>15
  <2>2. PutAt(Q2, m3, "lambda", <<m2>>, Q3)
    BY <1>6, <1>11, <2>1, OnlyPut
  <2>3. m2 \notin D \cup {m1}
    BY <1>3, <1>15
  <2> QED BY <1>6, <1>18, <2>2, <2>3, OnePut
<1>20. PICK Q : Q = Parts(h, <<>>)
  OBVIOUS
<1>21. ASSUME NEW i \in Nat, NEW f \in Fields PROVE PartAt(Q, i, f) = PartAt(Q3, i, f)
  <2>1. PartAt(Q, i, f) = IF i \in DOMAIN h THEN h[i].part[f] ELSE <<>>
    <3>1. PICK c : c = <<>>
      OBVIOUS
    <3>2. Range(c) = {}
      BY <3>1 DEF Range
    <3> QED BY <1>20, <3>1, <3>2, PartsAre
  <2>2. CASE i = m1
    BY <1>3, <1>4, <1>12, <1>13, <1>14, <2>1, <2>2
  <2>3. CASE i = m2
    BY <1>3, <1>4, <1>13, <1>14, <2>1, <2>3
  <2>4. CASE i = m3
    BY <1>4, <1>14, <2>1, <2>4
  <2>5. CASE i \notin {m1, m2, m3}
    <3>1. PartAt(Q3, i, f) = PartAt(P, i, f)
      BY <1>12, <1>13, <1>14, <2>5
    <3>2. i \in DOMAIN h <=> i \in D
      BY <1>4, <2>5
    <3>3. CASE i \in D
      BY <1>4, <1>8, <2>1, <3>1, <3>2, <3>3
    <3>4. CASE i \notin D
      BY <1>8, <2>1, <3>1, <3>2, <3>4
    <3> QED BY <3>3, <3>4
  <2> QED BY <2>2, <2>3, <2>4, <2>5
<1>22. Forest(Names, Places(E1, L, Q, <<>>), D \cup {m1} \cup {m2})
  BY <1>19, <1>21, PlacesLike
<1>23. Forest(Names, Places(Append(E1, m3), L, Q, <<>>), D \cup {m1} \cup {m2} \cup {m3})
  <2>1. m3 \notin D \cup {m1} \cup {m2}
    BY <1>3, <1>15
  <2> QED BY <1>22, <2>1, AddExpr
<1>24. DOMAIN h = D \cup {m1} \cup {m2} \cup {m3}
  BY <1>4
<1>25. \E r : Ranked(r, h, p.made + 3)
  <2>1. PICK h1 : h1 = [i \in D \cup {m1} |-> h[i]]
    OBVIOUS
  <2>2. PICK h2 : h2 = [i \in D \cup {m1} \cup {m2} |-> h[i]]
    OBVIOUS
  <2>3. DOMAIN h1 = D \cup {m1} /\ h1[m1] = h[m1] /\ \A i \in D : h1[i] = h[i]
    BY <2>1
  <2>4. DOMAIN h2 = D \cup {m1} \cup {m2} /\ h2[m2] = h[m2] /\ \A i \in D \cup {m1} : h2[i] = h[i]
    BY <2>2
  <2>5. Grown(heap, m1, h1)
    BY <1>4, <1>15, <2>3 DEF Grown
  <2>6. Grown(h1, m2, h2)
    BY <1>3, <1>15, <2>3, <2>4 DEF Grown
  <2>7. Grown(h2, m3, h)
    BY <1>3, <1>15, <1>24, <2>4 DEF Grown
  <2>8. \A f \in Fields : h1[m1].part[f] \in Seq(DOMAIN heap)
    <3>1. List \in Seq(D)
      BY <1>16, PartsIn
    <3> QED BY <1>4, <1>6, <2>3, <3>1, OnlyPartIn
  <2>9. \A f \in Fields : h2[m2].part[f] \in Seq(DOMAIN h1)
    <3>1. PICK v : v = <<m1>>
      OBVIOUS
    <3>2. PICK S : S = DOMAIN h1 /\ v \in Seq(S)
      BY <2>3, <3>1
    <3>3. h2[m2].part = OnlyPart("true_case", v)
      BY <1>4, <2>4, <3>1
    <3>4. \A f \in Fields : h2[m2].part[f] \in Seq(S)
      BY <1>6, <3>2, <3>3, OnlyPartIn
    <3> QED BY <3>2, <3>4
  <2>10. \A f \in Fields : h[m3].part[f] \in Seq(DOMAIN h2)
    <3>1. PICK v : v = <<m2>>
      OBVIOUS
    <3>2. PICK S : S = DOMAIN h2 /\ v \in Seq(S)
      BY <2>4, <3>1
    <3>3. h[m3].part = OnlyPart("lambda", v)
      BY <1>4, <3>1
    <3>4. \A f \in Fields : h[m3].part[f] \in Seq(S)
      BY <1>6, <3>2, <3>3, OnlyPartIn
    <3> QED BY <3>2, <3>4
  <2>11. \E r : Ranked(r, h1, p.made + 1)
    BY <1>2, <2>5, <2>8, RankNode
  <2>12. p.made + 1 \in Nat /\ p.made + 1 + 1 \in Nat /\ p.made + 1 + 1 + 1 = p.made + 3
    BY <1>2
  <2>13. \E r : Ranked(r, h2, p.made + 1 + 1)
    BY <2>6, <2>9, <2>11, <2>12, RankNode
  <2>14. \E r : Ranked(r, h, p.made + 1 + 1 + 1)
    BY <2>7, <2>10, <2>12, <2>13, RankNode
  <2> QED BY <2>12, <2>14
<1>26. Forest(Names, Places(p.expr_stack, p.stack, Parts(heap, copying), Rest)', DOMAIN heap')
  BY <1>1, <1>2, <1>4, <1>5, <1>20, <1>23, <1>24
<1>27. \E r : Ranked(r, heap', p'.made)
  BY <1>4, <1>5, <1>25
<1> QED BY <1>1, <1>2, <1>26, <1>27, NoCopies DEF Tree

-----------------------------------------------------------------------------
(* Combined assignments. *)

\* Nodes that are copies have the rank of what they are copies of.
CopiedTo(h, o, c, n, h2) ==
  /\ n \in Nat /\ DOMAIN h2 = DOMAIN h \cup {c[j] : j \in 1..n}
  /\ \A i \in DOMAIN h : h2[i].part = h[i].part
  /\ \A j \in 1..n : o[j] \in DOMAIN h /\ c[j] \notin DOMAIN h /\ h2[c[j]].part = h[o[j]].part
  /\ \A j, k \in 1..n : c[j] = c[k] => j = k

LEMMA RankCopied ==
  ASSUME NEW h, NEW m, \E r : Ranked(r, h, m), NEW o, NEW c, NEW n, NEW h2, CopiedTo(h, o, c, n, h2)
  PROVE  \E r : Ranked(r, h2, m) /\ \A j \in 1..n : r[c[j]] = r[o[j]]
<1> USE DEF CopiedTo
<1>1. PICK r : Ranked(r, h, m)
  OBVIOUS
<1>2. PICK q : q = [i \in DOMAIN h2 |-> IF i \in DOMAIN h THEN r[i] ELSE r[o[CHOOSE j \in 1..n : c[j] = i]]]
  OBVIOUS
<1>3. \A i \in DOMAIN h : q[i] = r[i]
  BY <1>2
<1>4. ASSUME NEW j \in 1..n PROVE q[c[j]] = r[o[j]]
  <2>1. (CHOOSE k \in 1..n : c[k] = c[j]) = j
    OBVIOUS
  <2>2. c[j] \in DOMAIN h2 /\ c[j] \notin DOMAIN h
    OBVIOUS
  <2> QED BY <1>2, <2>1, <2>2
<1>5. ASSUME NEW i \in DOMAIN h2, NEW e \in DOMAIN h, h2[i].part = h[e].part, q[i] = r[e]
      PROVE  /\ q[i] \in Nat /\ q[i] <= m
             /\ \A f \in Fields : \A j \in DOMAIN h2[i].part[f] :
                  h2[i].part[f][j] \in DOMAIN h2 /\ q[h2[i].part[f][j]] < q[i]
  <2>1. q[i] \in Nat /\ q[i] <= m
    BY <1>1, <1>5 DEF Ranked
  <2>2. ASSUME NEW f \in Fields, NEW j \in DOMAIN h2[i].part[f]
        PROVE  h2[i].part[f][j] \in DOMAIN h2 /\ q[h2[i].part[f][j]] < q[i]
    <3>1. j \in DOMAIN h[e].part[f] /\ h2[i].part[f] = h[e].part[f]
      BY <1>5, <2>2
    <3>2. h[e].part[f][j] \in DOMAIN h /\ r[h[e].part[f][j]] < r[e]
      BY <1>1, <3>1 DEF Ranked
    <3> QED BY <1>3, <1>5, <3>1, <3>2
  <2> QED BY <2>1, <2>2
<1>6. ASSUME NEW i \in DOMAIN h2 PROVE \E e \in DOMAIN h : h2[i].part = h[e].part /\ q[i] = r[e]
  <2>1. CASE i \in DOMAIN h
    BY <1>3, <2>1
  <2>2. CASE i \notin DOMAIN h
    <3>1. PICK j \in 1..n : i = c[j]
      BY <2>2
    <3> QED BY <1>4, <3>1
  <2> QED BY <2>1, <2>2
<1>7. Ranked(q, h2, m)
  BY <1>5, <1>6 DEF Ranked
<1>8. \A j \in 1..n : q[c[j]] = q[o[j]]
  BY <1>3, <1>4
<1> QED BY <1>7, <1>8

LEMMA RankMore ==
  ASSUME NEW h, NEW m \in Nat, \E r : Ranked(r, h, m), NEW n \in Nat, m <= n
  PROVE  \E r : Ranked(r, h, n)
<1>1. PICK r : Ranked(r, h, m)
  OBVIOUS
<1>2. ASSUME NEW i \in DOMAIN h PROVE r[i] \in Nat /\ r[i] <= n
  <2>1. PICK a \in Nat : a = r[i] /\ a <= m
    BY <1>1 DEF Ranked
  <2> QED BY <2>1
<1> QED BY <1>1, <1>2 DEF Ranked

\* What is popped for a combined assignment goes to the reference and the operation.
CombinesTo(x, m1, m2, P, Q) ==
  /\ \A f \in Fields : PartAt(P, m1, f) = <<>> /\ PartAt(P, m2, f) = <<>>
  /\ \A i \in Nat, f \in Fields :
       PartAt(Q, i, f) = IF i = m1 /\ f = "argv" THEN Arguments(x)
                         ELSE IF i = m2 /\ f = "index" THEN PopExpr(Combines(x), "inner")
                         ELSE PartAt(P, i, f)

LEMMA CombineForest ==
  ASSUME NEW x, IsParser(p), ExprsSane(Combines(x)),
         NEW L, NEW P, NEW D, Forest(Names, Places(p.expr_stack, L, P, <<>>), D),
         NEW m1 \in Nat, NEW m2 \in Nat, m1 # m2,
         NEW Q, CombinesTo(x, m1, m2, P, Q)
  PROVE  Forest(Names, Places(ExprsLeft(Combines(x)), L, Q, <<>>), D)
<1> USE DEF CombinesTo
<1>1. PICK pops : pops = Combines(x)
  OBVIOUS
<1>2. pops \in Orders({"inner", "index", "elif", "argv"}) /\ {"inner", "index", "elif", "argv"} \subseteq Fields
  BY <1>1, CombinesIs, FieldNames DEF Pops
<1>3. PICK K \in Nat : /\ K = Len(pops) /\ \A j, k \in 1..K : pops[j] = pops[k] => j = k
                       /\ HasArgv(pops) <=> \E j \in 1..K : pops[j] = "argv"
  BY <1>2, OrderIs
<1>4. \A k \in 1..K : pops[k] \in {"inner", "argv"}
  BY <1>1, <1>3 DEF Combines
<1>5. \E k \in 1..K : pops[k] = "inner"
  <2>1. K \in {1, 2} /\ pops[1] = "inner"
    BY <1>1, <1>3 DEF Combines
  <2> QED BY <2>1
<1>6. IF HasArgv(pops) THEN Arguments(x) = PopExpr(pops, "argv") ELSE Arguments(x) = <<>>
  <2>1. CASE x.do = "op_assign_array"
    BY <1>1, <2>1, CombinesIs DEF Arguments
  <2>2. CASE x.do # "op_assign_array"
    BY <1>1, <2>2, CombinesIs DEF Arguments
  <2> QED BY <2>1, <2>2
<1>7. PICK a, b : /\ a = [k \in 1..K |-> IF pops[k] = "argv" THEN m1 ELSE m2]
                  /\ b = [k \in 1..K |-> IF pops[k] = "argv" THEN "argv" ELSE "index"]
  OBVIOUS
<1>8. a \in [1..K -> Nat] /\ b \in [1..K -> Fields]
  BY <1>2, <1>7
<1>9. \A j, k \in 1..K : a[j] = a[k] /\ b[j] = b[k] => j = k
  BY <1>3, <1>4, <1>7
<1>10. \A k \in 1..K : PartAt(P, a[k], b[k]) = <<>>
  BY <1>2, <1>7
<1>11. ASSUME NEW k \in 1..K PROVE PartAt(Q, a[k], b[k]) = PopExpr(pops, pops[k])
  <2>1. CASE pops[k] = "argv"
    <3>1. HasArgv(pops) /\ a[k] = m1 /\ b[k] = "argv" /\ "argv" \in Fields
      BY <1>2, <1>3, <1>7, <2>1
    <3>2. PartAt(Q, m1, "argv") = Arguments(x)
      BY <3>1
    <3> QED BY <1>6, <2>1, <3>1, <3>2
  <2>2. CASE pops[k] = "inner"
    <3>1. a[k] = m2 /\ b[k] = "index" /\ "index" \in Fields
      BY <1>2, <1>7, <2>2
    <3>2. PartAt(Q, m2, "index") = PopExpr(pops, "inner")
      BY <1>1, <3>1
    <3> QED BY <2>2, <3>1, <3>2
  <2> QED BY <1>4, <2>1, <2>2
<1>12. ASSUME NEW i \in Nat, NEW f \in Fields, \A k \in 1..K : ~(a[k] = i /\ b[k] = f)
       PROVE  PartAt(Q, i, f) = PartAt(P, i, f)
  <2>1. ~(i = m2 /\ f = "index")
    <3>1. PICK k \in 1..K : pops[k] = "inner"
      BY <1>5
    <3>2. a[k] = m2 /\ b[k] = "index"
      BY <1>7, <3>1
    <3> QED BY <1>12, <3>2
  <2>2. CASE i = m1 /\ f = "argv"
    <3>1. ~HasArgv(pops)
      <4>1. SUFFICES ASSUME HasArgv(pops) PROVE FALSE
        OBVIOUS
      <4>2. PICK k \in 1..K : pops[k] = "argv"
        BY <1>3, <4>1
      <4>3. a[k] = m1 /\ b[k] = "argv"
        BY <1>7, <4>2
      <4> QED BY <1>12, <2>2, <4>3
    <3>2. PartAt(Q, i, f) = Arguments(x)
      BY <2>2
    <3>3. PartAt(P, i, f) = <<>>
      BY <2>2
    <3> QED BY <1>6, <3>1, <3>2, <3>3
  <2>3. CASE ~(i = m1 /\ f = "argv")
    BY <2>1, <2>3
  <2> QED BY <2>2, <2>3
<1>13. PopsTo(pops, K, a, b, P, Q)
  BY <1>3, <1>8, <1>9, <1>10, <1>11, <1>12 DEF PopsTo
<1> QED BY <1>1, <1>2, <1>13, PopsForest

\* A node with two parts.
TwoParts(f, v, g, w) == [OnlyPart(f, v) EXCEPT ![g] = w]

LEMMA TwoPartsAt ==
  ASSUME NEW f \in Fields, NEW v, NEW g \in Fields, NEW w
  PROVE  \A x \in Fields : TwoParts(f, v, g, w)[x] = IF x = g THEN w ELSE IF x = f THEN v ELSE <<>>
BY DEF TwoParts, OnlyPart, NoParts

LEMMA TwoPartsIn ==
  ASSUME NEW f \in Fields, NEW S, NEW v \in Seq(S), NEW g \in Fields, NEW w \in Seq(S)
  PROVE  \A x \in Fields : TwoParts(f, v, g, w)[x] \in Seq(S)
<1>1. PICK e \in Seq(S) : e = <<>>
  <2>1. PICK e : e = <<>>
    OBVIOUS
  <2>2. e \in Seq(S)
    BY <2>1
  <2> QED BY <2>1, <2>2
<1>2. \A x \in Fields : TwoParts(f, v, g, w)[x] = IF x = g THEN w ELSE IF x = f THEN v ELSE e
  BY <1>1, TwoPartsAt
<1> QED BY <1>2
\* The nodes of a combined assignment: three, and the copies.
LEMMA CombinedIds ==
  ASSUME TypeInv, EndOpAssign
  PROVE  \E m1, m2, m3 \in Nat :
           /\ m1 = Id(1) /\ m2 = Id(2) /\ m3 = Id(3) /\ m1 # m2 /\ m1 # m3 /\ m2 # m3
           /\ {m1, m2, m3} \cap DOMAIN heap = {} /\ {m1, m2, m3} \cap Range(Copies(Head(goal))) = {}
           /\ Range(Copies(Head(goal))) \cap DOMAIN heap = {}
           /\ IsInjective(Copies(Head(goal))) /\ Copies(Head(goal)) \in Seq(Nat)
           /\ Len(Copies(Head(goal))) = Len(Arguments(Head(goal)))
           /\ DOMAIN heap' = DOMAIN heap \cup {m1, m2, m3} \cup Range(Copies(Head(goal)))
           /\ \A j \in 1..Len(Arguments(Head(goal))) :
                heap'[Copies(Head(goal))[j]] = heap[Arguments(Head(goal))[j]]
<1> DEFINE x == Head(goal)
<1>1. p.made \in Nat /\ IsHeap(heap, p.made)
  BY MemoryIs
<1>2. PICK n \in Nat : n = Len(Arguments(x)) /\ Arguments(x) \in Seq(Nat)
  <2>1. Arguments(x) \in Seq(Nat)
    BY EndOpAssignMakes, Zenon
  <2>2. Len(Arguments(x)) \in Nat
    BY <2>1
  <2> QED BY <2>1, <2>2
<1>3. Copies(x) \in Seq(Nat) /\ Len(Copies(x)) = n /\ \A j \in 1..n : Copies(x)[j] = Id(3 + j)
  BY <1>1, <1>2, CopiesAre
<1>4. /\ DOMAIN heap' = DOMAIN heap \cup {Id(j) : j \in 1..(3 + n)}
      /\ \A j \in 1..n : heap'[Id(3 + j)] = heap[Arguments(x)[j]]
  BY <1>2, EndOpAssignMakes
<1>5. \A i \in DOMAIN heap : i \in Nat /\ i <= p.made
  BY <1>1 DEF IsHeap
<1>6. PICK c : c = Copies(x)
  OBVIOUS
<1> HIDE DEF x
<1>7. Range(c) = {Id(3 + j) : j \in 1..n} /\ DOMAIN c = 1..n /\ \A j \in 1..n : c[j] = Id(3 + j)
  <2>1. DOMAIN c = 1..n /\ \A j \in 1..n : c[j] = Id(3 + j)
    BY <1>3, <1>6
  <2> QED BY <2>1 DEF Range
<1>8. {Id(j) : j \in 1..(3 + n)} = {Id(1), Id(2), Id(3)} \cup Range(c)
  <2>1. ASSUME NEW j \in 1..(3 + n), j > 3 PROVE Id(j) \in Range(c)
    <3>1. j - 3 \in 1..n /\ 3 + (j - 3) = j
      BY <1>2, <2>1
    <3> QED BY <1>7, <3>1
  <2>2. \A j \in 1..n : 3 + j \in 1..(3 + n)
    BY <1>2
  <2>3. 1 \in 1..(3 + n) /\ 2 \in 1..(3 + n) /\ 3 \in 1..(3 + n)
    BY <1>2
  <2>4. ASSUME NEW j \in 1..(3 + n), ~(j > 3) PROVE Id(j) \in {Id(1), Id(2), Id(3)}
    <3>1. j = 1 \/ j = 2 \/ j = 3
      BY <1>2, <2>4
    <3> QED BY <3>1
  <2> QED BY <1>7, <2>1, <2>2, <2>3, <2>4
<1>9. PICK m1, m2, m3 \in Nat : m1 = Id(1) /\ m2 = Id(2) /\ m3 = Id(3) /\ m1 # m2 /\ m1 # m3 /\ m2 # m3
  BY <1>1 DEF Id
<1>10. {m1, m2, m3} \cap DOMAIN heap = {}
  BY <1>1, <1>5, <1>9 DEF Id
<1>11. {m1, m2, m3} \cap Range(c) = {}
  BY <1>1, <1>7, <1>9 DEF Id
<1>12. Range(c) \cap DOMAIN heap = {}
  BY <1>1, <1>5, <1>7 DEF Id
<1>13. IsInjective(c)
  BY <1>1, <1>7 DEF IsInjective, Id
<1>14. DOMAIN heap' = DOMAIN heap \cup {m1, m2, m3} \cup Range(c)
  BY <1>4, <1>8, <1>9
<1>15. \A j \in 1..n : heap'[c[j]] = heap[Arguments(x)[j]]
  BY <1>4, <1>7
<1>16. /\ {m1, m2, m3} \cap Range(Copies(x)) = {} /\ Range(Copies(x)) \cap DOMAIN heap = {}
       /\ IsInjective(Copies(x)) /\ Copies(x) \in Seq(Nat) /\ Len(Copies(x)) = Len(Arguments(x))
       /\ DOMAIN heap' = DOMAIN heap \cup {m1, m2, m3} \cup Range(Copies(x))
       /\ \A j \in 1..Len(Arguments(x)) : heap'[Copies(x)[j]] = heap[Arguments(x)[j]]
  BY <1>2, <1>3, <1>6, <1>11, <1>12, <1>13, <1>14, <1>15
<1> QED BY <1>9, <1>10, <1>16, Zenon DEF x
LEMMA CombinedRanks ==
  ASSUME NEW h, NEW k \in Nat, \E r : Ranked(r, h, k), NEW o, NEW c, NEW n \in Nat,
         NEW m1, NEW m2, NEW m3, m1 # m2, m1 # m3, m2 # m3,
         {m1, m2, m3} \cap DOMAIN h = {}, {m1, m2, m3} \cap {c[j] : j \in 1..n} = {},
         NEW h4, DOMAIN h4 = DOMAIN h \cup {m1, m2, m3} \cup {c[j] : j \in 1..n},
         \A i \in DOMAIN h : h4[i] = h[i],
         NEW h0, h0 = [i \in DOMAIN h \cup {c[j] : j \in 1..n} |-> h4[i]], CopiedTo(h, o, c, n, h0),
         \A f \in Fields : h4[m1].part[f] \in Seq(DOMAIN h0),
         \A f \in Fields : h4[m2].part[f] \in Seq(DOMAIN h0 \cup {m1}),
         \A f \in Fields : h4[m3].part[f] \in Seq(DOMAIN h0 \cup {m1} \cup {m2})
  PROVE  \E r : Ranked(r, h4, k + (3 + n))
<1>1. PICK S : S = DOMAIN h0 /\ S = DOMAIN h \cup {c[j] : j \in 1..n}
  OBVIOUS
<1>2. PICK h1 : h1 = [i \in S \cup {m1} |-> h4[i]]
  OBVIOUS
<1>3. PICK h2 : h2 = [i \in S \cup {m1} \cup {m2} |-> h4[i]]
  OBVIOUS
<1>4. m1 \notin S /\ m2 \notin S /\ m3 \notin S
  BY <1>1
<1>5. Grown(h0, m1, h1)
  BY <1>1, <1>2, <1>4 DEF Grown
<1>6. Grown(h1, m2, h2)
  BY <1>2, <1>3, <1>4 DEF Grown
<1>7. Grown(h2, m3, h4)
  <2>1. DOMAIN h4 = S \cup {m1} \cup {m2} \cup {m3}
    BY <1>1
  <2> QED BY <1>3, <1>4, <2>1 DEF Grown
<1>8. \A f \in Fields : h1[m1].part[f] \in Seq(DOMAIN h0)
  BY <1>1, <1>2
<1>9. \A f \in Fields : h2[m2].part[f] \in Seq(DOMAIN h1)
  BY <1>1, <1>2, <1>3
<1>10. \A f \in Fields : h4[m3].part[f] \in Seq(DOMAIN h2)
  BY <1>1, <1>3
<1>11. \E r : Ranked(r, h0, k)
  BY RankCopied
<1>12. \E r : Ranked(r, h1, k + 1)
  BY <1>5, <1>8, <1>11, RankNode
<1>13. k + 1 \in Nat /\ k + 1 + 1 \in Nat /\ k + 1 + 1 + 1 \in Nat /\ k + (3 + n) \in Nat /\ k + 1 + 1 + 1 <= k + (3 + n)
  OBVIOUS
<1>14. \E r : Ranked(r, h2, k + 1 + 1)
  BY <1>6, <1>9, <1>12, <1>13, RankNode
<1>15. \E r : Ranked(r, h4, k + 1 + 1 + 1)
  BY <1>7, <1>10, <1>13, <1>14, RankNode
<1> QED BY <1>13, <1>15, RankMore

LEMMA EndOpAssignTrees ==
  ASSUME TypeInv, Tree, EndOpAssign
  PROVE  Tree'
<1> DEFINE D == DOMAIN heap
           x == Head(goal)
<1>1. /\ Called("op_assign") \/ Called("op_assign_array")
      /\ s' = s /\ copying' = Copies(x) /\ freeing' = freeing
  BY DEF EndOpAssign
<1>2. /\ IsParser(p) /\ p.made \in Nat /\ freeing = <<>> /\ IsHeap(heap, p.made) /\ copying = <<>>
      /\ Forest(Names, Places(p.expr_stack, p.stack, Parts(heap, <<>>), <<>>), D)
      /\ Rest' = freeing' /\ \E r : Ranked(r, heap, p.made)
  BY <1>1, TreeCalling
<1>3. PICK L : L = p.stack
  OBVIOUS
<1>4. PICK argv, inner, c, h :
        /\ argv = Arguments(x) /\ inner = PopExpr(Combines(x), "inner") /\ c = Copies(x) /\ h = heap'
        /\ ExprsSane(Combines(x)) /\ \A i \in D : h[i] = heap[i]
        /\ h[Id(1)].part = OnlyPart("argv", argv)
        /\ h[Id(2)].part = TwoParts("inner", <<Id(1)>>, "index", inner)
        /\ h[Id(3)].part = TwoParts("inner", <<Id(2)>>, "argv", c)
        /\ p'.made = p.made + (3 + Len(argv)) /\ argv \in Seq(D)
  BY EndOpAssignMakes DEF TwoParts
<1>5. PICK m1, m2, m3 \in Nat :
           /\ m1 = Id(1) /\ m2 = Id(2) /\ m3 = Id(3) /\ m1 # m2 /\ m1 # m3 /\ m2 # m3
           /\ {m1, m2, m3} \cap DOMAIN heap = {} /\ {m1, m2, m3} \cap Range(Copies(x)) = {}
           /\ Range(Copies(x)) \cap DOMAIN heap = {}
           /\ IsInjective(Copies(x)) /\ Copies(x) \in Seq(Nat)
           /\ Len(Copies(x)) = Len(Arguments(x))
           /\ DOMAIN heap' = DOMAIN heap \cup {m1, m2, m3} \cup Range(Copies(x))
           /\ \A j \in 1..Len(Arguments(x)) : heap'[Copies(x)[j]] = heap[Arguments(x)[j]]
  BY CombinedIds, Zenon
<1>6. /\ m1 = Id(1) /\ m2 = Id(2) /\ m3 = Id(3) /\ m1 # m2 /\ m1 # m3 /\ m2 # m3
      /\ {m1, m2, m3} \cap D = {} /\ {m1, m2, m3} \cap Range(c) = {}
      /\ Range(c) \cap D = {} /\ IsInjective(c) /\ c \in Seq(Nat) /\ Len(c) = Len(argv)
      /\ DOMAIN h = D \cup {m1, m2, m3} \cup Range(c)
      /\ \A j \in 1..Len(argv) : h[c[j]] = heap[argv[j]]
  <2>1. m1 = Id(1) /\ m2 = Id(2) /\ m3 = Id(3) /\ m1 # m2 /\ m1 # m3 /\ m2 # m3
    BY <1>5
  <2>2. \A j \in 1..Len(argv) : h[c[j]] = heap[argv[j]]
    BY <1>4, <1>5
  <2>3. /\ {m1, m2, m3} \cap D = {} /\ {m1, m2, m3} \cap Range(c) = {}
        /\ Range(c) \cap D = {} /\ IsInjective(c) /\ c \in Seq(Nat) /\ Len(c) = Len(argv)
        /\ DOMAIN h = D \cup {m1, m2, m3} \cup Range(c)
    BY <1>4, <1>5
  <2> QED BY <2>1, <2>2, <2>3, Zenon
<1>7. p'.expr_stack = Append(ExprsLeft(Combines(x)), m3) /\ p'.stack = L
  <2>1. PICK e, a, n : e = ExprsLeft(Combines(x)) /\ a = CountsLeft(Combines(x)) /\ n = Len(Combined(x))
    OBVIOUS
  <2>2. p' = PushExpr([p EXCEPT !.expr_stack = e, !.arg_count = a, !.made = @ + n], Id(3))
    BY <2>1 DEF EndOpAssign
  <2>3. p'.expr_stack = Append(e, Id(3)) /\ p'.stack = p.stack
    BY <1>2, <2>2 DEF PushExpr, IsParser
  <2> QED BY <1>3, <1>6, <2>1, <2>3
<1>8. "inner" \in Fields /\ "index" \in Fields /\ "argv" \in Fields
  BY FieldNames
<1>9. PICK P : P = Parts(heap, <<>>)
  OBVIOUS
<1>10. \A i \in Nat, f \in Fields : PartAt(P, i, f) = IF i \in D THEN heap[i].part[f] ELSE <<>>
  <2>1. PICK e : e = <<>>
    OBVIOUS
  <2>2. Range(e) = {}
    BY <2>1 DEF Range
  <2>3. \A i \in Nat, f \in Fields : PartAt(Parts(heap, e), i, f) = IF i \in D THEN heap[i].part[f] ELSE <<>>
    BY <2>2, PartsAre
  <2> QED BY <1>9, <2>1, <2>3
<1>11. /\ m1 \notin D /\ m2 \notin D /\ m3 \notin D /\ m1 \notin Range(c) /\ m2 \notin Range(c)
       /\ m3 \notin Range(c) /\ \A i \in Range(c) : i \notin D /\ i \in DOMAIN h
  BY <1>6
<1> HIDE DEF D, x
<1>12. \A f \in Fields : /\ OnlyPart("argv", argv)[f] = IF f = "argv" THEN argv ELSE <<>>
                         /\ OnlyPart("index", inner)[f] = IF f = "index" THEN inner ELSE <<>>
  BY <1>8, OnlyPartAt
<1>13. PICK Q0 : Q0 = WithNode(P, m1, OnlyPart("argv", argv))
  OBVIOUS
<1>14. PICK Q1 : Q1 = WithNode(Q0, m2, OnlyPart("index", inner))
  OBVIOUS
<1>15. PICK Q2 : Q2 = WithNode(Q1, m2, TwoParts("inner", <<m1>>, "index", inner))
  OBVIOUS
<1>16. PICK Q3 : Q3 = WithNode(Q2, m3, OnlyPart("inner", <<m2>>))
  OBVIOUS
<1>17. PICK Q4 : Q4 = WithNode(Q3, m3, TwoParts("inner", <<m2>>, "argv", c))
  OBVIOUS
<1>18. \A i, f : PartAt(Q0, i, f) = IF i = m1 THEN OnlyPart("argv", argv)[f] ELSE PartAt(P, i, f)
  BY <1>13, WithNodeIs
<1>19. \A i, f : PartAt(Q1, i, f) = IF i = m2 THEN OnlyPart("index", inner)[f] ELSE PartAt(Q0, i, f)
  BY <1>14, WithNodeIs
<1>20. \A i, f : PartAt(Q2, i, f) = IF i = m2 THEN TwoParts("inner", <<m1>>, "index", inner)[f] ELSE PartAt(Q1, i, f)
  BY <1>15, WithNodeIs
<1>21. \A i, f : PartAt(Q3, i, f) = IF i = m3 THEN OnlyPart("inner", <<m2>>)[f] ELSE PartAt(Q2, i, f)
  BY <1>16, WithNodeIs
<1>22. \A i, f : PartAt(Q4, i, f) = IF i = m3 THEN TwoParts("inner", <<m2>>, "argv", c)[f] ELSE PartAt(Q3, i, f)
  BY <1>17, WithNodeIs
<1>23. Forest(Names, Places(ExprsLeft(Combines(x)), L, Q1, <<>>), D)
  <2>1. \A f \in Fields : PartAt(P, m1, f) = <<>>
    BY <1>10, <1>11
  <2>2. \A f \in Fields : PartAt(P, m2, f) = <<>>
    BY <1>10, <1>11
  <2>3. ASSUME NEW i \in Nat, NEW f \in Fields
        PROVE  PartAt(Q1, i, f) = IF i = m1 /\ f = "argv" THEN Arguments(x)
                                  ELSE IF i = m2 /\ f = "index" THEN PopExpr(Combines(x), "inner")
                                  ELSE PartAt(P, i, f)
    <3>1. CASE i = m1
      <4>1. PartAt(Q1, i, f) = OnlyPart("argv", argv)[f] /\ i # m2
        BY <1>6, <1>18, <1>19, <3>1
      <4> QED BY <1>4, <1>12, <2>1, <3>1, <4>1
    <3>2. CASE i = m2
      <4>1. PartAt(Q1, i, f) = OnlyPart("index", inner)[f] /\ i # m1
        BY <1>6, <1>19, <3>2
      <4> QED BY <1>4, <1>12, <2>2, <3>2, <4>1
    <3>3. CASE i # m1 /\ i # m2
      BY <1>18, <1>19, <3>3
    <3> QED BY <3>1, <3>2, <3>3
  <2>4. Forest(Names, Places(p.expr_stack, L, P, <<>>), D)
    BY <1>2, <1>3, <1>9 DEF D
  <2>5. CombinesTo(x, m1, m2, P, Q1)
    BY <2>1, <2>2, <2>3 DEF CombinesTo
  <2> QED BY <1>2, <1>4, <1>6, <2>4, <2>5, CombineForest
<1>24. PICK E1 : E1 = ExprsLeft(Combines(x))
  OBVIOUS
<1>25. Forest(Names, Places(E1, L, Q2, <<>>), D \cup {m1})
  <2>1. \A f \in Fields : TwoParts("inner", <<m1>>, "index", inner)[f]
                            = IF f = "index" THEN inner ELSE IF f = "inner" THEN <<m1>> ELSE <<>>
    BY <1>8, TwoPartsAt
  <2>2. PartAt(Q1, m2, "inner") = <<>>
    BY <1>8, <1>12, <1>19
  <2>3. PartAt(Q2, m2, "inner") = <<m1>>
    BY <1>8, <1>20, <2>1
  <2>4. ASSUME NEW i \in Nat, NEW f \in Fields, ~(i = m2 /\ f = "inner") PROVE PartAt(Q2, i, f) = PartAt(Q1, i, f)
    <3>1. CASE i = m2
      BY <1>12, <1>19, <1>20, <2>1, <2>4, <3>1
    <3>2. CASE i # m2
      BY <1>20, <3>2
    <3> QED BY <3>1, <3>2
  <2>5. PutAt(Q1, m2, "inner", <<m1>>, Q2)
    BY <2>2, <2>3, <2>4 DEF PutAt
  <2> QED BY <1>8, <1>11, <1>23, <1>24, <2>5, OnePut
<1>26. \A f \in Fields : PartAt(Q2, m3, f) = <<>>
  BY <1>6, <1>10, <1>11, <1>18, <1>19, <1>20
<1>27. Forest(Names, Places(E1, L, Q3, <<>>), D \cup {m1} \cup {m2})
  <2>1. PutAt(Q2, m3, "inner", <<m2>>, Q3)
    BY <1>8, <1>16, <1>26, OnlyPut
  <2>2. m2 \notin D \cup {m1}
    BY <1>6, <1>11
  <2> QED BY <1>8, <1>25, <2>1, <2>2, OnePut
<1>28. PICK D3 : D3 = D \cup {m1} \cup {m2} \cup Range(c)
  OBVIOUS
<1>29. Forest(Names, Places(E1, L, Q4, <<>>), D3)
  <2>1. \A f \in Fields : TwoParts("inner", <<m2>>, "argv", c)[f]
                            = IF f = "argv" THEN c ELSE IF f = "inner" THEN <<m2>> ELSE <<>>
    BY <1>8, TwoPartsAt
  <2>2. \A f \in Fields : OnlyPart("inner", <<m2>>)[f] = IF f = "inner" THEN <<m2>> ELSE <<>>
    BY <1>8, OnlyPartAt
  <2>3. PartAt(Q3, m3, "argv") = <<>>
    BY <1>8, <1>21, <2>2
  <2>4. PartAt(Q4, m3, "argv") = c
    BY <1>8, <1>22, <2>1
  <2>5. ASSUME NEW i \in Nat, NEW f \in Fields, ~(i = m3 /\ f = "argv") PROVE PartAt(Q4, i, f) = PartAt(Q3, i, f)
    <3>1. CASE i = m3
      BY <1>21, <1>22, <2>1, <2>2, <2>5, <3>1
    <3>2. CASE i # m3
      BY <1>22, <3>2
    <3> QED BY <3>1, <3>2
  <2>6. PutAt(Q3, m3, "argv", c, Q4)
    BY <2>3, <2>4, <2>5 DEF PutAt
  <2>7. c \in Seq(D3)
    BY <1>6, <1>28 DEF Range
  <2>8. \A i \in DOMAIN c : c[i] \notin D \cup {m1} \cup {m2}
    BY <1>11 DEF Range
  <2>9. D3 \ (D \cup {m1} \cup {m2}) \subseteq Range(c) /\ D \cup {m1} \cup {m2} \subseteq D3
    BY <1>28
  <2> QED BY <1>6, <1>8, <1>27, <2>6, <2>7, <2>8, <2>9, PartPut
<1>30. PICK Q : Q = Parts(h, c)
  OBVIOUS
<1>31. ASSUME NEW i \in Nat, NEW f \in Fields PROVE PartAt(Q, i, f) = PartAt(Q4, i, f)
  <2>1. PartAt(Q, i, f) = IF i \in DOMAIN h /\ i \notin Range(c) THEN h[i].part[f] ELSE <<>>
    BY <1>30, PartsAre
  <2>2. CASE i = m1
    <3>1. PartAt(Q4, i, f) = OnlyPart("argv", argv)[f]
      BY <1>6, <1>18, <1>19, <1>20, <1>21, <1>22, <2>2
    <3>2. i \in DOMAIN h /\ i \notin Range(c) /\ h[i].part = OnlyPart("argv", argv)
      BY <1>4, <1>6, <1>11, <2>2
    <3> QED BY <2>1, <3>1, <3>2
  <2>3. CASE i = m2
    <3>1. PartAt(Q4, i, f) = TwoParts("inner", <<m1>>, "index", inner)[f]
      <4>1. i # m3
        BY <1>6, <2>3
      <4>2. PartAt(Q4, i, f) = PartAt(Q2, i, f)
        BY <1>21, <1>22, <4>1
      <4> QED BY <1>20, <2>3, <4>2
    <3>2. i \in DOMAIN h /\ i \notin Range(c) /\ h[i].part = TwoParts("inner", <<m1>>, "index", inner)
      BY <1>4, <1>6, <1>11, <2>3
    <3> QED BY <2>1, <3>1, <3>2
  <2>4. CASE i = m3
    <3>1. PartAt(Q4, i, f) = TwoParts("inner", <<m2>>, "argv", c)[f]
      BY <1>22, <2>4
    <3>2. i \in DOMAIN h /\ i \notin Range(c) /\ h[i].part = TwoParts("inner", <<m2>>, "argv", c)
      BY <1>4, <1>6, <1>11, <2>4
    <3> QED BY <2>1, <3>1, <3>2
  <2>5. CASE i \notin {m1, m2, m3}
    <3>1. PartAt(Q4, i, f) = PartAt(P, i, f)
      BY <1>18, <1>19, <1>20, <1>21, <1>22, <2>5
    <3>2. PartAt(P, i, f) = IF i \in D THEN heap[i].part[f] ELSE <<>>
      BY <1>10
    <3>3. CASE i \in D
      BY <1>4, <1>6, <1>11, <2>1, <3>1, <3>2, <3>3 DEF D
    <3>4. CASE i \notin D
      BY <1>6, <2>1, <2>5, <3>1, <3>2, <3>4 DEF D
    <3> QED BY <3>3, <3>4
  <2> QED BY <2>2, <2>3, <2>4, <2>5
<1>32. Forest(Names, Places(E1, L, Q, <<>>), D3)
  BY <1>29, <1>31, PlacesLike
<1>33. Forest(Names, Places(Append(E1, m3), L, Q, <<>>), D3 \cup {m3})
  <2>1. m3 \notin D3
    BY <1>6, <1>11, <1>28
  <2> QED BY <1>32, <2>1, AddExpr
<1>34. DOMAIN h = D3 \cup {m3}
  BY <1>6, <1>28 DEF D
<1>35. Forest(Names, Places(p.expr_stack, p.stack, Parts(heap, copying), Rest)', DOMAIN heap')
  BY <1>1, <1>2, <1>4, <1>7, <1>24, <1>30, <1>33, <1>34 DEF D
<1>36. \E r : Ranked(r, h, p.made + (3 + Len(argv)))
  <2>1. PICK n \in Nat : n = Len(argv) /\ DOMAIN argv = 1..n
    BY <1>4
  <2>2. DOMAIN c = 1..n
    BY <1>6, <2>1
  <2>3. Range(c) = {c[j] : j \in 1..n}
    BY <2>2 DEF Range
  <2>4. PICK h0 : h0 = [i \in DOMAIN heap \cup {c[j] : j \in 1..n} |-> h[i]]
    OBVIOUS
  <2>5. CopiedTo(heap, argv, c, n, h0)
    <3>1. \A i \in DOMAIN heap : h0[i].part = heap[i].part
      BY <1>4, <2>4 DEF D
    <3>2. \A j \in 1..n : argv[j] \in DOMAIN heap /\ c[j] \notin DOMAIN heap /\ h0[c[j]].part = heap[argv[j]].part
      <4>1. ASSUME NEW j \in 1..n
            PROVE  argv[j] \in DOMAIN heap /\ c[j] \notin DOMAIN heap /\ h0[c[j]].part = heap[argv[j]].part
        <5>1. argv[j] \in DOMAIN heap
          BY <1>4, <2>1 DEF D
        <5>2. c[j] \in Range(c) /\ c[j] \notin DOMAIN heap
          BY <1>11, <2>3 DEF D
        <5>3. h0[c[j]] = h[c[j]]
          BY <2>4
        <5>4. h[c[j]] = heap[argv[j]]
          BY <1>6, <2>1
        <5> QED BY <5>1, <5>2, <5>3, <5>4
      <4> QED BY <4>1
    <3>3. \A j, k \in 1..n : c[j] = c[k] => j = k
      BY <1>6, <2>2 DEF IsInjective
    <3> QED BY <2>1, <2>4, <3>1, <3>2, <3>3 DEF CopiedTo
  <2>6. PICK S : S = DOMAIN h0 /\ D \subseteq S
    BY <2>4 DEF D
  <2>7. inner \in Seq(D) /\ argv \in Seq(D)
    <3>1. PartAt(Q1, m2, "index") = inner
      BY <1>8, <1>12, <1>19
    <3> QED BY <1>4, <1>8, <1>23, <3>1, PartsIn
  <2>8. \A f \in Fields : h[m1].part[f] \in Seq(S)
    <3>1. argv \in Seq(S)
      BY <2>6, <2>7
    <3> QED BY <1>4, <1>6, <1>8, <3>1, OnlyPartIn
  <2>9. \A f \in Fields : h[m2].part[f] \in Seq(S \cup {m1})
    <3>1. PICK T, v : T = S \cup {m1} /\ v = <<m1>> /\ v \in Seq(T)
      <4>1. PICK T, v : T = S \cup {m1} /\ v = <<m1>> /\ m1 \in T
        OBVIOUS
      <4>2. v \in Seq(T)
        BY <4>1
      <4> QED BY <4>1, <4>2
    <3>2. inner \in Seq(T)
      BY <2>6, <2>7, <3>1
    <3>3. h[m2].part = TwoParts("inner", v, "index", inner)
      BY <1>4, <1>6, <3>1
    <3>4. \A f \in Fields : h[m2].part[f] \in Seq(T)
      BY <1>8, <3>1, <3>2, <3>3, TwoPartsIn
    <3> QED BY <3>1, <3>4
  <2>10. \A f \in Fields : h[m3].part[f] \in Seq(S \cup {m1} \cup {m2})
    <3>1. PICK T, v : T = S \cup {m1} \cup {m2} /\ v = <<m2>> /\ v \in Seq(T)
      <4>1. PICK T, v : T = S \cup {m1} \cup {m2} /\ v = <<m2>> /\ m2 \in T
        OBVIOUS
      <4>2. v \in Seq(T)
        BY <4>1
      <4> QED BY <4>1, <4>2
    <3>2. c \in Seq(T)
      BY <1>6, <2>2, <2>3, <2>4, <2>6, <3>1
    <3>3. h[m3].part = TwoParts("inner", v, "argv", c)
      BY <1>4, <1>6, <3>1
    <3>4. \A f \in Fields : h[m3].part[f] \in Seq(T)
      BY <1>8, <3>1, <3>2, <3>3, TwoPartsIn
    <3> QED BY <3>1, <3>4
  <2>11. \E r : Ranked(r, h, p.made + (3 + n))
    <3>1. PICK C, H : C = {c[j] : j \in 1..n} /\ H = DOMAIN heap
      OBVIOUS
    <3>2. {m1, m2, m3} \cap H = {} /\ {m1, m2, m3} \cap C = {} /\ DOMAIN h = H \cup {m1, m2, m3} \cup C
      BY <1>6, <2>3, <3>1 DEF D
    <3>3. \A i \in DOMAIN heap : h[i] = heap[i]
      BY <1>4 DEF D
    <3> QED BY <1>2, <1>6, <2>4, <2>5, <2>6, <2>8, <2>9, <2>10, <3>1, <3>2, <3>3, CombinedRanks
  <2> QED BY <2>1, <2>11
<1>37. \E r : Ranked(r, heap', p'.made)
  BY <1>4, <1>36
<1>38. IsInjective(copying')
  BY <1>1, <1>4, <1>6
<1> QED BY <1>35, <1>37, <1>38 DEF Tree

-----------------------------------------------------------------------------
(* Copying. *)

\* What expr_copy gives to the parts of a copy, when nothing is shared.
CopiedParts == {"inner", "index", "argv"}

LEMMA ExprCopyIs ==
  ASSUME NEW n, IsNode(n), ~Shares(n), NEW N, N = Len(Copied(n))
  PROVE  /\ N \in Nat
         /\ \A f \in CopiedParts : /\ expr_copy(n, f) = [j \in DOMAIN n.part[f] |-> Id(CopyAt(n, f) + j)]
                                   /\ CopyAt(n, f) \in Nat
         /\ \A f \in Fields \ CopiedParts : expr_copy(n, f) = <<>>
         /\ \A f \in CopiedParts : \A j \in DOMAIN n.part[f] :
              CopyAt(n, f) + j \in 1..N /\ Copied(n)[CopyAt(n, f) + j] = n.part[f][j]
         /\ \A f, g \in CopiedParts : \A i \in DOMAIN n.part[f], j \in DOMAIN n.part[g] :
              CopyAt(n, f) + i = CopyAt(n, g) + j => f = g /\ i = j
         /\ \A i \in 1..N : \E f \in CopiedParts : \E j \in DOMAIN n.part[f] : i = CopyAt(n, f) + j
<1>1. PICK v, w, u \in Seq(Nat) : v = n.part["inner"] /\ w = n.part["index"] /\ u = n.part["argv"]
  BY FieldNames DEF IsNode
<1>2. PICK a, b, e \in Nat : /\ a = Len(v) /\ b = Len(w) /\ e = Len(u)
                             /\ DOMAIN v = 1..a /\ DOMAIN w = 1..b /\ DOMAIN u = 1..e
  OBVIOUS
<1>3. PICK vw \in Seq(Nat) : /\ vw = v \o w /\ Len(vw) = a + b
                             /\ \A i \in 1..a : vw[i] = v[i]
                             /\ \A i \in 1..b : vw[a + i] = w[i]
  <2>1. PICK vw : vw = v \o w
    OBVIOUS
  <2>2. vw \in Seq(Nat) /\ Len(vw) = a + b
    BY <1>2, <2>1
  <2>3. \A i \in 1..(a + b) : vw[i] = IF i <= a THEN v[i] ELSE w[i - a]
    BY <1>2, <2>1
  <2>4. ASSUME NEW i \in 1..a PROVE vw[i] = v[i]
    <3>1. i \in 1..(a + b) /\ i <= a
      OBVIOUS
    <3> QED BY <2>3, <3>1
  <2>5. ASSUME NEW i \in 1..b PROVE vw[a + i] = w[i]
    <3>1. a + i \in 1..(a + b) /\ ~(a + i <= a) /\ a + i - a = i
      OBVIOUS
    <3> QED BY <2>3, <3>1
  <2> QED BY <2>1, <2>2, <2>4, <2>5
<1>4. PICK m \in Seq(Nat) : /\ m = Copied(n) /\ Len(m) = a + b + e
                            /\ \A i \in 1..(a + b) : m[i] = vw[i]
                            /\ \A i \in 1..e : m[a + b + i] = u[i]
  <2>1. PICK m : m = vw \o u
    OBVIOUS
  <2>2. m \in Seq(Nat) /\ Len(m) = a + b + e
    BY <1>2, <1>3, <2>1
  <2>3. \A i \in 1..(a + b + e) : m[i] = IF i <= a + b THEN vw[i] ELSE u[i - (a + b)]
    BY <1>2, <1>3, <2>1
  <2>4. ASSUME NEW i \in 1..(a + b) PROVE m[i] = vw[i]
    <3>1. i \in 1..(a + b + e) /\ i <= a + b
      OBVIOUS
    <3> QED BY <2>3, <3>1
  <2>5. ASSUME NEW i \in 1..e PROVE m[a + b + i] = u[i]
    <3>1. PICK k \in 1..(a + b + e) : k = a + b + i /\ ~(k <= a + b) /\ k - (a + b) = i
      OBVIOUS
    <3>2. m[k] = u[k - (a + b)]
      BY <2>3, <3>1
    <3> QED BY <3>1, <3>2
  <2> QED BY <1>1, <1>3, <2>1, <2>2, <2>4, <2>5 DEF Copied
<1>5. CopyAt(n, "inner") = 0 /\ CopyAt(n, "index") = a /\ CopyAt(n, "argv") = a + b
  BY <1>1, <1>2 DEF CopyAt
<1>6. N = a + b + e
  BY <1>4
<1>7. \A f \in CopiedParts : expr_copy(n, f) = [j \in DOMAIN n.part[f] |-> Id(CopyAt(n, f) + j)]
  BY DEF CopiedParts, expr_copy
<1>8. \A f \in Fields \ CopiedParts : expr_copy(n, f) = <<>>
  <2>1. n.part["elif"] = <<>> /\ n.part["lambda"] = <<>>
    BY DEF Shares
  <2> QED BY <2>1 DEF CopiedParts, expr_copy
<1>14. DOMAIN n.part["inner"] = 1..a /\ DOMAIN n.part["index"] = 1..b /\ DOMAIN n.part["argv"] = 1..e
  BY <1>1, <1>2
<1>9. ASSUME NEW f \in CopiedParts, NEW j \in DOMAIN n.part[f]
      PROVE  CopyAt(n, f) + j \in 1..N /\ Copied(n)[CopyAt(n, f) + j] = n.part[f][j]
  <2>1. CASE f = "inner"
    <3>1. j \in 1..a /\ j \in 1..(a + b) /\ 0 + j = j /\ j \in 1..(a + b + e)
      BY <1>9, <1>14, <2>1
    <3> QED BY <1>1, <1>3, <1>4, <1>5, <1>6, <2>1, <3>1
  <2>2. CASE f = "index"
    <3>1. j \in 1..b /\ a + j \in 1..(a + b) /\ a + j \in 1..(a + b + e)
      BY <1>9, <1>14, <2>2
    <3> QED BY <1>1, <1>3, <1>4, <1>5, <1>6, <2>2, <3>1
  <2>3. CASE f = "argv"
    <3>1. j \in 1..e /\ a + b + j \in 1..(a + b + e)
      BY <1>9, <1>14, <2>3
    <3> QED BY <1>1, <1>4, <1>5, <1>6, <2>3, <3>1
  <2> QED BY <2>1, <2>2, <2>3 DEF CopiedParts
<1>10. ASSUME NEW f \in CopiedParts, NEW j \in DOMAIN n.part[f]
       PROVE  /\ j \in Nat /\ j >= 1
              /\ f = "inner" => CopyAt(n, f) = 0 /\ j <= a
              /\ f = "index" => CopyAt(n, f) = a /\ j <= b
              /\ f = "argv" => CopyAt(n, f) = a + b /\ j <= e
  <2>1. CASE f = "inner"
    BY <1>5, <1>10, <1>14, <2>1
  <2>2. CASE f = "index"
    BY <1>5, <1>10, <1>14, <2>2
  <2>3. CASE f = "argv"
    BY <1>5, <1>10, <1>14, <2>3
  <2> QED BY <2>1, <2>2, <2>3 DEF CopiedParts
<1>11. ASSUME NEW f \in CopiedParts, NEW g \in CopiedParts, NEW i \in DOMAIN n.part[f], NEW j \in DOMAIN n.part[g],
              CopyAt(n, f) + i = CopyAt(n, g) + j
       PROVE  f = g /\ i = j
  <2>1. /\ i \in Nat /\ i >= 1
        /\ f = "inner" => CopyAt(n, f) = 0 /\ i <= a
        /\ f = "index" => CopyAt(n, f) = a /\ i <= b
        /\ f = "argv" => CopyAt(n, f) = a + b /\ i <= e
    BY <1>10
  <2>2. /\ j \in Nat /\ j >= 1
        /\ g = "inner" => CopyAt(n, g) = 0 /\ j <= a
        /\ g = "index" => CopyAt(n, g) = a /\ j <= b
        /\ g = "argv" => CopyAt(n, g) = a + b /\ j <= e
    BY <1>10
  <2>3. f \in {"inner", "index", "argv"} /\ g \in {"inner", "index", "argv"}
    BY DEF CopiedParts
  <2> QED BY <1>11, <2>1, <2>2, <2>3
<1>12. ASSUME NEW i \in 1..N PROVE \E f \in CopiedParts : \E j \in DOMAIN n.part[f] : i = CopyAt(n, f) + j
  <2>1. CASE i <= a
    <3>1. i \in DOMAIN n.part["inner"] /\ i = CopyAt(n, "inner") + i /\ "inner" \in CopiedParts
      BY <1>1, <1>2, <1>5, <1>6, <2>1 DEF CopiedParts
    <3> QED BY <3>1
  <2>2. CASE a < i /\ i <= a + b
    <3>1. PICK j \in 1..b : i = a + j
      <4>1. i - a \in 1..b /\ i = a + (i - a)
        BY <1>6, <2>2
      <4> QED BY <4>1
    <3> QED BY <1>5, <1>14, <3>1 DEF CopiedParts
  <2>3. CASE a + b < i
    <3>1. PICK j \in 1..e : i = a + b + j
      <4>1. i - (a + b) \in 1..e /\ i = a + b + (i - (a + b))
        BY <1>6, <2>3
      <4> QED BY <4>1
    <3> QED BY <1>5, <1>14, <3>1 DEF CopiedParts
  <2> QED BY <1>6, <2>1, <2>2, <2>3
<1>13. \A f \in CopiedParts : CopyAt(n, f) \in Nat
  BY <1>5 DEF CopiedParts
<1> QED BY <1>6, <1>7, <1>8, <1>9, <1>11, <1>12, <1>13
\* The copies of the parts of a node become the parts of its copy.
CopyTo(n, k, N, P, Q) ==
  /\ N = Len(Copied(n)) /\ \A f \in Fields : PartAt(P, k, f) = <<>>
  /\ \A i \in Nat, f \in Fields : PartAt(Q, i, f) = IF i = k THEN expr_copy(n, f) ELSE PartAt(P, i, f)

LEMMA CopyForest ==
  ASSUME NEW E1, NEW L, NEW P, NEW R, NEW D, Forest(Names, Places(E1, L, P, R), D),
         NEW n, IsNode(n), ~Shares(n), NEW k \in Nat, NEW N, NEW Q, CopyTo(n, k, N, P, Q),
         p.made \in Nat, \A j \in 1..N : Id(j) \notin D
  PROVE  Forest(Names, Places(E1, L, Q, R), D \cup {Id(j) : j \in 1..N})
<1> DEFINE C  == Places(E1, L, P, R)
           C2 == Places(E1, L, Q, R)
           T  == {AtPart(k, f) : f \in Fields}
<1>1. PICK D2 : D2 = D \cup {Id(j) : j \in 1..N}
  OBVIOUS
<1>2. /\ N \in Nat
      /\ \A f \in CopiedParts : expr_copy(n, f) = [j \in DOMAIN n.part[f] |-> Id(CopyAt(n, f) + j)]
      /\ \A f \in CopiedParts : CopyAt(n, f) \in Nat
      /\ \A f \in Fields \ CopiedParts : expr_copy(n, f) = <<>>
      /\ \A f \in CopiedParts : \A j \in DOMAIN n.part[f] : CopyAt(n, f) + j \in 1..N
      /\ \A f, g \in CopiedParts : \A i \in DOMAIN n.part[f], j \in DOMAIN n.part[g] :
           CopyAt(n, f) + i = CopyAt(n, g) + j => f = g /\ i = j
      /\ \A i \in 1..N : \E f \in CopiedParts : \E j \in DOMAIN n.part[f] : i = CopyAt(n, f) + j
  BY ExprCopyIs DEF CopyTo
<1>3. CopiedParts \subseteq Fields
  BY FieldNames DEF CopiedParts
<1>4. T \subseteq Names
  BY NamesAre
<1>5. \A f \in Fields : C[AtPart(k, f)] = <<>>
  BY PlacesAre DEF CopyTo
<1>6. \A f \in Fields : C2[AtPart(k, f)] = expr_copy(n, f)
  BY PlacesAre DEF CopyTo
<1>7. ASSUME NEW y \in Names \ T PROVE C2[y] = C[y]
  <2>1. \A i \in Nat, f \in Fields : y = AtPart(i, f) => PartAt(Q, i, f) = PartAt(P, i, f)
    BY <1>7 DEF CopyTo
  <2> QED BY <2>1, PlaceSame
<1>8. \A f \in CopiedParts : DOMAIN expr_copy(n, f) = DOMAIN n.part[f]
  BY <1>2
<1>9. \A f \in CopiedParts : \A j \in DOMAIN n.part[f] : expr_copy(n, f)[j] = Id(CopyAt(n, f) + j)
  BY <1>2
<1>10. \A f \in Fields \ CopiedParts : DOMAIN expr_copy(n, f) = {}
  <2>1. PICK e : e = <<>> /\ DOMAIN e = {}
    <3>1. PICK e : e = <<>>
      OBVIOUS
    <3>2. DOMAIN e = {}
      BY <3>1
    <3> QED BY <3>1, <3>2
  <2> QED BY <1>2, <2>1
<1>11. \A i \in Nat, j \in Nat : Id(i) = Id(j) => i = j
  BY DEF Id
<1>12. ASSUME NEW f \in Fields PROVE expr_copy(n, f) \in Seq(D2)
  <2>1. CASE f \in CopiedParts
    <3>1. PICK v \in Seq(Nat) : v = n.part[f]
      BY DEF IsNode
    <3>2. PICK q : q = expr_copy(n, f)
      OBVIOUS
    <3>3. DOMAIN q = 1..Len(v) /\ Len(v) \in Nat
      BY <1>8, <2>1, <3>1, <3>2
    <3>4. \A j \in 1..Len(v) : q[j] \in D2
      BY <1>1, <1>2, <1>9, <2>1, <3>1, <3>2
    <3>5. q = [j \in 1..Len(v) |-> q[j]]
      BY <1>2, <2>1, <3>1, <3>2, <3>3
    <3>6. q \in Seq(D2)
      BY <3>3, <3>4, <3>5
    <3> QED BY <3>2, <3>6
  <2>2. CASE f \notin CopiedParts
    <3>1. PICK e : e = <<>>
      OBVIOUS
    <3>2. e \in Seq(D2)
      BY <3>1
    <3> QED BY <1>2, <2>2, <3>1, <3>2
  <2> QED BY <2>1, <2>2
<1> HIDE DEF C, C2
<1>13. \A x \in T : C[x] = <<>>
  BY <1>5
<1>14. \A x \in T : C2[x] \in Seq(D2)
  BY <1>6, <1>12
<1>15. Alone(C2, T)
  <2>1. ASSUME NEW f \in Fields, NEW g \in Fields, NEW i \in DOMAIN expr_copy(n, f),
               NEW j \in DOMAIN expr_copy(n, g), expr_copy(n, f)[i] = expr_copy(n, g)[j]
        PROVE  f = g /\ i = j
    <3>1. f \in CopiedParts /\ g \in CopiedParts
      BY <1>10, <2>1
    <3>2. i \in DOMAIN n.part[f] /\ j \in DOMAIN n.part[g]
      BY <1>8, <2>1, <3>1
    <3>3. Id(CopyAt(n, f) + i) = Id(CopyAt(n, g) + j)
      BY <1>9, <2>1, <3>1, <3>2
    <3>4. CopyAt(n, f) + i \in Nat /\ CopyAt(n, g) + j \in Nat
      BY <1>2, <3>1, <3>2
    <3> QED BY <1>2, <1>11, <3>1, <3>2, <3>3, <3>4
  <2>2. ASSUME NEW x \in T, NEW y \in T, NEW i \in DOMAIN C2[x], NEW j \in DOMAIN C2[y], C2[x][i] = C2[y][j]
        PROVE  x = y /\ i = j
    <3>1. PICK f \in Fields : x = AtPart(k, f)
      OBVIOUS
    <3>2. PICK g \in Fields : y = AtPart(k, g)
      OBVIOUS
    <3>3. C2[x] = expr_copy(n, f) /\ C2[y] = expr_copy(n, g)
      BY <1>6, <3>1, <3>2
    <3> QED BY <2>1, <2>2, <3>1, <3>2, <3>3
  <2> QED BY <2>2 DEF Alone
<1>16. ASSUME NEW d, IsAt(C2, T, d) PROVE d \notin D
  <2>1. PICK x \in T : \E i \in DOMAIN C2[x] : C2[x][i] = d
    BY <1>16 DEF IsAt
  <2>2. PICK f \in Fields : x = AtPart(k, f)
    OBVIOUS
  <2>3. PICK i \in DOMAIN expr_copy(n, f) : expr_copy(n, f)[i] = d
    BY <1>6, <2>1, <2>2
  <2>4. f \in CopiedParts
    BY <1>10, <2>3
  <2>5. d = Id(CopyAt(n, f) + i) /\ CopyAt(n, f) + i \in 1..N
    BY <1>2, <1>8, <1>9, <2>3, <2>4
  <2> QED BY <2>5
<1>17. ASSUME NEW d \in D2, d \notin D PROVE IsAt(C2, T, d)
  <2>1. PICK i \in 1..N : d = Id(i)
    BY <1>1, <1>17
  <2>2. PICK f \in CopiedParts : \E j \in DOMAIN n.part[f] : i = CopyAt(n, f) + j
    BY <1>2
  <2>3. PICK j \in DOMAIN n.part[f] : i = CopyAt(n, f) + j
    BY <2>2
  <2>4. j \in DOMAIN expr_copy(n, f) /\ expr_copy(n, f)[j] = d
    BY <1>8, <1>9, <2>1, <2>3
  <2>5. AtPart(k, f) \in T /\ C2[AtPart(k, f)] = expr_copy(n, f)
    BY <1>3, <1>6
  <2> HIDE DEF T
  <2> QED BY <2>4, <2>5 DEF IsAt
<1>18. D \subseteq D2
  BY <1>1
<1> HIDE DEF T
<1>19. Forest(Names, C2, D2)
  BY <1>4, <1>7, <1>13, <1>14, <1>15, <1>16, <1>17, <1>18, PutNew DEF C
<1> QED BY <1>1, <1>19 DEF C2
LEMMA CopyTrees ==
  ASSUME TypeInv, Tree, Copy, "shared" \notin odd'
  PROVE  Tree'
<1> DEFINE D == DOMAIN heap
           k == Head(copying)
           n == heap[k]
           m == Copied(n)
<1>1. /\ copying # <<>> /\ CanCopy /\ phase' = phase /\ s' = s /\ freeing' = freeing
      /\ odd' = IF Shares(n) THEN odd \cup {"shared"} ELSE odd
      /\ p' = [p EXCEPT !.made = @ + Len(m)]
  BY DEF Copy
<1>2. ~Shares(n)
  BY <1>1
<1>3. IsParser(p) /\ p.made \in Nat /\ IsHeap(heap, p.made) /\ copying \in Seq(D)
  BY MemoryIs
<1>4. p'.expr_stack = p.expr_stack /\ p'.stack = p.stack
  BY <1>1, <1>3 DEF IsParser
<1>5. Rest' = Rest
  BY <1>1 DEF Rest
<1>6. PICK c, N, ids : c = copying /\ N = Len(m) /\ ids = [j \in 1..Len(m) |-> Id(j)]
  OBVIOUS
<1>7. PICK h, c2 : /\ h = heap' /\ c2 = copying' /\ k \in D /\ IsNode(n) /\ m \in Seq(D)
                   /\ N \in Nat /\ p'.made = p.made + N
                   /\ DOMAIN h = D \cup {Id(j) : j \in 1..N}
                   /\ \A i \in D \ {k} : h[i] = heap[i]
                   /\ \A j \in 1..N : h[Id(j)] = heap[m[j]] /\ Id(j) \notin D /\ Id(j) \in Nat
                   /\ h[k].part = [f \in Fields |-> expr_copy(n, f)]
                   /\ c2 = Tail(c) \o ids
  BY <1>6, CopyMakes
<1>8. k \in Nat
  BY <1>3, <1>7 DEF IsHeap
<1>9. /\ IsInjective(c2) /\ k \in Range(c) /\ k \notin Range(c2)
      /\ \A i \in D : i # k => (i \in Range(c2) <=> i \in Range(c))
      /\ \A j \in 1..N : ids[j] \in Range(c2)
  <2>1. ids = [j \in 1..N |-> ids[j]] /\ \A j \in 1..N : ids[j] = Id(j)
    BY <1>6
  <2>2. \A i, j \in 1..N : ids[i] = ids[j] => i = j
    BY <1>3, <1>7, <2>1 DEF Id
  <2>3. \A j \in 1..N : ids[j] \notin D
    BY <1>7, <2>1
  <2>4. c \in Seq(D) /\ c # <<>> /\ IsInjective(c)
    BY <1>1, <1>3, <1>6 DEF Tree
  <2>5. k = Head(c)
    BY <1>6
  <2> HIDE DEF k, D
  <2>6. PICK v : v = Tail(c) \o ids /\ N \in Nat /\ v = c2
    BY <1>7
  <2>7. PICK S : S = D
    OBVIOUS
  <2>8. /\ IsInjective(v) /\ Head(c) \in Range(c) /\ Head(c) \notin Range(v)
        /\ \A i \in S : i # Head(c) => (i \in Range(v) <=> i \in Range(c))
        /\ \A j \in 1..N : ids[j] \in Range(v)
    <3>1. NewIds(ids, N, S)
      BY <2>1, <2>2, <2>3, <2>7 DEF NewIds
    <3>2. c \in Seq(S) /\ c # <<>> /\ IsInjective(c)
      BY <2>4, <2>7
    <3> QED BY <2>6, <3>1, <3>2, TailAndNew
  <2> QED BY <2>5, <2>6, <2>7, <2>8
<1>10. PICK P, Q : P = Parts(heap, c) /\ Q = Parts(h, c2)
  OBVIOUS
<1>11. Forest(Names, Places(p.expr_stack, p.stack, P, Rest), D) /\ \E r : Ranked(r, heap, p.made)
  BY <1>6, <1>10 DEF Tree
<1> HIDE DEF k, n, m, D
<1>12. \A i \in Nat, f \in Fields : PartAt(P, i, f) = IF i \in D /\ i \notin Range(c) THEN heap[i].part[f] ELSE <<>>
  BY <1>10, PartsAre DEF D
<1>13. \A i \in Nat, f \in Fields :
         PartAt(Q, i, f) = IF i \in DOMAIN h /\ i \notin Range(c2) THEN h[i].part[f] ELSE <<>>
  BY <1>10, PartsAre
<1>14. \A f \in Fields : PartAt(P, k, f) = <<>>
  BY <1>8, <1>9, <1>12
<1>15. ASSUME NEW i \in Nat, NEW f \in Fields
       PROVE  PartAt(Q, i, f) = IF i = k THEN expr_copy(n, f) ELSE PartAt(P, i, f)
  <2>1. CASE i = k
    <3>1. i \in DOMAIN h /\ i \notin Range(c2)
      BY <1>7, <1>9, <2>1
    <3>2. h[k].part[f] = expr_copy(n, f)
      BY <1>7
    <3> QED BY <1>13, <2>1, <3>1, <3>2
  <2>2. CASE i # k /\ i \in D
    <3>1. i \in DOMAIN h /\ h[i] = heap[i] /\ (i \in Range(c2) <=> i \in Range(c))
      BY <1>7, <1>9, <2>2
    <3> QED BY <1>12, <1>13, <2>2, <3>1
  <2>3. CASE i # k /\ i \notin D
    <3>1. PartAt(P, i, f) = <<>>
      BY <1>12, <2>3
    <3>2. i \in DOMAIN h => i \in Range(c2)
      <4>1. SUFFICES ASSUME i \in DOMAIN h PROVE i \in Range(c2)
        OBVIOUS
      <4>2. PICK j \in 1..N : i = Id(j)
        BY <1>7, <2>3, <4>1
      <4>3. ids[j] = Id(j)
        BY <1>6, <4>2
      <4> QED BY <1>9, <4>2, <4>3
    <3> QED BY <1>13, <2>3, <3>1, <3>2
  <2> QED BY <2>1, <2>2, <2>3
<1>16. CopyTo(n, k, N, P, Q)
  BY <1>6, <1>14, <1>15 DEF CopyTo, m
<1>17. Forest(Names, Places(p.expr_stack, p.stack, Q, Rest), D \cup {Id(j) : j \in 1..N})
  <2>1. \A j \in 1..N : Id(j) \notin D
    BY <1>7
  <2> QED BY <1>2, <1>3, <1>7, <1>8, <1>11, <1>16, <2>1, CopyForest
<1>18. Forest(Names, Places(p.expr_stack, p.stack, Parts(heap, copying), Rest)', DOMAIN heap')
  BY <1>4, <1>5, <1>7, <1>10, <1>17
<1>19. \E r : Ranked(r, heap', p'.made)
  <2>1. PICK h0 : h0 = [i \in D \cup {Id(j) : j \in 1..N} |-> IF i = k THEN n ELSE h[i]]
    OBVIOUS
  <2>2. \A j \in 1..N : ids[j] = Id(j)
    BY <1>6
  <2>3. CopiedTo(heap, m, ids, N, h0)
    <3>1. DOMAIN h0 = DOMAIN heap \cup {ids[j] : j \in 1..N}
      BY <2>1, <2>2 DEF D
    <3>2. \A i \in DOMAIN heap : h0[i].part = heap[i].part
      BY <1>7, <2>1 DEF D, n
    <3>3. ASSUME NEW j \in 1..N
          PROVE  m[j] \in DOMAIN heap /\ ids[j] \notin DOMAIN heap /\ h0[ids[j]].part = heap[m[j]].part
      <4>1. m[j] \in D
        BY <1>6, <1>7
      <4>2. Id(j) \notin D /\ Id(j) # k
        BY <1>7
      <4>3. h0[Id(j)] = h[Id(j)]
        BY <2>1, <4>2
      <4> QED BY <1>7, <2>2, <4>1, <4>2, <4>3 DEF D
    <3>4. \A i, j \in 1..N : ids[i] = ids[j] => i = j
      BY <1>3, <1>7, <2>2 DEF Id
    <3> QED BY <1>7, <3>1, <3>2, <3>3, <3>4 DEF CopiedTo
  <2>4. PICK r : Ranked(r, h0, p.made) /\ \A j \in 1..N : r[ids[j]] = r[m[j]]
    <3>1. PICK o : o = m
      OBVIOUS
    <3>2. \E r : Ranked(r, h0, p.made) /\ \A j \in 1..N : r[ids[j]] = r[o[j]]
      BY <1>11, <2>3, <3>1, RankCopied DEF D
    <3> QED BY <3>1, <3>2
  <2>5. DOMAIN h0 = DOMAIN h
    BY <1>7, <2>1
  <2>6. ASSUME NEW i \in DOMAIN h, i # k
        PROVE  /\ r[i] \in Nat /\ r[i] <= p.made + N
               /\ \A f \in Fields : \A j \in DOMAIN h[i].part[f] :
                    h[i].part[f][j] \in DOMAIN h /\ r[h[i].part[f][j]] < r[i]
    <3>1. h0[i] = h[i]
      BY <1>7, <2>1, <2>6
    <3>2. PICK a \in Nat : a = r[i] /\ a <= p.made
      BY <2>4, <2>5, <2>6 DEF Ranked
    <3>3. a <= p.made + N
      BY <1>3, <1>7, <3>2
    <3> QED BY <2>4, <2>5, <3>1, <3>2, <3>3 DEF Ranked
  <2>7. k \in DOMAIN h /\ h0[k] = n
    BY <1>7, <2>1
  <2>8. r[k] \in Nat /\ r[k] <= p.made + N
    <3>1. PICK a \in Nat : a = r[k] /\ a <= p.made
      BY <2>4, <2>5, <2>7 DEF Ranked
    <3> QED BY <1>3, <1>7, <3>1
  <2>9. ASSUME NEW f \in Fields, NEW j \in DOMAIN h[k].part[f]
        PROVE  h[k].part[f][j] \in DOMAIN h /\ r[h[k].part[f][j]] < r[k]
    <3>1. h[k].part[f] = expr_copy(n, f)
      BY <1>7
    <3>2. CASE f \in CopiedParts
      <4>1. /\ expr_copy(n, f) = [i \in DOMAIN n.part[f] |-> Id(CopyAt(n, f) + i)]
            /\ \A i \in DOMAIN n.part[f] : CopyAt(n, f) + i \in 1..N /\ m[CopyAt(n, f) + i] = n.part[f][i]
        BY <1>2, <1>6, <1>7, <3>2, ExprCopyIs DEF m
      <4>2. j \in DOMAIN n.part[f] /\ h[k].part[f][j] = Id(CopyAt(n, f) + j)
        BY <2>9, <3>1, <4>1
      <4>3. PICK i \in 1..N : i = CopyAt(n, f) + j /\ m[i] = n.part[f][j]
        BY <4>1, <4>2
      <4>4. r[Id(i)] = r[n.part[f][j]]
        BY <2>2, <2>4, <4>3
      <4>5. r[n.part[f][j]] < r[k]
        BY <2>4, <2>5, <2>7, <4>2 DEF Ranked
      <4>6. Id(i) \in DOMAIN h
        BY <1>7
      <4> QED BY <4>2, <4>3, <4>4, <4>5, <4>6
    <3>3. CASE f \notin CopiedParts
      <4>1. PICK e : e = <<>> /\ DOMAIN e = {}
        <5>1. PICK e : e = <<>>
          OBVIOUS
        <5>2. DOMAIN e = {}
          BY <5>1
        <5> QED BY <5>1, <5>2
      <4>2. expr_copy(n, f) = e
        BY <1>2, <1>6, <1>7, <3>3, <4>1, ExprCopyIs DEF m
      <4> QED BY <2>9, <3>1, <4>1, <4>2
    <3> QED BY <3>2, <3>3
  <2>10. Ranked(r, h, p.made + N)
    BY <2>6, <2>8, <2>9 DEF Ranked
  <2> QED BY <1>7, <2>10
<1>20. IsInjective(copying')
  BY <1>7, <1>9
<1> QED BY <1>18, <1>19, <1>20 DEF Tree

-----------------------------------------------------------------------------
(* Freeing. *)

\* The parts, but for some of one node.
Without(P, k, F) ==
  [i \in DOMAIN P |-> IF i = k THEN [f \in Fields |-> IF f \in F THEN <<>> ELSE P[i][f]] ELSE P[i]]

LEMMA WithoutIs ==
  ASSUME NEW P, NEW k, NEW F, NEW i, NEW f \in Fields
  PROVE  PartAt(Without(P, k, F), i, f) = IF i = k /\ f \in F THEN <<>> ELSE PartAt(P, i, f)
BY DEF Without, PartAt

\* A part of a node is to be freed.
JoinTo(C, x, y, C2) == /\ x # y /\ C2[x] = C[x] \o C[y] /\ C2[y] = <<>>
                       /\ \A z \in Names \ {x, y} : C2[z] = C[z]

LEMMA JoinForest ==
  ASSUME NEW C, NEW D, Forest(Names, C, D), NEW x \in Names, NEW y \in Names, NEW C2, JoinTo(C, x, y, C2)
  PROVE  Forest(Names, C2, D)
BY JoinedTo DEF JoinTo

FreedPart(P, k, f, F, G, R, S) ==
  f \in Fields /\ f \notin F /\ G = F \cup {f} /\ S = R \o PartAt(P, k, f)

LEMMA PartFreed ==
  ASSUME NEW E1, NEW L, NEW P, NEW R, NEW D, NEW k \in Nat, NEW F,
         Forest(Names, Places(E1, L, Without(P, k, F), R), D), NEW f, NEW G, NEW S, FreedPart(P, k, f, F, G, R, S)
  PROVE  Forest(Names, Places(E1, L, Without(P, k, G), S), D)
<1>1. PICK Q1, Q2 : Q1 = Without(P, k, F) /\ Q2 = Without(P, k, G)
  OBVIOUS
<1>2. f \in Fields /\ f \notin F /\ G = F \cup {f} /\ S = R \o PartAt(P, k, f)
  BY DEF FreedPart
<1> DEFINE C  == Places(E1, L, Q1, R)
           C2 == Places(E1, L, Q2, S)
<1>3. PartAt(Q1, k, f) = PartAt(P, k, f) /\ PartAt(Q2, k, f) = <<>>
  BY <1>1, <1>2, WithoutIs
<1>4. \A i \in Nat, g \in Fields : ~(i = k /\ g = f) => PartAt(Q2, i, g) = PartAt(Q1, i, g)
  BY <1>1, <1>2, WithoutIs
<1>5. AtRoot \in Names /\ AtPart(k, f) \in Names /\ AtRoot # AtPart(k, f)
  BY <1>2, NamesAre, NamesDiffer
<1>6. C[AtRoot] = R /\ C2[AtRoot] = S
  BY PlacesAre
<1>7. C[AtPart(k, f)] = PartAt(P, k, f) /\ C2[AtPart(k, f)] = <<>>
  BY <1>2, <1>3, PlacesAre
<1>8. ASSUME NEW y \in Names \ {AtRoot, AtPart(k, f)} PROVE C2[y] = C[y]
  <2>1. \A i \in Nat, g \in Fields : y = AtPart(i, g) => PartAt(Q2, i, g) = PartAt(Q1, i, g)
    BY <1>4, <1>8
  <2> QED BY <1>8, <2>1, PlaceSame
<1>9. Forest(Names, C, D)
  BY <1>1
<1> HIDE DEF C, C2
<1>10. JoinTo(C, AtRoot, AtPart(k, f), C2)
  BY <1>2, <1>5, <1>6, <1>7, <1>8 DEF JoinTo
<1>11. Forest(Names, C2, D)
  BY <1>5, <1>9, <1>10, JoinForest
<1> QED BY <1>1, <1>11 DEF C2

\* The order in which expr_free and stmt_free call themselves.
LEMMA NodeFreed ==
  ASSUME NEW E1, NEW L, NEW P, NEW R, NEW D, Forest(Names, Places(E1, L, P, R), D), NEW k \in Nat,
         NEW n, \A f \in Fields : PartAt(P, k, f) = n.part[f]
  PROVE  Forest(Names, Places(E1, L, Without(P, k, Fields), R \o expr_free(n) \o stmt_free(n)), D)
<1>1. /\ "inner" \in Fields /\ "index" \in Fields /\ "elif" \in Fields /\ "argv" \in Fields
      /\ "lambda" \in Fields /\ "init" \in Fields /\ "expr" \in Fields /\ "guard" \in Fields
      /\ "true_case" \in Fields /\ "false_case" \in Fields /\ "block" \in Fields
  BY FieldNames
<1>2. R \in Seq(D) /\ \A f \in Fields : n.part[f] \in Seq(D)
  BY PartsIn
<1>3. PICK v1, v2, v3, v4, v5 \in Seq(D) :
        /\ v1 = n.part["inner"] /\ v1 = PartAt(P, k, "inner")
        /\ v2 = n.part["index"] /\ v2 = PartAt(P, k, "index")
        /\ v3 = n.part["elif"] /\ v3 = PartAt(P, k, "elif")
        /\ v4 = n.part["argv"] /\ v4 = PartAt(P, k, "argv")
        /\ v5 = n.part["lambda"] /\ v5 = PartAt(P, k, "lambda")
  BY <1>1, <1>2
<1>4. PICK w1, w2, w3, w4, w5, w6 \in Seq(D) :
        /\ w1 = n.part["init"] /\ w1 = PartAt(P, k, "init")
        /\ w2 = n.part["expr"] /\ w2 = PartAt(P, k, "expr")
        /\ w3 = n.part["guard"] /\ w3 = PartAt(P, k, "guard")
        /\ w4 = n.part["true_case"] /\ w4 = PartAt(P, k, "true_case")
        /\ w5 = n.part["false_case"] /\ w5 = PartAt(P, k, "false_case")
        /\ w6 = n.part["block"] /\ w6 = PartAt(P, k, "block")
  BY <1>1, <1>2
<1>5. PICK G0, G1, G2, G3, G4, G5, G6, G7, G8, G9, G10, G11 :
        /\ G0 = {}
        /\ G1 = {"inner"}
        /\ G2 = {"inner", "index"}
        /\ G3 = {"inner", "index", "elif"}
        /\ G4 = {"inner", "index", "elif", "argv"}
        /\ G5 = {"inner", "index", "elif", "argv", "lambda"}
        /\ G6 = {"inner", "index", "elif", "argv", "lambda", "init"}
        /\ G7 = {"inner", "index", "elif", "argv", "lambda", "init", "expr"}
        /\ G8 = {"inner", "index", "elif", "argv", "lambda", "init", "expr", "guard"}
        /\ G9 = {"inner", "index", "elif", "argv", "lambda", "init", "expr", "guard", "true_case"}
        /\ G10 = {"inner", "index", "elif", "argv", "lambda", "init", "expr", "guard", "true_case", "false_case"}
        /\ G11 = {"inner", "index", "elif", "argv", "lambda", "init", "expr", "guard", "true_case", "false_case", "block"}
  OBVIOUS
<1>6. PICK R1, R2, R3, R4, R5, R6, R7, R8, R9, R10, R11 :
        /\ R1 = R \o v1
        /\ R2 = R1 \o v2
        /\ R3 = R2 \o v3
        /\ R4 = R3 \o v4
        /\ R5 = R4 \o v5
        /\ R6 = R5 \o w1
        /\ R7 = R6 \o w2
        /\ R8 = R7 \o w3
        /\ R9 = R8 \o w4
        /\ R10 = R9 \o w5
        /\ R11 = R10 \o w6
  OBVIOUS
<1>7. Forest(Names, Places(E1, L, Without(P, k, G0), R), D)
  <2>1. \A i \in Nat, f \in Fields : PartAt(Without(P, k, G0), i, f) = PartAt(P, i, f)
    BY <1>5, WithoutIs
  <2> QED BY <2>1, PlacesLike
<1>8. Forest(Names, Places(E1, L, Without(P, k, G1), R1), D)
  <2>1. FreedPart(P, k, "inner", G0, G1, R, R1)
    <3>1. "inner" \notin G0 /\ G1 = G0 \cup {"inner"}
      BY <1>5
    <3> QED BY <1>1, <1>3, <1>6, <3>1 DEF FreedPart
  <2> QED BY <1>7, <2>1, PartFreed
<1>9. Forest(Names, Places(E1, L, Without(P, k, G2), R2), D)
  <2>1. FreedPart(P, k, "index", G1, G2, R1, R2)
    <3>1. "index" \notin G1 /\ G2 = G1 \cup {"index"}
      BY <1>5
    <3> QED BY <1>1, <1>3, <1>6, <3>1 DEF FreedPart
  <2> QED BY <1>8, <2>1, PartFreed
<1>10. Forest(Names, Places(E1, L, Without(P, k, G3), R3), D)
  <2>1. FreedPart(P, k, "elif", G2, G3, R2, R3)
    <3>1. "elif" \notin G2 /\ G3 = G2 \cup {"elif"}
      BY <1>5
    <3> QED BY <1>1, <1>3, <1>6, <3>1 DEF FreedPart
  <2> QED BY <1>9, <2>1, PartFreed
<1>11. Forest(Names, Places(E1, L, Without(P, k, G4), R4), D)
  <2>1. FreedPart(P, k, "argv", G3, G4, R3, R4)
    <3>1. "argv" \notin G3 /\ G4 = G3 \cup {"argv"}
      BY <1>5
    <3> QED BY <1>1, <1>3, <1>6, <3>1 DEF FreedPart
  <2> QED BY <1>10, <2>1, PartFreed
<1>12. Forest(Names, Places(E1, L, Without(P, k, G5), R5), D)
  <2>1. FreedPart(P, k, "lambda", G4, G5, R4, R5)
    <3>1. "lambda" \notin G4 /\ G5 = G4 \cup {"lambda"}
      BY <1>5
    <3> QED BY <1>1, <1>3, <1>6, <3>1 DEF FreedPart
  <2> QED BY <1>11, <2>1, PartFreed
<1>13. Forest(Names, Places(E1, L, Without(P, k, G6), R6), D)
  <2>1. FreedPart(P, k, "init", G5, G6, R5, R6)
    <3>1. "init" \notin G5 /\ G6 = G5 \cup {"init"}
      BY <1>5
    <3> QED BY <1>1, <1>4, <1>6, <3>1 DEF FreedPart
  <2> QED BY <1>12, <2>1, PartFreed
<1>14. Forest(Names, Places(E1, L, Without(P, k, G7), R7), D)
  <2>1. FreedPart(P, k, "expr", G6, G7, R6, R7)
    <3>1. "expr" \notin G6 /\ G7 = G6 \cup {"expr"}
      BY <1>5
    <3> QED BY <1>1, <1>4, <1>6, <3>1 DEF FreedPart
  <2> QED BY <1>13, <2>1, PartFreed
<1>15. Forest(Names, Places(E1, L, Without(P, k, G8), R8), D)
  <2>1. FreedPart(P, k, "guard", G7, G8, R7, R8)
    <3>1. "guard" \notin G7 /\ G8 = G7 \cup {"guard"}
      BY <1>5
    <3> QED BY <1>1, <1>4, <1>6, <3>1 DEF FreedPart
  <2> QED BY <1>14, <2>1, PartFreed
<1>16. Forest(Names, Places(E1, L, Without(P, k, G9), R9), D)
  <2>1. FreedPart(P, k, "true_case", G8, G9, R8, R9)
    <3>1. "true_case" \notin G8 /\ G9 = G8 \cup {"true_case"}
      BY <1>5
    <3> QED BY <1>1, <1>4, <1>6, <3>1 DEF FreedPart
  <2> QED BY <1>15, <2>1, PartFreed
<1>17. Forest(Names, Places(E1, L, Without(P, k, G10), R10), D)
  <2>1. FreedPart(P, k, "false_case", G9, G10, R9, R10)
    <3>1. "false_case" \notin G9 /\ G10 = G9 \cup {"false_case"}
      BY <1>5
    <3> QED BY <1>1, <1>4, <1>6, <3>1 DEF FreedPart
  <2> QED BY <1>16, <2>1, PartFreed
<1>18. Forest(Names, Places(E1, L, Without(P, k, G11), R11), D)
  <2>1. FreedPart(P, k, "block", G10, G11, R10, R11)
    <3>1. "block" \notin G10 /\ G11 = G10 \cup {"block"}
      BY <1>5
    <3> QED BY <1>1, <1>4, <1>6, <3>1 DEF FreedPart
  <2> QED BY <1>17, <2>1, PartFreed
<1>19. G11 = Fields
  BY <1>5 DEF Fields
<1>20. R5 = R \o expr_free(n) /\ R5 \in Seq(D)
  <2>1. PICK v : v = v1 \o v2 \o v3 \o v4 \o v5
    OBVIOUS
  <2>2. R \o v = R \o v1 \o v2 \o v3 \o v4 \o v5 /\ v \in Seq(D)
    <3>1. AllInRow(D, R, v1, v2, v3, v4, v5, v)
      BY <1>2, <2>1, Joins
    <3> QED BY <3>1 DEF AllInRow
  <2>3. expr_free(n) = v
    BY <1>3, <2>1 DEF expr_free
  <2>4. R \o v \in Seq(D)
    BY <1>2, <2>2, ConcatProperties
  <2> QED BY <1>6, <2>2, <2>3, <2>4
<1>21. R11 = R5 \o stmt_free(n)
  <2>1. PICK w : w = w1 \o w2 \o w3 \o w4 \o w5
    OBVIOUS
  <2>2. R5 \o w = R5 \o w1 \o w2 \o w3 \o w4 \o w5 /\ w \in Seq(D)
    <3>1. AllInRow(D, R5, w1, w2, w3, w4, w5, w)
      BY <1>20, <2>1, Joins
    <3> QED BY <3>1 DEF AllInRow
  <2>3. (R5 \o w) \o w6 = R5 \o (w \o w6)
    <3>1. InRow(R5, w, w6)
      BY <1>20, <2>2, Associative
    <3> QED BY <3>1 DEF InRow
  <2>4. stmt_free(n) = w \o w6
    BY <1>4, <2>1 DEF stmt_free
  <2> QED BY <1>6, <2>2, <2>3, <2>4
<1> QED BY <1>18, <1>19, <1>20, <1>21

LEMMA FreeTrees ==
  ASSUME TypeInv, Tree, Free
  PROVE  Tree'
<1> DEFINE D == DOMAIN heap
           k == Head(freeing)
           n == heap[k]
<1>1. freeing # <<>> /\ k \in D /\ p' = p /\ copying' = copying /\ phase' = phase /\ s' = s
  BY DEF Free
<1>2. IsParser(p) /\ p.made \in Nat /\ IsHeap(heap, p.made) /\ copying = <<>> /\ phase # "done"
  BY <1>1, MemoryIs
<1>3. Rest = freeing /\ Rest' = freeing'
  BY <1>1, <1>2 DEF Rest
<1>4. PICK h : /\ h = heap' /\ DOMAIN h = D \ {k} /\ \A i \in D \ {k} : h[i] = heap[i]
               /\ freeing' = Tail(freeing) \o expr_free(n) \o stmt_free(n)
  BY FreeIs
<1>5. k \in Nat
  BY <1>1, <1>2 DEF IsHeap
<1>6. PICK P, E1, L : P = Parts(heap, <<>>) /\ E1 = p.expr_stack /\ L = p.stack
  OBVIOUS
<1>7. Forest(Names, Places(E1, L, P, freeing), D) /\ \E r : Ranked(r, heap, p.made)
  BY <1>2, <1>3, <1>6 DEF Tree
<1>8. \A i \in Nat, f \in Fields : PartAt(P, i, f) = IF i \in D THEN heap[i].part[f] ELSE <<>>
  <2>1. PICK e : e = <<>>
    OBVIOUS
  <2>2. Range(e) = {}
    BY <2>1 DEF Range
  <2>3. \A i \in Nat, f \in Fields : PartAt(Parts(heap, e), i, f) = IF i \in D THEN heap[i].part[f] ELSE <<>>
    BY <2>2, PartsAre
  <2> QED BY <1>6, <2>1, <2>3
<1> HIDE DEF n, D
<1>9. Forest(Names, Places(E1, L, P, Tail(freeing)), D \ {k})
  <2>1. PICK R, t : R = freeing /\ t = Tail(R)
    OBVIOUS
  <2> DEFINE C  == Places(E1, L, P, R)
             C2 == Places(E1, L, P, t)
  <2>2. C[AtRoot] = R /\ C2[AtRoot] = t
    BY PlacesAre
  <2>3. \A y \in Names \ {AtRoot} : C2[y] = C[y]
    BY PlaceSame
  <2>4. AtRoot \in Names /\ Forest(Names, C, D)
    BY <1>7, <2>1, NamesAre
  <2> HIDE DEF C, C2
  <2>5. C[AtRoot] # <<>> /\ C2[AtRoot] = Tail(C[AtRoot]) /\ k = Head(C[AtRoot])
    BY <1>1, <2>1, <2>2
  <2> HIDE DEF k
  <2>6. Forest(Names, C2, D \ {k})
    BY <2>3, <2>4, <2>5, HeadGone
  <2> QED BY <2>1, <2>6 DEF C2
<1> HIDE DEF k
<1>10. \A f \in Fields : PartAt(P, k, f) = n.part[f]
  BY <1>1, <1>5, <1>8 DEF n
<1>11. Forest(Names, Places(E1, L, Without(P, k, Fields), freeing'), D \ {k})
  BY <1>4, <1>5, <1>9, <1>10, NodeFreed
<1>12. PICK Q : Q = Parts(h, <<>>)
  OBVIOUS
<1>13. ASSUME NEW i \in Nat, NEW f \in Fields
       PROVE  /\ PartAt(Q, i, f) = PartAt(Without(P, k, Fields), i, f)
              /\ i \in DOMAIN h => PartAt(Q, i, f) = h[i].part[f]
  <2>1. PartAt(Q, i, f) = IF i \in DOMAIN h THEN h[i].part[f] ELSE <<>>
    <3>1. PICK e : e = <<>>
      OBVIOUS
    <3>2. Range(e) = {}
      BY <3>1 DEF Range
    <3> QED BY <1>12, <3>1, <3>2, PartsAre
  <2>2. PartAt(Without(P, k, Fields), i, f) = IF i = k THEN <<>> ELSE PartAt(P, i, f)
    BY WithoutIs
  <2>3. CASE i \in DOMAIN h
    BY <1>4, <1>8, <2>1, <2>2, <2>3
  <2>4. CASE i \notin DOMAIN h
    BY <1>4, <1>8, <2>1, <2>2, <2>4
  <2> QED BY <2>3, <2>4
<1>14. Forest(Names, Places(E1, L, Q, freeing'), D \ {k})
  BY <1>11, <1>13, PlacesLike
<1>15. Forest(Names, Places(p.expr_stack, p.stack, Parts(heap, copying), Rest)', DOMAIN heap')
  BY <1>1, <1>2, <1>3, <1>4, <1>6, <1>12, <1>14
<1>16. \E r : Ranked(r, h, p.made)
  <2>1. PICK r : Ranked(r, heap, p.made)
    BY <1>7
  <2>2. ASSUME NEW i \in DOMAIN h
        PROVE  /\ r[i] \in Nat /\ r[i] <= p.made
               /\ \A f \in Fields : \A j \in DOMAIN h[i].part[f] :
                    h[i].part[f][j] \in DOMAIN h /\ r[h[i].part[f][j]] < r[i]
    <3>1. i \in DOMAIN heap /\ h[i] = heap[i] /\ i \in Nat
      BY <1>2, <1>4 DEF D, IsHeap
    <3>2. ASSUME NEW f \in Fields, NEW j \in DOMAIN h[i].part[f]
          PROVE  h[i].part[f][j] \in DOMAIN h
      <4>1. h[i].part[f] \in Seq(D \ {k})
        BY <1>13, <1>14, <3>1, PartsIn
      <4> QED BY <1>4, <3>2, <4>1
    <3> QED BY <2>1, <3>1, <3>2 DEF Ranked
  <2>3. Ranked(r, h, p.made)
    BY <2>2 DEF Ranked
  <2> QED BY <2>3
<1>17. \E r : Ranked(r, heap', p'.made)
  BY <1>1, <1>4, <1>16
<1>18. IsInjective(copying')
  BY <1>1 DEF Tree
<1> QED BY <1>15, <1>17, <1>18 DEF Tree

-----------------------------------------------------------------------------
(* The steps that move no node. *)

LEMMA TreeSame ==
  ASSUME Tree, heap' = heap, copying' = copying, Rest' = Rest, p'.made = p.made,
         p'.expr_stack = p.expr_stack, \A k \in Nat : ListAt(p'.stack, k) = ListAt(p.stack, k)
  PROVE  Tree'
<1>1. PICK E1, L, M, P, R, D : /\ E1 = p.expr_stack /\ L = p.stack /\ M = p'.stack
                               /\ P = Parts(heap, copying) /\ R = Rest /\ D = DOMAIN heap
  OBVIOUS
<1>2. Forest(Names, Places(E1, L, P, R), D) /\ IsInjective(copying) /\ \E r : Ranked(r, heap, p.made)
  BY <1>1 DEF Tree
<1>3. \A i \in Nat, f \in Fields : PartAt(P, i, f) = PartAt(P, i, f)
  OBVIOUS
<1>4. Forest(Names, Places(E1, M, P, R), D)
  BY <1>1, <1>2, <1>3, PlacesLike
<1>5. Forest(Names, Places(p.expr_stack, p.stack, Parts(heap, copying), Rest)', DOMAIN heap')
  BY <1>1, <1>4
<1> QED BY <1>2, <1>5 DEF Tree

LEMMA NotingTrees ==
  ASSUME TypeInv, Tree,
         EndFirst \/ EndNext \/ BeginFunc \/ Enter \/ EndRettype \/ EndArg \/ EndExtends \/ IncludeFails
  PROVE  Tree'
<1>1. /\ heap' = heap /\ copying' = copying /\ freeing' = freeing /\ s' = s /\ phase' = phase
  BY DEF EndFirst, EndNext, BeginFunc, Enter, EndRettype, EndArg, EndExtends, IncludeFails, calls, Called
<1>2. IsParser(p) /\ p.stack \in Seq(Seq(Nat))
  BY MemoryIs DEF IsParser
<1>3. /\ p'.made = p.made /\ p'.expr_stack = p.expr_stack
      /\ p'.stack = p.stack \/ p'.stack = Append(p.stack, <<>>)
  <2>1. CASE EndFirst \/ EndNext
    BY <1>2, <2>1 DEF EndFirst, EndNext, IsParser
  <2>2. CASE BeginFunc
    BY <1>2, <2>2 DEF BeginFunc, IsParser
  <2>3. CASE Enter
    BY <1>2, <2>3 DEF Enter, IsParser
  <2>4. CASE EndRettype
    BY <1>2, <2>4 DEF EndRettype, IsParser
  <2>5. CASE EndArg
    BY <1>2, <2>5 DEF EndArg, IsParser
  <2>6. CASE EndExtends \/ IncludeFails
    BY <1>2, <2>6 DEF EndExtends, IncludeFails, IsParser
  <2> QED BY <2>1, <2>2, <2>3, <2>4, <2>5, <2>6
<1>4. \A k \in Nat : ListAt(p'.stack, k) = ListAt(p.stack, k)
  BY <1>2, <1>3, ListOpened
<1>5. Rest' = Rest
  BY <1>1 DEF Rest
<1> QED BY <1>1, <1>3, <1>4, <1>5, TreeSame

LEMMA ReadingTrees ==
  ASSUME TypeInv, Tree, Expand \/ Read \/ ReadAgain \/ InternalError \/ UNCHANGED vars
  PROVE  Tree'
<1>1. /\ heap' = heap /\ p' = p /\ copying' = copying /\ freeing' = freeing /\ s' = s
      /\ phase' = phase \/ (phase' = "internal" /\ phase = "parse")
  BY DEF Expand, Read, ReadAgain, InternalError, vars, calls, Idle
<1>2. Rest' = Rest
  BY <1>1 DEF Rest
<1> QED BY <1>1, <1>2, TreeSame

LEMMA IncludeTrees ==
  ASSUME TypeInv, Tree, EnterInclude \/ LeaveInclude
  PROVE  Tree'
<1>1. PICK file, inc : /\ heap' = heap /\ copying' = copying /\ freeing' = freeing
                       /\ s' = [s EXCEPT !.source_file = file]
                       /\ p' = [p EXCEPT !.include = inc] /\ phase' = phase
  BY DEF EnterInclude, LeaveInclude, calls, Called
<1>2. p'.made = p.made /\ p'.expr_stack = p.expr_stack /\ p'.stack = p.stack
  BY <1>1, MemoryIs DEF IsParser
<1>3. s'.script = s.script
  BY <1>1, ScriptSame
<1>4. Rest' = Rest
  BY <1>1, <1>3 DEF Rest
<1>5. \A k \in Nat : ListAt(p'.stack, k) = ListAt(p.stack, k)
  BY <1>2
<1> QED BY <1>1, <1>2, <1>4, <1>5, TreeSame

-----------------------------------------------------------------------------
(* The end of the parse: what is left in the topmost list is to be freed, or  *)
(* is the script.                                                             *)

LEMMA LeavingTree ==
  ASSUME TypeInv, Tree, phase = "parse", freeing = <<>>, heap' = heap, copying' = copying,
         p'.expr_stack = p.expr_stack, p'.stack = Front(p.stack), p'.made = p.made, Rest' = FreedList
  PROVE  Tree'
<1>1. PICK E1, P, D : E1 = p.expr_stack /\ P = Parts(heap, copying) /\ D = DOMAIN heap
  OBVIOUS
<1>2. Rest = <<>>
  BY DEF Rest
<1>3. Forest(Names, Places(E1, p.stack, P, <<>>), D) /\ IsInjective(copying) /\ \E r : Ranked(r, heap, p.made)
  BY <1>1, <1>2 DEF Tree
<1>4. Forest(Names, Places(E1, Front(p.stack), P, FreedList), D)
  BY <1>3, ListFreed, MemoryIs
<1>5. Forest(Names, Places(p.expr_stack, p.stack, Parts(heap, copying), Rest)', DOMAIN heap')
  BY <1>1, <1>4
<1> QED BY <1>3, <1>5 DEF Tree

\* A parse that ends has one list left.
LEMMA OneList ==
  ASSUME TypeInv, phase = "parse", goal = <<>>
  PROVE  p.stack # <<>>
<1>1. Balanced(p, goal)
  BY MemoryIs DEF StackInv, Balance
<1>2. Total("lists", goal) = 0
  BY TotalOfNone
<1>3. Len(p.stack) + 0 = 1
  BY <1>1, <1>2, Zenon DEF Balanced
<1>4. Len(<<>>) = 0
  OBVIOUS
<1> QED BY <1>3, <1>4

LEMMA EndingTrees ==
  ASSUME TypeInv, Tree, SyntaxError \/ Finish \/ FreeScript
  PROVE  Tree'
<1>1. IsParser(p) /\ heap' = heap /\ copying' = copying
  BY MemoryIs DEF SyntaxError, Finish, FreeScript
<1>2. CASE SyntaxError
  <2>1. phase = "parse" /\ freeing = <<>> /\ phase' = "failed" /\ freeing' = FreedList
    BY <1>2 DEF SyntaxError, At, Idle
  <2>2. p'.expr_stack = p.expr_stack /\ p'.stack = Front(p.stack) /\ p'.made = p.made
    <3>1. PICK F : F = Front(p.stack)
      OBVIOUS
    <3>2. p' = [[p EXCEPT !.stack = F] EXCEPT !.parser_error = @ + 1]
      BY <1>2, <3>1 DEF SyntaxError, LeaveList
    <3> QED BY <1>1, <3>1, <3>2 DEF IsParser
  <2>3. Rest' = FreedList
    BY <2>1 DEF Rest
  <2> QED BY <1>1, <2>1, <2>2, <2>3, LeavingTree
<1>3. CASE Finish
  <2>1. phase = "parse" /\ freeing = <<>> /\ goal = <<>> /\ p' = LeaveList(p)
    BY <1>3 DEF Finish, Idle
  <2>2. p'.expr_stack = p.expr_stack /\ p'.stack = Front(p.stack) /\ p'.made = p.made
    BY <1>1, <2>1 DEF LeaveList, IsParser
  <2>3. Rest' = FreedList
    <3>1. CASE p.parser_error > 0
      <4>1. phase' = "failed" /\ freeing' = FreedList
        BY <1>3, <3>1 DEF Finish
      <4> QED BY <4>1 DEF Rest
    <3>2. CASE ~(p.parser_error > 0)
      <4>1. phase' = "done" /\ s' = [s EXCEPT !.script = List]
        BY <1>3, <3>2 DEF Finish
      <4>2. p.stack # <<>>
        BY <2>1, OneList
      <4>3. FreedList = List
        BY <4>2 DEF FreedList
      <4>4. s'.script = List
        BY <4>1, MemoryIs
      <4> QED BY <4>1, <4>3, <4>4 DEF Rest
    <3> QED BY <3>1, <3>2
  <2> QED BY <1>1, <2>1, <2>2, <2>3, LeavingTree
<1>4. CASE FreeScript
  <2>1. phase = "done" /\ phase' = "freed" /\ freeing' = s.script /\ p' = p
    BY <1>4 DEF FreeScript
  <2>2. Rest' = Rest
    BY <2>1 DEF Rest
  <2> QED BY <1>1, <2>1, <2>2, TreeSame
<1> QED BY <1>2, <1>3, <1>4

-----------------------------------------------------------------------------
(* Every step keeps the forest, unless it shares a node. *)

LEMMA OddGrows ==
  ASSUME [Next]_vars
  PROVE  odd \subseteq odd'
<1>1. CASE Expand \/ Read \/ ReadAgain \/ SyntaxError \/ InternalError \/ Copy \/ Free \/ UNCHANGED vars
  BY <1>1 DEF Expand, Read, ReadAgain, SyntaxError, InternalError, Copy, Free, vars
<1>2. CASE EndExpr \/ EndFirst \/ EndNext \/ EndKeyarraySingle \/ EndOpAssign \/ BeginFunc \/ EndLambda
           \/ Enter \/ EndStmt \/ EndIf \/ EndCase
  BY <1>2 DEF EndExpr, EndFirst, EndNext, EndKeyarraySingle, EndOpAssign, BeginFunc, EndLambda, Enter,
              EndStmt, EndIf, EndCase
<1>3. CASE EndRettype \/ EndArg \/ EndFunc \/ EndExtends \/ EnterInclude \/ IncludeFails \/ LeaveInclude
           \/ Finish \/ FreeScript
  BY <1>3 DEF EndRettype, EndArg, EndFunc, EndExtends, EnterInclude, IncludeFails, LeaveInclude, Finish,
              FreeScript
<1> QED BY <1>1, <1>2, <1>3 DEF Next

LEMMA TreeHolds ==
  ASSUME TypeInv, Tree, [Next]_vars, "shared" \notin odd'
  PROVE  Tree'
<1>1. CASE Expand \/ Read \/ ReadAgain \/ InternalError \/ UNCHANGED vars
  BY <1>1, ReadingTrees
<1>2. CASE EnterInclude \/ LeaveInclude
  BY <1>2, IncludeTrees
<1>3. CASE EndFirst \/ EndNext \/ BeginFunc \/ Enter \/ EndRettype \/ EndArg \/ EndExtends \/ IncludeFails
  BY <1>3, NotingTrees
<1>4. CASE SyntaxError \/ Finish \/ FreeScript
  BY <1>4, EndingTrees
<1>5. CASE EndExpr
  BY <1>5, EndExprTrees
<1>6. CASE EndKeyarraySingle
  BY <1>6, EndKeyarraySingleTrees
<1>7. CASE EndStmt
  BY <1>7, EndStmtTrees
<1>8. CASE EndIf
  BY <1>8, EndIfTrees
<1>9. CASE EndCase
  BY <1>9, EndCaseTrees
<1>10. CASE EndFunc
  BY <1>10, EndFuncTrees
<1>11. CASE EndLambda
  BY <1>11, EndLambdaTrees
<1>12. CASE EndOpAssign
  BY <1>12, EndOpAssignTrees
<1>13. CASE Copy
  BY <1>13, CopyTrees
<1>14. CASE Free
  BY <1>14, FreeTrees
<1> QED BY <1>1, <1>2, <1>3, <1>4, <1>5, <1>6, <1>7, <1>8, <1>9, <1>10, <1>11, <1>12, <1>13, <1>14 DEF Next

LEMMA InitTree ==
  ASSUME Init
  PROVE  Tree
<1>1. PICK e : e = <<>>
  OBVIOUS
<1>2. PICK L : L = <<e>>
  OBVIOUS
<1>3. PICK P : P = Parts(heap, copying)
  OBVIOUS
<1>4. p.expr_stack = e /\ p.stack = L /\ heap = e /\ copying = e /\ Rest = e
  BY <1>1, <1>2 DEF Init, Rest
<1>5. DOMAIN heap = {} /\ e \in Seq({}) /\ DOMAIN e = {}
  BY <1>1, <1>4
<1>6. \A k \in Nat : ListAt(L, k) = e
  BY <1>1, <1>2 DEF ListAt
<1>7. \A i \in Nat, f \in Fields : PartAt(P, i, f) = e
  BY <1>1, <1>3, <1>5, PartsAre
<1> DEFINE C == Places(e, L, P, e)
<1>8. \A x \in Names : C[x] = e
  <2> TAKE x \in Names
  <2>1. CASE x = AtExprs \/ x = AtRoot
    BY <2>1, PlacesAre
  <2>2. CASE \E k \in Nat : x = AtList(k)
    BY <1>6, <2>2, PlacesAre
  <2>3. CASE \E i \in Nat, f \in Fields : x = AtPart(i, f)
    BY <1>7, <2>3, PlacesAre
  <2> QED BY <2>1, <2>2, <2>3, NamesAre
<1> HIDE DEF C
<1>9. Forest(Names, C, {})
  BY <1>5, <1>8 DEF Forest, Alone
<1>10. IsInjective(copying)
  BY <1>4, <1>5 DEF IsInjective
<1>11. \E r : Ranked(r, heap, p.made)
  BY <1>5 DEF Ranked
<1> QED BY <1>3, <1>4, <1>5, <1>9, <1>10, <1>11 DEF C, Tree

-----------------------------------------------------------------------------
(* What the forest says. *)

\* Every part of a node is there.
LEMMA PartsThere ==
  ASSUME TypeInv, Tree, NEW k \in DOMAIN heap, NEW f \in Fields
  PROVE  heap[k].part[f] \in Seq(DOMAIN heap)
<1>1. PICK r : Ranked(r, heap, p.made)
  BY DEF Tree
<1>2. PICK v : v = heap[k].part[f]
  OBVIOUS
<1>3. \A j \in DOMAIN v : v[j] \in DOMAIN heap
  BY <1>1, <1>2 DEF Ranked
<1>4. PICK m : m = heap[k]
  OBVIOUS
<1>5. v \in Seq(Nat)
  <2>1. IsNode(m)
    BY <1>4, MemoryIs DEF IsHeap
  <2> QED BY <1>2, <1>4, <2>1, NodeNoted
<1> QED BY <1>2, <1>3, <1>5, SeqIn

LEMMA ArgumentsIn ==
  ASSUME TypeInv, Tree, NEW x, x.do = "op_assign_array", Sane(x)
  PROVE  Range(Arguments(x)) \subseteq DOMAIN heap
<1>1. PICK D : D = DOMAIN heap
  OBVIOUS
<1>2. p.expr_stack \in Seq(D) /\ IsParser(p)
  BY <1>1, PartsIn, MemoryIs DEF Tree
<1>3. PICK pops : pops = Combines(x)
  OBVIOUS
<1>4. pops \in Pops /\ Len(pops) = 2 /\ ExprsSane(pops) /\ pops[2] = "argv"
  BY <1>3, CombinesIs, SaneIs
<1>5. Arguments(x) = PopExpr(pops, pops[2])
  BY <1>3, <1>4 DEF Arguments
<1>6. PICK K \in Nat, a \in Nat, b \in Nat :
        K = Len(p.expr_stack) /\ a = Popped(pops, 3) /\ b = Popped(pops, 2) /\ b <= a /\ a <= K
  <2>1. p.arg_count \in Seq(Nat \ {0})
    BY <1>2 DEF IsParser
  <2>2. 2 \in 1..(Len(pops) + 1) /\ 3 \in 1..(Len(pops) + 1) /\ 2 <= 3
    BY <1>4
  <2>3. Popped(pops, 3) \in Nat /\ Popped(pops, 2) \in Nat /\ Popped(pops, 2) <= Popped(pops, 3)
    BY <1>4, <2>1, <2>2, PoppedGrows DEF Pops
  <2>4. Depth(pops) = Popped(pops, 3)
    <3>1. Depth(pops) = Popped(pops, Len(pops) + 1)
      BY <1>4, <2>1, PoppedGrows DEF Pops
    <3>2. Len(pops) + 1 = 3
      BY <1>4
    <3> QED BY <3>1, <3>2
  <2>5. Depth(pops) <= Len(p.expr_stack)
    BY <1>4 DEF ExprsSane
  <2>6. Len(p.expr_stack) \in Nat
    BY <1>2
  <2> QED BY <2>3, <2>4, <2>5, <2>6
<1>7. Arguments(x) = SubSeq(p.expr_stack, K - a + 1, K - b)
  <2>1. 2 \in 1..Len(pops) /\ 2 + 1 = 3
    BY <1>4
  <2>2. PopExpr(pops, pops[2]) = SubSeq(p.expr_stack, Len(p.expr_stack) - Popped(pops, 2 + 1) + 1,
                                                      Len(p.expr_stack) - Popped(pops, 2))
    BY <1>2, <1>4, <2>1, PopExprIs DEF Pops
  <2> QED BY <1>5, <1>6, <2>1, <2>2
<1>8. SubSeq(p.expr_stack, K - a + 1, K - b) \in Seq(D)
  <2>1. PICK lo \in Int, hi \in Int : lo = K - a + 1 /\ hi = K - b /\ lo >= 1 /\ hi <= K
    <3>1. K - a + 1 >= 1 /\ K - b <= K
      BY <1>6
    <3> QED BY <3>1
  <2>2. PICK E1 \in Seq(D) : E1 = p.expr_stack /\ Len(E1) = K
    BY <1>2, <1>6
  <2>3. ASSUME NEW i \in lo..hi PROVE E1[i] \in D
    <3>1. i \in Int /\ i >= 1 /\ i <= K
      BY <2>1
    <3>2. DOMAIN E1 = 1..K
      BY <2>2
    <3> QED BY <3>1, <3>2, ElementOfSeq
  <2>4. SubSeq(E1, lo, hi) \in Seq(D)
    BY <2>3, SubSeqProperties
  <2> QED BY <2>1, <2>2, <2>4
<1>9. PICK v : v = Arguments(x) /\ v \in Seq(D)
  BY <1>7, <1>8
<1>10. Range(v) \subseteq D
  BY <1>9 DEF Range
<1> QED BY <1>1, <1>9, <1>10

\* Nothing is copied that is not there.
LEMMA CopiesOfNodes ==
  ASSUME TypeInv, Tree
  PROVE  CanCopy
<1>1. CASE copying # <<>>
  <2>1. PICK k \in DOMAIN heap : k = Head(copying)
    BY <1>1, MemoryIs
  <2>2. PICK D, n, v : D = DOMAIN heap /\ n = heap[k] /\ v = Copied(n)
    OBVIOUS
  <2>3. PICK a \in Seq(D), b \in Seq(D), c \in Seq(D) :
          a = n.part["inner"] /\ b = n.part["index"] /\ c = n.part["argv"]
    <3>1. n.part["inner"] \in Seq(D)
      BY <2>1, <2>2, PartsThere, FieldNames
    <3>2. n.part["index"] \in Seq(D)
      BY <2>1, <2>2, PartsThere, FieldNames
    <3>3. n.part["argv"] \in Seq(D)
      BY <2>1, <2>2, PartsThere, FieldNames
    <3> QED BY <3>1, <3>2, <3>3
  <2>4. v = a \o b \o c
    BY <2>2, <2>3, Zenon DEF Copied
  <2>5. a \o b \in Seq(D)
    BY <2>3, ConcatProperties
  <2>6. v \in Seq(D)
    BY <2>3, <2>4, <2>5, ConcatProperties
  <2>7. Range(v) \subseteq D
    BY <2>6 DEF Range
  <2>8. CopiedNext = v
    BY <1>1, <2>1, <2>2 DEF CopiedNext
  <2> QED BY <2>2, <2>7, <2>8 DEF CanCopy
<1>2. CASE copying = <<>> /\ At("op_assign_array") /\ Sane(Head(goal))
  <2>1. Head(goal).do = "op_assign_array"
    BY <1>2 DEF At
  <2>2. Range(Arguments(Head(goal))) \subseteq DOMAIN heap
    BY <1>2, <2>1, ArgumentsIn
  <2>3. CopiedNext = Arguments(Head(goal))
    BY <1>2 DEF CopiedNext
  <2> QED BY <2>2, <2>3 DEF CanCopy
<1>3. CASE copying = <<>> /\ ~(At("op_assign_array") /\ Sane(Head(goal)))
  <2>1. CopiedNext = <<>>
    BY <1>3 DEF CopiedNext
  <2>2. PICK e : e = <<>>
    OBVIOUS
  <2>3. Range(e) = {}
    BY <2>2 DEF Range
  <2> QED BY <2>1, <2>2, <2>3 DEF CanCopy
<1> QED BY <1>1, <1>2, <1>3

\* Nothing is freed that is not there.
LEMMA FreesNodes ==
  ASSUME TypeInv, Tree, freeing # <<>>
  PROVE  Head(freeing) \in DOMAIN heap
<1>1. PICK D, R : D = DOMAIN heap /\ R = freeing
  OBVIOUS
<1>2. Rest = R
  BY <1>1, MemoryIs DEF Rest
<1>3. Rest \in Seq(D)
  BY <1>1, PartsIn DEF Tree
<1> QED BY <1>1, <1>2, <1>3

\* A node that is nowhere but in a part of a node is below that node, and there is
\* none above all.
LEMMA SomeTop ==
  ASSUME NEW h, NEW m \in Nat, NEW r, Ranked(r, h, m), DOMAIN h # {}
  PROVE  \E d \in DOMAIN h : \A i \in DOMAIN h : r[i] <= r[d]
<1>1. \A i \in DOMAIN h : r[i] \in Nat /\ r[i] <= m
  BY DEF Ranked
<1> DEFINE T == {m - r[i] : i \in DOMAIN h}
<1>2. T \in SUBSET Nat /\ T # {}
  <2>1. \A i \in DOMAIN h : m - r[i] \in Nat
    BY <1>1
  <2> QED BY <2>1
<1>3. PICK x \in T : \A y \in T : x <= y
  BY <1>2, LeastNumber
<1>4. PICK d \in DOMAIN h : x = m - r[d]
  BY <1>3
<1>5. ASSUME NEW i \in DOMAIN h PROVE r[i] <= r[d]
  <2>1. m - r[i] \in T
    OBVIOUS
  <2>2. m - r[d] <= m - r[i]
    BY <1>3, <1>4, <2>1
  <2> QED BY <1>1, <2>2
<1> QED BY <1>5

\* When nothing is on the stacks or to be freed, there is no node.
LEMMA NothingKept ==
  ASSUME TypeInv, Tree, copying = <<>>, p.expr_stack = <<>>, p.stack = <<>>, Rest = <<>>
  PROVE  DOMAIN heap = {}
<1> SUFFICES ASSUME DOMAIN heap # {} PROVE FALSE
  OBVIOUS
<1>1. PICK e : e = <<>> /\ DOMAIN e = {}
  OBVIOUS
<1>2. PICK r : Ranked(r, heap, p.made)
  BY DEF Tree
<1>3. p.made \in Nat
  BY MemoryIs
<1>4. PICK d \in DOMAIN heap : \A i \in DOMAIN heap : r[i] <= r[d]
  BY <1>2, <1>3, SomeTop
<1>5. PICK P : P = Parts(heap, e)
  OBVIOUS
<1> DEFINE C == Places(e, e, P, e)
<1>6. Forest(Names, C, DOMAIN heap)
  BY <1>1, <1>5 DEF Tree
<1>7. C[AtExprs] = e /\ C[AtRoot] = e
  BY PlacesAre
<1>8. \A k \in Nat : C[AtList(k)] = e
  BY <1>1, PlacesAre DEF ListAt
<1>9. \A i \in Nat, f \in Fields : C[AtPart(i, f)] = PartAt(P, i, f)
  BY PlacesAre
<1> HIDE DEF C
<1>10. PICK x \in Names : \E i \in DOMAIN C[x] : C[x][i] = d
  BY <1>6 DEF Forest, IsAt
<1>11. PICK i \in Nat, f \in Fields : x = AtPart(i, f)
  <2>1. x # AtExprs /\ x # AtRoot
    BY <1>1, <1>7, <1>10
  <2>2. \A k \in Nat : x # AtList(k)
    BY <1>1, <1>8, <1>10
  <2> QED BY <2>1, <2>2, NamesAre
<1>12. PICK v : v = PartAt(P, i, f) /\ \E j \in DOMAIN v : v[j] = d
  BY <1>9, <1>10, <1>11
<1>13. i \in DOMAIN heap /\ v = heap[i].part[f]
  <2>1. v = IF i \in DOMAIN heap /\ i \notin Range(e) THEN heap[i].part[f] ELSE e
    BY <1>1, <1>5, <1>12, PartsAre
  <2> QED BY <1>1, <1>12, <2>1
<1>14. r[i] \in Nat /\ r[d] \in Nat /\ r[d] < r[i] /\ r[i] <= r[d]
  BY <1>2, <1>4, <1>12, <1>13 DEF Ranked
<1> QED BY <1>14

\* While no conditional and no lambda is in the indices of a combined assignment,
\* every node that is allocated and not freed is in one place, once: on the stack
\* of expressions, in a statement list, in a part of a node of higher rank, or
\* among those that are freed or are the script (stmt_free, expr_free, expr_copy,
\* expr_stack.c, stmt_stack.c).
THEOREM NodesAreForest == Spec => []TreeInv
<1>1. Init => TreeInv
  BY InitHolds, InitTree DEF TreeInv
<1>2. TreeInv /\ [Next]_vars => TreeInv'
  <2> SUFFICES ASSUME TreeInv, [Next]_vars PROVE TreeInv'
    OBVIOUS
  <2>1. TypeInv'
    BY StackInvHolds, MemoryHolds DEF TreeInv, TypeInv
  <2>2. ASSUME "shared" \notin odd' PROVE Tree'
    <3>1. "shared" \notin odd
      BY <2>2, OddGrows
    <3> QED BY <2>2, <3>1, TreeHolds DEF TreeInv
  <2> QED BY <2>1, <2>2 DEF TreeInv
<1> QED BY <1>1, <1>2, PTL DEF Spec

\* No node is freed twice, or copied after it was freed, and intend_free_script
\* leaves none, whatever the script says; unless the indices of a combined
\* assignment hold a conditional or a lambda, which its copy shares (stmt_free,
\* expr_free, expr_copy).
THEOREM NoNodeFreedTwice == Spec => []FreedOnce
<1>1. TreeInv => FreedOnce
  <2> SUFFICES ASSUME TypeInv, Tree
               PROVE  /\ CanCopy
                      /\ freeing # <<>> => Head(freeing) \in DOMAIN heap
                      /\ phase = "freed" /\ freeing = <<>> => DOMAIN heap = {}
    BY DEF TreeInv, FreedOnce
  <2>1. CanCopy
    BY CopiesOfNodes
  <2>2. freeing # <<>> => Head(freeing) \in DOMAIN heap
    BY FreesNodes
  <2>3. ASSUME phase = "freed", freeing = <<>> PROVE DOMAIN heap = {}
    <3>1. p.expr_stack = <<>> /\ p.stack = <<>>
      BY <2>3 DEF TypeInv, StackInv, Emptied, AllUsed
    <3>2. copying = <<>>
      BY <2>3, MemoryIs
    <3>3. Rest = <<>>
      BY <2>3 DEF Rest
    <3> QED BY <3>1, <3>2, <3>3, NothingKept
  <2> QED BY <2>1, <2>2, <2>3
<1> QED BY <1>1, NodesAreForest, PTL
=============================================================================
