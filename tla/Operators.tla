----------------------------- MODULE Operators -----------------------------
(***************************************************************************)
(* The operators of expressions (libeval/eval_infix.c, eval_order.c,       *)
(* eval_math.c, eval_bitwise.c, eval_prefix.c, eval_postfix.c,             *)
(* eval_string.c, eval_cast.c): promotion of their operands, what they     *)
(* compute, and what ++ and -- store.                                      *)
(*                                                                         *)
(* An expression has a set of outcomes, each a state and a value: C leaves *)
(* the overflow of an int and some shifts undefined, and a difference of   *)
(* strings is computed from the bytes of their representation (Junk).      *)
(***************************************************************************)
EXTENDS Strings
LOCAL INSTANCE Bitwise

CONSTANTS Operands,        \* the expressions that are operated on
          StringCalls,     \* the calls of string functions, see Call
          Stores,          \* what the variables hold at first
          Junk,            \* what the bytes of a string are as a float
          MaxExpressions   \* expressions evaluated one after the other

VARIABLES var,             \* the variables
          flow,            \* except_flag, exit_flag: what is pending
          ex,              \* the expression last evaluated
          val,             \* and its value
          steps

vars == <<var, flow, ex, val, steps>>
-----------------------------------------------------------------------------
\* Expressions (parser.h); Other is a call or any other expression that is no
\* constant, Raise one that throws.
Literal(v)      == [k |-> "literal", v |-> v]
Other(v)        == [k |-> "other", v |-> v]
Raise           == [k |-> "raise"]
Ref(x)          == [k |-> "ref", x |-> x]
At(x, e)        == [k |-> "at", x |-> x, e |-> e]
Infix(op, e, f) == [k |-> "infix", op |-> op, e |-> e, f |-> f]
Prefix(op, e)   == [k |-> "prefix", op |-> op, e |-> e]
Postfix(op, e)  == [k |-> "postfix", op |-> op, e |-> e]
CastTo(type, e) == [k |-> "cast", type |-> type, e |-> e]
Call(f, vs)     == [k |-> "call", f |-> f, vs |-> vs]

\* The operands are expressions.
RECURSIVE Built(_)
Built(e) == CASE e.k \in {"literal", "other"} -> e \in {Literal(e.v), Other(e.v)}
              [] e.k = "raise"   -> e = Raise
              [] e.k = "ref"     -> e = Ref(e.x)
              [] e.k = "at"      -> e = At(e.x, e.e) /\ Built(e.e)
              [] e.k = "infix"   -> e = Infix(e.op, e.e, e.f) /\ Built(e.e) /\ Built(e.f)
              [] e.k = "prefix"  -> e = Prefix(e.op, e.e) /\ Built(e.e)
              [] e.k = "postfix" -> e = Postfix(e.op, e.e) /\ Built(e.e)
              [] e.k = "cast"    -> e = CastTo(e.type, e.e) /\ Built(e.e)
ASSUME OperandsAssumption == /\ \A e \in Operands : Built(e)
                             /\ \A c \in StringCalls : c = Call(c.f, c.vs)

Order     == {"<", "<=", ">", ">="}
Equality  == {"==", "!="}
Math      == {"+", "-", "*", "/", "%", "**"}
Bits      == {"&", "|", "^", "<<", ">>"}
PrefixOps == {"-", "!", "~", "++", "--"}
Steps     == {"++", "--"}
Types     == {"void", "bool", "int", "float", "string", "array", "struct"}

Out(s, v)  == [s |-> s, v |-> v]
Fatal(s)   == [s EXCEPT !.flow = IF @ = "fault" THEN @ ELSE "exit"]
Fault(s)   == [s EXCEPT !.flow = "fault"]
-----------------------------------------------------------------------------
\* Arithmetic (eval_math.c).
AnyInt(s)     == {Out(s, Num(n)) : n \in Ints}
AnyFloat(s)   == {Out(s, v) : v \in Junk}
IntOf(s, n)   == IF n \in Ints THEN {Out(s, Num(n))} ELSE AnyInt(s)

\* The bytes of a string are taken for a float.
eval_math_plus(s, a, b) ==
  IF a.t = "int" THEN IntOf(s, a.n + b.n)
  ELSE {Out(s, Reduced(a.n * b.d + b.n * a.d, a.d * b.d))}
eval_math_minus(s, a, b) ==
  CASE a.t = "int" -> IntOf(s, a.n - b.n)
    [] a.t = "float" -> {Out(s, Reduced(a.n * b.d - b.n * a.d, a.d * b.d))}
    [] OTHER -> AnyFloat(s)
eval_math_mul(s, a, b) ==
  CASE a.t = "int" -> IntOf(s, a.n * b.n)
    [] a.t = "float" -> {Out(s, Reduced(a.n * b.n, a.d * b.d))}
    [] OTHER -> AnyFloat(s)

\* The smallest int divided by -1 traps.
Traps(m, n)    == m = -(2 ^ (Width - 1)) /\ n = -1
Floored(m, n)  == IF n > 0 THEN m \div n ELSE (-m) \div (-n)   \* mutant of Quotient
Quotient(m, n) == IF n > 0 THEN Trunc(m, n) ELSE Trunc(-m, -n)

eval_math_div(s, a, b) ==
  CASE a.t = "int" /\ b.n = 0   -> {Out(Fatal(s), Num(0))}
    [] a.t = "int"              -> IF Traps(a.n, b.n) THEN {Out(Fault(s), Void)}
                                   ELSE {Out(s, Num(Quotient(a.n, b.n)))}
    [] a.t = "float" /\ b.n = 0 -> {Out(Fatal(s), Frac(0, 1))}
    [] a.t = "float"            -> {Out(s, IF b.n > 0 THEN Reduced(a.n * b.d, a.d * b.n)
                                                       ELSE Reduced(-(a.n * b.d), -(a.d * b.n)))}
    [] OTHER                    -> AnyFloat(s)

\* Remainder and power take their operands as ints, floats as well.
eval_math_mod(s, a, b) ==
  LET m == CastToInt(a)  n == CastToInt(b)
  IN IF n = 0 THEN {Out(Fatal(s), Num(0))}
     ELSE IF Traps(m, n) THEN {Out(Fault(s), Void)}
     ELSE {Out(s, Num(m - n * Quotient(m, n)))}

\* An exponent below zero counts as zero.
eval_math_pow(s, a, b) ==
  IntOf(s, IF CastToInt(b) <= 0 THEN 1 ELSE CastToInt(a) ^ CastToInt(b))

\* eval_bitwise.c: two's complement; shifts of and by what C does not define.
Bytes(n) == n % 2 ^ Width
eval_bit(s, op, m, n) ==
  CASE op = "&"  -> {Out(s, Num(Clip(Bytes(m) & Bytes(n))))}
    [] op = "|"  -> {Out(s, Num(Clip(Bytes(m) | Bytes(n))))}
    [] op = "^"  -> {Out(s, Num(Clip(Bytes(m) ^^ Bytes(n))))}
    [] op = "<<" -> IF n \in 0..(Width - 1) /\ m >= 0 THEN IntOf(s, m * 2 ^ n) ELSE AnyInt(s)
    [] op = ">>" -> IF n \in 0..(Width - 1) THEN {Out(s, Num(m \div 2 ^ n))} ELSE AnyInt(s)

\* eval_string.c: strcpy and strcat.
eval_string_plus(s, a, b) == {Out(s, Text(CString(a.cs) \o CString(b.cs)))}
-----------------------------------------------------------------------------
\* Order (eval_order.c).
Compared(m, n) == IF m < n THEN "smaller" ELSE IF m > n THEN "larger" ELSE "equal"

\* The bytes as numbers.
Byte(c) == CHOOSE i \in 1..18 :
             (<<NUL, "+", "-", ".">> \o Digits \o <<"f", "r", "s", "x">>)[i] = c

\* The length decides unless the first bytes differ.
LengthOnly(a, b) == Compared(Len(a), Len(b))              \* mutant of StringOrder
StringOrder(a, b) ==
  LET least == IF Len(a) < Len(b) THEN Len(a) ELSE Len(b)
      other == {i \in 1..least : a[i] # b[i]}
      at    == CHOOSE i \in other : \A j \in other : i <= j
  IN IF other = {} THEN Compared(Len(a), Len(b)) ELSE Compared(Byte(a[at]), Byte(b[at]))

getorder(a, b) ==
  CASE a.t = "void"   -> "equal"
    [] a.t = "bool"   -> Compared(CastToInt(a), CastToInt(b))
    [] a.t = "int"    -> Compared(a.n, b.n)
    [] a.t = "float"  -> Compared(a.n * b.d, b.n * a.d)
    [] a.t = "string" -> StringOrder(a.cs, b.cs)
    [] a.t = "fn"     -> IF a.def = b.def THEN "equal" ELSE "unknown"
    [] OTHER          -> "unknown"

Holds(op, a, b) ==
  CASE op = "==" -> a.t = b.t /\ getorder(a, b) = "equal"
    [] op = "!=" -> a.t # b.t \/ getorder(a, b) # "equal"
    [] op = "<=" -> getorder(a, b) \in {"smaller", "equal"}
    [] op = ">=" -> getorder(a, b) \in {"larger", "equal"}
    [] op = "<"  -> getorder(a, b) = "smaller"
    [] op = ">"  -> getorder(a, b) = "larger"

\* A function is compared with a signature that is none after a cast that
\* failed.
eval_order(s, op, a, b) ==
  IF op \in Order /\ a.t = "fn" /\ b.t # "fn" THEN {Out(Fault(s), Void)}
  ELSE {Out(s, Truth(Holds(op, a, b)))}
-----------------------------------------------------------------------------
\* Promotion (eval_infix.c); a constant of type float is not one of is_const.
is_const(f)  == f.k = "literal" /\ f.v.t \in {"bool", "int", "string"}

MathType(a, b) == IF a.t = "float" \/ b.t = "float" THEN "float" ELSE "int"

Promoted(op, a, b, f) ==
  CASE op \in Order -> IF is_const(f) THEN <<b.t, b.t>> ELSE <<a.t, a.t>>
    [] op \in Math /\ a.t # "string" -> <<MathType(a, b), MathType(a, b)>>
    [] op \in Bits -> <<"int", "int">>
    [] op \notin Order \cup Bits /\ a.t = "string" -> <<"string", "string">>
    [] OTHER -> <<a.t, b.t>>

Apply(s, op, a, b) ==
  CASE op = "+" -> IF a.t = "string" THEN eval_string_plus(s, a, b) ELSE eval_math_plus(s, a, b)
    [] op = "-"  -> eval_math_minus(s, a, b)
    [] op = "*"  -> eval_math_mul(s, a, b)
    [] op = "/"  -> eval_math_div(s, a, b)
    [] op = "%"  -> eval_math_mod(s, a, b)
    [] op = "**" -> eval_math_pow(s, a, b)
    [] op \in Bits -> eval_bit(s, op, a.n, b.n)
    [] OTHER -> eval_order(s, op, a, b)

\* Both operands are evaluated, the second one also when the first has thrown.
Operate(s, op, a, b, f) ==
  LET types == Promoted(op, a, b, f)
      bad   == Uncastable(a, types[1]) \/ Uncastable(b, types[2])
  IN Apply(IF bad THEN Fatal(s) ELSE s, op, Cast(a, types[1]), Cast(b, types[2]))
-----------------------------------------------------------------------------
\* value_get_array, value_set_array: negative indices count from the end.
GetArray(q, pos) ==
  LET p == IF pos < 0 THEN Len(q) + pos ELSE pos
  IN IF p \in 0..(Len(q) - 1) THEN q[p + 1] ELSE Void

SetClamped(q, pos, v) ==                                  \* mutant of SetArray
  LET p    == IF pos >= 0 THEN pos ELSE 0
      long == IF p < Len(q) THEN Len(q) ELSE p + 1
  IN [i \in 1..long |-> IF i = p + 1 THEN v ELSE IF i <= Len(q) THEN q[i] ELSE Void]

SetArray(q, pos, v) ==
  LET p    == IF pos >= 0 THEN pos ELSE IF Len(q) + pos < 0 THEN 0 ELSE Len(q) + pos
      long == IF p < Len(q) THEN Len(q) ELSE p + 1
  IN [i \in 1..long |-> IF i = p + 1 THEN v ELSE IF i <= Len(q) THEN q[i] ELSE Void]

Elements(v) == IF v.t = "array" THEN v.q ELSE <<>>

\* What ++ and -- do to an int.
Stepped(s, op, v) == IntOf(s, IF op = "++" THEN v.n + 1 ELSE v.n - 1)

RECURSIVE Eval(_, _)

\* eval_assign_array_direct evaluates the index once more.
Stored(s, e, v) ==
  IF s.flow # "run" THEN {s}
  ELSE CASE e.k = "ref" -> {[s EXCEPT !.var[e.x] = v]}
         [] e.k = "at"  ->
              {IF i.s.flow # "run" THEN i.s
               ELSE [i.s EXCEPT !.var[e.x] = Array(SetArray(Elements(@), CastToInt(i.v), v))]
                 : i \in Eval(s, e.e)}
         [] OTHER -> {s}

eval_infix(s, op, e, f) ==
  UNION {UNION {Operate(two.s, op, one.v, two.v, f) : two \in Eval(one.s, f)} : one \in Eval(s, e)}

\* promote_prefix.
Operand(op, v) == IF op = "-" /\ v.t = "float" THEN v
                  ELSE IF op = "!" THEN Cast(v, "bool") ELSE Cast(v, "int")

\* preincrement, predecrement, and their postfix twins, which return a copy.
Increment(s, op, v, e) ==
  UNION {{Out(t, new.v) : t \in Stored(new.s, e, new.v)} : new \in Stepped(s, op, v)}

OldReturned(old, new) == old
eval_postfix(s, op, e) ==
  UNION {{Out(o.s, OldReturned(Cast(one.v, "int"), o.v)) : o \in Increment(one.s, op, Cast(one.v, "int"), e)}
           : one \in Eval(s, e)}

PrefixOf(s, op, v, e) ==
  CASE op = "-" -> IF v.t = "int" THEN IntOf(s, -v.n) ELSE {Out(s, Frac(-v.n, v.d))}
    [] op = "!" -> {Out(s, Truth(~v.b))}
    [] op = "~" -> {Out(s, Num(-v.n - 1))}
    [] OTHER    -> Increment(s, op, v, e)

eval_prefix(s, op, e) == UNION {PrefixOf(one.s, op, Operand(op, one.v), e) : one \in Eval(s, e)}

Accepted(f, vs) ==
  /\ f \in {"substr", "left", "right"} => vs[2].t = "int"
  /\ f = "implode" => vs[1].t = "array"
eval_call(s, f, vs) ==
  {IF ~Accepted(f, vs) THEN Out(Fatal(s), Void)
   ELSE IF StringCall(f, vs) = Dies THEN Out(Fault(s), Void) ELSE Out(s, StringCall(f, vs))}

eval_cast(s, type, e) == {Out(one.s, Cast(one.v, type)) : one \in Eval(s, e)}

\* eval_ref_array of one index.
eval_ref_array(s, x, e) ==
  IF s.var[x].t # "array" THEN {Out(s, Void)}
  ELSE {Out(i.s, GetArray(Elements(i.s.var[x]), CastToInt(i.v))) : i \in Eval(s, e)}

Eval(s, e) ==
  IF s.flow # "run" THEN {Out(s, Void)}
  ELSE CASE e.k \in {"literal", "other"} -> {Out(s, e.v)}
         [] e.k = "raise"   -> {Out([s EXCEPT !.flow = "except"], Void)}
         [] e.k = "ref"     -> {Out(s, s.var[e.x])}
         [] e.k = "at"      -> eval_ref_array(s, e.x, e.e)
         [] e.k = "infix"   -> eval_infix(s, e.op, e.e, e.f)
         [] e.k = "prefix"  -> eval_prefix(s, e.op, e.e)
         [] e.k = "postfix" -> eval_postfix(s, e.op, e.e)
         [] e.k = "cast"    -> eval_cast(s, e.type, e.e)
         [] e.k = "call"    -> eval_call(s, e.f, e.vs)
-----------------------------------------------------------------------------
\* A script of expression statements, each in a try section of its own.
Init ==
  /\ var \in Stores
  /\ flow = "run" /\ ex = Literal(Void) /\ val = Void /\ steps = 0

Ready == flow \in {"run", "except"} /\ steps < MaxExpressions

Evaluate(e) ==
  /\ steps' = steps + 1
  /\ ex' = e
  /\ \E o \in Eval([var |-> var, flow |-> "run"], e) :
       var' = o.s.var /\ flow' = o.s.flow /\ val' = o.v

Compare    == Ready /\ \E op \in Order \cup Equality, e, f \in Operands : Evaluate(Infix(op, e, f))
Calculate  == Ready /\ \E op \in Math \cup Bits, e, f \in Operands : Evaluate(Infix(op, e, f))
UsePrefix  == Ready /\ \E op \in PrefixOps, e \in Operands : Evaluate(Prefix(op, e))
UsePostfix == Ready /\ \E op \in Steps, e \in Operands : Evaluate(Postfix(op, e))
UseString  == Ready /\ \E c \in StringCalls : Evaluate(c)
UseCast    == Ready /\ \E type \in Types, e \in Operands : Evaluate(CastTo(type, e))

Next == Compare \/ Calculate \/ UsePrefix \/ UsePostfix \/ UseCast \/ UseString

Spec == Init /\ [][Next]_vars
-----------------------------------------------------------------------------
Run         == [var |-> var, flow |-> "run"]
Results(e)  == {o.v : o \in Eval(Run, e)}

\* What an operator makes of operands that have no effect.
Outcomes(op, e, f) == {o.v : o \in Operate(Run, op, e.v, f.v, f)}
Test(op, e, f)     == Truth(TRUE) \in Outcomes(op, e, f)

Plain(e)    == e.k \in {"literal", "other"}
Ordered(e)  == Plain(e) /\ e.v.t \in {"bool", "int", "float", "string"}
Compares    == ex.k = "infix" /\ ex.op \in Order \cup Equality
Computes    == ex.k = "infix" /\ ex.op \in Math

\* The four order operators agree with each other, whatever was promoted to
\* what; among values of one type they are one order, in which == is equality.
OrderConsistent ==
  Compares /\ Ordered(ex.e) /\ Ordered(ex.f) =>
    LET e == ex.e  f == ex.f
    IN /\ val = Truth(Test(ex.op, e, f))
       /\ Test("<=", e, f) = ~Test(">", e, f)
       /\ Test(">=", e, f) = ~Test("<", e, f)
       /\ ~(Test("<", e, f) /\ Test(">", e, f))
       /\ e.v.t = f.v.t =>
            /\ Test("<", e, f) = Test(">", f, e)
            /\ Test("==", e, f) = (e.v = f.v)
            /\ Test("==", e, f) = (Test("<=", e, f) /\ Test("<=", f, e))
            /\ \A g \in {h \in Operands : Plain(h) /\ h.v.t = e.v.t} :
                 Test("<", e, f) /\ Test("<", f, g) => Test("<", e, g)

\* Quotient and remainder belong together, sums and products can be taken back,
\* a power is a repeated product, and the type of a result is a float exactly
\* when an operand was one.
ArithmeticLaws ==
  (Computes /\ Plain(ex.e) /\ Plain(ex.f) /\ ex.e.v.t # "string") =>
    LET e    == ex.e
        f    == ex.f
        m    == CastToInt(e.v)
        n    == CastToInt(f.v)
        back(op, undo) ==
          \A v \in Outcomes(op, e, f) :
            Cardinality(Outcomes(op, e, f)) = 1 =>
              Cast(e.v, v.t) \in Outcomes(undo, Other(v), f)
    IN /\ val \in Outcomes(ex.op, e, f)
       /\ back("+", "-") /\ back("-", "+")
       /\ (MathType(e.v, f.v) = "float" /\ CastToFloat(f.v).n # 0) => back("/", "*")
       /\ ex.op \in {"+", "-", "*"} => val.t = MathType(e.v, f.v)
       /\ (n # 0 /\ ~Traps(m, n)) =>
            \A q \in Outcomes("/", Other(Num(m)), Other(Num(n))),
               r \in Outcomes("%", e, f) :
                 /\ m = q.n * n + r.n
                 /\ Magnitude(r.n) < Magnitude(n)
                 /\ r.n = 0 \/ (r.n < 0 <=> m < 0)
       /\ n \in 0..Width =>
            \A p \in Outcomes("**", e, f) :
              Cardinality(Outcomes("**", e, f)) = 1 =>
                Outcomes("*", Other(p), Other(Num(m)))
                  = Outcomes("**", e, Other(Num(n + 1)))

\* A value that is cast to a type that can hold it, and back, is the same.
CastsReturn ==
  /\ val.t = "int"   => /\ CastToInt(Text(CastToString(val))) = val.n
                        /\ CastToInt(CastToFloat(val)) = val.n
  /\ val.t = "bool"  => /\ CastToBool(Text(CastToString(val))) = val.b
                        /\ CastToBool(Num(CastToInt(val))) = val.b
  /\ val.t = "float" /\ val.d < 3 => CastToFloat(Text(CastToString(val))) = val
  /\ val.t = "string" /\ CString(val.cs) = val.cs => CastToString(Array(CastToArray(val))) = val.cs
  /\ val.t # "struct" => CastToStruct(val)["value"] = val

\* The string functions agree with each other.  What is found is there, and
\* nothing before it; a search from the right is one from the left in the
\* mirror; the pieces a string is cut into make up the string; to join undoes
\* to split, and the other way round.  Excepted are counts below zero and those
\* that overflow with their position, an empty separator, a separator at the
\* end, which is dropped, the rtrim of blanks, and strings with zero bytes for
\* the functions that stop there (string.c:332-515, 686-751, 776-947).
Lib(f, vs)        == StringCall(f, vs)
OfOne(f, cs)      == Lib(f, <<Text(cs)>>)
OfTwo(f, c, d)    == Lib(f, <<Text(c), Text(d)>>)
Cut(f, cs, n)     == Lib(f, <<Text(cs), Num(n)>>)
Glue(v, w)        == Lib("strcat", <<v, w>>)
PlaceOrEnd(cs, v) == IF v = Void THEN Len(cs) ELSE v.n

FoundRight(hay, needle) ==
  LET p == OfTwo("strstr", hay, needle)
      all == {k \in 0..Len(hay) : Cs(Lib("substr", <<Text(hay), Num(k), Num(Len(needle))>>)) = needle}
  IN /\ p = Void <=> all = {}
     /\ p # Void => p.n \in all /\ \A k \in all : p.n <= k
     /\ Len(needle) = 1 =>
          /\ OfTwo("strchr", hay, needle) = p
          /\ OfTwo("strrchr", hay, needle) =
               IF p = Void THEN Void
               ELSE Num(Len(hay) - 1 - OfTwo("strchr", Reverse(hay), needle).n)
     /\ OfTwo("strcspn", hay, needle).n = PlaceOrEnd(hay, OfTwo("strpbrk", hay, needle))
     /\ \A i \in DOMAIN needle :
          PlaceOrEnd(hay, OfTwo("strpbrk", hay, needle)) <= PlaceOrEnd(hay, OfTwo("strchr", hay, <<needle[i]>>))
     /\ OfTwo("strspn", Cs(Cut("substr", hay, OfTwo("strspn", hay, needle).n)), needle) = Num(0)

CutRight(cs, n) ==
  n >= 0 => /\ Glue(Cut("left", cs, n), Cut("substr", cs, n)) = Text(cs)
            /\ n <= Len(cs) => Cut("right", cs, Len(cs) - n) = Cut("substr", cs, n)
            /\ n > Len(cs) => Cut("right", cs, n) = Text(cs)
            /\ \A k \in 0..Len(cs) : Lib("substr", <<Text(cs), Num(k), Num(n)>>)
                                      \in {Cut("left", Cs(Cut("substr", cs, k)), n), Dies}

SplitRight(cs, sep) ==
  sep # <<>> /\ CString(cs) = cs =>
    LET parts == Lib("explode", <<Text(cs), Text(sep)>>)
        whole == Cs(Lib("implode", <<parts, Text(sep)>>))
    IN /\ whole = cs \/ whole \o sep = cs
       /\ \A i \in DOMAIN parts.q : OfTwo("strstr", Cs(parts.q[i]), sep) = Void
       /\ Len(sep) = 1 => Lib("explode", <<Text(whole \o sep), Text(sep)>>) =
            IF cs = <<>> THEN Array(<<Text(<<>>)>>) ELSE parts

TrimmedRight(cs) ==
  CString(cs) = cs =>
    /\ OfOne("trim", cs) = OfOne("trim", Cs(OfOne("trim", cs)))
    /\ OfOne("isspace", cs).b \/ OfOne("trim", cs) = OfOne("rtrim", Cs(OfOne("ltrim", cs)))
    /\ \E m, n \in 0..Len(cs) :
         /\ Lib("substr", <<Text(cs), Num(m), Num(n)>>) = OfOne("trim", cs)
         /\ \A i \in DOMAIN cs : i \notin (m + 1)..(m + n) => cs[i] = Space
    /\ OfOne("isspace", cs).b => OfOne("trim", cs) = Text(<<>>)

StringsMean ==
  ex.k = "call" /\ flow = "run" =>
    LET one == Cs(ex.vs[1])
    IN CASE ex.f \in {"strchr", "strrchr", "strstr", "strspn", "strcspn", "strpbrk"} ->
              FoundRight(one, Cs(ex.vs[2]))
         [] ex.f \in {"left", "right", "substr"} -> CutRight(one, ex.vs[2].n)
         [] ex.f = "explode" /\ Len(ex.vs) = 2 -> SplitRight(one, Cs(ex.vs[2]))
         [] ex.f \in {"ltrim", "rtrim", "trim"} -> TrimmedRight(one)
         [] OTHER -> TRUE

\* Operators on an operand that throws leave the exception alone and store
\* nothing.  Excepted are those that end the script although an exception is
\* pending: a division by what threw, and the order of a function or resource
\* and what threw.
RECURSIVE Throws(_)
Throws(e) == CASE e.k = "raise" -> TRUE
               [] e.k = "infix" -> Throws(e.e) \/ Throws(e.f)
               [] e.k \in {"at", "prefix", "postfix", "cast"} -> Throws(e.e)
               [] OTHER -> FALSE
Ends(e)   == e.k = "infix" /\ \/ e.op \in {"/", "%"}
                              \/ e.op \in Order /\ e.e.k = "other" /\ e.e.v.t \in {"fn", "resource"}
ErrorsStand ==
  [][Throws(ex') /\ ~Ends(ex') => /\ flow' = "except"
                                  /\ ex'.k \in {"prefix", "postfix"} => var' = var]_vars

\* What ++ and -- change is the variable or element that was read, by one, and
\* nothing else.  Excepted are an index with an effect of its own, which is
\* evaluated twice, and one in front of the first element, which reads nothing
\* and stores into the first.
Place(x, e)    == GetArray(Elements(var[x]), CastToInt(e))
Kept(x, pos)   == \A p \in 0..Len(Elements(var[x])) :
                    p # pos => GetArray(Elements(var'[x]), p) = GetArray(Elements(var[x]), p)
IndexOf(e)     == CastToInt(CHOOSE v \in Results(e) : TRUE)
Counted(e, old, new) ==
  /\ CastToInt(old) + (IF e.op = "++" THEN 1 ELSE -1) \in Ints =>
       new = Num(CastToInt(old) + (IF e.op = "++" THEN 1 ELSE -1))
  /\ val' = IF e.k = "prefix" THEN new ELSE Num(CastToInt(old))
Counts(e) == e.k \in {"prefix", "postfix"} /\ e.op \in Steps

StoredInPlace ==
  [][Counts(ex') /\ flow' = "run" =>
       LET e == ex'.e
       IN CASE e.k = "ref" ->
                 Counted(ex', var[e.x], var'[e.x]) /\ \A x \in DOMAIN var \ {e.x} : var'[x] = var[x]
            [] e.k = "at" /\ e.e.k \in {"literal", "ref"}
                 /\ IndexOf(e.e) >= -Len(Elements(var[e.x])) ->
                 LET i == IndexOf(e.e)
                     p == IF i < 0 THEN Len(Elements(var[e.x])) + i ELSE i
                 IN /\ Counted(ex', GetArray(Elements(var[e.x]), p), GetArray(Elements(var'[e.x]), p))
                    /\ Kept(e.x, p)
                    /\ \A x \in DOMAIN var \ {e.x} : var'[x] = var[x]
            [] e.k = "at" -> TRUE
            [] OTHER -> var' = var]_vars
=============================================================================
