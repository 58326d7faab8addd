------------------------------- MODULE Values -------------------------------
(***************************************************************************)
(* The values of a script and their conversions into each other            *)
(* (libruntime/value_cons.c, value_cast.c; libeval/eval_cast.c).           *)
(*                                                                         *)
(* An int has Width bits.  A float is a fraction with a denominator of 1   *)
(* or 2 where it is printed, the exact quotient everywhere else; ten       *)
(* digits of precision are never used up.  A string is the sequence of its *)
(* characters, some of them digits and one the zero byte, so that strtol,  *)
(* strtod and the C string functions can be modelled by what they read.    *)
(* Keys of arrays are left out: ValueArray has them.                       *)
(***************************************************************************)
EXTENDS Integers, Sequences, FiniteSets, SequencesExt

CONSTANT Width
ASSUME WidthAssumption == Width \in Nat \ {0}

\* The values (runtime.h, value_type).
Void        == [t |-> "void"]
Truth(b)    == [t |-> "bool", b |-> b]
Num(n)      == [t |-> "int", n |-> n]
Frac(n, d)  == [t |-> "float", n |-> n, d |-> d]
Text(cs)    == [t |-> "string", cs |-> cs]
Array(q)    == [t |-> "array", q |-> q]
Struct(f)   == [t |-> "struct", f |-> f]
Fn(def)     == [t |-> "fn", def |-> def]
Resource(r) == [t |-> "resource", r |-> r]

\* A C int of Width bits, and what a conversion to it keeps.
Ints    == -(2 ^ (Width - 1)) .. (2 ^ (Width - 1) - 1)
Clip(n) == ((n + 2 ^ (Width - 1)) % 2 ^ Width) - 2 ^ (Width - 1)

\* The integral part.
Trunc(n, d) == IF n >= 0 THEN n \div d ELSE -((-n) \div d)

\* A fraction in lowest terms.
Reduced(n, d) ==
  LET g == CHOOSE g \in 1..d : /\ n % g = 0 /\ d % g = 0
                               /\ \A h \in (g + 1)..d : n % h # 0 \/ d % h # 0
  IN Frac(n \div g, d \div g)
-----------------------------------------------------------------------------
\* Characters: NUL ends a C string, x is the mark of a hexadecimal literal; f, r
\* and s stand for the words function, resource and struct.
NUL    == "NUL"
Digits == <<"0", "1", "2", "3", "4", "5", "6", "7", "8", "9">>
DigitsOf(base) == {Digits[i] : i \in 1..(IF base = 8 THEN 8 ELSE 10)}
Digit(c)       == (CHOOSE i \in DOMAIN Digits : Digits[i] = c) - 1

\* The longest prefix of characters of a set.
Leading(cs, set) ==
  SubSeq(cs, 1, CHOOSE k \in 0..Len(cs) : /\ \A i \in 1..k : cs[i] \in set
                                          /\ k < Len(cs) => cs[k + 1] \notin set)
After(cs, n) == SubSeq(cs, n + 1, Len(cs))

CString(cs) ==
  SubSeq(cs, 1, CHOOSE k \in 0..Len(cs) : /\ \A i \in 1..k : cs[i] # NUL
                                          /\ k < Len(cs) => cs[k + 1] = NUL)

Reading(cs, base) == FoldLeft(LAMBDA n, c : base * n + Digit(c), 0, cs)

\* What strtol (with base 0) and strtod have in common: a sign and a base.
Signed(cs)   == Len(cs) > 0 /\ cs[1] \in {"-", "+"}
Unsigned(cs) == IF Signed(cs) THEN Tail(cs) ELSE cs
Hex(cs)      == Len(cs) > 2 /\ cs[1] = "0" /\ cs[2] = "x" /\ cs[3] \in DigitsOf(16)
NoSign(cs)   == 1                                         \* mutant of Sign
Sign(cs)     == IF Len(cs) > 0 /\ cs[1] = "-" THEN -1 ELSE 1

strtol(cs) ==
  LET u    == Unsigned(CString(cs))
      base == IF Hex(u) THEN 16 ELSE IF Len(u) > 0 /\ u[1] = "0" THEN 8 ELSE 10
  IN Sign(cs) * Reading(Leading(IF Hex(u) THEN After(u, 2) ELSE u, DigitsOf(base)), base)

strtod(cs) ==
  LET u     == Unsigned(CString(cs))
      base  == IF Hex(u) THEN 16 ELSE 10
      rest  == IF Hex(u) THEN After(u, 2) ELSE u
      whole == Leading(rest, DigitsOf(base))
      point == After(rest, Len(whole))
      part  == IF Len(point) > 0 /\ point[1] = "." THEN Leading(Tail(point), DigitsOf(base)) ELSE <<>>
  IN Reduced(Sign(cs) * Reading(whole \o part, base), base ^ Len(part))

\* "%i" and "%0.10g".
Decimal[n \in Nat] == IF n < 10 THEN <<Digits[n + 1]>> ELSE Append(Decimal[n \div 10], Digits[(n % 10) + 1])
Minus(n)           == IF n < 0 THEN <<"-">> ELSE <<>>
Magnitude(n)       == IF n < 0 THEN -n ELSE n
IntText(n)         == Minus(n) \o Decimal[Magnitude(n)]
FloatText(n, d)    == Minus(n) \o Decimal[Magnitude(Trunc(n, d))]
                      \o (IF n % d = 0 THEN <<>> ELSE <<".", "5">>)
-----------------------------------------------------------------------------
\* Elements and fields, as a number.
Size(v) == CASE v.t = "array" -> Len(v.q) [] v.t = "struct" -> Cardinality(DOMAIN v.f)

\* A float is stored into the int that holds a truth value before it is tested.
IntoInt(n, d)   == Trunc(n, d) # 0

CastToBool(v) ==
  CASE v.t = "void"   -> FALSE
    [] v.t = "bool"   -> v.b
    [] v.t = "int"    -> v.n # 0
    [] v.t = "float"  -> IntoInt(v.n, v.d)
    [] v.t = "string" -> v.cs # <<>>
    [] v.t \in {"array", "struct"} -> Size(v) # 0
    [] OTHER          -> TRUE

CastToInt(v) ==
  CASE v.t = "void"   -> 0
    [] v.t = "bool"   -> IF v.b THEN 1 ELSE 0
    [] v.t = "int"    -> v.n
    [] v.t = "float"  -> Trunc(v.n, v.d)
    [] v.t = "string" -> Clip(strtol(v.cs))
    [] v.t \in {"array", "struct"} -> Size(v)
    [] OTHER          -> 1

CastToFloat(v) ==
  CASE v.t = "float"  -> v
    [] v.t = "string" -> strtod(v.cs)
    [] OTHER          -> Frac(CastToInt(v), 1)

\* The elements of an array one after the other; value_make_string takes what
\* is in front of a zero byte.
RECURSIVE CastToString(_)
CastToString(v) ==
  CASE v.t = "void"     -> <<>>
    [] v.t = "bool"     -> IF v.b THEN <<"1">> ELSE <<>>
    [] v.t = "int"      -> IntText(v.n)
    [] v.t = "float"    -> FloatText(v.n, v.d)
    [] v.t = "string"   -> v.cs
    [] v.t = "array"    -> FlattenSeq([i \in DOMAIN v.q |-> CString(CastToString(v.q[i]))])
    [] v.t = "struct"   -> <<"s">>
    [] v.t = "fn"       -> <<"f">>
    [] v.t = "resource" -> <<"r">>

\* One element for every character of the C string.
CastToArray(v) ==
  CASE v.t = "array"  -> v.q
    [] v.t = "string" -> [i \in DOMAIN CString(v.cs) |-> Text(<<v.cs[i]>>)]
    [] OTHER          -> <<v>>

CastToStruct(v) == IF v.t = "struct" THEN v.f ELSE [x \in {"value"} |-> v]

\* value_cast: nothing but a function is a function, and nothing but a resource
\* a resource; the value is then returned as it was.  VoidRefused is a mutant.
VoidRefused(v, type) == v.t # type /\ (type \in {"fn", "resource"} \/ v.t = "void")

Uncastable(v, type) == type \in {"fn", "resource"} /\ v.t # type
Cast(v, type) ==
  CASE type = "void"   -> Void
    [] type = "bool"   -> Truth(CastToBool(v))
    [] type = "int"    -> Num(CastToInt(v))
    [] type = "float"  -> CastToFloat(v)
    [] type = "string" -> Text(CastToString(v))
    [] type = "array"  -> Array(CastToArray(v))
    [] type = "struct" -> Struct(CastToStruct(v))
    [] OTHER           -> v

\* value_str_compat: may be handed to a C function.
StrCompat(v) == v.t = "string" /\ v.cs # <<>> /\ \A i \in DOMAIN v.cs : v.cs[i] # NUL
=============================================================================
