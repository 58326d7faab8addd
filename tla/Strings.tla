------------------------------ MODULE Strings ------------------------------
(***************************************************************************)
(* The string functions of the library (libstdlib/string.c) that search,   *)
(* cut, split and join.  Positions are counted from 0.  A string may hold  *)
(* the zero byte; some functions stop there and some do not.               *)
(*                                                                         *)
(* A call returns a value or Dies: a size below zero is handed to the C    *)
(* library, the loop does not end, or what is no string is read as one.    *)
(* Case and character codes are left out, and so are separators that hold  *)
(* a zero byte.                                                            *)
(***************************************************************************)
EXTENDS Values

Dies == [t |-> "dies"]

Least(s)    == CHOOSE n \in s : \A m \in s : n <= m
Greatest(s) == CHOOSE n \in s : \A m \in s : n >= m
CharsOf(cs) == {cs[i] : i \in DOMAIN cs}
Space       == " "

\* A position, or void when there is none.
FirstAt(places) == IF places = {} THEN Void ELSE Num(Least(places))
LastAt(places)  == IF places = {} THEN Void ELSE Num(Greatest(places))

CharAt(hay, c)      == {p \in 0..(Len(hay) - 1) : hay[p + 1] = c}
NotAtEnd(hay, needle) ==                                  \* mutant of Occurs
  {p \in 0..(Len(hay) - Len(needle) - 1) : SubSeq(hay, p + 1, p + Len(needle)) = needle}
Occurs(hay, needle) == {p \in 0..(Len(hay) - Len(needle)) : SubSeq(hay, p + 1, p + Len(needle)) = needle}
-----------------------------------------------------------------------------
str_length(cs)   == Num(Len(CString(cs)))
str_concat(css)  == Text(FlattenSeq(css))

str_leftmost(hay, needle)  == IF needle = <<>> THEN Void ELSE FirstAt(CharAt(hay, needle[1]))
str_rightmost(hay, needle) == IF needle = <<>> THEN Void ELSE LastAt(CharAt(hay, needle[1]))
str_strpos(hay, needle)    == FirstAt(Occurs(hay, needle))

str_span(hay, set)  == Num(Len(Leading(hay, CharsOf(set))))
str_cspan(hay, set) == Num(Len(Leading(hay, CharsOf(hay) \ CharsOf(set))))
str_pbrk(hay, set)  == FirstAt(UNION {CharAt(hay, c) : c \in CharsOf(set)})

\* str_mid: the position and the count are cut at the bounds of the string,
\* unless their sum overflows.
Clamped(cs, pos)     == IF pos < 0 THEN 0 ELSE IF pos > Len(cs) THEN Len(cs) ELSE pos
Part(cs, from, n)    == Text(SubSeq(cs, from + 1, from + n))
str_mid(cs, pos, n) ==
  LET from  == Clamped(cs, pos)
      count == IF n < 0 THEN 0 ELSE n
  IN IF from + count \notin Ints THEN Dies
     ELSE Part(cs, from, IF from + count > Len(cs) THEN Len(cs) - from ELSE count)
str_mid_rest(cs, pos) == str_mid(cs, pos, Len(cs) - Clamped(cs, pos))

\* A wanted length below zero is not tested.
str_left(cs, n) ==
  IF cs = <<>> THEN Text(<<>>)
  ELSE IF n < 0 THEN Dies ELSE Part(cs, 0, IF n > Len(cs) THEN Len(cs) ELSE n)
str_right(cs, n) ==
  IF cs = <<>> THEN Text(<<>>)
  ELSE IF n < 0 THEN Dies
  ELSE LET wanted == IF n > Len(cs) THEN Len(cs) ELSE n IN Part(cs, Len(cs) - wanted, wanted)

\* str_explode: nothing is added for what follows a separator at the end.
RECURSIVE Split(_, _)
Split(cs, sep) ==
  IF Occurs(cs, sep) = {} THEN <<cs>>
  ELSE LET p == Least(Occurs(cs, sep))
       IN <<SubSeq(cs, 1, p)>> \o Split(After(cs, p + Len(sep)), sep)
str_explode(cs, sep) ==
  LET parts == Split(CString(cs), sep)
      kept  == IF Last(parts) = <<>> /\ CString(cs) = cs THEN Front(parts) ELSE parts
  IN IF sep = <<>> /\ cs # <<>> THEN Dies
     ELSE IF sep = <<>> THEN Array(<<>>)
     ELSE Array([i \in DOMAIN kept |-> Text(kept[i])])
str_explode_all(cs) == Array(CastToArray(Text(cs)))

\* str_implode: the elements as C strings.
Joined(css, sep) ==
  FlattenSeq([i \in DOMAIN css |-> IF i = 1 THEN css[i] ELSE sep \o css[i]])
str_implode(q, sep) == Text(Joined([i \in DOMAIN q |-> CString(CastToString(q[i]))], sep))
str_implode_all(q)  == Text(CastToString(Array(q)))

\* str_rtrim and str_trim never take the first character of what they look at.
Trimmed(cs) ==
  LET ends == {n \in 1..Len(cs) : n = 1 \/ cs[n] # Space}
  IN IF cs = <<>> THEN cs ELSE SubSeq(cs, 1, Greatest(ends))
Led(cs)       == After(cs, Len(Leading(cs, {Space})))
str_ltrim(cs) == Text(CString(Led(cs)))
str_rtrim(cs) == Text(Trimmed(cs))
str_trim(cs)  == Text(Trimmed(Led(cs)))

\* isspace, isdigit: false for the empty string.
checkstr(cs, class) == Truth(cs # <<>> /\ CharsOf(cs) \subseteq class)
-----------------------------------------------------------------------------
\* Calls by name; strings are cast, other arguments are refused (call_check).  A
\* separator is neither: it is read as a string, whatever it is.
Cs(v) == CastToString(v)
Misread(f, vs) == f \in {"explode", "implode"} /\ Len(vs) = 2 /\ vs[2].t # "string"
StringCall(f, vs) ==
  LET one == Cs(vs[1])
      two == Cs(vs[2])
  IN IF Misread(f, vs) THEN Dies ELSE
     CASE f = "strlen"  -> str_length(one)
       [] f = "strcat"  -> str_concat([i \in DOMAIN vs |-> Cs(vs[i])])
       [] f = "strchr"  -> str_leftmost(one, two)
       [] f = "strrchr" -> str_rightmost(one, two)
       [] f = "strstr"  -> str_strpos(one, two)
       [] f = "strspn"  -> str_span(one, two)
       [] f = "strcspn" -> str_cspan(one, two)
       [] f = "strpbrk" -> str_pbrk(one, two)
       [] f = "substr"  -> IF Len(vs) = 2 THEN str_mid_rest(one, vs[2].n)
                                          ELSE str_mid(one, vs[2].n, CastToInt(vs[3]))
       [] f = "left"    -> str_left(one, vs[2].n)
       [] f = "right"   -> str_right(one, vs[2].n)
       [] f = "explode" -> IF Len(vs) = 1 THEN str_explode_all(one) ELSE str_explode(one, two)
       [] f = "implode" -> IF Len(vs) = 1 THEN str_implode_all(vs[1].q) ELSE str_implode(vs[1].q, two)
       [] f = "ltrim"   -> str_ltrim(one)
       [] f = "rtrim"   -> str_rtrim(one)
       [] f = "trim"    -> str_trim(one)
       [] f = "isspace" -> checkstr(one, {Space})
       [] f = "isdigit" -> checkstr(one, DigitsOf(10))
=============================================================================
