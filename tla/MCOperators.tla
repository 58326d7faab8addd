---------------------------- MODULE MCOperators ----------------------------
EXTENDS Operators
Some == {Void, Truth(FALSE), Truth(TRUE), Num(-8), Num(-1), Num(0), Num(2), Num(7),
         Frac(-3, 2), Frac(0, 1), Frac(1, 2), Frac(2, 1), Text(<<>>), Text(<<"1">>), Text(<<"2">>), Text(<<"1", "2">>),
         Text(<<"-", "8">>), Text(<<"0", ".", "5">>), Text(<<"0", "x", "7">>), Text(<<"1", NUL, "2">>),
         Array(<<>>), Array(<<Num(1), Text(<<"2">>)>>), Struct([x \in {"f"} |-> Num(1)]), Fn("f"), Fn("g"),
         Resource("r")}
Constants == {Void, Truth(TRUE), Num(-1), Num(2), Frac(1, 2), Text(<<>>), Text(<<"1">>)}
I == Ref("i")
AllOperands == {Literal(v) : v \in Constants} \cup {Other(v) : v \in Some}
                \cup {Raise, I, Ref("a"), At("a", Literal(Num(0))), At("a", Literal(Num(2))), At("a", Literal(Num(-1))),
                      At("a", I), At("i", I), At("a", Postfix("++", I)), At("a", Raise)}
Holding(v, q) == [x \in {"i", "a"} |-> IF x = "i" THEN v ELSE Array(q)]
SomeStores == {Holding(Num(1), <<Num(5), Void>>), Holding(Frac(3, 2), <<Num(7)>>)}
SomeFloats == {Frac(0, 1), Frac(1, 1)}

\* Strings of two letters and a blank, some with a zero byte.
Words(n) == UNION {[1..k -> {"0", "1", " "}] : k \in 0..n}
Hays     == Words(3) \cup {<<NUL>>, <<"1", NUL>>, <<"1", NUL, "0">>, <<"0", "1", "0", "1">>}
Needles  == Words(2) \cup {<<"0", "1", "0">>}
TwoWords == [f : {"strchr", "strrchr", "strstr", "strspn", "strcspn", "strpbrk", "explode"}, h : Hays, n : Needles]
SomeCalls ==
  {Call(c.f, <<Text(c.h), Text(c.n)>>) : c \in TwoWords}
    \cup {Call(f, <<Text(h), Num(n)>>) : f \in {"substr", "left", "right"}, h \in Hays, n \in -1..5}
    \cup {Call("substr", <<Text(h), Num(m), Num(n)>>) : h \in Hays, m \in 0..2, n \in {-1, 1, 7}}
    \cup {Call(f, <<Text(h)>>) : f \in {"strlen", "explode", "ltrim", "rtrim", "trim", "isspace", "isdigit"}, h \in Hays}
    \cup {Call("implode", <<Array(<<v, w>>)>> \o r) : v, w \in {Void, Num(2), Text(<<"1", NUL>>)}, r \in {<<>>, <<Text(<<" ">>)>>}}
    \cup {Call("strcat", <<v, w, Num(1)>>) : v, w \in {Void, Text(<<>>), Text(<<"1", NUL>>)}}
    \cup {Call("left", <<Num(2), Void>>), Call("implode", <<Void>>)}
    \cup {Call("explode", <<Text(<<"1">>), Num(1)>>), Call("implode", <<Array(<<Num(2)>>), Num(1)>>)}
=============================================================================
