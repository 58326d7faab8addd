------------------------------- MODULE MCCalls -------------------------------
(***************************************************************************)
(* Scripts of three statements over a few functions and classes.           *)
(***************************************************************************)
EXTENDS Calls

V(v)    == Entry("var", v, 0)
F(sig)  == Entry("function", Fn(sig), 0)
Class(parent, body) == Entry("class", ClassOf(parent, body), 0)
C(n)    == Const(Num(n))
This(x) == At("this", <<Field(x)>>)
Put(x, e) == Do(AssignAt("this", <<Field(x)>>, e))
Func(names, proto, ret, body) == F(Sig(names, proto, ret, body))

\* A field of `this', a method of a class.
Method0(x, names) == Define(x, Sig(names, [i \in DOMAIN names |-> "?"], "?", x))
Maker0(c)         == Define(c, Sig(<<>>, <<>>, "?", c \o "()"))

AllBodies ==
  [swap  |-> <<Do(Assign("c", Ref("a"))), Do(Assign("a", Ref("b"))), Do(Assign("b", Ref("c")))>>,
   set   |-> <<Do(Assign("a", C(1))), Do(Assign("b", C(0)))>>,
   fails |-> <<Do(Assign("a", C(3))), Do(Call("raise", <<>>))>>,
   local |-> <<Do(Assign("i", C(1))), Do(Call("fill", <<PassRef(Ref("i"))>>)), Return(Ref("i"))>>,
   ints  |-> <<Return(Ref("m"))>>,
   wrong |-> <<Return(Ref("a"))>>,
   add   |-> <<Return(Sum(Ref("a"), Ref("b")))>>,
   first |-> <<Do(Assign("i", C(5))), Return(Ref("a"))>>,
   less  |-> <<Do(Call("raise", <<>>)), Return(Ref("n"))>>,
   in_place |-> <<Do(AssignAt("a", <<C(0)>>, C(2)))>>,
   get   |-> <<Return(This("k"))>>,
   inc   |-> <<Put("k", Sum(This("k"), C(1))), Do(Assign("d", C(0)))>>,
   gone  |-> <<Do(Assign("this", Ref("swap")))>>,
   base  |-> <<Do(Assign("k", C(0))), Maker0("base"), Method0("get", <<>>), Method0("inc", <<"d">>),
               Method0("gone", <<>>)>>,
   kid   |-> <<Do(Assign("k", C(1)))>>,
   own   |-> <<Define("own", Sig(<<"n">>, <<"i">>, "?", "own()"))>>,
   plain |-> <<Do(Assign("k", C(1)))>>,
   makes |-> <<Maker0("makes")>>,
   holds |-> <<Do(Assign("o", New("plain", <<>>)))>>,
   bad   |-> <<Do(Assign("k", Call("raise", <<>>)))>>]
  @@ ("base()" :> <<Put("by", Const(Name("base")))>>)
  @@ ("own()" :> <<Put("by", Const(Name("own"))), Put("k", Ref("n"))>>)
  @@ ("makes()" :> <<Put("by", Const(Name("makes"))), Put("o", New("plain", <<>>))>>)

Functions ==
  [raise |-> F(Builtin("raise", <<>>)), exit |-> F(Builtin("exit", <<>>)), fill |-> F(Builtin("fill", <<"?">>)),
   swap |-> Func(<<"a", "b">>, <<"?", "?">>, "?", "swap"),
   set |-> Func(<<"a", "b">>, <<"?", "?">>, "?", "set"),
   fails |-> Func(<<"a">>, <<"?">>, "?", "fails"),
   local |-> Func(<<>>, <<>>, "i", "local"),
   ints |-> Func(<<"n", "m">>, <<"i", "I">>, "i", "ints"),
   wrong |-> Func(<<>>, <<>>, "i", "wrong"),
   in_place |-> Func(<<>>, <<>>, "?", "in_place"),
   add |-> Func(<<"a", "b">>, <<"?", "?">>, "?", "add"),
   first |-> Func(<<"a">>, <<"?">>, "?", "first"),
   less |-> Func(<<"n">>, <<"I">>, "?", "less")]
  @@ [b \in {"map", "filter", "take_while", "drop_while", "call_array"} |-> F(Builtin(b, <<"p", "a">>))]
  @@ [call |-> F(Builtin("call", <<"p">>)), call_method |-> F(Builtin("call_method", <<"p", "c">>)),
      foldl |-> F(Builtin("foldl", <<"p", "?", "a">>)), foldr |-> F(Builtin("foldr", <<"p", "a", "?">>))]

Classes ==
  [base |-> Class("", "base"), kid |-> Class("base", "kid"), own |-> Class("base", "own"),
   plain |-> Class("", "plain"), makes |-> Class("", "makes"), holds |-> Class("base", "holds"),
   bad |-> Class("", "bad")]

Variables == [i |-> V(Num(0)), a |-> V(Array(<<Num(1), Num(0)>>))]
AllNames  == Variables @@ Functions @@ Classes

I == Ref("i")
A(e) == At("a", <<e>>)
Raise == Call("raise", <<>>)

\* Statements during which no kept pointer goes stale.
References == {PassRef(I), PassRef(A(C(0))), PassRef(A(I)), PassRef(A(A(I)))}
Careful ==
  {Assign("i", C(1)), Assign("a", I), AssignAt("a", <<I>>, C(1)), AssignAt("a", <<C(1)>>, Raise),
   AssignAt("a", <<C(1), C(0)>>, I), AssignAt("b", <<Field("k")>>, I), At("a", <<C(1), C(0)>>)}
    \cup {Call("swap", <<x, y>>) : x, y \in References}
    \cup {Call("fails", <<x>>) : x \in References}
    \cup {Call("fill", <<x>>) : x \in References}
    \cup {Call("swap", <<I, PassRef(Ref("a"))>>), Call("local", <<>>), Call("wrong", <<>>),
          Call("ints", <<I, Ref("a")>>), Call("ints", <<Raise, I>>), Call("swap", <<I>>),
          Call("swap", <<Assign("swap", Ref("set")), PassRef(I)>>), Call("nofn", <<>>),
          Call("fill", <<Assign("i", C(2))>>), Call("exit", <<>>)}
    \cup {Assign("p", New(c, args)) : c \in {"base", "kid", "own", "plain", "bad"}, args \in {<<>>, <<I>>}}
    \cup {New("own", <<PassRef(I)>>), New("own", <<Raise>>), StaticRef("kid", "k"), StaticRef("kid", "get")}
    \cup {Method(Ref("p"), "get", <<>>), Method(Ref("p"), "inc", <<PassRef(I)>>),
          Method(Ref("p"), "inc", <<Raise>>), Assign("i", At("p", <<Field("k")>>)),
          Assign("g", Lambda(Sig(<<"a", "b">>, <<"?", "?">>, "?", "set"))), Call("g", <<PassRef(I), I>>)}

\* Functions called by functions, on the elements of a and of other arrays.
Mixed == Const(Array(<<Num(2), Num(0), Array(<<>>), Num(1)>>))
Higher ==
  {Call(b, <<Ref("first"), Mixed>>) : b \in {"map", "filter", "take_while", "drop_while"}}
    \cup {Call(b, <<Ref("add"), PassRef(Ref("a")), C(2)>>) : b \in {"map", "filter", "take_while", "drop_while"}}
    \cup {Call("foldl", <<Ref(f), C(9), Mixed>>) : f \in {"add", "first"}}
    \cup {Call("foldr", <<Ref(f), Mixed, C(9)>>) : f \in {"add", "first"}}
    \cup {Call("map", <<Ref("fill"), PassRef(Ref("a"))>>), Call("map", <<Ref("fails"), Ref("a")>>),
          Call("map", <<Ref("less"), Const(Array(<<Num(1), Num(0)>>))>>), Call("map", <<Ref("exit"), Ref("a")>>),
          Call("call", <<Ref("set"), PassRef(I), C(2)>>), Call("call", <<Ref("map"), Ref("first"), Ref("a")>>),
          Call("call_array", <<Ref("add"), Ref("a")>>), Call("call_method", <<Ref("get"), Ref("p")>>),
          Call("map", <<Ref("first"), I>>), Call("filter", <<Ref("add"), Ref("a")>>)}

\* Statements that use what is no longer there, or that no test of the repository
\* would expect: an argument that rebinds the function, an index that changes the
\* variable, an object made for or inside a constructor, a static call, more
\* references than parameters, `this' turned into a function, a method of what
\* throws, an index that is computed or assigns, an array of the global table
\* changed by a function, an element of an element that throws, elements and
\* results that the function they are handed to casts or sets.
CarelessOnes ==
  {Call("swap", <<Assign("swap", I), I>>), AssignAt("a", <<Assign("a", C(0))>>, I), At("a", <<Assign("b", I)>>),
   Assign("p", New("own", <<New("base", <<>>)>>)), Assign("p", New("makes", <<>>)),
   Assign("p", New("holds", <<>>)), Static("kid", "get", <<>>),
   Call("fails", <<I, PassRef(I)>>), Method(Ref("p"), "gone", <<>>),
   Method(Raise, "get", <<>>), StaticRef("bad", "k"), Call("in_place", <<>>),
   Call("set", <<PassRef(I), PassRef(A(Sum(I, C(0))))>>),
   AssignAt("a", <<C(0), Raise>>, I), Call("map", <<Ref("less"), Mixed>>),
   Call("drop_while", <<Ref("fill"), Mixed>>),
   Call("foldl", <<Ref("less"), Mixed, Ref("a")>>)}

AllStatements ==
  LET one == {Statement(e) : e \in Careful}
  IN one \cup {Statement(e) : e \in Higher}
       \cup {Tried(c) : c \in one} \cup {Tried(Statement(Call("map", <<Ref("fails"), Ref("a")>>)))}
       \cup {Careless(Tried(Statement(e))) : e \in CarelessOnes}
       \cup {Test(Statement(e)) : e \in {Lambda(Sig(<<"a", "b">>, <<"?", "?">>, "?", "set")), Call("local", <<>>)}}
=============================================================================
