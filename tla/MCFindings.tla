------------------------------ MODULE MCFindings ------------------------------
(***************************************************************************)
(* Programs on which the evaluator does not do what the manual or a        *)
(* comment of the source says.                                             *)
(***************************************************************************)
EXTENDS MCPrograms

\* One program for each of the places where the evaluator leaves the manual.
NestedReturn == {InFunction(While(In("w"), While(In("x"), ReturnValue(In("r")))))}
NestedReturnCall ==
  {[main |-> Block(<<Do(Call("f", <<>>))>>),
    fns  |-> [f |-> Fn(0, While(Call("h", <<>>), While(In("x"), ReturnValue(In("r"))))),
              h |-> Fn(0, If(In("c"), ReturnValue(In("v"))))]]}
ReturnThrow  == {InTry(ReturnValue(Call("g", <<In("x")>>)))}
FallThrough  == {InMain(While(In("w"), Switch(In("s"), <<Case(In("k"), <<Continue, Nop>>),
                                                         Case(In("l"), <<Do(In("a"))>>)>>)))}
CallersLoop  == {InFunction(Break)}
ThrowThrow   == {InTry(Throw(Call("g", <<In("x")>>)))}
ThrowExit    == {InMain(Throw(Exit))}
DoTestCall   == {InMain(DoWhile(Continue, Call("g", <<In("x")>>)))}

FindingTrees == TreesOf(NestedReturn \cup NestedReturnCall \cup ReturnThrow \cup FallThrough
                          \cup CallersLoop \cup ThrowThrow \cup ThrowExit \cup DoTestCall)
=============================================================================
