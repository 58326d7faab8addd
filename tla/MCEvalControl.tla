---------------------------- MODULE MCEvalControl -----------------------------
(***************************************************************************)
(* Every program of the grid, whether or not the evaluator follows the     *)
(* manual on it, and programs that run into the nesting limits.            *)
(***************************************************************************)
EXTENDS MCPrograms

\* A few programs that take every kind of statement and run into the nesting
\* limits: recursion through every construct, loops and tries three deep.
Recursive ==
  {[main |-> Block(<<st, Do(In("end"))>>), fns |-> [f |-> Fn(0, st)]] :
     st \in {If(In("c"), Do(Call("f", <<>>))),
             While(In("w"), Do(Call("f", <<>>))),
             Try(Do(Call("f", <<>>)), "e", Do(In("h"))),
             DoWhile(If(In("c"), Do(Call("f", <<>>))), In("d")),
             For(In("i"), In("w"), Call("f", <<>>), Break)}}

Nested ==
  {InMain(st) : st \in
     {While(In("w"), DoWhile(For(In("i"), In("x"), In("g"), Do(In("a"))), In("d"))),
      Try(Try(Try(Throw(In("t")), "e", Nop), "e", Nop), "e", Nop)}}

LimitPrograms ==
  Recursive \cup Nested
    \cup {InTry(st) : st \in {Throw(In("t")), Do(Raise), Do(Call("g", <<Raise>>)),
                             Do(Call("g", <<>>)), Do(Call("nofn", <<>>)), ReturnVoid,
                             IfElse(And(In("a"), Or(In("b"), Exit)), Nop, Throw(In("t"))),
                             While(In("w"), Continue)}}
    \cup {InFunction(st) : st \in {ReturnValue(Cond(In("c"), Call("g", <<In("x")>>), In("b")))}
                                   \cup Switches({Do(In("a")), Break}, {Nop})}

AllPrograms == {InFunction(st) : st \in Depth1 \cup ExprStmts}
                 \cup {InMain(st) : st \in Depth2 \cup ExprStmts}
                 \cup LimitPrograms
AllTrees == TreesOf(AllPrograms)
=============================================================================
