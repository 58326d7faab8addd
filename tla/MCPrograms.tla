------------------------------ MODULE MCPrograms ------------------------------
(***************************************************************************)
(* Programs for EvalControl.                                               *)
(*                                                                         *)
(* The programs are all those of a bounded depth over a few leaf           *)
(* statements, each put in the body of a function that a try statement     *)
(* calls, or in the main script.                                           *)
(***************************************************************************)
EXTENDS EvalControl

Promise == INSTANCE Manual

\* The trees of a set of programs, for the constant Node.
TreesOf(P) == UNION {Promise!Trees(p) : p \in P}

In(x) == Input(x)

Leaves == {Do(In("a")), ReturnValue(In("r")), Throw(In("t")), Break, Continue}

Wrapped(S) == UNION {{If(In("c"), x), While(In("w"), x), DoWhile(x, In("d")),
                      For(In("i"), In("w"), In("g"), x),
                      Try(x, "e", Do(In("h")))} : x \in S}

Pairs(S, T) == {Block(<<x, y>>) : x \in S, y \in T}
Choices(S, T) == {IfElse(In("c"), x, y) : x \in S, y \in T}
                   \cup {Try(x, "e", y) : x \in S, y \in T}

Switches(S, T) == {Switch(In("s"), <<Case(In("k"), <<x>>), Case(In("l"), <<y>>)>>) : x \in S, y \in T}
                    \cup {Switch(In("s"), <<Case(In("k"), <<x>>), Default(<<Do(In("z"))>>),
                                            Case(In("l"), <<y, Break>>)>>) : x \in S, y \in T}

Depth1 == Leaves \cup Wrapped(Leaves) \cup Pairs(Leaves, Leaves)
            \cup Choices(Leaves, Leaves) \cup Switches(Leaves, Leaves)
Depth2 == Depth1 \cup Wrapped(Depth1) \cup Pairs(Depth1, Leaves)

\* Expressions whose evaluation steers control, as the one leaf of a body.
Exprs == LET e == {In("a"), Raise, Exit, Call("g", <<>>), Call("g", <<In("x")>>),
                   Call("g", <<Raise>>), Call("nofn", <<>>)}
         IN e \cup {And(x, y) : x \in e, y \in e} \cup {Or(x, y) : x \in e, y \in {In("b"), Raise}}
              \cup {Cond(In("c"), x, y) : x \in e, y \in {In("b"), Raise}}

ExprStmts == UNION {{Do(e), ReturnValue(e), Throw(e), While(e, Do(In("a"))), If(e, Break),
                     DoWhile(Continue, e), For(e, In("w"), In("g"), Nop)} : e \in Exprs}

\* A function of the program; g takes one argument.
Fn(args, body) == [args |-> args, body |-> body]
G == Fn(1, Block(<<If(In("j"), Throw(In("t"))), ReturnValue(In("v"))>>))

\* Body st as a function that main calls from a try in a loop, and as main.
InFunction(st) ==
  [main |-> Block(<<While(In("m"), Try(Do(Call("f", <<>>)), "o", Do(In("u")))),
                    Do(In("end"))>>),
   fns  |-> [f |-> Fn(0, Block(<<st, Do(In("z"))>>)), g |-> G]]
InMain(st) == [main |-> Block(<<st, Do(In("end"))>>), fns |-> [g |-> G]]
InTry(st)  == [main |-> Block(<<Try(Do(Call("f", <<>>)), "o", Do(In("u"))), Do(In("end"))>>),
               fns  |-> [f |-> Fn(0, Block(<<Try(st, "p", Do(In("q"))), Do(In("z"))>>)), g |-> G]]
=============================================================================
