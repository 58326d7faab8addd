------------------------------- MODULE Syntax -------------------------------
(***************************************************************************)
(* The statement and expression trees the parser hands to the evaluator.   *)
(*                                                                         *)
(* One record stands for a stmt or an expr of libparser: `op' is its type, *)
(* `name' the identifier it carries (an input, a function, a catch         *)
(* variable), `kids' its sub-trees in the order the evaluator visits       *)
(* them, and `thru' the fall-through mark of a switch group.  Each         *)
(* constructor is named for the statement and builds what the semantic     *)
(* action of the grammar builds for it.                                    *)
(***************************************************************************)
EXTENDS Naturals, Sequences

LoopOps  == {"WHILE", "DO", "FOR"}
StmtOps  == LoopOps \cup {"NOP", "BLOCK", "IF", "IF_ELSE", "CONTINUE", "BREAK",
             "RETURN", "EXPR", "TRY", "THROW", "SWITCH"}
LabelOps == {"CASE", "DEFAULT"}
ExprOps  == {"INPUT", "CALL", "RAISE", "EXIT", "AND", "OR", "COND"}
Ops      == StmtOps \cup LabelOps \cup ExprOps

Tree(op, name, kids) == [op |-> op, name |-> name, kids |-> kids, thru |-> FALSE]

\* Expressions.  Input(x) is any expression that reads its value from outside
\* the control part of the evaluator; Raise is a builtin that throws (a failed
\* load_module) and Exit the builtin exit().
Input(x)      == Tree("INPUT", x, <<>>)
Raise         == Tree("RAISE", "", <<>>)
Exit          == Tree("EXIT", "", <<>>)
And(a, b)     == Tree("AND", "", <<a, b>>)
Or(a, b)      == Tree("OR", "", <<a, b>>)
Cond(t, a, b) == Tree("COND", "", <<t, a, b>>)
Call(f, args) == Tree("CALL", f, args)

\* Statements.
Nop             == Tree("NOP", "", <<>>)
Continue        == Tree("CONTINUE", "", <<>>)
Break           == Tree("BREAK", "", <<>>)
ReturnVoid      == Tree("RETURN", "", <<>>)
ReturnValue(e)  == Tree("RETURN", "", <<e>>)
Throw(e)        == Tree("THROW", "", <<e>>)
Do(e)           == Tree("EXPR", "", <<e>>)
Block(stmts)    == Tree("BLOCK", "", stmts)
If(t, a)        == Tree("IF", "", <<t, a>>)
IfElse(t, a, b) == Tree("IF_ELSE", "", <<t, a, b>>)
While(t, a)     == Tree("WHILE", "", <<t, a>>)
DoWhile(a, t)   == Tree("DO", "", <<t, a>>)
For(i, t, g, a) == Tree("FOR", "", <<t, a, i, g>>)
Try(a, x, b)    == Tree("TRY", x, <<a, b>>)
Switch(e, ls)   == Tree("SWITCH", "", <<e>> \o ls)

\* stmt_end_case: the grammar takes a `break' off the end of a group that has a
\* statement before it, and a group that is then a lone `break' gets an empty
\* statement instead; both end the switch.  A default group never falls through.
Case(e, stmts) ==
  LET last  == Len(stmts)
      taken == last > 1 /\ stmts[last] = Break
      list  == CASE stmts = <<>> -> <<Nop>>
                 [] taken        -> SubSeq(stmts, 1, last - 1)
                 [] OTHER        -> stmts
      lone  == list = <<Break>>
  IN [op |-> "CASE", name |-> "", thru |-> ~(taken \/ lone),
      kids |-> <<e, Block(IF lone THEN <<Nop>> ELSE list)>>]

Default(stmts) ==
  Tree("DEFAULT", "", <<Block(IF stmts = <<>> THEN <<Nop>> ELSE stmts)>>)

\* The parts of a tree, under the names the evaluator uses for them.
Part(n, k)    == n.kids[k]
Test(n)       == Part(n, 1)          \* expr of IF, IF_ELSE, WHILE, DO, FOR, SWITCH
TrueCase(n)   == Part(n, 2)
FalseCase(n)  == Part(n, 3)
ForInit(n)    == Part(n, 3)          \* the two other expressions of FOR
ForGuard(n)   == Part(n, 4)
TryPart(n)    == Part(n, 1)
CatchPart(n)  == Part(n, 2)
Group(label)  == Part(label, Len(label.kids))
Labels(n)     == Len(n.kids) - 1     \* groups of a SWITCH
Label(n, i)   == Part(n, i + 1)
Defaults(n)   == {i \in 1..Labels(n) : Label(n, i).op = "DEFAULT"}

\* The parts that are of type expr; the others are of type stmt.
ExprParts(n) == CASE n.op \in ExprOps -> 1..Len(n.kids)
                  [] n.op = "FOR"     -> {1, 3, 4}
                  [] n.op \in {"WHILE", "DO", "IF", "IF_ELSE", "SWITCH", "EXPR", "RETURN",
                               "THROW", "CASE"} -> {1}
                  [] OTHER            -> {}

\* How many parts each kind of tree has (a list has any number), of which type.
WellFormed(n) ==
  /\ n.op \in {"NOP", "CONTINUE", "BREAK", "INPUT", "RAISE", "EXIT"} => Len(n.kids) = 0
  /\ n.op = "RETURN" => Len(n.kids) \in 0..1
  /\ n.op \in {"EXPR", "THROW", "DEFAULT"} => Len(n.kids) = 1
  /\ n.op \in {"IF", "WHILE", "DO", "TRY", "CASE", "AND", "OR"} => Len(n.kids) = 2
  /\ n.op \in {"IF_ELSE", "COND"} => Len(n.kids) = 3
  /\ n.op = "FOR" => Len(n.kids) = 4
  /\ n.op = "SWITCH" => /\ Len(n.kids) > 1
                        /\ \A i \in 1..Labels(n) : Label(n, i).op \in LabelOps
  /\ \A i \in 1..Len(n.kids) : Part(n, i).op \in ExprOps <=> i \in ExprParts(n)
=============================================================================
