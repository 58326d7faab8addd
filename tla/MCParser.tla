------------------------------ MODULE MCParser ------------------------------
(***************************************************************************)
(* Scripts for Parser: all small ones over chosen sets of productions.     *)
(***************************************************************************)
EXTENDS Parser

Names(rs)  == {r.name : r \in rs}
AllExprs   == Names(ExprRules(1, 2, 0) \cup IndexRules(1, 2, 0) \cup CallRules(1, 2, 0))
AllStmts   == Names(StmtRules(1, 2, 0))
AllDefs    == Names(DefinitionRules(1, 2, 0))

Leaves     == {"ref", "static_ref", "const", "void", "line", "indexable", "call_void", "new_void",
               "array_void", "struct_void", "static_void", "method_void"}
SimpleStmts == {"expr", "break", "continue", "return", "return_value", "throw", "nop", "empty"}

Source(start, names, size) == [start |-> start, rules |-> names, size |-> size]

\* One production of each form, for the larger expressions.
Forms == {"ref", "indexable", "indexed", "postfix", "infix", "if", "lambda", "op_assign",
          "assign_array", "op_assign_array", "ref_array", "index", "index_next", "field_next",
          "base", "by_index", "by_method", "call", "array", "arg", "arg_next", "by_value", "by_ref",
          "element", "element_next", "no_key", "with_key", "ref_method"}

\* Every expression of one step with every leaf, of two steps with one leaf, and
\* of three steps of the chosen forms; every control statement of three steps;
\* functions and classes of four.
Common == {"ref", "expr", "one", "no_args"}
SomeSources ==
  {Source("block", AllExprs \cup Common, 1),
   Source("block", (AllExprs \ Leaves) \cup Common \cup {"indexable"}, 2),
   Source("block", Forms \cup Common, 3),
   Source("statements", (AllStmts \ (SimpleStmts \ {"expr", "break"})) \cup {"ref"}, 3),
   Source("program", AllDefs \cup {"one", "more", "expr", "include", "ref", "block"}, 4)}

\* An include as the body of a statement.
IncludeBodies == {Source("statements", {"one", "if", "while", "include", "expr", "ref"}, 2)}
=============================================================================
