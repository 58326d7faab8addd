------------------------------ MODULE Grammar ------------------------------
(***************************************************************************)
(* The grammar of a script, and the semantic actions of its productions.   *)
(*                                                                         *)
(* A production is a sequence of symbols.  NT(x) is a nonterminal and      *)
(* Say(w) something the source text says: constructs are written in        *)
(* brackets, Open ... Close, which stand for the parse tree bison chose.   *)
(* Everything else is a call of a function of the parser, as a record:     *)
(* Expr and Stmt build one node from the two stacks, and the few functions *)
(* that do more have a record of their own.  Identifiers and constants are *)
(* numbers, different for every occurrence.                                *)
(***************************************************************************)
EXTENDS Naturals, Sequences

NT(x) == [do |-> "nonterminal", lhs |-> x]

Word(type, op, name, tname, file) ==
  [type |-> type, op |-> op, name |-> name, tname |-> tname, file |-> file]
CloseWord  == Word("end", "", 0, 0, 0)
Say(w)     == [do |-> "say", word |-> w]
Close      == Say(CloseWord)

\* A node of type `type' takes the expressions named in `pops' off the stack,
\* in this order; "argv" is safe_args(), as many as were counted.
Expr(type, op, name, tname, pops) ==
  [do |-> "expr", type |-> type, op |-> op, name |-> name, tname |-> tname, pops |-> pops]

expr_end_assign(x)        == Expr("ASSIGN", "", x, 0, <<"inner">>)
expr_end_assign_array(x)  == Expr("ASSIGN_ARRAY", "", x, 0, <<"inner", "argv">>)
expr_end_cast(t)          == Expr("CAST", t, 0, 0, <<"inner">>)
VoidTakesArgs(x, cons)         == Expr("CALL", "", x, 0, <<"argv">>)   \* mutant of expr_end_call_void
expr_end_call_void(x, cons)    == Expr(IF cons THEN "NEW" ELSE "CALL", "", x, 0, <<>>)
expr_end_call(x, cons)         == Expr(IF cons THEN "NEW" ELSE "CALL", "", x, 0, <<"argv">>)
expr_end_static_void(t, x)     == Expr("STATIC", "", x, t, <<>>)
expr_end_static(t, x)          == Expr("STATIC", "", x, t, <<"argv">>)
expr_end_method_void(x)        == Expr("METHOD", "", x, 0, <<"inner">>)
expr_end_method(x)             == Expr("METHOD", "", x, 0, <<"argv", "inner">>)
expr_end_typeinit_void(array)  == Expr("CALL", IF array THEN "mkarray" ELSE "mkstruct", 0, 0, <<>>)
expr_end_typeinit(array)       == Expr("CALL", IF array THEN "mkkeyarray" ELSE "mkstruct", 0, 0, <<"argv">>)
expr_end_use              == Expr("CALL", "module_load", 0, 0, <<"argv">>)
expr_end_ref(x)           == Expr("REF", "", x, 0, <<>>)
expr_end_ref_array(x)     == Expr("REF_ARRAY", "", x, 0, <<"argv">>)
expr_end_static_ref(t, x) == Expr("STATIC_REF", "", x, t, <<>>)
IndexKeepsCount           == Expr("INDEX", "", 0, 0, <<"index", "inner">>)   \* mutant of expr_end_index
expr_end_index            == Expr("INDEX", "", 0, 0, <<"argv", "inner">>)
expr_end_const(type, x)   == Expr(type, "", x, 0, <<>>)
expr_end_true             == Expr("CONST_BOOL", "true", 0, 0, <<>>)
expr_end_simple(type)     == Expr(type, "", 0, 0, <<>>)
expr_end_infix(op)        == Expr("INFIX", op, 0, 0, <<"index", "inner">>)
expr_end_postfix(op)      == Expr("POSTFIX", op, 0, 0, <<"inner">>)
expr_end_prefix(op)       == Expr("PREFIX", op, 0, 0, <<"inner">>)
expr_end_if               == Expr("IF", "", 0, 0, <<"elif", "index", "inner">>)
expr_end_pass_ref         == Expr("PASS_REF", "", 0, 0, <<"inner">>)

expr_end_first            == [do |-> "first"]
expr_end_next             == [do |-> "next"]
expr_end_keyarray_single  == [do |-> "keyarray_single"]
expr_end_op_assign(x, op)       == [do |-> "op_assign", name |-> x, op |-> op]
expr_end_op_assign_array(x, op) == [do |-> "op_assign_array", name |-> x, op |-> op]
expr_begin_lambda         == [do |-> "begin_func"]
expr_end_lambda           == [do |-> "end_lambda"]

\* A statement takes the statements named in `stmts' off the topmost list and
\* the expressions named in `exprs' off their stack; `leave' says what becomes
\* of the list: kept open, freed, or made the block of the statement.
Stmt(type, op, name, exprs, stmts, leave) ==
  [do |-> "stmt", type |-> type, op |-> op, name |-> name, exprs |-> exprs,
   stmts |-> stmts, leave |-> leave]

stmt_begin        == [do |-> "enter"]
stmt_end_block    == Stmt("BLOCK", "", 0, <<>>, <<>>, "block")
stmt_end_while    == Stmt("WHILE", "", 0, <<"expr">>, <<"true_case">>, "free")
stmt_end_do       == Stmt("DO", "", 0, <<"expr">>, <<"true_case">>, "free")
\* mutant of stmt_end_for
StepBeforeTest    == Stmt("FOR", "", 0, <<"expr", "guard", "init">>, <<"true_case">>, "free")
stmt_end_for      == Stmt("FOR", "", 0, <<"guard", "expr", "init">>, <<"true_case">>, "free")
stmt_end_simple(type)      == Stmt(type, "", 0, <<>>, <<>>, "open")
stmt_end_simple_expr(type) == Stmt(type, "", 0, <<"expr">>, <<>>, "open")
stmt_end_switch   == Stmt("SWITCH", "", 0, <<"expr">>, <<>>, "block")
stmt_end_default  == Stmt("DEFAULT", "", 0, <<>>, <<>>, "block")
stmt_end_try(x)   == Stmt("TRY", "", x, <<>>, <<"false_case", "true_case">>, "free")
stmt_end_class(x) == Stmt("CLASS", "", x, <<>>, <<>>, "block")

stmt_end_if          == [do |-> "end_if"]
stmt_end_case(thru)  == [do |-> "end_case", thru |-> thru]
stmt_begin_func      == [do |-> "begin_func"]
stmt_end_rettype(t)  == [do |-> "rettype", type |-> t]
stmt_end_arg(t, x)   == [do |-> "arg", type |-> t, name |-> x]
stmt_end_func(x)     == [do |-> "end_func", name |-> x]
stmt_end_extends(x)  == [do |-> "extends", name |-> x]
parser_enter_include(x) == [do |-> "include", name |-> x]

-----------------------------------------------------------------------------
\* A production: its left-hand sides, its name, what it counts for the size of
\* a script, and its symbols.  Two nonterminals of the grammar are split: a
\* `body' is a block that is the part of a statement, and a `tail' is one that
\* follows the first in a case group, where bison takes a break to be the end.
Rule(lhs, name, size, rhs) == [lhs |-> lhs, name |-> name, size |-> size, rhs |-> rhs]

E == NT("expr")

\* In all of these, a and b are the identifiers of this occurrence and f is the
\* file it stands in.  `node' is a construct: what the text says of it and how
\* it is built.
ExprRules(a, b, f) ==
  LET node(type, op, x, t, rhs) == <<Say(Word(type, op, x, t, f))>> \o rhs \o <<Close>>
      leaf(type, op, x, t, act) == node(type, op, x, t, <<act>>)
      R(name, size, rhs)        == Rule({"expr"}, name, size, rhs)
  IN {R("ref", 0, leaf("REF", "", a, 0, expr_end_ref(a))),
      R("ref_array", 1, node("REF_ARRAY", "", a, 0, <<NT("refexp"), expr_end_ref_array(a)>>)),
      R("static_ref", 0, leaf("STATIC_REF", "", b, a, expr_end_static_ref(a, b))),
      R("const", 0, leaf("CONST_INT", "", a, 0, expr_end_const("CONST_INT", a))),
      R("void", 0, leaf("CONST_VOID", "", 0, 0, expr_end_simple("CONST_VOID"))),
      R("line", 0, leaf("LINE", "", 0, 0, expr_end_simple("LINE"))),
      R("use", 1, node("CALL", "module_load", 0, 0, <<NT("modlist"), expr_end_use>>)),
      R("indexable", 0, <<NT("indexable")>>),
      R("indexed", 1, <<NT("indexed")>>),
      R("cast", 1, node("CAST", "int", 0, 0, <<E, expr_end_cast("int")>>)),
      R("prefix", 1, node("PREFIX", "NOT", 0, 0, <<E, expr_end_prefix("NOT")>>)),
      R("postfix", 1, node("POSTFIX", "POSTINC", 0, 0, <<E, expr_end_postfix("POSTINC")>>)),
      R("infix", 1, node("INFIX", "MINUS", 0, 0, <<E, E, expr_end_infix("MINUS")>>)),
      R("strings", 1, node("INFIX", "PLUS", 0, 0,
          leaf("CONST_STRING", "", a, 0, expr_end_const("CONST_STRING", a)) \o
          leaf("CONST_STRING", "", b, 0, expr_end_const("CONST_STRING", b)) \o
          <<expr_end_infix("PLUS")>>)),
      R("if", 1, node("IF", "", 0, 0, <<E, E, E, expr_end_if>>)),
      R("lambda", 1, node("LAMBDA", "", 0, 0,
          <<expr_begin_lambda, NT("argdefs"), NT("statements"), expr_end_lambda>>)),
      R("assign", 1, node("ASSIGN", "", a, 0, <<E, expr_end_assign(a)>>)),
      R("assign_array", 1, node("ASSIGN_ARRAY", "", a, 0,
          <<NT("refexp"), E, expr_end_assign_array(a)>>)),
      \* x += e says x = x + e, and x[i] += e says x[i] = x[i] + e.
      R("op_assign", 1, node("ASSIGN", "", a, 0, node("INFIX", "PLUS", 0, 0,
          <<Say(Word("REF", "", a, 0, f)), Close, E>>) \o <<expr_end_op_assign(a, "PLUS")>>)),
      R("op_assign_array", 1, node("ASSIGN_ARRAY", "", a, 0,
          <<NT("refexp")>> \o
          node("INFIX", "PLUS", 0, 0,
            node("REF_ARRAY", "", a, 0, <<[do |-> "again", name |-> a]>>) \o <<E>>) \o
          <<expr_end_op_assign_array(a, "PLUS")>>))}

IndexRules(a, b, f) ==
  LET node(type, x, rhs) == <<Say(Word(type, "", x, 0, f))>> \o rhs \o <<Close>>
      field              == node("FIELD", b, <<expr_end_const("FIELD", b)>>)
      base               == NT("base")
  IN {Rule({"refexp"}, "index", 0, <<E, expr_end_first>>),
      Rule({"refexp"}, "field", 0, field \o <<expr_end_first>>),
      Rule({"refexp"}, "index_next", 1, <<NT("refexp"), E, expr_end_next>>),
      Rule({"refexp"}, "field_next", 1, <<NT("refexp")>> \o field \o <<expr_end_next>>),
      Rule({"base"}, "base", 0, <<NT("indexable")>>),
      Rule({"base"}, "base_indexed", 1, <<NT("indexed")>>),
      Rule({"indexed"}, "by_index", 0, node("INDEX", 0, <<base, E, expr_end_first, expr_end_index>>)),
      Rule({"indexed"}, "by_field", 0,
        node("INDEX", 0, <<base>> \o field \o <<expr_end_first, expr_end_index>>)),
      Rule({"indexed"}, "by_method_void", 0, node("METHOD", b, <<base, expr_end_method_void(b)>>)),
      Rule({"indexed"}, "by_method", 0,
        node("METHOD", b, <<base, NT("arglist"), expr_end_method(b)>>))}

CallRules(a, b, f) ==
  LET node(type, op, x, t, rhs) == <<Say(Word(type, op, x, t, f))>> \o rhs \o <<Close>>
      ref    == node("REF", "", a, 0, <<expr_end_ref(a)>>)
      refs   == node("REF_ARRAY", "", a, 0, <<NT("refexp"), expr_end_ref_array(a)>>)
      void   == Say(Word("CONST_VOID", "", 0, 0, f))
      string == node("CONST_STRING", "", a, 0, <<expr_end_const("CONST_STRING", a)>>)
      args   == NT("arglist")
      pair   == <<expr_end_next, expr_end_next>>
      I(name, size, rhs) == Rule({"indexable"}, name, size, rhs)
  IN {I("paren", 1, <<E>>),
      I("call_void", 0, node("CALL", "", a, 0, <<expr_end_call_void(a, FALSE)>>)),
      I("call", 1, node("CALL", "", a, 0, <<args, expr_end_call(a, FALSE)>>)),
      I("new_void", 0, node("NEW", "", a, 0, <<expr_end_call_void(a, TRUE)>>)),
      I("new", 1, node("NEW", "", a, 0, <<args, expr_end_call(a, TRUE)>>)),
      I("array_void", 0, node("CALL", "mkarray", 0, 0, <<expr_end_typeinit_void(TRUE)>>)),
      I("array", 1, node("CALL", "mkkeyarray", 0, 0, <<NT("arrlist"), expr_end_typeinit(TRUE)>>)),
      I("struct_void", 0, node("CALL", "mkstruct", 0, 0, <<expr_end_typeinit_void(FALSE)>>)),
      I("struct", 1, node("CALL", "mkstruct", 0, 0, <<NT("structlist"), expr_end_typeinit(FALSE)>>)),
      I("static_void", 0, node("STATIC", "", b, a, <<expr_end_static_void(a, b)>>)),
      I("static", 1, node("STATIC", "", b, a, <<args, expr_end_static(a, b)>>)),
      I("method_void", 0, node("METHOD", "", b, 0, ref \o <<expr_end_method_void(b)>>)),
      I("method", 1, node("METHOD", "", b, 0, ref \o <<args, expr_end_method(b)>>)),
      I("ref_method_void", 1, node("METHOD", "", b, 0, refs \o <<expr_end_method_void(b)>>)),
      I("ref_method", 1, node("METHOD", "", b, 0, refs \o <<args, expr_end_method(b)>>)),
      Rule({"arglist"}, "arg", 0, <<NT("argexpr"), expr_end_first>>),
      Rule({"arglist"}, "arg_next", 1, <<args, NT("argexpr"), expr_end_next>>),
      Rule({"argexpr"}, "by_value", 0, <<E>>),
      Rule({"argexpr"}, "by_ref", 1, node("PASS_REF", "", 0, 0, <<E, expr_end_pass_ref>>)),
      Rule({"modlist"}, "module", 0, string \o <<expr_end_first>>),
      Rule({"modlist"}, "module_next", 1, <<NT("modlist")>> \o string \o <<expr_end_next>>),
      Rule({"arrlist"}, "element", 0, <<NT("arrarg"), expr_end_first, expr_end_next>>),
      Rule({"arrlist"}, "element_next", 1, <<NT("arrlist"), NT("arrarg")>> \o pair),
      \* An element without a key has the void key.
      Rule({"arrarg"}, "no_key", 0, <<void, Close, E, expr_end_keyarray_single>>),
      Rule({"arrarg"}, "with_key", 0, <<E, E>>),
      Rule({"structlist"}, "member", 0, <<NT("structarg"), expr_end_first, expr_end_next>>),
      Rule({"structlist"}, "member_next", 1, <<NT("structlist"), NT("structarg")>> \o pair),
      Rule({"structarg"}, "member_void", 0,
        string \o <<void, expr_end_simple("CONST_VOID"), Close>>),
      Rule({"structarg"}, "member_value", 0, string \o <<E>>)}

StmtRules(a, b, f) ==
  LET node(type, op, x, rhs) == <<Say(Word(type, op, x, 0, 0))>> \o rhs \o <<Close>>
      simple(type)       == node(type, "", 0, <<stmt_end_simple(type)>>)
      simple_expr(type)  == node(type, "", 0, <<E, stmt_end_simple_expr(type)>>)
      begun(type, x, rhs) == node(type, "", x, <<stmt_begin>> \o rhs)
      group(thru, rhs)   == <<stmt_begin>> \o node("CASE", thru, 0, <<E>> \o rhs)
      brk                == simple("BREAK")
      \* A lone break is an empty group that does not fall through.
      lone               == <<Say(Word("NOP", "", 0, 0, 0)), stmt_end_simple("BREAK"), Close>>
      body               == NT("body")
      list               == NT("statements")
      tails              == NT("tails")
      B(name, size, rhs) == Rule({"block", "body", "tail"}, name, size, rhs)
      C(name, size, rhs) == Rule({"case"}, name, size, rhs)
  IN {Rule({"statements"}, "one", 0, <<NT("block")>>),
      Rule({"statements"}, "more", 1, <<list, NT("block")>>),
      Rule({"tails"}, "tail", 0, <<NT("tail")>>),
      Rule({"tails"}, "tails", 1, <<tails, NT("tail")>>),
      Rule({"block", "body"}, "break", 0, brk),
      B("expr", 0, simple_expr("EXPR")),
      B("continue", 0, simple("CONTINUE")),
      B("return", 0, simple("RETURN")),
      B("return_value", 0, simple_expr("RETURN")),
      B("throw", 0, simple_expr("THROW")),
      B("nop", 0, simple("NOP")),
      B("include", 1, <<parser_enter_include(a)>>),
      B("block", 1, begun("BLOCK", 0, <<list, stmt_end_block>>)),
      B("empty", 0, begun("BLOCK", 0, simple("NOP") \o <<stmt_end_block>>)),
      B("if", 1, begun("IF", 0, <<E, body, stmt_end_if>>)),
      B("if_else", 1, begun("IF_ELSE", 0, <<E, body, body, stmt_end_if>>)),
      B("while", 1, begun("WHILE", 0, <<E, body, stmt_end_while>>)),
      B("do", 1, begun("DO", 0, <<body, E, stmt_end_do>>)),
      B("for", 1, begun("FOR", 0, <<NT("nullexpr"), NT("nullexpr"), NT("nullexpr"), body, stmt_end_for>>)),
      B("switch", 1, begun("SWITCH", 0, <<E, NT("cases"), stmt_end_switch>>)),
      B("try", 1, begun("TRY", a, <<body, body, stmt_end_try(a)>>)),
      Rule({"nullexpr"}, "given", 0, <<E>>),
      Rule({"nullexpr"}, "omitted", 0,
        <<Say(Word("CONST_BOOL", "true", 0, 0, f)), expr_end_true, Close>>),
      Rule({"cases"}, "case", 0, <<NT("case")>>),
      Rule({"cases"}, "cases", 1, <<NT("cases"), NT("case")>>),
      C("thru", 0, group("thru", <<tails, stmt_end_case(TRUE)>>)),
      C("thru_empty", 0, group("thru", simple("NOP") \o <<stmt_end_case(TRUE)>>)),
      C("break_alone", 0, group("", lone \o <<stmt_end_case(TRUE)>>)),
      C("break_twice", 0, group("", lone \o <<stmt_end_case(FALSE)>>)),
      C("break_first", 0, group("thru", brk \o simple_expr("EXPR") \o <<stmt_end_case(TRUE)>>)),
      C("break_last", 0, group("", <<tails, stmt_end_case(FALSE)>>)),
      C("default", 0, <<stmt_begin>> \o node("DEFAULT", "", 0, <<list, stmt_end_default>>)),
      C("default_empty", 0, <<stmt_begin>> \o
        node("DEFAULT", "", 0, simple("NOP") \o <<stmt_end_default>>))}

DefinitionRules(a, b, f) ==
  LET node(type, op, x, t, file, rhs) == <<Say(Word(type, op, x, t, file))>> \o rhs \o <<Close>>
      value(rhs)  == node("EXPR", "", 0, 0, 0, node("ASSIGN", "", a, 0, f,
                       rhs \o <<expr_end_assign(a)>>) \o <<stmt_end_simple_expr("EXPR")>>)
      class(parent) == node("CLASS", "", a, parent, 0,
                         <<stmt_begin, stmt_end_extends(parent), NT("classdecls"), stmt_end_class(a)>>)
      void == node("CONST_VOID", "", 0, 0, f, <<expr_end_simple("CONST_VOID")>>)
  IN {Rule({"program"}, "no_program", 0, <<>>),
      Rule({"program"}, "program", 0, <<NT("fstatements")>>),
      Rule({"fstatements"}, "fone", 0, <<NT("fblock")>>),
      Rule({"fstatements"}, "fmore", 1, <<NT("fstatements"), NT("fblock")>>),
      Rule({"fblock"}, "fundef", 0, <<NT("fundef")>>),
      Rule({"fblock"}, "classdef", 1, class(0)),
      Rule({"fblock"}, "extends", 1, class(b)),
      Rule({"fblock"}, "fblock", 0, <<NT("block")>>),
      Rule({"fundef"}, "func", 1, <<stmt_begin_func>> \o
        node("FUNC", "i", a, 0, 0, <<stmt_end_rettype("i"), NT("argdefs"), NT("body"), stmt_end_func(a)>>)),
      Rule({"argdefs"}, "no_args", 0, <<>>),
      Rule({"argdefs"}, "args", 1, <<NT("argdefs")>> \o
        node("arg", "b", a, 0, 0, <<stmt_end_arg("b", a)>>)),
      Rule({"classdecls"}, "decl", 0, <<NT("classdecl")>>),
      Rule({"classdecls"}, "decls", 1, <<NT("classdecls"), NT("classdecl")>>),
      Rule({"classdecl"}, "member_function", 0, <<NT("fundef")>>),
      Rule({"classdecl"}, "member_without_value", 0, value(void)),
      Rule({"classdecl"}, "member_with_value", 0, value(<<E>>))}

Rules(a, b, f) == ExprRules(a, b, f) \cup IndexRules(a, b, f) \cup CallRules(a, b, f)
                  \cup StmtRules(a, b, f) \cup DefinitionRules(a, b, f)
=============================================================================
