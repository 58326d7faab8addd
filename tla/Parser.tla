------------------------------- MODULE Parser -------------------------------
(***************************************************************************)
(* parser_run: a script is read and the functions of libparser build its   *)
(* tree on a stack of expressions, a stack of argument counts and a stack  *)
(* of statement lists.                                                     *)
(*                                                                         *)
(* `goal' is what bison has still to find, leftmost symbol first.  Expand  *)
(* chooses a production, so that the model reads every script up to a      *)
(* size; the other actions are calls of the parser's functions, in the     *)
(* order bison makes them.  `text' is a history of what the script says,   *)
(* for comparison with the tree that was built.                            *)
(*                                                                         *)
(* The nodes are in the heap, and the stacks and the nodes hold pointers   *)
(* to them.  expr_copy, expr_free and stmt_free are recursive: each of     *)
(* their calls is a step, `copying' and `freeing' are the pointers they    *)
(* are still to be called for, and nothing else happens until they have    *)
(* all returned.                                                           *)
(*                                                                         *)
(* Included files hold whole statements.                                   *)
(***************************************************************************)
EXTENDS Grammar, FiniteSets, SequencesExt

CONSTANT Sources   \* what may be read: start symbol, productions, size

\* A script starts with statements.
ASSUME SourcesAssumption ==
  \A src \in Sources : src.start \in {"program", "statements", "block"} /\ src.size \in Nat

VARIABLES goal, left, rules, used,  \* the script, as far as it is chosen
          text, odd,                \* history: what was read, and oddities in it
          p,                        \* parser_data
          s,                        \* the fields of intend_state it sets
          heap,                     \* the nodes allocated and not freed
          copying, freeing,         \* calls of expr_copy and of the free functions
          phase

vars   == <<goal, left, rules, used, text, odd, p, s, heap, copying, freeing, phase>>
script == <<left, rules, used>>
calls  == <<copying, freeing>>

MainFile == 0

Init == \E src \in Sources :
  /\ goal = <<NT(src.start)>>
  /\ left = src.size
  /\ rules = src.rules
  /\ used = 0
  /\ text = <<>>
  /\ odd = {}
  /\ p = [expr_stack |-> <<>>, arg_count |-> <<>>, stack |-> << <<>> >>, fn_arg |-> <<>>,
          class_parent |-> 0, include |-> <<>>, parser_error |-> 0, made |-> 0]
  /\ s = [source_file |-> MainFile, script |-> <<>>]
  /\ heap = <<>>
  /\ copying = <<>> /\ freeing = <<>>
  /\ phase = "parse"

-----------------------------------------------------------------------------
(* Nodes.  A part of a node is a sequence of pointers; a field that may be   *)
(* NULL has at most one.  A pointer says how many nodes had been allocated.  *)

Fields  == {"inner", "index", "elif", "argv", "lambda",
            "init", "expr", "guard", "true_case", "false_case", "block"}
NoParts == [f \in Fields |-> <<>>]

Node(type, op, name, tname, file) ==
  [type |-> type, op |-> op, name |-> name, tname |-> tname, file |-> file,
   args |-> <<>>, part |-> NoParts]
NewExpr(type, op, name, tname) == Node(type, op, name, tname, s.source_file)
NewStmt(type, op, name)        == Node(type, op, name, 0, 0)

\* The next nodes that are allocated, and the heap with them.
Id(k)      == p.made + k
Alloc(new) == [i \in DOMAIN heap \cup (Id(1)..Id(Len(new))) |->
                 IF i \in DOMAIN heap THEN heap[i] ELSE new[i - p.made]]

\* The pointers that expr_free or stmt_free call themselves for: one of the two
\* has nothing to free.
expr_free(n) == n.part["inner"] \o n.part["index"] \o n.part["elif"] \o n.part["argv"]
                \o n.part["lambda"]
stmt_free(n) == n.part["init"] \o n.part["expr"] \o n.part["guard"] \o n.part["true_case"]
                \o n.part["false_case"] \o n.part["block"]

\* expr_copy: the nodes that are copied for a node, and where the copies go.  The
\* branch of a conditional and a lambda are not copied.
Copied(n)      == n.part["inner"] \o n.part["index"] \o n.part["argv"]
CopyAt(n, f)   == CASE f = "inner" -> 0
                    [] f = "index" -> Len(n.part["inner"])
                    [] f = "argv"  -> Len(n.part["inner"]) + Len(n.part["index"])
IndexKept(n, f)  == CASE f \in {"inner", "argv"} -> [j \in DOMAIN n.part[f] |-> Id(CopyAt(n, f) + j)]
                      [] f \in {"index", "elif", "lambda"} -> n.part[f]   \* mutant of expr_copy
                      [] OTHER -> <<>>
expr_copy(n, f)  == CASE f \in {"inner", "index", "argv"} ->
                           [j \in DOMAIN n.part[f] |-> Id(CopyAt(n, f) + j)]
                      [] f \in {"elif", "lambda"} -> n.part[f]
                      [] OTHER -> <<>>
Shares(n)      == n.part["elif"] # <<>> \/ n.part["lambda"] # <<>>

-----------------------------------------------------------------------------
Idle    == copying = <<>> /\ freeing = <<>>
At(act) == phase = "parse" /\ Idle /\ goal # <<>> /\ Head(goal).do = act

\* expr_stack_pop into the fields `pops' of a node, one after the other, and
\* safe_args for its arguments: what is popped before the k-th field, and for a
\* field.
HasArgv(pops)  == "argv" \in Range(pops)
Popped(pops, k) ==
  k - 1 + (IF "argv" \in Range(SubSeq(pops, 1, k - 1)) THEN Last(p.arg_count) - 1 ELSE 0)
Depth(pops)    == Popped(pops, Len(pops) + 1)
PopExpr(pops, f) ==
  LET k   == CHOOSE k \in DOMAIN pops : pops[k] = f
      top == Len(p.expr_stack) - Popped(pops, k)
  IN SubSeq(p.expr_stack, top - (IF f = "argv" THEN Last(p.arg_count) ELSE 1) + 1, top)
ExprsLeft(pops)  == SubSeq(p.expr_stack, 1, Len(p.expr_stack) - Depth(pops))
CountsLeft(pops) == IF HasArgv(pops) THEN Front(p.arg_count) ELSE p.arg_count
ExprsSane(pops)  == /\ HasArgv(pops) => p.arg_count # <<>>
                    /\ Depth(pops) <= Len(p.expr_stack)

\* safe_pop into the fields `takes' of a statement.
List             == Last(p.stack)
TakeStmt(takes, f) == <<List[Len(List) + 1 - CHOOSE k \in DOMAIN takes : takes[k] = f]>>
StmtsLeft(takes) == SubSeq(List, 1, Len(List) - Len(takes))
StmtsSane(takes) == p.stack # <<>> /\ Len(takes) <= Len(List)

\* stmt_stack_leave with what is left in the topmost list, if there is one, freed.
FreedList == IF p.stack = <<>> THEN <<>> ELSE List

\* The functions put a node on the stack of expressions, or leave the topmost
\* statement list and put a node on the one below it.
PushExpr(q, e)     == [q EXCEPT !.expr_stack = Append(@, e)]
PushStmt(q, i)     == [q EXCEPT !.stack[Len(q.stack)] = Append(@, i)]
LeaveList(q)       == [q EXCEPT !.stack = Front(@)]

ExprParts(pops) == [f \in Fields |-> IF f \in Range(pops) THEN PopExpr(pops, f) ELSE <<>>]

Built(i) == [NewExpr(i.type, i.op, i.name, i.tname) EXCEPT !.part = ExprParts(i.pops)]

StmtParts(i) ==
  [f \in Fields |-> IF f \in Range(i.exprs) THEN PopExpr(i.exprs, f)
                    ELSE IF f \in Range(i.stmts) THEN TakeStmt(i.stmts, f)
                    ELSE IF f = "block" /\ i.leave = "block" THEN StmtsLeft(i.stmts) ELSE <<>>]
StmtBuilt(i) ==
  [NewStmt(i.type, i.op, i.name) EXCEPT
     !.part = StmtParts(i), !.tname = IF i.type = "CLASS" THEN p.class_parent ELSE 0]

\* A combined assignment builds a reference and an operation, then copies the
\* reference for the target.
Combines(i)  == IF i.do = "op_assign_array" THEN <<"inner", "argv">> ELSE <<"inner">>
TypeOf(i, t, array) == IF i.do = "op_assign_array" THEN array ELSE t
Arguments(i) == IF i.do = "op_assign_array" THEN PopExpr(Combines(i), "argv") ELSE <<>>
Copies(i)    == [j \in DOMAIN Arguments(i) |-> Id(3 + j)]
Combined(i)  ==
  <<[NewExpr(TypeOf(i, "REF", "REF_ARRAY"), "", i.name, 0) EXCEPT !.part["argv"] = Arguments(i)],
    [NewExpr("INFIX", i.op, 0, 0) EXCEPT !.part["inner"] = <<Id(1)>>,
                                         !.part["index"] = PopExpr(Combines(i), "inner")],
    [NewExpr(TypeOf(i, "ASSIGN", "ASSIGN_ARRAY"), "", i.name, 0) EXCEPT
       !.part["inner"] = <<Id(2)>>, !.part["argv"] = Copies(i)]>>
    \o [j \in DOMAIN Arguments(i) |-> heap[Arguments(i)[j]]]

\* What the functions check with sanity(), or index an array with.
Sane(i) ==
  CASE i.do = "expr"                              -> ExprsSane(i.pops)
    [] i.do = "next"                              -> p.arg_count # <<>>
    [] i.do = "keyarray_single"                   -> p.expr_stack # <<>>
    [] i.do \in {"op_assign", "op_assign_array"}  -> ExprsSane(Combines(i))
    [] i.do = "stmt"     -> /\ StmtsSane(i.stmts) /\ ExprsSane(i.exprs)
                            /\ Len(p.stack) > (IF i.leave = "open" THEN 0 ELSE 1)
    [] i.do = "end_if"   -> Len(p.stack) > 1 /\ p.expr_stack # <<>> /\ List # <<>>
    [] i.do = "end_case" -> Len(p.stack) > 1 /\ p.expr_stack # <<>>
    [] i.do \in {"arg", "rettype"} -> p.fn_arg # <<>>
    [] i.do = "end_func" -> p.fn_arg # <<>> /\ Len(p.stack) > 1 /\ List # <<>>
    [] i.do = "end_lambda" -> p.fn_arg # <<>> /\ p.stack # <<>>
    [] OTHER -> TRUE

-----------------------------------------------------------------------------
(* Reading the script. *)

Expand ==
  /\ At("nonterminal")
  /\ \E r \in Rules(2 * used + 1, 2 * used + 2, s.source_file) :
       /\ Head(goal).lhs \in r.lhs /\ r.name \in rules /\ r.size <= left
       /\ goal' = r.rhs \o Tail(goal)
       /\ left' = left - r.size
       /\ odd' = IF r.name = "include" /\ Head(goal).lhs = "body" THEN odd \cup {"body"} ELSE odd
  /\ used' = used + 1
  /\ UNCHANGED <<rules, text, p, s, heap, calls, phase>>

Read ==
  /\ At("say")
  /\ text' = Append(text, Head(goal).word)
  /\ goal' = Tail(goal)
  /\ UNCHANGED <<script, odd, p, s, heap, calls, phase>>

\* The indices of x[i] += e are said once and meant twice.
ReadAgain ==
  /\ At("again")
  /\ LET start == CHOOSE k \in DOMAIN text :
                    text[k].type = "ASSIGN_ARRAY" /\ text[k].name = Head(goal).name
     IN text' = text \o SubSeq(text, start + 1, Len(text) - 2)
  /\ goal' = Tail(goal)
  /\ UNCHANGED <<script, odd, p, s, heap, calls, phase>>

\* icl_error: the parse ends with the error counted, and what is on the stacks
\* stays there; parser_run frees the topmost list only.
SyntaxError ==
  /\ At("say")
  /\ phase' = "failed"
  /\ p' = [LeaveList(p) EXCEPT !.parser_error = @ + 1]
  /\ freeing' = FreedList
  /\ UNCHANGED <<goal, script, text, odd, s, heap, copying>>

\* sanity() failed: the process ends.
InternalError ==
  /\ phase = "parse" /\ Idle /\ goal # <<>>
  /\ ~Sane(Head(goal))
  /\ phase' = "internal"
  /\ UNCHANGED <<goal, script, text, odd, p, s, heap, calls>>

Called(act) ==
  /\ At(act)
  /\ Sane(Head(goal))
  /\ goal' = Tail(goal)
  /\ UNCHANGED <<script, text, phase>>

\* The nodes that are copied next.  What was freed cannot be copied or freed: the
\* model ends there.
CopiedNext == IF copying # <<>> THEN Copied(heap[Head(copying)])
              ELSE IF At("op_assign_array") /\ Sane(Head(goal)) THEN Arguments(Head(goal))
              ELSE <<>>
CanCopy    == Range(CopiedNext) \subseteq DOMAIN heap

\* One call of expr_copy for a node that is copied already: copies of its parts
\* take their place.
Copy ==
  /\ copying # <<>> /\ CanCopy
  /\ LET k == Head(copying)
         n == heap[k]
         m == Copied(n)
     IN /\ heap' = [Alloc([j \in DOMAIN m |-> heap[m[j]]]) EXCEPT
                      ![k].part = [f \in Fields |-> expr_copy(n, f)]]
        /\ p' = [p EXCEPT !.made = @ + Len(m)]
        /\ copying' = Tail(copying) \o [j \in DOMAIN m |-> Id(j)]
        /\ odd' = IF Shares(n) THEN odd \cup {"shared"} ELSE odd
  /\ UNCHANGED <<goal, script, text, s, freeing, phase>>

\* One call of expr_free or stmt_free.
Free ==
  /\ freeing # <<>> /\ Head(freeing) \in DOMAIN heap
  /\ LET n == heap[Head(freeing)]
     IN freeing' = Tail(freeing) \o expr_free(n) \o stmt_free(n)
  /\ heap' = [i \in DOMAIN heap \ {Head(freeing)} |-> heap[i]]
  /\ UNCHANGED <<goal, script, text, odd, p, s, copying, phase>>

-----------------------------------------------------------------------------
(* Expressions. *)

EndExpr ==
  /\ Called("expr")
  /\ LET pops == Head(goal).pops
     IN p' = PushExpr([p EXCEPT !.expr_stack = ExprsLeft(pops), !.arg_count = CountsLeft(pops),
                                !.made = @ + 1], Id(1))
  /\ heap' = Alloc(<<Built(Head(goal))>>)
  /\ UNCHANGED <<odd, s, calls>>

\* expr_end_first: one argument so far; expr_end_next: one more.
EndFirst ==
  /\ Called("first")
  /\ p' = [p EXCEPT !.arg_count = Append(@, 1)]
  /\ UNCHANGED <<odd, s, heap, calls>>

EndNext ==
  /\ Called("next")
  /\ p' = [p EXCEPT !.arg_count[Len(p.arg_count)] = @ + 1]
  /\ UNCHANGED <<odd, s, heap, calls>>

EndKeyarraySingle ==
  /\ Called("keyarray_single")
  /\ p' = [p EXCEPT !.expr_stack = Front(@) \o <<Id(1), Last(@)>>, !.made = @ + 1]
  /\ heap' = Alloc(<<NewExpr("CONST_VOID", "", 0, 0)>>)
  /\ UNCHANGED <<odd, s, calls>>

EndOpAssign ==
  /\ Called("op_assign") \/ Called("op_assign_array")
  /\ CanCopy
  /\ LET i == Head(goal)
     IN /\ p' = PushExpr([p EXCEPT !.expr_stack = ExprsLeft(Combines(i)),
                                   !.arg_count = CountsLeft(Combines(i)),
                                   !.made = @ + Len(Combined(i))], Id(3))
        /\ heap' = Alloc(Combined(i))
        /\ copying' = Copies(i)
  /\ UNCHANGED <<odd, s, freeing>>

BeginFunc ==
  /\ Called("begin_func")
  /\ p' = [p EXCEPT !.fn_arg = Append(@, [args |-> <<>>, rettype |-> "?"]),
                    !.stack = Append(@, <<>>)]
  /\ UNCHANGED <<odd, s, heap, calls>>

\* expr_end_lambda: the statements become the block of a function, and that
\* the lambda of an expression.
EndLambda ==
  /\ Called("end_lambda")
  /\ heap' = Alloc(
       <<[NewStmt("BLOCK", "", 0) EXCEPT !.part["block"] = List],
         [NewStmt("FUNC", "?", 0) EXCEPT !.part["true_case"] = <<Id(1)>>, !.args = Last(p.fn_arg).args],
         [NewExpr("LAMBDA", "", 0, 0) EXCEPT !.part["lambda"] = <<Id(2)>>]>>)
  /\ p' = PushExpr([LeaveList(p) EXCEPT !.fn_arg = Front(@), !.made = @ + 3], Id(3))
  /\ UNCHANGED <<odd, s, calls>>

-----------------------------------------------------------------------------
(* Statements. *)

\* stmt_stack_enter
Enter ==
  /\ Called("enter")
  /\ p' = [p EXCEPT !.stack = Append(@, <<>>)]
  /\ UNCHANGED <<odd, s, heap, calls>>

EndStmt ==
  /\ Called("stmt")
  /\ LET i == Head(goal)
         q == [p EXCEPT !.expr_stack = ExprsLeft(i.exprs), !.arg_count = CountsLeft(i.exprs),
                        !.made = @ + 1]
     IN /\ p' = PushStmt(IF i.leave = "open" THEN q ELSE LeaveList(q), Id(1))
        /\ freeing' = IF i.leave = "free" THEN StmtsLeft(i.stmts) ELSE <<>>
  /\ heap' = Alloc(<<StmtBuilt(Head(goal))>>)
  /\ UNCHANGED <<odd, s, copying>>

EndIf ==
  /\ Called("end_if")
  /\ LET two   == Len(List) > 1
         takes == IF two THEN <<"false_case", "true_case">> ELSE <<"true_case">>
         node  == StmtBuilt(Stmt(IF two THEN "IF_ELSE" ELSE "IF", "", 0, <<"expr">>, takes, "free"))
     IN /\ heap' = Alloc(<<node>>)
        /\ freeing' = StmtsLeft(takes)
  /\ p' = PushStmt([LeaveList(p) EXCEPT !.expr_stack = Front(@), !.made = @ + 1], Id(1))
  /\ UNCHANGED <<odd, s, copying>>

EndCase ==
  /\ Called("end_case")
  /\ LET lone == Len(List) = 1 /\ heap[List[1]].type = "BREAK"
         thru == Head(goal).thru /\ ~lone
         made == Alloc(<<StmtBuilt(Stmt("CASE", IF thru THEN "thru" ELSE "", 0, <<"expr">>, <<>>, "block"))>>)
     IN heap' = IF lone THEN [made EXCEPT ![List[1]].type = "NOP"] ELSE made
  /\ p' = PushStmt([LeaveList(p) EXCEPT !.expr_stack = Front(@), !.made = @ + 1], Id(1))
  /\ UNCHANGED <<odd, s, calls>>

\* The definition that is being read, of those that enclose one another.
EndRettype ==
  /\ Called("rettype")
  /\ p' = [p EXCEPT !.fn_arg[Len(p.fn_arg)].rettype = Head(goal).type]
  /\ UNCHANGED <<odd, s, heap, calls>>

EndArg ==
  /\ Called("arg")
  /\ p' = [p EXCEPT !.fn_arg[Len(p.fn_arg)].args =
                      Append(@, [type |-> Head(goal).type, name |-> Head(goal).name])]
  /\ UNCHANGED <<odd, s, heap, calls>>

EndFunc ==
  /\ Called("end_func")
  /\ LET fn   == Last(p.fn_arg)
         node == StmtBuilt(Stmt("FUNC", fn.rettype, Head(goal).name, <<>>, <<"true_case">>, "free"))
     IN heap' = Alloc(<<[node EXCEPT !.args = fn.args]>>)
  /\ freeing' = Front(List)
  /\ p' = PushStmt([LeaveList(p) EXCEPT !.fn_arg = Front(@), !.made = @ + 1], Id(1))
  /\ UNCHANGED <<odd, s, copying>>

EndExtends ==
  /\ Called("extends")
  /\ p' = [p EXCEPT !.class_parent = Head(goal).name]
  /\ UNCHANGED <<odd, s, heap, calls>>

-----------------------------------------------------------------------------
(* Included files.  The file ends after some of the statements that follow   *)
(* the include statement in its list.                                        *)

Blocks == {NT("block"), NT("tail"), NT("fblock")}

EnterInclude ==
  /\ At("include")
  /\ p' = [p EXCEPT !.include = Append(@, s.source_file)]
  /\ s' = [s EXCEPT !.source_file = Head(goal).name]
  /\ \E k \in 0..(Len(goal) - 1) :
       /\ \A j \in 2..(k + 1) : goal[j] \in Blocks
       /\ goal' = SubSeq(goal, 2, k + 1) \o <<[do |-> "eof"]>> \o SubSeq(goal, k + 2, Len(goal))
  /\ UNCHANGED <<script, text, odd, heap, calls, phase>>

\* A source that cannot be opened is an error, but the parse goes on.
IncludeFails ==
  /\ Called("include")
  /\ p' = [p EXCEPT !.parser_error = @ + 1]
  /\ UNCHANGED <<odd, s, heap, calls>>

LeaveInclude ==
  /\ Called("eof")
  /\ s' = [s EXCEPT !.source_file = Last(p.include)]
  /\ p' = [p EXCEPT !.include = Front(@)]
  /\ UNCHANGED <<odd, heap, calls>>

\* parser_run, after icl_parse.
Finish ==
  /\ phase = "parse" /\ Idle /\ goal = <<>>
  /\ IF p.parser_error > 0
     THEN phase' = "failed" /\ freeing' = FreedList /\ UNCHANGED s
     ELSE phase' = "done" /\ s' = [s EXCEPT !.script = List] /\ UNCHANGED freeing
  /\ p' = LeaveList(p)
  /\ UNCHANGED <<goal, script, text, odd, heap, copying>>

\* intend_free_script
FreeScript ==
  /\ phase = "done"
  /\ phase' = "freed"
  /\ freeing' = s.script
  /\ UNCHANGED <<goal, script, text, odd, p, s, heap, copying>>

Next == \/ Expand \/ Read \/ ReadAgain \/ SyntaxError \/ InternalError \/ Copy \/ Free
        \/ EndExpr \/ EndFirst \/ EndNext \/ EndKeyarraySingle \/ EndOpAssign
        \/ BeginFunc \/ EndLambda \/ Enter \/ EndStmt \/ EndIf \/ EndCase
        \/ EndRettype \/ EndArg \/ EndFunc \/ EndExtends
        \/ EnterInclude \/ IncludeFails \/ LeaveInclude \/ Finish \/ FreeScript

Spec == Init /\ [][Next]_vars

-----------------------------------------------------------------------------
(* What the tree says, in the words of the script. *)

ArgsText(as) == FlattenSeq([i \in DOMAIN as |->
                  <<Word("arg", as[i].type, as[i].name, 0, 0), CloseWord>>])

TreeText(list) ==
  LET says[k \in DOMAIN heap] ==
        LET n       == heap[k]
            all(ks) == FlattenSeq([j \in DOMAIN ks |-> says[ks[j]]])
            of(f)   == all(n.part[f])
            lambda  == heap[n.part["lambda"][1]]
        IN <<Word(n.type, n.op, n.name, n.tname, n.file)>> \o ArgsText(n.args)
             \o (CASE n.type = "ASSIGN_ARRAY" -> of("argv") \o of("inner")
                   [] n.type = "DO"           -> of("true_case") \o of("expr")
                   [] n.type = "LAMBDA"       ->
                        ArgsText(lambda.args) \o all(heap[lambda.part["true_case"][1]].part["block"])
                   [] OTHER -> of("inner") \o of("argv") \o of("index") \o of("elif")
                               \o of("init") \o of("expr") \o of("guard")
                               \o of("true_case") \o of("false_case") \o of("block"))
             \o <<CloseWord>>
  IN FlattenSeq([j \in DOMAIN list |-> says[list[j]]])

\* The tree of a script that was parsed says what the script says: every
\* operand, argument, body and name is at its place, and an expression knows
\* the file it stands in (libparser, from the grammar to the two stacks).  Only
\* an include as the body of a statement is lost, and then an if statement can
\* take its else part for the first one.
TreeIsText == phase = "done" /\ "body" \notin odd => TreeText(s.script) = text

\* No node is freed twice, or copied after it was freed, while a script is parsed
\* or after it, and intend_free_script frees every node of a parsed script; unless
\* the indices of a combined assignment hold a conditional or a lambda, which its
\* copy shares (stmt_free, expr_free, expr_copy).
FreedOnce ==
  "shared" \notin odd =>
    /\ CanCopy
    /\ freeing # <<>> => Head(freeing) \in DOMAIN heap
    /\ phase = "freed" /\ freeing = <<>> => DOMAIN heap = {}

\* When a script was parsed nothing is left on the stacks: every expression,
\* argument count, list, definition and included file that was opened has been
\* used (parser_run, expr_stack.c, stmt_stack.c, leave_include).
NothingLeftOver ==
  phase = "done" =>
    /\ p.expr_stack = <<>> /\ p.arg_count = <<>> /\ p.stack = <<>> /\ p.fn_arg = <<>>
    /\ p.include = <<>> /\ s.source_file = MainFile

\* No script makes the parser fail an internal check, unless the body of a
\* statement is an include, which leaves nothing on the stack (sanity in
\* safe_pop, expr_stack_pop, expr_arg_leave, stmt_stack_push).
ChecksHold == phase = "internal" => "body" \in odd

\* The checks themselves: they are meant for impossible values
\* (misc_error.c:105, stmt_parse.c:47).
NeverInternal == phase # "internal"

\* No part of any parsed script is freed that was freed before.
OneOwner == freeing # <<>> => Head(freeing) \in DOMAIN heap
=============================================================================
