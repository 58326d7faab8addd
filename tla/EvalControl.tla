---------------------------- MODULE EvalControl ----------------------------
(***************************************************************************)
(* The control part of the Intend C evaluator (libeval, and except.c and   *)
(* call_func.c of libruntime): how statements, loops, switches, function   *)
(* calls, exceptions and exit() are carried by the flags of the            *)
(* interpreter state while the C functions call each other.                *)
(*                                                                         *)
(* `ctl' is the C call stack: one frame per running eval_stmt,             *)
(* eval_stmt_list, eval_expr, eval_call..., each with the place (`pc')     *)
(* where it waits for the callee.  A step runs one C function from one     *)
(* such place to the next call or to its return, so that every order of    *)
(* "set a flag", "test a flag" and "return" of the source is kept.         *)
(* Values are the two booleans, the void value and the error a builtin     *)
(* throws; what an input expression yields is free.                        *)
(***************************************************************************)
EXTENDS Integers, Sequences, FiniteSets, Syntax

CONSTANTS
  Node,        \* every tree a program of Programs contains
  Programs,    \* [main |-> a block, fns |-> [name -> [args, body]]]
  Void, Error, \* the void value, and the value a builtin throws
  None, Spent, \* the C NULL, and a pointer to a value already handed over
  MaxInputs,   \* bound: later inputs yield FALSE
  MaxNest      \* bound: the largest value of the nesting counters (INT_MAX)

ASSUME NodeAssumption ==
  LET Trees == Node
  IN \A n \in Trees : /\ n.op \in Ops
                      /\ n.kids \in Seq(Trees)
                      /\ n.thru \in BOOLEAN
                      /\ WellFormed(n)

ASSUME ProgramAssumption ==
  LET Trees == Node
  IN \A p \in Programs : /\ p.main \in Trees
                         /\ p.main.op = "BLOCK"
                         /\ \A f \in DOMAIN p.fns : /\ p.fns[f].body \in Trees
                                                    /\ p.fns[f].args \in Nat

ASSUME ValueAssumption ==
  /\ Cardinality({Void, Error, None, Spent}) = 4
  /\ {Void, Error, None, Spent} \cap BOOLEAN = {}

ASSUME BoundAssumption == MaxInputs \in Nat /\ MaxNest \in Nat \ {0}

VARIABLES
  prog,        \* the parsed script; never changes
  ctl,         \* the C call stack of the evaluator, innermost frame last
  val,         \* the value the last eval_expr returned
  s,           \* the intend_state
  trace        \* what the script did, in order: inputs read, exceptions caught

vars == <<prog, ctl, val, s, trace>>

Value == BOOLEAN \cup {Void, Error}

\* intend_state_make: every field starts at zero.
NewState ==
  [exit_flag |-> FALSE, exit_value |-> 0,
   return_flag |-> FALSE, continue_flag |-> FALSE, break_flag |-> FALSE,
   try_flag |-> 0, loop_flag |-> 0, func_flag |-> 0,
   except_flag |-> FALSE, except_value |-> None,
   retval |-> None, retval_cookie |-> 0, global_cookie |-> 0,
   local_depth |-> 0]

Frame(n, pc, cookie) == [node |-> n, pc |-> pc, cookie |-> cookie, i |-> 0, v |-> None]

Init ==
  /\ prog \in Programs
  /\ ctl = <<Frame(prog.main, "list", 0)>>
  /\ val = Void
  /\ s = NewState
  /\ trace = <<>>
-----------------------------------------------------------------------------
(* The call stack. *)

Running == ctl # <<>>
Top     == ctl[Len(ctl)]
Below   == SubSeq(ctl, 1, Len(ctl) - 1)
Here    == Top.node
At(op, pc) == Running /\ Here.op = op /\ Top.pc = pc

\* The running function goes on as frame f and calls the one of frame g.
Run(f, g) == ctl' = Below \o <<f, g>>

\* The running function calls eval_stmt or eval_expr on part n, and waits at pc.
Eval(n, pc) == Run([Top EXCEPT !.pc = pc], Frame(n, "entry", Top.cookie))

\* The same, when nothing is left to do after the call.
Become(f) == ctl' = Append(Below, f)
BecomeEval(n) == Become(Frame(n, "entry", Top.cookie))

Leave == ctl' = Below

Keep == UNCHANGED <<prog, val, s, trace>>
-----------------------------------------------------------------------------
(* Flags, counters and values. *)

\* ++x on a C int at its largest value wraps to the smallest one in the builds
\* the "too deep" tests are written for.
NoLimit(x) == x + 1                             \* mutant of Incr
Incr(x) == IF x = MaxNest THEN -MaxNest - 1 ELSE x + 1
Decr(x) == IF x = -MaxNest - 1 THEN MaxNest ELSE x - 1

\* fatal() with the interpreter state.
Fatal(t) == [t EXCEPT !.exit_flag = TRUE, !.exit_value = -1]

\* The status the scripts pass to exit().
ExitStatus == 3

\* value_cast_inplace(..., VALUE_TYPE_BOOL); void casts to false.
VoidIsTrue(v) == v # FALSE                      \* mutant of True
True(v) == v \notin {FALSE, Void}

Halting   == s.exit_flag \/ s.except_flag
Undisturbed == s.return_flag \/ s.exit_flag     \* mutant of Diverting
Diverting == s.return_flag \/ Halting

\* except_throw
Thrown(t, v) ==
  IF t.try_flag = 0 THEN [Fatal(t) EXCEPT !.except_value = None]
                    ELSE [t EXCEPT !.except_value = v, !.except_flag = TRUE]

UncountedEnd(t) == [t EXCEPT !.break_flag = FALSE]   \* mutant of EndLoop
EndLoop(t) == [t EXCEPT !.break_flag = FALSE, !.loop_flag = Decr(t.loop_flag)]

InputsRead == {k \in DOMAIN trace : trace[k].ev = "input"}
Event(ev, x, v) == trace' = Append(trace, [ev |-> ev, id |-> x, v |-> v])
-----------------------------------------------------------------------------
(* eval_expr and the expressions that steer control. *)

ExprReady(op) == At(op, "entry") /\ ~Halting

\* eval_expr returns void at once while an exception or an exit is pending.
SkipExpr ==
  /\ Running /\ Top.pc = "entry" /\ Here.op \in ExprOps
  /\ Halting
  /\ Leave /\ val' = Void
  /\ UNCHANGED <<prog, s, trace>>

ReadInput ==
  /\ ExprReady("INPUT")
  /\ val' \in IF Cardinality(InputsRead) < MaxInputs THEN BOOLEAN ELSE {FALSE}
  /\ Event("input", Here.name, val')
  /\ Leave
  /\ UNCHANGED <<prog, s>>

\* A builtin that reports a failure through except_throw and returns void.
RaiseError ==
  /\ ExprReady("RAISE")
  /\ s' = Thrown(s, Error) /\ val' = Void
  /\ Leave
  /\ UNCHANGED <<prog, trace>>

\* rt_exit
ExitScript ==
  /\ ExprReady("EXIT")
  /\ s' = [s EXCEPT !.exit_flag = TRUE, !.exit_value = ExitStatus] /\ val' = Void
  /\ Leave
  /\ UNCHANGED <<prog, trace>>

\* eval_bool_and, eval_bool_or: the second operand only when the first leaves
\* the result open.
BoolLeft ==
  /\ ExprReady("AND") \/ ExprReady("OR")
  /\ Eval(Part(Here, 1), "left") /\ Keep

BoolRight ==
  /\ At("AND", "left") \/ At("OR", "left")
  /\ IF True(val) = (Here.op = "OR")
     THEN val' = True(val) /\ Leave
     ELSE val' = val /\ Eval(Part(Here, 2), "right")
  /\ UNCHANGED <<prog, s, trace>>

BoolDone ==
  /\ At("AND", "right") \/ At("OR", "right")
  /\ val' = True(val) /\ Leave
  /\ UNCHANGED <<prog, s, trace>>

\* eval_expr_if
CondTest ==
  /\ ExprReady("COND")
  /\ Eval(Test(Here), "test") /\ Keep

CondBranch ==
  /\ At("COND", "test")
  /\ BecomeEval(IF True(val) THEN TrueCase(Here) ELSE FalseCase(Here)) /\ Keep
-----------------------------------------------------------------------------
(* eval_call, call_function, run_func. *)

\* eval_call looks the name up before the arguments are evaluated.
CallUndefined ==
  /\ ExprReady("CALL") /\ Here.name \notin DOMAIN prog.fns
  /\ s' = Fatal(s) /\ val' = Void
  /\ Leave
  /\ UNCHANGED <<prog, trace>>

Calling == /\ Running /\ Here.op = "CALL" /\ Here.name \in DOMAIN prog.fns
           /\ Top.pc = "args" \/ (Top.pc = "entry" /\ ~Halting)
Called == prog.fns[Here.name]

\* eval_call_args: every argument in turn, also after one of them has thrown.
CallArgument ==
  /\ Calling /\ Top.i < Len(Here.kids)
  /\ Run([Top EXCEPT !.pc = "args", !.i = @ + 1],
         Frame(Part(Here, Top.i + 1), "entry", Top.cookie))
  /\ Keep

CallReady == Calling /\ Top.i = Len(Here.kids)

\* call_function does not call while an exception or an exit is pending.
CallSkipped ==
  /\ CallReady /\ Halting
  /\ Leave /\ val' = Void
  /\ UNCHANGED <<prog, s, trace>>

\* call_check: too few arguments.
CallRefused ==
  /\ CallReady /\ ~Halting
  /\ Len(Here.kids) < Called.args
  /\ s' = Fatal(s) /\ val' = Void
  /\ Leave
  /\ UNCHANGED <<prog, trace>>

\* run_func, counter overflow: func_flag is not taken back.
CallTooDeep ==
  /\ CallReady /\ ~Halting
  /\ Len(Here.kids) >= Called.args
  /\ Incr(s.func_flag) < 1
  /\ s' = Fatal([s EXCEPT !.func_flag = Incr(@)]) /\ val' = Void
  /\ Leave
  /\ UNCHANGED <<prog, trace>>

CallEnter ==
  /\ CallReady /\ ~Halting
  /\ Len(Here.kids) >= Called.args
  /\ Incr(s.func_flag) >= 1
  /\ LET cookie == s.global_cookie + 1
     IN /\ s' = [s EXCEPT !.func_flag = Incr(@), !.local_depth = @ + 1,
                          !.retval = None, !.global_cookie = cookie]
        /\ Run([Top EXCEPT !.pc = "run", !.cookie = cookie],
               Frame(Called.body, "entry", cookie))
  /\ UNCHANGED <<prog, val, trace>>

\* The end of run_func: only a value stored by a return statement of this very
\* activation counts.  Reading one already handed over is a use of released
\* memory, which may hold anything.
AnyRetval == s.retval # None                    \* mutant of OwnRetval
OwnRetval == s.retval_cookie = Top.cookie /\ s.retval # None

Unchecked == {s.retval}                         \* mutant of Returned
Returned == CASE ~OwnRetval        -> {Void}
              [] s.retval = Spent  -> Value
              [] OTHER             -> {s.retval}

\* mutants of EndCall
KeepReturn(t) == [t EXCEPT !.continue_flag = FALSE, !.break_flag = FALSE,
                           !.retval = Spent, !.func_flag = Decr(@), !.local_depth = @ - 1]
KeepTable(t)  == [t EXCEPT !.return_flag = FALSE, !.continue_flag = FALSE,
                           !.break_flag = FALSE, !.retval = Spent, !.func_flag = Decr(@)]

EndCall(t) == [t EXCEPT !.return_flag = FALSE, !.continue_flag = FALSE,
                        !.break_flag = FALSE, !.retval = Spent,
                        !.func_flag = Decr(@), !.local_depth = @ - 1]

CallReturn ==
  /\ At("CALL", "run")
  /\ val' \in Returned
  /\ s' = EndCall(s)
  /\ Leave
  /\ UNCHANGED <<prog, trace>>
-----------------------------------------------------------------------------
(* eval_stmt_list *)

ListEntry ==
  /\ At("BLOCK", "list")
  /\ IF s.return_flag \/ s.exit_flag \/ Here.kids = <<>>
     THEN Leave
     ELSE Run([Top EXCEPT !.pc = "item", !.i = 1],
              Frame(Part(Here, 1), "entry", Top.cookie))
  /\ Keep

RunsOn   == Diverting                           \* mutant of EndsList
EndsList == s.continue_flag \/ Diverting

ListNext ==
  /\ At("BLOCK", "item")
  /\ IF EndsList \/ Top.i >= Len(Here.kids)
     THEN Leave
     ELSE Run([Top EXCEPT !.i = @ + 1],
              Frame(Part(Here, Top.i + 1), "entry", Top.cookie))
  /\ Keep
-----------------------------------------------------------------------------
(* eval_stmt: nothing happens while a return, an exception or an exit is
   pending. *)

SkipStmt ==
  /\ Running /\ Top.pc = "entry" /\ Here.op \in StmtOps
  /\ Diverting
  /\ Leave /\ Keep

StmtReady(op) == At(op, "entry") /\ ~Diverting

NopStmt == StmtReady("NOP") /\ Leave /\ Keep

BlockStmt == StmtReady("BLOCK") /\ Become([Top EXCEPT !.pc = "list"]) /\ Keep

ExprStmt == StmtReady("EXPR") /\ BecomeEval(Part(Here, 1)) /\ Keep

\* if, with and without an else block
IfTest == (StmtReady("IF") \/ StmtReady("IF_ELSE")) /\ Eval(Test(Here), "test") /\ Keep

IfBranch ==
  /\ At("IF", "test") \/ At("IF_ELSE", "test")
  /\ IF True(val) THEN BecomeEval(TrueCase(Here))
     ELSE IF Here.op = "IF_ELSE" THEN BecomeEval(FalseCase(Here))
     ELSE Leave
  /\ Keep

\* Loops.  All three count themselves in loop_flag from their start to their end.
LoopTooDeep ==
  /\ \E op \in LoopOps : StmtReady(op)
  /\ Incr(s.loop_flag) < 1
  /\ s' = Fatal([s EXCEPT !.loop_flag = Incr(@)])
  /\ Leave
  /\ UNCHANGED <<prog, val, trace>>

StartLoop(op, n, pc) ==
  /\ StmtReady(op)
  /\ Incr(s.loop_flag) >= 1
  /\ s' = [s EXCEPT !.loop_flag = Incr(@)]
  /\ Eval(n, pc)
  /\ UNCHANGED <<prog, val, trace>>

WhileStart == StartLoop("WHILE", Test(Here), "test")
DoStart    == StartLoop("DO", TrueCase(Here), "body")
ForStart   == StartLoop("FOR", ForInit(Here), "init")

ForFirst == At("FOR", "init") /\ Eval(Test(Here), "test") /\ Keep

\* A loop with its test first: the body, or the end.
LoopTest ==
  /\ At("WHILE", "test") \/ At("FOR", "test")
  /\ IF True(val) THEN Eval(TrueCase(Here), "body") /\ UNCHANGED s
                  ELSE Leave /\ s' = EndLoop(s)
  /\ UNCHANGED <<prog, val, trace>>

LoopBody ==
  /\ At("WHILE", "body") \/ At("FOR", "body")
  /\ LET t == [s EXCEPT !.continue_flag = FALSE]
     IN IF s.break_flag THEN Leave /\ s' = EndLoop(t)
        ELSE /\ s' = t
             /\ IF Here.op = "FOR" THEN Eval(ForGuard(Here), "guard")
                                   ELSE Eval(Test(Here), "test")
  /\ UNCHANGED <<prog, val, trace>>

ForNext == At("FOR", "guard") /\ Eval(Test(Here), "test") /\ Keep

\* do: continue_flag stays set while the test is evaluated.
DoBody ==
  /\ At("DO", "body")
  /\ IF s.break_flag THEN Leave /\ s' = EndLoop([s EXCEPT !.continue_flag = FALSE])
                     ELSE Eval(Test(Here), "test") /\ UNCHANGED s
  /\ UNCHANGED <<prog, val, trace>>

DoTest ==
  /\ At("DO", "test")
  /\ LET t == [s EXCEPT !.continue_flag = FALSE]
     IN IF True(val) /\ ~s.break_flag THEN Eval(TrueCase(Here), "body") /\ s' = t
                                      ELSE Leave /\ s' = EndLoop(t)
  /\ UNCHANGED <<prog, val, trace>>

\* continue and break outside of loops are empty statements.
AnyPlace   == TRUE                              \* mutant of LoopActive
LoopActive == s.loop_flag # 0

ContinueStmt ==
  /\ StmtReady("CONTINUE")
  /\ s' = [s EXCEPT !.continue_flag = @ \/ LoopActive]
  /\ Leave
  /\ UNCHANGED <<prog, val, trace>>

BreakStmt ==
  /\ StmtReady("BREAK")
  /\ s' = [s EXCEPT !.continue_flag = @ \/ LoopActive,
                    !.break_flag = @ \/ LoopActive]
  /\ Leave
  /\ UNCHANGED <<prog, val, trace>>

\* return: outside of functions the expression is not even evaluated.
ReturnInBody(v) ==                              \* mutant of StoreRetval
  s' = [s EXCEPT !.retval = v, !.retval_cookie = Top.cookie, !.return_flag = TRUE,
                 !.continue_flag = TRUE]
StoreRetval(v) ==
  s' = [s EXCEPT !.retval = v, !.retval_cookie = Top.cookie, !.return_flag = TRUE,
                 !.continue_flag = TRUE, !.break_flag = TRUE]

ReturnStmt ==
  /\ StmtReady("RETURN")
  /\ \/ s.func_flag = 0 /\ Leave /\ UNCHANGED s
     \/ s.func_flag # 0 /\ Here.kids = <<>> /\ Leave /\ StoreRetval(Void)
     \/ s.func_flag # 0 /\ Here.kids # <<>> /\ Eval(Part(Here, 1), "value") /\ UNCHANGED s
  /\ UNCHANGED <<prog, val, trace>>

ReturnGot ==
  /\ At("RETURN", "value")
  /\ StoreRetval(val)
  /\ Leave
  /\ UNCHANGED <<prog, val, trace>>

\* throw
ThrowStmt == StmtReady("THROW") /\ Eval(Part(Here, 1), "value") /\ Keep

ThrowGot ==
  /\ At("THROW", "value")
  /\ s' = Thrown(s, val)
  /\ Leave
  /\ UNCHANGED <<prog, val, trace>>

\* try: except_try, the statement, except_catch, the handler.
TryTooDeep ==
  /\ StmtReady("TRY")
  /\ Incr(s.try_flag) < 1
  /\ s' = Fatal([s EXCEPT !.try_flag = Incr(@)])
  /\ Leave
  /\ UNCHANGED <<prog, val, trace>>

TryStart ==
  /\ StmtReady("TRY")
  /\ Incr(s.try_flag) >= 1
  /\ s' = [s EXCEPT !.try_flag = Incr(@)]
  /\ Eval(TryPart(Here), "try")
  /\ UNCHANGED <<prog, val, trace>>

TryDone ==
  /\ At("TRY", "try") /\ ~s.except_flag
  /\ s' = [s EXCEPT !.try_flag = Decr(@)]
  /\ Leave
  /\ UNCHANGED <<prog, val, trace>>

\* except_catch.  Mutants of Taken:
StillInTry(t)   == [t EXCEPT !.except_flag = FALSE, !.except_value = None]
StillPending(t) == [t EXCEPT !.try_flag = Decr(@), !.except_value = None]

Taken(t) == [t EXCEPT !.try_flag = Decr(@), !.except_flag = FALSE, !.except_value = None]

Catch ==
  /\ At("TRY", "try") /\ s.except_flag
  /\ s' = Taken(s)
  /\ Event("catch", Here.name, s.except_value)
  /\ BecomeEval(CatchPart(Here))
  /\ UNCHANGED <<prog, val>>

\* eval_stmt_switch.  While it looks for a matching group (`next'), the value
\* of the switch waits in the frame; once a group has matched (`group'), the
\* groups that follow run until one ends the switch.
SwitchStmt == StmtReady("SWITCH") /\ Eval(Test(Here), "value") /\ Keep

SwitchSearch == At("SWITCH", "value") \/ At("SWITCH", "guard")
Wanted  == IF Top.pc = "value" THEN val ELSE Top.v
Matched == Top.pc = "guard" /\ val = Top.v

\* The cases not considered yet.
CasesLeft == {i \in 1..Labels(Here) : i > Top.i /\ Label(Here, i).op = "CASE"}

RunGroup(f, i) == Run([f EXCEPT !.pc = "group", !.i = i],
                      Frame(Group(Label(Here, i)), "list", Top.cookie))

SwitchNext ==
  /\ SwitchSearch /\ ~Matched
  /\ \E i \in CasesLeft :
       /\ \A j \in CasesLeft : i <= j
       /\ Run([Top EXCEPT !.pc = "guard", !.v = Wanted, !.i = i],
              Frame(Part(Label(Here, i), 1), "entry", Top.cookie))
  /\ Keep

SwitchMatch == SwitchSearch /\ Matched /\ RunGroup(Top, Top.i) /\ Keep

\* Of several default groups the last one counts.
SwitchNoMatch ==
  /\ SwitchSearch /\ ~Matched /\ CasesLeft = {}
  /\ \/ Defaults(Here) = {} /\ Leave
     \/ \E d \in Defaults(Here) :
          /\ \A e \in Defaults(Here) : e <= d
          /\ Become(Frame(Group(Label(Here, d)), "list", Top.cookie))
  /\ Keep

SwitchThru ==
  /\ At("SWITCH", "group")
  /\ IF Label(Here, Top.i).thru /\ Top.i < Labels(Here)
     THEN RunGroup(Top, Top.i + 1)
     ELSE Leave
  /\ Keep
-----------------------------------------------------------------------------
ExprStep == \/ SkipExpr \/ ReadInput \/ RaiseError \/ ExitScript
            \/ BoolLeft \/ BoolRight \/ BoolDone \/ CondTest \/ CondBranch
            \/ CallUndefined \/ CallArgument \/ CallSkipped \/ CallRefused
            \/ CallTooDeep \/ CallEnter \/ CallReturn

StmtStep == \/ SkipStmt \/ NopStmt \/ BlockStmt \/ ListEntry \/ ListNext
            \/ ExprStmt \/ IfTest \/ IfBranch
            \/ LoopTooDeep \/ WhileStart \/ DoStart \/ ForStart
            \/ ForFirst \/ LoopTest \/ LoopBody \/ ForNext \/ DoBody \/ DoTest
            \/ ContinueStmt \/ BreakStmt \/ ReturnStmt \/ ReturnGot
            \/ ThrowStmt \/ ThrowGot
            \/ TryTooDeep \/ TryStart \/ TryDone \/ Catch
            \/ SwitchStmt \/ SwitchNext \/ SwitchMatch \/ SwitchNoMatch \/ SwitchThru

\* intend_execute_script has returned.
Halted == ctl = <<>>
Stopped == Halted /\ UNCHANGED vars

Next == ExprStep \/ StmtStep \/ Stopped

\* One thread runs the evaluator and nothing in it waits.
Spec == Init /\ [][Next]_vars /\ WF_vars(Next)
-----------------------------------------------------------------------------
(* Properties. *)

\* The places of the C functions, after the call a frame waits for.
Places == {"entry", "list", "item", "left", "right", "test", "args", "run", "init",
           "body", "guard", "value", "try", "group"}

\* While a switch looks for its group, `i' is one of its groups.
FrameType == {f \in [node : Node, pc : Places, cookie : Nat, i : Nat,
                     v : Value \cup {None}] :
                f.node.op = "SWITCH" /\ f.pc = "guard" => f.i \in 1..Labels(f.node)}

StateType ==
  [exit_flag : BOOLEAN, exit_value : Int,
   return_flag : BOOLEAN, continue_flag : BOOLEAN, break_flag : BOOLEAN,
   try_flag : Int, loop_flag : Int, func_flag : Int,
   except_flag : BOOLEAN, except_value : Value \cup {None},
   retval : Value \cup {None, Spent}, retval_cookie : Nat, global_cookie : Nat,
   local_depth : Int]

EventType == [ev : {"input", "catch"}, id : {n.name : n \in Node}, v : Value \cup {None}]

\* The type of every variable (stack frames, the fields of intend_state, the
\* value register and the events).
TypeOK ==
  /\ prog \in Programs
  /\ ctl \in Seq(FrameType)
  /\ val \in Value
  /\ s \in StateType
  /\ trace \in Seq(EventType)

\* What a frame of the C stack has counted and not yet taken back.
Kind(f) == CASE f.node.op \in LoopOps /\ f.pc \in {"init", "test", "body", "guard"} -> "loop"
             [] f.node.op = "TRY" /\ f.pc = "try"   -> "try"
             [] f.node.op = "CALL" /\ f.pc = "run"  -> "call"
             [] OTHER                               -> "none"
Active(c, kind) == {k \in 1..Len(c) : Kind(c[k]) = kind}
Count(kind)     == Cardinality(Active(ctl, kind))

\* The nesting counters of intend_state say how many loops, try sections and
\* user functions are really active, and local_depth how many local symbol
\* tables are stacked, however these are left: by their end, break, return, an
\* exception, an exit or a refused call (eval_stmt, run_func, except_try/catch,
\* eval_call).  Only a counter that has overflowed is left wrong, and then the
\* script is ending.
CountersMatch ==
  /\ s.local_depth = Count("call")
  /\ ~s.exit_flag => /\ s.loop_flag = Count("loop")
                     /\ s.try_flag  = Count("try")
                     /\ s.func_flag = Count("call")

\* A pending exception always has a try section that will catch it, a pending
\* return a function that will end, and a pending continue or break a loop or a
\* function that will consume it, also where the evaluator lets it run on into
\* the next group of a switch or the test of a do loop; none can be left to hit
\* later code.
PendingOwned ==
  ~s.exit_flag => /\ s.except_flag => s.try_flag > 0
                  /\ s.return_flag => s.func_flag > 0
                  /\ s.continue_flag \/ s.break_flag => s.loop_flag > 0 \/ s.func_flag > 0

\* When intend_execute_script returns from a script that was not ended by
\* exit() or an error, the context is fit for another call: nothing is
\* pending, no counter is off and no local table is left.
HaltClean ==
  Halted =>
    /\ s.local_depth = 0
    /\ ~s.exit_flag => /\ s.loop_flag = 0 /\ s.try_flag = 0 /\ s.func_flag = 0
                       /\ ~s.except_flag /\ ~s.return_flag
                       /\ ~s.continue_flag /\ ~s.break_flag

InputsKept == InputsRead' = InputsRead

\* "The effect of the return statement is to always end the execution of a
\* function body": nothing of the body is evaluated after it.
ReturnQuiet == [][s.return_flag => InputsKept]_vars

\* After a continue (or break) the rest of the loop body is skipped; only the
\* test of a do loop may be evaluated with the flag still set.
ContinueSkips ==
  [][s.continue_flag =>
       \/ InputsKept
       \/ \E k \in DOMAIN ctl : ctl[k].node.op = "DO" /\ ctl[k].pc = "test"]_vars

\* A loop of the running function (or of the main script, outside functions).
InOwnLoop == \E k \in Active(ctl, "loop") : \A j \in Active(ctl, "call") : j < k

\* A break or continue outside of the loops of its own body is an empty
\* statement.
BreakOnlyInLoop ==
  [][s'.continue_flag /\ ~s.continue_flag /\ ~s'.return_flag => InOwnLoop]_vars

\* A function body starts with nothing pending: run_func clears the flags only
\* at its end, so a flag of the caller would cut the callee short.
CallsStartClean ==
  [][s'.local_depth > s.local_depth =>
       ~s.continue_flag /\ ~s.break_flag /\ ~s.return_flag]_vars

\* run_func hands its caller a value that a return statement of this very
\* activation stored, never one already handed over and released.
ReturnsOwnValue == At("CALL", "run") /\ OwnRetval => s.retval # Spent

\* The catch part of the try that takes an exception is executed.
HandlerRuns == [][s.except_flag /\ ~s'.except_flag => ~s'.return_flag]_vars

\* The value that reaches the handler is the one that was thrown.
ExceptionKept ==
  [][s.except_flag /\ s'.except_flag => s'.except_value = s.except_value]_vars

\* The status given to exit() is the one the host gets.
StatusStands == [][s.exit_flag => s'.exit_flag /\ s'.exit_value = s.exit_value]_vars

\* Recursion is cut off: never more local tables than the counters can count.
DepthBounded == s.local_depth \in 0..MaxNest

\* Every script whose loop tests are in the end false comes to its end.
Terminates == <>Halted
=============================================================================
