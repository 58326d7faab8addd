------------------------------- MODULE Manual -------------------------------
(***************************************************************************)
(* What doc/user/manual.asc promises of statements (sections "Statements"  *)
(* and "User-defined functions"): a structured semantics in which every    *)
(* statement completes in one way - normally, by break, continue, return   *)
(* or throw, or by ending the script - and the construct around it looks   *)
(* only at that.  Nothing here knows of flags or of a C stack.             *)
(*                                                                         *)
(* A script reads inputs, so its meaning is a relation.  `a' is the list   *)
(* of events of one run; the functions below follow it: an input has the   *)
(* value the run read, and where the manual asks for an event the run does *)
(* not have next, the outcome is "lost".                                   *)
(***************************************************************************)
EXTENDS Integers, Sequences, Syntax

CONSTANTS Void, Error

LOCAL Truth(v) == v \notin {FALSE, Void}
LOCAL Done(c, v, tr) == [c |-> c, v |-> v, tr |-> tr]

\* The run has event e of x next.
LOCAL NextIs(a, tr, e, x) ==
  /\ Len(tr) < Len(a)
  /\ a[Len(tr) + 1].ev = e /\ a[Len(tr) + 1].id = x
LOCAL Step(a, tr) == Append(tr, a[Len(tr) + 1])

RECURSIVE Meaning(_, _, _, _), Arguments(_, _, _, _, _), CallFn(_, _, _, _)
RECURSIVE Exec(_, _, _, _, _), ExecFrom(_, _, _, _, _, _), Loop(_, _, _, _, _)
RECURSIVE Groups(_, _, _, _, _, _), Cases(_, _, _, _, _, _, _)

\* The value of expression e of program p, after the events tr of run a.
Meaning(p, e, a, tr) ==
  LET First == Meaning(p, Part(e, 1), a, tr)
      Then(k) == Meaning(p, Part(e, k), a, First.tr)
      AsBool(r) == IF r.c = "value" THEN [r EXCEPT !.v = Truth(r.v)] ELSE r
  IN CASE e.op = "INPUT" -> IF NextIs(a, tr, "input", e.name)
                            THEN Done("value", a[Len(tr) + 1].v, Step(a, tr))
                            ELSE Done("lost", Void, tr)
       [] e.op = "RAISE" -> Done("throw", Error, tr)
       [] e.op = "EXIT"  -> Done("exit", Void, tr)
       [] e.op = "AND"   -> IF First.c # "value" \/ ~Truth(First.v)
                            THEN AsBool(First) ELSE AsBool(Then(2))
       [] e.op = "OR"    -> IF First.c # "value" \/ Truth(First.v)
                            THEN AsBool(First) ELSE AsBool(Then(2))
       [] e.op = "COND"  -> IF First.c # "value" THEN First
                            ELSE Then(IF Truth(First.v) THEN 2 ELSE 3)
       [] e.op = "CALL"  -> CallFn(p, e, a, tr)

Arguments(p, e, i, a, tr) ==
  IF i > Len(e.kids) THEN Done("value", Void, tr)
  ELSE LET r == Meaning(p, Part(e, i), a, tr)
       IN IF r.c = "value" THEN Arguments(p, e, i + 1, a, r.tr) ELSE r

CallFn(p, e, a, tr) ==
  IF e.name \notin DOMAIN p.fns THEN Done("fatal", Void, tr)
  ELSE LET args == Arguments(p, e, 1, a, tr)
           body == Exec(p, p.fns[e.name].body, [loop |-> FALSE, fn |-> TRUE], a, args.tr)
       IN CASE args.c # "value"                        -> args
            [] Len(e.kids) < p.fns[e.name].args         -> Done("fatal", Void, args.tr)
            [] body.c = "return"                        -> [body EXCEPT !.c = "value"]
            [] body.c \in {"throw", "exit", "fatal", "lost"} -> body
            [] OTHER                                    -> Done("value", Void, body.tr)

\* Statement n; x says whether a loop of the same body and a function are
\* around it.
Exec(p, n, x, a, tr) ==
  LET e == Meaning(p, Part(n, 1), a, tr)
      After(k) == Exec(p, Part(n, k), x, a, e.tr)
      Abrupt == e.c # "value"
      tried == Exec(p, TryPart(n), x, a, tr)
  IN CASE n.op = "NOP"      -> Done("normal", Void, tr)
       [] n.op = "BLOCK"    -> ExecFrom(p, n, 1, x, a, tr)
       [] n.op = "CONTINUE" -> Done(IF x.loop THEN "continue" ELSE "normal", Void, tr)
       [] n.op = "BREAK"    -> Done(IF x.loop THEN "break" ELSE "normal", Void, tr)
       [] n.op = "EXPR"     -> IF Abrupt THEN e ELSE Done("normal", Void, e.tr)
       [] n.op = "THROW"    -> IF Abrupt THEN e ELSE [e EXCEPT !.c = "throw"]
       [] n.op = "RETURN"   -> CASE ~x.fn          -> Done("normal", Void, tr)
                                 [] n.kids = <<>>  -> Done("return", Void, tr)
                                 [] OTHER          -> IF Abrupt THEN e
                                                      ELSE [e EXCEPT !.c = "return"]
       [] n.op = "IF"       -> CASE Abrupt      -> e
                                 [] Truth(e.v)  -> After(2)
                                 [] OTHER       -> Done("normal", Void, e.tr)
       [] n.op = "IF_ELSE"  -> IF Abrupt THEN e ELSE After(IF Truth(e.v) THEN 2 ELSE 3)
       [] n.op = "WHILE"    -> Loop(p, n, x, a, tr)
       [] n.op = "FOR"      -> LET i == Meaning(p, ForInit(n), a, tr)
                               IN IF i.c # "value" THEN i ELSE Loop(p, n, x, a, i.tr)
       [] n.op = "DO"       ->
            LET b == Exec(p, TrueCase(n), [x EXCEPT !.loop = TRUE], a, tr)
            IN CASE b.c = "break" -> Done("normal", Void, b.tr)
                 [] b.c \in {"normal", "continue"} ->
                      LET t == Meaning(p, Test(n), a, b.tr)
                      IN CASE t.c # "value" -> t
                           [] Truth(t.v)    -> Exec(p, n, x, a, t.tr)
                           [] OTHER         -> Done("normal", Void, t.tr)
                 [] OTHER -> b
       [] n.op = "TRY"      ->
            CASE tried.c # "throw" -> tried
              [] NextIs(a, tried.tr, "catch", n.name) /\ a[Len(tried.tr) + 1].v = tried.v ->
                   Exec(p, CatchPart(n), x, a, Step(a, tried.tr))
              [] OTHER -> Done("lost", Void, tried.tr)
       [] n.op = "SWITCH"   -> IF Abrupt THEN e ELSE Cases(p, n, 1, e.v, x, a, e.tr)

\* The statements of a list from the i-th on.
ExecFrom(p, n, i, x, a, tr) ==
  IF i > Len(n.kids) THEN Done("normal", Void, tr)
  ELSE LET r == Exec(p, Part(n, i), x, a, tr)
       IN IF r.c = "normal" THEN ExecFrom(p, n, i + 1, x, a, r.tr) ELSE r

\* A while loop, or a for loop behind its initialiser.
Loop(p, n, x, a, tr) ==
  LET t == Meaning(p, Test(n), a, tr)
      b == Exec(p, TrueCase(n), [x EXCEPT !.loop = TRUE], a, t.tr)
      g == Meaning(p, ForGuard(n), a, b.tr)
  IN CASE t.c # "value"    -> t
       [] ~Truth(t.v)      -> Done("normal", Void, t.tr)
       [] b.c = "break"    -> Done("normal", Void, b.tr)
       [] b.c \notin {"normal", "continue"} -> b
       [] n.op = "WHILE"   -> Loop(p, n, x, a, b.tr)
       [] g.c # "value"    -> g
       [] OTHER            -> Loop(p, n, x, a, g.tr)

\* switch: the groups from the i-th on are considered for value v.
Cases(p, n, i, v, x, a, tr) ==
  IF i > Labels(n)
  THEN IF Defaults(n) = {} THEN Done("normal", Void, tr)
       ELSE Exec(p, Group(Label(n, CHOOSE d \in Defaults(n) : TRUE)), x, a, tr)
  ELSE IF Label(n, i).op = "DEFAULT" THEN Cases(p, n, i + 1, v, x, a, tr)
  ELSE LET g == Meaning(p, Part(Label(n, i), 1), a, tr)
       IN CASE g.c # "value" -> g
            [] g.v = v       -> Groups(p, n, i, x, a, g.tr)
            [] OTHER         -> Cases(p, n, i + 1, v, x, a, g.tr)

\* The groups from the i-th on are executed, until one ends the switch.
Groups(p, n, i, x, a, tr) ==
  LET r == Exec(p, Group(Label(n, i)), x, a, tr)
  IN IF r.c = "normal" /\ Label(n, i).thru /\ i < Labels(n)
     THEN Groups(p, n, i + 1, x, a, r.tr) ELSE r

\* What run a of program p must end in.
Outcome(p, a) == Exec(p, p.main, [loop |-> FALSE, fn |-> FALSE], a, <<>>)
-----------------------------------------------------------------------------
(* Where the evaluator is known to differ, as conditions on the program's
   text.  MCFindings has a program for each. *)

RECURSIVE Subtrees(_), ReturnUnder(_, _), Escapes(_)

Subtrees(n) == {n} \cup UNION {Subtrees(n.kids[k]) : k \in DOMAIN n.kids}

\* A return stands inside at least k loops of tree n.
ReturnUnder(n, k) ==
  \/ n.op = "RETURN" /\ k = 0
  \/ \E j \in DOMAIN n.kids :
       ReturnUnder(n.kids[j], IF n.op \in LoopOps /\ k > 0 THEN k - 1 ELSE k)

\* A break or continue of tree n belongs to no loop of n.
Escapes(n) ==
  \/ n.op \in {"BREAK", "CONTINUE"}
  \/ n.op \notin LoopOps /\ \E j \in DOMAIN n.kids : Escapes(n.kids[j])

Bodies(p) == {p.fns[f].body : f \in DOMAIN p.fns}
Texts(p)  == Bodies(p) \cup {p.main}
Trees(p)  == UNION {Subtrees(n) : n \in Texts(p)}

\* Evaluating e may end in an exception or end the script.
MayDivert(p, e) ==
  \E n \in Subtrees(e) :
    \/ n.op \in {"RAISE", "EXIT"}
    \/ n.op = "CALL" /\ \/ n.name \notin DOMAIN p.fns
                        \/ Len(n.kids) < p.fns[n.name].args
                        \/ \E b \in Bodies(p) : \E t \in Subtrees(b) :
                             t.op \in {"THROW", "RAISE", "EXIT"}

ReturnInNestedLoops(p) == \E b \in Bodies(p) : ReturnUnder(b, 2)

ReturnOfThrowInTry(p) ==
  \E t \in Trees(p) : t.op = "TRY" /\
    \E r \in Subtrees(TryPart(t)) :
      r.op = "RETURN" /\ r.kids # <<>> /\ MayDivert(p, Part(r, 1))

EscapeFromFallThrough(p) ==
  \E t \in Trees(p) : t.op = "SWITCH" /\
    \E i \in 1..Labels(t) - 1 : Label(t, i).thru /\ Escapes(Group(Label(t, i)))

BreakOfCallersLoop(p) == \E b \in Bodies(p) : Escapes(b)

CallInDoTest(p) ==
  \E t \in Trees(p) : t.op = "DO" /\ Escapes(TrueCase(t)) /\
    \E n \in Subtrees(Test(t)) : n.op = "CALL" /\ n.name \in DOMAIN p.fns

ThrowOfThrow(p) ==
  \E t \in Trees(p) : t.op = "THROW" /\ MayDivert(p, Part(t, 1))

Differs(p) == \/ ReturnInNestedLoops(p) \/ ReturnOfThrowInTry(p)
              \/ EscapeFromFallThrough(p) \/ BreakOfCallersLoop(p) \/ CallInDoTest(p)
              \/ ThrowOfThrow(p)
=============================================================================
