------------------------------- MODULE MCManual -------------------------------
(***************************************************************************)
(* The programs on which the evaluator is compared with the manual.        *)
(***************************************************************************)
EXTENDS MCPrograms

ManualPrograms == {p \in {InFunction(st) : st \in Depth2 \cup ExprStmts}
                           \cup {InMain(st) : st \in Depth2 \cup ExprStmts}
                           \cup {InTry(st) : st \in Depth1 \cup ExprStmts} : ~Promise!Differs(p)}
ManualTrees == TreesOf(ManualPrograms)

\* A script that has ended did, input for input and handler for handler, what
\* the manual says, and ended for the reason and with the status it says.
Conforms ==
  Halted =>
    LET o == Promise!Outcome(prog, trace)
    IN /\ o.tr = trace
       /\ s.exit_flag = (o.c # "normal")
       /\ s.exit_value = CASE o.c = "normal" -> 0
                           [] o.c = "exit"   -> ExitStatus
                           [] OTHER          -> -1
=============================================================================
