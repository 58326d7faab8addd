---------------------------- MODULE MCSystemRun ----------------------------
(***************************************************************************)
(* Instances of SystemRun: every child script up to a length, with every    *)
(* combination of redirections, and the calls that do not come back.        *)
(***************************************************************************)
EXTENDS SystemRun

Scripts(n) == UNION {[1..k -> Pipes] : k \in 0..n}
Inputs     == {[kind |-> "none", len |-> 0], [kind |-> "string", len |-> 0],
               [kind |-> "string", len |-> 1], [kind |-> "other", len |-> 2]}

\* The script matters only up to what is redirected, and signals that are
\* ignored only for their effect on waitpid and on a broken pipe.
SomeCalls ==
  {c \in [input : Inputs, out : BOOLEAN, err : BOOLEAN, script : Scripts(4),
          end : Endings, ignore : BOOLEAN] :
     /\ c.end = "noexec" => c.script = <<>>
     /\ c.ignore => c.end = "exit" /\ Len(c.script) <= 2}

ACall(in, out, err, script, end, ignore) ==
  {[input |-> [kind |-> IF in = 0 THEN "none" ELSE "string", len |-> in],
    out |-> out, err |-> err, script |-> script, end |-> end, ignore |-> ignore]}

KilledBySignal == ACall(0, TRUE, FALSE, <<"out">>, "signal", FALSE)
SignalsIgnored == ACall(0, TRUE, FALSE, <<"out">>, "exit", TRUE)
LongOutput     == ACall(0, TRUE, TRUE, <<"out", "out", "out", "out">>, "exit", FALSE)
OutputFirst    == ACall(2, TRUE, FALSE, <<"out", "out", "in", "in">>, "exit", FALSE)
InputUnread    == ACall(1, TRUE, FALSE, <<>>, "exit", FALSE)
NoSuchCommand  == ACall(0, TRUE, FALSE, <<>>, "noexec", FALSE)
NumberAsInput  == {[input |-> [kind |-> "other", len |-> 1], out |-> TRUE, err |-> FALSE,
                    script |-> <<"in">>, end |-> "exit", ignore |-> FALSE]}
=============================================================================
