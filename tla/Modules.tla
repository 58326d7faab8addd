------------------------------ MODULE Modules ------------------------------
(***************************************************************************)
(* A script that calls the mem and file modules: the statements it is made *)
(* of evaluate arguments, call one function, store its result and free     *)
(* what was only needed on the way (libeval/eval_call.c, eval_assign.c).   *)
(***************************************************************************)
EXTENDS MemBlock, Files

CONSTANTS MaxCalls,     \* calls of a script, depending on the modules it has loaded
          Cwd           \* the current directory at the start

ASSUME CwdAssumption == Normal(Cwd)

VARIABLES loaded,       \* the modules
          calls

vars == <<resourceVars, memVars, fileVars, loaded, calls>>

\* A script with the file module has a variable with a standard stream.
Init ==
  /\ loaded \in DOMAIN MaxCalls
  /\ \E x \in Variable, r \in Rid :
       LET std == "file" \in loaded
       IN /\ \A q \in Rid : r <= q
          /\ held = [c \in Cell |-> IF std /\ c = x THEN r ELSE Plain]
          /\ count = [q \in Rid |-> IF std /\ q = r THEN 1 ELSE 0]
          /\ release = [q \in Rid |-> IF std /\ q = r THEN "file" ELSE "none"]
          /\ file = [q \in Rid |-> IF std /\ q = r THEN Standard ELSE 0]
  /\ phase = "arguments"
  /\ mem = [r \in Rid |-> Null] /\ heap = [b \in Block |-> Unused]
  /\ fault = "none" /\ dangling = {}
  /\ stream = [s \in Stream |-> IF s = Standard THEN OpenAt(<<>>, "r", TRUE) ELSE Fresh]
  /\ cwd = Cwd /\ safe \in BOOLEAN /\ ("file" \notin loaded => ~safe)
  /\ seen = {} /\ changed = {} /\ taken = {} /\ misuse = FALSE /\ lost = FALSE
  /\ calls = 0

\* The release functions of what is freed.
Released ==
  LET R == Freed(count, count')
  IN /\ Becomes(IF R = {} THEN Now ELSE MemRelease(Now, CHOOSE r \in R : TRUE))
     /\ FileRelease(R)
     /\ SeesNone
Idle == UNCHANGED <<memVars, fileVars, loaded, calls>>
Runs == fault = "none" /\ ~misuse

\* An argument of the call to come, from left to right.
LoadFirst  == /\ Runs /\ phase = "arguments" /\ held[Second] = Plain /\ calls < MaxCalls[loaded]
              /\ \E x \in Variable : CopyOf(x, First)
              /\ UNCHANGED phase /\ Idle
LoadSecond == /\ Runs /\ phase = "arguments" /\ held[First] # Plain
              /\ \E x \in Variable : CopyOf(x, Second)
              /\ UNCHANGED phase /\ Idle

\* The right side of an assignment may also be a variable.
Reference == /\ Runs /\ phase = "arguments" /\ held[First] = Plain
             /\ \E x \in Variable : CopyOf(x, Result)
             /\ phase' = "freed"
             /\ Idle

Calls(module) == Runs /\ module \in loaded /\ calls < MaxCalls[loaded] /\ calls' = calls + 1 /\ UNCHANGED loaded
CallMem  == Calls("mem") /\ MemCall /\ UNCHANGED fileVars
CallFile == Calls("file") /\ FileCall /\ UNCHANGED memVars

\* update_call_args.
WriteBack(a, from, to) ==
  /\ Runs /\ phase = from /\ phase' = to
  /\ \E x \in Variable : Store(a, x)
  /\ Released /\ UNCHANGED <<loaded, calls, cwd, safe, lost>>
WriteFirst  == WriteBack(First, "first", "second")
WriteSecond == WriteBack(Second, "second", "returned")

\* free_call_args.
FreeArgument ==
  /\ Runs /\ phase = "returned"
  /\ \E a \in Argument : (a = Second => held[First] = Plain) /\ Free(a)
  /\ UNCHANGED phase /\ Released /\ UNCHANGED <<loaded, calls, cwd, safe, lost>>
ArgumentsFreed == /\ Runs /\ phase = "returned" /\ \A a \in Argument : held[a] = Plain
                  /\ phase' = "freed" /\ UNCHANGED <<held, count, release>> /\ Idle

\* The result is assigned to a variable, and freed; that of an expression
\* statement is only freed.
StoreResult ==
  /\ Runs /\ phase = "freed" /\ phase' = "stored"
  /\ \E x \in Variable : Store(Result, x)
  /\ Released /\ UNCHANGED <<loaded, calls, cwd, safe, lost>>
FreeResult ==
  /\ Runs /\ phase \in {"freed", "stored"} /\ phase' = "arguments"
  /\ IF held[Result] = Plain THEN UNCHANGED <<held, count, release>> ELSE Free(Result)
  /\ Released /\ UNCHANGED <<loaded, calls, cwd, safe, lost>>

\* unset, or the end of a scope.
Unset ==
  /\ Runs /\ phase = "arguments" /\ held[First] = Plain
  /\ \E x \in Variable : Free(x)
  /\ UNCHANGED phase /\ Released /\ UNCHANGED <<loaded, calls, cwd, safe, lost>>

Next == \/ LoadFirst \/ LoadSecond \/ Reference \/ CallMem \/ CallFile
        \/ WriteFirst \/ WriteSecond \/ FreeArgument \/ ArgumentsFreed
        \/ StoreResult \/ FreeResult \/ Unset

Spec == Init /\ [][Next]_vars
=============================================================================
