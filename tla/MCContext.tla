----------------------------- MODULE MCContext -----------------------------
(***************************************************************************)
(* Two modules that register the same name, one of which leaves a variable *)
(* behind, a library that is not a module, and a name without a library.   *)
(***************************************************************************)
EXTENDS Context

CONSTANTS a, b, odd, missing, f, v

SomeModules   == {a, b, odd, missing}
SomeLibraries == {a, b, odd}
OddOnes       == {odd}
SomeNames     == {f, v}
SomeFunctions == [m \in SomeLibraries |-> IF m = odd THEN {} ELSE {f}]
SomeKept      == [m \in SomeLibraries |-> IF m = b THEN {v} ELSE {}]
=============================================================================
