------------------------------- MODULE Scopes -------------------------------
(***************************************************************************)
(* What the symbol tables of the interpreter promise: a global scope and a *)
(* stack of local ones, each a map from names to what they stand for.      *)
(* Only the innermost local scope and the global one are visible.          *)
(***************************************************************************)
EXTENDS Integers, Sequences

CONSTANTS
  Names,       \* the names of variables, functions and classes
  Data         \* values, signatures and class definitions

Types   == {"var", "function", "class"}
Meaning == [type : Types, data : Data]
None    == [type |-> "none", data |-> "none"]
Scope   == [Names -> Meaning \cup {None}]
Empty   == [n \in Names |-> None]

VARIABLES
  global,      \* the global scope
  locals,      \* the local scopes, the innermost one last
  popped       \* the local scope that was taken off the stack last

scopes == <<global, locals, popped>>

Var(v)      == [type |-> "var", data |-> v]
Function(s) == [type |-> "function", data |-> s]
Class(d)    == [type |-> "class", data |-> d]

Depth == Len(locals)

Init == global = Empty /\ locals = <<>> /\ popped = Empty

\* A name gets a meaning, or loses it, in the current scope: the innermost local
\* one, or the global one where there is none.
Bind(n, m) ==
  /\ IF Depth > 0
     THEN locals' = [locals EXCEPT ![Depth][n] = m] /\ UNCHANGED global
     ELSE global' = [global EXCEPT ![n] = m] /\ UNCHANGED locals
  /\ UNCHANGED popped

BindGlobal(n, m) ==
  /\ global' = [global EXCEPT ![n] = m]
  /\ UNCHANGED <<locals, popped>>

Enter == locals' = Append(locals, Empty) /\ UNCHANGED <<global, popped>>

\* The innermost scope goes away, or becomes the members of a struct.
Leave ==
  /\ Depth > 0
  /\ locals' = SubSeq(locals, 1, Depth - 1)
  /\ popped' \in {popped, locals[Depth]}
  /\ UNCHANGED global

\* A struct is copied: its classes are not.
Copied(m) == [n \in Names |-> IF m[n].type = "class" THEN None ELSE m[n]]
CopyMembers == popped' = Copied(popped) /\ UNCHANGED <<global, locals>>

Teardown == global' = Empty /\ locals' = <<>> /\ UNCHANGED popped

Next ==
  \/ \E n \in Names, m \in Meaning \cup {None} : Bind(n, m) \/ BindGlobal(n, m)
  \/ Enter \/ Leave \/ CopyMembers \/ Teardown

Spec == Init /\ [][Next]_scopes
-----------------------------------------------------------------------------
\* The meaning of a name seen from the current scope.
Resolve(n) == IF Depth > 0 /\ locals[Depth][n] # None THEN locals[Depth][n] ELSE global[n]

\* The variable or the function of a name: a local name of another kind does
\* not hide a global one of the wanted kind.
ResolveAs(n, type) ==
  IF Depth > 0 /\ locals[Depth][n].type = type THEN locals[Depth][n]
  ELSE IF global[n].type = type THEN global[n] ELSE None

IsLocal(n) == Depth > 0 => locals[Depth][n] # None
=============================================================================
