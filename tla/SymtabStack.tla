----------------------------- MODULE SymtabStack -----------------------------
(***************************************************************************)
(* The global symbol table and the stack of local ones                      *)
(* (libruntime/symtab_stack.c): a table for every active call, constructor  *)
(* or method, of which only the topmost is seen.  It implements Scopes.     *)
(***************************************************************************)
EXTENDS Symtab, FiniteSets

CONSTANTS
  MaxDepth,    \* bound on the local tables
  MaxSlots     \* bound on the slots of all tables together

ASSUME BoundAssumption == MaxDepth \in Nat /\ MaxSlots \in Nat

VARIABLES
  global_table, \* the table of the functions of the library and the script
  local_tables, \* the table of each active call
  taken         \* the table the last symtab_stack_pop returned

vars == <<global_table, local_tables, taken>>

local_depth == Len(local_tables)

Init ==
  /\ global_table = NewTable
  /\ local_tables = <<>>
  /\ taken = NewTable

\* The place of the topmost table in the stack.
Top == local_depth

InTop(table)    == /\ local_tables' = [local_tables EXCEPT ![Top] = table]
                   /\ UNCHANGED <<global_table, taken>>
InGlobal(table) == global_table' = table /\ UNCHANGED <<local_tables, taken>>

\* Every call of symtab_stack.c that changes the current table does one thing
\* to the topmost local table, or to the global one where there is none.
StackAddVariable(n, v) ==
  IF local_depth > 0 THEN InTop(AddVariable(local_tables[Top], n, v))
                     ELSE InGlobal(AddVariable(global_table, n, v))

StackAddFunction(n, s) ==
  IF local_depth > 0 THEN InTop(AddFunction(local_tables[Top], n, s))
                     ELSE InGlobal(AddFunction(global_table, n, s))

StackAddClass(n, d) ==
  IF local_depth > 0 THEN InTop(AddClass(local_tables[Top], n, d))
                     ELSE InGlobal(AddClass(global_table, n, d))

StackDelete(n) ==
  IF local_depth > 0 THEN InTop(Delete(local_tables[Top], n))
                     ELSE InGlobal(Delete(global_table, n))

AddGlobalVariable(n, v) == InGlobal(AddVariable(global_table, n, v))
AddGlobalFunction(n, s) == InGlobal(AddFunction(global_table, n, s))
AddBuiltinClass(n, d)   == InGlobal(AddClass(global_table, n, d))
DeleteGlobal(n)         == InGlobal(Delete(global_table, n))

Enter ==
  /\ local_depth < MaxDepth
  /\ local_tables' = Append(local_tables, NewTable)
  /\ UNCHANGED <<global_table, taken>>

\* symtab_stack_leave frees the topmost table, symtab_stack_pop returns it.
Leave ==
  /\ local_depth > 0
  /\ local_tables' = SubSeq(local_tables, 1, local_depth - 1)
  /\ UNCHANGED <<global_table, taken>>

Pop ==
  /\ local_depth > 0
  /\ local_tables' = SubSeq(local_tables, 1, local_depth - 1)
  /\ taken' = local_tables[local_depth]
  /\ UNCHANGED global_table

\* The table of a struct is copied with its value.
CopyTaken ==
  /\ Fits(taken)
  /\ taken' = Copy(taken)
  /\ UNCHANGED <<global_table, local_tables>>

\* symtab_stack_teardown, and symtab_stack_init of the next context.
Teardown ==
  /\ global_table' = NewTable /\ local_tables' = <<>>
  /\ UNCHANGED taken

\* Only adding a symbol makes a node longer.
SlotsOf(t) == {p \in Buckets \X (1..MaxSlots + 1) : p[2] <= Len(t[p[1]])}
Bounded ==
  Cardinality(SlotsOf(taken')) + Cardinality(SlotsOf(global_table'))
    + Cardinality(UNION {{k} \X SlotsOf(local_tables'[k]) : k \in 1..Len(local_tables')})
    <= MaxSlots

Define == /\ \E n \in Names, d \in Data :
                \/ StackAddVariable(n, d) \/ StackAddFunction(n, d) \/ StackAddClass(n, d)
                \/ AddGlobalVariable(n, d) \/ AddGlobalFunction(n, d) \/ AddBuiltinClass(n, d)
          /\ Bounded
Undefine == \E n \in Names : StackDelete(n) \/ DeleteGlobal(n)

Next == Define \/ Undefine \/ Enter \/ Leave \/ Pop \/ CopyTaken \/ Teardown

Spec == Init /\ [][Next]_vars
-----------------------------------------------------------------------------
(* What the code reads. *)

StackLookup(n) ==
  IF local_depth > 0 /\ Found(local_tables[Top], n)
  THEN Lookup(local_tables[Top], n) ELSE Lookup(global_table, n)

\* A local name of another kind hides the global one: mutant of StackGet.
HidingGet(n, type) ==
  IF local_depth > 0 /\ Found(local_tables[Top], n)
  THEN LookupAs(local_tables[Top], n, type) ELSE LookupAs(global_table, n, type)

StackGet(n, type) ==
  IF local_depth > 0 /\ LookupAs(local_tables[Top], n, type) # Dead
  THEN LookupAs(local_tables[Top], n, type) ELSE LookupAs(global_table, n, type)

StackLocal(n) == local_depth > 0 => Found(local_tables[Top], n)
-----------------------------------------------------------------------------
(* Properties. *)

\* The types of the variables.
TypeOK ==
  /\ global_table \in Table /\ taken \in Table
  /\ local_tables \in Seq(Table) /\ local_depth <= MaxDepth

\* Every symbol sits in the bucket of its hash, and in one slot of it only:
\* otherwise a deleted or redefined symbol would come back with its old meaning.
Proper(t) ==
  \A b \in Buckets : \A i \in 1..Len(t[b]) :
     t[b][i] # Dead =>
       /\ Hash[t[b][i].symbol] = b
       /\ \A j \in 1..Len(t[b]) : t[b][j].symbol = t[b][i].symbol => j = i
TablesProper ==
  /\ Proper(global_table) /\ Proper(taken)
  /\ \A k \in 1..local_depth : Proper(local_tables[k])

\* The map a table stands for.
MeaningOf(e) == [type |-> e.type, data |-> e.data]
MapOf(t) == [n \in Names |-> MeaningOf(Lookup(t, n))]

Abs == INSTANCE Scopes WITH global <- MapOf(global_table),
                            locals <- [k \in 1..local_depth |-> MapOf(local_tables[k])],
                            popped <- MapOf(taken)

\* The tables behave as maps from names to meanings: a context starts with no
\* name, and every call does to the maps what it is there for.
StepsMatch ==
  /\ \A n \in Names, d \in Data :
       /\ StackAddVariable(n, d)  => Abs!Bind(n, Abs!Var(d))
       /\ StackAddFunction(n, d)  => Abs!Bind(n, Abs!Function(d))
       /\ StackAddClass(n, d)     => Abs!Bind(n, Abs!Class(d))
       /\ AddGlobalVariable(n, d) => Abs!BindGlobal(n, Abs!Var(d))
       /\ AddGlobalFunction(n, d) => Abs!BindGlobal(n, Abs!Function(d))
       /\ AddBuiltinClass(n, d)   => Abs!BindGlobal(n, Abs!Class(d))
  /\ \A n \in Names :
       /\ StackDelete(n)  => Abs!Bind(n, Abs!None)
       /\ DeleteGlobal(n) => Abs!BindGlobal(n, Abs!None)
  /\ Enter => Abs!Enter
  /\ Leave \/ Pop => Abs!Leave
  /\ CopyTaken => Abs!CopyMembers
  /\ Teardown => Abs!Teardown
ImplementsScopes == Abs!Init /\ [][StepsMatch]_vars

\* What the code finds for a name is what the scopes say it means.
LookupRight ==
  \A n \in Names :
    /\ MeaningOf(StackLookup(n)) = Abs!Resolve(n)
    /\ \A type \in Types : MeaningOf(StackGet(n, type)) = Abs!ResolveAs(n, type)
    /\ StackLocal(n) <=> Abs!IsLocal(n)

\* "the memory will be reused when another symbol is added to that node"
Reused ==
  \A b \in Buckets : Len(global_table[b]) <= Cardinality({n \in Names : Hash[n] = b})
=============================================================================
