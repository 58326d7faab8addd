------------------------------- MODULE Symtab -------------------------------
(***************************************************************************)
(* A symbol table (libruntime/symtab_entry.c, symtab_memory.c): hash        *)
(* buckets, each with a vector of slots that only ever grows.  A deleted    *)
(* symbol leaves its slot behind, cleared.                                  *)
(*                                                                          *)
(* A slot belongs to the symbol it names; what a variable, a function or a  *)
(* class holds is opaque here.  The operators take a table and give the     *)
(* table after the call.                                                    *)
(***************************************************************************)
EXTENDS Integers, Sequences

CONSTANTS
  Names,       \* symbols
  Data,        \* values, signatures and class definitions
  Buckets,     \* the positions of the hash table
  Hash,        \* symtab_hash: the bucket of a symbol
  NULL,        \* no symbol
  CopyRoom     \* slots of a node that symtab_copy has room for (3 in the builds)

ASSUME HashAssumption == Hash \in [Names -> Buckets]
ASSUME NullAssumption == NULL \notin Names

Types == {"var", "function", "class"}

\* memset(entry, 0, sizeof(symtab_entry))
Dead  == [symbol |-> NULL, type |-> "none", data |-> "none"]
Entry == [symbol : Names, type : Types, data : Data]
Slot  == Entry \cup {Dead}
Node  == Seq(Slot)
Table == [Buckets -> Node]

NewTable == [b \in Buckets |-> <<>>]

SymbolEntry(n, type, d) == [symbol |-> n, type |-> type, data |-> d]
-----------------------------------------------------------------------------
\* symtab_lookup finds the first slot that carries the symbol.
Where(t, n) == {i \in 1..Len(t[Hash[n]]) : t[Hash[n]][i].symbol = n}
Found(t, n) == Where(t, n) # {}
First(S)    == CHOOSE i \in S : \A j \in S : i <= j
Index(t, n) == First(Where(t, n))
Lookup(t, n) == IF Found(t, n) THEN t[Hash[n]][Index(t, n)] ELSE Dead

\* symtab_get_variable and symtab_get_function.
LookupAs(t, n, type) == IF Lookup(t, n).type = type THEN Lookup(t, n) ELSE Dead
-----------------------------------------------------------------------------
SetSlot(t, n, e) == [t EXCEPT ![Hash[n]] = [@ EXCEPT ![Index(t, n)] = e]]
SymtabAdd(t, e)  == [t EXCEPT ![Hash[e.symbol]] = Append(@, e)]

\* The value is released and its name stays: mutant of Cleanup.
KeepName(t, n) == SetSlot(t, n, [Dead EXCEPT !.symbol = n])
Cleanup(t, n)  == SetSlot(t, n, Dead)

\* A variable or a class takes over the slot of its name.
AddVariable(t, n, v) ==
  LET e == SymbolEntry(n, "var", v)
  IN IF Found(t, n) THEN SetSlot(t, n, e) ELSE SymtabAdd(t, e)

AddClass(t, n, d) ==
  LET e == SymbolEntry(n, "class", d)
  IN IF Found(t, n) THEN SetSlot(t, n, e) ELSE SymtabAdd(t, e)

\* A function takes over the slot of a function only: one of another type is
\* cleared, and the function gets a slot at the end.
KeepOld(t, n) == t                                       \* mutant of MakeWay
MakeWay(t, n) ==
  IF Found(t, n) /\ Lookup(t, n).type # "function" THEN Cleanup(t, n) ELSE t

AddFunction(t, n, s) ==
  LET e == SymbolEntry(n, "function", s)
  IN IF Found(t, n) /\ Lookup(t, n).type = "function"
     THEN SetSlot(t, n, e) ELSE SymtabAdd(MakeWay(t, n), e)

Delete(t, n) == IF Found(t, n) THEN Cleanup(t, n) ELSE t

\* symtab_copy keeps the layout; entrydup makes no copy of a class.  The vector
\* it allocates is too small for a full node: CopyRoom slots are sure to fit.
Copy(t) == [b \in Buckets |->
              [i \in 1..Len(t[b]) |-> IF t[b][i].type = "class" THEN Dead ELSE t[b][i]]]
Fits(t) == \A b \in Buckets : Len(t[b]) <= CopyRoom
=============================================================================
