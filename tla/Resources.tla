----------------------------- MODULE Resources -----------------------------
(***************************************************************************)
(* Values that are resources (libruntime/value_cons.c, value_copy.c,       *)
(* value_memory.c): every copy of the value shares one counted structure,  *)
(* whose release function is called when the last copy is cleaned up.      *)
(*                                                                         *)
(* A cell is one value in memory that may be a resource: a variable of the *)
(* script, an argument of the call that is evaluated, or its result.  What *)
(* else a cell may hold makes no difference and is Plain.                  *)
(***************************************************************************)
EXTENDS Integers, FiniteSets

CONSTANTS Variable,     \* the variables of the script
          First, Second, \* the values an argument list holds
          Result,       \* the value a call returns
          Rid,          \* the counted structures
          Plain         \* what is in a cell that holds no resource

Argument == {First, Second}
Cell     == Variable \cup Argument \cup {Result}

ASSUME CellAssumption == /\ IsFiniteSet(Cell) /\ Rid \subseteq Nat /\ Plain \notin Rid
                         /\ Variable \cap (Argument \cup {Result}) = {}
                         /\ First # Second /\ Result \notin Argument

VARIABLES held,         \* what each cell holds
          count,        \* refcount of every structure; 0 when it is not allocated
          release,      \* its release function, as the module it belongs to
          phase         \* where the evaluation of a statement is

resourceVars == <<held, count, release, phase>>

Unallocated == {r \in Rid : count[r] = 0}

\* ++RESREF_OF, --RESREF_OF.
More(counts, r) == IF r = Plain THEN counts ELSE [counts EXCEPT ![r] = @ + 1]
Less(counts, r) == IF r = Plain THEN counts ELSE [counts EXCEPT ![r] = @ - 1]

\* The structures whose release function is called when a count drops.
Freed(before, after) == {r \in Rid : before[r] > 0 /\ after[r] = 0}

\* value_cleanup.
Uncounted(c) == count                                     \* mutant of Cleaned
Cleaned(c) == Less(count, held[c])

\* value_make_resource, as the result of a call.
MakeResource(rel) ==
  \E r \in Unallocated :
    /\ \A q \in Unallocated : r <= q
    /\ held' = [held EXCEPT ![Result] = r]
    /\ count' = [count EXCEPT ![r] = 1]
    /\ release' = [release EXCEPT ![r] = rel]

\* Two of them in place of the arguments, which were freed.
MakeArguments(rel) ==
  \E r, q \in Unallocated :
    /\ r < q /\ \A o \in Unallocated : o <= q => o \in {r, q}
    /\ held' = [held EXCEPT ![First] = r, ![Second] = q]
    /\ count' = [count EXCEPT ![r] = 1, ![q] = 1]
    /\ release' = [release EXCEPT ![r] = rel, ![q] = rel]

\* An expression that refers to a variable is evaluated to a copy of it
\* (copy_resource).
CopyOf(x, c) ==
  /\ held[c] = Plain /\ held[x] # Plain
  /\ held' = [held EXCEPT ![c] = held[x]]
  /\ count' = More(count, held[x])
  /\ UNCHANGED release

\* A value is stored in a variable (value_copy_to): the old one is cleaned up,
\* then the new one counted.
Store(c, x) ==
  /\ held' = [held EXCEPT ![x] = held[c]]
  /\ count' = More(Cleaned(x), held[c])
  /\ UNCHANGED release

\* A value is freed (value_free).
Free(c) ==
  /\ held[c] # Plain
  /\ held' = [held EXCEPT ![c] = Plain]
  /\ count' = Cleaned(c)
  /\ UNCHANGED release
-----------------------------------------------------------------------------
\* No structure is released while a value refers to it, and none is left
\* without one: the count is the number of values, whatever the order in which
\* arguments, results and variables are copied, overwritten and freed.
Holders(r) == {c \in Cell : held[c] = r}
CountsMatch == \A r \in Rid : count[r] = Cardinality(Holders(r))
=============================================================================
