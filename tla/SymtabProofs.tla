---------------------------- MODULE SymtabProofs ----------------------------
(***************************************************************************)
(* Proofs about the symbol tables: every table stays proper, and what a    *)
(* call does to a proper table is what it is there to do to the map the    *)
(* table stands for, for every set of names, every hash function and every *)
(* depth of the stack.                                                     *)
(***************************************************************************)
EXTENDS SymtabStack, TLAPS

-----------------------------------------------------------------------------
(* Slots, nodes and tables. *)

\* An empty slot is no entry, and its name is no name.
LEMMA DeadIsNoEntry ==
  /\ Dead \in Slot /\ Dead \notin Entry /\ Dead.symbol = NULL
  /\ \A n \in Names : n # NULL
  /\ \A s \in Slot : s.symbol # NULL => s \in Entry
  /\ \A s \in Slot : s # Dead => s \in Entry /\ s.symbol \in Names
BY NullAssumption DEF Slot, Entry, Dead

\* An entry made from a name, a kind and a payload.
LEMMA EntryMade ==
  ASSUME NEW n \in Names, NEW type \in Types, NEW d \in Data
  PROVE  /\ SymbolEntry(n, type, d) \in Entry
         /\ SymbolEntry(n, type, d) \in Slot
         /\ SymbolEntry(n, type, d).symbol = n
         /\ SymbolEntry(n, type, d).type = type
         /\ MeaningOf(SymbolEntry(n, type, d)) = [type |-> type, data |-> d]
BY DEF SymbolEntry, Entry, Slot, MeaningOf

\* A node is a sequence of slots.
LEMMA NodeTyped ==
  ASSUME NEW t \in Table, NEW b \in Buckets
  PROVE  /\ t[b] \in Seq(Slot) /\ Len(t[b]) \in Nat
         /\ \A i \in 1..Len(t[b]) : t[b][i] \in Slot
BY DEF Table, Node

\* Every name has a bucket.
LEMMA HashTyped == \A n \in Names : Hash[n] \in Buckets
BY HashAssumption

\* In a proper table a name sits in one slot, which every lookup finds.
LEMMA OnlyOne ==
  ASSUME NEW t \in Table, Proper(t), NEW n \in Names, NEW i \in Where(t, n)
  PROVE  /\ Where(t, n) = {i} /\ Found(t, n) /\ Index(t, n) = i
         /\ Lookup(t, n) = t[Hash[n]][i]
<1>1. i \in 1..Len(t[Hash[n]]) /\ t[Hash[n]][i].symbol = n  BY DEF Where
<1>2. t[Hash[n]][i] # Dead  BY <1>1, DeadIsNoEntry
<1>3. \A j \in 1..Len(t[Hash[n]]) : t[Hash[n]][j].symbol = n => j = i
  BY <1>1, <1>2, HashTyped DEF Proper
<1>4. Where(t, n) = {i}  BY <1>1, <1>3 DEF Where
<1>5. i \in Int  BY <1>1, NodeTyped, HashTyped
<1>6. First({i}) = i  BY <1>5 DEF First
<1> QED  BY <1>4, <1>6 DEF Found, Index, Lookup

\* A name without a slot is not found.
LEMMA NotThere ==
  ASSUME NEW t, NEW n, ~Found(t, n)
  PROVE  Where(t, n) = {} /\ Lookup(t, n) = Dead
BY DEF Found, Lookup

\* The map a table stands for gives a meaning or none to every name.
LEMMA MapTyped ==
  ASSUME NEW t \in Table, Proper(t), NEW n \in Names
  PROVE  /\ Lookup(t, n) \in Slot
         /\ Found(t, n) => Lookup(t, n) \in Entry /\ Lookup(t, n).symbol = n
         /\ ~Found(t, n) => Lookup(t, n) = Dead
<1>1. CASE Found(t, n)
  <2>1. PICK i \in Where(t, n) : TRUE  BY <1>1 DEF Found
  <2>2. i \in 1..Len(t[Hash[n]]) /\ t[Hash[n]][i].symbol = n  BY <2>1 DEF Where
  <2>3. t[Hash[n]][i] \in Slot  BY <2>2, NodeTyped, HashTyped
  <2>4. Lookup(t, n) = t[Hash[n]][i]  BY <2>1, OnlyOne
  <2> QED  BY <1>1, <2>2, <2>3, <2>4, DeadIsNoEntry
<1>2. CASE ~Found(t, n)  BY <1>2, NotThere, DeadIsNoEntry
<1> QED  BY <1>1, <1>2
-----------------------------------------------------------------------------
(* The two ways a call changes a table: it writes to the slot of a name, or  *)
(* it appends one.                                                           *)

\* Table t with the meaning of one name changed is table u.
Becomes(t, u, n, m) ==
  /\ u \in Table /\ Proper(u)
  /\ MapOf(u) = [MapOf(t) EXCEPT ![n] = m]

\* What is to be shown name by name.
LEMMA ByName ==
  ASSUME NEW t, NEW u \in Table, Proper(u), NEW n \in Names, NEW m,
         MeaningOf(Lookup(u, n)) = m,
         \A k \in Names \ {n} : Lookup(u, k) = Lookup(t, k)
  PROVE  Becomes(t, u, n, m)
BY DEF Becomes, MapOf

\* Writing a slot keeps the table proper, when the slot keeps its name or is
\* cleared, and leaves the other names alone.
LEMMA SlotWritten ==
  ASSUME NEW t \in Table, Proper(t), NEW n \in Names, Found(t, n),
         NEW e \in Slot, e.symbol = n \/ e = Dead
  PROVE  /\ SetSlot(t, n, e) \in Table /\ Proper(SetSlot(t, n, e))
         /\ Lookup(SetSlot(t, n, e), n) = e
         /\ e = Dead => ~Found(SetSlot(t, n, e), n)
         /\ \A k \in Names \ {n} : Lookup(SetSlot(t, n, e), k) = Lookup(t, k)
<1> DEFINE h == Hash[n]
           u == SetSlot(t, n, e)
<1>1. PICK i \in Where(t, n) : TRUE  BY DEF Found
<1>2. i \in 1..Len(t[h]) /\ t[h][i].symbol = n  BY <1>1 DEF Where
<1>3. Index(t, n) = i /\ Where(t, n) = {i}  BY <1>1, OnlyOne
<1>4. h \in Buckets  BY HashTyped
<1>5. u = [t EXCEPT ![h] = [t[h] EXCEPT ![i] = e]]  BY <1>3 DEF SetSlot
<1>6. u[h] = [t[h] EXCEPT ![i] = e] /\ \A b \in Buckets \ {h} : u[b] = t[b]
  BY <1>4, <1>5 DEF Table
<1>7. t[h] \in Seq(Slot) /\ Len(t[h]) \in Nat  BY <1>4, NodeTyped
<1>8. u[h] \in Seq(Slot) /\ Len(u[h]) = Len(t[h])  BY <1>2, <1>6, <1>7
<1>9. u[h][i] = e /\ \A j \in 1..Len(t[h]) : j # i => u[h][j] = t[h][j]
  BY <1>2, <1>6, <1>7
<1>10. u \in Table  BY <1>4, <1>5, <1>6, <1>8 DEF Table, Node
<1>11. \A j \in 1..Len(t[h]) : u[h][j].symbol \in {t[h][j].symbol, NULL}
  BY <1>2, <1>9, DeadIsNoEntry
<1>12. Proper(u)
  <2> SUFFICES ASSUME NEW b \in Buckets, NEW j \in 1..Len(u[b]), u[b][j] # Dead
               PROVE  /\ Hash[u[b][j].symbol] = b
                      /\ \A k \in 1..Len(u[b]) : u[b][k].symbol = u[b][j].symbol => k = j
    BY DEF Proper
  <2>1. CASE b # h
    BY <2>1, <1>6 DEF Proper
  <2>2. CASE b = h
    <3>1. u[h][j] \in Slot  BY <2>2, <1>8
    <3>2. u[h][j].symbol # NULL  BY <3>1, <2>2, DeadIsNoEntry
    <3>3. j \in 1..Len(t[h])  BY <2>2, <1>8
    <3>4. u[h][j].symbol = t[h][j].symbol  BY <1>11, <3>2, <3>3
    <3>5. t[h][j] # Dead  BY <3>2, <3>4, DeadIsNoEntry
    <3>6. /\ Hash[t[h][j].symbol] = h
          /\ \A k \in 1..Len(t[h]) : t[h][k].symbol = t[h][j].symbol => k = j
      BY <1>4, <3>3, <3>5 DEF Proper
    <3>7. ASSUME NEW k \in 1..Len(u[h]), u[h][k].symbol = u[h][j].symbol  PROVE k = j
      BY <3>7, <1>8, <1>11, <3>2, <3>4, <3>6
    <3> QED  BY <2>2, <3>4, <3>6, <3>7
  <2> QED  BY <2>1, <2>2
<1>13. Lookup(u, n) = e /\ (e = Dead => ~Found(u, n))
  <2>1. CASE e.symbol = n
    <3>1. i \in Where(u, n)  BY <2>1, <1>2, <1>8, <1>9 DEF Where
    <3>2. Lookup(u, n) = e  BY <3>1, <1>9, <1>10, <1>12, OnlyOne
    <3> QED  BY <2>1, <3>2, DeadIsNoEntry
  <2>2. CASE e = Dead
    <3>1. Where(u, n) = {}
      BY <2>2, <1>2, <1>3, <1>8, <1>9, DeadIsNoEntry DEF Where
    <3> QED  BY <2>2, <3>1, NotThere DEF Found
  <2> QED  BY <2>1, <2>2
<1>14. ASSUME NEW k \in Names \ {n}  PROVE Lookup(u, k) = Lookup(t, k)
  <2>1. Where(u, k) = Where(t, k)
    <3>1. CASE Hash[k] = h
      BY <3>1, <1>2, <1>8, <1>9, DeadIsNoEntry DEF Where
    <3>2. CASE Hash[k] # h
      BY <3>2, <1>6, HashTyped DEF Where
    <3> QED  BY <3>1, <3>2
  <2>2. CASE Where(t, k) = {}  BY <2>1, <2>2, NotThere DEF Found
  <2>3. CASE Where(t, k) # {}
    <3>1. PICK j \in Where(t, k) : TRUE  BY <2>3
    <3>2. Lookup(t, k) = t[Hash[k]][j]  BY <3>1, OnlyOne
    <3>3. Lookup(u, k) = u[Hash[k]][j]  BY <3>1, <2>1, <1>10, <1>12, OnlyOne
    <3>4. j \in 1..Len(t[Hash[k]]) /\ t[Hash[k]][j].symbol = k  BY <3>1 DEF Where
    <3>5. u[Hash[k]][j] = t[Hash[k]][j]
      BY <3>4, <1>2, <1>6, <1>9, HashTyped
    <3> QED  BY <3>2, <3>3, <3>5
  <2> QED  BY <2>2, <2>3
<1> QED  BY <1>10, <1>12, <1>13, <1>14

\* So does appending a slot for a name that has none.
LEMMA SlotAdded ==
  ASSUME NEW t \in Table, Proper(t), NEW e \in Entry, ~Found(t, e.symbol)
  PROVE  /\ SymtabAdd(t, e) \in Table /\ Proper(SymtabAdd(t, e))
         /\ Lookup(SymtabAdd(t, e), e.symbol) = e
         /\ \A k \in Names \ {e.symbol} : Lookup(SymtabAdd(t, e), k) = Lookup(t, k)
<1> DEFINE n == e.symbol
           h == Hash[n]
           u == SymtabAdd(t, e)
           i == Len(t[h]) + 1
<1>1. n \in Names /\ h \in Buckets /\ e \in Slot /\ e # Dead
  BY HashTyped, DeadIsNoEntry DEF Entry, Slot
<1>2. t[h] \in Seq(Slot) /\ Len(t[h]) \in Nat  BY <1>1, NodeTyped
<1>3. u[h] = Append(t[h], e) /\ \A b \in Buckets \ {h} : u[b] = t[b]
  BY <1>1 DEF SymtabAdd, Table
<1>4. u[h] \in Seq(Slot) /\ Len(u[h]) = i  BY <1>1, <1>2, <1>3
<1>5. u[h][i] = e /\ \A j \in 1..Len(t[h]) : u[h][j] = t[h][j]
  BY <1>1, <1>2, <1>3
<1>6. u \in Table
  <2>1. u = [t EXCEPT ![h] = Append(t[h], e)]  BY DEF SymtabAdd
  <2> QED  BY <2>1, <1>1, <1>3, <1>4 DEF Table, Node
<1>7. \A j \in 1..Len(t[h]) : t[h][j].symbol # n  BY DEF Found, Where
<1>8. Proper(u)
  <2> SUFFICES ASSUME NEW b \in Buckets, NEW j \in 1..Len(u[b]), u[b][j] # Dead
               PROVE  /\ Hash[u[b][j].symbol] = b
                      /\ \A k \in 1..Len(u[b]) : u[b][k].symbol = u[b][j].symbol => k = j
    BY DEF Proper
  <2>1. CASE b # h
    BY <2>1, <1>3 DEF Proper
  <2>2. CASE b = h /\ j = i
    <3>1. u[b][j] = e  BY <2>2, <1>5
    <3>2. \A k \in 1..Len(u[h]) : k # i => k \in 1..Len(t[h])  BY <1>2, <1>4
    <3>3. \A k \in 1..Len(u[h]) : u[h][k].symbol = n => k = i
      BY <3>2, <1>5, <1>7
    <3> QED  BY <2>2, <3>1, <3>3
  <2>3. CASE b = h /\ j # i
    <3>1. j \in 1..Len(t[h])  BY <2>3, <1>2, <1>4
    <3>2. u[h][j] = t[h][j] /\ t[h][j] # Dead  BY <3>1, <1>5, <2>3
    <3>3. /\ Hash[t[h][j].symbol] = h
          /\ \A k \in 1..Len(t[h]) : t[h][k].symbol = t[h][j].symbol => k = j
      BY <1>1, <3>1, <3>2 DEF Proper
    <3>4. ASSUME NEW k \in 1..Len(u[h]), u[h][k].symbol = u[h][j].symbol  PROVE k = j
      <4>1. CASE k = i
        BY <4>1, <3>1, <3>2, <3>4, <1>5, <1>7
      <4>2. CASE k # i
        <5>1. k \in 1..Len(t[h])  BY <4>2, <1>2, <1>4
        <5> QED  BY <5>1, <3>2, <3>3, <3>4, <1>5
      <4> QED  BY <4>1, <4>2
    <3> QED  BY <2>3, <3>2, <3>3, <3>4
  <2> QED  BY <2>1, <2>2, <2>3
<1>9. Lookup(u, n) = e
  <2>1. i \in Where(u, n)  BY <1>2, <1>4, <1>5 DEF Where
  <2> QED  BY <2>1, <1>1, <1>5, <1>6, <1>8, OnlyOne
<1>10. ASSUME NEW k \in Names \ {n}  PROVE Lookup(u, k) = Lookup(t, k)
  <2>1. Where(u, k) = Where(t, k)
    <3>1. CASE Hash[k] = h
      <4>1. \A j \in 1..i : j # i => j \in 1..Len(t[h])  BY <1>2
      <4> QED  BY <4>1, <3>1, <1>2, <1>4, <1>5 DEF Where
    <3>2. CASE Hash[k] # h
      BY <3>2, <1>3, HashTyped DEF Where
    <3> QED  BY <3>1, <3>2
  <2>2. CASE Where(t, k) = {}  BY <2>1, <2>2, NotThere DEF Found
  <2>3. CASE Where(t, k) # {}
    <3>1. PICK j \in Where(t, k) : TRUE  BY <2>3
    <3>2. Lookup(t, k) = t[Hash[k]][j]  BY <3>1, OnlyOne
    <3>3. Lookup(u, k) = u[Hash[k]][j]  BY <3>1, <2>1, <1>6, <1>8, OnlyOne
    <3>4. j \in 1..Len(t[Hash[k]])  BY <3>1 DEF Where
    <3>5. u[Hash[k]][j] = t[Hash[k]][j]
      BY <3>4, <1>3, <1>5, HashTyped
    <3> QED  BY <3>2, <3>3, <3>5
  <2> QED  BY <2>2, <2>3
<1> QED  BY <1>6, <1>8, <1>9, <1>10
-----------------------------------------------------------------------------
(* What each call does to a table. *)

\* A new table stands for the empty map.
LEMMA NewIsEmpty ==
  NewTable \in Table /\ Proper(NewTable) /\ MapOf(NewTable) = Abs!Empty
<1>1. NewTable \in Table  BY DEF NewTable, Table, Node
<1>2. \A b \in Buckets : Len(NewTable[b]) = 0  BY DEF NewTable
<1>3. Proper(NewTable)  BY <1>2 DEF Proper
<1>4. ASSUME NEW n \in Names  PROVE Lookup(NewTable, n) = Dead
  BY <1>2, HashTyped DEF Lookup, Found, Where
<1> QED  BY <1>1, <1>3, <1>4 DEF MapOf, MeaningOf, Dead, Abs!Empty, Abs!None

\* A symbol that is written over or appended binds its name to the new meaning.
LEMMA Bound ==
  ASSUME NEW t \in Table, Proper(t), NEW n \in Names, NEW type \in Types, NEW d \in Data
  PROVE  LET e == SymbolEntry(n, type, d)
             u == IF Found(t, n) THEN SetSlot(t, n, e) ELSE SymtabAdd(t, e)
         IN  Becomes(t, u, n, [type |-> type, data |-> d])
<1> DEFINE e == SymbolEntry(n, type, d)
<1>1. e \in Entry /\ e \in Slot /\ e.symbol = n /\ MeaningOf(e) = [type |-> type, data |-> d]
  BY EntryMade
<1> HIDE DEF e
<1>2. CASE Found(t, n)
  <2>1. /\ SetSlot(t, n, e) \in Table /\ Proper(SetSlot(t, n, e))
        /\ Lookup(SetSlot(t, n, e), n) = e
        /\ \A k \in Names \ {n} : Lookup(SetSlot(t, n, e), k) = Lookup(t, k)
    BY <1>1, <1>2, SlotWritten
  <2>2. Becomes(t, SetSlot(t, n, e), n, [type |-> type, data |-> d])
    BY <1>1, <2>1, ByName
  <2> QED  BY <1>2, <2>2 DEF e
<1>3. CASE ~Found(t, n)
  <2>1. /\ SymtabAdd(t, e) \in Table /\ Proper(SymtabAdd(t, e))
        /\ Lookup(SymtabAdd(t, e), n) = e
        /\ \A k \in Names \ {n} : Lookup(SymtabAdd(t, e), k) = Lookup(t, k)
    BY <1>1, <1>3, SlotAdded
  <2>2. Becomes(t, SymtabAdd(t, e), n, [type |-> type, data |-> d])
    BY <1>1, <2>1, ByName
  <2> QED  BY <1>3, <2>2 DEF e
<1> QED  BY <1>2, <1>3

\* symtab_add_variable, symtab_add_class and symtab_add_builtin_class.
LEMMA AddVariableBinds ==
  ASSUME NEW t \in Table, Proper(t), NEW n \in Names, NEW d \in Data
  PROVE  /\ Becomes(t, AddVariable(t, n, d), n, Abs!Var(d))
         /\ Becomes(t, AddClass(t, n, d), n, Abs!Class(d))
<1>1. "var" \in Types /\ "class" \in Types  BY DEF Types
<1> QED  BY <1>1, Bound DEF AddVariable, AddClass, Abs!Var, Abs!Class

\* symtab_entry_cleanup takes the name out of the table.
LEMMA CleanupForgets ==
  ASSUME NEW t \in Table, Proper(t), NEW n \in Names, Found(t, n)
  PROVE  /\ Cleanup(t, n) \in Table /\ Proper(Cleanup(t, n))
         /\ Lookup(Cleanup(t, n), n) = Dead /\ ~Found(Cleanup(t, n), n)
         /\ \A k \in Names \ {n} : Lookup(Cleanup(t, n), k) = Lookup(t, k)
BY SlotWritten, DeadIsNoEntry DEF Cleanup

\* symtab_add_function: the slot of another kind is cleared first, or the name
\* would be in the table twice.
LEMMA AddFunctionBinds ==
  ASSUME NEW t \in Table, Proper(t), NEW n \in Names, NEW d \in Data
  PROVE  Becomes(t, AddFunction(t, n, d), n, Abs!Function(d))
<1> DEFINE e == SymbolEntry(n, "function", d)
           w == MakeWay(t, n)
<1>1. "function" \in Types  BY DEF Types
<1>2. e \in Entry /\ e.symbol = n /\ MeaningOf(e) = Abs!Function(d)
  BY <1>1, EntryMade DEF Abs!Function
<1>3. CASE Found(t, n) /\ Lookup(t, n).type = "function"
  BY <1>1, <1>3, Bound DEF AddFunction, Abs!Function
<1>4. CASE ~(Found(t, n) /\ Lookup(t, n).type = "function")
  <2>1. /\ w \in Table /\ Proper(w) /\ ~Found(w, n)
        /\ \A k \in Names \ {n} : Lookup(w, k) = Lookup(t, k)
    <3>1. CASE Found(t, n)
      <4>1. w = Cleanup(t, n)  BY <3>1, <1>4 DEF MakeWay
      <4> QED  BY <3>1, <4>1, CleanupForgets
    <3>2. CASE ~Found(t, n)
      BY <3>2 DEF MakeWay
    <3> QED  BY <3>1, <3>2
  <2> HIDE DEF w, e
  <2>2. /\ SymtabAdd(w, e) \in Table /\ Proper(SymtabAdd(w, e))
        /\ Lookup(SymtabAdd(w, e), n) = e
        /\ \A k \in Names \ {n} : Lookup(SymtabAdd(w, e), k) = Lookup(w, k)
    BY <1>2, <2>1, SlotAdded
  <2>3. Becomes(t, SymtabAdd(w, e), n, Abs!Function(d))
    BY <1>2, <2>1, <2>2, ByName
  <2> QED  BY <1>4, <2>3 DEF AddFunction, w, e
<1> QED  BY <1>3, <1>4

\* symtab_delete
LEMMA DeleteUnbinds ==
  ASSUME NEW t \in Table, Proper(t), NEW n \in Names
  PROVE  Becomes(t, Delete(t, n), n, Abs!None)
<1>1. MeaningOf(Dead) = Abs!None  BY DEF MeaningOf, Dead, Abs!None
<1>2. CASE Found(t, n)
  <2>1. Delete(t, n) = Cleanup(t, n)  BY <1>2 DEF Delete
  <2> QED  BY <1>1, <1>2, <2>1, CleanupForgets, ByName
<1>3. CASE ~Found(t, n)
  <2>1. Delete(t, n) = t /\ Lookup(t, n) = Dead  BY <1>3, NotThere DEF Delete
  <2> QED  BY <1>1, <2>1, ByName
<1> QED  BY <1>2, <1>3

\* symtab_copy gives every name its meaning, but for the classes.
LEMMA CopyKeeps ==
  ASSUME NEW t \in Table, Proper(t)
  PROVE  Copy(t) \in Table /\ Proper(Copy(t)) /\ MapOf(Copy(t)) = Abs!Copied(MapOf(t))
<1> DEFINE u == Copy(t)
<1>1. ASSUME NEW b \in Buckets
      PROVE  /\ u[b] \in Seq(Slot) /\ Len(u[b]) = Len(t[b])
             /\ \A i \in 1..Len(t[b]) :
                  u[b][i] = IF t[b][i].type = "class" THEN Dead ELSE t[b][i]
  <2> DEFINE D(s) == IF s.type = "class" THEN Dead ELSE s
  <2>1. t[b] \in Seq(Slot) /\ Len(t[b]) \in Nat /\ \A i \in 1..Len(t[b]) : t[b][i] \in Slot
    BY NodeTyped
  <2>2. \A s \in Slot : D(s) \in Slot  BY DeadIsNoEntry
  <2>3. u[b] = [i \in 1..Len(t[b]) |-> D(t[b][i])]  BY DEF Copy
  <2> HIDE DEF D, u
  <2>4. u[b] \in Seq(Slot) /\ Len(u[b]) = Len(t[b])  BY <2>1, <2>2, <2>3
  <2>5. \A i \in 1..Len(t[b]) : u[b][i] = D(t[b][i])  BY <2>3
  <2> QED  BY <2>4, <2>5 DEF D
<1>2. u \in Table
  <2>1. u = [b \in Buckets |-> u[b]]  BY DEF Copy
  <2> QED  BY <2>1, <1>1 DEF Table, Node
<1> HIDE DEF u
<1>3. \A b \in Buckets : \A i \in 1..Len(t[b]) : u[b][i].symbol \in {t[b][i].symbol, NULL}
  BY <1>1, DeadIsNoEntry
<1>4. ASSUME NEW b \in Buckets, NEW i \in 1..Len(t[b]), u[b][i] # Dead
      PROVE  u[b][i] = t[b][i] /\ t[b][i] # Dead
  BY <1>1, <1>4
<1>5. Proper(u)
  <2> SUFFICES ASSUME NEW b \in Buckets, NEW j \in 1..Len(u[b]), u[b][j] # Dead
               PROVE  /\ Hash[u[b][j].symbol] = b
                      /\ \A k \in 1..Len(u[b]) : u[b][k].symbol = u[b][j].symbol => k = j
    BY DEF Proper
  <2>1. j \in 1..Len(t[b]) /\ u[b][j] = t[b][j] /\ t[b][j] # Dead  BY <1>1, <1>4
  <2>2. t[b][j] \in Slot  BY <2>1, NodeTyped
  <2>3. t[b][j].symbol # NULL  BY <2>1, <2>2, DeadIsNoEntry
  <2>4. /\ Hash[t[b][j].symbol] = b
        /\ \A k \in 1..Len(t[b]) : t[b][k].symbol = t[b][j].symbol => k = j
    BY <2>1 DEF Proper
  <2>5. ASSUME NEW k \in 1..Len(u[b]), u[b][k].symbol = u[b][j].symbol  PROVE k = j
    <3>1. k \in 1..Len(t[b])  BY <1>1
    <3>2. u[b][k].symbol \in {t[b][k].symbol, NULL}  BY <3>1, <1>3
    <3> QED  BY <3>1, <3>2, <2>1, <2>3, <2>4, <2>5
  <2> QED  BY <2>1, <2>4, <2>5
<1>6. ASSUME NEW n \in Names
      PROVE  Lookup(u, n) = IF Lookup(t, n).type = "class" THEN Dead ELSE Lookup(t, n)
  <2> DEFINE h == Hash[n]
  <2>1. h \in Buckets  BY HashTyped
  <2>2. CASE Where(t, n) = {}
    <3>1. Lookup(t, n) = Dead  BY <2>2, NotThere DEF Found
    <3>2. Where(u, n) = {}
      BY <2>1, <2>2, <1>1, <1>3, DeadIsNoEntry DEF Where
    <3>3. Lookup(u, n) = Dead  BY <3>2, NotThere DEF Found
    <3> QED  BY <3>1, <3>3
  <2>3. CASE Where(t, n) # {}
    <3>1. PICK i \in Where(t, n) : TRUE  BY <2>3
    <3>2. i \in 1..Len(t[h]) /\ t[h][i].symbol = n  BY <3>1 DEF Where
    <3>3. Lookup(t, n) = t[h][i] /\ Where(t, n) = {i}  BY <3>1, OnlyOne
    <3>4. CASE t[h][i].type = "class"
      <4>1. u[h][i] = Dead  BY <3>2, <3>4, <2>1, <1>1
      <4>2. \A j \in 1..Len(t[h]) : u[h][j].symbol # n
        BY <4>1, <3>2, <3>3, <2>1, <1>3, DeadIsNoEntry DEF Where
      <4>3. Where(u, n) = {}  BY <4>2, <2>1, <1>1 DEF Where
      <4>4. Lookup(u, n) = Dead  BY <4>3, NotThere DEF Found
      <4> QED  BY <3>3, <3>4, <4>4
    <3>5. CASE t[h][i].type # "class"
      <4>1. u[h][i] = t[h][i]  BY <3>2, <3>5, <2>1, <1>1
      <4>2. i \in Where(u, n)  BY <4>1, <3>2, <2>1, <1>1 DEF Where
      <4>3. Lookup(u, n) = t[h][i]  BY <4>1, <4>2, <1>2, <1>5, OnlyOne
      <4> QED  BY <3>3, <3>5, <4>3
    <3> QED  BY <3>4, <3>5
  <2> QED  BY <2>2, <2>3
<1>7. MapOf(u) = Abs!Copied(MapOf(t))
  <2>1. ASSUME NEW n \in Names
        PROVE  MeaningOf(Lookup(u, n)) = IF MeaningOf(Lookup(t, n)).type = "class"
                                         THEN Abs!None ELSE MeaningOf(Lookup(t, n))
    BY <1>6 DEF MeaningOf, Dead, Abs!None
  <2> QED  BY <2>1 DEF MapOf, Abs!Copied
<1> QED  BY <1>2, <1>5, <1>7 DEF u
-----------------------------------------------------------------------------
(* The stack: tables stay proper, and every call is a step of the scopes.    *)

IInv == TypeOK /\ TablesProper

\* The stack of the maps changes with the table at its top.
LEMMA TopChanges ==
  ASSUME TypeOK, TablesProper, local_depth > 0, NEW n \in Names, NEW m, NEW u,
         InTop(u), Becomes(local_tables[Top], u, n, m)
  PROVE  TypeOK' /\ TablesProper' /\ Abs!Bind(n, m)
<1> DEFINE d == local_depth
<1>1. d \in Nat /\ d \in 1..d /\ Top = d  BY DEF TypeOK, local_depth, Top
<1>2. u \in Table /\ Proper(u) /\ MapOf(u) = [MapOf(local_tables[d]) EXCEPT ![n] = m]
  BY <1>1 DEF Becomes
<1>3. /\ local_tables' = [local_tables EXCEPT ![d] = u]
      /\ global_table' = global_table /\ taken' = taken
  BY <1>1 DEF InTop
<1>4. /\ local_tables' \in Seq(Table) /\ Len(local_tables') = d
      /\ \A k \in 1..d : local_tables'[k] = IF k = d THEN u ELSE local_tables[k]
  BY <1>1, <1>2, <1>3 DEF TypeOK, local_depth
<1>5. local_depth' = d  BY <1>4 DEF local_depth
<1>6. TypeOK'  BY <1>3, <1>4, <1>5 DEF TypeOK
<1>7. TablesProper'  BY <1>2, <1>3, <1>4, <1>5 DEF TablesProper
<1>8. Abs!Bind(n, m)
  <2> DEFINE L == [k \in 1..d |-> MapOf(local_tables[k])]
  <2>1. [k \in 1..local_depth' |-> MapOf(local_tables'[k])]
          = [k \in 1..d |-> IF k = d THEN MapOf(u) ELSE MapOf(local_tables[k])]
    BY <1>4, <1>5
  <2>2. Len(L) = d  BY <1>1
  <2>3. [L EXCEPT ![d][n] = m]
          = [k \in 1..d |-> IF k = d THEN MapOf(u) ELSE MapOf(local_tables[k])]
    BY <1>1, <1>2
  <2>4. [k \in 1..local_depth' |-> MapOf(local_tables'[k])] = [L EXCEPT ![d][n] = m]
    BY <2>1, <2>3
  <2> QED  BY <1>1, <1>3, <2>2, <2>4 DEF Abs!Bind, Abs!Depth
<1> QED  BY <1>6, <1>7, <1>8

\* The global map changes with the global table.
LEMMA GlobalChanges ==
  ASSUME TypeOK, TablesProper, NEW n \in Names, NEW m, NEW u,
         InGlobal(u), Becomes(global_table, u, n, m)
  PROVE  /\ TypeOK' /\ TablesProper' /\ Abs!BindGlobal(n, m)
         /\ local_depth = 0 => Abs!Bind(n, m)
<1>1. u \in Table /\ Proper(u) /\ MapOf(u) = [MapOf(global_table) EXCEPT ![n] = m]
  BY DEF Becomes
<1>2. global_table' = u /\ local_tables' = local_tables /\ taken' = taken
  BY DEF InGlobal
<1>3. TypeOK' /\ TablesProper'  BY <1>1, <1>2 DEF TypeOK, TablesProper, local_depth
<1>4. Abs!BindGlobal(n, m)  BY <1>1, <1>2 DEF Abs!BindGlobal, local_depth
<1>5. ASSUME local_depth = 0  PROVE Abs!Bind(n, m)
  <2> DEFINE L == [k \in 1..local_depth |-> MapOf(local_tables[k])]
  <2>1. Len(L) = 0  BY <1>5
  <2> HIDE DEF L
  <2>2. ~(Len(L) > 0)  BY <2>1
  <2>3. ~(Abs!Depth > 0)  BY <2>2, Zenon DEF Abs!Depth, L
  <2> QED  BY <1>4, <2>3, Zenon DEF Abs!BindGlobal, Abs!Bind
<1> QED  BY <1>3, <1>4, <1>5

\* The calls that give or take a name away.
LEMMA CallsBind ==
  ASSUME TypeOK, TablesProper, NEW n \in Names, NEW d \in Data
  PROVE  /\ StackAddVariable(n, d)  => IInv' /\ Abs!Bind(n, Abs!Var(d))
         /\ StackAddFunction(n, d)  => IInv' /\ Abs!Bind(n, Abs!Function(d))
         /\ StackAddClass(n, d)     => IInv' /\ Abs!Bind(n, Abs!Class(d))
         /\ AddGlobalVariable(n, d) => IInv' /\ Abs!BindGlobal(n, Abs!Var(d))
         /\ AddGlobalFunction(n, d) => IInv' /\ Abs!BindGlobal(n, Abs!Function(d))
         /\ AddBuiltinClass(n, d)   => IInv' /\ Abs!BindGlobal(n, Abs!Class(d))
<1>1. local_depth \in Nat  BY DEF TypeOK, local_depth
<1>2. global_table \in Table /\ Proper(global_table)  BY DEF TypeOK, TablesProper
<1>3. local_depth > 0 => local_tables[Top] \in Table /\ Proper(local_tables[Top])
  BY <1>1 DEF TypeOK, TablesProper, Top, local_depth
<1>4. /\ Becomes(global_table, AddVariable(global_table, n, d), n, Abs!Var(d))
      /\ Becomes(global_table, AddClass(global_table, n, d), n, Abs!Class(d))
      /\ Becomes(global_table, AddFunction(global_table, n, d), n, Abs!Function(d))
  BY <1>2, AddVariableBinds, AddFunctionBinds
<1>5. ASSUME local_depth > 0
      PROVE  LET t == local_tables[Top] IN
             /\ Becomes(t, AddVariable(t, n, d), n, Abs!Var(d))
             /\ Becomes(t, AddClass(t, n, d), n, Abs!Class(d))
             /\ Becomes(t, AddFunction(t, n, d), n, Abs!Function(d))
  BY <1>3, <1>5, AddVariableBinds, AddFunctionBinds
<1>6. StackAddVariable(n, d) => IInv' /\ Abs!Bind(n, Abs!Var(d))
  BY <1>1, <1>4, <1>5, TopChanges, GlobalChanges DEF StackAddVariable, IInv
<1>7. StackAddFunction(n, d) => IInv' /\ Abs!Bind(n, Abs!Function(d))
  BY <1>1, <1>4, <1>5, TopChanges, GlobalChanges DEF StackAddFunction, IInv
<1>8. StackAddClass(n, d) => IInv' /\ Abs!Bind(n, Abs!Class(d))
  BY <1>1, <1>4, <1>5, TopChanges, GlobalChanges DEF StackAddClass, IInv
<1>9. /\ AddGlobalVariable(n, d) => IInv' /\ Abs!BindGlobal(n, Abs!Var(d))
      /\ AddGlobalFunction(n, d) => IInv' /\ Abs!BindGlobal(n, Abs!Function(d))
      /\ AddBuiltinClass(n, d)   => IInv' /\ Abs!BindGlobal(n, Abs!Class(d))
  BY <1>4, GlobalChanges DEF AddGlobalVariable, AddGlobalFunction, AddBuiltinClass, IInv
<1> QED  BY <1>6, <1>7, <1>8, <1>9

\* The two calls that delete a name.
LEMMA CallsUnbind ==
  ASSUME TypeOK, TablesProper, NEW n \in Names
  PROVE  /\ StackDelete(n)  => IInv' /\ Abs!Bind(n, Abs!None)
         /\ DeleteGlobal(n) => IInv' /\ Abs!BindGlobal(n, Abs!None)
<1>1. local_depth \in Nat  BY DEF TypeOK, local_depth
<1>2. Becomes(global_table, Delete(global_table, n), n, Abs!None)
  BY DeleteUnbinds DEF TypeOK, TablesProper
<1>3. local_depth > 0 =>
        Becomes(local_tables[Top], Delete(local_tables[Top], n), n, Abs!None)
  BY <1>1, DeleteUnbinds DEF TypeOK, TablesProper, Top, local_depth
<1> QED
  BY <1>1, <1>2, <1>3, TopChanges, GlobalChanges DEF StackDelete, DeleteGlobal, IInv

\* Entering a scope.
LEMMA EnterScope ==
  ASSUME TypeOK, TablesProper, Enter
  PROVE  IInv' /\ Abs!Enter
<1> DEFINE d == local_depth
           L == [k \in 1..d |-> MapOf(local_tables[k])]
<1>1. d \in Nat /\ local_tables \in Seq(Table) /\ d = Len(local_tables)
  BY DEF TypeOK, local_depth
<1>2. /\ d < MaxDepth /\ local_tables' = Append(local_tables, NewTable)
      /\ global_table' = global_table /\ taken' = taken
  BY DEF Enter
<1>3. /\ local_tables' \in Seq(Table) /\ Len(local_tables') = d + 1
      /\ local_tables'[d + 1] = NewTable
      /\ \A k \in 1..d : local_tables'[k] = local_tables[k]
  BY <1>1, <1>2, NewIsEmpty
<1>4. local_depth' = d + 1  BY <1>3 DEF local_depth
<1>5. TypeOK'  BY <1>1, <1>2, <1>3, <1>4, BoundAssumption DEF TypeOK
<1>6. TablesProper'
  <2>1. \A k \in 1..(d + 1) : k # d + 1 => k \in 1..d  BY <1>1
  <2> QED  BY <2>1, <1>2, <1>3, <1>4, NewIsEmpty DEF TablesProper
<1>7. [k \in 1..local_depth' |-> MapOf(local_tables'[k])] = Append(L, Abs!Empty)
  <2>1. Append(L, Abs!Empty)
          = [k \in 1..(d + 1) |-> IF k = d + 1 THEN Abs!Empty ELSE L[k]]
    BY <1>1
  <2>2. \A k \in 1..(d + 1) : k # d + 1 => k \in 1..d /\ L[k] = MapOf(local_tables'[k])
    BY <1>1, <1>3
  <2> HIDE DEF L
  <2> QED  BY <2>1, <2>2, <1>1, <1>3, <1>4, NewIsEmpty
<1> QED  BY <1>2, <1>5, <1>6, <1>7 DEF IInv, Abs!Enter

\* Leaving one, and taking its table along.
LEMMA LeaveScope ==
  ASSUME TypeOK, TablesProper, Leave \/ Pop
  PROVE  IInv' /\ Abs!Leave
<1> DEFINE d == local_depth
           L == [k \in 1..d |-> MapOf(local_tables[k])]
<1>1. d \in Nat /\ d > 0 /\ local_tables \in Seq(Table) /\ d = Len(local_tables)
  BY DEF TypeOK, local_depth, Leave, Pop
<1>2. /\ local_tables' = SubSeq(local_tables, 1, d - 1)
      /\ global_table' = global_table /\ taken' \in {taken, local_tables[d]}
  BY DEF Leave, Pop
<1>3. /\ local_tables' \in Seq(Table) /\ Len(local_tables') = d - 1
      /\ \A k \in 1..(d - 1) : local_tables'[k] = local_tables[k]
  BY <1>1, <1>2
<1>4. local_depth' = d - 1  BY <1>3 DEF local_depth
<1>5. taken' \in Table /\ Proper(taken')  BY <1>1, <1>2 DEF TypeOK, TablesProper
<1>6. TypeOK'  BY <1>1, <1>2, <1>3, <1>4, <1>5, BoundAssumption DEF TypeOK
<1>7. TablesProper'  BY <1>1, <1>2, <1>3, <1>4, <1>5 DEF TablesProper
<1>8. Len(L) = d /\ L[d] = MapOf(local_tables[d])  BY <1>1
<1>9. [k \in 1..local_depth' |-> MapOf(local_tables'[k])] = SubSeq(L, 1, d - 1)
  <2>1. SubSeq(L, 1, d - 1) = [k \in 1..(d - 1) |-> L[k]]  BY <1>1, <1>8
  <2>2. \A k \in 1..(d - 1) : L[k] = MapOf(local_tables'[k])  BY <1>1, <1>3
  <2> HIDE DEF L
  <2> QED  BY <2>1, <2>2, <1>4
<1>10. MapOf(taken') \in {MapOf(taken), L[d]}  BY <1>2, <1>8
<1> HIDE DEF L
<1>11. Abs!Leave
  BY <1>1, <1>2, <1>8, <1>9, <1>10 DEF Abs!Leave, Abs!Depth, L
<1> QED  BY <1>6, <1>7, <1>11 DEF IInv

\* A copy of a struct, and a new context.
LEMMA CopyOfStruct ==
  ASSUME TypeOK, TablesProper, CopyTaken
  PROVE  IInv' /\ Abs!CopyMembers
BY CopyKeeps DEF CopyTaken, TypeOK, TablesProper, IInv, Abs!CopyMembers, local_depth

\* A teardown leaves an empty global table and no local one.
LEMMA TeardownEmpties ==
  ASSUME TypeOK, TablesProper, Teardown
  PROVE  IInv' /\ Abs!Teardown
<1>1. local_tables' = <<>> /\ global_table' = NewTable /\ taken' = taken
  BY DEF Teardown
<1>2. local_tables' \in Seq(Table) /\ local_depth' = 0  BY <1>1 DEF local_depth
<1>3. [k \in 1..local_depth' |-> MapOf(local_tables'[k])] = <<>>  BY <1>2
<1>4. IInv'  BY <1>1, <1>2, NewIsEmpty, BoundAssumption DEF IInv, TypeOK, TablesProper
<1> QED  BY <1>1, <1>3, <1>4, NewIsEmpty DEF Abs!Teardown
-----------------------------------------------------------------------------
(* The theorems. *)

\* The stack starts as the empty stack of scopes.
LEMMA Start == Init => IInv /\ Abs!Init
<1> SUFFICES ASSUME Init  PROVE IInv /\ Abs!Init
  OBVIOUS
<1>1. local_tables = <<>> /\ global_table = NewTable /\ taken = NewTable  BY DEF Init
<1>2. local_depth = 0 /\ local_tables \in Seq(Table)  BY <1>1 DEF local_depth
<1>3. IInv  BY <1>1, <1>2, NewIsEmpty, BoundAssumption DEF IInv, TypeOK, TablesProper
<1>4. [k \in 1..local_depth |-> MapOf(local_tables[k])] = <<>>  BY <1>2
<1> QED  BY <1>1, <1>3, <1>4, NewIsEmpty DEF Abs!Init

\* Whatever a step does, tables stay proper and the scopes follow.
LEMMA Step == IInv /\ [Next]_vars => IInv' /\ [StepsMatch]_vars
<1> SUFFICES ASSUME TypeOK, TablesProper, [Next]_vars
             PROVE  IInv' /\ [StepsMatch]_vars
  BY DEF IInv
<1>1. StepsMatch
  BY CallsBind, CallsUnbind, EnterScope, LeaveScope, CopyOfStruct, TeardownEmpties
  DEF StepsMatch
<1>2. ASSUME Define  PROVE IInv'  BY <1>2, CallsBind DEF Define
<1>3. ASSUME Undefine  PROVE IInv'  BY <1>3, CallsUnbind DEF Undefine
<1>4. ASSUME Enter  PROVE IInv'  BY <1>4, EnterScope
<1>5. ASSUME Leave \/ Pop  PROVE IInv'  BY <1>5, LeaveScope
<1>6. ASSUME CopyTaken  PROVE IInv'  BY <1>6, CopyOfStruct
<1>7. ASSUME Teardown  PROVE IInv'  BY <1>7, TeardownEmpties
<1>8. ASSUME UNCHANGED vars  PROVE IInv'
  BY <1>8 DEF vars, IInv, TypeOK, TablesProper, local_depth
<1> QED  BY <1>1, <1>2, <1>3, <1>4, <1>5, <1>6, <1>7, <1>8 DEF Next

\* Every table of every reachable state is well typed and proper: no name sits
\* in two slots or in a bucket that is not its own, whatever is defined,
\* redefined with another kind, deleted, copied or popped, for every hash.
THEOREM AlwaysProper == Spec => [](TypeOK /\ TablesProper)
<1>1. Init => IInv  BY Start
<1>2. IInv /\ [Next]_vars => IInv'  BY Step
<1>3. IInv => TypeOK /\ TablesProper  BY DEF IInv
<1> QED  BY <1>1, <1>2, <1>3, PTL DEF Spec

\* The tables start as empty scopes, and every call of symtab_stack.c does to
\* the scopes what its name says.
THEOREM StackImplementsScopes == Spec => ImplementsScopes
<1>1. Init => IInv /\ Abs!Init  BY Start
<1>2. IInv /\ [Next]_vars => IInv' /\ [StepsMatch]_vars  BY Step
<1> QED  BY <1>1, <1>2, PTL DEF Spec, ImplementsScopes

\* So the stack of tables is a refinement of the scopes.
THEOREM StackRefinesScopes == Spec => Abs!Spec
<1>1. ASSUME IInv, [Next]_vars  PROVE [Abs!Next]_(Abs!scopes)
  <2>1. IInv' /\ [StepsMatch]_vars  BY <1>1, Step
  <2>2. CASE UNCHANGED vars
    BY <2>2 DEF vars, Abs!scopes, local_depth
  <2>3. CASE Next /\ StepsMatch
    <3>1. ASSUME NEW n \in Names, NEW d \in Data
          PROVE  /\ Abs!Var(d) \in Abs!Meaning /\ Abs!Function(d) \in Abs!Meaning
                 /\ Abs!Class(d) \in Abs!Meaning
      BY DEF Abs!Var, Abs!Function, Abs!Class, Abs!Meaning, Abs!Types
    <3>2. CASE Define  BY <3>1, <3>2, <2>3 DEF StepsMatch, Define, Abs!Next
    <3>3. CASE Undefine  BY <3>3, <2>3 DEF StepsMatch, Undefine, Abs!Next
    <3>4. CASE Enter \/ Leave \/ Pop \/ CopyTaken \/ Teardown
      BY <3>4, <2>3 DEF StepsMatch, Abs!Next
    <3> QED  BY <2>3, <3>2, <3>3, <3>4 DEF Next
  <2> QED  BY <1>1, <2>1, <2>2, <2>3 DEF vars
<1>2. Init => IInv /\ Abs!Init  BY Start
<1>3. IInv /\ [Next]_vars => IInv'  BY Step
<1> QED  BY <1>1, <1>2, <1>3, PTL DEF Spec, Abs!Spec

\* What the code finds for a name is what the scopes say it means, and what it
\* finds when it wants a variable, a function or a class.
THEOREM LookupAlwaysRight == Spec => []LookupRight
<1>1. ASSUME IInv  PROVE LookupRight
  <2> DEFINE d == local_depth
             L == [k \in 1..d |-> MapOf(local_tables[k])]
  <2> SUFFICES ASSUME NEW n \in Names
               PROVE  /\ MeaningOf(StackLookup(n)) = Abs!Resolve(n)
                      /\ \A type \in Types : MeaningOf(StackGet(n, type)) = Abs!ResolveAs(n, type)
                      /\ StackLocal(n) <=> Abs!IsLocal(n)
    BY DEF LookupRight
  <2>1. d \in Nat /\ global_table \in Table /\ Proper(global_table) /\ Top = d
    BY <1>1 DEF IInv, TypeOK, TablesProper, local_depth, Top
  <2>2. Len(L) = d  BY <2>1
  <2>3. d > 0 => /\ L[d][n] = MeaningOf(Lookup(local_tables[d], n))
                 /\ local_tables[d] \in Table /\ Proper(local_tables[d])
    BY <1>1, <2>1 DEF IInv, TypeOK, TablesProper, local_depth, MapOf
  <2>4. MapOf(global_table)[n] = MeaningOf(Lookup(global_table, n))  BY DEF MapOf
  <2>5. ASSUME NEW s \in Slot
        PROVE  /\ MeaningOf(s) = Abs!None <=> s = Dead
               /\ \A type \in Types : s = Dead => s.type # type
               /\ MeaningOf(s).type = s.type
    BY DEF Slot, Entry, Dead, Types, MeaningOf, Abs!None
  <2>6. ASSUME NEW t \in Table, Proper(t)
        PROVE  /\ Lookup(t, n) \in Slot
               /\ Found(t, n) <=> Lookup(t, n) # Dead
    BY <2>6, MapTyped, DeadIsNoEntry
  <2>7. /\ Abs!Resolve(n) = IF d > 0 /\ L[d][n] # Abs!None
                            THEN L[d][n] ELSE MapOf(global_table)[n]
        /\ Abs!IsLocal(n) <=> (d > 0 => L[d][n] # Abs!None)
        /\ \A type \in Types : Abs!ResolveAs(n, type)
             = IF d > 0 /\ L[d][n].type = type THEN L[d][n]
               ELSE IF MapOf(global_table)[n].type = type THEN MapOf(global_table)[n]
               ELSE Abs!None
    <3>1. Abs!Depth = d  BY <2>2, Zenon DEF Abs!Depth
    <3>2. Abs!Resolve(n) = IF d > 0 /\ L[d][n] # Abs!None
                           THEN L[d][n] ELSE MapOf(global_table)[n]
      BY <3>1 DEF Abs!Resolve
    <3>3. Abs!IsLocal(n) <=> (d > 0 => L[d][n] # Abs!None)
      BY <3>1, Zenon DEF Abs!IsLocal
    <3>4. ASSUME NEW type \in Types
          PROVE  Abs!ResolveAs(n, type)
                   = IF d > 0 /\ L[d][n].type = type THEN L[d][n]
                     ELSE IF MapOf(global_table)[n].type = type THEN MapOf(global_table)[n]
                     ELSE Abs!None
      BY <3>1 DEF Abs!ResolveAs
    <3> QED  BY <3>2, <3>3, <3>4
  <2>8. ASSUME NEW type \in Types
        PROVE  MeaningOf(StackGet(n, type)) = Abs!ResolveAs(n, type)
    <3>1. /\ d > 0 => (LookupAs(local_tables[d], n, type) # Dead <=> L[d][n].type = type)
          /\ d > 0 /\ L[d][n].type = type =>
               MeaningOf(LookupAs(local_tables[d], n, type)) = L[d][n]
      BY <2>3, <2>5, <2>6 DEF LookupAs
    <3>2. MeaningOf(LookupAs(global_table, n, type))
            = IF MapOf(global_table)[n].type = type THEN MapOf(global_table)[n] ELSE Abs!None
      BY <2>1, <2>4, <2>5, <2>6, DeadIsNoEntry DEF LookupAs
    <3>3. CASE d > 0 /\ L[d][n].type = type
      <4>1. StackGet(n, type) = LookupAs(local_tables[d], n, type)
        BY <2>1, <3>1, <3>3 DEF StackGet
      <4>2. Abs!ResolveAs(n, type) = L[d][n]
        BY <2>7, <3>3
      <4> QED  BY <3>1, <3>3, <4>1, <4>2
    <3>4. CASE ~(d > 0 /\ L[d][n].type = type)
      <4>1. StackGet(n, type) = LookupAs(global_table, n, type)
        BY <2>1, <3>1, <3>4 DEF StackGet
      <4>2. Abs!ResolveAs(n, type)
              = IF MapOf(global_table)[n].type = type THEN MapOf(global_table)[n] ELSE Abs!None
        BY <2>7, <3>4
      <4> QED  BY <3>2, <4>1, <4>2
    <3> QED  BY <3>3, <3>4
  <2>9. MeaningOf(StackLookup(n)) = Abs!Resolve(n)
    BY <2>1, <2>3, <2>4, <2>5, <2>6, <2>7 DEF StackLookup
  <2>10. StackLocal(n) <=> Abs!IsLocal(n)
    BY <2>1, <2>3, <2>5, <2>6, <2>7 DEF StackLocal
  <2> QED  BY <2>8, <2>9, <2>10
<1>2. Init => IInv  BY Start
<1>3. IInv /\ [Next]_vars => IInv'  BY Step
<1> QED  BY <1>1, <1>2, <1>3, PTL DEF Spec
=============================================================================
