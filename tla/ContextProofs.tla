--------------------------- MODULE ContextProofs ---------------------------
(***************************************************************************)
(* Proofs about Context, for every set of modules and names, whatever the  *)
(* modules register.                                                       *)
(*                                                                         *)
(* Three facts carry the others.  A module that still has to be preloaded  *)
(* is not loaded, so that module_preload needs no test.  A function that a *)
(* module registered is in the table under a name the module unregisters.  *)
(* And unless the host frees a script, every script that was ever parsed   *)
(* is allocated until the context ends.                                    *)
(***************************************************************************)
EXTENDS Context, TLAPS

Phases == {"new", "preload", "ready", "tables", "modules", "freed"}
Works  == [op : {"load", "unload"}, module : Modules, try : BOOLEAN]

\* The variables keep their types.
TypeOK ==
  /\ phase \in Phases /\ safe \in BOOLEAN /\ exit_flag \in BOOLEAN
  /\ preload_modules \in Seq(Modules)
  /\ modules \in [Modules -> Nat] /\ open \in [Libraries -> Nat]
  /\ table \in [Names -> Symbols]
  /\ made \in 0..MaxTrees /\ script \in 0..made /\ run \in 0..made
  /\ trees \subseteq 1..made
  /\ todo \in Seq(Works)
  /\ fault \in {"none", "code", "tree"}
  /\ freed \in BOOLEAN /\ dropped \in BOOLEAN

\* The list and the open libraries, and what has still to be preloaded.
Lists ==
  /\ \A m \in Modules : modules[m] <= 1 /\ (modules[m] > 0 => m \in Libraries \ Odd)
  /\ \A m \in Libraries \ Odd : open[m] = modules[m]
  /\ phase = "freed" => \A m \in Modules : modules[m] = 0

ToPreload ==
  phase \in {"new", "preload"} =>
    /\ \A i \in DOMAIN preload_modules : modules[preload_modules[i]] = 0
    /\ \A i, j \in DOMAIN preload_modules : preload_modules[i] = preload_modules[j] => i = j
    /\ phase = "new" => \A m \in Modules : modules[m] = 0

\* What is in the table, and what its symbols need.
Table ==
  /\ \A n \in Names :
       /\ table[n].kind = "registered" =>
            /\ ~table[n].closed /\ table[n].module \in Modules
            /\ modules[table[n].module] > 0 /\ n \in Functions[table[n].module]
       /\ table[n].closed => dropped
       /\ table[n].tree <= made
       /\ phase \in {"modules", "freed"} => table[n] = None
  /\ fault = "code" => dropped

Scripts ==
  /\ ~freed /\ phase \in {"new", "preload", "ready"} => trees = 1..made
  /\ ~freed => fault # "tree"

IInv == TypeOK /\ Lists /\ ToPreload /\ Table /\ Scripts

-----------------------------------------------------------------------------
\* No module has the name of none.
LEMMA Constants ==
  /\ NoModule \notin Modules /\ Libraries \subseteq Modules
  /\ None \in Symbols /\ Plain \in Symbols
  /\ \A m \in Modules : Symbol("registered", m, 0) \in Symbols
BY ContextAssumption DEF Symbols, Symbol, None, Plain, Kinds

\* module_teardown comes after the symbol tables, and is the end.
LEMMA Order == TeardownOrder[1] = "tables" /\ After("tables") = "modules" /\ After("modules") = "freed"
<1>1. \A i \in 1..2 : (TeardownOrder[i] = "tables" <=> i = 1) /\ (TeardownOrder[i] = "modules" <=> i = 2)
  BY DEF TeardownOrder
<1>2. (CHOOSE i \in 1..2 : TeardownOrder[i] = "tables") = 1
  BY <1>1
<1>3. (CHOOSE i \in 1..2 : TeardownOrder[i] = "modules") = 2
  BY <1>1
<1> QED BY <1>2, <1>3 DEF After, TeardownOrder

LEMMA InitInv == Init => IInv
<1> SUFFICES ASSUME Init PROVE IInv
  OBVIOUS
<1> USE Constants, ContextAssumption DEF Init
<1>1. TypeOK
  <2>1. <<>> \in Seq(Modules) /\ <<>> \in Seq(Works)
    OBVIOUS
  <2>2. modules \in [Modules -> Nat] /\ open \in [Libraries -> Nat] /\ table \in [Names -> Symbols]
    OBVIOUS
  <2>3. made \in 0..MaxTrees /\ script \in 0..made /\ run \in 0..made /\ trees \subseteq 1..made
    OBVIOUS
  <2>4. preload_modules \in Seq(Modules) /\ todo \in Seq(Works)
    BY <2>1
  <2> QED BY <2>2, <2>3, <2>4 DEF TypeOK, Phases
<1>2. Lists /\ ToPreload /\ Scripts
  BY DEF Lists, ToPreload, Scripts
<1>3. Table
  BY DEF Table, None, Symbol
<1> QED BY <1>1, <1>2, <1>3 DEF IInv

\* The steps that leave table, list and libraries alone.
LEMMA HostSteps ==
  ASSUME IInv,
         SafeModeSet \/ InitCtx \/ Parse \/ Execute \/ FreeScript \/ FreeCtx \/ FreeTables
  PROVE  IInv'
<1> USE ContextAssumption DEF IInv, Host, loader, parsed, host
<1>1. CASE SafeModeSet
  BY <1>1 DEF SafeModeSet, TypeOK, Lists, ToPreload, Table, Scripts
<1>2. CASE InitCtx
  BY <1>2 DEF InitCtx, TypeOK, Lists, ToPreload, Table, Scripts, Phases
<1>3. CASE Parse
  <2> USE <1>3 DEF Parse, OldScriptKept
  <2>1. TypeOK'
    <3>1. made \in Nat /\ made' \in 0..MaxTrees /\ made <= made' /\ script' \in 0..made'
      BY DEF TypeOK
    <3>2. \A k \in Nat : k \in 0..made => k \in 0..made'
      BY <3>1
    <3>3. run' \in 0..made'
      BY <3>2 DEF TypeOK
    <3>4. \A k \in trees' : k \in 1..made'
      <4>1. trees \subseteq 1..made
        BY DEF TypeOK
      <4>2. \/ trees' = trees \cup {made + 1} /\ made' = made + 1
            \/ trees' = trees /\ made' = made
        OBVIOUS
      <4>3. \A k \in 1..made : k \in 1..made'
        BY <3>1
      <4>4. made' = made + 1 => made + 1 \in 1..made'
        BY <3>1
      <4> QED BY <4>1, <4>2, <4>3, <4>4
    <3> QED BY <3>1, <3>3, <3>4 DEF TypeOK
  <2>2. Lists' /\ ToPreload'
    BY DEF TypeOK, Lists, ToPreload
  <2>3. Table'
    BY DEF TypeOK, Table, Symbols
  <2>4. Scripts'
    <3>1. made \in Nat => (1..made) \cup {made + 1} = 1..(made + 1)
      OBVIOUS
    <3>2. \/ trees' = trees \cup {made + 1} /\ made' = made + 1
          \/ trees' = trees /\ made' = made
      OBVIOUS
    <3>3. made \in Nat
      BY DEF TypeOK
    <3>4. trees = 1..made => trees' = 1..made'
      BY <3>1, <3>2, <3>3
    <3> QED BY <3>4 DEF Scripts
  <2> QED BY <2>1, <2>2, <2>3, <2>4
<1>4. CASE Execute
  BY <1>4 DEF Execute, TypeOK, Lists, ToPreload, Table, Scripts
<1>5. CASE FreeScript
  BY <1>5 DEF FreeScript, TypeOK, Lists, ToPreload, Table, Scripts
<1>6. CASE FreeCtx
  BY <1>6, Order DEF FreeCtx, TypeOK, Lists, ToPreload, Table, Scripts, Phases
<1>7. CASE FreeTables
  <2> USE <1>7, Constants, Order DEF FreeTables, Release
  <2>1. TypeOK'
    BY DEF TypeOK, Phases
  <2>2. Lists' /\ ToPreload' /\ Scripts'
    BY DEF TypeOK, Lists, ToPreload, Scripts
  <2>3. Table'
    BY DEF TypeOK, Table, None, Symbol
  <2> QED BY <2>1, <2>2, <2>3
<1> QED BY <1>1, <1>2, <1>3, <1>4, <1>5, <1>6, <1>7

-----------------------------------------------------------------------------
\* What Release and Needs may answer.
LEMMA Faults ==
  ASSUME IInv, fault = "none"
  PROVE  /\ \A symbols : Release(symbols) \in {"none", "code"}
         /\ \A symbols \in SUBSET {table[n] : n \in Names} : Release(symbols) = "code" => dropped
         /\ \A n \in Names : Needs(table[n]) \in {"none", "code", "tree"}
         /\ \A n \in Names : Needs(table[n]) = "code" => dropped
         /\ \A n \in Names : ~freed /\ phase = "ready" => Needs(table[n]) # "tree"
<1> USE DEF IInv
<1>1. \A symbols : Release(symbols) \in {"none", "code"}
  BY DEF Release
<1>2. \A n \in Names : table[n].closed => dropped
  BY DEF Table
<1>3. \A symbols \in SUBSET {table[n] : n \in Names} : Release(symbols) = "code" => dropped
  BY <1>2 DEF Release
<1>4. \A n \in Names : Needs(table[n]) \in {"none", "code", "tree"} /\ (Needs(table[n]) = "code" => dropped)
  BY <1>2 DEF Needs
<1>5. ASSUME NEW n \in Names, ~freed, phase = "ready" PROVE Needs(table[n]) # "tree"
  <2>1. trees = 1..made /\ table[n].tree \in 0..MaxTrees /\ table[n].tree <= made /\ made \in Nat
    BY <1>5, ContextAssumption DEF Scripts, Table, TypeOK, Symbols
  <2> QED BY <2>1 DEF Needs
<1> QED BY <1>1, <1>3, <1>4, <1>5

\* One symbol is replaced by another that needs nothing new.
LEMMA Replacing ==
  ASSUME IInv, phase = "ready", NEW n \in Names, NEW y \in Symbols,
         y.kind # "registered", y.closed => dropped, y.tree <= made,
         table' = [table EXCEPT ![n] = y], fault' = Release({table[n]}), fault = "none",
         exit_flag' \in BOOLEAN, run' \in 0..made, todo' \in Seq(Works),
         UNCHANGED <<host, loader, parsed, dropped>>
  PROVE  IInv'
<1> USE DEF IInv, host, loader, parsed
<1>1. fault' \in {"none", "code"} /\ (fault' = "code" => dropped)
  <2>1. {table[n]} \in SUBSET {table[k] : k \in Names}
    OBVIOUS
  <2> QED BY <2>1, Faults
<1>2. TypeOK'
  BY <1>1 DEF TypeOK
<1>3. Lists' /\ ToPreload' /\ Scripts'
  BY <1>1 DEF Lists, ToPreload, Scripts
<1>4. Table'
  BY <1>1 DEF Table, TypeOK
<1> QED BY <1>2, <1>3, <1>4

\* module_loader, for a module that is not loaded.
LEMMA Loading ==
  ASSUME IInv, fault = "none", NEW m \in Libraries, modules[m] = 0, Loader(m),
         phase' \notin {"modules", "freed"}, UNCHANGED <<made, freed, dropped>>
  PROVE  /\ modules' \in [Modules -> Nat] /\ open' \in [Libraries -> Nat]
         /\ table' \in [Names -> Symbols] /\ fault' \in {"none", "code"}
         /\ Lists' /\ Table'
         /\ \A k \in Modules : k # m => modules'[k] = modules[k]
<1> USE ContextAssumption DEF Loader
<1>1. CASE m \in Odd
  BY <1>1 DEF IInv, TypeOK, Lists, Table
<1>2. CASE m \notin Odd
  <2> USE <1>2
  <2>1. /\ modules' \in [Modules -> Nat] /\ open' \in [Libraries -> Nat]
        /\ Lists' /\ \A k \in Modules : k # m => modules'[k] = modules[k]
    <3>1. /\ modules' = [modules EXCEPT ![m] = @ + 1] /\ open' = [open EXCEPT ![m] = @ + 1]
          /\ modules \in [Modules -> Nat] /\ open \in [Libraries -> Nat] /\ m \in Modules
      BY DEF IInv, TypeOK
    <3>2. modules'[m] = 1 /\ open'[m] = 1
      BY <3>1 DEF IInv, Lists
    <3> QED BY <3>1, <3>2 DEF IInv, Lists
  <2>2. table' \in [Names -> Symbols]
    <3>1. Symbol("registered", m, 0) \in Symbols /\ Plain \in Symbols /\ \A n \in Names : table[n] \in Symbols
      BY Constants DEF IInv, TypeOK
    <3> QED BY <3>1 DEF Register
  <2>3. fault' \in {"none", "code"} /\ (fault' = "code" => dropped)
    <3>1. Functions[m] \subseteq Names /\ Kept[m] \subseteq Names
      OBVIOUS
    <3>2. Replaced(m) \in SUBSET {table[n] : n \in Names}
      BY <3>1 DEF Replaced
    <3> QED BY <3>2, Faults
  <2>4. ASSUME NEW n \in Names
        PROVE  /\ table'[n].kind = "registered" =>
                    /\ ~table'[n].closed /\ table'[n].module \in Modules
                    /\ modules'[table'[n].module] > 0 /\ n \in Functions[table'[n].module]
               /\ table'[n].closed => dropped
               /\ table'[n].tree <= made
    <3>1. made \in Nat /\ modules' = [modules EXCEPT ![m] = @ + 1] /\ modules \in [Modules -> Nat]
      BY DEF IInv, TypeOK
    <3>2. CASE n \in Functions[m]
      <4>1. table'[n] = Symbol("registered", m, 0)
        BY <3>2 DEF Register
      <4> QED BY <4>1, <3>1, <3>2 DEF Symbol
    <3>3. CASE n \notin Functions[m] /\ n \in Kept[m]
      <4>1. table'[n] = Plain
        BY <3>3 DEF Register
      <4> QED BY <4>1, <3>1 DEF Plain, Symbol
    <3>4. CASE n \notin Functions[m] /\ n \notin Kept[m]
      <4>1. table'[n] = table[n]
        BY <3>4 DEF Register
      <4> QED BY <4>1, <3>1 DEF IInv, Table
    <3> QED BY <3>2, <3>3, <3>4
  <2>5. Table'
    BY <2>3, <2>4 DEF Table
  <2> QED BY <2>1, <2>2, <2>3, <2>5
<1> QED BY <1>1, <1>2

\* module_unload and module_teardown, for a module that is loaded.
LEMMA Unloading ==
  ASSUME IInv, fault = "none", NEW m \in Modules, modules[m] > 0, Unload(m),
         UNCHANGED <<phase, made, freed>>, phase = "modules" \/ (phase = "ready" /\ dropped' = TRUE),
         dropped' \in BOOLEAN, dropped = TRUE => dropped' = TRUE
  PROVE  /\ modules' \in [Modules -> Nat] /\ open' \in [Libraries -> Nat]
         /\ table' \in [Names -> Symbols] /\ fault' \in {"none", "code"}
         /\ Lists' /\ Table'
<1> USE ContextAssumption DEF Unload
<1>1. m \in Libraries \ Odd /\ modules[m] = 1 /\ open[m] = 1
  BY DEF IInv, Lists, TypeOK
<1>2. modules' \in [Modules -> Nat] /\ open' \in [Libraries -> Nat] /\ Lists'
  BY <1>1 DEF IInv, TypeOK, Lists
<1>3. ASSUME NEW n \in Names
      PROVE  /\ table'[n] \in Symbols
             /\ table'[n].kind = "registered" =>
                    /\ table'[n] = table[n] /\ table[n].module # m
             /\ table'[n].closed => dropped' \/ table'[n] # None
             /\ table'[n].tree <= made
             /\ phase = "modules" => table'[n] = None
  <2> DEFINE t == Unregister(m)
  <2>1. t[n] \in {None, table[n]} /\ (n \in Functions[m] => t[n] = None)
    BY DEF Unregister
  <2>2. table'[n] = IF t[n].module = m THEN [t[n] EXCEPT !.closed = TRUE] ELSE t[n]
    BY <1>1 DEF Close
  <2>3. table[n] \in Symbols /\ made \in Nat /\ table[n].tree <= made
    BY DEF IInv, TypeOK, Table
  <2>4. t[n] \in Symbols /\ t[n].tree <= made
    <3>1. None \in Symbols /\ None.tree = 0
      BY Constants DEF None, Symbol
    <3> QED BY <2>1, <2>3, <3>1
  <2>5. table'[n] \in Symbols /\ table'[n].tree <= made /\ table'[n].kind = t[n].kind
    BY <2>2, <2>4 DEF Symbols
  <2>6. None.kind = "none" /\ None.module = NoModule /\ ~None.closed
    BY DEF None, Symbol
  <2>7. CASE t[n] = None
    <3>1. table'[n] = None
      BY <2>2, <2>6, <2>7, Constants
    <3> QED BY <3>1, <2>5, <2>6
  <2>8. CASE t[n] = table[n] /\ n \notin Functions[m]
    <3>1. phase # "modules" \/ table[n] = None
      BY DEF IInv, Table
    <3>2. table[n] = None => table'[n] = None
      BY <2>2, <2>6, <2>8, Constants
    <3>3. table'[n].kind = "registered" => table[n].module # m
      BY <2>5, <2>8 DEF IInv, Table
    <3>4. table'[n].kind = "registered" => table'[n] = table[n]
      BY <2>2, <2>8, <3>3
    <3> QED BY <2>5, <2>6, <3>1, <3>2, <3>3, <3>4
  <2> QED BY <2>1, <2>7, <2>8
<1>4. fault' \in {"none", "code"} /\ (fault' = "code" => dropped)
  <2>1. Functions[m] \subseteq Names
    BY <1>1
  <2>2. Deleted(m) \in SUBSET {table[n] : n \in Names}
    BY <2>1 DEF Deleted
  <2> QED BY <2>2, Faults
<1>5. table' \in [Names -> Symbols]
  <2>1. table' = [n \in Names |-> table'[n]]
    BY DEF Close
  <2> QED BY <2>1, <1>3
<1>6. Table'
  <2>1. ASSUME NEW n \in Names
        PROVE  /\ table'[n].kind = "registered" =>
                    /\ ~table'[n].closed /\ table'[n].module \in Modules
                    /\ modules'[table'[n].module] > 0 /\ n \in Functions[table'[n].module]
               /\ table'[n].closed => dropped'
               /\ table'[n].tree <= made'
               /\ phase' \in {"modules", "freed"} => table'[n] = None
    <3>1. table'[n].kind = "registered" => modules'[table'[n].module] = modules[table[n].module]
      BY <1>3, <1>1 DEF IInv, TypeOK
    <3>2. None.closed = FALSE
      BY DEF None, Symbol
    <3> QED BY <3>1, <3>2, <1>3 DEF IInv, Table
  <2> QED BY <2>1, <1>4 DEF Table
<1> QED BY <1>2, <1>4, <1>5, <1>6

-----------------------------------------------------------------------------
\* The rest of what the host does.
LEMMA AddPreloadStep == ASSUME IInv, NEW m \in Modules, AddPreload(m) PROVE IInv'
<1> USE DEF IInv, AddPreload, Host, loader, parsed
<1>1. preload_modules \in Seq(Modules) /\ preload_modules' = <<m>> \o preload_modules
  BY DEF TypeOK
<1>2. /\ preload_modules' \in Seq(Modules) /\ DOMAIN preload_modules' = 1..(Len(preload_modules) + 1)
      /\ preload_modules'[1] = m
      /\ \A i \in DOMAIN preload_modules' : i # 1 => /\ i - 1 \in DOMAIN preload_modules
                                                   /\ preload_modules'[i] = preload_modules[i - 1]
  BY <1>1
<1>3. TypeOK'
  BY <1>2 DEF TypeOK
<1>4. ToPreload'
  <2>1. phase' = "new" /\ \A k \in Modules : modules'[k] = 0
    BY DEF ToPreload
  <2>2. \A i \in DOMAIN preload_modules' : preload_modules'[i] \in Modules
    BY <1>2
  <2>3. ASSUME NEW i \in DOMAIN preload_modules', NEW j \in DOMAIN preload_modules',
               preload_modules'[i] = preload_modules'[j]
        PROVE  i = j
    <3>1. \A k \in DOMAIN preload_modules : preload_modules[k] # m
      BY DEF Preloaded
    <3>2. CASE i = 1 \/ j = 1
      BY <1>2, <2>3, <3>1, <3>2
    <3>3. CASE i # 1 /\ j # 1
      <4>1. i - 1 = j - 1
        BY <1>2, <2>3, <3>3 DEF ToPreload
      <4> QED BY <4>1, <1>2
    <3> QED BY <3>2, <3>3
  <2> QED BY <2>1, <2>2, <2>3 DEF ToPreload
<1>5. Lists' /\ Table' /\ Scripts'
  BY DEF Lists, Table, Scripts
<1> QED BY <1>3, <1>4, <1>5

LEMMA PreloadStep == ASSUME IInv, Preload PROVE IInv'
<1> USE DEF Preload, Host, parsed
<1>1. CASE preload_modules = <<>>
  BY <1>1 DEF IInv, TypeOK, Lists, ToPreload, Table, Scripts, loader, Phases
<1>2. CASE preload_modules # <<>>
  <2> DEFINE m == Head(preload_modules)
  <2>1. /\ preload_modules \in Seq(Modules) /\ preload_modules' = Tail(preload_modules)
        /\ phase' = "preload" /\ phase = "preload"
    BY <1>2 DEF IInv, TypeOK
  <2>2. /\ m \in Modules /\ 1 \in DOMAIN preload_modules /\ m = preload_modules[1]
        /\ preload_modules' \in Seq(Modules)
        /\ \A i \in DOMAIN preload_modules' : /\ i \in Nat /\ i + 1 \in DOMAIN preload_modules
                                              /\ preload_modules'[i] = preload_modules[i + 1]
                                              /\ preload_modules[i + 1] \in Modules
    BY <1>2, <2>1
  <2>3. /\ modules[m] = 0
        /\ \A i \in DOMAIN preload_modules' : preload_modules'[i] # m /\ modules[preload_modules'[i]] = 0
        /\ \A i, j \in DOMAIN preload_modules' : preload_modules'[i] = preload_modules'[j] => i = j
    <3>1. /\ \A i \in DOMAIN preload_modules : modules[preload_modules[i]] = 0
          /\ \A i, j \in DOMAIN preload_modules : preload_modules[i] = preload_modules[j] => i = j
      BY <2>1 DEF IInv, ToPreload
    <3>2. ASSUME NEW i \in DOMAIN preload_modules'
          PROVE  preload_modules'[i] # m /\ modules[preload_modules'[i]] = 0
      <4>1. i + 1 # 1
        BY <2>2
      <4> QED BY <4>1, <3>1, <2>2
    <3>3. ASSUME NEW i \in DOMAIN preload_modules', NEW j \in DOMAIN preload_modules',
                 preload_modules'[i] = preload_modules'[j]
          PROVE  i = j
      <4>1. i + 1 = j + 1
        BY <2>2, <3>1, <3>3
      <4> QED BY <4>1, <2>2
    <3> QED BY <2>2, <3>1, <3>2, <3>3
  <2>4. CASE m \in Libraries
    <3>1. Loader(m)
      BY <1>2, <2>4
    <3>2. /\ modules' \in [Modules -> Nat] /\ open' \in [Libraries -> Nat]
          /\ table' \in [Names -> Symbols] /\ fault' \in {"none", "code"}
          /\ Lists' /\ Table' /\ \A k \in Modules : k # m => modules'[k] = modules[k]
      BY <3>1, <2>1, <2>3, <2>4, Loading
    <3>3. TypeOK'
      BY <2>1, <2>2, <3>2 DEF IInv, TypeOK
    <3>4. ToPreload'
      BY <2>1, <2>2, <2>3, <3>2 DEF ToPreload
    <3>5. Scripts'
      BY <3>2, <2>1 DEF IInv, Scripts
    <3> QED BY <3>2, <3>3, <3>4, <3>5 DEF IInv
  <2>5. CASE m \notin Libraries
    <3>1. UNCHANGED <<modules, open, table, fault>>
      BY <1>2, <2>5 DEF loader
    <3>2. TypeOK'
      BY <2>1, <2>2, <3>1 DEF IInv, TypeOK
    <3>3. ToPreload'
      BY <2>1, <2>2, <2>3, <3>1 DEF ToPreload
    <3>4. Lists' /\ Table' /\ Scripts'
      BY <3>1, <2>1 DEF IInv, Lists, Table, Scripts
    <3> QED BY <3>2, <3>3, <3>4 DEF IInv
  <2> QED BY <2>4, <2>5
<1> QED BY <1>1, <1>2

LEMMA CallFunctionStep == ASSUME IInv, NEW n \in Names, CallFunction(n) PROVE IInv'
<1> USE DEF CallFunction, Host, host, loader, parsed
<1>1. fault = "none" /\ phase = "ready"
  OBVIOUS
<1>2. /\ fault' \in {"none", "code", "tree"} /\ (fault' = "code" => dropped)
      /\ ~freed => fault' # "tree"
  BY <1>1, Faults
<1>3. run' \in 0..made
  <2>1. table[n].tree \in Nat /\ table[n].tree <= made /\ made \in Nat
    BY ContextAssumption DEF IInv, TypeOK, Table, Symbols
  <2>2. run' \in {run, 0, table[n].tree}
    OBVIOUS
  <2> QED BY <2>1, <2>2 DEF IInv, TypeOK
<1>4. TypeOK'
  BY <1>2, <1>3 DEF IInv, TypeOK
<1> QED BY <1>2, <1>4 DEF IInv, Lists, ToPreload, Table, Scripts

LEMMA InhibitStep == ASSUME IInv, NEW n \in Names, Inhibit(n) PROVE IInv'
<1> USE DEF Inhibit, Host
<1>1. None \in Symbols /\ None.kind # "registered" /\ ~None.closed /\ None.tree = 0
  BY Constants DEF None, Symbol
<1>2. 0 <= made /\ exit_flag' \in BOOLEAN /\ run' \in 0..made /\ todo' \in Seq(Works)
  BY DEF IInv, TypeOK
<1> QED BY <1>1, <1>2, Replacing

LEMMA FreeModulesStep == ASSUME IInv, FreeModules PROVE IInv'
<1> USE DEF FreeModules, Host, parsed
<1>1. CASE \A m \in Modules : ~Loaded(m)
  <2>1. \A m \in Modules : modules[m] = 0 /\ modules[m] \in Nat
    BY <1>1 DEF Loaded, IInv, TypeOK
  <2>2. phase' = "freed" /\ UNCHANGED <<modules, open, table, fault>>
    BY <1>1, Order DEF loader
  <2> QED BY <2>1, <2>2 DEF IInv, TypeOK, Lists, ToPreload, Table, Scripts, Phases
<1>2. CASE \E m \in Modules : Loaded(m) /\ Unload(m) /\ UNCHANGED phase
  <2> PICK m \in Modules : Loaded(m) /\ Unload(m) /\ UNCHANGED phase
    BY <1>2
  <2>1. phase = "modules" /\ dropped' \in BOOLEAN /\ modules[m] > 0
    BY DEF IInv, TypeOK, Loaded
  <2>2. /\ modules' \in [Modules -> Nat] /\ open' \in [Libraries -> Nat]
        /\ table' \in [Names -> Symbols] /\ fault' \in {"none", "code"} /\ Lists' /\ Table'
    <3>1. fault = "none" /\ Unload(m) /\ UNCHANGED <<phase, made, freed>> /\ (dropped = TRUE => dropped' = TRUE)
      OBVIOUS
    <3>2. phase = "modules" \/ (phase = "ready" /\ dropped' = TRUE)
      BY <2>1
    <3> HIDE DEF FreeModules, Host, parsed
    <3> QED BY <2>1, <3>1, <3>2, Unloading
  <2>3. TypeOK' /\ ToPreload' /\ Scripts'
    BY <2>1, <2>2 DEF IInv, TypeOK, ToPreload, Scripts
  <2> QED BY <2>2, <2>3 DEF IInv
<1> QED BY <1>1, <1>2

-----------------------------------------------------------------------------
\* What a script does.
LEMMA DefineStep == ASSUME IInv, NEW n \in Names, Define(n) PROVE IInv'
<1> USE DEF Define, Script
<1> PICK kind \in {"defined", "function"} : Assign(n, Symbol(kind, NoModule, run))
  OBVIOUS
<1> DEFINE y == Symbol(kind, NoModule, run)
<1>1. run \in 0..made /\ made \in Nat /\ made <= MaxTrees
  BY ContextAssumption DEF IInv, TypeOK
<1>2. y \in Symbols /\ y.kind # "registered" /\ ~y.closed /\ y.tree <= made
  BY <1>1, ContextAssumption DEF Symbol, Symbols, Kinds
<1>3. exit_flag' \in BOOLEAN /\ run' \in 0..made /\ todo' \in Seq(Works)
  BY DEF IInv, TypeOK
<1> QED BY <1>2, <1>3, Replacing DEF Assign

LEMMA CallStep == ASSUME IInv, NEW f \in Names, NEW n \in Names, Call(f, n) PROVE IInv'
<1> USE DEF Call, Script
<1>1. fault = "none" /\ phase = "ready"
  OBVIOUS
<1>2. PICK y \in {Plain} \cup {Symbol("resource", m, 0) : m \in {table[f].module} \ {NoModule}} :
        IF Needs(table[f]) = "none" THEN Assign(n, y) ELSE fault' = Needs(table[f]) /\ UNCHANGED table
  OBVIOUS
<1>3. exit_flag' \in BOOLEAN /\ run' \in 0..made /\ todo' \in Seq(Works)
  BY DEF IInv, TypeOK
<1>4. CASE Needs(table[f]) = "none"
  <2>1. table[f].module \in Modules \cup {NoModule} /\ made \in Nat
    BY DEF IInv, TypeOK, Symbols
  <2>2. y \in Symbols /\ y.kind # "registered" /\ ~y.closed /\ y.tree = 0
    <3>1. CASE y = Plain
      BY <3>1, Constants DEF Plain, Symbol
    <3>2. CASE y # Plain
      <4>1. PICK m \in Modules : y = Symbol("resource", m, 0)
        BY <1>2, <2>1, <3>2
      <4> QED BY <4>1, ContextAssumption DEF Symbol, Symbols, Kinds
    <3> QED BY <3>1, <3>2
  <2>3. y.tree <= made
    BY <2>1, <2>2
  <2>4. Assign(n, y)
    BY <1>2, <1>4
  <2> QED BY <1>1, <1>3, <2>2, <2>3, <2>4, Replacing DEF Assign
<1>5. CASE Needs(table[f]) # "none"
  <2>1. fault' = Needs(table[f]) /\ UNCHANGED table
    BY <1>2, <1>5
  <2>2. /\ fault' \in {"none", "code", "tree"} /\ (fault' = "code" => dropped)
        /\ ~freed => fault' # "tree"
    BY <1>1, <2>1, Faults
  <2> QED BY <2>1, <2>2 DEF IInv, TypeOK, Lists, ToPreload, Table, Scripts, host, loader, parsed
<1> QED BY <1>4, <1>5

LEMMA KeepStep == ASSUME IInv, NEW f \in Names, NEW n \in Names, Keep(f, n) PROVE IInv'
<1> USE DEF Keep, Script
<1> DEFINE y == [table[f] EXCEPT !.kind = "function"]
<1>1. table[f] \in Symbols /\ (table[f].closed => dropped) /\ table[f].tree <= made
  BY DEF IInv, TypeOK, Table
<1>2. y \in Symbols /\ y.kind # "registered" /\ (y.closed => dropped) /\ y.tree <= made
  BY <1>1 DEF Symbols, Kinds
<1>3. exit_flag' \in BOOLEAN /\ run' \in 0..made /\ todo' \in Seq(Works)
  BY DEF IInv, TypeOK
<1> QED BY <1>2, <1>3, Replacing DEF Assign

LEMMA ModLoadStep == ASSUME IInv, ModLoad PROVE IInv'
<1> USE DEF ModLoad, Working, host, parsed
<1> DEFINE m == Head(todo).module
<1>1. /\ todo \in Seq(Works) /\ todo # <<>> /\ todo' = Tail(todo)
      /\ Head(todo) \in Works /\ Tail(todo) \in Seq(Works)
  BY DEF IInv, TypeOK
<1>2. m \in Modules /\ exit_flag \in BOOLEAN
  BY <1>1 DEF Works, IInv, TypeOK
<1>3. CASE ~Loaded(m) /\ ~safe /\ m \in Libraries
  <2>1. Loader(m) /\ exit_flag' \in BOOLEAN
    BY <1>2, <1>3 DEF Fail
  <2>2. modules[m] = 0
    BY <1>2, <1>3 DEF Loaded, IInv, TypeOK
  <2>3. phase' \notin {"modules", "freed"} /\ fault = "none" /\ UNCHANGED <<made, freed, dropped>>
    OBVIOUS
  <2>4. /\ modules' \in [Modules -> Nat] /\ open' \in [Libraries -> Nat]
        /\ table' \in [Names -> Symbols] /\ fault' \in {"none", "code"} /\ Lists' /\ Table'
    BY <1>3, <2>1, <2>2, <2>3, Loading
  <2>5. TypeOK' /\ ToPreload' /\ Scripts'
    BY <1>1, <2>1, <2>4 DEF IInv, TypeOK, ToPreload, Scripts
  <2> QED BY <2>4, <2>5 DEF IInv
<1>4. CASE ~(~Loaded(m) /\ ~safe /\ m \in Libraries)
  <2>1. exit_flag' \in BOOLEAN /\ UNCHANGED <<modules, open, table, fault>>
    BY <1>2, <1>4 DEF Fail, loader
  <2> QED BY <1>1, <2>1 DEF IInv, TypeOK, Lists, ToPreload, Table, Scripts
<1> QED BY <1>3, <1>4

LEMMA ModUnloadStep == ASSUME IInv, ModUnload PROVE IInv'
<1> USE DEF ModUnload, Working, host, parsed
<1> DEFINE m == Head(todo).module
<1>1. /\ todo \in Seq(Works) /\ todo # <<>> /\ todo' = Tail(todo)
      /\ Head(todo) \in Works /\ Tail(todo) \in Seq(Works)
  BY DEF IInv, TypeOK
<1>2. m \in Modules /\ exit_flag \in BOOLEAN
  BY <1>1 DEF Works, IInv, TypeOK
<1>3. CASE CanUnload(m)
  <2>1. Unload(m) /\ dropped' = TRUE /\ UNCHANGED exit_flag /\ modules[m] > 0
    BY <1>3 DEF CanUnload, Loaded
  <2>2. phase = "ready" /\ fault = "none" /\ UNCHANGED <<phase, made, freed>>
    OBVIOUS
  <2>3. /\ modules' \in [Modules -> Nat] /\ open' \in [Libraries -> Nat]
        /\ table' \in [Names -> Symbols] /\ fault' \in {"none", "code"} /\ Lists' /\ Table'
    BY <1>2, <2>1, <2>2, Unloading
  <2>4. TypeOK' /\ ToPreload' /\ Scripts'
    BY <1>1, <2>1, <2>3 DEF IInv, TypeOK, ToPreload, Scripts
  <2> QED BY <2>3, <2>4 DEF IInv
<1>4. CASE ~CanUnload(m)
  <2>1. exit_flag' \in BOOLEAN /\ UNCHANGED <<modules, open, table, fault, dropped>>
    BY <1>2, <1>4 DEF Fail, loader
  <2> QED BY <1>1, <2>1 DEF IInv, TypeOK, Lists, ToPreload, Table, Scripts
<1> QED BY <1>3, <1>4

LEMMA ScriptSteps == ASSUME IInv, ModuleCall \/ Exit \/ End PROVE IInv'
<1> USE DEF host, loader, parsed
<1>1. CASE ModuleCall
  <2>1. todo' \in Seq(Works)
    <3> PICK ms \in UNION {[1..k -> Modules] : k \in 1..MaxNames}, op \in {"load", "unload"}, try \in BOOLEAN :
               todo' = [i \in DOMAIN ms |-> [op |-> op, module |-> ms[i], try |-> try]]
      BY <1>1 DEF ModuleCall
    <3> PICK k \in 1..MaxNames : ms \in [1..k -> Modules]
      OBVIOUS
    <3>1. todo' \in [1..k -> Works] /\ k \in Nat
      BY ContextAssumption DEF Works
    <3> QED BY <3>1
  <2> QED BY <1>1, <2>1 DEF ModuleCall, IInv, TypeOK, Lists, ToPreload, Table, Scripts
<1>2. CASE Exit
  BY <1>2 DEF Exit, IInv, TypeOK, Lists, ToPreload, Table, Scripts
<1>3. CASE End
  BY <1>3, ContextAssumption DEF End, IInv, TypeOK, Lists, ToPreload, Table, Scripts
<1> QED BY <1>1, <1>2, <1>3

-----------------------------------------------------------------------------
LEMMA NextInv == IInv /\ [Next]_vars => IInv'
<1> SUFFICES ASSUME IInv, [Next]_vars PROVE IInv'
  OBVIOUS
<1>1. CASE UNCHANGED vars
  BY <1>1 DEF vars, IInv, TypeOK, Lists, ToPreload, Table, Scripts
<1>2. CASE SafeModeSet \/ InitCtx \/ Parse \/ Execute \/ FreeScript \/ FreeCtx \/ FreeTables
  BY <1>2, HostSteps
<1>3. CASE Preload \/ FreeModules \/ ModLoad \/ ModUnload
  BY <1>3, PreloadStep, FreeModulesStep, ModLoadStep, ModUnloadStep
<1>4. CASE ModuleCall \/ Exit \/ End
  BY <1>4, ScriptSteps
<1>5. ASSUME NEW m \in Modules, AddPreload(m) PROVE IInv'
  BY <1>5, AddPreloadStep
<1>6. ASSUME NEW n \in Names, CallFunction(n) \/ Inhibit(n) \/ Define(n) PROVE IInv'
  BY <1>6, CallFunctionStep, InhibitStep, DefineStep
<1>7. ASSUME NEW f \in Names, NEW n \in Names, Call(f, n) \/ Keep(f, n) PROVE IInv'
  BY <1>7, CallStep, KeepStep
<1> QED BY <1>1, <1>2, <1>3, <1>4, <1>5, <1>6, <1>7 DEF Next

\* The inductive invariant holds in every state: the types, the list of modules
\* and the open libraries, and what the symbols of the table need.
THEOREM Invariant == Spec => []IInv
<1>1. Init => IInv
  BY InitInv
<1>2. IInv /\ [Next]_vars => IInv'
  BY NextInv
<1> QED BY <1>1, <1>2, PTL DEF Spec

\* A registered function is never left behind by the module it belongs to
\* (module_unload, unregister_symbol).
THEOREM FunctionsOfLoadedModules == Spec => []RegisteredLoaded
<1>1. IInv => RegisteredLoaded
  BY DEF IInv, Table, RegisteredLoaded
<1> QED BY <1>1, Invariant, PTL

\* Without module_unload no code is called after its library was closed
\* (intend_free_ctx).
THEOREM NoClosedCode == Spec => []CodeAlive
<1>1. IInv => CodeAlive
  BY DEF IInv, Table, CodeAlive
<1> QED BY <1>1, Invariant, PTL

\* Without intend_free_script no statement is used after it was freed
\* (parser_run, run_func, intend_free_ctx).
THEOREM NoFreedStatements == Spec => []StatementsAlive
<1>1. IInv => StatementsAlive
  BY DEF IInv, Scripts, StatementsAlive
<1> QED BY <1>1, Invariant, PTL

\* The list of modules and the open libraries agree (module_load,
\* module_unload, module_teardown).
THEOREM ListsAgree == Spec => []ListTrue
<1>1. IInv => ListTrue
  BY DEF IInv, Lists, ListTrue
<1> QED BY <1>1, Invariant, PTL

\* In safe mode a script changes nothing about the modules (module_load,
\* module_unload).
THEOREM SafeModeHolds == Spec => SafeModeKept
<1>1. ASSUME [Next]_vars, safe, phase = "ready", phase' = "ready" PROVE UNCHANGED loader
  <2>1. CASE UNCHANGED vars
    BY <2>1 DEF vars, loader
  <2>2. CASE ModLoad
    BY <1>1, <2>2 DEF ModLoad
  <2>3. CASE ModUnload
    BY <1>1, <2>3 DEF ModUnload, CanUnload
  <2>4. CASE Preload \/ FreeModules
    BY <1>1, <2>4 DEF Preload, FreeModules, Host
  <2>5. CASE SafeModeSet \/ InitCtx \/ Parse \/ Execute \/ FreeScript \/ FreeCtx \/ FreeTables
    BY <2>5 DEF SafeModeSet, InitCtx, Parse, Execute, FreeScript, FreeCtx, FreeTables
  <2>6. CASE ModuleCall \/ Exit \/ End
    BY <2>6 DEF ModuleCall, Exit, End
  <2>7. CASE \/ \E m \in Modules : AddPreload(m)
             \/ \E n \in Names : CallFunction(n) \/ Inhibit(n) \/ Define(n)
             \/ \E f, n \in Names : Call(f, n) \/ Keep(f, n)
    BY <2>7 DEF AddPreload, CallFunction, Inhibit, Define, Call, Keep
  <2> QED BY <1>1, <2>1, <2>2, <2>3, <2>4, <2>5, <2>6, <2>7 DEF Next
<1>2. [Next]_vars => [safe /\ phase = "ready" /\ phase' = "ready" => UNCHANGED loader]_vars
  BY <1>1
<1> QED BY <1>2, PTL DEF Spec, SafeModeKept
=============================================================================
