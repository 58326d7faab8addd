------------------------------ MODULE Context ------------------------------
(***************************************************************************)
(* The life of an interpreter context, as a host program drives it through *)
(* intend.h: configuration, initialisation, scripts that are parsed, run   *)
(* and freed, calls of their functions, modules that are loaded and        *)
(* unloaded, and the end of the context.                                   *)
(*                                                                         *)
(* What a script does is any sequence of the steps that touch the state of *)
(* the context: it defines functions, calls functions and keeps what they  *)
(* return, loads and unloads modules, ends.  A symbol of the global table  *)
(* stands for the code it needs: a function of the script needs the parsed *)
(* statements, a function of a module and a resource its library.  What    *)
(* needs code that is gone is undefined in C; the model stops there, with  *)
(* `fault' set.                                                            *)
(***************************************************************************)
EXTENDS Naturals, Sequences

CONSTANTS Names,      \* names of the global symbol table
          Modules,    \* names a module may be loaded by
          Libraries,  \* those for which there is a library
          Odd,        \* those whose library lacks the two functions of a module
          Functions,  \* [Libraries -> set of names]: functions it registers
          Kept,       \* [Libraries -> set of names]: variables it registers and keeps
          NoModule,   \* no element of Modules
          MaxTrees,   \* bound: scripts parsed successfully
          MaxFiles,   \* bound: open count of a library
          MaxNames    \* bound: arguments of module_load and module_unload

ASSUME ContextAssumption ==
  /\ Odd \subseteq Libraries /\ Libraries \subseteq Modules /\ NoModule \notin Modules
  /\ Functions \in [Libraries -> SUBSET Names] /\ Kept \in [Libraries -> SUBSET Names]
  /\ MaxTrees \in Nat /\ MaxFiles \in Nat /\ MaxNames \in Nat

VARIABLES phase,           \* where the host is in the life of the context
          safe,            \* safe_mode
          preload_modules,
          modules,         \* nodes of each name in the list of loaded modules
          table,           \* the global symbol table
          script, made,    \* s->script, the number of scripts parsed so far
          trees,           \* scripts that are allocated
          exit_flag,
          run,             \* the script whose statements are evaluated, 0 for none
          todo,            \* what is left of a call of module_load or module_unload
          open,            \* external: how often each library is open
          fault,           \* code that was gone when it was needed
          freed, dropped   \* history: intend_free_script and module_unload were used

vars   == <<phase, safe, preload_modules, modules, table, script, made, trees, exit_flag, run,
            todo, open, fault, freed, dropped>>
host   == <<phase, safe, preload_modules>>
loader == <<modules, open>>
parsed == <<script, made, trees, freed>>

-----------------------------------------------------------------------------
(* Symbols.  A function is registered by a module or defined by a script; a  *)
(* variable holds a function value, a resource, or something plain.  Only    *)
(* what a module registered goes when its library is closed.                 *)

Symbol(kind, module, tree) == [kind |-> kind, module |-> module, tree |-> tree, closed |-> FALSE]
None     == Symbol("none", NoModule, 0)
Plain    == Symbol("plain", NoModule, 0)
Kinds    == {"none", "plain", "registered", "function", "resource", "defined"}
Symbols  == [kind : Kinds, module : Modules \cup {NoModule}, tree : 0..MaxTrees, closed : BOOLEAN]

\* Replacing or deleting a resource calls its release function.
Release(symbols) ==
  IF \E y \in symbols : y.kind = "resource" /\ y.closed THEN "code" ELSE fault

\* A call needs the code of the function.
Needs(y) == CASE y.closed                            -> "code"
              [] y.tree # 0 /\ y.tree \notin trees   -> "tree"
              [] OTHER                               -> fault

\* The host calls functions only, a script also variables that hold one.
Entries  == {"registered", "defined"}
Callable == Entries \cup {"function"}

\* register_function_array, register_variable_array: whatever is there goes.
Register(m) == [n \in Names |-> IF n \in Functions[m] THEN Symbol("registered", m, 0)
                                ELSE IF n \in Kept[m] THEN Plain ELSE table[n]]
Replaced(m) == {table[n] : n \in Functions[m] \cup Kept[m]}

\* unregister_function_array: whatever is there now goes.
Deleted(m)    == {table[n] : n \in Functions[m]}
Swapped(m)    == [n \in Names |-> IF n \in Kept[m] THEN None ELSE table[n]]   \* mutant of Unregister
Unregister(m) == [n \in Names |-> IF n \in Functions[m] THEN None ELSE table[n]]

\* dlclose: the code is gone with the last one.
Close(m, t) == [n \in Names |-> IF t[n].module = m /\ open[m] = 1
                                THEN [t[n] EXCEPT !.closed = TRUE] ELSE t[n]]

Preloaded(m)   == \E i \in DOMAIN preload_modules : preload_modules[i] = m
AsPreloaded(m) == Preloaded(m)   \* mutant of Loaded
Loaded(m)      == modules[m] > 0

-----------------------------------------------------------------------------
Init ==
  /\ phase = "new" /\ safe = FALSE
  /\ preload_modules = <<>> /\ modules = [m \in Modules |-> 0]
  /\ table = [n \in Names |-> None]
  /\ script = 0 /\ made = 0 /\ trees = {}
  /\ exit_flag = FALSE
  /\ run = 0 /\ todo = <<>>
  /\ open = [m \in Libraries |-> 0]
  /\ fault = "none" /\ freed = FALSE /\ dropped = FALSE

Host(p)  == fault = "none" /\ phase = p /\ run = 0
\* eval_stmt, eval_expr: nothing is evaluated once exit_flag is set.
Script   == fault = "none" /\ phase = "ready" /\ run # 0 /\ todo = <<>> /\ ~exit_flag

\* module_loader.  A library without the two functions stays open.
Loader(m) ==
  /\ open' = [open EXCEPT ![m] = @ + 1]
  /\ IF m \in Odd THEN UNCHANGED <<modules, table, fault>>
     ELSE /\ modules' = [modules EXCEPT ![m] = @ + 1]
          /\ table' = Register(m)
          /\ fault' = Release(Replaced(m))

-----------------------------------------------------------------------------
(* The host. *)

SafeModeSet ==
  /\ Host("new")
  /\ safe' = ~safe
  /\ UNCHANGED <<phase, preload_modules, loader, table, parsed, exit_flag, run, todo, fault, dropped>>

AddPreload(m) ==
  /\ Host("new")
  /\ ~Preloaded(m)
  /\ preload_modules' = <<m>> \o preload_modules
  /\ UNCHANGED <<phase, safe, loader, table, parsed, exit_flag, run, todo, fault, dropped>>

\* intend_init_ctx: module_preload goes through the list, head first.
InitCtx ==
  /\ Host("new")
  /\ phase' = "preload"
  /\ UNCHANGED <<safe, preload_modules, loader, table, parsed, exit_flag, run, todo, fault, dropped>>

Preload ==
  /\ Host("preload")
  /\ IF preload_modules = <<>>
     THEN phase' = "ready" /\ UNCHANGED <<preload_modules, loader, table, fault>>
     ELSE /\ preload_modules' = Tail(preload_modules)
          /\ UNCHANGED phase
          /\ IF Head(preload_modules) \in Libraries THEN Loader(Head(preload_modules))
             ELSE UNCHANGED <<loader, table, fault>>
  /\ UNCHANGED <<safe, parsed, exit_flag, run, todo, dropped>>

\* parser_run: a script that fails leaves the last one in place, and icl_error
\* is a fatal error.
OldFreed     == trees \ {script}   \* mutant of OldScriptKept
OldScriptKept == trees

Parse ==
  /\ Host("ready")
  /\ \/ /\ made < MaxTrees
        /\ made' = made + 1 /\ script' = made + 1
        /\ trees' = OldScriptKept \cup {made + 1}
        /\ UNCHANGED exit_flag
     \/ /\ exit_flag' = TRUE
        /\ UNCHANGED <<made, script, trees>>
  /\ UNCHANGED <<host, loader, table, freed, run, todo, fault, dropped>>

Execute ==
  /\ Host("ready")
  /\ script # 0 /\ ~exit_flag
  /\ IF script \in trees THEN run' = script /\ UNCHANGED fault
     ELSE fault' = "tree" /\ UNCHANGED run
  /\ UNCHANGED <<host, loader, table, parsed, exit_flag, todo, dropped>>

\* intend_call_function: the function of a script runs, that of a module
\* returns; that there is no such function is a fatal error.
CallFunction(n) ==
  /\ Host("ready") /\ ~exit_flag
  /\ IF table[n].kind \in Entries
     THEN /\ fault' = Needs(table[n])
          /\ run' = IF fault' = "none" THEN table[n].tree ELSE 0
          /\ UNCHANGED exit_flag
     ELSE exit_flag' = TRUE /\ UNCHANGED <<run, fault>>
  /\ UNCHANGED <<host, loader, table, parsed, todo, dropped>>

\* intend_inhibit_ctx
Inhibit(n) ==
  /\ Host("ready")
  /\ table[n].kind # "none"
  /\ table' = [table EXCEPT ![n] = None]
  /\ fault' = Release({table[n]})
  /\ UNCHANGED <<host, loader, parsed, exit_flag, run, todo, dropped>>

FreeScript ==
  /\ Host("ready")
  /\ script # 0
  /\ IF script \in trees THEN UNCHANGED fault ELSE fault' = "tree"
  /\ trees' = trees \ {script}
  /\ freed' = TRUE
  /\ UNCHANGED <<host, loader, table, script, made, exit_flag, run, todo, dropped>>

\* intend_free_ctx: the script, the symbol tables, then the modules.
ModulesFirst  == <<"modules", "tables", "freed">>   \* mutant of TeardownOrder
TeardownOrder == <<"tables", "modules", "freed">>
After(p)      == TeardownOrder[1 + CHOOSE i \in 1..2 : TeardownOrder[i] = p]

FreeCtx ==
  /\ Host("new") \/ Host("ready")
  /\ IF script = 0 \/ script \in trees THEN UNCHANGED fault ELSE fault' = "tree"
  /\ trees' = trees \ {script}
  /\ phase' = TeardownOrder[1]
  /\ UNCHANGED <<safe, preload_modules, loader, table, script, made, freed, exit_flag, run, todo, dropped>>

FreeTables ==
  /\ Host("tables")
  /\ table' = [n \in Names |-> None]
  /\ fault' = Release({table[n] : n \in Names})
  /\ preload_modules' = <<>>
  /\ phase' = After("tables")
  /\ UNCHANGED <<safe, loader, parsed, exit_flag, run, todo, dropped>>

\* A library is closed when nothing of its module is left in the table.
Unload(m) ==
  /\ modules' = [modules EXCEPT ![m] = @ - 1]
  /\ fault' = Release(Deleted(m))
  /\ table' = Close(m, Unregister(m))
  /\ open' = [open EXCEPT ![m] = @ - 1]

\* module_teardown: there is no global table any more, so that the order of the
\* list is of no importance.
FreeModules ==
  /\ Host("modules")
  /\ \/ /\ \A m \in Modules : ~Loaded(m)
        /\ phase' = After("modules") /\ UNCHANGED <<loader, table, fault>>
     \/ \E m \in Modules : Loaded(m) /\ Unload(m) /\ UNCHANGED phase
  /\ UNCHANGED <<safe, preload_modules, parsed, exit_flag, run, todo, dropped>>

-----------------------------------------------------------------------------
(* The script. *)

Assign(n, y) == /\ table' = [table EXCEPT ![n] = y]
                /\ fault' = Release({table[n]})

\* A function definition, and the value of a lambda, point into the statements.
Define(n) ==
  /\ Script
  /\ \E kind \in {"defined", "function"} : Assign(n, Symbol(kind, NoModule, run))
  /\ UNCHANGED <<host, loader, parsed, exit_flag, run, todo, dropped>>

\* n = f() for a function f: what it returns may be a resource of its module.
Call(f, n) ==
  /\ Script
  /\ table[f].kind \in Callable
  /\ \E y \in {Plain} \cup {Symbol("resource", m, 0) : m \in {table[f].module} \ {NoModule}} :
       IF Needs(table[f]) = "none" THEN Assign(n, y)
       ELSE fault' = Needs(table[f]) /\ UNCHANGED table
  /\ UNCHANGED <<host, loader, parsed, exit_flag, run, todo, dropped>>

\* n = f: a function value with the code of f.
Keep(f, n) ==
  /\ Script
  /\ f # n /\ table[f].kind \in Callable
  /\ Assign(n, [table[f] EXCEPT !.kind = "function"])
  /\ UNCHANGED <<host, loader, parsed, exit_flag, run, todo, dropped>>

\* mod_load and mod_unload take their arguments one by one.  A failure is thrown;
\* outside of a try that is a fatal error, but the other arguments follow.
ModuleCall ==
  /\ Script
  /\ \E ms \in UNION {[1..k -> Modules] : k \in 1..MaxNames}, op \in {"load", "unload"}, try \in BOOLEAN :
       todo' = [i \in DOMAIN ms |-> [op |-> op, module |-> ms[i], try |-> try]]
  /\ UNCHANGED <<host, loader, table, parsed, exit_flag, run, fault, dropped>>

Working(op) == fault = "none" /\ phase = "ready" /\ todo # <<>> /\ Head(todo).op = op

Fail == exit_flag' = (exit_flag \/ ~Head(todo).try)

ModLoad ==
  /\ Working("load")
  /\ LET m == Head(todo).module
     IN IF Loaded(m) THEN UNCHANGED <<exit_flag, loader, table, fault>>
        ELSE IF safe \/ m \notin Libraries
             THEN Fail /\ UNCHANGED <<loader, table, fault>>
             ELSE /\ open[m] < MaxFiles
                  /\ Loader(m)
                  /\ IF m \in Odd THEN Fail ELSE UNCHANGED exit_flag
  /\ todo' = Tail(todo)
  /\ UNCHANGED <<host, parsed, run, dropped>>

\* module_unload
InAnyMode(m) == Loaded(m)   \* mutant of CanUnload
CanUnload(m) == ~safe /\ Loaded(m)

ModUnload ==
  /\ Working("unload")
  /\ LET m == Head(todo).module
     IN IF CanUnload(m)
        THEN /\ Unload(m)
             /\ dropped' = TRUE
             /\ UNCHANGED exit_flag
        ELSE Fail /\ UNCHANGED <<loader, table, fault, dropped>>
  /\ todo' = Tail(todo)
  /\ UNCHANGED <<host, parsed, run>>

\* exit(), or an error that nothing catches.
Exit ==
  /\ Script
  /\ exit_flag' = TRUE
  /\ UNCHANGED <<host, loader, table, parsed, run, todo, fault, dropped>>

\* The script or the function ends.
End ==
  /\ fault = "none" /\ run # 0 /\ todo = <<>>
  /\ run' = 0
  /\ UNCHANGED <<host, loader, table, parsed, exit_flag, todo, fault, dropped>>

-----------------------------------------------------------------------------
Next ==
  \/ SafeModeSet \/ InitCtx \/ Preload \/ Parse \/ Execute \/ FreeScript
  \/ FreeCtx \/ FreeTables \/ FreeModules
  \/ ModuleCall \/ ModLoad \/ ModUnload \/ Exit \/ End
  \/ \E m \in Modules : AddPreload(m)
  \/ \E n \in Names : CallFunction(n) \/ Inhibit(n) \/ Define(n)
  \/ \E f, n \in Names : Call(f, n) \/ Keep(f, n)

Spec == Init /\ [][Next]_vars

-----------------------------------------------------------------------------
\* A function in the table is never one of a library that is not loaded: what a
\* module registers goes before its code does, also when modules and scripts
\* redefine the names of one another (module_unload, unregister_symbol).
RegisteredLoaded ==
  \A n \in Names : table[n].kind = "registered" =>
    ~table[n].closed /\ modules[table[n].module] > 0

\* No function or release function is called after its library was closed,
\* unless a script unloaded a module and kept what it had got from it: at the
\* end of a context values are released while the libraries are still there
\* (intend_free_ctx).
CodeAlive == fault = "code" => dropped

\* No statement is used after it was freed, unless the host used
\* intend_free_script: the functions of earlier scripts stay valid
\* (parser_run, run_func, intend_free_ctx).
StatementsAlive == fault = "tree" => freed

\* A library is open exactly as long as its module is in the list, and a module
\* is in the list once; at the end all are closed (module_load, module_unload,
\* module_teardown).
ListTrue ==
  /\ \A m \in Modules : modules[m] <= 1
  /\ \A m \in Libraries \ Odd : open[m] = modules[m]
  /\ phase = "freed" => \A m \in Modules : modules[m] = 0

\* In safe mode a script changes nothing about the modules the host has chosen
\* (module_load, module_unload).
SafeModeKept == [][safe /\ phase = "ready" /\ phase' = "ready" => UNCHANGED loader]_vars

\* What the manual says of intend_free_script (manual.asc:7975-7981): a host may
\* free the script, and the context later.
MayFreeScript == fault = "tree" => phase = "ready"

=============================================================================
