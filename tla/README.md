# A verification of the Intend C interpreter

Intend C is a small scripting language: a library (`src/libintend`) with a
parser, an evaluator that walks the parsed tree, a runtime (values, symbol
tables, modules, sandboxes, external commands), a standard library, a set of
loadable modules (`src/modules`) and a command-line program
(`src/src/intendcmd.c`). This directory holds TLA+ models of its core, the TLC
runs that check them on small instances, and proofs, checked by TLAPS, of the
properties that matter most for every instance.

## 1. The system

### Parts, state and interaction

| part | state | operations | talks to |
| --- | --- | --- | --- |
| parser (`libparser`) | statement and expression stacks, then `state->script` | one semantic action per grammar rule | builds the trees the evaluator walks |
| statement evaluator (`eval_stmt.c`, `eval_switch.c`) | `return_flag`, `continue_flag`, `break_flag`, `loop_flag`, `func_flag`, `retval`, `retval_cookie`, `global_cookie` of `intend_state` | `eval_stmt`, `eval_stmt_list`, `eval_stmt_switch`, `run_func` | calls `eval_expr`; is called back by `call_function` |
| expression evaluator (`eval_expr.c`, `eval_bool.c`, ...) | none of its own | `eval_expr` and one function per operator | calls `eval_call`, the symbol tables, the values |
| calls (`eval_call.c`, `call_func.c`, `call_check.c`, `call_sig.c`) | the floating argument list, signatures | `eval_call`, `eval_call_args`, `call_function`, `update_call_args` | enters and pops local tables; calls builtins and `run_func` |
| exceptions (`except.c`) | `try_flag`, `except_flag`, `except_value` | `except_throw`, `except_try`, `except_catch` | throws from anywhere, `fatal` when nobody catches |
| errors (`misc_error.c`) | `exit_flag`, `exit_value` | `fatal`, `nonfatal` | called from everywhere |
| classes (`eval_method.c`) | `new_cons`, `new_sig` | `eval_new`, `eval_static`, `eval_method` | local tables become instances |
| symbol tables (`symtab_entry.c`, `symtab_memory.c`) | hash nodes with entry vectors | add, look up, delete, copy, free | hold values and signatures; arrays and structs are made of them |
| table stack (`symtab_stack.c`) | `global_table`, `local_tables`, `local_depth` | enter, leave, pop, add, look up | one local table per running function |
| values (`value_*.c`) | the counts of the values that share a resource | make, copy, cast, clean up | the tables, the evaluator, the release functions of the modules |
| arrays (`value_array.c`, `array.c`) | a vector of pointers, a table of keys | assign, delete, copy, sort, merge | are values; keys are a symbol table |
| operators (`eval_infix.c`, `eval_math.c`, `eval_order.c`, ...) | none of their own | promotion, arithmetic, order, bits, `++` and `--` | casts of values, assignment |
| standard library (`libstdlib`) | none, but the generator of `random.c` | strings, arrays, functions on functions, time, environment | calls script functions back |
| module loader, registration (`module.c`, `register.c`) | the list of loaded modules, the list to be loaded at start | load, preload, unload, teardown | registers functions in the global table |
| sandboxes and paths (`sandbox.c`, `path.c`, `safe.c`) | list of named roots, safe mode | resolve, normalise, access, validate | file and shell modules |
| module mem (`intend_mem.c`) | memory blocks behind resources | allocate, grow, free, typed gets and puts, pointers, copies | release by `value_cleanup` |
| module file (`intend_file.c`) | streams behind resources, current directory | open, reopen, close, pipe, read, write, functions on paths | paths, streams of the host |
| module list (`intend_list.c`) | none | cons, tail, init, take, drop, intersperse, replicate | arrays |
| module sys (`intend_sys.c`) | the function of each signal | signals, processes, commands | external commands, the evaluator from a signal handler |
| external commands (`system.c`) | three pipes and a child process | `system_run`, `system_shell`, `system_exec` | `sys` and `shell` modules |
| host interface (`intend.c`, `stream.c`) | one `intend_state` per context | new, init, parse, execute, call, free | the command line, other hosts |

### What is hard about it

* Control is carried by flags. The C functions of the evaluator call each
  other recursively, and `return`, `break`, `continue`, an exception and `exit()`
  are flags in one structure which every function on the way out has to test, and
  some have to reset. Whether a flag survives the right frames and only those is
  what most of this project is about.
* Counters count what is active (loops, try sections, functions, local tables)
  and have to be given back on every path, also on a refused call.
* Pointers into tables are kept while script code runs: signatures in calls and
  constructors, the variable of an assignment, array entries in hash nodes, the
  elements of an array that `map` and the folds lend to a function.
* Arguments passed by reference are written back after the call, one after the
  other, into places whose indices the call may have changed.
* A resource is shared by every copy of its value, and its release function
  belongs to a module.
* Operators promote their operands by rules that depend on the types of both, on
  the operator, and on which operand is a constant.
* A path is text that is checked in one form and used in another.
* Modules can be unloaded while their functions and resources are in use.
* An external command runs concurrently, joined by pipes of bounded size.
* The interpreter is single threaded; nothing is persisted.

### What makes each part correct

The evaluator: a script does what the manual says, nothing of it runs after a
throw, return or exit until the right place is reached, and the counters balance.
Symbol tables: a table is a map from names to entries. Calls and classes: what is
called is what the name meant, a function changes what it was handed and nothing
else, and no table outlives its frame. Operators: quotient and remainder, sum and
difference, order and equality, cast and cast back belong together. Resources:
released once, with the last value. Modules: what is registered belongs to a
loaded module. Commands: all output arrives, no descriptor stays open, the call
returns. Memory: no access outside of a block or after its release. Paths: what
is reached is what the path of the script means, and lies in the sandbox it
names.

## 2. Modules

| module | what it is |
| --- | --- |
| `Syntax` | the trees the parser builds, one constructor per statement, named for it |
| `EvalControl` | the evaluator: the C stack as a sequence of frames, the flags of `intend_state`, one action per piece of a C function between two calls |
| `Manual` | what the manual says a script does: a recursive big-step semantics, the abstract specification of `EvalControl` |
| `MCPrograms` | grids of small scripts |
| `MCEvalControl`, `MCManual`, `MCFindings` | instances of `EvalControl` for TLC |
| `EvalControlProofs` | its inductive invariant and theorems |
| `SystemRun` | an external command: the interpreter, its child and three bounded pipes |
| `MCSystemRun` | every short child script, and the calls that do not come back |
| `SystemRunProofs` | its inductive invariant and theorems |
| `Scopes` | what symbol tables promise: a global scope and a stack of local ones, each a map |
| `Symtab` | one symbol table: hash buckets of slots that are cleared but never taken away |
| `SymtabStack` | the global table and the local ones; implements `Scopes` |
| `MCSymtab` | two names in one bucket |
| `SymtabProofs` | the refinement `SymtabStack` => `Scopes`, and what it rests on |
| `OrderedMap` | what the manual promises of an array: numbered elements, some with a key |
| `ValueArray` | one array variable: a vector of pointers, some into the nodes of a `Symtab` table |
| `MCValueArray` | two keys in one bucket |
| `ValueArrayProofs` | the invariant of the pointers and the refinement `ValueArray` => `OrderedMap` |
| `Induction` | folds, sums, sets of sequences, and forests of sequences: what the proofs about data rest on |
| `Grammar` | the productions of `icl_grammar.y`: for each the symbols it reads, the semantic actions it calls, and the text it stands for |
| `Parser` | the semantic actions on the stacks of statements and expressions, the nodes they allocate, include files, and the release of the tree |
| `MCParser` | all scripts of a few productions, in groups |
| `ParserProofs` | what every production does to the stacks of the parser, and the theorem that nothing is left on them; where the nodes are, and the theorem that none is freed twice or forgotten |
| `Context` | the life of an interpreter context as a host and its scripts drive it, with the modules that are loaded and unloaded |
| `MCContext` | two modules that register the same name, a library that is no module, a name without library |
| `ContextProofs` | its inductive invariant and theorems |
| `Calls` | what an expression does to the tables: references, assignments, calls by value and by reference, classes, methods, lambdas, and the library's functions on functions |
| `MCCalls` | a grid of such expressions, alone and in a `try`, and the careless ones |
| `Values` | the values of a script and every cast between them |
| `Strings` | the string functions that search, cut, split, join and trim |
| `Operators` | infix, prefix and postfix operators, casts, calls of `Strings` |
| `MCOperators` | 26 values of all nine types, every string of up to three characters |
| `Resources` | values that share a counted structure |
| `MemBlock` | the mem module on resources |
| `Paths` | sandboxes, normal forms, parents, access and validation of paths |
| `Files` | the file module on resources and paths |
| `Modules` | a script that calls both modules; composes the four above |
| `MCModules` | two variables, two sandboxes of one name, nine paths |
| `ModulesProofs` | the inductive invariants of counts, streams and memory, and their theorems; that a path of a script and the text the system is given mean the same place |

`ValueArray` EXTENDS `Symtab`, as the key table of an array is a symbol table in
the code. `EvalControl` counts local tables and leaves their contents to
`SymtabStack`; what expressions do to variables is in `Calls`, which in turn keeps
only the control that expressions can see (`flow`, `try_flag`, `continue_flag`).
`Operators` EXTENDS `Strings`, and that `Values`. `MemBlock` and `Files` EXTEND
`Resources`, `Files` also `Paths`, and `Modules` EXTENDS both, its `Next` a script
that calls either. The proof modules EXTEND the module they are about. `Parser` EXTENDS `Grammar`. `Context` starts where a script is
parsed and takes from the other models that a script is any sequence of the steps
that touch the state of the context.

### How state and actions correspond to the code

**EvalControl.** `ctl` is the C stack. A frame is one running `eval_stmt`,
`eval_stmt_list`, `eval_stmt_switch`, `eval_expr` or `eval_call`; `node` is its
tree, `pc` the call it waits for, `i` its loop index, `v` a local value, `cookie`
the activation of the function it belongs to. A step takes one C function from
one call to the next, or to its return, so a flag is set, tested and cleared in
the order of the source. `s` has the fields of `intend_state` under their own
names; `trace` is a history: inputs read and exceptions caught. Expressions that
steer no control are one action, `ReadInput`, whose value is free, so every
comparison or variable a script could test is covered by it. `Raise` stands for
any builtin that reports through `except_throw`, `Exit` for `exit()`. The
arguments of a call are evaluated in order, and the call is refused, skipped or
entered as `eval_call`, `call_function` and `run_func` decide. Counters are C
ints whose largest value is `MaxNest`: the overflow tests of the code
(`++x < 1`) assume that they wrap, and the model lets them.

**SystemRun.** One action per system call of `system_run` and per byte of its
`write`; `system_shell` is the same code with another `exec`. `parent` and `child`
are the pipe ends that are open, from which blocking, end of file and SIGPIPE
follow (`HasReader`, `HasWriter`). The child does between `fork` and `exec` what
the code says and then follows an arbitrary script of reads and writes.

**Symtab, SymtabStack.** A table maps a bucket to the vector of its node. The
operators take a table and give the table after the call: `SymtabAdd` appends,
`Cleanup` leaves a cleared slot, a redefinition takes over a slot or, for a
function over something else, clears it and appends, as the code does. Each
operation of `symtab_stack.c` is one action on the topmost local table or the
global one. `taken` is the table the last `symtab_stack_pop` returned: what
becomes of the arguments of a call and of a struct. What an entry holds is a
model value.

**Calls.** The evaluator is recursive and so is its model: `Eval` takes the state
of the interpreter and an expression and gives the state after it and its value;
the other operators are the functions of `eval_call.c`, `eval_assign.c`,
`eval_method.c`, `call_func.c`, `call_check.c` and `function.c` that it calls, under
names near theirs. A step evaluates one statement of the script. Two stamps in
every entry stand for the memory of its slot and of its signature; what the C code
keeps as a pointer is kept as a name with the stamp seen (`PointerTo`), and used
only if the stamp is the same (`Alive`), else `flow` is `fault` and the interpreter
is gone. Whether a node of a table has room or moves its entries when a name is
added is chosen for every statement (`moves`). `Refuses` and `CastTo` are
`call_check`, `RefLength` and `RefOrder` the order in which references are written back,
`Invoke` a call with lent arguments. Statements that the code is known to mishandle
are in the grid with a mark (`Careless`), and their effects are left to the list in
section 6: every property excepts them and nothing else.

**Values, Strings, Operators.** An expression has a set of outcomes, since overflow
and some shifts are undefined and the difference of two strings is computed from
bytes of their representation (`Junk`). `Promoted` is the table of promotions of
`eval_infix.c`, `Apply` the dispatch, `Stored` what `++` and `--` store, through a
second evaluation of the index. Casts are functions on values; a string is the
sequence of its characters, so that `strtol`, `strtod`, `"%i"` and the zero byte do
what they do in C. An int has `Width` bits, a float is a fraction.

**Resources, MemBlock, Files, Modules.** A cell is a value: a variable, an argument,
or the result of a call. `phase` walks through a statement as `eval_call` does:
arguments are copied into the list, the function runs, references are written
back, arguments freed, the result stored or dropped. Every step that lowers a count
to 0 runs the release function of the module in the same step (`Released`).
`MemBlock` keeps the memory itself (`heap`) and what the resource remembers of it
(`mem`), so that one can be wrong about the other; a byte is 0, undefined, a value,
or part of a pointer. `Files` keeps which `FILE` is open where and, for each call,
the places in the file system it has read, changed, and taken a file away from
(`rename`); the system may refuse every call. Whether a stream sits on one of the
descriptors 0 to 2 (`low`) decides what `reopen` may do in safe mode. `stat` and
`scandir` of an empty path return a value nobody has set, which is `misuse`; what
asks the file system for a text only (`basename`, `dirname`, `realpath`, `getcwd`,
`umask`) is left out. `Paths` works on the text of a path, character by character where the code
does, because what it promises is that two readings of one text agree: `PlaceOf` is how
the system walks a path, `Meaning` what the path of a script stands for. `NamesMean`
has three exceptions, as the code compares texts and not names: a sandbox itself
(`SandboxAlone`), a path that ends in `..` where only the parent is validated
(`EndsUp`), and a neighbour whose name begins like the sandbox (`Beside`).

**ValueArray.** An element without a key is a block of its own, one with a key is
a slot in a node, and the pointer names bucket, slot and how often the node had
been moved when the pointer was made (`base`). A pointer with an older `base`
reads freed memory. The actions are the assignments of a script (`StoreAt`: by
index, by key, to the end) and the functions of `array.c` that make, change or
copy an array, and those of the list module; a value that is passed or assigned
is copied (`CopyArray`), which in the code also rebuilds the key table.

**Parser.** A behaviour derives one script and calls the semantic actions in the
order in which the generated parser does. `p.expr_stack`, `p.arg_count`, `p.stack`,
`p.fn_arg` and `p.include` are the stacks of the source. `heap` has the nodes that are
allocated; the stacks and the parts of a node are sequences of pointers to them, and a
pointer is the number of the allocation. `expr_copy`, `expr_free` and `stmt_free` call
themselves for the parts of a node: each call is a step of its own (`Copy`, `Free`),
`copying` and `freeing` have the pointers for which they are still to be called, and the parser
goes on when there are none. A call for a node that was freed has no meaning in C; the
model ends there, and `FreedOnce` says that it never does. `FreeScript` is
`intend_free_script`. What a production says (`text`) is kept beside what the actions build,
with names and operators as numbers in the order of the text. The look-ahead matters in
one place, the end of an included file, and there the file that is current while
an expression is built is free within what the scanner allows. A failed check
(`sanity`) ends the behaviour with `phase = "internal"`. The generated LALR tables and
the scanner of words are not modelled.

**Context.** `phase` is where the host is: `new` (configured), `preload` (inside
`intend_init_ctx`), `ready`, and `tables`, `modules`, `freed` inside
`intend_free_ctx`. A host call is one action, or several when it goes through a
list (`Preload`, `FreeModules`, the arguments of `module_load`). A symbol of the
global table is reduced to what it needs: the library of its module, the
statements of script number `tree`, or nothing. What the release of a resource or
a call needs and is gone sets `fault`, and the behaviour ends: in C it is
undefined. `exit_flag` is never cleared, as in the code, so a context on which a
script called `exit()` or failed does nothing any more. Not in this model: copies of a
resource and their count, which `Resources` has, values the host holds, classes of
modules, and the duplicates of the standard streams.

## 3. Runs

| run | what it asks | what it shows |
| --- | --- | --- |
| `control_all` | do flags and counters balance, whatever the script does? | `CountersMatch`, `PendingOwned`, `HaltClean`, `Terminates` hold on all scripts of the grid, those on which the evaluator leaves the manual included, and at the largest nesting |
| `control_manual` | does a script do what the manual says? | on every script that is not in one of six named classes (`Differs`) the inputs read, handlers run, values and status are those of `Manual` (`Conforms`) |
| `calls` | what is kept across an evaluation, and who may change what? | `NothingStale`, `Balanced`, `ThrowStands`, `Constructed`, `CallsContained`, `WrittenWherePassed`; `CallsSpelledOut`: `map`, `filter`, the folds and their kin do what the calls they stand for do |
| `operators` | do the operators, casts and string functions agree with each other? | `OrderConsistent`, `ArithmeticLaws`, `CastsReturn`, `StringsMean`, `ErrorsStand`, `StoredInPlace`, each with its exceptions named |
| `symbols` | is a table a map, and the stack a stack of scopes? | `ImplementsScopes`, `LookupRight`, `TablesProper` |
| `arrays` | is an array an ordered map? | `ImplementsOrderedMap`, and `PointersProper` while no node fills up |
| `parser` | does the tree say what the text says, and who owns its nodes? | `TreeIsText`, `FreedOnce`, `NothingLeftOver` |
| `context` | is the code there that a call or a release needs? | `CodeAlive`, `StatementsAlive`, `RegisteredLoaded`, `ListTrue` |
| `command` | is all output collected, does the call come back? | `Collected`, `NothingLeft`, `ResultTrue` for every call, `Returns` for the calls that keep within the pipes (`Tame`) |
| `modules` | who owns memory and streams, and what does a path reach? | `CountsMatch`, `StreamsOnce`; `MemSafe` and `NamesMean` with the exceptions of section 6 |
| `finding_*` | see section 6 | one violated property each |

### Bounds, and why they are enough

* `control_all`, `control_manual`: every statement over five leaves to depth two,
  and every expression of the steering kinds, in the body of a function that a
  `try` in a loop calls, in the main script and in a `try`. A flag is set by a
  leaf and consumed by a construct around it or by a call, so depth two with a
  caller that has both a loop and a `try` puts every setter under every pair of
  consumers. `MaxInputs` 4: loops run at most that often, more than the two rounds
  that tell a flag that was cleared from one that was not. `control_all` takes the
  deeper scripts only in the main script and adds recursion through every construct
  and loops and tries three deep, which reach its `MaxNest` of 3; that of
  `control_manual`, 8, is not reached.
* `calls`: two statements, the first of which may leave a variable, an element, an
  object or a signature in the state the second one starts from; two variables,
  three parameters, arrays of two elements (four for the functions on functions, with
  values of three types, true and false), classes with and without parent and
  constructor.
* `operators`: four bits are enough for overflow, for the smallest int and for a shift
  too far; the values of each type include the smallest, zero, one and the largest, a
  fraction, strings that read as ints, floats, octal and hexadecimal numbers and one
  with a zero byte. Strings of two letters and a blank up to three characters, needles
  up to two and one of three, give matches at either end, overlapping and none.
* `modules`: four calls of mem functions, three of file functions, or two of either:
  to make, share, use and release is three. Three blocks, four structures, ints and
  pointers of two bytes, offsets on either side of the end of a block. Three streams,
  one of them standard. The sandboxes are one that may
  be written, one that may be read, and one of the name of the first, which hides it.
  The nine paths have a place in each and in one that is unknown, a sandbox itself
  and the way up from it, a way out of and back into a sandbox, a way out of one into
  another, a place beside a sandbox whose name begins like it, a trailing and a double
  slash, and the empty path. `Char` are the characters these are made of.
* `command`: child scripts up to four items, a pipe of one byte, a buffer of one
  byte. What blocks is decided by full, empty and closed, and one byte gives all
  three.
* `symbols`: two names in one bucket, as names in different buckets never meet; two
  values each; two local tables (caller and callee); three slots over all tables,
  enough to delete, add and redefine in one node; `CopyRoom` 3, what the allocation
  in `symtab_copy` is sure to hold.
* `arrays`: three elements, two keys in one bucket, three values (one void), lists
  of at most two pairs for `mkkeyarray` and of one for `array_merge`, counts on either
  side of both ends for the list functions. An
  element's place, key and value only depend on its own history and on one neighbour.
* `parser`: scripts of one production with every leaf, of two with one leaf, of
  three for one production of each form and for all control statements, of four for
  functions and classes. An action only sees the top of the stacks and the argument
  counts below it, so that every pair of neighbours on the stacks occurs.
* `context`: two modules and two names, since a conflict takes two; two scripts, one
  that runs and one that has functions left; libraries opened twice; two arguments
  of `module_load`. A bounded count of open libraries only bounds the odd one, which
  every `module_load` opens again.

Only values and names are symmetric; scripts and commands are not, and their runs
use no symmetry. `symbols` uses it with two action properties, which do not
mention a name or a value of their own. Deadlock is checked where a script runs
(a script that has ended stutters, `Stopped`); the others may stop: a command has
returned or hangs, which is what `Returns` is about, a parse ends, a context is
freed; a script of `Calls`, `Operators` or `Modules` ends at its bound or where the
interpreter is gone.

## 4. Fairness

* `EvalControl`: `WF_vars(Next)`. One thread runs the evaluator, and nothing in it
  waits for anybody. That loops end is not assumed but comes from the inputs: after
  `MaxInputs` of them every test is false. `Terminates` thus says that control gets
  out of every construct once the tests are false.
* `SystemRun`: weak fairness of the parent and of the child, as the operating
  system schedules both. A blocked system call is a disabled action.
* The other models only have safety properties. Their steps are calls that the script
  or the host makes when it likes, and none of them waits.

## 5. Proofs

All theorems hold for every value of the constants that meets the assumptions
named in the modules (trees are well formed, hash values are buckets, sizes are
positive, `NULL` is no name, a library is one of the module names).

* `EvalControlProofs`. `CountersMatch` and `PendingOwned` are nearly inductive. The
  missing part is `ReturnInCall`: a `return` that waits for the value of its
  expression must be inside a function, or the `return_flag` it will set has no
  owner. All 49 actions change the stack in one of three ways (leave, replace,
  replace and push); a lemma each says how that moves the cardinality of the
  active frames of a kind, and `StepPreserves` reduces an action to how its
  counters move. A pending `continue` or `break` has a second invariant, `EscapeInv`:
  some frame on the stack will take it back, a function or a loop (`Consumed`). A
  `while` or `for` loop that waits for its test would not, since its test reads no
  flag, so the invariant also says that no statement runs right on top of such a
  loop: a function is between the two (`Bodied`). That in turn rests on the two types
  of tree, `expr` and `stmt`, of which an expression has no statement as a part
  (`ExprParts` in `WellFormed`). `HaltClean` follows because an empty stack has no
  active frame; `DepthBounded` from `func_flag` being equal to `local_depth` where a
  call is entered.
* `SystemRunProofs`. The loop over the two outputs ends when both reads have
  returned nothing. `Finished` says what such a read means: the pipe is empty and
  the child has ended, because the parent holds no write end (`ParentEnds`) and the
  child keeps its own until it ends (`ChildLife`). With `Conserved` (collected plus
  still in the pipe is what was written) this gives `Collected`, for every
  capacity and buffer size.
* `SymtabProofs`. The core is that in a proper table a name sits in one slot
  (`OnlyOne`), so that what the first slot says is what the table says. Each kind
  of change (new slot, overwritten slot, cleared slot) then changes the map
  `MapOf` at one name, and each action of the stack is a step of `Scopes`, or leaves
  it unchanged (`StackRefinesScopes`).
* `ContextProofs`. The properties need three facts about steps long past.
  `ToPreload`: a module that is still to be preloaded is not loaded, so that
  `module_preload`, which does not test for it, keeps the list free of doubles.
  `Table`: a registered function sits under a name its module will unregister,
  whoever else registered there in between, so that none is left when the library
  is closed; only `module_unload` closes a library while there is a table.
  `Scripts`: as long as the host frees no script, all that were parsed are
  allocated, which is why functions of earlier scripts work.
* `ModulesProofs`. `PutOne` is the arithmetic of the counts: when a value is put into
  a cell, the count of what the cell held drops by one and that of the value rises by
  one, so the counts stay the numbers of holders (`HoldersAfter`). Every step is one or
  two of these, once it is known that a call finds nothing in its result cell
  (`ResultFree`). For the streams the invariant has two halves: `Separate`, that each
  file has an open stream of its own and that a fresh stream was never used, and the
  flag `lost` for the operations that break it, a `freopen` that fails or is handed
  no open file, and a value that was never set. For the memory it is `Safe`: either
  a pointer was left to what is not there (`dangling`), or every resource is NULL or
  live memory with at least the bytes it remembers (`Fits`, part of `Sound`) and the only
  accesses outside of it were of the kinds that the code does not test (`Unguarded`). Each
  function of the mem module is a change of a record of memory, and a lemma says of each
  that it keeps `Safe`: to free or move a block that another resource points to is noted in
  `dangling`, and an access that stays `Within` what its resource remembers stays in the
  block. The exceptions are listed in section 6; the theorem does not deny them. All three
  hold for every set of variables, paths, sandboxes and bounds.
* `ValueArrayProofs`. An array is good when its key table and its vector list each other:
  each key has one entry, in the node its hash leads to (`KeysProper`), each entry is listed
  once and nothing else is (`Listed`), a node that was never full was never moved (`Unmoved`),
  and no node has more entries than the array is long (`Short`). The last one turns the
  condition on nodes into one on the length of arrays. A call that builds an array does so
  by a fold, and a fold over good arrays gives a good one (`FoldSteps`). On top of that is the
  refinement: `View` is what a script sees of an array, and each call does to it what the call
  of `OrderedMap` does, for `mkkeyarray`, `array_merge`, `compact` and the list functions in
  step with the fold there. Two theorems have a hypothesis, `MaxLen <= NodeGrowth`, and one has
  it in the property (`SmallNodes`): the 21st key of a node moves it under the pointers
  (section 6), so that without it the statements are false. Arrays of up to 20
  elements cannot reach that, whatever their keys are.
* `ModulesProofs`, paths. Text and meaning are both folds over names, and the names themselves a fold
  over characters. `ScanStep` reads one more character; `NamesBehindSlash` and
  `CutAtSlash` say that a text may be cut at any slash, and its names are those in front
  and those behind. On a text that is in normal form but for a slash at its end
  (`Clean`), `AddName` is one step of a walk (`AddNameMeans`), hence `path_absolute` is the
  walk (`AbsoluteMeans`). For what must exist that is all, with `ResolveMeans` for the
  sandbox. For what may be new, `ParentIs` and `ParentMeans` say what `dirname` and `basename`
  leave of a path and its sandbox, which is where the sandbox itself and `..` at the end
  leave the rule. `PrefixNames` is why the test of a prefix is nearly the right one: a
  text in normal form that begins like another has its names in front, or differs in the last
  of them only by going on (`Beside`). The invariant is that the current directory is
  in normal form; `chdir`, the only step that changes it, goes through `path_absolute`.
  It holds for every alphabet with `/`, `.` and `:`, every list of sandboxes and paths of every
  length.
* `ParserProofs`. `Weight` says by how much a symbol of the goal changes the length of each of
  the five stacks of the parser, a nonterminal by what any text of it does; arguments
  are counted apart, as `expr_arg_leave` takes as many expressions as the topmost count says
  (`Loose`). One lemma for each of the groups of productions in `Grammar` shows that
  what a production puts in the place of its left-hand side weighs the same. Hence each
  step leaves the sum of what is on a stack and what the goal adds to it as it is
  (`Balanced`), and when the goal is empty, nothing is left: `EverythingUsed`. It holds for
  scripts of every length and nesting, and all ways to spread them over files. The types of the nodes
  (`Memory`) need it: that the functions pop no more than there is when `sanity` lets them go on.
  That each node is freed once, and none of a parsed script is forgotten (`NoNodeFreedTwice`),
  needs more than a count: `NodesAreForest` says where the nodes are. The stack of expressions, each statement
  list, each part of each node, and the list of what is to be freed, or the script, are places (`Places`); every
  pointer in a place is to a node of the heap, and every node is in one place, once (`Forest`).
  The lemmas on `Forest` (in `Induction`, for any set of places) say what may be done to the places: one is cut into pieces that
  go to empty ones (`Cut`, `Deal`: what the functions pop becomes parts of a node), one is put behind another (`JoinedTo`:
  the parts of a freed node are still to be freed), a new node is put somewhere (`Added`, `Inserted`, `PutNew`), the first
  of a place goes with its node (`HeadGone`: it is freed). Each function of the parser is one or a few of
  these. A node that is still to be copied shows the parts of the original, which it does not own, so that
  `Parts` leaves them out until `expr_copy` comes to it. A forest of places alone could have
  nodes that hold each other in a ring, which no free would reach: so each node has a
  rank above those in its parts (`Ranked`), and when the stacks are empty and nothing is to be freed, the node of
  the highest rank has no place to be in. All of this under the condition that no copy has shared
  a part, which the code does for a conditional or a lambda in an index of a combined
  assignment (section 6).
* `Induction`. The provers have no induction over data: the theorems of the library take
  a predicate. A set is none, so `AllNumbers` states it as: a set of numbers that contains 0 and the
  successor of each of its members contains all, and `AllSequences` is the same with
  sequences and `Append`. `LeastNumber` carries both. A fold is a function that `CHOOSE` takes;
  `FoldSteps` says that a set closed under the step has its result, `FoldRunExists` gives the
  function itself with its equation at every place, so that a proof can go through it, and
  `FoldExtends` compares the fold of a sequence with that of one more element.

Two theorems have no run of their own: `SafeModeHolds` and `DepthAlwaysBounded` state
`SafeModeKept` and `DepthBounded` for all instances.

Model-checked only: the liveness properties `Terminates` and `Returns`, which the
prover has no rules for; `Conforms`, as `Manual` is recursive; `TreeIsText` of `Parser`; all of
`Calls` and `Operators`, whose evaluation is recursive: tlapm has no SMT solver for a module that
declares a `RECURSIVE` operator. All other properties of the runs, and with them all of `control_all`, `command`,
`symbols`, `arrays`, `context` and `modules` but liveness, are both checked and proved.

## 6. Where the code and its documents disagree

Kept as runs, each with a counterexample of a few steps:

* `finding_return_loops`: the end of a loop resets `break_flag` also when a
  `return` has set it, so a loop around it goes on testing (`eval_stmt.c:248`).
* `finding_context_free`: `intend_free_script` leaves the pointer to the script, which
  `intend_free_ctx` then frees again (`intend.c:474`).

Not kept as runs; the programs, calls and properties that show them stay in the
modules named:

* `MCFindings`: `return f()` with `f` throwing sets `return_flag` as well, and the catch
  part is skipped (`eval_stmt.c:301`; `HandlerRuns`); a call in a loop's test cancels a pending return
  (`NestedReturnCall`, against `ReturnsOwnValue`); a `switch` group that falls
  through after `continue` runs one statement of the next (`FallThrough`,
  `ContinueSkips`); a call in the test of a `do` loop starts with a pending
  `continue` (`DoTestCall`, `CallsStartClean`); `break` outside of loops ends the
  body of a function called from one (`CallersLoop`, `BreakOnlyInLoop`); `throw` of an
  expression that throws or exits replaces the exception or the status
  (`ThrowThrow`, `ThrowExit`; `ExceptionKept`, `StatusStands`).
* `MCSystemRun`: both outputs are read in turn with blocking reads, so a command that
  fills one while the other is read never ends (`system.c:220`), a child ended by a
  signal without a core dump is waited for without end (`system.c:239`), and so is a
  child that writes more than a pipe before it reads (`OutputFirst`), or ends without
  reading (`InputUnread`): all against `AlwaysReturns`; with ignored signals the status
  is lost (`SignalsIgnored`); a command that cannot be executed
  gives a status (`NoSuchCommand`, `VoidOnError`); an input that is not a string is
  released under the caller (`NumberAsInput`, `ArgumentKept`).
* `MCCalls`, the careless statements, each of which violates `NothingStale`,
  `CallsContained`, `ThrowStands`, `Constructed`, `WrittenWherePassed` or
  `CallsSpelledOut` when its mark is taken away: an argument that rebinds the function
  called (`eval_call.c:268`); an index that assigns to the variable it selects from
  (`eval_assign.c:186`, against manual lines 2057-2064); a read whose index adds a
  variable; more by-reference arguments than parameters (`eval_call.c:182`); an object made
  for or inside a constructor, which takes the place of the outer class
  (`eval_method.c:130`); a static call, whose signature lies in a freed table
  (`eval_method.c:179`); a method of an expression that throws (`eval_method.c:209`); `this`
  replaced by a function; an element of a global array assigned in a function, which
  changes the global (`eval_assign.c:115`); an index that throws, which leaves void in the
  outer element; elements lent to a function whose prototype casts them, which are
  released inside of their array (`function.c:207`, `call_check.c:170`), and the result of
  a fold, released twice.
* `ValueArray`: the 21st key of a bucket moves the node the array points into
  (`value_array.c:71`, `symtab_entry.c:59`; `SameByIndex`); `array_merge` takes keys from
  its result (`array.c:253`; `NeverAborts`).
* `Parser`: an `include` as the body of a control statement or of a function stops the
  interpreter with an internal error, as it leaves nothing on the statement stack
  (`stmt_parse.c:47`, `icl_grammar.y:174`; `NeverInternal`); a combined assignment (`a[c ? i : j] += 1`) copies its target, but the copy
  shares a conditional or a lambda of the indices, and both are freed
  (`expr_memory.c:83`, `OneOwner`); `if (x) include "empty"; else y;` takes the else part
  for the first one (`TreeIsText` without its exception).
* `SymtabStack`: a cleared slot is not reused (`Reused`), although a comment at
  `symtab_entry.c:202` says so.

Seen while reading and part of the models, which do as the code does, where the
properties name the exception:

* Context: a context does nothing any more after `exit()` or a failed parse, also when
  the host then calls a function; `module_load` and `module_unload` go on with the next
  name after a failure; a library that lacks the two functions of a module stays open
  and is opened once more by the next attempt; values keep pointing into a library a
  script unloaded (`CodeAlive` excepts it).
* Functions on functions: `map` of a function that sets its argument changes the array
  itself; `drop_while` keeps the element its function changed.
* Operators: `"5" == 5` is decided after a cast (manual line 2547); a float constant does not
  count as one in a comparison (`eval_infix.c:43`, manual line 2584); void is smaller than or
  equal to everything it is compared with as void; `(bool) 0.5` is false (`value_cast.c:63`,
  manual line 1840); `%` and `**` of floats give ints; `a[i++]++` evaluates its index twice;
  an index in front of the first element reads void and stores into the first; a division
  by what has thrown, or the order of a function and what has thrown, ends the script
  (`eval_math.c:105`, `value_cast.c:341`); `-`, `*` and `/` of strings compute with the bytes
  of their representation; `<` of a function and something else reads a signature that
  is none; the smallest int divided by -1 traps.
* Strings: a negative count of `left` and `right` and a sum of position and count that
  overflows reach `memcpy`; `explode` with an empty separator does not end, and drops an
  empty last piece; both `explode` and `implode` read a separator that is no string as if it
  were one (`string.c:791`, `:848`); `rtrim` of blanks leaves one (manual line 3584); `strlen` and `ltrim` stop at
  a zero byte (manual line 3318).
* Lists: `drop` with a negative count; the list functions lose the keys.
* Memory: the gets of char, short and float read the width of an int or a double
  (`intend_mem.c:494-560`); `realloc` to 0 frees the block and leaves the resource pointing to
  it; a size of 0 stands for an unknown one, so what `malloc(0)` returns is not checked; a source
  offset beyond the source gives a negative count; copy, fill and realloc do not ask
  for write access; a block that grows or shrinks in place through one resource is
  remembered with its old size by another, and one that moves is left behind by it; `mstring`
  does not stop at the end of the block. The manual says that memory resources cannot
  overflow (5527-5529) and warns only of freeing those that point to each other in the
  wrong order (5728-5733). `MemSafe` has eight exceptions, each with a name: `freed` and `stale`,
  which are that warning, and six that are defects of the module: the reads that go
  beyond the block after a test for less or none (`wider`, against manual 5742-5759 and
  5773-5779; `noZero`, against 5833-5839; `pastSource`; `noSize`, a NULL among the pointers that `mgetptr`
  takes included), a shared block that is `resized`, and one that `realloc` has `emptied`, against
  manual 5581-5583. After the first access outside of a block, or once a pointer
  dangles, the property says nothing of what is read or written next.
* Files: a `freopen` that fails closes the stream and the resource is not told; `reopen`
  does not test what it is given; `rename`, `link` and `copy` ask for write access to the
  second path only; the parent of a sandbox itself is the current directory. Two ways out
  of a sandbox: a path that ends in `..` where only its parent is validated (`EndsUp`), and a
  neighbour whose name begins like the name of the sandbox (`Beside`); `NamesMean` excepts both.

Not in the models: a failed parse does not free what is on the stacks below the
topmost list and keeps included files open; a second parse forgets the first
script; a handler installed by `sys_signal` stays after the module is unloaded, and the
function it runs clears a pending return of what it interrupts; the `file`
module leaves its constants in the table and closes the standard streams of the
process when it is unloaded; the result of a refused `reopen` is not initialised
(`intend_file.c:687`); `file_read` takes the number of bytes from the file resource instead
of its second argument (`intend_file.c:810`) and passes the number read where
`intend_create_value` wants a pointer (`:821`), which is then dereferenced; `scandir` without a filter returns an empty array; a builtin class goes
to the global table although the comment says the topmost one
(`symtab_stack.c:246`); every execution forgets the duplicates of
the standard streams of the last one (`stream.c:46`).

## 7. Not modelled

* Signal handlers (`intend_sys.c`). A handler runs a script function at any point of the
  evaluation and nothing masks it: every property of the evaluator fails as soon as one
  runs, and a model would only say so.
* `symtab_copy` of a node with more than three entries (`symtab_memory.c:240`) writes beyond
  its vector; what is then overwritten cannot be told, and the models copy tables whose
  nodes fit (`CopyRoom`).
* `dyn`, which calls foreign code by a signature given at run time.
* What wraps one call of a library and keeps no state: `math`, `preg`, `err`, `console`,
  `shell`, and the parts of `time`, `random`, `locale`, `env`, `runtime` and `sys` that are of this kind.
* Formatting and classification of text: `sprintf`, changes of case, character codes;
  message texts, source positions, dumps.
* The functions on structs (`struct.c`), which copy fields between tables; classes that modules
  register.
* Adding and removing sandboxes: they are a constant of `Paths`. Negative offsets into
  memory.
* The lexical grammar and the LALR tables, which are generated.
* The command line, which is one of the sequences of host calls that `Context` has.
* Running out of memory (`oom` aborts).

What could be proved next: `Balanced` of `Calls`, once its evaluation is not a `RECURSIVE`
operator.
