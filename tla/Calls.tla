-------------------------------- MODULE Calls --------------------------------
(***************************************************************************)
(* What an expression does to the symbol tables: variables and elements of  *)
(* arrays and structs (eval_ref.c, eval_assign.c), calls and arguments      *)
(* passed by reference (eval_call.c, call_func.c, call_check.c), classes,   *)
(* constructors and methods (eval_method.c, value_struct.c), lambdas.       *)
(*                                                                          *)
(* The evaluator is recursive, and so is its model: an operator takes the   *)
(* state of the interpreter and gives the state after the call and what the *)
(* call returns.  A step of the specification evaluates one expression      *)
(* statement of a script.                                                   *)
(*                                                                          *)
(* The C code keeps pointers to entries and signatures across evaluations.  *)
(* An entry carries a stamp for the memory of its slot and one for that of  *)
(* its signature; a pointer that is used when the stamps have changed is a  *)
(* fault, and the interpreter is gone.                                      *)
(***************************************************************************)
EXTENDS Integers, Sequences, FiniteSets, TLC
LOCAL INSTANCE SequencesExt

CONSTANTS
  Statements,   \* the expression statements a script is made of, see Statement
  Library,      \* functions and classes defined before the script: name -> entry
  Bodies,       \* the statements that signatures and classes point to: name -> list
  MaxStatements \* bound on the length of a script

VARIABLES
  st,      \* the interpreter state
  result,  \* the value of the last expression
  last,    \* the last statement
  count    \* statements evaluated

vars == <<st, result, last, count>>
-----------------------------------------------------------------------------
\* Values.
Void         == [t |-> "void"]
Num(n)       == [t |-> "int", n |-> n]
Array(q)     == [t |-> "array", q |-> q]
Struct(f)    == [t |-> "struct", f |-> f]
Fn(sig)      == [t |-> "fn", sig |-> sig]
Name(x)      == [t |-> "string", x |-> x]

\* Expressions (expr.type); an index is an expression or a field.
Const(v)            == [op |-> "const", v |-> v]
Ref(x)              == [op |-> "ref", x |-> x]
At(x, idx)          == [op |-> "at", x |-> x, idx |-> idx]
Field(x)            == [op |-> "field", x |-> x]
Assign(x, e)        == [op |-> "assign", x |-> x, e |-> e]
AssignAt(x, idx, e) == [op |-> "assign_at", x |-> x, idx |-> idx, e |-> e]
PassRef(e)          == [op |-> "pass", e |-> e]
Sum(e, f)           == [op |-> "sum", e |-> e, f |-> f]
Call(x, args)       == [op |-> "call", x |-> x, args |-> args]
New(c, args)        == [op |-> "new", c |-> c, args |-> args]
Static(c, x, args)  == [op |-> "static", c |-> c, x |-> x, args |-> args]
StaticRef(c, x)     == [op |-> "static_ref", c |-> c, x |-> x]
Method(e, x, args)  == [op |-> "method", e |-> e, x |-> x, args |-> args]
Lambda(sig)         == [op |-> "lambda", sig |-> sig]

\* Statements of a body.
Do(e)         == [op |-> "do", e |-> e]
Return(e)     == [op |-> "return", e |-> e]
Throw(e)      == [op |-> "throw", e |-> e]
Define(x, sig) == [op |-> "define", x |-> x, sig |-> sig]

\* A signature: parameters with their types, a body or a builtin function.
Sig(names, proto, ret, body) ==
  [builtin |-> "", names |-> names, proto |-> proto, rettype |-> ret, body |-> body]
Builtin(b, proto) ==
  [builtin |-> b, names |-> <<>>, proto |-> proto, rettype |-> "?", body |-> ""]

\* Entries of a table, with the stamps of slot and signature.
Entry(kind, v, at) == [kind |-> kind, v |-> v, slot |-> at, sigat |-> at]
NoEntry            == Entry("none", Void, 0)
ClassOf(parent, body) == [t |-> "class", parent |-> parent, body |-> body]

Pointer(id, x, at) == [id |-> id, x |-> x, at |-> at]
NULL == Pointer(-1, "", 0)

\* A script starts with the functions and classes of the library.
NewState ==
  [glob |-> Library, loc |-> <<>>, objs |-> <<>>, flow |-> "run", try_flag |-> 0,
   continue_flag |-> FALSE, threw |-> FALSE, new_sig |-> NULL, float_count |-> 0,
   vector_count |-> 0, next |-> 1, moves |-> FALSE]

Flagged(s)  == s.flow # "run"
Back(s, v)  == [s |-> s, v |-> v]
Fault(s)    == [s EXCEPT !.flow = "fault"]
Fatal(s)    == IF s.flow = "fault" THEN s ELSE [s EXCEPT !.flow = "exit"]
ThrowIt(s)  == IF s.flow \in {"exit", "fault"} THEN s
               ELSE IF s.try_flag > 0 THEN [s EXCEPT !.flow = "except", !.threw = TRUE]
               ELSE Fatal(s)
-----------------------------------------------------------------------------
\* Symbol tables (symtab_stack.c, symtab_entry.c): the topmost one and the
\* global one are seen.
Table(s)     == IF s.loc = <<>> THEN s.glob ELSE s.loc[Len(s.loc)].ent
TableId(s)   == IF s.loc = <<>> THEN 0 ELSE s.loc[Len(s.loc)].id
EntryIn(t, x) == IF x \in DOMAIN t THEN t[x] ELSE NoEntry
Home(s, x)   == IF x \in DOMAIN Table(s) THEN TableId(s) ELSE 0
Lookup(s, x) == IF x \in DOMAIN Table(s) THEN Table(s)[x] ELSE EntryIn(s.glob, x)

Store(s, id, t) ==
  IF id = 0 THEN [s EXCEPT !.glob = t]
  ELSE [s EXCEPT !.loc = [i \in DOMAIN s.loc |-> IF s.loc[i].id = id
                                                 THEN [id |-> id, ent |-> t] ELSE s.loc[i]]]

\* A new entry; a node that is full moves its entries.
Insert(s, x, kind, v) ==
  LET old == [y \in DOMAIN Table(s) \ {x} |->
                IF s.moves THEN [Table(s)[y] EXCEPT !.slot = s.next] ELSE Table(s)[y]]
  IN Store([s EXCEPT !.next = @ + 1], TableId(s), (x :> Entry(kind, v, s.next)) @@ old)

\* A variable takes over the slot of its name, and its old value is released.
AddVariable(s, x, v) ==
  LET old == EntryIn(Table(s), x)
  IN IF old = NoEntry THEN Insert(s, x, "var", v)
     ELSE Store([s EXCEPT !.next = @ + 1], TableId(s),
                [Table(s) EXCEPT ![x] = [kind |-> "var", v |-> v, slot |-> old.slot, sigat |-> s.next]])

\* A function that replaces a function is copied over its signature; one that
\* replaces anything else takes a new slot.
AlwaysInsert(s, x, sig) == Insert(s, x, "function", Fn(sig))  \* mutant of AddFunction
AddFunction(s, x, sig) ==
  IF EntryIn(Table(s), x).kind = "function"
  THEN Store(s, TableId(s), [Table(s) EXCEPT ![x].v = Fn(sig)])
  ELSE Insert(s, x, "function", Fn(sig))

Add(s, x, v) == IF v.t = "fn" THEN AddFunction(s, x, v.sig) ELSE AddVariable(s, x, v)

Enter(s) == [s EXCEPT !.loc = Append(@, [id |-> s.next, ent |-> <<>>]), !.next = @ + 1]
Pop(s)   == [s EXCEPT !.loc = SubSeq(@, 1, Len(@) - 1)]

\* What a pointer points to, in a table of the stack or of an object.
TableOf(s, id) ==
  IF id = 0 THEN s.glob
  ELSE IF id \in DOMAIN s.objs THEN s.objs[id]
  ELSE LET at == {i \in DOMAIN s.loc : s.loc[i].id = id}
       IN IF at = {} THEN <<>> ELSE s.loc[CHOOSE i \in at : TRUE].ent

PointerTo(s, x) == Pointer(Home(s, x), x, Lookup(s, x).sigat)
Held(s, p)      == EntryIn(TableOf(s, p.id), p.x)
Alive(s, p)     == Held(s, p).sigat = p.at /\ Held(s, p).v.t = "fn"
-----------------------------------------------------------------------------
\* Elements of arrays and fields of structs.
ToInt(v) == CASE v.t = "int" -> v.n
              [] v.t = "array" -> Len(v.q)
              [] v.t = "struct" -> Cardinality(DOMAIN v.f)
              [] v.t = "fn" -> 1
              [] OTHER -> 0

Wanted(i) == IF i.op = "field" THEN "struct" ELSE "array"
Empty(i)  == IF i.op = "field" THEN Struct(<<>>) ELSE Array(<<>>)
Shaped(v, i) == IF v.t = Wanted(i) THEN v ELSE Empty(i)

Element(c, p) ==
  CASE p.t = "string" -> IF p.x \in DOMAIN c.f THEN c.f[p.x] ELSE Void
    [] OTHER -> IF ToInt(p) \in 0..(Len(c.q) - 1) THEN c.q[ToInt(p) + 1] ELSE Void

WithElement(c, p, v) ==
  CASE p.t = "string" -> Struct((p.x :> v) @@ c.f)
    [] OTHER -> LET n == ToInt(p) + 1
                IN Array([i \in 1..(IF n > Len(c.q) THEN n ELSE Len(c.q)) |->
                            IF i = n THEN v ELSE IF i <= Len(c.q) THEN c.q[i] ELSE Void])
-----------------------------------------------------------------------------
\* Calls (call_check.c, call_func.c).
TypeChar(v) == CASE v.t = "void" -> "v" [] v.t = "int" -> "i" [] v.t = "array" -> "a"
                 [] v.t = "struct" -> "c" [] v.t = "fn" -> "p" [] v.t = "string" -> "s"

\* A lower case letter asks for the type, an upper case one for a cast.
Refuses(c, v) == c \in {"i", "a", "c", "p"} /\ TypeChar(v) # c
CastTo(c, v)  == IF c = "I" THEN Num(ToInt(v)) ELSE v

CallCheck(s, sig, vs) ==
  IF \/ Len(vs) < Len(sig.proto)
     \/ \E i \in DOMAIN sig.proto : Refuses(sig.proto[i], vs[i])
  THEN [s |-> Fatal(s), vs |-> vs]
  ELSE [s |-> s, vs |-> [i \in DOMAIN vs |-> IF i \in DOMAIN sig.proto
                                             THEN CastTo(sig.proto[i], vs[i]) ELSE vs[i]]]

\* The type of a result is checked when nothing is pending.
ReturnCheck(r, sig) ==
  IF Flagged(r.s) THEN r
  ELSE IF Refuses(sig.rettype, r.v) THEN [r EXCEPT !.s = Fatal(@)]
  ELSE [r EXCEPT !.v = CastTo(sig.rettype, @)]

RECURSIVE BindAll(_, _, _)
BindAll(s, xs, vs) ==
  IF xs = <<>> THEN s ELSE BindAll(AddVariable(s, Head(xs), Head(vs)), Tail(xs), Tail(vs))

\* run_func puts the arguments into the table of the call.
GlobalParameters(s, sig, vs) ==                           \* mutant of Parameters
  [s EXCEPT !.glob = [i \in {sig.names[k] : k \in DOMAIN sig.names} |->
                        Entry("var", vs[CHOOSE k \in DOMAIN sig.names : sig.names[k] = i], 0)] @@ @]
Parameters(s, sig, vs) ==
  BindAll(AddVariable(AddVariable(s, "argc", Num(Len(vs))), "argv", Array(vs)), sig.names, vs)

\* reflength: the levels of references in an argument that is written back.
RECURSIVE RefLength(_), SumOf(_)
SumOf(ns)    == IF ns = <<>> THEN 0 ELSE Head(ns) + SumOf(Tail(ns))
RefLength(e) == CASE e.op = "pass" -> RefLength(e.e)
                  [] e.op = "ref"  -> 1
                  [] e.op = "at"   -> 1 + SumOf([i \in DOMAIN e.idx |-> RefLength(e.idx[i])])
                  [] OTHER         -> 0

WrittenBack(e) == e.op = "pass" /\ e.e.op \in {"ref", "at"}

\* The longest references first, and from left to right.
LeftToRight(es, i, j) == i < j                            \* mutant of Before
Before(es, i, j) == \/ RefLength(es[i]) > RefLength(es[j])
                    \/ RefLength(es[i]) = RefLength(es[j]) /\ i < j

RefOrder(es) ==
  LET refs == {i \in DOMAIN es : WrittenBack(es[i])}
  IN [k \in 1..Cardinality(refs) |->
        CHOOSE i \in refs : Cardinality({j \in refs : Before(es, j, i)}) = k - 1]

FreeArgs(s, n) == [s EXCEPT !.float_count = @ - n, !.vector_count = @ - 1]
-----------------------------------------------------------------------------
RECURSIVE Eval(_, _), EvalRest(_, _), WriteBack(_, _, _, _, _), Body(_, _), SetIn(_, _, _, _), GetIn(_, _, _), GetInstance(_, _), CallFunction(_, _, _)

\* A list of statements ends when something is pending (eval_stmt.c).
Body(s, stmts) ==
  IF stmts = <<>> \/ Flagged(s) \/ s.continue_flag THEN Back(s, Void)
  ELSE LET h == Head(stmts)
       IN CASE h.op = "do"     -> Body(Eval(s, h.e).s, Tail(stmts))
            [] h.op = "return" -> Eval(s, h.e)
            [] h.op = "throw"  -> Back(ThrowIt(Eval(s, h.e).s), Void)
            [] h.op = "define" -> Body(AddFunction(s, h.x, h.sig), Tail(stmts))

AddArg(args, one) == [s |-> [one.s EXCEPT !.float_count = @ + 1], vs |-> Append(args.vs, one.v)]
EvalRest(args, es) == IF es = <<>> THEN args ELSE EvalRest(AddArg(args, Eval(args.s, Head(es))), Tail(es))
EvalEach(s, es)    == EvalRest([s |-> s, vs |-> <<>>], es)

EvalArgs(s, es) == EvalEach([s EXCEPT !.vector_count = @ + 1], es)

Ran(r, vs) == [s |-> [r.s EXCEPT !.continue_flag = FALSE], v |-> r.v, vs |-> vs]
RunFunc(s, sig, vs) == Ran(Body(Parameters(s, sig, vs), Bodies[sig.body]), vs)

-----------------------------------------------------------------------------
\* libstdlib/function.c.  What is lent to a call is part of an array, or freed
\* after the call: call_check must not cast, and so release, it.
Truth(v) == IF v.t = "string" THEN v.x # "" ELSE ToInt(v) # 0
After(vs, n) == SubSeq(vs, n + 1, Len(vs))
Chosen(q, tests) == FlattenSeq([i \in DOMAIN q |-> IF Truth(tests[i]) THEN <<q[i]>> ELSE <<>>])

Released(sig, vs, i) ==
  /\ Len(vs) >= Len(sig.proto) /\ i \in DOMAIN sig.proto
  /\ \A j \in 1..(i - 1) : ~Refuses(sig.proto[j], vs[j])
  /\ CastTo(sig.proto[i], vs[i]) # vs[i]

\* call_method enters a table with `this'.
Returned(r) == [r EXCEPT !.s = Pop(@)]
Invoke(s, sig, vs, lent) ==
  IF ~Flagged(s) /\ \E i \in lent : Released(sig, vs, i)
  THEN [s |-> Fault(s), v |-> Void, vs |-> vs]
  ELSE Returned(CallFunction(Enter(s), sig, vs))

InvokeOn(s, this, sig, vs) == Returned(CallFunction(AddVariable(Enter(s), "this", this), sig, vs))

\* The calls so far: the state after them, what they returned, the elements and
\* the further arguments as they have left them.
Begin(s, rest) == [s |-> s, vs |-> <<>>, q |-> <<>>, rest |-> rest, on |-> TRUE]
Done(so_far, one) ==
  [so_far EXCEPT !.s = one.s, !.vs = Append(@, one.v), !.q = Append(@, Head(one.vs)), !.rest = Tail(one.vs)]

\* One call for every element; an exception silences the rest.
Each(s, sig, q, rest) ==
  FoldLeft(LAMBDA d, x : Done(d, Invoke(d.s, sig, <<x>> \o d.rest, {1})), Begin(s, rest), q)

\* The calls end after the first that is not true.
Until(so_far)  == [so_far EXCEPT !.on = Truth(Last(so_far.vs))]
Skip(d, x)     == [d EXCEPT !.q = Append(@, x)]
While(s, sig, q, rest) ==
  FoldLeft(LAMBDA d, x : IF d.on THEN Until(Done(d, Invoke(d.s, sig, <<x>> \o d.rest, {1}))) ELSE Skip(d, x),
           Begin(s, rest), q)
Trues(d) == Len(d.vs) - (IF d.on THEN 0 ELSE 1)

\* The value so far comes first, or last.
ValueFirst(b, v, x) == <<v, x>>                           \* mutant of Folded
Folded(b, v, x)     == IF b = "foldl" THEN <<v, x>> ELSE <<x, v>>
ElementOf(b, one)   == [one EXCEPT !.vs = (IF b = "foldl" THEN <<@[2]>> ELSE <<@[1]>>) \o After(@, 2)]
Fold(s, b, sig, v, q, rest) ==
  FoldLeft(LAMBDA d, x : Done(d, ElementOf(b, Invoke(d.s, sig, Folded(b, Last(d.vs), x) \o d.rest, {1, 2}))),
           [Begin(s, rest) EXCEPT !.vs = <<v>>], q)

\* The arguments come back as the calls have left them.
Gives(d, v, f, args) == [s |-> d.s, v |-> v, vs |-> <<f>> \o args]
AfterCall(b, vs, r) ==
  CASE b = "call"        -> Gives(r, r.v, vs[1], r.vs)
    [] b = "call_array"  -> Gives(r, r.v, vs[1], <<Array(r.vs)>> \o After(vs, 2))
    [] b = "call_method" -> Gives(r, r.v, vs[1], <<vs[2]>> \o r.vs)
    [] b = "map"         -> Gives(r, Array(r.vs), vs[1], <<Array(r.q)>> \o r.rest)
    [] b = "filter"      -> Gives(r, Array(Chosen(r.q, r.vs)), vs[1], <<Array(r.q)>> \o r.rest)
    [] b = "take_while"  -> Gives(r, Array(SubSeq(r.q, 1, Trues(r))), vs[1], <<Array(r.q)>> \o r.rest)
    [] b = "drop_while"  -> Gives(r, Array(After(r.q, Trues(r))), vs[1], <<Array(r.q)>> \o r.rest)
    [] b = "foldl"       -> Gives(r, Last(r.vs), vs[1], <<vs[2], Array(r.q)>> \o r.rest)
    [] b = "foldr"       -> Gives(r, Last(r.vs), vs[1], <<Array(Reverse(r.q)), vs[3]>> \o r.rest)

CallOfFunctions(s, b, vs) ==
  LET sig == vs[1].sig
  IN AfterCall(b, vs,
       CASE b = "call"                      -> Invoke(s, sig, Tail(vs), {})
         [] b = "call_array"                -> Invoke(s, sig, vs[2].q, DOMAIN vs[2].q)
         [] b = "call_method"               -> InvokeOn(s, vs[2], sig, After(vs, 2))
         [] b \in {"map", "filter"}         -> Each(s, sig, vs[2].q, After(vs, 2))
         [] b \in {"take_while", "drop_while"} -> While(s, sig, vs[2].q, After(vs, 2))
         [] b = "foldl"                     -> Fold(s, b, sig, vs[2], vs[3].q, After(vs, 3))
         [] b = "foldr"                     -> Fold(s, b, sig, vs[3], Reverse(vs[2].q), After(vs, 3)))
-----------------------------------------------------------------------------
\* Functions of the library: one that throws, one that ends the script, one
\* that sets its first argument, and those that call functions.
CallBuiltin(s, sig, vs) ==
  CASE sig.builtin = "raise" -> [s |-> ThrowIt(s), v |-> Void, vs |-> vs]
    [] sig.builtin = "exit"  -> [s |-> Fatal(s), v |-> Void, vs |-> vs]
    [] sig.builtin = "fill"  -> [s |-> s, v |-> Void, vs |-> [vs EXCEPT ![1] = Num(7)]]
    [] OTHER                 -> CallOfFunctions(s, sig.builtin, vs)

\* call_function: nothing is called while an exception or an exit is pending.
CheckFirst(s) == s.flow = "fault"                         \* mutant of Pending
Pending(s)    == Flagged(s)

CallChecked(c, sig) ==
  IF Flagged(c.s) THEN [s |-> c.s, v |-> Void, vs |-> c.vs]
  ELSE IF sig.builtin # "" THEN CallBuiltin(c.s, sig, c.vs)
  ELSE RunFunc(c.s, sig, c.vs)

CallFunction(s, sig, vs) ==
  ReturnCheck(CallChecked(IF Pending(s) THEN [s |-> s, vs |-> vs] ELSE CallCheck(s, sig, vs), sig), sig)
-----------------------------------------------------------------------------
\* array_get: the index is evaluated after the type of what it selects from was
\* tested.
GetNext(s, v, idx) == IF idx = <<>> THEN Back(s, v) ELSE GetIn(s, v, idx)
GetAt(i, c, idx)   == GetNext(i.s, Element(c, i.v), Tail(idx))
GetIn(s, c, idx)   == IF c.t # Wanted(idx[1]) THEN Back(s, Void) ELSE GetAt(Eval(s, idx[1]), c, idx)

\* The variable that a pointer kept across the evaluation of an index finds.
SlotOf(s, x)      == [id |-> Home(s, x), x |-> x, slot |-> Lookup(s, x).slot]
Now(s, p)         == EntryIn(TableOf(s, p.id), p.x)
Moved(s, p, i)    == \/ Now(s, p).slot # p.slot
                     \/ Now(s, p).kind # "var"
                     \/ Now(s, p).v.t # Wanted(i)

EvalRef(s, x) == IF Lookup(s, x).kind \in {"var", "function"} THEN Lookup(s, x).v ELSE Void

RefAt(i, p, idx) ==
  IF i.s.flow = "fault" \/ Moved(i.s, p, idx[1]) THEN Back(Fault(i.s), Void)
  ELSE GetAt(i, Now(i.s, p).v, idx)
EvalRefArray(s, x, idx) ==
  IF Lookup(s, x).kind # "var" \/ Lookup(s, x).v.t # Wanted(idx[1]) THEN Back(s, Void)
  ELSE RefAt(Eval(s, idx[1]), SlotOf(s, x), idx)

\* array_set into a value of its own: when an index throws, void is returned
\* in the place of the array.
SetNext(s, c, i, idx, v) ==
  IF Len(idx) = 1 THEN Back(s, v) ELSE SetIn(s, Shaped(Element(c, i), idx[2]), Tail(idx), v)
SetAt(i, c, idx, v) ==
  IF Flagged(i.s) THEN Back(i.s, Void)
  ELSE LET new == SetNext(i.s, c, i.v, idx, v) IN Back(new.s, WithElement(c, i.v, new.v))
SetIn(s, c, idx, v) == SetAt(Eval(s, idx[1]), c, idx, v)

\* array_set into the variable itself.
StoreElement(new, p, i, idx) ==
  IF new.s.flow = "fault" \/ Moved(new.s, p, idx[1]) THEN Fault(new.s)
  ELSE Store(new.s, p.id, [TableOf(new.s, p.id) EXCEPT ![p.x].v = WithElement(@, i, new.v)])
PlaceAt(i, p, idx, v) ==
  IF Flagged(i.s) THEN i.s
  ELSE StoreElement(IF Len(idx) > 1 /\ Moved(i.s, p, idx[1]) THEN Back(Fault(i.s), Void)
                    ELSE SetNext(i.s, Now(i.s, p).v, i.v, idx, v), p, i.v, idx)
Place(s, x, idx, v) == PlaceAt(Eval(s, idx[1]), SlotOf(s, x), idx, v)

\* eval_assign_array_direct: an array or struct of the kind the index asks for
\* is changed where it is, also a global one, and then stored in the topmost
\* table.
Localized(s, x, global) ==
  IF Flagged(s) \/ ~global THEN s ELSE AddVariable(s, x, s.glob[x].v)
AddUnlessFlagged(r, x)  == IF Flagged(r.s) THEN r.s ELSE AddVariable(r.s, x, r.v)
AssignArrayDirect(s, x, idx, v) ==
  IF Lookup(s, x).kind = "var" /\ Lookup(s, x).v.t = Wanted(idx[1])
  THEN Localized(Place(s, x, idx, v), x, Home(s, x) # TableId(s))
  ELSE AddUnlessFlagged(SetIn(s, Empty(idx[1]), idx, v), x)
-----------------------------------------------------------------------------
\* Update of the arguments passed by reference, one after the other; held gives
\* the entry an argument has at the end of the call.
WriteOne(s, e, held) ==
  IF held.kind \notin {"var", "function"} THEN s
  ELSE IF e.e.op = "ref" THEN (IF held.kind = "var" THEN AddVariable(s, e.e.x, held.v)
                                                   ELSE AddFunction(s, e.e.x, held.v.sig))
  ELSE AssignArrayDirect(s, e.e.x, e.e.idx, held.v)

\* A call with more arguments than parameters reads past the names.
WriteBack(s, es, order, names, t) ==
  IF order = <<>> \/ s.flow = "fault" THEN s
  ELSE LET i == Head(order)
       IN IF i > Len(names) THEN Fault(s)
          ELSE WriteBack(WriteOne(s, es[i], EntryIn(t, names[i])), es, Tail(order), names, t)

\* update_call_args leaves the table of the call first.
StayIn(s)    == s                                         \* mutant of Leave
Leave(s)     == Pop(s)

UpdateCallArgs(s, sig, es) == WriteBack(Leave(s), es, RefOrder(es), sig.names, Table(s))

\* update_array_call_args of a builtin function: no table, the arguments
\* themselves.
UpdateArrayCallArgs(s, es, vs) ==
  WriteBack(s, es, RefOrder(es), [i \in DOMAIN es |-> i],
            [i \in DOMAIN es |-> Entry("var", vs[i], 0)])

Callable(e) == e.kind \in {"var", "function"} /\ e.v.t = "fn"

\* eval_call keeps the signature while the arguments are evaluated.
Updated(call, sig, e) ==
  Back(FreeArgs(IF sig.builtin # "" THEN UpdateArrayCallArgs(call.s, e.args, call.vs)
                ELSE UpdateCallArgs(call.s, sig, e.args), Len(e.args)), call.v)
CallKept(args, sig, e) ==
  Updated(CallFunction(IF sig.builtin = "" THEN Enter(args.s) ELSE args.s, sig, args.vs), sig, e)
CallHeld(args, p, e) ==
  IF args.s.flow = "fault" \/ ~Alive(args.s, p) THEN Back(Fault(args.s), Void)
  ELSE CallKept(args, Held(args.s, p).v.sig, e)
EvalCall(s, e) ==
  IF ~Callable(Lookup(s, e.x)) THEN Back(Fatal(s), Void)
  ELSE CallHeld(EvalArgs(s, e.args), PointerTo(s, e.x), e)
-----------------------------------------------------------------------------
\* Classes (eval_method.c).  getinstance runs the definitions of the parents
\* first; the last function that has the name of the class whose turn it is
\* will be the constructor.
FirstKept(s, p) == IF s.new_sig = NULL THEN p ELSE s.new_sig  \* mutant of NewSig
NewSig(s, p)    == p

WithSignature(made, c) ==
  IF Lookup(made, c).kind # "function" THEN made
  ELSE [made EXCEPT !.new_sig = NewSig(made, PointerTo(made, c))]
GetParent(s, class) == IF class.parent = "" THEN s ELSE GetInstance(s, class.parent)
GetInstance(s, c) ==
  IF Lookup(s, c).kind # "class" THEN Fatal(s)
  ELSE LET class == Lookup(s, c).v
       IN WithSignature(Body(GetParent(s, class), Bodies[class.body]).s, c)

Fields(t) == [x \in {y \in DOMAIN t : t[y].kind # "class"} |-> t[x].v]

EnterStruct(s, v) == AddVariable(Enter(s), "this", v)

\* leave_struct: `this' is looked up in the global table too, and taken for a
\* variable.
LeaveStruct(s, sig, es) ==
  LET this == Lookup(s, "this")
  IN IF this.kind \in {"function", "class"} THEN [s |-> Fault(Pop(s)), this |-> NoEntry]
     ELSE [s |-> UpdateCallArgs(s, sig, es), this |-> this]

\* eval_new: the table of the instance becomes the new struct.  The signature
\* of the constructor is kept in the state, and read again after the arguments
\* and after the constructor.
ObjectOf(e, left, id) ==
  LET got == IF left.this.kind = "none" THEN Fatal(left.s) ELSE left.s
  IN Back([FreeArgs(got, Len(e.args)) EXCEPT !.objs = [i \in DOMAIN @ \ {id} |-> @[i]]], left.this.v)
AfterConstructor(e, s, id) ==
  IF s.flow = "fault" \/ ~Alive(s, s.new_sig) THEN Back(Fault(s), Void)
  ELSE ObjectOf(e, LeaveStruct(s, Held(s, s.new_sig).v.sig, e.args), id)
CallConstructor(e, args, obj, id) ==
  IF args.s.flow = "fault" \/ ~Alive(args.s, args.s.new_sig) THEN Back(Fault(args.s), Void)
  ELSE AfterConstructor(e, CallFunction(EnterStruct(args.s, obj), Held(args.s, args.s.new_sig).v.sig, args.vs).s, id)
Construct(e, s) ==
  LET obj == Struct(Fields(Table(s)))
      own == [Pop(s) EXCEPT !.objs = (TableId(s) :> Table(s)) @@ @]
  IN IF s.new_sig = NULL THEN Back(Pop(s), obj)
     ELSE CallConstructor(e, EvalArgs(own, e.args), obj, TableId(s))
NewInstance(e, s) ==
  IF Flagged(s) THEN Back(Pop(s), Void) ELSE Construct(e, AddVariable(s, "__class", Name(e.c)))
EvalNew(s, e) == NewInstance(e, GetInstance([Enter(s) EXCEPT !.new_sig = NULL], e.c))

\* eval_static keeps a signature of a table that it leaves.
UpdatedIn(call, sig, e) == Back(FreeArgs(UpdateCallArgs(call.s, sig, e.args), Len(e.args)), call.v)
CallStatic(e, args, p) ==
  IF args.s.flow = "fault" \/ ~Alive(args.s, p) THEN Back(Fault(args.s), Void)
  ELSE LET sig == Held(args.s, p).v.sig IN UpdatedIn(CallFunction(Enter(args.s), sig, args.vs), sig, e)
StaticIn(e, s) ==
  IF Flagged(s) THEN Back(Pop(s), Void)
  ELSE IF Lookup(s, e.x).kind # "function" \/ Home(s, e.x) # TableId(s) THEN Back(Pop(Fatal(s)), Void)
  ELSE CallStatic(e, EvalArgs(Pop(s), e.args), PointerTo(s, e.x))
EvalStatic(s, e) == StaticIn(e, GetInstance(Enter(s), e.c))

FieldOf(e, s) ==
  LET f == EntryIn(Table(s), e.x)
  IN IF f = NoEntry THEN Back(Fatal(Pop(s)), Void) ELSE Back(Pop(s), f.v)
EvalStaticRef(s, e) == FieldOf(e, GetInstance(Enter(s), e.c))

\* eval_method: what comes back as `this' is stored where the struct came from.
StoreThis(s, inner, this) ==
  IF this.kind = "none" \/ s.flow = "fault" THEN s
  ELSE CASE inner.op = "ref" -> AddVariable(s, inner.x, this.v)
         [] inner.op = "at"  -> AssignArrayDirect(s, inner.x, inner.idx, this.v)
         [] OTHER            -> s

LeaveMethod(e, call, left) ==
  IF call.s.flow = "fault" THEN Back(call.s, Void)
  ELSE Back(StoreThis(FreeArgs(left.s, Len(e.args)), e.e, left.this), call.v)
EndMethod(e, call, sig) == LeaveMethod(e, call, LeaveStruct(call.s, sig, e.args))
CallMethod(e, args, this) ==
  LET sig == this.f[e.x].sig
  IN EndMethod(e, CallFunction(EnterStruct(args.s, this), sig, args.vs), sig)
MethodOf(e, val) ==
  IF val.v.t # "struct" THEN Back(Fatal(val.s), Void)
  ELSE IF e.x \notin DOMAIN val.v.f \/ val.v.f[e.x].t # "fn" THEN Back(Fatal(val.s), Void)
  ELSE CallMethod(e, EvalArgs(val.s, e.args), val.v)
EvalMethod(s, e) == MethodOf(e, Eval(s, e.e))

\* eval_lambda: the definition is a statement, which is skipped while a
\* continue is pending; the table is then not left.
Defined(s) ==
  IF Lookup(s, "\\lambda").kind # "function" THEN Back(Fatal(s), Void)
  ELSE Back(Pop(s), Lookup(s, "\\lambda").v)
EvalLambda(s, e) == Defined(Body(Enter(s), <<Define("\\lambda", e.sig)>>).s)
-----------------------------------------------------------------------------
AssignTo(e, r)      == Back(IF Flagged(r.s) THEN r.s ELSE Add(r.s, e.x, r.v), r.v)
AssignAtTo(e, r)    == Back(IF Flagged(r.s) THEN r.s ELSE AssignArrayDirect(r.s, e.x, e.idx, r.v), r.v)
EvalAssign(s, e)      == AssignTo(e, Eval(s, e.e))
EvalAssignArray(s, e) == AssignAtTo(e, Eval(s, e.e))

SumTo(l, r)   == Back(r.s, Num(ToInt(l.v) + ToInt(r.v)))
SumFrom(l, e) == SumTo(l, Eval(l.s, e))
EvalSum(s, e) == SumFrom(Eval(s, e.e), e.f)

\* eval_expr: nothing is evaluated while an exception or an exit is pending.
Eval(s, e) ==
  IF Flagged(s) THEN Back(s, Void)
  ELSE CASE e.op = "const"      -> Back(s, e.v)
         [] e.op = "field"      -> Back(s, Name(e.x))
         [] e.op = "ref"        -> Back(s, EvalRef(s, e.x))
         [] e.op = "pass"       -> Eval(s, e.e)
         [] e.op = "at"         -> EvalRefArray(s, e.x, e.idx)
         [] e.op = "sum"        -> EvalSum(s, e)
         [] e.op = "assign"     -> EvalAssign(s, e)
         [] e.op = "assign_at"  -> EvalAssignArray(s, e)
         [] e.op = "call"       -> EvalCall(s, e)
         [] e.op = "new"        -> EvalNew(s, e)
         [] e.op = "static"     -> EvalStatic(s, e)
         [] e.op = "static_ref" -> EvalStaticRef(s, e)
         [] e.op = "method"     -> EvalMethod(s, e)
         [] e.op = "lambda"     -> EvalLambda(s, e)
-----------------------------------------------------------------------------
\* An expression statement: alone, under a try statement, or as the test of a
\* do loop that is reached with a continue pending.  careless marks the
\* expressions during which a pointer that the evaluator keeps goes stale.
Statement(e) == [e |-> e, tried |-> FALSE, test |-> FALSE, careless |-> FALSE]
Tried(c)     == [c EXCEPT !.tried = TRUE]
Test(c)      == [c EXCEPT !.test = TRUE]
Careless(c)  == [c EXCEPT !.careless = TRUE]

Begun(c, moves) ==
  [st EXCEPT !.try_flag = IF c.tried THEN 1 ELSE 0, !.continue_flag = c.test,
             !.threw = FALSE, !.moves = moves]

\* Between statements no pointer is kept, so the stamps start again; a try
\* statement ends an exception.
Settled(s) ==
  [s EXCEPT !.flow = IF @ = "except" THEN "run" ELSE @, !.next = 1, !.new_sig = NULL,
            !.moves = FALSE, !.try_flag = 0, !.continue_flag = FALSE,
            !.glob = [x \in DOMAIN @ |-> [@[x] EXCEPT !.slot = 0, !.sigat = 0]]]

Init ==
  /\ st = NewState
  /\ result = Void
  /\ last = Statement(Const(Void))
  /\ count = 0

Evaluate(c) ==
  /\ st.flow = "run" /\ count < MaxStatements
  /\ count' = count + 1
  /\ last' = c
  /\ \E moves \in BOOLEAN :
       LET r == Eval(Begun(c, moves), c.e)
       IN st' = Settled(r.s) /\ result' = r.v

EvaluateA(ops) == \E c \in Statements : c.e.op \in ops /\ Evaluate(c)

Reference     == EvaluateA({"ref", "at", "static_ref"})
Assignment    == EvaluateA({"assign", "assign_at"})
FunctionCall  == EvaluateA({"call"})
Construction  == EvaluateA({"new"})
StaticCall    == EvaluateA({"static"})
MethodCall    == EvaluateA({"method"})
LambdaExpr    == EvaluateA({"lambda"})

Next == \/ Reference \/ Assignment \/ FunctionCall \/ Construction
        \/ StaticCall \/ MethodCall \/ LambdaExpr

Spec == Init /\ [][Next]_vars
-----------------------------------------------------------------------------
\* No pointer to an entry, a signature or a name is used after what it points to
\* was released, replaced or moved, in any statement but the careless ones
\* (eval_call.c:268, eval_method.c:130, 135, 173, eval_assign.c:186).
NothingStale == st.flow = "fault" => last.careless

\* Whatever a statement called and however it failed, every table it entered
\* was left and every argument it evaluated was released, but for the table of
\* a lambda that was not defined (eval_expr.c:54).
Balanced ==
  st.flow # "fault" =>
    /\ st.loc = <<>> \/ last.test
    /\ st.objs = <<>> /\ st.float_count = 0 /\ st.vector_count = 0

\* An exception that a try statement waits for is not turned into a fatal error
\* on its way (eval_call.c:97, call_func.c:53, eval_method.c:209).
ThrowStands == st.threw /\ st.flow = "exit" => last.careless

\* The constructor of an object is the one of its class, or of the nearest
\* parent that has one (eval_method.c:54-81).  Constructors leave their class
\* in the field `by'.
RECURSIVE Maker(_)
Maker(c) ==
  LET class == Library[c].v
  IN IF \E i \in DOMAIN Bodies[class.body] :
          Bodies[class.body][i].op = "define" /\ Bodies[class.body][i].x = c
     THEN c
     ELSE IF class.parent = "" THEN "" ELSE Maker(class.parent)

Made == st.flow = "run" /\ ~st.threw /\ ~last.careless /\ result.t = "struct"

Constructed ==
  Made /\ "__class" \in DOMAIN result.f =>
    Element(result, Name("by")) = IF Maker(result.f["__class"].x) = "" THEN Void
                                  ELSE Name(Maker(result.f["__class"].x))

\* The variables that an expression names as targets in the table of its caller.
RECURSIVE Targets(_)
Parts(e) == CASE e.op \in {"assign", "pass"} -> {e.e}
              [] e.op = "assign_at" -> {e.e} \cup {e.idx[i] : i \in DOMAIN e.idx}
              [] e.op = "at"   -> {e.idx[i] : i \in DOMAIN e.idx}
              [] e.op = "sum"  -> {e.e, e.f}
              [] e.op = "method" -> {e.e} \cup {e.args[i] : i \in DOMAIN e.args}
              [] e.op \in {"call", "new", "static"} -> {e.args[i] : i \in DOMAIN e.args}
              [] OTHER -> {}
Targets(e) ==
  UNION {Targets(p) : p \in Parts(e)}
    \cup (IF e.op \in {"assign", "assign_at"} THEN {e.x} ELSE {})
    \cup (IF e.op \in {"pass", "method"} /\ e.e.op \in {"ref", "at"} THEN {e.e.x} ELSE {})

ValueOf(s, x) == EntryIn(s.glob, x).v

\* A function changes no variable of its caller, nor a global one, but those
\* passed to it by reference; an assignment that throws changes nothing
\* (eval_call.c:159, eval_assign.c:51, 115, symtab_stack.c:228).
Written(e, threw) == Targets(e) \ (IF threw /\ e.op \in {"assign", "assign_at"} THEN {e.x} ELSE {})

CallsContained ==
  [][\A x \in DOMAIN st.glob \cup DOMAIN st'.glob :
       ValueOf(st', x) # ValueOf(st, x) => x \in Written(last'.e, st'.threw) \/ last'.careless]_vars

\* The arguments with every index of a reference replaced by the value it had
\* when the argument was passed.
RECURSIVE Frozen(_, _)
Frozen(s, es) ==
  IF es = <<>> THEN <<>>
  ELSE LET h == Head(es)
           f == IF WrittenBack(h) /\ h.e.op = "at"
                THEN PassRef(At(h.e.x, [i \in DOMAIN h.e.idx |->
                                          IF h.e.idx[i].op = "field" THEN h.e.idx[i]
                                          ELSE Const(Eval(s, h.e.idx[i]).v)]))
                ELSE h
       IN <<f>> \o Frozen(Eval(s, h).s, Tail(es))

\* No two references of a call name the same variable or element.
Apart(es) ==
  \A i, j \in {k \in DOMAIN es : WrittenBack(es[k])} :
    i # j /\ es[i].e.x = es[j].e.x =>
      es[i].e.op = "at" /\ es[j].e.op = "at" /\ es[i].e.idx[1] # es[j].e.idx[1]

\* The values that come back from a call go to the elements that were passed,
\* also when the same call changes a variable of their index
\* (eval_call.c:124-156, 170-210).
WrittenWherePassed ==
  [][last'.e.op = "call" /\ ~last'.careless =>
       LET s  == Begun(last', FALSE)
           es == Frozen(s, last'.e.args)
           p  == EvalCall(s, [last'.e EXCEPT !.args = es])
       IN Apart(es) => \A x \in DOMAIN st'.glob : ValueOf(st', x) = ValueOf(p.s, x)]_vars

\* The functions of functions are what the manual spells out: map(f, x) is the
\* array of f(x[0], ...), f(x[1], ...) and so on, a fold is f(f(v, x[0]), x[1])
\* or f(x[0], f(x[1], v)), also in what the calls do to the globals, as long as
\* nothing is thrown and f is not a builtin that sets an element it is to drop or
\* to keep (function.c:195-369).
Spelled(f, args) == Call(f, [i \in DOMAIN args |-> Const(args[i])])
SpelledEach(s, f, q, rest) == EvalEach(s, [i \in DOMAIN q |-> Spelled(f, <<q[i]>> \o rest)]).vs
FoldL(f, v, q, rest) ==
  LET e[n \in 0..Len(q)] ==
        IF n = 0 THEN Const(v) ELSE Call(f, <<e[n - 1], Const(q[n])>> \o [i \in DOMAIN rest |-> Const(rest[i])])
  IN e[Len(q)]
FoldR(f, v, q, rest) ==
  LET e[n \in 1..(Len(q) + 1)] ==
        IF n = Len(q) + 1 THEN Const(v)
        ELSE Call(f, <<Const(q[n]), e[n + 1]>> \o [i \in DOMAIN rest |-> Const(rest[i])])
  IN e[1]

SpelledOut(s, b, f, vs) ==
  LET q     == vs[2].q
      tests == SpelledEach(s, f, q, After(vs, 2))
      while == CHOOSE n \in 0..Len(q) : /\ \A i \in 1..n : Truth(tests[i])
                                        /\ n < Len(q) => ~Truth(tests[n + 1])
  IN CASE b = "call"       -> Eval(s, Spelled(f, Tail(vs))).v
       [] b = "call_array" -> Eval(s, Spelled(f, q)).v
       [] b = "map"        -> Array(tests)
       [] b = "filter"     -> Array(Chosen(q, tests))
       [] b = "take_while" -> Array(SubSeq(q, 1, while))
       [] b = "drop_while" -> Array(After(q, while))
       [] b = "foldl"      -> Eval(s, FoldL(f, vs[2], vs[3].q, After(vs, 3))).v
       [] b = "foldr"      -> Eval(s, FoldR(f, vs[3], q, After(vs, 3))).v

OnFunctions == {"call", "call_array", "map", "filter", "take_while", "drop_while", "foldl", "foldr"}
CallsSpelledOut ==
  [][last'.e.op = "call" /\ last'.e.x \in OnFunctions /\ st'.flow = "run" /\ ~st'.threw /\ ~last'.careless =>
       LET s == Begun(last', FALSE)
       IN result' = SpelledOut(s, last'.e.x, last'.e.args[1].x, EvalEach(s, last'.e.args).vs)]_vars
=============================================================================
