--------------------------- MODULE ModulesProofs ---------------------------
(***************************************************************************)
(* Proofs about Modules, for every set of variables, paths, sandboxes and  *)
(* bounds.                                                                 *)
(*                                                                         *)
(* The counts of the resources: whatever puts a value into a cell lowers   *)
(* the count of what the cell held and raises that of the value (PutOne),  *)
(* and each step is one or two of these.  A function that makes a resource *)
(* does not count what its result held before, so there must be nothing    *)
(* (ResultFree).                                                           *)
(*                                                                         *)
(* The streams: as long as reopen has not lost one, every file has an open *)
(* stream of its own, and new streams were never used (Separate).          *)
(*                                                                         *)
(* The memory: each resource is NULL or points to memory that is there and *)
(* has at least the bytes the resource says it has, and no access was      *)
(* outside of it but those the module does not test (Sound).  Every        *)
(* function keeps that, or leaves a pointer dangling (Safe).               *)
(*                                                                         *)
(* The paths: text and meaning are folds over the names of a path, and the *)
(* names a fold over its characters, so that induction over the fold shows *)
(* that a path of a script and the text the system is given name the same  *)
(* place.                                                                  *)
(***************************************************************************)
EXTENDS Modules, Induction, FiniteSetTheorems, SequenceTheorems, TLAPS

Held == Rid \cup {Plain}
Of(h, r) == {d \in Cell : h[d] = r}
Matches(n, h) == \A r \in Rid : n[r] = Cardinality(Of(h, r))

Typed      == held \in [Cell -> Held] /\ count \in [Rid -> Nat]
ResultFree == phase = "arguments" => held[Result] = Plain
Counted    == Typed /\ Matches(count, held)
CountInv   == Counted /\ ResultFree

HasStream  == \A r \in Rid : file[r] # 0 => stream[file[r]].open
Apart      == \A r, q \in Rid : file[r] = file[q] /\ file[r] # 0 => r = q
OpenUsed   == \A s \in Stream : stream[s].open => stream[s].used
Separate   == ~misuse /\ HasStream /\ Apart /\ OpenUsed
FilesTyped == /\ lost \in BOOLEAN /\ misuse \in BOOLEAN
              /\ file \in [Rid -> Stream \cup {0}]
              /\ stream = [s \in Stream |-> stream[s]]
StreamInv  == FilesTyped /\ (lost \/ Separate)
-----------------------------------------------------------------------------
\* The number of cells that hold a structure, after one cell has changed.
LEMMA HoldersAfter ==
  ASSUME NEW h \in [Cell -> Held], NEW g \in [Cell -> Held], NEW c \in Cell, NEW r \in Rid,
         \A d \in Cell \ {c} : g[d] = h[d]
  PROVE  /\ Cardinality(Of(h, r)) \in Nat
         /\ h[c] = r => Cardinality(Of(h, r)) > 0
         /\ (h[c] = r <=> g[c] = r) => Cardinality(Of(g, r)) = Cardinality(Of(h, r))
         /\ h[c] = r /\ g[c] # r => Cardinality(Of(g, r)) = Cardinality(Of(h, r)) - 1
         /\ h[c] # r /\ g[c] = r => Cardinality(Of(g, r)) = Cardinality(Of(h, r)) + 1
<1>1. IsFiniteSet(Of(h, r))
  BY FS_Subset, CellAssumption DEF Of
<1>2. Cardinality(Of(h, r)) \in Nat
  BY <1>1, FS_CardinalityType
<1>3. ASSUME h[c] = r PROVE Cardinality(Of(h, r)) > 0
  BY <1>1, <1>2, <1>3, FS_EmptySet DEF Of
<1>4. ASSUME h[c] = r <=> g[c] = r PROVE Of(g, r) = Of(h, r)
  BY <1>4 DEF Of
<1>5. ASSUME h[c] = r, g[c] # r PROVE Cardinality(Of(g, r)) = Cardinality(Of(h, r)) - 1
  <2>1. Of(g, r) = Of(h, r) \ {c} /\ c \in Of(h, r)
    BY <1>5 DEF Of
  <2> QED BY <1>1, <2>1, FS_RemoveElement
<1>6. ASSUME h[c] # r, g[c] = r PROVE Cardinality(Of(g, r)) = Cardinality(Of(h, r)) + 1
  <2>1. Of(g, r) = Of(h, r) \cup {c} /\ c \notin Of(h, r)
    BY <1>6 DEF Of
  <2> QED BY <1>1, <2>1, FS_AddElement
<1> QED BY <1>2, <1>3, <1>4, <1>5, <1>6

\* Counts stay right when a value is put into a cell, the old one counted off
\* and the new one counted.
LEMMA PutOne ==
  ASSUME NEW h \in [Cell -> Held], NEW n \in [Rid -> Nat], Matches(n, h),
         NEW c \in Cell, NEW g \in [Cell -> Held], \A d \in Cell \ {c} : g[d] = h[d],
         NEW m, m = More(Less(n, h[c]), g[c])
  PROVE  m \in [Rid -> Nat] /\ Matches(m, g)
<1>1. \A r \in Rid : n[r] \in Nat /\ (h[c] = r => n[r] > 0)
  BY HoldersAfter DEF Matches
<1>2. Less(n, h[c]) \in [Rid -> Nat]
  BY <1>1 DEF Less, Held
<1>3. m \in [Rid -> Nat]
  BY <1>2 DEF More, Held
<1>4. Matches(m, g)
  <2> SUFFICES ASSUME NEW r \in Rid PROVE m[r] = Cardinality(Of(g, r))
    BY DEF Matches
  <2>1. Less(n, h[c])[r] = n[r] - (IF h[c] = r THEN 1 ELSE 0)
    BY <1>1, CellAssumption DEF Less, Held
  <2>2. m[r] = Less(n, h[c])[r] + (IF g[c] = r THEN 1 ELSE 0)
    BY <1>2, CellAssumption DEF More, Held
  <2>3. n[r] = Cardinality(Of(h, r))
    BY DEF Matches
  <2>4. /\ (h[c] = r <=> g[c] = r) => Cardinality(Of(g, r)) = Cardinality(Of(h, r))
        /\ h[c] = r /\ g[c] # r => Cardinality(Of(g, r)) = Cardinality(Of(h, r)) - 1
        /\ h[c] # r /\ g[c] = r => Cardinality(Of(g, r)) = Cardinality(Of(h, r)) + 1
    BY HoldersAfter
  <2> QED BY <1>1, <2>1, <2>2, <2>3, <2>4
<1> QED BY <1>3, <1>4
-----------------------------------------------------------------------------
\* Copying a variable, storing, freeing, and making a resource keep the counts.
LEMMA CopyKeeps ==
  ASSUME Counted, NEW x \in Variable, NEW c \in Cell, CopyOf(x, c)
  PROVE  Counted'
<1>1. x \in Cell /\ held[x] \in Held
  BY DEF Counted, Typed, Cell
<1>2. held' \in [Cell -> Held] /\ held'[c] = held[x] /\ \A d \in Cell \ {c} : held'[d] = held[d]
  BY <1>1 DEF Counted, Typed, CopyOf
<1>3. count' = More(Less(count, held[c]), held'[c])
  BY <1>2 DEF CopyOf, Less
<1> QED BY <1>2, <1>3, PutOne DEF Counted, Typed

LEMMA StoreKeeps ==
  ASSUME Counted, NEW c \in Cell, NEW x \in Variable, Store(c, x)
  PROVE  Counted'
<1>1. x \in Cell /\ held[c] \in Held
  BY DEF Counted, Typed, Cell
<1>2. held' \in [Cell -> Held] /\ held'[x] = held[c] /\ \A d \in Cell \ {x} : held'[d] = held[d]
  BY <1>1 DEF Counted, Typed, Store
<1>3. count' = More(Less(count, held[x]), held'[x])
  BY <1>2 DEF Store, Cleaned
<1> QED BY <1>1, <1>2, <1>3, PutOne DEF Counted, Typed

LEMMA FreeKeeps ==
  ASSUME Counted, NEW c \in Cell, Free(c)
  PROVE  Counted'
<1>1. held' \in [Cell -> Held] /\ held'[c] = Plain /\ \A d \in Cell \ {c} : held'[d] = held[d]
  BY DEF Counted, Typed, Free, Held
<1>2. count' = More(Less(count, held[c]), held'[c])
  BY <1>1 DEF Free, Cleaned, More
<1> QED BY <1>1, <1>2, PutOne DEF Counted, Typed

LEMMA MakeKeeps ==
  ASSUME Counted, held[Result] = Plain, NEW rel, MakeResource(rel)
  PROVE  Counted'
<1>1. PICK r \in Rid : /\ count[r] = 0
                       /\ held' = [held EXCEPT ![Result] = r]
                       /\ count' = [count EXCEPT ![r] = 1]
  BY DEF MakeResource, Unallocated
<1>2. Result \in Cell /\ r \in Held /\ r # Plain
  BY CellAssumption DEF Cell, Held
<1>3. held' \in [Cell -> Held] /\ held'[Result] = r /\ \A d \in Cell \ {Result} : held'[d] = held[d]
  BY <1>1, <1>2 DEF Counted, Typed
<1>4. count' = More(Less(count, held[Result]), held'[Result])
  BY <1>1, <1>2, <1>3 DEF Less, More, Counted, Typed
<1> QED BY <1>2, <1>3, <1>4, PutOne DEF Counted, Typed

LEMMA MakeTwoKeep ==
  ASSUME Counted, \A a \in Argument : held[a] = Plain, NEW rel, MakeArguments(rel)
  PROVE  Counted' /\ held'[Result] = held[Result]
<1>1. PICK r \in Rid, q \in Rid : /\ count[r] = 0 /\ count[q] = 0 /\ r < q
                                  /\ held' = [held EXCEPT ![First] = r, ![Second] = q]
                                  /\ count' = [count EXCEPT ![r] = 1, ![q] = 1]
  BY DEF MakeArguments, Unallocated
<1>2. r # q /\ r # Plain /\ q # Plain
  BY <1>1, CellAssumption
<1>3. /\ First \in Cell /\ Second \in Cell /\ Result \in Cell
      /\ First # Second /\ Result \notin {First, Second}
      /\ held[First] = Plain /\ held[Second] = Plain
  BY CellAssumption DEF Cell, Argument
<1> DEFINE h == [held EXCEPT ![First] = r]
           n == [count EXCEPT ![r] = 1]
<1>4. /\ h \in [Cell -> Held] /\ h[First] = r /\ \A d \in Cell \ {First} : h[d] = held[d]
      /\ held' \in [Cell -> Held] /\ held'[Second] = q /\ \A d \in Cell \ {Second} : held'[d] = h[d]
  BY <1>1, <1>3 DEF Counted, Typed, Held
<1>5. n = More(Less(count, held[First]), h[First])
  BY <1>1, <1>2, <1>3, <1>4 DEF Less, More, Counted, Typed
<1>6. n[q] = 0 /\ count' = [n EXCEPT ![q] = 1]
  BY <1>1, <1>2 DEF Counted, Typed
<1>7. h[Second] = Plain
  BY <1>3, <1>4
<1>8. held'[Result] = held[Result]
  BY <1>3, <1>4
<1> HIDE DEF h, n
<1>9. n \in [Rid -> Nat] /\ Matches(n, h)
  BY <1>3, <1>4, <1>5, PutOne DEF Counted, Typed
<1>10. count' = More(Less(n, h[Second]), held'[Second])
  BY <1>2, <1>4, <1>6, <1>7, <1>9 DEF Less, More
<1>11. count' \in [Rid -> Nat] /\ Matches(count', held')
  BY <1>3, <1>4, <1>9, <1>10, PutOne
<1> QED BY <1>4, <1>8, <1>11 DEF Counted, Typed
-----------------------------------------------------------------------------
\* What a call of one of the modules does with the cells.
Answers == /\ phase = "arguments" /\ phase' = "returned"
           /\ UNCHANGED <<held, count>> \/ \E rel \in {"mem", "half", "file"} : MakeResource(rel)

LEMMA MemCallAnswers == MemCall => Answers
<1> USE DEF Answers, Called, Changes
<1>1. ASSUME NEW bytes, Allocate(bytes) PROVE Answers
  BY <1>1 DEF Allocate, Makes, ReturnsVoid
<1>2. mem_malloc \/ mem_calloc \/ mem_cstring => Answers
  BY <1>1 DEF mem_malloc, mem_calloc, mem_cstring
<1>3. mem_cnull => Answers
  BY DEF mem_cnull
<1>4. mem_realloc \/ mem_free \/ mem_put \/ mem_put_string => Answers
  BY DEF mem_realloc, mem_free, mem_put, mem_put_string
<1>5. mem_put_pointer \/ mem_get \/ mem_get_string \/ mem_string => Answers
  BY DEF mem_put_pointer, mem_get, mem_get_string, mem_string
<1>6. mem_get_pointer => Answers
  <2> SUFFICES ASSUME mem_get_pointer PROVE Answers
    OBVIOUS
  <2>1. /\ phase = "arguments" /\ phase' = "returned"
        /\ \/ UNCHANGED <<held, count>>
           \/ \E cleanup \in BOOLEAN : \E b, s : Makes(IF cleanup THEN "mem" ELSE "half", b, 0, FALSE, s)
    BY ZenonT(60) DEF mem_get_pointer
  <2> QED BY <2>1 DEF Makes
<1>7. mem_cpy \/ mem_cmp \/ mem_chr \/ mem_set => Answers
  BY DEF mem_cpy, mem_cmp, mem_chr, mem_set
<1> QED BY <1>2, <1>3, <1>4, <1>5, <1>6, <1>7 DEF MemCall

Answered == Answers \/ \E rel \in {"file"} : /\ phase = "arguments" /\ phase' \in {"first", "returned"}
                                             /\ \A a \in Argument : held[a] = Plain
                                             /\ UNCHANGED <<held, count>> \/ MakeArguments(rel)

\* The functions on paths leave the resources alone.
LEMMA PathCallKeeps ==
  PathCall => /\ FileCalled({}) /\ UNCHANGED <<held, count, file, stream>>
              /\ UNCHANGED <<misuse, lost>> \/ (misuse' = TRUE /\ lost' = TRUE)
<1> DEFINE Keeps == /\ FileCalled({}) /\ UNCHANGED <<held, count, file, stream>>
                    /\ UNCHANGED <<misuse, lost>> \/ (misuse' = TRUE /\ lost' = TRUE)
<1>1. ASSUME NEW test, NEW p, Asks(test, p, Looks) \/ Asks(test, p, Changed) PROVE Keeps
  BY <1>1 DEF Asks, SameHandles
<1>2. ASSUME NEW t, NEW d, AsksBoth(t, d, Copies) \/ AsksBoth(t, d, Links) \/ AsksBoth(t, d, Moves) PROVE Keeps
  BY <1>2 DEF AsksBoth, SameHandles
<1>3. ASSUME NEW t, NeverSet(t) PROVE Keeps
  BY <1>3 DEF NeverSet
<1> HIDE DEF Keeps
<1>4. stat \/ scandir \/ fileread \/ access => Keeps
  BY <1>1, <1>3, Zenon DEF stat, scandir, fileread, access
<1>5. mkdir \/ rmdir \/ unlink \/ chmod \/ filewrite => Keeps
  BY <1>1, Zenon DEF mkdir, rmdir, unlink, chmod, filewrite
<1>6. link \/ copy \/ rename => Keeps
  BY <1>2, Zenon DEF link, copy, rename
<1>7. chdir => Keeps
  BY DEF Keeps, chdir, SameHandles
<1>8. PathCall => Keeps
  BY <1>4, <1>5, <1>6, <1>7 DEF PathCall
<1> QED BY <1>8 DEF Keeps

LEMMA PathCallAnswers == PathCall => Answered
BY PathCallKeeps DEF Answered, Answers, FileCalled

\* A stream that is used stays what it is.
LEMMA UsesKeep ==
  ReadFile \/ WriteFile \/ UseFile =>
    \E a \in Argument : /\ FileCalled({a}) /\ UNCHANGED <<held, count, file, stream, lost>>
                        /\ UNCHANGED misuse \/ (Broken(a) /\ misuse' = (misuse \/ FileOf(a) # 0))
<1> DEFINE Keeps ==
      \E a \in Argument : /\ FileCalled({a}) /\ UNCHANGED <<held, count, file, stream, lost>>
                          /\ UNCHANGED misuse \/ (Broken(a) /\ misuse' = (misuse \/ FileOf(a) # 0))
<1>1. ReadFile => Keeps
  BY Zenon DEF ReadFile, Use
<1>2. WriteFile => Keeps
  BY Zenon DEF WriteFile, Use
<1>3. UseFile => Keeps
  BY Zenon DEF UseFile, Use
<1> HIDE DEF Keeps
<1>4. ReadFile \/ WriteFile \/ UseFile => Keeps
  BY <1>1, <1>2, <1>3
<1> QED BY <1>4 DEF Keeps

LEMMA FileCallAnswers == FileCall => Answered
<1> USE DEF Answers, Answered, FileCalled
<1>1. PathCall => Answered
  BY PathCallAnswers
<1>3. file_open => Answered
  BY DEF file_open
<1>4. file_reopen \/ file_close => Answered
  BY DEF file_reopen, file_close
<1>5. ReadFile \/ WriteFile \/ UseFile => Answered
  BY UsesKeep
<1>6. file_pipe => Answered
  BY DEF file_pipe
<1> QED BY <1>1, <1>3, <1>4, <1>5, <1>6 DEF FileCall
-----------------------------------------------------------------------------
LEMMA CountInit == Init => CountInv
<1> SUFFICES ASSUME Init PROVE CountInv
  OBVIOUS
<1>1. PICK x \in Variable, r \in Rid :
        /\ held = [c \in Cell |-> IF "file" \in loaded /\ c = x THEN r ELSE Plain]
        /\ count = [q \in Rid |-> IF "file" \in loaded /\ q = r THEN 1 ELSE 0]
  BY DEF Init
<1>2. x \in Cell /\ x # Result /\ Result \in Cell /\ r # Plain
  BY CellAssumption DEF Cell
<1>3. Typed
  BY <1>1 DEF Typed, Held
<1>4. Matches(count, held)
  <2> SUFFICES ASSUME NEW q \in Rid PROVE count[q] = Cardinality(Of(held, q))
    BY DEF Matches
  <2>1. CASE "file" \in loaded /\ q = r
    <3>1. Of(held, q) = {x}
      BY <1>1, <1>2, <2>1, CellAssumption DEF Of
    <3> QED BY <1>1, <2>1, <3>1, FS_Singleton
  <2>2. CASE ~("file" \in loaded /\ q = r)
    <3>1. Of(held, q) = {}
      BY <1>1, <2>2, CellAssumption DEF Of
    <3> QED BY <1>1, <2>2, <3>1, FS_EmptySet
  <2> QED BY <2>1, <2>2
<1>5. ResultFree
  BY <1>1, <1>2 DEF ResultFree
<1> QED BY <1>3, <1>4, <1>5 DEF CountInv, Counted

LEMMA CountStep == CountInv /\ [Next]_vars => CountInv'
<1> SUFFICES ASSUME CountInv, [Next]_vars PROVE CountInv'
  OBVIOUS
<1> USE DEF CountInv
<1>1. /\ Variable \subseteq Cell /\ Argument \subseteq Cell /\ Result \in Cell
      /\ First \in Argument /\ Second \in Argument
      /\ Result \notin Variable /\ Result \notin Argument
  BY CellAssumption DEF Cell, Argument
<1>2. CASE LoadFirst \/ LoadSecond
  <2>1. PICK x \in Variable, c \in Argument : CopyOf(x, c)
    BY <1>1, <1>2 DEF LoadFirst, LoadSecond
  <2>2. Counted'
    BY <1>1, <2>1, CopyKeeps
  <2>3. held'[Result] = held[Result] /\ phase' = phase
    BY <1>1, <1>2, <2>1 DEF CopyOf, LoadFirst, LoadSecond, Counted, Typed
  <2> QED BY <2>2, <2>3 DEF ResultFree
<1>3. CASE Reference
  BY <1>1, <1>3, CopyKeeps DEF Reference, ResultFree
<1>4. ASSUME Answers PROVE CountInv'
  <2>1. CASE UNCHANGED <<held, count>>
    BY <1>4, <2>1 DEF Answers, ResultFree, Counted, Typed
  <2>2. CASE \E rel \in {"mem", "half", "file"} : MakeResource(rel)
    BY <1>4, <2>2, MakeKeeps DEF Answers, ResultFree
  <2> QED BY <1>4, <2>1, <2>2 DEF Answers
<1>5. CASE CallMem
  BY <1>4, <1>5, MemCallAnswers DEF CallMem
<1>6. CASE CallFile
  <2>1. CASE Answers
    BY <1>4, <2>1
  <2>2. CASE /\ phase = "arguments" /\ phase' \in {"first", "returned"}
             /\ \A a \in Argument : held[a] = Plain
             /\ UNCHANGED <<held, count>> \/ MakeArguments("file")
    <3>1. CASE UNCHANGED <<held, count>>
      BY <2>2, <3>1 DEF ResultFree, Counted, Typed
    <3>2. CASE MakeArguments("file")
      BY <2>2, <3>2, MakeTwoKeep DEF ResultFree
    <3> QED BY <2>2, <3>1, <3>2
  <2> QED BY <1>6, <2>1, <2>2, FileCallAnswers DEF CallFile, Answered
<1>7. CASE WriteFirst \/ WriteSecond
  BY <1>1, <1>7, StoreKeeps DEF WriteFirst, WriteSecond, WriteBack, ResultFree
<1>8. CASE FreeArgument
  BY <1>1, <1>8, FreeKeeps DEF FreeArgument, ResultFree
<1>9. CASE ArgumentsFreed
  BY <1>9 DEF ArgumentsFreed, ResultFree, Counted, Typed
<1>10. CASE StoreResult
  BY <1>1, <1>10, StoreKeeps DEF StoreResult, ResultFree
<1>11. CASE FreeResult
  <2>1. CASE held[Result] = Plain
    BY <1>11, <2>1 DEF FreeResult, ResultFree, Counted, Typed
  <2>2. CASE held[Result] # Plain
    BY <1>1, <1>11, <2>2, FreeKeeps DEF FreeResult, Free, ResultFree, Counted, Typed
  <2> QED BY <2>1, <2>2
<1>12. CASE Unset
  <2>1. PICK x \in Variable : Free(x)
    BY <1>12 DEF Unset
  <2>2. Counted'
    BY <1>1, <2>1, FreeKeeps
  <2>3. held'[Result] = held[Result] /\ phase' = phase
    BY <1>1, <1>12, <2>1 DEF Free, Unset, Counted, Typed
  <2> QED BY <2>2, <2>3 DEF ResultFree
<1>13. CASE UNCHANGED vars
  BY <1>13 DEF vars, resourceVars, ResultFree, Counted, Typed
<1> QED BY <1>2, <1>3, <1>5, <1>6, <1>7, <1>8, <1>9, <1>10, <1>11, <1>12, <1>13 DEF Next

\* No structure of a resource is released while a value refers to it, and none
\* is left without one (value_cleanup, copy_resource, value_copy_to): whatever
\* functions of the two modules a script calls.
THEOREM CountsAlwaysMatch == Spec => []CountsMatch
<1>1. CountInv => CountsMatch
  BY DEF CountInv, Counted, Matches, Of, CountsMatch, Holders
<1> QED BY <1>1, CountInit, CountStep, PTL DEF Spec
-----------------------------------------------------------------------------
\* A file that goes takes its stream with it.
LEMMA ShutKeeps ==
  ASSUME StreamInv, NEW r \in Rid, Shut(file[r]), file' = [file EXCEPT ![r] = 0], lost' = lost
  PROVE  StreamInv'
<1> USE DEF StreamInv, FilesTyped
<1>1. CASE file[r] = 0
  <2>1. file' = file /\ stream' = stream /\ misuse' = misuse
    BY <1>1 DEF Shut
  <2> QED BY <2>1 DEF Separate, HasStream, Apart, OpenUsed
<1>2. CASE file[r] # 0
  <2>1. /\ file[r] \in Stream
        /\ stream' = [stream EXCEPT ![file[r]] = Closed]
        /\ misuse' = (misuse \/ ~stream[file[r]].open)
    BY <1>2 DEF Shut
  <2>2. file' \in [Rid -> Stream \cup {0}] /\ file'[r] = 0 /\ \A q \in Rid \ {r} : file'[q] = file[q]
    OBVIOUS
  <2>3. /\ stream' = [s \in Stream |-> stream'[s]]
        /\ stream'[file[r]] = Closed /\ \A s \in Stream \ {file[r]} : stream'[s] = stream[s]
    BY <2>1
  <2>4. misuse' \in BOOLEAN
    BY <2>1
  <2>5. ASSUME Separate PROVE Separate'
    <3>1. ~misuse'
      BY <2>1, <2>5, <1>2 DEF Separate, HasStream
    <3>2. HasStream'
      BY <2>2, <2>3, <2>5, <1>2 DEF Separate, HasStream, Apart
    <3>3. Apart'
      BY <2>2, <2>5 DEF Separate, Apart
    <3>4. OpenUsed'
      BY <2>3, <2>5 DEF Separate, OpenUsed, Closed
    <3> QED BY <3>1, <3>2, <3>3, <3>4 DEF Separate
  <2> QED BY <2>2, <2>3, <2>4, <2>5
<1> QED BY <1>1, <1>2

LEMMA ReleaseKeeps ==
  ASSUME StreamInv, NEW R \in SUBSET Rid, FileRelease(R), lost' = lost
  PROVE  StreamInv'
<1>1. CASE \E r \in R : release[r] = "file"
  <2>1. PICK r \in Rid : r = CHOOSE q \in R : TRUE
    BY <1>1
  <2> QED BY <1>1, <2>1, ShutKeeps DEF FileRelease
<1>2. CASE ~\E r \in R : release[r] = "file"
  BY <1>2 DEF FileRelease, StreamInv, FilesTyped, Separate, HasStream, Apart, OpenUsed
<1> QED BY <1>1, <1>2

\* A stream that is opened for a new file was never used before.
LEMMA OpenKeeps ==
  ASSUME StreamInv, NEW r, NEW s \in Stream, ~stream[s].used, NEW v, v.open, v.used,
         file' = [o \in Rid |-> IF o = r THEN s ELSE file[o]],
         stream' = [stream EXCEPT ![s] = v],
         misuse' = misuse, lost' = lost
  PROVE  StreamInv'
<1> USE DEF StreamInv, FilesTyped
<1>1. /\ stream' = [o \in Stream |-> stream'[o]]
      /\ stream'[s].open /\ stream'[s].used /\ \A o \in Stream \ {s} : stream'[o] = stream[o]
  OBVIOUS
<1>2. file' \in [Rid -> Stream \cup {0}]
  OBVIOUS
<1>3. ASSUME Separate PROVE Separate'
  <2>1. \A o \in Rid : file[o] # s
    BY <1>3, StreamAssumption DEF Separate, HasStream, OpenUsed
  <2>2. HasStream'
    BY <1>1, <1>3, <2>1 DEF Separate, HasStream
  <2>3. Apart'
    BY <1>3, <2>1 DEF Separate, Apart
  <2>4. OpenUsed'
    BY <1>1, <1>3 DEF Separate, OpenUsed
  <2> QED BY <1>3, <2>2, <2>3, <2>4 DEF Separate
<1> QED BY <1>1, <1>2, <1>3

LEMMA ReopenKeeps ==
  ASSUME StreamInv, Typed, file_reopen
  PROVE  StreamInv'
<1> USE DEF StreamInv, FilesTyped
<1>1. PICK a \in Argument, t \in Paths_, mode \in Modes :
        /\ UNCHANGED file
        /\ \/ misuse' = TRUE /\ lost' = TRUE /\ UNCHANGED stream
           \/ UNCHANGED <<stream, misuse, lost>>
           \/ /\ UNCHANGED <<misuse, lost>>
              /\ stream' = [stream EXCEPT ![FileOf(a)] = OpenAt(PlaceNew(t), mode, @.low)]
           \/ stream' = [stream EXCEPT ![FileOf(a)] = Closed] /\ lost' = TRUE /\ UNCHANGED misuse
  BY Zenon DEF file_reopen, Misused, Refused
<1>2. CASE misuse' = TRUE /\ lost' = TRUE /\ UNCHANGED stream
  BY <1>1, <1>2
<1>3. CASE UNCHANGED <<stream, misuse, lost>>
  BY <1>1, <1>3 DEF Separate, HasStream, Apart, OpenUsed
<1>4. CASE /\ UNCHANGED <<misuse, lost>>
           /\ stream' = [stream EXCEPT ![FileOf(a)] = OpenAt(PlaceNew(t), mode, @.low)]
  <2>1. /\ stream' = [o \in Stream |-> stream'[o]]
        /\ \A o \in Stream : stream'[o] = stream[o] \/ (stream'[o].open /\ stream'[o].used)
    BY <1>4 DEF OpenAt
  <2> QED BY <1>1, <1>4, <2>1 DEF Separate, HasStream, Apart, OpenUsed
<1>5. CASE stream' = [stream EXCEPT ![FileOf(a)] = Closed] /\ lost' = TRUE /\ UNCHANGED misuse
  BY <1>1, <1>5
<1> QED BY <1>1, <1>2, <1>3, <1>4, <1>5

LEMMA SameStreams ==
  ASSUME StreamInv, UNCHANGED <<file, stream, misuse, lost>>
  PROVE  StreamInv'
BY DEF StreamInv, FilesTyped, Separate, HasStream, Apart, OpenUsed

\* Both ends of a pipe have a stream of their own.
LEMMA PipeKeeps ==
  ASSUME StreamInv, Typed, file_pipe
  PROVE  StreamInv'
<1>1. CASE UNCHANGED <<file, stream>>
  BY <1>1, SameStreams DEF file_pipe
<1>2. CASE ~UNCHANGED <<file, stream>>
  <2>1. PICK s \in Stream, q \in Stream :
          /\ s < q /\ {o \in Stream : ~stream[o].used /\ o <= q} = {s, q}
          /\ MakeArguments("file")
          /\ file' = [r \in Rid |-> IF r = held'[First] THEN s ELSE IF r = held'[Second] THEN q ELSE file[r]]
          /\ stream' = [stream EXCEPT ![s] = OpenAt(<<>>, "r", LowIsFree), ![q] = OpenAt(<<>>, "w", FALSE)]
          /\ UNCHANGED <<misuse, lost>>
    BY <1>2 DEF file_pipe
  <2>2. ~stream[s].used /\ ~stream[q].used /\ s # q
    BY <2>1, StreamAssumption
  <2>3. PICK k \in Rid, l \in Rid : held'[First] = k /\ held'[Second] = l /\ k # l
    <3>1. PICK k \in Rid, l \in Rid : k < l /\ held' = [held EXCEPT ![First] = k, ![Second] = l]
      BY <2>1 DEF MakeArguments, Unallocated
    <3>2. k # l
      BY <3>1, CellAssumption
    <3> QED BY <3>1, <3>2, CellAssumption DEF Typed, Cell, Argument
  <2>4. /\ stream' = [o \in Stream |-> stream'[o]]
        /\ \A o \in {s, q} : stream'[o].open /\ stream'[o].used
        /\ \A o \in Stream \ {s, q} : stream'[o] = stream[o]
    BY <2>1, <2>2 DEF StreamInv, FilesTyped, OpenAt
  <2>5. file' \in [Rid -> Stream \cup {0}] /\ file'[k] = s /\ file'[l] = q /\ \A r \in Rid \ {k, l} : file'[r] = file[r]
    BY <2>1, <2>3 DEF StreamInv, FilesTyped
  <2>6. ASSUME Separate PROVE Separate'
    <3>1. \A r \in Rid : file[r] \notin {s, q}
      BY <2>2, <2>6, StreamAssumption DEF Separate, HasStream, OpenUsed
    <3>2. HasStream'
      BY <2>4, <2>5, <2>6, <3>1 DEF Separate, HasStream, StreamInv, FilesTyped
    <3>3. Apart'
      BY <2>2, <2>5, <2>6, <3>1 DEF Separate, Apart
    <3>4. OpenUsed'
      BY <2>4, <2>6 DEF Separate, OpenUsed
    <3> QED BY <2>1, <2>6, <3>2, <3>3, <3>4 DEF Separate
  <2> QED BY <2>1, <2>4, <2>5, <2>6 DEF StreamInv, FilesTyped
<1> QED BY <1>1, <1>2

LEMMA FileCallKeeps ==
  ASSUME StreamInv, Typed, FileCall
  PROVE  StreamInv'
<1>1. CASE PathCall
  <2>1. UNCHANGED <<file, stream>> /\ (UNCHANGED <<misuse, lost>> \/ (misuse' = TRUE /\ lost' = TRUE))
    BY <1>1, PathCallKeeps
  <2> QED BY <2>1, SameStreams DEF StreamInv, FilesTyped
<1>3. CASE file_open
  <2>1. /\ UNCHANGED <<misuse, lost>>
        /\ \/ UNCHANGED <<file, stream>>
           \/ \E t \in Paths_, mode \in Modes, s \in FreeStreams :
                /\ file' = [r \in Rid |-> IF r = held'[Result] THEN s ELSE file[r]]
                /\ stream' = [stream EXCEPT ![s] = OpenAt(PlaceNew(t), mode, LowIsFree)]
    BY <1>3, Zenon DEF file_open
  <2>2. CASE UNCHANGED <<file, stream>>
    BY <2>1, <2>2, SameStreams
  <2>3. CASE ~UNCHANGED <<file, stream>>
    <3>1. PICK t \in Paths_, mode \in Modes, s \in FreeStreams :
            /\ file' = [r \in Rid |-> IF r = held'[Result] THEN s ELSE file[r]]
            /\ stream' = [stream EXCEPT ![s] = OpenAt(PlaceNew(t), mode, LowIsFree)]
      BY <2>1, <2>3
    <3>2. s \in Stream /\ ~stream[s].used
      BY DEF FreeStreams
    <3>3. PICK r : r = held'[Result]
      OBVIOUS
    <3>4. PICK v : v = OpenAt(PlaceNew(t), mode, LowIsFree)
      OBVIOUS
    <3>5. /\ file' = [o \in Rid |-> IF o = r THEN s ELSE file[o]]
          /\ stream' = [stream EXCEPT ![s] = v]
          /\ v.open /\ v.used
      BY <3>1, <3>3, <3>4 DEF OpenAt
    <3>6. misuse' = misuse /\ lost' = lost
      BY <2>1
    <3> QED BY <3>2, <3>5, <3>6, OpenKeeps, Zenon
  <2> QED BY <2>2, <2>3
<1>4. CASE file_reopen
  BY <1>4, ReopenKeeps
<1>5. CASE ReadFile \/ WriteFile \/ UseFile
  <2>1. PICK a \in Argument : /\ UNCHANGED <<file, stream, lost>>
                              /\ \/ UNCHANGED misuse
                                 \/ Broken(a) /\ misuse' = (misuse \/ FileOf(a) # 0)
    BY <1>5, UsesKeep, Zenon
  <2>2. ASSUME Broken(a), FileOf(a) # 0 PROVE lost
    BY <2>2 DEF Broken, FileOf, is_file, StreamInv, Separate, HasStream, Typed, Held, Cell
  <2>3. FileOf(a) = 0 \/ ~Broken(a) \/ lost
    BY <2>2
  <2> QED BY <2>1, <2>3 DEF StreamInv, FilesTyped, Separate, HasStream, Apart, OpenUsed
<1>6. CASE file_close
  <2>1. PICK a \in Argument : /\ UNCHANGED lost
                              /\ IF FileOf(a) = 0 THEN UNCHANGED <<file, stream, misuse>>
                                 ELSE TakenFromFile(held[a]) /\ Shut(FileOf(a))
    BY <1>6 DEF file_close
  <2>2. CASE FileOf(a) = 0
    BY <2>1, <2>2, SameStreams
  <2>3. CASE FileOf(a) # 0
    <3>1. held[a] \in Rid /\ FileOf(a) = file[held[a]]
      BY <2>3 DEF FileOf, is_file, Typed, Held, Cell
    <3> QED BY <2>1, <2>3, <3>1, ShutKeeps DEF TakenFromFile
  <2> QED BY <2>2, <2>3
<1>7. CASE file_pipe
  BY <1>7, PipeKeeps
<1> QED BY <1>1, <1>3, <1>4, <1>5, <1>6, <1>7 DEF FileCall

LEMMA StreamInit == Init => StreamInv
<1> SUFFICES ASSUME Init PROVE StreamInv
  OBVIOUS
<1>1. PICK r \in Rid :
        file = [q \in Rid |-> IF "file" \in loaded /\ q = r THEN Standard ELSE 0]
  BY DEF Init
<1>2. /\ stream = [s \in Stream |-> IF s = Standard THEN OpenAt(<<>>, "r", TRUE) ELSE Fresh]
      /\ misuse = FALSE /\ lost = FALSE
  BY DEF Init
<1>3. /\ OpenAt(<<>>, "r", TRUE).open /\ OpenAt(<<>>, "r", TRUE).used /\ ~Fresh.open
      /\ Standard \in Stream
  BY StreamAssumption DEF OpenAt, Fresh
<1>4. FilesTyped
  BY <1>1, <1>2, <1>3 DEF FilesTyped
<1>5. HasStream /\ Apart /\ OpenUsed
  BY <1>1, <1>2, <1>3 DEF HasStream, Apart, OpenUsed
<1> QED BY <1>2, <1>4, <1>5 DEF StreamInv, Separate

LEMMA StreamStep == CountInv /\ StreamInv /\ [Next]_vars => StreamInv'
<1> SUFFICES ASSUME Typed, StreamInv, [Next]_vars PROVE StreamInv'
  BY DEF CountInv, Counted
<1>1. CASE LoadFirst \/ LoadSecond \/ Reference \/ ArgumentsFreed
  BY <1>1, SameStreams DEF LoadFirst, LoadSecond, Reference, ArgumentsFreed, Idle, fileVars
<1>2. CASE CallMem
  BY <1>2, SameStreams DEF CallMem, fileVars
<1>3. CASE CallFile
  BY <1>3, FileCallKeeps DEF CallFile
<1>4. CASE WriteFirst \/ WriteSecond \/ FreeArgument \/ StoreResult \/ FreeResult \/ Unset
  <2>1. Released /\ lost' = lost
    BY <1>4 DEF WriteFirst, WriteSecond, WriteBack, FreeArgument, StoreResult, FreeResult, Unset
  <2>2. PICK R \in SUBSET Rid : FileRelease(R)
    BY <2>1 DEF Released, Freed
  <2> QED BY <2>1, <2>2, ReleaseKeeps
<1>5. CASE UNCHANGED vars
  BY <1>5, SameStreams DEF vars, fileVars
<1> QED BY <1>1, <1>2, <1>3, <1>4, <1>5 DEF Next

\* A stream is closed once and not used after that, whatever copies of the file
\* a script makes, hands on, closes and drops (file_close, file_free), as long
\* as reopen is given an open file and does not fail.
THEOREM StreamsAlwaysOnce == Spec => []StreamsOnce
<1>1. StreamInv => StreamsOnce
  BY DEF StreamInv, Separate, StreamsOnce
<1> QED BY <1>1, CountInit, CountStep, StreamInit, StreamStep, PTL DEF Spec
-----------------------------------------------------------------------------
Memblocks == [data : Block \cup {NULL}, size : Nat, rw : BOOLEAN, is : BOOLEAN]
Memory    == [state : {"unused", "live", "freed"}, bytes : Seq(Int)]

\* A record of the state of the module.
IsState(s) == s = [mem |-> s.mem, heap |-> s.heap, fault |-> s.fault, dangling |-> s.dangling]

Has(s, r)  == s.mem[r].is
Others(s, t, r) == \A q \in Rid \ {r} : t.mem[q] = s.mem[q]
Sound(s) == /\ s.mem \in [Rid -> Memblocks]
            /\ s.heap \in [Block -> Memory]
            /\ s.fault \in {"none"} \cup Unguarded
            /\ \A r \in Rid : s.mem[r].is => Fits(s, r)
Safe(s)  == IsState(s) /\ (s.dangling # {} \/ Sound(s))
-----------------------------------------------------------------------------
LEMMA FailsWhat ==
  ASSUME NEW s, IsState(s), NEW what
  PROVE  LET t == Fails(s, what)
         IN /\ IsState(t) /\ t.mem = s.mem /\ t.heap = s.heap /\ t.dangling = s.dangling
            /\ t.fault \in {s.fault, what}
            /\ Sound(s) /\ what \in Unguarded => Sound(t)
<1> DEFINE t == Fails(s, what)
<1>1. IsState(t) /\ t.mem = s.mem /\ t.heap = s.heap /\ t.dangling = s.dangling /\ t.fault \in {s.fault, what}
  BY DEF IsState, Fails
<1> HIDE DEF t
<1>2. Sound(s) /\ what \in Unguarded => Sound(t)
  BY <1>1 DEF Sound, Fits
<1> QED BY <1>1, <1>2 DEF t

LEMMA DanglesWhat ==
  ASSUME NEW s, IsState(s), NEW how, NEW test
  PROVE  LET t == Dangles(s, how, test)
         IN /\ IsState(t) /\ t.mem = s.mem /\ t.heap = s.heap /\ t.fault = s.fault
            /\ s.dangling # {} => t.dangling # {}
            /\ test => t.dangling # {}
            /\ ~test => t = s
<1> DEFINE t == Dangles(s, how, test)
<1>1. CASE test
  <2>1. t = [s EXCEPT !.dangling = s.dangling \cup {how}]
    BY <1>1 DEF Dangles
  <2>2. PICK D : D = s.dangling \cup {how} /\ D # {}
    OBVIOUS
  <2>3. t = [s EXCEPT !.dangling = D]
    BY <2>1, <2>2, Zenon
  <2> HIDE DEF t
  <2>4. IsState(t) /\ t.mem = s.mem /\ t.heap = s.heap /\ t.fault = s.fault /\ t.dangling = D
    BY <2>3 DEF IsState
  <2> QED BY <1>1, <2>2, <2>4 DEF t
<1>2. CASE ~test
  <2>1. t = s
    BY <1>2 DEF Dangles
  <2> HIDE DEF t
  <2> QED BY <1>2, <2>1 DEF t
<1> QED BY <1>1, <1>2

LEMMA PlacedIs ==
  ASSUME NEW s, IsState(s), NEW r, NEW c, NEW q, NEW t, t = Placed(s, r, c, q)
  PROVE  IsState(t) /\ t.dangling = s.dangling
BY DEF Placed, IsState

LEMMA FreedBytes == Gone \in Memory /\ Unused \in Memory /\ \A q \in Seq(Int) : Live(q) \in Memory
BY DEF Gone, Unused, Live, Memory

LEMMA ReleaseWhat ==
  ASSUME NEW s, IsState(s), NEW b
  PROVE  LET u == Release(s, b)
         IN /\ IsState(u) /\ u.mem = s.mem
            /\ s.dangling # {} => u.dangling # {}
            /\ b = NULL => u = s
            /\ b # NULL /\ s.heap[b].state = "live" =>
                 /\ u.heap = [s.heap EXCEPT ![b] = Gone] /\ u.fault = s.fault
                 /\ Shared(s, b) => u.dangling # {}
<1> DEFINE u == Release(s, b)
<1>1. CASE b = NULL
  BY <1>1 DEF Release
<1>2. CASE b # NULL /\ s.heap[b].state # "live"
  BY <1>2 DEF Release, Fails, IsState
<1>3. CASE b # NULL /\ ~(s.heap[b].state # "live")
  <2> DEFINE t == [s EXCEPT !.heap[b] = Gone]
  <2>1. IsState(t) /\ t.mem = s.mem /\ t.dangling = s.dangling /\ t.fault = s.fault
        /\ t.heap = [s.heap EXCEPT ![b] = Gone]
    BY DEF IsState
  <2>2. u = Dangles(t, "freed", Shared(s, b))
    BY <1>3 DEF Release
  <2> HIDE DEF t, u
  <2>3. /\ IsState(u) /\ u.mem = t.mem /\ u.heap = t.heap /\ u.fault = t.fault
        /\ t.dangling # {} => u.dangling # {}
        /\ Shared(s, b) => u.dangling # {}
    BY <2>1, <2>2, DanglesWhat
  <2> QED BY <1>3, <2>1, <2>3 DEF u
<1> QED BY <1>1, <1>2, <1>3

\* Forgetting what is no more, or never was the resource's own.
LEMMA ForgetKeeps ==
  ASSUME NEW s, Safe(s), NEW r \in Rid
  PROVE  Safe(Forget(s, r))
<1> DEFINE t == Forget(s, r)
<1>1. IsState(t) /\ t.dangling = s.dangling /\ t.heap = s.heap /\ t.fault = s.fault /\ t.mem = [s.mem EXCEPT ![r] = Null]
  BY DEF Safe, IsState, Forget
<1> HIDE DEF t
<1>2. CASE s.dangling # {}
  BY <1>1, <1>2 DEF Safe, t
<1>3. CASE Sound(s)
  <2>1. t.mem \in [Rid -> Memblocks] /\ t.mem[r] = Null /\ \A q \in Rid \ {r} : t.mem[q] = s.mem[q]
    BY <1>1, <1>3 DEF Sound, Null, Memblocks, NULL
  <2>2. ASSUME NEW q \in Rid, t.mem[q].is PROVE Fits(t, q)
    <3>1. q # r
      BY <2>1, <2>2 DEF Null
    <3> QED BY <1>1, <1>3, <2>1, <2>2, <3>1 DEF Sound, Fits
  <2> QED BY <1>1, <1>3, <2>1, <2>2 DEF Safe, Sound, t
<1> QED BY <1>2, <1>3 DEF Safe

\* What is left when the block of a resource was released and the resource does
\* not know it any more.
LEMMA CleanUpKeeps ==
  ASSUME NEW s, Safe(s), NEW r \in Rid, Has(s, r)
  PROVE  Safe(CleanUp(s, r))
<1> USE DEF Has
<1> DEFINE b == s.mem[r].data
           u == Release(s, b)
           t == Forget(u, r)
<1>1. /\ IsState(u) /\ u.mem = s.mem /\ (s.dangling # {} => u.dangling # {})
      /\ b = NULL => u = s
      /\ b # NULL /\ s.heap[b].state = "live" =>
           /\ u.heap = [s.heap EXCEPT ![b] = Gone] /\ u.fault = s.fault
           /\ Shared(s, b) => u.dangling # {}
  BY ReleaseWhat DEF Safe
<1> HIDE DEF u
<1>2. IsState(t) /\ t.dangling = u.dangling /\ t.heap = u.heap /\ t.fault = u.fault
      /\ t.mem = [u.mem EXCEPT ![r] = Null]
  BY <1>1 DEF Forget, IsState
<1>3. Safe(t)
  <2>1. CASE s.dangling # {}
    BY <1>1, <1>2, <2>1 DEF Safe
  <2>2. CASE Sound(s) /\ b = NULL
    <3>1. Safe(Forget(s, r))
      BY ForgetKeeps
    <3> QED BY <1>1, <2>2, <3>1
  <2>3. CASE Sound(s) /\ b # NULL /\ Shared(s, b)
    BY <1>1, <1>2, <2>3 DEF Safe, Sound, Fits
  <2>4. CASE Sound(s) /\ b # NULL /\ ~Shared(s, b)
    <3> HIDE DEF t
    <3>1. b \in Block /\ t.heap = [s.heap EXCEPT ![b] = Gone] /\ t.fault = s.fault
      BY <1>1, <1>2, <2>4 DEF Sound, Fits, Memblocks
    <3>2. \A q \in Rid : q # r /\ s.mem[q].is => s.mem[q].data # b
      BY <2>4 DEF Shared, Sharing
    <3>3. t.heap \in [Block -> Memory] /\ \A c \in Block \ {b} : t.heap[c] = s.heap[c]
      BY <2>4, <3>1, FreedBytes DEF Sound
    <3>4. t.mem \in [Rid -> Memblocks] /\ t.mem[r] = Null /\ \A q \in Rid \ {r} : t.mem[q] = s.mem[q]
      BY <1>1, <1>2, <2>4 DEF Sound, Null, Memblocks, NULL
    <3>5. ASSUME NEW q \in Rid, t.mem[q].is PROVE Fits(t, q)
      <4>1. q # r
        BY <3>4, <3>5 DEF Null
      <4>2. t.mem[q] = s.mem[q] /\ Fits(s, q) /\ s.mem[q].data # b /\ s.mem[q].data \in Block \cup {NULL}
        BY <2>4, <3>2, <3>4, <3>5, <4>1 DEF Sound, Memblocks
      <4>3. s.mem[q].data # NULL => t.heap[s.mem[q].data] = s.heap[s.mem[q].data]
        BY <3>3, <4>2
      <4> QED BY <4>2, <4>3 DEF Fits
    <3> QED BY <1>2, <2>4, <3>1, <3>3, <3>4, <3>5 DEF Safe, Sound
  <2> QED BY <2>1, <2>2, <2>3, <2>4 DEF Safe
<1> QED BY <1>3 DEF CleanUp, t, u

LEMMA ReachOnly ==
  ASSUME NEW s, IsState(s), NEW r, NEW off, NEW n, NEW what
  PROVE  LET t == Reach(s, r, off, n, what)
         IN IsState(t) /\ t.dangling = s.dangling /\ t.mem = s.mem /\ t.heap = s.heap
<1> DEFINE t == Reach(s, r, off, n, what)
<1>1. t = s \/ \E w : t = Fails(s, w)
  BY DEF Reach
<1> HIDE DEF t
<1>2. \A w : LET f == Fails(s, w) IN IsState(f) /\ f.dangling = s.dangling /\ f.mem = s.mem /\ f.heap = s.heap
  BY FailsWhat, Zenon
<1>3. IsState(t) /\ t.dangling = s.dangling /\ t.mem = s.mem /\ t.heap = s.heap
  BY <1>1, <1>2, Zenon
<1> QED BY <1>3 DEF t

\* What is read or written is there, or is not tested.
LEMMA ReachWhat ==
  ASSUME NEW s, IsState(s), NEW r \in Rid, NEW off \in Nat, NEW n \in Nat, NEW what,
         Sound(s), Has(s, r)
  PROVE  /\ off + n <= s.mem[r].size => Reach(s, r, off, n, what) = s
         /\ what \in Unguarded => Sound(Reach(s, r, off, n, what))
<1> USE DEF Has
<1> DEFINE b == s.mem[r].data
           t == Reach(s, r, off, n, what)
<1>1. \/ t = s
      \/ t = Fails(s, "afterFree") /\ b # NULL /\ s.heap[b].state # "live" /\ n # 0
      \/ t = Fails(s, what) /\ ~Within(s, b, off, n) /\ n # 0
  BY DEF Reach
<1> HIDE DEF t
<1>2. /\ s.mem[r].size \in Nat
      /\ b = NULL => s.mem[r].size = 0
      /\ b # NULL => /\ s.heap[b].state = "live" /\ Len(s.heap[b].bytes) \in Nat
                     /\ s.mem[r].size <= Len(s.heap[b].bytes)
  BY DEF Sound, Fits, Memblocks, Memory
<1>3. ASSUME off + n <= s.mem[r].size, n # 0 PROVE Within(s, b, off, n)
  BY <1>2, <1>3, SMTT(40) DEF Within
<1>4. ASSUME n = 0 \/ Within(s, b, off, n) PROVE t = s
  BY <1>1, <1>2, <1>4
<1>5. ASSUME what \in Unguarded PROVE Sound(t)
  <2>1. t = s \/ t = Fails(s, what)
    BY <1>1, <1>2
  <2> QED BY <1>5, <2>1, FailsWhat
<1> QED BY <1>3, <1>4, <1>5 DEF t

LEMMA ResizedIs ==
  ASSUME NEW q \in Seq(Int), NEW n \in Nat
  PROVE  Resized(q, n) \in Seq(Int) /\ Len(Resized(q, n)) = n
BY DEF Resized, Undefined

\* realloc of the block of a resource, in place or not.
LEMMA GrownWhat ==
  ASSUME NEW s, Safe(s), NEW r \in Rid, Has(s, r), NEW n \in Nat, NEW t \in Grown(s, r, n)
  PROVE  Safe(t) /\ (t.dangling # {} \/ (Has(t, r) /\ t.mem[r].size = n /\ Others(s, t, r)))
<1> USE DEF Has, Others
<1> DEFINE b == s.mem[r].data
           q == IF b = NULL THEN <<>> ELSE s.heap[b].bytes
           u == Dangles(s, "resized", Shared(s, b))
           v == [u EXCEPT !.heap[b] = Gone]
<1>1. /\ IsState(u) /\ u.mem = s.mem /\ u.heap = s.heap /\ u.fault = s.fault
      /\ s.dangling # {} => u.dangling # {}
      /\ Shared(s, b) => u.dangling # {}
      /\ ~Shared(s, b) => u = s
  BY DanglesWhat DEF Safe
<1>2. IsState(v) /\ v.dangling = u.dangling
  <2> HIDE DEF u
  <2> QED BY <1>1 DEF IsState
<1>3. \/ \E c \in Block : t = Placed(s, r, c, Resized(q, n)) /\ b = NULL /\ s.heap[c].state = "unused"
      \/ t = Fails(s, "afterFree") /\ b # NULL /\ s.heap[b].state # "live"
      \/ t = Placed(u, r, b, Resized(q, n)) /\ b # NULL
      \/ (\E c : t = Placed(v, r, c, Resized(q, n))) /\ Shared(s, b)
  BY ZenonT(60) DEF Grown, NewBlocks
<1> HIDE DEF u, v
<1>4. CASE t = Fails(s, "afterFree") /\ b # NULL /\ s.heap[b].state # "live"
  <2>1. ~Sound(s)
    BY <1>4 DEF Sound, Fits
  <2> QED BY <1>4, <2>1, FailsWhat DEF Safe
<1>5. ASSUME NEW c, t = Placed(v, r, c, Resized(q, n)), Shared(s, b)
      PROVE  IsState(t) /\ t.dangling # {}
  <2>1. IsState(t) /\ t.dangling = v.dangling
    BY <1>2, <1>5, PlacedIs
  <2> QED BY <1>1, <1>2, <1>5, <2>1
<1>6. ASSUME NEW w, w = u \/ w = s, s.dangling # {} \/ Shared(s, b), NEW c, t = Placed(w, r, c, Resized(q, n)),
             w.dangling # {}
      PROVE  IsState(t) /\ t.dangling # {}
  <2>1. IsState(w)
    BY <1>1, <1>6 DEF Safe
  <2>2. IsState(t) /\ t.dangling = w.dangling
    BY <1>6, <2>1, PlacedIs
  <2> QED BY <1>6, <2>2
<1>7. ASSUME Sound(s), NEW c \in Block, t = Placed(s, r, c, Resized(q, n)),
             \A o \in Rid \ {r} : s.mem[o].is => s.mem[o].data # c
      PROVE  Safe(t) /\ Has(t, r) /\ t.mem[r].size = n /\ Others(s, t, r)
  <2>1. q \in Seq(Int)
    BY <1>7 DEF Sound, Memblocks, Memory
  <2>2. Resized(q, n) \in Seq(Int) /\ Len(Resized(q, n)) = n
    BY <2>1, ResizedIs
  <2>3. PICK p : p = Resized(q, n)
    OBVIOUS
  <2>4. /\ IsState(t) /\ t.fault = s.fault
        /\ t.heap = [s.heap EXCEPT ![c] = Live(p)]
        /\ t.mem = [[s.mem EXCEPT ![r].data = c] EXCEPT ![r].size = n]
    <3>1. t = Placed(s, r, c, p) /\ Len(p) = n /\ IsState(s)
      BY <1>7, <2>2, <2>3 DEF Safe
    <3> HIDE DEF q
    <3>2. PICK x : x = [s EXCEPT !.heap[c] = Live(p)]
      OBVIOUS
    <3>3. IsState(x) /\ x.mem = s.mem /\ x.fault = s.fault /\ x.heap = [s.heap EXCEPT ![c] = Live(p)]
      BY <3>1, <3>2 DEF IsState
    <3>4. PICK o : o = [x EXCEPT !.mem[r].data = c]
      OBVIOUS
    <3>5. IsState(o) /\ o.heap = x.heap /\ o.fault = s.fault /\ o.mem = [s.mem EXCEPT ![r].data = c]
      BY <3>3, <3>4 DEF IsState
    <3>6. PICK w : w = [o EXCEPT !.mem[r].size = n]
      OBVIOUS
    <3>7. IsState(w) /\ w.heap = x.heap /\ w.fault = s.fault
          /\ w.mem = [[s.mem EXCEPT ![r].data = c] EXCEPT ![r].size = n]
      BY <3>5, <3>6 DEF IsState
    <3>8. Placed(s, r, c, p) = [[[s EXCEPT !.heap[c] = Live(p)] EXCEPT !.mem[r].data = c] EXCEPT !.mem[r].size = Len(p)]
      BY Zenon DEF Placed
    <3>9. t = w
      BY <3>1, <3>2, <3>4, <3>6, <3>8, Zenon
    <3> QED BY <3>3, <3>7, <3>9
  <2>5. /\ t.heap \in [Block -> Memory] /\ t.heap[c].state = "live" /\ Len(t.heap[c].bytes) = n
        /\ \A o \in Block \ {c} : t.heap[o] = s.heap[o]
    <3>1. p \in Seq(Int) /\ Len(p) = n /\ Live(p) \in Memory
      BY <2>2, <2>3, FreedBytes
    <3>2. s.heap \in [Block -> Memory] /\ c \in Block
      BY <1>7 DEF Sound
    <3>3. t.heap \in [Block -> Memory] /\ t.heap[c] = Live(p) /\ \A o \in Block \ {c} : t.heap[o] = s.heap[o]
      BY <2>4, <3>1, <3>2
    <3> QED BY <3>1, <3>3 DEF Live
  <2>6. /\ t.mem \in [Rid -> Memblocks] /\ t.mem[r].data = c /\ t.mem[r].size = n /\ t.mem[r].is
        /\ \A o \in Rid \ {r} : t.mem[o] = s.mem[o]
    <3>1. s.mem \in [Rid -> Memblocks] /\ c \in Block
      BY <1>7 DEF Sound
    <3>2. PICK m : m = [s.mem EXCEPT ![r].data = c]
      OBVIOUS
    <3>3. m \in [Rid -> Memblocks] /\ m[r].data = c /\ m[r].is = s.mem[r].is /\ \A o \in Rid \ {r} : m[o] = s.mem[o]
      BY <3>1, <3>2 DEF Memblocks
    <3>4. PICK y, z : y = m[r] /\ z = [y EXCEPT !.size = n]
      OBVIOUS
    <3>5. y \in Memblocks /\ y.data = c /\ y.is
      BY <3>3, <3>4, <1>7
    <3>6. z \in Memblocks /\ z.data = c /\ z.size = n /\ z.is = y.is
      BY <3>4, <3>5 DEF Memblocks
    <3>7. t.mem = [m EXCEPT ![r] = z]
      BY <2>4, <3>2, <3>4
    <3>8. z.is
      BY <3>5, <3>6, Zenon
    <3>9. t.mem \in [Rid -> Memblocks] /\ t.mem[r] = z /\ \A o \in Rid \ {r} : t.mem[o] = s.mem[o]
      BY <3>3, <3>6, <3>7
    <3> QED BY <3>6, <3>8, <3>9, Zenon
  <2>7. ASSUME NEW o \in Rid, t.mem[o].is PROVE Fits(t, o)
    <3>1. CASE o = r
      BY <2>5, <2>6, <3>1, MemAssumption DEF Fits, NULL
    <3>2. CASE o # r
      <4>1. t.mem[o] = s.mem[o] /\ Fits(s, o) /\ s.mem[o].data # c /\ s.mem[o].data \in Block \cup {NULL}
        BY <1>7, <2>6, <2>7, <3>2 DEF Sound, Memblocks
      <4>2. s.mem[o].data # NULL => t.heap[s.mem[o].data] = s.heap[s.mem[o].data]
        BY <2>5, <4>1
      <4> QED BY <4>1, <4>2 DEF Fits
    <3> QED BY <3>1, <3>2
  <2> QED BY <1>7, <2>4, <2>5, <2>6, <2>7 DEF Safe, Sound
<1>8. ASSUME NEW c \in Block, t = Placed(s, r, c, Resized(q, n)), b = NULL, s.heap[c].state = "unused"
      PROVE  Safe(t) /\ (t.dangling # {} \/ (Has(t, r) /\ t.mem[r].size = n /\ Others(s, t, r)))
  <2>1. CASE s.dangling # {}
    BY <1>6, <1>8, <2>1 DEF Safe
  <2>2. CASE Sound(s)
    <3>1. ASSUME NEW o \in Rid \ {r}, s.mem[o].is PROVE s.mem[o].data # c
      BY <1>8, <2>2, <3>1, MemAssumption DEF Sound, Fits, NULL
    <3> QED BY <1>7, <1>8, <2>2, <3>1
  <2> QED BY <2>1, <2>2 DEF Safe
<1>9. CASE t = Placed(u, r, b, Resized(q, n)) /\ b # NULL
  <2>1. CASE s.dangling # {} \/ Shared(s, b)
    BY <1>1, <1>6, <1>9, <2>1 DEF Safe
  <2>2. CASE Sound(s) /\ ~Shared(s, b)
    <3>1. b \in Block /\ u = s
      BY <1>1, <1>9, <2>2 DEF Sound, Memblocks
    <3>2. \A o \in Rid \ {r} : s.mem[o].is => s.mem[o].data # b
      BY <2>2 DEF Shared, Sharing
    <3> QED BY <1>7, <1>9, <2>2, <3>1, <3>2
  <2> QED BY <2>1, <2>2 DEF Safe
<1> QED BY <1>3, <1>4, <1>5, <1>8, <1>9 DEF Safe

LEMMA ExtendedWhat ==
  ASSUME NEW s, Safe(s), NEW r \in Rid, Has(s, r), NEW off \in Nat, NEW n \in Nat, NEW t \in Extended(s, r, off, n)
  PROVE  Safe(t) /\ (t.dangling # {} \/ (Has(t, r) /\ off + n <= t.mem[r].size))
<1>1. CASE s.mem[r].size < off + n
  <2>1. t \in Grown(s, r, off + n) /\ off + n \in Nat
    BY <1>1 DEF Extended
  <2>2. Safe(t) /\ (t.dangling # {} \/ (Has(t, r) /\ t.mem[r].size = off + n /\ Others(s, t, r)))
    BY <2>1, GrownWhat, Zenon
  <2> QED BY <2>1, <2>2
<1>2. CASE ~(s.mem[r].size < off + n)
  <2>1. t = s
    BY <1>2 DEF Extended
  <2>2. Sound(s) => s.mem[r].size \in Nat
    BY DEF Sound, Memblocks
  <2> QED BY <1>2, <2>1, <2>2 DEF Safe
<1> QED BY <1>1, <1>2

LEMMA WrittenIs ==
  ASSUME NEW q \in Seq(Int), NEW off \in Nat, NEW w \in Seq(Int)
  PROVE  Written(q, off, w) \in Seq(Int) /\ Len(Written(q, off, w)) = Len(q)
<1>1. ASSUME NEW i \in DOMAIN q PROVE Written(q, off, w)[i] \in Int
  <2>1. CASE i \in (off + 1)..(off + Len(w))
    <3>1. i - off \in 1..Len(w)
      BY <2>1
    <3>2. w[i - off] \in Int
      BY <3>1
    <3> QED BY <2>1, <3>2 DEF Written
  <2>2. CASE i \notin (off + 1)..(off + Len(w))
    BY <2>2 DEF Written
  <2> QED BY <2>1, <2>2
<1>2. DOMAIN Written(q, off, w) = 1..Len(q) /\ Len(q) \in Nat
  BY DEF Written
<1>3. \A i \in 1..Len(q) : Written(q, off, w)[i] \in Int
  BY <1>1
<1>4. Written(q, off, w) \in [1..Len(q) -> Int]
  BY <1>3 DEF Written
<1> HIDE DEF Written
<1> QED BY <1>2, <1>4, SeqDef

LEMMA WroteKeeps ==
  ASSUME NEW s, Safe(s), NEW r \in Rid, NEW off \in Nat, NEW w \in Seq(Int),
         s.dangling # {} \/ (Has(s, r) /\ off + Len(w) <= s.mem[r].size)
  PROVE  Safe(Wrote(s, r, off, w))
<1> DEFINE t == Reach(s, r, off, Len(w), "outside")
           b == s.mem[r].data
           q == Written(s.heap[b].bytes, off, w)
           u == [s EXCEPT !.heap = [s.heap EXCEPT ![b] = Live(q)]]
<1>1. IsState(t) /\ t.dangling = s.dangling
      /\ (Sound(s) /\ Has(s, r) /\ off + Len(w) <= s.mem[r].size => t = s)
  <2>1. Len(w) \in Nat
    OBVIOUS
  <2>2. IsState(s)
    BY DEF Safe
  <2>3. IsState(t) /\ t.dangling = s.dangling
    BY <2>2, ReachOnly
  <2>4. Sound(s) /\ Has(s, r) /\ off + Len(w) <= s.mem[r].size => t = s
    BY <2>1, <2>2, ReachWhat
  <2> QED BY <2>3, <2>4
<1> HIDE DEF t
<1>2. CASE s.dangling # {}
  <2>2. \/ Wrote(s, r, off, w) = t
        \/ Wrote(s, r, off, w) = [t EXCEPT !.heap[t.mem[r].data] = Live(Written(@.bytes, off, w))]
    BY DEF Wrote, t
  <2> DEFINE v == [t EXCEPT !.heap[t.mem[r].data] = Live(Written(@.bytes, off, w))]
  <2>3. IsState(v) /\ v.dangling = t.dangling
    <3>1. IsState(t)
      BY <1>1
    <3>2. PICK h : h = [t.heap EXCEPT ![t.mem[r].data] = Live(Written(@.bytes, off, w))]
      OBVIOUS
    <3>3. PICK x : x = [t EXCEPT !.heap = h]
      OBVIOUS
    <3>4. IsState(x) /\ x.dangling = t.dangling
      BY <3>1, <3>3 DEF IsState
    <3>5. v = x
      BY <3>2, <3>3, Zenon
    <3> QED BY <3>4, <3>5
  <2> HIDE DEF v
  <2> QED BY <1>1, <1>2, <2>2, <2>3 DEF Safe, v
<1>3. CASE Sound(s) /\ ~(s.dangling # {}) /\ Len(w) = 0
  <2>1. t = s
    BY <1>1, <1>3
  <2> QED BY <1>3, <2>1 DEF Wrote, t
<1>4. CASE Sound(s) /\ ~(s.dangling # {}) /\ Len(w) # 0
  <2>1. t = s /\ Has(s, r)
    BY <1>1, <1>4
  <2>2. Wrote(s, r, off, w) = s \/ Wrote(s, r, off, w) = u
    BY <2>1 DEF Wrote, t
  <2>3. IsState(u) /\ u.mem = s.mem /\ u.fault = s.fault
        /\ u.heap = [s.heap EXCEPT ![b] = Live(q)]
    <3>1. IsState(s)
      BY DEF Safe
    <3>2. PICK h : h = [s.heap EXCEPT ![b] = Live(q)]
      OBVIOUS
    <3>3. PICK v : v = [s EXCEPT !.heap = h]
      OBVIOUS
    <3>4. IsState(v) /\ v.mem = s.mem /\ v.heap = h /\ v.fault = s.fault /\ v.dangling = s.dangling
      BY <3>1, <3>3 DEF IsState
    <3>5. u = v
      BY <3>2, <3>3, Zenon
    <3> QED BY <3>2, <3>4, <3>5, Zenon
  <2>4. b \in Block /\ s.heap[b] \in Memory
    <3>1. Len(w) \in Nat /\ Len(w) # 0 /\ off + Len(w) <= s.mem[r].size /\ s.mem[r].size \in Nat
      BY <1>4, <2>1 DEF Sound, Memblocks
    <3>2. PICK l \in Nat, k \in Nat : l = Len(w) /\ k = s.mem[r].size
      BY <3>1
    <3>3. k # 0
      BY <3>1, <3>2
    <3>4. b # NULL
      BY <1>4, <2>1, <3>2, <3>3 DEF Sound, Fits, Has
    <3> QED BY <1>4, <3>4 DEF Sound, Memblocks
  <2>5. q \in Seq(Int) /\ Len(q) = Len(s.heap[b].bytes)
    BY <2>4, WrittenIs DEF Memory
  <2>6. /\ u.heap \in [Block -> Memory]
        /\ u.heap[b].state = "live" /\ Len(u.heap[b].bytes) = Len(s.heap[b].bytes)
        /\ \A c \in Block \ {b} : u.heap[c] = s.heap[c]
    <3>1. u.heap = [s.heap EXCEPT ![b] = Live(q)] /\ Live(q) \in Memory
      BY <2>3, <2>5, FreedBytes
    <3> HIDE DEF q, u
    <3> QED BY <1>4, <2>4, <2>5, <3>1, SMTT(40) DEF Sound, Live, q
  <2> HIDE DEF u
  <2>7. Sound(u)
    <3>1. ASSUME NEW o \in Rid, u.mem[o].is PROVE Fits(u, o)
      <4>1. Fits(s, o) /\ s.mem[o].data \in Block \cup {NULL}
        BY <1>4, <2>3, <3>1 DEF Sound, Memblocks
      <4>2. CASE s.mem[o].data = b
        BY <2>3, <2>4, <2>6, <4>1, <4>2 DEF Fits
      <4>3. CASE s.mem[o].data # b
        BY <2>3, <2>6, <4>1, <4>3 DEF Fits
      <4> QED BY <4>2, <4>3
    <3> QED BY <1>4, <2>3, <2>6, <3>1 DEF Sound
  <2> QED BY <2>2, <2>3, <2>7 DEF Safe
<1> QED BY <1>2, <1>3, <1>4 DEF Safe

LEMMA FilledIs ==
  ASSUME NEW n \in Nat, NEW byte \in Int
  PROVE  Fill(n, byte) \in Seq(Int) /\ Len(Fill(n, byte)) = n
BY DEF Fill
-----------------------------------------------------------------------------
\* The calls of the module.  The arguments that are blocks refer to one.
MemInv == Safe(Now)

LEMMA NowIs == IsState(Now) /\ Now.mem = mem /\ Now.heap = heap /\ Now.fault = fault /\ Now.dangling = dangling
BY DEF IsState, Now

LEMMA BecomesKeeps ==
  ASSUME NEW s, Safe(s), Becomes(s)
  PROVE  MemInv'
<1>1. s = [mem |-> s.mem, heap |-> s.heap, fault |-> s.fault, dangling |-> s.dangling]
  BY DEF Safe, IsState
<1>2. Now' = s
  BY <1>1 DEF Now, Becomes
<1> QED BY <1>2 DEF MemInv

LEMMA ChangesKeeps ==
  ASSUME NEW args, NEW S, \A s \in S : Safe(s), Changes(args, S)
  PROVE  MemInv'
BY BecomesKeeps DEF Changes

LEMMA ValidIs ==
  ASSUME Typed, NEW a \in Argument, Valid(a)
  PROVE  held[a] \in Rid /\ Has(Now, held[a])
BY DEF Typed, Held, Cell, Valid, is_mem, Has, Now

LEMMA LooseStays ==
  ASSUME NEW s, IsState(s), s.dangling # {}
  PROVE  Safe(s)
BY DEF Safe

\* What is read is tested for, or is one of the accesses that are not.
LEMMA ReachKeeps ==
  ASSUME NEW s, Safe(s), NEW r \in Rid, Has(s, r), NEW off \in Nat, NEW n \in Nat, NEW what,
         off + n <= s.mem[r].size \/ what \in Unguarded
  PROVE  Safe(Reach(s, r, off, n, what))
<1> DEFINE t == Reach(s, r, off, n, what)
<1>1. IsState(t) /\ t.dangling = s.dangling
  BY ReachOnly DEF Safe
<1>2. Sound(s) => /\ off + n <= s.mem[r].size => t = s
                  /\ what \in Unguarded => Sound(t)
  BY ReachWhat DEF Safe
<1> HIDE DEF t
<1>3. Safe(t)
  BY <1>1, <1>2 DEF Safe
<1> QED BY <1>3 DEF t

LEMMA PutKeeps ==
  ASSUME MemInv, Typed, NEW a \in Argument, NEW off \in Nat, NEW w \in Seq(Int), NEW s \in Put(a, off, w)
  PROVE  Safe(s)
<1>1. CASE ~Writable(a)
  BY <1>1 DEF Put, MemInv
<1>2. CASE Writable(a)
  <2>1. held[a] \in Rid /\ Has(Now, held[a]) /\ Len(w) \in Nat
    BY <1>2, ValidIs DEF Writable
  <2>2. PICK t \in Extended(Now, held[a], off, Len(w)) : s = Wrote(t, held[a], off, w)
    BY <1>2 DEF Put
  <2>3. Safe(t) /\ (t.dangling # {} \/ (Has(t, held[a]) /\ off + Len(w) <= t.mem[held[a]].size))
    BY <2>1, <2>2, ExtendedWhat, Zenon DEF MemInv
  <2> QED BY <2>1, <2>2, <2>3, WroteKeeps, Zenon
<1> QED BY <1>1, <1>2

\* The bytes that are tested for are there, and those that are read with them are
\* Unguarded where they are not.
LEMMA ReadOnKeeps ==
  ASSUME MemInv, Typed, NEW a \in Argument, NEW off \in Nat, NEW n \in Nat, NEW all \in Nat,
         NEW what, what \in Unguarded \/ all = 0
  PROVE  Safe(ReadOn(a, off, n, all, what))
<1> DEFINE r == held[a]
<1>1. CASE ~Readable(a, off, n)
  BY <1>1 DEF ReadOn, MemInv
<1>2. CASE Readable(a, off, n)
  <2>1. r \in Rid /\ Has(Now, r) /\ (Now.mem[r].size = 0 \/ off + n <= Now.mem[r].size)
    BY <1>2, ValidIs, NowIs DEF Readable
  <2>2. PICK tested : /\ ReadOn(a, off, n, all, what) = Reach(Reach(Now, r, off, n, tested), r, off, all, what)
                      /\ off + n <= Now.mem[r].size \/ tested \in Unguarded
    <3>1. CASE mem[r].size = 0
      BY <1>2, <3>1 DEF ReadOn, Unguarded
    <3>2. CASE mem[r].size # 0
      BY <1>2, <2>1, <3>2, NowIs DEF ReadOn
    <3> QED BY <3>1, <3>2
  <2>3. PICK t : t = Reach(Now, r, off, n, tested)
    OBVIOUS
  <2>4. Safe(t) /\ t.mem = Now.mem
    <3>1. IsState(Now) /\ Safe(Now)
      BY NowIs DEF MemInv
    <3>2. Safe(t)
      BY <2>1, <2>2, <2>3, <3>1, ReachKeeps
    <3>3. t.mem = Now.mem
      BY <2>3, <3>1, ReachOnly
    <3> QED BY <3>2, <3>3
  <2>5. Has(t, r) /\ ReadOn(a, off, n, all, what) = Reach(t, r, off, all, what)
    BY <2>1, <2>2, <2>3, <2>4 DEF Has
  <2>6. CASE all = 0
    BY <2>4, <2>5, <2>6 DEF Reach
  <2>7. CASE what \in Unguarded
    BY <2>1, <2>4, <2>5, <2>7, ReachKeeps
  <2> QED BY <2>6, <2>7
<1> QED BY <1>1, <1>2
-----------------------------------------------------------------------------
\* A pointer to what is not there stays so, whatever the state.
Loose(s) == IsState(s) /\ s.dangling # {}

LEMMA ReachLoose ==
  ASSUME NEW s, Loose(s), NEW r, NEW off, NEW n, NEW what
  PROVE  Loose(Reach(s, r, off, n, what))
<1>1. \/ Reach(s, r, off, n, what) = s
      \/ \E w : Reach(s, r, off, n, what) = Fails(s, w)
  BY DEF Reach
<1> QED BY <1>1, FailsWhat DEF Loose

LEMMA ReadOnLoose ==
  ASSUME Loose(Now), NEW a, NEW off, NEW n, NEW all, NEW what
  PROVE  Loose(ReadOn(a, off, n, all, what))
<1>1. \/ ReadOn(a, off, n, all, what) = Now
      \/ \E tested : ReadOn(a, off, n, all, what) = Reach(Reach(Now, held[a], off, n, tested), held[a], off, all, what)
  BY DEF ReadOn
<1>2. \A tested : Loose(Reach(Now, held[a], off, n, tested))
  BY ReachLoose
<1>3. \A tested : Loose(Reach(Reach(Now, held[a], off, n, tested), held[a], off, all, what))
  BY <1>2, ReachLoose
<1> QED BY <1>1, <1>3

LEMMA GrownLoose ==
  ASSUME NEW s, Loose(s), NEW r, NEW n, NEW t \in Grown(s, r, n)
  PROVE  Loose(t)
<1> DEFINE b == s.mem[r].data
           q == IF b = NULL THEN <<>> ELSE s.heap[b].bytes
           u == Dangles(s, "resized", Shared(s, b))
           v == [u EXCEPT !.heap[b] = Gone]
<1>1. Loose(u)
  BY DanglesWhat DEF Loose
<1>2. Loose(v)
  <2> HIDE DEF u
  <2> QED BY <1>1 DEF Loose, IsState
<1>3. \/ t = Fails(s, "afterFree")
      \/ \E w \in {s, u, v} : \E c : t = Placed(w, r, c, Resized(q, n))
  BY ZenonT(60) DEF Grown
<1> HIDE DEF u, v, q, b
<1>4. CASE t = Fails(s, "afterFree")
  BY <1>4, FailsWhat DEF Loose
<1>5. ASSUME NEW w \in {s, u, v}, NEW c, t = Placed(w, r, c, Resized(q, n))
      PROVE  Loose(t)
  <2>1. Loose(w)
    BY <1>1, <1>2, <1>5
  <2>2. IsState(w) /\ w.dangling # {}
    BY <2>1 DEF Loose
  <2>3. IsState(t) /\ t.dangling = w.dangling
    BY <1>5, <2>2, PlacedIs
  <2> QED BY <2>2, <2>3 DEF Loose
<1> QED BY <1>3, <1>4, <1>5

LEMMA WroteLoose ==
  ASSUME NEW s, Loose(s), NEW r, NEW off, NEW w
  PROVE  Loose(Wrote(s, r, off, w))
<1> DEFINE t == Reach(s, r, off, Len(w), "outside")
           v == [t EXCEPT !.heap[t.mem[r].data] = Live(Written(@.bytes, off, w))]
<1>1. Loose(t)
  BY ReachLoose
<1>2. Wrote(s, r, off, w) \in {t, v}
  BY DEF Wrote
<1> HIDE DEF t
<1>3. Loose(v)
  BY <1>1 DEF Loose, IsState
<1> QED BY <1>1, <1>2, <1>3

LEMMA PutLoose ==
  ASSUME Loose(Now), NEW a, NEW off, NEW w, NEW s \in Put(a, off, w)
  PROVE  Loose(s)
<1>1. CASE s = Now
  BY <1>1
<1>2. CASE s # Now
  <2>1. PICK t \in Extended(Now, held[a], off, Len(w)) : s = Wrote(t, held[a], off, w)
    BY <1>2 DEF Put
  <2>2. t = Now \/ t \in Grown(Now, held[a], off + Len(w))
    BY DEF Extended
  <2>3. Loose(t)
    BY <2>2, GrownLoose
  <2> QED BY <2>1, <2>3, WroteLoose
<1> QED BY <1>1, <1>2

LEMMA CleanUpLoose ==
  ASSUME NEW s, Loose(s), NEW r
  PROVE  Loose(CleanUp(s, r)) /\ Loose(Release(s, s.mem[r].data)) /\ Loose(Forget(s, r))
<1>1. Loose(Release(s, s.mem[r].data))
  BY ReleaseWhat DEF Loose
<1>2. ASSUME NEW t, Loose(t) PROVE Loose(Forget(t, r))
  BY <1>2 DEF Loose, IsState, Forget
<1> QED BY <1>1, <1>2 DEF CleanUp

LEMMA CopyLoose ==
  ASSUME Loose(Now), NEW d, NEW c, NEW i, NEW j, NEW n, NEW s \in Copy(d, i, c, j, n)
  PROVE  Loose(s)
<1> DEFINE dst == held[d]
           src == held[c]
           m   == Clipped(src, j, n)
           G   == IF i + m > mem[dst].size THEN Grown(Now, dst, i + m) ELSE {Now}
           R(t) == Reach(t, src, j, m, "outside")
<1>1. \/ s = Now
      \/ s = Fails(Now, "pastSource")
      \/ \E t \in G : \E q : s = R(t) \/ s = Wrote(R(t), dst, i, q)
  BY Zenon DEF Copy
<1>2. \A t \in G : Loose(t)
  BY GrownLoose
<1> HIDE DEF G, R
<1>3. \A t : Loose(t) => Loose(R(t))
  BY ReachLoose DEF R
<1>4. \A t, q : Loose(t) => Loose(Wrote(t, dst, i, q))
  BY WroteLoose
<1>5. Loose(Fails(Now, "pastSource"))
  BY FailsWhat DEF Loose
<1> QED BY <1>1, <1>2, <1>3, <1>4, <1>5

LEMMA BecomesWith ==
  ASSUME NEW s, IsState(s), NEW m, Becomes([s EXCEPT !.mem = m])
  PROVE  mem' = m /\ heap' = s.heap /\ fault' = s.fault /\ dangling' = s.dangling
<1> DEFINE t == [s EXCEPT !.mem = m]
<1>1. t.mem = m /\ t.heap = s.heap /\ t.fault = s.fault /\ t.dangling = s.dangling
  BY DEF IsState
<1>2. Becomes(t)
  OBVIOUS
<1> HIDE DEF t
<1> QED BY <1>1, <1>2 DEF Becomes

LEMMA MakesLoose ==
  ASSUME NEW s, Loose(s), NEW rel, NEW data, NEW size, NEW rw, Makes(rel, data, size, rw, s)
  PROVE  dangling' # {}
<1>1. PICK m : Becomes([s EXCEPT !.mem = m])
  BY Zenon DEF Makes
<1> QED BY <1>1, BecomesWith DEF Loose

LEMMA ChangesLoose ==
  ASSUME NEW args, NEW S, \A s \in S : Loose(s), Changes(args, S)
  PROVE  dangling' # {}
BY DEF Changes, Becomes, Loose

LEMMA AllocateLoose ==
  ASSUME dangling # {}, NEW bytes, Allocate(bytes)
  PROVE  dangling' # {}
<1>1. CASE ReturnsVoid
  BY <1>1 DEF ReturnsVoid
<1>2. CASE ~ReturnsVoid
  <2>1. PICK b : Makes("mem", b, Len(bytes), TRUE, [Now EXCEPT !.heap[b] = Live(bytes)])
    BY <1>2 DEF Allocate
  <2>2. PICK s : s = [Now EXCEPT !.heap[b] = Live(bytes)]
    OBVIOUS
  <2>3. IsState(s) /\ s.dangling # {}
    BY <2>2, NowIs DEF IsState
  <2>4. Makes("mem", b, Len(bytes), TRUE, s)
    BY <2>1, <2>2, Zenon
  <2>5. Loose(s)
    BY <2>3 DEF Loose
  <2> QED BY <2>4, <2>5, MakesLoose, Zenon
<1> QED BY <1>1, <1>2

LEMMA MemCallLoose ==
  ASSUME dangling # {}, MemCall
  PROVE  dangling' # {}
<1>1. Loose(Now)
  BY NowIs DEF Loose
<1>2. ASSUME NEW how, NEW test PROVE Loose(Dangles(Now, how, test))
  BY <1>1, DanglesWhat DEF Loose
<1>3. CASE mem_malloc \/ mem_calloc \/ mem_cstring
  BY <1>3, AllocateLoose, Zenon DEF mem_malloc, mem_calloc, mem_cstring
<1>4. CASE mem_cnull
  BY <1>4, NowIs DEF mem_cnull, Becomes, IsState
<1>5. CASE mem_realloc
  <2>1. PICK a \in Argument, n \in Sizes : Changes({a}, Reallocated(a, n))
    BY <1>5 DEF mem_realloc
  <2>2. ASSUME NEW s \in Reallocated(a, n) PROVE Loose(s)
    <3>1. PICK u : u = Release(Now, mem[held[a]].data) /\ Loose(u)
      BY <1>1, CleanUpLoose, NowIs
    <3>2. s = Now \/ s = Dangles(u, "emptied", mem[held[a]].data # NULL) \/ s \in Grown(Now, held[a], n)
      BY <3>1 DEF Reallocated
    <3>3. Loose(Dangles(u, "emptied", mem[held[a]].data # NULL))
      BY <3>1, DanglesWhat DEF Loose
    <3> QED BY <1>1, <3>2, <3>3, GrownLoose
  <2> QED BY <2>1, <2>2, ChangesLoose
<1>6. CASE mem_free
  <2>1. PICK a \in Argument : Changes({a}, {IF Valid(a) THEN CleanUp(Now, held[a]) ELSE Now})
    BY <1>6 DEF mem_free
  <2> QED BY <1>1, <2>1, CleanUpLoose, ChangesLoose
<1>7. CASE mem_put \/ mem_put_string
  <2>1. PICK a, off, v : a \in Argument /\ off \in Offsets /\ Changes({a}, Put(a, off, v))
    BY <1>7 DEF mem_put, mem_put_string
  <2> QED BY <1>1, <2>1, PutLoose, ChangesLoose
<1>8. CASE mem_put_pointer
  <2>1. PICK a, p, off, v : a \in Argument /\ p \in Argument /\ off \in Offsets /\
          Changes({a, p}, IF is_mem(p) THEN Put(a, off, v) ELSE {Now})
    BY <1>8 DEF mem_put_pointer
  <2> QED BY <1>1, <2>1, PutLoose, ChangesLoose
<1>9. CASE mem_get \/ mem_get_string \/ mem_string
  <2>1. PICK a, off, n, all, what : a \in Argument /\ Changes({a}, {ReadOn(a, off, n, all, what)})
    BY <1>9, Zenon DEF mem_get, mem_get_string, mem_string
  <2>2. Loose(ReadOn(a, off, n, all, what))
    BY <1>1, ReadOnLoose
  <2> QED BY <2>1, <2>2, ChangesLoose
<1>10. CASE mem_get_pointer
  <2>1. PICK a, off, s :
          /\ a \in Argument /\ off \in Offsets
          /\ s = ReadOn(a, off, Width["pointer"], 0, "outside")
          /\ \/ Becomes(s)
             \/ \E rel, b, test : Makes(rel, b, 0, FALSE, Dangles(Now, "stale", test))
    BY <1>10, ZenonT(60) DEF mem_get_pointer
  <2>2. Loose(s)
    BY <1>1, <2>1, ReadOnLoose
  <2>3. ASSUME NEW rel, NEW b, NEW test, Makes(rel, b, 0, FALSE, Dangles(Now, "stale", test)) PROVE dangling' # {}
    <3>1. PICK t : t = Dangles(Now, "stale", test)
      OBVIOUS
    <3>2. Loose(t) /\ Makes(rel, b, 0, FALSE, t)
      BY <1>2, <2>3, <3>1, Zenon
    <3> QED BY <3>2, MakesLoose, Zenon
  <2> QED BY <1>1, <2>1, <2>2, <2>3 DEF Loose, Becomes
<1>11. CASE mem_cpy
  <2>1. PICK d, c, i, j, n : d \in Argument /\ c \in Argument /\ Changes({d, c}, Copy(d, i, c, j, n))
    BY <1>11 DEF mem_cpy
  <2> QED BY <1>1, <2>1, CopyLoose, ChangesLoose
<1>12. CASE mem_cmp
  <2>1. PICK d, c, i, j, n, s : d \in Argument /\ c \in Argument /\
          Changes({d, c}, {s}) /\ (s = Now \/ s = Reach(Reach(Now, held[d], i, n, "outside"), held[c], j, n, "outside"))
    BY <1>12, Zenon DEF mem_cmp
  <2>2. Loose(s)
    BY <1>1, <2>1, ReachLoose
  <2> QED BY <2>1, <2>2, ChangesLoose
<1>13. CASE mem_chr
  <2>1. PICK a, i, n, s : a \in Argument /\ Changes({a}, {s}) /\ (s = Now \/ s = Reach(Now, held[a], i, n, "outside"))
    BY <1>13, Zenon DEF mem_chr
  <2>2. Loose(s)
    BY <1>1, <2>1, ReachLoose
  <2> QED BY <2>1, <2>2, ChangesLoose
<1>14. CASE mem_set
  <2>1. PICK a \in Argument, i \in Offsets, n \in Sizes, byte \in Bytes :
          Changes({a}, IF ~Valid(a) THEN {Now}
                       ELSE {Wrote(s, held[a], i, Fill(n, byte))
                               : s \in IF i + n > mem[held[a]].size THEN Grown(Now, held[a], i + n) ELSE {Now}})
    BY <1>14 DEF mem_set
  <2> DEFINE v == Fill(n, byte)
             S == IF i + n > mem[held[a]].size THEN Grown(Now, held[a], i + n) ELSE {Now}
  <2>2. \A s \in S : Loose(s)
    BY <1>1, <2>1, GrownLoose
  <2>3. \A s \in S : Loose(Wrote(s, held[a], i, v))
    BY <2>2, WroteLoose
  <2>4. \A s \in (IF ~Valid(a) THEN {Now} ELSE {Wrote(t, held[a], i, v) : t \in S}) : Loose(s)
    BY <1>1, <2>3
  <2> QED BY <2>1, <2>4, ChangesLoose, Zenon
<1> QED BY <1>3, <1>4, <1>5, <1>6, <1>7, <1>8, <1>9, <1>10, <1>11, <1>12, <1>13, <1>14 DEF MemCall
-----------------------------------------------------------------------------
LEMMA InitIs ==
  ASSUME NEW size, NEW b, NEW rw
  PROVE  [mem_init(size, b) EXCEPT !.rw = rw] = [data |-> b, size |-> size, rw |-> rw, is |-> TRUE]
<1>1. PICK y : y = TRUE
  OBVIOUS
<1>2. [[data |-> b, size |-> size, rw |-> y, is |-> y] EXCEPT !.rw = rw] = [data |-> b, size |-> size, rw |-> rw, is |-> y]
  OBVIOUS
<1> QED BY <1>1, <1>2, Zenon DEF mem_init

\* A resource is made with a block that is there, or none.
LEMMA MakesKeeps ==
  ASSUME Typed, NEW s, IsState(s), Sound(s), s.mem = mem,
         NEW b \in Block \cup {NULL}, NEW size \in Nat,
         IF b = NULL THEN size = 0 ELSE s.heap[b].state = "live" /\ size <= Len(s.heap[b].bytes),
         NEW rw \in BOOLEAN, NEW rel, Makes(rel, b, size, rw, s)
  PROVE  MemInv'
<1> DEFINE v == [data |-> b, size |-> size, rw |-> rw, is |-> TRUE]
           m == [r \in Rid |-> IF r = held'[Result] THEN v ELSE mem[r]]
<1>1. PICK k : k = held'[Result]
  OBVIOUS
<1>2. Becomes([s EXCEPT !.mem = m])
  <2>1. [mem_init(size, b) EXCEPT !.rw = rw] = v
    BY InitIs, ZenonT(60)
  <2> QED BY <2>1, Zenon DEF Makes
<1>3. v \in Memblocks
  BY DEF Memblocks
<1> HIDE DEF v
<1>4. m \in [Rid -> Memblocks] /\ \A r \in Rid : m[r] = v \/ m[r] = s.mem[r]
  BY <1>3 DEF Sound
<1> HIDE DEF m
<1>5. mem' = m /\ heap' = s.heap /\ fault' = s.fault /\ dangling' = s.dangling
  BY <1>2, BecomesWith
<1>6. Now' = [mem |-> m, heap |-> s.heap, fault |-> s.fault, dangling |-> s.dangling]
  BY <1>5 DEF Now
<1>7. PICK t : t = [mem |-> m, heap |-> s.heap, fault |-> s.fault, dangling |-> s.dangling]
  OBVIOUS
<1>8. IsState(t) /\ t.mem = m /\ t.heap = s.heap /\ t.fault = s.fault
  BY <1>7 DEF IsState
<1>9. ASSUME NEW r \in Rid, t.mem[r].is PROVE Fits(t, r)
  <2>1. CASE t.mem[r] = v
    BY <1>8, <2>1 DEF Fits, v
  <2>2. CASE t.mem[r] = s.mem[r]
    BY <1>8, <1>9, <2>2 DEF Sound, Fits
  <2> QED BY <1>4, <1>8, <2>1, <2>2
<1>10. Safe(t)
  BY <1>4, <1>8, <1>9 DEF Safe, Sound
<1> QED BY <1>6, <1>7, <1>10 DEF MemInv

LEMMA AllocateKeeps ==
  ASSUME MemInv, Typed, Sound(Now), NEW bytes \in Seq(Int), Allocate(bytes)
  PROVE  MemInv'
<1>1. CASE ReturnsVoid
  BY <1>1 DEF ReturnsVoid, MemInv, Now, Safe, IsState, Sound, Fits
<1>2. CASE ~ReturnsVoid
  <2>1. PICK b \in NewBlocks(Now) : Makes("mem", b, Len(bytes), TRUE, [Now EXCEPT !.heap[b] = Live(bytes)])
    BY <1>2 DEF Allocate
  <2>2. PICK h : h = [heap EXCEPT ![b] = Live(bytes)]
    OBVIOUS
  <2>3. PICK s : s = [Now EXCEPT !.heap = h]
    OBVIOUS
  <2>4. IsState(s) /\ s.mem = mem /\ s.heap = h /\ s.fault = fault /\ s.dangling = dangling
    BY <2>3, NowIs DEF IsState
  <2>5. b \in Block /\ heap[b].state = "unused" /\ heap \in [Block -> Memory] /\ mem \in [Rid -> Memblocks]
    BY NowIs DEF NewBlocks, Sound
  <2>6. /\ h \in [Block -> Memory] /\ h[b].state = "live" /\ h[b].bytes = bytes
        /\ \A c \in Block \ {b} : h[c] = heap[c]
    BY <2>2, <2>5, FreedBytes DEF Live
  <2>7. ASSUME NEW r \in Rid, s.mem[r].is PROVE Fits(s, r)
    <3>1. Fits(Now, r) /\ s.mem[r] = Now.mem[r]
      BY <2>4, <2>7, NowIs DEF Sound
    <3>2. s.mem[r].data \in Block \cup {NULL} /\ (s.mem[r].data # NULL => s.mem[r].data # b)
      BY <2>5, <3>1, NowIs DEF Fits, Memblocks
    <3>3. s.mem[r].data # NULL => h[s.mem[r].data] = heap[s.mem[r].data]
      BY <2>6, <3>2
    <3> QED BY <2>4, <3>1, <3>2, <3>3, NowIs DEF Fits
  <2>8. Sound(s)
    BY <2>4, <2>5, <2>6, <2>7, NowIs DEF Sound
  <2>9. s = [Now EXCEPT !.heap[b] = Live(bytes)]
    BY <2>2, <2>3, NowIs
  <2>10. Makes("mem", b, Len(bytes), TRUE, s)
    BY <2>1, <2>9, Zenon
  <2>11. Len(bytes) \in Nat /\ TRUE \in BOOLEAN
    OBVIOUS
  <2>12. b # NULL /\ s.heap[b].state = "live" /\ Len(bytes) <= Len(s.heap[b].bytes)
    BY <2>4, <2>5, <2>6, MemAssumption DEF NULL
  <2> QED BY <2>4, <2>5, <2>8, <2>10, <2>11, <2>12, MakesKeeps, Zenon
<1> QED BY <1>1, <1>2

LEMMA CnullKeeps ==
  ASSUME MemInv, Typed, mem_cnull
  PROVE  MemInv'
<1>1. PICK k : held'[Result] = k /\ Becomes([Now EXCEPT !.mem = [r \in Rid |-> IF r = k THEN Null ELSE mem[r]]])
  BY DEF mem_cnull
<1>2. CASE k \in Rid
  <2>1. CASE Sound(Now)
    <3>1. mem = [r \in Rid |-> mem[r]]
      BY <2>1, NowIs DEF Sound
    <3>2. [r \in Rid |-> IF r = k THEN Null ELSE mem[r]] = [mem EXCEPT ![k] = Null]
      BY <1>2, <3>1
    <3>3. [Now EXCEPT !.mem = [r \in Rid |-> IF r = k THEN Null ELSE mem[r]]] = Forget(Now, k)
      BY <3>2, NowIs, Zenon DEF Forget
    <3> QED BY <1>1, <1>2, <3>3, ForgetKeeps, BecomesKeeps DEF MemInv
  <2>2. CASE dangling # {}
    BY <1>1, <2>2, BecomesWith, NowIs DEF MemInv, Safe, IsState, Now
  <2> QED BY <2>1, <2>2, NowIs DEF MemInv, Safe
<1>3. k \in Rid
  BY <1>1, CellAssumption DEF mem_cnull, MakeResource, Unallocated, Typed, Cell
<1> QED BY <1>2, <1>3

LEMMA ReallocatedKeeps ==
  ASSUME MemInv, Typed, NEW a \in Argument, NEW n \in Nat, NEW s \in Reallocated(a, n)
  PROVE  Safe(s)
<1>1. CASE ~Valid(a)
  BY <1>1 DEF Reallocated, MemInv
<1>2. CASE Valid(a) /\ n # 0
  <2>1. held[a] \in Rid /\ Has(Now, held[a]) /\ s \in Grown(Now, held[a], n)
    BY <1>2, ValidIs DEF Reallocated
  <2> QED BY <2>1, GrownWhat, Zenon DEF MemInv
<1>3. CASE Valid(a) /\ n = 0
  <2> DEFINE b == mem[held[a]].data
             u == Release(Now, b)
  <2>1. IsState(u) /\ (Now.dangling # {} => u.dangling # {}) /\ (b = NULL => u = Now)
    BY NowIs, ReleaseWhat
  <2>2. s = Dangles(u, "emptied", b # NULL)
    BY <1>3 DEF Reallocated
  <2> HIDE DEF u
  <2>3. IsState(s) /\ (u.dangling # {} => s.dangling # {}) /\ (b # NULL => s.dangling # {}) /\ (b = NULL => s = u)
    BY <2>1, <2>2, DanglesWhat
  <2> QED BY <2>1, <2>3 DEF Safe, MemInv
<1> QED BY <1>1, <1>2, <1>3

\* The first zero byte from an offset on.
LEMMA ToZeroIs ==
  ASSUME NEW q \in Seq(Int), NEW off \in Nat
  PROVE  ToZero(q, off) \in Nat
<1> DEFINE Z == {i \in DOMAIN q : i > off /\ q[i] = 0}
           First_(i) == i \in DOMAIN q /\ i > off /\ q[i] = 0 /\ \A j \in (off + 1)..(i - 1) : q[j] # 0
<1>1. Len(q) \in Nat /\ DOMAIN q = 1..Len(q)
  OBVIOUS
<1>2. CASE Z = {}
  <2>1. ToZero(q, off) = Len(q) + 1
    BY <1>2 DEF ToZero
  <2> QED BY <1>1, <2>1
<1>3. CASE Z # {}
  <2>1. PICK i \in Z : \A j \in Z : i <= j
    <3>1. Z \in SUBSET Nat
      OBVIOUS
    <3> QED BY <1>3, <3>1, LeastNumber
  <2>2. First_(i)
    BY <1>1, <2>1
  <2>3. ToZero(q, off) = (CHOOSE k \in DOMAIN q : k > off /\ q[k] = 0 /\ \A j \in (off + 1)..(k - 1) : q[j] # 0) - off
    BY <1>3 DEF ToZero
  <2>4. PICK k : k = CHOOSE l \in DOMAIN q : l > off /\ q[l] = 0 /\ \A j \in (off + 1)..(l - 1) : q[j] # 0
    OBVIOUS
  <2>5. k \in DOMAIN q /\ k > off
    BY <2>2, <2>4
  <2> QED BY <1>1, <2>3, <2>4, <2>5
<1> QED BY <1>2, <1>3

LEMMA StringKeeps ==
  ASSUME MemInv, Typed, Sound(Now), mem_string
  PROVE  MemInv'
<1>1. PICK a, off, n :
        /\ a \in Argument /\ off \in Offsets
        /\ n = IF mem[held[a]].data = NULL THEN 1 ELSE ToZero(heap[mem[held[a]].data].bytes, off)
        /\ Changes({a}, {ReadOn(a, off, 1, n, "noZero")})
  BY Zenon DEF mem_string
<1>2. off \in Nat
  BY <1>1, MemAssumption
<1>3. CASE ~Readable(a, off, 1)
  BY <1>1, <1>3, ChangesKeeps DEF MemInv, ReadOn
<1>4. CASE Readable(a, off, 1)
  <2> DEFINE b == mem[held[a]].data
  <2>1. b = NULL \/ (b \in Block /\ heap[b].bytes \in Seq(Int))
    BY <1>1, <1>4, ValidIs, NowIs DEF Readable, Sound, Has, Memblocks, Memory
  <2>2. n \in Nat
    BY <1>1, <1>2, <2>1, ToZeroIs
  <2>3. Safe(ReadOn(a, off, 1, n, "noZero"))
    BY <1>1, <1>2, <2>2, ReadOnKeeps DEF Unguarded
  <2> QED BY <1>1, <2>3, ChangesKeeps
<1> QED BY <1>3, <1>4

\* A pointer that was read is NULL, of a block that is there, or stale.
LEMMA GetPointerKeeps ==
  ASSUME MemInv, Typed, Sound(Now), mem_get_pointer
  PROVE  MemInv'
<1> DEFINE W == Width["pointer"]
           S(a, off) == ReadOn(a, off, W, 0, "outside")
           Q(a, off) == IF mem[held[a]].data = NULL THEN <<>> ELSE Read(heap[mem[held[a]].data].bytes, off, W)
<1>1. PICK a \in Argument, off \in Offsets, cleanup \in BOOLEAN :
        \/ Becomes(S(a, off))
        \/ \E b \in PointedTo(Q(a, off)) :
             Makes(IF cleanup THEN "mem" ELSE "half", b, 0, FALSE,
                   Dangles(Now, "stale", b # NULL /\ heap[b].state # "live"))
  BY ZenonT(60) DEF mem_get_pointer
<1> HIDE DEF Q
<1>2. CASE Becomes(S(a, off))
  <2>1. off \in Nat /\ W \in Nat
    BY MemAssumption
  <2>2. Safe(S(a, off))
    BY <2>1, ReadOnKeeps
  <2> QED BY <1>2, <2>2, BecomesKeeps
<1>3. ASSUME NEW b \in PointedTo(Q(a, off)),
             Makes(IF cleanup THEN "mem" ELSE "half", b, 0, FALSE,
                   Dangles(Now, "stale", b # NULL /\ heap[b].state # "live"))
      PROVE  MemInv'
  <2>1. PICK u, test : u = Dangles(Now, "stale", test) /\ (test <=> b # NULL /\ heap[b].state # "live")
                       /\ u = Dangles(Now, "stale", b # NULL /\ heap[b].state # "live")
    OBVIOUS
  <2>2. PICK rel : rel = IF cleanup THEN "mem" ELSE "half"
    OBVIOUS
  <2>3. Makes(rel, b, 0, FALSE, u)
    BY <1>3, <2>1, <2>2, Zenon
  <2>4. IsState(u) /\ (test => u.dangling # {}) /\ (~test => u = Now)
    BY <2>1, NowIs, DanglesWhat
  <2>5. CASE test
    <3>1. Loose(u)
      BY <2>4, <2>5 DEF Loose
    <3>2. dangling' # {}
      BY <2>3, <3>1, MakesLoose, Zenon
    <3> QED BY <3>2 DEF MemInv, Safe, IsState, Now
  <2>6. CASE ~test
    <3>1. b \in Block \cup {NULL} /\ (b # NULL => heap[b].state = "live")
      BY <2>1, <2>6 DEF PointedTo
    <3>2. IsState(u) /\ u.mem = mem /\ u.heap = heap /\ Sound(u)
      BY <2>4, <2>6, NowIs
    <3>3. b # NULL => 0 <= Len(u.heap[b].bytes)
      BY <3>1, <3>2 DEF Sound, Memory
    <3>4. 0 \in Nat /\ FALSE \in BOOLEAN
          /\ IF b = NULL THEN 0 = 0 ELSE u.heap[b].state = "live" /\ 0 <= Len(u.heap[b].bytes)
      BY <3>1, <3>2, <3>3
    <3> QED BY <2>3, <3>1, <3>2, <3>4, MakesKeeps, Zenon
  <2> QED BY <2>5, <2>6
<1> QED BY <1>1, <1>2, <1>3

LEMMA ReadIs ==
  ASSUME NEW q \in Seq(Int), NEW off \in Nat, NEW n \in Nat, off + n <= Len(q)
  PROVE  Read(q, off, n) \in Seq(Int) /\ Len(Read(q, off, n)) = n
<1> DEFINE t == Read(q, off, n)
<1>1. Len(q) \in Nat /\ \A i \in 1..Len(q) : q[i] \in Int
  OBVIOUS
<1>2. t = [i \in 1..n |-> q[i + off]]
  BY <1>1 DEF Read
<1>3. t \in [1..n -> Int]
  BY <1>1, <1>2
<1> HIDE DEF t
<1>4. t \in Seq(Int)
  BY <1>3, SeqDef
<1>5. Len(t) = n
  BY <1>3, <1>4
<1> QED BY <1>4, <1>5 DEF t

\* What is copied fits into the source and, when it was grown, the destination,
\* which may be the same block.
LEMMA BytesCopiedKeep ==
  ASSUME MemInv, Typed, Sound(Now), NEW d \in Argument, NEW c \in Argument, NEW i \in Nat, NEW j \in Nat, NEW n \in Nat,
         NEW s \in Copy(d, i, c, j, n)
  PROVE  Safe(s)
<1> DEFINE dst == held[d]
           src == held[c]
           m   == Clipped(src, j, n)
           G   == IF i + m > mem[dst].size THEN Grown(Now, dst, i + m) ELSE {Now}
           R(t) == Reach(t, src, j, m, "outside")
           Q(t) == IF t.mem[src].data = NULL THEN <<>> ELSE Read(t.heap[t.mem[src].data].bytes, j, m)
<1>1. CASE s = Now
  BY <1>1 DEF MemInv
<1>2. CASE s # Now
  <2>1. Valid(d) /\ Valid(c)
    BY <1>2 DEF Copy
  <2>2. dst \in Rid /\ Has(Now, dst) /\ src \in Rid /\ Has(Now, src)
    BY <2>1, ValidIs
  <2>3. mem[src].size \in Nat /\ mem[dst].size \in Nat
    BY <2>2, NowIs DEF Sound, Memblocks
  <2>4. m \in Int /\ m <= mem[src].size - j
    BY <2>3 DEF Clipped, Least
  <2>5. CASE m < 0
    <3>1. s = Fails(Now, "pastSource")
      BY <1>2, <2>1, <2>5 DEF Copy
    <3> QED BY <3>1, NowIs, FailsWhat DEF Safe, Unguarded
  <2>6. CASE ~(m < 0)
    <3>1. PICK t \in G : s = IF R(t).fault # "none" THEN R(t) ELSE Wrote(R(t), dst, i, Q(t))
      BY <1>2, <2>1, <2>6, Zenon DEF Copy
    <3>2. m \in Nat /\ i + m \in Nat
      BY <2>4, <2>6
    <3>3. Safe(t) /\ (t.dangling # {} \/ (Has(t, dst) /\ i + m <= t.mem[dst].size
                                         /\ Has(t, src) /\ j + m <= t.mem[src].size))
      <4>1. CASE i + m > mem[dst].size
        <5>1. t \in Grown(Now, dst, i + m)
          BY <4>1
        <5>2. Safe(t) /\ (t.dangling # {} \/ (Has(t, dst) /\ t.mem[dst].size = i + m /\ Others(Now, t, dst)))
          BY <2>2, <3>2, <5>1, GrownWhat, ZenonT(60) DEF MemInv
        <5>3. CASE src = dst
          BY <2>3, <2>4, <4>1, <5>2, <5>3
        <5>4. CASE src # dst
          <6>1. Others(Now, t, dst) => t.mem[src] = mem[src]
            BY <2>2, <5>4, NowIs DEF Others
          <6> QED BY <2>2, <2>3, <2>4, <3>2, <5>2, <6>1, NowIs DEF Has
        <5> QED BY <5>3, <5>4
      <4>2. CASE ~(i + m > mem[dst].size)
        BY <2>2, <2>3, <2>4, <3>2, <4>2, NowIs DEF MemInv
      <4> QED BY <4>1, <4>2
    <3> HIDE DEF G, m
    <3>4. CASE t.dangling # {}
      <4>1. Loose(R(t))
        BY <3>3, <3>4, ReachLoose DEF Safe, Loose
      <4> HIDE DEF R
      <4>2. Loose(Wrote(R(t), dst, i, Q(t)))
        BY <4>1, WroteLoose
      <4> QED BY <3>1, <4>1, <4>2 DEF Loose, Safe
    <3>5. CASE ~(t.dangling # {})
      <4>1. IsState(t) /\ Sound(t)
        BY <3>3, <3>5 DEF Safe
      <4>2. R(t) = t
        <5>1. Has(t, src) /\ j + m <= t.mem[src].size
          BY <3>3, <3>5
        <5> QED BY <2>2, <3>2, <4>1, <5>1, ReachWhat
      <4> HIDE DEF R, Q
      <4>3. s = t \/ s = Wrote(t, dst, i, Q(t))
        BY <3>1, <4>2
      <4>4. Q(t) \in Seq(Int) /\ Len(Q(t)) = m
        <5>0. CASE t.mem[src].data = NULL
          <6>1. t.mem[src].size = 0 /\ j + m <= 0
            BY <2>2, <3>3, <3>5, <4>1, <5>0 DEF Sound, Has, Fits
          <6>2. m = 0
            BY <3>2, <6>1
          <6>3. Q(t) = <<>>
            BY <5>0 DEF Q
          <6> QED BY <6>2, <6>3
        <5> SUFFICES ASSUME t.mem[src].data # NULL PROVE Q(t) \in Seq(Int) /\ Len(Q(t)) = m
          BY <5>0
        <5>1. Fits(t, src) /\ t.mem[src].data # NULL /\ t.mem[src].data \in Block
          BY <2>2, <3>3, <3>5, <4>1 DEF Sound, Has, Memblocks
        <5>2. /\ t.heap[t.mem[src].data].bytes \in Seq(Int) /\ t.mem[src].size \in Nat
              /\ j + m <= t.mem[src].size /\ t.mem[src].size <= Len(t.heap[t.mem[src].data].bytes)
          BY <2>2, <3>3, <3>5, <4>1, <5>1 DEF Sound, Fits, Memory, Memblocks
        <5>3. Q(t) = Read(t.heap[t.mem[src].data].bytes, j, m)
          BY <5>1 DEF Q
        <5>4. j + m <= Len(t.heap[t.mem[src].data].bytes)
          <6>1. PICK q \in Seq(Int), k \in Nat : q = t.heap[t.mem[src].data].bytes /\ k = t.mem[src].size
            BY <5>2
          <6>2. j + m <= k /\ k <= Len(q)
            BY <5>2, <6>1, Zenon
          <6>3. j + m <= Len(q)
            <7>1. PICK l \in Nat : l = Len(q)
              OBVIOUS
            <7>2. m \in Nat /\ j + m <= k /\ k <= l
              BY <3>2, <6>2, <7>1
            <7> QED BY <7>1, <7>2
          <6> QED BY <6>1, <6>3
        <5>5. PICK q \in Seq(Int) : q = t.heap[t.mem[src].data].bytes
          BY <5>2
        <5>6. Read(q, j, m) \in Seq(Int) /\ Len(Read(q, j, m)) = m
          <6>1. m \in Nat /\ j + m <= Len(q)
            BY <3>2, <5>4, <5>5
          <6> QED BY <6>1, ReadIs
        <5> QED BY <5>3, <5>5, <5>6
      <4>5. Has(t, dst) /\ i + Len(Q(t)) <= t.mem[dst].size
        BY <3>3, <3>5, <4>4
      <4>6. Safe(Wrote(t, dst, i, Q(t)))
        BY <2>2, <3>3, <4>4, <4>5, WroteKeeps, Zenon
      <4> QED BY <3>3, <4>3, <4>6
    <3> QED BY <3>4, <3>5
  <2> QED BY <2>5, <2>6
<1> QED BY <1>1, <1>2

LEMMA SetKeeps ==
  ASSUME MemInv, Typed, NEW a \in Argument, Valid(a), NEW i \in Nat, NEW n \in Nat, NEW byte \in Int,
         NEW s \in IF i + n > mem[held[a]].size THEN Grown(Now, held[a], i + n) ELSE {Now},
         Sound(Now)
  PROVE  Safe(Wrote(s, held[a], i, Fill(n, byte)))
<1>1. held[a] \in Rid /\ Has(Now, held[a]) /\ mem[held[a]].size \in Nat /\ i + n \in Nat
  BY ValidIs, NowIs DEF Sound, Memblocks
<1>2. Fill(n, byte) \in Seq(Int) /\ Len(Fill(n, byte)) = n
  BY FilledIs
<1>3. Safe(s) /\ (s.dangling # {} \/ (Has(s, held[a]) /\ i + Len(Fill(n, byte)) <= s.mem[held[a]].size))
  <2>1. CASE i + n > mem[held[a]].size
    <3>1. s \in Grown(Now, held[a], i + n)
      BY <2>1
    <3>2. Safe(s) /\ (s.dangling # {} \/ (Has(s, held[a]) /\ s.mem[held[a]].size = i + n /\ Others(Now, s, held[a])))
      BY <1>1, <3>1, GrownWhat, Zenon DEF MemInv
    <3> QED BY <1>1, <1>2, <3>2
  <2>2. CASE ~(i + n > mem[held[a]].size)
    BY <1>1, <1>2, <2>2, NowIs DEF MemInv
  <2> QED BY <2>1, <2>2
<1> QED BY <1>1, <1>2, <1>3, WroteKeeps, Zenon

LEMMA MemCallKeeps ==
  ASSUME MemInv, Typed, Sound(Now), MemCall
  PROVE  MemInv'
<1> USE DEF MemInv
<1>1. /\ Offsets \subseteq Nat /\ Sizes \subseteq Nat /\ Bytes \subseteq Int
      /\ Width \in [DOMAIN Width -> Nat] /\ "int" \in DOMAIN Width /\ "pointer" \in DOMAIN Width
      /\ "float" \in DOMAIN Width => "double" \in DOMAIN Width
  BY MemAssumption
<1>2. CASE mem_malloc \/ mem_calloc \/ mem_cstring
  <2>1. PICK bytes \in Seq(Int) : Allocate(bytes)
    <3>1. CASE mem_malloc
      BY <1>1, <3>1, FilledIs DEF mem_malloc, Undefined
    <3>2. CASE mem_calloc
      <4>1. PICK n \in Nat, w \in Nat : Allocate(Fill(n * w, 0))
        BY <1>1, <3>2 DEF mem_calloc
      <4>2. n * w \in Nat
        OBVIOUS
      <4> QED BY <4>1, <4>2, FilledIs
    <3>3. CASE mem_cstring
      <4>1. PICK byte \in Int : Allocate(<<byte, 0>>)
        BY <1>1, <3>3 DEF mem_cstring
      <4>2. <<byte, 0>> \in Seq(Int)
        OBVIOUS
      <4> QED BY <4>1, <4>2
    <3> QED BY <1>2, <3>1, <3>2, <3>3
  <2> QED BY <2>1, AllocateKeeps
<1>3. CASE mem_cnull
  BY <1>3, CnullKeeps
<1>4. CASE mem_realloc
  BY <1>1, <1>4, ReallocatedKeeps, ChangesKeeps DEF mem_realloc
<1>5. CASE mem_free
  <2>1. PICK a \in Argument : Changes({a}, {IF Valid(a) THEN CleanUp(Now, held[a]) ELSE Now})
    BY <1>5 DEF mem_free
  <2>2. Valid(a) => Safe(CleanUp(Now, held[a]))
    BY ValidIs, CleanUpKeeps
  <2> QED BY <2>1, <2>2, ChangesKeeps
<1>6. CASE mem_put
  <2>1. PICK a \in Argument, type \in DOMAIN Width, off \in Nat, byte \in Int :
          Changes({a}, Put(a, off, Fill(Width[type], byte)))
    BY <1>1, <1>6 DEF mem_put
  <2>2. Fill(Width[type], byte) \in Seq(Int)
    BY <1>1, FilledIs
  <2> QED BY <2>1, <2>2, PutKeeps, ChangesKeeps
<1>7. CASE mem_put_string
  <2>1. PICK a \in Argument, n \in Nat, off \in Nat, byte \in Int : Changes({a}, Put(a, off, Fill(n, byte)))
    BY <1>1, <1>7 DEF mem_put_string
  <2> QED BY <2>1, FilledIs, PutKeeps, ChangesKeeps
<1>8. CASE mem_put_pointer
  <2>1. PICK a \in Argument, p \in Argument, off \in Nat :
          Changes({a, p}, IF is_mem(p) THEN Put(a, off, Fill(Width["pointer"], Pointer(mem[held[p]].data))) ELSE {Now})
    BY <1>1, <1>8 DEF mem_put_pointer
  <2>2. CASE is_mem(p)
    <3>1. held[p] \in Rid
      BY <2>2 DEF is_mem, Typed, Held, Cell
    <3>2. mem[held[p]].data \in Nat
      BY <3>1, NowIs, MemAssumption DEF Sound, Memblocks, NULL
    <3>3. Pointer(mem[held[p]].data) \in Int
      BY <3>2 DEF Pointer
    <3>4. Fill(Width["pointer"], Pointer(mem[held[p]].data)) \in Seq(Int)
      BY <1>1, <3>3, FilledIs
    <3> QED BY <2>1, <2>2, <3>4, PutKeeps, ChangesKeeps
  <2>3. CASE ~is_mem(p)
    BY <2>1, <2>3, ChangesKeeps
  <2> QED BY <2>2, <2>3
<1>9. CASE mem_get
  <2>1. PICK a \in Argument, type \in DOMAIN Width, off \in Nat :
          Changes({a}, {ReadOn(a, off, Width[type], Taken(type), "wider")})
    BY <1>1, <1>9 DEF mem_get
  <2>2. Width[type] \in Nat /\ Taken(type) \in Nat
    BY <1>1 DEF Taken
  <2>3. Safe(ReadOn(a, off, Width[type], Taken(type), "wider"))
    BY <2>2, ReadOnKeeps DEF Unguarded
  <2> QED BY <2>1, <2>3, ChangesKeeps
<1>10. CASE mem_get_string
  <2>1. PICK a \in Argument, n \in Nat, off \in Nat : Changes({a}, {ReadOn(a, off, n, 0, "outside")})
    BY <1>1, <1>10 DEF mem_get_string
  <2>2. Safe(ReadOn(a, off, n, 0, "outside"))
    BY ReadOnKeeps
  <2> QED BY <2>1, <2>2, ChangesKeeps
<1>11. CASE mem_string
  BY <1>11, StringKeeps
<1>12. CASE mem_get_pointer
  BY <1>12, GetPointerKeeps
<1>13. CASE mem_cpy
  <2>1. PICK d \in Argument, c \in Argument, i \in Nat, j \in Nat, n \in Nat : Changes({d, c}, Copy(d, i, c, j, n))
    BY <1>1, <1>13 DEF mem_cpy
  <2> QED BY <2>1, BytesCopiedKeep, ChangesKeeps
<1>14. CASE mem_cmp
  <2>1. PICK d \in Argument, c \in Argument, i \in Nat, j \in Nat, n \in Nat :
          Changes({d, c}, {IF \/ ~Valid(d) \/ ~Valid(c)
                              \/ i + n > mem[held[d]].size \/ j + n > mem[held[c]].size
                           THEN Now ELSE Reach(Reach(Now, held[d], i, n, "outside"), held[c], j, n, "outside")})
    BY <1>1, <1>14 DEF mem_cmp
  <2>2. ASSUME Valid(d), Valid(c), ~(i + n > mem[held[d]].size), ~(j + n > mem[held[c]].size)
        PROVE  Reach(Reach(Now, held[d], i, n, "outside"), held[c], j, n, "outside") = Now
    <3>1. held[d] \in Rid /\ Has(Now, held[d]) /\ held[c] \in Rid /\ Has(Now, held[c])
      BY <2>2, ValidIs
    <3>2. i + n <= Now.mem[held[d]].size /\ j + n <= Now.mem[held[c]].size
      BY <2>2, <3>1, NowIs DEF Sound, Memblocks
    <3>3. Reach(Now, held[d], i, n, "outside") = Now
      BY <3>1, <3>2, NowIs, ReachWhat
    <3>4. Reach(Now, held[c], j, n, "outside") = Now
      BY <3>1, <3>2, NowIs, ReachWhat
    <3> QED BY <3>3, <3>4
  <2> QED BY <2>1, <2>2, ChangesKeeps
<1>15. CASE mem_chr
  <2>1. PICK a \in Argument, i \in Nat, n \in Nat :
          Changes({a}, {IF ~Valid(a) \/ i + n > mem[held[a]].size THEN Now ELSE Reach(Now, held[a], i, n, "outside")})
    BY <1>1, <1>15 DEF mem_chr
  <2>2. ASSUME Valid(a), ~(i + n > mem[held[a]].size) PROVE Safe(Reach(Now, held[a], i, n, "outside"))
    <3>1. held[a] \in Rid /\ Has(Now, held[a])
      BY <2>2, ValidIs
    <3>2. i + n <= Now.mem[held[a]].size
      BY <2>2, <3>1, NowIs DEF Sound, Memblocks
    <3> QED BY <3>1, <3>2, ReachKeeps
  <2> QED BY <2>1, <2>2, ChangesKeeps
<1>16. CASE mem_set
  <2>1. PICK a \in Argument, i \in Nat, n \in Nat, byte \in Int :
          Changes({a}, IF ~Valid(a) THEN {Now}
                       ELSE {Wrote(s, held[a], i, Fill(n, byte))
                               : s \in IF i + n > mem[held[a]].size THEN Grown(Now, held[a], i + n) ELSE {Now}})
    BY <1>1, <1>16 DEF mem_set
  <2>2. CASE ~Valid(a)
    BY <2>1, <2>2, ChangesKeeps
  <2>3. CASE Valid(a)
    <3> DEFINE S == IF i + n > mem[held[a]].size THEN Grown(Now, held[a], i + n) ELSE {Now}
    <3>1. \A s \in S : Safe(Wrote(s, held[a], i, Fill(n, byte)))
      BY <2>3, SetKeeps
    <3>2. Changes({a}, {Wrote(s, held[a], i, Fill(n, byte)) : s \in S})
      BY <2>1, <2>3
    <3> HIDE DEF S
    <3>3. \A t \in {Wrote(s, held[a], i, Fill(n, byte)) : s \in S} : Safe(t)
      BY <3>1
    <3> QED BY <3>2, <3>3, ChangesKeeps, Zenon
  <2> QED BY <2>2, <2>3
<1> QED BY <1>2, <1>3, <1>4, <1>5, <1>6, <1>7, <1>8, <1>9, <1>10, <1>11, <1>12, <1>13, <1>14, <1>15, <1>16 DEF MemCall
-----------------------------------------------------------------------------
\* A block that goes with the last value that refers to it.
LEMMA MemReleaseKeeps ==
  ASSUME MemInv, NEW R \in SUBSET Rid,
         Becomes(IF R = {} THEN Now ELSE MemRelease(Now, CHOOSE r \in R : TRUE))
  PROVE  MemInv'
<1>1. CASE R = {}
  BY <1>1, BecomesKeeps DEF MemInv
<1>2. CASE R # {}
  <2>1. PICK r : r = CHOOSE q \in R : TRUE
    OBVIOUS
  <2>2. r \in Rid
    BY <1>2, <2>1
  <2>3. MemRelease(Now, r) \in {Now, CleanUp(Now, r), Forget(Now, r)}
        /\ (MemRelease(Now, r) = CleanUp(Now, r) => Has(Now, r) \/ MemRelease(Now, r) \in {Now, Forget(Now, r)})
    BY DEF MemRelease, Has
  <2>4. Safe(MemRelease(Now, r))
    BY <2>2, <2>3, CleanUpKeeps, ForgetKeeps DEF MemInv
  <2> QED BY <1>2, <2>1, <2>4, BecomesKeeps
<1> QED BY <1>1, <1>2

LEMMA MemInit == Init => MemInv
<1> SUFFICES ASSUME Init PROVE MemInv
  OBVIOUS
<1>1. mem = [r \in Rid |-> Null] /\ heap = [b \in Block |-> Unused] /\ fault = "none" /\ dangling = {}
  BY DEF Init
<1>2. Null \in Memblocks /\ ~Null.is
  BY DEF Null, Memblocks, NULL
<1>3. Sound(Now)
  BY <1>1, <1>2, NowIs, FreedBytes DEF Sound
<1> QED BY <1>3, NowIs DEF MemInv, Safe

LEMMA MemStep == CountInv /\ MemInv /\ [Next]_vars => MemInv'
<1> SUFFICES ASSUME Typed, MemInv, [Next]_vars PROVE MemInv'
  BY DEF CountInv, Counted
<1>1. ASSUME UNCHANGED memVars PROVE MemInv'
  BY <1>1 DEF memVars, MemInv, Safe, IsState, Sound, Fits, Now
<1>2. CASE LoadFirst \/ LoadSecond \/ Reference \/ ArgumentsFreed
  BY <1>1, <1>2 DEF LoadFirst, LoadSecond, Reference, ArgumentsFreed, Idle
<1>3. CASE CallMem
  <2>1. CASE dangling # {}
    <3>1. dangling' # {}
      BY <1>3, <2>1, MemCallLoose DEF CallMem
    <3> QED BY <3>1 DEF MemInv, Safe, IsState, Now
  <2>2. CASE Sound(Now)
    BY <1>3, <2>2, MemCallKeeps DEF CallMem
  <2> QED BY <2>1, <2>2, NowIs DEF MemInv, Safe
<1>4. CASE CallFile
  BY <1>1, <1>4 DEF CallFile
<1>5. CASE WriteFirst \/ WriteSecond \/ FreeArgument \/ StoreResult \/ FreeResult \/ Unset
  <2>1. Released
    BY <1>5 DEF WriteFirst, WriteSecond, WriteBack, FreeArgument, StoreResult, FreeResult, Unset
  <2>2. PICK R \in SUBSET Rid : Becomes(IF R = {} THEN Now ELSE MemRelease(Now, CHOOSE r \in R : TRUE))
    BY <2>1 DEF Released, Freed
  <2> QED BY <2>2, MemReleaseKeeps
<1>6. CASE UNCHANGED vars
  BY <1>1, <1>6 DEF vars
<1> QED BY <1>2, <1>3, <1>4, <1>5, <1>6 DEF Next

\* Whatever a script calls the functions of the mem module with and hands on,
\* stores or drops in between (mem_malloc to mem_set, mem_cleanup), a resource is
\* NULL or a block of at least its size that was not freed, until a pointer is left
\* to what is not there (dangling); and until then the first access outside of a
\* block, if there is one, is a read that the code does not test (Unguarded).
THEOREM MemAlwaysSafe == Spec => []MemSafe
<1>1. MemInv => MemSafe
  <2> SUFFICES ASSUME MemInv, dangling = {}
               PROVE  fault \in {"none"} \cup Unguarded /\ \A r \in Rid : mem[r].is => Fits(Now, r)
    BY DEF MemSafe
  <2>1. Sound(Now)
    BY NowIs DEF MemInv, Safe
  <2> QED BY <2>1, NowIs DEF Sound
<1> QED BY <1>1, CountInit, CountStep, MemInit, MemStep, PTL DEF Spec
-----------------------------------------------------------------------------
(* Paths, and the calls of Files that are given one. *)

NameText == {n \in Text : n # <<>> /\ \A i \in DOMAIN n : n[i] # "/"}
Slashless == {n \in Text : \A i \in DOMAIN n : n[i] # "/"}
Readings == [names : Seq(NameText), last : Slashless]
NoNames  == [names |-> <<>>, last |-> <<>>]
Scan     == [p \in Readings \X Char |-> AddChar(p[1], p[2])]
-----------------------------------------------------------------------------
(* The names of a text, character by character. *)

LEMMA AppendJoined ==
  \A a \in Seq(NameText), d \in Seq(NameText), e \in NameText : Append(a \o d, e) = a \o Append(d, e)
<1> TAKE a \in Seq(NameText), d \in Seq(NameText), e \in NameText
<1>1. Append(d, e) \in Seq(NameText) /\ a \o d \in Seq(NameText)
  OBVIOUS
<1>2. Append(a \o d, e) \in Seq(NameText) /\ a \o Append(d, e) \in Seq(NameText)
  BY <1>1
<1>3. Len(Append(a \o d, e)) = Len(a \o Append(d, e))
  BY <1>1
<1>4. \A i \in 1..Len(Append(a \o d, e)) : Append(a \o d, e)[i] = (a \o Append(d, e))[i]
  BY <1>1
<1> QED BY <1>2, <1>3, <1>4, SeqEqual

LEMMA EndNameTyped ==
  ASSUME NEW n \in Readings
  PROVE  EndName(n) \in Seq(NameText)
<1>1. n.names \in Seq(NameText) /\ n.last \in Text /\ \A i \in DOMAIN n.last : n.last[i] # "/"
  BY DEF Readings, Slashless
<1>2. n.last # <<>> => n.last \in NameText
  BY <1>1 DEF NameText
<1> QED BY <1>1, <1>2 DEF EndName

LEMMA AddCharTyped ==
  ASSUME NEW n \in Readings, NEW c \in Char
  PROVE  AddChar(n, c) \in Readings
<1>1. n.names \in Seq(NameText) /\ n.last \in Seq(Char) /\ \A i \in DOMAIN n.last : n.last[i] # "/"
  BY DEF Readings, Slashless, Text
<1>2. CASE c = "/"
  <2>1. <<>> \in Slashless
    BY DEF Slashless, Text
  <2> QED BY <1>2, <2>1, EndNameTyped DEF AddChar, Readings
<1>3. CASE c # "/"
  <2>1. Append(n.last, c) \in Seq(Char)
    BY <1>1
  <2>2. \A i \in DOMAIN Append(n.last, c) : Append(n.last, c)[i] # "/"
    BY <1>1, <1>3
  <2>3. Append(n.last, c) \in Slashless
    BY <2>1, <2>2 DEF Slashless, Text
  <2> QED BY <1>1, <1>3, <2>3 DEF AddChar, Readings
<1> QED BY <1>2, <1>3

LEMMA ScanIs == Scan \in [Readings \X Char -> Readings] /\ NoNames \in Readings
<1>1. \A p \in Readings \X Char : AddChar(p[1], p[2]) \in Readings
  BY AddCharTyped
<1>2. <<>> \in Seq(NameText) /\ <<>> \in Slashless
  BY DEF Slashless, Text
<1> QED BY <1>1, <1>2 DEF Scan, Readings, NoNames

LEMMA ScanReaches ==
  ASSUME NEW t \in Text
  PROVE  FoldReaches(Readings, NoNames, Scan, t, Scanned(t))
<1>1. t \in Seq(Char) /\ Len(t) \in Nat
  BY DEF Text
<1>2. PICK f \in FoldRuns(Readings, NoNames, Scan, t) : TRUE
  BY <1>1, ScanIs, FoldRunExists, Zenon
<1>3. f \in [0..Len(t) -> Readings] /\ f[0] = NoNames
  BY <1>2 DEF FoldRuns
<1>4. \A k \in 1..Len(t) : f[k - 1] \in Readings /\ t[k] \in Char /\ f[k] = AddChar(f[k - 1], t[k])
  <2> SUFFICES ASSUME NEW k \in 1..Len(t)
               PROVE  f[k - 1] \in Readings /\ t[k] \in Char /\ f[k] = AddChar(f[k - 1], t[k])
    OBVIOUS
  <2>1. f[k - 1] \in Readings /\ t[k] \in Char
    BY <1>1, <1>3
  <2>2. f[k] = Scan[<<f[k - 1], t[k]>>]
    BY <1>2 DEF FoldRuns
  <2> QED BY <2>1, <2>2 DEF Scan
<1>5. f = [k \in 0..Len(t) |-> IF k = 0 THEN NoNames ELSE AddChar(f[k - 1], t[k])]
  <2>1. \A k \in 0..Len(t) : f[k] = IF k = 0 THEN NoNames ELSE AddChar(f[k - 1], t[k])
    BY <1>1, <1>3, <1>4
  <2> QED BY <1>3, <2>1
<1>6. PICK n : n = CHOOSE g : g = [k \in 0..Len(t) |-> IF k = 0 THEN NoNames ELSE AddChar(g[k - 1], t[k])]
  OBVIOUS
<1>7. Scanned(t) = n[Len(t)]
  BY <1>6, Zenon DEF Scanned, NoNames
<1>8. n = [k \in 0..Len(t) |-> IF k = 0 THEN NoNames ELSE AddChar(n[k - 1], t[k])]
  BY <1>5, <1>6, Zenon
<1> DEFINE T == {k \in Nat : k <= Len(t) => n[k] = f[k]}
<1>9. 0 \in T
  BY <1>1, <1>3, <1>8
<1>10. ASSUME NEW k \in Nat, k \in T PROVE k + 1 \in T
  <2> SUFFICES ASSUME k + 1 <= Len(t) PROVE n[k + 1] = f[k + 1]
    OBVIOUS
  <2>1. k + 1 \in 1..Len(t) /\ k + 1 \in 0..Len(t) /\ (k + 1) - 1 = k /\ k <= Len(t) /\ k + 1 # 0
    BY <1>1
  <2>2. n[k + 1] = AddChar(n[k], t[k + 1])
    BY <1>8, <2>1
  <2>3. f[k + 1] = AddChar(f[k], t[k + 1])
    BY <1>4, <2>1
  <2> QED BY <1>10, <2>1, <2>2, <2>3
<1> HIDE DEF T
<1>11. Nat \subseteq T
  BY <1>9, <1>10, AllNumbers
<1>12. n[Len(t)] = f[Len(t)]
  BY <1>1, <1>11 DEF T
<1> QED BY <1>2, <1>7, <1>12 DEF FoldReaches

LEMMA ScanStep ==
  ASSUME NEW t \in Text, NEW c \in Char
  PROVE  /\ Scanned(t) \in Readings
         /\ Scanned(Append(t, c)) = AddChar(Scanned(t), c)
<1>1. Append(t, c) \in Text /\ t \in Seq(Char)
  BY DEF Text
<1>2. FoldReaches(Readings, NoNames, Scan, t, Scanned(t))
  BY ScanReaches
<1>3. FoldReaches(Readings, NoNames, Scan, Append(t, c), Scanned(Append(t, c)))
  BY <1>1, ScanReaches
<1>4. NoNames \in Readings /\ Scan \in [Readings \X Char -> Readings]
  BY ScanIs
<1>5. FoldGrows(Readings, Char, NoNames, Scan, t, c, Scanned(t), Scanned(Append(t, c)))
  BY <1>1, <1>2, <1>3, <1>4, Zenon DEF FoldGrows
<1>6. Scanned(t) \in Readings /\ Scanned(Append(t, c)) = Scan[<<Scanned(t), c>>]
  BY <1>5, FoldExtends
<1> QED BY <1>6 DEF Scan

LEMMA ScanOfNone == <<>> \in Text /\ Scanned(<<>>) = NoNames
<1>1. <<>> \in Text
  BY DEF Text
<1> QED BY <1>1, ScanReaches, FoldOfNone, Zenon

LEMMA ScanTyped ==
  ASSUME NEW t \in Text
  PROVE  Scanned(t) \in Readings /\ Names(t) \in Seq(NameText)
<1>1. "/" \in Char
  BY CharAssumption
<1> QED BY <1>1, ScanStep, EndNameTyped, Zenon DEF Names

\* What is behind a slash is read on its own.
LEMMA ScanBehindSlash ==
  ASSUME NEW t \in Text, NEW u \in Text
  PROVE  Scanned((t \o <<"/">>) \o u) = [names |-> Names(t) \o Scanned(u).names, last |-> Scanned(u).last]
<1> DEFINE b == t \o <<"/">>
           S == {v \in Text : Scanned(b \o v) = [names |-> Names(t) \o Scanned(v).names, last |-> Scanned(v).last]}
<1>1. t \in Seq(Char) /\ "/" \in Char /\ b = Append(t, "/") /\ b \in Text
  BY CharAssumption DEF Text
<1>2. Names(t) \in Seq(NameText)
  BY ScanTyped
<1>3. <<>> \in S
  <2>1. b \o <<>> = Append(t, "/")
    BY <1>1
  <2>2. Scanned(b \o <<>>) = [names |-> EndName(Scanned(t)), last |-> <<>>]
    BY <1>1, <2>1, ScanStep DEF AddChar
  <2>3. Scanned(<<>>).names = <<>> /\ Scanned(<<>>).last = <<>>
    BY ScanOfNone DEF NoNames
  <2>4. Names(t) \o <<>> = EndName(Scanned(t))
    BY <1>2 DEF Names
  <2> QED BY <2>2, <2>3, <2>4, ScanOfNone
<1>4. ASSUME NEW v \in Seq(Char), NEW c \in Char, v \in S PROVE Append(v, c) \in S
  <2>1. v \in Text /\ Append(v, c) \in Text /\ b \in Seq(Char) /\ b \o v \in Text
    BY <1>1 DEF Text
  <2>2. b \o Append(v, c) = Append(b \o v, c)
    BY <2>1
  <2>3. Scanned(b \o Append(v, c)) = AddChar(Scanned(b \o v), c)
    BY <2>1, <2>2, ScanStep
  <2>4. Scanned(Append(v, c)) = AddChar(Scanned(v), c)
    BY <2>1, ScanStep
  <2>5. Scanned(b \o v) = [names |-> Names(t) \o Scanned(v).names, last |-> Scanned(v).last]
    BY <1>4
  <2>6. Scanned(v) \in Readings /\ Scanned(v).names \in Seq(NameText)
    BY <2>1, ScanTyped DEF Readings
  <2>7. PICK n : n = Scanned(v)
    OBVIOUS
  <2>8. PICK m : m = [names |-> Names(t) \o n.names, last |-> n.last]
    OBVIOUS
  <2>9. m.last = n.last /\ m.names = Names(t) \o n.names
    BY <2>8
  <2>10. EndName(m) = Names(t) \o EndName(n)
    <3>1. n.last # <<>> => n.last \in NameText
      BY <2>6, <2>7 DEF Readings, Slashless, NameText
    <3>2. n.names \in Seq(NameText)
      BY <2>6, <2>7
    <3>3. CASE n.last = <<>>
      BY <2>9, <3>3 DEF EndName
    <3>4. CASE n.last # <<>>
      <4>1. Append(Names(t) \o n.names, n.last) = Names(t) \o Append(n.names, n.last)
        BY <1>2, <3>1, <3>2, <3>4, AppendJoined
      <4> QED BY <2>9, <3>4, <4>1 DEF EndName
    <3> QED BY <3>3, <3>4
  <2>11. AddChar(m, c) = [names |-> Names(t) \o AddChar(n, c).names, last |-> AddChar(n, c).last]
    <3>1. CASE c = "/"
      BY <2>10, <3>1 DEF AddChar
    <3>2. CASE c # "/"
      BY <2>9, <3>2 DEF AddChar
    <3> QED BY <3>1, <3>2
  <2> QED BY <2>1, <2>3, <2>4, <2>5, <2>7, <2>8, <2>11
<1> HIDE DEF S
<1>5. Seq(Char) \subseteq S
  BY <1>3, <1>4, AllSequences
<1>6. u \in S
  BY <1>5 DEF Text
<1> QED BY <1>6 DEF S

LEMMA NamesBehindSlash ==
  ASSUME NEW t \in Text, NEW u \in Text
  PROVE  Names((t \o <<"/">>) \o u) = Names(t) \o Names(u)
<1>1. Names(t) \in Seq(NameText) /\ Scanned(u) \in Readings
  BY ScanTyped
<1>2. PICK n, a : n = Scanned(u) /\ a = Names(t)
  OBVIOUS
<1>3. n.names \in Seq(NameText) /\ n.last \in Slashless
  BY <1>1, <1>2 DEF Readings
<1>4. Names((t \o <<"/">>) \o u) = EndName([names |-> a \o n.names, last |-> n.last])
  BY <1>2, ScanBehindSlash DEF Names
<1>5. EndName([names |-> a \o n.names, last |-> n.last]) = a \o EndName(n)
  <2>1. CASE n.last = <<>>
    BY <2>1 DEF EndName
  <2>2. CASE n.last # <<>>
    <3>1. n.last \in NameText
      BY <1>3, <2>2 DEF Slashless, NameText
    <3>2. Append(a \o n.names, n.last) = a \o Append(n.names, n.last)
      BY <1>1, <1>2, <1>3, <3>1, AppendJoined
    <3> QED BY <2>2, <3>2 DEF EndName
  <2> QED BY <2>1, <2>2
<1> QED BY <1>2, <1>4, <1>5 DEF Names

LEMMA ScanSlashless ==
  ASSUME NEW n \in Slashless
  PROVE  Scanned(n) = [names |-> <<>>, last |-> n]
<1> DEFINE S == {v \in Text : (\A i \in DOMAIN v : v[i] # "/") => Scanned(v) = [names |-> <<>>, last |-> v]}
<1>1. <<>> \in S
  BY ScanOfNone DEF NoNames
<1>2. ASSUME NEW v \in Seq(Char), NEW c \in Char, v \in S PROVE Append(v, c) \in S
  <2>1. v \in Text /\ Append(v, c) \in Text
    BY DEF Text
  <2> SUFFICES ASSUME \A i \in DOMAIN Append(v, c) : Append(v, c)[i] # "/"
               PROVE  Scanned(Append(v, c)) = [names |-> <<>>, last |-> Append(v, c)]
    BY <2>1
  <2>2. c # "/" /\ \A i \in DOMAIN v : v[i] # "/"
    <3>1. Len(v) + 1 \in DOMAIN Append(v, c) /\ Append(v, c)[Len(v) + 1] = c
      OBVIOUS
    <3>2. \A i \in DOMAIN v : i \in DOMAIN Append(v, c) /\ Append(v, c)[i] = v[i]
      OBVIOUS
    <3> QED BY <3>1, <3>2
  <2>3. Scanned(v) = [names |-> <<>>, last |-> v]
    BY <1>2, <2>2
  <2>4. Scanned(Append(v, c)) = AddChar(Scanned(v), c)
    BY <2>1, ScanStep
  <2> QED BY <2>2, <2>3, <2>4 DEF AddChar
<1> HIDE DEF S
<1>3. Seq(Char) \subseteq S
  BY <1>1, <1>2, AllSequences
<1>4. n \in S
  BY <1>3 DEF Slashless, Text
<1> QED BY <1>4 DEF S, Slashless

LEMMA NamesOfName ==
  ASSUME NEW n \in NameText
  PROVE  Names(n) = <<n>>
<1>1. n \in Slashless /\ n # <<>>
  BY DEF NameText, Slashless
<1>2. PICK m : m = Scanned(n)
  OBVIOUS
<1>3. m = [names |-> <<>>, last |-> n]
  BY <1>1, <1>2, ScanSlashless
<1>4. m.names = <<>> /\ m.last = n
  BY <1>3
<1>5. Append(<<>>, n) = <<n>>
  OBVIOUS
<1>6. EndName(m) = <<n>>
  BY <1>1, <1>4, <1>5 DEF EndName
<1> QED BY <1>2, <1>6 DEF Names

LEMMA NamesOfNone == Names(<<>>) = <<>>
BY ScanOfNone DEF Names, EndName, NoNames

LEMMA NamesBeforeSlash ==
  ASSUME NEW t \in Text
  PROVE  Names(t \o <<"/">>) = Names(t)
<1>1. t \in Seq(Char) /\ "/" \in Char /\ <<>> \in Text
  BY CharAssumption DEF Text
<1>2. (t \o <<"/">>) \o <<>> = t \o <<"/">>
  BY <1>1
<1>3. Names((t \o <<"/">>) \o <<>>) = Names(t) \o Names(<<>>)
  BY <1>1, NamesBehindSlash
<1>4. Names(t) \o <<>> = Names(t)
  BY ScanTyped
<1> QED BY <1>2, <1>3, <1>4, NamesOfNone

LEMMA NamesOfSlash == Names(<<"/">>) = <<>>
<1>1. <<>> \in Text /\ <<>> \o <<"/">> = <<"/">>
  BY DEF Text
<1> QED BY <1>1, NamesBeforeSlash, NamesOfNone

\* A text is cut at one of its slashes.
LEMMA Parts ==
  ASSUME NEW t \in Text, NEW k \in 0..Len(t)
  PROVE  /\ SubSeq(t, 1, k) \in Text /\ Behind(t, k) \in Text
         /\ t = SubSeq(t, 1, k) \o Behind(t, k)
         /\ Len(SubSeq(t, 1, k)) = k /\ Len(Behind(t, k)) = Len(t) - k
         /\ \A i \in 1..k : SubSeq(t, 1, k)[i] = t[i]
         /\ \A i \in 1..(Len(t) - k) : Behind(t, k)[i] = t[k + i]
<1>1. t \in Seq(Char) /\ Len(t) \in Nat /\ k \in Nat /\ k <= Len(t)
  BY DEF Text
<1>2. PICK a, b : a = SubSeq(t, 1, k) /\ b = SubSeq(t, k + 1, Len(t))
  OBVIOUS
<1>3. a \in Seq(Char) /\ Len(a) = k /\ \A i \in 1..k : a[i] = t[i]
  BY <1>1, <1>2
<1>4. b \in Seq(Char) /\ Len(b) = Len(t) - k /\ \A i \in 1..(Len(t) - k) : b[i] = t[k + i]
  BY <1>1, <1>2
<1>5. t = a \o b
  <2>1. a \o b \in Seq(Char) /\ Len(a \o b) = Len(t)
    BY <1>1, <1>3, <1>4
  <2>2. \A i \in 1..Len(t) : (a \o b)[i] = t[i]
    <3> SUFFICES ASSUME NEW i \in 1..Len(t) PROVE (a \o b)[i] = t[i]
      OBVIOUS
    <3>1. CASE i <= k
      BY <1>1, <1>3, <1>4, <3>1
    <3>2. CASE i > k
      <4>1. i - k \in 1..(Len(t) - k) /\ (a \o b)[i] = b[i - k] /\ k + (i - k) = i
        BY <1>1, <1>3, <1>4, <3>2
      <4> QED BY <1>4, <4>1
    <3>3. i \in Int /\ k \in Int
      BY <1>1
    <3>4. i <= k \/ i > k
      BY <3>3
    <3> QED BY <3>1, <3>2, <3>4
  <2> QED BY <1>1, <2>1, <2>2, SeqEqual
<1> QED BY <1>1, <1>2, <1>3, <1>4, <1>5 DEF Text, Behind

LEMMA CutAtSlash ==
  ASSUME NEW t \in Text, NEW k \in 1..Len(t), t[k] = "/"
  PROVE  /\ Names(t) = Names(SubSeq(t, 1, k - 1)) \o Names(Behind(t, k))
         /\ Names(SubSeq(t, 1, k)) = Names(SubSeq(t, 1, k - 1))
         /\ SubSeq(t, 1, k) = SubSeq(t, 1, k - 1) \o <<"/">>
<1>1. t \in Seq(Char) /\ Len(t) \in Nat /\ k \in 0..Len(t) /\ k - 1 \in 0..Len(t)
  BY DEF Text
<1>2. PICK a, b, c : a = SubSeq(t, 1, k - 1) /\ b = Behind(t, k) /\ c = SubSeq(t, 1, k)
  OBVIOUS
<1>3. /\ a \in Text /\ Len(a) = k - 1 /\ \A i \in 1..(k - 1) : a[i] = t[i]
  BY <1>1, <1>2, Parts
<1>4. b \in Text /\ c \in Text /\ t = c \o b /\ Len(c) = k /\ \A i \in 1..k : c[i] = t[i]
  BY <1>1, <1>2, Parts
<1>5. c = a \o <<"/">>
  <2>1. a \in Seq(Char) /\ c \in Seq(Char) /\ <<"/">> \in Seq(Char)
    BY <1>3, <1>4, CharAssumption DEF Text
  <2>2. a \o <<"/">> \in Seq(Char) /\ Len(a \o <<"/">>) = k
    BY <1>3, <2>1
  <2>3. \A i \in 1..k : (a \o <<"/">>)[i] = c[i]
    <3> SUFFICES ASSUME NEW i \in 1..k PROVE (a \o <<"/">>)[i] = c[i]
      OBVIOUS
    <3>1. CASE i < k
      BY <1>3, <1>4, <2>1, <3>1
    <3>2. CASE i = k
      BY <1>3, <1>4, <2>1, <3>2
    <3>3. i \in Int /\ k \in Int /\ i <= k
      BY <1>1
    <3>4. i < k \/ i = k
      BY <3>3
    <3> QED BY <3>1, <3>2, <3>4
  <2> QED BY <1>4, <2>1, <2>2, <2>3, SeqEqual
<1>6. Names(c) = Names(a)
  BY <1>3, <1>5, NamesBeforeSlash
<1>7. Names(t) = Names(a) \o Names(b)
  BY <1>3, <1>4, <1>5, NamesBehindSlash
<1> QED BY <1>2, <1>5, <1>6, <1>7
-----------------------------------------------------------------------------
(* Places: a walk takes the names one after the other. *)

Place  == Seq(Text)
WalkFn == [p \in Place \X Text |-> Walk(p[1], p[2])]

LEMMA WalkTyped ==
  ASSUME NEW p \in Place, NEW n \in Text
  PROVE  Walk(p, n) \in Place
<1>1. CASE n = <<".", ".">>
  <2>1. p # <<>> => Front(p) \in Place
    BY DEF Place, Front
  <2>2. n # <<".">>
    BY <1>1
  <2> QED BY <1>1, <2>1, <2>2 DEF Walk, Place
<1>2. CASE n # <<".", ".">>
  BY <1>2 DEF Walk, Place
<1> QED BY <1>1, <1>2

LEMMA WalkReaches ==
  ASSUME NEW p \in Place, NEW s \in Seq(Text)
  PROVE  /\ WalkFn \in [Place \X Text -> Place]
         /\ FoldReaches(Place, p, WalkFn, s, WalkFrom(p, s))
<1>1. WalkFn \in [Place \X Text -> Place] /\ \A a \in Place, e \in Text : WalkFn[<<a, e>>] = Walk(a, e)
  BY WalkTyped DEF WalkFn
<1>2. DOMAIN s = 1..Len(s) /\ Len(s) \in Nat
  OBVIOUS
<1>3. PICK g \in FoldTables(Place, p, WalkFn, s) : TRUE
  <2>1. WalkFn \in [Place \X Text -> Place] /\ p \in Place /\ s \in Seq(Text)
    BY <1>1
  <2> QED BY <2>1, FoldExists, Zenon
<1>4. \A t \in SUBSET (1..Len(s)) : t # {} => t \ {Max(t)} \in SUBSET (1..Len(s)) /\ s[Max(t)] \in Text
  BY FoldedIn
<1>5. g = [t \in SUBSET (DOMAIN s) |-> IF t = {} THEN p ELSE Walk(g[t \ {Max(t)}], s[Max(t)])]
  <2>1. \A t \in SUBSET (1..Len(s)) : g[t] = IF t = {} THEN p ELSE Walk(g[t \ {Max(t)}], s[Max(t)])
    BY <1>1, <1>3, <1>4 DEF FoldTables
  <2> QED BY <1>2, <1>3, <2>1 DEF FoldTables
<1>6. PICK h : h = CHOOSE f : f = [t \in SUBSET (DOMAIN s) |-> IF t = {} THEN p
                                                               ELSE Walk(f[t \ {Max(t)}], s[Max(t)])]
  OBVIOUS
<1>7. WalkFrom(p, s) = h[DOMAIN s]
  BY <1>6, Zenon DEF WalkFrom, FoldLeft, MapThenFoldSet
<1>8. h = [t \in SUBSET (DOMAIN s) |-> IF t = {} THEN p ELSE Walk(h[t \ {Max(t)}], s[Max(t)])]
  BY <1>5, <1>6, Zenon
<1>9. h[{}] = p
  BY <1>2, <1>8
<1>10. \A t \in SUBSET (1..Len(s)) : t # {} /\ h[t \ {Max(t)}] \in Place => h[t] = WalkFn[<<h[t \ {Max(t)}], s[Max(t)]>>]
  <2> SUFFICES ASSUME NEW t \in SUBSET (1..Len(s)), t # {}, h[t \ {Max(t)}] \in Place
               PROVE  h[t] = WalkFn[<<h[t \ {Max(t)}], s[Max(t)]>>]
    OBVIOUS
  <2>1. h[t] = Walk(h[t \ {Max(t)}], s[Max(t)])
    BY <1>2, <1>8
  <2> QED BY <1>1, <1>4, <2>1
<1>11. FoldObeys(Place, p, WalkFn, s, h)
  BY <1>9, <1>10, Zenon DEF FoldObeys
<1>12. FoldReaches(Place, p, WalkFn, s, h[DOMAIN s])
  BY <1>1, <1>11, FoldSteps, Zenon
<1> QED BY <1>1, <1>7, <1>12

LEMMA WalkStep ==
  ASSUME NEW p \in Place, NEW s \in Seq(Text), NEW n \in Text
  PROVE  WalkFrom(p, s) \in Place /\ WalkFrom(p, Append(s, n)) = Walk(WalkFrom(p, s), n)
<1>1. Append(s, n) \in Seq(Text)
  OBVIOUS
<1>2. /\ WalkFn \in [Place \X Text -> Place]
      /\ FoldReaches(Place, p, WalkFn, s, WalkFrom(p, s))
      /\ FoldReaches(Place, p, WalkFn, Append(s, n), WalkFrom(p, Append(s, n)))
  BY <1>1, WalkReaches
<1>3. FoldGrows(Place, Text, p, WalkFn, s, n, WalkFrom(p, s), WalkFrom(p, Append(s, n)))
  BY <1>2, Zenon DEF FoldGrows
<1>4. WalkFrom(p, s) \in Place /\ WalkFrom(p, Append(s, n)) = WalkFn[<<WalkFrom(p, s), n>>]
  BY <1>3, FoldExtends
<1> QED BY <1>4 DEF WalkFn

LEMMA WalkOfNone ==
  ASSUME NEW p \in Place
  PROVE  WalkFrom(p, <<>>) = p
<1>1. <<>> \in Seq(Text)
  OBVIOUS
<1>2. FoldReaches(Place, p, WalkFn, <<>>, WalkFrom(p, <<>>))
  BY <1>1, WalkReaches
<1> QED BY <1>2, FoldOfNone

LEMMA WalkOn ==
  ASSUME NEW p \in Place, NEW s \in Seq(Text), NEW r \in Seq(Text)
  PROVE  WalkFrom(p, s \o r) = WalkFrom(WalkFrom(p, s), r)
<1> DEFINE S == {v \in Seq(Text) : WalkFrom(p, s \o v) = WalkFrom(WalkFrom(p, s), v)}
<1>1. WalkFrom(p, s) \in Place
  <2>1. PICK n \in Text : n = <<>>
    BY ScanOfNone
  <2> QED BY <2>1, WalkStep, Zenon
<1>2. <<>> \in S
  <2>1. s \o <<>> = s /\ <<>> \in Seq(Text)
    OBVIOUS
  <2> QED BY <1>1, <2>1, WalkOfNone
<1>3. ASSUME NEW v \in Seq(Text), NEW n \in Text, v \in S PROVE Append(v, n) \in S
  <2>1. s \o Append(v, n) = Append(s \o v, n) /\ s \o v \in Seq(Text) /\ Append(v, n) \in Seq(Text)
    OBVIOUS
  <2>2. WalkFrom(p, s \o Append(v, n)) = Walk(WalkFrom(p, s \o v), n)
    <3>1. PICK w \in Seq(Text) : w = s \o v
      BY <2>1
    <3>2. WalkFrom(p, Append(w, n)) = Walk(WalkFrom(p, w), n)
      BY WalkStep
    <3> QED BY <2>1, <3>1, <3>2
  <2>3. WalkFrom(WalkFrom(p, s), Append(v, n)) = Walk(WalkFrom(WalkFrom(p, s), v), n)
    BY <1>1, WalkStep
  <2> QED BY <1>3, <2>1, <2>2, <2>3
<1> HIDE DEF S
<1>4. Seq(Text) \subseteq S
  BY <1>2, <1>3, AllSequences
<1>5. r \in S
  BY <1>4
<1> QED BY <1>5 DEF S
-----------------------------------------------------------------------------
(* The last slash, and what is in front of slashes at the end. *)

LEMMA GreatestPlace ==
  ASSUME NEW k \in Nat, NEW P \in SUBSET (0..k), P # {}
  PROVE  \E m \in P : \A i \in P : i <= m
<1> DEFINE D == {k - i : i \in P}
<1>1. D \in SUBSET Nat /\ D # {}
  <2>1. \A i \in P : k - i \in Nat
    OBVIOUS
  <2> QED BY <2>1
<1>2. PICK d \in D : \A e \in D : d <= e
  BY <1>1, LeastNumber
<1>3. PICK m \in P : d = k - m
  BY <1>2
<1>4. \A i \in P : k - i \in D
  OBVIOUS
<1>5. ASSUME NEW i \in P PROVE i <= m
  <2>1. d <= k - i
    BY <1>2, <1>4
  <2>2. i \in Int /\ m \in Int
    OBVIOUS
  <2> QED BY <1>3, <2>1, <2>2
<1> QED BY <1>5

LEMMA LastSlashIs ==
  ASSUME NEW t \in Text
  PROVE  /\ LastSlash(t) \in 0..Len(t) /\ (LastSlash(t) > 0 => t[LastSlash(t)] = "/")
         /\ \A i \in (LastSlash(t) + 1)..Len(t) : t[i] # "/"
<1> DEFINE P == {0} \cup {i \in 1..Len(t) : t[i] = "/"}
<1>1. Len(t) \in Nat
  BY DEF Text
<1>2. PICK m \in P : \A i \in P : i <= m
  <2>1. P \in SUBSET (0..Len(t)) /\ P # {}
    BY <1>1
  <2> HIDE DEF P
  <2> QED BY <1>1, <2>1, GreatestPlace
<1>3. m \in 0..Len(t) /\ (m > 0 => t[m] = "/")
  BY <1>1, <1>2
<1>4. \A i \in (m + 1)..Len(t) : t[i] # "/"
  BY <1>1, <1>2, <1>3
<1> QED BY <1>3, <1>4 DEF LastSlash

LEMMA StrippedIs ==
  ASSUME NEW t \in Text
  PROVE  \E k \in 0..Len(t) : /\ Stripped(t) = SubSeq(t, 1, k)
                              /\ \A i \in (k + 1)..Len(t) : t[i] = "/"
                              /\ k > 0 => t[k] # "/"
<1> DEFINE P == {0} \cup {i \in 1..Len(t) : t[i] # "/"}
<1>1. Len(t) \in Nat
  BY DEF Text
<1>2. PICK m \in P : \A i \in P : i <= m
  <2>1. P \in SUBSET (0..Len(t)) /\ P # {}
    BY <1>1
  <2> HIDE DEF P
  <2> QED BY <1>1, <2>1, GreatestPlace
<1>3. m \in 0..Len(t) /\ (m > 0 => t[m] # "/")
  BY <1>1, <1>2
<1>4. \A i \in (m + 1)..Len(t) : t[i] = "/"
  BY <1>1, <1>2, <1>3
<1>5. PICK k : k = CHOOSE n \in 0..Len(t) : /\ \A i \in (n + 1)..Len(t) : t[i] = "/"
                                            /\ n > 0 => t[n] # "/"
  OBVIOUS
<1>6. k \in 0..Len(t) /\ (\A i \in (k + 1)..Len(t) : t[i] = "/") /\ (k > 0 => t[k] # "/")
  BY <1>3, <1>4, <1>5
<1>7. Stripped(t) = SubSeq(t, 1, k)
  BY <1>5 DEF Stripped
<1> QED BY <1>6, <1>7

\* Slashes alone have no name, and none at the end of a text.
LEMMA NamesOfSlashes ==
  ASSUME NEW t \in Text, \A i \in DOMAIN t : t[i] = "/"
  PROVE  Names(t) = <<>>
<1> DEFINE S == {v \in Text : (\A i \in DOMAIN v : v[i] = "/") => Names(v) = <<>>}
<1>1. <<>> \in S
  BY ScanOfNone, NamesOfNone
<1>2. ASSUME NEW v \in Seq(Char), NEW c \in Char, v \in S PROVE Append(v, c) \in S
  <2>1. v \in Text /\ Append(v, c) \in Text
    BY DEF Text
  <2> SUFFICES ASSUME \A i \in DOMAIN Append(v, c) : Append(v, c)[i] = "/"
               PROVE  Names(Append(v, c)) = <<>>
    BY <2>1
  <2>2. c = "/" /\ \A i \in DOMAIN v : v[i] = "/"
    <3>1. Len(v) + 1 \in DOMAIN Append(v, c) /\ Append(v, c)[Len(v) + 1] = c
      OBVIOUS
    <3>2. \A i \in DOMAIN v : i \in DOMAIN Append(v, c) /\ Append(v, c)[i] = v[i]
      OBVIOUS
    <3> QED BY <3>1, <3>2
  <2>3. Names(v) = <<>>
    BY <1>2, <2>2
  <2>4. Append(v, c) = v \o <<"/">>
    BY <2>2
  <2> QED BY <2>1, <2>3, <2>4, NamesBeforeSlash
<1> HIDE DEF S
<1>3. Seq(Char) \subseteq S
  BY <1>1, <1>2, AllSequences
<1>4. t \in S
  BY <1>3 DEF Text
<1> QED BY <1>4 DEF S

LEMMA NamesBeforeSlashes ==
  ASSUME NEW t \in Text, NEW k \in 0..Len(t), \A i \in (k + 1)..Len(t) : t[i] = "/"
  PROVE  Names(t) = Names(SubSeq(t, 1, k))
<1>1. t \in Seq(Char) /\ Len(t) \in Nat /\ k \in Nat /\ k <= Len(t)
  BY DEF Text
<1>2. CASE k = Len(t)
  <2>1. SubSeq(t, 1, k) = t
    BY <1>1, <1>2
  <2> QED BY <2>1
<1>3. CASE k < Len(t)
  <2>1. k + 1 \in 1..Len(t) /\ k + 1 \in 0..Len(t) /\ t[k + 1] = "/" /\ (k + 1) - 1 = k
    BY <1>1, <1>3
  <2>2. Names(t) = Names(SubSeq(t, 1, k)) \o Names(Behind(t, k + 1))
    BY <2>1, CutAtSlash
  <2>3. PICK b : b = Behind(t, k + 1)
    OBVIOUS
  <2>4. b \in Text /\ Len(b) = Len(t) - (k + 1) /\ \A i \in 1..(Len(t) - (k + 1)) : b[i] = t[(k + 1) + i]
    BY <2>1, <2>3, Parts
  <2>5. \A i \in DOMAIN b : b[i] = "/"
    <3>1. DOMAIN b = 1..(Len(t) - (k + 1))
      BY <2>4 DEF Text
    <3>2. \A i \in 1..(Len(t) - (k + 1)) : (k + 1) + i \in (k + 1)..Len(t)
      BY <1>1
    <3> QED BY <2>4, <3>1, <3>2
  <2>6. Names(b) = <<>>
    BY <2>4, <2>5, NamesOfSlashes
  <2>7. SubSeq(t, 1, k) \in Text
    BY Parts
  <2>8. Names(SubSeq(t, 1, k)) \o <<>> = Names(SubSeq(t, 1, k))
    BY <2>7, ScanTyped
  <2> QED BY <2>2, <2>3, <2>6, <2>8
<1>4. k = Len(t) \/ k < Len(t)
  BY <1>1
<1> QED BY <1>2, <1>3, <1>4

\* What is between the last slash and the end, or a slash at the end, is a name.
LEMMA NameAtEnd ==
  ASSUME NEW t \in Text, NEW k \in 0..Len(t), k < Len(t), \A i \in (k + 1)..Len(t) : t[i] # "/"
  PROVE  Behind(t, k) \in NameText
<1>1. t \in Seq(Char) /\ Len(t) \in Nat /\ k \in Nat
  BY DEF Text
<1>2. PICK b : b = Behind(t, k)
  OBVIOUS
<1>3. b \in Text /\ Len(b) = Len(t) - k /\ \A i \in 1..(Len(t) - k) : b[i] = t[k + i]
  BY <1>2, Parts
<1>4. b # <<>> /\ DOMAIN b = 1..(Len(t) - k)
  BY <1>1, <1>3 DEF Text
<1>5. \A i \in 1..(Len(t) - k) : k + i \in (k + 1)..Len(t)
  BY <1>1
<1> QED BY <1>2, <1>3, <1>4, <1>5 DEF NameText
-----------------------------------------------------------------------------
(* The texts that path_absolute makes: from the root, with one slash between *)
(* two names, none of which is a dot name.                                   *)

Dots       == {<<".">>, <<".", ".">>}
ProperName == NameText \ Dots
Single(t)  == \A i \in 1..(Len(t) - 1) : ~(t[i] = "/" /\ t[i + 1] = "/")
Clean      == {d \in Text : Absolute(d) /\ Single(d) /\ Names(d) \in Seq(ProperName)}

LEMMA NormalIsClean ==
  ASSUME NEW d
  PROVE  Normal(d) <=> d \in Clean /\ (EndsInSlash(d) => Len(d) = 1)
<1>1. ASSUME d \in Text
      PROVE  Names(d) \in Seq(ProperName) <=> \A i \in DOMAIN Names(d) : Names(d)[i] \notin Dots
  <2>1. Names(d) \in Seq(NameText)
    BY <1>1, ScanTyped
  <2>2. PICK a : a = Names(d)
    OBVIOUS
  <2>3. ASSUME a \in Seq(ProperName) PROVE \A i \in DOMAIN a : a[i] \notin Dots
    BY <2>3 DEF ProperName
  <2>4. ASSUME \A i \in DOMAIN a : a[i] \notin Dots PROVE a \in Seq(ProperName)
    <3>1. \A i \in 1..Len(a) : a[i] \in ProperName
      BY <2>1, <2>2, <2>4 DEF ProperName
    <3> QED BY <2>1, <2>2, <3>1
  <2> QED BY <2>2, <2>3, <2>4
<1> QED BY <1>1 DEF Normal, Clean, Single, Dots

LEMMA RootIsClean == <<"/">> \in Clean /\ Normal(<<"/">>)
<1>1. <<"/">> \in Text /\ Absolute(<<"/">>) /\ Len(<<"/">>) = 1
  BY CharAssumption DEF Text, Absolute
<1>2. Single(<<"/">>)
  BY DEF Single
<1>3. Names(<<"/">>) \in Seq(ProperName)
  BY NamesOfSlash
<1> QED BY <1>1, <1>2, <1>3, NormalIsClean DEF Clean

\* A name taken back.
LEMMA BackUpMeans ==
  ASSUME NEW d \in Clean, Len(d) > 1
  PROVE  /\ BackUp(d) \in Clean
         /\ Names(d) # <<>> /\ Names(BackUp(d)) = Front(Names(d))
<1>1. d \in Text /\ d \in Seq(Char) /\ Len(d) \in Nat /\ d[1] = "/" /\ Single(d) /\ Names(d) \in Seq(ProperName)
  BY DEF Clean, Text, Absolute
<1>2. PICK f : f = Front(d)
  OBVIOUS
<1>3. Len(d) - 1 \in 0..Len(d)
  BY <1>1
<1>4. f \in Text /\ Len(f) = Len(d) - 1 /\ \A i \in 1..(Len(d) - 1) : f[i] = d[i]
  BY <1>1, <1>2, <1>3, Parts DEF Front
<1>5. PICK k : k = LastSlash(f)
  OBVIOUS
<1>6. k \in 0..Len(f) /\ (k > 0 => f[k] = "/") /\ \A i \in (k + 1)..Len(f) : f[i] # "/"
  BY <1>4, <1>5, LastSlashIs
<1>7. k > 0
  <2>1. 1 \in 1..(Len(d) - 1) /\ 1 <= Len(f)
    BY <1>1, <1>4
  <2>2. f[1] = "/"
    BY <1>1, <1>4, <2>1
  <2> SUFFICES ASSUME k = 0 PROVE FALSE
    BY <1>6
  <2>3. 1 \in (k + 1)..Len(f)
    BY <1>1, <1>4, <2>1
  <2> QED BY <1>6, <2>2, <2>3
<1>8. k \in 1..Len(d) /\ k \in 0..Len(d) /\ k - 1 \in 0..Len(d) /\ k < Len(d) /\ d[k] = "/"
  BY <1>1, <1>4, <1>6, <1>7
<1>9. \A i \in (k + 1)..(Len(d) - 1) : d[i] # "/"
  <2> SUFFICES ASSUME NEW i \in (k + 1)..(Len(d) - 1) PROVE d[i] # "/"
    OBVIOUS
  <2>1. i \in (k + 1)..Len(f) /\ i \in 1..(Len(d) - 1)
    BY <1>1, <1>4, <1>8
  <2> QED BY <1>4, <1>6, <2>1
<1>10. PICK e, b, a : e = SubSeq(d, 1, k) /\ b = Behind(d, k) /\ a = SubSeq(d, 1, k - 1)
  OBVIOUS
<1>11. Names(d) = Names(a) \o Names(b) /\ Names(e) = Names(a)
  BY <1>1, <1>8, <1>10, CutAtSlash
<1>12. /\ e \in Text /\ Len(e) = k /\ (\A i \in 1..k : e[i] = d[i])
       /\ b \in Text /\ Len(b) = Len(d) - k /\ (\A i \in 1..(Len(d) - k) : b[i] = d[k + i])
  BY <1>1, <1>8, <1>10, Parts
<1>13. PICK n \in NameText : Names(b) = <<n>>
  <2>1. CASE d[Len(d)] = "/"
    <3>1. k < Len(d) - 1
      <4> SUFFICES ASSUME k = Len(d) - 1 PROVE FALSE
        BY <1>8, <1>1
      <4>1. k \in 1..(Len(d) - 1) /\ d[k + 1] = "/"
        BY <1>1, <1>8, <2>1
      <4> QED BY <1>1, <1>8, <4>1 DEF Single
    <3>2. k \in 0..Len(f) /\ k < Len(f) /\ \A i \in (k + 1)..Len(f) : f[i] # "/"
      BY <1>4, <1>6, <3>1
    <3>3. Behind(f, k) \in NameText
      BY <1>4, <3>2, NameAtEnd
    <3>4. Len(b) \in 1..Len(b) /\ b[Len(b)] = "/"
      BY <1>1, <1>8, <1>12, <2>1
    <3>5. Names(b) = Names(SubSeq(b, 1, Len(b) - 1)) \o Names(Behind(b, Len(b)))
      BY <1>12, <3>4, CutAtSlash
    <3>6. Behind(b, Len(b)) = <<>>
      BY <1>12 DEF Behind, Text
    <3>7. SubSeq(b, 1, Len(b) - 1) = Behind(f, k)
      <4>1. PICK x, y : x = SubSeq(b, 1, Len(b) - 1) /\ y = Behind(f, k)
        OBVIOUS
      <4>2. Len(b) - 1 \in 0..Len(b) /\ Len(b) - 1 = Len(d) - k - 1
        BY <1>1, <1>8, <1>12
      <4>3. x \in Text /\ Len(x) = Len(b) - 1 /\ \A i \in 1..(Len(b) - 1) : x[i] = b[i]
        BY <1>12, <4>1, <4>2, Parts
      <4>4. y \in Text /\ Len(y) = Len(f) - k /\ \A i \in 1..(Len(f) - k) : y[i] = f[k + i]
        BY <1>4, <1>6, <4>1, Parts
      <4>5. Len(x) = Len(y) /\ Len(x) = Len(d) - k - 1
        BY <1>1, <1>4, <1>8, <1>12, <4>2, <4>3, <4>4
      <4>6. ASSUME NEW i \in 1..Len(x) PROVE x[i] = y[i]
        <5>1. i \in 1..(Len(d) - k) /\ i \in 1..(Len(b) - 1) /\ i \in 1..(Len(f) - k) /\ k + i \in 1..(Len(d) - 1)
          BY <1>1, <1>4, <1>8, <4>2, <4>3, <4>4, <4>5
        <5>2. x[i] = d[k + i]
          BY <1>12, <4>3, <5>1
        <5>3. y[i] = d[k + i]
          BY <1>4, <4>4, <5>1
        <5> QED BY <5>2, <5>3
      <4>7. x \in Seq(Char) /\ y \in Seq(Char)
        BY <4>3, <4>4 DEF Text
      <4>8. x = y
        BY <4>5, <4>6, <4>7, SeqEqual
      <4> QED BY <4>1, <4>8
    <3>8. Names(b) = <<Behind(f, k)>>
      <4>1. Names(Behind(f, k)) = <<Behind(f, k)>>
        BY <3>3, NamesOfName
      <4>2. <<Behind(f, k)>> \o <<>> = <<Behind(f, k)>>
        OBVIOUS
      <4> QED BY <3>5, <3>6, <3>7, <4>1, <4>2, NamesOfNone
    <3> QED BY <3>3, <3>8
  <2>2. CASE d[Len(d)] # "/"
    <3>1. \A i \in (k + 1)..Len(d) : d[i] # "/"
      BY <1>1, <1>8, <1>9, <2>2
    <3>2. b \in NameText
      BY <1>1, <1>8, <1>10, <3>1, NameAtEnd
    <3> QED BY <3>2, NamesOfName
  <2> QED BY <2>1, <2>2
<1>14. Names(a) \in Seq(NameText)
  <2>1. a \in Text
    BY <1>1, <1>8, <1>10, Parts
  <2> QED BY <2>1, ScanTyped
<1>15. Names(d) # <<>> /\ Front(Names(d)) = Names(a)
  <2>1. \A x \in Seq(NameText), y \in NameText : x \o <<y>> # <<>> /\ Front(x \o <<y>>) = x
    BY DEF Front
  <2> QED BY <1>11, <1>13, <1>14, <2>1
<1>16. e \in Clean
  <2>1. Absolute(e)
    BY <1>1, <1>8, <1>12 DEF Absolute
  <2>2. Single(e)
    <3> SUFFICES ASSUME NEW i \in 1..(Len(e) - 1) PROVE ~(e[i] = "/" /\ e[i + 1] = "/")
      BY DEF Single
    <3>1. i \in 1..(Len(d) - 1) /\ i \in 1..k /\ i + 1 \in 1..k
      BY <1>1, <1>8, <1>12
    <3>2. e[i] = d[i] /\ e[i + 1] = d[i + 1]
      BY <1>12, <3>1
    <3> QED BY <1>1, <3>1, <3>2 DEF Single
  <2>3. Names(e) \in Seq(ProperName)
    <3>1. \A x \in Seq(ProperName) : x # <<>> => Front(x) \in Seq(ProperName)
      BY DEF Front
    <3> QED BY <1>1, <1>11, <1>15, <3>1
  <2> QED BY <1>12, <2>1, <2>2, <2>3 DEF Clean
<1>17. BackUp(d) = e
  BY <1>2, <1>5, <1>10 DEF BackUp
<1> QED BY <1>11, <1>15, <1>16, <1>17

LEMMA AddNameMeans ==
  ASSUME NEW d \in Clean, NEW n \in NameText
  PROVE  AddName(d, n) \in Clean /\ Names(AddName(d, n)) = Walk(Names(d), n)
<1>1. d \in Text /\ d \in Seq(Char) /\ Len(d) \in Nat /\ d[1] = "/" /\ d # <<>> /\ Single(d) /\ Names(d) \in Seq(ProperName)
  BY DEF Clean, Text, Absolute
<1>2. n \in Seq(Char) /\ n \in Text /\ n # <<>> /\ Len(n) \in Nat /\ \A i \in DOMAIN n : n[i] # "/"
  BY DEF NameText, Text
<1>3. CASE n = <<".">>
  BY <1>3 DEF AddName, Walk
<1>4. CASE n = <<".", ".">>
  <2>1. n # <<".">>
    BY <1>4
  <2>2. CASE Len(d) > 1
    BY <1>4, <2>1, <2>2, BackUpMeans DEF AddName, Walk
  <2>3. CASE ~(Len(d) > 1)
    <3>1. d = <<"/">>
      <4>1. Len(d) = 1 /\ <<"/">> \in Seq(Char) /\ Len(<<"/">>) = 1
        BY <1>1, <2>3, CharAssumption
      <4>2. \A i \in 1..Len(d) : d[i] = <<"/">>[i]
        BY <1>1, <4>1
      <4> QED BY <1>1, <4>1, <4>2, SeqEqual
    <3>2. AddName(d, n) = d /\ Walk(<<>>, n) = <<>>
      BY <1>4, <2>1, <2>3 DEF AddName, Walk
    <3> QED BY <3>1, <3>2, NamesOfSlash
  <2> QED BY <2>2, <2>3
<1>5. CASE n \notin Dots
  <2>1. n \in ProperName /\ n # <<".">> /\ n # <<".", ".">>
    BY <1>5 DEF ProperName, Dots
  <2>2. Walk(Names(d), n) = Append(Names(d), n)
    BY <2>1 DEF Walk
  <2>3. PICK b : b = IF EndsInSlash(d) THEN d ELSE Append(d, "/")
    OBVIOUS
  <2>4. AddName(d, n) = b \o n
    BY <2>1, <2>3 DEF AddName
  <2>5. PICK a \in Text : b = a \o <<"/">> /\ Names(a) = Names(d)
    <3>1. CASE EndsInSlash(d)
      <4>1. Len(d) \in 1..Len(d) /\ d[Len(d)] = "/"
        BY <1>1, <3>1 DEF EndsInSlash
      <4>2. SubSeq(d, 1, Len(d)) = d /\ Len(d) - 1 \in 0..Len(d)
        BY <1>1
      <4>3. d = SubSeq(d, 1, Len(d) - 1) \o <<"/">> /\ Names(d) = Names(SubSeq(d, 1, Len(d) - 1))
        BY <1>1, <4>1, <4>2, CutAtSlash
      <4>4. SubSeq(d, 1, Len(d) - 1) \in Text
        BY <1>1, <4>2, Parts
      <4>5. b = d
        BY <2>3, <3>1
      <4> QED BY <4>3, <4>4, <4>5
    <3>2. CASE ~EndsInSlash(d)
      <4>1. b = d \o <<"/">>
        BY <1>1, <2>3, <3>2
      <4> QED BY <1>1, <4>1
    <3> QED BY <3>1, <3>2
  <2>6. Names(b \o n) = Append(Names(d), n)
    <3>1. Names((a \o <<"/">>) \o n) = Names(a) \o Names(n)
      BY <1>2, <2>5, NamesBehindSlash
    <3>2. Names(n) = <<n>>
      BY NamesOfName
    <3>3. Names(d) \o <<n>> = Append(Names(d), n)
      BY <1>1
    <3> QED BY <2>5, <3>1, <3>2, <3>3
  <2>7. Append(Names(d), n) \in Seq(ProperName)
    BY <1>1, <2>1
  <2>8. b \in Seq(Char) /\ Len(b) \in Nat /\ Len(b) >= Len(d) /\ Len(b) <= Len(d) + 1 /\ \A i \in 1..Len(d) : b[i] = d[i]
    <3>1. CASE EndsInSlash(d)
      BY <1>1, <2>3, <3>1
    <3>2. CASE ~EndsInSlash(d)
      <4>1. b = Append(d, "/") /\ "/" \in Char
        BY <2>3, <3>2, CharAssumption
      <4> QED BY <1>1, <4>1
    <3> QED BY <3>1, <3>2
  <2>9. Len(b) = Len(d) + 1 => d[Len(d)] # "/"
    BY <1>1, <2>3 DEF EndsInSlash
  <2>10. PICK x : x = b \o n
    OBVIOUS
  <2>11. /\ x \in Seq(Char) /\ Len(x) = Len(b) + Len(n)
         /\ \A i \in 1..Len(b) : x[i] = b[i]
         /\ \A i \in 1..Len(n) : x[Len(b) + i] = n[i]
    BY <1>2, <2>8, <2>10
  <2>12. Absolute(x)
    <3>1. 1 \in 1..Len(b) /\ 1 \in 1..Len(d) /\ Len(x) # 0
      BY <1>1, <1>2, <2>8, <2>11
    <3>2. x[1] = "/" /\ x # <<>>
      BY <1>1, <2>8, <2>11, <3>1
    <3> QED BY <3>2 DEF Absolute
  <2>13. Single(x)
    <3> SUFFICES ASSUME NEW i \in 1..(Len(x) - 1), x[i] = "/", x[i + 1] = "/" PROVE FALSE
      BY DEF Single
    <3>1. i \in Nat /\ i + 1 <= Len(b) + Len(n) /\ i >= 1
      BY <1>2, <2>8, <2>11
    <3>2. CASE i + 1 > Len(b)
      <4>1. (i + 1) - Len(b) \in 1..Len(n) /\ Len(b) + ((i + 1) - Len(b)) = i + 1
        BY <1>2, <2>8, <3>1, <3>2
      <4>2. x[i + 1] = n[(i + 1) - Len(b)]
        BY <2>11, <4>1
      <4>3. (i + 1) - Len(b) \in DOMAIN n
        BY <1>2, <4>1
      <4> QED BY <1>2, <4>2, <4>3
    <3>3. CASE i + 1 <= Len(d)
      <4>1. i \in 1..(Len(d) - 1) /\ i \in 1..Len(d) /\ i + 1 \in 1..Len(d) /\ i \in 1..Len(b) /\ i + 1 \in 1..Len(b)
        BY <1>1, <2>8, <3>1, <3>3
      <4>2. d[i] = "/" /\ d[i + 1] = "/"
        BY <2>8, <2>11, <4>1
      <4> QED BY <1>1, <4>1, <4>2 DEF Single
    <3>4. CASE i + 1 <= Len(b) /\ i + 1 > Len(d)
      <4>1. i = Len(d) /\ Len(b) = Len(d) + 1 /\ i \in 1..Len(d) /\ i \in 1..Len(b)
        BY <1>1, <2>8, <3>1, <3>4
      <4>2. x[i] = d[Len(d)]
        BY <2>8, <2>11, <4>1
      <4> QED BY <2>9, <4>1, <4>2
    <3> QED BY <1>1, <2>8, <3>1, <3>2, <3>3, <3>4
  <2> QED BY <2>2, <2>4, <2>6, <2>7, <2>10, <2>11, <2>12, <2>13 DEF Clean, Text
<1> QED BY <1>3, <1>4, <1>5 DEF Dots

\* The names one after the other.
Way(d, s) == FoldLeft(AddName, d, s)
WayFn     == [p \in Clean \X NameText |-> AddName(p[1], p[2])]

LEMMA WayReaches ==
  ASSUME NEW d \in Clean, NEW s \in Seq(NameText)
  PROVE  /\ WayFn \in [Clean \X NameText -> Clean]
         /\ FoldReaches(Clean, d, WayFn, s, Way(d, s))
<1>1. WayFn \in [Clean \X NameText -> Clean] /\ \A a \in Clean, e \in NameText : WayFn[<<a, e>>] = AddName(a, e)
  BY AddNameMeans DEF WayFn
<1>2. DOMAIN s = 1..Len(s) /\ Len(s) \in Nat
  OBVIOUS
<1>3. PICK g \in FoldTables(Clean, d, WayFn, s) : TRUE
  <2>1. WayFn \in [Clean \X NameText -> Clean] /\ d \in Clean /\ s \in Seq(NameText)
    BY <1>1
  <2> QED BY <2>1, FoldExists, Zenon
<1>4. \A t \in SUBSET (1..Len(s)) : t # {} => t \ {Max(t)} \in SUBSET (1..Len(s)) /\ s[Max(t)] \in NameText
  BY FoldedIn
<1>5. g = [t \in SUBSET (DOMAIN s) |-> IF t = {} THEN d ELSE AddName(g[t \ {Max(t)}], s[Max(t)])]
  <2>1. \A t \in SUBSET (1..Len(s)) : g[t] = IF t = {} THEN d ELSE AddName(g[t \ {Max(t)}], s[Max(t)])
    BY <1>1, <1>3, <1>4 DEF FoldTables
  <2> QED BY <1>2, <1>3, <2>1 DEF FoldTables
<1>6. PICK h : h = CHOOSE f : f = [t \in SUBSET (DOMAIN s) |-> IF t = {} THEN d
                                                               ELSE AddName(f[t \ {Max(t)}], s[Max(t)])]
  OBVIOUS
<1>7. Way(d, s) = h[DOMAIN s]
  BY <1>6, Zenon DEF Way, FoldLeft, MapThenFoldSet
<1>8. h = [t \in SUBSET (DOMAIN s) |-> IF t = {} THEN d ELSE AddName(h[t \ {Max(t)}], s[Max(t)])]
  BY <1>5, <1>6, Zenon
<1>9. h[{}] = d
  BY <1>2, <1>8
<1>10. \A t \in SUBSET (1..Len(s)) : t # {} /\ h[t \ {Max(t)}] \in Clean => h[t] = WayFn[<<h[t \ {Max(t)}], s[Max(t)]>>]
  <2> SUFFICES ASSUME NEW t \in SUBSET (1..Len(s)), t # {}, h[t \ {Max(t)}] \in Clean
               PROVE  h[t] = WayFn[<<h[t \ {Max(t)}], s[Max(t)]>>]
    OBVIOUS
  <2>1. h[t] = AddName(h[t \ {Max(t)}], s[Max(t)])
    BY <1>2, <1>8
  <2> QED BY <1>1, <1>4, <2>1
<1>11. FoldObeys(Clean, d, WayFn, s, h)
  BY <1>9, <1>10, Zenon DEF FoldObeys
<1>12. FoldReaches(Clean, d, WayFn, s, h[DOMAIN s])
  BY <1>1, <1>11, FoldSteps, Zenon
<1> QED BY <1>1, <1>7, <1>12

LEMMA WayStep ==
  ASSUME NEW d \in Clean, NEW s \in Seq(NameText), NEW n \in NameText
  PROVE  Way(d, s) \in Clean /\ Way(d, Append(s, n)) = AddName(Way(d, s), n)
<1>1. Append(s, n) \in Seq(NameText)
  OBVIOUS
<1>2. /\ WayFn \in [Clean \X NameText -> Clean]
      /\ FoldReaches(Clean, d, WayFn, s, Way(d, s))
      /\ FoldReaches(Clean, d, WayFn, Append(s, n), Way(d, Append(s, n)))
  BY <1>1, WayReaches
<1>3. FoldGrows(Clean, NameText, d, WayFn, s, n, Way(d, s), Way(d, Append(s, n)))
  BY <1>2, Zenon DEF FoldGrows
<1>4. Way(d, s) \in Clean /\ Way(d, Append(s, n)) = WayFn[<<Way(d, s), n>>]
  BY <1>3, FoldExtends
<1> QED BY <1>4 DEF WayFn

\* The text that path_absolute makes names the place that a walk comes to.
LEMMA WayMeans ==
  ASSUME NEW d \in Clean, NEW s \in Seq(NameText)
  PROVE  Way(d, s) \in Clean /\ Names(Way(d, s)) = WalkFrom(Names(d), s)
<1> DEFINE S == {v \in Seq(NameText) : Way(d, v) \in Clean /\ Names(Way(d, v)) = WalkFrom(Names(d), v)}
<1>1. NameText \subseteq Text /\ Names(d) \in Seq(NameText) /\ Names(d) \in Place
  <2>1. NameText \subseteq Text
    BY DEF NameText
  <2>2. Names(d) \in Seq(NameText)
    BY ScanTyped DEF Clean
  <2> QED BY <2>1, <2>2 DEF Place
<1>2. <<>> \in S
  <2>1. <<>> \in Seq(NameText)
    OBVIOUS
  <2>2. Way(d, <<>>) = d
    BY <2>1, WayReaches, FoldOfNone
  <2> QED BY <1>1, <2>1, <2>2, WalkOfNone
<1>3. ASSUME NEW v \in Seq(NameText), NEW n \in NameText, v \in S PROVE Append(v, n) \in S
  <2>1. v \in Seq(Text) /\ n \in Text /\ Append(v, n) \in Seq(NameText)
    BY <1>1
  <2>2. Way(d, Append(v, n)) = AddName(Way(d, v), n)
    BY WayStep
  <2>3. WalkFrom(Names(d), Append(v, n)) = Walk(WalkFrom(Names(d), v), n)
    BY <1>1, <2>1, WalkStep
  <2>4. Way(d, v) \in Clean /\ Names(Way(d, v)) = WalkFrom(Names(d), v)
    BY <1>3
  <2>5. AddName(Way(d, v), n) \in Clean /\ Names(AddName(Way(d, v), n)) = Walk(Names(Way(d, v)), n)
    BY <2>4, AddNameMeans
  <2> QED BY <2>1, <2>2, <2>3, <2>4, <2>5
<1> HIDE DEF S
<1>4. Seq(NameText) \subseteq S
  BY <1>2, <1>3, AllSequences
<1>5. s \in S
  BY <1>4
<1> QED BY <1>5 DEF S

\* A walk by proper names goes only down.
LEMMA ProperWalk ==
  ASSUME NEW s \in Seq(ProperName)
  PROVE  WalkFrom(<<>>, s) = s
<1> DEFINE S == {v \in Seq(ProperName) : WalkFrom(<<>>, v) = v}
<1>1. ProperName \subseteq Text /\ <<>> \in Place
  BY DEF ProperName, NameText, Place
<1>2. <<>> \in S
  BY <1>1, WalkOfNone
<1>3. ASSUME NEW v \in Seq(ProperName), NEW n \in ProperName, v \in S PROVE Append(v, n) \in S
  <2>1. v \in Seq(Text) /\ n \in Text /\ Append(v, n) \in Seq(ProperName)
    BY <1>1
  <2>2. WalkFrom(<<>>, Append(v, n)) = Walk(WalkFrom(<<>>, v), n)
    BY <1>1, <2>1, WalkStep
  <2>3. Walk(v, n) = Append(v, n)
    BY DEF Walk, ProperName, Dots
  <2> QED BY <1>3, <2>1, <2>2, <2>3
<1> HIDE DEF S
<1>4. Seq(ProperName) \subseteq S
  BY <1>2, <1>3, AllSequences
<1>5. s \in S
  BY <1>4
<1> QED BY <1>5 DEF S

LEMMA PlaceOfClean ==
  ASSUME NEW d \in Clean
  PROVE  PlaceOf(d) = Names(d) /\ Names(d) \in Seq(ProperName)
BY ProperWalk DEF Clean, PlaceOf
-----------------------------------------------------------------------------
(* The functions of path.c. *)

LEMMA TrailSlashMeans ==
  ASSUME NEW t \in Text
  PROVE  /\ RemoveTrailSlash(t) \in Text
         /\ Names(RemoveTrailSlash(t)) = Names(t)
         /\ Absolute(RemoveTrailSlash(t)) <=> Absolute(t)
         /\ t = <<>> <=> RemoveTrailSlash(t) = <<>>
         /\ \A i \in 1..Len(RemoveTrailSlash(t)) : RemoveTrailSlash(t)[i] = t[i]
<1>1. t \in Seq(Char) /\ Len(t) \in Nat
  BY DEF Text
<1>2. CASE Len(t) > 1 /\ t[Len(t)] = "/"
  <2>1. PICK f : f = SubSeq(t, 1, Len(t) - 1)
    OBVIOUS
  <2>2. Len(t) \in 1..Len(t) /\ Len(t) - 1 \in 0..Len(t) /\ SubSeq(t, 1, Len(t)) = t
    BY <1>1, <1>2
  <2>3. f \in Text /\ Len(f) = Len(t) - 1 /\ \A i \in 1..(Len(t) - 1) : f[i] = t[i]
    BY <2>1, <2>2, Parts
  <2>4. Names(f) = Names(t)
    BY <1>2, <2>1, <2>2, CutAtSlash
  <2>5. RemoveTrailSlash(t) = f
    BY <1>2, <2>1 DEF RemoveTrailSlash, Front
  <2>6. f[1] = t[1] /\ f # <<>> /\ t # <<>>
    BY <1>1, <1>2, <2>3
  <2> QED BY <2>3, <2>4, <2>5, <2>6 DEF Absolute
<1>3. CASE ~(Len(t) > 1 /\ t[Len(t)] = "/")
  BY <1>3 DEF RemoveTrailSlash
<1> QED BY <1>2, <1>3

LEMMA TrailSlashIsNormal ==
  ASSUME NEW d \in Clean
  PROVE  Normal(RemoveTrailSlash(d))
<1>1. d \in Text /\ Len(d) \in Nat /\ d # <<>> /\ Absolute(d) /\ Single(d) /\ Names(d) \in Seq(ProperName)
  BY DEF Clean, Text, Absolute
<1>2. PICK f : f = RemoveTrailSlash(d)
  OBVIOUS
<1>3. f \in Text /\ Names(f) = Names(d) /\ Absolute(f) /\ \A i \in 1..Len(f) : f[i] = d[i]
  BY <1>1, <1>2, TrailSlashMeans
<1>4. CASE Len(d) > 1 /\ d[Len(d)] = "/"
  <2>1. Len(f) = Len(d) - 1
    <3>1. Len(d) - 1 \in 0..Len(d)
      BY <1>1, <1>4
    <3>2. Len(SubSeq(d, 1, Len(d) - 1)) = Len(d) - 1
      BY <1>1, <3>1, Parts
    <3> QED BY <1>2, <1>4, <3>2 DEF RemoveTrailSlash, Front
  <2>2. Single(f)
    <3> SUFFICES ASSUME NEW i \in 1..(Len(f) - 1) PROVE ~(f[i] = "/" /\ f[i + 1] = "/")
      BY DEF Single
    <3>1. i \in 1..(Len(d) - 1) /\ i \in 1..Len(f) /\ i + 1 \in 1..Len(f)
      BY <1>1, <2>1
    <3>2. f[i] = d[i] /\ f[i + 1] = d[i + 1]
      BY <1>3, <3>1
    <3> QED BY <1>1, <3>1, <3>2 DEF Single
  <2>3. ~EndsInSlash(f)
    <3>1. Len(f) \in 1..(Len(d) - 1) /\ Len(f) \in 1..Len(f) /\ Len(f) + 1 = Len(d)
      BY <1>1, <1>4, <2>1
    <3>2. f[Len(f)] = d[Len(f)] /\ d[Len(f) + 1] = "/"
      BY <1>3, <1>4, <3>1
    <3> QED BY <1>1, <3>1, <3>2 DEF Single, EndsInSlash
  <2>4. f \in Clean
    BY <1>1, <1>3, <2>2 DEF Clean
  <2> QED BY <1>2, <2>3, <2>4, NormalIsClean
<1>5. CASE ~(Len(d) > 1 /\ d[Len(d)] = "/")
  <2>1. f = d
    BY <1>2, <1>5 DEF RemoveTrailSlash
  <2>2. EndsInSlash(d) => Len(d) = 1
    <3>1. Len(d) # 0
      BY <1>1 DEF Text
    <3> SUFFICES ASSUME EndsInSlash(d) PROVE Len(d) = 1
      OBVIOUS
    <3>2. d[Len(d)] = "/"
      BY DEF EndsInSlash
    <3>3. ~(Len(d) > 1)
      BY <1>5, <3>2
    <3>4. Len(d) \in Nat
      BY <1>1
    <3>5. PICK n \in Nat : n = Len(d)
      BY <3>4
    <3>6. n # 0 /\ ~(n > 1)
      BY <3>1, <3>3, <3>5
    <3>7. n = 1
      BY <3>6
    <3> QED BY <3>5, <3>7
  <2> QED BY <1>2, <2>1, <2>2, NormalIsClean
<1> QED BY <1>4, <1>5

\* What path_absolute returns is the place a path is walked to.
LEMMA AbsoluteMeans ==
  ASSUME NEW dir, Normal(dir), NEW t \in Text
  PROVE  /\ Normal(path_absolute(dir, t))
         /\ Names(path_absolute(dir, t)) = PlaceFrom(dir, t)
         /\ PlaceOf(path_absolute(dir, t)) = PlaceFrom(dir, t)
<1>1. dir \in Clean /\ PlaceOf(dir) = Names(dir)
  BY NormalIsClean, PlaceOfClean
<1>2. PICK d \in Clean : d = IF Absolute(t) THEN <<"/">> ELSE dir
  BY <1>1, RootIsClean
<1>3. Names(d) = IF Absolute(t) THEN <<>> ELSE PlaceOf(dir)
  BY <1>1, <1>2, NamesOfSlash
<1>4. Names(t) \in Seq(NameText)
  BY ScanTyped
<1>5. PICK w : w = Way(d, Names(t))
  OBVIOUS
<1>6. w \in Clean /\ Names(w) = WalkFrom(Names(d), Names(t))
  BY <1>4, <1>5, WayMeans
<1>7. path_absolute(dir, t) = RemoveTrailSlash(w)
  BY <1>2, <1>5, Zenon DEF path_absolute, Way
<1>8. Names(w) = PlaceFrom(dir, t)
  BY <1>3, <1>6 DEF PlaceFrom
<1>9. Normal(RemoveTrailSlash(w))
  BY <1>6, TrailSlashIsNormal
<1>10. Names(RemoveTrailSlash(w)) = Names(w)
  BY <1>6, TrailSlashMeans DEF Clean
<1>11. RemoveTrailSlash(w) \in Clean
  BY <1>9, NormalIsClean
<1>12. PlaceOf(RemoveTrailSlash(w)) = Names(RemoveTrailSlash(w))
  BY <1>11, PlaceOfClean
<1> QED BY <1>7, <1>8, <1>9, <1>10, <1>12
-----------------------------------------------------------------------------
(* Sandboxes. *)

LEMMA SeparatorIs ==
  ASSUME NEW t \in Text
  PROVE  /\ \A i \in Separators(t) : i \in 1..(Len(t) - 1) /\ t[i] = ":" /\ t[i + 1] = "/"
         /\ Separators(t) # {} => Separator(t) \in Separators(t) /\ \A i \in Separators(t) : Separator(t) <= i
<1>1. Separators(t) \in SUBSET Nat
  BY DEF Separators
<1>2. ASSUME Separators(t) # {}
      PROVE  Separator(t) \in Separators(t) /\ \A i \in Separators(t) : Separator(t) <= i
  <2>1. PICK m \in Separators(t) : \A i \in Separators(t) : m <= i
    BY <1>1, <1>2, LeastNumber
  <2> QED BY <2>1 DEF Separator
<1> QED BY <1>2 DEF Separators

LEMMA SandboxTyped ==
  ASSUME NEW t \in Text, Known(t)
  PROVE  /\ SandboxPath(t) \in Text /\ Inside(t) \in Text
         /\ Separator(t) \in Separators(t) /\ Separator(t) > 1
<1>1. Separators(t) # {} /\ Separator(t) > 1 /\ \E i \in DOMAIN Sandboxes : Sandboxes[i].name = SandboxOf(t)
  BY DEF Known, HasSandbox
<1>2. Separator(t) \in Separators(t) /\ Separator(t) \in 1..(Len(t) - 1) /\ Len(t) \in Nat
  BY <1>1, SeparatorIs DEF Text
<1>3. Inside(t) \in Text
  <2>1. Separator(t) + 1 \in 0..Len(t)
    BY <1>2
  <2> QED BY <2>1, Parts DEF Inside
<1> DEFINE P == {i \in DOMAIN Sandboxes : Sandboxes[i].name = SandboxOf(t)}
<1>4. P \in SUBSET Nat /\ P # {}
  <2>1. DOMAIN Sandboxes \subseteq Nat
    BY SandboxesAssumption
  <2> QED BY <1>1, <2>1
<1>5. PICK m \in P : \A i \in P : m <= i
  BY <1>4, LeastNumber
<1>6. FirstOf(SandboxOf(t)) \in DOMAIN Sandboxes
  BY <1>5 DEF FirstOf
<1>7. Sandboxes[FirstOf(SandboxOf(t))].path \in Text
  <2>1. PICK i : i = FirstOf(SandboxOf(t))
    OBVIOUS
  <2>2. Sandboxes[i] \in [name : Text, path : Text, access : {"NONE", "RO", "RW"}]
    <3>1. PICK E : E = [name : Text, path : Text, access : {"NONE", "RO", "RW"}]
      OBVIOUS
    <3>2. Sandboxes \in Seq(E)
      BY <3>1, SandboxesAssumption
    <3>3. i \in DOMAIN Sandboxes
      BY <1>6, <2>1
    <3>4. i \in 1..Len(Sandboxes)
      BY <3>2, <3>3
    <3>5. Sandboxes[i] \in E
      BY <3>2, <3>4, ElementOfSeq
    <3> QED BY <3>1, <3>5
  <2>3. Sandboxes[i].path \in Text
    BY <2>2
  <2> QED BY <2>1, <2>3
<1> QED BY <1>1, <1>2, <1>3, <1>7 DEF SandboxPath

LEMMA SamePlace ==
  ASSUME NEW dir, NEW t, NEW u, Names(t) = Names(u), Absolute(t) <=> Absolute(u)
  PROVE  PlaceFrom(dir, t) = PlaceFrom(dir, u)
BY DEF PlaceFrom

\* The names and the first character of what is put behind a path.
LEMMA Joined ==
  ASSUME NEW a \in Text, NEW b \in Text
  PROVE  /\ (a \o <<"/">>) \o b \in Text
         /\ Names((a \o <<"/">>) \o b) = Names(a) \o Names(b)
         /\ Absolute((a \o <<"/">>) \o b) <=> a = <<>> \/ Absolute(a)
<1>1. a \in Seq(Char) /\ b \in Seq(Char) /\ "/" \in Char
  BY CharAssumption DEF Text
<1>2. PICK x : x = (a \o <<"/">>) \o b
  OBVIOUS
<1>3. x \in Seq(Char) /\ x # <<>> /\ x[1] = IF a = <<>> THEN "/" ELSE a[1]
  BY <1>1, <1>2
<1> QED BY <1>2, <1>3, NamesBehindSlash DEF Absolute, Text

LEMMA ResolveMeans ==
  ASSUME NEW dir, Normal(dir), NEW t \in Text, Known(t)
  PROVE  /\ sandbox_get(t) \in Text /\ sandbox_resolve_path(t) \in Text
         /\ PlaceFrom(dir, sandbox_get(t)) = SandboxPlace(dir, t)
         /\ PlaceFrom(dir, sandbox_resolve_path(t)) = Meaning(dir, t)
<1>1. SandboxPath(t) \in Text /\ Inside(t) \in Text
  BY SandboxTyped
<1>2. PICK s, r : s = SandboxPath(t) /\ r = Inside(t)
  OBVIOUS
<1>3. PICK g : g = RemoveTrailSlash(s)
  OBVIOUS
<1>4. g \in Text /\ Names(g) = Names(s) /\ (Absolute(g) <=> Absolute(s)) /\ (s = <<>> <=> g = <<>>)
  BY <1>1, <1>2, <1>3, TrailSlashMeans
<1>5. sandbox_get(t) = g
  BY <1>2, <1>3 DEF sandbox_get, SandboxPath
<1>6. PICK x, y : x = (g \o <<"/">>) \o r /\ y = (s \o <<"/">>) \o r
  OBVIOUS
<1>7. x \in Text /\ y \in Text /\ Names(x) = Names(y) /\ (Absolute(x) <=> Absolute(y))
  <2>1. x \in Text /\ Names(x) = Names(g) \o Names(r) /\ (Absolute(x) <=> g = <<>> \/ Absolute(g))
    BY <1>1, <1>2, <1>4, <1>6, Joined
  <2>2. y \in Text /\ Names(y) = Names(s) \o Names(r) /\ (Absolute(y) <=> s = <<>> \/ Absolute(s))
    BY <1>1, <1>2, <1>6, Joined
  <2> QED BY <1>4, <2>1, <2>2
<1>8. PICK z : z = RemoveTrailSlash(x)
  OBVIOUS
<1>9. z \in Text /\ Names(z) = Names(x) /\ (Absolute(z) <=> Absolute(x))
  BY <1>7, <1>8, TrailSlashMeans
<1>10. sandbox_resolve_path(t) = z
  BY <1>2, <1>5, <1>6, <1>8 DEF sandbox_resolve_path
<1>11. Meaning(dir, t) = PlaceFrom(dir, y)
  BY <1>2, <1>6 DEF Meaning
<1>12. PlaceFrom(dir, z) = PlaceFrom(dir, y)
  BY <1>7, <1>9, SamePlace, Zenon
<1>13. PlaceFrom(dir, g) = PlaceFrom(dir, s)
  BY <1>4, SamePlace, Zenon
<1>14. SandboxPlace(dir, t) = PlaceFrom(dir, s)
  BY <1>2 DEF SandboxPlace
<1> QED BY <1>4, <1>5, <1>9, <1>10, <1>11, <1>12, <1>13, <1>14

\* What a path is validated to.
LEMMA ValidMeans ==
  ASSUME NEW dir, Normal(dir), NEW t \in Text, NEW s \in BOOLEAN,
         NEW v, v = path_validate(s, dir, t), v # NoPath
  PROVE  /\ Normal(v) /\ Names(v) = Meaning(dir, t) /\ PlaceOf(v) = Meaning(dir, t)
         /\ HasSandbox(t) => Known(t)
         /\ s => Known(t) /\ IsPrefix(path_absolute(dir, sandbox_get(t)), v)
<1>1. Known(t) => HasSandbox(t)
  BY DEF Known
<1>2. CASE Known(t)
  <2>1. v = path_absolute(dir, sandbox_resolve_path(t))
    BY <1>1, <1>2 DEF path_validate, sandbox_validate_path
  <2>2. s => IsPrefix(path_absolute(dir, sandbox_get(t)), v)
    BY <1>2, <2>1, Zenon DEF path_validate, sandbox_validate_path
  <2>3. sandbox_resolve_path(t) \in Text /\ PlaceFrom(dir, sandbox_resolve_path(t)) = Meaning(dir, t)
    BY <1>2, ResolveMeans
  <2> QED BY <1>2, <2>1, <2>2, <2>3, AbsoluteMeans
<1>3. CASE ~Known(t)
  <2>1. ~s /\ ~HasSandbox(t)
    BY <1>3 DEF path_validate, sandbox_validate_path
  <2>2. v = path_absolute(dir, t)
    BY <2>1 DEF path_validate
  <2>3. Meaning(dir, t) = PlaceFrom(dir, t)
    BY <1>3 DEF Meaning
  <2> QED BY <2>1, <2>2, <2>3, AbsoluteMeans
<1> QED BY <1>2, <1>3
-----------------------------------------------------------------------------
(* A text that begins like that of a sandbox is in it, or beside it. *)

LEMMA PrefixIs ==
  ASSUME NEW E, NEW u \in Seq(E), NEW v \in Seq(E)
  PROVE  IsPrefix(u, v) <=> Len(u) <= Len(v) /\ \A i \in 1..Len(u) : u[i] = v[i]
<1>1. Len(u) \in Nat /\ Len(v) \in Nat /\ SubSeq(u, 1, Len(u)) = u
  OBVIOUS
<1>2. ASSUME Len(u) <= Len(v)
      PROVE  SubSeq(v, 1, Len(u)) = u <=> \A i \in 1..Len(u) : u[i] = v[i]
  <2>1. PICK w : w = SubSeq(v, 1, Len(u))
    OBVIOUS
  <2>2. w \in Seq(E) /\ Len(w) = Len(u) /\ \A i \in 1..Len(u) : w[i] = v[i]
    BY <1>1, <1>2, <2>1
  <2>3. ASSUME \A i \in 1..Len(u) : u[i] = v[i] PROVE w = u
    BY <2>2, <2>3, SeqEqual
  <2> QED BY <2>1, <2>2, <2>3
<1> QED BY <1>1, <1>2 DEF IsPrefix

LEMMA PrefixOfJoined ==
  ASSUME NEW E, NEW u \in Seq(E), NEW v \in Seq(E)
  PROVE  IsPrefix(u, u \o v)
<1>1. u \o v \in Seq(E) /\ Len(u) <= Len(u \o v) /\ \A i \in 1..Len(u) : u[i] = (u \o v)[i]
  OBVIOUS
<1> QED BY <1>1, PrefixIs

\* The reading of a text that begins with u and has no slash before its end.
Begins(u, r) == IF r.names = <<>> THEN IsPrefix(u, r.last) ELSE IsPrefix(u, r.names[1])

LEMMA BeginsStep ==
  ASSUME NEW u \in NameText, NEW r \in Readings, NEW c \in Char, Begins(u, r)
  PROVE  Begins(u, AddChar(r, c))
<1>1. u \in Seq(Char) /\ u # <<>> /\ r.names \in Seq(NameText) /\ r.last \in Seq(Char)
  BY DEF NameText, Text, Readings, Slashless
<1>2. PICK e : e = EndName(r)
  OBVIOUS
<1>3. CASE c = "/"
  <2>1. PICK q : q = [names |-> e, last |-> <<>>]
    OBVIOUS
  <2>2. AddChar(r, c) = q /\ q.names = e
    BY <1>2, <1>3, <2>1 DEF AddChar
  <2>3. CASE r.names = <<>>
    <3>1. IsPrefix(u, r.last)
      BY <2>3 DEF Begins
    <3>2. r.last # <<>>
      BY <1>1, <3>1, PrefixIs
    <3>3. e = <<r.last>>
      BY <1>2, <2>3, <3>2 DEF EndName
    <3> QED BY <2>2, <3>1, <3>3 DEF Begins
  <2>4. CASE r.names # <<>>
    <3>1. IsPrefix(u, r.names[1])
      BY <2>4 DEF Begins
    <3>2. r.last # <<>> => r.last \in NameText
      BY DEF Readings, Slashless, NameText
    <3>3. \A a \in Seq(NameText), m \in NameText : a # <<>> => Append(a, m) # <<>> /\ Append(a, m)[1] = a[1]
      OBVIOUS
    <3>4. e # <<>> /\ e[1] = r.names[1]
      BY <1>1, <1>2, <2>4, <3>2, <3>3 DEF EndName
    <3> QED BY <2>2, <3>1, <3>4 DEF Begins
  <2> QED BY <2>3, <2>4
<1>4. CASE c # "/"
  <2>1. PICK q : q = [names |-> r.names, last |-> Append(r.last, c)]
    OBVIOUS
  <2>2. AddChar(r, c) = q /\ q.names = r.names /\ q.last = Append(r.last, c)
    BY <1>4, <2>1 DEF AddChar
  <2>3. IsPrefix(u, r.last) => IsPrefix(u, Append(r.last, c))
    <3> SUFFICES ASSUME IsPrefix(u, r.last) PROVE IsPrefix(u, Append(r.last, c))
      OBVIOUS
    <3>1. Len(u) <= Len(r.last) /\ \A i \in 1..Len(u) : u[i] = r.last[i]
      BY <1>1, PrefixIs
    <3>2. Append(r.last, c) \in Seq(Char) /\ Len(u) <= Len(Append(r.last, c))
      BY <1>1, <3>1
    <3>3. \A i \in 1..Len(u) : u[i] = Append(r.last, c)[i]
      BY <1>1, <3>1
    <3> QED BY <1>1, <3>2, <3>3, PrefixIs
  <2> QED BY <2>2, <2>3 DEF Begins
<1> QED BY <1>3, <1>4

LEMMA FirstName ==
  ASSUME NEW u \in NameText, NEW t \in Text
  PROVE  Names(u \o t) # <<>> /\ IsPrefix(u, Names(u \o t)[1])
<1> DEFINE S == {v \in Text : Begins(u, Scanned(u \o v))}
<1>1. u \in Seq(Char) /\ u \in Text /\ u \in Slashless /\ u # <<>>
  BY DEF NameText, Text, Slashless
<1>2. <<>> \in S
  <2>1. PICK r : r = Scanned(u)
    OBVIOUS
  <2>2. r = [names |-> <<>>, last |-> u]
    BY <1>1, <2>1, ScanSlashless
  <2>3. r.names = <<>> /\ r.last = u
    BY <2>2
  <2>4. u \o <<>> = u /\ IsPrefix(u, u)
    BY <1>1 DEF IsPrefix
  <2> QED BY <2>1, <2>3, <2>4, ScanOfNone DEF Begins
<1>3. ASSUME NEW v \in Seq(Char), NEW c \in Char, v \in S PROVE Append(v, c) \in S
  <2>1. v \in Text /\ Append(v, c) \in Text /\ u \o v \in Text /\ u \o Append(v, c) = Append(u \o v, c)
    BY <1>1 DEF Text
  <2>2. Scanned(u \o Append(v, c)) = AddChar(Scanned(u \o v), c) /\ Scanned(u \o v) \in Readings
    BY <2>1, ScanStep
  <2>3. Begins(u, AddChar(Scanned(u \o v), c))
    BY <1>3, <2>2, BeginsStep
  <2> QED BY <2>1, <2>2, <2>3
<1> HIDE DEF S
<1>4. Seq(Char) \subseteq S
  BY <1>2, <1>3, AllSequences
<1>5. PICK r : r = Scanned(u \o t)
  OBVIOUS
<1>6. Begins(u, r) /\ r \in Readings
  <2>1. t \in S
    BY <1>4 DEF Text
  <2>2. u \o t \in Text
    BY <1>1 DEF Text
  <2> QED BY <1>5, <2>1, <2>2, ScanTyped DEF S
<1>7. r.names \in Seq(NameText) /\ r.last \in Seq(Char) /\ (r.last # <<>> => r.last \in NameText)
  BY <1>6 DEF Readings, Slashless, NameText, Text
<1>8. EndName(r) # <<>> /\ IsPrefix(u, EndName(r)[1])
  <2>1. CASE r.names = <<>>
    <3>1. IsPrefix(u, r.last)
      BY <1>6, <2>1 DEF Begins
    <3>2. r.last # <<>>
      BY <1>1, <1>7, <3>1, PrefixIs
    <3>3. EndName(r) = <<r.last>>
      BY <2>1, <3>2 DEF EndName
    <3> QED BY <3>1, <3>3
  <2>2. CASE r.names # <<>>
    <3>1. IsPrefix(u, r.names[1])
      BY <1>6, <2>2 DEF Begins
    <3>2. \A a \in Seq(NameText), m \in NameText : a # <<>> => Append(a, m) # <<>> /\ Append(a, m)[1] = a[1]
      OBVIOUS
    <3>3. EndName(r) # <<>> /\ EndName(r)[1] = r.names[1]
      BY <1>7, <2>2, <3>2 DEF EndName
    <3> QED BY <3>1, <3>3
  <2> QED BY <2>1, <2>2
<1> QED BY <1>5, <1>8 DEF Names

\* The text of a normal path begins that of another only if its names do, or if
\* they do except for the last, which begins like the name in its place.
LEMMA PrefixNames ==
  ASSUME NEW a, NEW b, Normal(a), Normal(b), IsPrefix(a, b)
  PROVE  IsPrefix(Names(a), Names(b)) \/ Beside(Names(a), Names(b))
<1>1. /\ a \in Text /\ a \in Seq(Char) /\ Len(a) \in Nat /\ a # <<>> /\ a[1] = "/" /\ (EndsInSlash(a) => Len(a) = 1)
      /\ b \in Text /\ b \in Seq(Char) /\ Len(b) \in Nat
  BY DEF Normal, Absolute, Text
<1>2. Len(a) <= Len(b) /\ \A i \in 1..Len(a) : a[i] = b[i]
  BY <1>1, PrefixIs
<1>3. Names(a) \in Seq(NameText) /\ Names(b) \in Seq(NameText)
  BY <1>1, ScanTyped
<1>4. CASE Len(a) = 1
  <2>1. a = <<"/">>
    <3>1. <<"/">> \in Seq(Char) /\ Len(<<"/">>) = 1
      BY CharAssumption
    <3>2. \A i \in 1..Len(a) : a[i] = <<"/">>[i]
      BY <1>1, <1>4
    <3> QED BY <1>1, <1>4, <3>1, <3>2, SeqEqual
  <2>2. Names(a) = <<>>
    BY <2>1, NamesOfSlash
  <2>3. \A s \in Seq(NameText) : IsPrefix(<<>>, s)
    BY DEF IsPrefix
  <2> QED BY <1>3, <2>2, <2>3
<1>5. CASE Len(a) # 1
  <2>1. PICK k : k = LastSlash(a)
    OBVIOUS
  <2>2. k \in 0..Len(a) /\ (k > 0 => a[k] = "/") /\ \A i \in (k + 1)..Len(a) : a[i] # "/"
    BY <1>1, <2>1, LastSlashIs
  <2>3. k > 0
    <3> SUFFICES ASSUME k = 0 PROVE FALSE
      BY <2>2
    <3>1. Len(a) # 0
      BY <1>1
    <3>2. 1 \in (k + 1)..Len(a)
      BY <1>1, <3>1
    <3> QED BY <1>1, <2>2, <3>2
  <2>4. a[Len(a)] # "/"
    BY <1>1, <1>5 DEF EndsInSlash
  <2>5. /\ k \in 1..Len(a) /\ k \in 1..Len(b) /\ k \in 0..Len(b) /\ k < Len(a) /\ k \in 0..Len(a)
        /\ Len(a) \in 0..Len(b) /\ k - 1 \in 0..Len(a) /\ k - 1 \in 0..Len(b)
    BY <1>1, <1>2, <2>2, <2>3, <2>4
  <2>6. a[k] = "/" /\ b[k] = "/"
    BY <1>2, <2>2, <2>5
  <2>7. PICK e, m, r, f, g : /\ e = SubSeq(a, 1, k - 1) /\ m = Behind(a, k) /\ r = Behind(b, Len(a))
                             /\ f = SubSeq(b, 1, k - 1) /\ g = Behind(b, k)
    OBVIOUS
  <2>8. m \in NameText
    BY <1>1, <2>2, <2>5, <2>7, NameAtEnd
  <2>9. e \in Text /\ Len(e) = k - 1 /\ \A i \in 1..(k - 1) : e[i] = a[i]
    BY <1>1, <2>5, <2>7, Parts
  <2>10. f \in Text /\ Len(f) = k - 1 /\ \A i \in 1..(k - 1) : f[i] = b[i]
    BY <1>1, <2>5, <2>7, Parts
  <2>11. m \in Text /\ Len(m) = Len(a) - k /\ \A i \in 1..(Len(a) - k) : m[i] = a[k + i]
    BY <1>1, <2>5, <2>7, Parts
  <2>12. r \in Text /\ Len(r) = Len(b) - Len(a) /\ \A i \in 1..(Len(b) - Len(a)) : r[i] = b[Len(a) + i]
    BY <1>1, <2>5, <2>7, Parts
  <2>13. g \in Text /\ Len(g) = Len(b) - k /\ \A i \in 1..(Len(b) - k) : g[i] = b[k + i]
    BY <1>1, <2>5, <2>7, Parts
  <2>14. e = f
    <3>1. \A i \in 1..Len(e) : e[i] = f[i]
      <4> SUFFICES ASSUME NEW i \in 1..Len(e) PROVE e[i] = f[i]
        OBVIOUS
      <4>1. i \in 1..(k - 1) /\ i \in 1..Len(a)
        BY <1>1, <2>5, <2>9
      <4> QED BY <1>2, <2>9, <2>10, <4>1
    <3> QED BY <2>9, <2>10, <3>1, SeqEqual DEF Text
  <2>15. g = m \o r
    <3>1. m \in Seq(Char) /\ r \in Seq(Char) /\ g \in Seq(Char)
      BY <2>11, <2>12, <2>13 DEF Text
    <3>2. m \o r \in Seq(Char) /\ Len(m \o r) = Len(g)
      <4>1. m \o r \in Seq(Char) /\ Len(m \o r) = Len(m) + Len(r)
        BY <3>1
      <4>2. Len(m) + Len(r) = Len(g)
        BY <1>1, <2>5, <2>11, <2>12, <2>13
      <4> QED BY <4>1, <4>2
    <3>3. ASSUME NEW i \in 1..Len(g) PROVE (m \o r)[i] = g[i]
      <4>1. i \in Nat /\ i >= 1 /\ i <= Len(b) - k /\ g[i] = b[k + i]
        BY <1>1, <2>5, <2>13
      <4>2. CASE i <= Len(a) - k
        <5>1. i \in 1..(Len(a) - k) /\ k + i \in 1..Len(a) /\ i \in 1..Len(m)
          BY <1>1, <2>5, <2>11, <4>1, <4>2
        <5>2. (m \o r)[i] = m[i]
          BY <3>1, <5>1
        <5> QED BY <1>2, <2>11, <4>1, <5>1, <5>2
      <4>3. CASE i > Len(a) - k
        <5>1. i - (Len(a) - k) \in 1..(Len(b) - Len(a)) /\ Len(a) + (i - (Len(a) - k)) = k + i
          BY <1>1, <1>2, <2>5, <4>1, <4>3
        <5>2. (m \o r)[i] = r[i - (Len(a) - k)]
          <6>1. i \in 1..(Len(m) + Len(r)) /\ ~(i <= Len(m)) /\ i - Len(m) = i - (Len(a) - k)
            BY <1>1, <2>5, <2>11, <2>12, <4>1, <4>3
          <6> QED BY <3>1, <6>1, ConcatProperties
        <5> QED BY <2>12, <4>1, <5>1, <5>2
      <4>4. i <= Len(a) - k \/ i > Len(a) - k
        BY <1>1, <2>5, <4>1
      <4> QED BY <4>2, <4>3, <4>4
    <3> QED BY <3>1, <3>2, <3>3, SeqEqual
  <2>16. Names(a) = Names(e) \o <<m>>
    <3>1. Names(a) = Names(e) \o Names(m)
      BY <1>1, <2>5, <2>6, <2>7, CutAtSlash
    <3> QED BY <2>8, <3>1, NamesOfName
  <2>17. Names(b) = Names(e) \o Names(g)
    BY <1>1, <2>5, <2>6, <2>7, <2>14, CutAtSlash
  <2>18. Names(g) # <<>> /\ IsPrefix(m, Names(g)[1])
    BY <2>8, <2>12, <2>15, FirstName
  <2>19. PICK x, y, n : x = Names(e) /\ y = Names(g) /\ n = y[1]
    OBVIOUS
  <2>20. x \in Seq(NameText) /\ y \in Seq(NameText) /\ y # <<>> /\ IsPrefix(m, n)
    BY <2>9, <2>13, <2>18, <2>19, ScanTyped
  <2>21. /\ x \o <<m>> # <<>> /\ Len(x \o <<m>>) = Len(x) + 1 /\ Front(x \o <<m>>) = x /\ Last(x \o <<m>>) = m
    BY <2>8, <2>20 DEF Front, Last
  <2>22. /\ Len(x) + 1 <= Len(x \o y) /\ (x \o y)[Len(x) + 1] = n /\ x \o y \in Seq(NameText)
    BY <2>19, <2>20
  <2>23. IsPrefix(x, x \o y)
    BY <2>20, PrefixOfJoined
  <2>24. CASE m = n
    <3>1. x \o <<m>> \in Seq(NameText) /\ \A i \in 1..Len(x \o <<m>>) : (x \o <<m>>)[i] = (x \o y)[i]
      BY <2>8, <2>19, <2>20, <2>24
    <3>2. IsPrefix(x \o <<m>>, x \o y)
      BY <2>21, <2>22, <3>1, PrefixIs
    <3> QED BY <2>16, <2>17, <2>19, <3>2
  <2>25. CASE m # n
    <3>1. IsStrictPrefix(m, n)
      BY <2>20, <2>25 DEF IsStrictPrefix
    <3>2. Beside(x \o <<m>>, x \o y)
      BY <2>21, <2>22, <2>23, <3>1 DEF Beside
    <3> QED BY <2>16, <2>17, <2>19, <3>2
  <2> QED BY <2>24, <2>25
<1> QED BY <1>4, <1>5
-----------------------------------------------------------------------------
(* The directory a path is in, as dirname and basename cut it: at m the      *)
(* slashes at the end begin, at k is the last slash in front of them, at j   *)
(* those end that are in front of k.                                         *)

CutAt(t, m, k, j) ==
  /\ m \in 1..Len(t) /\ k \in 0..(m - 1) /\ j \in 0..k
  /\ t[m] # "/" /\ \A i \in (m + 1)..Len(t) : t[i] = "/"
  /\ (k > 0 => t[k] = "/") /\ \A i \in (k + 1)..m : t[i] # "/"
  /\ (j > 0 => t[j] # "/") /\ \A i \in (j + 1)..k : t[i] = "/"
  /\ Parent(t) = SubSeq(t, 1, j)

LEMMA Shorter ==
  ASSUME NEW t \in Text, NEW m \in 0..Len(t), NEW k \in 0..m
  PROVE  SubSeq(SubSeq(t, 1, m), 1, k) = SubSeq(t, 1, k)
<1>1. t \in Seq(Char) /\ Len(t) \in Nat /\ k \in 0..Len(t)
  BY DEF Text
<1>2. PICK a, b, c : a = SubSeq(t, 1, m) /\ b = SubSeq(a, 1, k) /\ c = SubSeq(t, 1, k)
  OBVIOUS
<1>3. a \in Text /\ Len(a) = m /\ \A i \in 1..m : a[i] = t[i]
  BY <1>2, Parts
<1>4. c \in Text /\ Len(c) = k /\ \A i \in 1..k : c[i] = t[i]
  BY <1>1, <1>2, Parts
<1>5. b \in Text /\ Len(b) = k /\ \A i \in 1..k : b[i] = a[i]
  BY <1>2, <1>3, Parts
<1>6. \A i \in 1..k : b[i] = c[i]
  BY <1>1, <1>3, <1>4, <1>5
<1>7. b = c
  BY <1>4, <1>5, <1>6, SeqEqual DEF Text
<1> QED BY <1>2, <1>7

LEMMA ParentIs ==
  ASSUME NEW t \in Text, Stripped(t) # <<>>
  PROVE  /\ \E m, k, j \in Nat : CutAt(t, m, k, j)
         /\ basename(t) \in NameText /\ Names(Parent(t)) \in Seq(NameText)
         /\ Names(t) = Append(Names(Parent(t)), basename(t))
<1>1. t \in Seq(Char) /\ Len(t) \in Nat
  BY DEF Text
<1>2. PICK m \in 0..Len(t) : /\ Stripped(t) = SubSeq(t, 1, m)
                             /\ \A i \in (m + 1)..Len(t) : t[i] = "/"
                             /\ m > 0 => t[m] # "/"
  BY StrippedIs
<1>3. PICK b : b = SubSeq(t, 1, m)
  OBVIOUS
<1>4. b \in Text /\ Len(b) = m /\ \A i \in 1..m : b[i] = t[i]
  BY <1>3, Parts
<1>5. m > 0 /\ m \in 1..Len(t)
  <2>1. m # 0
    BY <1>2, <1>3, <1>4 DEF Text
  <2> QED BY <2>1
<1>6. PICK k : k = LastSlash(b)
  OBVIOUS
<1>7. k \in 0..Len(b) /\ (k > 0 => b[k] = "/") /\ \A i \in (k + 1)..Len(b) : b[i] # "/"
  BY <1>4, <1>6, LastSlashIs
<1>8. k \in 0..(m - 1) /\ k < Len(b) /\ k \in 0..m
  <2>1. k # m
    BY <1>2, <1>4, <1>5, <1>7
  <2> QED BY <1>4, <1>5, <1>7, <2>1
<1>9. PICK c : c = SubSeq(t, 1, k)
  OBVIOUS
<1>10. SubSeq(b, 1, k) = c
  BY <1>3, <1>8, <1>9, Shorter
<1>11. k \in 0..Len(t)
  BY <1>5, <1>8
<1>12. c \in Text /\ Len(c) = k /\ \A i \in 1..k : c[i] = t[i]
  BY <1>9, <1>11, Parts
<1>13. PICK j \in 0..Len(c) : /\ Stripped(c) = SubSeq(c, 1, j)
                              /\ \A i \in (j + 1)..Len(c) : c[i] = "/"
                              /\ j > 0 => c[j] # "/"
  BY <1>12, StrippedIs
<1>14. Parent(t) = SubSeq(c, 1, j)
  BY <1>2, <1>3, <1>6, <1>10, <1>13, Zenon DEF Parent
<1>15. SubSeq(c, 1, j) = SubSeq(t, 1, j)
  BY <1>9, <1>11, <1>12, <1>13, Shorter
<1>16. CutAt(t, m, k, j)
  <2>1. (k > 0 => t[k] = "/") /\ \A i \in (k + 1)..m : t[i] # "/"
    <3>1. k > 0 => k \in 1..m
      BY <1>8
    <3>2. \A i \in (k + 1)..m : i \in (k + 1)..Len(b) /\ i \in 1..m
      BY <1>4, <1>8
    <3> QED BY <1>4, <1>7, <3>1, <3>2
  <2>2. (j > 0 => t[j] # "/") /\ \A i \in (j + 1)..k : t[i] = "/"
    <3>1. j \in 0..k /\ (j > 0 => j \in 1..k)
      BY <1>8, <1>12, <1>13
    <3>2. \A i \in (j + 1)..k : i \in (j + 1)..Len(c) /\ i \in 1..k
      BY <1>12, <3>1
    <3> QED BY <1>12, <1>13, <3>1, <3>2
  <2>3. j \in 0..k
    BY <1>12, <1>13
  <2> QED BY <1>2, <1>5, <1>8, <1>14, <1>15, <2>1, <2>2, <2>3 DEF CutAt
<1>17. PICK n \in NameText : n = Behind(b, k)
  BY <1>4, <1>7, <1>8, NameAtEnd
<1>18. basename(t) = n
  BY <1>2, <1>3, <1>6, <1>17, Zenon DEF basename
<1>19. Names(t) = Names(b)
  BY <1>2, <1>3, NamesBeforeSlashes
<1>20. Names(Parent(t)) = Names(c)
  BY <1>12, <1>13, <1>14, NamesBeforeSlashes
<1>21. Names(b) = Append(Names(c), n)
  <2>1. CASE k = 0
    <3>1. c = <<>>
      BY <1>12, <2>1 DEF Text
    <3>2. Behind(b, 0) = b
      BY <1>4 DEF Behind, Text
    <3>3. Names(b) = <<n>>
      BY <1>17, <2>1, <3>2, NamesOfName
    <3>4. Append(<<>>, n) = <<n>>
      OBVIOUS
    <3> QED BY <3>1, <3>3, <3>4, NamesOfNone
  <2>2. CASE k # 0
    <3>1. k \in 1..Len(b) /\ b[k] = "/"
      BY <1>7, <2>2
    <3>2. Names(b) = Names(SubSeq(b, 1, k - 1)) \o Names(n) /\ Names(SubSeq(b, 1, k)) = Names(SubSeq(b, 1, k - 1))
      BY <1>4, <1>17, <3>1, CutAtSlash
    <3>3. Names(b) = Names(c) \o <<n>>
      BY <1>10, <3>2, NamesOfName
    <3>4. Names(c) \in Seq(NameText)
      BY <1>12, ScanTyped
    <3>5. Names(c) \o <<n>> = Append(Names(c), n)
      BY <3>4
    <3> QED BY <3>3, <3>5
  <2> QED BY <2>1, <2>2
<1>22. Names(c) \in Seq(NameText)
  BY <1>12, ScanTyped
<1>23. m \in Nat /\ k \in Nat /\ j \in Nat
  BY <1>8, <1>12, <1>13
<1> QED BY <1>16, <1>18, <1>19, <1>20, <1>21, <1>22, <1>23

LEMMA PlacesTyped ==
  ASSUME NEW dir, Normal(dir), NEW t \in Text
  PROVE  PlaceOf(dir) \in Place /\ PlaceFrom(dir, t) \in Place /\ Names(t) \in Seq(Text)
<1>1. NameText \subseteq Text /\ ProperName \subseteq Text
  BY DEF NameText, ProperName
<1>2. PlaceOf(dir) \in Place
  BY <1>1, NormalIsClean, PlaceOfClean DEF Place
<1>3. Names(t) \in Seq(Text)
  BY <1>1, ScanTyped
<1>4. PICK p \in Place : p = IF Absolute(t) THEN <<>> ELSE PlaceOf(dir)
  <2>1. <<>> \in Place
    BY DEF Place
  <2> QED BY <1>2, <2>1
<1>5. PICK n \in Text : n = <<>>
  BY ScanOfNone
<1>6. WalkFrom(p, Names(t)) \in Place
  BY <1>3, <1>4, <1>5, WalkStep, Zenon
<1>7. PlaceFrom(dir, t) = WalkFrom(p, Names(t))
  BY <1>4 DEF PlaceFrom
<1> QED BY <1>2, <1>3, <1>6, <1>7

\* The parent of a path that is in a sandbox is in that sandbox, or it is in none
\* and the path that of a sandbox itself; the path is one name below its parent.
SameSandbox(t, q, n) ==
  /\ HasSandbox(q) /\ HasSandbox(t) /\ SandboxOf(t) = SandboxOf(q)
  /\ Inside(q) \in Text /\ Inside(t) \in Text
  /\ Names(Inside(t)) = Append(Names(Inside(q)), n)
OutOfSandbox(dir, t, q, n) ==
  /\ ~HasSandbox(q)
  /\ HasSandbox(t) => \A i \in DOMAIN Inside(t) : Inside(t)[i] = "/"
  /\ PlaceFrom(dir, t) = Walk(PlaceFrom(dir, q), n)

LEMMA NoDirectory ==
  ASSUME NEW dir, Normal(dir), NEW t \in Text, NEW q \in Text, NEW n \in NameText,
         q = IF Absolute(t) THEN <<"/">> ELSE <<".">>, Names(t) = <<n>>
  PROVE  PlaceFrom(dir, t) = Walk(PlaceFrom(dir, q), n)
<1>1. NameText \subseteq Text /\ <<>> \in Seq(Text) /\ <<>> \in Place /\ Append(<<>>, n) = <<n>>
  BY DEF NameText, Place
<1>2. \A p \in Place : WalkFrom(p, <<>>) = p /\ WalkFrom(p, <<n>>) = Walk(p, n)
  <2> SUFFICES ASSUME NEW p \in Place PROVE WalkFrom(p, <<>>) = p /\ WalkFrom(p, <<n>>) = Walk(p, n)
    OBVIOUS
  <2>1. WalkFrom(p, <<>>) = p
    BY WalkOfNone
  <2>2. n \in Text
    BY <1>1
  <2>3. WalkFrom(p, Append(<<>>, n)) = Walk(WalkFrom(p, <<>>), n)
    BY <1>1, <2>2, WalkStep
  <2> QED BY <1>1, <2>1, <2>3
<1>3. CASE Absolute(t)
  <2>1. q = <<"/">> /\ Absolute(q)
    BY <1>3 DEF Absolute
  <2>2. PlaceFrom(dir, q) = WalkFrom(<<>>, <<>>) /\ PlaceFrom(dir, t) = WalkFrom(<<>>, <<n>>)
    BY <1>3, <2>1, NamesOfSlash DEF PlaceFrom
  <2> QED BY <1>1, <1>2, <2>2
<1>4. CASE ~Absolute(t)
  <2>1. q = <<".">> /\ ~Absolute(q)
    BY <1>4 DEF Absolute
  <2>2. <<".">> \in NameText
    BY CharAssumption DEF NameText, Text
  <2>3. Names(q) = <<<<".">>>>
    BY <2>1, <2>2, NamesOfName
  <2>4. PICK p \in Place : p = PlaceOf(dir)
    BY PlacesTyped
  <2>5. PlaceFrom(dir, q) = WalkFrom(p, <<<<".">>>>) /\ PlaceFrom(dir, t) = WalkFrom(p, <<n>>)
    BY <1>4, <2>1, <2>3, <2>4 DEF PlaceFrom
  <2>6. WalkFrom(p, <<<<".">>>>) = p
    <3>1. PICK x \in Text : x = <<".">>
      BY <1>1, <2>2
    <3>2. WalkFrom(p, Append(<<>>, x)) = Walk(WalkFrom(p, <<>>), x)
      BY <1>1, WalkStep, Zenon
    <3>3. Append(<<>>, x) = <<x>>
      OBVIOUS
    <3> QED BY <1>2, <3>1, <3>2, <3>3 DEF Walk
  <2> QED BY <1>2, <2>5, <2>6
<1> QED BY <1>3, <1>4

LEMMA ParentMeans ==
  ASSUME NEW dir, Normal(dir), NEW t \in Text, Stripped(t) # <<>>
  PROVE  /\ path_parent(t) \in Text
         /\ \/ SameSandbox(t, path_parent(t), basename(t))
            \/ OutOfSandbox(dir, t, path_parent(t), basename(t))
<1>1. t \in Seq(Char) /\ Len(t) \in Nat
  BY DEF Text
<1>2. PICK m, k, j \in Nat : CutAt(t, m, k, j)
  BY ParentIs
<1>3. /\ m \in 1..Len(t) /\ k \in 0..(m - 1) /\ j \in 0..k /\ j \in 0..Len(t)
      /\ t[m] # "/" /\ \A i \in (m + 1)..Len(t) : t[i] = "/"
  BY <1>2 DEF CutAt
<1>4. (k > 0 => t[k] = "/") /\ \A i \in (k + 1)..m : t[i] # "/"
  BY <1>2 DEF CutAt
<1>5. (j > 0 => t[j] # "/") /\ \A i \in (j + 1)..k : t[i] = "/"
  BY <1>2 DEF CutAt
<1>6. PICK D : D = SubSeq(t, 1, j)
  OBVIOUS
<1>7. D \in Text /\ Len(D) = j /\ \A i \in 1..j : D[i] = t[i]
  BY <1>3, <1>6, Parts
<1>8. D = Parent(t)
  BY <1>2, <1>6 DEF CutAt
<1>9. PICK n \in NameText : n = basename(t)
  BY ParentIs
<1>10. Names(D) \in Seq(NameText) /\ Names(t) = Append(Names(D), n)
  BY <1>8, <1>9, ParentIs
<1>11. PICK q : q = path_parent(t)
  OBVIOUS
<1>12. \A i \in Separators(t) : i \in 1..(Len(t) - 1) /\ t[i] = ":" /\ t[i + 1] = "/"
  BY SeparatorIs
\* A separator is at the end of the last name, or in front of the last slash.
<1>13. ASSUME NEW i \in Separators(t), i # m PROVE i + 1 <= k /\ i <= j /\ i \in Nat /\ i >= 1
  <2>1. i \in Nat /\ i >= 1 /\ i + 1 <= Len(t) /\ t[i] = ":" /\ t[i + 1] = "/"
    BY <1>1, <1>12
  <2>2. i <= m
    <3> SUFFICES ASSUME i > m PROVE FALSE
      BY <1>3, <2>1
    <3>1. i \in (m + 1)..Len(t)
      BY <1>1, <1>3, <2>1
    <3> QED BY <1>3, <2>1, <3>1
  <2>3. i + 1 <= k
    <3> SUFFICES ASSUME i + 1 > k PROVE FALSE
      BY <1>3, <2>1
    <3>1. i + 1 \in (k + 1)..m
      BY <1>3, <1>13, <2>1, <2>2
    <3> QED BY <1>4, <2>1, <3>1
  <2>4. i <= j
    <3> SUFFICES ASSUME i > j PROVE FALSE
      BY <1>3, <2>1
    <3>1. i \in (j + 1)..k
      BY <1>3, <2>1, <2>3
    <3> QED BY <1>5, <2>1, <3>1
  <2> QED BY <2>1, <2>3, <2>4
<1>14. ASSUME HasSandbox(t), Separator(t) = m PROVE \A i \in DOMAIN Inside(t) : Inside(t)[i] = "/"
  <2>1. m \in 1..(Len(t) - 1)
    BY <1>12, <1>14, SeparatorIs DEF HasSandbox
  <2>2. m + 1 \in 0..Len(t)
    BY <1>1, <2>1
  <2>3. PICK r : r = Behind(t, m + 1)
    OBVIOUS
  <2>4. r \in Text /\ Len(r) = Len(t) - (m + 1) /\ \A i \in 1..(Len(t) - (m + 1)) : r[i] = t[(m + 1) + i]
    BY <2>2, <2>3, Parts
  <2>5. \A i \in 1..(Len(t) - (m + 1)) : (m + 1) + i \in (m + 1)..Len(t)
    BY <1>1, <2>1
  <2>6. DOMAIN r = 1..(Len(t) - (m + 1))
    BY <2>4 DEF Text
  <2>7. Inside(t) = r
    BY <1>14, <2>3 DEF Inside
  <2> QED BY <1>3, <2>4, <2>5, <2>6, <2>7
<1>15. CASE j = 0
  <2>1. D = <<>>
    BY <1>7, <1>15 DEF Text
  <2>2. q = IF Absolute(t) THEN <<"/">> ELSE <<".">>
    BY <1>8, <1>11, <2>1 DEF path_parent, dirname
  <2>3. q \in Text /\ Len(q) = 1
    BY <2>2, CharAssumption DEF Text
  <2>4. ~HasSandbox(q)
    <3>1. Separators(q) = {}
      BY <2>3 DEF Separators
    <3> QED BY <3>1 DEF HasSandbox
  <2>5. HasSandbox(t) => Separator(t) = m
    <3> SUFFICES ASSUME HasSandbox(t), Separator(t) # m PROVE FALSE
      OBVIOUS
    <3>1. Separator(t) \in Separators(t)
      BY SeparatorIs DEF HasSandbox
    <3> QED BY <1>13, <1>15, <3>1
  <2>6. Names(t) = <<n>>
    <3>1. Append(<<>>, n) = <<n>>
      OBVIOUS
    <3> QED BY <1>10, <2>1, <3>1, NamesOfNone
  <2>7. PlaceFrom(dir, t) = Walk(PlaceFrom(dir, q), n)
    BY <2>2, <2>3, <2>6, NoDirectory
  <2> QED BY <1>9, <1>11, <1>14, <2>3, <2>4, <2>5, <2>7 DEF OutOfSandbox
<1>16. CASE j # 0
  <2>1. j \in 1..k /\ j < k /\ t[j] # "/" /\ t[j + 1] = "/" /\ j + 1 \in 1..Len(t) /\ j + 1 <= k
    <3>1. j > 0 /\ k > 0 /\ t[j] # "/" /\ t[k] = "/"
      BY <1>3, <1>4, <1>5, <1>16
    <3>2. j < k
      BY <1>3, <3>1
    <3>3. j + 1 \in (j + 1)..k
      BY <1>3, <3>2
    <3> QED BY <1>1, <1>3, <1>5, <3>1, <3>2, <3>3
  <2>2. D # <<>> /\ D[Len(D)] = t[j]
    BY <1>7, <2>1 DEF Text
  <2>3. q = IF j > 1 /\ t[j] = ":" THEN Append(D, "/") ELSE D
    BY <1>7, <1>8, <1>11, <2>2 DEF path_parent, dirname
  <2>4. PICK l : l = IF j > 1 /\ t[j] = ":" THEN j + 1 ELSE j
    OBVIOUS
  <2>5. l \in 1..Len(t) /\ l \in 0..Len(t) /\ l <= k /\ j <= l
    BY <1>1, <1>3, <2>1, <2>4
  <2>6. q = SubSeq(t, 1, l) /\ Names(q) = Names(D)
    <3>1. CASE j > 1 /\ t[j] = ":"
      <4>1. SubSeq(t, 1, j + 1) = SubSeq(t, 1, j) \o <<"/">> /\ (j + 1) - 1 = j
        BY <1>3, <2>1, CutAtSlash
      <4>2. Append(D, "/") = D \o <<"/">>
        BY <1>7 DEF Text
      <4>3. Names(D \o <<"/">>) = Names(D)
        BY <1>7, NamesBeforeSlash
      <4> QED BY <1>6, <2>3, <2>4, <3>1, <4>1, <4>2, <4>3
    <3>2. CASE ~(j > 1 /\ t[j] = ":")
      BY <1>6, <2>3, <2>4, <3>2
    <3> QED BY <3>1, <3>2
  <2>7. q \in Text /\ q \in Seq(Char) /\ Len(q) = l /\ \A i \in 1..l : q[i] = t[i]
    BY <2>5, <2>6, Parts DEF Text
  <2>8. \A i \in Separators(q) : i \in 1..(l - 1) /\ i \in Separators(t)
    <3> SUFFICES ASSUME NEW i \in Separators(q) PROVE i \in 1..(l - 1) /\ i \in Separators(t)
      OBVIOUS
    <3>1. i \in 1..(l - 1) /\ q[i] = ":" /\ q[i + 1] = "/"
      BY <2>7, SeparatorIs
    <3>2. i \in 1..l /\ i + 1 \in 1..l /\ i \in 1..(Len(t) - 1)
      BY <1>1, <2>5, <3>1
    <3> QED BY <2>7, <3>1, <3>2 DEF Separators
  <2>9. ASSUME NEW i \in Separators(t), i # m PROVE i \in Separators(q) \/ (i = 1 /\ l = 1)
    <3>1. i + 1 <= k /\ i <= j /\ i \in Nat /\ i >= 1 /\ t[i] = ":" /\ t[i + 1] = "/"
      BY <1>12, <1>13, <2>9
    <3>2. CASE i + 1 <= l
      <4>1. i \in 1..(l - 1) /\ i \in 1..l /\ i + 1 \in 1..l
        BY <2>5, <3>1, <3>2
      <4> QED BY <2>7, <3>1, <4>1 DEF Separators
    <3>3. CASE i + 1 > l
      <4>1. i = j /\ l = j
        BY <1>3, <2>1, <2>4, <3>1, <3>3
      <4>2. ~(j > 1)
        BY <1>3, <2>4, <3>1, <4>1
      <4> QED BY <1>3, <2>1, <4>1, <4>2
    <3> QED BY <2>5, <3>1, <3>2, <3>3
  <2>10. CASE HasSandbox(q)
    <3>1. PICK s : s = Separator(q)
      OBVIOUS
    <3>2. s \in Separators(q) /\ s > 1 /\ \A i \in Separators(q) : s <= i
      BY <2>7, <2>10, <3>1, SeparatorIs DEF HasSandbox
    <3>3. s \in 1..(l - 1) /\ s \in Separators(t)
      BY <2>8, <3>2
    <3>4. ASSUME NEW i \in Separators(t) PROVE s <= i
      <4>1. i # m => i \in Separators(q)
        BY <2>5, <2>9, <3>2, <3>3
      <4>2. i = m => s <= i
        BY <1>3, <2>5, <3>3
      <4> QED BY <3>2, <4>1, <4>2
    <3>5. Separator(t) = s
      <4>1. Separator(t) \in Separators(t) /\ \A i \in Separators(t) : Separator(t) <= i
        BY <3>3, SeparatorIs
      <4>2. PICK r : r = Separator(t)
        OBVIOUS
      <4>3. r <= s /\ s <= r
        BY <3>3, <3>4, <4>1, <4>2
      <4>4. r \in 1..(Len(t) - 1) /\ s \in 1..(Len(t) - 1)
        BY <1>12, <3>3, <4>1, <4>2
      <4>5. r \in Int /\ s \in Int
        BY <4>4
      <4>6. r = s
        BY <4>3, <4>5
      <4> QED BY <4>2, <4>6
    <3>6. HasSandbox(t)
      BY <3>2, <3>3, <3>5 DEF HasSandbox
    <3>7. s \in 0..l /\ s - 1 \in 0..l /\ s + 1 \in 0..l /\ s + 1 \in 1..l /\ s + 1 \in 0..Len(t) /\ s + 1 \in 1..Len(t) /\ (s + 1) - 1 = s
      BY <1>1, <2>5, <3>3
    <3>8. SubSeq(q, 1, s - 1) = SubSeq(t, 1, s - 1) /\ SubSeq(q, 1, s) = SubSeq(t, 1, s)
      BY <2>5, <2>6, <3>7, Shorter
    <3>9. SandboxOf(t) = SandboxOf(q)
      BY <3>1, <3>5, <3>8 DEF SandboxOf
    <3>10. Inside(q) \in Text /\ Inside(t) \in Text
      <4>1. Inside(q) = Behind(q, s + 1) /\ Inside(t) = Behind(t, s + 1)
        BY <3>1, <3>5 DEF Inside
      <4>2. Behind(q, s + 1) \in Text
        BY <2>7, <3>7, Parts
      <4>3. Behind(t, s + 1) \in Text
        BY <3>7, Parts
      <4> QED BY <4>1, <4>2, <4>3
    <3>11. t[s + 1] = "/" /\ q[s + 1] = "/"
      BY <1>12, <2>7, <3>3, <3>7
    <3>12. Names(t) = Names(SubSeq(t, 1, s)) \o Names(Inside(t))
      <4>1. Names(t) = Names(SubSeq(t, 1, (s + 1) - 1)) \o Names(Behind(t, s + 1))
        BY <3>7, <3>11, CutAtSlash
      <4> QED BY <3>5, <3>7, <4>1 DEF Inside
    <3>13. Names(q) = Names(SubSeq(t, 1, s)) \o Names(Inside(q))
      <4>1. Names(q) = Names(SubSeq(q, 1, (s + 1) - 1)) \o Names(Behind(q, s + 1))
        BY <2>7, <3>7, <3>11, CutAtSlash
      <4> QED BY <3>1, <3>7, <3>8, <4>1 DEF Inside
    <3>14. PICK x, y, z : x = Names(SubSeq(t, 1, s)) /\ y = Names(Inside(t)) /\ z = Names(Inside(q))
      OBVIOUS
    <3>15. x \in Seq(NameText) /\ y \in Seq(NameText) /\ z \in Seq(NameText)
      <4>1. s \in 0..Len(t)
        BY <1>1, <2>5, <3>7
      <4>2. SubSeq(t, 1, s) \in Text
        BY <4>1, Parts
      <4> QED BY <3>10, <3>14, <4>2, ScanTyped
    <3>16. x \o y = x \o Append(z, n)
      <4>1. x \o y = Append(x \o z, n)
        BY <1>10, <2>6, <3>12, <3>13, <3>14
      <4> QED BY <3>15, <4>1, AppendJoined
    <3>17. y = Append(z, n)
      <4>1. Append(z, n) \in Seq(NameText)
        BY <3>15
      <4> QED BY <3>15, <3>16, <4>1, ConcatSimplifications
    <3> QED BY <1>9, <1>11, <2>7, <2>10, <3>6, <3>9, <3>10, <3>14, <3>17 DEF SameSandbox
  <2>11. CASE ~HasSandbox(q)
    <3>1. HasSandbox(t) => Separator(t) = m
      <4> SUFFICES ASSUME HasSandbox(t), Separator(t) # m PROVE FALSE
        OBVIOUS
      <4>1. Separator(t) \in Separators(t) /\ Separator(t) > 1 /\ \A i \in Separators(t) : Separator(t) <= i
        BY SeparatorIs DEF HasSandbox
      <4>2. Separator(t) \in Separators(q)
        BY <2>9, <4>1
      <4>3. Separator(q) \in Separators(q)
        BY <2>7, <4>2, SeparatorIs
      <4>4. Separator(t) <= Separator(q) /\ Separator(t) \in Int /\ Separator(q) \in Int
        BY <1>12, <2>8, <4>1, <4>3
      <4>5. Separator(q) > 1
        BY <4>1, <4>4
      <4> QED BY <2>11, <4>2, <4>5 DEF HasSandbox
    <3>2. Absolute(q) <=> Absolute(t)
      <4>1. q # <<>> /\ t # <<>> /\ q[1] = t[1]
        BY <1>1, <2>5, <2>7
      <4> QED BY <4>1 DEF Absolute
    <3>3. PlaceFrom(dir, t) = Walk(PlaceFrom(dir, q), n)
      <4>1. PICK p \in Place : p = IF Absolute(t) THEN <<>> ELSE PlaceOf(dir)
        <5>1. PlaceOf(dir) \in Place
          BY PlacesTyped
        <5>2. <<>> \in Place
          BY DEF Place
        <5> QED BY <5>1, <5>2
      <4>2. PlaceFrom(dir, t) = WalkFrom(p, Names(t)) /\ PlaceFrom(dir, q) = WalkFrom(p, Names(q))
        BY <3>2, <4>1 DEF PlaceFrom
      <4>3. Names(q) \in Seq(Text) /\ n \in Text
        BY <2>7, PlacesTyped DEF NameText
      <4>4. WalkFrom(p, Append(Names(q), n)) = Walk(WalkFrom(p, Names(q)), n)
        BY <4>3, WalkStep
      <4> QED BY <1>10, <2>6, <4>2, <4>4
    <3> QED BY <1>9, <1>11, <1>14, <2>7, <2>11, <3>1, <3>3 DEF OutOfSandbox
  <2> QED BY <2>10, <2>11
<1> QED BY <1>15, <1>16
-----------------------------------------------------------------------------
(* Where the paths lead that are validated. *)

Near(S, p) == IsPrefix(S, p) \/ Beside(S, p)

LEMMA ValidNear ==
  ASSUME NEW dir, Normal(dir), NEW t \in Text, NEW v, v = path_validate(TRUE, dir, t), v # NoPath
  PROVE  Near(SandboxPlace(dir, t), Names(v))
<1>1. Known(t) /\ Normal(v) /\ IsPrefix(path_absolute(dir, sandbox_get(t)), v)
  <2>1. PICK s \in BOOLEAN : s = TRUE
    OBVIOUS
  <2>2. v = path_validate(s, dir, t)
    BY <2>1
  <2> QED BY <2>1, <2>2, ValidMeans
<1>2. sandbox_get(t) \in Text /\ PlaceFrom(dir, sandbox_get(t)) = SandboxPlace(dir, t)
  BY <1>1, ResolveMeans
<1>3. PICK a : a = path_absolute(dir, sandbox_get(t))
  OBVIOUS
<1>4. Normal(a) /\ Names(a) = SandboxPlace(dir, t)
  BY <1>2, <1>3, AbsoluteMeans
<1> QED BY <1>1, <1>3, <1>4, PrefixNames DEF Near

LEMMA FrontIs ==
  ASSUME NEW E, NEW s \in Seq(E), s # <<>>
  PROVE  Front(s) \in Seq(E) /\ Len(Front(s)) = Len(s) - 1 /\ \A i \in 1..(Len(s) - 1) : Front(s)[i] = s[i]
<1>1. PICK f, n : f = SubSeq(s, 1, n) /\ n = Len(s) - 1
  OBVIOUS
<1>2. Len(s) \in Nat /\ Len(s) # 0
  OBVIOUS
<1>3. n \in Nat /\ n <= Len(s)
  BY <1>1, <1>2
<1>4. f \in Seq(E) /\ Len(f) = n /\ \A i \in 1..n : f[i] = s[i]
  BY <1>1, <1>3
<1> QED BY <1>1, <1>4 DEF Front

\* One name further is as near, unless it is .. .
LEMMA NearStep ==
  ASSUME NEW S \in Place, NEW d \in Place, NEW n \in Text, Near(S, d)
  PROVE  Near(S, Walk(d, n)) \/ (n = <<".", ".">> /\ IsPrefix(Front(S), Walk(d, n)))
<1>1. S \in Seq(Text) /\ d \in Seq(Text) /\ Len(S) \in Nat /\ Len(d) \in Nat
  BY DEF Place
<1>2. CASE n = <<".">>
  BY <1>2 DEF Walk
<1>3. CASE n = <<".", ".">>
  <2>1. n # <<".">>
    BY <1>3
  <2>2. Walk(d, n) = IF d = <<>> THEN <<>> ELSE Front(d)
    BY <1>3, <2>1 DEF Walk
  <2>3. CASE S = <<>>
    <3>1. \A p \in Seq(Text) : IsPrefix(<<>>, p)
      BY DEF IsPrefix
    <3>2. Walk(d, n) \in Seq(Text)
      BY WalkTyped DEF Place
    <3> QED BY <2>3, <3>1, <3>2 DEF Near
  <2>4. CASE S # <<>>
    <3>1. Front(S) \in Seq(Text) /\ Len(Front(S)) = Len(S) - 1 /\ \A i \in 1..(Len(S) - 1) : Front(S)[i] = S[i]
      BY <1>1, <2>4, FrontIs
    <3>2. Len(S) <= Len(d) /\ \A i \in 1..(Len(S) - 1) : S[i] = d[i]
      <4>1. CASE IsPrefix(S, d)
        BY <1>1, <4>1, PrefixIs
      <4>2. CASE Beside(S, d)
        <5>1. Len(S) <= Len(d) /\ IsPrefix(Front(S), d)
          BY <4>2 DEF Beside
        <5>2. \A i \in 1..Len(Front(S)) : Front(S)[i] = d[i]
          BY <1>1, <3>1, <5>1, PrefixIs
        <5> QED BY <3>1, <5>1, <5>2
      <4> QED BY <4>1, <4>2 DEF Near
    <3>3. d # <<>> /\ Len(S) # 0
      BY <1>1, <2>4, <3>2
    <3>4. Front(d) \in Seq(Text) /\ Len(Front(d)) = Len(d) - 1 /\ \A i \in 1..(Len(d) - 1) : Front(d)[i] = d[i]
      BY <1>1, <3>3, FrontIs
    <3>5. \A i \in 1..(Len(S) - 1) : i \in 1..(Len(d) - 1)
      BY <1>1, <3>2
    <3>6. Len(Front(S)) <= Len(Front(d)) /\ \A i \in 1..Len(Front(S)) : Front(S)[i] = Front(d)[i]
      BY <1>1, <3>1, <3>2, <3>4, <3>5
    <3>7. IsPrefix(Front(S), Front(d))
      BY <3>1, <3>4, <3>6, PrefixIs
    <3> QED BY <1>3, <2>2, <3>3, <3>7
  <2> QED BY <2>3, <2>4
<1>4. CASE n # <<".">> /\ n # <<".", ".">>
  <2>1. PICK p : p = Append(d, n)
    OBVIOUS
  <2>2. Walk(d, n) = p
    BY <1>4, <2>1 DEF Walk
  <2>3. p \in Seq(Text) /\ Len(p) = Len(d) + 1 /\ \A i \in 1..Len(d) : p[i] = d[i]
    BY <1>1, <2>1
  <2>4. \A u \in Seq(Text) : IsPrefix(u, d) => IsPrefix(u, p)
    <3> SUFFICES ASSUME NEW u \in Seq(Text), IsPrefix(u, d) PROVE IsPrefix(u, p)
      OBVIOUS
    <3>1. Len(u) \in Nat /\ Len(u) <= Len(d) /\ \A i \in 1..Len(u) : u[i] = d[i]
      BY <1>1, PrefixIs
    <3>2. \A i \in 1..Len(u) : i \in 1..Len(d)
      BY <1>1, <3>1
    <3>3. Len(u) <= Len(p) /\ \A i \in 1..Len(u) : u[i] = p[i]
      BY <1>1, <2>3, <3>1, <3>2
    <3> QED BY <2>3, <3>3, PrefixIs
  <2>5. ASSUME Beside(S, d) PROVE Beside(S, p)
    <3>1. S # <<>> /\ Len(S) <= Len(d) /\ IsPrefix(Front(S), d) /\ IsStrictPrefix(Last(S), d[Len(S)])
      BY <2>5 DEF Beside
    <3>2. Front(S) \in Seq(Text)
      BY <1>1, <3>1 DEF Front
    <3>3. Len(S) \in 1..Len(d)
      BY <1>1, <3>1
    <3>4. p[Len(S)] = d[Len(S)] /\ Len(S) <= Len(p)
      BY <1>1, <2>3, <3>1, <3>3
    <3> QED BY <2>4, <3>1, <3>2, <3>4 DEF Beside
  <2> QED BY <1>1, <2>2, <2>4, <2>5 DEF Near
<1> QED BY <1>2, <1>3, <1>4

\* The place of what is put behind a directory.
LEMMA PlaceBelow ==
  ASSUME NEW d \in Clean, NEW b \in Text
  PROVE  PlaceOf((d \o <<"/">>) \o b) = WalkFrom(Names(d), Names(b))
<1>1. d \in Text /\ <<>> \in Place /\ ProperName \subseteq Text /\ NameText \subseteq Text
  BY DEF Clean, Place, ProperName, NameText
<1>2. Names((d \o <<"/">>) \o b) = Names(d) \o Names(b)
  BY <1>1, Joined
<1>3. Names(d) \in Seq(Text) /\ Names(b) \in Seq(Text)
  BY <1>1, ScanTyped
<1>4. WalkFrom(<<>>, Names(d) \o Names(b)) = WalkFrom(WalkFrom(<<>>, Names(d)), Names(b))
  BY <1>1, <1>3, WalkOn, Zenon
<1>5. WalkFrom(<<>>, Names(d)) = Names(d)
  BY PlaceOfClean DEF PlaceOf
<1> QED BY <1>2, <1>4, <1>5 DEF PlaceOf

LEMMA PlaceOfNew ==
  ASSUME NEW d \in Clean, NEW n \in NameText
  PROVE  PlaceOf((d \o <<"/">>) \o n) = Walk(Names(d), n)
<1>1. n \in Text /\ <<>> \in Seq(Text) /\ Append(<<>>, n) = <<n>> /\ ProperName \subseteq Text
  BY DEF NameText, ProperName
<1>2. Names(n) = <<n>>
  BY NamesOfName
<1>3. Names(d) \in Place
  BY <1>1, PlaceOfClean DEF Place
<1>4. WalkFrom(Names(d), Append(<<>>, n)) = Walk(WalkFrom(Names(d), <<>>), n)
  BY <1>1, <1>3, WalkStep, Zenon
<1>5. WalkFrom(Names(d), <<>>) = Names(d)
  BY <1>3, WalkOfNone
<1> QED BY <1>1, <1>2, <1>4, <1>5, PlaceBelow

\* A path without a name, and the directory it is in.
LEMMA Nameless ==
  ASSUME NEW t \in Text, Stripped(t) = <<>>
  PROVE  /\ ~HasSandbox(t) /\ ~HasSandbox(path_parent(t)) /\ path_parent(t) \in Text
         /\ path_parent(t) = IF Absolute(t) THEN <<"/">> ELSE <<".">>
         /\ Names(t) = <<>> /\ (Absolute(t) <=> t # <<>>)
<1>1. t \in Seq(Char) /\ Len(t) \in Nat /\ <<>> \in Text
  BY DEF Text
<1>2. \A i \in DOMAIN t : t[i] = "/"
  <2>1. PICK k \in 0..Len(t) : Stripped(t) = SubSeq(t, 1, k) /\ \A i \in (k + 1)..Len(t) : t[i] = "/"
    BY StrippedIs
  <2>2. Len(SubSeq(t, 1, k)) = k
    BY Parts
  <2>3. k = 0
    BY <2>1, <2>2
  <2> QED BY <1>1, <2>1, <2>3
<1>3. Separators(t) = {}
  <2> SUFFICES ASSUME NEW i \in Separators(t) PROVE FALSE
    OBVIOUS
  <2>1. i \in 1..(Len(t) - 1) /\ t[i] = ":"
    BY DEF Separators
  <2>2. i \in DOMAIN t
    BY <1>1, <2>1
  <2> QED BY <1>2, <2>1, <2>2
<1>4. Names(t) = <<>>
  BY <1>2, NamesOfSlashes
<1>5. Parent(t) = <<>>
  <2>1. PICK k : k = LastSlash(<<>>)
    OBVIOUS
  <2>2. k = 0
    <3>1. k \in 0..Len(<<>>)
      BY <1>1, <2>1, LastSlashIs
    <3> QED BY <3>1
  <2>3. SubSeq(<<>>, 1, 0) = <<>>
    OBVIOUS
  <2>4. Stripped(<<>>) = <<>>
    <3>1. PICK j \in 0..Len(<<>>) : Stripped(<<>>) = SubSeq(<<>>, 1, j)
      BY <1>1, StrippedIs
    <3>2. j = 0
      BY <3>1
    <3> QED BY <2>3, <3>1, <3>2
  <2> QED BY <2>1, <2>2, <2>3, <2>4 DEF Parent
<1>6. PICK q : q = path_parent(t)
  OBVIOUS
<1>7. q = IF Absolute(t) THEN <<"/">> ELSE <<".">>
  BY <1>5, <1>6 DEF path_parent, dirname
<1>8. q \in Text /\ ~HasSandbox(q)
  <2>1. q \in Text /\ Len(q) = 1
    BY <1>7, CharAssumption DEF Text
  <2>2. Separators(q) = {}
    BY <2>1 DEF Separators
  <2> QED BY <2>1, <2>2 DEF HasSandbox
<1>9. Absolute(t) <=> t # <<>>
  <2>1. t # <<>> => 1 \in DOMAIN t
    BY <1>1
  <2> QED BY <1>2, <2>1 DEF Absolute
<1>10. ~HasSandbox(t)
  BY <1>3 DEF HasSandbox
<1> QED BY <1>4, <1>6, <1>7, <1>8, <1>9, <1>10

LEMMA NamelessMeans ==
  ASSUME NEW dir, Normal(dir), NEW t \in Text, Stripped(t) = <<>>,
         NEW d, Normal(d), Names(d) = PlaceFrom(dir, path_parent(t))
  PROVE  PlaceOf((d \o <<"/">>) \o basename(t)) = PlaceFrom(dir, t)
<1>1. PICK q \in Text : q = path_parent(t)
  BY Nameless
<1>2. (q = IF Absolute(t) THEN <<"/">> ELSE <<".">>) /\ Names(t) = <<>> /\ (Absolute(t) <=> t # <<>>)
  BY <1>1, Nameless
<1>3. Names(d) = PlaceFrom(dir, q)
  BY <1>1
<1>4. d \in Clean /\ <<>> \in Place
  BY NormalIsClean DEF Place
<1>5. CASE t = <<>>
  <2>1. q = <<".">> /\ ~Absolute(q) /\ ~Absolute(t) /\ basename(t) = <<".">>
    <3>1. Stripped(t) = <<>> /\ ~Absolute(t) /\ q = <<".">>
      BY <1>2, <1>5
    <3> QED BY <1>5, <3>1 DEF Absolute, basename
  <2>2. PICK n \in NameText : n = <<".">>
    <3>1. <<".">> \in NameText
      BY CharAssumption DEF NameText, Text
    <3> QED BY <3>1
  <2>3. Names(q) = <<n>>
    BY <2>1, <2>2, NamesOfName
  <2>4. PICK p \in Place : p = PlaceOf(dir)
    BY PlacesTyped
  <2>5. WalkFrom(p, <<>>) = p /\ WalkFrom(p, <<n>>) = p
    <3>1. Append(<<>>, n) = <<n>> /\ <<>> \in Seq(Text) /\ n \in Text
      BY DEF NameText
    <3>2. WalkFrom(p, Append(<<>>, n)) = Walk(WalkFrom(p, <<>>), n)
      BY <3>1, WalkStep, Zenon
    <3>3. WalkFrom(p, <<>>) = p
      BY WalkOfNone
    <3> QED BY <2>2, <3>1, <3>2, <3>3 DEF Walk
  <2>6. Names(d) = p /\ PlaceFrom(dir, t) = p
    BY <1>2, <1>3, <2>1, <2>3, <2>4, <2>5 DEF PlaceFrom
  <2>7. PlaceOf((d \o <<"/">>) \o n) = Walk(Names(d), n)
    BY <1>4, PlaceOfNew
  <2>8. Walk(Names(d), n) = Names(d)
    BY <2>2 DEF Walk
  <2> QED BY <2>1, <2>2, <2>6, <2>7, <2>8
<1>6. CASE t # <<>>
  <2>1. q = <<"/">> /\ Absolute(q) /\ Absolute(t) /\ basename(t) = <<"/">>
    <3>1. Stripped(t) = <<>> /\ Absolute(t) /\ q = <<"/">>
      BY <1>2, <1>6
    <3> QED BY <1>6, <3>1 DEF Absolute, basename
  <2>2. WalkFrom(<<>>, <<>>) = <<>>
    BY <1>4, WalkOfNone
  <2>3. Names(d) = <<>> /\ PlaceFrom(dir, t) = <<>>
    BY <1>2, <1>3, <2>1, <2>2, NamesOfSlash DEF PlaceFrom
  <2>4. <<"/">> \in Text
    BY CharAssumption DEF Text
  <2>5. PlaceOf((d \o <<"/">>) \o <<"/">>) = WalkFrom(Names(d), Names(<<"/">>))
    BY <1>4, <2>4, PlaceBelow
  <2> QED BY <2>1, <2>2, <2>3, <2>5, NamesOfSlash
<1> QED BY <1>5, <1>6

\* Where path_validate_parent leads: to what the path means, or for the path of
\* a sandbox itself, which is then not taken for one, to the place of its text.
NewLeads(dir, s, t, p) ==
  /\ p = Meaning(dir, t) \/ (SandboxAlone(t) /\ p = PlaceFrom(dir, t))
  /\ s => Known(t) /\ LET S == SandboxPlace(dir, t)
                      IN Near(S, p) \/ (EndsUp(t) /\ IsPrefix(Front(S), p))

LEMMA NewMeans ==
  ASSUME NEW dir, Normal(dir), NEW t \in Text, NEW s \in BOOLEAN,
         NEW v, v = path_validate_parent(s, dir, t), v # NoPath
  PROVE  NewLeads(dir, s, t, PlaceOf(v))
<1>1. PICK q \in Text : q = path_parent(t)
  <2>1. path_parent(t) \in Text
    BY Nameless, ParentMeans
  <2> QED BY <2>1
<1>2. PICK d : d = path_validate(s, dir, q)
  OBVIOUS
<1>3. d # NoPath /\ v = (d \o <<"/">>) \o basename(t)
  BY <1>1, <1>2, Zenon DEF path_validate_parent
<1>4. /\ Normal(d) /\ Names(d) = Meaning(dir, q)
      /\ (HasSandbox(q) => Known(q)) /\ (s => Known(q))
  BY <1>2, <1>3, ValidMeans
<1>5. s => HasSandbox(q)
  BY <1>4 DEF Known
<1>6. d \in Clean
  BY <1>4, NormalIsClean
<1>7. ASSUME ~HasSandbox(q) PROVE Names(d) = PlaceFrom(dir, q) /\ ~s
  BY <1>4, <1>5, <1>7 DEF Meaning, Known
<1>8. CASE Stripped(t) = <<>>
  <2>1. ~HasSandbox(t) /\ ~HasSandbox(q)
    BY <1>1, <1>8, Nameless
  <2>2. PlaceOf(v) = PlaceFrom(dir, t)
    BY <1>1, <1>3, <1>4, <1>7, <1>8, <2>1, NamelessMeans
  <2>3. Meaning(dir, t) = PlaceFrom(dir, t)
    BY <2>1 DEF Meaning, Known
  <2> QED BY <1>7, <2>1, <2>2, <2>3 DEF NewLeads
<1>9. CASE Stripped(t) # <<>>
  <2>1. PICK n \in NameText : n = basename(t)
    BY <1>9, ParentIs
  <2>2. PlaceOf(v) = Walk(Names(d), n)
    BY <1>3, <1>6, <2>1, PlaceOfNew
  <2>3. SameSandbox(t, q, n) \/ OutOfSandbox(dir, t, q, n)
    BY <1>1, <1>9, <2>1, ParentMeans
  <2>4. n \in Text
    BY DEF NameText
  <2>5. CASE SameSandbox(t, q, n)
    <3>1. HasSandbox(q) /\ HasSandbox(t) /\ SandboxOf(t) = SandboxOf(q) /\ Known(q)
      BY <1>4, <2>5 DEF SameSandbox
    <3>2. Known(t) /\ SandboxPath(t) = SandboxPath(q) /\ SandboxPlace(dir, t) = SandboxPlace(dir, q)
      BY <3>1 DEF Known, SandboxPath, SandboxPlace
    <3>3. PICK a, b, c : a = SandboxPath(t) /\ b = Inside(t) /\ c = Inside(q)
      OBVIOUS
    <3>4. a \in Text /\ b \in Text /\ c \in Text /\ Names(b) = Append(Names(c), n)
      BY <2>5, <3>2, <3>3, SandboxTyped DEF SameSandbox
    <3>5. PICK x, y : x = (a \o <<"/">>) \o b /\ y = (a \o <<"/">>) \o c
      OBVIOUS
    <3>6. x \in Text /\ Names(x) = Names(a) \o Names(b) /\ (Absolute(x) <=> a = <<>> \/ Absolute(a))
      BY <3>4, <3>5, Joined
    <3>7. y \in Text /\ Names(y) = Names(a) \o Names(c) /\ (Absolute(y) <=> a = <<>> \/ Absolute(a))
      BY <3>4, <3>5, Joined
    <3>8. Names(x) = Append(Names(y), n)
      <4>1. Names(a) \in Seq(NameText) /\ Names(c) \in Seq(NameText)
        BY <3>4, ScanTyped
      <4> QED BY <3>4, <3>6, <3>7, <4>1, AppendJoined
    <3>9. Meaning(dir, t) = PlaceFrom(dir, x) /\ Meaning(dir, q) = PlaceFrom(dir, y)
      BY <3>1, <3>2, <3>3, <3>5 DEF Meaning
    <3>10. PlaceFrom(dir, x) = Walk(PlaceFrom(dir, y), n)
      <4>1. PICK p \in Place : p = IF Absolute(x) THEN <<>> ELSE PlaceOf(dir)
        <5>1. PlaceOf(dir) \in Place
          BY PlacesTyped
        <5>2. <<>> \in Place
          BY DEF Place
        <5> QED BY <5>1, <5>2
      <4>2. PlaceFrom(dir, x) = WalkFrom(p, Names(x)) /\ PlaceFrom(dir, y) = WalkFrom(p, Names(y))
        BY <3>6, <3>7, <4>1 DEF PlaceFrom
      <4>3. Names(y) \in Seq(Text)
        BY <3>7, PlacesTyped
      <4>4. WalkFrom(p, Append(Names(y), n)) = Walk(WalkFrom(p, Names(y)), n)
        BY <2>4, <4>3, WalkStep
      <4> QED BY <3>8, <4>2, <4>4
    <3>11. PlaceOf(v) = Meaning(dir, t)
      BY <1>4, <2>2, <3>9, <3>10
    <3>12. ASSUME s
           PROVE  \/ Near(SandboxPlace(dir, t), PlaceOf(v))
                  \/ EndsUp(t) /\ IsPrefix(Front(SandboxPlace(dir, t)), PlaceOf(v))
      <4>1. d = path_validate(TRUE, dir, q)
        BY <1>2, <3>12
      <4>2. Near(SandboxPlace(dir, t), Names(d))
        BY <1>3, <3>2, <4>1, ValidNear
      <4>3. SandboxPlace(dir, t) \in Place /\ Names(d) \in Place
        <5>1. SandboxPlace(dir, t) \in Place
          BY <3>3, <3>4, PlacesTyped DEF SandboxPlace
        <5>2. d \in Text
          BY <1>6 DEF Clean
        <5> QED BY <5>1, <5>2, PlacesTyped DEF Place
      <4>4. \/ Near(SandboxPlace(dir, t), Walk(Names(d), n))
            \/ n = <<".", ".">> /\ IsPrefix(Front(SandboxPlace(dir, t)), Walk(Names(d), n))
        BY <2>4, <4>2, <4>3, NearStep
      <4>5. n = <<".", ".">> => EndsUp(t)
        <5>1. Names(Parent(t)) \in Seq(NameText) /\ Names(t) = Append(Names(Parent(t)), n)
          BY <1>9, <2>1, ParentIs
        <5>2. \A e \in Seq(NameText) : Append(e, n) # <<>> /\ Last(Append(e, n)) = n
          BY DEF Last
        <5> QED BY <5>1, <5>2 DEF EndsUp
      <4> QED BY <2>2, <4>4, <4>5
    <3> QED BY <3>2, <3>11, <3>12 DEF NewLeads
  <2>6. CASE OutOfSandbox(dir, t, q, n)
    <3>1. ~HasSandbox(q) /\ PlaceFrom(dir, t) = Walk(PlaceFrom(dir, q), n)
      BY <2>6 DEF OutOfSandbox
    <3>2. PlaceOf(v) = PlaceFrom(dir, t) /\ ~s
      BY <1>7, <2>2, <3>1
    <3>3. Known(t) => SandboxAlone(t)
      BY <2>6 DEF OutOfSandbox, SandboxAlone, Known
    <3>4. ~Known(t) => Meaning(dir, t) = PlaceFrom(dir, t)
      BY DEF Meaning
    <3> QED BY <3>2, <3>3, <3>4 DEF NewLeads
  <2> QED BY <2>3, <2>5, <2>6
<1> QED BY <1>8, <1>9
-----------------------------------------------------------------------------
(* The steps of a script.  The current directory stays one that getcwd could *)
(* have given.                                                               *)

PathInv == Normal(cwd) /\ safe \in BOOLEAN

Meant == /\ \A p \in seen'    : Opened(p, FALSE) \/ Means(p, FALSE)
         /\ \A p \in changed' : Opened(p, TRUE) \/ Means(p, TRUE)
         /\ \A p \in taken'   : Means(p, FALSE)

LEMMA MayWriteGranted ==
  ASSUME NEW t, MayWrite(t)
  PROVE  Granted(t)
BY DEF MayWrite, path_access, sandbox_get_path_access, Granted, Known

LEMMA ExistingMeans ==
  ASSUME PathInv, NEW t \in Paths_, NEW w \in BOOLEAN, w => MayWrite(t), NEW v, v = Existing(t), v # NoPath
  PROVE  Means(PlaceOf(v), w)
<1>1. t \in Text
  BY PathsAssumption
<1>2. v = path_validate(safe, cwd, t) /\ Normal(cwd) /\ safe \in BOOLEAN
  BY DEF Existing, PathInv
<1>3. PlaceOf(v) = Meaning(cwd, t) /\ Names(v) = Meaning(cwd, t) /\ (safe => Known(t))
  BY <1>1, <1>2, ValidMeans
<1>4. ASSUME safe PROVE Confined(t, PlaceOf(v))
  <2>1. v = path_validate(TRUE, cwd, t)
    BY <1>2, <1>4
  <2>2. Near(SandboxPlace(cwd, t), Names(v))
    BY <1>1, <1>2, <2>1, ValidNear
  <2> QED BY <1>3, <1>4, <2>2 DEF Confined, Near
<1>5. w => Granted(t)
  BY MayWriteGranted
<1> QED BY <1>3, <1>4, <1>5 DEF Means

LEMMA NewInMeans ==
  ASSUME PathInv, NEW t \in Paths_, NEW w \in BOOLEAN, w => MayWrite(t), NEW v, v = NewIn(t), v # NoPath
  PROVE  Means(PlaceOf(v), w)
<1>1. t \in Text
  BY PathsAssumption
<1>2. v = path_validate_parent(safe, cwd, t) /\ Normal(cwd) /\ safe \in BOOLEAN
  BY DEF NewIn, PathInv
<1>3. NewLeads(cwd, safe, t, PlaceOf(v))
  BY <1>1, <1>2, NewMeans
<1>4. safe => Confined(t, PlaceOf(v))
  BY <1>3 DEF NewLeads, Confined, Near
<1>5. w => Granted(t)
  BY MayWriteGranted
<1> QED BY <1>3, <1>4, <1>5 DEF Means, NewLeads

LEMMA AsksMeans ==
  ASSUME PathInv, NEW t \in Paths_, NEW test, NEW v \in {Existing(t), NewIn(t)}
  PROVE  /\ Asks(test, v, Looks) => Meant
         /\ (test => MayWrite(t)) /\ Asks(test, v, Changed) => Meant
<1>1. ASSUME NEW w \in BOOLEAN, w => MayWrite(t), v # NoPath PROVE Means(PlaceOf(v), w)
  <2>1. CASE v = Existing(t)
    BY <1>1, <2>1, ExistingMeans
  <2>2. CASE v = NewIn(t)
    BY <1>1, <2>2, NewInMeans
  <2> QED BY <2>1, <2>2
<1>2. ASSUME SeesNone PROVE Meant
  BY <1>2 DEF SeesNone, Sees, Meant
<1>3. ASSUME Asks(test, v, Looks) PROVE Meant
  <2>1. CASE v # NoPath /\ Looks(PlaceOf(v))
    <3>1. seen' = {PlaceOf(v)} /\ changed' = {} /\ taken' = {}
      BY <2>1 DEF Looks, Sees
    <3>2. Means(PlaceOf(v), FALSE)
      BY <1>1, <2>1
    <3> QED BY <3>1, <3>2 DEF Meant
  <2> QED BY <1>2, <1>3, <2>1 DEF Asks
<1>4. ASSUME test => MayWrite(t), Asks(test, v, Changed) PROVE Meant
  <2>1. CASE test /\ v # NoPath /\ Changed(PlaceOf(v))
    <3>1. seen' = {} /\ changed' = {PlaceOf(v)} /\ taken' = {}
      BY <2>1 DEF Changed, Sees
    <3>2. Means(PlaceOf(v), TRUE)
      BY <1>1, <1>4, <2>1
    <3> QED BY <3>1, <3>2 DEF Meant
  <2> QED BY <1>2, <1>4, <2>1 DEF Asks
<1> QED BY <1>3, <1>4

LEMMA AsksBothMean ==
  ASSUME PathInv, NEW t \in Paths_, NEW d \in Paths_
  PROVE  AsksBoth(t, d, Links) \/ AsksBoth(t, d, Copies) \/ AsksBoth(t, d, Moves) => Meant
<1>1. PICK from, to : from = Existing(t) /\ to = NewIn(d)
  OBVIOUS
<1>2. from # NoPath => Means(PlaceOf(from), FALSE)
  BY <1>1, ExistingMeans
<1>3. to # NoPath /\ MayWrite(d) => Means(PlaceOf(to), TRUE)
  BY <1>1, NewInMeans
<1>4. ASSUME SeesNone PROVE Meant
  BY <1>4 DEF SeesNone, Sees, Meant
<1> DEFINE Both == MayWrite(d) /\ to # NoPath /\ from # NoPath
<1>5. AsksBoth(t, d, Links) => SeesNone \/ (Both /\ Links(PlaceOf(from), PlaceOf(to)))
  BY <1>1 DEF AsksBoth
<1>6. AsksBoth(t, d, Copies) => SeesNone \/ (Both /\ Copies(PlaceOf(from), PlaceOf(to)))
  BY <1>1 DEF AsksBoth
<1>7. AsksBoth(t, d, Moves) => SeesNone \/ (Both /\ Moves(PlaceOf(from), PlaceOf(to)))
  BY <1>1 DEF AsksBoth
<1>8. ASSUME Both, \/ Links(PlaceOf(from), PlaceOf(to)) \/ Copies(PlaceOf(from), PlaceOf(to))
                   \/ Moves(PlaceOf(from), PlaceOf(to))
      PROVE  Meant
  <2>1. seen' \subseteq {PlaceOf(from)} /\ changed' \subseteq {PlaceOf(to)} /\ taken' \subseteq {PlaceOf(from)}
    BY <1>8 DEF Links, Copies, Moves, Sees
  <2> QED BY <1>2, <1>3, <1>8, <2>1 DEF Meant
<1> QED BY <1>4, <1>5, <1>6, <1>7, <1>8

LEMMA PathCallMeans ==
  ASSUME PathInv, PathCall
  PROVE  Meant /\ PathInv'
<1>1. ASSUME SeesNone PROVE Meant
  BY <1>1 DEF SeesNone, Sees, Meant
<1>2. \A t : NeverSet(t) => Meant /\ UNCHANGED <<cwd, safe>>
  BY <1>1 DEF NeverSet, KeepPaths
<1>3. \A t, test, v : Asks(test, v, Looks) \/ Asks(test, v, Changed) => UNCHANGED <<cwd, safe>>
  BY DEF Asks, KeepPaths
<1>4. \A t, d : AsksBoth(t, d, Links) \/ AsksBoth(t, d, Copies) \/ AsksBoth(t, d, Moves) => UNCHANGED <<cwd, safe>>
  BY DEF AsksBoth, KeepPaths
<1>5. ASSUME UNCHANGED <<cwd, safe>> PROVE PathInv'
  BY <1>5 DEF PathInv, Normal
<1>6. \A t \in Paths_ : Existing(t) \in {Existing(t), NewIn(t)} /\ NewIn(t) \in {Existing(t), NewIn(t)}
  OBVIOUS
<1>7. CASE stat \/ scandir \/ fileread \/ access
  <2>1. PICK t \in Paths_ : NeverSet(t) \/ \E test \in BOOLEAN : Asks(test, Existing(t), Looks)
    <3>1. CASE stat \/ scandir
      BY <3>1 DEF stat, scandir
    <3>2. CASE fileread
      BY <3>2 DEF fileread
    <3>3. CASE access
      <4>1. PICK t \in Paths_ : Asks(t # <<>> /\ MayWrite(t), Existing(t), Looks)
        BY <3>3 DEF access
      <4>2. PICK test : test = (t # <<>> /\ MayWrite(t)) /\ test \in BOOLEAN
        OBVIOUS
      <4> QED BY <4>1, <4>2
    <3> QED BY <1>7, <3>1, <3>2, <3>3
  <2> QED BY <1>2, <1>3, <1>5, <1>6, <2>1, AsksMeans
<1>8. CASE mkdir \/ rmdir \/ unlink \/ chmod \/ filewrite
  <2>1. PICK t \in Paths_ : \/ Asks(t # <<>> /\ MayWrite(t), Existing(t), Changed)
                            \/ Asks(t # <<>> /\ MayWrite(t), NewIn(t), Changed)
    BY <1>8 DEF mkdir, rmdir, unlink, chmod, filewrite
  <2>2. PICK v \in {Existing(t), NewIn(t)} : Asks(t # <<>> /\ MayWrite(t), v, Changed)
    BY <2>1
  <2>3. PICK test : test = (t # <<>> /\ MayWrite(t))
    OBVIOUS
  <2>4. Asks(test, v, Changed) /\ (test => MayWrite(t))
    BY <2>2, <2>3
  <2>5. Meant
    BY <2>4, AsksMeans
  <2> QED BY <1>3, <1>5, <2>4, <2>5
<1>9. CASE link \/ copy \/ rename
  <2>1. PICK t \in Paths_, d \in Paths_ : AsksBoth(t, d, Links) \/ AsksBoth(t, d, Copies) \/ AsksBoth(t, d, Moves)
    BY <1>9 DEF link, copy, rename
  <2> QED BY <1>4, <1>5, <2>1, AsksBothMean
<1>10. CASE chdir
  <2>1. SeesNone /\ safe' = safe
    BY <1>10 DEF chdir
  <2>2. CASE cwd' = cwd
    BY <1>1, <1>5, <2>1, <2>2
  <2>3. CASE cwd' # cwd
    <3>1. PICK t \in Paths_ : cwd' = path_absolute(cwd, t)
      BY <1>10, <2>3 DEF chdir
    <3>2. Normal(path_absolute(cwd, t))
      BY PathsAssumption, AbsoluteMeans DEF PathInv
    <3>3. Normal(cwd')
      BY <3>1, <3>2
    <3> QED BY <1>1, <2>1, <3>3 DEF PathInv, Normal
  <2> QED BY <2>2, <2>3
<1> QED BY <1>7, <1>8, <1>9, <1>10 DEF PathCall

\* What is opened is new, and is what a path means.
LEMMA OpenMeans ==
  ASSUME PathInv, NEW t \in Paths_, NEW mode, Opens(t, mode), PlaceSeen(t, mode)
  PROVE  Meant
<1>1. PICK v : v = NewIn(t)
  OBVIOUS
<1>2. v # NoPath /\ (Writes(mode) => MayWrite(t)) /\ PlaceNew(t) = PlaceOf(v)
  BY <1>1 DEF Opens, PlaceNew
<1>3. CASE Writes(mode)
  <2>1. Means(PlaceOf(v), TRUE)
    BY <1>1, <1>2, <1>3, NewInMeans
  <2>2. seen' = {} /\ changed' = {PlaceOf(v)} /\ taken' = {}
    BY <1>2, <1>3 DEF PlaceSeen, Sees
  <2> QED BY <2>1, <2>2 DEF Meant
<1>4. CASE ~Writes(mode)
  <2>1. Means(PlaceOf(v), FALSE)
    BY <1>1, <1>2, NewInMeans
  <2>2. seen' = {PlaceOf(v)} /\ changed' = {} /\ taken' = {}
    BY <1>2, <1>4 DEF PlaceSeen, Sees
  <2> QED BY <2>1, <2>2 DEF Meant
<1> QED BY <1>3, <1>4

LEMMA FileCallMeans ==
  ASSUME PathInv, Typed, FilesTyped, FileCall
  PROVE  Meant /\ PathInv'
<1>1. ASSUME SeesNone PROVE Meant
  BY <1>1 DEF SeesNone, Sees, Meant
<1>2. ASSUME KeepPaths PROVE PathInv'
  BY <1>2 DEF KeepPaths, PathInv, Normal
<1>3. CASE PathCall
  BY <1>3, PathCallMeans
<1>4. CASE file_open
  <2>1. KeepPaths
    BY <1>4 DEF file_open
  <2>2. SeesNone \/ \E t \in Paths_, mode \in Modes : Opens(t, mode) /\ PlaceSeen(t, mode)
    BY <1>4, Zenon DEF file_open
  <2> QED BY <1>1, <1>2, <2>1, <2>2, OpenMeans
<1>5. CASE file_reopen
  <2>1. PICK a \in Argument, t \in Paths_, mode \in Modes :
          /\ KeepPaths
          /\ IF safe /\ Broken(a) THEN Misused
             ELSE IF (safe /\ stream[FileOf(a)].low) \/ ~Opens(t, mode) THEN Refused
             ELSE IF Broken(a) THEN Misused
             ELSE SeesNone \/ PlaceSeen(t, mode)
    BY <1>5, Zenon DEF file_reopen
  <2>2. SeesNone \/ (Opens(t, mode) /\ PlaceSeen(t, mode))
    BY <2>1 DEF Misused, Refused
  <2> QED BY <1>1, <1>2, <2>1, <2>2, OpenMeans
<1>6. ASSUME NEW a \in Argument, ~Broken(a) PROVE FileOf(a) \in Stream /\ stream[FileOf(a)].open
  <2>1. FileOf(a) # 0 /\ stream[FileOf(a)].open
    BY <1>6 DEF Broken
  <2>2. held[a] \in Rid /\ FileOf(a) = file[held[a]]
    BY <2>1 DEF FileOf, is_file, Typed, Held, Cell
  <2> QED BY <2>1, <2>2 DEF FilesTyped
<1>7. CASE ReadFile
  <2>1. PICK a \in Argument : /\ KeepPaths
                              /\ IF Broken(a) THEN SeesNone
                                 ELSE Sees(ToRead(stream[FileOf(a)]), Nowhere(stream[FileOf(a)]))
    BY <1>7, Zenon DEF ReadFile, Use
  <2>2. CASE Broken(a)
    BY <1>1, <1>2, <2>1, <2>2
  <2>3. CASE ~Broken(a)
    <3>1. PICK s \in Stream : s = FileOf(a) /\ stream[s].open
      BY <1>6, <2>3
    <3>2. /\ seen' = IF Reads(stream[s].mode) THEN {stream[s].place} ELSE {}
          /\ changed' = {} /\ taken' = {}
      BY <2>1, <2>3, <3>1 DEF Sees, ToRead, Nowhere
    <3>3. \A p \in seen' : Opened(p, FALSE)
      BY <3>1, <3>2 DEF Opened
    <3> QED BY <1>2, <2>1, <3>2, <3>3 DEF Meant
  <2> QED BY <2>2, <2>3
<1>8. CASE WriteFile
  <2>1. PICK a \in Argument : /\ KeepPaths
                              /\ IF Broken(a) THEN SeesNone
                                 ELSE Sees(Nowhere(stream[FileOf(a)]), ToWrite(stream[FileOf(a)]))
    BY <1>8, Zenon DEF WriteFile, Use
  <2>2. CASE Broken(a)
    BY <1>1, <1>2, <2>1, <2>2
  <2>3. CASE ~Broken(a)
    <3>1. PICK s \in Stream : s = FileOf(a) /\ stream[s].open
      BY <1>6, <2>3
    <3>2. /\ changed' = IF Writes(stream[s].mode) THEN {stream[s].place} ELSE {}
          /\ seen' = {} /\ taken' = {}
      BY <2>1, <2>3, <3>1 DEF Sees, ToWrite, Nowhere
    <3>3. \A p \in changed' : Opened(p, TRUE)
      BY <3>1, <3>2 DEF Opened
    <3> QED BY <1>2, <2>1, <3>2, <3>3 DEF Meant
  <2> QED BY <2>2, <2>3
<1>9. CASE UseFile
  <2>1. PICK a \in Argument : /\ KeepPaths
                              /\ IF Broken(a) THEN SeesNone
                                 ELSE Sees(Nowhere(stream[FileOf(a)]), Nowhere(stream[FileOf(a)]))
    BY <1>9, Zenon DEF UseFile, Use
  <2>2. SeesNone
    BY <2>1 DEF SeesNone, Nowhere
  <2> QED BY <1>1, <1>2, <2>1, <2>2
<1>10. CASE file_close
  BY <1>1, <1>2, <1>10 DEF file_close
<1>11. CASE file_pipe
  BY <1>1, <1>2, <1>11 DEF file_pipe
<1> QED BY <1>3, <1>4, <1>5, <1>7, <1>8, <1>9, <1>10, <1>11 DEF FileCall

LEMMA PathInit == Init => PathInv
BY CwdAssumption DEF Init, PathInv, Normal

LEMMA PathStep ==
  ASSUME PathInv, Typed, FilesTyped, [Next]_vars
  PROVE  PathInv' /\ (Meant \/ UNCHANGED <<seen, changed, taken, stream>>)
<1>1. ASSUME UNCHANGED <<cwd, safe>> PROVE PathInv'
  BY <1>1 DEF PathInv, Normal
<1>2. CASE LoadFirst \/ LoadSecond \/ Reference \/ ArgumentsFreed
  BY <1>1, <1>2 DEF LoadFirst, LoadSecond, Reference, ArgumentsFreed, Idle, fileVars
<1>3. CASE CallMem
  BY <1>1, <1>3 DEF CallMem, fileVars
<1>4. CASE CallFile
  BY <1>4, FileCallMeans DEF CallFile
<1>5. CASE WriteFirst \/ WriteSecond \/ FreeArgument \/ StoreResult \/ FreeResult \/ Unset
  <2>1. Released /\ UNCHANGED <<cwd, safe>>
    BY <1>5 DEF WriteFirst, WriteSecond, WriteBack, FreeArgument, StoreResult, FreeResult, Unset
  <2>2. SeesNone
    BY <2>1 DEF Released
  <2>3. Meant
    BY <2>2 DEF SeesNone, Sees, Meant
  <2> QED BY <1>1, <2>1, <2>3
<1>6. CASE UNCHANGED vars
  BY <1>1, <1>6 DEF vars, fileVars
<1> QED BY <1>2, <1>3, <1>4, <1>5, <1>6 DEF Next

\* Every place that the functions of the file module read or change is what a
\* path of the script means, may be changed if it is, and in safe mode is in the
\* sandbox that is named, but for the three effects of NamesMean: for all texts of
\* paths, sandboxes and current directories (path_validate, path_validate_parent).
THEOREM NamesAlwaysMean == Spec => NamesMean
<1>1. PathInv /\ CountInv /\ StreamInv /\ [Next]_vars => PathInv'
  BY PathStep DEF CountInv, Counted, StreamInv
<1>2. PathInv /\ CountInv /\ StreamInv /\ [Next]_vars =>
        [/\ \A p \in seen'    : Opened(p, FALSE) \/ Means(p, FALSE)
         /\ \A p \in changed' : Opened(p, TRUE) \/ Means(p, TRUE)
         /\ \A p \in taken'   : Means(p, FALSE)]_<<seen, changed, taken, stream>>
  BY PathStep DEF CountInv, Counted, StreamInv, Meant
<1> QED BY <1>1, <1>2, PathInit, CountInit, CountStep, StreamInit, StreamStep, PTL DEF Spec, NamesMean
=============================================================================
