------------------------------ MODULE SystemRun ------------------------------
(***************************************************************************)
(* system_run and system_shell of libruntime/system.c: the interpreter runs *)
(* a command as a child process, feeds it a string and collects what it     *)
(* writes, through pipes the operating system bounds.                       *)
(*                                                                          *)
(* One step of the parent is one system call (or one byte of the write).   *)
(* The child is external: it copies the redirections as the code between    *)
(* fork and exec does, and then follows the script chosen with the call.    *)
(* A byte is named by its place in the child's script, so that order and    *)
(* completeness of what is collected can be told.                           *)
(***************************************************************************)
EXTENDS Integers, Sequences, FiniteSets

CONSTANTS
  Calls,       \* the calls considered, see CallType
  Capacity,    \* bytes a pipe holds (64 Ki in the builds)
  Chunk        \* bytes one read of the parent takes (the size of buf, 64)

Pipes   == {"in", "out", "err"}
Ends    == Pipes \X {"r", "w"}
Endings == {"exit", "signal", "core", "noexec"}

\* A call: what is passed for `in' ("none", or the kind of value and its length
\* as a string), whether out and err are collected, what the child does (one
\* byte read or written by each item) and how it ends, and whether the script
\* has made the process ignore all signals (signal(SIG_IGN) of module sys).
CallType ==
  [input : [kind : {"none", "string", "other"}, len : Nat],
   out : BOOLEAN, err : BOOLEAN,
   script : Seq(Pipes), end : Endings, ignore : BOOLEAN]

ASSUME CallAssumption ==
  \A c \in Calls : c \in CallType

ASSUME SizeAssumption ==
  Capacity \in Nat \ {0} /\ Chunk \in Nat \ {0}

ExitCode  == 3           \* what the child passes to exit()
ExecError == 255         \* _exit(-1) after a failed execvp
Failure   == -1          \* the initial value of res

VARIABLES
  call,        \* the call; never changes
  pc, cpc,     \* where the parent and the child are
  pipe,        \* the bytes in each pipe
  parent, child, \* the pipe ends each process has open
  sent,        \* bytes of the input written so far
  todo,        \* what is left of the child's script
  wrote,       \* the bytes the child has written to each stream
  got,         \* the memory streams fout and ferr
  last,        \* readout and readerr: what the last read returned
  status,      \* what waitpid stored
  res,         \* the result of system_run
  arg          \* the caller's value for `in': "live" or "freed"

vars == <<call, pc, cpc, pipe, parent, child, sent, todo, wrote, got, last, status, res, arg>>
world == <<call, sent, status, res, arg>>

Length == IF call.input.kind = "none" THEN 0 ELSE call.input.len
Redirected == {p \in Pipes : CASE p = "in"  -> Length > 0
                               [] p = "out" -> call.out
                               [] p = "err" -> call.err}
Outputs == {"out", "err"}

HasReader(p) == <<p, "r">> \in parent \cup child
HasWriter(p) == <<p, "w">> \in parent \cup child

\* The byte an item of the script writes is named by what is left of the script.
Item == Len(todo)

Init ==
  /\ call \in Calls
  /\ pc = "begin" /\ cpc = "none"
  /\ pipe = [p \in Pipes |-> <<>>]
  /\ parent = {} /\ child = {}
  /\ sent = 0 /\ todo = call.script
  /\ wrote = [p \in Outputs |-> <<>>]
  /\ got = [p \in Outputs |-> <<>>]
  /\ last = [p \in Outputs |-> 0]
  /\ status = "none" /\ res = Failure
  /\ arg = "live"
-----------------------------------------------------------------------------
(* The parent. *)

\* The input is cast to a string in a local copy of the pointer: any value but
\* a string is released under the caller.
CastInput(c) == IF c.input.kind = "other" THEN "freed" ELSE "live"

MakePipes ==
  /\ pc = "begin"
  /\ arg' = CastInput(call)
  /\ parent' = Redirected \X {"r", "w"}
  /\ pc' = "fork"
  /\ UNCHANGED <<call, cpc, pipe, child, sent, todo, wrote, got, last, status, res>>

Fork ==
  /\ pc = "fork"
  /\ child' = parent /\ cpc' = "setup"
  /\ pc' = IF "in" \in Redirected THEN "closein" ELSE "open"
  /\ UNCHANGED <<parent, pipe, todo, wrote, got, last, world>>

\* fork returns -1.
KeepPipes(ends) == ends                         \* mutant of AllClosed
AllClosed(ends) == {}
ForkFails ==
  /\ pc = "fork"
  /\ parent' = AllClosed(parent)
  /\ pc' = "done"
  /\ UNCHANGED <<cpc, child, pipe, todo, wrote, got, last, world>>

CloseInRead ==
  /\ pc = "closein"
  /\ parent' = parent \ {<<"in", "r">>}
  /\ pc' = "feed"
  /\ UNCHANGED <<cpc, child, pipe, todo, wrote, got, last, world>>

\* write() blocks while the pipe is full.
FeedByte ==
  /\ pc = "feed" /\ sent < Length
  /\ HasReader("in") /\ Len(pipe["in"]) < Capacity
  /\ sent' = sent + 1
  /\ pipe' = [pipe EXCEPT !["in"] = Append(@, sent')]
  /\ UNCHANGED <<call, pc, cpc, parent, child, todo, wrote, got, last, status, res, arg>>

\* Nobody can read any more: SIGPIPE ends the interpreter, or write() fails.
FeedBroken ==
  /\ pc = "feed" /\ sent < Length
  /\ ~HasReader("in")
  /\ IF call.ignore THEN pc' = "fed" /\ UNCHANGED parent
                    ELSE pc' = "killed" /\ parent' = {}
  /\ UNCHANGED <<cpc, child, pipe, todo, wrote, got, last, world>>

FeedEnd ==
  /\ \/ pc = "feed" /\ sent = Length
     \/ pc = "fed"
  /\ parent' = parent \ {<<"in", "w">>}
  /\ pc' = "open"
  /\ UNCHANGED <<cpc, child, pipe, todo, wrote, got, last, world>>

\* Only without a write end of its own does the parent ever see an end of file.
AllEnds(ends) == ends                           \* mutant of ReadSide
ReadSide(ends) == ends \ (Outputs \X {"w"})

OpenStreams ==
  /\ pc = "open"
  /\ parent' = ReadSide(parent)
  /\ last' = [p \in Outputs |-> IF p \in Redirected THEN 1 ELSE 0]
  /\ pc' = "test"
  /\ UNCHANGED <<cpc, child, pipe, todo, wrote, got, world>>

\* while (readout || readerr)
AllReadable == \A p \in Redirected \cap Outputs : last[p] # 0   \* mutant of ReadOn
ReadOn == \E p \in Outputs : last[p] # 0

TestRead ==
  /\ pc = "test"
  /\ IF ReadOn
     THEN pc' = "out" /\ UNCHANGED parent
     ELSE pc' = "wait" /\ parent' = parent \ (Outputs \X {"r"})
  /\ UNCHANGED <<cpc, child, pipe, todo, wrote, got, last, world>>

\* What read() returns of the bytes there are; none, at the end of the file.
FailAtEnd(have) == IF have = 0 THEN -1 ELSE 1          \* mutant of ReadCount
ReadCount(have) == IF have < Chunk THEN have ELSE Chunk

\* read() blocks while the pipe is empty and somebody may still write.
Read(p, next) ==
  /\ pc = p
  /\ pc' = next
  /\ IF p \notin Redirected THEN UNCHANGED <<pipe, got, last>>
     ELSE /\ pipe[p] # <<>> \/ ~HasWriter(p)
          /\ LET have == Len(pipe[p])
                 n    == ReadCount(have)
                 buf  == SubSeq(pipe[p], 1, n)
             IN /\ got'  = [got EXCEPT ![p] = @ \o buf]
                /\ pipe' = [pipe EXCEPT ![p] = SubSeq(@, Len(buf) + 1, have)]
                /\ last' = [last EXCEPT ![p] = n]
  /\ UNCHANGED <<cpc, parent, child, todo, wrote, world>>

ReadOut == Read("out", "err")
ReadErr == Read("err", "test")

\* waitpid blocks until the child has ended.  A child whose end is ignored is
\* gone already, and so is one that has been waited for: the call fails.
Accepted(st) == st \in {"exit", "core", "noexec"}

Wait ==
  /\ pc = "wait"
  /\ IF cpc = "zombie"
     THEN /\ cpc' = "gone"
          /\ status' = call.end
          /\ pc' = IF Accepted(call.end) THEN "result" ELSE "wait"
     ELSE cpc = "gone" /\ UNCHANGED <<cpc, status, pc>>
  /\ UNCHANGED <<call, pipe, parent, child, sent, todo, wrote, got, last, res, arg>>

Unchecked(st) == IF st = "noexec" THEN ExecError ELSE ExitCode   \* mutant of Result
Result(st) == CASE st = "exit"   -> ExitCode
                [] st = "noexec" -> ExecError
                [] OTHER         -> Failure

Return ==
  /\ pc = "result"
  /\ res' = Result(status)
  /\ pc' = "done"
  /\ UNCHANGED <<call, cpc, pipe, parent, child, sent, todo, wrote, got, last, status, arg>>
-----------------------------------------------------------------------------
(* The child. *)

\* Between fork and exec: the far ends are closed, the near ones duplicated.
SetUp ==
  /\ cpc = "setup"
  /\ child' = child \ {<<"in", "w">>, <<"out", "r">>, <<"err", "r">>}
  /\ cpc' = IF call.end = "noexec" THEN "ending" ELSE "run"
  /\ UNCHANGED <<pc, pipe, parent, todo, wrote, got, last, world>>

\* One item of the script; a stream that is not redirected never blocks.  The
\* parent reads every pipe until its end, so a write always has a reader.
ChildReads ==
  /\ cpc = "run" /\ todo # <<>> /\ Head(todo) = "in"
  /\ "in" \in Redirected => pipe["in"] # <<>> \/ ~HasWriter("in")
  /\ pipe' = [pipe EXCEPT !["in"] = IF @ = <<>> THEN @ ELSE Tail(@)]
  /\ todo' = Tail(todo)
  /\ UNCHANGED <<pc, cpc, parent, child, wrote, got, last, world>>

ChildWrites ==
  /\ cpc = "run" /\ todo # <<>> /\ Head(todo) \in Outputs
  /\ LET p == Head(todo)
     IN /\ wrote' = [wrote EXCEPT ![p] = Append(@, Item)]
        /\ IF p \in Redirected
           THEN /\ Len(pipe[p]) < Capacity
                /\ pipe' = [pipe EXCEPT ![p] = Append(@, Item)]
           ELSE UNCHANGED pipe
  /\ todo' = Tail(todo)
  /\ UNCHANGED <<pc, cpc, parent, child, got, last, world>>

\* The kernel closes what is open; the status waits for the parent, unless the
\* parent ignores SIGCHLD.
ChildEnds ==
  /\ cpc = "ending" \/ (cpc = "run" /\ todo = <<>>)
  /\ child' = {}
  /\ cpc' = IF call.ignore THEN "gone" ELSE "zombie"
  /\ UNCHANGED <<pc, pipe, parent, todo, wrote, got, last, world>>
-----------------------------------------------------------------------------
ParentStep == \/ MakePipes \/ Fork \/ ForkFails \/ CloseInRead
              \/ FeedByte \/ FeedBroken \/ FeedEnd \/ OpenStreams
              \/ TestRead \/ ReadOut \/ ReadErr \/ Wait \/ Return
ChildStep  == SetUp \/ ChildReads \/ ChildWrites \/ ChildEnds

Next == ParentStep \/ ChildStep

\* The operating system runs both processes.
Spec == Init /\ [][Next]_vars /\ WF_vars(ParentStep) /\ WF_vars(ChildStep)
-----------------------------------------------------------------------------
(* Properties. *)

\* The types of the variables.
TypeOK ==
  /\ call \in Calls
  /\ pc \in {"begin", "fork", "closein", "feed", "fed", "open", "test", "out", "err",
             "wait", "result", "done", "killed"}
  /\ cpc \in {"none", "setup", "run", "ending", "zombie", "gone"}
  /\ pipe \in [Pipes -> Seq(Nat)] /\ \A p \in Pipes : Len(pipe[p]) <= Capacity
  /\ parent \subseteq Ends /\ child \subseteq Ends
  /\ sent \in Nat /\ todo \in Seq(Pipes)
  /\ wrote \in [Outputs -> Seq(Nat)]
  /\ got \in [Outputs -> Seq(Nat)] /\ last \in [Outputs -> 0..Chunk]
  /\ status \in Endings \cup {"none"} /\ res \in Int /\ arg \in {"live", "freed"}

\* When the parent stops reading, the child has ended and everything it wrote
\* has been collected, byte for byte and in order, on both streams.
Collected ==
  pc \in {"wait", "result"} /\ Redirected \cap Outputs # {} =>
    /\ cpc \in {"zombie", "gone"}
    /\ \A p \in Redirected \cap Outputs : got[p] = wrote[p]

\* However the call ends, no pipe end stays open in the interpreter, and no
\* child is left to be waited for.
NothingLeft == pc = "done" => parent = {} /\ cpc \in {"none", "gone"}

\* An exit status is reported only for a command that ran to its exit.
ResultTrue ==
  pc = "done" /\ res = ExitCode => call.end = "exit" /\ todo = <<>> /\ cpc = "gone"

Items(c, p) == {k \in DOMAIN c.script : c.script[k] = p}

\* Calls whose child reads the input before it writes more than a pipe holds,
\* writes no more than that when both streams are collected, and is not killed,
\* in a process that does not ignore SIGCHLD.
Tame(c) ==
  /\ ~c.ignore /\ c.end # "signal"
  /\ Length > 0 => /\ c.end # "noexec"
                   /\ Cardinality(Items(c, "in")) >= Length
  /\ Length > Capacity \/ (c.out /\ c.err) =>
       \A p \in Outputs : Cardinality(Items(c, p)) <= Capacity

\* Such a call returns: the blocking write and the two blocking reads never
\* wait for a child that waits for the parent.
Returns == (pc = "begin" /\ Tame(call)) ~> pc = "done"

\* Every call returns: "On success this function returns the exit status of the
\* executed command. On error void will be returned".
AlwaysReturns == <>(pc = "done")

\* A command that could not be executed is an error, not an exit status.
VoidOnError == pc = "done" /\ call.end = "noexec" => res = Failure

\* The caller's value for the input is still the caller's to release.
ArgumentKept == arg = "live"
=============================================================================
