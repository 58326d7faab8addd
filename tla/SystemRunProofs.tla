--------------------------- MODULE SystemRunProofs ---------------------------
(***************************************************************************)
(* Proofs about SystemRun, for every set of calls and every size of pipes  *)
(* and buffer.                                                              *)
(*                                                                          *)
(* What makes the loop over the two outputs complete is that read returns   *)
(* nothing only for a stream whose child is gone (Finished): the parent has *)
(* no write end left, so an end of file can only mean the child's.          *)
(***************************************************************************)
EXTENDS SystemRun, SequenceTheorems, TLAPS

Asked == Redirected \cap Outputs

\* The ends the parent holds at each point of system_run.
ParentEnds ==
  /\ pc \in {"fork", "closein"} => parent = Redirected \X {"r", "w"}
  /\ pc \in {"feed", "fed"}     => parent = (Redirected \X {"r", "w"}) \ {<<"in", "r">>}
  /\ pc = "open"                => parent = Asked \X {"r", "w"}
  /\ pc \in {"test", "out", "err"} => parent = Asked \X {"r"}
  /\ pc \in {"begin", "wait", "result", "done", "killed"} => parent = {}

\* The child exists from the fork on, and holds its outputs until it ends.
ChildLife ==
  /\ pc \in {"begin", "fork"} => cpc = "none"
  /\ cpc = "none" => pc \in {"begin", "fork", "done"}
  /\ pc = "result" => cpc = "gone"
  /\ pc = "done" => cpc \in {"none", "gone"}
  /\ cpc \in {"setup", "run", "ending"} => \A p \in Asked : <<p, "w">> \in child

\* No byte is lost or reordered between the child and the memory streams.
Conserved == \A p \in Asked : got[p] \o pipe[p] = wrote[p]

\* Once read has returned nothing for a stream, nothing will ever come.
Finished(p) == pipe[p] = <<>> /\ cpc \in {"zombie", "gone"}
EndSeen ==
  /\ pc \in {"test", "out", "err", "wait", "result"} =>
       \A p \in Outputs : last[p] = 0 /\ p \in Asked => Finished(p)
  /\ pc \in {"wait", "result"} => \A p \in Outputs : last[p] = 0

\* A child leaves a part of its script undone only when it has no command.
FullRun ==
  cpc = "ending" \/ (cpc \in {"zombie", "gone"} /\ todo # <<>>) =>
    call.end = "noexec"

StatusTrue ==
  /\ pc = "result" => status = call.end /\ Accepted(call.end)
  /\ pc # "done" => res = Failure

IInv == /\ TypeOK /\ ParentEnds /\ ChildLife /\ Conserved /\ EndSeen
        /\ FullRun /\ StatusTrue /\ ResultTrue
-----------------------------------------------------------------------------
\* How the sets of streams lie in each other.
LEMMA Streams ==
  /\ Asked \subseteq Outputs /\ Asked \subseteq Redirected /\ Redirected \subseteq Pipes
  /\ Outputs \subseteq Pipes /\ "in" \in Pipes /\ "in" \notin Outputs
  /\ Redirected \cap {"out", "err"} = Asked
BY DEF Asked, Redirected, Pipes, Outputs

\* What the parent holds once it is rid of the input.
LEMMA OutputEnds ==
  /\ "in" \notin Redirected => Redirected = Asked
  /\ ((Redirected \X {"r", "w"}) \ {<<"in", "r">>}) \ {<<"in", "w">>} = Asked \X {"r", "w"}
<1>1. Redirected \subseteq Asked \cup {"in"} /\ "in" \notin Asked
  BY Streams DEF Pipes, Outputs, Asked
<1>2. ASSUME NEW e
      PROVE  e \in ((Redirected \X {"r", "w"}) \ {<<"in", "r">>}) \ {<<"in", "w">>}
               <=> e \in Asked \X {"r", "w"}
  BY <1>1, Streams
<1> QED BY <1>1, <1>2, Streams

\* What was collected, then a read, then what is left in the pipe.
LEMMA Assoc == \A s, t, u \in Seq(Nat) : (s \o t) \o u = s \o (t \o u)
BY ConcatAssociative

\* Where the loop goes on after a read.
After(p) == IF p = "out" THEN "err" ELSE "test"

\* What the code takes of a pipe in one read, and what it leaves.
LEMMA ReadParts ==
  ASSUME NEW q \in Seq(Nat), NEW g \in Seq(Nat)
  PROVE  LET n    == ReadCount(Len(q))
             buf  == SubSeq(q, 1, n)
             rest == SubSeq(q, Len(buf) + 1, Len(q))
         IN /\ n \in 0..Chunk /\ (n = 0 => q = <<>> /\ rest = <<>>)
            /\ buf \in Seq(Nat) /\ rest \in Seq(Nat) /\ Len(rest) <= Len(q)
            /\ (g \o buf) \o rest = g \o q
<1> DEFINE n    == ReadCount(Len(q))
           buf  == SubSeq(q, 1, n)
           rest == SubSeq(q, Len(buf) + 1, Len(q))
<1>1. /\ Len(q) \in Nat /\ n \in 0..Chunk /\ n \in 0..Len(q)
      /\ n = 0 => Len(q) = 0
      /\ Chunk \in Nat
  BY SizeAssumption DEF ReadCount
<1>2. \A i \in 1..Len(q) : q[i] \in Nat
  OBVIOUS
<1>3. buf \in Seq(Nat) /\ Len(buf) = n
  <2>1. 1 \in Int /\ n \in Int /\ \A i \in 1..n : q[i] \in Nat
    BY <1>1, <1>2
  <2>2. /\ buf \in Seq(Nat)
        /\ Len(buf) = IF 1 <= n THEN n - 1 + 1 ELSE 0
    BY <2>1, SubSeqProperties
  <2> QED BY <1>1, <2>2
<1>4. rest \in Seq(Nat) /\ Len(rest) = Len(q) - n
  <2> HIDE DEF buf
  <2>1. /\ Len(buf) + 1 \in Int /\ Len(q) \in Int
        /\ \A i \in (Len(buf) + 1)..Len(q) : q[i] \in Nat
    BY <1>1, <1>2, <1>3
  <2>2. /\ rest \in Seq(Nat)
        /\ Len(rest) = IF Len(buf) + 1 <= Len(q) THEN Len(q) - (Len(buf) + 1) + 1 ELSE 0
    BY <2>1, SubSeqProperties
  <2> QED BY <1>1, <1>3, <2>2
<1>5. buf \o rest = q
  <2>1. /\ 1 \in 1..(Len(q) + 1) /\ n \in (1 - 1)..Len(q) /\ Len(q) \in n..Len(q)
    BY <1>1
  <2>2. SubSeq(q, 1, n) \o SubSeq(q, n + 1, Len(q)) = SubSeq(q, 1, Len(q))
    BY <2>1, ConcatAdjacentSubSeq
  <2>3. SubSeq(q, 1, Len(q)) = q
    BY SubSeqFull
  <2> QED BY <1>3, <2>2, <2>3
<1>6. (g \o buf) \o rest = g \o q
  <2> HIDE DEF buf, rest
  <2>1. (g \o buf) \o rest = g \o (buf \o rest)
    BY <1>3, <1>4, Assoc
  <2> QED BY <1>5, <2>1
<1>7. n = 0 => q = <<>> /\ rest = <<>>
  <2> HIDE DEF n, buf, rest
  <2>1. \A r \in Seq(Nat) : r # <<>> => Len(r) \in Nat \ {0}
    BY EmptySeq
  <2>2. n = 0 => Len(q) = 0 /\ Len(rest) = 0
    BY <1>1, <1>4
  <2> QED BY <1>4, <2>1, <2>2
<1> HIDE DEF n, buf, rest
<1>8. /\ n \in 0..Chunk /\ (n = 0 => q = <<>> /\ rest = <<>>)
      /\ buf \in Seq(Nat) /\ rest \in Seq(Nat) /\ Len(rest) <= Len(q)
      /\ (g \o buf) \o rest = g \o q
  BY <1>1, <1>3, <1>4, <1>6, <1>7
<1> QED BY <1>8 DEF n, buf, rest

\* Every step keeps the call, hence what is redirected.
LEMMA CallKept ==
  ASSUME IInv, Next
  PROVE  call' = call /\ Redirected' = Redirected /\ Asked' = Asked
<1>1. call' = call
  BY DEF Next, ParentStep, ChildStep, world, MakePipes, Fork, ForkFails, CloseInRead,
     FeedByte, FeedBroken, FeedEnd, OpenStreams, TestRead, ReadOut, ReadErr, Read, Wait,
     Return, SetUp, ChildReads, ChildWrites, ChildEnds
<1> QED BY <1>1 DEF Redirected, Length, Asked

\* The first action: the pipes are new and nobody has written yet.
LEMMA MakePipesKeeps ==
  ASSUME IInv, MakePipes
  PROVE  IInv'
<1> USE DEF IInv
<1>1. Next
  BY DEF Next, ParentStep, ChildStep
<1>2. call' = call /\ Redirected' = Redirected /\ Asked' = Asked
  BY <1>1, CallKept
<1>4. TypeOK'
  BY <1>2, Streams DEF MakePipes, CastInput, Ends, TypeOK
<1>5. ParentEnds'
  BY <1>2 DEF MakePipes, CastInput, Ends, ParentEnds, world
<1>6. ChildLife'
  BY <1>2 DEF MakePipes, CastInput, Ends, ChildLife, world
<1>7. Conserved'
  BY <1>2 DEF MakePipes, CastInput, Ends, Conserved, world
<1>8. EndSeen'
  BY <1>2 DEF MakePipes, CastInput, Ends, EndSeen, Finished, world
<1>9. FullRun'
  BY <1>2 DEF MakePipes, CastInput, Ends, FullRun, world
<1>10. StatusTrue'
  BY <1>2 DEF MakePipes, CastInput, Ends, StatusTrue, world
<1>11. ResultTrue'
  BY <1>2 DEF MakePipes, CastInput, Ends, ResultTrue, world
<1> QED BY <1>4, <1>5, <1>6, <1>7, <1>8, <1>9, <1>10, <1>11

\* The action Fork keeps the invariant.
LEMMA ForkKeeps ==
  ASSUME IInv, Fork
  PROVE  IInv'
<1> USE DEF IInv
<1>1. Next
  BY DEF Next, ParentStep, ChildStep
<1>2. call' = call /\ Redirected' = Redirected /\ Asked' = Asked
  BY <1>1, CallKept
<1>4. TypeOK'
  BY <1>2 DEF Fork, Ends, TypeOK, world
<1>5. ParentEnds'
  BY <1>2, Streams, OutputEnds DEF Fork, ParentEnds
<1>6. ChildLife'
  BY <1>2, Streams DEF Fork, ChildLife, ParentEnds
<1>7. Conserved'
  BY <1>2 DEF Fork, Ends, Conserved, world
<1>8. EndSeen'
  BY <1>2 DEF Fork, Ends, EndSeen, Finished, world
<1>9. FullRun'
  BY <1>2 DEF Fork, Ends, FullRun, world
<1>10. StatusTrue'
  BY <1>2 DEF Fork, Ends, StatusTrue, world
<1>11. ResultTrue'
  BY <1>2 DEF Fork, Ends, ResultTrue, world
<1> QED BY <1>4, <1>5, <1>6, <1>7, <1>8, <1>9, <1>10, <1>11

\* The action ForkFails keeps the invariant.
LEMMA ForkFailsKeeps ==
  ASSUME IInv, ForkFails
  PROVE  IInv'
<1> USE DEF IInv
<1>1. Next
  BY DEF Next, ParentStep, ChildStep
<1>2. call' = call /\ Redirected' = Redirected /\ Asked' = Asked
  BY <1>1, CallKept
<1>4. TypeOK'
  BY <1>2 DEF ForkFails, AllClosed, TypeOK, world
<1>5. ParentEnds'
  BY <1>2 DEF ForkFails, AllClosed, ParentEnds, world
<1>6. ChildLife'
  BY <1>2 DEF ForkFails, AllClosed, ChildLife, world
<1>7. Conserved'
  BY <1>2 DEF ForkFails, AllClosed, Conserved, world
<1>8. EndSeen'
  BY <1>2 DEF ForkFails, AllClosed, EndSeen, Finished, world
<1>9. FullRun'
  BY <1>2 DEF ForkFails, AllClosed, FullRun, world
<1>10. StatusTrue'
  BY <1>2 DEF ForkFails, AllClosed, StatusTrue, world
<1>11. ResultTrue'
  BY <1>2 DEF ForkFails, AllClosed, ResultTrue, world, StatusTrue, Failure, ExitCode, ExecError
<1> QED BY <1>4, <1>5, <1>6, <1>7, <1>8, <1>9, <1>10, <1>11

\* The action CloseInRead keeps the invariant.
LEMMA CloseInReadKeeps ==
  ASSUME IInv, CloseInRead
  PROVE  IInv'
<1> USE DEF IInv
<1>1. Next
  BY DEF Next, ParentStep, ChildStep
<1>2. call' = call /\ Redirected' = Redirected /\ Asked' = Asked
  BY <1>1, CallKept
<1>4. TypeOK'
  BY <1>2 DEF CloseInRead, Ends, TypeOK, world
<1>5. ParentEnds'
  BY <1>2 DEF CloseInRead, Ends, ParentEnds, world
<1>6. ChildLife'
  BY <1>2 DEF CloseInRead, Ends, ChildLife, world
<1>7. Conserved'
  BY <1>2 DEF CloseInRead, Ends, Conserved, world
<1>8. EndSeen'
  BY <1>2 DEF CloseInRead, Ends, EndSeen, Finished, world
<1>9. FullRun'
  BY <1>2 DEF CloseInRead, Ends, FullRun, world
<1>10. StatusTrue'
  BY <1>2 DEF CloseInRead, Ends, StatusTrue, world
<1>11. ResultTrue'
  BY <1>2 DEF CloseInRead, Ends, ResultTrue, world
<1> QED BY <1>4, <1>5, <1>6, <1>7, <1>8, <1>9, <1>10, <1>11

\* The action FeedByte keeps the invariant.
LEMMA FeedByteKeeps ==
  ASSUME IInv, FeedByte
  PROVE  IInv'
<1> USE DEF IInv
<1>1. Next
  BY DEF Next, ParentStep, ChildStep
<1>2. call' = call /\ Redirected' = Redirected /\ Asked' = Asked
  BY <1>1, CallKept
<1>4. TypeOK'
  <2>1. Append(pipe["in"], sent + 1) \in Seq(Nat)
        /\ Len(Append(pipe["in"], sent + 1)) = Len(pipe["in"]) + 1
        /\ Len(pipe["in"]) \in Nat
    BY Streams, AppendProperties, LenProperties DEF TypeOK
  <2>2. Len(Append(pipe["in"], sent + 1)) <= Capacity
    BY <2>1, SizeAssumption DEF FeedByte
  <2>3. pipe' \in [Pipes -> Seq(Nat)] /\ \A p \in Pipes : Len(pipe'[p]) <= Capacity
    BY <2>1, <2>2 DEF FeedByte, TypeOK
  <2> QED BY <1>2, <2>3 DEF FeedByte, TypeOK
<1>5. ParentEnds'
  BY <1>2 DEF FeedByte, ParentEnds, world
<1>6. ChildLife'
  BY <1>2 DEF FeedByte, ChildLife, world
<1>7. Conserved'
  BY <1>2, Streams DEF FeedByte, Conserved, TypeOK
<1>8. EndSeen'
  BY <1>2 DEF FeedByte, EndSeen, Finished, world
<1>9. FullRun'
  BY <1>2 DEF FeedByte, FullRun, world
<1>10. StatusTrue'
  BY <1>2 DEF FeedByte, StatusTrue, world
<1>11. ResultTrue'
  BY <1>2 DEF FeedByte, ResultTrue, world
<1> QED BY <1>4, <1>5, <1>6, <1>7, <1>8, <1>9, <1>10, <1>11

\* The action FeedBroken keeps the invariant.
LEMMA FeedBrokenKeeps ==
  ASSUME IInv, FeedBroken
  PROVE  IInv'
<1> USE DEF IInv
<1>1. Next
  BY DEF Next, ParentStep, ChildStep
<1>2. call' = call /\ Redirected' = Redirected /\ Asked' = Asked
  BY <1>1, CallKept
<1>4. TypeOK'
  BY <1>2 DEF FeedBroken, Ends, TypeOK, world
<1>5. ParentEnds'
  BY <1>2 DEF FeedBroken, Ends, ParentEnds, world
<1>6. ChildLife'
  BY <1>2 DEF FeedBroken, Ends, ChildLife, world
<1>7. Conserved'
  BY <1>2 DEF FeedBroken, Ends, Conserved, world
<1>8. EndSeen'
  BY <1>2 DEF FeedBroken, Ends, EndSeen, Finished, world
<1>9. FullRun'
  BY <1>2 DEF FeedBroken, Ends, FullRun, world
<1>10. StatusTrue'
  BY <1>2 DEF FeedBroken, Ends, StatusTrue, world
<1>11. ResultTrue'
  BY <1>2 DEF FeedBroken, Ends, ResultTrue, world
<1> QED BY <1>4, <1>5, <1>6, <1>7, <1>8, <1>9, <1>10, <1>11

\* The action FeedEnd keeps the invariant.
LEMMA FeedEndKeeps ==
  ASSUME IInv, FeedEnd
  PROVE  IInv'
<1> USE DEF IInv
<1>1. Next
  BY DEF Next, ParentStep, ChildStep
<1>2. call' = call /\ Redirected' = Redirected /\ Asked' = Asked
  BY <1>1, CallKept
<1>4. TypeOK'
  BY <1>2 DEF FeedEnd, Ends, TypeOK, world
<1>5. ParentEnds'
  BY <1>2, Streams, OutputEnds DEF FeedEnd, ParentEnds
<1>6. ChildLife'
  BY <1>2 DEF FeedEnd, Ends, ChildLife, world
<1>7. Conserved'
  BY <1>2 DEF FeedEnd, Ends, Conserved, world
<1>8. EndSeen'
  BY <1>2 DEF FeedEnd, Ends, EndSeen, Finished, world
<1>9. FullRun'
  BY <1>2 DEF FeedEnd, Ends, FullRun, world
<1>10. StatusTrue'
  BY <1>2 DEF FeedEnd, Ends, StatusTrue, world
<1>11. ResultTrue'
  BY <1>2 DEF FeedEnd, Ends, ResultTrue, world
<1> QED BY <1>4, <1>5, <1>6, <1>7, <1>8, <1>9, <1>10, <1>11

\* The action OpenStreams keeps the invariant.
LEMMA OpenStreamsKeeps ==
  ASSUME IInv, OpenStreams
  PROVE  IInv'
<1> USE DEF IInv
<1>1. Next
  BY DEF Next, ParentStep, ChildStep
<1>2. call' = call /\ Redirected' = Redirected /\ Asked' = Asked
  BY <1>1, CallKept
<1>4. TypeOK'
  BY <1>2, Streams, SizeAssumption DEF OpenStreams, ReadSide, TypeOK, world
<1>5. ParentEnds'
  BY <1>2, Streams DEF OpenStreams, ReadSide, ParentEnds
<1>6. ChildLife'
  BY <1>2 DEF OpenStreams, ReadSide, Ends, ChildLife, world
<1>7. Conserved'
  BY <1>2 DEF OpenStreams, ReadSide, Ends, Conserved, world
<1>8. EndSeen'
  BY <1>2, Streams DEF OpenStreams, EndSeen
<1>9. FullRun'
  BY <1>2 DEF OpenStreams, ReadSide, Ends, FullRun, world
<1>10. StatusTrue'
  BY <1>2 DEF OpenStreams, ReadSide, Ends, StatusTrue, world
<1>11. ResultTrue'
  BY <1>2 DEF OpenStreams, ReadSide, Ends, ResultTrue, world
<1> QED BY <1>4, <1>5, <1>6, <1>7, <1>8, <1>9, <1>10, <1>11

\* The action TestRead keeps the invariant.
LEMMA TestReadKeeps ==
  ASSUME IInv, TestRead
  PROVE  IInv'
<1> USE DEF IInv
<1>1. Next
  BY DEF Next, ParentStep, ChildStep
<1>2. call' = call /\ Redirected' = Redirected /\ Asked' = Asked
  BY <1>1, CallKept
<1>4. TypeOK'
  BY <1>2 DEF TestRead, ReadOn, Ends, TypeOK, world
<1>5. ParentEnds'
  BY <1>2, Streams DEF TestRead, ParentEnds
<1>6. ChildLife'
  BY <1>2 DEF TestRead, ReadOn, Ends, ChildLife, world
<1>7. Conserved'
  BY <1>2 DEF TestRead, ReadOn, Ends, Conserved, world
<1>8. EndSeen'
  BY <1>2 DEF TestRead, ReadOn, Ends, EndSeen, Finished, world
<1>9. FullRun'
  BY <1>2 DEF TestRead, ReadOn, Ends, FullRun, world
<1>10. StatusTrue'
  BY <1>2 DEF TestRead, ReadOn, Ends, StatusTrue, world
<1>11. ResultTrue'
  BY <1>2 DEF TestRead, ReadOn, Ends, ResultTrue, world
<1> QED BY <1>4, <1>5, <1>6, <1>7, <1>8, <1>9, <1>10, <1>11

\* A read moves bytes from the pipe to the memory stream, and returns nothing
\* only when the child has ended and the pipe is empty.
LEMMA ReadKeeps ==
  ASSUME NEW p \in Outputs, NEW next, next = After(p), IInv, Read(p, next)
  PROVE  IInv'
<1>0. (p = "out" /\ next = "err") \/ (p = "err" /\ next = "test")
  BY Zenon DEF After, Outputs
<1> USE <1>0
<1> USE DEF IInv
<1>1. Next
  BY DEF Next, ParentStep, ChildStep, ReadOut, ReadErr
<1>2. call' = call /\ Redirected' = Redirected /\ Asked' = Asked
  BY <1>1, CallKept
<1>3. p \in Redirected =>
        \E n \in 0..Chunk, g \in Seq(Nat), rest \in Seq(Nat) :
          /\ n = 0 => pipe[p] = <<>> /\ rest = <<>>
          /\ Len(rest) <= Capacity
          /\ g \o rest = got[p] \o pipe[p]
          /\ got'  = [got EXCEPT ![p] = g]
          /\ pipe' = [pipe EXCEPT ![p] = rest]
          /\ last' = [last EXCEPT ![p] = n]
  <2> SUFFICES ASSUME p \in Redirected
               PROVE  \E n \in 0..Chunk, g \in Seq(Nat), rest \in Seq(Nat) :
                        /\ n = 0 => pipe[p] = <<>> /\ rest = <<>>
                        /\ Len(rest) <= Capacity
                        /\ g \o rest = got[p] \o pipe[p]
                        /\ got'  = [got EXCEPT ![p] = g]
                        /\ pipe' = [pipe EXCEPT ![p] = rest]
                        /\ last' = [last EXCEPT ![p] = n]
    OBVIOUS
  <2> DEFINE n    == ReadCount(Len(pipe[p]))
             buf  == SubSeq(pipe[p], 1, n)
             rest == SubSeq(pipe[p], Len(buf) + 1, Len(pipe[p]))
             g    == got[p] \o buf
  <2>1. /\ got[p] \in Seq(Nat) /\ pipe[p] \in Seq(Nat)
        /\ Len(pipe[p]) \in Nat /\ Len(pipe[p]) <= Capacity /\ Capacity \in Nat
    BY Streams, SizeAssumption, LenProperties DEF TypeOK, Outputs, Pipes
  <2>2. /\ got'  = [got EXCEPT ![p] = g]
        /\ pipe' = [pipe EXCEPT ![p] = rest]
        /\ last' = [last EXCEPT ![p] = n]
    BY DEF Read
  <2>3. /\ n \in 0..Chunk /\ (n = 0 => pipe[p] = <<>> /\ rest = <<>>)
        /\ buf \in Seq(Nat) /\ rest \in Seq(Nat) /\ Len(rest) <= Len(pipe[p])
        /\ g \o rest = got[p] \o pipe[p]
    BY <2>1, ReadParts
  <2> HIDE DEF n, buf, rest
  <2>4. g \in Seq(Nat) /\ Len(rest) \in Nat
    BY <2>1, <2>3, ConcatProperties, LenProperties
  <2> HIDE DEF g
  <2>5. Len(rest) <= Capacity
    BY <2>1, <2>3, <2>4
  <2> QED BY <2>2, <2>3, <2>4, <2>5
<1>4. TypeOK'
  <2>1. CASE p \notin Redirected
    BY <1>2, <2>1, Streams DEF Read, TypeOK, world
  <2>2. CASE p \in Redirected
    <3>0. PICK n \in 0..Chunk, g \in Seq(Nat), rest \in Seq(Nat) :
             /\ Len(rest) <= Capacity
             /\ got'  = [got EXCEPT ![p] = g]
             /\ pipe' = [pipe EXCEPT ![p] = rest]
             /\ last' = [last EXCEPT ![p] = n]
      BY <1>3, <2>2
    <3>1. /\ got' \in [Outputs -> Seq(Nat)] /\ last' \in [Outputs -> 0..Chunk]
          /\ pipe' \in [Pipes -> Seq(Nat)] /\ \A r \in Pipes : Len(pipe'[r]) <= Capacity
      BY <3>0, Streams DEF TypeOK
    <3> QED BY <1>2, <3>1 DEF Read, TypeOK, world
  <2> QED BY <2>1, <2>2
<1>5. ParentEnds'
  BY <1>2 DEF Read, ParentEnds, world
<1>6. ChildLife'
  BY <1>2 DEF Read, ChildLife, world
<1>7. Conserved'
  <2>1. CASE p \notin Redirected
    BY <1>2, <2>1, Streams DEF Read, Conserved, world
  <2>2. CASE p \in Redirected
    BY <1>2, <1>3, <2>2, Streams DEF Read, TypeOK, Conserved, world
  <2> QED BY <2>1, <2>2
<1>8. EndSeen'
  <2>1. CASE p \notin Redirected
    BY <1>2, <2>1, Streams DEF Read, EndSeen, Finished, world
  <2>2. CASE p \in Redirected
    BY <1>2, <1>3, <2>2, Streams DEF Read, TypeOK, EndSeen, Finished, ChildLife,
       HasWriter, world
  <2> QED BY <2>1, <2>2
<1>9. FullRun'
  BY <1>2 DEF Read, FullRun, world
<1>10. StatusTrue'
  BY <1>2 DEF Read, StatusTrue, world
<1>11. ResultTrue'
  BY <1>2 DEF Read, ResultTrue, world
<1> QED BY <1>4, <1>5, <1>6, <1>7, <1>8, <1>9, <1>10, <1>11

\* When waitpid returns, the child has ended and its status is the true one.
LEMMA WaitKeeps ==
  ASSUME IInv, Wait
  PROVE  IInv'
<1> USE DEF IInv
<1>1. Next
  BY DEF Next, ParentStep, ChildStep
<1>2. call' = call /\ Redirected' = Redirected /\ Asked' = Asked
  BY <1>1, CallKept
<1>4. TypeOK'
  BY <1>2, Streams, CallAssumption DEF Wait, TypeOK, CallType
<1>5. ParentEnds'
  BY <1>2 DEF Wait, Accepted, ParentEnds, world
<1>6. ChildLife'
  BY <1>2 DEF Wait, Accepted, ChildLife, world
<1>7. Conserved'
  BY <1>2 DEF Wait, Accepted, Conserved, world
<1>8. EndSeen'
  BY <1>2 DEF Wait, Accepted, EndSeen, Finished, world
<1>9. FullRun'
  BY <1>2 DEF Wait, Accepted, FullRun, world
<1>10. StatusTrue'
  BY <1>2 DEF Wait, Accepted, StatusTrue, world
<1>11. ResultTrue'
  BY <1>2 DEF Wait, Accepted, ResultTrue, world
<1> QED BY <1>4, <1>5, <1>6, <1>7, <1>8, <1>9, <1>10, <1>11

\* The action Return keeps the invariant.
LEMMA ReturnKeeps ==
  ASSUME IInv, Return
  PROVE  IInv'
<1> USE DEF IInv
<1>1. Next
  BY DEF Next, ParentStep, ChildStep
<1>2. call' = call /\ Redirected' = Redirected /\ Asked' = Asked
  BY <1>1, CallKept
<1>4. TypeOK'
  BY <1>2 DEF Return, Result, Accepted, TypeOK, world, Failure, ExitCode, ExecError
<1>5. ParentEnds'
  BY <1>2 DEF Return, Result, Accepted, ParentEnds, world
<1>6. ChildLife'
  BY <1>2 DEF Return, Result, Accepted, ChildLife, world
<1>7. Conserved'
  BY <1>2 DEF Return, Result, Accepted, Conserved, world
<1>8. EndSeen'
  BY <1>2 DEF Return, Result, Accepted, EndSeen, Finished, world
<1>9. FullRun'
  BY <1>2 DEF Return, Result, Accepted, FullRun, world
<1>10. StatusTrue'
  BY <1>2 DEF Return, Result, Accepted, StatusTrue, world
<1>11. ResultTrue'
  BY <1>2 DEF Return, Result, Accepted, ResultTrue, world, StatusTrue, FullRun, ChildLife, Failure, ExitCode, ExecError
<1> QED BY <1>4, <1>5, <1>6, <1>7, <1>8, <1>9, <1>10, <1>11

\* The child gives up the ends it does not use; its write ends stay open.
LEMMA SetUpKeeps ==
  ASSUME IInv, SetUp
  PROVE  IInv'
<1> USE DEF IInv
<1>1. Next
  BY DEF Next, ParentStep, ChildStep
<1>2. call' = call /\ Redirected' = Redirected /\ Asked' = Asked
  BY <1>1, CallKept
<1>4. TypeOK'
  BY <1>2 DEF SetUp, Ends, TypeOK, world
<1>5. ParentEnds'
  BY <1>2 DEF SetUp, Ends, ParentEnds, world
<1>6. ChildLife'
  BY <1>2, Streams DEF SetUp, ChildLife
<1>7. Conserved'
  BY <1>2 DEF SetUp, Ends, Conserved, world
<1>8. EndSeen'
  BY <1>2 DEF SetUp, Ends, EndSeen, Finished, world
<1>9. FullRun'
  BY <1>2 DEF SetUp, Ends, FullRun, world
<1>10. StatusTrue'
  BY <1>2 DEF SetUp, Ends, StatusTrue, world
<1>11. ResultTrue'
  BY <1>2 DEF SetUp, Ends, ResultTrue, world
<1> QED BY <1>4, <1>5, <1>6, <1>7, <1>8, <1>9, <1>10, <1>11

\* The action ChildReads keeps the invariant.
LEMMA ChildReadsKeeps ==
  ASSUME IInv, ChildReads
  PROVE  IInv'
<1> USE DEF IInv
<1>1. Next
  BY DEF Next, ParentStep, ChildStep
<1>2. call' = call /\ Redirected' = Redirected /\ Asked' = Asked
  BY <1>1, CallKept
<1>4. TypeOK'
  <2>1. pipe["in"] # <<>> =>
          Tail(pipe["in"]) \in Seq(Nat) /\ Len(Tail(pipe["in"])) = Len(pipe["in"]) - 1
    BY Streams, HeadTailProperties DEF TypeOK
  <2>2. Len(pipe["in"]) \in Nat /\ Len(pipe["in"]) <= Capacity /\ Capacity \in Nat
    BY Streams, SizeAssumption, LenProperties DEF TypeOK
  <2>3. pipe' \in [Pipes -> Seq(Nat)] /\ \A p \in Pipes : Len(pipe'[p]) <= Capacity
    BY <2>1, <2>2 DEF ChildReads, TypeOK
  <2>4. todo' \in Seq(Pipes)
    BY HeadTailProperties DEF ChildReads, TypeOK
  <2> QED BY <1>2, <2>3, <2>4 DEF ChildReads, TypeOK, world
<1>5. ParentEnds'
  BY <1>2 DEF ChildReads, ParentEnds, world
<1>6. ChildLife'
  BY <1>2 DEF ChildReads, ChildLife, world
<1>7. Conserved'
  BY <1>2, Streams DEF ChildReads, Conserved, TypeOK
<1>8. EndSeen'
  BY <1>2 DEF ChildReads, EndSeen, Finished, world
<1>9. FullRun'
  BY <1>2 DEF ChildReads, FullRun, world
<1>10. StatusTrue'
  BY <1>2 DEF ChildReads, StatusTrue, world
<1>11. ResultTrue'
  BY <1>2 DEF ChildReads, ResultTrue, world
<1> QED BY <1>4, <1>5, <1>6, <1>7, <1>8, <1>9, <1>10, <1>11

\* A byte written is in the pipe, and so in what is still to be collected.
LEMMA ChildWritesKeeps ==
  ASSUME IInv, ChildWrites
  PROVE  IInv'
<1> USE DEF IInv
<1>1. Next
  BY DEF Next, ParentStep, ChildStep
<1>2. call' = call /\ Redirected' = Redirected /\ Asked' = Asked
  BY <1>1, CallKept
<1>3. Item \in Nat
  BY LenProperties DEF TypeOK, Item
<1>4. TypeOK'
  <2> DEFINE p == Head(todo)
  <2>1. p \in Outputs /\ p \in Pipes /\ todo' \in Seq(Pipes)
    BY Streams, HeadTailProperties DEF ChildWrites, TypeOK
  <2> HIDE DEF p
  <2>2. wrote[p] \in Seq(Nat) /\ pipe[p] \in Seq(Nat) /\ Len(pipe[p]) \in Nat
    BY <2>1, LenProperties DEF TypeOK
  <2>3. /\ Append(wrote[p], Item) \in Seq(Nat) /\ Append(pipe[p], Item) \in Seq(Nat)
        /\ Len(Append(pipe[p], Item)) = Len(pipe[p]) + 1
    BY <2>2, <1>3, AppendProperties
  <2>4. wrote' \in [Outputs -> Seq(Nat)]
    BY <2>1, <2>3 DEF ChildWrites, TypeOK, p
  <2>5. pipe' \in [Pipes -> Seq(Nat)] /\ \A r \in Pipes : Len(pipe'[r]) <= Capacity
    <3>1. CASE pipe' = pipe
      BY <3>1 DEF TypeOK
    <3>2. CASE pipe' = [pipe EXCEPT ![p] = Append(pipe[p], Item)] /\ Len(pipe[p]) < Capacity
      <4>1. Len(Append(pipe[p], Item)) <= Capacity
        BY <2>2, <2>3, <3>2, SizeAssumption
      <4> QED BY <2>1, <2>3, <3>2, <4>1 DEF TypeOK
    <3> QED BY <3>1, <3>2 DEF ChildWrites, p
  <2> QED BY <1>2, <2>1, <2>4, <2>5 DEF ChildWrites, TypeOK, world
<1>5. ParentEnds'
  BY <1>2 DEF ChildWrites, ParentEnds, world
<1>6. ChildLife'
  BY <1>2 DEF ChildWrites, ChildLife, world
<1>7. Conserved'
  <2> SUFFICES ASSUME NEW q \in Asked PROVE got[q] \o pipe'[q] = wrote'[q]
    BY <1>2 DEF Conserved, ChildWrites
  <2>1. got[q] \in Seq(Nat) /\ pipe[q] \in Seq(Nat) /\ got[q] \o pipe[q] = wrote[q]
        /\ q \in Pipes /\ q \in Outputs /\ q \in Redirected
    BY Streams DEF TypeOK, Conserved
  <2>2. CASE q # Head(todo)
    BY <2>1, <2>2, Streams DEF ChildWrites, TypeOK
  <2>3. CASE q = Head(todo)
    <3>1. pipe'[q] = Append(pipe[q], Item) /\ wrote'[q] = Append(wrote[q], Item)
      BY <2>1, <2>3 DEF ChildWrites, TypeOK
    <3> DEFINE i == Item
    <3> HIDE DEF i
    <3>2. /\ Append(pipe[q], i) = pipe[q] \o <<i>>
          /\ <<i>> \in Seq(Nat) /\ i \in Nat
          /\ got[q] \o pipe[q] \in Seq(Nat)
      <4>1. i \in Nat
        BY <1>3 DEF i
      <4>2. <<i>> \in Seq(Nat)
        BY <4>1
      <4>3. got[q] \o pipe[q] \in Seq(Nat)
        BY <2>1, ConcatProperties
      <4> QED BY <2>1, <4>1, <4>2, <4>3, AppendIsConcat
    <3>3. Append(got[q] \o pipe[q], i) = (got[q] \o pipe[q]) \o <<i>>
      BY <3>2, AppendIsConcat
    <3>4. (got[q] \o pipe[q]) \o <<i>> = got[q] \o (pipe[q] \o <<i>>)
      BY <2>1, <3>2, Assoc
    <3>5. got[q] \o Append(pipe[q], i) = Append(wrote[q], i)
      BY <2>1, <3>2, <3>3, <3>4
    <3> QED BY <3>1, <3>5 DEF i
  <2> QED BY <2>2, <2>3
<1>8. EndSeen'
  BY <1>2 DEF ChildWrites, EndSeen, Finished, world
<1>9. FullRun'
  BY <1>2 DEF ChildWrites, FullRun, world
<1>10. StatusTrue'
  BY <1>2 DEF ChildWrites, StatusTrue, world
<1>11. ResultTrue'
  BY <1>2 DEF ChildWrites, ResultTrue, world
<1> QED BY <1>4, <1>5, <1>6, <1>7, <1>8, <1>9, <1>10, <1>11

\* The action ChildEnds keeps the invariant.
LEMMA ChildEndsKeeps ==
  ASSUME IInv, ChildEnds
  PROVE  IInv'
<1> USE DEF IInv
<1>1. Next
  BY DEF Next, ParentStep, ChildStep
<1>2. call' = call /\ Redirected' = Redirected /\ Asked' = Asked
  BY <1>1, CallKept
<1>4. TypeOK'
  BY <1>2 DEF ChildEnds, TypeOK, world
<1>5. ParentEnds'
  BY <1>2 DEF ChildEnds, ParentEnds, world
<1>6. ChildLife'
  BY <1>2 DEF ChildEnds, ChildLife, world
<1>7. Conserved'
  BY <1>2 DEF ChildEnds, Conserved, world
<1>8. EndSeen'
  BY <1>2 DEF ChildEnds, EndSeen, Finished, world
<1>9. FullRun'
  BY <1>2 DEF ChildEnds, FullRun, world
<1>10. StatusTrue'
  BY <1>2 DEF ChildEnds, StatusTrue, world
<1>11. ResultTrue'
  BY <1>2 DEF ChildEnds, ResultTrue, world
<1> QED BY <1>4, <1>5, <1>6, <1>7, <1>8, <1>9, <1>10, <1>11

\* The invariant holds when the call starts,
LEMMA InitHolds == Init => IInv
<1> SUFFICES ASSUME Init PROVE IInv
  OBVIOUS
<1>1. Asked \subseteq Outputs
  BY Streams
<1>2. call \in CallType
  BY CallAssumption DEF Init
<1>3. TypeOK
  <2>1. /\ <<>> \in Seq(Nat) /\ Len(<<>>) = 0
    BY EmptySeq
  <2>2. 0 <= Capacity /\ 0 \in 0..Chunk
    BY SizeAssumption
  <2>3. /\ pipe \in [Pipes -> Seq(Nat)] /\ \A p \in Pipes : Len(pipe[p]) <= Capacity
        /\ wrote \in [Outputs -> Seq(Nat)] /\ got \in [Outputs -> Seq(Nat)]
        /\ last \in [Outputs -> 0..Chunk]
    BY <2>1, <2>2 DEF Init
  <2> QED BY <1>2, <2>3 DEF Init, TypeOK, CallType, Failure
<1>4. ParentEnds /\ ChildLife /\ EndSeen /\ FullRun /\ StatusTrue /\ ResultTrue
  BY DEF Init, ParentEnds, ChildLife, EndSeen, FullRun, StatusTrue, ResultTrue
<1>5. Conserved
  <2>1. \A t \in Seq(Nat) : t \o <<>> = t
    BY ConcatEmptySeq
  <2>2. <<>> \in Seq(Nat)
    BY EmptySeq
  <2>3. <<>> \o <<>> = <<>>
    BY <2>1, <2>2
  <2>4. \A p \in Asked : got[p] = <<>> /\ pipe[p] = <<>> /\ wrote[p] = <<>>
    BY <1>1, Streams DEF Init
  <2> QED BY <2>3, <2>4 DEF Conserved
<1> QED BY <1>3, <1>4, <1>5 DEF IInv

\* and in every state of a call.
LEMMA Invariance == Spec => []IInv
<1>1. IInv /\ [Next]_vars => IInv'
  <2> SUFFICES ASSUME IInv, [Next]_vars PROVE IInv'
    OBVIOUS
  <2>1. CASE ParentStep
    <3>1. CASE ReadOut
      <4>1. Read("out", "err") /\ "out" \in Outputs /\ After("out") = "err"
        BY <3>1 DEF ReadOut, Outputs, After
      <4> QED BY <4>1, ReadKeeps
    <3>2. CASE ReadErr
      <4>1. Read("err", "test") /\ "err" \in Outputs /\ After("err") = "test"
        BY <3>2 DEF ReadErr, Outputs, After
      <4> QED BY <4>1, ReadKeeps
    <3> QED BY <2>1, <3>1, <3>2, MakePipesKeeps, ForkKeeps, ForkFailsKeeps, CloseInReadKeeps,
               FeedByteKeeps, FeedBrokenKeeps, FeedEndKeeps, OpenStreamsKeeps, TestReadKeeps,
               WaitKeeps, ReturnKeeps DEF ParentStep
  <2>2. CASE ChildStep
    BY <2>2, SetUpKeeps, ChildReadsKeeps, ChildWritesKeeps, ChildEndsKeeps
       DEF ChildStep
  <2>3. CASE UNCHANGED vars
    <3> USE <2>3 DEF vars
    <3>1. Redirected' = Redirected /\ Asked' = Asked
      BY DEF Redirected, Asked, Length
    <3>2. TypeOK' /\ ParentEnds' /\ ChildLife'
      BY <3>1 DEF IInv, TypeOK, ParentEnds, ChildLife
    <3>3. Conserved' /\ EndSeen'
      BY <3>1 DEF IInv, Conserved, EndSeen, Finished
    <3>4. FullRun' /\ StatusTrue' /\ ResultTrue'
      BY DEF IInv, FullRun, StatusTrue, ResultTrue
    <3> QED BY <3>2, <3>3, <3>4 DEF IInv
  <2> QED BY <2>1, <2>2, <2>3 DEF Next
<1> QED BY <1>1, InitHolds, PTL DEF Spec

\* The variables of a call keep their types, and no pipe ever holds more than
\* the operating system lets it.
THEOREM CommandTyped == Spec => []TypeOK
<1>1. IInv => TypeOK
  BY DEF IInv
<1> QED BY <1>1, Invariance, PTL

\* When system_run stops reading, the child has ended and its outputs are
\* complete and in order, however long they are and whatever the sizes of the
\* pipes and of the buffer.
THEOREM AllCollected == Spec => []Collected
<1>1. IInv => Collected
  <2> SUFFICES ASSUME IInv, pc \in {"wait", "result"}, Redirected \cap Outputs # {}
               PROVE  /\ cpc \in {"zombie", "gone"}
                      /\ \A p \in Redirected \cap Outputs : got[p] = wrote[p]
    BY DEF Collected
  <2>1. \A p \in Asked : Finished(p)
    BY Streams DEF IInv, EndSeen
  <2>2. \A p \in Asked : got[p] \in Seq(Nat) /\ got[p] \o <<>> = wrote[p]
    BY <2>1, Streams DEF IInv, TypeOK, Conserved, Finished
  <2>3. \A g \in Seq(Nat) : g \o <<>> = g
    BY ConcatEmptySeq
  <2> QED BY <2>1, <2>2, <2>3 DEF Finished, Asked
<1> QED BY <1>1, Invariance, PTL

\* However a call ends, the interpreter keeps no end of a pipe and leaves no
\* child behind.
THEOREM EverythingClosed == Spec => []NothingLeft
<1>1. IInv => NothingLeft
  BY DEF IInv, ParentEnds, ChildLife, NothingLeft
<1> QED BY <1>1, Invariance, PTL

\* The exit status of the command is reported only if the command ran to its
\* exit.
THEOREM StatusIsTrue == Spec => []ResultTrue
<1>1. IInv => ResultTrue
  BY DEF IInv
<1> QED BY <1>1, Invariance, PTL
=============================================================================
