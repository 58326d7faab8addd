------------------------- MODULE EvalControlProofs -------------------------
(***************************************************************************)
(* Proofs about EvalControl, for every set of programs and every bound.    *)
(*                                                                         *)
(* All steps change the C stack in one of three ways: the top frame goes   *)
(* (Leave), is replaced (Become), or is replaced and a callee is put on    *)
(* top of it (Run).  One lemma for each says what that does to the type of *)
(* the stack, to the number of active loops, tries and calls, and to       *)
(* ReturnInCall, the one strengthening the counters need.                  *)
(*                                                                         *)
(* A pending continue or break is consumed by a loop or a function on the  *)
(* stack (Consumed).  A while or for loop that waits for its test consumes *)
(* none, so none may be set by a statement right above it: between the two *)
(* a function runs (Bodied).                                               *)
(***************************************************************************)
EXTENDS EvalControl, FiniteSetTheorems, SequenceTheorems, TLAPS

Cnt(c, kd) == Cardinality(Active(c, kd))
One(f, kd) == IF Kind(f) = kd THEN 1 ELSE 0

\* A return statement that waits for its expression runs inside a function:
\* without this the pending return it is about to set might have no owner.
ReturnWaits(f) == f.node.op = "RETURN" /\ f.pc = "value"
InCall(c) == \A k \in 1..Len(c) :
               ReturnWaits(c[k]) => \E j \in 1..(k - 1) : Kind(c[j]) = "call"
ReturnInCall == InCall(ctl)

JumpsOwned == ~s.exit_flag => /\ s.except_flag => s.try_flag > 0
                              /\ s.return_flag => s.func_flag > 0

IInv == TypeOK /\ CountersMatch /\ JumpsOwned /\ ReturnInCall
-----------------------------------------------------------------------------
\* A frame counts once or not at all.
LEMMA OneType == \A f, kd : One(f, kd) \in {0, 1}
BY DEF One

\* Pushing a frame adds it to the count of its kind and to no other.
LEMMA PushCount ==
  ASSUME NEW F, NEW c \in Seq(F), NEW f \in F, NEW kd
  PROVE  /\ Cnt(c, kd) \in Nat
         /\ Cnt(Append(c, f), kd) = Cnt(c, kd) + One(f, kd)
<1> DEFINE A == Active(c, kd)
           n == Len(c) + 1
           d == Append(c, f)
<1>1. Len(c) \in Nat /\ Len(d) = n /\ d[n] = f
      /\ \A k \in 1..Len(c) : d[k] = c[k]
  OBVIOUS
<1>2. IsFiniteSet(A) /\ Cardinality(A) \in Nat
  <2> HIDE DEF A
  <2>1. 1 \in Int /\ Len(c) \in Int
    BY <1>1
  <2>2. IsFiniteSet(1..Len(c))
    BY <2>1, FS_Interval
  <2>3. A \subseteq 1..Len(c)
    BY DEF A, Active
  <2> QED BY <2>2, <2>3, FS_Subset, FS_CardinalityType
<1>3. n \notin A
  BY <1>1 DEF Active
<1>4. CASE Kind(f) = kd
  <2>1. Active(d, kd) = A \cup {n}
    BY <1>1, <1>4 DEF Active
  <2>2. Cardinality(A \cup {n}) = Cardinality(A) + 1
    BY <1>2, <1>3, FS_AddElement
  <2> QED BY <1>2, <1>4, <2>1, <2>2 DEF Cnt, One
<1>5. CASE Kind(f) # kd
  <2>1. Active(d, kd) = A
    BY <1>1, <1>5 DEF Active
  <2> QED BY <1>2, <1>5, <2>1 DEF Cnt, One
<1> QED BY <1>4, <1>5

\* A stack that is not empty is what is below its top, and the top.
LEMMA LastOfSeq ==
  ASSUME NEW F, NEW c \in Seq(F), c # <<>>
  PROVE  LET b == SubSeq(c, 1, Len(c) - 1)
         IN /\ b \in Seq(F) /\ c[Len(c)] \in F
            /\ Len(c) \in Nat /\ Len(b) = Len(c) - 1
            /\ c = Append(b, c[Len(c)])
            /\ \A k \in 1..Len(b) : b[k] = c[k]
<1> DEFINE b == SubSeq(c, 1, Len(c) - 1)
<1>1. Len(c) \in Nat \ {0} /\ c[Len(c)] \in F
  OBVIOUS
<1>2. /\ 1 \in Int /\ Len(c) - 1 \in Int
      /\ \A k \in 1..(Len(c) - 1) : c[k] \in F
  BY <1>1
<1>3. /\ b \in Seq(F) /\ Len(b) = Len(c) - 1
      /\ \A k \in 1..Len(b) : b[k] = c[k]
  <2>1. /\ b \in Seq(F)
        /\ Len(b) = IF 1 <= Len(c) - 1 THEN Len(c) - 1 - 1 + 1 ELSE 0
        /\ \A k \in 1..(Len(c) - 1 - 1 + 1) : b[k] = c[1 + k - 1]
    BY <1>2, SubSeqProperties
  <2> HIDE DEF b
  <2>2. Len(b) = Len(c) - 1
    <3>1. Len(b) = IF 1 <= Len(c) - 1 THEN Len(c) - 1 - 1 + 1 ELSE 0
      BY <2>1
    <3>2. ASSUME NEW n \in Nat \ {0}
          PROVE  (IF 1 <= n - 1 THEN n - 1 - 1 + 1 ELSE 0) = n - 1
      OBVIOUS
    <3> QED BY <1>1, <3>1, <3>2
  <2>3. ASSUME NEW k \in 1..Len(b) PROVE b[k] = c[k]
    <3>1. k \in 1..(Len(c) - 1 - 1 + 1) /\ 1 + k - 1 = k
      BY <1>1, <2>2
    <3>2. b[k] = c[1 + k - 1]
      BY <2>1, <3>1
    <3> QED BY <3>1, <3>2
  <2> QED BY <2>1, <2>2, <2>3
<1>4. c = Append(b, c[Len(c)])
  <2> HIDE DEF b
  <2>1. /\ Append(b, c[Len(c)]) \in Seq(F)
        /\ Len(Append(b, c[Len(c)])) = Len(c)
        /\ \A k \in 1..Len(c) : Append(b, c[Len(c)])[k] = c[k]
    BY <1>1, <1>3
  <2> QED BY <2>1, SeqEqual
<1> QED BY <1>1, <1>3, <1>4

\* The stack is its top on what lies below.
LEMMA TopBelow ==
  ASSUME ctl \in Seq(FrameType), ctl # <<>>
  PROVE  /\ Below \in Seq(FrameType)
         /\ Top \in FrameType
         /\ ctl = Append(Below, Top)
         /\ Len(ctl) \in Nat /\ Len(Below) = Len(ctl) - 1
         /\ \A k \in 1..Len(Below) : Below[k] = ctl[k]
BY LastOfSeq DEF Below, Top

\* A call frame that is counted is among the frames counted.
LEMMA SomeCall ==
  ASSUME NEW F, NEW c \in Seq(F), Cnt(c, "call") > 0
  PROVE  \E j \in 1..Len(c) : Kind(c[j]) = "call"
<1>1. Cardinality({}) = 0
  BY FS_EmptySet
<1>2. Active(c, "call") # {}
  BY <1>1 DEF Cnt
<1> QED BY <1>2 DEF Active

\* A return takes the top frame out of the counts.
LEMMA LeaveEffect ==
  ASSUME ctl \in Seq(FrameType), ctl # <<>>, Leave
  PROVE  /\ ctl' \in Seq(FrameType)
         /\ \A kd : Cnt(ctl', kd) = Cnt(ctl, kd) - One(Top, kd)
         /\ ReturnInCall => ReturnInCall'
<1>1. ctl' = Below
  BY DEF Leave
<1>2. ctl' \in Seq(FrameType)
  BY <1>1, TopBelow
<1>3. ASSUME NEW kd PROVE Cnt(ctl', kd) = Cnt(ctl, kd) - One(Top, kd)
  <2>1. /\ Cnt(Below, kd) \in Nat
        /\ Cnt(Append(Below, Top), kd) = Cnt(Below, kd) + One(Top, kd)
    BY TopBelow, PushCount
  <2>2. ctl = Append(Below, Top) /\ One(Top, kd) \in {0, 1}
    BY TopBelow, OneType
  <2> QED BY <1>1, <2>1, <2>2
<1>4. ReturnInCall => ReturnInCall'
  BY <1>1, TopBelow DEF ReturnInCall, InCall
<1> QED BY <1>2, <1>3, <1>4

\* A frame that is replaced leaves its count to the one that replaces it.
LEMMA BecomeEffect ==
  ASSUME ctl \in Seq(FrameType), ctl # <<>>, NEW f \in FrameType, Become(f),
         ~ReturnWaits(f)
  PROVE  /\ ctl' \in Seq(FrameType)
         /\ \A kd : Cnt(ctl', kd) = Cnt(ctl, kd) - One(Top, kd) + One(f, kd)
         /\ ReturnInCall => ReturnInCall'
<1>1. ctl' = Append(Below, f)
  BY DEF Become
<1>2. ctl' \in Seq(FrameType)
  BY <1>1, TopBelow
<1>3. ASSUME NEW kd
      PROVE  Cnt(ctl', kd) = Cnt(ctl, kd) - One(Top, kd) + One(f, kd)
  <2>1. /\ Cnt(Below, kd) \in Nat
        /\ Cnt(Append(Below, Top), kd) = Cnt(Below, kd) + One(Top, kd)
    BY TopBelow, PushCount
  <2>2. Cnt(Append(Below, f), kd) = Cnt(Below, kd) + One(f, kd)
    BY TopBelow, PushCount
  <2>3. ctl = Append(Below, Top) /\ One(Top, kd) \in {0, 1} /\ One(f, kd) \in {0, 1}
    BY TopBelow, OneType
  <2> QED BY <1>1, <2>1, <2>2, <2>3
<1>4. ASSUME ReturnInCall PROVE ReturnInCall'
  <2>1. \A k \in 1..Len(Below) : ctl'[k] = ctl[k]
    BY <1>1, TopBelow
  <2>2. Len(ctl') = Len(Below) + 1 /\ ctl'[Len(ctl')] = f
    BY <1>1, TopBelow
  <2> QED BY <1>4, <2>1, <2>2, TopBelow DEF ReturnInCall, InCall
<1> QED BY <1>2, <1>3, <1>4

\* Of the two frames only the caller's may be a return that waits, and then a
\* function must be running already.
LEMMA RunEffect ==
  ASSUME ctl \in Seq(FrameType), ctl # <<>>,
         NEW f \in FrameType, NEW g \in FrameType, Run(f, g),
         ~ReturnWaits(g), ReturnWaits(f) => Cnt(Below, "call") > 0
  PROVE  /\ ctl' \in Seq(FrameType)
         /\ \A kd : Cnt(ctl', kd) =
                      Cnt(ctl, kd) - One(Top, kd) + One(f, kd) + One(g, kd)
         /\ ReturnInCall => ReturnInCall'
<1>1. ctl' = Append(Append(Below, f), g)
  BY TopBelow DEF Run
<1>2. Append(Below, f) \in Seq(FrameType) /\ ctl' \in Seq(FrameType)
  BY <1>1, TopBelow
<1>3. ASSUME NEW kd
      PROVE  Cnt(ctl', kd) = Cnt(ctl, kd) - One(Top, kd) + One(f, kd) + One(g, kd)
  <2>1. /\ Cnt(Below, kd) \in Nat
        /\ Cnt(Append(Below, Top), kd) = Cnt(Below, kd) + One(Top, kd)
    BY TopBelow, PushCount
  <2>2. Cnt(Append(Below, f), kd) = Cnt(Below, kd) + One(f, kd)
    BY TopBelow, PushCount
  <2>3. Cnt(ctl', kd) = Cnt(Append(Below, f), kd) + One(g, kd)
    BY <1>1, <1>2, PushCount
  <2>4. /\ ctl = Append(Below, Top) /\ One(Top, kd) \in {0, 1}
        /\ One(f, kd) \in {0, 1} /\ One(g, kd) \in {0, 1}
    BY TopBelow, OneType
  <2> QED BY <2>1, <2>2, <2>3, <2>4
<1>4. ASSUME ReturnInCall PROVE ReturnInCall'
  <2> DEFINE n == Len(Below)
  <2>1. n \in Nat /\ \A k \in 1..n : ctl'[k] = ctl[k]
    BY <1>1, TopBelow
  <2>2. Len(ctl') = n + 2 /\ ctl'[n + 1] = f /\ ctl'[n + 2] = g
    BY <1>1, TopBelow
  <2>3. ASSUME NEW k \in 1..Len(ctl'), ReturnWaits(ctl'[k])
        PROVE  \E j \in 1..(k - 1) : Kind(ctl'[j]) = "call"
    <3>1. CASE k \in 1..n
      BY <1>4, <2>1, <2>3, <3>1, TopBelow DEF ReturnInCall, InCall
    <3>2. CASE k = n + 1
      <4>1. \E j \in 1..n : Kind(Below[j]) = "call"
        BY <2>2, <2>3, <3>2, TopBelow, SomeCall
      <4> QED BY <2>1, <3>2, <4>1, TopBelow
    <3>3. CASE k = n + 2
      BY <2>2, <2>3, <3>3
    <3> QED BY <2>1, <2>2, <3>1, <3>2, <3>3
  <2> QED BY <2>3 DEF ReturnInCall, InCall
<1> QED BY <1>2, <1>3, <1>4
-----------------------------------------------------------------------------
(* What most steps do to the stack: it stays typed, nothing more or less is *)
(* active on it, and every return that waits still has its function.        *)

Kinds == {"loop", "try", "call"}
Moved == /\ ctl' \in Seq(FrameType)
         /\ \A kd \in Kinds : Cnt(ctl', kd) = Cnt(ctl, kd)
         /\ ReturnInCall'

\* The count of a kind of frame is a natural number.
LEMMA CountNat ==
  ASSUME NEW F, NEW c \in Seq(F), NEW kd
  PROVE  Cnt(c, kd) \in Nat
<1>1. CASE c = <<>>
  <2>1. Active(c, kd) = {}
    BY <1>1 DEF Active
  <2> QED BY <2>1, FS_EmptySet DEF Cnt
<1>2. CASE c # <<>>
  <2>1. c[Len(c)] \in F
    BY <1>2
  <2> QED BY <2>1, PushCount
<1> QED BY <1>1, <1>2

\* A frame that waits at a place of no counted statement is not counted.
LEMMA KindNone ==
  ASSUME NEW f,
         \/ f.pc \in {"entry", "list", "item", "args", "left", "right", "value", "group"}
         \/ f.node.op \in {"IF", "IF_ELSE", "COND", "SWITCH"}
  PROVE  Kind(f) = "none"
BY DEF Kind, LoopOps

\* The frame of a callee: typed, not counted, and no return that waits.
LEMMA CalleeFrame ==
  ASSUME NEW n \in Node, NEW pc \in {"entry", "list"}, NEW ck \in Nat
  PROVE  /\ Frame(n, pc, ck) \in FrameType
         /\ Kind(Frame(n, pc, ck)) = "none"
         /\ ~ReturnWaits(Frame(n, pc, ck))
<1> DEFINE f == Frame(n, pc, ck)
<1>1. f.pc = pc /\ f.node = n
  BY DEF Frame
<1>2. f \in FrameType
  <2>1. f \in [node : Node, pc : Places, cookie : Nat, i : Nat, v : Value \cup {None}]
    BY DEF Frame, Places
  <2>2. f.pc # "guard"
    BY <1>1
  <2> HIDE DEF f
  <2> QED BY <2>1, <2>2 DEF FrameType
<1>3. Kind(f) = "none"
  BY <1>1, KindNone
<1>4. ~ReturnWaits(f)
  BY <1>1 DEF ReturnWaits
<1> QED BY <1>2, <1>3, <1>4

\* The fields of the top frame.
LEMMA TopFields ==
  ASSUME ctl \in Seq(FrameType), ctl # <<>>
  PROVE  /\ Here \in Node /\ Top.cookie \in Nat /\ Top.i \in Nat
         /\ Top.v \in Value \cup {None} /\ Top.pc \in Places
         /\ Here.op \in Ops /\ Here.kids \in Seq(Node) /\ WellFormed(Here)
         /\ \A i \in 1..Len(Here.kids) : Part(Here, i) \in Node
<1>1. Top \in FrameType
  BY TopBelow
<1>2. Here \in Node
  BY <1>1 DEF FrameType, Here
<1>3. Here.kids \in Seq(Node)
  BY <1>2, NodeAssumption
<1>4. \A i \in 1..Len(Here.kids) : Part(Here, i) \in Node
  BY <1>3 DEF Part
<1> QED BY <1>1, <1>2, <1>3, <1>4, NodeAssumption DEF FrameType

\* A frame of no counted kind returns without a change of the counts,
LEMMA LeaveMoves ==
  ASSUME IInv, Running, Leave, Kind(Top) = "none"
  PROVE  Moved
<1>1. ctl \in Seq(FrameType) /\ ctl # <<>> /\ ReturnInCall
  BY DEF IInv, TypeOK, Running
<1>2. \A kd \in Kinds : One(Top, kd) = 0 /\ Cnt(ctl, kd) \in Nat
  BY <1>1, CountNat DEF One, Kinds
<1>3. /\ ctl' \in Seq(FrameType) /\ ReturnInCall'
      /\ \A kd : Cnt(ctl', kd) = Cnt(ctl, kd) - One(Top, kd)
  BY <1>1, LeaveEffect
<1> QED BY <1>2, <1>3 DEF Moved

\* is replaced by another one of no counted kind without one,
LEMMA BecomeMoves ==
  ASSUME IInv, Running, NEW f \in FrameType, Become(f),
         Kind(Top) = "none", Kind(f) = "none", ~ReturnWaits(f)
  PROVE  Moved
<1>1. ctl \in Seq(FrameType) /\ ctl # <<>> /\ ReturnInCall
  BY DEF IInv, TypeOK, Running
<1>2. \A kd \in Kinds : One(Top, kd) = 0 /\ One(f, kd) = 0 /\ Cnt(ctl, kd) \in Nat
  BY <1>1, CountNat DEF One, Kinds
<1>3. /\ ctl' \in Seq(FrameType) /\ ReturnInCall'
      /\ \A kd : Cnt(ctl', kd) = Cnt(ctl, kd) - One(Top, kd) + One(f, kd)
  BY <1>1, BecomeEffect
<1> QED BY <1>2, <1>3 DEF Moved

\* and so does any frame that calls one of no counted kind.
LEMMA RunMoves ==
  ASSUME IInv, Running, NEW f \in FrameType, NEW g \in FrameType, Run(f, g),
         Kind(f) = Kind(Top), Kind(g) = "none", ~ReturnWaits(f), ~ReturnWaits(g)
  PROVE  Moved
<1>1. ctl \in Seq(FrameType) /\ ctl # <<>> /\ ReturnInCall
  BY DEF IInv, TypeOK, Running
<1>2. \A kd \in Kinds : /\ One(Top, kd) \in {0, 1} /\ One(f, kd) = One(Top, kd)
                        /\ One(g, kd) = 0 /\ Cnt(ctl, kd) \in Nat
  BY <1>1, CountNat DEF One, Kinds
<1>3. /\ ctl' \in Seq(FrameType) /\ ReturnInCall'
      /\ \A kd : Cnt(ctl', kd) = Cnt(ctl, kd) - One(Top, kd) + One(f, kd) + One(g, kd)
  BY <1>1, RunEffect
<1> QED BY <1>2, <1>3 DEF Moved

\* Waiting at pc for a part: typed, and of the kind of the statement there.
LEMMA WaitFrame ==
  ASSUME ctl \in Seq(FrameType), ctl # <<>>,
         NEW pc \in Places, Here.op = "SWITCH" => pc # "guard"
  PROVE  /\ [Top EXCEPT !.pc = pc] \in FrameType
         /\ [Top EXCEPT !.pc = pc].node = Here
         /\ [Top EXCEPT !.pc = pc].pc = pc
BY TopBelow DEF FrameType, Here

\* A frame that waits at another place is still a frame of the same tree.
LEMMA WaitFrameAt ==
  ASSUME ctl \in Seq(FrameType), ctl # <<>>,
         NEW pc \in Places, pc # "guard", NEW i \in Nat
  PROVE  /\ [Top EXCEPT !.pc = pc, !.i = i] \in FrameType
         /\ [Top EXCEPT !.pc = pc, !.i = i].node = Here
         /\ [Top EXCEPT !.pc = pc, !.i = i].pc = pc
BY TopBelow DEF FrameType, Here

\* A call of eval_stmt or eval_expr on a part.
LEMMA EvalMoves ==
  ASSUME IInv, Running, NEW n \in Node, NEW pc \in Places, Eval(n, pc),
         Here.op = "SWITCH" => pc # "guard", ~(Here.op = "RETURN" /\ pc = "value"),
         Kind([Top EXCEPT !.pc = pc]) = Kind(Top)
  PROVE  Moved
<1> DEFINE f == [Top EXCEPT !.pc = pc]
           g == Frame(n, "entry", Top.cookie)
<1>1. ctl \in Seq(FrameType) /\ ctl # <<>>
  BY DEF IInv, TypeOK, Running
<1>2. f \in FrameType /\ f.node = Here /\ f.pc = pc
  BY <1>1, WaitFrame
<1>3. g \in FrameType /\ Kind(g) = "none" /\ ~ReturnWaits(g)
  BY <1>1, TopFields, CalleeFrame
<1>4. ~ReturnWaits(f)
  BY <1>2 DEF ReturnWaits
<1>5. Run(f, g)
  BY DEF Eval
<1> HIDE DEF f, g
<1>6. Kind(f) = Kind(Top)
  BY DEF f
<1> QED BY <1>2, <1>3, <1>4, <1>5, <1>6, RunMoves

\* Handing over to the evaluation of a part leaves the counts alone.
LEMMA BecomeEvalMoves ==
  ASSUME IInv, Running, NEW n \in Node, BecomeEval(n), Kind(Top) = "none"
  PROVE  Moved
<1>1. ctl \in Seq(FrameType) /\ ctl # <<>>
  BY DEF IInv, TypeOK, Running
<1>2. /\ Frame(n, "entry", Top.cookie) \in FrameType
      /\ Kind(Frame(n, "entry", Top.cookie)) = "none"
      /\ ~ReturnWaits(Frame(n, "entry", Top.cookie))
  BY <1>1, TopFields, CalleeFrame
<1> QED BY <1>2, BecomeMoves DEF BecomeEval
-----------------------------------------------------------------------------
(* What a step must show of the state besides.                              *)

\* Below the limit the counters count; at the limit ++ gives a negative number.
LEMMA IncrDecr ==
  /\ \A x \in Int : Incr(x) \in Int /\ Decr(x) \in Int
  /\ \A x \in Nat : Incr(x) >= 1 => Incr(x) = x + 1
  /\ \A x \in Nat \ {0} : Decr(x) = x - 1
BY BoundAssumption DEF Incr, Decr

\* fatal() sets the exit and touches nothing else the invariant speaks of.
LEMMA FatalType ==
  ASSUME NEW t \in StateType
  PROVE  /\ Fatal(t) \in StateType /\ Fatal(t).exit_flag
         /\ Fatal(t).local_depth = t.local_depth
         /\ Fatal(t).except_flag = t.except_flag
<1>1. \A x \in Int : [t EXCEPT !.exit_flag = TRUE, !.exit_value = x] \in StateType
  BY DEF StateType
<1>2. Fatal(t) \in StateType
  <2>1. -1 \in Int
    OBVIOUS
  <2> QED BY <1>1, <2>1 DEF Fatal
<1>3. /\ Fatal(t).exit_flag /\ Fatal(t).local_depth = t.local_depth
      /\ Fatal(t).except_flag = t.except_flag
  BY DEF Fatal, StateType
<1> QED BY <1>2, <1>3

\* except_throw leaves an exception with a try that is active, or exits.
LEMMA ThrownEffect ==
  ASSUME NEW t \in StateType, NEW v \in Value
  PROVE  /\ Thrown(t, v) \in StateType
         /\ Thrown(t, v).local_depth = t.local_depth
         /\ ~Thrown(t, v).exit_flag =>
               /\ ~t.exit_flag /\ t.try_flag # 0
               /\ Thrown(t, v).loop_flag = t.loop_flag
               /\ Thrown(t, v).try_flag = t.try_flag
               /\ Thrown(t, v).func_flag = t.func_flag
               /\ Thrown(t, v).return_flag = t.return_flag
<1>1. CASE t.try_flag = 0
  <2>1. \A u \in StateType : /\ [u EXCEPT !.except_value = None] \in StateType
                             /\ [u EXCEPT !.except_value = None].local_depth = u.local_depth
                             /\ [u EXCEPT !.except_value = None].exit_flag = u.exit_flag
    BY DEF StateType
  <2> QED BY <1>1, <2>1, FatalType DEF Thrown
<1>2. CASE t.try_flag # 0
  BY <1>2 DEF Thrown, StateType
<1> QED BY <1>1, <1>2

\* What is left to show for a step: the counters move as the frames do, and
\* what is pending has an owner.
LEMMA StepPreserves ==
  ASSUME IInv, ctl' \in Seq(FrameType), ReturnInCall',
         prog' = prog, val' \in Value, s' \in StateType, trace' \in Seq(EventType),
         s'.local_depth - s.local_depth = Cnt(ctl', "call") - Cnt(ctl, "call"),
         ~s'.exit_flag =>
           /\ ~s.exit_flag
           /\ s'.loop_flag - s.loop_flag = Cnt(ctl', "loop") - Cnt(ctl, "loop")
           /\ s'.try_flag - s.try_flag = Cnt(ctl', "try") - Cnt(ctl, "try")
           /\ s'.func_flag - s.func_flag = Cnt(ctl', "call") - Cnt(ctl, "call")
           /\ s'.except_flag => s'.try_flag > 0
           /\ s'.return_flag => s'.func_flag > 0
  PROVE  IInv'
<1>1. TypeOK'
  BY DEF IInv, TypeOK
<1>2. \A kd : Cnt(ctl, kd) \in Nat /\ Cnt(ctl', kd) \in Nat
  BY CountNat DEF IInv, TypeOK
<1>3. /\ s.local_depth \in Int /\ s.loop_flag \in Int /\ s.try_flag \in Int
      /\ s.func_flag \in Int
      /\ s'.local_depth \in Int /\ s'.loop_flag \in Int /\ s'.try_flag \in Int
      /\ s'.func_flag \in Int
  BY DEF IInv, TypeOK, StateType
<1>4. /\ s.local_depth = Cnt(ctl, "call")
      /\ ~s.exit_flag => /\ s.loop_flag = Cnt(ctl, "loop")
                         /\ s.try_flag = Cnt(ctl, "try")
                         /\ s.func_flag = Cnt(ctl, "call")
  BY DEF IInv, CountersMatch, Count, Cnt
<1>5. \A x, y \in Int : \A m, n \in Nat : y - x = n - m /\ x = m => y = n
  OBVIOUS
<1>6. s'.local_depth = Cnt(ctl', "call")
  BY <1>2, <1>3, <1>4, <1>5
<1>7. ASSUME ~s'.exit_flag
      PROVE  /\ s'.loop_flag = Cnt(ctl', "loop")
             /\ s'.try_flag = Cnt(ctl', "try")
             /\ s'.func_flag = Cnt(ctl', "call")
  <2>1. s'.loop_flag = Cnt(ctl', "loop")
    BY <1>2, <1>3, <1>4, <1>5, <1>7
  <2>2. s'.try_flag = Cnt(ctl', "try")
    BY <1>2, <1>3, <1>4, <1>5, <1>7
  <2>3. s'.func_flag = Cnt(ctl', "call")
    BY <1>2, <1>3, <1>4, <1>5, <1>7
  <2> QED BY <2>1, <2>2, <2>3
<1>8. CountersMatch'
  BY <1>6, <1>7 DEF CountersMatch, Count, Cnt
<1>9. JumpsOwned'
  BY DEF JumpsOwned
<1> QED BY <1>1, <1>8, <1>9 DEF IInv

\* A step that moves on the stack without a count, and may set flags.
LEMMA FlagsPreserve ==
  ASSUME IInv, Moved, prog' = prog, val' \in Value, s' \in StateType, trace' \in Seq(EventType),
         s'.local_depth = s.local_depth,
         ~s'.exit_flag =>
           /\ ~s.exit_flag
           /\ s'.loop_flag = s.loop_flag
           /\ s'.try_flag = s.try_flag
           /\ s'.func_flag = s.func_flag
           /\ s'.except_flag => s'.try_flag > 0
           /\ s'.return_flag => s'.func_flag > 0
  PROVE  IInv'
<1>1. /\ ctl' \in Seq(FrameType) /\ ReturnInCall'
      /\ Cnt(ctl', "call") = Cnt(ctl, "call") /\ Cnt(ctl', "loop") = Cnt(ctl, "loop")
      /\ Cnt(ctl', "try") = Cnt(ctl, "try")
  BY DEF Moved, Kinds
<1>2. \A kd : Cnt(ctl, kd) \in Nat
  BY CountNat DEF IInv, TypeOK
<1>3. /\ s.local_depth \in Int /\ s.loop_flag \in Int /\ s.try_flag \in Int
      /\ s.func_flag \in Int
  BY DEF IInv, TypeOK, StateType
<1>4. s'.local_depth - s.local_depth = Cnt(ctl', "call") - Cnt(ctl, "call")
  BY <1>1, <1>2, <1>3
<1>5. ~s'.exit_flag =>
        /\ ~s.exit_flag
        /\ s'.loop_flag - s.loop_flag = Cnt(ctl', "loop") - Cnt(ctl, "loop")
        /\ s'.try_flag - s.try_flag = Cnt(ctl', "try") - Cnt(ctl, "try")
        /\ s'.func_flag - s.func_flag = Cnt(ctl', "call") - Cnt(ctl, "call")
        /\ s'.except_flag => s'.try_flag > 0
        /\ s'.return_flag => s'.func_flag > 0
  BY <1>1, <1>2, <1>3
<1> QED BY <1>1, <1>4, <1>5, StepPreserves

\* A step that only moves on the stack.
LEMMA KeepPreserves ==
  ASSUME IInv, Moved, Keep
  PROVE  IInv'
<1>1. /\ prog' = prog /\ val' = val /\ s' = s /\ trace' = trace
      /\ val \in Value /\ s \in StateType /\ trace \in Seq(EventType)
  BY DEF Keep, IInv, TypeOK
<1>2. ~s.exit_flag => /\ s.except_flag => s.try_flag > 0
                      /\ s.return_flag => s.func_flag > 0
  BY DEF IInv, JumpsOwned
<1>3. trace' \in Seq(EventType)
  BY <1>1
<1> QED BY <1>1, <1>2, <1>3, FlagsPreserve

\* The typed state, unfolded.
LEMMA Facts ==
  ASSUME IInv, Running
  PROVE  /\ ctl \in Seq(FrameType) /\ ctl # <<>> /\ prog \in Programs
         /\ val \in Value /\ s \in StateType /\ trace \in Seq(EventType)
         /\ Here \in Node /\ Top.i \in Nat /\ Top.cookie \in Nat
         /\ \A i \in 1..Len(Here.kids) : Part(Here, i) \in Node
         /\ WellFormed(Here) /\ Len(Here.kids) \in Nat
<1>1. Here.kids \in Seq(Node)
  BY TopFields DEF IInv, TypeOK, Running
<1>2. Len(Here.kids) \in Nat
  BY <1>1
<1> QED BY <1>2, TopFields DEF IInv, TypeOK, Running

\* The counters of a state in which nothing has overflowed.
LEMMA Counters ==
  ASSUME IInv, ~s.exit_flag
  PROVE  /\ s.loop_flag = Cnt(ctl, "loop") /\ s.loop_flag \in Nat
         /\ s.try_flag = Cnt(ctl, "try") /\ s.try_flag \in Nat
         /\ s.func_flag = Cnt(ctl, "call") /\ s.func_flag \in Nat
<1>1. \A kd : Cnt(ctl, kd) \in Nat
  BY CountNat DEF IInv, TypeOK
<1> QED BY <1>1 DEF IInv, CountersMatch, Count, Cnt
-----------------------------------------------------------------------------
(* The steps.                                                              *)

\* A step that only moves and yields a value.
LEMMA ValuePreserves ==
  ASSUME IInv, Running, Moved, val' \in Value, prog' = prog, s' = s, trace' \in Seq(EventType)
  PROVE  IInv'
<1>1. s \in StateType
  BY Facts
<1>2. ~s.exit_flag => /\ s.except_flag => s.try_flag > 0
                      /\ s.return_flag => s.func_flag > 0
  BY DEF IInv, JumpsOwned
<1> QED BY <1>1, <1>2, FlagsPreserve

\* A step that ends the script, wherever it was.
LEMMA FatalPreserves ==
  ASSUME IInv, Running, Moved, val' \in Value, prog' = prog, trace' = trace,
         NEW t \in StateType, t.local_depth = s.local_depth, s' = Fatal(t)
  PROVE  IInv'
<1>1. /\ s' \in StateType /\ s'.exit_flag /\ s'.local_depth = s.local_depth
      /\ trace' \in Seq(EventType)
  BY FatalType, Facts
<1> QED BY <1>1, FlagsPreserve

\* A throw.
LEMMA ThrowPreserves ==
  ASSUME IInv, Running, Moved, val' \in Value, prog' = prog, trace' = trace,
         NEW v \in Value, s' = Thrown(s, v)
  PROVE  IInv'
<1>1. s \in StateType /\ trace' \in Seq(EventType)
  BY Facts
<1>2. s' \in StateType /\ s'.local_depth = s.local_depth
  BY <1>1, ThrownEffect
<1>3. ASSUME ~s'.exit_flag
      PROVE  /\ ~s.exit_flag /\ s'.loop_flag = s.loop_flag
             /\ s'.try_flag = s.try_flag /\ s'.func_flag = s.func_flag
             /\ s'.except_flag => s'.try_flag > 0
             /\ s'.return_flag => s'.func_flag > 0
  <2>1. /\ ~s.exit_flag /\ s.try_flag # 0 /\ s'.loop_flag = s.loop_flag
        /\ s'.try_flag = s.try_flag /\ s'.func_flag = s.func_flag
        /\ s'.return_flag = s.return_flag
    BY <1>1, <1>3, ThrownEffect
  <2>2. s.try_flag > 0
    BY <2>1, Counters
  <2> QED BY <2>1, <2>2 DEF IInv, JumpsOwned
<1> QED BY <1>1, <1>2, <1>3, FlagsPreserve

\* Leaving a counted frame takes one off its own count and no other.
LEMMA LeaveCounted ==
  ASSUME IInv, Running, Leave, NEW kd \in Kinds, Kind(Top) = kd
  PROVE  /\ ctl' \in Seq(FrameType) /\ ReturnInCall'
         /\ \A k \in Kinds : Cnt(ctl, k) \in Nat
         /\ Cnt(ctl, kd) >= 1 /\ Cnt(ctl', kd) = Cnt(ctl, kd) - 1
         /\ \A k \in Kinds \ {kd} : Cnt(ctl', k) = Cnt(ctl, k)
<1>1. ctl \in Seq(FrameType) /\ ctl # <<>> /\ ReturnInCall
  BY DEF IInv, TypeOK, Running
<1>2. /\ ctl' \in Seq(FrameType) /\ ReturnInCall'
      /\ \A k : Cnt(ctl', k) = Cnt(ctl, k) - One(Top, k)
  BY <1>1, LeaveEffect
<1>3. \A k : Cnt(ctl, k) \in Nat /\ Cnt(ctl', k) \in Nat
  BY <1>1, <1>2, CountNat
<1>4. One(Top, kd) = 1 /\ \A k \in Kinds \ {kd} : One(Top, k) = 0
  BY DEF One
<1>5. Cnt(ctl', kd) = Cnt(ctl, kd) - 1 /\ Cnt(ctl, kd) >= 1
  BY <1>2, <1>3, <1>4
<1>6. \A k \in Kinds \ {kd} : Cnt(ctl', k) = Cnt(ctl, k)
  BY <1>2, <1>3, <1>4
<1> QED BY <1>2, <1>3, <1>5, <1>6

\* The values the evaluator makes itself are values.
LEMMA ErrorIsValue == Void \in Value /\ Error \in Value /\ BOOLEAN \subseteq Value
BY DEF Value

\* The parts each kind of tree has.
LEMMA PartsOf ==
  ASSUME IInv, Running
  PROVE  /\ Here.op \in {"EXPR", "THROW", "IF", "WHILE", "DO", "TRY", "AND", "OR",
                         "IF_ELSE", "COND", "FOR", "SWITCH"} => Part(Here, 1) \in Node
         /\ Here.op \in {"IF", "WHILE", "DO", "TRY", "AND", "OR",
                         "IF_ELSE", "COND", "FOR"} => Part(Here, 2) \in Node
         /\ Here.op \in {"IF_ELSE", "COND", "FOR"} => Part(Here, 3) \in Node
         /\ Here.op = "FOR" => Part(Here, 4) \in Node
<1>1. /\ WellFormed(Here) /\ Len(Here.kids) \in Nat
      /\ \A i \in 1..Len(Here.kids) : Part(Here, i) \in Node
  BY Facts
<1> DEFINE k == Len(Here.kids)
<1>2. Here.op \in {"EXPR", "THROW"} => k = 1
  BY <1>1 DEF WellFormed
<1>3. Here.op \in {"IF", "WHILE", "DO", "TRY", "AND", "OR"} => k = 2
  BY <1>1 DEF WellFormed
<1>4. Here.op \in {"IF_ELSE", "COND"} => k = 3
  BY <1>1 DEF WellFormed
<1>5. Here.op = "FOR" => k = 4
  BY <1>1 DEF WellFormed
<1>6. Here.op = "SWITCH" => k > 1
  BY <1>1 DEF WellFormed
<1>7. /\ k >= 1 => Part(Here, 1) \in Node
      /\ k >= 2 => Part(Here, 2) \in Node
      /\ k >= 3 => Part(Here, 3) \in Node
      /\ k >= 4 => Part(Here, 4) \in Node
  BY <1>1
<1> HIDE DEF k
<1>8. k = 1 \/ k = 2 \/ k = 3 \/ k = 4 \/ k > 1 => k >= 1
  BY <1>1 DEF k
<1>9. (k = 2 => k >= 2) /\ (k = 3 => k >= 2 /\ k >= 3) /\ (k = 4 => k >= 2 /\ k >= 3 /\ k >= 4)
  OBVIOUS
<1> QED BY <1>2, <1>3, <1>4, <1>5, <1>6, <1>7, <1>8, <1>9

\* A call of eval_expr in a construct that counts nothing.
LEMMA EvalQuiet ==
  ASSUME IInv, Running, NEW n \in Node, NEW pc, Eval(n, pc), Kind(Top) = "none",
         \/ pc = "left" \/ pc = "right"
         \/ pc = "value" /\ Here.op # "RETURN"
         \/ pc = "test" /\ Here.op \in {"IF", "IF_ELSE", "COND"}
  PROVE  Moved
<1>1. pc \in Places /\ pc # "guard" /\ ~(Here.op = "RETURN" /\ pc = "value")
  BY DEF Places
<1>2. [Top EXCEPT !.pc = pc].pc = pc /\ [Top EXCEPT !.pc = pc].node = Here
  BY <1>1, Facts, WaitFrame
<1>3. Kind([Top EXCEPT !.pc = pc]) = "none"
  BY <1>2, KindNone
<1> QED BY <1>1, <1>3, EvalMoves

\* Expressions and calls keep the invariant.
LEMMA ExprPreserves ==
  ASSUME IInv, ExprStep
  PROVE  IInv'
<1>1. CASE SkipExpr
  <2>1. Running /\ Leave /\ Kind(Top) = "none"
    BY <1>1, KindNone DEF SkipExpr
  <2>2. Moved
    BY <2>1, LeaveMoves
  <2> QED BY <1>1, <2>1, <2>2, ValuePreserves, ErrorIsValue, Facts DEF SkipExpr
<1>2. CASE ReadInput
  <2>1. Running /\ Leave /\ Kind(Top) = "none"
    BY <1>2, KindNone DEF ReadInput, ExprReady, At
  <2>2. Moved
    BY <2>1, LeaveMoves
  <2>3. val' \in BOOLEAN /\ prog' = prog /\ s' = s
    BY <1>2 DEF ReadInput
  <2>4. trace' \in Seq(EventType)
    <3>1. Here.name \in {n.name : n \in Node} /\ trace \in Seq(EventType)
      BY <2>1, Facts
    <3>2. [ev |-> "input", id |-> Here.name, v |-> val'] \in EventType
      BY <2>3, <3>1, ErrorIsValue DEF EventType
    <3> QED BY <1>2, <3>1, <3>2 DEF ReadInput, Event
  <2> QED BY <2>1, <2>2, <2>3, <2>4, ValuePreserves, ErrorIsValue
<1>3. CASE RaiseError
  <2>1. Running /\ Leave /\ Kind(Top) = "none"
    BY <1>3, KindNone DEF RaiseError, ExprReady, At
  <2>2. Moved
    BY <2>1, LeaveMoves
  <2> QED BY <1>3, <2>1, <2>2, ThrowPreserves, ErrorIsValue DEF RaiseError
<1>4. CASE ExitScript
  <2>1. Running /\ Leave /\ Kind(Top) = "none"
    BY <1>4, KindNone DEF ExitScript, ExprReady, At
  <2>2. Moved
    BY <2>1, LeaveMoves
  <2>3. s' \in StateType /\ s'.exit_flag /\ s'.local_depth = s.local_depth
    <3>1. ExitStatus \in Int
      BY DEF ExitStatus
    <3>2. s \in StateType
      BY <2>1, Facts
    <3>3. s' = [s EXCEPT !.exit_flag = TRUE, !.exit_value = ExitStatus]
      BY <1>4 DEF ExitScript
    <3> QED BY <3>1, <3>2, <3>3 DEF StateType
  <2>4. val' \in Value /\ prog' = prog /\ trace' \in Seq(EventType)
    BY <1>4, <2>1, ErrorIsValue, Facts DEF ExitScript
  <2> QED BY <2>2, <2>3, <2>4, FlagsPreserve
<1>5. CASE BoolLeft
  <2>1. /\ Running /\ Here.op \in {"AND", "OR"} /\ Top.pc = "entry"
        /\ Eval(Part(Here, 1), "left") /\ Keep
    BY <1>5 DEF BoolLeft, ExprReady, At
  <2>2. Moved
    BY <2>1, PartsOf, KindNone, EvalQuiet
  <2> QED BY <2>1, <2>2, KeepPreserves
<1>6. CASE BoolRight
  <2>1. /\ Running /\ Here.op \in {"AND", "OR"} /\ Top.pc = "left"
        /\ prog' = prog /\ s' = s /\ trace' = trace
        /\ \/ Leave /\ val' = True(val)
           \/ Eval(Part(Here, 2), "right") /\ val' = val
    BY <1>6 DEF BoolRight, At
  <2>2. Moved
    BY <2>1, PartsOf, KindNone, EvalQuiet, LeaveMoves
  <2>3. val' \in Value
    BY <2>1, Facts, ErrorIsValue DEF True
  <2> QED BY <2>1, <2>2, <2>3, Facts, ValuePreserves
<1>7. CASE BoolDone
  <2>1. /\ Running /\ Top.pc = "right" /\ Leave /\ val' = True(val)
        /\ prog' = prog /\ s' = s /\ trace' = trace
    BY <1>7 DEF BoolDone, At
  <2>2. Moved
    BY <2>1, KindNone, LeaveMoves
  <2>3. val' \in Value
    BY <2>1, ErrorIsValue DEF True
  <2> QED BY <2>1, <2>2, <2>3, Facts, ValuePreserves
<1>8. CASE CondTest
  <2>1. /\ Running /\ Here.op = "COND" /\ Top.pc = "entry"
        /\ Eval(Part(Here, 1), "test") /\ Keep
    BY <1>8 DEF CondTest, ExprReady, At, Test
  <2>2. Moved
    BY <2>1, PartsOf, KindNone, EvalQuiet
  <2> QED BY <2>1, <2>2, KeepPreserves
<1>9. CASE CondBranch
  <2>1. /\ Running /\ Here.op = "COND" /\ Keep
        /\ BecomeEval(Part(Here, 2)) \/ BecomeEval(Part(Here, 3))
    BY <1>9 DEF CondBranch, At, TrueCase, FalseCase
  <2>2. Kind(Top) = "none"
    BY <2>1, KindNone DEF Here
  <2>3. Moved
    BY <2>1, <2>2, PartsOf, BecomeEvalMoves
  <2> QED BY <2>1, <2>3, KeepPreserves
<1>10. CASE CallUndefined
  <2>1. /\ Running /\ Leave /\ Kind(Top) = "none" /\ s' = Fatal(s)
        /\ val' = Void /\ prog' = prog /\ trace' = trace
    BY <1>10, KindNone DEF CallUndefined, ExprReady, At
  <2>2. Moved
    BY <2>1, LeaveMoves
  <2> QED BY <2>1, <2>2, FatalPreserves, ErrorIsValue, Facts
<1>11. CASE CallArgument
  <2> DEFINE f == [Top EXCEPT !.pc = "args", !.i = @ + 1]
             g == Frame(Part(Here, Top.i + 1), "entry", Top.cookie)
  <2>1. /\ Running /\ Here.op = "CALL" /\ Kind(Top) = "none"
        /\ Top.i < Len(Here.kids) /\ Run(f, g) /\ Keep
    BY <1>11, KindNone DEF CallArgument, Calling
  <2>2. f \in FrameType /\ Kind(f) = "none" /\ ~ReturnWaits(f)
    <3>1. Top.i + 1 \in Nat /\ "args" \in Places
      BY <2>1, Facts DEF Places
    <3>2. f.pc = "args" /\ f \in FrameType
      BY <2>1, <3>1, Facts, WaitFrameAt
    <3> QED BY <3>2, KindNone DEF ReturnWaits
  <2>3. g \in FrameType /\ Kind(g) = "none" /\ ~ReturnWaits(g)
    <3>1. Part(Here, Top.i + 1) \in Node /\ Top.cookie \in Nat
      BY <2>1, Facts
    <3> QED BY <3>1, CalleeFrame
  <2> HIDE DEF f, g
  <2>4. Moved
    BY <2>1, <2>2, <2>3, RunMoves
  <2> QED BY <2>1, <2>4, KeepPreserves
<1>12. CASE CallSkipped
  <2>1. /\ Running /\ Leave /\ Kind(Top) = "none" /\ s' = s
        /\ val' = Void /\ prog' = prog /\ trace' = trace
    BY <1>12, KindNone DEF CallSkipped, CallReady, Calling
  <2>2. Moved
    BY <2>1, LeaveMoves
  <2> QED BY <2>1, <2>2, ValuePreserves, ErrorIsValue, Facts
<1>13. CASE CallRefused
  <2>1. /\ Running /\ Leave /\ Kind(Top) = "none" /\ s' = Fatal(s)
        /\ val' = Void /\ prog' = prog /\ trace' = trace
    BY <1>13, KindNone DEF CallRefused, CallReady, Calling
  <2>2. Moved
    BY <2>1, LeaveMoves
  <2> QED BY <2>1, <2>2, FatalPreserves, ErrorIsValue, Facts
<1>14. CASE CallTooDeep
  <2> DEFINE t == [s EXCEPT !.func_flag = Incr(@)]
  <2>1. /\ Running /\ Leave /\ Kind(Top) = "none" /\ s' = Fatal(t)
        /\ val' = Void /\ prog' = prog /\ trace' = trace
    BY <1>14, KindNone DEF CallTooDeep, CallReady, Calling
  <2>2. t \in StateType /\ t.local_depth = s.local_depth
    BY <2>1, Facts, IncrDecr DEF StateType
  <2>3. Moved
    BY <2>1, LeaveMoves
  <2> HIDE DEF t
  <2> QED BY <2>1, <2>2, <2>3, FatalPreserves, ErrorIsValue
<1>15. CASE CallEnter
  <2> DEFINE cookie == s.global_cookie + 1
             f == [Top EXCEPT !.pc = "run", !.cookie = cookie]
             g == Frame(Called.body, "entry", cookie)
  <2>1. /\ Running /\ Here.op = "CALL" /\ Here.name \in DOMAIN prog.fns
        /\ Kind(Top) = "none" /\ ~Halting /\ Incr(s.func_flag) >= 1
        /\ Run(f, g) /\ prog' = prog /\ val' = val /\ trace' = trace
        /\ s' = [s EXCEPT !.func_flag = Incr(@), !.local_depth = @ + 1,
                         !.retval = None, !.global_cookie = cookie]
    BY <1>15, KindNone DEF CallEnter, CallReady, Calling
  <2>2. cookie \in Nat /\ s \in StateType
    BY <2>1, Facts DEF StateType
  <2> HIDE DEF cookie
  <2>3. f \in FrameType /\ Kind(f) = "call" /\ ~ReturnWaits(f)
    <3>1. f.pc = "run" /\ f.node = Here /\ f \in FrameType
      BY <2>1, <2>2, TopBelow, Facts DEF FrameType, Places, Here
    <3> QED BY <2>1, <3>1 DEF Kind, LoopOps, ReturnWaits
  <2>4. g \in FrameType /\ Kind(g) = "none" /\ ~ReturnWaits(g)
    <3>1. Called.body \in Node
      BY <2>1, Facts, ProgramAssumption DEF Called
    <3> QED BY <2>2, <3>1, CalleeFrame
  <2> HIDE DEF f, g
  <2>5. /\ ctl' \in Seq(FrameType) /\ ReturnInCall'
        /\ \A kd : Cnt(ctl', kd) = Cnt(ctl, kd) - One(Top, kd) + One(f, kd) + One(g, kd)
    BY <2>1, <2>3, <2>4, Facts, RunEffect DEF IInv
  <2>6. /\ Cnt(ctl', "call") = Cnt(ctl, "call") + 1
        /\ Cnt(ctl', "loop") = Cnt(ctl, "loop") /\ Cnt(ctl', "try") = Cnt(ctl, "try")
    <3>1. \A kd : Cnt(ctl, kd) \in Nat
      BY <2>1, Facts, CountNat
    <3> QED BY <2>1, <2>3, <2>4, <2>5, <3>1 DEF One
  <2>7. /\ s' \in StateType /\ s'.local_depth = s.local_depth + 1
        /\ s'.func_flag = Incr(s.func_flag) /\ s'.exit_flag = s.exit_flag
        /\ s'.loop_flag = s.loop_flag /\ s'.try_flag = s.try_flag
        /\ s'.except_flag = s.except_flag /\ s'.return_flag = s.return_flag
    <3>1. s.func_flag \in Int /\ s.local_depth \in Int
      BY <2>2 DEF StateType
    <3>2. Incr(s.func_flag) \in Int /\ s.local_depth + 1 \in Int
      BY <3>1, IncrDecr
    <3> QED BY <2>1, <2>2, <3>2 DEF StateType
  <2>8. /\ s.func_flag = Cnt(ctl, "call") /\ s.func_flag \in Nat
        /\ s.loop_flag \in Nat /\ s.try_flag \in Nat /\ ~s.exit_flag /\ ~s.except_flag
    BY <2>1, Counters DEF Halting
  <2>9. s'.func_flag = s.func_flag + 1
    BY <2>1, <2>7, <2>8, IncrDecr
  <2>10. s.local_depth = Cnt(ctl, "call")
    BY DEF IInv, CountersMatch, Count, Cnt
  <2>11. val' \in Value /\ trace' \in Seq(EventType)
    BY <2>1, Facts
  <2>12. /\ s'.local_depth - s.local_depth = Cnt(ctl', "call") - Cnt(ctl, "call")
         /\ s'.func_flag - s.func_flag = Cnt(ctl', "call") - Cnt(ctl, "call")
         /\ s'.loop_flag - s.loop_flag = Cnt(ctl', "loop") - Cnt(ctl, "loop")
         /\ s'.try_flag - s.try_flag = Cnt(ctl', "try") - Cnt(ctl, "try")
    <3>1. \A kd : Cnt(ctl, kd) \in Nat
      BY <2>1, Facts, CountNat
    <3> QED BY <2>6, <2>7, <2>8, <2>9, <2>10, <3>1
  <2> QED BY <2>1, <2>5, <2>7, <2>8, <2>9, <2>11, <2>12, StepPreserves
<1>16. CASE CallReturn
  <2>1. /\ Running /\ Here.op = "CALL" /\ Top.pc = "run" /\ Leave
        /\ prog' = prog /\ trace' = trace /\ val' \in Returned
        /\ s' = [s EXCEPT !.return_flag = FALSE, !.continue_flag = FALSE,
                         !.break_flag = FALSE, !.retval = Spent,
                         !.func_flag = Decr(@), !.local_depth = @ - 1]
    BY <1>16 DEF CallReturn, EndCall, At
  <2>2. s \in StateType /\ s.func_flag \in Int /\ s.local_depth \in Int
    BY <2>1, Facts DEF StateType
  <2>3. Decr(s.func_flag) \in Int /\ s.local_depth - 1 \in Int
    BY <2>2, IncrDecr
  <2>4. Kind(Top) = "call"
    BY <2>1 DEF Kind, Here, LoopOps
  <2>5. /\ ctl' \in Seq(FrameType) /\ ReturnInCall'
        /\ Cnt(ctl, "call") \in Nat /\ Cnt(ctl, "loop") \in Nat /\ Cnt(ctl, "try") \in Nat
        /\ Cnt(ctl, "call") >= 1 /\ Cnt(ctl', "call") = Cnt(ctl, "call") - 1
        /\ Cnt(ctl', "loop") = Cnt(ctl, "loop") /\ Cnt(ctl', "try") = Cnt(ctl, "try")
    BY <2>1, <2>4, LeaveCounted DEF Kinds
  <2>6. /\ s' \in StateType /\ s'.local_depth = s.local_depth - 1
        /\ s'.func_flag = Decr(s.func_flag) /\ s'.exit_flag = s.exit_flag
        /\ s'.loop_flag = s.loop_flag /\ s'.try_flag = s.try_flag
        /\ s'.except_flag = s.except_flag /\ ~s'.return_flag
    BY <2>1, <2>2, <2>3 DEF StateType
  <2>7. val' \in Value
    BY <2>1, <2>2, ErrorIsValue DEF Returned, OwnRetval, StateType
  <2>8. trace' \in Seq(EventType)
    BY <2>1, Facts
  <2>9. s'.local_depth - s.local_depth = Cnt(ctl', "call") - Cnt(ctl, "call")
    BY <2>2, <2>5, <2>6
  <2>10. ASSUME ~s'.exit_flag
         PROVE  /\ ~s.exit_flag
                /\ s'.loop_flag - s.loop_flag = Cnt(ctl', "loop") - Cnt(ctl, "loop")
                /\ s'.try_flag - s.try_flag = Cnt(ctl', "try") - Cnt(ctl, "try")
                /\ s'.func_flag - s.func_flag = Cnt(ctl', "call") - Cnt(ctl, "call")
                /\ s'.except_flag => s'.try_flag > 0
                /\ s'.return_flag => s'.func_flag > 0
    <3>1. /\ s.loop_flag \in Nat /\ s.try_flag \in Nat
          /\ s.func_flag = Cnt(ctl, "call")
      BY <2>6, <2>10, Counters
    <3>2. s'.func_flag = s.func_flag - 1
      BY <2>5, <2>6, <3>1, IncrDecr
    <3>3. s.except_flag => s.try_flag > 0
      BY <2>6, <2>10 DEF IInv, JumpsOwned
    <3> QED BY <2>5, <2>6, <2>10, <3>1, <3>2, <3>3
  <2> QED BY <2>1, <2>5, <2>6, <2>7, <2>8, <2>9, <2>10, StepPreserves
<1> QED BY <1>1, <1>2, <1>3, <1>4, <1>5, <1>6, <1>7, <1>8, <1>9, <1>10, <1>11,
           <1>12, <1>13, <1>14, <1>15, <1>16 DEF ExprStep

\* A loop or a try that starts: one more of its kind.  The flags that say so
\* are named by the caller of the lemma.
LEMMA EvalCounted ==
  ASSUME IInv, Running, NEW n \in Node, NEW pc \in Places, Eval(n, pc), pc # "guard",
         NEW kd \in Kinds, Kind(Top) = "none", Kind([Top EXCEPT !.pc = pc]) = kd,
         ~(Here.op = "RETURN" /\ pc = "value")
  PROVE  /\ ctl' \in Seq(FrameType) /\ ReturnInCall'
         /\ \A k \in Kinds : Cnt(ctl, k) \in Nat
         /\ Cnt(ctl', kd) = Cnt(ctl, kd) + 1
         /\ \A k \in Kinds \ {kd} : Cnt(ctl', k) = Cnt(ctl, k)
<1> DEFINE f == [Top EXCEPT !.pc = pc]
           g == Frame(n, "entry", Top.cookie)
<1>1. ctl \in Seq(FrameType) /\ ctl # <<>> /\ Top.cookie \in Nat /\ ReturnInCall
  BY Facts DEF IInv
<1>2. f \in FrameType /\ f.node = Here /\ f.pc = pc
  BY <1>1, WaitFrame
<1>3. g \in FrameType /\ Kind(g) = "none" /\ ~ReturnWaits(g)
  BY <1>1, CalleeFrame
<1>4. ~ReturnWaits(f)
  BY <1>2 DEF ReturnWaits
<1>5. Run(f, g) /\ Kind(f) = kd
  BY DEF Eval
<1> HIDE DEF f, g
<1>6. /\ ctl' \in Seq(FrameType) /\ ReturnInCall'
      /\ \A k : Cnt(ctl', k) = Cnt(ctl, k) - One(Top, k) + One(f, k) + One(g, k)
  BY <1>1, <1>2, <1>3, <1>4, <1>5, RunEffect
<1>7. \A k : Cnt(ctl, k) \in Nat /\ Cnt(ctl', k) \in Nat
  BY <1>1, <1>6, CountNat
<1>8. /\ \A k \in Kinds : One(Top, k) = 0 /\ One(g, k) = 0
      /\ One(f, kd) = 1 /\ \A k \in Kinds \ {kd} : One(f, k) = 0
  BY <1>3, <1>5 DEF One, Kinds
<1>9. Cnt(ctl', kd) = Cnt(ctl, kd) + 1
  BY <1>6, <1>7, <1>8
<1>10. \A k \in Kinds \ {kd} : Cnt(ctl', k) = Cnt(ctl, k)
  BY <1>6, <1>7, <1>8
<1> QED BY <1>6, <1>7, <1>9, <1>10

\* A loop that ends gives its count back with its frame.
LEMMA LoopEnds ==
  ASSUME IInv, Running, Leave, Kind(Top) = "loop",
         prog' = prog, val' = val, trace' = trace,
         s' = EndLoop([s EXCEPT !.continue_flag = FALSE])
           \/ s' = EndLoop(s)
  PROVE  IInv'
<1>1. s \in StateType /\ s.loop_flag \in Int /\ val' \in Value /\ trace' \in Seq(EventType)
  BY Facts DEF StateType
<1>2. Decr(s.loop_flag) \in Int
  BY <1>1, IncrDecr
<1>3. /\ s' \in StateType /\ s'.loop_flag = Decr(s.loop_flag)
      /\ s'.local_depth = s.local_depth /\ s'.exit_flag = s.exit_flag
      /\ s'.try_flag = s.try_flag /\ s'.func_flag = s.func_flag
      /\ s'.except_flag = s.except_flag /\ s'.return_flag = s.return_flag
  BY <1>1, <1>2 DEF EndLoop, StateType
<1>4. /\ ctl' \in Seq(FrameType) /\ ReturnInCall'
      /\ Cnt(ctl, "call") \in Nat /\ Cnt(ctl, "loop") \in Nat /\ Cnt(ctl, "try") \in Nat
      /\ Cnt(ctl, "loop") >= 1 /\ Cnt(ctl', "loop") = Cnt(ctl, "loop") - 1
      /\ Cnt(ctl', "call") = Cnt(ctl, "call") /\ Cnt(ctl', "try") = Cnt(ctl, "try")
  BY LeaveCounted DEF Kinds
<1>5. s'.local_depth - s.local_depth = Cnt(ctl', "call") - Cnt(ctl, "call")
  BY <1>1, <1>3, <1>4 DEF StateType
<1>6. ASSUME ~s'.exit_flag
      PROVE  /\ ~s.exit_flag
             /\ s'.loop_flag - s.loop_flag = Cnt(ctl', "loop") - Cnt(ctl, "loop")
             /\ s'.try_flag - s.try_flag = Cnt(ctl', "try") - Cnt(ctl, "try")
             /\ s'.func_flag - s.func_flag = Cnt(ctl', "call") - Cnt(ctl, "call")
             /\ s'.except_flag => s'.try_flag > 0
             /\ s'.return_flag => s'.func_flag > 0
  <2>1. /\ s.try_flag \in Nat /\ s.func_flag \in Nat /\ s.loop_flag = Cnt(ctl, "loop")
    BY <1>3, <1>6, Counters
  <2>2. s'.loop_flag = s.loop_flag - 1
    BY <1>3, <1>4, <2>1, IncrDecr
  <2>3. /\ s.except_flag => s.try_flag > 0
        /\ s.return_flag => s.func_flag > 0
    BY <1>3, <1>6 DEF IInv, JumpsOwned
  <2> QED BY <1>3, <1>4, <1>6, <2>1, <2>2, <2>3
<1> QED BY <1>1, <1>3, <1>4, <1>5, <1>6, StepPreserves

\* A loop that starts is counted, unless the counter is at its limit.
LEMMA LoopStarts ==
  ASSUME IInv, NEW op \in LoopOps, NEW n \in Node, NEW pc \in {"test", "body", "init"},
         StartLoop(op, n, pc)
  PROVE  IInv'
<1>1. /\ Running /\ Here.op = op /\ Top.pc = "entry" /\ ~Diverting
      /\ Incr(s.loop_flag) >= 1 /\ s' = [s EXCEPT !.loop_flag = Incr(@)]
      /\ Eval(n, pc) /\ prog' = prog /\ val' = val /\ trace' = trace
  BY DEF StartLoop, StmtReady, At
<1>2. pc \in Places /\ pc # "guard" /\ pc # "value"
  BY DEF Places
<1>3. Kind(Top) = "none"
  BY <1>1, KindNone
<1>4. Kind([Top EXCEPT !.pc = pc]) = "loop"
  <2>1. [Top EXCEPT !.pc = pc].pc = pc /\ [Top EXCEPT !.pc = pc].node = Here
    BY <1>1, <1>2, Facts, WaitFrame
  <2> QED BY <1>1, <2>1 DEF Kind
<1>5. /\ ctl' \in Seq(FrameType) /\ ReturnInCall'
      /\ Cnt(ctl, "call") \in Nat /\ Cnt(ctl, "loop") \in Nat /\ Cnt(ctl, "try") \in Nat
      /\ Cnt(ctl', "loop") = Cnt(ctl, "loop") + 1
      /\ Cnt(ctl', "call") = Cnt(ctl, "call") /\ Cnt(ctl', "try") = Cnt(ctl, "try")
  BY <1>1, <1>2, <1>3, <1>4, EvalCounted DEF Kinds
<1>6. /\ s \in StateType /\ s.loop_flag \in Int /\ s.local_depth \in Int
      /\ val' \in Value /\ trace' \in Seq(EventType)
  BY <1>1, Facts DEF StateType
<1>7. Incr(s.loop_flag) \in Int
  BY <1>6, IncrDecr
<1>8. /\ s' \in StateType /\ s'.loop_flag = Incr(s.loop_flag)
      /\ s'.local_depth = s.local_depth /\ s'.exit_flag = s.exit_flag
      /\ s'.try_flag = s.try_flag /\ s'.func_flag = s.func_flag
      /\ s'.except_flag = s.except_flag /\ s'.return_flag = s.return_flag
  BY <1>1, <1>6, <1>7 DEF StateType
<1>9. /\ ~s.exit_flag /\ ~s.except_flag /\ ~s.return_flag
      /\ s.loop_flag \in Nat /\ s.try_flag \in Nat /\ s.func_flag \in Nat
  BY <1>1, Counters DEF Diverting, Halting
<1>10. s'.loop_flag = s.loop_flag + 1
  BY <1>1, <1>8, <1>9, IncrDecr
<1>11. /\ s'.local_depth - s.local_depth = Cnt(ctl', "call") - Cnt(ctl, "call")
       /\ s'.loop_flag - s.loop_flag = Cnt(ctl', "loop") - Cnt(ctl, "loop")
       /\ s'.try_flag - s.try_flag = Cnt(ctl', "try") - Cnt(ctl, "try")
       /\ s'.func_flag - s.func_flag = Cnt(ctl', "call") - Cnt(ctl, "call")
  BY <1>5, <1>6, <1>8, <1>9, <1>10
<1> QED BY <1>1, <1>5, <1>6, <1>8, <1>9, <1>11, StepPreserves

\* A loop that goes on.
LEMMA LoopMoves ==
  ASSUME IInv, Running, NEW n \in Node, NEW pc \in {"test", "body", "guard"}, Eval(n, pc),
         Here.op \in LoopOps, Top.pc \in {"init", "test", "body", "guard"}
  PROVE  Moved
<1>1. pc \in Places /\ pc # "value" /\ Here.op # "SWITCH"
  BY DEF Places, LoopOps
<1>2. Kind(Top) = "loop"
  BY DEF Kind, Here
<1>3. Kind([Top EXCEPT !.pc = pc]) = "loop"
  <2>1. [Top EXCEPT !.pc = pc].pc = pc /\ [Top EXCEPT !.pc = pc].node = Here
    BY <1>1, Facts, WaitFrame
  <2> QED BY <2>1 DEF Kind
<1> QED BY <1>1, <1>2, <1>3, EvalMoves

\* A step that sets or clears continue_flag and break_flag only.
LEMMA EscapesPreserve ==
  ASSUME IInv, Running, Moved, prog' = prog, val' = val, trace' = trace,
         NEW c \in BOOLEAN, NEW b \in BOOLEAN,
         s' = [s EXCEPT !.continue_flag = c, !.break_flag = b]
  PROVE  IInv'
<1>1. s \in StateType /\ val' \in Value /\ trace' \in Seq(EventType)
  BY Facts
<1>2. /\ s' \in StateType /\ s'.loop_flag = s.loop_flag
      /\ s'.local_depth = s.local_depth /\ s'.exit_flag = s.exit_flag
      /\ s'.try_flag = s.try_flag /\ s'.func_flag = s.func_flag
      /\ s'.except_flag = s.except_flag /\ s'.return_flag = s.return_flag
  BY <1>1 DEF StateType
<1>3. ~s.exit_flag => /\ s.except_flag => s.try_flag > 0
                      /\ s.return_flag => s.func_flag > 0
  BY DEF IInv, JumpsOwned
<1> QED BY <1>1, <1>2, <1>3, FlagsPreserve

\* return with a value: the statement runs in a function.
LEMMA ReturnPreserves ==
  ASSUME IInv, Running, Moved, prog' = prog, val' = val, trace' = trace,
         NEW v \in Value, StoreRetval(v), ~s.exit_flag => s.func_flag > 0
  PROVE  IInv'
<1>1. s \in StateType /\ val' \in Value /\ trace' \in Seq(EventType) /\ Top.cookie \in Nat
  BY Facts
<1>2. /\ s' \in StateType /\ s'.loop_flag = s.loop_flag
      /\ s'.local_depth = s.local_depth /\ s'.exit_flag = s.exit_flag
      /\ s'.try_flag = s.try_flag /\ s'.func_flag = s.func_flag
      /\ s'.except_flag = s.except_flag
  BY <1>1 DEF StateType, StoreRetval
<1>3. ~s.exit_flag => /\ s.except_flag => s.try_flag > 0
  BY DEF IInv, JumpsOwned
<1> QED BY <1>1, <1>2, <1>3, FlagsPreserve

\* One more frame among those counted.
LEMMA KindActive ==
  ASSUME NEW F, NEW c \in Seq(F), NEW j \in 1..Len(c), NEW kd, Kind(c[j]) = kd
  PROVE  Cnt(c, kd) > 0
<1>1. Active(c, kd) # {} /\ Active(c, kd) \subseteq 1..Len(c)
  BY DEF Active
<1>2. 1 \in Int /\ Len(c) \in Int
  OBVIOUS
<1>3. IsFiniteSet(1..Len(c))
  BY <1>2, FS_Interval
<1>4. IsFiniteSet(Active(c, kd))
  BY <1>1, <1>3, FS_Subset
<1>5. Cardinality(Active(c, kd)) \in Nat /\ Cardinality(Active(c, kd)) # 0
  BY <1>1, <1>4, FS_CardinalityType, FS_EmptySet
<1> QED BY <1>5 DEF Cnt

\* The parts of a switch label.
LEMMA LabelParts ==
  ASSUME NEW n \in Node, n.op \in LabelOps
  PROVE  /\ n.op = "CASE" => Part(n, 1) \in Node
         /\ Group(n) \in Node
<1>1. n.kids \in Seq(Node) /\ WellFormed(n)
  BY NodeAssumption
<1>2. Len(n.kids) \in Nat /\ \A i \in 1..Len(n.kids) : n.kids[i] \in Node
  BY <1>1
<1>3. n.op = "CASE" => Len(n.kids) = 2
  BY <1>1 DEF WellFormed
<1>4. n.op = "DEFAULT" => Len(n.kids) = 1
  BY <1>1 DEF WellFormed
<1>5. Len(n.kids) >= 1
  BY <1>3, <1>4 DEF LabelOps
<1>6. Group(n) \in Node
  BY <1>2, <1>5 DEF Group, Part
<1>7. n.op = "CASE" => Part(n, 1) \in Node
  BY <1>2, <1>5 DEF Part
<1> QED BY <1>6, <1>7

\* A group of a switch that starts.
LEMMA GroupMoves ==
  ASSUME IInv, Running, Here.op = "SWITCH", NEW i \in 1..Labels(Here), RunGroup(Top, i)
  PROVE  Moved
<1> DEFINE f == [Top EXCEPT !.pc = "group", !.i = i]
           g == Frame(Group(Label(Here, i)), "list", Top.cookie)
<1>1. Run(f, g)
  BY DEF RunGroup
<1>2. i \in Nat /\ Label(Here, i) \in Node
  BY Facts DEF Labels, Label
<1>3. Label(Here, i).op \in LabelOps
  BY Facts DEF WellFormed
<1>4. f \in FrameType /\ f.node = Here /\ f.pc = "group"
  BY <1>2, Facts, WaitFrameAt DEF Places
<1>5. Kind(f) = "none" /\ ~ReturnWaits(f)
  BY <1>4, KindNone DEF ReturnWaits
<1>6. Group(Label(Here, i)) \in Node /\ Top.cookie \in Nat
  BY <1>2, <1>3, LabelParts, Facts
<1>7. g \in FrameType /\ Kind(g) = "none" /\ ~ReturnWaits(g)
  BY <1>6, CalleeFrame
<1>8. Kind(Top) = "none"
  BY KindNone DEF Here
<1> HIDE DEF f, g
<1> QED BY <1>1, <1>4, <1>5, <1>7, <1>8, RunMoves

\* The statements that leave the counters alone.
PlainStep == \/ SkipStmt \/ NopStmt \/ BlockStmt \/ ListEntry \/ ListNext
             \/ ExprStmt \/ IfTest \/ IfBranch \/ ForFirst \/ ForNext
             \/ ThrowStmt \/ SwitchStmt \/ SwitchNext \/ SwitchMatch \/ SwitchNoMatch
             \/ SwitchThru

\* Statements without a counter or flag of their own keep the invariant.
LEMMA PlainPreserves ==
  ASSUME IInv, PlainStep
  PROVE  IInv'
<1>1. CASE SkipStmt
  <2>1. Running /\ Leave /\ Keep /\ Kind(Top) = "none"
    BY <1>1, KindNone DEF SkipStmt
  <2> QED BY <2>1, LeaveMoves, KeepPreserves
<1>2. CASE NopStmt
  <2>1. Running /\ Leave /\ Keep /\ Kind(Top) = "none"
    BY <1>2, KindNone DEF NopStmt, StmtReady, At
  <2> QED BY <2>1, LeaveMoves, KeepPreserves
<1>3. CASE BlockStmt
  <2> DEFINE f == [Top EXCEPT !.pc = "list"]
  <2>1. Running /\ Become(f) /\ Keep /\ Kind(Top) = "none"
    BY <1>3, KindNone DEF BlockStmt, StmtReady, At
  <2>2. f \in FrameType /\ f.pc = "list"
    BY <2>1, Facts, WaitFrame DEF Places
  <2>3. Kind(f) = "none" /\ ~ReturnWaits(f)
    BY <2>2, KindNone DEF ReturnWaits
  <2> HIDE DEF f
  <2> QED BY <2>1, <2>2, <2>3, BecomeMoves, KeepPreserves
<1>4. CASE ListEntry
  <2> DEFINE f == [Top EXCEPT !.pc = "item", !.i = 1]
             g == Frame(Part(Here, 1), "entry", Top.cookie)
  <2>1. /\ Running /\ Keep /\ Kind(Top) = "none"
        /\ Leave \/ (Here.kids # <<>> /\ Run(f, g))
    BY <1>4, KindNone DEF ListEntry, At
  <2>2. CASE Leave
    BY <2>1, <2>2, LeaveMoves, KeepPreserves
  <2>3. CASE Here.kids # <<>> /\ Run(f, g)
    <3>1. f \in FrameType /\ f.pc = "item"
      <4>1. "item" \in Places /\ 1 \in Nat
        BY DEF Places
      <4> QED BY <2>1, <4>1, Facts, WaitFrameAt
    <3>2. Kind(f) = "none" /\ ~ReturnWaits(f)
      BY <3>1, KindNone DEF ReturnWaits
    <3>3. Part(Here, 1) \in Node /\ Top.cookie \in Nat
      <4>1. Here.kids \in Seq(Node)
        BY <2>1, Facts, TopFields
      <4>2. Len(Here.kids) >= 1
        BY <2>3, <4>1
      <4> QED BY <2>1, <4>2, Facts
    <3>4. g \in FrameType /\ Kind(g) = "none" /\ ~ReturnWaits(g)
      BY <3>3, CalleeFrame
    <3> HIDE DEF f, g
    <3> QED BY <2>1, <2>3, <3>1, <3>2, <3>4, RunMoves, KeepPreserves
  <2> QED BY <2>1, <2>2, <2>3
<1>5. CASE ListNext
  <2> DEFINE f == [Top EXCEPT !.i = @ + 1]
             g == Frame(Part(Here, Top.i + 1), "entry", Top.cookie)
  <2>1. /\ Running /\ Keep /\ Kind(Top) = "none" /\ Here.op = "BLOCK" /\ Top.pc = "item"
        /\ Leave \/ (~(Top.i >= Len(Here.kids)) /\ Run(f, g))
    BY <1>5, KindNone DEF ListNext, At
  <2>2. CASE Leave
    BY <2>1, <2>2, LeaveMoves, KeepPreserves
  <2>3. CASE ~(Top.i >= Len(Here.kids)) /\ Run(f, g)
    <3>1. Top.i + 1 \in Nat
      BY <2>1, Facts
    <3>2. f \in FrameType /\ f.pc = "item"
      BY <2>1, <3>1, Facts, TopBelow DEF FrameType, Here
    <3>3. Kind(f) = "none" /\ ~ReturnWaits(f)
      BY <3>2, KindNone DEF ReturnWaits
    <3>4. Part(Here, Top.i + 1) \in Node /\ Top.cookie \in Nat
      BY <2>1, <2>3, Facts
    <3>5. g \in FrameType /\ Kind(g) = "none" /\ ~ReturnWaits(g)
      BY <3>4, CalleeFrame
    <3> HIDE DEF f, g
    <3> QED BY <2>1, <2>3, <3>2, <3>3, <3>5, RunMoves, KeepPreserves
  <2> QED BY <2>1, <2>2, <2>3
<1>6. CASE ExprStmt
  <2>1. /\ Running /\ BecomeEval(Part(Here, 1)) /\ Keep /\ Kind(Top) = "none"
        /\ Here.op = "EXPR"
    BY <1>6, KindNone DEF ExprStmt, StmtReady, At
  <2>2. Moved
    BY <2>1, PartsOf, BecomeEvalMoves
  <2> QED BY <2>1, <2>2, KeepPreserves
<1>7. CASE IfTest
  <2>1. /\ Running /\ Eval(Part(Here, 1), "test") /\ Keep /\ Top.pc = "entry"
        /\ Here.op \in {"IF", "IF_ELSE"}
    BY <1>7 DEF IfTest, StmtReady, At, Test
  <2>2. Moved
    BY <2>1, PartsOf, KindNone, EvalQuiet
  <2> QED BY <2>1, <2>2, KeepPreserves
<1>8. CASE IfBranch
  <2>1. /\ Running /\ Here.op \in {"IF", "IF_ELSE"} /\ Keep
        /\ \/ BecomeEval(Part(Here, 2))
           \/ Here.op = "IF_ELSE" /\ BecomeEval(Part(Here, 3))
           \/ Leave
    BY <1>8 DEF IfBranch, At, TrueCase, FalseCase
  <2>2. Kind(Top) = "none"
    BY <2>1, KindNone DEF Here
  <2>3. Moved
    BY <2>1, <2>2, PartsOf, BecomeEvalMoves, LeaveMoves
  <2> QED BY <2>1, <2>3, KeepPreserves
<1>9. CASE ForFirst
  <2>1. /\ Running /\ Eval(Part(Here, 1), "test") /\ Keep /\ Top.pc = "init"
        /\ Here.op = "FOR"
    BY <1>9 DEF ForFirst, At, Test
  <2>2. Moved
    BY <2>1, PartsOf, LoopMoves DEF LoopOps
  <2> QED BY <2>1, <2>2, KeepPreserves
<1>10. CASE ForNext
  <2>1. /\ Running /\ Eval(Part(Here, 1), "test") /\ Keep /\ Top.pc = "guard"
        /\ Here.op = "FOR"
    BY <1>10 DEF ForNext, At, Test
  <2>2. Moved
    BY <2>1, PartsOf, LoopMoves DEF LoopOps
  <2> QED BY <2>1, <2>2, KeepPreserves
<1>11. CASE ThrowStmt
  <2>1. /\ Running /\ Eval(Part(Here, 1), "value") /\ Keep /\ Top.pc = "entry"
        /\ Here.op = "THROW"
    BY <1>11 DEF ThrowStmt, StmtReady, At
  <2>2. Moved
    BY <2>1, PartsOf, KindNone, EvalQuiet
  <2> QED BY <2>1, <2>2, KeepPreserves
<1>12. CASE SwitchStmt
  <2>1. /\ Running /\ Eval(Part(Here, 1), "value") /\ Keep /\ Top.pc = "entry"
        /\ Here.op = "SWITCH"
    BY <1>12 DEF SwitchStmt, StmtReady, At, Test
  <2>2. Moved
    BY <2>1, PartsOf, KindNone, EvalQuiet
  <2> QED BY <2>1, <2>2, KeepPreserves
<1>13. CASE SwitchNext
  <2>1. /\ Running /\ Here.op = "SWITCH" /\ Keep /\ Top.pc \in {"value", "guard"}
        /\ Kind(Top) = "none"
    BY <1>13, KindNone DEF SwitchNext, SwitchSearch, At, Here
  <2>2. PICK i \in CasesLeft :
          Run([Top EXCEPT !.pc = "guard", !.v = Wanted, !.i = i],
              Frame(Part(Label(Here, i), 1), "entry", Top.cookie))
    BY <1>13 DEF SwitchNext
  <2> DEFINE f == [Top EXCEPT !.pc = "guard", !.v = Wanted, !.i = i]
             g == Frame(Part(Label(Here, i), 1), "entry", Top.cookie)
  <2>3. i \in 1..Labels(Here) /\ Label(Here, i).op = "CASE"
    BY DEF CasesLeft
  <2>4. Wanted \in Value \cup {None}
    BY <2>1, Facts, TopFields DEF Wanted
  <2>5. f \in FrameType /\ f.node = Here
    <3>1. Top \in FrameType /\ i \in Nat
      BY <2>1, <2>3, Facts, TopBelow DEF Labels
    <3> QED BY <2>3, <2>4, <3>1 DEF FrameType, Places, Here
  <2>6. Kind(f) = "none" /\ ~ReturnWaits(f)
    BY <2>1, <2>5, KindNone DEF ReturnWaits
  <2>7. Label(Here, i) \in Node
    BY <2>1, <2>3, Facts DEF Labels, Label
  <2>8. Part(Label(Here, i), 1) \in Node
    BY <2>3, <2>7, LabelParts DEF LabelOps
  <2>9. g \in FrameType /\ Kind(g) = "none" /\ ~ReturnWaits(g)
    BY <2>1, <2>8, Facts, CalleeFrame
  <2> HIDE DEF f, g
  <2> QED BY <2>1, <2>2, <2>5, <2>6, <2>9, RunMoves, KeepPreserves DEF f, g
<1>14. CASE SwitchMatch
  <2>1. /\ Running /\ Here.op = "SWITCH" /\ Keep /\ Top.pc = "guard"
        /\ RunGroup(Top, Top.i)
    BY <1>14 DEF SwitchMatch, SwitchSearch, Matched, At
  <2>2. Top.i \in 1..Labels(Here)
    BY <2>1, Facts, TopBelow DEF FrameType, Here
  <2> QED BY <2>1, <2>2, GroupMoves, KeepPreserves
<1>15. CASE SwitchNoMatch
  <2>1. /\ Running /\ Here.op = "SWITCH" /\ Keep /\ Kind(Top) = "none"
    BY <1>15, KindNone DEF SwitchNoMatch, SwitchSearch, At, Here
  <2>2. CASE Leave
    BY <2>1, <2>2, LeaveMoves, KeepPreserves
  <2>3. CASE ~Leave
    <3>1. PICK d \in Defaults(Here) :
            Become(Frame(Group(Label(Here, d)), "list", Top.cookie))
      BY <1>15, <2>3 DEF SwitchNoMatch
    <3>2. d \in 1..Labels(Here)
      BY DEF Defaults
    <3>3. Label(Here, d) \in Node
      BY <2>1, <3>2, Facts DEF Labels, Label
    <3>4. Label(Here, d).op \in LabelOps
      BY <3>1 DEF Defaults, LabelOps
    <3>5. Group(Label(Here, d)) \in Node /\ Top.cookie \in Nat
      BY <2>1, <3>3, <3>4, LabelParts, Facts
    <3> DEFINE g == Frame(Group(Label(Here, d)), "list", Top.cookie)
    <3>6. g \in FrameType /\ Kind(g) = "none" /\ ~ReturnWaits(g)
      BY <3>5, CalleeFrame
    <3> HIDE DEF g
    <3> QED BY <2>1, <3>1, <3>6, BecomeMoves, KeepPreserves DEF g
  <2> QED BY <2>2, <2>3
<1>16. CASE SwitchThru
  <2>1. /\ Running /\ Here.op = "SWITCH" /\ Keep /\ Kind(Top) = "none"
        /\ Leave \/ (Top.i < Labels(Here) /\ RunGroup(Top, Top.i + 1))
    BY <1>16, KindNone DEF SwitchThru, At
  <2>2. CASE Leave
    BY <2>1, <2>2, LeaveMoves, KeepPreserves
  <2>3. CASE Top.i < Labels(Here) /\ RunGroup(Top, Top.i + 1)
    <3>1. Top.i + 1 \in 1..Labels(Here)
      BY <2>1, <2>3, Facts DEF Labels
    <3> QED BY <2>1, <2>3, <3>1, GroupMoves, KeepPreserves
  <2> QED BY <2>1, <2>2, <2>3
<1> QED BY <1>1, <1>2, <1>3, <1>4, <1>5, <1>6, <1>7, <1>8, <1>9, <1>10, <1>11,
           <1>12, <1>13, <1>14, <1>15, <1>16 DEF PlainStep

\* A try section that ends, with its exception taken or without one.
LEMMA TryEnds ==
  ASSUME IInv, Running, ctl' \in Seq(FrameType), ReturnInCall',
         prog' = prog, val' \in Value, s' \in StateType, trace' \in Seq(EventType),
         Cnt(ctl', "try") = Cnt(ctl, "try") - 1, Cnt(ctl, "try") >= 1,
         Cnt(ctl, "call") \in Nat, Cnt(ctl, "loop") \in Nat, Cnt(ctl, "try") \in Nat,
         Cnt(ctl', "call") = Cnt(ctl, "call"), Cnt(ctl', "loop") = Cnt(ctl, "loop"),
         s'.try_flag = Decr(s.try_flag), s'.local_depth = s.local_depth,
         s'.exit_flag = s.exit_flag, s'.loop_flag = s.loop_flag,
         s'.func_flag = s.func_flag, ~s'.except_flag, s'.return_flag = s.return_flag
  PROVE  IInv'
<1>1. s'.local_depth - s.local_depth = Cnt(ctl', "call") - Cnt(ctl, "call")
  BY Facts DEF StateType
<1>2. ASSUME ~s'.exit_flag
      PROVE  /\ ~s.exit_flag
             /\ s'.loop_flag - s.loop_flag = Cnt(ctl', "loop") - Cnt(ctl, "loop")
             /\ s'.try_flag - s.try_flag = Cnt(ctl', "try") - Cnt(ctl, "try")
             /\ s'.func_flag - s.func_flag = Cnt(ctl', "call") - Cnt(ctl, "call")
             /\ s'.return_flag => s'.func_flag > 0
  <2>1. /\ s.loop_flag \in Nat /\ s.func_flag \in Nat /\ s.try_flag = Cnt(ctl, "try")
    BY <1>2, Counters
  <2>2. s'.try_flag = s.try_flag - 1
    BY <2>1, IncrDecr
  <2>3. s.return_flag => s.func_flag > 0
    BY <1>2 DEF IInv, JumpsOwned
  <2> QED BY <1>2, <2>1, <2>2, <2>3
<1> QED BY <1>1, <1>2, StepPreserves

\* The loops.
LoopStep == \/ LoopTooDeep \/ WhileStart \/ DoStart \/ ForStart
            \/ LoopTest \/ LoopBody \/ DoBody \/ DoTest \/ ContinueStmt \/ BreakStmt

\* Loops, continue and break keep the invariant.
LEMMA LoopPreserves ==
  ASSUME IInv, LoopStep
  PROVE  IInv'
<1>1. CASE LoopTooDeep
  <2> DEFINE t == [s EXCEPT !.loop_flag = Incr(@)]
  <2>1. /\ Running /\ Leave /\ Kind(Top) = "none" /\ s' = Fatal(t)
        /\ prog' = prog /\ val' = val /\ trace' = trace
    BY <1>1, KindNone DEF LoopTooDeep, StmtReady, At
  <2>2. t \in StateType /\ t.local_depth = s.local_depth
    BY <2>1, Facts, IncrDecr DEF StateType
  <2>3. Moved
    BY <2>1, LeaveMoves
  <2> HIDE DEF t
  <2> QED BY <2>1, <2>2, <2>3, Facts, FatalPreserves
<1>2. CASE WhileStart
  <2>1. Here.op = "WHILE" /\ Running /\ StartLoop("WHILE", Part(Here, 1), "test")
    BY <1>2 DEF WhileStart, StartLoop, StmtReady, At, Test
  <2>2. Part(Here, 1) \in Node
    BY <2>1, PartsOf
  <2> QED BY <2>1, <2>2, LoopStarts DEF LoopOps
<1>3. CASE DoStart
  <2>1. Here.op = "DO" /\ Running /\ StartLoop("DO", Part(Here, 2), "body")
    BY <1>3 DEF DoStart, StartLoop, StmtReady, At, TrueCase
  <2>2. Part(Here, 2) \in Node
    BY <2>1, PartsOf
  <2> QED BY <2>1, <2>2, LoopStarts DEF LoopOps
<1>4. CASE ForStart
  <2>1. Here.op = "FOR" /\ Running /\ StartLoop("FOR", Part(Here, 3), "init")
    BY <1>4 DEF ForStart, StartLoop, StmtReady, At, ForInit
  <2>2. Part(Here, 3) \in Node
    BY <2>1, PartsOf
  <2> QED BY <2>1, <2>2, LoopStarts DEF LoopOps
<1>5. CASE LoopTest
  <2>1. /\ Running /\ Here.op \in {"WHILE", "FOR"} /\ Top.pc = "test"
        /\ prog' = prog /\ val' = val /\ trace' = trace
        /\ \/ Eval(Part(Here, 2), "body") /\ s' = s
           \/ Leave /\ s' = EndLoop(s)
    BY <1>5 DEF LoopTest, At, TrueCase
  <2>2. CASE Eval(Part(Here, 2), "body") /\ s' = s
    <3>1. Moved
      BY <2>1, <2>2, PartsOf, LoopMoves DEF LoopOps
    <3>2. Keep
      BY <2>1, <2>2 DEF Keep
    <3> QED BY <3>1, <3>2, KeepPreserves
  <2>3. CASE Leave /\ s' = EndLoop(s)
    <3>1. Kind(Top) = "loop"
      BY <2>1 DEF Kind, Here, LoopOps
    <3> QED BY <2>1, <2>3, <3>1, LoopEnds
  <2> QED BY <2>1, <2>2, <2>3
<1>6. CASE LoopBody
  <2> DEFINE t == [s EXCEPT !.continue_flag = FALSE]
  <2>1. /\ Running /\ Here.op \in {"WHILE", "FOR"} /\ Top.pc = "body"
        /\ prog' = prog /\ val' = val /\ trace' = trace
        /\ \/ Leave /\ s' = EndLoop(t)
           \/ /\ s' = t
              /\ \/ Here.op = "FOR" /\ Eval(Part(Here, 4), "guard")
                 \/ Eval(Part(Here, 1), "test")
    BY <1>6 DEF LoopBody, At, Test, ForGuard
  <2>2. CASE Leave /\ s' = EndLoop(t)
    <3>1. Kind(Top) = "loop"
      BY <2>1 DEF Kind, Here, LoopOps
    <3> QED BY <2>1, <2>2, <3>1, LoopEnds
  <2>3. CASE /\ s' = t
             /\ \/ Here.op = "FOR" /\ Eval(Part(Here, 4), "guard")
                \/ Eval(Part(Here, 1), "test")
    <3>1. Moved
      BY <2>1, <2>3, PartsOf, LoopMoves DEF LoopOps
    <3>2. s \in StateType /\ s.break_flag \in BOOLEAN
      BY <2>1, Facts DEF StateType
    <3>3. s' = [s EXCEPT !.continue_flag = FALSE, !.break_flag = s.break_flag]
      BY <2>3, <3>2 DEF StateType
    <3> QED BY <2>1, <3>1, <3>2, <3>3, EscapesPreserve
  <2> QED BY <2>1, <2>2, <2>3
<1>7. CASE DoBody
  <2> DEFINE t == [s EXCEPT !.continue_flag = FALSE]
  <2>1. /\ Running /\ Here.op = "DO" /\ Top.pc = "body"
        /\ prog' = prog /\ val' = val /\ trace' = trace
        /\ \/ Leave /\ s' = EndLoop(t)
           \/ Eval(Part(Here, 1), "test") /\ s' = s
    BY <1>7 DEF DoBody, At, Test
  <2>2. CASE Leave /\ s' = EndLoop(t)
    <3>1. Kind(Top) = "loop"
      BY <2>1 DEF Kind, Here, LoopOps
    <3> QED BY <2>1, <2>2, <3>1, LoopEnds
  <2>3. CASE Eval(Part(Here, 1), "test") /\ s' = s
    <3>1. Moved
      BY <2>1, <2>3, PartsOf, LoopMoves DEF LoopOps
    <3>2. Keep
      BY <2>1, <2>3 DEF Keep
    <3> QED BY <3>1, <3>2, KeepPreserves
  <2> QED BY <2>1, <2>2, <2>3
<1>8. CASE DoTest
  <2> DEFINE t == [s EXCEPT !.continue_flag = FALSE]
  <2>1. /\ Running /\ Here.op = "DO" /\ Top.pc = "test"
        /\ prog' = prog /\ val' = val /\ trace' = trace
        /\ \/ Leave /\ s' = EndLoop(t)
           \/ Eval(Part(Here, 2), "body") /\ s' = t
    BY <1>8 DEF DoTest, At, TrueCase
  <2>2. CASE Leave /\ s' = EndLoop(t)
    <3>1. Kind(Top) = "loop"
      BY <2>1 DEF Kind, Here, LoopOps
    <3> QED BY <2>1, <2>2, <3>1, LoopEnds
  <2>3. CASE Eval(Part(Here, 2), "body") /\ s' = t
    <3>1. Moved
      BY <2>1, <2>3, PartsOf, LoopMoves DEF LoopOps
    <3>2. s \in StateType /\ s.break_flag \in BOOLEAN
      BY <2>1, Facts DEF StateType
    <3>3. s' = [s EXCEPT !.continue_flag = FALSE, !.break_flag = s.break_flag]
      BY <2>3, <3>2 DEF StateType
    <3> QED BY <2>1, <3>1, <3>2, <3>3, EscapesPreserve
  <2> QED BY <2>1, <2>2, <2>3
<1>9. CASE ContinueStmt
  <2>1. /\ Running /\ Leave /\ Kind(Top) = "none"
        /\ prog' = prog /\ val' = val /\ trace' = trace
        /\ s' = [s EXCEPT !.continue_flag = @ \/ LoopActive]
    BY <1>9, KindNone DEF ContinueStmt, StmtReady, At
  <2>2. Moved
    BY <2>1, LeaveMoves
  <2>3. s \in StateType /\ s.break_flag \in BOOLEAN
    BY <2>1, Facts DEF StateType
  <2> DEFINE c == s.continue_flag \/ LoopActive
  <2>4. s' = [s EXCEPT !.continue_flag = c, !.break_flag = s.break_flag]
    BY <2>1, <2>3 DEF StateType
  <2>5. c \in BOOLEAN
    OBVIOUS
  <2> HIDE DEF c
  <2> QED BY <2>1, <2>2, <2>3, <2>4, <2>5, EscapesPreserve
<1>10. CASE BreakStmt
  <2> DEFINE c == s.continue_flag \/ LoopActive
             b == s.break_flag \/ LoopActive
  <2>1. /\ Running /\ Leave /\ Kind(Top) = "none"
        /\ prog' = prog /\ val' = val /\ trace' = trace
        /\ s' = [s EXCEPT !.continue_flag = c, !.break_flag = b]
    BY <1>10, KindNone DEF BreakStmt, StmtReady, At
  <2>2. Moved
    BY <2>1, LeaveMoves
  <2>3. c \in BOOLEAN /\ b \in BOOLEAN
    OBVIOUS
  <2> HIDE DEF c, b
  <2> QED BY <2>1, <2>2, <2>3, EscapesPreserve
<1> QED BY <1>1, <1>2, <1>3, <1>4, <1>5, <1>6, <1>7, <1>8, <1>9, <1>10 DEF LoopStep

\* return, throw and try.
JumpStep == \/ ReturnStmt \/ ReturnGot \/ ThrowGot
            \/ TryTooDeep \/ TryStart \/ TryDone \/ Catch

\* return, throw, try and switch keep the invariant.
LEMMA JumpPreserves ==
  ASSUME IInv, JumpStep
  PROVE  IInv'
<1>1. CASE ReturnStmt
  <2>1. /\ Running /\ Here.op = "RETURN" /\ Top.pc = "entry" /\ Kind(Top) = "none"
        /\ prog' = prog /\ val' = val /\ trace' = trace /\ ~s.exit_flag
        /\ \/ Leave /\ s' = s
           \/ s.func_flag # 0 /\ Leave /\ StoreRetval(Void)
           \/ /\ s.func_flag # 0 /\ Here.kids # <<>>
              /\ Eval(Part(Here, 1), "value") /\ s' = s
    <3>1. /\ Running /\ Here.op = "RETURN" /\ Top.pc = "entry"
          /\ ~(s.return_flag \/ s.exit_flag \/ s.except_flag)
      BY <1>1 DEF ReturnStmt, StmtReady, At, Diverting, Halting
    <3>2. Kind(Top) = "none"
      BY <3>1, KindNone
    <3>3. prog' = prog /\ val' = val /\ trace' = trace
      BY <1>1 DEF ReturnStmt
    <3>4. \/ Leave /\ s' = s
          \/ s.func_flag # 0 /\ Leave /\ StoreRetval(Void)
          \/ /\ s.func_flag # 0 /\ Here.kids # <<>>
             /\ Eval(Part(Here, 1), "value") /\ s' = s
      BY <1>1 DEF ReturnStmt
    <3> QED BY <3>1, <3>2, <3>3, <3>4
  <2>2. CASE Leave /\ s' = s
    <3>1. Moved /\ Keep
      BY <2>1, <2>2, LeaveMoves DEF Keep
    <3> QED BY <3>1, KeepPreserves
  <2>3. CASE s.func_flag # 0 /\ Leave /\ StoreRetval(Void)
    <3>1. Moved
      BY <2>1, <2>3, LeaveMoves
    <3>2. s.func_flag > 0
      BY <2>1, <2>3, Counters
    <3> QED BY <2>1, <2>3, <3>1, <3>2, ErrorIsValue, ReturnPreserves
  <2>4. CASE /\ s.func_flag # 0 /\ Here.kids # <<>>
             /\ Eval(Part(Here, 1), "value") /\ s' = s
    <3> DEFINE f == [Top EXCEPT !.pc = "value"]
               g == Frame(Part(Here, 1), "entry", Top.cookie)
    <3>1. Here.kids \in Seq(Node) /\ Len(Here.kids) >= 1
      <4>1. Here.kids \in Seq(Node)
        BY <2>1, Facts, TopFields
      <4> QED BY <2>4, <4>1
    <3>2. Part(Here, 1) \in Node /\ Top.cookie \in Nat
      BY <2>1, <3>1, Facts
    <3>3. g \in FrameType /\ Kind(g) = "none" /\ ~ReturnWaits(g)
      BY <3>2, CalleeFrame
    <3>4. f \in FrameType /\ f.pc = "value"
      <4>1. "value" \in Places
        BY DEF Places
      <4> QED BY <2>1, <4>1, Facts, WaitFrame
    <3>5. Kind(f) = "none"
      BY <3>4, KindNone
    <3>6. Cnt(Below, "call") > 0
      <4>1. s.func_flag = Cnt(ctl, "call") /\ s.func_flag \in Nat
        BY <2>1, Counters
      <4>2. /\ Below \in Seq(FrameType) /\ Top \in FrameType
            /\ ctl = Append(Below, Top)
        BY <2>1, Facts, TopBelow
      <4>3. /\ Cnt(Below, "call") \in Nat
            /\ Cnt(Append(Below, Top), "call") = Cnt(Below, "call") + One(Top, "call")
        BY <4>2, PushCount
      <4>4. One(Top, "call") = 0
        BY <2>1 DEF One
      <4> QED BY <2>4, <4>1, <4>2, <4>3, <4>4
    <3>7. Run(f, g)
      BY <2>4 DEF Eval
    <3> HIDE DEF f, g
    <3>8. ctl \in Seq(FrameType) /\ ctl # <<>> /\ ReturnInCall
      BY <2>1, Facts DEF IInv
    <3>9. /\ ctl' \in Seq(FrameType) /\ ReturnInCall'
          /\ \A kd : Cnt(ctl', kd) = Cnt(ctl, kd) - One(Top, kd) + One(f, kd) + One(g, kd)
      BY <3>3, <3>4, <3>6, <3>7, <3>8, RunEffect
    <3>10. Moved
      <4>1. \A kd \in Kinds : /\ One(Top, kd) = 0 /\ One(f, kd) = 0 /\ One(g, kd) = 0
                              /\ Cnt(ctl, kd) \in Nat
        BY <2>1, <3>3, <3>5, <3>8, CountNat DEF One, Kinds
      <4> QED BY <3>9, <4>1 DEF Moved
    <3>11. Keep
      BY <2>1, <2>4 DEF Keep
    <3> QED BY <3>10, <3>11, KeepPreserves
  <2> QED BY <2>1, <2>2, <2>3, <2>4
<1>2. CASE ReturnGot
  <2>1. /\ Running /\ Here.op = "RETURN" /\ Top.pc = "value" /\ Kind(Top) = "none"
        /\ prog' = prog /\ val' = val /\ trace' = trace /\ Leave /\ StoreRetval(val)
    BY <1>2, KindNone DEF ReturnGot, At
  <2>2. Moved
    BY <2>1, LeaveMoves
  <2>3. ctl \in Seq(FrameType) /\ ctl # <<>> /\ Len(ctl) \in Nat \ {0}
    BY <2>1, Facts
  <2>4. ReturnWaits(ctl[Len(ctl)])
    BY <2>1 DEF ReturnWaits, Here, Top
  <2>5. \E j \in 1..(Len(ctl) - 1) : Kind(ctl[j]) = "call"
    BY <2>3, <2>4 DEF IInv, ReturnInCall, InCall
  <2>6. Cnt(ctl, "call") > 0
    BY <2>3, <2>5, KindActive
  <2>7. ~s.exit_flag => s.func_flag > 0
    BY <2>6, Counters
  <2> QED BY <2>1, <2>2, <2>7, Facts, ReturnPreserves
<1>3. CASE ThrowGot
  <2>1. /\ Running /\ Leave /\ Kind(Top) = "none" /\ s' = Thrown(s, val)
        /\ prog' = prog /\ val' = val /\ trace' = trace
    BY <1>3, KindNone DEF ThrowGot, At
  <2>2. Moved
    BY <2>1, LeaveMoves
  <2> QED BY <2>1, <2>2, Facts, ThrowPreserves
<1>4. CASE TryTooDeep
  <2> DEFINE t == [s EXCEPT !.try_flag = Incr(@)]
  <2>1. /\ Running /\ Leave /\ Kind(Top) = "none" /\ s' = Fatal(t)
        /\ prog' = prog /\ val' = val /\ trace' = trace
    BY <1>4, KindNone DEF TryTooDeep, StmtReady, At
  <2>2. t \in StateType /\ t.local_depth = s.local_depth
    BY <2>1, Facts, IncrDecr DEF StateType
  <2>3. Moved
    BY <2>1, LeaveMoves
  <2> HIDE DEF t
  <2> QED BY <2>1, <2>2, <2>3, Facts, FatalPreserves
<1>5. CASE TryStart
  <2>1. /\ Running /\ Here.op = "TRY" /\ Top.pc = "entry" /\ ~Diverting
        /\ Incr(s.try_flag) >= 1 /\ s' = [s EXCEPT !.try_flag = Incr(@)]
        /\ Eval(Part(Here, 1), "try") /\ prog' = prog /\ val' = val /\ trace' = trace
    BY <1>5 DEF TryStart, StmtReady, At, TryPart
  <2>2. Kind(Top) = "none" /\ "try" \in Places /\ Part(Here, 1) \in Node
    BY <2>1, KindNone, PartsOf DEF Places
  <2>3. Kind([Top EXCEPT !.pc = "try"]) = "try"
    <3>1. /\ [Top EXCEPT !.pc = "try"].pc = "try"
          /\ [Top EXCEPT !.pc = "try"].node = Here
      BY <2>1, <2>2, Facts, WaitFrame
    <3> QED BY <2>1, <3>1 DEF Kind, LoopOps
  <2>4. /\ ctl' \in Seq(FrameType) /\ ReturnInCall'
        /\ Cnt(ctl, "call") \in Nat /\ Cnt(ctl, "loop") \in Nat /\ Cnt(ctl, "try") \in Nat
        /\ Cnt(ctl', "try") = Cnt(ctl, "try") + 1
        /\ Cnt(ctl', "call") = Cnt(ctl, "call") /\ Cnt(ctl', "loop") = Cnt(ctl, "loop")
    BY <2>1, <2>2, <2>3, EvalCounted DEF Kinds
  <2>5. /\ s \in StateType /\ s.try_flag \in Int /\ s.local_depth \in Int
        /\ val' \in Value /\ trace' \in Seq(EventType)
    BY <2>1, Facts DEF StateType
  <2>6. Incr(s.try_flag) \in Int
    BY <2>5, IncrDecr
  <2>7. /\ s' \in StateType /\ s'.try_flag = Incr(s.try_flag)
        /\ s'.local_depth = s.local_depth /\ s'.exit_flag = s.exit_flag
        /\ s'.loop_flag = s.loop_flag /\ s'.func_flag = s.func_flag
        /\ s'.except_flag = s.except_flag /\ s'.return_flag = s.return_flag
    BY <2>1, <2>5, <2>6 DEF StateType
  <2>8. /\ ~s.exit_flag /\ ~s.except_flag /\ ~s.return_flag
        /\ s.loop_flag \in Nat /\ s.try_flag \in Nat /\ s.func_flag \in Nat
    BY <2>1, Counters DEF Diverting, Halting
  <2>9. s'.try_flag = s.try_flag + 1
    BY <2>1, <2>7, <2>8, IncrDecr
  <2>10. /\ s'.local_depth - s.local_depth = Cnt(ctl', "call") - Cnt(ctl, "call")
         /\ s'.loop_flag - s.loop_flag = Cnt(ctl', "loop") - Cnt(ctl, "loop")
         /\ s'.try_flag - s.try_flag = Cnt(ctl', "try") - Cnt(ctl, "try")
         /\ s'.func_flag - s.func_flag = Cnt(ctl', "call") - Cnt(ctl, "call")
    BY <2>4, <2>5, <2>7, <2>8, <2>9
  <2> QED BY <2>1, <2>4, <2>5, <2>7, <2>8, <2>10, StepPreserves
<1>6. CASE TryDone
  <2>1. /\ Running /\ Here.op = "TRY" /\ Top.pc = "try" /\ ~s.except_flag
        /\ s' = [s EXCEPT !.try_flag = Decr(@)] /\ Leave
        /\ prog' = prog /\ val' = val /\ trace' = trace
    BY <1>6 DEF TryDone, At
  <2>2. s \in StateType /\ s.try_flag \in Int /\ val' \in Value /\ trace' \in Seq(EventType)
    BY <2>1, Facts DEF StateType
  <2>3. Decr(s.try_flag) \in Int
    BY <2>2, IncrDecr
  <2>4. /\ s' \in StateType /\ s'.try_flag = Decr(s.try_flag)
        /\ s'.local_depth = s.local_depth /\ s'.exit_flag = s.exit_flag
        /\ s'.loop_flag = s.loop_flag /\ s'.func_flag = s.func_flag
        /\ s'.except_flag = s.except_flag /\ s'.return_flag = s.return_flag
    BY <2>1, <2>2, <2>3 DEF StateType
  <2>5. Kind(Top) = "try"
    BY <2>1 DEF Kind, Here, LoopOps
  <2>6. /\ ctl' \in Seq(FrameType) /\ ReturnInCall'
        /\ Cnt(ctl', "try") = Cnt(ctl, "try") - 1
        /\ Cnt(ctl, "call") \in Nat /\ Cnt(ctl, "loop") \in Nat /\ Cnt(ctl, "try") \in Nat
        /\ Cnt(ctl, "try") >= 1
        /\ Cnt(ctl', "call") = Cnt(ctl, "call") /\ Cnt(ctl', "loop") = Cnt(ctl, "loop")
    BY <2>1, <2>5, LeaveCounted DEF Kinds
  <2> QED BY <2>1, <2>2, <2>4, <2>6, TryEnds
<1>7. CASE Catch
  <2>1. /\ Running /\ Here.op = "TRY" /\ Top.pc = "try"
        /\ s' = [s EXCEPT !.try_flag = Decr(@), !.except_flag = FALSE, !.except_value = None]
        /\ Event("catch", Here.name, s.except_value)
        /\ BecomeEval(Part(Here, 2)) /\ prog' = prog /\ val' = val
    BY <1>7 DEF Catch, Taken, At, CatchPart
  <2>2. s \in StateType /\ s.try_flag \in Int /\ val' \in Value
    BY <2>1, Facts DEF StateType
  <2>3. trace' \in Seq(EventType)
    <3>1. s.except_value \in Value \cup {None} /\ trace \in Seq(EventType)
      BY <2>1, Facts DEF StateType
    <3>2. Here.name \in {n.name : n \in Node}
      BY <2>1, Facts
    <3>3. [ev |-> "catch", id |-> Here.name, v |-> s.except_value] \in EventType
      BY <3>1, <3>2 DEF EventType
    <3> QED BY <2>1, <3>1, <3>3 DEF Event
  <2>4. Decr(s.try_flag) \in Int
    BY <2>2, IncrDecr
  <2>5. /\ s' \in StateType /\ s'.try_flag = Decr(s.try_flag)
        /\ s'.local_depth = s.local_depth /\ s'.exit_flag = s.exit_flag
        /\ s'.loop_flag = s.loop_flag /\ s'.func_flag = s.func_flag
        /\ ~s'.except_flag /\ s'.return_flag = s.return_flag
    BY <2>1, <2>2, <2>4 DEF StateType
  <2>6. Kind(Top) = "try"
    BY <2>1 DEF Kind, Here, LoopOps
  <2> DEFINE g == Frame(Part(Here, 2), "entry", Top.cookie)
  <2>7. g \in FrameType /\ Kind(g) = "none" /\ ~ReturnWaits(g)
    <3>1. Part(Here, 2) \in Node /\ Top.cookie \in Nat
      BY <2>1, PartsOf, Facts
    <3> QED BY <3>1, CalleeFrame
  <2>8. Become(g)
    BY <2>1 DEF BecomeEval
  <2> HIDE DEF g
  <2>9. ctl \in Seq(FrameType) /\ ctl # <<>> /\ ReturnInCall
    BY <2>1, Facts DEF IInv
  <2>10. /\ ctl' \in Seq(FrameType) /\ ReturnInCall'
         /\ \A kd : Cnt(ctl', kd) = Cnt(ctl, kd) - One(Top, kd) + One(g, kd)
    BY <2>7, <2>8, <2>9, BecomeEffect
  <2>11. \A kd : Cnt(ctl, kd) \in Nat /\ Cnt(ctl', kd) \in Nat
    BY <2>9, <2>10, CountNat
  <2>12. /\ One(Top, "try") = 1 /\ One(Top, "call") = 0 /\ One(Top, "loop") = 0
         /\ One(g, "try") = 0 /\ One(g, "call") = 0 /\ One(g, "loop") = 0
    BY <2>6, <2>7 DEF One
  <2>13. /\ Cnt(ctl', "try") = Cnt(ctl, "try") - 1 /\ Cnt(ctl, "try") >= 1
         /\ Cnt(ctl, "call") \in Nat /\ Cnt(ctl, "loop") \in Nat /\ Cnt(ctl, "try") \in Nat
         /\ Cnt(ctl', "call") = Cnt(ctl, "call") /\ Cnt(ctl', "loop") = Cnt(ctl, "loop")
    BY <2>10, <2>11, <2>12
  <2> QED BY <2>1, <2>2, <2>3, <2>5, <2>10, <2>13, TryEnds
<1> QED BY <1>1, <1>2, <1>3, <1>4, <1>5, <1>6, <1>7 DEF JumpStep
-----------------------------------------------------------------------------
(* Who consumes a pending continue or break.                               *)

Expr(f) == f.node.op \in ExprOps

\* A while or for loop that waits for one of its expressions.
Expects(f) == f.node.op \in {"WHILE", "FOR"} /\ f.pc \in {"init", "test", "guard"}

\* What takes a pending continue and break back when control returns to it.
Consumes(f) == Kind(f) = "call" \/ (Kind(f) = "loop" /\ ~Expects(f))

\* Between a loop that waits for an expression and a statement a function runs.
Bodied(c) ==
  \A j \in 1..Len(c) : ~Expr(c[j]) =>
    \A k \in 1..(j - 1) : Expects(c[k]) => \E i \in (k + 1)..(j - 1) : Kind(c[i]) = "call"

Escapes    == ~s.exit_flag /\ (s.continue_flag \/ s.break_flag)
Consumed   == Escapes => \E k \in 1..Len(ctl) : Consumes(ctl[k])
EscapeInv  == Bodied(ctl) /\ Consumed

\* How a step changes the stack: what calls expressions only is an expression or
\* a loop that waits for one, or enters a function.
Becomes(f) == Become(f) /\ (Expr(Top) => Expr(f))
Enters(f, g) == /\ Run(f, g) /\ (Expr(f) <=> Expr(Top))
                /\ Expects(f) => Expr(g)
                /\ Expr(Top) => Expr(g) \/ Kind(f) = "call"
Goes == Leave \/ (\E f : Becomes(f)) \/ \E f, g : Enters(f, g)

\* What is put on a sequence of frames need not be known to be one.
LEMMA PushedOne ==
  ASSUME NEW F, NEW b \in Seq(F), NEW n \in Nat, Len(b) = n, NEW f
  PROVE  /\ Len(Append(b, f)) = n + 1 /\ Append(b, f)[n + 1] = f
         /\ \A k \in 1..n : Append(b, f)[k] = b[k]
<1> DEFINE G == F \cup {f}
<1>1. b \in Seq(G) /\ f \in G
  OBVIOUS
<1> HIDE DEF G
<1> QED BY <1>1

LEMMA PushedTwo ==
  ASSUME NEW F, NEW b \in Seq(F), NEW f, NEW g, NEW c, c = b \o <<f, g>>
  PROVE  /\ Len(c) = Len(b) + 2 /\ c[Len(b) + 1] = f /\ c[Len(b) + 2] = g
         /\ \A k \in 1..Len(b) : c[k] = b[k]
<1> DEFINE G == F \cup {f, g}
<1>1. b \in Seq(G) /\ f \in G /\ g \in G
  OBVIOUS
<1> HIDE DEF G
<1>2. <<f, g>> \in Seq(G) /\ Len(<<f, g>>) = 2 /\ <<f, g>>[1] = f /\ <<f, g>>[2] = g
  BY <1>1
<1> QED BY <1>1, <1>2

\* The frames below the top stay.
LEMMA BelowStays ==
  ASSUME IInv, Running, Goes, NEW n \in Nat, n = Len(ctl) - 1
  PROVE  /\ Len(ctl) = n + 1 /\ ctl[n + 1] = Top /\ Len(ctl') \in n..(n + 2)
         /\ \A k \in 1..n : ctl'[k] = ctl[k]
         /\ \/ Len(ctl') = n
            \/ Len(ctl') = n + 1 /\ (Expr(Top) => Expr(ctl'[n + 1]))
            \/ /\ Len(ctl') = n + 2 /\ (Expr(ctl'[n + 1]) <=> Expr(Top))
               /\ Expects(ctl'[n + 1]) => Expr(ctl'[n + 2])
               /\ Expr(Top) => Expr(ctl'[n + 2]) \/ Kind(ctl'[n + 1]) = "call"
<1>1. /\ Below \in Seq(FrameType) /\ Len(Below) = n /\ Len(ctl) = n + 1
      /\ \A k \in 1..n : Below[k] = ctl[k]
  BY Facts, TopBelow
<1>2. ctl[n + 1] = Top
  BY <1>1 DEF Top
<1>3. CASE Leave
  <2>1. ctl' = Below
    BY <1>3 DEF Leave
  <2> QED BY <1>1, <1>2, <2>1
<1>4. CASE \E f : Becomes(f)
  <2>1. PICK f : Becomes(f)
    BY <1>4
  <2>2. ctl' = Append(Below, f) /\ (Expr(Top) => Expr(f))
    BY <2>1 DEF Becomes, Become
  <2>3. Len(ctl') = n + 1 /\ ctl'[n + 1] = f /\ \A k \in 1..n : ctl'[k] = Below[k]
    BY <1>1, <2>2, PushedOne
  <2> QED BY <1>1, <1>2, <2>2, <2>3
<1>5. CASE \E f, g : Enters(f, g)
  <2>1. PICK f, g : Enters(f, g)
    BY <1>5
  <2>2. /\ ctl' = Below \o <<f, g>> /\ (Expr(f) <=> Expr(Top))
        /\ Expects(f) => Expr(g)
        /\ Expr(Top) => Expr(g) \/ Kind(f) = "call"
    BY <2>1 DEF Enters, Run
  <2>3. /\ Len(ctl') = n + 2 /\ ctl'[n + 1] = f /\ ctl'[n + 2] = g
        /\ \A k \in 1..n : ctl'[k] = Below[k]
    <3>1. Below \in Seq(FrameType) /\ ctl' = Below \o <<f, g>>
      BY <1>1, <2>2
    <3>2. /\ Len(ctl') = Len(Below) + 2 /\ ctl'[Len(Below) + 1] = f /\ ctl'[Len(Below) + 2] = g
          /\ \A k \in 1..Len(Below) : ctl'[k] = Below[k]
      BY <3>1, PushedTwo
    <3> QED BY <1>1, <3>2
  <2> QED BY <1>1, <1>2, <2>2, <2>3
<1> QED BY <1>3, <1>4, <1>5 DEF Goes

\* A statement on top of a loop has come there by its body or by a function.
LEMMA BodiedStays ==
  ASSUME IInv, Running, Goes, Bodied(ctl)
  PROVE  Bodied(ctl')
<1> DEFINE n == Len(ctl) - 1
           CalledBetween(c, k, j) == \E i \in (k + 1)..(j - 1) : Kind(c[i]) = "call"
<1>1. n \in Nat
  BY Facts DEF Running
<1>2. /\ Len(ctl) = n + 1 /\ ctl[n + 1] = Top /\ Len(ctl') \in n..(n + 2)
      /\ \A k \in 1..n : ctl'[k] = ctl[k]
      /\ \/ Len(ctl') = n
         \/ Len(ctl') = n + 1 /\ (Expr(Top) => Expr(ctl'[n + 1]))
         \/ /\ Len(ctl') = n + 2 /\ (Expr(ctl'[n + 1]) <=> Expr(Top))
            /\ Expects(ctl'[n + 1]) => Expr(ctl'[n + 2])
            /\ Expr(Top) => Expr(ctl'[n + 2]) \/ Kind(ctl'[n + 1]) = "call"
  BY <1>1, BelowStays
<1> HIDE DEF n
<1>3. \A j \in 1..(n + 1) : ~Expr(ctl[j]) => \A k \in 1..(j - 1) : Expects(ctl[k]) => CalledBetween(ctl, k, j)
  BY <1>2 DEF Bodied
<1>4. SUFFICES ASSUME NEW j \in 1..Len(ctl'), ~Expr(ctl'[j]), NEW k \in 1..(j - 1), Expects(ctl'[k])
               PROVE  CalledBetween(ctl', k, j)
  BY DEF Bodied
<1>5. CASE j <= n
  <2>1. j \in 1..(n + 1) /\ ctl'[j] = ctl[j] /\ ctl'[k] = ctl[k] /\ k \in 1..n
    BY <1>1, <1>2, <1>5
  <2>2. PICK i \in (k + 1)..(j - 1) : Kind(ctl[i]) = "call"
    BY <1>3, <1>4, <2>1
  <2>3. i \in 1..n
    BY <1>1, <1>5, <2>1
  <2> QED BY <1>2, <2>2, <2>3
<1>6. ASSUME ~Expr(Top), k \in 1..n PROVE CalledBetween(ctl', k, n + 1)
  <2>1. n + 1 \in 1..(n + 1) /\ ctl'[k] = ctl[k] /\ k \in 1..((n + 1) - 1)
    BY <1>1, <1>2, <1>6
  <2>2. PICK i \in (k + 1)..((n + 1) - 1) : Kind(ctl[i]) = "call"
    BY <1>2, <1>3, <1>4, <1>6, <2>1
  <2>3. i \in 1..n
    BY <1>1, <1>6
  <2> QED BY <1>2, <2>2, <2>3
<1>7. CASE j = n + 1
  <2>1. ~Expr(Top) /\ k \in 1..n
    BY <1>1, <1>2, <1>4, <1>7
  <2> QED BY <1>6, <1>7, <2>1
<1>8. CASE j = n + 2
  <2>1. Len(ctl') = n + 2
    BY <1>1, <1>2, <1>8
  <2>2. k # n + 1 /\ (Expr(Top) => Kind(ctl'[n + 1]) = "call")
    BY <1>1, <1>2, <1>4, <1>8, <2>1
  <2>3. k \in 1..n
    BY <1>1, <1>8, <2>2
  <2>4. CASE Expr(Top)
    <3>1. n + 1 \in (k + 1)..(j - 1)
      BY <1>1, <1>8, <2>3
    <3> QED BY <2>2, <2>4, <3>1
  <2>5. CASE ~Expr(Top)
    <3>1. PICK i \in (k + 1)..((n + 1) - 1) : Kind(ctl'[i]) = "call"
      BY <1>6, <2>3, <2>5
    <3>2. i \in (k + 1)..(j - 1)
      BY <1>1, <1>8
    <3> QED BY <3>1, <3>2
  <2> QED BY <2>4, <2>5
<1> QED BY <1>1, <1>2, <1>5, <1>7, <1>8

\* What a step that clears no flag must show: it sets none either, and what goes
\* away has not consumed any.
Quiet == /\ ~s'.exit_flag => ~s.exit_flag
         /\ s'.continue_flag => s.continue_flag
         /\ s'.break_flag => s.break_flag

LEMMA ConsumerStays ==
  ASSUME IInv, Running, Goes, Consumed, Quiet, ~Consumes(Top)
  PROVE  Consumed'
<1> DEFINE n == Len(ctl) - 1
<1>1. n \in Nat
  BY Facts DEF Running
<1>2. /\ Len(ctl) = n + 1 /\ ctl[n + 1] = Top /\ Len(ctl') \in n..(n + 2)
      /\ \A k \in 1..n : ctl'[k] = ctl[k]
  BY <1>1, BelowStays
<1> HIDE DEF n
<1> SUFFICES ASSUME Escapes' PROVE \E k \in 1..Len(ctl') : Consumes(ctl'[k])
  BY DEF Consumed
<1>3. Escapes
  BY DEF Escapes, Quiet
<1>4. PICK k \in 1..(n + 1) : Consumes(ctl[k])
  BY <1>2, <1>3 DEF Consumed
<1>5. k \in 1..n /\ k \in 1..Len(ctl') /\ ctl'[k] = ctl[k]
  BY <1>1, <1>2, <1>4
<1> QED BY <1>4, <1>5

\* The parts of a tree that are expressions.
LEMMA PartTypes ==
  ASSUME IInv, Running
  PROVE  /\ Expr(Top) => \A i \in 1..Len(Here.kids) : Part(Here, i).op \in ExprOps
         /\ Here.op \in {"AND", "OR", "WHILE", "DO"} => Part(Here, 1).op \in ExprOps
         /\ Here.op \in {"AND", "OR"} => Part(Here, 2).op \in ExprOps
         /\ Here.op = "COND" => /\ Part(Here, 1).op \in ExprOps /\ Part(Here, 2).op \in ExprOps
                                /\ Part(Here, 3).op \in ExprOps
         /\ Here.op = "FOR" => /\ Part(Here, 1).op \in ExprOps /\ Part(Here, 3).op \in ExprOps
                               /\ Part(Here, 4).op \in ExprOps
<1>1. WellFormed(Here) /\ Len(Here.kids) \in Nat
  BY Facts
<1>2. \A i \in 1..Len(Here.kids) : Part(Here, i).op \in ExprOps <=> i \in ExprParts(Here)
  BY <1>1 DEF WellFormed
<1>3. ASSUME Here.op \in ExprOps PROVE \A i \in 1..Len(Here.kids) : Part(Here, i).op \in ExprOps
  BY <1>2, <1>3 DEF ExprParts, ExprOps
<1>4. /\ Here.op \in {"AND", "OR", "WHILE", "DO"} => Len(Here.kids) = 2
      /\ Here.op = "COND" => Len(Here.kids) = 3
      /\ Here.op = "FOR" => Len(Here.kids) = 4
  BY <1>1 DEF WellFormed
<1>5. ASSUME Here.op \in {"WHILE", "DO"} PROVE Part(Here, 1).op \in ExprOps
  <2>1. ExprParts(Here) = {1} /\ Len(Here.kids) = 2
    BY <1>4, <1>5 DEF ExprParts, ExprOps
  <2> QED BY <1>2, <2>1
<1>6. ASSUME Here.op = "FOR"
      PROVE  Part(Here, 1).op \in ExprOps /\ Part(Here, 3).op \in ExprOps /\ Part(Here, 4).op \in ExprOps
  <2>1. ExprParts(Here) = {1, 3, 4} /\ Len(Here.kids) = 4
    BY <1>4, <1>6 DEF ExprParts, ExprOps
  <2> QED BY <1>2, <2>1
<1>7. ASSUME Here.op \in {"AND", "OR", "COND"}
      PROVE  /\ Part(Here, 1).op \in ExprOps /\ Part(Here, 2).op \in ExprOps
             /\ Here.op = "COND" => Part(Here, 3).op \in ExprOps
  <2>1. Here.op \in ExprOps
    BY <1>7 DEF ExprOps
  <2>2. 1 \in 1..Len(Here.kids) /\ 2 \in 1..Len(Here.kids)
    BY <1>4, <1>7
  <2>3. Here.op = "COND" => 3 \in 1..Len(Here.kids)
    BY <1>4
  <2> QED BY <1>3, <2>1, <2>2, <2>3
<1>8. Expr(Top) <=> Here.op \in ExprOps
  BY DEF Expr, Here
<1> QED BY <1>3, <1>5, <1>6, <1>7, <1>8

\* The running function waits for one of another frame,
LEMMA EvalGoes ==
  ASSUME IInv, Running, NEW n, NEW pc, Eval(n, pc),
         \/ n.op \in ExprOps
         \/ ~Expr(Top) /\ ~(Here.op \in {"WHILE", "FOR"} /\ pc \in {"init", "test", "guard"})
  PROVE  Goes
<1> DEFINE f == [Top EXCEPT !.pc = pc]
           g == Frame(n, "entry", Top.cookie)
<1>1. Top \in FrameType
  BY Facts, TopBelow
<1>2. f.node = Top.node /\ f.pc = pc /\ g.node = n
  BY <1>1 DEF FrameType, Frame
<1>3. Run(f, g)
  BY DEF Eval
<1> HIDE DEF f, g
<1>4. Enters(f, g)
  BY <1>2, <1>3 DEF Enters, Expr, Expects, Here
<1> QED BY <1>4 DEF Goes

\* goes on in another place of the same tree,
LEMMA RunGoes ==
  ASSUME IInv, Running, NEW f, NEW g, Run(f, g), f.node = Here,
         Expr(Top) => Expr(g) \/ Kind(f) = "call", ~Expects(f) \/ Expr(g)
  PROVE  Goes
<1>1. Enters(f, g)
  BY DEF Enters, Expr, Here
<1> QED BY <1>1 DEF Goes

\* or hands over to a part.
LEMMA BecomeEvalGoes ==
  ASSUME NEW n, BecomeEval(n), Expr(Top) => n.op \in ExprOps
  PROVE  Goes
<1> DEFINE f == Frame(n, "entry", Top.cookie)
<1>1. f.node = n /\ Become(f)
  BY DEF Frame, BecomeEval
<1> HIDE DEF f
<1>2. Becomes(f)
  BY <1>1 DEF Becomes, Expr
<1> QED BY <1>2 DEF Goes

\* Expressions call expressions, or a function.
LEMMA ExprGoes ==
  ASSUME IInv, ExprStep
  PROVE  Running /\ Goes
<1>1. CASE \/ SkipExpr \/ ReadInput \/ RaiseError \/ ExitScript \/ BoolDone
           \/ CallUndefined \/ CallSkipped \/ CallRefused \/ CallTooDeep \/ CallReturn
  <2>1. Running /\ Leave
    BY <1>1 DEF SkipExpr, ReadInput, RaiseError, ExitScript, BoolDone, CallUndefined, CallSkipped,
       CallRefused, CallTooDeep, CallReturn, ExprReady, At, CallReady, Calling
  <2> QED BY <2>1 DEF Goes
<1>2. CASE BoolLeft
  <2>1. Running /\ Here.op \in {"AND", "OR"} /\ Eval(Part(Here, 1), "left")
    BY <1>2 DEF BoolLeft, ExprReady, At
  <2> QED BY <2>1, PartTypes, EvalGoes
<1>3. CASE BoolRight
  <2>1. Running /\ Here.op \in {"AND", "OR"} /\ (Leave \/ Eval(Part(Here, 2), "right"))
    BY <1>3 DEF BoolRight, At
  <2>2. CASE Leave
    BY <2>1, <2>2 DEF Goes
  <2>3. CASE Eval(Part(Here, 2), "right")
    BY <2>1, <2>3, PartTypes, EvalGoes
  <2> QED BY <2>1, <2>2, <2>3
<1>4. CASE CondTest
  <2>1. Running /\ Here.op = "COND" /\ Eval(Part(Here, 1), "test")
    BY <1>4 DEF CondTest, ExprReady, At, Test
  <2> QED BY <2>1, PartTypes, EvalGoes
<1>5. CASE CondBranch
  <2>1. Running /\ Here.op = "COND" /\ (BecomeEval(Part(Here, 2)) \/ BecomeEval(Part(Here, 3)))
    BY <1>5 DEF CondBranch, At, TrueCase, FalseCase
  <2>2. Part(Here, 2).op \in ExprOps /\ Part(Here, 3).op \in ExprOps
    BY <2>1, PartTypes
  <2> QED BY <2>1, <2>2, BecomeEvalGoes
<1>6. CASE CallArgument
  <2> DEFINE f == [Top EXCEPT !.pc = "args", !.i = @ + 1]
             g == Frame(Part(Here, Top.i + 1), "entry", Top.cookie)
  <2>1. Running /\ Here.op = "CALL" /\ Top.i < Len(Here.kids) /\ Run(f, g)
    BY <1>6 DEF CallArgument, Calling
  <2>2. Top \in FrameType /\ Top.i \in Nat /\ Len(Here.kids) \in Nat
    BY <2>1, Facts, TopBelow
  <2>3. f.node = Here /\ g.node = Part(Here, Top.i + 1)
    BY <2>2 DEF FrameType, Frame, Here
  <2>4. Expr(Top) /\ Top.i + 1 \in 1..Len(Here.kids)
    BY <2>1, <2>2 DEF Expr, Here, ExprOps
  <2>5. Expr(g)
    BY <2>1, <2>3, <2>4, PartTypes DEF Expr
  <2> HIDE DEF f, g
  <2> QED BY <2>1, <2>3, <2>5, RunGoes
<1>7. CASE CallEnter
  <2> DEFINE cookie == s.global_cookie + 1
             f == [Top EXCEPT !.pc = "run", !.cookie = cookie]
             g == Frame(Called.body, "entry", cookie)
  <2>1. Running /\ Here.op = "CALL" /\ Run(f, g)
    BY <1>7 DEF CallEnter, CallReady, Calling
  <2>2. Top \in FrameType
    BY <2>1, Facts, TopBelow
  <2>3. f.node = Here /\ f.pc = "run"
    BY <2>2 DEF FrameType, Here
  <2> HIDE DEF f, g
  <2>4. Kind(f) = "call" /\ ~Expects(f)
    BY <2>1, <2>3 DEF Kind, LoopOps, Expects
  <2> QED BY <2>1, <2>3, <2>4, RunGoes
<1> QED BY <1>1, <1>2, <1>3, <1>4, <1>5, <1>6, <1>7 DEF ExprStep

\* Statements call statements from a body, and expressions.
LEMMA StmtGoes ==
  ASSUME IInv, StmtStep
  PROVE  Running /\ Goes
<1>1. CASE \/ SkipStmt \/ NopStmt \/ LoopTooDeep \/ ContinueStmt \/ BreakStmt
           \/ ReturnGot \/ ThrowGot \/ TryTooDeep \/ TryDone
  <2>1. Running /\ Leave
    BY <1>1 DEF SkipStmt, NopStmt, LoopTooDeep, ContinueStmt, BreakStmt, ReturnGot, ThrowGot,
       TryTooDeep, TryDone, StmtReady, At
  <2> QED BY <2>1 DEF Goes
<1>2. ASSUME Running, Here.op \in StmtOps PROVE ~Expr(Top) /\ Top \in FrameType
  BY <1>2, Facts, TopBelow DEF Expr, Here, StmtOps, ExprOps, LoopOps
<1>3. CASE BlockStmt
  <2> DEFINE f == [Top EXCEPT !.pc = "list"]
  <2>1. Running /\ Here.op = "BLOCK" /\ Become(f)
    BY <1>3 DEF BlockStmt, StmtReady, At
  <2>2. ~Expr(Top)
    BY <1>2, <2>1 DEF StmtOps
  <2> HIDE DEF f
  <2> QED BY <2>1, <2>2 DEF Goes, Becomes
<1>4. CASE ListEntry \/ ListNext
  <2>1. /\ Running /\ Here.op = "BLOCK"
        /\ Leave \/ \E i \in {1, Top.i + 1} :
                      Run([Top EXCEPT !.pc = "item", !.i = i], Frame(Part(Here, i), "entry", Top.cookie))
    BY <1>4 DEF ListEntry, ListNext, At
  <2>2. CASE Leave
    BY <2>1, <2>2 DEF Goes
  <2>3. CASE \E i \in {1, Top.i + 1} :
                      Run([Top EXCEPT !.pc = "item", !.i = i], Frame(Part(Here, i), "entry", Top.cookie))
    <3>1. PICK i \in {1, Top.i + 1} :
                 Run([Top EXCEPT !.pc = "item", !.i = i], Frame(Part(Here, i), "entry", Top.cookie))
      BY <2>3
    <3> DEFINE f == [Top EXCEPT !.pc = "item", !.i = i]
               g == Frame(Part(Here, i), "entry", Top.cookie)
    <3>2. ~Expr(Top) /\ Top \in FrameType
      BY <1>2, <2>1 DEF StmtOps
    <3>3. f.node = Here /\ Run(f, g)
      BY <3>1, <3>2 DEF FrameType, Here
    <3> HIDE DEF f, g
    <3>4. ~Expects(f)
      BY <2>1, <3>3 DEF Expects
    <3> QED BY <2>1, <3>2, <3>3, <3>4, RunGoes
  <2> QED BY <2>1, <2>2, <2>3
<1>5. CASE ExprStmt \/ IfBranch \/ Catch
  <2>1. Running /\ Here.op \in StmtOps /\ (Leave \/ \E k \in 1..3 : BecomeEval(Part(Here, k)))
    BY <1>5 DEF ExprStmt, IfBranch, Catch, StmtReady, At, TrueCase, FalseCase, CatchPart, StmtOps
  <2> QED BY <1>2, <2>1, BecomeEvalGoes DEF Goes
<1>6. CASE IfTest \/ ThrowStmt \/ SwitchStmt \/ TryStart \/ ReturnStmt
  <2>1. /\ Running /\ Here.op \in StmtOps /\ Here.op \notin LoopOps
        /\ Leave \/ \E pc \in {"test", "value", "try"} : Eval(Part(Here, 1), pc)
    BY <1>6 DEF IfTest, ThrowStmt, SwitchStmt, TryStart, ReturnStmt, StmtReady, At, Test, TryPart,
       StmtOps, LoopOps
  <2> QED BY <1>2, <2>1, EvalGoes DEF Goes, LoopOps
<1>7. CASE WhileStart \/ DoStart \/ ForStart
  <2>1. /\ Running
        /\ \/ Here.op = "WHILE" /\ Eval(Part(Here, 1), "test")
           \/ Here.op = "DO" /\ Eval(Part(Here, 2), "body")
           \/ Here.op = "FOR" /\ Eval(Part(Here, 3), "init")
    BY <1>7 DEF WhileStart, DoStart, ForStart, StartLoop, StmtReady, At, Test, TrueCase, ForInit
  <2>2. CASE Here.op = "WHILE" /\ Eval(Part(Here, 1), "test")
    BY <2>1, <2>2, PartTypes, EvalGoes
  <2>3. CASE Here.op = "DO" /\ Eval(Part(Here, 2), "body")
    BY <1>2, <2>1, <2>3, EvalGoes DEF StmtOps, LoopOps
  <2>4. CASE Here.op = "FOR" /\ Eval(Part(Here, 3), "init")
    BY <2>1, <2>4, PartTypes, EvalGoes
  <2> QED BY <2>1, <2>2, <2>3, <2>4
<1>8. CASE ForFirst \/ ForNext \/ LoopTest \/ LoopBody
  <2>1. /\ Running /\ Here.op \in {"WHILE", "FOR"}
        /\ \/ Leave
           \/ Eval(Part(Here, 1), "test")
           \/ Eval(Part(Here, 2), "body")
           \/ Here.op = "FOR" /\ Eval(Part(Here, 4), "guard")
    BY <1>8 DEF ForFirst, ForNext, LoopTest, LoopBody, At, Test, TrueCase, ForGuard
  <2>2. CASE Leave
    BY <2>1, <2>2 DEF Goes
  <2>3. CASE Eval(Part(Here, 1), "test")
    BY <2>1, <2>3, PartTypes, EvalGoes
  <2>4. CASE Eval(Part(Here, 2), "body")
    BY <1>2, <2>1, <2>4, EvalGoes DEF StmtOps, LoopOps
  <2>5. CASE Here.op = "FOR" /\ Eval(Part(Here, 4), "guard")
    BY <2>1, <2>5, PartTypes, EvalGoes
  <2> QED BY <2>1, <2>2, <2>3, <2>4, <2>5
<1>9. CASE DoBody \/ DoTest
  <2>1. /\ Running /\ Here.op = "DO"
        /\ Leave \/ Eval(Part(Here, 1), "test") \/ Eval(Part(Here, 2), "body")
    BY <1>9 DEF DoBody, DoTest, At, Test, TrueCase
  <2> QED BY <1>2, <2>1, EvalGoes DEF Goes, StmtOps, LoopOps
<1>10. CASE SwitchNext \/ SwitchMatch \/ SwitchThru \/ SwitchNoMatch
  <2>1. /\ Running /\ Here.op = "SWITCH"
        /\ Leave \/ (\E f : Become(f)) \/ \E f, g : Run(f, g) /\ f.node = Top.node
    <3>1. Running /\ Here.op = "SWITCH"
      BY <1>10 DEF SwitchNext, SwitchMatch, SwitchThru, SwitchNoMatch, SwitchSearch, At
    <3>2. Top \in FrameType
      BY <1>2, <3>1 DEF StmtOps
    <3>3. \A pc, i, v : /\ [Top EXCEPT !.pc = pc, !.i = i].node = Top.node
                        /\ [Top EXCEPT !.pc = pc, !.v = v, !.i = i].node = Top.node
      BY <3>2 DEF FrameType
    <3>4. CASE SwitchNext
      <4>1. PICK i \in CasesLeft : Run([Top EXCEPT !.pc = "guard", !.v = Wanted, !.i = i],
                                       Frame(Part(Label(Here, i), 1), "entry", Top.cookie))
        BY <3>4 DEF SwitchNext
      <4> DEFINE f == [Top EXCEPT !.pc = "guard", !.v = Wanted, !.i = i]
                 g == Frame(Part(Label(Here, i), 1), "entry", Top.cookie)
      <4>2. Run(f, g) /\ f.node = Top.node
        BY <3>3, <4>1
      <4> HIDE DEF f, g
      <4> QED BY <3>1, <4>2
    <3>5. CASE SwitchMatch \/ SwitchThru
      <4>1. Leave \/ \E i \in {Top.i, Top.i + 1} : RunGroup(Top, i)
        BY <3>5 DEF SwitchMatch, SwitchThru
      <4>2. CASE \E i \in {Top.i, Top.i + 1} : RunGroup(Top, i)
        <5>1. PICK i \in {Top.i, Top.i + 1} :
                     Run([Top EXCEPT !.pc = "group", !.i = i], Frame(Group(Label(Here, i)), "list", Top.cookie))
          BY <4>2 DEF RunGroup
        <5> QED BY <3>1, <3>3, <5>1
      <4> QED BY <3>1, <4>1, <4>2
    <3>6. CASE SwitchNoMatch
      <4>1. Leave \/ \E d \in Defaults(Here) : Become(Frame(Group(Label(Here, d)), "list", Top.cookie))
        BY <3>6 DEF SwitchNoMatch
      <4> QED BY <3>1, <4>1
    <3> QED BY <1>10, <3>4, <3>5, <3>6
  <2>2. ~Expr(Top)
    BY <1>2, <2>1 DEF StmtOps
  <2>3. CASE Leave
    BY <2>1, <2>3 DEF Goes
  <2>4. CASE \E f : Become(f)
    BY <2>1, <2>2, <2>4 DEF Goes, Becomes
  <2>5. CASE \E f, g : Run(f, g) /\ f.node = Top.node
    <3>1. PICK f, g : Run(f, g) /\ f.node = Here
      BY <2>5 DEF Here
    <3>2. ~Expects(f)
      BY <2>1, <3>1 DEF Expects
    <3> QED BY <2>1, <2>2, <3>1, <3>2, RunGoes
  <2> QED BY <2>1, <2>3, <2>4, <2>5
<1> QED BY <1>1, <1>3, <1>4, <1>5, <1>6, <1>7, <1>8, <1>9, <1>10 DEF StmtStep

\* A throw sets neither flag.
LEMMA ThrownFlags ==
  ASSUME NEW t \in StateType, NEW v \in Value
  PROVE  /\ ~Thrown(t, v).exit_flag => ~t.exit_flag
         /\ Thrown(t, v).continue_flag = t.continue_flag
         /\ Thrown(t, v).break_flag = t.break_flag
BY DEF Thrown, Fatal, StateType

\* No expression sets a flag, and the end of a function clears both.
LEMMA ExprConsumed ==
  ASSUME IInv, EscapeInv, ExprStep
  PROVE  Consumed'
<1>1. Running /\ Goes /\ Consumed
  BY ExprGoes DEF EscapeInv
<1>2. Top \in FrameType /\ s \in StateType
  BY <1>1, Facts, TopBelow
<1>3. CASE CallReturn
  <2>1. s' = EndCall(s)
    BY <1>3 DEF CallReturn
  <2>2. ~s'.continue_flag /\ ~s'.break_flag
    BY <1>2, <2>1 DEF EndCall, StateType
  <2> QED BY <2>2 DEF Consumed, Escapes
<1>4. CASE ~CallReturn
  <2>1. Here.op \in ExprOps /\ Top.pc # "run"
    BY <1>4 DEF ExprStep, SkipExpr, ReadInput, RaiseError, ExitScript, BoolLeft, BoolRight, BoolDone,
       CondTest, CondBranch, CallUndefined, CallArgument, CallSkipped, CallRefused, CallTooDeep,
       CallEnter, ExprReady, At, CallReady, Calling, ExprOps
  <2>2. ~Consumes(Top)
    BY <2>1 DEF Consumes, Kind, Here, ExprOps, LoopOps
  <2>3. Quiet
    <3>1. CASE s' = s
      BY <3>1 DEF Quiet
    <3>2. CASE RaiseError
      BY <1>2, <3>2, ThrownFlags, ErrorIsValue DEF RaiseError, Quiet
    <3>3. CASE \/ ExitScript \/ CallUndefined \/ CallRefused \/ CallTooDeep \/ CallEnter
      BY <1>2, <3>3 DEF ExitScript, CallUndefined, CallRefused, CallTooDeep, CallEnter, Fatal,
         StateType, Quiet
    <3>4. s' = s \/ RaiseError \/ ExitScript \/ CallUndefined \/ CallRefused \/ CallTooDeep \/ CallEnter
      BY <1>4 DEF ExprStep, SkipExpr, ReadInput, BoolLeft, BoolRight, BoolDone, CondTest, CondBranch,
         CallArgument, CallSkipped, Keep
    <3> QED BY <3>1, <3>2, <3>3, <3>4
  <2> QED BY <1>1, <2>2, <2>3, ConsumerStays
<1> QED BY <1>3, <1>4

\* A flag that is set for a loop is consumed by it, or by a function it has entered.
LEMMA EscapeConsumed ==
  ASSUME IInv, EscapeInv, ContinueStmt \/ BreakStmt
  PROVE  Consumed'
<1>1. /\ Running /\ Leave /\ Here.op \in {"CONTINUE", "BREAK"} /\ ~s.exit_flag
      /\ s.loop_flag # 0 \/ (s'.continue_flag = s.continue_flag /\ s'.break_flag = s.break_flag
                             /\ s'.exit_flag = s.exit_flag)
  <2>1. Running /\ Leave /\ Here.op \in {"CONTINUE", "BREAK"} /\ ~s.exit_flag
    BY DEF ContinueStmt, BreakStmt, StmtReady, At, Diverting, Halting
  <2>2. s \in StateType
    BY <2>1, Facts
  <2>3. ASSUME s.loop_flag = 0
        PROVE  s'.continue_flag = s.continue_flag /\ s'.break_flag = s.break_flag /\ s'.exit_flag = s.exit_flag
    BY <2>2, <2>3 DEF ContinueStmt, BreakStmt, LoopActive, StateType
  <2> QED BY <2>1, <2>3
<1>2. Goes /\ Consumed /\ Bodied(ctl)
  BY <1>1 DEF Goes, EscapeInv
<1>3. ~Consumes(Top) /\ Kind(Top) = "none" /\ ~Expr(Top)
  BY <1>1 DEF Consumes, Kind, Here, LoopOps, Expr, ExprOps
<1>4. CASE s.loop_flag = 0
  BY <1>1, <1>2, <1>3, <1>4, ConsumerStays DEF Quiet
<1>5. CASE s.loop_flag # 0
  <2> DEFINE n == Len(ctl) - 1
  <2>1. n \in Nat
    BY <1>1, Facts DEF Running
  <2>2. /\ Len(ctl) = n + 1 /\ ctl[n + 1] = Top /\ Len(ctl') \in n..(n + 2)
        /\ \A k \in 1..n : ctl'[k] = ctl[k]
    BY <1>1, <1>2, <2>1, BelowStays
  <2> HIDE DEF n
  <2>3. \E k \in 1..Len(ctl) : Kind(ctl[k]) = "loop"
    <3>1. Cnt(ctl, "loop") # 0
      BY <1>1, <1>5, Counters
    <3>2. Active(ctl, "loop") # {}
      BY <3>1, FS_EmptySet DEF Cnt
    <3> QED BY <3>2 DEF Active
  <2>4. PICK k \in 1..(n + 1) : Kind(ctl[k]) = "loop"
    BY <2>2, <2>3
  <2>5. k \in 1..n
    BY <1>3, <2>1, <2>2, <2>4
  <2>6. \E i \in 1..n : Consumes(ctl[i])
    <3>1. CASE ~Expects(ctl[k])
      BY <2>4, <2>5, <3>1 DEF Consumes
    <3>2. CASE Expects(ctl[k])
      <4>1. /\ n + 1 \in 1..Len(ctl) /\ ~Expr(ctl[n + 1]) /\ k \in 1..((n + 1) - 1)
        BY <1>3, <2>1, <2>2, <2>5
      <4>2. PICK i \in (k + 1)..((n + 1) - 1) : Kind(ctl[i]) = "call"
        BY <1>2, <3>2, <4>1 DEF Bodied
      <4>3. i \in 1..n
        BY <2>1, <2>5
      <4> QED BY <4>2, <4>3 DEF Consumes
    <3> QED BY <3>1, <3>2
  <2>7. PICK i \in 1..n : Consumes(ctl[i])
    BY <2>6
  <2>8. i \in 1..Len(ctl') /\ ctl'[i] = ctl[i]
    BY <2>1, <2>2
  <2> QED BY <2>7, <2>8 DEF Consumed
<1> QED BY <1>4, <1>5

\* A return statement ends a function that is running.
LEMMA ReturnConsumed ==
  ASSUME IInv, EscapeInv, ReturnStmt \/ ReturnGot
  PROVE  Consumed'
<1>1. Running /\ Here.op = "RETURN" /\ Top.pc \in {"entry", "value"}
  BY DEF ReturnStmt, ReturnGot, StmtReady, At
<1>2. Goes /\ Consumed
  BY StmtGoes DEF StmtStep, EscapeInv
<1>3. ~Consumes(Top) /\ Kind(Top) = "none"
  BY <1>1 DEF Consumes, Kind, Here, LoopOps
<1> DEFINE n == Len(ctl) - 1
<1>4. n \in Nat
  BY <1>1, Facts DEF Running
<1>5. /\ Len(ctl) = n + 1 /\ ctl[n + 1] = Top /\ Len(ctl') \in n..(n + 2)
      /\ \A k \in 1..n : ctl'[k] = ctl[k]
  BY <1>1, <1>2, <1>4, BelowStays
<1> HIDE DEF n
<1>6. CASE s' = s
  BY <1>1, <1>2, <1>3, <1>6, ConsumerStays DEF Quiet
<1>7. CASE s' # s
  <2>1. \E k \in 1..n : Kind(ctl[k]) = "call"
    <3>1. CASE ReturnStmt
      <4>1. s.func_flag # 0 /\ ~s.exit_flag
        BY <1>7, <3>1 DEF ReturnStmt, StmtReady, Diverting, Halting
      <4>2. Cnt(ctl, "call") > 0 /\ ctl \in Seq(FrameType)
        BY <1>1, <4>1, Counters, Facts
      <4>3. PICK k \in 1..Len(ctl) : Kind(ctl[k]) = "call"
        BY <4>2, SomeCall
      <4>4. k \in 1..n
        BY <1>3, <1>4, <1>5, <4>3
      <4> QED BY <4>3, <4>4
    <3>2. CASE ReturnGot
      <4>1. ReturnWaits(ctl[n + 1])
        BY <1>5, <3>2 DEF ReturnGot, At, ReturnWaits, Here
      <4>2. n + 1 \in 1..Len(ctl) /\ (n + 1) - 1 = n
        BY <1>4, <1>5
      <4>3. \E k \in 1..((n + 1) - 1) : Kind(ctl[k]) = "call"
        BY <4>1, <4>2 DEF IInv, ReturnInCall, InCall
      <4> QED BY <4>2, <4>3
    <3> QED BY <3>1, <3>2
  <2>2. PICK k \in 1..n : Kind(ctl[k]) = "call"
    BY <2>1
  <2>3. k \in 1..Len(ctl') /\ Consumes(ctl'[k])
    BY <1>4, <1>5, <2>2 DEF Consumes
  <2> QED BY <2>3 DEF Consumed
<1> QED BY <1>6, <1>7

\* A loop clears the flags when its body has ended. Only do goes on to its test
\* with them, and consumes them there.
LEMMA LoopConsumed ==
  ASSUME IInv, EscapeInv, LoopBody \/ DoBody \/ DoTest
  PROVE  Consumed'
<1>1. Running /\ s \in StateType
  BY Facts DEF LoopBody, DoBody, DoTest, At
<1>2. CASE ~s'.continue_flag /\ ~s'.break_flag
  BY <1>2 DEF Consumed, Escapes
<1>3. CASE LoopBody \/ DoTest
  <2>1. ~s'.continue_flag /\ ~s'.break_flag
    <3>1. CASE LoopBody
      BY <1>1, <3>1 DEF LoopBody, EndLoop, StateType
    <3>2. CASE DoTest
      BY <1>1, <3>2 DEF DoTest, EndLoop, StateType
    <3> QED BY <1>3, <3>1, <3>2
  <2> QED BY <1>2, <2>1
<1>4. CASE DoBody
  <2>1. CASE s.break_flag
    <3>1. ~s'.continue_flag /\ ~s'.break_flag
      BY <1>1, <1>4, <2>1 DEF DoBody, EndLoop, StateType
    <3> QED BY <1>2, <3>1
  <2>2. CASE ~s.break_flag
    <3> DEFINE f == [Top EXCEPT !.pc = "test"]
               g == Frame(Test(Here), "entry", Top.cookie)
    <3>1. Here.op = "DO" /\ Run(f, g) /\ Top \in FrameType
      BY <1>1, <1>4, <2>2, Facts, TopBelow DEF DoBody, At, Eval
    <3>2. f.node = Here /\ f.pc = "test"
      BY <3>1 DEF FrameType, Here
    <3> HIDE DEF f, g
    <3>3. Consumes(f)
      BY <3>1, <3>2 DEF Consumes, Expects, Kind, LoopOps
    <3>4. Below \in Seq(FrameType) /\ Len(Below) \in Nat
      BY <1>1, Facts, TopBelow
    <3>5. Len(ctl') = Len(Below) + 2 /\ ctl'[Len(Below) + 1] = f
      BY <3>1, <3>4, PushedTwo DEF Run
    <3>6. Len(Below) + 1 \in 1..Len(ctl')
      BY <3>4, <3>5
    <3> QED BY <3>3, <3>5, <3>6 DEF Consumed
  <2> QED BY <2>1, <2>2
<1> QED BY <1>3, <1>4

\* No other statement touches the flags.
LEMMA StmtConsumed ==
  ASSUME IInv, EscapeInv, StmtStep
  PROVE  Consumed'
<1>1. Running /\ Goes /\ Consumed
  BY StmtGoes DEF EscapeInv
<1>2. Top \in FrameType /\ s \in StateType
  BY <1>1, Facts, TopBelow
<1>3. CASE LoopBody \/ DoBody \/ DoTest
  BY <1>3, LoopConsumed
<1>4. CASE ContinueStmt \/ BreakStmt
  BY <1>4, EscapeConsumed
<1>5. CASE ReturnStmt \/ ReturnGot
  BY <1>5, ReturnConsumed
<1>6. CASE ~(LoopBody \/ DoBody \/ DoTest \/ ContinueStmt \/ BreakStmt \/ ReturnStmt \/ ReturnGot)
  <2>1. ~Consumes(Top)
    <3>1. CASE LoopTest \/ ForFirst \/ ForNext
      BY <3>1 DEF LoopTest, ForFirst, ForNext, At, Consumes, Expects, Kind, Here, LoopOps
    <3>2. CASE ~(LoopTest \/ ForFirst \/ ForNext)
      <4>1. \/ Top.pc \in {"entry", "list", "item"}
            \/ Here.op \in {"IF", "IF_ELSE", "THROW", "TRY", "SWITCH"}
        BY <1>6, <3>2 DEF StmtStep, SkipStmt, NopStmt, BlockStmt, ListEntry, ListNext, ExprStmt,
           IfTest, IfBranch, LoopTooDeep, WhileStart, DoStart, ForStart, StartLoop, ThrowStmt,
           ThrowGot, TryTooDeep, TryStart, TryDone, Catch, SwitchStmt, SwitchNext, SwitchMatch,
           SwitchNoMatch, SwitchThru, SwitchSearch, StmtReady, At
      <4> QED BY <4>1 DEF Consumes, Kind, Here, LoopOps
    <3> QED BY <3>1, <3>2
  <2>2. Quiet
    <3>1. CASE s' = s
      BY <3>1 DEF Quiet
    <3>2. CASE ThrowGot
      <4>1. s' = Thrown(s, val) /\ val \in Value
        BY <1>1, <3>2, Facts DEF ThrowGot
      <4> QED BY <1>2, <4>1, ThrownFlags DEF Quiet
    <3>3. CASE \/ LoopTooDeep \/ WhileStart \/ DoStart \/ ForStart \/ TryTooDeep \/ TryStart
               \/ TryDone \/ Catch \/ LoopTest
      BY <1>2, <3>3 DEF LoopTooDeep, WhileStart, DoStart, ForStart, StartLoop, TryTooDeep, TryStart,
         TryDone, Catch, Taken, LoopTest, EndLoop, Fatal, StateType, Quiet
    <3>4. \/ s' = s \/ ThrowGot \/ LoopTooDeep \/ WhileStart \/ DoStart \/ ForStart \/ TryTooDeep
          \/ TryStart \/ TryDone \/ Catch \/ LoopTest
      BY <1>6 DEF StmtStep, SkipStmt, NopStmt, BlockStmt, ListEntry, ListNext, ExprStmt,
           IfTest, IfBranch, ForFirst, ForNext, ThrowStmt, SwitchStmt, SwitchNext, SwitchMatch,
           SwitchNoMatch, SwitchThru, Keep
    <3> QED BY <3>1, <3>2, <3>3, <3>4
  <2> QED BY <1>1, <2>1, <2>2, ConsumerStays
<1> QED BY <1>3, <1>4, <1>5, <1>6
-----------------------------------------------------------------------------
\* The invariant holds when a script starts,
LEMMA InitIInv ==
  ASSUME Init
  PROVE  IInv
<1> DEFINE f == Frame(prog.main, "list", 0)
<1>1. prog \in Programs /\ ctl = <<f>> /\ val = Void /\ s = NewState /\ trace = <<>>
  BY DEF Init
<1>2. prog.main \in Node
  BY <1>1, ProgramAssumption
<1>3. f \in FrameType /\ Kind(f) = "none" /\ ~ReturnWaits(f)
  BY <1>2, CalleeFrame
<1> HIDE DEF f
<1>4. ctl \in Seq(FrameType) /\ Len(ctl) = 1 /\ ctl[1] = f
  BY <1>1, <1>3
<1>5. TypeOK
  <2>1. s \in StateType
    BY <1>1 DEF NewState, StateType
  <2>2. val \in Value /\ trace \in Seq(EventType)
    BY <1>1, ErrorIsValue
  <2> QED BY <1>1, <1>4, <2>1, <2>2 DEF TypeOK
<1>6. ASSUME NEW kd \in Kinds PROVE Cnt(ctl, kd) = 0
  <2>1. Active(ctl, kd) = {}
    BY <1>3, <1>4 DEF Active, Kinds
  <2> QED BY <2>1, FS_EmptySet DEF Cnt
<1>7. CountersMatch
  BY <1>1, <1>6 DEF CountersMatch, Count, Cnt, Kinds, NewState
<1>8. JumpsOwned
  BY <1>1 DEF JumpsOwned, NewState
<1>9. ReturnInCall
  BY <1>3, <1>4 DEF ReturnInCall, InCall
<1> QED BY <1>5, <1>7, <1>8, <1>9 DEF IInv

\* and every step keeps it.
LEMMA NextIInv ==
  ASSUME IInv, [Next]_vars
  PROVE  IInv'
<1>1. CASE ExprStep
  BY <1>1, ExprPreserves
<1>2. CASE StmtStep
  <2>1. PlainStep \/ LoopStep \/ JumpStep
    BY <1>2 DEF StmtStep, PlainStep, LoopStep, JumpStep
  <2> QED BY <2>1, PlainPreserves, LoopPreserves, JumpPreserves
<1>3. CASE UNCHANGED vars
  BY <1>3 DEF vars, IInv, TypeOK, CountersMatch, Count, Active, JumpsOwned,
              ReturnInCall, InCall
<1> QED BY <1>1, <1>2, <1>3 DEF Next, Stopped

\* What consumes a flag is on the stack as long as the flag is set.
LEMMA InitEscapeInv ==
  ASSUME Init
  PROVE  EscapeInv
<1>1. s = NewState /\ Len(ctl) = 1
  BY DEF Init
<1>2. Bodied(ctl)
  BY <1>1 DEF Bodied
<1> QED BY <1>1, <1>2 DEF EscapeInv, Consumed, Escapes, NewState

LEMMA NextEscapeInv ==
  ASSUME IInv, EscapeInv, [Next]_vars
  PROVE  EscapeInv'
<1>1. CASE ExprStep
  BY <1>1, ExprGoes, BodiedStays, ExprConsumed DEF EscapeInv
<1>2. CASE StmtStep
  BY <1>2, StmtGoes, BodiedStays, StmtConsumed DEF EscapeInv
<1>3. CASE UNCHANGED vars
  BY <1>3 DEF vars, EscapeInv, Bodied, Consumed, Escapes
<1> QED BY <1>1, <1>2, <1>3 DEF Next, Stopped

\* The two inductive invariants.
THEOREM Invariance == Spec => [](IInv /\ EscapeInv)
<1>1. Init => IInv /\ EscapeInv
  BY InitIInv, InitEscapeInv
<1>2. IInv /\ EscapeInv /\ [Next]_vars => (IInv /\ EscapeInv)'
  BY NextIInv, NextEscapeInv
<1> QED BY <1>1, <1>2, PTL DEF Spec

\* An active loop or function is counted.
LEMMA EscapesOwned ==
  ASSUME IInv, EscapeInv, Escapes
  PROVE  s.loop_flag > 0 \/ s.func_flag > 0
<1>1. PICK k \in 1..Len(ctl) : Consumes(ctl[k])
  BY DEF EscapeInv, Consumed
<1>2. ctl \in Seq(FrameType) /\ ~s.exit_flag
  BY DEF IInv, TypeOK, Escapes
<1>3. Kind(ctl[k]) = "call" \/ Kind(ctl[k]) = "loop"
  BY <1>1 DEF Consumes
<1>4. \A kd \in Kinds : Kind(ctl[k]) = kd => Cnt(ctl, kd) > 0
  BY <1>2, KindActive
<1>5. Cnt(ctl, "call") > 0 \/ Cnt(ctl, "loop") > 0
  BY <1>3, <1>4 DEF Kinds
<1> QED BY <1>2, <1>5, Counters

\* Every variable keeps its type, for every set of programs and every bound.
THEOREM TypeCorrect == Spec => []TypeOK
<1>1. IInv => TypeOK
  BY DEF IInv
<1> QED BY <1>1, Invariance, PTL

\* loop_flag, try_flag, func_flag and the stack of local symbol tables agree
\* with the C call stack, however loops, tries and functions are left.
THEOREM CountersAlwaysMatch == Spec => []CountersMatch
<1>1. IInv => CountersMatch
  BY DEF IInv
<1> QED BY <1>1, Invariance, PTL

\* A pending exception has a try to catch it, a pending return a function that
\* ends with it, a pending continue or break a loop or function to consume it.
THEOREM PendingAlwaysOwned == Spec => []PendingOwned
<1>1. IInv /\ EscapeInv => PendingOwned
  BY EscapesOwned DEF IInv, JumpsOwned, PendingOwned, Escapes
<1> QED BY <1>1, Invariance, PTL

\* The context a finished script leaves is clean: with nothing on the C stack
\* nothing is counted, so nothing can be pending.
THEOREM HaltAlwaysClean == Spec => []HaltClean
<1>1. IInv /\ EscapeInv => HaltClean
  <2> SUFFICES ASSUME IInv, EscapeInv, Halted PROVE HaltClean
    BY DEF HaltClean
  <2>1. \A kd : Active(ctl, kd) = {}
    BY DEF Halted, Active
  <2>2. \A kd : Count(kd) = 0
    BY <2>1, FS_EmptySet DEF Count
  <2>3. /\ s.local_depth = 0
        /\ ~s.exit_flag => s.loop_flag = 0 /\ s.try_flag = 0 /\ s.func_flag = 0
    BY <2>2 DEF IInv, CountersMatch
  <2>4. ~s.exit_flag => /\ s.except_flag => s.try_flag > 0
                        /\ s.return_flag => s.func_flag > 0
    BY DEF IInv, JumpsOwned
  <2>5. ~s.exit_flag => ~s.continue_flag /\ ~s.break_flag
    BY <2>3, EscapesOwned DEF Escapes
  <2> QED BY <2>3, <2>4, <2>5 DEF HaltClean
<1> QED BY <1>1, Invariance, PTL

\* No chain of calls stacks more local tables than the counters can count:
\* run_func refuses the call that would.
THEOREM DepthAlwaysBounded == Spec => []DepthBounded
<1> DEFINE Shallow == s.local_depth <= MaxNest
<1>1. Init => Shallow
  BY BoundAssumption DEF Init, NewState
<1>2. IInv /\ Shallow /\ [Next]_vars => Shallow'
  <2> SUFFICES ASSUME IInv, Shallow, [Next]_vars PROVE Shallow'
    OBVIOUS
  <2>1. s \in StateType /\ s.local_depth \in Int
    BY DEF IInv, TypeOK, StateType
  <2>2. CASE s' = s
    BY <2>2
  <2>3. CASE CallEnter
    <3>1. /\ ~s.exit_flag /\ Incr(s.func_flag) >= 1
          /\ s'.local_depth = s.local_depth + 1
      BY <2>1, <2>3 DEF CallEnter, CallReady, Halting, StateType
    <3>2. s.func_flag = s.local_depth
      BY <3>1 DEF IInv, CountersMatch
    <3>3. s.func_flag # MaxNest
      BY <3>1, BoundAssumption DEF Incr
    <3>4. MaxNest \in Int
      BY BoundAssumption
    <3> QED BY <2>1, <3>1, <3>2, <3>3, <3>4
  <2>4. CASE CallReturn
    <3>1. s'.local_depth = s.local_depth - 1
      BY <2>1, <2>4 DEF CallReturn, EndCall, StateType
    <3> QED BY <2>1, <3>1, BoundAssumption
  <2>5. CASE RaiseError \/ ThrowGot
    <3>1. s'.local_depth = s.local_depth
      BY <2>1, <2>5, ThrownEffect, ErrorIsValue DEF RaiseError, ThrowGot, IInv, TypeOK
    <3> QED BY <3>1
  <2>6. CASE ~(s' = s \/ CallEnter \/ CallReturn \/ RaiseError \/ ThrowGot)
    <3>1. CASE \/ ExitScript \/ CallUndefined \/ CallRefused \/ CallTooDeep
               \/ LoopTooDeep \/ TryTooDeep
      BY <2>1, <3>1 DEF ExitScript, CallUndefined, CallRefused, CallTooDeep,
         LoopTooDeep, TryTooDeep, Fatal, StateType
    <3>2. CASE \/ WhileStart \/ DoStart \/ ForStart \/ LoopTest \/ LoopBody \/ DoBody
               \/ DoTest \/ ContinueStmt \/ BreakStmt
      BY <2>1, <3>2 DEF WhileStart, DoStart, ForStart, StartLoop, LoopTest, LoopBody,
         DoBody, DoTest, ContinueStmt, BreakStmt, EndLoop, StateType
    <3>3. CASE \/ ReturnStmt \/ ReturnGot \/ TryStart \/ TryDone \/ Catch
      BY <2>1, <3>3 DEF ReturnStmt, ReturnGot, StoreRetval, TryStart, TryDone, Catch, Taken,
         StateType
    <3>4. CASE \/ SkipExpr \/ ReadInput \/ BoolLeft \/ BoolRight \/ BoolDone \/ CondTest
               \/ CondBranch \/ CallArgument \/ CallSkipped \/ PlainStep
      BY <2>6, <3>4 DEF Keep, SkipExpr, ReadInput, BoolLeft, BoolRight, BoolDone,
         CondTest, CondBranch, CallArgument, CallSkipped, PlainStep, SkipStmt, NopStmt,
         BlockStmt, ListEntry, ListNext, ExprStmt, IfTest, IfBranch, ForFirst, ForNext,
         ThrowStmt, SwitchStmt, SwitchNext, SwitchMatch, SwitchNoMatch, SwitchThru
    <3> QED BY <2>6, <3>1, <3>2, <3>3, <3>4 DEF Next, ExprStep, StmtStep, PlainStep,
               Stopped, vars
  <2> QED BY <2>2, <2>3, <2>4, <2>5, <2>6
<1>3. IInv /\ Shallow => DepthBounded
  <2> SUFFICES ASSUME IInv, Shallow PROVE DepthBounded
    OBVIOUS
  <2>1. s.local_depth = Cnt(ctl, "call") /\ Cnt(ctl, "call") \in Nat
    BY CountNat DEF IInv, TypeOK, CountersMatch, Count, Cnt
  <2> QED BY <2>1, BoundAssumption DEF DepthBounded
<1> QED BY <1>1, <1>2, <1>3, Invariance, PTL DEF Spec
=============================================================================
