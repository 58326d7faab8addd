------------------------------ MODULE MemBlock ------------------------------
(***************************************************************************)
(* The memory blocks of the mem module (modules/mem/intend_mem.c): raw     *)
(* memory behind a resource, read and written at offsets, grown on demand, *)
(* and reached through pointers that are stored in it.                     *)
(*                                                                         *)
(* A byte is 0, Undefined, one of Bytes, or one of the bytes of a pointer  *)
(* to a block.  A value that is put is as many equal bytes as its type is  *)
(* wide.  The value a get returns to the script is left out, but not what  *)
(* it reads.  Offsets are not negative.                                    *)
(***************************************************************************)
EXTENDS Resources, Sequences

CONSTANTS Block,        \* what malloc can hand out, as numbers
          Width,        \* the bytes of each type, a function
          Bytes, Offsets, Sizes

ASSUME MemAssumption ==
  /\ Block \subseteq Nat \ {0} /\ Offsets \subseteq Nat /\ Sizes \subseteq Nat
  /\ Bytes \subseteq Int
  /\ Width \in [DOMAIN Width -> Nat]
  /\ {"int", "pointer"} \subseteq DOMAIN Width /\ ("float" \in DOMAIN Width => "double" \in DOMAIN Width)

VARIABLES mem,          \* the memblock of each resource, Null when there is none
          heap,         \* the memory itself
          fault,        \* the first thing the C program did that it may not, if any
          dangling      \* the ways in which pointers were left to what is not there

memVars == <<mem, heap, fault, dangling>>

Null      == [data |-> 0, size |-> 0, rw |-> FALSE, is |-> FALSE]
NULL      == 0
Undefined == -1
Pointer(b) == IF b = NULL THEN 0 ELSE 100 + b
Unused    == [state |-> "unused", bytes |-> <<>>]
Live(q)   == [state |-> "live", bytes |-> q]
Gone      == [state |-> "freed", bytes |-> <<>>]

\* mem_init.
mem_init(size, data) == [data |-> data, size |-> size, rw |-> TRUE, is |-> TRUE]

\* The state of the module, as the functions below change it.
Now == [mem |-> mem, heap |-> heap, fault |-> fault, dangling |-> dangling]
Becomes(s) == mem' = s.mem /\ heap' = s.heap /\ fault' = s.fault /\ dangling' = s.dangling

Fails(s, what) == [s EXCEPT !.fault = IF @ = "none" THEN what ELSE @]
Dangles(s, how, test) == IF test THEN [s EXCEPT !.dangling = @ \cup {how}] ELSE s

Fill(n, byte)  == [i \in 1..n |-> byte]
Resized(q, n)  == [i \in 1..n |-> IF i <= Len(q) THEN q[i] ELSE Undefined]
Written(q, off, w) == [i \in DOMAIN q |-> IF i \in (off + 1)..(off + Len(w)) THEN w[i - off] ELSE q[i]]
Read(q, off, n)    == SubSeq(q, off + 1, off + n)

\* Several resources point to the block, or a pointer to it is stored.
Sharing(s, b) == {r \in Rid : s.mem[r].is /\ s.mem[r].data = b}
Stored(s, b)  == \E a \in Block : \E i \in DOMAIN s.heap[a].bytes : s.heap[a].bytes[i] = Pointer(b)
Shared(s, b)  == (\E q, r \in Sharing(s, b) : q # r) \/ Stored(s, b)

\* The bytes are there, or the access is a fault.
Within(s, b, off, n) == b # NULL /\ off + n <= Len(s.heap[b].bytes)
Reach(s, r, off, n, what) ==
  LET b == s.mem[r].data
  IN IF n = 0 THEN s
     ELSE IF b # NULL /\ s.heap[b].state # "live" THEN Fails(s, "afterFree")
     ELSE IF Within(s, b, off, n) THEN s
     ELSE Fails(s, what)
-----------------------------------------------------------------------------
\* malloc, free and realloc of the C library.  A block moves only where
\* somebody could notice.
NewBlocks(s) == {b \in Block : s.heap[b].state = "unused" /\ \A a \in Block : s.heap[a].state = "unused" => b <= a}

Release(s, b) ==
  IF b = NULL THEN s
  ELSE IF s.heap[b].state # "live" THEN Fails(s, "freedTwice")
  ELSE Dangles([s EXCEPT !.heap[b] = Gone], "freed", Shared(s, b))

Placed(s, r, c, q) == [s EXCEPT !.heap[c] = Live(q), !.mem[r].data = c, !.mem[r].size = Len(q)]
Grown(s, r, n) ==
  LET b == s.mem[r].data
      q == IF b = NULL THEN <<>> ELSE s.heap[b].bytes
      t == Dangles(s, "resized", Shared(s, b))
  IN IF b = NULL THEN {Placed(s, r, c, Resized(q, n)) : c \in NewBlocks(s)}
     ELSE IF s.heap[b].state # "live" THEN {Fails(s, "afterFree")}
     ELSE {Placed(t, r, b, Resized(q, n))}
          \cup {Placed([t EXCEPT !.heap[b] = Gone], r, c, Resized(q, n))
                  : c \in IF Shared(s, b) THEN NewBlocks(s) ELSE {}}
-----------------------------------------------------------------------------
is_mem(c) == held[c] # Plain /\ release[held[c]] \in {"mem", "half"}
Valid(c)  == is_mem(c) /\ mem[held[c]].is

\* A call of a function of the module with its arguments evaluated.
Called(args) == /\ phase = "arguments"
                /\ \A a \in Argument : held[a] # Plain <=> a \in args
                /\ phase' = "returned"
Changes(args, states) == /\ Called(args) /\ UNCHANGED <<held, count, release>>
                         /\ \E s \in states : Becomes(s)
Makes(rel, data, size, rw, s) ==
  /\ MakeResource(rel)
  /\ Becomes([s EXCEPT !.mem = [r \in Rid |-> IF r = held'[Result] THEN [mem_init(size, data) EXCEPT !.rw = rw]
                                              ELSE mem[r]]])
ReturnsVoid == UNCHANGED <<held, count, release, mem, heap, fault, dangling>>

Allocate(bytes) ==
  /\ Called({})
  /\ \/ \E b \in NewBlocks(Now) : Makes("mem", b, Len(bytes), TRUE, [Now EXCEPT !.heap[b] = Live(bytes)])
     \/ NewBlocks(Now) = {} /\ ReturnsVoid

mem_malloc  == \E n \in Sizes : Allocate(Fill(n, Undefined))
mem_calloc  == \E n, w \in Sizes : Allocate(Fill(n * w, 0))
mem_cstring == \E byte \in Bytes : Allocate(<<byte, 0>>)

mem_cnull ==
  /\ Called({}) /\ MakeResource("mem")
  /\ Becomes([Now EXCEPT !.mem = [r \in Rid |-> IF r = held'[Result] THEN Null ELSE mem[r]]])

\* realloc to nothing frees the block and returns NULL: the function fails, and
\* the resource is left with a block that is no more.
Reallocated(a, n) ==
  LET r == held[a]
  IN IF ~Valid(a) THEN {Now}
     ELSE IF n = 0 THEN {Dangles(Release(Now, mem[r].data), "emptied", mem[r].data # NULL)}
     ELSE Grown(Now, r, n)
mem_realloc == \E a \in Argument, n \in Sizes : Changes({a}, Reallocated(a, n))

\* mem_cleanup, also of a pointer that was read: all that refer to the resource
\* see that it is gone.
StillThere(s, r)  == s                                    \* mutant of Forget
Forget(s, r)      == [s EXCEPT !.mem[r] = Null]
CleanUp(s, r)     == Forget(Release(s, s.mem[r].data), r)
mem_free == \E a \in Argument : Changes({a}, {IF Valid(a) THEN CleanUp(Now, held[a]) ELSE Now})

\* The mput functions: what is written, at an offset.
Writable(a) == Valid(a) /\ mem[held[a]].rw
Extended(s, r, off, n) == IF s.mem[r].size < off + n THEN Grown(s, r, off + n) ELSE {s}
Wrote(s, r, off, w) ==
  LET t == Reach(s, r, off, Len(w), "outside")
  IN IF t.fault # "none" \/ Len(w) = 0 THEN t
     ELSE [t EXCEPT !.heap[t.mem[r].data] = Live(Written(@.bytes, off, w))]
Put(a, off, w) == IF ~Writable(a) THEN {Now}
                  ELSE {Wrote(s, held[a], off, w) : s \in Extended(Now, held[a], off, Len(w))}

mem_put == \E a \in Argument, type \in DOMAIN Width \ {"pointer"}, off \in Offsets, byte \in Bytes :
             Changes({a}, Put(a, off, Fill(Width[type], byte)))
mem_put_string == \E a \in Argument, n \in Sizes, off \in Offsets, byte \in Bytes :
                    Changes({a}, Put(a, off, Fill(n, byte)))
mem_put_pointer ==
  \E a, p \in Argument, off \in Offsets :
    a # p /\ Changes({a, p}, IF is_mem(p) THEN Put(a, off, Fill(Width["pointer"], Pointer(mem[held[p]].data)))
                             ELSE {Now})

\* The mget functions test for the bytes of the type, but char, short and float
\* are read with the width of an int or a double.  With the size 0 nothing is
\* tested.
Taken(type) == CASE type \in {"char", "short"} -> Width["int"]
                 [] type = "float" -> Width["double"]
                 [] OTHER -> Width[type]
Readable(a, off, n) == Valid(a) /\ (mem[held[a]].size = 0 \/ off + n <= mem[held[a]].size)

\* The n bytes that are tested for are read, and all that are read with them.
ReadOn(a, off, n, all, what) ==
  LET r      == held[a]
      tested == IF mem[r].size = 0 THEN "noSize" ELSE "outside"
  IN IF Readable(a, off, n) THEN Reach(Reach(Now, r, off, n, tested), r, off, all, what) ELSE Now

mem_get == \E a \in Argument, type \in DOMAIN Width \ {"pointer"}, off \in Offsets :
             Changes({a}, {ReadOn(a, off, Width[type], Taken(type), "wider")})

\* mem_get_string, and mem_string, which reads up to a zero byte.
mem_get_string == \E a \in Argument, n \in Sizes, off \in Offsets :
                    Changes({a}, {ReadOn(a, off, n, 0, "outside")})
ToZero(q, off) == IF \E i \in DOMAIN q : i > off /\ q[i] = 0
                  THEN (CHOOSE i \in DOMAIN q : i > off /\ q[i] = 0 /\ \A j \in (off + 1)..(i - 1) : q[j] # 0) - off
                  ELSE Len(q) + 1
mem_string ==
  \E a \in Argument, off \in Offsets :
    LET b == mem[held[a]].data
        n == IF b = NULL THEN 1 ELSE ToZero(heap[b].bytes, off)
    IN Changes({a}, {ReadOn(a, off, 1, n, "noZero")})

\* The pointer is taken as it is found, with the size 0.
PointedTo(q) == {b \in Block \cup {NULL} : \A i \in DOMAIN q : q[i] = Pointer(b)}
mem_get_pointer ==
  \E a \in Argument, off \in Offsets, cleanup \in BOOLEAN :
    /\ Called({a})
    /\ LET r == held[a]
           s == ReadOn(a, off, Width["pointer"], 0, "outside")
           q == IF mem[r].data = NULL THEN <<>> ELSE Read(heap[mem[r].data].bytes, off, Width["pointer"])
       IN IF ~Readable(a, off, Width["pointer"]) \/ s.fault # "none"
          THEN UNCHANGED <<held, count, release>> /\ Becomes(s)
          ELSE \E b \in PointedTo(q) :
                 Makes(IF cleanup THEN "mem" ELSE "half", b, 0, FALSE,
                       Dangles(Now, "stale", b # NULL /\ heap[b].state # "live"))

\* mem_cpy and mem_move: as much as the source holds, and not read-only is asked
\* for.
Least(m, n) == IF m < n THEN m ELSE n
Clipped(src, off, n) == Least(n, mem[src].size - off)
Copy(d, dst_off, c, src_off, count_) ==
  LET dst == held[d]
      src == held[c]
      n   == Clipped(src, src_off, count_)
  IN IF ~Valid(d) \/ ~Valid(c) \/ count_ = 0 THEN {Now}
     ELSE IF n < 0 THEN {Fails(Now, "pastSource")}
     ELSE LET grown == IF dst_off + n > mem[dst].size THEN Grown(Now, dst, dst_off + n) ELSE {Now}
          IN {LET t == Reach(s, src, src_off, n, "outside")
                  q == IF s.mem[src].data = NULL THEN <<>> ELSE Read(s.heap[s.mem[src].data].bytes, src_off, n)
              IN IF t.fault # "none" THEN t ELSE Wrote(t, dst, dst_off, q) : s \in grown}
mem_cpy == \E d, c \in Argument, i, j \in Offsets, n \in Sizes : d # c /\ Changes({d, c}, Copy(d, i, c, j, n))

mem_cmp ==
  \E d, c \in Argument, i, j \in Offsets, n \in Sizes :
    d # c /\ Changes({d, c}, {IF \/ ~Valid(d) \/ ~Valid(c)
                                 \/ i + n > mem[held[d]].size \/ j + n > mem[held[c]].size
                              THEN Now ELSE Reach(Reach(Now, held[d], i, n, "outside"), held[c], j, n, "outside")})
mem_chr == \E a \in Argument, i \in Offsets, n \in Sizes :
             Changes({a}, {IF ~Valid(a) \/ i + n > mem[held[a]].size THEN Now
                           ELSE Reach(Now, held[a], i, n, "outside")})
mem_set ==
  \E a \in Argument, i \in Offsets, n \in Sizes, byte \in Bytes :
    Changes({a}, IF ~Valid(a) THEN {Now}
                 ELSE {Wrote(s, held[a], i, Fill(n, byte))
                         : s \in IF i + n > mem[held[a]].size THEN Grown(Now, held[a], i + n) ELSE {Now}})

MemCall == \/ mem_malloc \/ mem_calloc \/ mem_cstring \/ mem_cnull \/ mem_realloc \/ mem_free
           \/ mem_put \/ mem_put_string \/ mem_put_pointer
           \/ mem_get \/ mem_get_string \/ mem_string \/ mem_get_pointer
           \/ mem_cpy \/ mem_cmp \/ mem_chr \/ mem_set

\* mem_cleanup and mem_halfcleanup as release functions.
MemRelease(s, r) ==
  CASE release[r] = "mem"  -> IF s.mem[r].is THEN CleanUp(s, r) ELSE s
    [] release[r] = "half" -> Forget(s, r)
    [] OTHER -> s
-----------------------------------------------------------------------------
\* The accesses that intend_mem.c does not keep inside of the block:
\*   - "wider", the bytes after a char, short or float that mgetchar and mgetshort
\*     read as an int and mgetfloat as a double, and "noZero", what mstring reads
\*     where no zero byte ends the string.  The manual promises void for what does
\*     not fall into the allocated memory (5742-5759, 5773-5779, 5833-5839);
\*   - "pastSource", memcpy and memmove with an offset past the end of the source,
\*     which copy a negative count, and "noSize", a read through a resource of size
\*     0.  mgetptr makes one of any pointer, NULL too, and the manual says that its
\*     size is not known (5826-5827), but warns of neither.
Unguarded == {"wider", "noZero", "pastSource", "noSize"}

\* The ways in which a pointer is left to what is not there.  The manual warns of
\* the order in which blocks are freed (5728-5733):
\*   - "freed", a block that others refer to, or a pointer to which is stored;
\*   - "stale", a pointer that is read when its block is gone;
\* but the other two are the module's own:
\*   - "resized", a block that others refer to: they keep its place and size.  The
\*     manual says that blocks grow as needed (5527-5528), and does not warn;
\*   - "emptied", realloc to 0 frees the block, fails, and leaves it with the
\*     resource.  The manual promises the old size and contents (5581-5583).
Fits(s, r) ==
  LET b == s.mem[r].data
  IN IF b = NULL THEN s.mem[r].size = 0
     ELSE s.heap[b].state = "live" /\ s.mem[r].size <= Len(s.heap[b].bytes)

\* Memory resources "can't overflow when used from Intend C script code" (manual
\* 5527-5529), as far as that holds.  Until a pointer dangles, in one of the four
\* ways above, every resource is NULL or a live block of at least the size it
\* remembers, so that no block is used after it was freed, or freed twice; and the
\* first access outside of a block, if there is one, is a read of those that are
\* Unguarded, after which C says nothing of what a program does.  Of these eight
\* exceptions the manual warns of two, "freed" and "stale"; the other six are
\* defects of intend_mem.c, left out here by name.
MemSafe == dangling = {} => /\ fault \in {"none"} \cup Unguarded
                            /\ \A r \in Rid : mem[r].is => Fits(Now, r)
=============================================================================
