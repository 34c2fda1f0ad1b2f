------------------------------- MODULE Buddy -------------------------------
(***************************************************************************)
(* inc/buddy/buddy.c: the page allocator every zalloc call ends in.        *)
(*                                                                         *)
(* A complete binary tree of nodes in an array (heap order, root 0)        *)
(* describes an arena of N = 1 << self->level pages; a node of depth d     *)
(* stands for N / 2^d pages.  Each action is one iteration of one of the   *)
(* loops of buddy_alloc, _mark_parent, _combine, buddy_free,               *)
(* buddy_used_size or buddy_page_size, so that what a loop sees between    *)
(* two iterations, and whether it ends, are part of the model.  The        *)
(* callers hold one mutex (src/zalloc.c), so one call runs at a time.      *)
(*                                                                         *)
(* Offsets and lengths are in pages; requests (`used`) are in bytes.       *)
(* uint64_t locals are modelled with W bits: the loops rely on the wrap.   *)
(* node.pages is written and never read, and is left out.                  *)
(***************************************************************************)
EXTENDS Integers

CONSTANTS
  L,          \* self->level: depth of the leaves
  W,          \* bits of index and length (64 in the code)
  P,          \* P[k] is 2^k (1 << k)
  PAGE,       \* PAGE_SIZE: bytes in a page
  Requests,   \* byte sizes clients ask for
  PagesOf,    \* pages buddy_alloc computes for a request
  LevelByte,  \* self->level as the byte in front of the tree array
  Exhaust,    \* may clients ask for more than is free?
  Queries     \* which size queries clients make

NODE_UNUSED == 0
NODE_USED   == 1
NODE_SPLIT  == 2
NODE_FULL   == 3
NodeState   == 0 .. 3

\* In 64 bits the length is doubled for each level of the tree, and more often,
\* before it overflows.
ASSUME SizeAssumption ==
  /\ L \in Nat /\ W \in Nat /\ L + 1 < W /\ 2 * L < W
  /\ P \in [0 .. W -> Nat \ {0}]
  /\ P[0] = 1
  /\ \A k \in 0 .. W - 1 : P[k + 1] = 2 * P[k]

\* Page counts above the arena stay unconstrained: they are refused.
ASSUME RequestAssumption ==
  /\ PAGE \in Nat \ {0}
  /\ Requests \subseteq Nat
  /\ PagesOf \in [Requests -> Nat \ {0}]
  /\ \A s \in Requests : PagesOf[s] <= P[L] => \E k \in 0 .. L : PagesOf[s] = P[k]

\* _combine reads tree[-1].state above the root, which is self->level: 19 for
\* the arena of buddy_alloc.c.  An arena of exactly 8 pages would read NODE_FULL.
ASSUME LevelByteAssumption == LevelByte \in 0 .. 255 /\ LevelByte # NODE_FULL

ASSUME ClientAssumption ==
  Exhaust \in BOOLEAN /\ Queries \subseteq {"used_size", "page_size"}

N    == P[L]
Word == P[W]
Node == 0 .. 2 * N - 2
Fail == -1          \* (uint64_t) -1

VARIABLES
  st,      \* tree[i].state
  used,    \* tree[i].used
  live,    \* blocks handed out and not freed yet (what the clients hold)
  pc, op,  \* where the running call is, and which function it is in
  arg,     \* its argument: bytes asked for, or the first page of a block
  size, index, level, length, left, offset,  \* the locals of the loops
  ret      \* the value it returns

tree   == <<st, used>>
locals == <<size, index, level, length, left, offset>>
vars   == <<st, used, live, pc, op, arg, size, index, level, length, left, offset, ret>>

Block == [node : Node, off : Nat, pages : Nat, used : Requests]

-----------------------------------------------------------------------------
(* uint64_t arithmetic *)

Inc(i) == IF i = Word - 1 THEN 0 ELSE i + 1
Dec(i) == IF i = 0 THEN Word - 1 ELSE i - 1
Quadruple(x) == (4 * x) % Word  \* slip for Dbl
Dbl(x) == IF 2 * x < Word THEN 2 * x ELSE 2 * x - Word
Odd(i) == i % 2 = 1

(* The heap order of the tree *)

LeftChild(i)  == 2 * i + 1
RightChild(i) == 2 * i + 2
UpOne(i)      == (i + 1) \div 2     \* slip for Parent
Parent(i)     == Dec((i + 1) \div 2)                    \* wraps above the root
Sibling(i)    == IF Odd(i) THEN i + 1 ELSE i - 1        \* -1 for the root

\* tree[i].state, for an i that may be one step above the root.
StateAt(i) == IF i = Word - 1 THEN LevelByte ELSE st[i]

\* _index_offset, in pages.
UnshiftedOffset(i, l) == (i + 1) - P[l]  \* slip for IndexOffset
IndexOffset(i, l) == ((i + 1) - P[l]) * P[L - l]

\* No allocated block meets the n pages from `off`: a request of n pages can
\* be served.
FreeAt(off, n) ==
  /\ off + n <= N
  /\ \A b \in live : off + n <= b.off \/ b.off + b.pages <= off
Fits(n) == \E off \in 0 .. N - 1 : off % n = 0 /\ FreeAt(off, n)

-----------------------------------------------------------------------------
Init ==
  /\ st = [i \in Node |-> NODE_UNUSED]
  /\ used = [i \in Node |-> 0]
  /\ live = {}
  /\ pc = "idle" /\ op = "none" /\ arg = 0 /\ ret = 0
  /\ size = 0 /\ index = 0 /\ level = 0 /\ length = 0 /\ left = 0 /\ offset = 0

\* buddy_alloc: the request is larger than the arena.
AllocTooLarge(s) ==
  /\ pc = "idle"
  /\ PagesOf[s] > N
  /\ pc' = "return" /\ op' = "alloc" /\ arg' = s /\ ret' = Fail
  /\ UNCHANGED <<tree, live, locals>>

\* buddy_alloc: the search starts at the root.
AllocStart(s) ==
  /\ pc = "idle"
  /\ PagesOf[s] <= N
  /\ Exhaust \/ Fits(PagesOf[s])
  /\ pc' = "search" /\ op' = "alloc" /\ arg' = s
  /\ size' = PagesOf[s] /\ index' = 0 /\ level' = 0 /\ length' = N
  /\ UNCHANGED <<tree, live, left, offset, ret>>

\* Once length has overflowed to 0 no node matches any more and level, which only
\* a match reads, is not followed further.
Followed(l) == IF length' = 0 THEN level ELSE l

\* A node of the right length is free: it is used.  The offset that the call
\* returns depends on nothing _mark_parent changes.
Take ==
  /\ pc = "search"
  /\ size = length /\ st[index] = NODE_UNUSED
  /\ st' = [st EXCEPT ![index] = NODE_USED]
  /\ used' = [used EXCEPT ![index] = arg]
  /\ ret' = IndexOffset(index, level)
  /\ live' = live \cup {[node |-> index, off |-> ret', pages |-> size, used |-> arg]}
  /\ pc' = "mark"
  /\ UNCHANGED <<op, arg, locals>>

\* A free node that is too long is split; the search goes into its left half.
\* Nothing here keeps it from splitting a leaf: that no index ever leaves the
\* array is a matter of the length with which a search comes to a leaf.
SplitDown ==
  /\ pc = "search"
  /\ size # length /\ st[index] = NODE_UNUSED
  /\ st' = [st EXCEPT ![index] = NODE_SPLIT,
                      ![LeftChild(index)] = NODE_UNUSED,
                      ![RightChild(index)] = NODE_UNUSED]
  /\ index' = LeftChild(index) /\ length' = length \div 2 /\ level' = Followed(level + 1)
  /\ UNCHANGED <<used, live, pc, op, arg, size, left, offset, ret>>

Down ==
  /\ pc = "search"
  /\ size # length /\ st[index] = NODE_SPLIT
  /\ index' = LeftChild(index) /\ length' = length \div 2 /\ level' = Followed(level + 1)
  /\ UNCHANGED <<tree, live, pc, op, arg, size, left, offset, ret>>

\* Nothing in this subtree: its right sibling is next, or an ancestor's.
Blocked == IF size = length THEN st[index] # NODE_UNUSED
                            ELSE st[index] \in {NODE_USED, NODE_FULL}

NextSibling ==
  /\ pc = "search" /\ Blocked /\ Odd(index)
  /\ index' = Inc(index)
  /\ UNCHANGED <<tree, live, pc, op, arg, size, level, length, left, offset, ret>>

StartClimb ==
  /\ pc = "search" /\ Blocked /\ ~ Odd(index)
  /\ pc' = "climb"
  /\ UNCHANGED <<tree, live, op, arg, locals, ret>>

\* `if (index < 0) return -1;` never returns, index being unsigned: above the
\* root index is Word - 1, which is odd, and ++index makes it the root again
\* with twice the length.
Climb ==
  LET p == Parent(index) IN
  /\ pc = "climb"
  /\ length' = Dbl(length)
  /\ level' = Followed(level - 1)
  /\ IF Odd(p) THEN index' = Inc(p) /\ pc' = "search"
               ELSE index' = p /\ pc' = "climb"
  /\ UNCHANGED <<tree, live, op, arg, size, left, offset, ret>>

\* _mark_parent: a parent is FULL when both its halves are USED or FULL.
SiblingUsed    == Sibling(index) > 0 /\ st[Sibling(index)] = NODE_USED     \* slips
SiblingTouched == Sibling(index) > 0 /\ st[Sibling(index)] # NODE_UNUSED   \* for SiblingBusy
SiblingBusy == Sibling(index) > 0 /\ st[Sibling(index)] \in {NODE_USED, NODE_FULL}

MarkParent ==
  /\ pc = "mark" /\ SiblingBusy
  /\ index' = Parent(index)
  /\ st' = [st EXCEPT ![Parent(index)] = NODE_FULL]
  /\ UNCHANGED <<used, live, pc, op, arg, size, level, length, left, offset, ret>>

MarkDone ==
  /\ pc = "mark" /\ ~ SiblingBusy
  /\ pc' = "return"
  /\ UNCHANGED <<tree, live, op, arg, locals, ret>>

-----------------------------------------------------------------------------
(* buddy_free, buddy_used_size, buddy_page_size: the walk down to a block *)

\* The offset a walk looks for: buddy_page_size alone takes the byte offset
\* for a page number.
WalkOffset(o, b) == IF o = "page_size" THEN b.off * PAGE ELSE b.off

WalkStart(o, b) ==
  /\ pc = "idle"
  /\ op' = o /\ arg' = b.off /\ offset' = WalkOffset(o, b)
  /\ pc' = IF WalkOffset(o, b) < N THEN "walk" ELSE "abort"
  /\ left' = 0 /\ length' = N /\ index' = 0
  /\ UNCHANGED <<tree, live, size, level, ret>>

WalkDown ==
  LET half == length \div 2 IN
  /\ pc = "walk"
  /\ st[index] \in {NODE_SPLIT, NODE_FULL}
  /\ length' = half
  /\ IF offset < left + half THEN left' = left /\ index' = LeftChild(index)
                             ELSE left' = left + half /\ index' = RightChild(index)
  /\ UNCHANGED <<tree, live, pc, op, arg, size, level, offset, ret>>

\* The two asserts of the walk.
WalkAbort ==
  /\ pc = "walk"
  /\ st[index] = NODE_UNUSED \/ (st[index] = NODE_USED /\ offset # left)
  /\ pc' = "abort"
  /\ UNCHANGED <<tree, live, op, arg, locals, ret>>

AnswerLength(o) == length  \* slip for Answer
Answer(o) == IF o = "used_size" THEN used[index] ELSE length

QueryFound ==
  /\ pc = "walk" /\ op # "free"
  /\ st[index] = NODE_USED /\ offset = left
  /\ ret' = Answer(op)
  /\ pc' = "return"
  /\ UNCHANGED <<tree, live, op, arg, locals>>

FreeFound ==
  /\ pc = "walk" /\ op = "free"
  /\ st[index] = NODE_USED /\ offset = left
  /\ live' = {b \in live : b.off # arg}
  /\ pc' = "combine"
  /\ UNCHANGED <<tree, op, arg, locals, ret>>

\* _combine: while the other half is free too, the parent is what gets freed.
SiblingNotUsed == Sibling(index) >= 0 /\ st[Sibling(index)] # NODE_USED   \* slips
RightUnused    == Odd(index) /\ st[Sibling(index)] = NODE_UNUSED          \* for SiblingUnused
SiblingUnused == Sibling(index) >= 0 /\ st[Sibling(index)] = NODE_UNUSED

CombineUp ==
  /\ pc = "combine" /\ SiblingUnused
  /\ index' = Parent(index)
  /\ UNCHANGED <<tree, live, pc, op, arg, size, level, length, left, offset, ret>>

CombineClear ==
  /\ pc = "combine" /\ ~ SiblingUnused
  /\ st' = [st EXCEPT ![index] = NODE_UNUSED]
  /\ pc' = "unfull"
  /\ UNCHANGED <<used, live, op, arg, locals, ret>>

\* Its FULL ancestors are SPLIT again.  The test `>= 0` is always true; it is
\* the byte in front of the array that ends the loop at the root.
Unfull ==
  /\ pc = "unfull" /\ StateAt(Parent(index)) = NODE_FULL
  /\ index' = Parent(index)
  /\ st' = [st EXCEPT ![Parent(index)] = NODE_SPLIT]
  /\ UNCHANGED <<used, live, pc, op, arg, size, level, length, left, offset, ret>>

UnfullDone ==
  /\ pc = "unfull" /\ StateAt(Parent(index)) # NODE_FULL
  /\ pc' = "return"
  /\ UNCHANGED <<tree, live, op, arg, locals, ret>>

\* The call returns; its locals are gone.
Return ==
  /\ pc = "return"
  /\ pc' = "idle" /\ op' = "none" /\ arg' = 0 /\ ret' = 0
  /\ size' = 0 /\ index' = 0 /\ level' = 0 /\ length' = 0 /\ left' = 0 /\ offset' = 0
  /\ UNCHANGED <<tree, live>>

-----------------------------------------------------------------------------
Search == Take \/ SplitDown \/ Down \/ NextSibling \/ StartClimb \/ Climb
Mark   == MarkParent \/ MarkDone
Walk   == WalkDown \/ WalkAbort \/ QueryFound \/ FreeFound
Merge  == CombineUp \/ CombineClear \/ Unfull \/ UnfullDone

\* The running call goes on.
Step == Search \/ Mark \/ Walk \/ Merge \/ Return

\* A client calls; blocks are only freed and asked about by who holds them.
Call == \/ \E s \in Requests : AllocTooLarge(s) \/ AllocStart(s)
        \/ \E b \in live : WalkStart("free", b)
        \/ \E q \in Queries, b \in live : WalkStart(q, b)

Next == Call \/ Step

Spec == Init /\ [][Next]_vars

\* The thread inside the allocator keeps running: the loops never block.
FairSpec == Spec /\ WF_vars(Step)
=============================================================================
