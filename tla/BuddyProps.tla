---------------------------- MODULE BuddyProps -----------------------------
(***************************************************************************)
(* What makes inc/buddy/buddy.c correct: the properties of module Buddy,   *)
(* and the inductive invariant behind its safety.                          *)
(***************************************************************************)
EXTENDS Buddy

(* The tree as the properties see it *)

\* The k-th ancestor of node i: -1 above the root.
Up(k, i) == ((i + 1) \div P[k]) - 1
Ancestors(i) == {Up(k, i) : k \in 1 .. L} \ {-1}
Below(i) == {j \in Node : j = i \/ i \in Ancestors(j)}
Leaf == N - 1 .. 2 * N - 2

Divided == {NODE_SPLIT, NODE_FULL}

\* Every proper ancestor of node i is in one of the states S.
AncestorsIn(i, S) == \A a \in Ancestors(i) : st[a] \in S

\* The states that mean something: what lies below a UNUSED or USED node is
\* left over from earlier blocks.
Attached(i) == AncestorsIn(i, Divided)

\* What the state of a node is for: it can be computed from the blocks alone.
StateFor(i) ==
  LET held  == {b \in live : b.node \in Below(i)}
      taken == UNION {Below(b.node) : b \in live}
  IN IF held = {} THEN NODE_UNUSED
     ELSE IF \E b \in held : b.node = i THEN NODE_USED
     ELSE IF Below(i) \cap Leaf \subseteq taken THEN NODE_FULL
     ELSE NODE_SPLIT

Blocks == {[off |-> b.off, pages |-> b.pages, used |-> b.used] : b \in live}

ArenaOfPages == INSTANCE Arena
  WITH ArenaPages <- N, Demands <- Requests, DemandPages <- PagesOf, blocks <- Blocks

(* Properties *)

\* Every variable keeps its type; in particular the index of a loop never
\* leaves the array, and the level of a match is one `1 << level` is defined for.
TypeOK ==
  /\ st \in [Node -> NodeState]
  /\ used \in [Node -> Requests \cup {0}]
  /\ live \subseteq Block
  /\ pc \in {"idle", "search", "climb", "mark", "walk", "combine", "unfull", "return", "abort"}
  /\ op \in {"none", "alloc", "free", "used_size", "page_size"}
  /\ arg \in Nat /\ size \in Nat /\ length \in 0 .. Word - 1
  /\ index \in Node
  /\ level \in Int /\ (pc = "mark" => level \in 0 .. L)
  /\ left \in Nat /\ offset \in Nat /\ ret \in Int

\* Two blocks that clients hold at the same time share no page: nobody's
\* memory is handed out twice (buddy_alloc).
NoOverlap ==
  \A a, b \in live :
    a # b => a.off + a.pages <= b.off \/ b.off + b.pages <= a.off

\* Between two calls the state of every node that counts is the one the
\* blocks call for: FULL exactly when no page below is free, UNUSED exactly
\* when none is taken (so freed buddies have merged), however blocks came and
\* went (_mark_parent, _combine).
TreeExact ==
  pc = "idle" => \A i \in Node : Attached(i) => st[i] = StateFor(i)

\* buddy_used_size answers with the bytes that were asked for the block it is
\* called with: realloc copies that many (src/zalloc.c).
UsedSizeAnswer ==
  pc = "return" /\ op = "used_size" => \E b \in live : b.off = arg /\ b.used = ret

\* No step of any call touches the node of a block that stays allocated: its
\* state and its size survive all that other clients do.
OthersUntouched ==
  [][\A b \in live \cap live' : st'[b.node] = NODE_USED /\ used'[b.node] = b.used]_vars

\* With the tree and the loops hidden, buddy_alloc and buddy_free are a
\* first-fit arena.
ImplementsArena == ArenaOfPages!Spec

\* Every call returns: the walks, the climbs and the search end.
CallsReturn == pc # "idle" ~> pc = "idle"

(* Properties of an arena that may run out *)

\* A block lies in the arena or altogether behind it: a search that went past
\* the root never returns a place that straddles or precedes the end.
InsideOrBehind == \A b \in live : b.off + b.pages <= N \/ b.off >= N

\* A place behind the arena is only handed out when no node of n pages was left,
\* that is when each of them is, contains or lies in a block's node.
NodesOf(n) == {i \in Node : \E d \in 0 .. L : P[L - d] = n /\ i + 1 \in P[d] .. P[d + 1] - 1}
Clear(i)    == \A b \in live : b.node \notin Below(i) /\ i \notin Below(b.node)
NodeLeft(n) == \E i \in NodesOf(n) : Clear(i)
BehindOnlyWhenExhausted ==
  [][pc = "search" /\ pc' = "mark" /\ ret' >= N => ~ NodeLeft(size)]_vars

\* As long as the root is not USED or FULL, a search ends.
SearchEnds ==
  pc = "search" /\ st[0] \notin {NODE_USED, NODE_FULL} ~> pc = "return"

\* Freeing a block that lies in the arena, or asking for its size, never fails
\* an assert: the walk ends at the node of that block.
AbortOnlyBehind == pc = "abort" /\ op # "page_size" => arg >= N

(* What the code says of itself, and does not do *)

\* "out of memory", `return -1`: a search for more than is free comes to an end,
\* and the request is refused.
ExhaustedRefused ==
  pc = "search" /\ ~ Fits(size) ~> pc = "return" /\ ret = Fail

\* buddy_page_size answers with the pages of the block it is called with.
PageSizeAnswer ==
  /\ op = "page_size" => pc # "abort"
  /\ pc = "return" /\ op = "page_size" => \E b \in live : b.off = arg /\ b.pages = ret

-----------------------------------------------------------------------------
(* The inductive invariant *)

LeafInv == \A i \in Node : RightChild(i) \notin Node => st[i] \in {NODE_UNUSED, NODE_USED}

\* The node of a block is USED, below divided nodes only, and the first page of
\* the block is where its node and its length put it.
BlockInv(b) ==
  /\ st[b.node] = NODE_USED /\ used[b.node] = b.used
  /\ Attached(b.node)
  /\ \E j \in 0 .. L : b.pages = P[j]
  /\ b.off + N = (b.node + 1) * b.pages

LiveInv == /\ \A b \in live : BlockInv(b)
           /\ \A a, b \in live : a.node = b.node => a = b

\* Length len belongs to level lev, unless it has overflowed, and node i is at
\* least that deep.
LengthAt(len, lev, i) ==
  \/ len = 0
  \/ \E j \in 0 .. W - 1 :
       /\ len = P[j] /\ lev = L - j
       /\ j <= L => P[L - j] <= i + 1

SearchInv ==
  pc \in {"search", "climb"} =>
    /\ op = "alloc" /\ arg \in Requests
    /\ size = PagesOf[arg] /\ size <= N
    /\ AncestorsIn(index, {NODE_SPLIT})
    /\ LengthAt(length, level, index)

MarkInv == pc = "mark" => op = "alloc" /\ Attached(index)

WalkInv ==
  pc = "walk" =>
    /\ op \in {"free", "used_size", "page_size"}
    /\ op # "page_size" => offset = arg
    /\ Attached(index)
    /\ \E b \in live : b.off = arg
    /\ \E j \in 0 .. L : length = P[j]
    /\ left + N = (index + 1) * length
    /\ left <= offset /\ offset < left + length /\ offset < N

CombineInv ==
  pc = "combine" =>
    /\ op = "free"
    /\ Attached(index)
    /\ \A b \in live : b.node # index /\ index \notin Ancestors(b.node)

MergeInv == pc = "unfull" => op = "free"

\* What a node says of the blocks below it agrees with what its two halves say,
\* but for the nodes the running call is at: an allocation has split a node for
\* a block it has not placed yet, or _mark_parent or _combine is on its way up,
\* or the block of a USED node has just been freed.
Halves(i) == {LeftChild(i), RightChild(i)}
Busy(i)   == st[i] \in {NODE_USED, NODE_FULL}

Backed(i) ==
  st[i] = NODE_USED =>
    (\E b \in live : b.node = i) \/ (pc = "combine" /\ i \in Below(index))

NotEmpty(i) ==
  st[i] \in Divided =>
    \/ \E c \in Halves(i) : st[c] # NODE_UNUSED
    \/ pc = "search" /\ index \in Halves(i) /\ st[index] = NODE_UNUSED

FullAsHalves(i) ==
  st[i] \in Divided =>
    \/ st[i] = NODE_FULL <=> \A c \in Halves(i) : Busy(c)
    \/ pc \in {"mark", "unfull"} /\ index \in Halves(i)

OnTheWayUp ==
  /\ pc = "mark" => AncestorsIn(index, {NODE_SPLIT}) /\ Busy(index)
  /\ pc = "unfull" => Attached(index) /\ st[index] \in {NODE_UNUSED, NODE_SPLIT}

TreeInv ==
  /\ \A i \in Node : Attached(i) => Backed(i) /\ NotEmpty(i) /\ FullAsHalves(i)
  /\ OnTheWayUp

IndInv == /\ TypeOK /\ LeafInv /\ LiveInv
          /\ SearchInv /\ MarkInv /\ WalkInv /\ CombineInv /\ MergeInv
          /\ UsedSizeAnswer /\ AbortOnlyBehind

\* A search that has not passed the root is at the level of its node, and every
\* node that could serve the request lies ahead; one that has passed it began
\* when no such node was left.
Passed == IF pc = "climb" THEN index + 2 ELSE index + 1

OnLevel ==
  /\ level \in 0 .. L /\ length = P[L - level] /\ size <= length
  /\ P[level] <= index + 1 /\ index + 1 < P[level + 1]
  /\ pc = "climb" => ~ Odd(index)

SweepInv ==
  pc \in {"search", "climb"} =>
    \/ ~ NodeLeft(size)
    \/ OnLevel /\ \A i \in NodesOf(size) : Passed * length <= (i + 1) * size \/ ~ Clear(i)

\* Each time a search comes past the root it starts again with twice the length,
\* and meets nodes of the size it looks for one level further down: on its k-th
\* pass at depth level + k.  On the pass on which those are the leaves it comes to
\* every page that is free; unless it ends there, the root is USED or FULL, and
\* the search never goes below it again.  So it never splits a leaf.
OnPass(k) ==
  /\ level + k \in 0 .. L /\ length = P[L - level] /\ P[k] <= size /\ size <= length
  /\ P[level + k] <= index + 1 /\ index + 1 < P[level + k + 1]
  /\ pc = "climb" => ~ Odd(index)

PagesAhead(k) == \A i \in Leaf : Passed * P[L - (level + k)] <= i + 1 \/ ~ Clear(i)

PassInv ==
  pc \in {"search", "climb"} =>
    \/ Busy(0)
    \/ \E k \in 0 .. L : OnPass(k) /\ (size = P[k] => PagesAhead(k))

\* As long as no more is asked for than is free, no block lies behind the arena.
FitInv ==
  /\ \A b \in live : b.off + b.pages <= N
  /\ pc \in {"search", "climb"} => Fits(size)

BuddyInv == IndInv /\ TreeInv /\ PassInv /\ SweepInv /\ (~ Exhaust => FitInv)
=============================================================================
