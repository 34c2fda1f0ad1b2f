---------------------------- MODULE BuddyProofs ----------------------------
(***************************************************************************)
(* The safety of inc/buddy/buddy.c, for every level of the tree, every     *)
(* word width above it and every set of requests: BuddyInv is inductive,   *)
(* part by part (IndInv, TreeInv, SweepInv, FitInv), and the tree          *)
(* implements the first-fit arena.  The last section is about PageCount:   *)
(* a request gets the pages it needs, for floats and words of any width.   *)
(***************************************************************************)
EXTENDS BuddyLemmas, PageCount, Induction

\* A state whose tree and blocks are those of before keeps what is said of them.
LEMMA SameTree ==
  ASSUME IndInv, UNCHANGED <<tree, live>>
  PROVE  /\ LeafInv' /\ LiveInv'
         /\ \A S : \A i \in Node : AncestorsIn(i, S) => AncestorsIn(i, S)'
<1>1. st' = st /\ used' = used /\ live' = live
  BY DEF tree
<1> QED
  BY <1>1 DEF IndInv, LeafInv, LiveInv, BlockInv, Attached, AncestorsIn

LEMMA TakeStep == ASSUME IndInv, Take PROVE IndInv'
<1>1. /\ pc = "search" /\ pc' = "mark" /\ index' = index /\ level' = level /\ size' = size
      /\ length' = length /\ op' = op /\ arg' = arg /\ left' = left /\ offset' = offset
      /\ st[index] = NODE_UNUSED /\ size = length /\ ret' = IndexOffset(index, level)
      /\ st' = [st EXCEPT ![index] = NODE_USED] /\ used' = [used EXCEPT ![index] = arg]
  BY DEF Take, locals
<1>2. live' = live \cup {[node |-> index, off |-> ret', pages |-> size, used |-> arg]}
  BY DEF Take
<1>3. /\ index \in Node /\ arg \in Requests /\ op = "alloc" /\ size = PagesOf[arg] /\ size <= N
      /\ AncestorsIn(index, {NODE_SPLIT}) /\ LengthAt(length, level, index)
      /\ st \in [Node -> NodeState] /\ used \in [Node -> Requests \cup {0}] /\ live \subseteq Block
  BY <1>1 DEF IndInv, TypeOK, SearchInv
<1>4. PICK j \in 0 .. L : size = P[j] /\ level = L - j /\ P[level] <= index + 1
  <2>1. size \in Nat \ {0}
    BY <1>3, RequestAssumption
  <2>2. PICK j \in 0 .. W - 1 : length = P[j] /\ level = L - j /\ (j <= L => P[L - j] <= index + 1)
    BY <1>1, <1>3, <2>1 DEF LengthAt
  <2>3. j \in 0 .. W /\ P[j] <= N
    <3>1. P[j] <= N
      BY <1>1, <1>3, <2>2
    <3>2. j \in 0 .. W
      BY ArenaFacts
    <3> QED
      BY <3>1, <3>2
  <2>4. j \in 0 .. L
    BY <2>3, PowerBelowArena
  <2> QED
    BY <1>1, <2>2, <2>4
<1>5. level \in 0 .. L /\ L - level = j
  BY <1>4, ArenaFacts
<1>6. ret' + N = (index + 1) * size /\ ret' \in Nat
  <2>1. IndexOffset(index, level) + N = (index + 1) * P[L - level]
    BY <1>3, <1>5, OffsetOfNode
  <2>2. P[level] \in Nat /\ P[j] \in Nat /\ index + 1 \in Nat /\ (index + 1) - P[level] \in Nat
    BY <1>3, <1>4, <1>5, ArenaFacts, NodeFacts
  <2>3. IndexOffset(index, level) \in Nat
    BY <1>5, <2>2 DEF IndexOffset
  <2> QED
    BY <1>1, <1>4, <1>5, <2>1, <2>3
<1>7. PICK new \in Block :
        /\ live' = live \cup {new}
        /\ new.node = index /\ new.off = ret' /\ new.pages = size /\ new.used = arg
  <2>1. size \in Nat
    BY <1>4, ArenaFacts
  <2> QED
    <3>1. [node |-> index, off |-> ret', pages |-> size, used |-> arg] \in Block
      BY <1>3, <1>6, <2>1 DEF Block
    <3> QED
      BY <1>2, <3>1
<1>8. \A i \in Node : i # index => st'[i] = st[i] /\ used'[i] = used[i]
  BY <1>1, <1>3
<1>9. st'[index] = NODE_USED /\ used'[index] = arg /\ st' \in [Node -> NodeState]
  BY <1>1, <1>3 DEF NodeState, NODE_USED
<1>10. index \notin Ancestors(index) /\ Attached(index)
  <2>1. \A a \in Ancestors(index) : st[a] = NODE_SPLIT
    BY <1>3 DEF AncestorsIn
  <2> QED
    BY <1>1, <2>1 DEF Attached, AncestorsIn, Divided, NODE_UNUSED, NODE_SPLIT
<1>11. ASSUME NEW b \in live
       PROVE  b.node \in Node /\ b.node # index /\ index \notin Ancestors(b.node)
  <2>1. BlockInv(b) /\ b.node \in Node
    BY <1>3 DEF IndInv, LiveInv, Block
  <2> QED
    BY <1>1, <2>1 DEF BlockInv, Attached, AncestorsIn, Divided,
                      NODE_UNUSED, NODE_USED, NODE_SPLIT, NODE_FULL
<1>12. ASSUME NEW i \in Node, Attached(i), index \notin Ancestors(i) PROVE Attached(i)'
  BY <1>8, <1>12, AncestorNodes DEF Attached, AncestorsIn
<1>13. TypeOK'
  <2>1. used' \in [Node -> Requests \cup {0}]
    BY <1>1, <1>3
  <2>2. live' \subseteq Block
    BY <1>3, <1>7
  <2>3. ret' \in Int
    BY <1>6
  <2> QED
    BY <1>1, <1>3, <1>5, <1>9, <2>1, <2>2, <2>3 DEF IndInv, TypeOK
<1>14. LeafInv'
  BY <1>8, <1>9 DEF IndInv, LeafInv
<1>15. LiveInv'
  <2>1. ASSUME NEW b \in live PROVE BlockInv(b)'
    <3>1. BlockInv(b)
      BY DEF IndInv, LiveInv
    <3> QED
      BY <1>8, <1>11, <1>12, <3>1 DEF BlockInv
  <2>2. BlockInv(new)'
    BY <1>3, <1>4, <1>6, <1>7, <1>9, <1>10, <1>12 DEF BlockInv
  <2>3. \A a, b \in live' : a.node = b.node => a = b
    BY <1>7, <1>11 DEF IndInv, LiveInv
  <2> QED
    BY <1>7, <2>1, <2>2, <2>3 DEF LiveInv
<1>16. MarkInv'
  BY <1>1, <1>3, <1>10, <1>12 DEF MarkInv
<1>17. SearchInv' /\ WalkInv' /\ CombineInv' /\ MergeInv' /\ UsedSizeAnswer' /\ AbortOnlyBehind'
  BY <1>1 DEF SearchInv, WalkInv, CombineInv, MergeInv, UsedSizeAnswer, AbortOnlyBehind
<1> QED
  BY <1>13, <1>14, <1>15, <1>16, <1>17 DEF IndInv

\* What is known of a search on its k-th pass, at a node of depth d.
LEMMA PassFacts ==
  ASSUME IndInv, pc \in {"search", "climb"}, NEW k \in 0 .. L, OnPass(k), NEW d, d = level + k
  PROVE  /\ index \in Node /\ index \in Nat /\ AncestorsIn(index, {NODE_SPLIT}) /\ Attached(index)
         /\ size \in Nat \ {0} /\ \E j \in 0 .. L : size = P[j]
         /\ level \in Int /\ k \in Nat /\ L \in Nat /\ W \in Nat /\ 2 * L < W
         /\ d \in 0 .. L /\ L - d \in 0 .. L /\ L - level = (L - d) + k
         /\ length = P[L - level] /\ length \in Nat \ {0} /\ size <= length
         /\ P[k] \in Nat \ {0} /\ P[k] <= size
         /\ P[d] \in Nat \ {0} /\ P[d + 1] = 2 * P[d] /\ P[L - d] \in Nat \ {0}
         /\ P[d] <= index + 1 /\ index + 1 < P[d + 1]
         /\ N <= (index + 1) * P[L - d] /\ (index + 1) * P[L - d] < 2 * N
<1>1. /\ index \in Node /\ size = PagesOf[arg] /\ size <= N /\ arg \in Requests
      /\ AncestorsIn(index, {NODE_SPLIT}) /\ level \in Int
  BY DEF IndInv, TypeOK, SearchInv
<1>2. size \in Nat \ {0} /\ \E j \in 0 .. L : size = P[j]
  BY <1>1, RequestAssumption DEF N
<1>3. /\ level + k \in 0 .. L /\ length = P[L - level] /\ P[k] <= size /\ size <= length
      /\ P[level + k] <= index + 1 /\ index + 1 < P[level + k + 1]
  BY DEF OnPass
<1>4. L \in Nat /\ W \in Nat /\ 2 * L < W /\ k \in Nat
  BY SizeAssumption
<1>5. /\ d \in 0 .. L /\ level = d - k /\ L - d \in 0 .. L /\ L - level = (L - d) + k
      /\ L - level \in 0 .. W /\ d \in 0 .. W - 1 /\ d \in 0 .. W /\ L - d \in 0 .. W
      /\ k \in 0 .. W /\ level + k + 1 = d + 1
  BY <1>1, <1>3, <1>4
<1>6. /\ length \in Nat \ {0} /\ P[k] \in Nat \ {0} /\ P[d] \in Nat \ {0} /\ P[L - d] \in Nat \ {0}
      /\ P[d + 1] = 2 * P[d]
  BY <1>3, <1>5, SizeAssumption
<1>7. P[d] <= index + 1 /\ index + 1 < P[d + 1]
  BY <1>3, <1>5
<1>8. N <= (index + 1) * P[L - d] /\ (index + 1) * P[L - d] < 2 * N
  BY <1>1, <1>5, <1>7, NodeWithin
<1>9. index \in Nat /\ Attached(index)
  BY <1>1, NodeFacts DEF Attached, AncestorsIn, Divided
<1> QED
  BY <1>1, <1>2, <1>3, <1>4, <1>5, <1>6, <1>7, <1>8, <1>9

\* A node that is longer than the request lies above the leaves, and one further
\* down is still no shorter.
LEMMA LongerFacts ==
  ASSUME IndInv, pc \in {"search", "climb"}, NEW k \in 0 .. L, OnPass(k), NEW d, d = level + k,
         size # length
  PROVE  /\ d + 1 \in 0 .. L /\ L - (level + 1) \in 0 .. W - 1
         /\ length = 2 * P[L - (level + 1)] /\ P[L - (level + 1)] \in Nat \ {0}
         /\ size <= P[L - (level + 1)]
<1>1. /\ size \in Nat \ {0} /\ level \in Int /\ k \in Nat /\ L \in Nat /\ W \in Nat /\ 2 * L < W
      /\ d \in 0 .. L /\ L - level = (L - d) + k
      /\ length = P[L - level] /\ length \in Nat \ {0} /\ size <= length
      /\ P[k] \in Nat \ {0} /\ P[k] <= size
  BY PassFacts
<1>2. PICK j \in 0 .. L : size = P[j]
  BY PassFacts
<1>3. PICK e : e = L - level
  OBVIOUS
<1>4. e \in 0 .. W - 1 /\ e \in 0 .. W /\ j \in 0 .. W /\ j \in 0 .. W - 1 /\ k \in 0 .. W /\ e = (L - d) + k
  BY <1>1, <1>3
<1>5. j < e
  <2>1. P[j] < P[e]
    BY <1>1, <1>2, <1>3, size # length
  <2>2. CASE e < j
    <3>1. P[e] < P[j]
      BY <1>4, <2>2, PowerGrows
    <3>2. P[e] \in Nat /\ P[j] \in Nat
      BY <1>1, <1>2, <1>3
    <3> QED
      BY <2>1, <3>1, <3>2
  <2>3. j # e
    BY <1>1, <1>2, <2>1
  <2> QED
    BY <1>4, <2>2, <2>3
<1>6. k <= j
  <2>1. SUFFICES ASSUME j < k PROVE FALSE
    BY <1>1
  <2>2. P[j] < P[k]
    BY <1>4, <2>1, PowerGrows
  <2> QED
    BY <1>1, <1>2, <2>2
<1>7. PICK f : f = e - 1
  OBVIOUS
<1>8. f \in 0 .. W - 1 /\ f \in 0 .. W /\ f + 1 = e /\ j <= f /\ f = L - (level + 1) /\ d + 1 \in 0 .. L
  BY <1>1, <1>3, <1>4, <1>5, <1>6, <1>7
<1>9. P[f] \in Nat \ {0} /\ P[e] = 2 * P[f]
  BY <1>8, SizeAssumption
<1>10. P[j] <= P[f]
  <2>1. j < f => P[j] < P[f]
    BY <1>4, <1>8, PowerGrows
  <2> QED
    BY <1>1, <1>2, <1>4, <1>8, <1>9, <2>1
<1> QED
  BY <1>1, <1>2, <1>3, <1>8, <1>9, <1>10

\* A search stays at a root that is USED or FULL.
LEMMA BusyRoot ==
  ASSUME IndInv, pc \in {"search", "climb"}, Busy(0)
  PROVE  index = 0
<1>1. index \in Node /\ AncestorsIn(index, {NODE_SPLIT})
  BY DEF IndInv, TypeOK, SearchInv
<1>2. index # 0 => 0 \in Ancestors(index)
  BY <1>1, RootAbove
<1> QED
  BY <1>1, <1>2 DEF AncestorsIn, Busy, NODE_USED, NODE_FULL, NODE_SPLIT

\* A search never splits a leaf.
LEMMA RoomBelow ==
  ASSUME IndInv, PassInv, SplitDown
  PROVE  RightChild(index) \in Node
<1>1. pc = "search" /\ size # length /\ st[index] = NODE_UNUSED
  BY DEF SplitDown
<1>2. ~ Busy(0)
  BY <1>1, BusyRoot DEF Busy, NODE_UNUSED, NODE_USED, NODE_FULL
<1>3. PICK k \in 0 .. L : OnPass(k)
  BY <1>1, <1>2 DEF PassInv
<1>4. PICK d : d = level + k
  OBVIOUS
<1>5. d \in 0 .. L /\ d + 1 \in 0 .. L /\ index \in Nat /\ index + 1 < P[d + 1]
  BY <1>1, <1>3, <1>4, PassFacts, LongerFacts
<1>6. d + 1 \in 0 .. W /\ L \in 0 .. W /\ P[d + 1] \in Nat /\ N \in Nat
  BY <1>5, ArenaFacts
<1>7. P[d + 1] <= N
  <2>1. d + 1 < L => P[d + 1] < P[L]
    BY <1>6, PowerGrows
  <2> QED
    BY <1>5, <1>6, <2>1 DEF N
<1> QED
  BY <1>5, <1>6, <1>7 DEF RightChild, Node

LEMMA SplitDownStep == ASSUME IndInv, PassInv, SplitDown PROVE IndInv'
<1> DEFINE lc == LeftChild(index)
           rc == RightChild(index)
<1>1. /\ pc = "search" /\ st[index] = NODE_UNUSED /\ rc \in Node
      /\ st' = [st EXCEPT ![index] = NODE_SPLIT, ![lc] = NODE_UNUSED, ![rc] = NODE_UNUSED]
      /\ index' = lc /\ length' = length \div 2 /\ level' = IF length' = 0 THEN level ELSE level + 1
      /\ used' = used /\ live' = live /\ pc' = pc /\ op' = op /\ arg' = arg
      /\ size' = size /\ left' = left /\ offset' = offset /\ ret' = ret
  BY RoomBelow DEF SplitDown, Followed
<1>2. /\ index \in Node /\ arg \in Requests /\ op = "alloc" /\ size = PagesOf[arg] /\ size <= N
      /\ AncestorsIn(index, {NODE_SPLIT}) /\ LengthAt(length, level, index)
      /\ st \in [Node -> NodeState] /\ live \subseteq Block
  BY <1>1 DEF IndInv, TypeOK, SearchInv
<1>3. /\ lc \in Node /\ lc # 0 /\ Parent(lc) = index /\ rc # 0 /\ Parent(rc) = index
      /\ lc # index /\ rc # index
  BY <1>1, <1>2, NodeFacts DEF LeftChild, RightChild
<1>4. /\ \A i \in Node : i \notin {index, lc, rc} => st'[i] = st[i]
      /\ st'[index] = NODE_SPLIT /\ st'[lc] = NODE_UNUSED /\ st'[rc] = NODE_UNUSED
      /\ st' \in [Node -> NodeState]
  BY <1>1, <1>2, <1>3 DEF NodeState, NODE_SPLIT, NODE_UNUSED, LeftChild, RightChild
<1>5. ASSUME NEW b \in live
      PROVE  /\ b.node \in Node /\ b.node \notin {index, lc, rc}
             /\ Ancestors(b.node) \cap {index, lc, rc} = {}
  <2>1. BlockInv(b) /\ b.node \in Node
    BY <1>2 DEF IndInv, LiveInv, Block
  <2>2. b.node # index /\ index \notin Ancestors(b.node)
    BY <1>1, <2>1 DEF BlockInv, Attached, AncestorsIn, Divided,
                      NODE_UNUSED, NODE_USED, NODE_SPLIT, NODE_FULL
  <2>3. ASSUME NEW c \in {lc, rc} PROVE b.node # c /\ c \notin Ancestors(b.node)
    <3>1. c \in Node /\ c # 0 /\ Parent(c) = index
      BY <1>1, <1>3
    <3>2. b.node # c
      BY <2>2, <3>1, ParentAncestors
    <3>3. c \notin Ancestors(b.node)
      BY <2>1, <2>2, <3>1, AncestorParent
    <3> QED
      BY <3>2, <3>3
  <2> QED
    BY <2>1, <2>2, <2>3
<1>6. TypeOK'
  <2>1. length' \in 0 .. Word - 1 /\ level' \in Int
    BY <1>1, ArenaFacts DEF IndInv, TypeOK
  <2> QED
    BY <1>1, <1>3, <1>4, <2>1 DEF IndInv, TypeOK
<1>7. LeafInv'
  <2>1. ASSUME NEW i \in Node, RightChild(i) \notin Node PROVE st'[i] \in {NODE_UNUSED, NODE_USED}
    BY <1>1, <1>4, <2>1 DEF IndInv, LeafInv
  <2> QED
    BY <2>1 DEF LeafInv
<1>8. LiveInv'
  <2>1. ASSUME NEW b \in live PROVE BlockInv(b)'
    <3>1. BlockInv(b)
      BY DEF IndInv, LiveInv
    <3>2. Attached(b.node)'
      <4>1. \A a \in Ancestors(b.node) : st'[a] = st[a]
        BY <1>4, <1>5, AncestorNodes
      <4> QED
        BY <3>1, <4>1 DEF BlockInv, Attached, AncestorsIn
    <3> QED
      BY <1>1, <1>4, <1>5, <3>1, <3>2 DEF BlockInv
  <2> QED
    BY <1>1, <2>1 DEF IndInv, LiveInv
<1>9. SearchInv'
  <2>1. Ancestors(lc) = Ancestors(index) \cup {index}
    BY <1>3, ParentAncestors
  <2>2. \A a \in Ancestors(index) : a \in Node /\ st[a] = NODE_SPLIT
    BY <1>2, AncestorNodes DEF AncestorsIn
  <2>3. lc \notin Ancestors(index) /\ rc \notin Ancestors(index)
    <3>1. index \notin Ancestors(index)
      BY <1>1, <2>2 DEF NODE_SPLIT, NODE_UNUSED
    <3> QED
      BY <1>1, <1>2, <1>3, <3>1, AncestorParent
  <2>4. \A a \in Ancestors(lc) : st'[a] = NODE_SPLIT
    BY <1>4, <2>1, <2>2, <2>3
  <2>5. LengthAt(length', level', index')
    BY <1>1, <1>2, LengthDown DEF LengthAt
  <2> QED
    BY <1>1, <1>2, <2>4, <2>5 DEF SearchInv, AncestorsIn, LengthAt
<1>10. MarkInv' /\ WalkInv' /\ CombineInv' /\ MergeInv' /\ UsedSizeAnswer' /\ AbortOnlyBehind'
  BY <1>1 DEF MarkInv, WalkInv, CombineInv, MergeInv, UsedSizeAnswer, AbortOnlyBehind
<1> QED
  BY <1>6, <1>7, <1>8, <1>9, <1>10 DEF IndInv

LEMMA DownStep == ASSUME IndInv, Down PROVE IndInv'
<1>1. /\ pc = "search" /\ st[index] = NODE_SPLIT
      /\ index' = LeftChild(index) /\ length' = length \div 2
      /\ level' = IF length' = 0 THEN level ELSE level + 1
      /\ UNCHANGED <<tree, live>> /\ st' = st /\ used' = used /\ live' = live
      /\ pc' = pc /\ op' = op /\ arg' = arg
      /\ size' = size /\ left' = left /\ offset' = offset /\ ret' = ret
  BY DEF Down, Followed, tree
<1>2. /\ index \in Node /\ arg \in Requests /\ op = "alloc" /\ size = PagesOf[arg] /\ size <= N
      /\ AncestorsIn(index, {NODE_SPLIT}) /\ LengthAt(length, level, index)
  BY <1>1 DEF IndInv, TypeOK, SearchInv
<1>3. LeafInv' /\ LiveInv'
  BY <1>1, SameTree
<1>4. RightChild(index) \in Node
  BY <1>1, <1>2 DEF IndInv, LeafInv, NODE_SPLIT, NODE_UNUSED, NODE_USED
<1>5. LeftChild(index) \in Node /\ Ancestors(LeftChild(index)) = Ancestors(index) \cup {index}
  BY <1>2, <1>4, NodeFacts, ParentAncestors
<1>6. TypeOK'
  <2>1. length' \in 0 .. Word - 1 /\ level' \in Int
    BY <1>1, ArenaFacts DEF IndInv, TypeOK
  <2> QED
    BY <1>1, <1>5, <2>1 DEF IndInv, TypeOK
<1>7. SearchInv'
  <2>1. \A a \in Ancestors(LeftChild(index)) : st'[a] = NODE_SPLIT
    BY <1>1, <1>2, <1>5 DEF AncestorsIn
  <2>2. LengthAt(length', level', index')
    BY <1>1, <1>2, LengthDown DEF LengthAt
  <2> QED
    BY <1>1, <1>2, <2>1, <2>2 DEF SearchInv, AncestorsIn, LengthAt
<1>8. MarkInv' /\ WalkInv' /\ CombineInv' /\ MergeInv' /\ UsedSizeAnswer' /\ AbortOnlyBehind'
  BY <1>1 DEF MarkInv, WalkInv, CombineInv, MergeInv, UsedSizeAnswer, AbortOnlyBehind
<1> QED
  BY <1>3, <1>6, <1>7, <1>8 DEF IndInv

\* A node and its sibling have the same ancestors.
LEMMA SiblingAncestors ==
  ASSUME NEW i \in Node, i # 0
  PROVE  Ancestors(Sibling(i)) = Ancestors(i)
<1>1. Sibling(i) \in Node /\ Sibling(i) # 0 /\ Parent(Sibling(i)) = Parent(i)
  BY NodeFacts DEF LeftChild, RightChild, Node
<1> QED
  BY <1>1, ParentAncestors

LEMMA NextSiblingStep == ASSUME IndInv, NextSibling PROVE IndInv'
<1>1. /\ pc = "search" /\ Odd(index) /\ index' = Inc(index)
      /\ UNCHANGED <<tree, live>> /\ st' = st /\ used' = used /\ live' = live
      /\ pc' = pc /\ op' = op /\ arg' = arg /\ length' = length /\ level' = level
      /\ size' = size /\ left' = left /\ offset' = offset /\ ret' = ret
  BY DEF NextSibling, tree
<1>2. /\ index \in Node /\ arg \in Requests /\ op = "alloc" /\ size = PagesOf[arg] /\ size <= N
      /\ AncestorsIn(index, {NODE_SPLIT}) /\ LengthAt(length, level, index)
  BY <1>1 DEF IndInv, TypeOK, SearchInv
<1>3. LeafInv' /\ LiveInv'
  BY <1>1, SameTree
<1>4. index' = index + 1 /\ index' \in Node /\ Ancestors(index') = Ancestors(index)
  <2>1. index + 1 \in Node /\ Inc(index) = Sibling(index) /\ index # 0
    BY <1>1, <1>2, NodeFacts
  <2>2. Sibling(index) = index + 1
    BY <1>1 DEF Sibling
  <2> QED
    BY <1>1, <1>2, <2>1, <2>2, SiblingAncestors
<1>5. TypeOK'
  BY <1>1, <1>4 DEF IndInv, TypeOK
<1>6. SearchInv'
  <2>1. index <= index + 1
    BY <1>2, NodeFacts
  <2>2. LengthAt(length, level, index + 1)
    BY <1>2, <1>4, <2>1, LengthToTheRight
  <2>3. LengthAt(length', level', index')
    BY <1>1, <1>4, <2>2
  <2> QED
    BY <1>1, <1>2, <1>4, <2>3 DEF SearchInv, AncestorsIn, LengthAt
<1>7. MarkInv' /\ WalkInv' /\ CombineInv' /\ MergeInv' /\ UsedSizeAnswer' /\ AbortOnlyBehind'
  BY <1>1 DEF MarkInv, WalkInv, CombineInv, MergeInv, UsedSizeAnswer, AbortOnlyBehind
<1> QED
  BY <1>3, <1>5, <1>6, <1>7 DEF IndInv

LEMMA StartClimbStep == ASSUME IndInv, StartClimb PROVE IndInv'
<1>1. /\ pc = "search" /\ pc' = "climb" /\ index' = index
      /\ UNCHANGED <<tree, live>> /\ st' = st /\ used' = used /\ live' = live
      /\ op' = op /\ arg' = arg /\ length' = length /\ level' = level
      /\ size' = size /\ left' = left /\ offset' = offset /\ ret' = ret
  BY DEF StartClimb, tree, locals
<1>2. LeafInv' /\ LiveInv'
  BY <1>1, SameTree
<1>3. TypeOK'
  BY <1>1 DEF IndInv, TypeOK
<1>4. SearchInv'
  BY <1>1 DEF IndInv, SearchInv, AncestorsIn, LengthAt
<1>5. MarkInv' /\ WalkInv' /\ CombineInv' /\ MergeInv' /\ UsedSizeAnswer' /\ AbortOnlyBehind'
  BY <1>1 DEF MarkInv, WalkInv, CombineInv, MergeInv, UsedSizeAnswer, AbortOnlyBehind
<1> QED
  BY <1>2, <1>3, <1>4, <1>5 DEF IndInv

LEMMA ClimbStep == ASSUME IndInv, Climb PROVE IndInv'
<1>1. /\ pc = "climb" /\ pc' \in {"climb", "search"}
      /\ length' = Dbl(length) /\ level' = IF Dbl(length) = 0 THEN level ELSE level - 1
      /\ UNCHANGED <<tree, live>> /\ st' = st /\ used' = used /\ live' = live
      /\ op' = op /\ arg' = arg
      /\ size' = size /\ left' = left /\ offset' = offset /\ ret' = ret
  BY DEF Climb, Followed, tree
<1>2. index' = IF Odd(Parent(index)) THEN Inc(Parent(index)) ELSE Parent(index)
  BY DEF Climb, Followed
<1>3. /\ index \in Node /\ arg \in Requests /\ op = "alloc" /\ size = PagesOf[arg] /\ size <= N
      /\ AncestorsIn(index, {NODE_SPLIT}) /\ LengthAt(length, level, index)
  BY <1>1 DEF IndInv, TypeOK, SearchInv
<1>4. LeafInv' /\ LiveInv'
  BY <1>1, SameTree
<1>5. /\ index' \in Node /\ (index # 0 => Parent(index) <= index')
      /\ Ancestors(index') \subseteq Ancestors(index)
  <2>1. CASE index = 0
    <3>1. index' = 0
      BY <1>2, <1>3, <2>1, NodeFacts
    <3> QED
      BY <1>3, <2>1, <3>1
  <2>2. CASE index # 0
    <3>1. Parent(index) \in Node /\ Ancestors(Parent(index)) \subseteq Ancestors(index)
      BY <1>3, <2>2, NodeFacts, ParentAncestors
    <3>2. CASE Odd(Parent(index))
      <4>1. /\ Inc(Parent(index)) = Sibling(Parent(index)) /\ Parent(index) # 0
            /\ Parent(index) + 1 \in Node
        BY <3>1, <3>2, NodeFacts
      <4>2. Sibling(Parent(index)) = Parent(index) + 1 /\ Parent(index) \in Nat
        BY <3>1, <3>2, NodeFacts DEF Sibling
      <4> QED
        BY <1>2, <3>1, <3>2, <4>1, <4>2, SiblingAncestors
    <3>3. CASE ~ Odd(Parent(index))
      BY <1>2, <3>1, <3>3, NodeFacts
    <3> QED
      BY <3>2, <3>3
  <2> QED
    BY <2>1, <2>2
<1>6. TypeOK'
  <2>1. length' \in 0 .. Word - 1 /\ level' \in Int
    BY <1>1, ArenaFacts DEF IndInv, TypeOK, Dbl
  <2> QED
    BY <1>1, <1>5, <2>1 DEF IndInv, TypeOK
<1>7. SearchInv'
  <2>1. LengthAt(length', level', index')
    BY <1>1, <1>3, <1>5, LengthUp
  <2> QED
    BY <1>1, <1>3, <1>5, <2>1 DEF SearchInv, AncestorsIn, LengthAt
<1>8. MarkInv' /\ WalkInv' /\ CombineInv' /\ MergeInv' /\ UsedSizeAnswer' /\ AbortOnlyBehind'
  BY <1>1 DEF MarkInv, WalkInv, CombineInv, MergeInv, UsedSizeAnswer, AbortOnlyBehind
<1> QED
  BY <1>4, <1>6, <1>7, <1>8 DEF IndInv

LEMMA MarkParentStep == ASSUME IndInv, MarkParent PROVE IndInv'
<1> DEFINE p == Parent(index)
<1>1. /\ pc = "mark" /\ SiblingBusy /\ index' = p
      /\ st' = [st EXCEPT ![p] = NODE_FULL]
      /\ used' = used /\ live' = live /\ length' = length /\ level' = level
      /\ pc' = pc /\ op' = op /\ arg' = arg
      /\ size' = size /\ left' = left /\ offset' = offset /\ ret' = ret
  BY DEF MarkParent
<1>2. index \in Node /\ op = "alloc" /\ Attached(index) /\ st \in [Node -> NodeState] /\ live \subseteq Block
  BY <1>1 DEF IndInv, TypeOK, MarkInv
<1>3. index # 0
  BY <1>1, <1>2, NodeFacts DEF SiblingBusy
<1>4. /\ p \in Node /\ RightChild(p) \in Node
      /\ Ancestors(index) = Ancestors(p) \cup {p} /\ st[p] \in Divided
  BY <1>2, <1>3, NodeFacts, ParentAncestors DEF Attached, AncestorsIn
<1>5. /\ \A i \in Node : i # p => st'[i] = st[i]
      /\ st'[p] = NODE_FULL /\ st' \in [Node -> NodeState]
  BY <1>1, <1>2, <1>4 DEF NodeState, NODE_FULL
<1>6. ASSUME NEW i \in Node, Attached(i) PROVE Attached(i)'
  BY <1>5, <1>6, AncestorNodes DEF Attached, AncestorsIn, Divided
<1>7. TypeOK'
  BY <1>1, <1>4, <1>5 DEF IndInv, TypeOK
<1>8. LeafInv'
  BY <1>4, <1>5 DEF IndInv, LeafInv
<1>9. LiveInv'
  <2>1. ASSUME NEW b \in live PROVE BlockInv(b)'
    <3>1. BlockInv(b) /\ b.node \in Node
      BY <1>2 DEF IndInv, LiveInv, Block
    <3>2. b.node # p
      BY <1>4, <3>1 DEF BlockInv, Divided, NODE_USED, NODE_SPLIT, NODE_FULL
    <3> QED
      BY <1>1, <1>5, <1>6, <3>1, <3>2 DEF BlockInv
  <2> QED
    BY <1>1, <2>1 DEF IndInv, LiveInv
<1>10. MarkInv'
  <2>1. Attached(p)
    BY <1>2, <1>4 DEF Attached, AncestorsIn
  <2> QED
    BY <1>1, <1>2, <1>4, <1>6, <2>1 DEF MarkInv
<1>11. SearchInv' /\ WalkInv' /\ CombineInv' /\ MergeInv' /\ UsedSizeAnswer' /\ AbortOnlyBehind'
  BY <1>1 DEF SearchInv, WalkInv, CombineInv, MergeInv, UsedSizeAnswer, AbortOnlyBehind
<1> QED
  BY <1>7, <1>8, <1>9, <1>10, <1>11 DEF IndInv

LEMMA MarkDoneStep == ASSUME IndInv, MarkDone PROVE IndInv'
<1>1. /\ pc = "mark" /\ pc' = "return" /\ index' = index /\ op = "alloc"
      /\ UNCHANGED <<tree, live>> /\ st' = st /\ used' = used /\ live' = live
      /\ op' = op /\ arg' = arg /\ length' = length /\ level' = level
      /\ size' = size /\ left' = left /\ offset' = offset /\ ret' = ret
  BY DEF MarkDone, tree, locals, IndInv, MarkInv
<1>2. LeafInv' /\ LiveInv'
  BY <1>1, SameTree
<1>3. TypeOK'
  BY <1>1 DEF IndInv, TypeOK
<1>4. /\ SearchInv' /\ MarkInv' /\ WalkInv' /\ CombineInv' /\ MergeInv'
      /\ UsedSizeAnswer' /\ AbortOnlyBehind'
  BY <1>1 DEF SearchInv, MarkInv, WalkInv, CombineInv, MergeInv, UsedSizeAnswer, AbortOnlyBehind
<1> QED
  BY <1>2, <1>3, <1>4 DEF IndInv

-----------------------------------------------------------------------------
(* The walk *)

\* The node a walk is at, and the node of the block it looks for, share the page
\* the walk looks for; what that says depends on the state of the node.
LEMMA WalkMeetsBlock ==
  ASSUME IndInv, pc = "walk", op # "page_size"
  PROVE  \E b \in live :
           /\ b.off = arg /\ b.node \in Node /\ BlockInv(b)
           /\ st[index] = NODE_USED => b.node = index /\ left = offset
           /\ st[index] # NODE_UNUSED
<1>1. /\ index \in Node /\ left \in Nat /\ offset \in Nat /\ offset = arg
      /\ Attached(index) /\ left + N = (index + 1) * length
      /\ left <= offset /\ offset < left + length
  BY DEF IndInv, TypeOK, WalkInv
<1>2. PICK b \in live : b.off = arg
  BY DEF IndInv, WalkInv
<1>3. BlockInv(b) /\ b.node \in Node /\ b.off \in Nat
  BY DEF IndInv, TypeOK, LiveInv, Block
<1>4. PICK i \in 0 .. L : length = P[i]
  BY DEF IndInv, WalkInv
<1>5. PICK j \in 0 .. L : b.pages = P[j]
  BY <1>3 DEF BlockInv
<1>6. /\ P[i] \in Nat \ {0} /\ P[j] \in Nat \ {0} /\ N \in Nat
      /\ index + 1 \in Nat /\ b.node + 1 \in Nat /\ index \in Nat /\ b.node \in Nat
  BY <1>1, <1>3, ArenaFacts, NodeFacts
<1>7. Spans(index, i, offset + N)
  <2>1. (index + 2) * P[i] = (index + 1) * P[i] + P[i]
    BY <1>6
  <2>2. (index + 1) * P[i] \in Nat
    BY <1>6
  <2> QED
    BY <1>1, <1>4, <1>6, <2>1, <2>2 DEF Spans
<1>8. Spans(b.node, j, offset + N) /\ (b.node + 1) * P[j] = offset + N
  <2>1. (b.node + 2) * P[j] = (b.node + 1) * P[j] + P[j]
    BY <1>6
  <2>2. (b.node + 1) * P[j] \in Nat
    BY <1>6
  <2>3. offset + N = (b.node + 1) * P[j]
    BY <1>1, <1>2, <1>3, <1>5 DEF BlockInv
  <2> QED
    BY <1>6, <2>1, <2>2, <2>3 DEF Spans
<1>9. /\ i = j => index = b.node
      /\ i < j => b.node \in Ancestors(index)
      /\ j < i => index \in Ancestors(b.node)
  <2>1. offset + N \in Nat
    BY <1>1, <1>6
  <2> QED
    BY <1>1, <1>3, <1>7, <1>8, <2>1, NodesMeet
<1>10. st[b.node] = NODE_USED /\ b.node \notin Ancestors(index)
  BY <1>1, <1>3 DEF BlockInv, Attached, AncestorsIn, Divided, NODE_USED, NODE_SPLIT, NODE_FULL
<1>11. index \in Ancestors(b.node) => st[index] \in Divided
  BY <1>3 DEF BlockInv, Attached, AncestorsIn
<1>12. CASE j < i
  BY <1>2, <1>3, <1>9, <1>11, <1>12 DEF Divided, NODE_UNUSED, NODE_USED, NODE_SPLIT, NODE_FULL
<1>13. CASE i = j
  <2>1. left + N = offset + N
    BY <1>1, <1>4, <1>8, <1>9, <1>13
  <2>2. left = offset
    BY <1>1, <1>6, <2>1
  <2> QED
    BY <1>2, <1>3, <1>9, <1>10, <1>13, <2>2 DEF NODE_UNUSED, NODE_USED
<1> QED
  BY <1>9, <1>10, <1>12, <1>13

LEMMA WalkDownStep == ASSUME IndInv, WalkDown PROVE IndInv'
<1> DEFINE half == length \div 2
<1>1. /\ pc = "walk" /\ st[index] \in Divided /\ length' = half
      /\ UNCHANGED <<tree, live>> /\ st' = st /\ used' = used /\ live' = live
      /\ pc' = pc /\ op' = op /\ arg' = arg /\ size' = size /\ level' = level
      /\ offset' = offset /\ ret' = ret
      /\ \/ offset < left + half /\ left' = left /\ index' = LeftChild(index)
         \/ ~ (offset < left + half) /\ left' = left + half /\ index' = RightChild(index)
  BY DEF WalkDown, tree, Divided
<1>2. /\ index \in Node /\ left \in Nat /\ offset \in Nat /\ length \in Nat
      /\ Attached(index) /\ left + N = (index + 1) * length
      /\ left <= offset /\ offset < left + length /\ offset < N
      /\ op \in {"free", "used_size", "page_size"} /\ (op # "page_size" => offset = arg)
      /\ \E b \in live : b.off = arg
  BY <1>1 DEF IndInv, TypeOK, WalkInv
<1>3. LeafInv' /\ LiveInv'
  BY <1>1, SameTree
<1>4. RightChild(index) \in Node
  BY <1>1, <1>2 DEF IndInv, LeafInv, Divided, NODE_SPLIT, NODE_FULL, NODE_UNUSED, NODE_USED
<1>5. index' \in Node /\ Ancestors(index') = Ancestors(index) \cup {index}
  <2>1. ASSUME NEW c \in {LeftChild(index), RightChild(index)}
        PROVE  c \in Node /\ Ancestors(c) = Ancestors(index) \cup {index}
    BY <1>2, <1>4, NodeFacts, ParentAncestors
  <2> QED
    BY <1>1, <2>1
<1>6. PICK j \in 0 .. L : length = P[j]
  BY <1>1 DEF IndInv, WalkInv
<1>7. j # 0
  <2>1. SUFFICES ASSUME j = 0 PROVE FALSE
    OBVIOUS
  <2>2. left + N = index + 1
    BY <1>2, <1>6, <2>1, NodeFacts, SizeAssumption
  <2> QED
    BY <1>2, <1>4, <2>2, ArenaFacts DEF Node, RightChild
<1>8. j - 1 \in 0 .. L /\ half = P[j - 1] /\ half \in Nat \ {0} /\ length = 2 * half
  <2>1. j - 1 \in 0 .. L /\ j - 1 \in 0 .. W - 1 /\ j - 1 \in 0 .. W /\ (j - 1) + 1 = j
    BY <1>7, ArenaFacts
  <2>2. P[j] = 2 * P[j - 1] /\ P[j - 1] \in Nat \ {0}
    BY <2>1, ArenaFacts, SizeAssumption
  <2> QED
    BY <1>6, <2>1, <2>2
<1>9. left' + N = (index' + 1) * half
  <2>1. left + N = (index + 1) * (2 * half) /\ index \in Nat /\ N \in Nat
    BY <1>2, <1>8, NodeFacts, ArenaFacts
  <2>2. (index + 1) * (2 * half) = (LeftChild(index) + 1) * half
    BY <1>8, <2>1 DEF LeftChild
  <2>3. (index + 1) * (2 * half) + half = (RightChild(index) + 1) * half
    BY <1>8, <2>1 DEF RightChild
  <2>4. CASE left' = left /\ index' = LeftChild(index)
    BY <2>1, <2>2, <2>4
  <2>5. CASE left' = left + half /\ index' = RightChild(index)
    <3>1. left' + N = (left + N) + half
      BY <1>2, <1>8, <2>1, <2>5
    <3> QED
      BY <2>1, <2>3, <2>5, <3>1
  <2> QED
    BY <1>1, <2>4, <2>5
<1>10. left' \in Nat /\ left' <= offset /\ offset < left' + half
  BY <1>1, <1>2, <1>8
<1>11. TypeOK'
  <2>1. length' \in 0 .. Word - 1
    BY <1>1, <1>8, ArenaFacts DEF IndInv, TypeOK
  <2> QED
    BY <1>1, <1>5, <1>10, <2>1 DEF IndInv, TypeOK
<1>12. WalkInv'
  <2>1. Attached(index)'
    BY <1>1, <1>2, <1>5 DEF Attached, AncestorsIn
  <2> QED
    BY <1>1, <1>2, <1>8, <1>9, <1>10, <2>1 DEF WalkInv
<1>13. SearchInv' /\ MarkInv' /\ CombineInv' /\ MergeInv' /\ UsedSizeAnswer' /\ AbortOnlyBehind'
  BY <1>1 DEF SearchInv, MarkInv, CombineInv, MergeInv, UsedSizeAnswer, AbortOnlyBehind
<1> QED
  BY <1>3, <1>11, <1>12, <1>13 DEF IndInv

LEMMA WalkAbortStep == ASSUME IndInv, WalkAbort PROVE IndInv'
<1>1. /\ pc = "walk" /\ pc' = "abort" /\ index' = index
      /\ st[index] = NODE_UNUSED \/ (st[index] = NODE_USED /\ offset # left)
      /\ UNCHANGED <<tree, live>> /\ st' = st /\ used' = used /\ live' = live
      /\ op' = op /\ arg' = arg /\ length' = length /\ level' = level
      /\ size' = size /\ left' = left /\ offset' = offset /\ ret' = ret
  BY DEF WalkAbort, tree, locals
<1>2. LeafInv' /\ LiveInv'
  BY <1>1, SameTree
<1>3. TypeOK'
  BY <1>1 DEF IndInv, TypeOK
<1>4. AbortOnlyBehind'
  <2>1. op = "page_size"
    BY <1>1, WalkMeetsBlock
  <2> QED
    BY <1>1, <2>1 DEF AbortOnlyBehind
<1>5. SearchInv' /\ MarkInv' /\ WalkInv' /\ CombineInv' /\ MergeInv' /\ UsedSizeAnswer'
  BY <1>1 DEF SearchInv, MarkInv, WalkInv, CombineInv, MergeInv, UsedSizeAnswer
<1> QED
  BY <1>2, <1>3, <1>4, <1>5 DEF IndInv

LEMMA QueryFoundStep == ASSUME IndInv, QueryFound PROVE IndInv'
<1>1. /\ pc = "walk" /\ pc' = "return" /\ index' = index
      /\ st[index] = NODE_USED /\ op # "free"
      /\ ret' = Answer(op)
      /\ UNCHANGED <<tree, live>> /\ st' = st /\ used' = used /\ live' = live
      /\ op' = op /\ arg' = arg /\ length' = length /\ level' = level
      /\ size' = size /\ left' = left /\ offset' = offset
  BY DEF QueryFound, tree, locals
<1>2. LeafInv' /\ LiveInv'
  BY <1>1, SameTree
<1>3. TypeOK'
  <2>1. ret' \in Int
    BY <1>1, RequestAssumption, ArenaFacts DEF IndInv, TypeOK, Answer
  <2> QED
    BY <1>1, <2>1 DEF IndInv, TypeOK
<1>4. UsedSizeAnswer'
  <2>1. SUFFICES ASSUME op = "used_size" PROVE \E b \in live : b.off = arg /\ b.used = ret'
    BY <1>1 DEF UsedSizeAnswer
  <2>2. PICK b \in live : b.off = arg /\ BlockInv(b) /\ b.node = index
    BY <1>1, <2>1, WalkMeetsBlock
  <2> QED
    BY <1>1, <2>1, <2>2 DEF BlockInv, Answer
<1>5. SearchInv' /\ MarkInv' /\ WalkInv' /\ CombineInv' /\ MergeInv' /\ AbortOnlyBehind'
  BY <1>1 DEF SearchInv, MarkInv, WalkInv, CombineInv, MergeInv, AbortOnlyBehind
<1> QED
  BY <1>2, <1>3, <1>4, <1>5 DEF IndInv

LEMMA FreeFoundStep == ASSUME IndInv, FreeFound PROVE IndInv'
<1>1. /\ pc = "walk" /\ pc' = "combine" /\ index' = index /\ op = "free"
      /\ st[index] = NODE_USED /\ live' = {b \in live : b.off # arg}
      /\ st' = st /\ used' = used
      /\ op' = op /\ arg' = arg /\ length' = length /\ level' = level
      /\ size' = size /\ left' = left /\ offset' = offset /\ ret' = ret
  BY DEF FreeFound, tree, locals
<1>2. PICK f \in live : f.off = arg /\ f.node = index
  BY <1>1, WalkMeetsBlock
<1>3. index \in Node /\ Attached(index)
  BY <1>1 DEF IndInv, TypeOK, WalkInv
<1>4. live' \subseteq live
  BY <1>1
<1>5. TypeOK'
  BY <1>1, <1>4 DEF IndInv, TypeOK
<1>6. LeafInv'
  BY <1>1 DEF IndInv, LeafInv
<1>7. LiveInv'
  <2>1. ASSUME NEW b \in live PROVE BlockInv(b)'
    BY <1>1 DEF IndInv, LiveInv, BlockInv, Attached, AncestorsIn
  <2> QED
    BY <1>4, <2>1 DEF IndInv, LiveInv
<1>8. CombineInv'
  <2>1. ASSUME NEW b \in live' PROVE b.node # index /\ index \notin Ancestors(b.node)
    <3>1. b \in live /\ b # f
      BY <1>1, <1>2
    <3>2. b.node # index /\ BlockInv(b)
      BY <1>2, <3>1 DEF IndInv, LiveInv
    <3> QED
      BY <1>1, <3>2 DEF BlockInv, Attached, AncestorsIn, Divided, NODE_USED, NODE_SPLIT, NODE_FULL
  <2>2. Attached(index)'
    BY <1>1, <1>3 DEF Attached, AncestorsIn
  <2> QED
    BY <1>1, <2>1, <2>2 DEF CombineInv
<1>9. SearchInv' /\ MarkInv' /\ WalkInv' /\ MergeInv' /\ UsedSizeAnswer' /\ AbortOnlyBehind'
  BY <1>1 DEF SearchInv, MarkInv, WalkInv, MergeInv, UsedSizeAnswer, AbortOnlyBehind
<1> QED
  BY <1>5, <1>6, <1>7, <1>8, <1>9 DEF IndInv

-----------------------------------------------------------------------------
(* Merging *)

LEMMA CombineUpStep == ASSUME IndInv, CombineUp PROVE IndInv'
<1> DEFINE p == Parent(index)
           s == Sibling(index)
<1>1. /\ pc = "combine" /\ SiblingUnused /\ index' = p
      /\ UNCHANGED <<tree, live>> /\ st' = st /\ used' = used /\ live' = live
      /\ pc' = pc /\ op' = op /\ arg' = arg /\ length' = length /\ level' = level
      /\ size' = size /\ left' = left /\ offset' = offset /\ ret' = ret
  BY DEF CombineUp, tree
<1>2. /\ index \in Node /\ op = "free" /\ Attached(index) /\ live \subseteq Block
      /\ \A b \in live : b.node # index /\ index \notin Ancestors(b.node)
  BY <1>1 DEF IndInv, TypeOK, CombineInv
<1>3. index # 0 /\ st[s] = NODE_UNUSED
  BY <1>1, <1>2, NodeFacts DEF SiblingUnused
<1>4. p \in Node /\ s \in Node /\ Ancestors(index) = Ancestors(p) \cup {p}
  BY <1>2, <1>3, NodeFacts, ParentAncestors
<1>5. LeafInv' /\ LiveInv'
  BY <1>1, SameTree
<1>6. TypeOK'
  BY <1>1, <1>4 DEF IndInv, TypeOK
<1>7. ASSUME NEW b \in live PROVE b.node # p /\ p \notin Ancestors(b.node)
  <2>1. BlockInv(b) /\ b.node \in Node
    BY <1>2 DEF IndInv, LiveInv, Block
  <2>2. b.node # p
    BY <1>2, <1>4, <2>1
       DEF BlockInv, Attached, AncestorsIn, Divided, NODE_USED, NODE_SPLIT, NODE_FULL
  <2>3. b.node # s /\ s \notin Ancestors(b.node)
    BY <1>3, <2>1 DEF BlockInv, Attached, AncestorsIn, Divided,
                      NODE_UNUSED, NODE_USED, NODE_SPLIT, NODE_FULL
  <2>4. p \notin Ancestors(b.node)
    BY <1>2, <1>3, <2>1, <2>3, AncestorChild
  <2> QED
    BY <2>2, <2>4
<1>8. CombineInv'
  <2>1. Attached(index)'
    BY <1>1, <1>2, <1>4 DEF Attached, AncestorsIn
  <2> QED
    BY <1>1, <1>2, <1>7, <2>1 DEF CombineInv
<1>9. SearchInv' /\ MarkInv' /\ WalkInv' /\ MergeInv' /\ UsedSizeAnswer' /\ AbortOnlyBehind'
  BY <1>1 DEF SearchInv, MarkInv, WalkInv, MergeInv, UsedSizeAnswer, AbortOnlyBehind
<1> QED
  BY <1>5, <1>6, <1>8, <1>9 DEF IndInv

LEMMA CombineClearStep == ASSUME IndInv, CombineClear PROVE IndInv'
<1>1. /\ pc = "combine" /\ pc' = "unfull" /\ index' = index
      /\ st' = [st EXCEPT ![index] = NODE_UNUSED]
      /\ used' = used /\ live' = live
      /\ op' = op /\ arg' = arg /\ length' = length /\ level' = level
      /\ size' = size /\ left' = left /\ offset' = offset /\ ret' = ret
  BY DEF CombineClear, locals
<1>2. /\ index \in Node /\ op = "free" /\ st \in [Node -> NodeState] /\ live \subseteq Block
      /\ \A b \in live : b.node # index /\ index \notin Ancestors(b.node)
  BY <1>1 DEF IndInv, TypeOK, CombineInv
<1>3. /\ \A i \in Node : i # index => st'[i] = st[i]
      /\ st'[index] = NODE_UNUSED /\ st' \in [Node -> NodeState]
  BY <1>1, <1>2 DEF NodeState, NODE_UNUSED
<1>4. TypeOK'
  BY <1>1, <1>3 DEF IndInv, TypeOK
<1>5. LeafInv'
  BY <1>2, <1>3 DEF IndInv, LeafInv
<1>6. LiveInv'
  <2>1. ASSUME NEW b \in live PROVE BlockInv(b)'
    <3>1. BlockInv(b) /\ b.node \in Node
      BY <1>2 DEF IndInv, LiveInv, Block
    <3>2. \A a \in Ancestors(b.node) : st'[a] = st[a]
      BY <1>2, <1>3, <3>1, AncestorNodes
    <3> QED
      BY <1>1, <1>2, <1>3, <3>1, <3>2 DEF BlockInv, Attached, AncestorsIn
  <2> QED
    BY <1>1, <2>1 DEF IndInv, LiveInv
<1>7. MergeInv'
  BY <1>1, <1>2 DEF MergeInv
<1>8. SearchInv' /\ MarkInv' /\ WalkInv' /\ CombineInv' /\ UsedSizeAnswer' /\ AbortOnlyBehind'
  BY <1>1 DEF SearchInv, MarkInv, WalkInv, CombineInv, UsedSizeAnswer, AbortOnlyBehind
<1> QED
  BY <1>4, <1>5, <1>6, <1>7, <1>8 DEF IndInv

LEMMA UnfullStep == ASSUME IndInv, Unfull PROVE IndInv'
<1> DEFINE p == Parent(index)
<1>1. /\ pc = "unfull" /\ pc' = pc /\ index' = p /\ StateAt(p) = NODE_FULL
      /\ st' = [st EXCEPT ![p] = NODE_SPLIT]
      /\ used' = used /\ live' = live
      /\ op' = op /\ arg' = arg /\ length' = length /\ level' = level
      /\ size' = size /\ left' = left /\ offset' = offset /\ ret' = ret
  BY DEF Unfull
<1>2. /\ index \in Node /\ op = "free" /\ st \in [Node -> NodeState] /\ live \subseteq Block
  BY <1>1 DEF IndInv, TypeOK, MergeInv
<1>3. p \in Node /\ st[p] = NODE_FULL
  <2>1. index # 0
    BY <1>1, <1>2, NodeFacts, LevelByteAssumption DEF StateAt
  <2>2. p \in Node /\ p # Word - 1
    BY <1>2, <2>1, NodeFacts, ArenaFacts DEF Node
  <2> QED
    BY <1>1, <2>2 DEF StateAt
<1>4. /\ \A i \in Node : i # p => st'[i] = st[i]
      /\ st'[p] = NODE_SPLIT /\ st' \in [Node -> NodeState]
  BY <1>1, <1>2, <1>3 DEF NodeState, NODE_SPLIT
<1>5. TypeOK'
  BY <1>1, <1>3, <1>4 DEF IndInv, TypeOK
<1>6. LeafInv'
  BY <1>3, <1>4 DEF IndInv, LeafInv, NODE_FULL, NODE_USED, NODE_UNUSED
<1>7. LiveInv'
  <2>1. ASSUME NEW b \in live PROVE BlockInv(b)'
    <3>1. BlockInv(b) /\ b.node \in Node
      BY <1>2 DEF IndInv, LiveInv, Block
    <3>2. b.node # p
      BY <1>3, <3>1 DEF BlockInv, NODE_USED, NODE_FULL
    <3>3. \A a \in Ancestors(b.node) : st'[a] \in Divided
      BY <1>3, <1>4, <3>1, AncestorNodes DEF BlockInv, Attached, AncestorsIn, Divided
    <3> QED
      BY <1>1, <1>4, <3>1, <3>2, <3>3 DEF BlockInv, Attached, AncestorsIn
  <2> QED
    BY <1>1, <2>1 DEF IndInv, LiveInv
<1>8. MergeInv'
  BY <1>1, <1>2 DEF MergeInv
<1>9. SearchInv' /\ MarkInv' /\ WalkInv' /\ CombineInv' /\ UsedSizeAnswer' /\ AbortOnlyBehind'
  BY <1>1 DEF SearchInv, MarkInv, WalkInv, CombineInv, UsedSizeAnswer, AbortOnlyBehind
<1> QED
  BY <1>5, <1>6, <1>7, <1>8, <1>9 DEF IndInv

LEMMA UnfullDoneStep == ASSUME IndInv, UnfullDone PROVE IndInv'
<1>1. /\ pc = "unfull" /\ pc' = "return" /\ index' = index /\ op = "free"
      /\ UNCHANGED <<tree, live>> /\ st' = st /\ used' = used /\ live' = live
      /\ op' = op /\ arg' = arg /\ length' = length /\ level' = level
      /\ size' = size /\ left' = left /\ offset' = offset /\ ret' = ret
  BY DEF UnfullDone, tree, locals, IndInv, MergeInv
<1>2. LeafInv' /\ LiveInv'
  BY <1>1, SameTree
<1>3. TypeOK'
  BY <1>1 DEF IndInv, TypeOK
<1>4. /\ SearchInv' /\ MarkInv' /\ WalkInv' /\ CombineInv' /\ MergeInv'
      /\ UsedSizeAnswer' /\ AbortOnlyBehind'
  BY <1>1 DEF SearchInv, MarkInv, WalkInv, CombineInv, MergeInv, UsedSizeAnswer, AbortOnlyBehind
<1> QED
  BY <1>2, <1>3, <1>4 DEF IndInv

-----------------------------------------------------------------------------
(* Calls and returns *)

LEMMA ReturnStep == ASSUME IndInv, Return PROVE IndInv'
<1>1. /\ pc' = "idle" /\ op' = "none" /\ arg' = 0 /\ ret' = 0 /\ index' = 0
      /\ UNCHANGED <<tree, live>> /\ st' = st /\ used' = used /\ live' = live
      /\ size' = 0 /\ level' = 0 /\ length' = 0 /\ left' = 0 /\ offset' = 0
  BY DEF Return, tree
<1>2. LeafInv' /\ LiveInv'
  BY <1>1, SameTree
<1>3. TypeOK'
  BY <1>1, ArenaFacts DEF IndInv, TypeOK, Node
<1>4. /\ SearchInv' /\ MarkInv' /\ WalkInv' /\ CombineInv' /\ MergeInv'
      /\ UsedSizeAnswer' /\ AbortOnlyBehind'
  BY <1>1 DEF SearchInv, MarkInv, WalkInv, CombineInv, MergeInv, UsedSizeAnswer, AbortOnlyBehind
<1> QED
  BY <1>2, <1>3, <1>4 DEF IndInv

LEMMA AllocTooLargeStep ==
  ASSUME IndInv, NEW s \in Requests, AllocTooLarge(s) PROVE IndInv'
<1>1. /\ pc' = "return" /\ op' = "alloc" /\ arg' = s /\ ret' = -1 /\ index' = index
      /\ UNCHANGED <<tree, live>> /\ st' = st /\ used' = used /\ live' = live
      /\ length' = length /\ level' = level
      /\ size' = size /\ left' = left /\ offset' = offset
  BY DEF AllocTooLarge, tree, locals, Fail
<1>2. LeafInv' /\ LiveInv'
  BY <1>1, SameTree
<1>3. TypeOK'
  <2>1. s \in Nat /\ -1 \in Int
    BY RequestAssumption
  <2> QED
    BY <1>1, <2>1 DEF IndInv, TypeOK
<1>4. /\ SearchInv' /\ MarkInv' /\ WalkInv' /\ CombineInv' /\ MergeInv'
      /\ UsedSizeAnswer' /\ AbortOnlyBehind'
  BY <1>1 DEF SearchInv, MarkInv, WalkInv, CombineInv, MergeInv, UsedSizeAnswer, AbortOnlyBehind
<1> QED
  BY <1>2, <1>3, <1>4 DEF IndInv

LEMMA AllocStartStep ==
  ASSUME IndInv, NEW s \in Requests, AllocStart(s) PROVE IndInv'
<1>1. /\ pc' = "search" /\ op' = "alloc" /\ arg' = s /\ ret' = ret /\ index' = 0
      /\ UNCHANGED <<tree, live>> /\ st' = st /\ used' = used /\ live' = live
      /\ length' = N /\ level' = 0 /\ size' = PagesOf[s] /\ PagesOf[s] <= N
      /\ left' = left /\ offset' = offset
  BY DEF AllocStart, tree
<1>2. LeafInv' /\ LiveInv'
  BY <1>1, SameTree
<1>3. TypeOK'
  <2>1. s \in Nat /\ PagesOf[s] \in Nat
    BY RequestAssumption
  <2>2. 0 \in Node /\ N \in 0 .. Word - 1
    BY ArenaFacts DEF Node
  <2> QED
    BY <1>1, <2>1, <2>2 DEF IndInv, TypeOK
<1>4. SearchInv'
  <2>1. LengthAt(length', level', index')
    BY <1>1, LengthAtRoot
  <2> QED
    BY <1>1, <2>1, RootAncestors DEF SearchInv, AncestorsIn, LengthAt
<1>5. MarkInv' /\ WalkInv' /\ CombineInv' /\ MergeInv' /\ UsedSizeAnswer' /\ AbortOnlyBehind'
  BY <1>1 DEF MarkInv, WalkInv, CombineInv, MergeInv, UsedSizeAnswer, AbortOnlyBehind
<1> QED
  BY <1>2, <1>3, <1>4, <1>5 DEF IndInv

LEMMA WalkStartStep ==
  ASSUME IndInv, NEW o \in {"free", "used_size", "page_size"}, NEW b \in live, WalkStart(o, b)
  PROVE  IndInv'
<1>1. /\ pc' = (IF WalkOffset(o, b) < N THEN "walk" ELSE "abort")
      /\ op' = o /\ arg' = b.off /\ offset' = WalkOffset(o, b) /\ ret' = ret /\ index' = 0
      /\ UNCHANGED <<tree, live>> /\ st' = st /\ used' = used /\ live' = live
      /\ length' = N /\ left' = 0 /\ level' = level /\ size' = size
  BY DEF WalkStart, tree
<1>2. LeafInv' /\ LiveInv'
  BY <1>1, SameTree
<1>3. /\ b.off \in Nat /\ WalkOffset(o, b) \in Nat
      /\ o # "page_size" => WalkOffset(o, b) = b.off
  <2>1. b.off \in Nat
    BY DEF IndInv, TypeOK, Block
  <2>2. b.off * PAGE \in Nat
    BY <2>1, RequestAssumption
  <2> QED
    BY <2>1, <2>2 DEF WalkOffset
<1>4. TypeOK'
  <2>1. 0 \in Node /\ N \in 0 .. Word - 1
    BY ArenaFacts DEF Node
  <2> QED
    BY <1>1, <1>3, <2>1 DEF IndInv, TypeOK
<1>5. WalkInv'
  <2>1. SUFFICES ASSUME WalkOffset(o, b) < N PROVE WalkInv'
    BY <1>1 DEF WalkInv
  <2>2. Attached(index)'
    BY <1>1, RootAncestors DEF Attached, AncestorsIn
  <2>3. L \in 0 .. L /\ N = P[L] /\ 0 + N = (0 + 1) * N
    BY ArenaFacts DEF N
  <2>4. 0 <= WalkOffset(o, b) /\ WalkOffset(o, b) < 0 + N
    BY <1>3, <2>1, ArenaFacts
  <2>5. \E c \in live : c.off = b.off
    OBVIOUS
  <2>6. \E j \in 0 .. L : N = P[j]
    BY <2>3
  <2> QED
    BY <1>1, <1>3, <2>1, <2>2, <2>3, <2>4, <2>5, <2>6 DEF WalkInv
<1>6. AbortOnlyBehind'
  <2>1. WalkOffset(o, b) < N \/ WalkOffset(o, b) >= N
    BY <1>3, ArenaFacts
  <2> QED
    BY <1>1, <1>3, <2>1 DEF AbortOnlyBehind
<1>7. SearchInv' /\ MarkInv' /\ CombineInv' /\ MergeInv' /\ UsedSizeAnswer'
  BY <1>1 DEF SearchInv, MarkInv, CombineInv, MergeInv, UsedSizeAnswer
<1> QED
  BY <1>2, <1>4, <1>5, <1>6, <1>7 DEF IndInv

-----------------------------------------------------------------------------
(* The inductive invariant *)

LEMMA InitInv == Init => IndInv
<1> SUFFICES ASSUME Init PROVE IndInv
  OBVIOUS
<1>1. 0 \in Node /\ 0 \in 0 .. Word - 1
  BY ArenaFacts DEF Node
<1>2. TypeOK
  BY <1>1 DEF Init, TypeOK, NodeState, NODE_UNUSED
<1>3. LeafInv /\ LiveInv
  BY DEF Init, LeafInv, LiveInv
<1>4. SearchInv /\ MarkInv /\ WalkInv /\ CombineInv /\ MergeInv /\ UsedSizeAnswer /\ AbortOnlyBehind
  BY DEF Init, SearchInv, MarkInv, WalkInv, CombineInv, MergeInv, UsedSizeAnswer, AbortOnlyBehind
<1> QED
  BY <1>2, <1>3, <1>4 DEF IndInv

LEMMA NextInv == IndInv /\ PassInv /\ [Next]_vars => IndInv'
<1> SUFFICES ASSUME IndInv, PassInv, [Next]_vars PROVE IndInv'
  OBVIOUS
<1>1. CASE Search
  BY <1>1, TakeStep, SplitDownStep, DownStep, NextSiblingStep, StartClimbStep, ClimbStep DEF Search
<1>2. CASE Mark
  BY <1>2, MarkParentStep, MarkDoneStep DEF Mark
<1>3. CASE Walk
  BY <1>3, WalkDownStep, WalkAbortStep, QueryFoundStep, FreeFoundStep DEF Walk
<1>4. CASE Merge
  BY <1>4, CombineUpStep, CombineClearStep, UnfullStep, UnfullDoneStep DEF Merge
<1>5. CASE Return
  BY <1>5, ReturnStep
<1>6. CASE Call
  <2>1. CASE \E s \in Requests : AllocTooLarge(s) \/ AllocStart(s)
    BY <2>1, AllocTooLargeStep, AllocStartStep
  <2>2. CASE \E b \in live : WalkStart("free", b)
    BY <2>2, WalkStartStep
  <2>3. CASE \E q \in Queries, b \in live : WalkStart(q, b)
    BY <2>3, WalkStartStep, ClientAssumption
  <2> QED
    BY <1>6, <2>1, <2>2, <2>3 DEF Call
<1>7. CASE UNCHANGED vars
  <2>1. /\ UNCHANGED <<tree, live>> /\ st' = st /\ used' = used /\ live' = live
        /\ pc' = pc /\ op' = op /\ arg' = arg /\ index' = index
        /\ length' = length /\ level' = level
        /\ size' = size /\ left' = left /\ offset' = offset /\ ret' = ret
    BY <1>7 DEF vars, tree
  <2>2. LeafInv' /\ LiveInv'
    BY <2>1, SameTree
  <2>3. TypeOK' /\ SearchInv' /\ MarkInv' /\ MergeInv' /\ UsedSizeAnswer' /\ AbortOnlyBehind'
    BY <2>1 DEF IndInv, TypeOK, SearchInv, MarkInv, MergeInv, UsedSizeAnswer, AbortOnlyBehind,
                Attached, AncestorsIn, LengthAt
  <2>4. WalkInv' /\ CombineInv'
    BY <2>1 DEF IndInv, WalkInv, CombineInv, Attached, AncestorsIn
  <2> QED
    BY <2>2, <2>3, <2>4 DEF IndInv
<1> QED
  BY <1>1, <1>2, <1>3, <1>4, <1>5, <1>6, <1>7 DEF Next, Step

\* What BlockInv says of the pages of a block.
LEMMA BlockPages ==
  ASSUME IndInv, NEW b \in live
  PROVE  /\ b.node \in Node /\ b.off \in Nat /\ BlockInv(b)
         /\ \E j \in 0 .. L :
              /\ b.pages = P[j]
              /\ \A x \in Nat : b.off + N <= x /\ x < b.off + b.pages + N => Spans(b.node, j, x)
<1>1. b.node \in Node /\ b.off \in Nat /\ BlockInv(b)
  BY DEF IndInv, TypeOK, LiveInv, Block
<1>2. PICK j \in 0 .. L : b.pages = P[j]
  BY <1>1 DEF BlockInv
<1>3. /\ P[j] \in Nat /\ N \in Nat /\ b.node + 1 \in Nat /\ b.node \in Nat
      /\ b.off + N = (b.node + 1) * P[j]
  BY <1>1, <1>2, ArenaFacts, NodeFacts DEF BlockInv
<1>4. (b.node + 2) * P[j] = (b.node + 1) * P[j] + P[j]
  BY <1>3
<1>5. ASSUME NEW x \in Nat, b.off + N <= x, x < b.off + b.pages + N PROVE Spans(b.node, j, x)
  BY <1>1, <1>2, <1>3, <1>4, <1>5 DEF Spans
<1> QED
  BY <1>1, <1>2, <1>5

LEMMA Apart == IndInv => NoOverlap
<1> SUFFICES ASSUME IndInv, NEW a \in live, NEW b \in live, a # b
             PROVE  a.off + a.pages <= b.off \/ b.off + b.pages <= a.off
  BY DEF NoOverlap
<1>1. PICK i \in 0 .. L :
        /\ a.pages = P[i]
        /\ \A x \in Nat : a.off + N <= x /\ x < a.off + a.pages + N => Spans(a.node, i, x)
  BY BlockPages
<1>2. PICK j \in 0 .. L :
        /\ b.pages = P[j]
        /\ \A x \in Nat : b.off + N <= x /\ x < b.off + b.pages + N => Spans(b.node, j, x)
  BY BlockPages
<1>3. /\ a.off \in Nat /\ b.off \in Nat /\ a.node \in Node /\ b.node \in Node
      /\ BlockInv(a) /\ BlockInv(b)
  BY BlockPages
<1>4. a.node # b.node
  BY DEF IndInv, LiveInv
<1>5. a.node \notin Ancestors(b.node) /\ b.node \notin Ancestors(a.node)
  BY <1>3 DEF BlockInv, Attached, AncestorsIn, Divided, NODE_USED, NODE_SPLIT, NODE_FULL
<1>6. ASSUME NEW x \in Nat, Spans(a.node, i, x), Spans(b.node, j, x) PROVE FALSE
  <2>1. i = j \/ i < j \/ j < i
    OBVIOUS
  <2> QED
    BY <1>3, <1>4, <1>5, <1>6, <2>1, NodesMeet
<1>7. P[i] \in Nat \ {0} /\ P[j] \in Nat \ {0} /\ N \in Nat
  BY ArenaFacts
<1>8. SUFFICES ASSUME a.off + a.pages > b.off, b.off + b.pages > a.off PROVE FALSE
  BY <1>1, <1>2, <1>3, <1>7
<1>9. CASE a.off <= b.off
  <2>1. b.off + N \in Nat /\ b.off + N < a.off + a.pages + N /\ b.off + N < b.off + b.pages + N
        /\ a.off + N <= b.off + N /\ b.off + N <= b.off + N
    BY <1>1, <1>2, <1>3, <1>7, <1>8, <1>9
  <2> QED
    BY <1>1, <1>2, <1>6, <2>1
<1>10. CASE b.off <= a.off
  <2>1. a.off + N \in Nat /\ a.off + N < a.off + a.pages + N /\ a.off + N < b.off + b.pages + N
        /\ b.off + N <= a.off + N /\ a.off + N <= a.off + N
    BY <1>1, <1>2, <1>3, <1>7, <1>8, <1>10
  <2> QED
    BY <1>1, <1>2, <1>6, <2>1
<1> QED
  BY <1>3, <1>9, <1>10

-----------------------------------------------------------------------------
(* The tree says what is free: TreeInv *)

\* A step that leaves the tree and the blocks alone, outside the ways up.
LEMMA TreeKept ==
  ASSUME TreeInv, st' = st, live' = live,
         pc \notin {"combine", "mark", "unfull"}, pc' \notin {"mark", "unfull"},
         ~ (pc = "search" /\ st[index] = NODE_UNUSED)
  PROVE  TreeInv'
<1> SUFFICES ASSUME NEW i \in Node, Attached(i)'
             PROVE  Backed(i)' /\ NotEmpty(i)' /\ FullAsHalves(i)'
  BY DEF TreeInv, OnTheWayUp
<1>1. Attached(i)
  BY DEF Attached, AncestorsIn
<1>2. Backed(i) /\ NotEmpty(i) /\ FullAsHalves(i)
  BY <1>1 DEF TreeInv
<1> QED
  BY <1>2 DEF Backed, NotEmpty, FullAsHalves, Busy

\* What every step below starts from.
LEMMA TreeFacts ==
  ASSUME IndInv, TreeInv
  PROVE  /\ index \in Node /\ st \in [Node -> NodeState]
         /\ \A i \in Node : st[i] \in Divided => RightChild(i) \in Node /\ Halves(i) \subseteq Node
         /\ \A i \in Node : Attached(i) => Backed(i) /\ NotEmpty(i) /\ FullAsHalves(i)
<1>1. index \in Node /\ st \in [Node -> NodeState]
  BY DEF IndInv, TypeOK
<1>2. ASSUME NEW i \in Node, st[i] \in Divided PROVE RightChild(i) \in Node /\ Halves(i) \subseteq Node
  <2>1. RightChild(i) \in Node
    BY <1>2 DEF IndInv, LeafInv, Divided, NODE_SPLIT, NODE_FULL, NODE_UNUSED, NODE_USED
  <2> QED
    BY <2>1, NodeFacts DEF Halves
<1> QED
  BY <1>1, <1>2 DEF TreeInv

LEMMA TakeTree == ASSUME IndInv, TreeInv, Take PROVE TreeInv'
<1>1. /\ pc = "search" /\ pc' = "mark" /\ index' = index /\ st[index] = NODE_UNUSED
      /\ st' = [st EXCEPT ![index] = NODE_USED]
      /\ live' = live \cup {[node |-> index, off |-> ret', pages |-> size, used |-> arg]}
  BY DEF Take, locals
<1>2. /\ index \in Node /\ AncestorsIn(index, {NODE_SPLIT})
      /\ \A i \in Node \ {index} : st'[i] = st[i]
      /\ st'[index] = NODE_USED
  BY <1>1, TreeFacts DEF IndInv, SearchInv
<1>3. ASSUME NEW i \in Node, Attached(i)' PROVE Attached(i)
  <2>1. \A a \in Ancestors(i) : a \in Node /\ a # index
    BY <1>2, <1>3, AncestorNodes
       DEF Attached, AncestorsIn, Divided, NODE_USED, NODE_SPLIT, NODE_FULL
  <2> QED
    BY <1>2, <1>3, <2>1 DEF Attached, AncestorsIn
<1>4. ASSUME NEW i \in Node, Attached(i)' PROVE Backed(i)' /\ NotEmpty(i)' /\ FullAsHalves(i)'
  <2>1. CASE i = index
    <3>1. Backed(i)'
      <4>1. PICK b : b = [node |-> index, off |-> ret', pages |-> size, used |-> arg]
        OBVIOUS
      <4>2. b \in live' /\ b.node = index
        BY <1>1, <4>1
      <4> QED
        BY <2>1, <4>2 DEF Backed
    <3>2. st'[i] \notin Divided
      BY <1>2, <2>1 DEF Divided, NODE_USED, NODE_SPLIT, NODE_FULL
    <3> QED
      BY <3>1, <3>2 DEF NotEmpty, FullAsHalves
  <2>2. CASE i # index
    <3>1. Backed(i) /\ NotEmpty(i) /\ FullAsHalves(i) /\ st'[i] = st[i]
      BY <1>2, <1>3, <1>4, <2>2, TreeFacts
    <3>2. Backed(i)'
      BY <1>1, <3>1 DEF Backed
    <3>3. ASSUME st[i] \in Divided PROVE NotEmpty(i)' /\ FullAsHalves(i)'
      <4>1. Halves(i) \subseteq Node
        BY <3>3, TreeFacts
      <4>2. \A c \in Halves(i) : c = index \/ st'[c] = st[c]
        BY <1>2, <4>1
      <4>3. NotEmpty(i)'
        BY <1>2, <3>1, <4>2 DEF NotEmpty, NODE_USED, NODE_UNUSED
      <4>4. FullAsHalves(i)'
        BY <1>1, <3>1, <4>2 DEF FullAsHalves, Busy
      <4> QED
        BY <4>3, <4>4
    <3>4. CASE st[i] \notin Divided
      BY <3>1, <3>2, <3>4 DEF NotEmpty, FullAsHalves
    <3> QED
      BY <3>2, <3>3, <3>4
  <2> QED
    BY <2>1, <2>2
<1>5. OnTheWayUp'
  <2>1. \A a \in Ancestors(index) : st'[a] = NODE_SPLIT
    <3>1. index \notin Ancestors(index) /\ Ancestors(index) \subseteq Node
      BY <1>2, NotOwnAncestor, AncestorNodes
    <3> QED
      BY <1>2, <3>1 DEF AncestorsIn
  <2> QED
    BY <1>1, <1>2, <2>1 DEF OnTheWayUp, AncestorsIn, Busy
<1> QED
  BY <1>4, <1>5 DEF TreeInv

LEMMA SplitDownTree == ASSUME IndInv, TreeInv, PassInv, SplitDown PROVE TreeInv'
<1> DEFINE lc == LeftChild(index)
           rc == RightChild(index)
<1>1. /\ pc = "search" /\ pc' = "search" /\ st[index] = NODE_UNUSED /\ rc \in Node
      /\ st' = [st EXCEPT ![index] = NODE_SPLIT, ![lc] = NODE_UNUSED, ![rc] = NODE_UNUSED]
      /\ index' = lc /\ live' = live
  BY RoomBelow DEF SplitDown
<1>2. /\ index \in Node /\ lc \in Node /\ lc # 0 /\ Parent(lc) = index /\ Parent(rc) = index
      /\ lc # index /\ rc # index /\ Halves(index) = {lc, rc} /\ Sibling(lc) = rc
  <2>1. index \in Node /\ lc \in Node
    BY <1>1, TreeFacts, NodeFacts
  <2> QED
    BY <1>1, <2>1, NodeFacts DEF Halves, LeftChild, RightChild, Sibling, Odd
<1>3. /\ \A i \in Node \ {index, lc, rc} : st'[i] = st[i]
      /\ st'[index] = NODE_SPLIT /\ st'[lc] = NODE_UNUSED /\ st'[rc] = NODE_UNUSED
  BY <1>1, <1>2, TreeFacts DEF LeftChild, RightChild
<1>4. ASSUME NEW i \in Node \ {lc, rc}, Attached(i)'
      PROVE  Attached(i) /\ index \notin Ancestors(i)
  <2>1. lc \notin Ancestors(i) /\ rc \notin Ancestors(i)
    BY <1>3, <1>4 DEF Attached, AncestorsIn, Divided, NODE_UNUSED, NODE_SPLIT, NODE_FULL
  <2>2. index \notin Ancestors(i)
    BY <1>2, <2>1, AncestorChild
  <2> QED
    BY <1>3, <1>4, <2>1, <2>2, AncestorNodes DEF Attached, AncestorsIn
<1>5. ASSUME NEW i \in Node, Attached(i)' PROVE Backed(i)' /\ NotEmpty(i)' /\ FullAsHalves(i)'
  <2>1. CASE i \in {lc, rc}
    <3>1. st'[i] = NODE_UNUSED
      BY <1>3, <2>1
    <3> QED
      BY <3>1 DEF Backed, NotEmpty, FullAsHalves, Divided, NODE_UNUSED, NODE_USED, NODE_SPLIT, NODE_FULL
  <2>2. CASE i = index
    <3>1. st'[i] = NODE_SPLIT
      BY <1>3, <2>2
    <3>2. Backed(i)' /\ NotEmpty(i)'
      BY <1>1, <1>2, <1>3, <2>2, <3>1 DEF Backed, NotEmpty, NODE_USED, NODE_SPLIT
    <3>3. FullAsHalves(i)'
      BY <1>2, <1>3, <2>2, <3>1
         DEF FullAsHalves, Busy, NODE_UNUSED, NODE_USED, NODE_SPLIT, NODE_FULL
    <3> QED
      BY <3>2, <3>3
  <2>3. CASE i \notin {index, lc, rc}
    <3>1. Backed(i) /\ NotEmpty(i) /\ FullAsHalves(i) /\ st'[i] = st[i]
      BY <1>3, <1>4, <1>5, <2>3, TreeFacts
    <3>2. Backed(i)'
      BY <1>1, <3>1 DEF Backed
    <3>3. ASSUME st[i] \in Divided PROVE NotEmpty(i)' /\ FullAsHalves(i)'
      <4>1. Halves(i) \subseteq Node
        BY <3>3, TreeFacts
      <4>2. \A c \in Halves(i) : c = index \/ st'[c] = st[c]
        BY <1>2, <1>3, <2>3, <4>1, HalfFacts
      <4>3. NotEmpty(i)'
        BY <1>3, <3>1, <4>2 DEF NotEmpty, NODE_SPLIT, NODE_UNUSED
      <4>4. \A c \in Halves(i) : Busy(c)' <=> Busy(c)
        <5>1. st[index] = NODE_UNUSED /\ st'[index] = NODE_SPLIT
          BY <1>1, <1>3
        <5> QED
          BY <4>2, <5>1 DEF Busy, NODE_UNUSED, NODE_USED, NODE_SPLIT, NODE_FULL
      <4>5. FullAsHalves(i)'
        BY <1>1, <3>1, <4>4 DEF FullAsHalves, Halves
      <4> QED
        BY <4>3, <4>5
    <3>4. CASE st[i] \notin Divided
      BY <3>1, <3>2, <3>4 DEF NotEmpty, FullAsHalves
    <3> QED
      BY <3>2, <3>3, <3>4
  <2> QED
    BY <2>1, <2>2, <2>3
<1> QED
  BY <1>1, <1>5 DEF TreeInv, OnTheWayUp

LEMMA MarkParentTree == ASSUME IndInv, TreeInv, MarkParent PROVE TreeInv'
<1> DEFINE p == Parent(index)
           s == Sibling(index)
<1>1. /\ pc = "mark" /\ pc' = "mark" /\ index' = p /\ live' = live
      /\ s > 0 /\ st[s] \in {NODE_USED, NODE_FULL}
      /\ st' = [st EXCEPT ![p] = NODE_FULL]
  BY DEF MarkParent, SiblingBusy
<1>2. index \in Node /\ AncestorsIn(index, {NODE_SPLIT}) /\ Busy(index)
  BY <1>1, TreeFacts DEF TreeInv, OnTheWayUp
<1>3. /\ index # 0 /\ p \in Node /\ s \in Node /\ Ancestors(index) = Ancestors(p) \cup {p}
      /\ index \in Halves(p)
  BY <1>1, <1>2, NodeFacts, ParentAncestors DEF Halves
<1>4. Halves(p) = {index, s} /\ index # p /\ s # p
  <2>1. Halves(p) = {index, s} /\ index # p
    BY <1>2, <1>3, HalfFacts
  <2> QED
    BY <1>3, <2>1, HalfFacts
<1>5. st[p] = NODE_SPLIT /\ st'[p] = NODE_FULL /\ \A i \in Node \ {p} : st'[i] = st[i]
  BY <1>1, <1>2, <1>3, TreeFacts DEF AncestorsIn
<1>6. ASSUME NEW i \in Node, Attached(i)' PROVE Attached(i)
  <2>1. \A a \in Ancestors(i) : a \in Node /\ st'[a] \in Divided
    BY <1>6, AncestorNodes DEF Attached, AncestorsIn
  <2>2. \A a \in Ancestors(i) : st[a] \in Divided
    BY <1>5, <2>1 DEF Divided
  <2> QED
    BY <2>2 DEF Attached, AncestorsIn
<1>7. ASSUME NEW i \in Node, Attached(i)' PROVE Backed(i)' /\ NotEmpty(i)' /\ FullAsHalves(i)'
  <2>1. CASE i = p
    <3>1. /\ st'[i] = NODE_FULL /\ Halves(i) = {index, s}
          /\ \A c \in Halves(i) : st'[c] \in {NODE_USED, NODE_FULL}
      BY <1>1, <1>2, <1>3, <1>4, <1>5, <2>1 DEF Busy
    <3>2. Backed(i)'
      BY <3>1 DEF Backed, NODE_USED, NODE_FULL
    <3>3. NotEmpty(i)'
      BY <3>1 DEF NotEmpty, NODE_UNUSED, NODE_USED, NODE_FULL
    <3>4. FullAsHalves(i)'
      BY <3>1 DEF FullAsHalves, Busy
    <3> QED
      BY <3>2, <3>3, <3>4
  <2>2. CASE i # p
    <3>1. Backed(i) /\ NotEmpty(i) /\ FullAsHalves(i) /\ st'[i] = st[i]
      BY <1>5, <1>6, <1>7, <2>2, TreeFacts
    <3>2. Backed(i)'
      BY <1>1, <3>1 DEF Backed
    <3>3. ASSUME st[i] \in Divided PROVE NotEmpty(i)' /\ FullAsHalves(i)'
      <4>1. Halves(i) \subseteq Node
        BY <3>3, TreeFacts
      <4>2. \A c \in Halves(i) : c = p \/ st'[c] = st[c]
        BY <1>5, <4>1
      <4>3. index \notin Halves(i)
        BY <1>2, <2>2, HalfFacts
      <4>4. NotEmpty(i)'
        BY <1>1, <1>5, <3>1, <4>2 DEF NotEmpty, NODE_FULL, NODE_UNUSED
      <4>5. FullAsHalves(i)'
        BY <1>1, <3>1, <4>2, <4>3 DEF FullAsHalves, Busy
      <4> QED
        BY <4>4, <4>5
    <3>4. CASE st[i] \notin Divided
      BY <3>1, <3>2, <3>4 DEF NotEmpty, FullAsHalves
    <3> QED
      BY <3>2, <3>3, <3>4
  <2> QED
    BY <2>1, <2>2
<1>8. OnTheWayUp'
  <2>1. \A a \in Ancestors(p) : a \in Node /\ a # p /\ st[a] = NODE_SPLIT
    BY <1>2, <1>3, NotOwnAncestor, AncestorNodes DEF AncestorsIn
  <2>2. \A a \in Ancestors(p) : st'[a] = NODE_SPLIT
    BY <1>5, <2>1
  <2> QED
    BY <1>1, <1>5, <2>2 DEF OnTheWayUp, AncestorsIn, Busy
<1> QED
  BY <1>7, <1>8 DEF TreeInv

\* The way up ends at the root, or below a node that is not FULL and, with this
\* half free or the other one, is not to be.
LEMMA MarkDoneTree == ASSUME IndInv, TreeInv, MarkDone PROVE TreeInv'
<1>1. pc = "mark" /\ pc' = "return" /\ st' = st /\ live' = live /\ index' = index /\ ~ SiblingBusy
  BY DEF MarkDone, tree, locals
<1>2. index \in Node /\ AncestorsIn(index, {NODE_SPLIT})
  BY <1>1, TreeFacts DEF TreeInv, OnTheWayUp
<1>3. ASSUME NEW i \in Node, Attached(i)' PROVE Backed(i)' /\ NotEmpty(i)' /\ FullAsHalves(i)'
  <2>1. Backed(i) /\ NotEmpty(i) /\ FullAsHalves(i)
    <3>1. Attached(i)
      BY <1>1, <1>3 DEF Attached, AncestorsIn
    <3> QED
      BY <3>1, TreeFacts
  <2>2. Backed(i)' /\ NotEmpty(i)'
    BY <1>1, <2>1 DEF Backed, NotEmpty
  <2>3. CASE index \in Halves(i)
    <3>1. /\ index # 0 /\ Parent(index) = i /\ Halves(i) = {index, Sibling(index)}
          /\ Sibling(index) > 0
      BY <1>2, <2>3, HalfFacts
    <3>2. st[i] = NODE_SPLIT
      BY <1>2, <3>1, ParentAncestors DEF AncestorsIn
    <3>3. ~ Busy(Sibling(index))
      BY <1>1, <3>1 DEF SiblingBusy, Busy
    <3> QED
      BY <1>1, <2>2, <3>1, <3>2, <3>3 DEF FullAsHalves, Busy, NODE_SPLIT, NODE_FULL
  <2>4. CASE index \notin Halves(i)
    BY <1>1, <2>1, <2>2, <2>4 DEF FullAsHalves, Busy
  <2> QED
    BY <2>3, <2>4
<1> QED
  BY <1>1, <1>3 DEF TreeInv, OnTheWayUp

\* Only the block at the node that the walk has found goes.
LEMMA FreeFoundTree == ASSUME IndInv, TreeInv, FreeFound PROVE TreeInv'
<1>1. /\ pc = "walk" /\ pc' = "combine" /\ op = "free" /\ st[index] = NODE_USED
      /\ st' = st /\ index' = index /\ live' = {b \in live : b.off # arg}
  BY DEF FreeFound, tree, locals
<1>2. PICK f \in live : f.off = arg /\ f.node = index
  BY <1>1, WalkMeetsBlock
<1>3. ASSUME NEW b \in live, b.off = arg PROVE b.node = index
  <2>1. b = f \/ b.off + b.pages <= f.off \/ f.off + f.pages <= b.off
    BY <1>2, Apart DEF NoOverlap
  <2>2. /\ b.off \in Nat /\ f.off \in Nat /\ b.pages \in Nat \ {0} /\ f.pages \in Nat \ {0}
    BY BlockPages, ArenaFacts DEF BlockInv
  <2> QED
    BY <1>2, <1>3, <2>1, <2>2
<1>4. ASSUME NEW i \in Node, Attached(i)' PROVE Backed(i)' /\ NotEmpty(i)' /\ FullAsHalves(i)'
  <2>1. Backed(i) /\ NotEmpty(i) /\ FullAsHalves(i)
    <3>1. Attached(i)
      BY <1>1, <1>4 DEF Attached, AncestorsIn
    <3> QED
      BY <3>1, TreeFacts
  <2>2. i = index => i \in Below(index)
    BY DEF Below
  <2>3. Backed(i)'
    BY <1>1, <1>3, <2>1, <2>2 DEF Backed
  <2>4. NotEmpty(i)' /\ FullAsHalves(i)'
    BY <1>1, <2>1 DEF NotEmpty, FullAsHalves, Busy
  <2> QED
    BY <2>3, <2>4
<1> QED
  BY <1>1, <1>4 DEF TreeInv, OnTheWayUp

LEMMA CombineUpTree == ASSUME IndInv, TreeInv, CombineUp PROVE TreeInv'
<1>1. /\ pc = "combine" /\ pc' = "combine" /\ index' = Parent(index) /\ st' = st /\ live' = live
      /\ SiblingUnused
  BY DEF CombineUp, tree
<1>2. index \in Node /\ index # 0 /\ Parent(index) \in Node
  BY <1>1, TreeFacts, NodeFacts DEF SiblingUnused
<1>3. Below(index) \subseteq Below(index')
  BY <1>1, <1>2, ChildBelow
<1>4. ASSUME NEW i \in Node, Attached(i)' PROVE Backed(i)' /\ NotEmpty(i)' /\ FullAsHalves(i)'
  <2>1. Backed(i) /\ NotEmpty(i) /\ FullAsHalves(i)
    <3>1. Attached(i)
      BY <1>1, <1>4 DEF Attached, AncestorsIn
    <3> QED
      BY <3>1, TreeFacts
  <2>2. Backed(i)'
    BY <1>1, <1>3, <2>1 DEF Backed
  <2>3. NotEmpty(i)' /\ FullAsHalves(i)'
    BY <1>1, <2>1 DEF NotEmpty, FullAsHalves, Busy
  <2> QED
    BY <2>2, <2>3
<1> QED
  BY <1>1, <1>4 DEF TreeInv, OnTheWayUp

LEMMA CombineClearTree == ASSUME IndInv, TreeInv, CombineClear PROVE TreeInv'
<1>1. /\ pc = "combine" /\ pc' = "unfull" /\ index' = index /\ live' = live
      /\ ~ SiblingUnused /\ st' = [st EXCEPT ![index] = NODE_UNUSED]
  BY DEF CombineClear, locals
<1>2. /\ index \in Node /\ Attached(index)
      /\ st'[index] = NODE_UNUSED /\ \A i \in Node \ {index} : st'[i] = st[i]
  BY <1>1, TreeFacts DEF IndInv, CombineInv
<1>3. ASSUME NEW i \in Node, Attached(i)' PROVE Attached(i) /\ index \notin Ancestors(i)
  <2>1. \A a \in Ancestors(i) : a \in Node /\ a # index
    BY <1>2, <1>3, AncestorNodes
       DEF Attached, AncestorsIn, Divided, NODE_UNUSED, NODE_SPLIT, NODE_FULL
  <2> QED
    BY <1>2, <1>3, <2>1 DEF Attached, AncestorsIn
<1>4. ASSUME NEW i \in Node, Attached(i)' PROVE Backed(i)' /\ NotEmpty(i)' /\ FullAsHalves(i)'
  <2>1. CASE i = index
    BY <1>2, <2>1 DEF Backed, NotEmpty, FullAsHalves, Divided,
                      NODE_UNUSED, NODE_USED, NODE_SPLIT, NODE_FULL
  <2>2. CASE i # index
    <3>1. Backed(i) /\ NotEmpty(i) /\ FullAsHalves(i) /\ st'[i] = st[i] /\ i \notin Below(index)
      BY <1>2, <1>3, <1>4, <2>2, TreeFacts DEF Below
    <3>2. Backed(i)'
      BY <1>1, <3>1 DEF Backed
    <3>3. ASSUME st[i] \in Divided PROVE NotEmpty(i)' /\ FullAsHalves(i)'
      <4>1. Halves(i) \subseteq Node
        BY <3>3, TreeFacts
      <4>2. \A c \in Halves(i) : c = index \/ st'[c] = st[c]
        BY <1>2, <4>1
      <4>3. CASE index \in Halves(i)
        <5>1. Sibling(index) \in Halves(i) /\ Sibling(index) # index /\ Sibling(index) >= 0
          BY <1>2, <4>3, HalfFacts, NodeFacts
        <5>2. st'[Sibling(index)] # NODE_UNUSED
          BY <1>1, <4>2, <5>1 DEF SiblingUnused
        <5> QED
          BY <1>1, <4>3, <5>1, <5>2 DEF NotEmpty, FullAsHalves
      <4>4. CASE index \notin Halves(i)
        BY <1>1, <3>1, <4>2, <4>4 DEF NotEmpty, FullAsHalves, Busy
      <4> QED
        BY <4>3, <4>4
    <3>4. CASE st[i] \notin Divided
      BY <3>1, <3>2, <3>4 DEF NotEmpty, FullAsHalves
    <3> QED
      BY <3>2, <3>3, <3>4
  <2> QED
    BY <2>1, <2>2
<1>5. OnTheWayUp'
  <2>1. \A a \in Ancestors(index) : a \in Node /\ a # index /\ st[a] \in Divided
    BY <1>2, NotOwnAncestor, AncestorNodes DEF Attached, AncestorsIn
  <2>2. \A a \in Ancestors(index) : st'[a] \in Divided
    BY <1>2, <2>1
  <2> QED
    BY <1>1, <1>2, <2>2 DEF OnTheWayUp, Attached, AncestorsIn
<1> QED
  BY <1>4, <1>5 DEF TreeInv

LEMMA UnfullTree == ASSUME IndInv, TreeInv, Unfull PROVE TreeInv'
<1> DEFINE p == Parent(index)
<1>1. /\ pc = "unfull" /\ pc' = "unfull" /\ index' = p /\ live' = live
      /\ StateAt(p) = NODE_FULL /\ st' = [st EXCEPT ![p] = NODE_SPLIT]
  BY DEF Unfull
<1>2. index \in Node /\ Attached(index) /\ st[index] \in {NODE_UNUSED, NODE_SPLIT}
  BY <1>1, TreeFacts DEF TreeInv, OnTheWayUp
<1>3. index # 0
  BY <1>1, NodeFacts, ArenaFacts, LevelByteAssumption DEF StateAt, Node
<1>4. p \in Node /\ Ancestors(index) = Ancestors(p) \cup {p} /\ index \in Halves(p) /\ p # Word - 1
  BY <1>2, <1>3, NodeFacts, ParentAncestors, ArenaFacts DEF Halves, Node
<1>5. st[p] = NODE_FULL /\ st'[p] = NODE_SPLIT /\ \A i \in Node \ {p} : st'[i] = st[i]
  BY <1>1, <1>4, TreeFacts DEF StateAt
<1>6. ASSUME NEW i \in Node PROVE Attached(i)' <=> Attached(i)
  <2>1. Ancestors(i) \subseteq Node
    BY AncestorNodes
  <2>2. \A a \in Ancestors(i) : st'[a] \in Divided <=> st[a] \in Divided
    BY <1>5, <2>1 DEF Divided
  <2> QED
    BY <2>2 DEF Attached, AncestorsIn
<1>7. ASSUME NEW i \in Node, Attached(i)' PROVE Backed(i)' /\ NotEmpty(i)' /\ FullAsHalves(i)'
  <2>1. Backed(i) /\ NotEmpty(i) /\ FullAsHalves(i)
    BY <1>6, <1>7, TreeFacts
  <2>2. Backed(i)'
    BY <1>1, <1>5, <2>1 DEF Backed, NODE_USED, NODE_SPLIT
  <2>3. ASSUME st[i] \in Divided PROVE NotEmpty(i)' /\ FullAsHalves(i)'
    <3>1. Halves(i) \subseteq Node
      BY <2>3, TreeFacts
    <3>2. \A c \in Halves(i) : c = p \/ st'[c] = st[c]
      BY <1>5, <3>1
    <3>3. NotEmpty(i)'
      BY <1>1, <1>5, <2>1, <2>3, <3>2 DEF NotEmpty, NODE_SPLIT, NODE_UNUSED
    <3>4. CASE i = p
      <4>1. st'[i] = NODE_SPLIT /\ index \in Halves(i) /\ index # p
        BY <1>2, <1>4, <1>5, <3>4, HalfFacts
      <4>2. st'[index] \in {NODE_UNUSED, NODE_SPLIT}
        BY <1>2, <1>5, <4>1
      <4>3. st'[index] \notin {NODE_USED, NODE_FULL}
        BY <4>2 DEF NODE_UNUSED, NODE_USED, NODE_SPLIT, NODE_FULL
      <4> QED
        BY <3>3, <4>1, <4>3 DEF FullAsHalves, Busy, NODE_SPLIT, NODE_FULL
    <3>5. CASE i # p
      <4>1. index \notin Halves(i) /\ st'[i] = st[i]
        BY <1>2, <1>5, <3>5, HalfFacts
      <4> QED
        BY <1>1, <2>1, <3>2, <3>3, <4>1 DEF FullAsHalves, Busy
    <3> QED
      BY <3>4, <3>5
  <2>4. CASE st[i] \notin Divided
    <3>1. st'[i] \notin Divided
      BY <1>5, <2>4 DEF Divided
    <3> QED
      BY <2>2, <3>1 DEF NotEmpty, FullAsHalves
  <2> QED
    BY <2>2, <2>3, <2>4
<1>8. OnTheWayUp'
  <2>1. \A a \in Ancestors(p) : a \in Node /\ st[a] \in Divided
    BY <1>2, <1>4, AncestorNodes DEF Attached, AncestorsIn
  <2>2. \A a \in Ancestors(p) : st'[a] \in Divided
    BY <1>5, <2>1 DEF Divided
  <2> QED
    BY <1>1, <1>5, <2>2 DEF OnTheWayUp, Attached, AncestorsIn
<1> QED
  BY <1>7, <1>8 DEF TreeInv

LEMMA UnfullDoneTree == ASSUME IndInv, TreeInv, UnfullDone PROVE TreeInv'
<1>1. /\ pc = "unfull" /\ pc' = "return" /\ st' = st /\ live' = live /\ index' = index
      /\ StateAt(Parent(index)) # NODE_FULL
  BY DEF UnfullDone, tree, locals
<1>2. index \in Node /\ Attached(index) /\ st[index] \in {NODE_UNUSED, NODE_SPLIT}
  BY <1>1, TreeFacts DEF TreeInv, OnTheWayUp
<1>3. ASSUME NEW i \in Node, Attached(i)' PROVE Backed(i)' /\ NotEmpty(i)' /\ FullAsHalves(i)'
  <2>1. Backed(i) /\ NotEmpty(i) /\ FullAsHalves(i)
    <3>1. Attached(i)
      BY <1>1, <1>3 DEF Attached, AncestorsIn
    <3> QED
      BY <3>1, TreeFacts
  <2>2. Backed(i)' /\ NotEmpty(i)'
    BY <1>1, <2>1 DEF Backed, NotEmpty
  <2>3. CASE index \in Halves(i)
    <3>1. Parent(index) = i /\ i # Word - 1
      BY <1>2, <2>3, HalfFacts, ArenaFacts DEF Node
    <3>2. st[i] # NODE_FULL
      BY <1>1, <3>1 DEF StateAt
    <3>3. ~ Busy(index)
      BY <1>2 DEF Busy, NODE_UNUSED, NODE_USED, NODE_SPLIT, NODE_FULL
    <3> QED
      BY <1>1, <2>2, <2>3, <3>2, <3>3 DEF FullAsHalves, Busy
  <2>4. CASE index \notin Halves(i)
    BY <1>1, <2>1, <2>2, <2>4 DEF FullAsHalves, Busy
  <2> QED
    BY <2>3, <2>4
<1> QED
  BY <1>1, <1>3 DEF TreeInv, OnTheWayUp

LEMMA TreeInit == Init => TreeInv
<1> SUFFICES ASSUME Init PROVE TreeInv
  OBVIOUS
<1>1. pc = "idle" /\ \A i \in Node : st[i] = NODE_UNUSED
  BY DEF Init
<1>2. \A i \in Node : Backed(i) /\ NotEmpty(i) /\ FullAsHalves(i)
  BY <1>1 DEF Backed, NotEmpty, FullAsHalves, Divided, NODE_UNUSED, NODE_USED, NODE_SPLIT, NODE_FULL
<1> QED
  BY <1>1, <1>2 DEF TreeInv, OnTheWayUp

LEMMA TreeStep == IndInv /\ TreeInv /\ PassInv /\ [Next]_vars => TreeInv'
<1> SUFFICES ASSUME IndInv, TreeInv, PassInv, [Next]_vars PROVE TreeInv'
  OBVIOUS
<1>1. CASE Search
  <2>1. CASE Down
    BY <2>1, TreeKept DEF Down, tree, NODE_UNUSED, NODE_SPLIT
  <2>2. CASE NextSibling
    BY <2>2, TreeKept DEF NextSibling, tree, Blocked, NODE_UNUSED, NODE_USED, NODE_FULL
  <2>3. CASE StartClimb
    BY <2>3, TreeKept DEF StartClimb, tree, Blocked, NODE_UNUSED, NODE_USED, NODE_FULL
  <2>4. CASE Climb
    <3>1. pc = "climb" /\ pc' \in {"climb", "search"} /\ st' = st /\ live' = live
      BY <2>4 DEF Climb, tree
    <3> QED
      BY <3>1, TreeKept
  <2> QED
    BY <1>1, <2>1, <2>2, <2>3, <2>4, TakeTree, SplitDownTree DEF Search
<1>2. CASE Mark
  BY <1>2, MarkParentTree, MarkDoneTree DEF Mark
<1>3. CASE Walk
  <2>1. CASE WalkDown \/ WalkAbort \/ QueryFound
    <3>1. pc = "walk" /\ pc' \in {"walk", "abort", "return"} /\ st' = st /\ live' = live
      BY <2>1 DEF WalkDown, WalkAbort, QueryFound, tree
    <3> QED
      BY <3>1, TreeKept
  <2> QED
    BY <1>3, <2>1, FreeFoundTree DEF Walk
<1>4. CASE Merge
  BY <1>4, CombineUpTree, CombineClearTree, UnfullTree, UnfullDoneTree DEF Merge
<1>5. CASE Return \/ Call
  <2>1. pc \in {"idle", "return"} /\ pc' \in {"idle", "return", "search", "walk", "abort"}
        /\ st' = st /\ live' = live
    BY <1>5 DEF Return, Call, AllocTooLarge, AllocStart, WalkStart, tree
  <2> QED
    BY <2>1, TreeKept
<1>6. CASE UNCHANGED vars
  <2>1. st' = st /\ live' = live /\ pc' = pc /\ index' = index
    BY <1>6 DEF vars
  <2> QED
    BY <2>1 DEF TreeInv, OnTheWayUp, Backed, NotEmpty, FullAsHalves, Attached, AncestorsIn, Busy
<1> QED
  BY <1>1, <1>2, <1>3, <1>4, <1>5, <1>6 DEF Next, Step

\* What a node that counts says of all that lies below it, from the leaves upward.
LEMMA NodesTell ==
  ASSUME IndInv, TreeInv, pc \notin {"combine", "mark", "unfull"},
         ~ (pc = "search" /\ st[index] = NODE_UNUSED)
  PROVE  \A i \in Node : Attached(i) =>
           /\ st[i] # NODE_UNUSED => \E b \in live : b.node \in Below(i)
           /\ Busy(i) <=> Below(i) \cap Leaf \subseteq UNION {Below(b.node) : b \in live}
<1> DEFINE taken == UNION {Below(b.node) : b \in live}
           Q == {i \in Node : Attached(i) =>
                   /\ st[i] # NODE_UNUSED => \E b \in live : b.node \in Below(i)
                   /\ Busy(i) <=> Below(i) \cap Leaf \subseteq taken}
<1>1. ASSUME NEW i \in Node, Attached(i), NEW b \in live
      PROVE  /\ b.node \in Node /\ b.node \notin Ancestors(i)
             /\ b.node \in Below(i) => st[i] # NODE_UNUSED
  <2>1. b.node \in Node /\ BlockInv(b)
    BY BlockPages
  <2>2. b.node \notin Ancestors(i)
    BY <1>1, <2>1 DEF BlockInv, Attached, AncestorsIn, Divided, NODE_USED, NODE_SPLIT, NODE_FULL
  <2>3. b.node \in Below(i) => st[i] # NODE_UNUSED
    BY <2>1 DEF BlockInv, Attached, AncestorsIn, Below, Divided,
                NODE_UNUSED, NODE_USED, NODE_SPLIT, NODE_FULL
  <2> QED
    BY <2>1, <2>2, <2>3
<1>2. ASSUME NEW i \in Node, \A j \in Node : i < j => j \in Q PROVE i \in Q
  <2> SUFFICES ASSUME Attached(i)
               PROVE  /\ st[i] # NODE_UNUSED => \E b \in live : b.node \in Below(i)
                      /\ Busy(i) <=> Below(i) \cap Leaf \subseteq taken
    OBVIOUS
  <2>1. Backed(i) /\ NotEmpty(i) /\ FullAsHalves(i) /\ st[i] \in NodeState
    BY TreeFacts
  <2>2. CASE st[i] = NODE_USED
    <3>1. PICK b \in live : b.node = i
      BY <2>1, <2>2 DEF Backed
    <3>2. b.node \in Below(i) /\ Below(i) \subseteq taken
      BY <3>1 DEF Below
    <3> QED
      BY <2>2, <3>2 DEF Busy
  <2>3. CASE st[i] = NODE_UNUSED
    <3>1. PICK x \in Below(i) \cap Leaf : TRUE
      BY SomeLeaf
    <3>2. ASSUME NEW b \in live, x \in Below(b.node) PROVE FALSE
      <4>1. x \in Node /\ b.node \in Node /\ b.node \notin Ancestors(i) /\ b.node \notin Below(i)
        BY <1>1, <2>3, <3>1 DEF Below
      <4>2. i = b.node \/ i \in Ancestors(b.node)
        BY <3>1, <3>2, <4>1, OneAbove
      <4> QED
        BY <4>1, <4>2 DEF Below
    <3>3. ~ (Below(i) \cap Leaf \subseteq taken)
      BY <3>1, <3>2
    <3> QED
      BY <2>3, <3>3 DEF Busy, NODE_UNUSED, NODE_USED, NODE_FULL
  <2>4. CASE st[i] \in Divided
    <3>1. RightChild(i) \in Node
      BY <2>4, TreeFacts
    <3>2. PICK l, r : l = LeftChild(i) /\ r = RightChild(i)
      OBVIOUS
    <3>3. /\ Halves(i) = {l, r} /\ l \in Node /\ r \in Node /\ i < l /\ i < r
          /\ Ancestors(l) = Ancestors(i) \cup {i} /\ Ancestors(r) = Ancestors(i) \cup {i}
          /\ Below(i) = {i} \cup Below(l) \cup Below(r) /\ i \notin Leaf
      BY <3>1, <3>2, BelowHalves DEF Halves
    <3>4. Attached(l) /\ Attached(r)
      BY <2>4, <3>3 DEF Attached, AncestorsIn
    <3>5. /\ \A c \in {l, r} : st[c] # NODE_UNUSED => \E b \in live : b.node \in Below(c)
          /\ \A c \in {l, r} : Busy(c) <=> Below(c) \cap Leaf \subseteq taken
      BY <1>2, <3>3, <3>4
    <3> HIDE DEF taken, Q
    <3>6. \E b \in live : b.node \in Below(i)
      BY <2>1, <2>4, <3>3, <3>5 DEF NotEmpty
    <3>7. st[i] = NODE_FULL <=> Busy(l) /\ Busy(r)
      BY <2>1, <2>4, <3>3 DEF FullAsHalves
    <3>8. Below(i) \cap Leaf \subseteq taken <=> Busy(l) /\ Busy(r)
      BY <3>3, <3>5
    <3>9. Busy(i) <=> st[i] = NODE_FULL
      BY <2>4 DEF Busy, Divided, NODE_USED, NODE_SPLIT, NODE_FULL
    <3> QED
      BY <3>6, <3>7, <3>8, <3>9
  <2> QED
    BY <2>1, <2>2, <2>3, <2>4 DEF NodeState, Divided, NODE_UNUSED, NODE_USED, NODE_SPLIT, NODE_FULL
<1>3. \A i \in Node : i \in Q
  <2> HIDE DEF Q
  <2> QED
    BY <1>2, FromTheLeaves
<1> QED
  BY <1>3

-----------------------------------------------------------------------------
(* The passes of a search, to its end *)

\* When no page is clear of the blocks, the root is USED or FULL.
LEMMA NothingClear ==
  ASSUME IndInv, TreeInv, pc = "climb", \A i \in Leaf : ~ Clear(i)
  PROVE  Busy(0)
<1>1. 0 \in Node /\ Attached(0)
  BY RootAncestors, ArenaFacts DEF Node, Attached, AncestorsIn
<1>2. ASSUME NEW i \in Leaf PROVE \E b \in live : i \in Below(b.node)
  <2>1. i \in Node /\ i \in Nat
    BY ArenaFacts DEF Leaf, Node
  <2>2. PICK b \in live : b.node \in Below(i) \/ i \in Below(b.node)
    BY DEF Clear
  <2>3. b.node \in Node
    BY BlockPages
  <2>4. b.node \in Below(i) => b.node = i
    BY <2>1, <2>3, LeafIsLast DEF Below
  <2> QED
    BY <2>1, <2>2, <2>4 DEF Below
<1>3. Below(0) \cap Leaf \subseteq UNION {Below(b.node) : b \in live}
  BY <1>2
<1> QED
  BY <1>1, <1>3, NodesTell

\* On the last pass that can end, nothing is clear below a node that a search
\* leaves aside.
LEMMA NothingOnPass ==
  ASSUME IndInv, TreeInv, pc = "search", Blocked, NEW k \in 0 .. L, OnPass(k), size = P[k],
         NEW d, d = level + k,
         NEW i \in Leaf, Clear(i), (index + 1) * P[L - d] <= i + 1
  PROVE  (index + 2) * P[L - d] <= i + 1
<1>1. /\ index \in Node /\ index \in Nat /\ Attached(index) /\ d \in 0 .. L /\ L - d \in 0 .. L
      /\ P[L - d] \in Nat \ {0} /\ k \in Nat /\ L \in Nat /\ W \in Nat /\ 2 * L < W
      /\ length = P[L - level] /\ L - level = (L - d) + k
      /\ P[d] \in Nat \ {0} /\ P[d] <= index + 1 /\ index + 1 < P[d + 1]
      /\ N <= (index + 1) * P[L - d] /\ (index + 1) * P[L - d] < 2 * N
  BY PassFacts
<1>2. st[index] # NODE_UNUSED
  BY DEF Blocked, NODE_UNUSED, NODE_USED, NODE_FULL
<1>3. Busy(index)
  <2>1. CASE size # length
    BY <2>1 DEF Blocked, Busy
  <2>2. CASE size = length
    <3>1. d = L
      <4>1. SUFFICES ASSUME d < L PROVE FALSE
        BY <1>1
      <4>2. PICK e : e = (L - d) + k
        OBVIOUS
      <4>3. k \in 0 .. W /\ e \in 0 .. W /\ k < e
        BY <1>1, <4>1, <4>2
      <4>4. P[k] < P[e] /\ P[k] \in Nat
        BY <4>3, PowerGrows, SizeAssumption
      <4> QED
        BY <1>1, <2>2, <4>2, <4>4
    <3>2. N <= index + 1
      BY <1>1, <3>1 DEF N
    <3>3. RightChild(index) \notin Node
      BY <1>1, <3>2, ArenaFacts DEF RightChild, Node
    <3> QED
      BY <1>1, <1>2, <3>3 DEF IndInv, LeafInv, Busy
  <2> QED
    BY <2>1, <2>2
<1>4. Below(index) \cap Leaf \subseteq UNION {Below(b.node) : b \in live}
  BY <1>1, <1>2, <1>3, NodesTell
<1>5. i \notin Below(index)
  BY <1>4 DEF Clear
<1>6. ~ Spans(index, L - d, i + 1)
  BY <1>1, <1>5, LeafSpans
<1>7. i \in Nat
  BY ArenaFacts DEF Leaf
<1>8. (index + 2) * P[L - d] \in Nat
  BY <1>1
<1> QED
  BY <1>6, <1>7, <1>8 DEF Spans

\* A step of a search that goes on as it is, with the same pages ahead.
LEMMA PassOn ==
  ASSUME PassInv, pc \in {"search", "climb"}, live' = live, size' = size,
         Busy(0) => Busy(0)',
         \A k \in 0 .. L : OnPass(k) /\ (size = P[k] => PagesAhead(k)) =>
           \/ Busy(0)'
           \/ \E m \in 0 .. L : OnPass(m)' /\ (size = P[m] => PagesAhead(m)')
  PROVE  PassInv'
BY DEF PassInv

\* Into the left half of a node that is longer than the request.
LEMMA DownPass ==
  ASSUME IndInv, PassInv, pc = "search", pc' = "search", size # length,
         index' = LeftChild(index), length' = length \div 2, level' = Followed(level + 1),
         size' = size, live' = live, Busy(0) => Busy(0)'
  PROVE  PassInv'
<1> SUFFICES ASSUME NEW k \in 0 .. L, OnPass(k)
             PROVE  OnPass(k)' /\ (PagesAhead(k) => PagesAhead(k)')
  BY PassOn
<1>2. PICK d : d = level + k
  OBVIOUS
<1>3. /\ index \in Nat /\ level \in Int /\ k \in Nat /\ d \in 0 .. L /\ L \in Nat /\ W \in Nat
      /\ L + 1 < W
      /\ P[k] <= size /\ P[d] \in Nat \ {0} /\ P[d + 1] = 2 * P[d]
      /\ P[d] <= index + 1 /\ index + 1 < P[d + 1]
  BY <1>2, PassFacts, SizeAssumption
<1>4. /\ d + 1 \in 0 .. L /\ length = 2 * P[L - (level + 1)]
      /\ P[L - (level + 1)] \in Nat \ {0} /\ size <= P[L - (level + 1)]
  BY <1>2, LongerFacts
<1>5. level' = level + 1 /\ length' = P[L - level'] /\ size' <= length'
  BY <1>4 DEF Followed
<1>6. /\ d + 1 \in 0 .. W - 1 /\ level' + k = d + 1 /\ level' + k + 1 = (d + 1) + 1
  BY <1>2, <1>3, <1>4, <1>5
<1>7. P[(d + 1) + 1] = 2 * P[d + 1] /\ index' = 2 * index + 1
  BY <1>3, <1>6, SizeAssumption DEF LeftChild
<1>8. P[d + 1] <= index' + 1 /\ index' + 1 < P[(d + 1) + 1]
  BY <1>3, <1>7
<1>9. OnPass(k)'
  BY <1>3, <1>4, <1>5, <1>6, <1>8 DEF OnPass
<1>10. ASSUME PagesAhead(k) PROVE PagesAhead(k)'
  <2>1. PICK g : g = L - (d + 1)
    OBVIOUS
  <2>2. g \in 0 .. W - 1 /\ L - d = g + 1 /\ P[g + 1] = 2 * P[g] /\ P[g] \in Nat
    <3>1. g \in 0 .. W - 1 /\ g \in 0 .. W /\ L - d = g + 1
      BY <1>3, <1>4, <2>1
    <3> QED
      BY <3>1, SizeAssumption
  <2>3. Passed = index + 1 /\ Passed' = 2 * (index + 1)
    BY <1>3, <1>7 DEF Passed
  <2>4. \A q, h \in Nat : (2 * q) * h = q * (2 * h)
    OBVIOUS
  <2>5. Passed' * P[L - (level' + k)] = Passed * P[L - (level + k)]
    BY <1>2, <1>3, <1>6, <2>1, <2>2, <2>3, <2>4
  <2>6. \A i : Clear(i)' = Clear(i)
    BY DEF Clear
  <2> QED
    BY <1>10, <2>5, <2>6 DEF PagesAhead
<1> QED
  BY <1>9, <1>10

\* Past a node with nothing clear below it.
LEMMA AsidePass ==
  ASSUME IndInv, TreeInv, PassInv, NextSibling \/ StartClimb
  PROVE  PassInv'
<1>1. /\ pc = "search" /\ Blocked /\ live' = live /\ size' = size /\ st' = st
      /\ level' = level /\ length' = length
      /\ \/ pc' = "search" /\ Odd(index) /\ index' = Inc(index)
         \/ pc' = "climb" /\ ~ Odd(index) /\ index' = index
  BY DEF NextSibling, StartClimb, tree, locals
<1>2. Busy(0)' = Busy(0)
  BY <1>1 DEF Busy
<1> SUFFICES ASSUME NEW k \in 0 .. L, OnPass(k)
             PROVE  OnPass(k)' /\ (size = P[k] /\ PagesAhead(k) => PagesAhead(k)')
  BY <1>1, <1>2, PassOn
<1>3. PICK d : d = level + k
  OBVIOUS
<1>4. /\ index \in Node /\ index \in Nat /\ P[d] \in Nat /\ P[d + 1] = 2 * P[d]
      /\ P[d] <= index + 1 /\ index + 1 < P[d + 1] /\ d \in 0 .. L /\ k \in Nat /\ level \in Int
  BY <1>1, <1>3, PassFacts
<1>5. Passed = index + 1 /\ Passed' = index + 2 /\ index' \in {index, index + 1}
  <2>1. Odd(index) => Inc(index) = index + 1
    BY <1>4, NodeFacts DEF Sibling
  <2> QED
    BY <1>1, <1>4, <2>1 DEF Passed
<1>6. P[d] <= index' + 1 /\ index' + 1 < P[d + 1]
  <2>1. Odd(index) => index + 1 # 2 * P[d] - 1
    BY <1>4 DEF Odd
  <2>2. index' = index + 1 => Odd(index)
    BY <1>1, <1>4
  <2> QED
    BY <1>4, <1>5, <2>1, <2>2
<1>7. OnPass(k)'
  <2>1. level + k + 1 = d + 1
    BY <1>3, <1>4
  <2> QED
    BY <1>1, <1>3, <1>6, <2>1 DEF OnPass
<1>8. ASSUME size = P[k], PagesAhead(k) PROVE PagesAhead(k)'
  <2>1. ASSUME NEW i \in Leaf, Clear(i) PROVE (index + 2) * P[L - d] <= i + 1
    BY <1>1, <1>3, <1>5, <1>8, <2>1, NothingOnPass DEF PagesAhead
  <2>2. \A i : Clear(i)' = Clear(i)
    BY <1>1 DEF Clear
  <2> QED
    BY <1>1, <1>3, <1>5, <2>1, <2>2 DEF PagesAhead
<1> QED
  BY <1>7, <1>8

\* At the root the climb has passed every page.
LEMMA RootPass ==
  ASSUME IndInv, TreeInv, pc = "climb", NEW k \in 0 .. L, OnPass(k), level + k = 0,
         size = P[k], PagesAhead(k)
  PROVE  Busy(0)
<1>1. index \in Nat /\ P[0] <= index + 1 /\ index + 1 < P[0 + 1] /\ P[0 + 1] = 2 * P[0]
  BY PassFacts
<1>2. index = 0 /\ Passed = 2 /\ P[L - (level + k)] = N
  <2>1. P[0] = 1 /\ L \in Nat /\ L - (level + k) = L
    BY SizeAssumption
  <2> QED
    BY <1>1, <2>1 DEF Passed, N
<1>3. ASSUME NEW i \in Leaf PROVE ~ Clear(i)
  <2>1. ~ (2 * N <= i + 1)
    BY ArenaFacts DEF Leaf
  <2> QED
    BY <1>2, <2>1 DEF PagesAhead
<1> QED
  BY <1>3, NothingClear

\* To the next pass, or to a parent.
LEMMA ClimbPass ==
  ASSUME IndInv, TreeInv, PassInv, Climb
  PROVE  PassInv'
<1> DEFINE p == Parent(index)
<1>1. /\ pc = "climb" /\ length' = Dbl(length)
      /\ level' = IF length' = 0 THEN level ELSE level - 1
      /\ live' = live /\ size' = size /\ st' = st
      /\ index' = IF Odd(p) THEN Inc(p) ELSE p
      /\ pc' = IF Odd(p) THEN "search" ELSE "climb"
  BY DEF Climb, Followed, tree
<1>2. Busy(0)' = Busy(0)
  BY <1>1 DEF Busy
<1> SUFFICES ASSUME NEW k \in 0 .. L, OnPass(k), size = P[k] => PagesAhead(k), ~ Busy(0)
             PROVE  \E m \in 0 .. L : OnPass(m)' /\ (size = P[m] => PagesAhead(m)')
  BY <1>1, <1>2, PassOn
<1>3. PICK d : d = level + k
  OBVIOUS
<1>4. /\ index \in Node /\ index \in Nat /\ size \in Nat \ {0} /\ d \in 0 .. L
      /\ level \in Int /\ k \in Nat /\ L \in Nat /\ W \in Nat /\ 2 * L < W /\ L + 1 < W
      /\ L - level = (L - d) + k /\ length = P[L - level] /\ length \in Nat \ {0} /\ size <= length
      /\ P[k] \in Nat \ {0} /\ P[k] <= size
      /\ P[d] \in Nat \ {0} /\ P[d + 1] = 2 * P[d] /\ P[d] <= index + 1 /\ index + 1 < P[d + 1]
  BY <1>1, <1>3, PassFacts, SizeAssumption
<1>5. PICK j \in 0 .. L : size = P[j]
  BY <1>1, PassFacts
<1>6. \A i : Clear(i)' = Clear(i)
  BY <1>1 DEF Clear
\* The length does not overflow: the pass before the last doubles it L times at most.
<1>7. ASSUME (L - level) + 1 \in 0 .. W - 1
      PROVE  length' = P[L - level'] /\ level' = level - 1 /\ size' <= length'
  <2>1. PICK e : e = L - level
    OBVIOUS
  <2>2. e \in 0 .. W - 1 /\ e + 1 \in 0 .. W - 1 /\ e + 1 \in 0 .. W /\ e + 1 = L - (level - 1) /\ W \in 0 .. W
    BY <1>4, <1>7, <2>1
  <2>3. P[e + 1] = 2 * P[e] /\ P[e + 1] < P[W] /\ length = P[e]
    BY <1>4, <2>1, <2>2, PowerGrows, SizeAssumption
  <2>4. length' = 2 * length /\ length' # 0
    BY <1>1, <1>4, <2>3 DEF Dbl, Word
  <2>5. level' = level - 1
    BY <1>1, <2>4
  <2> QED
    BY <1>1, <1>4, <2>2, <2>3, <2>4, <2>5
<1>8. CASE d = 0
  <2>1. index = 0
    <3>1. P[0] = 1
      BY SizeAssumption
    <3> QED
      BY <1>4, <1>8, <3>1
  <2>2. pc' = "search" /\ index' = 0
    BY <1>1, <1>4, <2>1, NodeFacts
  <2>3. k < j
    <3>1. P[k] # P[j]
      BY <1>1, <1>3, <1>5, <1>8, RootPass
    <3>2. j < k => P[j] < P[k]
      <4>1. j \in 0 .. W /\ k \in 0 .. W
        BY <1>4
      <4> QED
        BY <4>1, PowerGrows
    <3> QED
      BY <1>4, <1>5, <3>1, <3>2
  <2>4. k + 1 \in 0 .. L /\ (L - level) + 1 \in 0 .. W - 1 /\ k + 1 \in 0 .. W /\ j \in 0 .. W
    BY <1>3, <1>4, <1>8, <2>3
  <2>5. length' = P[L - level'] /\ level' = level - 1 /\ size' <= length'
    BY <1>7, <2>4
  <2>6. P[k + 1] <= size'
    <3>1. k + 1 < j => P[k + 1] < P[j]
      BY <2>4, PowerGrows
    <3>2. k + 1 = j \/ k + 1 < j
      BY <2>3, <2>4
    <3>3. P[k + 1] \in Nat /\ P[j] \in Nat
      BY <2>4, SizeAssumption
    <3> QED
      BY <1>1, <1>5, <3>1, <3>2, <3>3
  <2>7. level' + (k + 1) = 0 /\ level' + (k + 1) + 1 = 1
    BY <1>3, <1>4, <1>8, <2>5
  <2>8. P[0] <= index' + 1 /\ index' + 1 < P[1]
    BY <1>4, <1>8, <2>1, <2>2
  <2>9. OnPass(k + 1)'
    <3>1. 0 \in 0 .. L
      BY <1>4
    <3> QED
      BY <2>2, <2>5, <2>6, <2>7, <2>8, <3>1 DEF OnPass
  <2>10. PagesAhead(k + 1)'
    <3>1. Passed' = 1 /\ P[L - (level' + (k + 1))] = N
      BY <1>4, <2>2, <2>7 DEF Passed, N
    <3>2. \A i \in Leaf : 1 * N <= i + 1
      BY ArenaFacts DEF Leaf
    <3> QED
      BY <3>1, <3>2 DEF PagesAhead
  <2> QED
    BY <2>4, <2>9, <2>10
<1>9. CASE d # 0
  <2>1. PICK a : a = P[d - 1]
    OBVIOUS
  <2>2. d - 1 \in 0 .. L /\ d - 1 \in 0 .. W - 1 /\ (d - 1) + 1 = d /\ (L - level) + 1 \in 0 .. W - 1
    BY <1>4, <1>9
  <2>3. a \in Nat \ {0} /\ P[d] = 2 * a
    <3>1. d - 1 \in 0 .. W
      BY <1>4, <2>2
    <3>2. P[(d - 1) + 1] = 2 * P[d - 1] /\ P[d - 1] \in Nat \ {0}
      BY <2>2, <3>1, SizeAssumption
    <3> QED
      BY <2>1, <2>2, <3>2
  <2>4. length' = P[L - level'] /\ level' = level - 1 /\ size' <= length'
    BY <1>7, <2>2
  <2>5. ~ Odd(index) /\ Passed = index + 2
    BY <1>1 DEF OnPass, Passed
  <2>6. p \in Nat /\ p \in Node /\ index = 2 * p + 2
    <3>1. index # 0
      BY <1>4, <2>3
    <3>2. p \in Node /\ index \in {LeftChild(p), RightChild(p)}
      BY <1>4, <3>1, NodeFacts
    <3> HIDE DEF p
    <3>3. p \in Nat
      BY <3>2, NodeFacts
    <3> QED
      BY <2>5, <3>2, <3>3 DEF Odd, LeftChild, RightChild
  <2>7. a <= p + 1 /\ p + 1 < 2 * a /\ (Odd(p) => p + 2 < 2 * a)
    BY <1>4, <2>3, <2>6 DEF Odd
  <2>8. Passed' = p + 2 /\ a <= index' + 1 /\ index' + 1 < 2 * a /\ (pc' = "climb" => ~ Odd(index'))
    <3>1. CASE Odd(p)
      <4>1. Inc(p) = p + 1
        BY <2>6, <3>1, NodeFacts DEF Sibling
      <4> QED
        BY <1>1, <2>3, <2>6, <2>7, <3>1, <4>1 DEF Passed
    <3>2. CASE ~ Odd(p)
      BY <1>1, <2>3, <2>6, <2>7, <3>2 DEF Passed
    <3> QED
      BY <3>1, <3>2
  <2> HIDE DEF p
  <2>9. level' + k = d - 1 /\ level' + k + 1 = d
    BY <1>3, <1>4, <2>4
  <2>10. OnPass(k)'
    BY <1>1, <1>4, <2>1, <2>2, <2>3, <2>4, <2>8, <2>9 DEF OnPass
  <2>11. ASSUME PagesAhead(k) PROVE PagesAhead(k)'
    <3>1. PICK g : g = L - d
      OBVIOUS
    <3>2. g \in 0 .. W - 1 /\ L - (d - 1) = g + 1 /\ P[g + 1] = 2 * P[g] /\ P[g] \in Nat
      <4>1. g \in 0 .. W - 1 /\ g \in 0 .. W /\ L - (d - 1) = g + 1
        BY <1>4, <1>9, <3>1
      <4> QED
        BY <4>1, SizeAssumption
    <3>3. \A q, h \in Nat : (q + 2) * (2 * h) = (2 * q + 4) * h
      OBVIOUS
    <3>4. Passed' * P[L - (level' + k)] = Passed * P[L - (level + k)]
      <4>1. Passed = 2 * p + 4
        BY <2>5, <2>6
      <4>2. (p + 2) * (2 * P[g]) = (2 * p + 4) * P[g]
        BY <2>6, <3>2, <3>3
      <4> QED
        BY <1>3, <2>8, <2>9, <3>1, <3>2, <4>1, <4>2
    <3> QED
      BY <1>6, <2>11, <3>4 DEF PagesAhead
  <2> QED
    BY <2>10, <2>11
<1> QED
  BY <1>8, <1>9

LEMMA AllocStartPass == ASSUME IndInv, NEW s \in Requests, AllocStart(s) PROVE PassInv'
<1>1. /\ pc' = "search" /\ size' = PagesOf[s] /\ PagesOf[s] <= N
      /\ index' = 0 /\ level' = 0 /\ length' = N
  BY DEF AllocStart
<1>2. /\ 0 \in 0 .. L /\ L - 0 = L /\ L - (0 + 0) = L /\ 0 + 0 = 0 /\ 0 + 0 + 1 = 1
      /\ P[0] = 1 /\ P[1] = 2 /\ N \in Nat
  <2>1. 0 \in 0 .. W - 1 /\ L \in Nat
    BY SizeAssumption
  <2> QED
    BY <2>1, SizeAssumption, ArenaFacts
<1>3. PagesOf[s] \in Nat \ {0}
  BY RequestAssumption
<1>4. OnPass(0)'
  BY <1>1, <1>2, <1>3 DEF OnPass, N
<1>5. PagesAhead(0)'
  <2>1. Passed' = 1 /\ P[L - (level' + 0)] = N
    BY <1>1, <1>2 DEF Passed, N
  <2>2. \A i \in Leaf : 1 * N <= i + 1
    BY ArenaFacts DEF Leaf
  <2> QED
    BY <2>1, <2>2 DEF PagesAhead
<1> QED
  BY <1>2, <1>4, <1>5 DEF PassInv

LEMMA PassStep == IndInv /\ TreeInv /\ PassInv /\ [Next]_vars => PassInv'
<1> SUFFICES ASSUME IndInv, TreeInv, PassInv, [Next]_vars PROVE PassInv'
  OBVIOUS
<1>1. CASE Search
  <2>1. CASE SplitDown
    <3>1. /\ pc = "search" /\ pc' = "search" /\ size # length /\ st[index] = NODE_UNUSED
          /\ index' = LeftChild(index) /\ length' = length \div 2 /\ level' = Followed(level + 1)
          /\ size' = size /\ live' = live
      BY <2>1 DEF SplitDown
    <3>2. ~ Busy(0)
      BY <3>1, BusyRoot DEF Busy, NODE_UNUSED, NODE_USED, NODE_FULL
    <3> QED
      BY <3>1, <3>2, DownPass
  <2>2. CASE Down
    BY <2>2, DownPass DEF Down, tree, Busy
  <2>3. CASE Take
    BY <2>3 DEF Take, PassInv
  <2> QED
    BY <1>1, <2>1, <2>2, <2>3, AsidePass, ClimbPass DEF Search
<1>2. CASE Mark \/ Walk \/ Merge \/ Return
  <2>1. pc' \notin {"search", "climb"}
    BY <1>2 DEF Mark, MarkParent, MarkDone, Walk, WalkDown, WalkAbort, QueryFound, FreeFound,
                Merge, CombineUp, CombineClear, Unfull, UnfullDone, Return
  <2> QED
    BY <2>1 DEF PassInv
<1>3. CASE Call
  <2>1. CASE \E s \in Requests : AllocStart(s)
    BY <2>1, AllocStartPass
  <2>2. CASE ~ \E s \in Requests : AllocStart(s)
    <3>1. pc' \in {"return", "walk", "abort"}
      BY <1>3, <2>2 DEF Call, AllocTooLarge, WalkStart
    <3> QED
      BY <3>1 DEF PassInv
  <2> QED
    BY <2>1, <2>2
<1>4. CASE UNCHANGED vars
  <2>1. /\ live' = live /\ pc' = pc /\ size' = size /\ index' = index /\ st' = st
        /\ length' = length /\ level' = level
    BY <1>4 DEF vars
  <2> QED
    BY <2>1 DEF PassInv, OnPass, PagesAhead, Passed, Clear, Busy
<1> QED
  BY <1>1, <1>2, <1>3, <1>4 DEF Next, Step

\* In every state the nodes agree with their halves and with the blocks, but for
\* those that the running call is at.
THEOREM TreeInvariance == Spec => [](IndInv /\ TreeInv /\ PassInv)
<1>1. Init => IndInv /\ TreeInv /\ PassInv
  BY InitInv, TreeInit DEF PassInv, Init
<1>2. IndInv /\ TreeInv /\ PassInv /\ [Next]_vars => (IndInv /\ TreeInv /\ PassInv)'
  BY NextInv, TreeStep, PassStep
<1> QED
  BY <1>1, <1>2, PTL DEF Spec

-----------------------------------------------------------------------------
(* What the invariants say of the allocator *)

\* IndInv is an invariant of the allocator, whatever clients ask for: it is the
\* reason behind each of the theorems that follow.
THEOREM Invariance == Spec => []IndInv
BY TreeInvariance, PTL

\* No loop of buddy.c ever indexes a node outside the array, and a match has a
\* level that `1 << level` is defined for.
THEOREM TypeCorrect == Spec => []TypeOK
<1>1. IndInv => TypeOK
  BY DEF IndInv
<1> QED
  BY <1>1, Invariance, PTL

\* buddy_used_size answers with the bytes that were asked for its block.
THEOREM UsedSizeCorrect == Spec => []UsedSizeAnswer
<1>1. IndInv => UsedSizeAnswer
  BY DEF IndInv
<1> QED
  BY <1>1, Invariance, PTL

\* buddy_free and buddy_used_size never fail an assert for a block of the arena.
THEOREM FreeSucceeds == Spec => []AbortOnlyBehind
<1>1. IndInv => AbortOnlyBehind
  BY DEF IndInv
<1> QED
  BY <1>1, Invariance, PTL

\* No step of a call touches the node of a block that stays allocated.
THEOREM Isolation == Spec => OthersUntouched
<1>1. IndInv /\ IndInv' => \A b \in live \cap live' : st'[b.node] = NODE_USED /\ used'[b.node] = b.used
  BY DEF IndInv, LiveInv, BlockInv
<1> QED
  BY <1>1, Invariance, PTL DEF OthersUntouched

\* Two blocks held at the same time share no page.
THEOREM Exclusion == Spec => []NoOverlap
BY Apart, Invariance, PTL

\* A block lies in the arena or altogether behind it.
THEOREM NoStraddling == Spec => []InsideOrBehind
<1>1. IndInv => InsideOrBehind
  <2> SUFFICES ASSUME IndInv, NEW b \in live PROVE b.off + b.pages <= N \/ b.off >= N
    BY DEF InsideOrBehind
  <2>1. b.node \in Node /\ b.off \in Nat /\ BlockInv(b)
    BY BlockPages
  <2>2. PICK j \in 0 .. L : b.pages = P[j] /\ b.off + N = (b.node + 1) * P[j]
    BY <2>1 DEF BlockInv
  <2>3. j \in 0 .. W /\ L - j \in 0 .. W /\ (L - j) + j = L
    BY ArenaFacts
  <2>4. P[L - j] * P[j] = N
    BY <2>3, PowerProduct, ArenaFacts DEF N
  <2>5. P[L - j] \in Nat /\ P[j] \in Nat /\ b.node \in Nat /\ b.node + 1 \in Nat /\ b.node + 2 \in Nat /\ N \in Nat
    <3>1. b.node \in Nat
      BY <2>1, NodeFacts
    <3> QED
      BY <2>3, <3>1, ArenaFacts
  <2>6. CASE b.node + 1 >= 2 * P[L - j]
    <3>1. (b.node + 1) * P[j] >= (2 * P[L - j]) * P[j]
      BY <2>5, <2>6
    <3>2. (2 * P[L - j]) * P[j] = 2 * N
      BY <2>4, <2>5
    <3> QED
      BY <2>1, <2>2, <2>5, <3>1, <3>2
  <2>7. CASE b.node + 2 <= 2 * P[L - j]
    <3>1. (b.node + 2) * P[j] <= (2 * P[L - j]) * P[j]
      BY <2>5, <2>7
    <3>2. (2 * P[L - j]) * P[j] = 2 * N
      BY <2>4, <2>5
    <3>3. (b.node + 2) * P[j] = (b.node + 1) * P[j] + P[j]
      BY <2>5
    <3> QED
      BY <2>1, <2>2, <2>5, <3>1, <3>2, <3>3
  <2> QED
    BY <2>1, <2>5, <2>6, <2>7, NodeFacts
<1> QED
  BY <1>1, Invariance, PTL

\* Between two calls the tree is what the blocks alone call for: freed buddies
\* have merged, and a node is FULL exactly when nothing below it is left.
THEOREM TreeStaysExact == Spec => []TreeExact
<1>1. IndInv /\ TreeInv => TreeExact
  <2> SUFFICES ASSUME IndInv, TreeInv, pc = "idle", NEW i \in Node, Attached(i)
               PROVE  st[i] = StateFor(i)
    BY DEF TreeExact
  <2> DEFINE held  == {b \in live : b.node \in Below(i)}
             taken == UNION {Below(b.node) : b \in live}
  <2>1. /\ st[i] # NODE_UNUSED => \E b \in live : b.node \in Below(i)
        /\ Busy(i) <=> Below(i) \cap Leaf \subseteq taken
    BY NodesTell
  <2>2. \A b \in live : b.node \in Below(i) => st[i] # NODE_UNUSED
    BY BlockPages DEF BlockInv, Attached, AncestorsIn, Below, Divided,
                      NODE_UNUSED, NODE_USED, NODE_SPLIT, NODE_FULL
  <2>3. held = {} <=> st[i] = NODE_UNUSED
    BY <2>1, <2>2
  <2>4. (\E b \in held : b.node = i) <=> st[i] = NODE_USED
    <3>1. st[i] = NODE_USED => \E b \in live : b.node = i
      BY TreeFacts DEF Backed
    <3>2. \A b \in live : b.node = i => st[i] = NODE_USED
      BY BlockPages DEF BlockInv
    <3> QED
      BY <3>1, <3>2 DEF Below
  <2>5. st[i] \in NodeState
    BY TreeFacts
  <2>6. StateFor(i) = IF held = {} THEN NODE_UNUSED
                      ELSE IF \E b \in held : b.node = i THEN NODE_USED
                      ELSE IF Below(i) \cap Leaf \subseteq taken THEN NODE_FULL
                      ELSE NODE_SPLIT
    BY DEF StateFor
  <2> HIDE DEF held, taken
  <2> QED
    BY <2>1, <2>3, <2>4, <2>5, <2>6
       DEF Busy, NodeState, NODE_UNUSED, NODE_USED, NODE_SPLIT, NODE_FULL
<1> QED
  BY <1>1, TreeInvariance, PTL

-----------------------------------------------------------------------------
(* The sweep of a search: SweepInv *)

\* The leaves below the node of a block are the pages of the block.
LEMMA BlockLeaves ==
  ASSUME IndInv, NEW b \in live, b.off + b.pages <= N, NEW x \in Leaf
  PROVE  x \in Below(b.node) <=> b.off + N <= x + 1 /\ x + 1 < b.off + b.pages + N
<1>1. b.node \in Node /\ b.node \in Nat /\ b.off \in Nat /\ BlockInv(b)
  BY BlockPages, NodeFacts
<1>2. PICK j \in 0 .. L : b.pages = P[j] /\ b.off + N = (b.node + 1) * P[j]
  BY <1>1 DEF BlockInv
<1>3. P[j] \in Nat \ {0} /\ N \in Nat
  BY ArenaFacts
<1>4. N <= (b.node + 1) * P[j] /\ (b.node + 1) * P[j] < 2 * N
  BY <1>1, <1>2, <1>3
<1>5. (b.node + 2) * P[j] = (b.node + 1) * P[j] + P[j]
  BY <1>1, <1>3
<1>6. x \in Below(b.node) <=> Spans(b.node, j, x + 1)
  BY <1>1, <1>4, LeafSpans
<1> QED
  BY <1>1, <1>2, <1>3, <1>5, <1>6 DEF Spans

\* Where a node of n pages lies.
LEMMA PlacesOfNodes ==
  ASSUME NEW k \in 0 .. L, NEW i \in NodesOf(P[k])
  PROVE  /\ i \in Node /\ i \in Nat
         /\ N <= (i + 1) * P[k] /\ (i + 2) * P[k] <= 2 * N /\ (i + 1) * P[k] < 2 * N
<1>1. PICK d \in 0 .. L : P[L - d] = P[k] /\ i \in Node /\ i + 1 \in P[d] .. P[d + 1] - 1
  BY DEF NodesOf
<1>2. i \in Nat /\ P[d] \in Int /\ P[d + 1] \in Int
  BY <1>1, NodeFacts, ArenaFacts
<1>3. P[d] <= i + 1 /\ i + 1 < P[d + 1]
  BY <1>1, <1>2
<1> QED
  BY <1>1, <1>2, <1>3, NodeWithin

\* A place that is free is the place of a node that is clear of all blocks.
LEMMA FreePlace ==
  ASSUME IndInv, \A b \in live : b.off + b.pages <= N, NEW k \in 0 .. L,
         NEW o \in 0 .. N - 1, o % P[k] = 0, FreeAt(o, P[k])
  PROVE  \E i \in NodesOf(P[k]) : Clear(i) /\ (i + 1) * P[k] = o + N
<1>1. /\ L - k \in 0 .. L /\ L - (L - k) = k /\ (L - k) + k = L /\ L <= W
      /\ L - k \in 0 .. W /\ k \in 0 .. W /\ L - k \in 0 .. W - 1
  BY ArenaFacts
<1>2. PICK n, r : n = P[k] /\ r = P[L - k]
  OBVIOUS
<1>3. /\ n \in Nat \ {0} /\ r \in Nat \ {0} /\ r * n = N /\ P[(L - k) + 1] = 2 * r
      /\ N \in Nat \ {0} /\ r <= N
  <2>1. n \in Nat \ {0} /\ r \in Nat \ {0} /\ r * n = N /\ P[(L - k) + 1] = 2 * r /\ N \in Nat \ {0}
    BY <1>1, <1>2, PowerProduct, ArenaFacts, SizeAssumption DEF N
  <2>2. \A x, y \in Nat \ {0} : x <= x * y
    OBVIOUS
  <2> QED
    BY <2>1, <2>2
<1>4. o \in Nat /\ o % n = 0 /\ o + n <= N
  BY <1>2, <1>3 DEF FreeAt
<1>5. PICK q \in Nat : o = q * n
  <2>1. o = n * (o \div n) + (o % n) /\ o \div n \in Nat
    BY <1>3, <1>4
  <2>2. o = (o \div n) * n
    BY <1>3, <1>4, <2>1
  <2> QED
    BY <2>1, <2>2
<1>6. q < r
  <2>1. \A x, y, z \in Nat : y <= x => y * z <= x * z
    OBVIOUS
  <2>2. r <= q => r * n <= q * n
    BY <1>3, <1>5, <2>1
  <2> QED
    BY <1>3, <1>4, <1>5, <2>2
<1>7. PICK i : i = q + r - 1
  OBVIOUS
<1>8. i \in Nat /\ i + 1 = q + r /\ i \in Node
  BY <1>3, <1>5, <1>6, <1>7 DEF Node
<1>9. i \in NodesOf(n)
  <2>1. i + 1 \in r .. 2 * r - 1
    BY <1>3, <1>5, <1>6, <1>8
  <2> QED
    BY <1>1, <1>2, <1>3, <1>8, <2>1 DEF NodesOf
<1>10. (i + 1) * n = o + N
  <2>1. (q + r) * n = q * n + r * n
    BY <1>3, <1>5
  <2> QED
    BY <1>3, <1>5, <1>8, <2>1
<1>11. Clear(i)
  <2>1. SUFFICES ASSUME NEW b \in live, b.node \in Below(i) \/ i \in Below(b.node) PROVE FALSE
    BY DEF Clear
  <2>2. /\ b.node \in Node /\ b.off \in Nat /\ b.pages \in Nat
    BY BlockPages, ArenaFacts DEF BlockInv
  <2>3. PICK x \in Leaf : x \in Below(i) /\ x \in Below(b.node)
    <3>1. CASE b.node \in Below(i)
      <4>1. Below(b.node) \subseteq Below(i)
        BY <1>8, <3>1, BelowBelow
      <4>2. PICK x \in Leaf : x \in Below(b.node)
        BY <2>2, SomeLeaf
      <4> QED
        BY <4>1, <4>2
    <3>2. CASE i \in Below(b.node)
      <4>1. Below(i) \subseteq Below(b.node)
        BY <2>2, <3>2, BelowBelow
      <4>2. PICK x \in Leaf : x \in Below(i)
        BY <1>8, SomeLeaf
      <4> QED
        BY <4>1, <4>2
    <3> QED
      BY <2>1, <3>1, <3>2
  <2>4. b.off + N <= x + 1 /\ x + 1 < b.off + b.pages + N
    BY <2>3, BlockLeaves
  <2>5. (i + 1) * n <= x + 1 /\ x + 1 < (i + 2) * n
    <3>1. N <= (i + 1) * P[k] /\ (i + 1) * P[k] < 2 * N
      BY <1>2, <1>9, PlacesOfNodes
    <3> QED
      BY <1>2, <1>8, <2>3, <3>1, LeafSpans DEF Spans
  <2>6. (i + 2) * n = (i + 1) * n + n
    BY <1>3, <1>8
  <2>7. x \in Nat
    BY <1>3 DEF Leaf
  <2> QED
    BY <1>2, <1>3, <1>4, <1>10, <2>2, <2>4, <2>5, <2>6, <2>7 DEF FreeAt
<1> QED
  BY <1>2, <1>9, <1>10, <1>11

\* What is known of a search that has not passed the root.
LEMMA SearchFacts ==
  ASSUME IndInv, OnLevel, pc \in {"search", "climb"}
  PROVE  /\ index \in Node /\ index \in Nat /\ AncestorsIn(index, {NODE_SPLIT}) /\ Attached(index)
         /\ arg \in Requests /\ size = PagesOf[arg] /\ size \in Nat \ {0}
         /\ \E k \in 0 .. L : size = P[k]
         /\ level \in 0 .. L /\ level \in 0 .. W - 1 /\ L - level \in 0 .. L
         /\ level \in 0 .. W /\ level + 1 \in 0 .. W /\ L - level \in 0 .. W
         /\ length = P[L - level] /\ length \in Nat \ {0} /\ size <= length
         /\ P[level] \in Nat \ {0} /\ P[level + 1] = 2 * P[level]
         /\ P[level] * length = N
         /\ P[level] <= index + 1 /\ index + 1 < P[level + 1]
         /\ N <= (index + 1) * length /\ (index + 2) * length <= 2 * N
         /\ (index + 1) * length < 2 * N
<1>1. /\ index \in Node /\ arg \in Requests /\ size = PagesOf[arg] /\ size <= N
      /\ AncestorsIn(index, {NODE_SPLIT})
  BY DEF IndInv, TypeOK, SearchInv
<1>2. /\ level \in 0 .. L /\ length = P[L - level] /\ size <= length
      /\ P[level] <= index + 1 /\ index + 1 < P[level + 1]
  BY DEF OnLevel
<1>3. size \in Nat \ {0} /\ \E k \in 0 .. L : size = P[k]
  BY <1>1, RequestAssumption DEF N
<1>4. /\ level \in 0 .. W - 1 /\ L - level \in 0 .. L /\ L - level \in 0 .. W
      /\ level \in 0 .. W /\ level + 1 \in 0 .. W /\ level + (L - level) = L /\ L <= W
  BY <1>2, ArenaFacts
<1>5. length \in Nat \ {0} /\ P[level] \in Nat \ {0} /\ P[level + 1] = 2 * P[level]
  BY <1>2, <1>4, SizeAssumption
<1>6. P[level] * length = N
  BY <1>2, <1>4, PowerProduct DEF N
<1>7. Attached(index)
  BY <1>1 DEF Attached, AncestorsIn, Divided
<1>8. N <= (index + 1) * length /\ (index + 2) * length <= 2 * N /\ (index + 1) * length < 2 * N
  BY <1>1, <1>2, NodeWithin
<1> QED
  BY <1>1, <1>2, <1>3, <1>4, <1>5, <1>6, <1>7, <1>8, NodeFacts

\* A node that the search leaves aside, and all below it, is not clear.
LEMMA NothingHere ==
  ASSUME IndInv, TreeInv, OnLevel, pc = "search", Blocked,
         NEW i \in NodesOf(size), Clear(i), (index + 1) * length <= (i + 1) * size
  PROVE  (index + 2) * length <= (i + 1) * size
<1>1. /\ index \in Node /\ index \in Nat /\ Attached(index) /\ size \in Nat \ {0}
      /\ L - level \in 0 .. L
      /\ length = P[L - level] /\ length \in Nat \ {0}
      /\ N <= (index + 1) * length /\ (index + 1) * length < 2 * N
  BY SearchFacts
<1>2. PICK k \in 0 .. L : size = P[k]
  BY SearchFacts
<1>3. i \in Node /\ i \in Nat /\ N <= (i + 1) * size /\ (i + 1) * size < 2 * N
  BY <1>2, PlacesOfNodes
<1>4. st[index] # NODE_UNUSED /\ (size # length => Busy(index))
  BY DEF Blocked, Busy, NODE_UNUSED, NODE_USED, NODE_FULL
<1>5. /\ \E b \in live : b.node \in Below(index)
      /\ Busy(index) => Below(index) \cap Leaf \subseteq UNION {Below(b.node) : b \in live}
  BY <1>1, <1>4, NodesTell
<1>6. SUFFICES ASSUME (i + 1) * size < (index + 2) * length PROVE FALSE
  <2>1. (index + 2) * length \in Nat /\ (i + 1) * size \in Nat
    BY <1>1, <1>3
  <2> QED
    BY <1>6, <2>1
<1>7. index # i /\ i \notin Ancestors(index)
  <2>1. SUFFICES ASSUME index \in Below(i) PROVE FALSE
    BY <1>1, <1>3 DEF Below
  <2>2. Below(index) \subseteq Below(i)
    BY <1>3, <2>1, BelowBelow
  <2> QED
    BY <1>5, <2>2 DEF Clear
<1>8. CASE Busy(index)
  <2>1. PICK y : y = (i + 1) * size
    OBVIOUS
  <2>2. PICK x \in Leaf : x + 1 = y
    <3>1. y \in Nat /\ N <= y /\ y < 2 * N /\ N \in Nat \ {0}
      BY <1>1, <1>3, <2>1, ArenaFacts
    <3>2. y - 1 \in Leaf /\ (y - 1) + 1 = y
      BY <3>1 DEF Leaf
    <3> QED
      BY <3>2
  <2>3. x \in Below(index)
    <3>1. Spans(index, L - level, x + 1)
      BY <1>1, <1>6, <2>1, <2>2 DEF Spans
    <3> QED
      BY <1>1, <3>1, LeafSpans
  <2>4. x \in Below(i)
    <3>1. (i + 2) * size = (i + 1) * size + size
      BY <1>1, <1>3
    <3>2. Spans(i, k, x + 1)
      BY <1>1, <1>2, <1>3, <2>1, <2>2, <3>1 DEF Spans
    <3> QED
      BY <1>2, <1>3, <3>2, LeafSpans
  <2>5. PICK b \in live : x \in Below(b.node)
    BY <1>5, <1>8, <2>3
  <2>6. b.node \in Node /\ x \in Node
    BY <2>4, BlockPages DEF Below
  <2>7. i = b.node \/ i \in Ancestors(b.node) \/ b.node \in Ancestors(i)
    BY <1>3, <2>4, <2>5, <2>6, OneAbove
  <2> QED
    BY <1>3, <2>6, <2>7 DEF Clear, Below
<1>9. CASE ~ Busy(index)
  <2>1. size = length
    BY <1>4, <1>9
  <2>2. \A x, y \in Nat, s \in Nat \ {0} : x * s < y * s => x < y
    OBVIOUS
  <2>3. i + 1 < index + 2
    BY <1>1, <1>3, <1>6, <2>1, <2>2
  <2>4. \A x, y \in Nat, s \in Nat \ {0} : x * s <= y * s => x <= y
    OBVIOUS
  <2>5. index + 1 <= i + 1
    BY <1>1, <1>3, <2>1, <2>4
  <2> QED
    BY <1>1, <1>3, <1>7, <2>3, <2>5
<1> QED
  BY <1>8, <1>9

LEMMA SameNodes ==
  ASSUME live' = live, size' = size
  PROVE  NodesOf(size)' = NodesOf(size) /\ NodeLeft(size)' = NodeLeft(size)
         /\ \A i : Clear(i)' = Clear(i)
<1>1. \A i : Clear(i)' = Clear(i)
  BY DEF Clear
<1>2. NodesOf(size)' = NodesOf(size)
  BY DEF NodesOf
<1> QED
  BY <1>1, <1>2 DEF NodeLeft

\* A step of a search that has passed the root, or that comes to no clear node.
LEMMA SweepOn ==
  ASSUME IndInv, SweepInv, pc \in {"search", "climb"}, live' = live, size' = size,
         OnLevel /\ NodeLeft(size) =>
           \/ OnLevel' /\ Passed' * length' = Passed * length
           \/ OnLevel' /\ \A i \in NodesOf(size) : Clear(i) => Passed' * length' <= (i + 1) * size
           \/ \A i \in NodesOf(size) : ~ Clear(i)
  PROVE  SweepInv'
BY SameNodes DEF SweepInv, NodeLeft

\* Into the left half of a node that is longer than the request.
LEMMA DownSweep ==
  ASSUME IndInv, SweepInv, pc = "search", pc' = "search", size # length,
         index' = LeftChild(index), length' = length \div 2, level' = Followed(level + 1),
         size' = size, live' = live
  PROVE  SweepInv'
<1> SUFFICES ASSUME OnLevel PROVE OnLevel' /\ Passed' * length' = Passed * length
  BY SweepOn
<1>1. /\ index \in Nat /\ size \in Nat \ {0} /\ \E k \in 0 .. L : size = P[k]
      /\ level \in 0 .. L /\ L - level \in 0 .. L
      /\ length = P[L - level] /\ length \in Nat \ {0} /\ size <= length
      /\ P[level] \in Nat \ {0} /\ P[level + 1] = 2 * P[level]
      /\ P[level] <= index + 1 /\ index + 1 < P[level + 1]
  BY SearchFacts
<1>2. PICK k \in 0 .. L : size = P[k]
  BY <1>1
<1>3. k < L - level
  <2>1. SUFFICES ASSUME L - level < k PROVE FALSE
    BY <1>1, <1>2
  <2>2. L - level \in 0 .. W /\ k \in 0 .. W
    BY <1>1, ArenaFacts
  <2>3. P[L - level] < P[k]
    BY <2>1, <2>2, PowerGrows
  <2> QED
    BY <1>1, <1>2, <2>3
<1>4. /\ level + 1 \in 0 .. L /\ level + 1 \in 0 .. W - 1 /\ L - (level + 1) \in 0 .. W - 1
      /\ (L - (level + 1)) + 1 = L - level /\ L - (level + 1) \in 0 .. W /\ k \in 0 .. W
  BY <1>1, <1>3, ArenaFacts
<1>5. PICK h : h = P[L - (level + 1)]
  OBVIOUS
<1>6. h \in Nat \ {0} /\ length = 2 * h /\ length' = h /\ level' = level + 1
  <2>1. P[L - (level + 1)] \in Nat \ {0} /\ P[(L - (level + 1)) + 1] = 2 * P[L - (level + 1)]
    BY <1>4, SizeAssumption
  <2>2. h \in Nat \ {0} /\ length = 2 * h
    BY <1>1, <1>4, <1>5, <2>1
  <2> QED
    BY <1>1, <2>2 DEF Followed
<1>7. size <= h
  <2>1. k < L - (level + 1) => P[k] < P[L - (level + 1)]
    BY <1>4, PowerGrows
  <2>2. k < L - (level + 1) \/ k = L - (level + 1)
    BY <1>1, <1>3, ArenaFacts
  <2> QED
    BY <1>1, <1>2, <1>5, <1>6, <2>1, <2>2
<1>8. P[level'] <= index' + 1 /\ index' + 1 < P[level' + 1]
  <2>1. P[(level + 1) + 1] = 2 * P[level + 1]
    BY <1>4, SizeAssumption
  <2> QED
    BY <1>1, <1>6, <2>1 DEF LeftChild
<1>9. Passed' * length' = Passed * length
  <2>1. Passed' = 2 * (index + 1) /\ Passed = index + 1
    BY <1>1 DEF Passed, LeftChild
  <2>2. (2 * (index + 1)) * h = (index + 1) * (2 * h)
    BY <1>1, <1>6
  <2> QED
    BY <1>6, <2>1, <2>2
<1> QED
  BY <1>1, <1>4, <1>5, <1>6, <1>7, <1>8, <1>9 DEF OnLevel

\* Past a node with nothing clear below it.
LEMMA NextSiblingSweep == ASSUME IndInv, TreeInv, SweepInv, NextSibling PROVE SweepInv'
<1>1. /\ pc = "search" /\ pc' = "search" /\ Blocked /\ Odd(index) /\ index' = Inc(index)
      /\ live' = live /\ size' = size /\ level' = level /\ length' = length
  BY DEF NextSibling
<1> SUFFICES ASSUME OnLevel, NodeLeft(size),
                    \A i \in NodesOf(size) : Clear(i) => Passed * length <= (i + 1) * size
             PROVE  OnLevel' /\ \A i \in NodesOf(size) : Clear(i) => Passed' * length' <= (i + 1) * size
  BY <1>1, SweepOn DEF SweepInv
<1>2. /\ index \in Node /\ index \in Nat /\ P[level] \in Nat /\ P[level + 1] = 2 * P[level]
      /\ P[level] <= index + 1 /\ index + 1 < P[level + 1]
  BY <1>1, SearchFacts
<1>3. index' = index + 1 /\ Passed' = index + 2 /\ Passed = index + 1
  <2>1. Sibling(index) = index + 1 /\ Inc(index) = Sibling(index)
    BY <1>1, <1>2, NodeFacts DEF Sibling
  <2> QED
    BY <1>1, <1>2, <2>1 DEF Passed
<1>4. P[level] <= index' + 1 /\ index' + 1 < P[level + 1]
  BY <1>1, <1>2, <1>3 DEF Odd
<1>5. \A i \in NodesOf(size) : Clear(i) => (index + 2) * length <= (i + 1) * size
  BY <1>1, <1>3, NothingHere
<1> QED
  BY <1>1, <1>3, <1>4, <1>5 DEF OnLevel

LEMMA StartClimbSweep == ASSUME IndInv, TreeInv, SweepInv, StartClimb PROVE SweepInv'
<1>1. /\ pc = "search" /\ pc' = "climb" /\ Blocked /\ ~ Odd(index) /\ index' = index
      /\ live' = live /\ size' = size /\ level' = level /\ length' = length
  BY DEF StartClimb, locals
<1> SUFFICES ASSUME OnLevel, NodeLeft(size),
                    \A i \in NodesOf(size) : Clear(i) => Passed * length <= (i + 1) * size
             PROVE  OnLevel' /\ \A i \in NodesOf(size) : Clear(i) => Passed' * length' <= (i + 1) * size
  BY <1>1, SweepOn DEF SweepInv
<1>2. Passed' = index + 2 /\ Passed = index + 1
  BY <1>1 DEF Passed
<1>3. \A i \in NodesOf(size) : Clear(i) => (index + 2) * length <= (i + 1) * size
  BY <1>1, <1>2, NothingHere
<1>4. OnLevel'
  BY <1>1, ~ Odd(index') DEF OnLevel
<1> QED
  BY <1>1, <1>2, <1>3, <1>4

\* At the root the climb has passed every node: none is clear.
LEMMA RootSweep ==
  ASSUME IndInv, OnLevel, pc = "climb", level = 0,
         NEW i \in NodesOf(size), Passed * length <= (i + 1) * size
  PROVE  FALSE
<1>1. /\ index \in Nat /\ length \in Nat /\ P[level] * length = N
      /\ P[level] <= index + 1 /\ index + 1 < 2 * P[level]
  BY SearchFacts
<1>2. P[level] = 1
  BY SizeAssumption
<1>3. index = 0 /\ length = N
  BY <1>1, <1>2
<1>4. PICK k \in 0 .. L : size = P[k]
  BY SearchFacts
<1>5. (i + 1) * size < 2 * N /\ i \in Nat /\ size \in Nat /\ N \in Nat
  BY <1>4, PlacesOfNodes, ArenaFacts
<1>6. 2 * N <= (i + 1) * size
  BY <1>3 DEF Passed
<1> QED
  BY <1>5, <1>6

LEMMA ClimbSweep == ASSUME IndInv, SweepInv, Climb PROVE SweepInv'
<1> DEFINE p == Parent(index)
<1>1. /\ pc = "climb" /\ length' = Dbl(length)
      /\ level' = IF length' = 0 THEN level ELSE level - 1
      /\ live' = live /\ size' = size
      /\ index' = IF Odd(p) THEN Inc(p) ELSE p
      /\ pc' = IF Odd(p) THEN "search" ELSE "climb"
  BY DEF Climb, Followed
<1>0. CASE level = 0
  <2> SUFFICES ASSUME OnLevel, NodeLeft(size),
                      \A i \in NodesOf(size) : Clear(i) => Passed * length <= (i + 1) * size
               PROVE  \A i \in NodesOf(size) : ~ Clear(i)
    BY <1>1, SweepOn DEF SweepInv
  <2> QED
    BY <1>0, <1>1, RootSweep
<1> SUFFICES ASSUME OnLevel, level # 0
             PROVE  OnLevel' /\ Passed' * length' = Passed * length
  BY <1>0, <1>1, SweepOn
<1>2. /\ index \in Node /\ index \in Nat /\ size \in Nat \ {0}
      /\ level \in 0 .. L /\ L - level \in 0 .. L
      /\ length = P[L - level] /\ length \in Nat \ {0} /\ size <= length
      /\ P[level] \in Nat \ {0} /\ P[level + 1] = 2 * P[level]
      /\ P[level] <= index + 1 /\ index + 1 < P[level + 1]
      /\ P[level] * length = N
  BY <1>1, SearchFacts
<1>3. ~ Odd(index) /\ Passed = index + 2
  BY <1>1 DEF OnLevel, Passed
<1>4. N \in Nat \ {0} /\ 2 * N < Word
  BY ArenaFacts
<1>6. /\ level - 1 \in 0 .. L /\ level - 1 \in 0 .. W - 1 /\ (level - 1) + 1 = level
      /\ L - (level - 1) = (L - level) + 1 /\ L - level \in 0 .. W - 1
  BY <1>2, ArenaFacts
<1>7. PICK a : a = P[level - 1]
  OBVIOUS
<1>8. a \in Nat \ {0} /\ P[level] = 2 * a /\ P[(L - level) + 1] = 2 * length
  BY <1>2, <1>6, <1>7, SizeAssumption
<1>9. length' = 2 * length /\ level' = level - 1 /\ length' = P[L - level'] /\ size' <= length'
  <2>1. (2 * a) * length = N /\ a * (2 * length) = (2 * a) * length
    BY <1>2, <1>8
  <2>2. 2 * length <= a * (2 * length)
    BY <1>2, <1>8
  <2>3. 2 * length <= N
    BY <1>2, <2>1, <2>2
  <2>4. length' = 2 * length
    <3>1. length \in Nat /\ N \in Nat /\ Word \in Nat
      BY <1>2, ArenaFacts
    <3> QED
      BY <1>1, <1>4, <2>3, <3>1 DEF Dbl
  <2>5. level' = level - 1
    BY <1>1, <1>2, <2>4
  <2>6. length' = P[L - level']
    BY <1>6, <1>8, <2>4, <2>5
  <2>7. size' <= length'
    <3>1. size \in Nat /\ length \in Nat /\ size <= length /\ size' = size
      BY <1>1, <1>2
    <3> QED
      BY <2>4, <3>1
  <2> QED
    BY <2>4, <2>5, <2>6, <2>7
<1>10. p \in Nat /\ p \in Node /\ index = 2 * p + 2
  <2>1. index # 0
    BY <1>2, <1>8
  <2>2. p \in Node /\ index \in {LeftChild(p), RightChild(p)}
    BY <1>2, <2>1, NodeFacts
  <2> HIDE DEF p
  <2>3. p \in Nat
    BY <2>2, NodeFacts
  <2> QED
    BY <1>3, <2>2, <2>3 DEF Odd, LeftChild, RightChild
<1>11. a <= p + 1 /\ p + 1 < 2 * a /\ (Odd(p) => p + 2 < 2 * a)
  BY <1>2, <1>8, <1>10 DEF Odd
<1>12. Passed' = p + 2 /\ a <= index' + 1 /\ index' + 1 < 2 * a /\ (pc' = "climb" => ~ Odd(index'))
  <2>1. CASE Odd(p)
    <3>1. Inc(p) = p + 1
      BY <1>10, <2>1, NodeFacts DEF Sibling
    <3> QED
      BY <1>1, <1>8, <1>10, <1>11, <2>1, <3>1 DEF Passed
  <2>2. CASE ~ Odd(p)
    BY <1>1, <1>8, <1>10, <1>11, <2>2 DEF Passed
  <2> QED
    BY <2>1, <2>2
<1>13. Passed' * length' = Passed * length
  <2>1. \A q, h \in Nat : (q + 2) * (2 * h) = (2 * q + 4) * h
    OBVIOUS
  <2>2. (p + 2) * (2 * length) = (2 * p + 4) * length
    BY <1>2, <1>10, <2>1
  <2> QED
    BY <1>3, <1>9, <1>10, <1>12, <2>2
<1>14. P[level'] <= index' + 1 /\ index' + 1 < P[level' + 1] /\ level' \in 0 .. L
  BY <1>6, <1>7, <1>8, <1>9, <1>12
<1> HIDE DEF p
<1> QED
  BY <1>1, <1>3, <1>9, <1>12, <1>13, <1>14 DEF OnLevel

LEMMA AllocStartSweep == ASSUME IndInv, NEW s \in Requests, AllocStart(s) PROVE SweepInv'
<1>1. /\ pc' = "search" /\ live' = live /\ size' = PagesOf[s] /\ PagesOf[s] <= N
      /\ index' = 0 /\ level' = 0 /\ length' = N
  BY DEF AllocStart, tree
<1>2. /\ 0 \in 0 .. L /\ L - 0 = L /\ N = P[L] /\ P[0] = 1 /\ P[0 + 1] = 2
      /\ N \in Nat \ {0}
  <2>1. 0 \in 0 .. W - 1
    BY SizeAssumption
  <2> QED
    BY <2>1, SizeAssumption, ArenaFacts DEF N
<1>3. OnLevel'
  BY <1>1, <1>2 DEF OnLevel
<1>4. PICK k \in 0 .. L : PagesOf[s] = P[k]
  BY <1>1, RequestAssumption DEF N
<1>5. ASSUME NEW i \in NodesOf(size)' PROVE Passed' * length' <= (i + 1) * size'
  <2>1. i \in NodesOf(P[k])
    BY <1>1, <1>4, <1>5 DEF NodesOf
  <2>2. N <= (i + 1) * size'
    BY <1>1, <1>4, <2>1, PlacesOfNodes
  <2>3. Passed' = 1
    BY <1>1 DEF Passed
  <2> QED
    BY <1>1, <1>2, <2>2, <2>3
<1> QED
  BY <1>3, <1>5 DEF SweepInv

LEMMA SweepStep == IndInv /\ TreeInv /\ SweepInv /\ [Next]_vars => SweepInv'
<1> SUFFICES ASSUME IndInv, TreeInv, SweepInv, [Next]_vars PROVE SweepInv'
  OBVIOUS
<1>1. CASE Search
  <2>1. CASE SplitDown
    BY <2>1, DownSweep DEF SplitDown
  <2>2. CASE Down
    BY <2>2, DownSweep DEF Down
  <2>3. CASE Take
    BY <2>3 DEF Take, SweepInv
  <2> QED
    BY <1>1, <2>1, <2>2, <2>3, NextSiblingSweep, StartClimbSweep, ClimbSweep DEF Search
<1>2. CASE Mark \/ Walk \/ Merge \/ Return
  <2>1. pc' \notin {"search", "climb"}
    BY <1>2 DEF Mark, MarkParent, MarkDone, Walk, WalkDown, WalkAbort, QueryFound, FreeFound,
                Merge, CombineUp, CombineClear, Unfull, UnfullDone, Return
  <2> QED
    BY <2>1 DEF SweepInv
<1>3. CASE Call
  <2>1. CASE \E s \in Requests : AllocStart(s)
    BY <2>1, AllocStartSweep
  <2>2. CASE ~ \E s \in Requests : AllocStart(s)
    <3>1. pc' \in {"return", "walk", "abort"}
      BY <1>3, <2>2 DEF Call, AllocTooLarge, WalkStart
    <3> QED
      BY <3>1 DEF SweepInv
  <2> QED
    BY <2>1, <2>2
<1>4. CASE UNCHANGED vars
  <2>1. /\ live' = live /\ pc' = pc /\ size' = size /\ index' = index
        /\ length' = length /\ level' = level
    BY <1>4 DEF vars
  <2>2. Passed' = Passed /\ OnLevel' = OnLevel
    BY <2>1 DEF Passed, OnLevel
  <2> QED
    BY <2>1, <2>2, SameNodes DEF SweepInv
<1> QED
  BY <1>1, <1>2, <1>3, <1>4 DEF Next, Step

\* Where a match of a search that has not passed the root lies.
LEMMA TakePlace ==
  ASSUME IndInv, OnLevel, Take
  PROVE  /\ ret' = ((index + 1) - P[level]) * size /\ ret' + N = (index + 1) * size
         /\ ret' \in Nat /\ ret' % size = 0 /\ ret' + size <= N
<1>1. pc = "search" /\ size = length /\ ret' = IndexOffset(index, level)
  BY DEF Take
<1>2. /\ index \in Node /\ index \in Nat /\ level \in 0 .. L /\ length = P[L - level]
      /\ length \in Nat \ {0} /\ P[level] \in Nat \ {0} /\ P[level] <= index + 1
      /\ (index + 2) * length <= 2 * N
  BY <1>1, SearchFacts
<1>3. ret' = ((index + 1) - P[level]) * size /\ ret' + N = (index + 1) * size
  BY <1>1, <1>2, OffsetOfNode DEF IndexOffset
<1>4. ret' \in Nat /\ ret' % size = 0
  <2>1. \A q \in Nat, h \in Nat \ {0} : q * h \in Nat /\ (q * h) % h = 0
    OBVIOUS
  <2>2. (index + 1) - P[level] \in Nat
    BY <1>2
  <2> QED
    BY <1>1, <1>2, <1>3, <2>1, <2>2
<1>5. ret' + size <= N
  <2>1. (index + 2) * length = (index + 1) * length + length
    BY <1>2
  <2> QED
    BY <1>1, <1>2, <1>3, <1>4, <2>1, ArenaFacts
<1> QED
  BY <1>3, <1>4, <1>5

\* A search that does not ask for more than is free does not pass the root.
LEMMA StaysOnLevel ==
  ASSUME IndInv, SweepInv, FitInv, pc = "search"
  PROVE  OnLevel /\ \A i \in NodesOf(size) : Clear(i) => Passed * length <= (i + 1) * size
<1>1. PICK o \in 0 .. N - 1 : o % size = 0 /\ FreeAt(o, size)
  BY DEF FitInv, Fits
<1>2. \A b \in live : b.off + b.pages <= N
  BY DEF FitInv
<1>3. PICK k \in 0 .. L : size = P[k]
  BY RequestAssumption DEF IndInv, SearchInv, N
<1>4. NodeLeft(size)
  BY <1>1, <1>2, <1>3, FreePlace DEF NodeLeft
<1> QED
  BY <1>4 DEF SweepInv

LEMMA FitStep == ASSUME ~ Exhaust PROVE IndInv /\ SweepInv /\ FitInv /\ [Next]_vars => FitInv'
<1> SUFFICES ASSUME IndInv, SweepInv, FitInv, [Next]_vars PROVE FitInv'
  OBVIOUS
<1>1. ASSUME live' \subseteq live, pc' \notin {"search", "climb"} PROVE FitInv'
  BY <1>1 DEF FitInv
<1>2. ASSUME live' = live, pc \in {"search", "climb"}, size' = size PROVE FitInv'
  BY <1>2 DEF FitInv, Fits, FreeAt
<1>3. CASE Take
  <2>1. /\ pc = "search" /\ pc' = "mark"
        /\ live' = live \cup {[node |-> index, off |-> ret', pages |-> size, used |-> arg]}
    BY <1>3 DEF Take
  <2>2. ret' + size <= N
    BY <1>3, <2>1, StaysOnLevel, TakePlace
  <2> QED
    BY <2>1, <2>2 DEF FitInv
<1>4. CASE SplitDown \/ Down \/ NextSibling \/ StartClimb \/ Climb
  BY <1>2, <1>4 DEF SplitDown, Down, NextSibling, StartClimb, Climb, locals
<1>5. CASE Mark \/ Walk \/ Merge \/ Return
  BY <1>1, <1>5 DEF Mark, MarkParent, MarkDone, Walk, WalkDown, WalkAbort, QueryFound, FreeFound,
                    Merge, CombineUp, CombineClear, Unfull, UnfullDone, Return
<1>6. ASSUME NEW s \in Requests, AllocStart(s) PROVE FitInv'
  <2>1. live' = live /\ size' = PagesOf[s] /\ Fits(PagesOf[s])
    BY <1>6 DEF AllocStart, tree
  <2>2. Fits(size)'
    BY <2>1 DEF Fits, FreeAt
  <2> QED
    BY <2>1, <2>2 DEF FitInv
<1>7. CASE Call /\ ~ \E s \in Requests : AllocStart(s)
  <2>1. live' = live /\ pc' \in {"return", "walk", "abort"}
    BY <1>7 DEF Call, AllocTooLarge, WalkStart
  <2> QED
    BY <1>1, <2>1
<1>8. CASE UNCHANGED vars
  <2>1. live' = live /\ pc' = pc /\ size' = size
    BY <1>8 DEF vars
  <2> QED
    BY <1>1, <1>2, <2>1
<1> QED
  BY <1>3, <1>4, <1>5, <1>6, <1>7, <1>8 DEF Next, Step, Search

\* In every state all of the inductive invariant holds.
THEOREM BuddyInvariance == Spec => []BuddyInv
<1>1. Init => BuddyInv
  BY InitInv, TreeInit DEF BuddyInv, PassInv, SweepInv, FitInv, Init
<1>2. BuddyInv /\ [Next]_vars => BuddyInv'
  BY NextInv, TreeStep, PassStep, SweepStep, FitStep DEF BuddyInv
<1> QED
  BY <1>1, <1>2, PTL DEF Spec

\* A place behind the arena is handed out only when each node that could serve
\* the request is, contains or lies in a block's node.
THEOREM BehindWhenExhausted == Spec => BehindOnlyWhenExhausted
<1>1. BuddyInv /\ [Next]_vars /\ pc = "search" /\ pc' = "mark" /\ ret' >= N => ~ NodeLeft(size)
  <2> SUFFICES ASSUME IndInv, SweepInv, [Next]_vars, pc = "search", pc' = "mark",
                      ret' >= N, NodeLeft(size)
               PROVE  FALSE
    BY DEF BuddyInv
  <2>1. Take
    BY DEF Next, Call, AllocTooLarge, AllocStart, WalkStart, Step, Search, SplitDown, Down,
           NextSibling, StartClimb, Climb, Mark, MarkParent, MarkDone, Walk, WalkDown, WalkAbort,
           QueryFound, FreeFound, Merge, CombineUp, CombineClear, Unfull, UnfullDone, Return, vars
  <2>2. OnLevel
    BY DEF SweepInv
  <2>3. ret' \in Nat /\ ret' + size <= N /\ size \in Nat \ {0} /\ N \in Nat
    BY <2>1, <2>2, TakePlace, SearchFacts, ArenaFacts
  <2>4. \A r, s, n \in Nat : r + s <= n /\ s # 0 => ~ (r >= n)
    OBVIOUS
  <2> QED
    BY <2>3, <2>4
<1> QED
  BY <1>1, BuddyInvariance, PTL DEF Spec, BehindOnlyWhenExhausted

-----------------------------------------------------------------------------
(* The tree implements the arena *)

LEMMA ApartNext == IndInv' => NoOverlap'
BY Apart, PTL

LEMMA VacantIsFree ==
  ASSUME NEW o, NEW n
  PROVE  ArenaOfPages!Vacant(o, n) <=> FreeAt(o, n)
<1>1. ASSUME NEW b \in live
      PROVE  \E c \in Blocks : c.off = b.off /\ c.pages = b.pages
  <2>1. [off |-> b.off, pages |-> b.pages, used |-> b.used] \in Blocks
    BY DEF Blocks
  <2> QED
    BY <2>1
<1>2. ASSUME NEW c \in Blocks
      PROVE  \E b \in live : c.off = b.off /\ c.pages = b.pages
  BY DEF Blocks
<1> QED
  BY <1>1, <1>2 DEF ArenaOfPages!Vacant, FreeAt

\* The match of a search is the lowest place at which the request fits.
LEMMA TakeServes ==
  ASSUME IndInv, IndInv', SweepInv, FitInv, Take
  PROVE  arg \in Requests /\ ArenaOfPages!Malloc(arg)
<1>1. PICK new : /\ pc = "search" /\ size = length /\ st[index] = NODE_UNUSED
                 /\ ret' = IndexOffset(index, level) /\ live' = live \cup {new}
                 /\ new.node = index /\ new.off = ret' /\ new.pages = size /\ new.used = arg
  <2> DEFINE b == [node |-> index, off |-> ret', pages |-> size, used |-> arg]
  <2>1. /\ live' = live \cup {b}
        /\ b.node = index /\ b.off = ret' /\ b.pages = size /\ b.used = arg
    BY DEF Take
  <2> HIDE DEF b
  <2> QED
    BY <2>1 DEF Take
<1>2. /\ arg \in Requests /\ size = PagesOf[arg] /\ size \in Nat \ {0} /\ live \subseteq Block
  BY <1>1, RequestAssumption DEF IndInv, TypeOK, SearchInv
<1>3. OnLevel /\ \A i \in NodesOf(size) : Clear(i) => (index + 1) * length <= (i + 1) * size
  BY <1>1, StaysOnLevel DEF Passed
<1>4. /\ ret' + N = (index + 1) * size
      /\ ret' \in Nat /\ ret' % size = 0 /\ ret' + size <= N
  BY <1>3, TakePlace
<1>5. index \in Nat
  BY <1>1, <1>3, SearchFacts
<1>6. FreeAt(ret', size)
  <2>2. ASSUME NEW b \in live PROVE ret' + size <= b.off \/ b.off + b.pages <= ret'
    <3>1. b # new
      BY <1>1 DEF IndInv, LiveInv, BlockInv, NODE_UNUSED, NODE_USED
    <3>2. b \in live' /\ new \in live' /\ new.off = ret' /\ new.pages = size
      BY <1>1
    <3> QED
      BY <3>1, <3>2, ApartNext DEF NoOverlap
  <2> QED
    BY <1>4, <2>2 DEF FreeAt
<1>7. ret' \in 0 .. N - 1
  BY <1>2, <1>4, ArenaFacts
<1>8. ASSUME NEW o \in 0 .. N - 1, o % size = 0, FreeAt(o, size) PROVE ret' <= o
  <2>1. PICK k \in 0 .. L : size = P[k]
    BY <1>1, <1>3, SearchFacts
  <2>2. \A b \in live : b.off + b.pages <= N
    BY DEF FitInv
  <2>3. PICK i \in NodesOf(size) : Clear(i) /\ (i + 1) * size = o + N
    BY <1>8, <2>1, <2>2, FreePlace
  <2> QED
    BY <1>1, <1>3, <1>4, <2>3, ArenaFacts
<1>9. Blocks' = Blocks \cup {[off |-> ret', pages |-> size, used |-> arg]}
  BY <1>1 DEF Blocks
<1>10. ret' \in ArenaOfPages!Places(size) /\ \A o \in ArenaOfPages!Places(size) : ret' <= o
  BY <1>4, <1>6, <1>7, <1>8, VacantIsFree DEF ArenaOfPages!Places
<1> QED
  BY <1>2, <1>9, <1>10 DEF ArenaOfPages!Malloc

\* A free returns the block of the walk, and that block only.
LEMMA FreeReturns ==
  ASSUME IndInv, FreeFound
  PROVE  \E b \in Blocks : ArenaOfPages!Free(b)
<1>1. /\ pc = "walk" /\ op = "free" /\ live' = {b \in live : b.off # arg}
      /\ st[index] = NODE_USED /\ offset = left
  BY DEF FreeFound
<1>2. PICK f \in live : f.off = arg /\ f.node = index
  BY <1>1, WalkMeetsBlock
<1>3. ASSUME NEW b \in live, b.off = arg PROVE b = f
  <2>1. b = f \/ b.off + b.pages <= f.off \/ f.off + f.pages <= b.off
    BY <1>2, Apart DEF NoOverlap
  <2>2. /\ b.off \in Nat /\ f.off \in Nat /\ b.pages \in Nat \ {0} /\ f.pages \in Nat \ {0}
    BY BlockPages, ArenaFacts DEF BlockInv
  <2> QED
    BY <1>2, <1>3, <2>1, <2>2
<1>4. Blocks' = Blocks \ {[off |-> f.off, pages |-> f.pages, used |-> f.used]}
  BY <1>1, <1>2, <1>3 DEF Blocks
<1> QED
  BY <1>2, <1>4 DEF ArenaOfPages!Free, Blocks

\* With the tree and the loops hidden, buddy_alloc and buddy_free are a first-fit
\* arena, as long as clients never ask for more than is free.
THEOREM ArenaImplemented == ASSUME ~ Exhaust PROVE Spec => ImplementsArena
<1>1. Init => ArenaOfPages!Init
  BY DEF Init, ArenaOfPages!Init, Blocks
<1>2. BuddyInv /\ BuddyInv' /\ [Next]_vars => [ArenaOfPages!Next]_Blocks
  <2> SUFFICES ASSUME IndInv, IndInv', SweepInv, FitInv, [Next]_vars
               PROVE  ArenaOfPages!Next \/ Blocks' = Blocks
    BY DEF BuddyInv
  <2>1. CASE Take
    BY <2>1, TakeServes DEF ArenaOfPages!Next
  <2>2. CASE FreeFound
    BY <2>2, FreeReturns DEF ArenaOfPages!Next
  <2>3. CASE ~ Take /\ ~ FreeFound
    <3>1. live' = live
      BY <2>3 DEF Next, Call, AllocTooLarge, AllocStart, WalkStart, Step,
                  Search, SplitDown, Down, NextSibling, StartClimb, Climb,
                  Mark, MarkParent, MarkDone, Walk, WalkDown, WalkAbort, QueryFound,
                  Merge, CombineUp, CombineClear, Unfull, UnfullDone, Return, vars
    <3> QED
      BY <3>1 DEF Blocks
  <2> QED
    BY <2>1, <2>2, <2>3
<1> QED
  BY <1>1, <1>2, BuddyInvariance, PTL DEF Spec, ImplementsArena, ArenaOfPages!Spec

-----------------------------------------------------------------------------
(* The pages of a request *)

LEMMA Widths ==
  /\ SizeBits \in Nat \ {0} /\ Mantissa \in 1 .. SizeBits /\ Narrow \in 1 .. SizeBits
  /\ 0 \in 0 .. SizeBits /\ SizeBits \in 0 .. SizeBits
BY PageCountAssumption

LEMMA TwoToIs ==
  /\ TwoTo \in [0 .. SizeBits -> Nat \ {0}] /\ TwoTo[0] = 1
  /\ \A k \in 1 .. SizeBits : TwoTo[k] = 2 * TwoTo[k - 1]
<1> DEFINE G == [k \in 1 .. SizeBits |-> [x \in Nat \ {0} |-> 2 * x]]
           Def(g) == g = [k \in 0 .. SizeBits |-> IF k = 0 THEN 1 ELSE 2 * g[k - 1]]
<1>1. G \in StepsOn(SizeBits, Nat \ {0})
  BY DEF StepsOn
<1>2. PICK f : IsRun(f, SizeBits, Nat \ {0}, 1, G)
  <2> HIDE DEF G
  <2> QED
    BY <1>1, Widths, Iteration
<1>3. /\ f \in [0 .. SizeBits -> Nat \ {0}] /\ f[0] = 1
      /\ \A k \in 1 .. SizeBits : f[k] = G[k][f[k - 1]]
  <2> HIDE DEF G
  <2> QED
    BY <1>2 DEF IsRun
<1>4. ASSUME NEW k \in 1 .. SizeBits PROVE f[k] = 2 * f[k - 1]
  <2>1. f[k - 1] \in Nat \ {0}
    BY <1>3, Widths
  <2>2. G[k] = [x \in Nat \ {0} |-> 2 * x]
    OBVIOUS
  <2> QED
    BY <1>3, <2>1, <2>2
<1>5. Def(f)
  BY <1>3, <1>4, Widths
<1>6. Def(TwoTo)
  <2>1. TwoTo = CHOOSE g : Def(g)
    BY DEF TwoTo
  <2> HIDE DEF Def
  <2> QED
    BY <1>5, <2>1
<1>7. TwoTo[0] = 1 /\ \A k \in 1 .. SizeBits : TwoTo[k] = 2 * TwoTo[k - 1]
  <2>1. \A k \in 1 .. SizeBits : k \in 0 .. SizeBits /\ k # 0
    BY Widths
  <2> QED
    BY <1>6, <2>1, Widths
<1> DEFINE S == {k \in 0 .. SizeBits : TwoTo[k] \in Nat \ {0}}
<1>8. ASSUME NEW k \in 0 .. SizeBits - 1, k \in S PROVE k + 1 \in S
  <2>1. k + 1 \in 1 .. SizeBits /\ (k + 1) - 1 = k /\ k + 1 \in 0 .. SizeBits
    BY Widths
  <2>2. TwoTo[k + 1] = 2 * TwoTo[k]
    BY <1>7, <2>1
  <2> QED
    BY <1>8, <2>1, <2>2
<1>9. \A k \in 0 .. SizeBits : k \in S
  <2>1. 0 \in S
    BY <1>7, Widths
  <2> HIDE DEF S
  <2> QED
    BY <1>8, <2>1, Widths, InductionTo
<1> QED
  BY <1>6, <1>7, <1>9

\* Sums of exponents, and the order of the powers.
LEMMA TwoToSum ==
  ASSUME NEW i \in 0 .. SizeBits, NEW j \in 0 .. SizeBits, i <= j
  PROVE  j - i \in 0 .. SizeBits /\ TwoTo[j] = TwoTo[i] * TwoTo[j - i]
<1> DEFINE S == {d \in 0 .. SizeBits - i : TwoTo[i + d] = TwoTo[i] * TwoTo[d]}
<1>1. i \in Nat /\ j \in Nat /\ SizeBits - i \in Nat /\ TwoTo[i] \in Nat
  BY Widths, TwoToIs
<1>2. 0 \in S
  <2>1. i + 0 = i /\ TwoTo[i] = TwoTo[i] * 1
    BY <1>1
  <2> QED
    BY <1>1, <2>1, TwoToIs
<1>3. ASSUME NEW d \in 0 .. (SizeBits - i) - 1, d \in S PROVE d + 1 \in S
  <2>1. /\ i + (d + 1) \in 1 .. SizeBits /\ (i + (d + 1)) - 1 = i + d
        /\ d + 1 \in 1 .. SizeBits /\ (d + 1) - 1 = d /\ d + 1 \in 0 .. SizeBits - i
        /\ d \in 0 .. SizeBits
    BY <1>1, Widths
  <2>2. TwoTo[i + (d + 1)] = 2 * TwoTo[i + d] /\ TwoTo[d + 1] = 2 * TwoTo[d]
    BY <2>1, TwoToIs
  <2>3. PICK a, b : a = TwoTo[i] /\ b = TwoTo[d] /\ a \in Nat /\ b \in Nat
    BY <1>1, <2>1, TwoToIs
  <2>4. 2 * (a * b) = a * (2 * b)
    BY <2>3
  <2> QED
    BY <1>3, <2>1, <2>2, <2>3, <2>4
<1>4. \A d \in 0 .. SizeBits - i : d \in S
  <2> HIDE DEF S
  <2>1. SizeBits - i \in Nat
    BY <1>1
  <2> QED
    BY <1>2, <1>3, <2>1, InductionTo
<1>5. j - i \in 0 .. SizeBits - i /\ i + (j - i) = j /\ j - i \in 0 .. SizeBits
  BY <1>1, Widths
<1> QED
  BY <1>4, <1>5

LEMMA TwoToGrows ==
  ASSUME NEW i \in 0 .. SizeBits, NEW j \in 0 .. SizeBits, i < j
  PROVE  2 * TwoTo[i] <= TwoTo[j] /\ TwoTo[i] < TwoTo[j]
<1>1. /\ i + 1 \in 1 .. SizeBits /\ (i + 1) - 1 = i /\ i + 1 \in 0 .. SizeBits /\ i + 1 <= j
  BY Widths
<1>2. TwoTo[j] = TwoTo[i + 1] * TwoTo[j - (i + 1)] /\ j - (i + 1) \in 0 .. SizeBits
  BY <1>1, TwoToSum
<1>3. PICK a, b : a = TwoTo[i] /\ b = TwoTo[j - (i + 1)] /\ a \in Nat \ {0} /\ b \in Nat \ {0}
  BY <1>2, TwoToIs
<1>4. TwoTo[j] = (2 * a) * b
  BY <1>1, <1>2, <1>3, TwoToIs
<1>5. (2 * a) * b >= 2 * a
  BY <1>3
<1> QED
  BY <1>3, <1>4, <1>5

LEMMA TwoToOrder ==
  ASSUME NEW i \in 0 .. SizeBits, NEW j \in 0 .. SizeBits, i <= j
  PROVE  TwoTo[i] \in Nat \ {0} /\ TwoTo[j] \in Nat \ {0} /\ TwoTo[i] <= TwoTo[j]
<1>1. i \in Nat /\ j \in Nat /\ TwoTo[i] \in Nat \ {0} /\ TwoTo[j] \in Nat \ {0}
  BY Widths, TwoToIs
<1>2. CASE i = j
  BY <1>1, <1>2
<1>3. CASE i < j
  BY <1>1, <1>3, TwoToGrows
<1> QED
  BY <1>1, <1>2, <1>3

\* A number that is not zero has a first bit.
LEMMA TopPlace ==
  ASSUME NEW x \in Nat \ {0}, x < TwoTo[SizeBits]
  PROVE  \E t \in Places : TwoTo[t] <= x /\ x < TwoTo[t + 1]
<1> DEFINE T == {k \in 0 .. SizeBits : x < TwoTo[k]}
<1>1. T \in SUBSET Nat /\ T # {}
  BY Widths
<1>2. PICK k \in T : \A m \in T : k <= m
  <2> HIDE DEF T
  <2> QED
    BY <1>1, LeastNat
<1>3. k # 0
  BY <1>2, TwoToIs
<1>4. k - 1 \in Places /\ (k - 1) + 1 = k /\ k - 1 \in 0 .. SizeBits
  BY <1>2, <1>3, Widths DEF Places
<1>5. ~ (x < TwoTo[k - 1])
  BY <1>2, <1>4
<1>6. TwoTo[k - 1] \in Nat
  BY <1>4, TwoToIs
<1> QED
  BY <1>2, <1>4, <1>5, <1>6

\* Of two powers of two the smaller divides the other.
LEMMA PowersFactor ==
  ASSUME NEW u \in Powers, NEW y \in Powers, u <= y
  PROVE  u \in Nat \ {0} /\ y \in Nat \ {0} /\ \E m \in Nat \ {0} : m \in Powers /\ y = m * u
<1>1. PICK i \in 0 .. SizeBits : u = TwoTo[i]
  BY DEF Powers
<1>2. PICK j \in 0 .. SizeBits : y = TwoTo[j]
  BY DEF Powers
<1>3. u \in Nat \ {0} /\ y \in Nat \ {0} /\ i \in Nat /\ j \in Nat
  BY <1>1, <1>2, TwoToIs
<1>4. i <= j
  <2> SUFFICES ASSUME j < i PROVE FALSE
    BY <1>3
  <2> QED
    BY <1>1, <1>2, <1>3, TwoToGrows
<1>5. j - i \in 0 .. SizeBits /\ y = u * TwoTo[j - i] /\ TwoTo[j - i] \in Nat \ {0}
  BY <1>1, <1>2, <1>4, TwoToSum, TwoToIs
<1>6. y = TwoTo[j - i] * u
  BY <1>3, <1>5
<1> QED
  BY <1>3, <1>5, <1>6 DEF Powers

LEMMA Quotients ==
  ASSUME NEW x \in Nat, NEW p \in Nat \ {0}
  PROVE  x \div p \in Nat /\ x % p \in 0 .. p - 1 /\ x = (x \div p) * p + (x % p)
OBVIOUS

LEMMA QuotientIs ==
  ASSUME NEW q \in Int, NEW p \in Nat \ {0}, NEW r \in 0 .. p - 1
  PROVE  (q * p + r) \div p = q /\ (q * p + r) % p = r
OBVIOUS

\* The bits of a number: its first one, those of a power of two, and of 0.
LEMMA FirstBit ==
  ASSUME NEW x \in Nat, NEW t \in Places, TwoTo[t] <= x, x < TwoTo[t + 1]
  PROVE  t \in BitsOf(x) /\ \A k \in BitsOf(x) : k <= t
<1>1. /\ t \in 0 .. SizeBits /\ t + 1 \in 1 .. SizeBits /\ (t + 1) - 1 = t /\ t + 1 \in 0 .. SizeBits
      /\ t \in Nat
  BY Widths DEF Places
<1>2. PICK p : p = TwoTo[t] /\ p \in Nat \ {0} /\ TwoTo[t + 1] = 2 * p
  BY <1>1, TwoToIs
<1>3. x \div p = 1
  <2>1. PICK rem : rem = x - p
    OBVIOUS
  <2>2. rem \in 0 .. p - 1 /\ x = 1 * p + rem
    BY <1>2, <2>1
  <2>3. (1 * p + rem) \div p = 1
    BY <1>2, <2>2, QuotientIs
  <2> QED
    BY <2>2, <2>3
<1>4. ASSUME NEW k \in BitsOf(x), ~ (k <= t) PROVE FALSE
  <2>1. k \in Places /\ k \in 0 .. SizeBits /\ (x \div TwoTo[k]) % 2 = 1
    BY Widths DEF BitsOf, Places
  <2>2. k = t + 1 \/ t + 1 < k
    BY <1>1, <1>4, <2>1
  <2>3. TwoTo[t + 1] <= TwoTo[k] /\ TwoTo[k] \in Nat \ {0} /\ TwoTo[t + 1] \in Nat
    BY <1>1, <2>1, <2>2, TwoToGrows, TwoToIs
  <2>4. x \in 0 .. TwoTo[k] - 1 /\ x = 0 * TwoTo[k] + x
    BY <2>3
  <2>5. x \div TwoTo[k] = 0
    BY <2>3, <2>4, QuotientIs
  <2> QED
    BY <2>1, <2>5
<1> QED
  BY <1>2, <1>3, <1>4 DEF BitsOf

LEMMA BitsOfPower == ASSUME NEW t \in Places PROVE BitsOf(TwoTo[t]) = {t}
<1>1. /\ t \in 0 .. SizeBits /\ t + 1 \in 1 .. SizeBits /\ (t + 1) - 1 = t /\ t + 1 \in 0 .. SizeBits
      /\ t \in Nat
  BY Widths DEF Places
<1>2. TwoTo[t] \in Nat \ {0} /\ TwoTo[t + 1] = 2 * TwoTo[t]
  BY <1>1, TwoToIs
<1>3. t \in BitsOf(TwoTo[t]) /\ \A k \in BitsOf(TwoTo[t]) : k <= t
  <2>1. TwoTo[t] <= TwoTo[t] /\ TwoTo[t] < TwoTo[t + 1]
    BY <1>2
  <2> QED
    BY <1>2, <2>1, FirstBit
<1>4. ASSUME NEW k \in BitsOf(TwoTo[t]), k < t PROVE FALSE
  <2>1. k \in 0 .. SizeBits /\ (TwoTo[t] \div TwoTo[k]) % 2 = 1
    BY Widths DEF BitsOf, Places
  <2>2. /\ k + 1 \in 0 .. SizeBits /\ k + 1 \in 1 .. SizeBits /\ (k + 1) - 1 = k /\ k + 1 <= t
    BY <1>1, <1>4, <2>1, Widths
  <2>3. TwoTo[t] = TwoTo[k + 1] * TwoTo[t - (k + 1)] /\ t - (k + 1) \in 0 .. SizeBits
    BY <1>1, <2>2, TwoToSum
  <2>4. PICK p, m : p = TwoTo[k] /\ m = TwoTo[t - (k + 1)] /\ p \in Nat \ {0} /\ m \in Nat
    BY <2>1, <2>3, TwoToIs
  <2>5. TwoTo[t] = (2 * p) * m
    BY <2>2, <2>3, <2>4, TwoToIs
  <2>6. (2 * p) * m = (2 * m) * p + 0 /\ 0 \in 0 .. p - 1 /\ 2 * m \in Int
    BY <2>4
  <2>7. TwoTo[t] \div p = 2 * m
    BY <2>4, <2>5, <2>6, QuotientIs
  <2>8. (2 * m) % 2 = 0
    BY <2>4
  <2> QED
    BY <2>1, <2>4, <2>7, <2>8
<1>5. ASSUME NEW k \in BitsOf(TwoTo[t]) PROVE k = t
  <2>1. k \in Int
    BY Widths DEF BitsOf, Places
  <2> QED
    BY <1>1, <1>3, <1>4, <2>1
<1> QED
  BY <1>3, <1>5

LEMMA NoBits == BitsOf(0) = {}
<1> SUFFICES ASSUME NEW k \in BitsOf(0) PROVE FALSE
  OBVIOUS
<1>1. k \in 0 .. SizeBits /\ (0 \div TwoTo[k]) % 2 = 1
  BY Widths DEF BitsOf, Places
<1>2. TwoTo[k] \in Nat \ {0}
  BY <1>1, TwoToIs
<1>3. 0 \in 0 .. TwoTo[k] - 1 /\ 0 = 0 * TwoTo[k] + 0
  BY <1>2
<1>4. 0 \div TwoTo[k] = 0
  BY <1>2, <1>3, QuotientIs
<1> QED
  BY <1>1, <1>4

\* is_pow_of_2 is right about what it sees whole.
LEMMA PowerTest ==
  ASSUME NEW x \in Nat, x < TwoTo[Narrow]
  PROVE  /\ x = 0 => IsPowOf2(x)
         /\ \A t \in Places : TwoTo[t] <= x /\ x < TwoTo[t + 1] => (IsPowOf2(x) <=> x = TwoTo[t])
<1>1. TwoTo[Narrow] \in Nat \ {0}
  BY Widths, TwoToIs
<1>2. x % TwoTo[Narrow] = x
  <2>1. x \in 0 .. TwoTo[Narrow] - 1 /\ x = 0 * TwoTo[Narrow] + x
    BY <1>1
  <2> QED
    BY <1>1, <2>1, QuotientIs
<1>3. IsPowOf2(x) <=> BitsOf(x) \cap BitsOf(x - 1) = {}
  BY <1>2 DEF IsPowOf2
<1>4. x = 0 => IsPowOf2(x)
  BY <1>3, NoBits
<1>5. ASSUME NEW t \in Places, TwoTo[t] <= x, x < TwoTo[t + 1] PROVE IsPowOf2(x) <=> x = TwoTo[t]
  <2>1. t \in 0 .. SizeBits
    BY Widths DEF Places
  <2>2. PICK p : p = TwoTo[t] /\ p \in Nat \ {0}
    BY <2>1, TwoToIs
  <2>3. CASE x = TwoTo[t]
    <3>1. x - 1 \in 0 .. p - 1 /\ x - 1 = 0 * p + (x - 1)
      BY <2>2, <2>3
    <3>2. (x - 1) \div p = 0
      BY <2>2, <3>1, QuotientIs
    <3>3. t \notin BitsOf(x - 1)
      BY <2>2, <3>2 DEF BitsOf
    <3> QED
      BY <1>3, <2>3, <3>3, BitsOfPower
  <2>4. CASE x # TwoTo[t]
    <3>1. x - 1 \in Nat /\ TwoTo[t] <= x - 1 /\ x - 1 < TwoTo[t + 1]
      <4>1. t + 1 \in 0 .. SizeBits
        BY Widths DEF Places
      <4>2. TwoTo[t + 1] \in Nat
        BY <4>1, TwoToIs
      <4> QED
        BY <1>5, <2>2, <2>4, <4>2
    <3>2. t \in BitsOf(x) /\ t \in BitsOf(x - 1)
      BY <1>5, <3>1, FirstBit
    <3> QED
      BY <1>3, <2>4, <3>2
  <2> QED
    BY <2>3, <2>4
<1> QED
  BY <1>4, <1>5

\* The sum that gives a set of bits its value, place by place.
Term(b, k) == IF k - 1 \in b THEN TwoTo[k - 1] ELSE 0

LEMMA TermIs ==
  ASSUME NEW b, NEW k \in 1 .. SizeBits
  PROVE  k - 1 \in 0 .. SizeBits /\ TwoTo[k - 1] \in Nat /\ Term(b, k) \in Nat
<1>1. k - 1 \in 0 .. SizeBits
  BY Widths
<1> QED
  BY <1>1, TwoToIs DEF Term

LEMMA ValueIs ==
  ASSUME NEW b
  PROVE  \E f : /\ f \in [0 .. SizeBits -> Nat] /\ f[0] = 0 /\ ValueOf(b) = f[SizeBits]
                /\ \A k \in 1 .. SizeBits : f[k] = f[k - 1] + Term(b, k)
<1> DEFINE G == [k \in 1 .. SizeBits |-> [x \in Nat |-> x + Term(b, k)]]
           Def(g) == g = [k \in 0 .. SizeBits |-> IF k = 0 THEN 0 ELSE g[k - 1] + Term(b, k)]
<1>1. G \in StepsOn(SizeBits, Nat)
  <2>1. \A k \in 1 .. SizeBits : [x \in Nat |-> x + Term(b, k)] \in [Nat -> Nat]
    <3> SUFFICES ASSUME NEW k \in 1 .. SizeBits, NEW x \in Nat PROVE x + Term(b, k) \in Nat
      OBVIOUS
    <3> QED
      BY TermIs
  <2> QED
    BY <2>1 DEF StepsOn
<1>2. PICK f : IsRun(f, SizeBits, Nat, 0, G)
  <2> HIDE DEF G
  <2> QED
    BY <1>1, Widths, Iteration
<1>3. f \in [0 .. SizeBits -> Nat] /\ f[0] = 0 /\ \A k \in 1 .. SizeBits : f[k] = G[k][f[k - 1]]
  <2> HIDE DEF G
  <2> QED
    BY <1>2 DEF IsRun
<1>4. ASSUME NEW k \in 1 .. SizeBits PROVE f[k] = f[k - 1] + Term(b, k)
  <2>1. f[k - 1] \in Nat
    BY <1>3, Widths
  <2>2. G[k] = [x \in Nat |-> x + Term(b, k)]
    OBVIOUS
  <2> QED
    BY <1>3, <2>1, <2>2
<1>5. Def(f)
  BY <1>3, <1>4, Widths
<1> DEFINE below == CHOOSE g : Def(g)
<1>6. Def(below)
  <2> HIDE DEF Def
  <2> QED
    BY <1>5
<1>7. ValueOf(b) = below[SizeBits]
  BY DEF ValueOf, Term
<1> HIDE DEF below
<1>8. below[0] = 0 /\ \A k \in 1 .. SizeBits : below[k] = below[k - 1] + Term(b, k)
  <2>1. \A k \in 1 .. SizeBits : k \in 0 .. SizeBits /\ k # 0
    BY Widths
  <2> QED
    BY <1>6, <2>1, Widths
<1> DEFINE S == {k \in 0 .. SizeBits : below[k] \in Nat}
<1>9. ASSUME NEW k \in 0 .. SizeBits - 1, k \in S PROVE k + 1 \in S
  <2>1. k + 1 \in 1 .. SizeBits /\ (k + 1) - 1 = k /\ k + 1 \in 0 .. SizeBits
    BY Widths
  <2>2. below[k + 1] = below[k] + Term(b, k + 1) /\ Term(b, k + 1) \in Nat
    BY <1>8, <2>1, TermIs
  <2> QED
    BY <1>9, <2>1, <2>2
<1>10. \A k \in 0 .. SizeBits : k \in S
  <2>1. 0 \in S
    BY <1>8, Widths
  <2> HIDE DEF S
  <2> QED
    BY <1>9, <2>1, Widths, InductionTo
<1>11. below \in [0 .. SizeBits -> Nat]
  BY <1>6, <1>10
<1> QED
  BY <1>7, <1>8, <1>11

LEMMA ValueOfBits ==
  ASSUME NEW x \in Nat, x < TwoTo[SizeBits]
  PROVE  ValueOf(BitsOf(x)) = x
<1>1. PICK f : /\ f \in [0 .. SizeBits -> Nat] /\ f[0] = 0 /\ ValueOf(BitsOf(x)) = f[SizeBits]
               /\ \A k \in 1 .. SizeBits : f[k] = f[k - 1] + Term(BitsOf(x), k)
  BY ValueIs
<1> DEFINE S == {k \in 0 .. SizeBits : f[k] = x % TwoTo[k]}
<1>2. 0 \in S
  <2>1. x % 1 = 0
    OBVIOUS
  <2> QED
    BY <1>1, <2>1, TwoToIs, Widths
<1>3. ASSUME NEW k \in 0 .. SizeBits - 1, k \in S PROVE k + 1 \in S
  <2>1. /\ k + 1 \in 1 .. SizeBits /\ (k + 1) - 1 = k /\ k + 1 \in 0 .. SizeBits
        /\ k \in Places /\ k \in 0 .. SizeBits
    BY Widths DEF Places
  <2>2. PICK p, q, r : p = TwoTo[k] /\ q = x \div p /\ r = x % p
    OBVIOUS
  <2>3. /\ p \in Nat \ {0} /\ TwoTo[k + 1] = 2 * p /\ f[k] = r
        /\ q \in Nat /\ r \in 0 .. p - 1 /\ x = q * p + r
    BY <1>3, <2>1, <2>2, TwoToIs, Quotients
  <2>4. PICK h, d : h = q \div 2 /\ d = q % 2
    OBVIOUS
  <2>5. h \in Nat /\ d \in {0, 1} /\ q = h * 2 + d
    BY <2>3, <2>4
  <2>6. f[k + 1] = r + (IF d = 1 THEN p ELSE 0)
    <3>1. f[k + 1] = f[k] + Term(BitsOf(x), k + 1)
      BY <1>1, <2>1
    <3>2. k \in BitsOf(x) <=> d = 1
      BY <2>1, <2>2, <2>4 DEF BitsOf
    <3> QED
      BY <2>1, <2>2, <2>3, <3>1, <3>2 DEF Term
  <2>7. f[k + 1] = r + d * p
    BY <2>3, <2>5, <2>6
  <2>8. r + d * p \in 0 .. 2 * p - 1 /\ 2 * p \in Nat \ {0}
    BY <2>3, <2>5
  <2>9. x = h * (2 * p) + (r + d * p)
    <3>1. q * p = h * (2 * p) + d * p
      BY <2>3, <2>5
    <3> QED
      BY <2>3, <2>5, <3>1
  <2>10. x % (2 * p) = r + d * p
    BY <2>5, <2>8, <2>9, QuotientIs
  <2> QED
    BY <2>1, <2>3, <2>7, <2>10
<1>4. SizeBits \in S
  <2> HIDE DEF S
  <2>1. \A k \in 0 .. SizeBits : k \in S
    BY <1>2, <1>3, Widths, InductionTo
  <2> QED
    BY <2>1, Widths
<1>5. x % TwoTo[SizeBits] = x
  <2>1. TwoTo[SizeBits] \in Nat \ {0}
    BY Widths, TwoToIs
  <2>2. x \in 0 .. TwoTo[SizeBits] - 1 /\ x = 0 * TwoTo[SizeBits] + x
    BY <2>1
  <2> QED
    BY <2>1, <2>2, QuotientIs
<1> QED
  BY <1>1, <1>4, <1>5

LEMMA ValueGrows ==
  ASSUME NEW b, NEW c, b \subseteq c
  PROVE  ValueOf(b) \in Nat /\ ValueOf(c) \in Nat /\ ValueOf(b) <= ValueOf(c)
<1>1. PICK f : /\ f \in [0 .. SizeBits -> Nat] /\ f[0] = 0 /\ ValueOf(b) = f[SizeBits]
               /\ \A k \in 1 .. SizeBits : f[k] = f[k - 1] + Term(b, k)
  BY ValueIs
<1>2. PICK g : /\ g \in [0 .. SizeBits -> Nat] /\ g[0] = 0 /\ ValueOf(c) = g[SizeBits]
               /\ \A k \in 1 .. SizeBits : g[k] = g[k - 1] + Term(c, k)
  BY ValueIs
<1> DEFINE S == {k \in 0 .. SizeBits : f[k] <= g[k]}
<1>3. 0 \in S
  BY <1>1, <1>2, Widths
<1>4. ASSUME NEW k \in 0 .. SizeBits - 1, k \in S PROVE k + 1 \in S
  <2>1. k + 1 \in 1 .. SizeBits /\ (k + 1) - 1 = k /\ k + 1 \in 0 .. SizeBits /\ k \in 0 .. SizeBits
    BY Widths
  <2>2. f[k + 1] = f[k] + Term(b, k + 1) /\ g[k + 1] = g[k] + Term(c, k + 1)
    BY <1>1, <1>2, <2>1
  <2>3. TwoTo[k] \in Nat
    BY <2>1, TwoToIs
  <2>4. Term(b, k + 1) <= Term(c, k + 1) /\ Term(b, k + 1) \in Nat /\ Term(c, k + 1) \in Nat
    BY <2>1, <2>3 DEF Term
  <2>5. f[k] \in Nat /\ g[k] \in Nat
    BY <1>1, <1>2, <2>1
  <2> QED
    BY <1>4, <2>1, <2>2, <2>4, <2>5
<1>5. SizeBits \in S
  <2> HIDE DEF S
  <2>1. \A k \in 0 .. SizeBits : k \in S
    BY <1>3, <1>4, Widths, InductionTo
  <2> QED
    BY <2>1, Widths
<1> QED
  BY <1>1, <1>2, <1>5, Widths

\* The bits up to a place, all of them, are one less than the power behind it.
LEMMA ValueToTop == ASSUME NEW t \in Places PROVE ValueOf(0 .. t) + 1 = TwoTo[t + 1]
<1> DEFINE b == 0 .. t
<1>1. PICK f : /\ f \in [0 .. SizeBits -> Nat] /\ f[0] = 0 /\ ValueOf(b) = f[SizeBits]
               /\ \A k \in 1 .. SizeBits : f[k] = f[k - 1] + Term(b, k)
  BY ValueIs
<1>2. t \in Nat /\ t + 1 \in 0 .. SizeBits /\ t <= SizeBits - 1
  BY Widths DEF Places
<1> DEFINE S == {k \in 0 .. SizeBits : f[k] + 1 = IF k <= t + 1 THEN TwoTo[k] ELSE TwoTo[t + 1]}
<1>3. 0 \in S
  BY <1>1, <1>2, TwoToIs, Widths
<1>4. ASSUME NEW k \in 0 .. SizeBits - 1, k \in S PROVE k + 1 \in S
  <2>1. /\ k + 1 \in 1 .. SizeBits /\ (k + 1) - 1 = k /\ k + 1 \in 0 .. SizeBits /\ k \in 0 .. SizeBits
        /\ k \in Nat
    BY Widths
  <2>2. f[k + 1] = f[k] + Term(b, k + 1) /\ TwoTo[k + 1] = 2 * TwoTo[k] /\ TwoTo[k] \in Nat /\ f[k] \in Nat
    BY <1>1, <2>1, TwoToIs
  <2>3. CASE k <= t
    <3>1. Term(b, k + 1) = TwoTo[k]
      BY <1>2, <2>1, <2>3 DEF Term
    <3>2. f[k] + 1 = TwoTo[k] /\ k <= t + 1 /\ k + 1 <= t + 1
      BY <1>2, <1>4, <2>1, <2>3
    <3>3. f[k + 1] + 1 = TwoTo[k + 1]
      BY <2>2, <3>1, <3>2
    <3> QED
      BY <2>1, <3>2, <3>3
  <2>4. CASE ~ (k <= t)
    <3>1. Term(b, k + 1) = 0
      BY <1>2, <2>1, <2>4 DEF Term
    <3>2. f[k + 1] = f[k]
      BY <2>2, <3>1
    <3>3. k <= t + 1 => k = t + 1
      BY <1>2, <2>1, <2>4
    <3>4. f[k + 1] + 1 = TwoTo[t + 1] /\ ~ (k + 1 <= t + 1)
      BY <1>2, <1>4, <2>1, <2>4, <3>2, <3>3
    <3> QED
      BY <2>1, <3>4
  <2> QED
    BY <2>3, <2>4
<1>5. SizeBits \in S
  <2> HIDE DEF S
  <2>1. \A k \in 0 .. SizeBits : k \in S
    BY <1>3, <1>4, Widths, InductionTo
  <2> QED
    BY <2>1, Widths
<1>6. SizeBits <= t + 1 => SizeBits = t + 1
  BY <1>2, Widths
<1> QED
  BY <1>1, <1>5, <1>6

\* The reach of the shifts, and what they make of a set of bits.
LEMMA ReachIs ==
  /\ Len(Shifts) \in Nat /\ \A i \in 1 .. Len(Shifts) : Shifts[i] \in Nat \ {0}
  /\ Reach \in [0 .. Len(Shifts) -> Nat] /\ Reach[0] = 0
  /\ \A i \in 1 .. Len(Shifts) : Reach[i] = Reach[i - 1] + Shifts[i]
<1> DEFINE n == Len(Shifts)
           G == [i \in 1 .. n |-> [x \in Nat |-> x + Shifts[i]]]
           Def(g) == g = [i \in 0 .. n |-> IF i = 0 THEN 0 ELSE g[i - 1] + Shifts[i]]
<1>1. n \in Nat /\ \A i \in 1 .. n : Shifts[i] \in Nat \ {0}
  BY ShiftAssumption
<1>2. G \in StepsOn(n, Nat)
  BY <1>1 DEF StepsOn
<1>3. PICK f : IsRun(f, n, Nat, 0, G)
  <2> HIDE DEF G, n
  <2> QED
    BY <1>1, <1>2, Iteration
<1>4. f \in [0 .. n -> Nat] /\ f[0] = 0 /\ \A i \in 1 .. n : f[i] = G[i][f[i - 1]]
  <2> HIDE DEF G, n
  <2> QED
    BY <1>3 DEF IsRun
<1>5. ASSUME NEW i \in 1 .. n PROVE f[i] = f[i - 1] + Shifts[i]
  <2>1. f[i - 1] \in Nat
    <3> HIDE DEF G, n
    <3> QED
      BY <1>1, <1>4
  <2>2. G[i] = [x \in Nat |-> x + Shifts[i]]
    OBVIOUS
  <2> QED
    BY <1>4, <2>1, <2>2
<1>6. Def(f)
  BY <1>1, <1>4, <1>5
<1>7. Def(Reach)
  <2>1. Reach = CHOOSE g : Def(g)
    BY DEF Reach
  <2> HIDE DEF Def
  <2> QED
    BY <1>6, <2>1
<1> HIDE DEF n
<1>8. Reach[0] = 0 /\ \A i \in 1 .. n : Reach[i] = Reach[i - 1] + Shifts[i]
  <2>1. 0 \in 0 .. n /\ \A i \in 1 .. n : i \in 0 .. n /\ i # 0
    BY <1>1
  <2> QED
    BY <1>7, <2>1
<1> DEFINE S == {i \in 0 .. n : Reach[i] \in Nat}
<1>9. ASSUME NEW i \in 0 .. n - 1, i \in S PROVE i + 1 \in S
  <2>1. i + 1 \in 1 .. n /\ (i + 1) - 1 = i /\ i + 1 \in 0 .. n
    BY <1>1
  <2>2. Reach[i + 1] = Reach[i] + Shifts[i + 1] /\ Shifts[i + 1] \in Nat
    BY <1>1, <1>8, <2>1
  <2> QED
    BY <1>9, <2>1, <2>2
<1>10. \A i \in 0 .. n : i \in S
  <2>1. 0 \in S
    BY <1>1, <1>8
  <2> HIDE DEF S
  <2> QED
    BY <1>1, <1>9, <2>1, InductionTo
<1> QED
  BY <1>1, <1>7, <1>8, <1>10 DEF n

Shifted(t, i) == t \cup {k \in Places : k + Shifts[i] \in t}

LEMMA SmearedIs ==
  ASSUME NEW b \in SUBSET Places
  PROVE  \E f : /\ f \in [0 .. Len(Shifts) -> SUBSET Places] /\ f[0] = b
                /\ Smeared(b) = f[Len(Shifts)]
                /\ \A i \in 1 .. Len(Shifts) : f[i] = Shifted(f[i - 1], i)
<1> DEFINE n == Len(Shifts)
           G == [i \in 1 .. n |-> [t \in SUBSET Places |-> Shifted(t, i)]]
           Def(g) == g = [i \in 0 .. n |-> IF i = 0 THEN b ELSE LET t == g[i - 1] IN Shifted(t, i)]
<1>1. n \in Nat
  BY ShiftAssumption
<1>2. G \in StepsOn(n, SUBSET Places)
  BY DEF StepsOn, Shifted
<1>3. PICK f : IsRun(f, n, SUBSET Places, b, G)
  <2> HIDE DEF G, n
  <2> QED
    BY <1>1, <1>2, Iteration
<1>4. f \in [0 .. n -> SUBSET Places] /\ f[0] = b /\ \A i \in 1 .. n : f[i] = G[i][f[i - 1]]
  <2> HIDE DEF G, n
  <2> QED
    BY <1>3 DEF IsRun
<1>5. ASSUME NEW i \in 1 .. n PROVE f[i] = Shifted(f[i - 1], i)
  <2>1. f[i - 1] \in SUBSET Places
    BY <1>1, <1>4
  <2>2. G[i] = [t \in SUBSET Places |-> Shifted(t, i)]
    OBVIOUS
  <2> HIDE DEF G
  <2> QED
    BY <1>4, <2>1, <2>2
<1>6. Def(f)
  BY <1>1, <1>4, <1>5
<1> DEFINE after == CHOOSE g : Def(g)
<1>7. Def(after)
  <2> HIDE DEF Def
  <2> QED
    BY <1>6
<1>8. Smeared(b) = after[n]
  BY DEF Smeared, Shifted
<1> HIDE DEF after, n
<1>9. after[0] = b /\ \A i \in 1 .. n : after[i] = Shifted(after[i - 1], i)
  <2>1. 0 \in 0 .. n /\ \A i \in 1 .. n : i \in 0 .. n /\ i # 0
    BY <1>1
  <2> QED
    BY <1>7, <2>1
<1> DEFINE S == {i \in 0 .. n : after[i] \in SUBSET Places}
<1>10. ASSUME NEW i \in 0 .. n - 1, i \in S PROVE i + 1 \in S
  <2>1. i + 1 \in 1 .. n /\ (i + 1) - 1 = i /\ i + 1 \in 0 .. n
    BY <1>1
  <2>2. after[i + 1] = Shifted(after[i], i + 1)
    BY <1>9, <2>1
  <2> QED
    BY <1>10, <2>1, <2>2 DEF Shifted
<1>11. \A i \in 0 .. n : i \in S
  <2>1. 0 \in S
    BY <1>1, <1>9
  <2> HIDE DEF S
  <2> QED
    BY <1>1, <1>10, <2>1, InductionTo
<1>12. after \in [0 .. n -> SUBSET Places]
  BY <1>7, <1>11
<1> QED
  BY <1>8, <1>9, <1>12 DEF n

\* Every bit is carried down to all places within reach, and none goes up.
LEMMA SmearedDown ==
  ASSUME NEW b \in SUBSET Places
  PROVE  /\ b \subseteq Smeared(b) /\ Smeared(b) \subseteq Places
         /\ \A k \in Smeared(b) : \E j \in b : k <= j
         /\ \A j \in b, k \in Places :
              k <= j /\ j <= k + Reach[Len(Shifts)] => k \in Smeared(b)
<1>1. PICK n : n = Len(Shifts)
  OBVIOUS
<1>2. PICK f : /\ f \in [0 .. n -> SUBSET Places] /\ f[0] = b
               /\ Smeared(b) = f[n] /\ \A i \in 1 .. n : f[i] = Shifted(f[i - 1], i)
  <2>1. PICK f : /\ f \in [0 .. Len(Shifts) -> SUBSET Places] /\ f[0] = b
                 /\ Smeared(b) = f[Len(Shifts)]
                 /\ \A i \in 1 .. Len(Shifts) : f[i] = Shifted(f[i - 1], i)
    BY SmearedIs
  <2> QED
    BY <1>1, <2>1
<1>3. /\ n \in Nat /\ Reach \in [0 .. n -> Nat] /\ Reach[0] = 0
      /\ \A i \in 1 .. n : Shifts[i] \in Nat /\ Reach[i] = Reach[i - 1] + Shifts[i]
      /\ \A i \in 1 .. n : Shifts[i] <= Reach[i - 1] + 1
  BY <1>1, ReachIs, ShiftAssumption
<1>4. Places \subseteq Nat /\ \A j \in Places, k \in Nat : k <= j => k \in Places
  BY Widths DEF Places
<1> DEFINE Carried(i) == /\ b \subseteq f[i]
                         /\ \A k \in f[i] : \E j \in b : k <= j
                         /\ \A j \in b, k \in Places : k <= j /\ j <= k + Reach[i] => k \in f[i]
           S == {i \in 0 .. n : Carried(i)}
<1>5. 0 \in S
  <2>1. \A j \in b, k \in Places : k <= j /\ j <= k + 0 => k = j
    BY <1>4
  <2>2. Carried(0)
    BY <1>2, <1>3, <1>4, <2>1
  <2> QED
    BY <1>3, <2>2
<1>6. ASSUME NEW i \in 0 .. n - 1, i \in S PROVE i + 1 \in S
  <2>1. i + 1 \in 1 .. n /\ (i + 1) - 1 = i /\ i + 1 \in 0 .. n /\ i \in 0 .. n
    BY <1>3
  <2>2. PICK s, r : s = Shifts[i + 1] /\ r = Reach[i]
    OBVIOUS
  <2>3. /\ s \in Nat /\ r \in Nat /\ s <= r + 1 /\ Reach[i + 1] = r + s
        /\ f[i + 1] = f[i] \cup {k \in Places : k + s \in f[i]} /\ f[i] \in SUBSET Places
    BY <1>2, <1>3, <2>1, <2>2 DEF Shifted
  <2>4. Carried(i)
    BY <1>6
  <2>5. b \subseteq f[i + 1]
    BY <2>3, <2>4
  <2>6. ASSUME NEW k \in f[i + 1] PROVE \E j \in b : k <= j
    <3>1. CASE k \in f[i]
      BY <2>4, <3>1
    <3>2. CASE k \in Places /\ k + s \in f[i]
      <4>1. PICK j \in b : k + s <= j
        BY <2>4, <3>2
      <4>2. k \in Nat /\ j \in Nat
        BY <1>4, <3>2
      <4> QED
        BY <2>3, <4>1, <4>2
    <3> QED
      BY <2>3, <2>6, <3>1, <3>2
  <2>7. ASSUME NEW j \in b, NEW k \in Places, k <= j, j <= k + Reach[i + 1] PROVE k \in f[i + 1]
    <3>1. j \in Nat /\ k \in Nat /\ j \in Places
      BY <1>4
    <3>2. CASE j <= k + r
      BY <2>2, <2>3, <2>4, <2>7, <3>2
    <3>3. CASE ~ (j <= k + r)
      <4>1. k + s <= j /\ j <= (k + s) + r /\ k + s \in Nat
        BY <2>3, <2>7, <3>1, <3>3
      <4>2. k + s \in Places
        BY <1>4, <3>1, <4>1
      <4>3. k + s \in f[i]
        BY <2>2, <2>4, <4>1, <4>2
      <4> QED
        BY <2>3, <4>3
    <3> QED
      BY <3>2, <3>3
  <2>8. Carried(i + 1)
    BY <2>5, <2>6, <2>7
  <2> QED
    BY <2>1, <2>8
<1>7. n \in S
  <2> HIDE DEF S
  <2>1. \A i \in 0 .. n : i \in S
    BY <1>3, <1>5, <1>6, InductionTo
  <2> QED
    BY <1>3, <2>1
<1>8. Carried(n) /\ f[n] \in SUBSET Places
  BY <1>2, <1>3, <1>7
<1> QED
  BY <1>1, <1>2, <1>8

\* next_pow_of_2 is right for the page counts of the arena, and lets no other one in.
LEMMA NextPower ==
  ASSUME NEW c \in Nat, c < TwoTo[SizeBits]
  PROVE  /\ c = 0 => NextPowOf2(c) = 0
         /\ c \in 1 .. Pages =>
              \E k \in 0 .. SizeBits : /\ NextPowOf2(c) = TwoTo[k] /\ c <= TwoTo[k] /\ TwoTo[k] <= Pages
                                       /\ k > 0 => TwoTo[k - 1] < c
         /\ c > Pages => NextPowOf2(c) \in Nat /\ NextPowOf2(c) > Pages
<1>1. PICK a \in 0 .. SizeBits : a <= Reach[Len(Shifts)] + 1 /\ Pages = TwoTo[a]
  <2>1. Reach[Len(Shifts)] \in Nat
    BY ReachIs
  <2> QED
    BY <2>1, ShiftAssumption, Widths
<1>2. Pages \in Nat \ {0} /\ TwoTo[Narrow] \in Nat
  BY <1>1, TwoToIs, Widths
<1> DEFINE s == Smeared(BitsOf(c))
<1>3. BitsOf(c) \in SUBSET Places
  BY DEF BitsOf
<1>4. CASE c = 0
  <2>1. IsPowOf2(c)
    BY <1>2, <1>4, NarrowAssumption, PowerTest
  <2> QED
    BY <1>2, <1>4, <2>1 DEF NextPowOf2
<1>5. CASE c \in 1 .. Pages
  <2>1. PICK t \in Places : TwoTo[t] <= c /\ c < TwoTo[t + 1]
    BY <1>5, TopPlace
  <2>2. /\ t \in 0 .. SizeBits /\ t + 1 \in 1 .. SizeBits /\ (t + 1) - 1 = t /\ t + 1 \in 0 .. SizeBits
        /\ t \in Nat
    BY Widths DEF Places
  <2>3. TwoTo[t] \in Nat \ {0} /\ TwoTo[t + 1] = 2 * TwoTo[t]
    BY <2>2, TwoToIs
  <2>4. c < TwoTo[Narrow]
    BY <1>2, <1>5, NarrowAssumption
  <2>5. IsPowOf2(c) <=> c = TwoTo[t]
    BY <2>1, <2>4, PowerTest
  <2>6. CASE c = TwoTo[t]
    <3>1. NextPowOf2(c) = TwoTo[t] /\ TwoTo[t] <= Pages
      BY <1>2, <1>5, <2>5, <2>6 DEF NextPowOf2
    <3>2. ASSUME t > 0 PROVE TwoTo[t - 1] < c
      <4>1. t - 1 \in 0 .. SizeBits /\ t - 1 < t
        BY <2>2, <3>2, Widths
      <4> QED
        BY <2>2, <2>6, <4>1, TwoToGrows
    <3> QED
      BY <1>2, <2>2, <2>3, <2>6, <3>1, <3>2
  <2>7. CASE c # TwoTo[t]
    <3>1. t < a
      <4> SUFFICES ASSUME ~ (t < a) PROVE FALSE
        OBVIOUS
      <4>1. a <= t
        BY <1>1, <2>2, Widths
      <4>2. TwoTo[a] <= TwoTo[t]
        BY <2>2, <4>1, TwoToOrder
      <4> QED
        BY <1>1, <1>2, <1>5, <2>1, <2>3, <2>7, <4>2
    <3>2. TwoTo[t + 1] <= Pages
      <4>1. t + 1 <= a
        BY <1>1, <2>2, <3>1, Widths
      <4> QED
        BY <1>1, <2>2, <4>1, TwoToOrder
    <3>3. t \in BitsOf(c) /\ \A k \in BitsOf(c) : k <= t
      BY <2>1, FirstBit
    <3>4. ASSUME NEW k \in s PROVE k \in 0 .. t
      <4>1. k \in Places /\ \E j \in BitsOf(c) : k <= j
        BY <1>3, SmearedDown
      <4>2. PICK j \in BitsOf(c) : k <= j
        BY <4>1
      <4>3. j \in Nat /\ j <= t /\ k \in Nat
        BY <1>3, <3>3, <4>1 DEF Places
      <4> QED
        BY <2>2, <4>2, <4>3
    <3>5. ASSUME NEW k \in 0 .. t PROVE k \in s
      <4>1. k \in Places /\ k <= t
        BY <2>2, Widths DEF Places
      <4>2. t <= k + Reach[Len(Shifts)]
        <5>1. Reach[Len(Shifts)] \in Nat
          BY ReachIs
        <5> QED
          BY <1>1, <2>2, <3>1, <5>1
      <4> QED
        BY <1>3, <3>3, <4>1, <4>2, SmearedDown
    <3>6. s = 0 .. t
      BY <3>4, <3>5
    <3>7. NextPowOf2(c) = TwoTo[t + 1]
      BY <2>5, <2>7, <3>6, ValueToTop DEF NextPowOf2
    <3>8. c <= TwoTo[t + 1] /\ TwoTo[(t + 1) - 1] < c
      BY <2>1, <2>2, <2>3, <2>7
    <3> HIDE DEF s
    <3>9. \E k \in 0 .. SizeBits : /\ NextPowOf2(c) = TwoTo[k] /\ c <= TwoTo[k] /\ TwoTo[k] <= Pages
                                   /\ k > 0 => TwoTo[k - 1] < c
      BY <2>2, <3>2, <3>7, <3>8
    <3> QED
      BY <1>2, <1>5, <3>9
  <2> QED
    BY <2>6, <2>7
<1>6. CASE c > Pages
  <2>1. CASE IsPowOf2(c)
    <3>1. NextPowOf2(c) = c
      BY <2>1 DEF NextPowOf2
    <3> HIDE DEF s
    <3> QED
      BY <1>2, <1>6, <3>1
  <2>2. CASE ~ IsPowOf2(c)
    <3>1. BitsOf(c) \subseteq s
      BY <1>3, SmearedDown
    <3>2. ValueOf(s) \in Nat /\ c <= ValueOf(s)
      BY <3>1, ValueGrows, ValueOfBits
    <3>3. NextPowOf2(c) = ValueOf(s) + 1
      BY <2>2 DEF NextPowOf2
    <3> QED
      BY <1>2, <1>6, <3>2, <3>3
  <2> QED
    BY <2>1, <2>2
<1> QED
  BY <1>2, <1>4, <1>5, <1>6

\* Floats are multiples of their distance, which a power of two is as well.
LEMMA UlpIs ==
  ASSUME NEW x \in Nat, x < TwoTo[SizeBits]
  PROVE  /\ Ulp(x) \in Powers
         /\ \A u \in Powers : x \div u < TwoTo[Mantissa] => Ulp(x) <= u
<1> DEFINE T == {u \in Powers : x \div u < TwoTo[Mantissa]}
<1>1. Powers \subseteq Nat
  BY TwoToIs DEF Powers
<1>2. TwoTo[SizeBits] \in T
  <2>1. TwoTo[SizeBits] \in Powers /\ TwoTo[SizeBits] \in Nat \ {0} /\ TwoTo[Mantissa] \in Nat \ {0}
    BY Widths, TwoToIs DEF Powers
  <2>2. x \in 0 .. TwoTo[SizeBits] - 1 /\ x = 0 * TwoTo[SizeBits] + x
    BY <2>1
  <2>3. x \div TwoTo[SizeBits] = 0
    BY <2>1, <2>2, QuotientIs
  <2> QED
    BY <2>1, <2>3
<1>3. PICK v \in T : \A u \in T : v <= u
  <2>1. T \in SUBSET Nat /\ T # {}
    BY <1>1, <1>2
  <2> HIDE DEF T
  <2> QED
    BY <2>1, LeastNat
<1>4. Ulp(x) \in T /\ \A u \in T : Ulp(x) <= u
  <2>1. Ulp(x) = CHOOSE w \in T : \A u \in T : w <= u
    BY DEF Ulp, Min
  <2> HIDE DEF T
  <2> QED
    BY <1>3, <2>1
<1> QED
  BY <1>4

\* The float is no further off than half the distance, and rounding crosses no
\* power of two.
LEMMA FloatNear ==
  ASSUME NEW x \in Nat, x < TwoTo[SizeBits]
  PROVE  /\ ToFloat(x) \in Nat /\ Ulp(x) \in Nat \ {0} /\ ToFloat(x) + Ulp(x) \div 2 >= x
         /\ \A y \in Powers : x <= y => ToFloat(x) <= y
<1>1. PICK u : u = Ulp(x)
  OBVIOUS
<1>2. u \in Powers /\ u \in Nat \ {0}
  BY <1>1, UlpIs, TwoToIs DEF Powers
<1>3. PICK q, rem : q = x \div u /\ rem = x % u
  OBVIOUS
<1>4. q \in Nat /\ rem \in 0 .. u - 1 /\ x = q * u + rem
  BY <1>2, <1>3, Quotients
<1>5. PICK f : f = ToFloat(x)
  OBVIOUS
<1>6. \/ f = q * u /\ 2 * rem <= u
      \/ f = (q + 1) * u /\ 2 * rem >= u
  <2>1. f = IF 2 * rem > u \/ (2 * rem = u /\ q % 2 = 1) THEN (q + 1) * u ELSE q * u
    BY <1>1, <1>3, <1>5 DEF ToFloat
  <2>2. rem \in Nat /\ u \in Nat
    BY <1>2, <1>4
  <2>3. 2 * rem > u \/ (2 * rem = u /\ q % 2 = 1) => 2 * rem >= u
    BY <2>2
  <2>4. ~ (2 * rem > u \/ (2 * rem = u /\ q % 2 = 1)) => 2 * rem <= u
    BY <2>2
  <2> QED
    BY <2>1, <2>3, <2>4
<1>7. q * u \in Nat /\ (q + 1) * u = q * u + u
  BY <1>2, <1>4
<1>8. f \in Nat /\ f + u \div 2 >= x
  <2>1. CASE f = q * u /\ 2 * rem <= u
    <3>1. rem <= u \div 2
      BY <1>2, <1>4, <2>1
    <3> QED
      BY <1>2, <1>4, <1>7, <2>1, <3>1
  <2>2. CASE f = (q + 1) * u
    <3>1. u \div 2 \in Nat
      BY <1>2
    <3> QED
      BY <1>2, <1>4, <1>7, <2>2, <3>1
  <2> QED
    BY <1>6, <2>1, <2>2
<1>9. ASSUME NEW y \in Powers, x <= y PROVE f <= y
  <2>1. y \in Nat \ {0}
    BY TwoToIs DEF Powers
  <2>2. u <= y
    <3>1. x \div y \in {0, 1}
      <4>1. CASE x = y
        <5>1. 0 \in 0 .. y - 1 /\ x = 1 * y + 0
          BY <2>1, <4>1
        <5> QED
          BY <2>1, <5>1, QuotientIs
      <4>2. CASE x < y
        <5>1. x \in 0 .. y - 1 /\ x = 0 * y + x
          BY <2>1, <4>2
        <5> QED
          BY <2>1, <5>1, QuotientIs
      <4> QED
        BY <1>9, <2>1, <4>1, <4>2
    <3>2. 2 <= TwoTo[Mantissa] /\ TwoTo[Mantissa] \in Nat
      <4>1. 0 \in 0 .. SizeBits /\ Mantissa \in 0 .. SizeBits /\ 0 < Mantissa
        BY Widths
      <4> QED
        BY <4>1, TwoToGrows, TwoToIs
    <3> QED
      BY <1>1, <3>1, <3>2, UlpIs
  <2>3. PICK m \in Nat \ {0} : y = m * u
    BY <1>2, <2>2, PowersFactor
  <2>4. q <= m /\ (rem # 0 => q + 1 <= m)
    <3>1. ASSUME m < q PROVE FALSE
      <4>1. (m + 1) * u <= q * u
        BY <1>2, <1>4, <3>1
      <4>2. (m + 1) * u = m * u + u
        BY <1>2
      <4> QED
        BY <1>2, <1>4, <1>7, <1>9, <2>1, <2>3, <4>1, <4>2
    <3>2. ASSUME rem # 0, m = q PROVE FALSE
      BY <1>2, <1>4, <1>7, <1>9, <2>3, <3>2
    <3> QED
      BY <1>4, <3>1, <3>2
  <2>5. q * u <= y
    BY <1>2, <1>4, <2>3, <2>4
  <2>6. rem # 0 => (q + 1) * u <= y
    BY <1>2, <1>4, <2>3, <2>4
  <2>7. f = (q + 1) * u /\ 2 * rem >= u => rem # 0
    BY <1>2, <1>4
  <2> QED
    BY <1>6, <2>5, <2>6, <2>7
<1> QED
  BY <1>1, <1>2, <1>5, <1>8, <1>9

LEMMA CeilingIs ==
  ASSUME NEW f \in Nat
  PROVE  /\ Ceiling(f) \in Nat /\ f <= Ceiling(f) * PageSize
         /\ \A h \in Nat : f <= h * PageSize => Ceiling(f) <= h
<1>1. PICK p : p = PageSize /\ p \in Nat \ {0}
  BY PageCountAssumption, TwoToIs DEF Powers
<1>2. PICK c, rem : c = (f + p - 1) \div p /\ rem = (f + p - 1) % p
  OBVIOUS
<1>3. f + p - 1 \in Nat
  BY <1>1
<1>4. c \in Nat /\ rem \in 0 .. p - 1 /\ f + p - 1 = c * p + rem
  BY <1>1, <1>2, <1>3, Quotients
<1>5. c * p \in Nat
  BY <1>1, <1>4
<1>6. f <= c * p
  BY <1>1, <1>4, <1>5
<1>7. ASSUME NEW h \in Nat, f <= h * p, h < c PROVE FALSE
  <2>1. (h + 1) * p <= c * p
    BY <1>1, <1>4, <1>7
  <2>2. (h + 1) * p = h * p + p /\ h * p \in Nat
    BY <1>1
  <2> QED
    BY <1>1, <1>4, <1>5, <1>7, <2>1, <2>2
<1>8. Ceiling(f) = c
  BY <1>1, <1>2 DEF Ceiling
<1> QED
  BY <1>1, <1>4, <1>6, <1>7, <1>8

\* What buddy_alloc counts for any size_t.
LEMMA PagesGranted ==
  ASSUME NEW x \in Nat, x < TwoTo[SizeBits]
  PROVE  /\ PagesFor(x) \in Nat \ {0} /\ Granted(x)
         /\ x <= Pages * PageSize => PagesFor(x) <= Pages
<1>1. PICK f : f = ToFloat(x)
  OBVIOUS
<1>2. /\ f \in Nat /\ Ulp(x) \in Nat \ {0} /\ f + Ulp(x) \div 2 >= x
      /\ \A y \in Powers : x <= y => f <= y
  BY <1>1, FloatNear
<1>3. PICK b \in 1 .. SizeBits : PageSize = TwoTo[b]
  <2>1. PICK b \in 0 .. SizeBits : PageSize = TwoTo[b] /\ TwoTo[b] # 1
    BY PageCountAssumption DEF Powers
  <2>2. b # 0
    BY <2>1, TwoToIs
  <2> QED
    BY <2>1, <2>2, Widths
<1>4. PICK p : p = PageSize /\ p \in Nat \ {0} /\ p >= 2
  <2>1. b \in 0 .. SizeBits /\ 0 < b
    BY <1>3, Widths
  <2> QED
    BY <1>3, <2>1, TwoToGrows, TwoToIs, Widths
<1>5. Pages \in Powers /\ Pages \in Nat \ {0} /\ Pages * p \in Powers /\ Pages * p \in Nat
  BY <1>4, PageCountAssumption, TwoToIs DEF Powers
<1>6. PICK c : c = Ceiling(f)
  OBVIOUS
<1>7. c \in Nat /\ f <= c * p /\ \A h \in Nat : f <= h * p => c <= h
  BY <1>2, <1>4, <1>6, CeilingIs
<1>8. c < TwoTo[SizeBits]
  <2>1. PICK h, top : h = TwoTo[SizeBits - b] /\ top = TwoTo[SizeBits]
    OBVIOUS
  <2>2. b \in 0 .. SizeBits /\ SizeBits \in 0 .. SizeBits /\ b <= SizeBits
    BY <1>3, Widths
  <2>3. SizeBits - b \in 0 .. SizeBits /\ top = p * h
    BY <1>3, <1>4, <2>1, <2>2, TwoToSum
  <2>4. h \in Nat \ {0} /\ top \in Nat \ {0} /\ top \in Powers
    BY <2>1, <2>2, <2>3, TwoToIs DEF Powers
  <2>5. f <= h * p
    BY <1>2, <1>4, <2>1, <2>3, <2>4
  <2>6. c <= h
    BY <1>7, <2>4, <2>5
  <2>7. h < p * h
    BY <1>4, <2>4
  <2> QED
    BY <1>7, <2>1, <2>3, <2>4, <2>6, <2>7
<1>9. PICK m : m = NextPowOf2(c)
  OBVIOUS
<1>10. PagesFor(x) = IF m = 0 THEN 1 ELSE m
  BY <1>1, <1>6, <1>9 DEF PagesFor
<1>11. CASE c = 0
  <2>1. PagesFor(x) = 1
    BY <1>7, <1>8, <1>9, <1>10, <1>11, NextPower
  <2>2. 1 \in Powers
    BY Widths, TwoToIs DEF Powers
  <2>3. 1 * p + Ulp(x) \div 2 >= x
    <3>1. f = 0
      BY <1>2, <1>4, <1>7, <1>11
    <3>2. Ulp(x) \div 2 \in Nat
      BY <1>2
    <3> QED
      BY <1>2, <1>4, <3>1, <3>2
  <2>4. Granted(x)
    BY <1>4, <2>1, <2>2, <2>3 DEF Granted
  <2> QED
    BY <1>5, <2>1, <2>4
<1>12. CASE c \in 1 .. Pages
  <2>1. PICK k \in 0 .. SizeBits : /\ m = TwoTo[k] /\ c <= TwoTo[k] /\ TwoTo[k] <= Pages
                                   /\ k > 0 => TwoTo[k - 1] < c
    BY <1>7, <1>8, <1>9, <1>12, NextPower
  <2>2. m \in Nat \ {0} /\ m \in Powers /\ PagesFor(x) = m
    BY <1>10, <2>1, TwoToIs DEF Powers
  <2>3. m * p + Ulp(x) \div 2 >= x
    <3>1. c * p <= m * p
      BY <1>4, <1>7, <2>1, <2>2
    <3>2. c * p \in Nat /\ m * p \in Nat /\ Ulp(x) \div 2 \in Nat
      BY <1>2, <1>4, <1>7, <2>2
    <3> QED
      BY <1>2, <1>7, <3>1, <3>2
  <2>4. ASSUME m > 1 PROVE (m \div 2) * p < x
    <3>1. k # 0
      BY <2>1, <2>4, TwoToIs
    <3>2. k \in 1 .. SizeBits /\ k - 1 \in 0 .. SizeBits /\ k - 1 <= k
      BY <3>1, Widths
    <3>3. PICK h : h = TwoTo[k - 1] /\ h \in Nat \ {0} /\ m = 2 * h /\ h < c /\ h \in Powers
      BY <2>1, <3>2, TwoToIs DEF Powers
    <3>4. m \div 2 = h
      BY <3>3
    <3>5. h * p \in Powers
      <4>1. PICK d \in Nat \ {0} : d \in Powers /\ Pages * p = d * (m * p)
        <5>1. PICK d \in Nat \ {0} : d \in Powers /\ Pages = d * m
          BY <1>5, <2>1, <2>2, PowersFactor
        <5>2. (d * m) * p = d * (m * p)
          BY <1>4, <2>2
        <5> QED
          BY <5>1, <5>2
      <4>2. PICK a \in 0 .. SizeBits : Pages * p = TwoTo[a]
        BY <1>5 DEF Powers
      <4>3. k - 1 + b \in 0 .. SizeBits
        <5> SUFFICES ASSUME SizeBits < k - 1 + b PROVE FALSE
          BY <1>3, <3>2, Widths
        <5>1. SizeBits - b \in 0 .. SizeBits /\ b \in 0 .. SizeBits /\ SizeBits - b < k - 1
          BY <1>3, <3>2, Widths
        <5>2. TwoTo[SizeBits] = p * TwoTo[SizeBits - b]
          BY <1>3, <1>4, <5>1, TwoToSum, Widths
        <5>3. PICK g : g = TwoTo[SizeBits - b] /\ g \in Nat \ {0} /\ 2 * g <= h
          BY <3>2, <3>3, <5>1, TwoToGrows, TwoToIs
        <5>4. p * g < m * p
          BY <1>4, <2>2, <3>3, <5>3
        <5>5. m * p <= d * (m * p)
          BY <1>4, <2>2
        <5>6. TwoTo[a] <= TwoTo[SizeBits] /\ TwoTo[a] \in Nat /\ TwoTo[SizeBits] \in Nat
          BY Widths, TwoToOrder
        <5> QED
          BY <1>4, <2>2, <4>1, <4>2, <5>2, <5>3, <5>4, <5>5, <5>6
      <4>4. k - 1 <= k - 1 + b /\ (k - 1 + b) - (k - 1) = b
        BY <1>3, <3>2
      <4>5. TwoTo[k - 1 + b] = h * p
        BY <1>3, <1>4, <3>2, <3>3, <4>3, <4>4, TwoToSum
      <4> QED
        BY <4>3, <4>5 DEF Powers
    <3>6. ~ (f <= h * p)
      BY <1>7, <3>3
    <3>7. ~ (x <= h * p)
      BY <1>2, <3>5, <3>6
    <3> QED
      BY <1>4, <3>3, <3>4, <3>7
  <2>5. Granted(x)
    BY <1>4, <2>2, <2>3, <2>4 DEF Granted
  <2> QED
    BY <1>4, <2>1, <2>2, <2>5
<1>13. CASE c > Pages
  <2>1. m \in Nat /\ m > Pages
    BY <1>7, <1>8, <1>9, <1>13, NextPower
  <2>2. PagesFor(x) = m
    BY <1>5, <1>10, <2>1
  <2>3. ~ (x <= Pages * p)
    <3> SUFFICES ASSUME x <= Pages * p PROVE FALSE
      OBVIOUS
    <3>1. c <= Pages
      BY <1>2, <1>5, <1>7
    <3> QED
      BY <1>5, <1>7, <1>13, <3>1
  <2>4. Granted(x)
    BY <1>5, <2>1, <2>2 DEF Granted
  <2> QED
    BY <1>4, <1>5, <2>1, <2>2, <2>3, <2>4
<1> QED
  BY <1>5, <1>7, <1>11, <1>12, <1>13

\* Every request gets the least power of two of pages that holds it, but for the
\* rounding of the float (the first line of buddy_alloc).
THEOREM PagesStayRight == RequestSpec => []PageCountsRight
<1> DEFINE Inv == asked \in 0 .. MaxSize
<1>1. RequestInit => Inv
  BY RequestMaxSize DEF RequestInit
<1>2. Inv /\ [Ask]_asked => Inv'
  BY RequestMaxSize DEF Ask
<1>3. Inv => PageCountsRight
  <2> SUFFICES ASSUME Inv PROVE PageCountsRight
    OBVIOUS
  <2>1. PICK top : top = TwoTo[SizeBits] /\ top \in Nat \ {0}
    BY Widths, TwoToIs
  <2>2. asked \in Nat /\ asked < top
    BY <2>1, RequestMaxSize, AskedAssumption
  <2>3. ASSUME NEW num \in Counts
        PROVE  /\ Granted(CallocBytes(num, asked))
               /\ num * asked < TwoTo[SizeBits] => CallocBytes(num, asked) = num * asked
    <3>1. PICK y : y = num * asked /\ y \in Nat
      BY <2>2, PageCountAssumption
    <3>2. CallocBytes(num, asked) = y % top
      BY <2>1, <3>1 DEF CallocBytes
    <3>3. y % top \in Nat /\ y % top < top
      BY <2>1, <3>1
    <3>4. y < top => y % top = y
      BY <2>1, <3>1
    <3> QED
      BY <2>1, <3>1, <3>2, <3>3, <3>4, PagesGranted
  <2>4. Granted(asked) /\ (asked <= Pages * PageSize => PagesFor(asked) <= Pages)
    BY <2>1, <2>2, PagesGranted
  <2> QED
    BY <2>3, <2>4 DEF PageCountsRight, ShortByRoundingOnly
<1> QED
  BY <1>1, <1>2, <1>3, PTL DEF RequestSpec

\* What the proofs about the tree assume of page counts (RequestAssumption) is so of
\* those that buddy_alloc computes for the tree's pages.
THEOREM CountsServe ==
  ASSUME NEW x \in Nat, x < TwoTo[SizeBits], L <= SizeBits, Pages = P[L]
  PROVE  /\ PagesFor(x) \in Nat \ {0}
         /\ PagesFor(x) <= P[L] => \E k \in 0 .. L : PagesFor(x) = P[k]
<1>1. /\ L \in Nat /\ W \in Nat /\ L + 1 < W /\ P \in [0 .. W -> Nat \ {0}] /\ P[0] = 1
      /\ \A k \in 0 .. W - 1 : P[k + 1] = 2 * P[k]
  BY SizeAssumption
<1> DEFINE S == {k \in 0 .. L : P[k] = TwoTo[k]}
<1>2. 0 \in S
  <2>1. P[0] = 1 /\ TwoTo[0] = 1
    BY <1>1, TwoToIs
  <2>2. 0 \in 0 .. L
    BY <1>1
  <2> QED
    BY <2>1, <2>2
<1>3. ASSUME NEW k \in 0 .. L - 1, k \in S PROVE k + 1 \in S
  <2>1. k + 1 \in 0 .. L /\ k \in 0 .. W - 1 /\ k + 1 \in 1 .. SizeBits /\ (k + 1) - 1 = k
    BY <1>1, Widths
  <2>2. P[k + 1] = 2 * P[k] /\ TwoTo[k + 1] = 2 * TwoTo[k]
    BY <1>1, <2>1, TwoToIs
  <2> QED
    BY <1>3, <2>1, <2>2
<1>4. \A k \in 0 .. L : k \in S
  <2> HIDE DEF S
  <2> QED
    BY <1>1, <1>2, <1>3, InductionTo
<1>5. PagesFor(x) \in Nat \ {0} /\ Granted(x)
  BY PagesGranted
<1>6. ASSUME PagesFor(x) <= P[L] PROVE \E k \in 0 .. L : PagesFor(x) = P[k]
  <2>1. PICK k \in 0 .. SizeBits : PagesFor(x) = TwoTo[k]
    BY <1>5, <1>6 DEF Granted, Powers
  <2>2. k <= L
    <3> SUFFICES ASSUME L < k PROVE FALSE
      BY <1>1, Widths
    <3>1. L \in 0 .. SizeBits /\ L \in 0 .. L
      BY <1>1, Widths
    <3>2. TwoTo[L] < TwoTo[k] /\ P[L] = TwoTo[L] /\ TwoTo[L] \in Nat /\ TwoTo[k] \in Nat
      BY <1>4, <3>1, TwoToGrows, TwoToIs
    <3> QED
      BY <1>6, <2>1, <3>2
  <2>3. k \in 0 .. L
    BY <1>1, <2>2, Widths
  <2> QED
    BY <1>4, <2>1, <2>3
<1> QED
  BY <1>5, <1>6
=============================================================================
