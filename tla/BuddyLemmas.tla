---------------------------- MODULE BuddyLemmas ----------------------------
(***************************************************************************)
(* Facts about powers of two and about the heap order of the tree of       *)
(* Buddy, for every level of the tree.                                     *)
(***************************************************************************)
EXTENDS BuddyProps, NaturalsInduction, WellFoundedInduction, TLAPS

-----------------------------------------------------------------------------
(* Induction, and powers of two *)

\* Induction up to a bound, for a set of numbers in place of a predicate.
LEMMA SetInduction ==
  ASSUME NEW S, NEW M \in Nat,
         0 \in S,
         \A n \in 0 .. M - 1 : n \in S => n + 1 \in S
  PROVE  \A n \in 0 .. M : n \in S
<1> DEFINE T == {n \in Nat : n <= M /\ n \notin S}
<1>1. SUFFICES ASSUME T # {} PROVE FALSE
  BY <1>1 DEF T
<1>2. PICK x \in T : \A y \in T : ~ (<<y, x>> \in OpToRel(<, Nat))
  <2>1. T \subseteq Nat
    BY DEF T
  <2> QED
    BY <1>1, <2>1, NatLessThanWellFounded, WFMin
<1>3. x \in Nat /\ x # 0 /\ x <= M /\ x \notin S
  BY DEF T
<1>4. x - 1 \in 0 .. M - 1 /\ x - 1 \in Nat /\ x - 1 < x /\ (x - 1) + 1 = x
  BY <1>3
<1>5. x - 1 \notin T
  <2>1. SUFFICES ASSUME x - 1 \in T PROVE FALSE
    OBVIOUS
  <2>2. <<x - 1, x>> \in OpToRel(<, Nat)
    BY <1>3, <1>4, Zenon DEF OpToRel
  <2> QED
    BY <1>2, <2>1, <2>2
<1>6. x - 1 \in S
  BY <1>3, <1>4, <1>5 DEF T
<1> QED
  BY <1>3, <1>4, <1>6

\* A longer node has a larger power.
LEMMA PowerGrows ==
  ASSUME NEW i \in 0 .. W, NEW j \in 0 .. W, i < j
  PROVE  P[i] < P[j]
<1> DEFINE S == {n \in 0 .. W - i : i + n \in 0 .. W /\ (n = 0 \/ P[i] < P[i + n])}
<1>1. i \in Nat /\ W \in Nat /\ W - i \in Nat
  BY SizeAssumption
<1>2. 0 \in S
  BY <1>1
<1>3. ASSUME NEW n \in 0 .. (W - i) - 1, n \in S PROVE n + 1 \in S
  <2>1. i + n \in 0 .. W - 1 /\ i + (n + 1) = (i + n) + 1 /\ n + 1 \in 0 .. W - i
    BY <1>1
  <2>2. P[(i + n) + 1] = 2 * P[i + n] /\ P[i + n] \in Nat \ {0} /\ P[i] \in Nat
    BY <2>1, SizeAssumption
  <2>3. P[i] <= P[i + n]
    BY <1>3, <2>2
  <2>4. P[i] < P[i + (n + 1)]
    BY <2>1, <2>2, <2>3
  <2> QED
    BY <1>1, <2>1, <2>4
<1>4. \A n \in 0 .. W - i : n \in S
  <2> HIDE DEF S
  <2> QED BY <1>1, <1>2, <1>3, SetInduction
<1>5. j - i \in 0 .. W - i /\ i + (j - i) = j /\ j - i # 0
  BY <1>1
<1>6. j - i \in S
  BY <1>4, <1>5
<1> QED
  BY <1>5, <1>6

\* Twice as many nodes of half the length.
LEMMA PowerProduct ==
  ASSUME NEW i \in 0 .. W, NEW j \in 0 .. W, i + j <= W
  PROVE  P[i] * P[j] = P[i + j]
<1> DEFINE S == {n \in 0 .. W - i : i + n \in 0 .. W /\ P[i] * P[n] = P[i + n]}
<1>1. i \in Nat /\ W \in Nat /\ W - i \in Nat
  BY SizeAssumption
<1>2. 0 \in S
  <2>1. P[i] * P[0] = P[i] /\ i + 0 = i
    BY <1>1, SizeAssumption
  <2> QED BY <1>1, <2>1
<1>3. ASSUME NEW n \in 0 .. (W - i) - 1, n \in S PROVE n + 1 \in S
  <2>1. i + n \in 0 .. W - 1 /\ n \in 0 .. W - 1 /\ i + (n + 1) = (i + n) + 1 /\ n + 1 \in 0 .. W - i
    BY <1>1
  <2>2. P[(i + n) + 1] = 2 * P[i + n] /\ P[n + 1] = 2 * P[n]
    BY <2>1, SizeAssumption
  <2>3. P[i] \in Nat /\ P[n] \in Nat /\ P[i] * P[n] = P[i + n]
    BY <1>1, <1>3, <2>1, SizeAssumption
  <2>4. P[i] * (2 * P[n]) = 2 * (P[i] * P[n])
    BY <2>3
  <2> QED
    BY <1>1, <2>1, <2>2, <2>3, <2>4
<1>4. \A n \in 0 .. W - i : n \in S
  <2> HIDE DEF S
  <2> QED BY <1>1, <1>2, <1>3, SetInduction
<1>5. j \in S
  BY <1>1, <1>4
<1> QED
  BY <1>5

-----------------------------------------------------------------------------
(* Ancestors *)

LEMMA HalfOfQuotient ==
  ASSUME NEW x \in Nat, NEW a \in Nat \ {0}
  PROVE  (x \div a) \div 2 = x \div (2 * a)
OBVIOUS

LEMMA QuotientOfHalf ==
  ASSUME NEW x \in Nat, NEW a \in Nat \ {0}
  PROVE  (x \div 2) \div a = x \div (2 * a)
OBVIOUS

\* The quotient of a number is where its interval says.
LEMMA QuotientRange ==
  ASSUME NEW x \in Nat, NEW a \in Nat \ {0}, NEW m \in Nat,
         m * a <= x, x < (m + 1) * a
  PROVE  m = x \div a
OBVIOUS

\* The arena is half as long as the longest a word can count, and no more.
LEMMA ArenaFacts ==
  /\ N \in Nat \ {0} /\ Word \in Nat /\ 2 * N < Word /\ Word % 2 = 0
  /\ L \in Nat /\ W \in Nat /\ L \in 0 .. W /\ L + 1 \in 0 .. W /\ P[L + 1] = 2 * N
  /\ \A k \in 0 .. W : P[k] \in Nat \ {0}
<1>1. L \in 0 .. W - 1 /\ L + 1 \in 0 .. W /\ W - 1 \in 0 .. W - 1 /\ (W - 1) + 1 = W /\ W \in 0 .. W
  BY SizeAssumption
<1>2. P[L + 1] = 2 * P[L] /\ Word = 2 * P[W - 1] /\ \A k \in 0 .. W : P[k] \in Nat \ {0}
  BY <1>1, SizeAssumption DEF Word
<1>3. P[L + 1] < Word
  BY <1>1, PowerGrows, SizeAssumption DEF Word
<1>4. P[W - 1] \in Nat /\ P[L] \in Nat \ {0}
  BY <1>1, <1>2
<1> QED
  BY <1>1, <1>2, <1>3, <1>4 DEF N

LEMMA NodeFacts ==
  ASSUME NEW i \in Node
  PROVE  /\ i \in Nat
         /\ Parent(0) = Word - 1 /\ Odd(Word - 1) /\ Inc(Word - 1) = 0
         /\ i # 0 => /\ Parent(i) = ((i + 1) \div 2) - 1
                     /\ Parent(i) \in Node /\ RightChild(Parent(i)) \in Node
                     /\ Sibling(i) \in Node /\ Parent(Sibling(i)) = Parent(i)
                     /\ Sibling(i) # i
                     /\ i \in {LeftChild(Parent(i)), RightChild(Parent(i))}
                     /\ Sibling(i) \in {LeftChild(Parent(i)), RightChild(Parent(i))}
         /\ Odd(i) => i + 1 \in Node /\ Inc(i) = Sibling(i) /\ i # 0
         /\ Sibling(0) = -1
         /\ RightChild(i) \in Node =>
              /\ LeftChild(i) \in Node
              /\ LeftChild(i) # 0 /\ Parent(LeftChild(i)) = i
              /\ RightChild(i) # 0 /\ Parent(RightChild(i)) = i
BY ArenaFacts DEF Node, Parent, Odd, Inc, Dec, Sibling, LeftChild, RightChild

LEMMA UpZero == ASSUME NEW i \in Node PROVE Up(0, i) = i
BY SizeAssumption, NodeFacts DEF Up

\* One step further up, at the top of the way and at its bottom.
LEMMA UpNext ==
  ASSUME NEW i \in Node, NEW k \in 0 .. W - 1
  PROVE  /\ Up(k, i) + 1 \in Nat /\ Up(k, i) + 1 <= i + 1
         /\ Up(k + 1, i) + 1 = (Up(k, i) + 1) \div 2
         /\ i # 0 => Up(k + 1, i) = Up(k, Parent(i))
<1>1. i + 1 \in Nat /\ k \in 0 .. W /\ k + 1 \in 0 .. W /\ P[k] \in Nat \ {0} /\ P[k + 1] = 2 * P[k]
  <2>1. i + 1 \in Nat
    BY NodeFacts
  <2>2. k \in 0 .. W /\ k + 1 \in 0 .. W
    BY SizeAssumption
  <2>3. P[k + 1] = 2 * P[k]
    BY SizeAssumption
  <2> QED
    BY <2>1, <2>2, <2>3, ArenaFacts
<1>2. (i + 1) \div P[k] \in Nat /\ (i + 1) \div P[k] <= i + 1
  BY <1>1
<1>3. Up(k, i) + 1 = (i + 1) \div P[k] /\ Up(k + 1, i) + 1 = (i + 1) \div P[k + 1]
  <2>1. (i + 1) \div P[k + 1] \in Int
    BY <1>1
  <2> QED
    BY <1>2, <2>1 DEF Up
<1>4. ((i + 1) \div P[k]) \div 2 = (i + 1) \div P[k + 1]
  BY <1>1, HalfOfQuotient
<1>5. ASSUME i # 0 PROVE Up(k + 1, i) = Up(k, Parent(i))
  <2>1. Parent(i) + 1 = (i + 1) \div 2
    BY <1>5, NodeFacts
  <2>2. ((i + 1) \div 2) \div P[k] = (i + 1) \div P[k + 1]
    BY <1>1, QuotientOfHalf
  <2> QED
    BY <2>1, <2>2 DEF Up
<1> QED
  BY <1>2, <1>3, <1>4, <1>5

\* Nothing lies above the root.
LEMMA UpEnds ==
  ASSUME NEW i \in Node
  PROVE  /\ \A k \in 1 .. L + 1 : Up(k, 0) = -1
         /\ Up(L + 1, i) = -1
<1>1. ASSUME NEW k \in 1 .. L + 1 PROVE Up(k, 0) = -1
  <2>1. k \in 0 .. W /\ 0 \in 0 .. W /\ 0 < k
    BY ArenaFacts
  <2>2. P[0] = 1 /\ P[0] < P[k] /\ P[k] \in Nat
    BY <2>1, PowerGrows, ArenaFacts, SizeAssumption
  <2>3. 1 \div P[k] = 0
    BY <2>2
  <2> QED
    BY <2>3 DEF Up
<1>2. Up(L + 1, i) = -1
  <2>1. i + 1 \in Nat /\ i + 1 < P[L + 1] /\ P[L + 1] \in Nat \ {0}
    BY ArenaFacts DEF Node
  <2>2. (i + 1) \div P[L + 1] = 0
    BY <2>1
  <2> QED
    BY <2>2 DEF Up
<1> QED
  BY <1>1, <1>2

-----------------------------------------------------------------------------
(* The sets of ancestors *)

LEMMA AncestorNodes == ASSUME NEW i \in Node PROVE Ancestors(i) \subseteq Node
<1>1. ASSUME NEW k \in 1 .. L, Up(k, i) # -1 PROVE Up(k, i) \in Node
  <2>1. k \in 0 .. W - 1
    BY SizeAssumption
  <2>2. Up(k, i) + 1 \in Nat /\ Up(k, i) + 1 <= i + 1
    BY <2>1, UpNext
  <2>3. Up(k, i) \in Int
    BY <2>1, NodeFacts, ArenaFacts DEF Up
  <2> QED
    BY <1>1, <2>2, <2>3, ArenaFacts DEF Node
<1> QED
  BY <1>1 DEF Ancestors

LEMMA RootAncestors == Ancestors(0) = {}
<1>1. 0 \in Node /\ \A k \in 1 .. L : k \in 1 .. L + 1
  BY ArenaFacts DEF Node
<1> QED
  BY <1>1, UpEnds DEF Ancestors

\* The ancestors of a node are its parent and the ancestors of its parent.
LEMMA ParentAncestors ==
  ASSUME NEW i \in Node, i # 0
  PROVE  Ancestors(i) = Ancestors(Parent(i)) \cup {Parent(i)}
<1>1. Parent(i) \in Node /\ Parent(i) # -1
  BY NodeFacts, ArenaFacts DEF Node
<1>2. L \in Nat /\ W \in Nat /\ L + 1 \in 0 .. W - 1
  BY SizeAssumption
<1>3. ASSUME NEW k \in 0 .. L PROVE Up(k + 1, i) = Up(k, Parent(i))
  <2>1. k \in 0 .. W - 1
    BY <1>2
  <2> QED
    BY <2>1, UpNext
<1>4. Up(0, Parent(i)) = Parent(i) /\ Up(L + 1, Parent(i)) = -1 /\ Up(L + 1, i) = -1
  BY <1>1, UpZero, UpEnds
<1>5. ASSUME NEW a \in Ancestors(i) PROVE a \in Ancestors(Parent(i)) \cup {Parent(i)}
  <2>1. PICK k \in 1 .. L : a = Up(k, i) /\ a # -1
    BY <1>5 DEF Ancestors
  <2>2. k - 1 \in 0 .. L /\ (k - 1) + 1 = k /\ (k - 1 = 0 \/ k - 1 \in 1 .. L)
    BY <1>2
  <2>3. a = Up(k - 1, Parent(i))
    BY <1>3, <2>1, <2>2
  <2> QED
    BY <1>4, <2>1, <2>2, <2>3 DEF Ancestors
<1>6. ASSUME NEW a \in Ancestors(Parent(i)) \cup {Parent(i)} PROVE a \in Ancestors(i)
  <2>1. PICK k \in 0 .. L : a = Up(k, Parent(i)) /\ a # -1
    <3>1. CASE a = Parent(i)
      BY <1>1, <1>2, <1>4, <3>1
    <3>2. CASE a \in Ancestors(Parent(i))
      BY <1>2, <3>2 DEF Ancestors
    <3> QED
      BY <1>6, <3>1, <3>2
  <2>2. a = Up(k + 1, i) /\ k + 1 \in 1 .. L + 1
    BY <1>2, <1>3, <2>1
  <2>3. k + 1 # L + 1
    BY <1>4, <2>1, <2>2
  <2>4. k + 1 \in 1 .. L
    BY <1>2, <2>2, <2>3
  <2> QED
    BY <2>1, <2>2, <2>4 DEF Ancestors
<1> QED
  BY <1>5, <1>6

\* An ancestor's parent is an ancestor too.
LEMMA AncestorParent ==
  ASSUME NEW i \in Node, NEW a \in Ancestors(i), a # 0
  PROVE  Parent(a) \in Ancestors(i)
<1>1. PICK k \in 1 .. L : a = Up(k, i) /\ a # -1
  BY DEF Ancestors
<1>2. a \in Node
  BY AncestorNodes
<1>3. L \in Nat /\ k \in 0 .. W - 1 /\ k + 1 \in 1 .. L + 1
  BY SizeAssumption
<1>4. Up(k + 1, i) + 1 = (a + 1) \div 2
  BY <1>1, <1>3, UpNext
<1>5. Parent(a) = ((a + 1) \div 2) - 1 /\ Parent(a) # -1 /\ Parent(a) \in Int
  BY <1>2, NodeFacts, ArenaFacts DEF Node
<1>6. Up(k + 1, i) \in Int
  <2>1. k + 1 \in 0 .. W /\ i + 1 \in Nat
    BY <1>3, NodeFacts, SizeAssumption
  <2> QED
    BY <2>1, ArenaFacts DEF Up
<1>7. Up(k + 1, i) = Parent(a)
  BY <1>4, <1>5, <1>6
<1>8. k + 1 # L + 1
  BY <1>5, <1>7, UpEnds
<1> QED
  BY <1>3, <1>5, <1>7, <1>8 DEF Ancestors

\* Below a node, everything is below one of its two children.
LEMMA AncestorChild ==
  ASSUME NEW i \in Node, NEW c \in Node, c # 0, Parent(c) \in Ancestors(i)
  PROVE  \E h \in {c, Sibling(c)} : h = i \/ h \in Ancestors(i)
<1> DEFINE p == Parent(c)
<1>1. PICK k \in 1 .. L : p = Up(k, i) /\ p # -1
  BY DEF Ancestors
<1>2. L \in Nat /\ W \in Nat /\ k - 1 \in 0 .. W - 1 /\ (k - 1) + 1 = k /\ (k - 1 = 0 \/ k - 1 \in 1 .. L)
  BY SizeAssumption
<1>3. p + 1 = (Up(k - 1, i) + 1) \div 2 /\ Up(k - 1, i) + 1 \in Nat
  BY <1>1, <1>2, UpNext
<1>4. Up(k - 1, i) \in Int
  <2>1. k - 1 \in 0 .. W /\ i + 1 \in Nat
    BY <1>2, NodeFacts
  <2> QED
    BY <2>1, ArenaFacts DEF Up
<1>5. p \in Nat /\ p + 1 = (c + 1) \div 2 /\ c \in Nat
  BY NodeFacts DEF Node
<1>6. Up(k - 1, i) \in {c, Sibling(c)} /\ Up(k - 1, i) # -1
  BY <1>3, <1>4, <1>5 DEF Sibling, Odd
<1>7. Up(k - 1, i) = i \/ Up(k - 1, i) \in Ancestors(i)
  BY <1>2, <1>6, UpZero DEF Ancestors
<1> QED
  BY <1>6, <1>7

-----------------------------------------------------------------------------
(* Nodes and the pages they stand for *)

LEMMA QuotientOfQuotient ==
  ASSUME NEW x \in Nat, NEW i \in 0 .. W, NEW j \in 0 .. W, i + j <= W
  PROVE  (x \div P[i]) \div P[j] = x \div P[i + j]
<1> DEFINE S == {n \in 0 .. W - i : (x \div P[i]) \div P[n] = x \div P[i + n]}
<1>1. i \in Nat /\ W \in Nat /\ W - i \in Nat
  BY ArenaFacts
<1>2. x \div P[i] \in Nat
  BY ArenaFacts
<1>3. 0 \in S
  <2>1. (x \div P[i]) \div P[0] = x \div P[i] /\ i + 0 = i
    BY <1>1, <1>2, SizeAssumption
  <2> QED BY <1>1, <2>1
<1>4. ASSUME NEW n \in 0 .. (W - i) - 1, n \in S PROVE n + 1 \in S
  <2>1. /\ i + n \in 0 .. W - 1 /\ n \in 0 .. W - 1 /\ i + n \in 0 .. W /\ n \in 0 .. W
        /\ i + (n + 1) = (i + n) + 1 /\ n + 1 \in 0 .. W - i
    BY <1>1
  <2>2. P[(i + n) + 1] = 2 * P[i + n] /\ P[n + 1] = 2 * P[n]
    BY <2>1, SizeAssumption
  <2>3. P[i + n] \in Nat \ {0} /\ P[n] \in Nat \ {0}
    BY <2>1, ArenaFacts
  <2>4. ((x \div P[i]) \div P[n]) \div 2 = (x \div P[i]) \div P[n + 1]
    BY <1>2, <2>2, <2>3, HalfOfQuotient
  <2>5. (x \div P[i + n]) \div 2 = x \div P[i + (n + 1)]
    BY <2>1, <2>2, <2>3, HalfOfQuotient
  <2>6. (x \div P[i]) \div P[n] = x \div P[i + n]
    BY <1>4
  <2> QED
    BY <2>1, <2>4, <2>5, <2>6
<1>5. \A n \in 0 .. W - i : n \in S
  <2> HIDE DEF S
  <2> QED BY <1>1, <1>3, <1>4, SetInduction
<1>6. j \in S
  BY <1>1, <1>5
<1> QED
  BY <1>6

\* Node n of length P[j] stands, in units of one page after the N - 1 nodes
\* above the leaves, for the pages of this interval.
Spans(n, j, x) == (n + 1) * P[j] <= x /\ x < (n + 2) * P[j]

\* Of two nodes with a page in common one is an ancestor of the other.
LEMMA NodesMeet ==
  ASSUME NEW a \in Node, NEW b \in Node, NEW i \in 0 .. L, NEW j \in 0 .. L,
         NEW x \in Nat, Spans(a, i, x), Spans(b, j, x)
  PROVE  /\ i = j => a = b
         /\ i < j => b \in Ancestors(a)
         /\ j < i => a \in Ancestors(b)
<1>1. ASSUME NEW n \in Node, NEW k \in 0 .. L, Spans(n, k, x)
      PROVE  n + 1 = x \div P[k]
  <2>1. P[k] \in Nat \ {0} /\ n + 1 \in Nat
    BY ArenaFacts, NodeFacts
  <2>2. (n + 1) * P[k] <= x /\ x < ((n + 1) + 1) * P[k]
    BY <1>1, <2>1, NodeFacts DEF Spans
  <2> QED
    BY <2>1, <2>2, QuotientRange
<1>2. ASSUME NEW n \in Node, NEW m \in Node, NEW k \in 0 .. L, NEW h \in 0 .. L,
             k < h, Spans(n, k, x), Spans(m, h, x)
      PROVE  m \in Ancestors(n)
  <2>1. h - k \in 1 .. L /\ h - k \in 0 .. W /\ k \in 0 .. W /\ k + (h - k) = h /\ h <= W
    BY <1>2, ArenaFacts
  <2>2. (x \div P[k]) \div P[h - k] = x \div P[h]
    BY <2>1, QuotientOfQuotient
  <2>3. (n + 1) \div P[h - k] = m + 1
    BY <1>1, <1>2, <2>2
  <2>4. m \in Nat
    BY NodeFacts
  <2>5. Up(h - k, n) = m /\ m # -1
    BY <2>3, <2>4 DEF Up
  <2> QED
    BY <2>1, <2>5 DEF Ancestors
<1>3. i = j => a = b
  <2>1. a \in Nat /\ b \in Nat
    BY NodeFacts
  <2> QED
    BY <1>1, <2>1
<1> QED
  BY <1>2, <1>3

\* The offset a search returns is where the node's pages begin.
LEMMA OffsetOfNode ==
  ASSUME NEW i \in Node, NEW l \in 0 .. L
  PROVE  IndexOffset(i, l) + N = (i + 1) * P[L - l]
<1>1. l \in 0 .. W /\ L - l \in 0 .. W /\ l + (L - l) = L /\ L <= W
  BY ArenaFacts
<1>2. P[l] * P[L - l] = P[L]
  BY <1>1, PowerProduct
<1>3. P[l] \in Nat /\ P[L - l] \in Nat /\ i + 1 \in Nat /\ P[L] \in Nat
  BY <1>1, ArenaFacts, NodeFacts
<1>4. ((i + 1) - P[l]) * P[L - l] = (i + 1) * P[L - l] - P[l] * P[L - l]
  BY <1>3
<1>5. (i + 1) * P[L - l] \in Nat
  BY <1>3
<1> QED
  BY <1>2, <1>3, <1>4, <1>5 DEF IndexOffset, N

\* A power that is at most the arena is one of a level.
LEMMA PowerBelowArena ==
  ASSUME NEW j \in 0 .. W, P[j] <= N
  PROVE  j \in 0 .. L
<1>1. SUFFICES ASSUME j > L PROVE FALSE
  BY ArenaFacts
<1>2. P[L] < P[j]
  BY <1>1, PowerGrows, ArenaFacts
<1> QED
  BY <1>2, ArenaFacts DEF N

-----------------------------------------------------------------------------
(* The length of a search *)

LEMMA LengthAtRoot == LengthAt(N, 0, 0)
<1>1. L \in 0 .. W - 1 /\ N = P[L] /\ 0 = L - L /\ P[L - L] = 1
  BY SizeAssumption DEF N
<1> QED
  BY <1>1 DEF LengthAt

LEMMA LengthToTheRight ==
  ASSUME NEW len, NEW lev, NEW i \in Node, NEW c \in Node, i <= c, LengthAt(len, lev, i)
  PROVE  LengthAt(len, lev, c)
<1>1. CASE len = 0
  BY <1>1 DEF LengthAt
<1>2. CASE len # 0
  <2>1. PICK j \in 0 .. W - 1 : len = P[j] /\ lev = L - j /\ (j <= L => P[L - j] <= i + 1)
    BY <1>2 DEF LengthAt
  <2>2. j <= L => P[L - j] \in Nat
    BY ArenaFacts
  <2>3. j <= L => P[L - j] <= c + 1
    BY <2>1, <2>2 DEF Node
  <2> QED
    BY <2>1, <2>3 DEF LengthAt
<1> QED
  BY <1>1, <1>2

LEMMA LengthDown ==
  ASSUME NEW len, NEW lev, NEW i \in Node, LengthAt(len, lev, i)
  PROVE  LengthAt(len \div 2, lev + 1, LeftChild(i))
<1>1. CASE len = 0
  BY <1>1 DEF LengthAt
<1>2. CASE len # 0
  <2>1. PICK j \in 0 .. W - 1 : len = P[j] /\ lev = L - j /\ (j <= L => P[L - j] <= i + 1)
    BY <1>2 DEF LengthAt
  <2>2. CASE j = 0
    BY <2>1, <2>2, SizeAssumption DEF LengthAt
  <2>3. CASE j # 0
    <3>1. j - 1 \in 0 .. W - 1 /\ (j - 1) + 1 = j /\ L \in Nat /\ lev + 1 = L - (j - 1)
      BY <2>1, <2>3, ArenaFacts
    <3>2. P[j] = 2 * P[j - 1] /\ P[j - 1] \in Nat
      BY <3>1, SizeAssumption
    <3>3. len \div 2 = P[j - 1]
      BY <2>1, <3>2
    <3>4. ASSUME j - 1 <= L PROVE P[L - (j - 1)] <= LeftChild(i) + 1
      <4>1. CASE j - 1 = L
        <5>1. P[L - (j - 1)] = 1
          BY <3>1, <4>1, SizeAssumption
        <5> QED
          BY <5>1, NodeFacts DEF LeftChild
      <4>2. CASE j <= L
        <5>1. L - j \in 0 .. W - 1 /\ (L - j) + 1 = L - (j - 1)
          BY <3>1, <4>2, ArenaFacts
        <5>2. P[L - (j - 1)] = 2 * P[L - j] /\ P[L - j] \in Nat
          BY <5>1, SizeAssumption
        <5> QED
          BY <2>1, <4>2, <5>2, NodeFacts DEF LeftChild
      <4> QED
        BY <3>1, <3>4, <4>1, <4>2
    <3> QED
      BY <3>1, <3>3, <3>4 DEF LengthAt
  <2> QED
    BY <2>2, <2>3
<1> QED
  BY <1>1, <1>2

LEMMA LengthUp ==
  ASSUME NEW len, NEW lev, NEW i \in Node, NEW c \in Node, LengthAt(len, lev, i),
         i # 0 => Parent(i) <= c
  PROVE  LengthAt(Dbl(len), IF Dbl(len) = 0 THEN lev ELSE lev - 1, c)
<1>1. CASE len = 0
  <2>1. Dbl(len) = 0
    BY <1>1, ArenaFacts DEF Dbl
  <2> QED
    BY <2>1 DEF LengthAt
<1>2. CASE len # 0
  <2>1. PICK j \in 0 .. W - 1 : len = P[j] /\ lev = L - j /\ (j <= L => P[L - j] <= i + 1)
    BY <1>2 DEF LengthAt
  <2>2. j + 1 \in 0 .. W /\ P[j + 1] = 2 * P[j] /\ P[j] \in Nat \ {0} /\ P[j + 1] \in Nat \ {0}
    <3>1. j \in 0 .. W - 1 /\ j \in 0 .. W /\ j + 1 \in 0 .. W
      BY ArenaFacts
    <3> QED
      BY <3>1, SizeAssumption
  <2>3. CASE j + 1 = W
    <3>1. Dbl(len) = 0
      BY <2>1, <2>2, <2>3 DEF Dbl, Word
    <3> QED
      BY <3>1 DEF LengthAt
  <2>4. CASE j + 1 # W
    <3>1. j + 1 \in 0 .. W - 1 /\ j + 1 < W /\ W \in 0 .. W
      BY <2>4, ArenaFacts
    <3>2. P[j + 1] < Word
      BY <2>2, <3>1, PowerGrows DEF Word
    <3>3. Dbl(len) = P[j + 1] /\ Dbl(len) # 0
      BY <2>1, <2>2, <3>2 DEF Dbl
    <3>4. ASSUME j + 1 <= L PROVE P[L - (j + 1)] <= c + 1
      <4>1. L - (j + 1) \in 0 .. W - 1 /\ (L - (j + 1)) + 1 = L - j /\ j <= L
        BY <3>4, ArenaFacts
      <4>2. P[L - j] = 2 * P[L - (j + 1)] /\ P[L - (j + 1)] \in Nat \ {0}
        BY <4>1, SizeAssumption
      <4>3. 2 * P[L - (j + 1)] <= i + 1
        BY <2>1, <4>1, <4>2
      <4>4. i # 0 /\ P[L - (j + 1)] <= (i + 1) \div 2
        BY <4>2, <4>3 DEF Node
      <4> QED
        BY <4>2, <4>4, NodeFacts DEF Node
    <3>5. lev - 1 = L - (j + 1)
      BY <2>1, ArenaFacts
    <3> QED
      BY <3>1, <3>3, <3>4, <3>5 DEF LengthAt
  <2> QED
    BY <2>3, <2>4
<1> QED
  BY <1>1, <1>2

-----------------------------------------------------------------------------
(* Subtrees *)

\* What holds of a node as soon as it holds of all that come after it in the
\* array, its halves among them, holds of every node.
LEMMA FromTheLeaves ==
  ASSUME NEW Q, \A i \in Node : (\A j \in Node : i < j => j \in Q) => i \in Q
  PROVE  \A i \in Node : i \in Q
<1> DEFINE M == 2 * N - 1
           S == {n \in 0 .. M : \A i \in Node : M - n <= i => i \in Q}
<1>1. M \in Nat /\ \A i \in Node : i \in Nat /\ i < M
  BY ArenaFacts DEF Node
<1>2. 0 \in S
  BY <1>1
<1>3. ASSUME NEW n \in 0 .. M - 1, n \in S PROVE n + 1 \in S
  <2>1. ASSUME NEW i \in Node, M - (n + 1) <= i PROVE i \in Q
    <3>1. \A j \in Node : i < j => j \in Q
      BY <1>1, <1>3, <2>1
    <3> QED
      BY <3>1
  <2> QED
    BY <1>1, <2>1
<1>4. \A n \in 0 .. M : n \in S
  <2> HIDE DEF S, M
  <2> QED
    BY <1>1, <1>2, <1>3, SetInduction
<1>5. M \in S
  BY <1>1, <1>4
<1> QED
  BY <1>1, <1>5

LEMMA ChildBelow ==
  ASSUME NEW i \in Node, NEW c \in Node, c # 0, Parent(c) = i
  PROVE  Below(c) \subseteq Below(i)
<1> SUFFICES ASSUME NEW j \in Below(c) PROVE j \in Below(i)
  OBVIOUS
<1>1. j \in Node /\ (j = c \/ c \in Ancestors(j))
  BY DEF Below
<1>2. i \in Ancestors(j)
  BY <1>1, ParentAncestors, AncestorParent
<1> QED
  BY <1>1, <1>2 DEF Below

\* The nodes below a node are itself and those below its halves.
LEMMA BelowHalves ==
  ASSUME NEW i \in Node, RightChild(i) \in Node
  PROVE  /\ LeftChild(i) \in Node /\ i < LeftChild(i) /\ i < RightChild(i)
         /\ Ancestors(LeftChild(i)) = Ancestors(i) \cup {i}
         /\ Ancestors(RightChild(i)) = Ancestors(i) \cup {i}
         /\ Below(i) = {i} \cup Below(LeftChild(i)) \cup Below(RightChild(i))
         /\ i \notin Leaf
<1>1. /\ LeftChild(i) \in Node /\ LeftChild(i) # 0 /\ Parent(LeftChild(i)) = i
      /\ RightChild(i) # 0 /\ Parent(RightChild(i)) = i /\ i \in Nat
  BY NodeFacts
<1>2. i < LeftChild(i) /\ i < RightChild(i) /\ i \notin Leaf
  BY <1>1, ArenaFacts DEF LeftChild, RightChild, Leaf, Node
<1>3. Below(LeftChild(i)) \subseteq Below(i) /\ Below(RightChild(i)) \subseteq Below(i) /\ i \in Below(i)
  BY <1>1, ChildBelow DEF Below
<1>4. Sibling(LeftChild(i)) = RightChild(i)
  BY <1>1 DEF Sibling, Odd, LeftChild, RightChild
<1>5. ASSUME NEW j \in Below(i), j # i
      PROVE  j \in Below(LeftChild(i)) \/ j \in Below(RightChild(i))
  <2>1. j \in Node /\ i \in Ancestors(j)
    BY <1>5 DEF Below
  <2>2. \E h \in {LeftChild(i), RightChild(i)} : h = j \/ h \in Ancestors(j)
    <3>1. \E h \in {LeftChild(i), Sibling(LeftChild(i))} : h = j \/ h \in Ancestors(j)
      BY <1>1, <2>1, AncestorChild
    <3> QED
      BY <1>4, <3>1
  <2> QED
    BY <2>1, <2>2 DEF Below
<1>6. Ancestors(LeftChild(i)) = Ancestors(i) \cup {i} /\ Ancestors(RightChild(i)) = Ancestors(i) \cup {i}
  BY <1>1, ParentAncestors
<1> QED
  BY <1>1, <1>2, <1>3, <1>5, <1>6

\* A node is not one of its own ancestors.
LEMMA NotOwnAncestor == ASSUME NEW i \in Node PROVE i \notin Ancestors(i)
<1> SUFFICES ASSUME NEW k \in 1 .. L, Up(k, i) = i PROVE FALSE
  BY DEF Ancestors
<1>1. k \in 0 .. W /\ 0 \in 0 .. W /\ 0 < k
  BY ArenaFacts
<1>2. P[0] = 1 /\ P[0] < P[k] /\ P[k] \in Nat /\ i \in Nat
  BY <1>1, PowerGrows, ArenaFacts, SizeAssumption, NodeFacts
<1>3. (i + 1) \div P[k] = i + 1
  BY <1>2 DEF Up
<1> QED
  BY <1>2, <1>3

\* The halves of a node are siblings, and the node is their parent.
LEMMA HalfFacts ==
  ASSUME NEW i \in Node, NEW c \in Node, c \in Halves(i)
  PROVE  /\ c # 0 /\ Parent(c) = i /\ c # i
         /\ RightChild(i) \in Node /\ Halves(i) = {c, Sibling(c)}
         /\ Sibling(c) \in Node /\ Sibling(c) # c /\ Sibling(c) > 0
<1>1. i \in Nat /\ c \in {2 * i + 1, 2 * i + 2} /\ c <= 2 * N - 2
  BY NodeFacts, ArenaFacts DEF Halves, LeftChild, RightChild, Node
<1>2. c # 0 /\ c # i /\ RightChild(i) \in Node
  BY <1>1, ArenaFacts DEF Node, RightChild
<1>3. Parent(c) = i
  BY <1>1, <1>2, NodeFacts DEF LeftChild, RightChild
<1>4. Halves(i) = {c, Sibling(c)} /\ Sibling(c) > 0
  BY <1>1 DEF Halves, LeftChild, RightChild, Sibling, Odd
<1> QED
  BY <1>2, <1>3, <1>4, NodeFacts

\* Of two nodes with a node below both one is an ancestor of the other.
LEMMA OneAbove ==
  ASSUME NEW i \in Node, NEW j \in Node, NEW x \in Node, x \in Below(i), x \in Below(j)
  PROVE  i = j \/ i \in Ancestors(j) \/ j \in Ancestors(i)
<1>1. ASSUME NEW n \in Node, x \in Below(n) PROVE \E k \in 0 .. L : n + 1 = (x + 1) \div P[k]
  <2>1. CASE n = x
    <3>1. n + 1 = (x + 1) \div P[0] /\ 0 \in 0 .. L
      BY <2>1, SizeAssumption, NodeFacts
    <3> QED
      BY <3>1
  <2>2. CASE n \in Ancestors(x)
    <3>1. PICK k \in 1 .. L : n = Up(k, x)
      BY <2>2 DEF Ancestors
    <3>2. k \in 0 .. L /\ k \in 0 .. W /\ x + 1 \in Nat /\ P[k] \in Nat \ {0}
      BY ArenaFacts, NodeFacts
    <3>3. n + 1 = (x + 1) \div P[k]
      BY <3>1, <3>2 DEF Up
    <3> QED
      BY <3>2, <3>3
  <2> QED
    BY <1>1, <2>1, <2>2 DEF Below
<1>2. ASSUME NEW m \in Node, NEW n \in Node, NEW k \in 0 .. L, NEW l \in 0 .. L, k < l,
             m + 1 = (x + 1) \div P[k], n + 1 = (x + 1) \div P[l]
      PROVE  n \in Ancestors(m)
  <2>1. k \in 0 .. W /\ l - k \in 0 .. W /\ k + (l - k) = l /\ k + (l - k) <= W /\ l - k \in 1 .. L
    BY <1>2, ArenaFacts
  <2>2. x + 1 \in Nat /\ n \in Nat /\ m \in Nat
    BY NodeFacts
  <2>3. ((x + 1) \div P[k]) \div P[l - k] = (x + 1) \div P[l]
    BY <2>1, <2>2, QuotientOfQuotient
  <2>4. n + 1 = (m + 1) \div P[l - k]
    BY <1>2, <2>3
  <2>5. n = Up(l - k, m) /\ n # -1
    BY <2>2, <2>4 DEF Up
  <2> QED
    BY <2>1, <2>5 DEF Ancestors
<1>3. PICK k \in 0 .. L : i + 1 = (x + 1) \div P[k]
  BY <1>1
<1>4. PICK l \in 0 .. L : j + 1 = (x + 1) \div P[l]
  BY <1>1
<1>5. CASE k = l
  BY <1>3, <1>4, <1>5, NodeFacts
<1>6. CASE k < l
  BY <1>2, <1>3, <1>4, <1>6
<1>7. CASE l < k
  BY <1>2, <1>3, <1>4, <1>7
<1> QED
  BY <1>5, <1>6, <1>7, ArenaFacts

\* Every node has a leaf below it.
LEMMA SomeLeaf == \A i \in Node : Below(i) \cap Leaf # {}
<1> DEFINE Q == {i \in Node : Below(i) \cap Leaf # {}}
<1>1. ASSUME NEW i \in Node, \A j \in Node : i < j => j \in Q PROVE i \in Q
  <2>1. CASE RightChild(i) \in Node
    BY <1>1, <2>1, BelowHalves
  <2>2. CASE RightChild(i) \notin Node
    <3>1. i \in Leaf
      BY <2>2, NodeFacts, ArenaFacts DEF Leaf, Node, RightChild
    <3> QED
      BY <3>1 DEF Below
  <2> QED
    BY <2>1, <2>2
<1> HIDE DEF Q
<1>2. \A i \in Node : i \in Q
  BY <1>1, FromTheLeaves
<1> QED
  BY <1>2 DEF Q

\* What holds of a node as soon as it holds of all before it in the array, its
\* parent among them, holds of every node.
LEMMA FromTheRoot ==
  ASSUME NEW Q, \A i \in Node : (\A j \in Node : j < i => j \in Q) => i \in Q
  PROVE  \A i \in Node : i \in Q
<1> DEFINE M == 2 * N - 1
           S == {n \in 0 .. M : \A i \in Node : i < n => i \in Q}
<1>1. M \in Nat /\ \A i \in Node : i \in Nat /\ i < M
  BY ArenaFacts DEF Node
<1>2. 0 \in S
  BY <1>1
<1>3. ASSUME NEW n \in 0 .. M - 1, n \in S PROVE n + 1 \in S
  <2>1. ASSUME NEW i \in Node, i < n + 1 PROVE i \in Q
    <3>1. \A j \in Node : j < i => j \in Q
      BY <1>1, <1>3, <2>1
    <3> QED
      BY <3>1
  <2> QED
    BY <1>1, <2>1
<1>4. \A n \in 0 .. M : n \in S
  <2> HIDE DEF S, M
  <2> QED
    BY <1>1, <1>2, <1>3, SetInduction
<1>5. M \in S
  BY <1>1, <1>4
<1> QED
  BY <1>1, <1>5

\* The root is above every other node.
LEMMA RootAbove == \A i \in Node : i # 0 => 0 \in Ancestors(i)
<1> DEFINE Q == {i \in Node : i # 0 => 0 \in Ancestors(i)}
<1>1. ASSUME NEW i \in Node, \A j \in Node : j < i => j \in Q PROVE i \in Q
  <2> SUFFICES ASSUME i # 0 PROVE 0 \in Ancestors(i)
    OBVIOUS
  <2>1. Parent(i) \in Node /\ Parent(i) < i
    BY NodeFacts
  <2>2. Parent(i) = 0 \/ 0 \in Ancestors(Parent(i))
    BY <1>1, <2>1
  <2> QED
    BY <2>2, ParentAncestors
<1> HIDE DEF Q
<1>2. \A i \in Node : i \in Q
  BY <1>1, FromTheRoot
<1> QED
  BY <1>2 DEF Q

\* Nothing lies below a leaf.
LEMMA LeafIsLast ==
  ASSUME NEW i \in Leaf
  PROVE  \A x \in Node : i \notin Ancestors(x)
<1> DEFINE Q == {x \in Node : i \notin Ancestors(x)}
<1>1. ASSUME NEW x \in Node, \A y \in Node : y < x => y \in Q PROVE x \in Q
  <2>1. CASE x = 0
    BY <2>1, RootAncestors
  <2>2. CASE x # 0
    <3>1. Parent(x) \in Node /\ Parent(x) < x /\ RightChild(Parent(x)) \in Node
      BY <2>2, NodeFacts
    <3>2. i \notin Ancestors(Parent(x))
      BY <1>1, <3>1
    <3>3. RightChild(i) \notin Node
      BY ArenaFacts DEF Leaf, RightChild, Node
    <3>4. Ancestors(x) = Ancestors(Parent(x)) \cup {Parent(x)}
      BY <2>2, ParentAncestors
    <3> QED
      BY <3>1, <3>2, <3>3, <3>4
  <2> QED
    BY <2>1, <2>2
<1> HIDE DEF Q
<1>2. \A x \in Node : x \in Q
  BY <1>1, FromTheRoot
<1> QED
  BY <1>2 DEF Q

\* What lies below a node lies below all that it lies below.
LEMMA BelowBelow ==
  ASSUME NEW i \in Node, NEW n \in Below(i)
  PROVE  Below(n) \subseteq Below(i)
<1> DEFINE Q == {j \in Node : \A a \in Ancestors(j) : Ancestors(a) \subseteq Ancestors(j)}
<1>1. ASSUME NEW j \in Node, \A h \in Node : h < j => h \in Q PROVE j \in Q
  <2>1. CASE j = 0
    BY <2>1, RootAncestors
  <2>2. CASE j # 0
    <3>1. Ancestors(j) = Ancestors(Parent(j)) \cup {Parent(j)}
      BY <2>2, ParentAncestors
    <3>2. Parent(j) \in Node /\ Parent(j) < j
      BY <2>2, NodeFacts
    <3>3. \A a \in Ancestors(Parent(j)) : Ancestors(a) \subseteq Ancestors(Parent(j))
      BY <1>1, <3>2
    <3> QED
      BY <3>1, <3>3
  <2> QED
    BY <2>1, <2>2
<1> HIDE DEF Q
<1>2. \A j \in Node : j \in Q
  BY <1>1, FromTheRoot
<1>3. ASSUME NEW j \in Node, NEW a \in Ancestors(j) PROVE Ancestors(a) \subseteq Ancestors(j)
  BY <1>2 DEF Q
<1> QED
  BY <1>3 DEF Below

-----------------------------------------------------------------------------
(* The pages of a node *)

\* At level l a node stands for an interval within the arena.
LEMMA NodeWithin ==
  ASSUME NEW l \in 0 .. L, NEW i \in Node, P[l] <= i + 1, i + 1 < P[l + 1]
  PROVE  N <= (i + 1) * P[L - l] /\ (i + 2) * P[L - l] <= 2 * N /\ (i + 1) * P[L - l] < 2 * N
<1>1. l \in 0 .. W /\ l \in 0 .. W - 1 /\ L - l \in 0 .. W /\ l + (L - l) = L /\ L <= W
  BY ArenaFacts
<1>2. PICK a, b : a = P[l] /\ b = P[L - l]
  OBVIOUS
<1>3. a \in Nat \ {0} /\ b \in Nat \ {0} /\ a * b = N /\ P[l + 1] = 2 * a /\ i \in Nat
  BY <1>1, <1>2, PowerProduct, ArenaFacts, SizeAssumption, NodeFacts DEF N
<1>4. a <= i + 1 /\ i + 2 <= 2 * a
  BY <1>2, <1>3
<1>5. a * b <= (i + 1) * b
  BY <1>3, <1>4
<1>6. (i + 2) * b <= (2 * a) * b /\ (2 * a) * b = 2 * N
  BY <1>3, <1>4
<1>7. (i + 2) * b = (i + 1) * b + b /\ (i + 1) * b \in Nat
  BY <1>3
<1> QED
  BY <1>2, <1>3, <1>5, <1>6, <1>7, ArenaFacts

\* Only one length puts a node within the arena.
LEMMA OneLength ==
  ASSUME NEW n \in Nat, NEW j \in 0 .. L, NEW k \in 0 .. L,
         N <= n * P[j], n * P[j] < 2 * N, N <= n * P[k], n * P[k] < 2 * N
  PROVE  j = k
<1>1. ASSUME NEW g \in 0 .. L, NEW h \in 0 .. L, g < h, N <= n * P[g] PROVE 2 * N <= n * P[h]
  <2>1. g \in 0 .. W - 1 /\ g \in 0 .. W /\ g + 1 \in 0 .. W /\ h \in 0 .. W /\ (g + 1 = h \/ g + 1 < h)
    BY <1>1, ArenaFacts
  <2>2. P[g + 1] = 2 * P[g] /\ P[g + 1] <= P[h]
    <3>1. P[g + 1] = 2 * P[g] /\ P[g + 1] \in Nat /\ P[h] \in Nat
      BY <2>1, SizeAssumption
    <3>2. g + 1 < h => P[g + 1] < P[h]
      BY <2>1, PowerGrows
    <3> QED
      BY <2>1, <3>1, <3>2
  <2>3. PICK a, b : a = P[g] /\ b = P[h]
    OBVIOUS
  <2>4. a \in Nat /\ b \in Nat /\ 2 * a <= b /\ N \in Nat /\ N <= n * a
    BY <1>1, <2>1, <2>2, <2>3, ArenaFacts
  <2>5. n * (2 * a) <= n * b /\ n * (2 * a) = 2 * (n * a) /\ n * a \in Nat /\ n * b \in Nat
    BY <2>4
  <2> QED
    BY <2>3, <2>4, <2>5
<1>2. n * P[j] \in Nat /\ n * P[k] \in Nat /\ N \in Nat
  <2>1. P[j] \in Nat /\ P[k] \in Nat
    BY ArenaFacts
  <2> QED
    BY <2>1, ArenaFacts
<1>3. ~ (j < k) /\ ~ (k < j)
  BY <1>1, <1>2
<1> QED
  BY <1>3, ArenaFacts

\* The leaves below a node within the arena are those of its pages.
LEMMA LeafSpans ==
  ASSUME NEW i \in Node, NEW j \in 0 .. L, N <= (i + 1) * P[j], (i + 1) * P[j] < 2 * N,
         NEW x \in Leaf
  PROVE  x \in Below(i) <=> Spans(i, j, x + 1)
<1>1. /\ i \in Nat /\ x \in Nat /\ x \in Node /\ N <= x + 1 /\ x + 1 < 2 * N
      /\ N \in Nat \ {0} /\ \A k \in 0 .. L : k \in 0 .. W /\ P[k] \in Nat \ {0}
  BY NodeFacts, ArenaFacts DEF Leaf, Node
<1>2. ASSUME Spans(i, j, x + 1) PROVE x \in Below(i)
  <2>1. i + 1 = (x + 1) \div P[j]
    <3>1. PICK m, a, y : m = i + 1 /\ a = P[j] /\ y = x + 1
      OBVIOUS
    <3>2. m \in Nat /\ a \in Nat \ {0} /\ y \in Nat /\ m + 1 = i + 2
      BY <1>1, <3>1
    <3>3. m * a <= y /\ y < (m + 1) * a
      BY <1>2, <3>1, <3>2 DEF Spans
    <3>4. m = y \div a
      BY <3>2, <3>3, QuotientRange
    <3> QED
      BY <3>1, <3>4
  <2>2. CASE j = 0
    <3>1. i = x
      BY <1>1, <2>1, <2>2, SizeAssumption
    <3> QED
      BY <1>1, <3>1 DEF Below
  <2>3. CASE j # 0
    <3>1. j \in 1 .. L /\ i = Up(j, x) /\ i # -1
      BY <1>1, <2>1, <2>3 DEF Up
    <3> QED
      BY <1>1, <3>1 DEF Below, Ancestors
  <2> QED
    BY <2>2, <2>3
<1>3. ASSUME NEW k \in 0 .. L, i + 1 = (x + 1) \div P[k] PROVE Spans(i, k, x + 1) /\ k = j
  <2>1. PICK a, b : a = P[k] /\ b = P[L - k]
    OBVIOUS
  <2>2. a \in Nat \ {0} /\ b \in Nat \ {0} /\ b * a = N
    <3>1. k \in 0 .. W /\ L - k \in 0 .. W /\ (L - k) + k = L /\ L <= W
      BY ArenaFacts
    <3> QED
      BY <2>1, <3>1, PowerProduct, ArenaFacts DEF N
  <2>3. (i + 1) * a <= x + 1 /\ x + 1 < (i + 2) * a
    <3>1. i + 1 = (x + 1) \div a
      BY <1>3, <2>1
    <3>2. x + 1 = a * ((x + 1) \div a) + ((x + 1) % a) /\ (x + 1) % a \in 0 .. a - 1
      BY <1>1, <2>2
    <3>3. x + 1 = a * (i + 1) + ((x + 1) % a)
      BY <3>1, <3>2
    <3>4. a * (i + 1) = (i + 1) * a /\ (i + 2) * a = (i + 1) * a + a /\ (i + 1) * a \in Nat
      BY <1>1, <2>2
    <3> QED
      BY <1>1, <2>2, <3>2, <3>3, <3>4
  <2>4. N <= (i + 1) * a
    <3>1. CASE b <= i + 1
      BY <1>1, <2>2, <3>1
    <3>2. CASE i + 2 <= b
      <4>1. (i + 2) * a <= b * a
        BY <1>1, <2>2, <3>2
      <4> QED
        BY <1>1, <2>2, <2>3, <4>1
    <3> QED
      BY <1>1, <2>2, <3>1, <3>2
  <2>5. (i + 1) * a < 2 * N
    <3>1. (i + 1) * a \in Nat
      BY <1>1, <2>2
    <3> QED
      BY <1>1, <2>3, <3>1
  <2>6. k = j
    <3>1. i + 1 \in Nat
      BY <1>1
    <3> QED
      BY <2>1, <2>4, <2>5, <3>1, OneLength
  <2> QED
    BY <2>1, <2>3, <2>6 DEF Spans
<1>4. ASSUME x \in Below(i) PROVE Spans(i, j, x + 1)
  <2>1. CASE i = x
    <3>1. i + 1 = (x + 1) \div P[0] /\ 0 \in 0 .. L
      BY <1>1, <2>1, SizeAssumption
    <3> QED
      BY <1>3, <3>1
  <2>2. CASE i \in Ancestors(x)
    <3>1. PICK k \in 1 .. L : i = Up(k, x)
      BY <2>2 DEF Ancestors
    <3>2. k \in 0 .. L /\ i + 1 = (x + 1) \div P[k]
      <4>1. k \in 0 .. L
        BY ArenaFacts
      <4>2. (x + 1) \div P[k] \in Int
        BY <1>1, <4>1
      <4> QED
        BY <3>1, <4>1, <4>2 DEF Up
    <3> QED
      BY <1>3, <3>2
  <2> QED
    BY <1>4, <2>1, <2>2 DEF Below
<1> QED
  BY <1>2, <1>4

\* Of the multiples of s only one lies within s.
LEMMA OneMultiple ==
  ASSUME NEW s \in Nat \ {0}, NEW o \in Nat, o % s = 0, NEW r \in Nat, NEW m \in Nat,
         m * s <= o + r * s, o + r * s < (m + 1) * s
  PROVE  o + r * s = m * s
<1>1. PICK q \in Nat : o = q * s
  <2>1. o = s * (o \div s) + (o % s) /\ o \div s \in Nat
    OBVIOUS
  <2>2. o = (o \div s) * s
    BY <2>1
  <2> QED
    BY <2>1, <2>2
<1>2. o + r * s = (q + r) * s
  BY <1>1
<1>3. ~ (q + r < m)
  <2>1. SUFFICES ASSUME q + r + 1 <= m PROVE FALSE
    OBVIOUS
  <2>2. (q + r + 1) * s <= m * s /\ (q + r + 1) * s = (q + r) * s + s /\ (q + r) * s \in Nat
    BY <2>1
  <2> QED
    BY <1>2, <2>2
<1>4. ~ (m < q + r)
  <2>1. SUFFICES ASSUME m + 1 <= q + r PROVE FALSE
    OBVIOUS
  <2>2. (m + 1) * s <= (q + r) * s /\ (q + r) * s \in Nat /\ (m + 1) * s \in Nat
    BY <2>1
  <2> QED
    BY <1>2, <2>2
<1> QED
  BY <1>2, <1>3, <1>4
=============================================================================
