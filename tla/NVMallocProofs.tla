--------------------------- MODULE NVMallocProofs ---------------------------
(***************************************************************************)
(* Proofs about NVMalloc, for every line size, number of free lists, page  *)
(* and request, and however far the mapping grows.                         *)
(***************************************************************************)
EXTENDS NVMallocProps, NVSizes, NVBitmap, Induction, SequenceTheorems

-----------------------------------------------------------------------------
(* Numbers *)

\* A set of numbers that is not empty and has a bound has a greatest one.
LEMMA GreatestNat ==
  ASSUME NEW N \in Nat, NEW T \in SUBSET (0 .. N), T # {}
  PROVE  \E k \in T : \A m \in T : m <= k
<1> DEFINE U == {N - k : k \in T}
<1>1. U \in SUBSET Nat /\ U # {}
  <2>1. \A k \in T : k \in 0 .. N /\ N - k \in Nat
    OBVIOUS
  <2> QED
    BY <2>1
<1>2. PICK u \in U : \A v \in U : u <= v
  <2> HIDE DEF U
  <2> QED
    BY <1>1, LeastNat
<1>3. PICK k \in T : u = N - k
  OBVIOUS
<1>4. ASSUME NEW m \in T PROVE m <= k
  <2>1. u <= N - m
    BY <1>2
  <2> QED
    BY <2>1, <1>3
<1> QED
  BY <1>4

LEMMA LeastIs ==
  ASSUME NEW T \in SUBSET Nat, T # {}
  PROVE  Min(T) \in T /\ \A m \in T : Min(T) <= m
<1>1. \E k \in T : \A m \in T : k <= m
  BY LeastNat
<1> QED
  BY <1>1 DEF Min

LEMMA GreatestIs ==
  ASSUME NEW N \in Nat, NEW T \in SUBSET (0 .. N), T # {}
  PROVE  Max(T) \in T /\ \A m \in T : m <= Max(T)
<1>1. \E k \in T : \A m \in T : m <= k
  BY GreatestNat
<1>2. \E k \in T : \A m \in T : k >= m
  BY <1>1
<1> QED
  BY <1>2 DEF Max

LEMMA Quotient ==
  ASSUME NEW a \in Nat, NEW b \in Nat \ {0}
  PROVE  (b * a) \div b = a /\ b * a \in Nat
OBVIOUS

LEMMA QuotientPositive ==
  ASSUME NEW a \in Nat, NEW b \in Nat \ {0}, a >= b
  PROVE  a \div b \in Nat \ {0}
OBVIOUS

\* A request takes a line at least.
LEMMA LinesPositive ==
  ASSUME NEW s \in Requests
  PROVE  LinesOf(s) \in Nat \ {0}
<1> USE NVAssumption
<1>1. s + HEADER + BASE - 1 \in Nat /\ s + HEADER + BASE - 1 >= BASE /\ BASE \in Nat \ {0}
  OBVIOUS
<1> QED
  BY <1>1, QuotientPositive DEF LinesOf

\* What is written into a header is read back.
LEMMA HeaderRead ==
  ASSUME NEW n \in Nat \ {0}
  PROVE  /\ AllocatedHeader(n) \in Int /\ WaitingHeader(n) \in Int /\ FreeHeader(n) \in Int
         /\ AllocatedHeader(n) \div BASE = n
         /\ WaitingLines(WaitingHeader(n)) = n
<1> BASE \in Nat \ {0}
  BY NVAssumption
<1>1. (BASE * n) \div BASE = n /\ BASE * n \in Nat
  BY Quotient
<1>2. WaitingHeader(n) < 0 /\ - WaitingHeader(n) - 1 = BASE * n
  BY <1>1 DEF WaitingHeader
<1> QED
  BY <1>1, <1>2 DEF AllocatedHeader, WaitingHeader, FreeHeader, WaitingLines

\* Runs of lines that do not meet lie apart, and a run is cut in two anywhere.
LEMMA RunsApart ==
  ASSUME NEW a \in Nat, NEW m \in Nat \ {0}, NEW b \in Nat, NEW n \in Nat \ {0},
         Lines(a, m) \cap Lines(b, n) = {}
  PROVE  a + m <= b \/ b + n <= a
<1>1. a \in Lines(a, m) /\ b \in Lines(b, n)
  BY DEF Lines
<1>2. a \notin Lines(b, n) /\ b \notin Lines(a, m)
  BY <1>1
<1> QED
  BY <1>2 DEF Lines

LEMMA RunCut ==
  ASSUME NEW a \in Nat, NEW m \in Nat, NEW n \in Nat
  PROVE  Lines(a, m + n) = Lines(a, m) \cup Lines(a + m, n)
BY DEF Lines

LEMMA LineIsNat ==
  /\ Line \subseteq Nat /\ MaxLines \in Nat /\ NR_SIZES \in Nat /\ NIL \notin Line
  /\ \A l \in Nat : l < MaxLines => l \in Line
BY NVAssumption DEF Line, NIL

LEMMA ListOfSize ==
  ASSUME NEW n \in Nat \ {0}
  PROVE  BestFit(n) \in Index
BY NVAssumption DEF BestFit, Index

-----------------------------------------------------------------------------
(* Free lines *)

Taken(q) == held \cup {q[i] : i \in 1 .. Len(q)}

\* What is free from a line on, up to the free zone.
LEMMA ForwardFree ==
  ASSUME TypeOK, NEW t \in SUBSET Line, NEW l \in Nat, l < free_zone
  PROVE  /\ IsFreeForward(t, l) \in Nat
         /\ l + IsFreeForward(t, l) <= free_zone
         /\ Lines(l, IsFreeForward(t, l)) \cap t = {}
         /\ l + IsFreeForward(t, l) = free_zone \/ l + IsFreeForward(t, l) \in t
<1> DEFINE T == {free_zone} \cup {k \in t : k >= l}
           m == Min(T)
<1>1. free_zone \in Nat /\ t \subseteq Nat /\ MaxLines \in Nat
  BY NVAssumption DEF TypeOK, Line
<1>2. T \in SUBSET Nat /\ T # {} /\ free_zone \in T /\ (\A k \in T : k >= l)
  <2>1. free_zone >= l
    BY <1>1
  <2>2. \A k \in t : k \in Nat
    BY <1>1
  <2> QED
    BY <1>1, <2>1, <2>2
<1>3. m \in T /\ \A k \in T : m <= k
  <2> HIDE DEF T
  <2> QED
    BY <1>2, LeastIs
<1>4. IsFreeForward(t, l) = m - l
  BY DEF IsFreeForward
<1>5. m = free_zone \/ m \in t
  BY <1>3
<1>6. \A k \in t : k >= l => k \in T
  OBVIOUS
<1> HIDE DEF T, m
<1>7. m \in Nat /\ m >= l /\ m <= free_zone
  BY <1>1, <1>2, <1>3
<1>8. Lines(l, m - l) \cap t = {}
  BY <1>1, <1>3, <1>6, <1>7 DEF Lines
<1> QED
  BY <1>1, <1>4, <1>5, <1>7, <1>8

\* What is free in front of a line.
LEMMA BackwardFree ==
  ASSUME TypeOK, NEW t \in SUBSET Line, NEW l \in Nat, l <= free_zone
  PROVE  /\ IsFreeBackward(t, l) \in 0 .. l
         /\ Lines(l - IsFreeBackward(t, l), IsFreeBackward(t, l)) \cap t = {}
         /\ l - IsFreeBackward(t, l) = 0 \/ l - IsFreeBackward(t, l) - 1 \in t
<1> DEFINE T == {0} \cup {k + 1 : k \in {i \in t : i < l}}
           m == Max(T)
<1>1. free_zone \in Nat /\ t \subseteq Nat /\ MaxLines \in Nat
  BY NVAssumption DEF TypeOK, Line
<1>2. T \in SUBSET (0 .. l) /\ T # {}
  BY <1>1
<1>3. m \in T /\ \A k \in T : k <= m
  <2> HIDE DEF T
  <2> QED
    BY <1>2, GreatestIs
<1>4. IsFreeBackward(t, l) = l - m
  BY <1>1 DEF IsFreeBackward
<1>5. m = 0 \/ m - 1 \in t
  BY <1>1, <1>3
<1>6. \A k \in t : k < l => k + 1 \in T
  OBVIOUS
<1> HIDE DEF T, m
<1>7. m \in 0 .. l
  BY <1>2, <1>3
<1>8. Lines(l - (l - m), l - m) \cap t = {}
  BY <1>1, <1>3, <1>6, <1>7 DEF Lines
<1> QED
  BY <1>1, <1>4, <1>5, <1>7, <1>8

\* A block lies in front of the free zone, and begins where no other begins.
LEMMA BlockPlaces ==
  ASSUME NEW q, NVInv(q), NEW b \in Taken(q)
  PROVE  /\ b \in Blocks /\ b.at \in Line /\ b.lines \in Nat \ {0}
         /\ b.at \in taken /\ b.at + b.lines <= free_zone
         /\ Lines(b.at, b.lines) \subseteq taken
         /\ \A c \in Taken(q) : c.at = b.at => c = b
         /\ \A c \in Taken(q) : b # c => Lines(b.at, b.lines) \cap Lines(c.at, c.lines) = {}
<1> USE DEF NVInv
<1>1. Taken(q) \subseteq Blocks
  BY DEF Taken, TypeOK, IsQueue
<1>2. \A c \in Blocks : c.at \in Nat /\ c.at \in Line /\ c.lines \in Nat \ {0}
  BY NVAssumption DEF Blocks, Line
<1>3. Lines(b.at, b.lines) \subseteq taken
  BY DEF BitmapInv, Taken
<1>4. b.at \in Lines(b.at, b.lines) /\ b.at + b.lines - 1 \in Lines(b.at, b.lines)
  BY <1>1, <1>2 DEF Lines
<1>5. b.at + b.lines <= free_zone
  <2>1. b.at + b.lines - 1 < free_zone
    BY <1>3, <1>4 DEF BitmapInv
  <2> QED
    BY <2>1, <1>1, <1>2 DEF TypeOK
<1>6. ASSUME NEW c \in Taken(q), b # c
      PROVE  /\ c.at # b.at
             /\ Lines(b.at, b.lines) \cap Lines(c.at, c.lines) = {}
  <2>1. b.at + b.lines <= c.at \/ c.at + c.lines <= b.at
    BY <1>6 DEF BitmapInv, Taken, Heap!Apart
  <2>2. b.at \in Nat /\ c.at \in Nat /\ b.lines \in Nat \ {0} /\ c.lines \in Nat \ {0}
    BY <1>1, <1>2
  <2> QED
    BY <2>1, <2>2 DEF Lines
<1> QED
  BY <1>1, <1>2, <1>3, <1>4, <1>5, <1>6

\* The region around a hint is free, and lies in front of the free zone.
LEMMA RegionFree ==
  ASSUME NEW q, NVInv(q), pc = "search", index <= NR_SIZES, free_lists[index] # <<>>
  PROVE  /\ Region.at \in Nat /\ Region.lines \in Nat
         /\ Region.lines > 0 =>
              Region.at + Region.lines <= free_zone /\ Lines(Region.at, Region.lines) \cap taken = {}
<1> USE DEF NVInv
<1>1. PICK l : l = Head(free_lists[index])
  OBVIOUS
<1>2. PICK back : back = IsFreeBackward(taken, l)
  OBVIOUS
<1>3. PICK n : n = IsFreeForward(taken, l)
  OBVIOUS
<1>4. Region = Block(l - back, back + n)
  BY <1>1, <1>2, <1>3 DEF Region
<1>5. Region.at = l - back /\ Region.lines = back + n
  BY <1>4 DEF Block
<1>6. index \in Index
  BY NVAssumption DEF TypeOK, Index
<1>7. l \in Line /\ l \in Nat
  <2>1. free_lists[index] \in Seq(Line)
    BY <1>6 DEF TypeOK
  <2>2. l \in Line
    BY <2>1, <1>1, HeadTailProperties
  <2> QED
    BY <2>2, LineIsNat
<1>8. taken \in SUBSET Line /\ free_zone \in Nat
  BY NVAssumption DEF TypeOK
<1>9. l < free_zone => n \in Nat /\ l + n <= free_zone /\ Lines(l, n) \cap taken = {}
  BY <1>3, <1>7, <1>8, ForwardFree
<1>10. l <= free_zone => back \in 0 .. l /\ Lines(l - back, back) \cap taken = {}
  BY <1>2, <1>7, <1>8, BackwardFree
<1>11. ~ (l < free_zone) => n = 0
  BY <1>3 DEF IsFreeForward
<1>12. ~ (l <= free_zone) => back = 0
  BY <1>2, <1>7, <1>8 DEF IsFreeBackward
<1>13. CASE l < free_zone
  <2>1. Lines(l - back, back + n) = Lines(l - back, back) \cup Lines(l, n)
    <3>1. PICK a : a = l - back
      OBVIOUS
    <3>2. a \in Nat /\ back \in Nat /\ n \in Nat /\ a + back = l
      BY <3>1, <1>7, <1>8, <1>9, <1>10, <1>13
    <3>3. PICK k : k = back + n
      OBVIOUS
    <3>4. Lines(a, k) = Lines(a, back) \cup Lines(l, n)
      BY <3>2, <3>3 DEF Lines
    <3> QED
      BY <3>1, <3>3, <3>4
  <2> QED
    BY <2>1, <1>5, <1>7, <1>8, <1>9, <1>10, <1>13
<1>14. CASE l = free_zone
  BY <1>5, <1>7, <1>8, <1>10, <1>11, <1>14
<1>15. CASE l > free_zone
  BY <1>5, <1>7, <1>8, <1>11, <1>12, <1>15
<1> QED
  BY <1>7, <1>8, <1>13, <1>14, <1>15

\* A step that leaves bitmap, headers of blocks and queue alone.
LEMMA SearchGoesOn ==
  ASSUME NEW q, NVInv(q), UNCHANGED <<taken, hdr, queue, zone, held>>,
         TypeOK', SearchInv'
  PROVE  NVInv(q)'
<1>1. IsQueue(q)' /\ BitmapInv(q)' /\ HeldInv'
  BY DEF NVInv, IsQueue, BitmapInv, HeldInv, queue, zone
<1> QED
  BY <1>1 DEF NVInv

-----------------------------------------------------------------------------
(* nvmalloc *)

LEMMA MallocStep ==
  ASSUME NEW q, NVInv(q), NEW s \in Requests, Malloc(s)
  PROVE  NVInv(q)'
<1> USE DEF Malloc, queue, zone
<1>1. LinesOf(s) \in Nat \ {0}
  BY LinesPositive
<1>2. BestFit(LinesOf(s)) \in 0 .. NR_SIZES + 1
  BY <1>1, ListOfSize, NVAssumption DEF Index
<1>3. TypeOK'
  BY <1>1, <1>2 DEF NVInv, TypeOK
<1>4. SearchInv'
  <2>1. need' = LinesOf(s) /\ index' = BestFit(LinesOf(s))
    OBVIOUS
  <2>2. BestFit(need') = BestFit(LinesOf(s))
    BY <2>1
  <2>3. \A i \in 0 .. index' - 1 : ~ (BestFit(need') <= i)
    BY <2>1, <1>2
  <2> QED
    BY <2>1, <2>2, <2>3, <1>2 DEF SearchInv
<1> QED
  BY <1>3, <1>4, SearchGoesOn

LEMMA NextListStep ==
  ASSUME NEW q, NVInv(q), NextList
  PROVE  NVInv(q)'
<1> USE DEF NextList, queue, zone, NVInv
<1>1. index \in 0 .. NR_SIZES /\ index' = index + 1 /\ NR_SIZES \in Nat
  BY NVAssumption DEF TypeOK
<1>2. TypeOK'
  BY <1>1 DEF TypeOK
<1>3. SearchInv'
  <2>1. need \in {LinesOf(s) : s \in Requests} /\ BestFit(need) <= index
        /\ \A i \in 0 .. index - 1 : BestFit(need) <= i => free_lists[i] = <<>>
    BY DEF SearchInv
  <2>2. BestFit(need) \in Index
    BY <2>1, LinesPositive, ListOfSize
  <2>3. \A i \in 0 .. index' - 1 : i = index \/ i \in 0 .. index - 1
    BY <1>1
  <2>4. BestFit(need') <= index'
    BY <1>1, <2>1, <2>2, NVAssumption DEF Index
  <2> QED
    BY <1>1, <2>1, <2>3, <2>4 DEF SearchInv
<1> QED
  BY <1>2, <1>3, SearchGoesOn

\* A list without its first hint, and with one more at its end.
LEMMA HintGone ==
  ASSUME TypeOK, index \in Index, free_lists[index] # <<>>
  PROVE  /\ Popped \in [Index -> Seq(Line)]
         /\ \A i \in Index \ {index} : Popped[i] = free_lists[i]
         /\ Popped[index] = Tail(free_lists[index])
<1>1. free_lists \in [Index -> Seq(Line)]
  BY DEF TypeOK
<1>2. Tail(free_lists[index]) \in Seq(Line)
  BY <1>1, HeadTailProperties
<1> QED
  BY <1>1, <1>2 DEF Popped

LEMMA HintAdded ==
  ASSUME NEW fl \in [Index -> Seq(Line)], NEW n \in Nat \ {0}, NEW l \in Line
  PROVE  /\ Hinted(fl, n, l) \in [Index -> Seq(Line)]
         /\ \A i \in Index \ {BestFit(n)} : Hinted(fl, n, l)[i] = fl[i]
         /\ Hinted(fl, n, l)[BestFit(n)] = Append(fl[BestFit(n)], l)
<1>1. BestFit(n) \in Index
  BY ListOfSize
<1>2. Append(fl[BestFit(n)], l) \in Seq(Line)
  BY <1>1, AppendProperties
<1> QED
  BY <1>1, <1>2 DEF Hinted

LEMMA DropHintStep ==
  ASSUME NEW q, NVInv(q), DropHint
  PROVE  NVInv(q)'
<1> USE DEF DropHint, queue, zone, NVInv
<1>1. index \in Index
  BY NVAssumption DEF TypeOK, Index
<1>2. /\ free_lists' \in [Index -> Seq(Line)]
      /\ \A i \in Index \ {index} : free_lists'[i] = free_lists[i]
  BY <1>1, HintGone
<1>3. TypeOK'
  BY <1>2 DEF TypeOK
<1>4. SearchInv'
  <2>1. \A i \in 0 .. index - 1 : i \in Index \ {index}
    BY <1>1, LineIsNat DEF Index
  <2> QED
    BY <1>2, <2>1 DEF SearchInv
<1> QED
  BY <1>3, <1>4, SearchGoesOn

LEMMA NoMemoryStep ==
  ASSUME NEW q, NVInv(q), NoMemory
  PROVE  NVInv(q)'
<1> USE DEF NoMemory, queue, zone, NVInv
<1>1. TypeOK'
  BY NVAssumption DEF TypeOK
<1>2. SearchInv'
  BY DEF SearchInv
<1> QED
  BY <1>1, <1>2, SearchGoesOn

LEMMA NothingDueStep ==
  ASSUME NEW q, NVInv(q), NothingDue
  PROVE  NVInv(q)'
<1> USE DEF NothingDue, queue, zone, NVInv
<1>1. TypeOK'
  BY NVAssumption DEF TypeOK
<1>2. SearchInv'
  BY DEF SearchInv
<1> QED
  BY <1>1, <1>2, SearchGoesOn

\* A client has one block more, apart from all there were.
Added(q) ==
  \E b \in [at : Line, lines : {LinesOf(s) : s \in Requests}] :
    held' = held \cup {b} /\ \A c \in Taken(q) : Heap!Apart(b, c)

\* The lines handed out were free: their block joins the others.
LEMMA HandOutStep ==
  ASSUME NEW q, NVInv(q), NEW l \in Nat, NEW h \in [Line -> Int], HandOut(l, h), UNCHANGED queue,
         pc = "search", Lines(l, need) \cap taken = {}, l + need <= free_zone',
         \A b \in Taken(q) : h[b.at] = hdr[b.at],
         free_zone' >= free_zone, free_zone' \in 0 .. end_address', end_address' \in 0 .. MaxLines,
         free_lists' \in [Index -> Seq(Line)]
  PROVE  NVInv(q)' /\ Added(q)
<1> USE DEF NVInv
<1> DEFINE new == Block(l, need)
<1>1. need \in Nat \ {0} /\ MaxLines \in Nat /\ free_zone \in Nat
  BY LinesPositive, NVAssumption DEF SearchInv, TypeOK
<1>2. new.at = l /\ new.lines = need /\ new \in Blocks /\ l \in Line
  BY <1>1 DEF Block, Blocks, Line
<1>3. Lines(l, need) \subseteq Line /\ l \in Lines(l, need)
  BY <1>1 DEF Lines, Line
<1>4. held' = held \cup {new} /\ taken' = taken \cup Lines(l, need)
  BY DEF HandOut, MakeOne
<1>5. \A b \in Taken(q) : b.at \notin Lines(l, need) /\ b # new /\ b.at \in Line
  BY BlockPlaces, <1>2, <1>3
<1>6. /\ hdr' \in [Line -> Int] /\ hdr'[l] = AllocatedHeader(need)
      /\ \A b \in Taken(q) : hdr'[b.at] = hdr[b.at]
  <2>1. AllocatedHeader(need) \in Int /\ Junk \in Int
    BY <1>1, HeaderRead DEF Junk
  <2>2. hdr' = [i \in Line |-> IF i = l THEN AllocatedHeader(need)
                               ELSE IF i \in Lines(l, need) THEN Junk ELSE h[i]]
    BY DEF HandOut
  <2> QED
    BY <1>2, <1>3, <1>5, <2>1, <2>2
<1>7. TypeOK'
  <2>1. taken' \subseteq Line /\ held' \subseteq Blocks
    BY <1>2, <1>3, <1>4 DEF TypeOK
  <2>2. next' \in [Line -> Line \cup {NIL}] /\ {head', tail'} \subseteq Line \cup {NIL} /\ (head' = NIL <=> tail' = NIL)
    BY DEF TypeOK, queue
  <2>3. pc' \in {"idle", "search", "time"} /\ need' \in Nat /\ index' \in 0 .. NR_SIZES + 1
    BY NVAssumption DEF HandOut
  <2> QED
    BY <2>1, <2>2, <2>3, <1>6 DEF TypeOK
<1>8. IsQueue(q)'
  <2>1. \A i \in 1 .. Len(q) : q[i] \in Taken(q)
    BY DEF Taken
  <2> QED
    BY <1>6, <2>1 DEF IsQueue, queue
<1>9. BitmapInv(q)'
  <2> DEFINE old == held \cup {q[i] : i \in 1 .. Len(q)}
  <2>1. held' \cup {q[i] : i \in 1 .. Len(q)} = old \cup {new} /\ old = Taken(q)
    BY <1>4 DEF Taken
  <2>2. taken' = UNION {Lines(b.at, b.lines) : b \in old \cup {new}}
    <3>1. taken = UNION {Lines(b.at, b.lines) : b \in old}
      BY DEF BitmapInv
    <3> HIDE DEF old
    <3> QED
      BY <3>1, <1>2, <1>4
  <2>3. ASSUME NEW b \in old PROVE Heap!Apart(b, new) /\ Heap!Apart(new, b)
    <3>1. /\ b.at \in Nat /\ b.lines \in Nat \ {0} /\ Lines(b.at, b.lines) \subseteq taken
      BY <2>1, BlockPlaces DEF Line
    <3>2. Lines(b.at, b.lines) \cap Lines(l, need) = {}
      BY <3>1
    <3>3. b.at + b.lines <= l \/ l + need <= b.at
      BY <3>1, <3>2, <1>1, RunsApart
    <3> QED
      BY <3>3, <1>2 DEF Heap!Apart
  <2>4. \A a, b \in old \cup {new} : a # b => Heap!Apart(a, b)
    <3>1. \A a, b \in old : a # b => Heap!Apart(a, b)
      BY DEF BitmapInv
    <3> HIDE DEF old, new
    <3> QED
      BY <2>3, <3>1
  <2>5. \A i \in 1 .. Len(q) : q[i] \notin held'
    BY <1>4, <1>5 DEF BitmapInv, Taken
  <2>6. \A k \in taken' : k < free_zone'
    <3>1. \A k \in taken : k < free_zone /\ k \in Nat
      BY LineIsNat DEF BitmapInv, TypeOK
    <3>2. \A k \in Lines(l, need) : k < free_zone'
      BY <1>1, NVAssumption DEF Lines
    <3> QED
      BY <3>1, <3>2, <1>1, <1>4, NVAssumption
  <2> QED
    BY <2>1, <2>2, <2>4, <2>5, <2>6 DEF BitmapInv
<1>10. HeldInv'
  BY <1>2, <1>4, <1>6 DEF HeldInv, Taken
<1>11. SearchInv'
  BY DEF SearchInv, HandOut
<1>12. Added(q)
  <2>1. new \in [at : Line, lines : {LinesOf(s) : s \in Requests}]
    BY <1>2 DEF Block, SearchInv
  <2>2. ASSUME NEW c \in Taken(q) PROVE Heap!Apart(new, c)
    <3>1. new \in held' \cup {q[i] : i \in 1 .. Len(q)} /\ c \in held' \cup {q[i] : i \in 1 .. Len(q)}
      BY <1>4 DEF Taken
    <3>2. new # c
      BY <1>5
    <3>3. \A a, b \in held' \cup {q[i] : i \in 1 .. Len(q)} : a # b => Heap!Apart(a, b)
      BY <1>9 DEF BitmapInv
    <3> QED
      BY <3>1, <3>2, <3>3
  <2> QED
    BY <2>1, <2>2, <1>4 DEF Added
<1> QED
  BY <1>7, <1>8, <1>9, <1>10, <1>11, <1>12

\* A place that no block begins at.
LEMMA FreePlace ==
  ASSUME NEW q, NVInv(q), NEW l, l \notin taken, NEW b \in Taken(q)
  PROVE  b.at # l
BY BlockPlaces

LEMMA CutKeeps ==
  ASSUME NEW q, NVInv(q), NEW r, r.at \in Nat, r.lines \in Nat, need \in Nat,
         need <= r.lines, need > 0, r.at + r.lines <= free_zone,
         Lines(r.at, r.lines) \cap taken = {}
  PROVE  Cut(r) \in [Line -> Int] /\ \A b \in Taken(q) : Cut(r)[b.at] = hdr[b.at]
<1> USE DEF NVInv
<1>1. hdr \in [Line -> Int]
  BY DEF TypeOK
<1>2. CASE r.lines = need \/ r.at + need \in Headers(r)
  BY <1>1, <1>2 DEF Cut
<1>3. CASE ~ (r.lines = need \/ r.at + need \in Headers(r))
  <2>1. PICK k : k = r.at + need
    OBVIOUS
  <2>2. PICK h : h = FreeHeader(r.lines - need)
    OBVIOUS
  <2>3. r.lines - need \in Nat \ {0}
    BY <1>3
  <2>4. h \in Int
    BY <2>2, <2>3, HeaderRead
  <2>5. k \in Lines(r.at, r.lines)
    BY <2>1, <2>3 DEF Lines
  <2>6. Cut(r) = [hdr EXCEPT ![k] = h]
    BY <1>3, <2>1, <2>2 DEF Cut
  <2>7. \A b \in Taken(q) : b.at # k /\ b.at \in Line
    BY <2>5, FreePlace, BlockPlaces
  <2> QED
    BY <1>1, <2>4, <2>6, <2>7
<1> QED
  BY <1>2, <1>3

LEMMA TakeHintStep ==
  ASSUME NEW q, NVInv(q), TakeHint
  PROVE  NVInv(q)' /\ Added(q)
<1> USE DEF NVInv
<1>1. /\ pc = "search" /\ index <= NR_SIZES /\ free_lists[index] # <<>>
      /\ UNCHANGED <<queue, zone>>
  BY DEF TakeHint
<1>2. PICK r : r = Region
  OBVIOUS
<1>3. /\ r.at \in Nat /\ r.lines \in Nat
      /\ r.lines > 0 =>
           r.at + r.lines <= free_zone /\ Lines(r.at, r.lines) \cap taken = {}
  BY <1>1, <1>2, RegionFree
<1>4. need \in Nat \ {0} /\ need <= r.lines
  BY <1>1, <1>2, LinesPositive DEF SearchInv, TakeHint
<1>5. r.lines > 0 /\ r.at + r.lines <= free_zone /\ Lines(r.at, r.lines) \cap taken = {}
  BY <1>3, <1>4
<1>6. /\ HandOut(r.at, Cut(r))
      /\ free_lists' = IF r.lines = need THEN Popped ELSE Hinted(Popped, r.lines - need, r.at + need)
  BY <1>2 DEF TakeHint
<1>7. PICK h : h = Cut(r)
  OBVIOUS
<1>8. h \in [Line -> Int] /\ \A b \in Taken(q) : h[b.at] = hdr[b.at]
  BY <1>3, <1>4, <1>5, <1>7, CutKeeps
<1>9. Lines(r.at, need) \cap taken = {}
  BY <1>3, <1>4, <1>5 DEF Lines
<1>10. free_zone \in 0 .. end_address /\ end_address \in 0 .. MaxLines
  BY DEF TypeOK
<1>11. /\ free_zone' = free_zone /\ end_address' = end_address
  BY <1>1 DEF zone
<1>12. free_lists' \in [Index -> Seq(Line)]
  <2>1. Popped \in [Index -> Seq(Line)]
    BY <1>1, HintGone, LineIsNat DEF TypeOK, Index
  <2>2. CASE r.lines = need
    BY <1>6, <2>1, <2>2
  <2>3. CASE r.lines # need
    <3>1. PICK n, l : n = r.lines - need /\ l = r.at + need
      OBVIOUS
    <3>2. n \in Nat \ {0} /\ l \in Line
      BY <3>1, <2>3, <1>3, <1>4, <1>5, <1>10, LineIsNat
    <3>3. Hinted(Popped, n, l) \in [Index -> Seq(Line)]
      BY <2>1, <3>2, HintAdded
    <3> QED
      BY <1>6, <2>3, <3>1, <3>3
  <2> QED
    BY <2>2, <2>3
<1>13. r.at + need <= free_zone'
  BY <1>3, <1>4, <1>5, <1>10, <1>11
<1> QED
  BY <1>1, <1>3, <1>6, <1>7, <1>8, <1>9, <1>10, <1>11, <1>12, <1>13, HandOutStep

\* From the free zone: MoreMemory moves its end first.
LEMMA FromZoneStep ==
  ASSUME NEW q, NVInv(q), pc = "search", FromZone,
         end_address' \in end_address .. MaxLines, free_zone + need <= end_address'
  PROVE  NVInv(q)' /\ Added(q)
<1> USE DEF NVInv
<1>1. need \in Nat \ {0}
  BY LinesPositive DEF SearchInv
<1>2. free_zone \in 0 .. end_address /\ end_address \in 0 .. MaxLines /\ free_zone \in Nat
  BY LineIsNat DEF TypeOK
<1>3. /\ HandOut(free_zone, hdr) /\ free_zone' = free_zone + need
      /\ UNCHANGED queue /\ UNCHANGED free_lists
  BY DEF FromZone
<1>4. Lines(free_zone, need) \cap taken = {}
  BY <1>1, <1>2 DEF BitmapInv, Lines
<1>5. hdr \in [Line -> Int] /\ free_lists' \in [Index -> Seq(Line)]
  BY <1>3 DEF TypeOK
<1>6. /\ free_zone + need <= free_zone' /\ free_zone' >= free_zone
      /\ free_zone' \in 0 .. end_address' /\ end_address' \in 0 .. MaxLines
  BY <1>1, <1>2, <1>3, LineIsNat
<1> QED
  BY <1>2, <1>3, <1>4, <1>5, <1>6, HandOutStep

LEMMA TakeZoneStep ==
  ASSUME NEW q, NVInv(q), TakeZone
  PROVE  NVInv(q)' /\ Added(q)
<1>1. pc = "search" /\ FromZone /\ end_address' = end_address /\ free_zone + need <= end_address
  BY DEF TakeZone, Fits
<1>2. end_address \in 0 .. MaxLines
  BY DEF NVInv, TypeOK
<1>3. end_address' \in end_address .. MaxLines /\ free_zone + need <= end_address'
  BY <1>1, <1>2, LineIsNat
<1> QED
  BY <1>1, <1>3, FromZoneStep

\* The pages that are added have room for the block.
LEMMA PagesEnough ==
  ASSUME NEW n \in Nat \ {0}
  PROVE  NewPages(n) \in Nat \ {0} /\ NewPages(n) * PAGE >= n
<1> PAGE \in Nat \ {0} /\ NEW_ALLOC_PAGES \in Nat \ {0}
  BY NVAssumption
<1>1. PICK k : k = (n + PAGE - 1) \div PAGE
  OBVIOUS
<1>2. k \in Nat \ {0} /\ k * PAGE >= n
  BY <1>1
<1>3. PICK m : m = NewPages(n)
  OBVIOUS
<1> DEFINE N == IF NEW_ALLOC_PAGES > k THEN NEW_ALLOC_PAGES ELSE k
<1>4. {NEW_ALLOC_PAGES, k} \in SUBSET (0 .. N) /\ {NEW_ALLOC_PAGES, k} # {} /\ N \in Nat
  BY <1>2
<1>5. m \in {NEW_ALLOC_PAGES, k} /\ \A i \in {NEW_ALLOC_PAGES, k} : i <= m
  <2>1. NewPages(n) = Max({NEW_ALLOC_PAGES, k})
    BY <1>1 DEF NewPages
  <2> HIDE DEF N
  <2> QED
    BY <1>3, <1>4, <2>1, GreatestIs
<1>6. m \in Nat \ {0} /\ m >= k
  BY <1>2, <1>5
<1>7. m * PAGE >= k * PAGE
  BY <1>2, <1>6
<1>8. m * PAGE \in Nat /\ k * PAGE \in Nat
  BY <1>2, <1>6
<1> QED
  BY <1>2, <1>3, <1>6, <1>7, <1>8

LEMMA MoreMemoryStep ==
  ASSUME NEW q, NVInv(q), MoreMemory
  PROVE  NVInv(q)' /\ Added(q)
<1> USE DEF NVInv
<1>1. /\ pc = "search" /\ FromZone /\ end_address' = end_address + NewPages(need) * PAGE
      /\ end_address + NewPages(need) * PAGE <= MaxLines
  BY DEF MoreMemory
<1>2. need \in Nat \ {0}
  BY <1>1, LinesPositive DEF SearchInv
<1>3. PICK more : more = NewPages(need) * PAGE
  OBVIOUS
<1>4. more \in Nat /\ more >= need
  <2>1. PICK k : k = NewPages(need)
    OBVIOUS
  <2>2. k \in Nat \ {0} /\ k * PAGE >= need /\ PAGE \in Nat
    BY <2>1, <1>2, PagesEnough, NVAssumption
  <2>3. k * PAGE \in Nat
    BY <2>2
  <2> QED
    BY <1>3, <2>1, <2>2, <2>3
<1>5. free_zone \in 0 .. end_address /\ end_address \in 0 .. MaxLines
  BY DEF TypeOK
<1>6. end_address' \in end_address .. MaxLines /\ free_zone + need <= end_address'
  BY <1>1, <1>2, <1>3, <1>4, <1>5, LineIsNat
<1> QED
  BY <1>1, <1>6, FromZoneStep

-----------------------------------------------------------------------------
(* nvfree *)

LEMMA QueueEnds ==
  ASSUME NEW q, NVInv(q)
  PROVE  /\ q \in Seq(Blocks) /\ Len(q) \in Nat
         /\ \A i \in 1 .. Len(q) : q[i] \in Taken(q) /\ q[i].at \in Line
         /\ q = <<>> <=> Len(q) = 0
         /\ head = NIL <=> q = <<>>
         /\ tail = NIL <=> q = <<>>
         /\ q # <<>> => head = q[1].at /\ tail = q[Len(q)].at
<1>1. q \in Seq(Blocks) /\ Len(q) \in Nat
  BY LenProperties DEF NVInv, IsQueue
<1>2. q = <<>> <=> Len(q) = 0
  BY <1>1, EmptySeq
<1>3. \A i \in 1 .. Len(q) : q[i] \in Taken(q) /\ q[i].at \in Line
  BY BlockPlaces DEF Taken
<1>4. head = (IF q = <<>> THEN NIL ELSE q[1].at) /\ tail = (IF q = <<>> THEN NIL ELSE q[Len(q)].at)
  BY DEF NVInv, IsQueue
<1>5. q # <<>> => 1 \in 1 .. Len(q) /\ Len(q) \in 1 .. Len(q)
  BY <1>1, <1>2
<1> QED
  BY <1>1, <1>2, <1>3, <1>4, <1>5, LineIsNat

LEMMA FreeStep ==
  ASSUME NEW q, NVInv(q), NEW b \in held, Free(b)
  PROVE  NVInv(Append(q, b))'
<1> USE DEF NVInv
<1>1. PICK n : n = Len(q)
  OBVIOUS
<1>2. PICK r : r = Append(q, b)
  OBVIOUS
<1>3. b \in Taken(q) /\ b \in Blocks /\ b.at \in Line /\ b.lines \in Nat \ {0}
  <2>1. b \in Taken(q)
    BY DEF Taken
  <2> QED
    BY <2>1, BlockPlaces
<1>4. /\ r \in Seq(Blocks) /\ Len(r) = n + 1 /\ n \in Nat /\ r # <<>>
      /\ r[n + 1] = b /\ \A i \in 1 .. n : r[i] = q[i]
  BY <1>1, <1>2, <1>3, QueueEnds, AppendProperties
<1>5. \A i \in 1 .. n : q[i] \in Taken(q) /\ q[i] # b /\ q[i].at # b.at /\ q[i].at \in Line
  <2>1. \A i \in 1 .. n : q[i] \in Taken(q) /\ q[i].at \in Line
    BY <1>1, QueueEnds
  <2>2. \A i \in 1 .. n : q[i] # b
    BY <1>1 DEF BitmapInv
  <2>3. \A c \in Taken(q) : c.at = b.at => c = b
    BY <1>3, BlockPlaces
  <2> QED
    BY <2>1, <2>2, <2>3
<1>6. /\ hdr' \in [Line -> Int] /\ hdr'[b.at] = WaitingHeader(b.lines)
      /\ \A l \in Line \ {b.at} : hdr'[l] = hdr[l]
  <2>1. hdr[b.at] = AllocatedHeader(b.lines)
    BY DEF HeldInv
  <2>2. PICK h : h = WaitingHeader(b.lines)
    OBVIOUS
  <2>3. h \in Int /\ AllocatedHeader(b.lines) \div BASE = b.lines
    BY <1>3, <2>2, HeaderRead
  <2>4. hdr' = [hdr EXCEPT ![b.at] = h]
    <3>1. hdr' = [hdr EXCEPT ![b.at] = WaitingHeader(hdr[b.at] \div BASE)]
      BY DEF Free
    <3> QED
      BY <3>1, <2>1, <2>2, <2>3
  <2> QED
    BY <1>3, <2>2, <2>3, <2>4 DEF TypeOK
<1>7. held' = held \ {b} /\ taken' = taken /\ UNCHANGED <<free_lists, zone, need, index>> /\ pc' = "time"
  BY DEF Free
<1>8. /\ head' = IF n = 0 THEN b.at ELSE head
      /\ tail' = b.at
      /\ next' = IF n = 0 THEN next ELSE [next EXCEPT ![tail] = b.at]
  BY <1>1, QueueEnds DEF Free, Enqueued
<1>9. TypeOK'
  <2>1. next' \in [Line -> Line \cup {NIL}]
    <3>1. next \in [Line -> Line \cup {NIL}]
      BY DEF TypeOK
    <3> QED
      BY <3>1, <1>3, <1>8
  <2>2. {head', tail'} \subseteq Line \cup {NIL} /\ (head' = NIL <=> tail' = NIL)
    BY <1>1, <1>3, <1>8, QueueEnds, LineIsNat DEF TypeOK
  <2> QED
    BY <2>1, <2>2, <1>6, <1>7 DEF TypeOK, zone
<1>10. IsQueue(r)'
  <2>1. head' = r[1].at /\ tail' = r[Len(r)].at
    <3>1. tail' = r[Len(r)].at
      BY <1>4, <1>8
    <3>2. CASE n = 0
      BY <3>2, <1>4, <1>8
    <3>3. CASE n # 0
      <4>1. q # <<>> /\ 1 \in 1 .. n
        BY <3>3, <1>1, <1>4, QueueEnds
      <4> QED
        BY <4>1, <3>3, <1>4, <1>8, QueueEnds
    <3> QED
      BY <3>1, <3>2, <3>3
  <2>2. ASSUME NEW i \in 1 .. Len(r) - 1 PROVE next'[r[i].at] = r[i + 1].at
    <3>1. i \in 1 .. n /\ r[i] = q[i] /\ n # 0 /\ tail = q[n].at /\ q[i].at \in Line /\ tail \in Line
      BY <1>1, <1>4, <1>5, QueueEnds
    <3>2. next' = [next EXCEPT ![tail] = b.at] /\ next \in [Line -> Line \cup {NIL}]
      BY <3>1, <1>8 DEF TypeOK
    <3>3. CASE i = n
      BY <3>1, <3>2, <3>3, <1>4
    <3>4. CASE i # n
      <4>1. i \in 1 .. n - 1 /\ i + 1 \in 1 .. n /\ n \in 1 .. n
        BY <3>1, <3>4, <1>4
      <4>2. q[i] # q[n]
        BY <1>1, <3>4, <4>1, <3>1 DEF BitmapInv
      <4>3. q[i].at # q[n].at
        BY <1>5, <3>1, <4>1, <4>2, BlockPlaces
      <4>4. next[q[i].at] = q[i + 1].at
        BY <1>1, <4>1 DEF IsQueue
      <4> QED
        BY <3>1, <3>2, <4>1, <4>3, <4>4, <1>4
    <3> QED
      BY <3>3, <3>4
  <2>3. ASSUME NEW i \in 1 .. Len(r) PROVE hdr'[r[i].at] = WaitingHeader(r[i].lines)
    <3>1. CASE i = n + 1
      BY <3>1, <1>4, <1>6
    <3>2. CASE i # n + 1
      <4>1. i \in 1 .. n
        BY <3>2, <1>4
      <4>2. hdr[q[i].at] = WaitingHeader(q[i].lines)
        BY <1>1, <4>1 DEF IsQueue
      <4> QED
        BY <4>1, <4>2, <1>4, <1>5, <1>6
    <3> QED
      BY <3>1, <3>2
  <2> QED
    BY <1>4, <2>1, <2>2, <2>3 DEF IsQueue
<1>11. BitmapInv(r)'
  <2>1. held' \cup {r[i] : i \in 1 .. Len(r)} = Taken(q)
    <3>1. {r[i] : i \in 1 .. Len(r)} = {q[i] : i \in 1 .. n} \cup {b}
      <4>1. 1 .. Len(r) = (1 .. n) \cup {n + 1}
        BY <1>4
      <4> QED
        BY <4>1, <1>4
    <3> QED
      BY <3>1, <1>1, <1>7 DEF Taken
  <2>2. \A i, j \in 1 .. Len(r) : r[i] = r[j] => i = j
    <3>1. \A i \in 1 .. Len(r) : i = n + 1 \/ i \in 1 .. n
      BY <1>4
    <3>2. \A i, j \in 1 .. n : q[i] = q[j] => i = j
      BY <1>1 DEF BitmapInv
    <3> QED
      BY <3>1, <3>2, <1>4, <1>5
  <2>3. \A i \in 1 .. Len(r) : r[i] \notin held'
    <3>1. \A i \in 1 .. Len(r) : i = n + 1 \/ i \in 1 .. n
      BY <1>4
    <3> QED
      BY <3>1, <1>1, <1>4, <1>7 DEF BitmapInv
  <2>4. /\ taken = UNION {Lines(a.at, a.lines) : a \in Taken(q)}
        /\ \A a, c \in Taken(q) : a # c => Heap!Apart(a, c)
        /\ \A l \in taken : l < free_zone
    BY DEF BitmapInv, Taken
  <2> QED
    BY <2>1, <2>2, <2>3, <2>4, <1>7 DEF BitmapInv, zone
<1>12. HeldInv'
  <2>1. \A c \in held' : c \in Taken(q) /\ c # b /\ c \in held
    BY <1>7 DEF Taken
  <2>2. \A c \in held' : c.at \in Line \ {b.at}
    BY <2>1, <1>3, BlockPlaces
  <2> QED
    BY <2>1, <2>2, <1>6 DEF HeldInv
<1>13. SearchInv'
  BY <1>7 DEF SearchInv
<1> QED
  BY <1>2, <1>9, <1>10, <1>11, <1>12, <1>13

-----------------------------------------------------------------------------
(* incrementTime *)

\* The block at the head of the queue, and what is left of the bitmap.
LEMMA HeadBlock ==
  ASSUME NEW q, NVInv(q), head # NIL
  PROVE  /\ q # <<>> /\ head = q[1].at /\ q[1] \in Taken(q) /\ q[1] \in Blocks
         /\ head \in Line /\ head \in taken /\ head < free_zone
         /\ q[1].lines \in Nat \ {0} /\ head + q[1].lines <= free_zone
         /\ Released = taken \ Lines(head, q[1].lines)
         /\ Released \in SUBSET Line
<1>1. q # <<>> /\ head = q[1].at /\ Len(q) \in Nat \ {0} /\ 1 \in 1 .. Len(q) /\ q[1] \in Taken(q)
  BY QueueEnds
<1>2. /\ q[1] \in Blocks /\ q[1].lines \in Nat \ {0} /\ head \in Line /\ head \in taken
      /\ head + q[1].lines <= free_zone
  BY <1>1, BlockPlaces
<1>3. hdr[head] = WaitingHeader(q[1].lines)
  BY <1>1 DEF NVInv, IsQueue
<1>4. WaitingLines(hdr[head]) = q[1].lines
  BY <1>2, <1>3, HeaderRead
<1>5. Released = taken \ Lines(head, q[1].lines)
  BY <1>4 DEF Released, MakeZero
<1>6. taken \in SUBSET Line
  BY DEF NVInv, TypeOK
<1>7. head < free_zone
  BY <1>2 DEF NVInv, BitmapInv
<1> QED
  BY <1>1, <1>2, <1>5, <1>6, <1>7

\* The first block leaves the queue, and its lines the bitmap.
LEMMA LeaveStep ==
  ASSUME NEW q, NVInv(q), head # NIL, taken' = Released, Dequeued,
         held' = held, pc' = "idle", need' = need, index' = index,
         hdr' \in [Line -> Int],
         \A b \in Taken(q) \ {q[1]} : hdr'[b.at] = hdr[b.at],
         free_lists' \in [Index -> Seq(Line)],
         free_zone' \in 0 .. end_address', end_address' \in 0 .. MaxLines,
         \A l \in taken' : l < free_zone'
  PROVE  NVInv(Tail(q))'
<1>1. PICK n : n = Len(q)
  OBVIOUS
<1>2. PICK r : r = Tail(q)
  OBVIOUS
<1>3. PICK b : b = q[1]
  OBVIOUS
<1>4. /\ q # <<>> /\ head = b.at /\ b \in Taken(q) /\ b \in Blocks /\ b.lines \in Nat \ {0}
      /\ taken' = taken \ Lines(b.at, b.lines) /\ head \in Line
  BY <1>3, HeadBlock
<1>5. q \in Seq(Blocks) /\ n \in Nat \ {0} /\ (\A i \in 1 .. n : q[i] \in Taken(q) /\ q[i].at \in Line)
  BY <1>1, <1>4, QueueEnds
<1>6. r \in Seq(Blocks) /\ Len(r) = n - 1 /\ \A i \in 1 .. n - 1 : r[i] = q[i + 1]
  BY <1>1, <1>2, <1>4, <1>5, HeadTailProperties
<1>7. \A i, j \in 1 .. n : q[i] = q[j] => i = j
  BY <1>1 DEF NVInv, BitmapInv
<1>8. \A i \in 1 .. n - 1 : i + 1 \in 1 .. n /\ i + 1 # 1
  BY <1>5
<1>9. /\ \A i \in 1 .. n - 1 : r[i] \in Taken(q) \ {b}
      /\ \A i, j \in 1 .. n - 1 : r[i] = r[j] => i = j
  <2>1. 1 \in 1 .. n
    BY <1>5
  <2>2. \A i, j \in 1 .. n - 1 : r[i] = r[j] => i + 1 = j + 1
    BY <1>6, <1>7, <1>8
  <2>3. \A i \in 1 .. n - 1 : r[i] \in Taken(q) \ {b}
    BY <2>1, <1>3, <1>5, <1>6, <1>7, <1>8
  <2> QED
    BY <2>2, <2>3, <1>5
<1>10. \A c \in Taken(q) : c.at = b.at => c = b
  BY <1>4, BlockPlaces
<1>11. tail = q[n].at
  BY <1>1, <1>4, QueueEnds
<1>12. head = tail <=> n = 1
  <2>1. 1 \in 1 .. n /\ n \in 1 .. n
    BY <1>5
  <2>2. q[n].at = b.at => n = 1
    BY <2>1, <1>3, <1>5, <1>7, <1>10
  <2> QED
    BY <2>2, <1>3, <1>4, <1>11
<1>13. /\ head' = IF n = 1 THEN NIL ELSE next[head]
       /\ tail' = IF n = 1 THEN NIL ELSE tail
       /\ next' = [next EXCEPT ![head] = NIL]
  BY <1>12 DEF Dequeued
<1>14. n # 1 => next[head] = q[2].at
  <2>1. n # 1 => 1 \in 1 .. n - 1
    BY <1>5
  <2>2. \A i \in 1 .. n - 1 : next[q[i].at] = q[i + 1].at
    BY <1>1 DEF NVInv, IsQueue
  <2> QED
    BY <2>1, <2>2, <1>3, <1>4
<1>15. TypeOK'
  <2>1. next' \in [Line -> Line \cup {NIL}]
    BY <1>13 DEF NVInv, TypeOK
  <2>2. {head', tail'} \subseteq Line \cup {NIL} /\ (head' = NIL <=> tail' = NIL)
    <3>1. n # 1 => q[2].at \in Line /\ q[n].at \in Line
      BY <1>5
    <3> QED
      BY <3>1, <1>11, <1>13, <1>14, LineIsNat
  <2>3. taken' \subseteq Line /\ held' \subseteq Blocks /\ pc' \in {"idle", "search", "time"}
        /\ need' \in Nat /\ index' \in 0 .. NR_SIZES + 1
    BY <1>4 DEF NVInv, TypeOK
  <2> QED
    BY <2>1, <2>2, <2>3 DEF TypeOK
<1>16. IsQueue(r)'
  <2>1. r = <<>> <=> n = 1
    BY <1>5, <1>6, EmptySeq
  <2>2. n # 1 => 1 \in 1 .. n - 1 /\ n - 1 \in 1 .. n - 1 /\ r[1] = q[2] /\ r[n - 1] = q[n]
    BY <1>5, <1>6
  <2>3. /\ head' = (IF r = <<>> THEN NIL ELSE r[1].at)
        /\ tail' = (IF r = <<>> THEN NIL ELSE r[Len(r)].at)
    BY <2>1, <2>2, <1>6, <1>11, <1>13, <1>14
  <2>4. ASSUME NEW i \in 1 .. Len(r) - 1 PROVE next'[r[i].at] = r[i + 1].at
    <3>1. i \in 1 .. n - 1 /\ i + 1 \in 1 .. n - 1
      BY <1>5, <1>6
    <3>2. next[q[i + 1].at] = q[(i + 1) + 1].at
      BY <3>1, <1>1 DEF NVInv, IsQueue
    <3>3. r[i] = q[i + 1] /\ r[i + 1] = q[(i + 1) + 1]
      BY <3>1, <1>6
    <3>4. r[i].at # head /\ r[i].at \in Line
      BY <3>1, <1>4, <1>5, <1>6, <1>8, <1>9, <1>10
    <3> QED
      BY <3>2, <3>3, <3>4, <1>13 DEF NVInv, TypeOK
  <2>5. ASSUME NEW i \in 1 .. Len(r) PROVE hdr'[r[i].at] = WaitingHeader(r[i].lines)
    <3>1. i \in 1 .. n - 1 /\ r[i] = q[i + 1] /\ i + 1 \in 1 .. n
      BY <1>6, <1>8
    <3>2. hdr[q[i + 1].at] = WaitingHeader(q[i + 1].lines)
      BY <3>1, <1>1 DEF NVInv, IsQueue
    <3>3. r[i] \in Taken(q) \ {q[1]}
      BY <3>1, <1>3, <1>9
    <3> QED
      BY <3>1, <3>2, <3>3
  <2> QED
    BY <2>3, <2>4, <2>5, <1>6 DEF IsQueue
<1>17. BitmapInv(r)'
  <2>1. held' \cup {r[i] : i \in 1 .. Len(r)} = Taken(q) \ {b}
    <3>1. {r[i] : i \in 1 .. Len(r)} = {q[i] : i \in 1 .. n} \ {b}
      <4>1. ASSUME NEW i \in 1 .. n, q[i] # b PROVE i - 1 \in 1 .. n - 1 /\ r[i - 1] = q[i]
        <5>1. i # 1
          BY <4>1, <1>3
        <5>2. i - 1 \in 1 .. n - 1 /\ (i - 1) + 1 = i
          BY <5>1, <1>5
        <5>3. r[i - 1] = q[(i - 1) + 1]
          BY <5>2, <1>6
        <5> QED
          BY <5>2, <5>3
      <4>2. \A i \in 1 .. n - 1 : r[i] = q[i + 1] /\ r[i] # b /\ i + 1 \in 1 .. n
        BY <1>6, <1>8, <1>9
      <4>3. PICK A, B : A = {r[i] : i \in 1 .. n - 1} /\ B = {q[i] : i \in 1 .. n}
        OBVIOUS
      <4>4. A \subseteq B \ {b}
        BY <4>2, <4>3
      <4>5. B \ {b} \subseteq A
        BY <4>1, <4>3
      <4>6. Len(r) = n - 1
        BY <1>6
      <4> QED
        BY <4>3, <4>4, <4>5, <4>6
    <3>2. b \notin held
      <4>1. 1 \in 1 .. n
        BY <1>5
      <4> QED
        BY <4>1, <1>1, <1>3 DEF NVInv, BitmapInv
    <3> QED
      BY <3>1, <3>2, <1>1 DEF Taken
  <2>2. taken = UNION {Lines(a.at, a.lines) : a \in Taken(q)}
    BY DEF NVInv, BitmapInv, Taken
  <2>3. \A c \in Taken(q) : c # b => Lines(b.at, b.lines) \cap Lines(c.at, c.lines) = {}
    BY <1>4, BlockPlaces
  <2>4. taken' = UNION {Lines(a.at, a.lines) : a \in Taken(q) \ {b}}
    BY <2>2, <2>3, <1>4
  <2>5. \A a, c \in Taken(q) \ {b} : a # c => Heap!Apart(a, c)
    BY DEF NVInv, BitmapInv, Taken
  <2>6. \A i \in 1 .. Len(r) : r[i] \notin held'
    <3>1. \A i \in 1 .. n : q[i] \notin held
      BY <1>1 DEF NVInv, BitmapInv
    <3> QED
      BY <3>1, <1>6, <1>8
  <2> QED
    BY <2>1, <2>4, <2>5, <2>6, <1>6, <1>9 DEF BitmapInv
<1>18. HeldInv'
  <2>1. \A c \in held : c \in Taken(q) \ {q[1]}
    <3>1. 1 \in 1 .. n
      BY <1>5
    <3> QED
      BY <3>1, <1>1 DEF NVInv, BitmapInv, Taken
  <2> QED
    BY <2>1 DEF NVInv, HeldInv
<1>19. SearchInv'
  BY DEF SearchInv
<1> QED
  BY <1>2, <1>15, <1>16, <1>17, <1>18, <1>19 DEF NVInv

\* What is free around the block at the head when it is released.
LEMMA FreedAround ==
  ASSUME NEW q, NVInv(q), head # NIL
  PROVE  /\ Forward \in Nat /\ head + Forward <= free_zone
         /\ Forward >= q[1].lines
         /\ Lines(head, Forward) \cap Released = {}
         /\ head + Forward = free_zone \/ head + Forward \in Released
         /\ Backward \in 0 .. head
         /\ Lines(head - Backward, Backward) \cap Released = {}
         /\ head - Backward = 0 \/ head - Backward - 1 \in Released
<1>1. PICK t : t = Released
  OBVIOUS
<1>2. PICK f : f = Forward
  OBVIOUS
<1>3. PICK m : m = q[1].lines
  OBVIOUS
<1>4. /\ t \in SUBSET Line /\ t = taken \ Lines(head, m) /\ head \in Nat /\ head < free_zone
      /\ m \in Nat \ {0} /\ head + m <= free_zone /\ TypeOK
  BY <1>1, <1>3, HeadBlock, LineIsNat DEF NVInv
<1>5. /\ f \in Nat /\ head + f <= free_zone /\ Lines(head, f) \cap t = {}
      /\ head + f = free_zone \/ head + f \in t
  BY <1>1, <1>2, <1>4, ForwardFree DEF Forward
<1>6. free_zone \in Nat
  BY <1>4, LineIsNat DEF TypeOK
<1>7. f >= m
  <2> SUFFICES ASSUME f < m PROVE FALSE
    BY <1>4, <1>5
  <2>1. head + f \in t
    BY <1>4, <1>5, <1>6
  <2>2. head + f \in Lines(head, m)
    BY <1>4, <1>5 DEF Lines
  <2> QED
    BY <2>1, <2>2, <1>4
<1>8. head <= free_zone
  BY <1>4, <1>6
<1>9. /\ Backward \in 0 .. head /\ Lines(head - Backward, Backward) \cap t = {}
      /\ head - Backward = 0 \/ head - Backward - 1 \in t
  BY <1>1, <1>4, <1>8, BackwardFree DEF Backward
<1> QED
  BY <1>1, <1>2, <1>3, <1>5, <1>7, <1>9

LEMMA ZoneIsNat ==
  ASSUME NEW q, NVInv(q)
  PROVE  free_zone \in Nat /\ free_zone \in 0 .. end_address /\ end_address \in 0 .. MaxLines
BY LineIsNat DEF NVInv, TypeOK

LEMMA ReleaseToZoneStep ==
  ASSUME NEW q, NVInv(q), ReleaseToZone
  PROVE  NVInv(Tail(q))'
<1>1. /\ head # NIL /\ taken' = Released /\ Dequeued /\ held' = held /\ pc' = "idle"
      /\ need' = need /\ index' = index /\ free_lists' = free_lists /\ end_address' = end_address
      /\ free_zone' = head - Backward /\ head + Forward >= free_zone
      /\ hdr' = [l \in Line |-> IF l < free_zone' THEN hdr[l] ELSE Junk]
  BY DEF ReleaseToZone
<1>2. PICK f, back : f = Forward /\ back = Backward
  OBVIOUS
<1>3. /\ f \in Nat /\ head + f = free_zone /\ Lines(head, f) \cap Released = {}
      /\ back \in 0 .. head /\ Lines(head - back, back) \cap Released = {}
      /\ head \in Nat /\ head < free_zone /\ free_zone \in Nat
      /\ Released \in SUBSET Line /\ Released \subseteq taken
  <2>1. head \in Nat /\ free_zone \in Nat
    BY <1>1, HeadBlock, LineIsNat, ZoneIsNat
  <2>2. f \in Nat /\ head + f <= free_zone
    BY <1>1, <1>2, FreedAround
  <2>3. head + f = free_zone
    BY <2>1, <2>2, <1>1, <1>2
  <2> QED
    BY <2>1, <2>2, <2>3, <1>1, <1>2, FreedAround, HeadBlock
<1>4. free_zone' \in 0 .. end_address' /\ end_address' \in 0 .. MaxLines /\ free_zone' = head - back
  BY <1>1, <1>2, <1>3, LineIsNat DEF NVInv, TypeOK
<1>5. \A l \in taken' : l < free_zone' /\ l \in Nat
  <2> SUFFICES ASSUME NEW l \in Released PROVE l < head - back /\ l \in Nat
    BY <1>1, <1>4
  <2>1. l \in Nat /\ l < free_zone
    BY <1>3, LineIsNat DEF NVInv, BitmapInv
  <2>2. l \notin Lines(head, f) /\ l \notin Lines(head - back, back)
    BY <1>3
  <2> QED
    BY <2>1, <2>2, <1>3 DEF Lines
<1>6. hdr' \in [Line -> Int]
  BY <1>1 DEF NVInv, TypeOK, Junk
<1>7. \A b \in Taken(q) \ {q[1]} : hdr'[b.at] = hdr[b.at]
  <2> SUFFICES ASSUME NEW b \in Taken(q) \ {q[1]} PROVE hdr'[b.at] = hdr[b.at]
    OBVIOUS
  <2>1. b.at \in taken /\ b.at \in Line
    BY BlockPlaces
  <2>2. b.at \in Lines(b.at, b.lines)
    <3>1. b.at \in Nat /\ b.lines \in Nat \ {0}
      BY BlockPlaces, LineIsNat
    <3> QED
      BY <3>1 DEF Lines
  <2>3. Lines(b.at, b.lines) \cap Lines(head, q[1].lines) = {}
    <3>1. q[1] \in Taken(q) /\ head = q[1].at
      BY <1>1, HeadBlock
    <3>2. Lines(b.at, b.lines) \cap Lines(q[1].at, q[1].lines) = {}
      BY <3>1, BlockPlaces
    <3> QED
      BY <3>1, <3>2
  <2>4. b.at \in taken'
    BY <2>1, <2>2, <2>3, <1>1, HeadBlock
  <2> QED
    BY <2>1, <2>4, <1>1, <1>5
<1>8. free_lists' \in [Index -> Seq(Line)]
  BY <1>1 DEF NVInv, TypeOK
<1> QED
  BY <1>1, <1>4, <1>5, <1>6, <1>7, <1>8, LeaveStep

\* The hints that a released block adds.
LEMMA HintsType ==
  ASSUME NEW q, NVInv(q), head # NIL
  PROVE  /\ Hints \in [Index -> Seq(Line)]
         /\ Forward \in Nat \ {0} /\ Forward + Backward \in Nat \ {0} /\ head - Backward \in Line
<1>1. PICK f, back : f = Forward /\ back = Backward
  OBVIOUS
<1>2. f \in Nat \ {0} /\ head + f <= free_zone /\ back \in 0 .. head /\ head \in Line /\ head \in Nat
  <2>1. PICK m : m = q[1].lines
    OBVIOUS
  <2>2. f >= m /\ m \in Nat \ {0} /\ f \in Nat
    BY <2>1, <1>1, FreedAround, HeadBlock
  <2>3. f \in Nat \ {0}
    BY <2>2
  <2> QED
    BY <2>3, <1>1, FreedAround, HeadBlock, LineIsNat
<1>3. f + back \in Nat \ {0} /\ head - back \in Line
  BY <1>2, LineIsNat DEF Line
<1>4. free_lists \in [Index -> Seq(Line)]
  BY DEF NVInv, TypeOK
<1>5. PICK fl : fl = Hinted(free_lists, f + back, head - back)
  OBVIOUS
<1>6. fl \in [Index -> Seq(Line)]
  <2>1. PICK n, l : n = f + back /\ l = head - back
    OBVIOUS
  <2>2. Hinted(free_lists, n, l) \in [Index -> Seq(Line)]
    BY <2>1, <1>3, <1>4, HintAdded
  <2> QED
    BY <2>1, <2>2, <1>5
<1>7. /\ Hinted(free_lists, f, head) \in [Index -> Seq(Line)]
      /\ Hinted(fl, f, head) \in [Index -> Seq(Line)]
  BY <1>2, <1>4, <1>6, HintAdded
<1>8. Hints = IF back = 0 THEN Hinted(free_lists, f, head) ELSE Hinted(fl, f, head)
  BY <1>1, <1>5 DEF Hints
<1> QED
  BY <1>1, <1>2, <1>3, <1>7, <1>8

LEMMA ReleaseToListsStep ==
  ASSUME NEW q, NVInv(q), ReleaseToLists
  PROVE  NVInv(Tail(q))'
<1>1. /\ head # NIL /\ taken' = Released /\ Dequeued /\ held' = held /\ pc' = "idle"
      /\ need' = need /\ index' = index /\ free_lists' = Hints
      /\ free_zone' = free_zone /\ end_address' = end_address
      /\ hdr' = [hdr EXCEPT ![head] = FreeHeader(Forward)]
  BY DEF ReleaseToLists, zone
<1>2. free_lists' \in [Index -> Seq(Line)]
  BY <1>1, HintsType
<1>3. free_zone' \in 0 .. end_address' /\ end_address' \in 0 .. MaxLines
  BY <1>1 DEF NVInv, TypeOK
<1>4. \A l \in taken' : l < free_zone'
  BY <1>1, HeadBlock DEF NVInv, BitmapInv
<1>5. hdr' \in [Line -> Int] /\ \A l \in Line \ {head} : hdr'[l] = hdr[l]
  <2>1. PICK h : h = FreeHeader(Forward)
    OBVIOUS
  <2>2. h \in Int
    <3>1. PICK f : f = Forward
      OBVIOUS
    <3>2. f \in Nat \ {0}
      BY <3>1, <1>1, HintsType
    <3> QED
      BY <2>1, <3>1, <3>2, HeaderRead
  <2> QED
    BY <2>1, <2>2, <1>1 DEF NVInv, TypeOK
<1>6. \A b \in Taken(q) \ {q[1]} : hdr'[b.at] = hdr[b.at]
  <2>1. q[1] \in Taken(q) /\ head = q[1].at
    BY <1>1, HeadBlock
  <2>2. \A b \in Taken(q) \ {q[1]} : b.at \in Line /\ b.at # head
    BY <2>1, BlockPlaces
  <2> QED
    BY <2>2, <1>5
<1> QED
  BY <1>1, <1>2, <1>3, <1>4, <1>5, <1>6, LeaveStep

-----------------------------------------------------------------------------
(* The invariant *)

NVInvariant == \E q : NVInv(q)

LEMMA NVStart == Init => NVInv(<<>>)
<1> SUFFICES ASSUME Init PROVE NVInv(<<>>)
  OBVIOUS
<1> USE DEF Init
<1>1. PICK z : z = InitPages * PAGE
  OBVIOUS
<1>2. z \in 0 .. MaxLines
  BY <1>1, NVAssumption
<1>3. TypeOK
  <2>1. free_zone \in 0 .. end_address /\ end_address \in 0 .. MaxLines
    BY <1>1, <1>2
  <2>2. hdr \in [Line -> Int] /\ next \in [Line -> Line \cup {NIL}]
    BY DEF Junk
  <2>3. free_lists \in [Index -> Seq(Line)]
    BY EmptySeq
  <2> QED
    BY <2>1, <2>2, <2>3, LineIsNat DEF TypeOK
<1>4. PICK e : e = <<>>
  OBVIOUS
<1>5. e \in Seq(Blocks) /\ Len(e) = 0
  BY <1>4, EmptySeq
<1>6. IsQueue(e)
  BY <1>4, <1>5 DEF IsQueue
<1>7. held \cup {e[i] : i \in 1 .. Len(e)} = {}
  BY <1>5
<1>8. BitmapInv(e)
  BY <1>5, <1>7 DEF BitmapInv
<1> QED
  BY <1>3, <1>4, <1>6, <1>8 DEF NVInv, HeldInv, SearchInv

LEMMA NVStutter ==
  ASSUME NEW q, NVInv(q), UNCHANGED vars
  PROVE  NVInv(q)'
<1> USE DEF NVInv, vars, queue, zone
<1>1. TypeOK'
  BY DEF TypeOK
<1>2. SearchInv'
  BY DEF SearchInv
<1> QED
  BY <1>1, <1>2, SearchGoesOn

\* What a step does to the blocks that are held and to the queue.
Moved(q, r) ==
  \/ r = q /\ held' = held
  \/ r = q /\ Added(q)
  \/ \E b \in held : r = Append(q, b) /\ held' = held \ {b}
  \/ q # <<>> /\ r = Tail(q) /\ held' = held

LEMMA NVStep ==
  ASSUME NEW q, NVInv(q), [Next]_vars
  PROVE  \E r : NVInv(r)' /\ Moved(q, r)
<1>1. ASSUME NEW s \in Requests, Malloc(s) PROVE NVInv(q)' /\ held' = held
  BY <1>1, MallocStep DEF Malloc
<1>2. CASE NextList \/ DropHint \/ NoMemory \/ NothingDue
  <2>1. held' = held
    BY <1>2 DEF NextList, DropHint, NoMemory, NothingDue
  <2> QED
    BY <1>2, <2>1, NextListStep, DropHintStep, NoMemoryStep, NothingDueStep DEF Moved
<1>3. CASE TakeHint \/ TakeZone \/ MoreMemory
  BY <1>3, TakeHintStep, TakeZoneStep, MoreMemoryStep DEF Moved
<1>4. ASSUME NEW b \in held, Free(b) PROVE NVInv(Append(q, b))' /\ held' = held \ {b}
  BY <1>4, FreeStep DEF Free
<1>5. CASE ReleaseToZone \/ ReleaseToLists
  <2>1. head # NIL /\ held' = held
    BY <1>5 DEF ReleaseToZone, ReleaseToLists
  <2> QED
    BY <1>5, <2>1, QueueEnds, ReleaseToZoneStep, ReleaseToListsStep DEF Moved
<1>6. CASE UNCHANGED vars
  <2>1. held' = held
    BY <1>6 DEF vars
  <2> QED
    BY <1>6, <2>1, NVStutter DEF Moved
<1> QED
  BY <1>1, <1>2, <1>3, <1>4, <1>5, <1>6 DEF Next, Moved

-----------------------------------------------------------------------------
(* The queue as it is read *)

LineOrNil == Line \cup {NIL}

\* Where k steps from the head lead.
LEMMA WalkedSteps ==
  ASSUME TypeOK
  PROVE  /\ Walked \in [0 .. MaxLines -> LineOrNil]
         /\ Walked[0] = head
         /\ \A k \in 1 .. MaxLines : Walked[k] =
              IF Walked[k - 1] \in {NIL, tail} THEN NIL ELSE next[Walked[k - 1]]
<1> USE LineIsNat
<1> DEFINE G == [k \in 1 .. MaxLines |-> [l \in LineOrNil |->
                   IF l \in {NIL, tail} THEN NIL ELSE next[l]]]
<1>1. head \in LineOrNil /\ next \in [Line -> LineOrNil]
  BY DEF TypeOK, LineOrNil
<1>2. G \in StepsOn(MaxLines, LineOrNil)
  BY <1>1 DEF LineOrNil, StepsOn
<1>3. PICK f : IsRun(f, MaxLines, LineOrNil, head, G)
  <2> HIDE DEF G
  <2> QED
    BY <1>1, <1>2, Iteration
<1>4. f \in [0 .. MaxLines -> LineOrNil] /\ f[0] = head
      /\ \A k \in 1 .. MaxLines : f[k] = G[k][f[k - 1]]
  <2> HIDE DEF G
  <2> QED
    BY <1>3 DEF IsRun
<1>5. \A k \in 1 .. MaxLines : f[k - 1] \in LineOrNil
  BY <1>4
<1>6. \A k \in 1 .. MaxLines : f[k] = IF f[k - 1] \in {NIL, tail} THEN NIL ELSE next[f[k - 1]]
  BY <1>4, <1>5
<1> HIDE DEF G
<1> DEFINE Def(g) == g = [k \in 0 .. MaxLines |->
                            IF k = 0 THEN head
                            ELSE LET l == g[k - 1] IN IF l \in {NIL, tail} THEN NIL ELSE next[l]]
<1>7. Def(f)
  BY <1>4, <1>6
<1>8. Def(Walked)
  <2>1. Walked = CHOOSE g : Def(g)
    BY DEF Walked
  <2> HIDE DEF Def
  <2> QED
    BY <1>7, <2>1
<1>9. PICK w : w = Walked
  OBVIOUS
<1>10. w = [k \in 0 .. MaxLines |->
              IF k = 0 THEN head
              ELSE LET l == w[k - 1] IN IF l \in {NIL, tail} THEN NIL ELSE next[l]]
  BY <1>8, <1>9
<1> HIDE DEF Def
<1>11. w[0] = head /\ \A k \in 1 .. MaxLines : w[k] =
         IF w[k - 1] \in {NIL, tail} THEN NIL ELSE next[w[k - 1]]
  <2>1. 0 \in 0 .. MaxLines /\ \A k \in 1 .. MaxLines : k \in 0 .. MaxLines /\ k # 0
    OBVIOUS
  <2> QED
    BY <1>10, <2>1
<1>12. \A k \in 0 .. MaxLines : w[k] \in LineOrNil
  <2> DEFINE P == {k \in 0 .. MaxLines : w[k] \in LineOrNil}
  <2>1. 0 \in P
    BY <1>1, <1>11
  <2>2. ASSUME NEW k \in 0 .. MaxLines - 1, k \in P PROVE k + 1 \in P
    <3>1. k + 1 \in 1 .. MaxLines /\ (k + 1) - 1 = k /\ k + 1 \in 0 .. MaxLines /\ w[k] \in LineOrNil
      BY <2>2
    <3>2. w[k + 1] = IF w[k] \in {NIL, tail} THEN NIL ELSE next[w[k]]
      BY <1>11, <3>1
    <3>3. w[k + 1] \in LineOrNil
      BY <1>1, <3>1, <3>2 DEF LineOrNil
    <3> QED
      BY <3>1, <3>3
  <2> HIDE DEF P
  <2>3. \A k \in 0 .. MaxLines - 1 : k \in P => k + 1 \in P
    BY <2>2
  <2>4. \A k \in 0 .. MaxLines : k \in P
    BY <2>1, <2>3, InductionTo
  <2> QED
    BY <2>4 DEF P
<1>13. w \in [0 .. MaxLines -> LineOrNil]
  <2>1. DOMAIN w = 0 .. MaxLines /\ w = [k \in DOMAIN w |-> w[k]]
    BY <1>10
  <2> QED
    BY <2>1, <1>12
<1> QED
  BY <1>9, <1>11, <1>13

\* No more blocks wait than there are lines.
LEMMA QueueFits ==
  ASSUME NEW q, NVInv(q)
  PROVE  Len(q) <= MaxLines
<1> USE LineIsNat
<1>1. PICK n : n = Len(q)
  OBVIOUS
<1>2. n \in Nat /\ \A i \in 1 .. n : q[i] \in Taken(q) /\ q[i].at \in Line
  BY <1>1, QueueEnds
<1> DEFINE f == [i \in 1 .. n |-> q[i].at]
<1>3. f \in [1 .. n -> Line]
  BY <1>2
<1>4. \A i, j \in 1 .. n : i # j => f[i] # f[j]
  <2> SUFFICES ASSUME NEW i \in 1 .. n, NEW j \in 1 .. n, i # j PROVE q[i].at # q[j].at
    OBVIOUS
  <2>1. q[i] # q[j]
    BY <1>1 DEF NVInv, BitmapInv
  <2>2. q[i] \in Taken(q) /\ q[j] \in Taken(q)
    BY <1>2
  <2> QED
    BY <2>1, <2>2, BlockPlaces
<1>5. IsFiniteSet(Line) /\ Cardinality(Line) = MaxLines
  BY FS_Interval DEF Line
<1>6. IsFiniteSet(1 .. n) /\ Cardinality(1 .. n) = n
  BY <1>2, FS_Interval
<1> HIDE DEF f
<1>7. ~ (n > MaxLines)
  <2>1. Cardinality(1 .. n) > Cardinality(Line) =>
          \E i, j \in 1 .. n : i # j /\ f[i] = f[j]
    BY <1>3, <1>5, <1>6, FS_PigeonHole
  <2> QED
    BY <2>1, <1>4, <1>5, <1>6
<1> QED
  BY <1>1, <1>2, <1>7

\* What is read from the head on is the queue.
LEMMA QueueRead ==
  ASSUME NEW q, NVInv(q)
  PROVE  Queue = q
<1> USE LineIsNat
<1>1. PICK n : n = Len(q)
  OBVIOUS
<1>2. /\ n \in Nat /\ n <= MaxLines /\ q \in Seq(Blocks)
      /\ \A i \in 1 .. n : q[i] \in Taken(q) /\ q[i].at \in Line /\ q[i] \in Blocks
  BY <1>1, QueueEnds, QueueFits, BlockPlaces
<1>3. PICK at : at = Walked
  OBVIOUS
<1>4. /\ at \in [0 .. MaxLines -> LineOrNil] /\ at[0] = head
      /\ \A k \in 1 .. MaxLines : at[k] = IF at[k - 1] \in {NIL, tail} THEN NIL ELSE next[at[k - 1]]
  BY <1>3, WalkedSteps DEF NVInv
<1>5. n # 0 => head = q[1].at /\ tail = q[n].at
  BY <1>1, QueueEnds
<1>6. n = 0 => head = NIL
  BY <1>1, QueueEnds
<1>7. \A i, j \in 1 .. n : q[i].at = q[j].at => i = j
  <2>1. \A i, j \in 1 .. n : q[i] = q[j] => i = j
    BY <1>1 DEF NVInv, BitmapInv
  <2>2. \A i, j \in 1 .. n : q[i].at = q[j].at => q[i] = q[j]
    BY <1>2, BlockPlaces
  <2> QED
    BY <2>1, <2>2
<1> DEFINE P == {k \in 0 .. MaxLines : at[k] = IF k < n THEN q[k + 1].at ELSE NIL}
<1>8. \A k \in 0 .. MaxLines : k \in P
  <2>1. 0 \in P
    BY <1>2, <1>4, <1>5, <1>6
  <2>2. ASSUME NEW k \in 0 .. MaxLines - 1, k \in P PROVE k + 1 \in P
    <3>1. /\ k + 1 \in 1 .. MaxLines /\ k + 1 \in 0 .. MaxLines /\ (k + 1) - 1 = k
          /\ at[k] = IF k < n THEN q[k + 1].at ELSE NIL
      BY <2>2
    <3>2. at[k + 1] = IF at[k] \in {NIL, tail} THEN NIL ELSE next[at[k]]
      BY <1>4, <3>1
    <3>3. CASE k >= n
      <4>1. at[k] = NIL /\ ~ (k + 1 < n)
        BY <3>1, <3>3, <1>2
      <4> QED
        BY <3>1, <3>2, <4>1
    <3>4. CASE k + 1 = n
      <4>1. k < n /\ at[k] = q[n].at /\ tail = q[n].at
        BY <3>1, <3>4, <1>2, <1>5
      <4> QED
        BY <3>1, <3>2, <3>4, <4>1
    <3>5. CASE k + 1 < n
      <4>1. k < n /\ k + 1 \in 1 .. n - 1 /\ k + 1 \in 1 .. n /\ n \in 1 .. n /\ k + 1 # n
        BY <3>1, <3>5, <1>2
      <4>2. at[k] = q[k + 1].at /\ at[k] # tail /\ at[k] # NIL
        <5>1. at[k] = q[k + 1].at
          BY <3>1, <4>1
        <5>2. q[k + 1].at # q[n].at
          BY <4>1, <1>7
        <5>3. tail = q[n].at
          BY <4>1, <1>5
        <5> QED
          BY <5>1, <5>2, <5>3, <4>1, <1>2
      <4>3. next[q[k + 1].at] = q[(k + 1) + 1].at
        BY <4>1, <1>1 DEF NVInv, IsQueue
      <4> QED
        BY <3>1, <3>2, <3>5, <4>2, <4>3
    <3> QED
      BY <3>3, <3>4, <3>5, <1>2
  <2> HIDE DEF P
  <2>3. \A k \in 0 .. MaxLines - 1 : k \in P => k + 1 \in P
    BY <2>2
  <2> QED
    BY <2>1, <2>3, InductionTo
<1>9. \A k \in 0 .. MaxLines : at[k] = IF k < n THEN q[k + 1].at ELSE NIL
  BY <1>8
<1> HIDE DEF P
<1>10. {k \in DOMAIN at : at[k] # NIL} = 0 .. n - 1
  <2>1. \A k \in 0 .. MaxLines : at[k] # NIL <=> k < n
    <3>1. ASSUME NEW k \in 0 .. MaxLines, k < n PROVE at[k] # NIL
      <4>1. k + 1 \in 1 .. n
        BY <3>1, <1>2
      <4> QED
        BY <4>1, <3>1, <1>2, <1>9
    <3> QED
      BY <3>1, <1>9
  <2> QED
    BY <2>1, <1>2, <1>4
<1>11. Cardinality({k \in DOMAIN at : at[k] # NIL}) = n
  <2>1. Cardinality(0 .. n - 1) = n
    BY <1>2, FS_Interval
  <2> QED
    BY <2>1, <1>10
<1>12. ASSUME NEW i \in 1 .. n PROVE Block(at[i - 1], WaitingLines(hdr[at[i - 1]])) = q[i]
  <2>1. i - 1 \in 0 .. MaxLines /\ i - 1 < n /\ (i - 1) + 1 = i
    BY <1>2
  <2>2. at[i - 1] = q[i].at
    BY <2>1, <1>9
  <2>3. hdr[q[i].at] = WaitingHeader(q[i].lines)
    BY <1>1 DEF NVInv, IsQueue
  <2>4. q[i] \in [at : Line, lines : Nat \ {0}]
    BY <1>2 DEF Blocks
  <2>5. WaitingLines(WaitingHeader(q[i].lines)) = q[i].lines
    BY <2>4, HeaderRead
  <2>6. q[i] = [at |-> q[i].at, lines |-> q[i].lines]
    BY <2>4
  <2> QED
    BY <2>2, <2>3, <2>5, <2>6 DEF Block
<1>13. Queue = [i \in 1 .. n |-> Block(at[i - 1], WaitingLines(hdr[at[i - 1]]))]
  BY <1>3, <1>11 DEF Queue
<1>14. q = [i \in 1 .. n |-> q[i]]
  BY <1>1, <1>2, LenProperties
<1> QED
  BY <1>12, <1>13, <1>14

\* Every line is in one block at most, the bitmap has just those lines, and the
\* queue is whole from head to tail.
THEOREM LinesStayExact == Spec => []LinesExact
<1>1. Init => NVInvariant
  BY NVStart DEF NVInvariant
<1>2. NVInvariant /\ [Next]_vars => NVInvariant'
  BY NVStep DEF NVInvariant
<1>3. NVInvariant => LinesExact
  BY QueueRead DEF NVInvariant, LinesExact
<1> QED
  BY <1>1, <1>2, <1>3, PTL DEF Spec

-----------------------------------------------------------------------------
(* The promise *)

LEMMA QueueReadAfter == (\A q : NVInv(q) => Queue = q)'
<1>1. \A q : NVInv(q) => Queue = q
  BY QueueRead
<1> QED
  BY <1>1, PTL

\* Every step is one of the promise's, or none.
LEMMA HeapStep ==
  ASSUME NEW q, NVInv(q), [Next]_vars
  PROVE  [Heap!Next]_<<held, Queue>>
<1>1. PICK r : NVInv(r)' /\ Moved(q, r)
  BY NVStep
<1>2. Queue = q
  BY QueueRead
<1>3. Queue' = r
  BY <1>1, QueueReadAfter
<1>4. CASE r = q /\ held' = held
  BY <1>2, <1>3, <1>4
<1>5. CASE r = q /\ Added(q)
  <2>1. Heap!Waiting = {q[i] : i \in 1 .. Len(q)}
    BY <1>2 DEF Heap!Waiting
  <2>2. Heap!Malloc
    BY <1>2, <1>3, <1>5, <2>1 DEF Heap!Malloc, Added, Taken
  <2> QED
    BY <2>2 DEF Heap!Next
<1>6. CASE \E b \in held : r = Append(q, b) /\ held' = held \ {b}
  <2>1. \E b \in held : Heap!Free(b)
    BY <1>2, <1>3, <1>6 DEF Heap!Free
  <2> QED
    BY <2>1 DEF Heap!Next
<1>7. CASE q # <<>> /\ r = Tail(q) /\ held' = held
  <2>1. Heap!Release
    BY <1>2, <1>3, <1>7 DEF Heap!Release
  <2> QED
    BY <2>1 DEF Heap!Next
<1> QED
  BY <1>1, <1>4, <1>5, <1>6, <1>7 DEF Moved

\* NVMalloc implements WearHeap: blocks that are held or wait do not meet, and what
\* is freed is used again only after its wait, in the order of freeing.
THEOREM HeapImplemented == Spec => ImplementsWearHeap
<1>1. Init => NVInvariant /\ Heap!Init
  <2> SUFFICES ASSUME Init PROVE NVInvariant /\ Heap!Init
    OBVIOUS
  <2>1. NVInv(<<>>)
    BY NVStart
  <2>2. Queue = <<>>
    BY <2>1, QueueRead
  <2> QED
    BY <2>1, <2>2 DEF NVInvariant, Heap!Init, Init
<1>2. NVInvariant /\ [Next]_vars => NVInvariant'
  BY NVStep DEF NVInvariant
<1>3. NVInvariant /\ [Next]_vars => [Heap!Next]_<<held, Queue>>
  BY HeapStep DEF NVInvariant
<1> QED
  BY <1>1, <1>2, <1>3, PTL DEF Spec, ImplementsWearHeap, Heap!Spec

-----------------------------------------------------------------------------
(* Free regions *)

\* n lines from l on are free in the bitmap t, and no line in front of the end z
\* can be added to them.
FreeRun(t, z, l, n) ==
  /\ l \in Nat /\ n \in Nat \ {0} /\ l + n <= z
  /\ Lines(l, n) \cap t = {}
  /\ l = 0 \/ l - 1 \in t
  /\ l + n = z \/ l + n \in t

LEMMA InLines ==
  ASSUME NEW l \in Nat, NEW n \in Nat, NEW k \in Nat
  PROVE  k \in Lines(l, n) <=> l <= k /\ k < l + n
BY DEF Lines

\* Runs that share a line are the same.
LEMMA SameRun ==
  ASSUME NEW t \in SUBSET Nat, NEW z \in Nat, NEW l, NEW n, NEW a, NEW m,
         FreeRun(t, z, l, n), FreeRun(t, z, a, m), NEW k, k \in Lines(l, n), k \in Lines(a, m)
  PROVE  l = a /\ n = m
<1>1. /\ l \in Nat /\ n \in Nat \ {0} /\ l + n <= z /\ a \in Nat /\ m \in Nat \ {0} /\ a + m <= z
      /\ k \in Nat /\ l <= k /\ k < l + n /\ a <= k /\ k < a + m
  BY DEF FreeRun, Lines
<1>2. /\ \A i \in Nat : l <= i /\ i < l + n => i \notin t
      /\ \A i \in Nat : a <= i /\ i < a + m => i \notin t
  BY <1>1, InLines DEF FreeRun
<1>3. /\ l = 0 \/ l - 1 \in t
      /\ a = 0 \/ a - 1 \in t
      /\ l + n = z \/ l + n \in t
      /\ a + m = z \/ a + m \in t
  BY DEF FreeRun
<1>4. ~ (l < a)
  <2> SUFFICES ASSUME l < a PROVE FALSE
    OBVIOUS
  <2>1. a - 1 \in t /\ a - 1 \in Nat /\ l <= a - 1 /\ a - 1 < l + n
    BY <1>1, <1>3
  <2> QED
    BY <2>1, <1>2
<1>5. ~ (a < l)
  <2> SUFFICES ASSUME a < l PROVE FALSE
    OBVIOUS
  <2>1. l - 1 \in t /\ l - 1 \in Nat /\ a <= l - 1 /\ l - 1 < a + m
    BY <1>1, <1>3
  <2> QED
    BY <2>1, <1>2
<1>6. l = a
  BY <1>1, <1>4, <1>5
<1>7. ~ (n < m)
  <2> SUFFICES ASSUME n < m PROVE FALSE
    OBVIOUS
  <2>1. l + n \in t /\ l + n \in Nat /\ a <= l + n /\ l + n < a + m
    BY <1>1, <1>3, <1>6
  <2> QED
    BY <2>1, <1>2
<1>8. ~ (m < n)
  <2> SUFFICES ASSUME m < n PROVE FALSE
    OBVIOUS
  <2>1. a + m \in t /\ a + m \in Nat /\ l <= a + m /\ a + m < l + n
    BY <1>1, <1>3, <1>6
  <2> QED
    BY <2>1, <1>2
<1> QED
  BY <1>1, <1>6, <1>7, <1>8

\* When the first n lines of a run are taken, the rest is left of it, and other
\* runs stay as they are.
LEMMA RunsAfterCut ==
  ASSUME NEW t \in SUBSET Nat, NEW z \in Nat, NEW a, NEW m, FreeRun(t, z, a, m),
         NEW n \in 1 .. m, NEW l, NEW k, FreeRun(t \cup Lines(a, n), z, l, k)
  PROVE  \/ l = a + n /\ k = m - n
         \/ FreeRun(t, z, l, k) /\ Lines(l, k) \cap Lines(a, m) = {}
<1>1. /\ a \in Nat /\ m \in Nat \ {0} /\ n \in Nat \ {0} /\ n <= m /\ a + m <= z
      /\ l \in Nat /\ k \in Nat \ {0} /\ l + k <= z
  BY DEF FreeRun
<1>2. PICK s : s = t \cup Lines(a, n)
  OBVIOUS
<1>3. \A i \in Nat : i \in s <=> i \in t \/ (a <= i /\ i < a + n)
  BY <1>1, <1>2, InLines
<1>4. /\ \A i \in Nat : a <= i /\ i < a + m => i \notin t
      /\ \A i \in Nat : l <= i /\ i < l + k => i \notin s
  BY <1>1, <1>2, InLines DEF FreeRun
<1>5. /\ a = 0 \/ a - 1 \in t
      /\ a + m = z \/ a + m \in t
      /\ l = 0 \/ l - 1 \in s
      /\ l + k = z \/ l + k \in s
  BY <1>2 DEF FreeRun
<1>6. l + k <= a \/ l >= a + n
  <2> SUFFICES ASSUME l + k > a, l < a + n PROVE FALSE
    BY <1>1
  <2>1. \E i \in Nat : l <= i /\ i < l + k /\ a <= i /\ i < a + n
    <3>1. CASE l <= a
      BY <3>1, <1>1
    <3>2. CASE a < l
      BY <3>2, <1>1
    <3> QED
      BY <3>1, <3>2, <1>1
  <2> QED
    BY <2>1, <1>3, <1>4
<1>7. l + k # a
  <2> SUFFICES ASSUME l + k = a PROVE FALSE
    OBVIOUS
  <2>1. a - 1 \in t /\ a - 1 \in Nat /\ l <= a - 1 /\ a - 1 < l + k
    BY <1>1, <1>5
  <2> QED
    BY <2>1, <1>3, <1>4
<1>8. l + k = z \/ l + k \in t
  BY <1>1, <1>3, <1>5, <1>6, <1>7
<1>9. CASE l = a + n
  <2>1. l - 1 = a + n - 1 /\ n < m
    <3>1. n # m
      <4> SUFFICES ASSUME n = m PROVE FALSE
        OBVIOUS
      <4>1. a + m # z /\ l \in t
        BY <1>1, <1>5, <1>9
      <4> QED
        BY <4>1, <1>1, <1>3, <1>4
    <3> QED
      BY <3>1, <1>1, <1>9
  <2>2. ~ (l + k < a + m)
    BY <2>1, <1>1, <1>4, <1>8, <1>9
  <2>3. ~ (l + k > a + m)
    <3> SUFFICES ASSUME l + k > a + m PROVE FALSE
      OBVIOUS
    <3>1. a + m \in t /\ a + m \in Nat /\ l <= a + m /\ a + m < l + k
      BY <2>1, <1>1, <1>5, <1>9
    <3> QED
      BY <3>1, <1>3, <1>4
  <2>4. l + k = a + m
    BY <2>2, <2>3, <1>1
  <2> QED
    BY <2>4, <1>1, <1>9
<1>10. CASE l # a + n
  <2>1. l = 0 \/ l - 1 \in t
    <3>1. l # 0 => l - 1 \in Nat /\ (l - 1 \in t \/ l - 1 < a)
      BY <1>1, <1>3, <1>5, <1>6, <1>10
    <3>2. l # 0 /\ l - 1 < a => l - 1 \in t
      BY <1>1, <1>3, <1>5, <3>1
    <3> QED
      BY <3>1, <3>2
  <2>2. FreeRun(t, z, l, k)
    <3>1. Lines(l, k) \cap t = {}
      BY <1>2 DEF FreeRun
    <3> QED
      BY <3>1, <2>1, <1>1, <1>8 DEF FreeRun
  <2>3. Lines(l, k) \cap Lines(a, m) = {}
    <3> SUFFICES ASSUME NEW i \in Lines(l, k), i \in Lines(a, m) PROVE FALSE
      OBVIOUS
    <3>1. l = a /\ k = m
      BY <2>2, SameRun
    <3> QED
      BY <3>1, <1>1, <1>6, <1>7
  <2> QED
    BY <2>2, <2>3
<1> QED
  BY <1>9, <1>10

\* When lines are taken from the zone, no run is new.
LEMMA RunsAfterZone ==
  ASSUME NEW t \in SUBSET Nat, NEW z \in Nat, \A i \in t : i < z, z = 0 \/ z - 1 \in t,
         NEW n \in Nat \ {0}, NEW l, NEW k, FreeRun(t \cup Lines(z, n), z + n, l, k)
  PROVE  FreeRun(t, z, l, k)
<1>1. l \in Nat /\ k \in Nat \ {0} /\ l + k <= z + n
  BY DEF FreeRun
<1>2. PICK s : s = t \cup Lines(z, n)
  OBVIOUS
<1>3. \A i \in Nat : i \in s <=> i \in t \/ (z <= i /\ i < z + n)
  BY <1>1, <1>2, InLines
<1>4. \A i \in Nat : l <= i /\ i < l + k => i \notin s
  BY <1>1, <1>2, InLines DEF FreeRun
<1>5. /\ l = 0 \/ l - 1 \in s
      /\ l + k = z + n \/ l + k \in s
      /\ Lines(l, k) \cap t = {}
  BY <1>2 DEF FreeRun
<1>6. l < z
  BY <1>1, <1>3, <1>4
<1>7. l + k <= z
  <2> SUFFICES ASSUME l + k > z PROVE FALSE
    BY <1>1
  <2>1. z \in Nat /\ l <= z /\ z < l + k /\ z \in s
    BY <1>1, <1>3, <1>6
  <2> QED
    BY <2>1, <1>4
<1>8. l = 0 \/ l - 1 \in t
  BY <1>1, <1>3, <1>5, <1>6
<1>9. l + k = z \/ l + k \in t
  BY <1>1, <1>3, <1>5, <1>7
<1> QED
  BY <1>1, <1>5, <1>7, <1>8, <1>9 DEF FreeRun

\* When the end of the zone moves to the front of the lines that are released,
\* no run is new.
LEMMA RunsBeforeZone ==
  ASSUME NEW t \in SUBSET Nat, NEW z \in Nat, NEW s \in SUBSET t, NEW y \in Nat, y <= z,
         y = 0 \/ y - 1 \in s, \A i \in t : i < y => i \in s,
         NEW l, NEW k, FreeRun(s, y, l, k)
  PROVE  FreeRun(t, z, l, k) /\ l + k < y
<1>1. l \in Nat /\ k \in Nat \ {0} /\ l + k <= y
  BY DEF FreeRun
<1>2. \A i \in Nat : l <= i /\ i < l + k => i \notin s
  BY <1>1, InLines DEF FreeRun
<1>3. /\ l = 0 \/ l - 1 \in s
      /\ l + k = y \/ l + k \in s
  BY DEF FreeRun
<1>4. l + k # y
  <2> SUFFICES ASSUME l + k = y PROVE FALSE
    OBVIOUS
  <2>1. y - 1 \in s /\ y - 1 \in Nat /\ l <= y - 1 /\ y - 1 < l + k
    BY <1>1
  <2> QED
    BY <2>1, <1>2
<1>5. \A i \in Nat : l <= i /\ i < l + k => i \notin t
  BY <1>1, <1>2
<1>6. Lines(l, k) \cap t = {}
  BY <1>1, <1>5, InLines
<1> QED
  BY <1>1, <1>3, <1>4, <1>6 DEF FreeRun

\* When lines are released that a new run has all of, other runs stay as they are.
LEMMA RunsAfterRelease ==
  ASSUME NEW s \in SUBSET Nat, NEW z \in Nat, NEW a, NEW m, FreeRun(s, z, a, m),
         NEW t \in SUBSET Nat, s \subseteq t, t \subseteq s \cup Lines(a, m),
         NEW l, NEW k, FreeRun(s, z, l, k)
  PROVE  \/ l = a /\ k = m
         \/ FreeRun(t, z, l, k) /\ Lines(l, k) \cap Lines(a, m) = {}
<1>1. CASE \E i : i \in Lines(l, k) /\ i \in Lines(a, m)
  BY <1>1, SameRun
<1>2. CASE ~ \E i : i \in Lines(l, k) /\ i \in Lines(a, m)
  <2>1. Lines(l, k) \cap Lines(a, m) = {}
    BY <1>2
  <2>2. Lines(l, k) \cap t = {}
    BY <2>1 DEF FreeRun
  <2> QED
    BY <2>1, <2>2 DEF FreeRun
<1> QED
  BY <1>1, <1>2

RegionType == [at : Line, lines : 1 .. MaxLines]

LEMMA RegionIs ==
  ASSUME NEW q, NVInv(q)
  PROVE  \A r : r \in Regions <=> r \in RegionType /\ FreeRun(taken, free_zone, r.at, r.lines)
<1> SUFFICES ASSUME NEW r \in RegionType
             PROVE  r \in Regions <=> FreeRun(taken, free_zone, r.at, r.lines)
  BY DEF Regions, RegionType
<1>1. r.at \in Nat /\ r.lines \in Nat \ {0}
  <2>1. PICK a \in Line, m \in 1 .. MaxLines : a = r.at /\ m = r.lines
    BY DEF RegionType
  <2>2. a \in Nat /\ m \in Nat \ {0}
    BY LineIsNat
  <2> QED
    BY <2>1, <2>2
<1> QED
  BY <1>1 DEF Regions, FreeRun, RegionType

LEMMA RegionIsAfter ==
  (\A q : NVInv(q) =>
     \A r : r \in Regions <=> r \in RegionType /\ FreeRun(taken, free_zone, r.at, r.lines))'
<1>1. \A q : NVInv(q) =>
        \A r : r \in Regions <=> r \in RegionType /\ FreeRun(taken, free_zone, r.at, r.lines)
  BY RegionIs
<1> QED
  BY <1>1, PTL

\* Bitmap and zone, as numbers.
LEMMA BitmapIs ==
  ASSUME NEW q, NVInv(q)
  PROVE  taken \in SUBSET Nat /\ free_zone \in Nat /\ \A l \in taken : l < free_zone
BY LineIsNat, ZoneIsNat DEF NVInv, TypeOK, BitmapInv

\* Two regions that share a line are the same.
LEMMA SameRegion ==
  ASSUME NEW q, NVInv(q), NEW r \in Regions, NEW u \in Regions,
         NEW k, k \in Lines(r.at, r.lines), k \in Lines(u.at, u.lines)
  PROVE  r = u
<1>1. /\ r \in RegionType /\ FreeRun(taken, free_zone, r.at, r.lines)
      /\ u \in RegionType /\ FreeRun(taken, free_zone, u.at, u.lines)
  BY RegionIs
<1>2. taken \in SUBSET Nat /\ free_zone \in Nat
  BY BitmapIs
<1>3. r.at = u.at /\ r.lines = u.lines
  BY <1>1, <1>2, SameRun
<1> QED
  BY <1>1, <1>3 DEF RegionType

\* What is measured around a hint is a region, when there is any, and the hint's own
\* when it leads to a free line.
LEMMA RegionIsOne ==
  ASSUME NEW q, NVInv(q), pc = "search", index <= NR_SIZES, free_lists[index] # <<>>
  PROVE  /\ Region.at \in Nat /\ Region.lines \in Nat
         /\ Region.lines > 0 => Region \in Regions
         /\ LET l == Head(free_lists[index])
            IN  l < free_zone /\ l \notin taken =>
                  Region.lines > 0 /\ l \in Lines(Region.at, Region.lines)
<1>1. PICK l : l = Head(free_lists[index])
  OBVIOUS
<1>2. PICK back : back = IsFreeBackward(taken, l)
  OBVIOUS
<1>3. PICK n : n = IsFreeForward(taken, l)
  OBVIOUS
<1>4. Region = Block(l - back, back + n)
  BY <1>1, <1>2, <1>3 DEF Region
<1>5. Region.at = l - back /\ Region.lines = back + n
  BY <1>4 DEF Block
<1>6. index \in Index
  BY NVAssumption DEF NVInv, TypeOK, Index
<1>7. l \in Line /\ l \in Nat
  <2>1. free_lists[index] \in Seq(Line)
    BY <1>6 DEF NVInv, TypeOK
  <2>2. l \in Line
    BY <2>1, <1>1, HeadTailProperties
  <2> QED
    BY <2>2, LineIsNat
<1>8. taken \in SUBSET Line /\ free_zone \in Nat /\ TypeOK /\ taken \in SUBSET Nat
  BY ZoneIsNat, BitmapIs DEF NVInv, TypeOK
<1>9. l < free_zone => /\ n \in Nat /\ l + n <= free_zone /\ Lines(l, n) \cap taken = {}
                       /\ l + n = free_zone \/ l + n \in taken
  BY <1>3, <1>7, <1>8, ForwardFree
<1>10. l <= free_zone => /\ back \in 0 .. l /\ Lines(l - back, back) \cap taken = {}
                         /\ l - back = 0 \/ l - back - 1 \in taken
  BY <1>2, <1>7, <1>8, BackwardFree
<1>11. ~ (l < free_zone) => n = 0
  BY <1>3 DEF IsFreeForward
<1>12. ~ (l <= free_zone) => back = 0
  BY <1>2, <1>7, <1>8 DEF IsFreeBackward
<1>13. back \in 0 .. l /\ n \in Nat
  BY <1>7, <1>8, <1>9, <1>10, <1>11, <1>12
<1>14. Region.at \in Nat /\ Region.lines \in Nat
  BY <1>5, <1>7, <1>13
<1>15. PICK a : a = l - back
  OBVIOUS
<1>16. a \in Nat /\ back \in Nat /\ a + back = l /\ Region.at = a /\ Region.lines = back + n
  BY <1>5, <1>7, <1>13, <1>15
<1>17. ASSUME back + n > 0 PROVE FreeRun(taken, free_zone, a, back + n)
  <2>1. Lines(a, back + n) = Lines(a, back) \cup Lines(l, n)
    <3>1. Lines(a, back + n) = Lines(a, back) \cup Lines(a + back, n)
      <4>1. a \in Nat /\ back \in Nat /\ n \in Nat
        BY <1>13, <1>16
      <4> QED
        BY <4>1, RunCut
    <3> QED
      BY <3>1, <1>16
  <2>2. l <= free_zone
    BY <1>7, <1>8, <1>11, <1>12, <1>13, <1>17
  <2>3. /\ Lines(a, back) \cap taken = {}
        /\ a = 0 \/ a - 1 \in taken
    BY <2>2, <1>10, <1>15
  <2>4. /\ Lines(l, n) \cap taken = {} /\ l + n <= free_zone
        /\ l + n = free_zone \/ l + n \in taken
    <3>1. CASE l < free_zone
      BY <3>1, <1>9
    <3>2. CASE l = free_zone
      <4>1. n = 0 /\ Lines(l, n) = {} /\ l + n = free_zone
        BY <3>2, <1>7, <1>8, <1>11 DEF Lines
      <4> QED
        BY <4>1, <1>8
    <3> QED
      BY <3>1, <3>2, <2>2, <1>7, <1>8
  <2>5. a + (back + n) = l + n /\ back + n \in Nat \ {0}
    BY <1>13, <1>16, <1>17
  <2> QED
    BY <2>1, <2>3, <2>4, <2>5, <1>16 DEF FreeRun
<1>18. Region.lines > 0 => Region \in Regions
  <2> SUFFICES ASSUME back + n > 0 PROVE Region \in Regions
    BY <1>16
  <2>1. FreeRun(taken, free_zone, a, back + n)
    BY <1>17
  <2>2. a \in Line /\ back + n \in 1 .. MaxLines
    <3>1. a + (back + n) <= free_zone /\ free_zone <= MaxLines /\ back + n \in Nat \ {0}
      BY <2>1, ZoneIsNat, LineIsNat DEF FreeRun
    <3> QED
      BY <3>1, <1>8, <1>16, LineIsNat
  <2>3. Region \in RegionType
    BY <2>2, <1>4, <1>15 DEF RegionType, Block
  <2> QED
    BY <2>1, <2>3, <1>16, RegionIs
<1>19. l < free_zone /\ l \notin taken => Region.lines > 0 /\ l \in Lines(Region.at, Region.lines)
  <2> SUFFICES ASSUME l < free_zone, l \notin taken PROVE back + n > 0 /\ l \in Lines(a, back + n)
    BY <1>16
  <2>1. n # 0
    BY <1>7, <1>8, <1>9
  <2> QED
    BY <2>1, <1>13, <1>16 DEF Lines
<1> QED
  BY <1>1, <1>14, <1>18, <1>19

-----------------------------------------------------------------------------
(* What is known of the free regions *)

\* No free line is next to the zone.
EndsTaken == free_zone = 0 \/ free_zone - 1 \in taken

HintIn(fl, r) ==
  \E k \in 1 .. Len(fl[BestFit(r.lines)]) : fl[BestFit(r.lines)][k] = r.at

\* F is where the headers of the free regions are: each leads to another one, or to
\* the end of its region, and every region begins with one.
HeaderInv(F, p) ==
  \E m \in Nat \ {0} :
    /\ hdr[p] = FreeHeader(m) /\ Lines(p, m) \cap taken = {}
    /\ p + m \in F \/ p + m \in taken
HeadersInv(F) ==
  /\ \A p \in F : p \in Nat /\ p < free_zone /\ p \notin taken /\ HeaderInv(F, p)
  /\ \A r \in Regions : r.at \in F

FreeInv(F) == EndsTaken /\ RegionsHinted /\ HeadersInv(F)

LEMMA HintedIs ==
  RegionsHinted <=> \A r \in Regions : r.lines <= NR_SIZES => HintIn(free_lists, r)
BY DEF RegionsHinted, HintIn

LEMMA HintedIsAfter ==
  (RegionsHinted <=> \A r \in Regions : r.lines <= NR_SIZES => HintIn(free_lists, r))'
BY DEF RegionsHinted, HintIn

\* A step that changes no region: it may take a hint away that is not needed.
LEMMA RegionsStay ==
  ASSUME NEW q, NVInv(q), NEW F, FreeInv(F), taken' = taken, free_zone' = free_zone,
         \A p \in F : hdr'[p] = hdr[p],
         \A r \in Regions : r.lines <= NR_SIZES /\ HintIn(free_lists, r) => HintIn(free_lists', r)
  PROVE  FreeInv(F)'
<1>1. Regions' = Regions
  BY DEF Regions
<1>2. EndsTaken'
  BY DEF FreeInv, EndsTaken
<1>3. RegionsHinted'
  <2>1. \A r \in Regions : r.lines <= NR_SIZES => HintIn(free_lists, r)
    BY HintedIs DEF FreeInv
  <2> QED
    BY <2>1, <1>1, HintedIsAfter
<1>4. HeadersInv(F)'
  <2>1. \A p \in F : HeaderInv(F, p)'
    BY DEF FreeInv, HeadersInv, HeaderInv
  <2> QED
    BY <2>1, <1>1 DEF FreeInv, HeadersInv
<1> QED
  BY <1>2, <1>3, <1>4 DEF FreeInv

\* A hint more loses none.
LEMMA HintStays ==
  ASSUME NEW fl \in [Index -> Seq(Line)], NEW n \in Nat \ {0}, NEW l \in Line,
         NEW r, r.lines \in Nat \ {0}
  PROVE  /\ HintIn(fl, r) => HintIn(Hinted(fl, n, l), r)
         /\ r.at = l /\ r.lines = n => HintIn(Hinted(fl, n, l), r)
<1>1. PICK i, j : i = BestFit(r.lines) /\ j = BestFit(n)
  OBVIOUS
<1>2. i \in Index /\ j \in Index
  BY <1>1, ListOfSize
<1>3. PICK fm : fm = Hinted(fl, n, l)
  OBVIOUS
<1>4. fm[j] = Append(fl[j], l) /\ \A h \in Index \ {j} : fm[h] = fl[h]
  <2>1. /\ Hinted(fl, n, l)[BestFit(n)] = Append(fl[BestFit(n)], l)
        /\ \A h \in Index \ {BestFit(n)} : Hinted(fl, n, l)[h] = fl[h]
    BY HintAdded
  <2> QED
    BY <2>1, <1>1, <1>3
<1>5. fl[j] \in Seq(Line)
  BY <1>2
<1>6. /\ Len(fm[j]) = Len(fl[j]) + 1 /\ Len(fl[j]) \in Nat
      /\ fm[j][Len(fl[j]) + 1] = l /\ \A k \in 1 .. Len(fl[j]) : fm[j][k] = fl[j][k]
  BY <1>4, <1>5, AppendProperties, LenProperties
<1>7. ASSUME HintIn(fl, r) PROVE HintIn(fm, r)
  <2>1. PICK k \in 1 .. Len(fl[i]) : fl[i][k] = r.at
    BY <1>1, <1>7 DEF HintIn
  <2>2. k \in 1 .. Len(fm[i]) /\ fm[i][k] = r.at
    <3>1. CASE i = j
      BY <3>1, <2>1, <1>6
    <3>2. CASE i # j
      BY <3>2, <2>1, <1>2, <1>4
    <3> QED
      BY <3>1, <3>2
  <2> QED
    BY <2>2, <1>1 DEF HintIn
<1>8. ASSUME r.at = l, r.lines = n PROVE HintIn(fm, r)
  <2>1. i = j /\ Len(fl[j]) + 1 \in 1 .. Len(fm[j])
    BY <1>1, <1>6, <1>8
  <2> QED
    BY <2>1, <1>1, <1>6, <1>8 DEF HintIn
<1> QED
  BY <1>3, <1>7, <1>8

\* Only a region that begins at the hint that is taken away can miss it.
LEMMA HintPopped ==
  ASSUME TypeOK, index \in Index, free_lists[index] # <<>>,
         NEW r, r.lines \in Nat \ {0}, HintIn(free_lists, r),
         ~ (BestFit(r.lines) = index /\ r.at = Head(free_lists[index]))
  PROVE  HintIn(Popped, r)
<1>1. PICK i : i = BestFit(r.lines)
  OBVIOUS
<1>2. i \in Index
  BY <1>1, ListOfSize
<1>3. PICK k \in 1 .. Len(free_lists[i]) : free_lists[i][k] = r.at
  BY <1>1 DEF HintIn
<1>4. CASE i # index
  <2>1. Popped[i] = free_lists[i]
    BY <1>2, <1>4, HintGone
  <2> QED
    BY <2>1, <1>1, <1>3 DEF HintIn
<1>5. CASE i = index
  <2>1. PICK h : h = free_lists[index]
    OBVIOUS
  <2>2. h \in Seq(Line) /\ h # <<>>
    BY <2>1 DEF TypeOK
  <2>3. /\ Head(h) = h[1] /\ Len(Tail(h)) = Len(h) - 1 /\ Len(h) \in Nat
        /\ \A j \in 1 .. Len(Tail(h)) : Tail(h)[j] = h[j + 1]
    BY <2>2, HeadTailProperties, LenProperties
  <2>4. k # 1
    BY <2>1, <2>3, <1>1, <1>3, <1>5
  <2>5. k - 1 \in 1 .. Len(Tail(h)) /\ (k - 1) + 1 = k
    BY <2>1, <2>3, <2>4, <1>3, <1>5
  <2>6. Tail(h)[k - 1] = h[k]
    BY <2>3, <2>5
  <2>7. Popped[index] = Tail(h)
    BY <2>1, HintGone
  <2> QED
    BY <2>1, <2>5, <2>6, <2>7, <1>1, <1>3, <1>5 DEF HintIn
<1> QED
  BY <1>4, <1>5

-----------------------------------------------------------------------------
(* The way through a region *)

LEMMA Divides ==
  ASSUME NEW a \in Nat, NEW b \in Nat \ {0}
  PROVE  (- (b * a)) % b = 0
OBVIOUS

LEMMA FreeHeaderRead ==
  ASSUME NEW m \in Nat \ {0}
  PROVE  FreeLines(FreeHeader(m)) = m
<1> BASE \in Nat \ {0}
  BY NVAssumption
<1>1. (BASE * m) \div BASE = m /\ BASE * m \in Nat /\ BASE * m > 0
  BY Quotient
<1>2. (- (BASE * m)) % BASE = 0
  BY Divides
<1>3. PICK h : h = FreeHeader(m)
  OBVIOUS
<1>4. h = - (BASE * m) /\ h < 0 /\ - h = BASE * m
  BY <1>1, <1>3 DEF FreeHeader
<1>5. h % BASE = 0 /\ (- h) \div BASE = m
  BY <1>1, <1>2, <1>4
<1> QED
  BY <1>3, <1>4, <1>5 DEF FreeLines

\* The lines of a region, and what bounds it.
LEMMA RegionFacts ==
  ASSUME NEW q, NVInv(q), NEW F, FreeInv(F), NEW r \in Regions
  PROVE  /\ r.at \in Nat /\ r.lines \in Nat \ {0} /\ r.at + r.lines < free_zone
         /\ r.at + r.lines \in taken
         /\ \A i \in Nat : r.at <= i /\ i < r.at + r.lines => i \notin taken
         /\ r.at = 0 \/ r.at - 1 \in taken
<1>1. FreeRun(taken, free_zone, r.at, r.lines)
  BY RegionIs
<1>2. taken \in SUBSET Nat /\ free_zone \in Nat
  BY BitmapIs
<1>3. /\ r.at \in Nat /\ r.lines \in Nat \ {0} /\ r.at + r.lines <= free_zone
      /\ Lines(r.at, r.lines) \cap taken = {}
      /\ r.at = 0 \/ r.at - 1 \in taken
      /\ r.at + r.lines = free_zone \/ r.at + r.lines \in taken
  BY <1>1 DEF FreeRun
<1>4. PICK a \in Nat, m \in Nat \ {0} : a = r.at /\ m = r.lines
  BY <1>3
<1>5. \A i \in Nat : a <= i /\ i < a + m => i \notin taken
  BY <1>3, <1>4, InLines
<1>6. a + m # free_zone
  <2> SUFFICES ASSUME a + m = free_zone PROVE FALSE
    OBVIOUS
  <2>1. free_zone - 1 \in taken /\ free_zone - 1 \in Nat
    BY <1>2, <1>4 DEF FreeInv, EndsTaken
  <2> QED
    BY <2>1, <1>4, <1>5
<1> QED
  BY <1>2, <1>3, <1>4, <1>5, <1>6

\* Each header leads on within its region, or to its end.
LEMMA HeaderLeads ==
  ASSUME NEW q, NVInv(q), NEW F, FreeInv(F), NEW r \in Regions,
         NEW end, end = r.at + r.lines, NEW l \in F, r.at <= l, l < end
  PROVE  \E m \in Nat \ {0} : m = FreeLines(hdr[l]) /\ l + m <= end /\ (l + m = end \/ l + m \in F)
<1>1. PICK a \in Nat, n \in Nat \ {0} : a = r.at /\ n = r.lines
  BY RegionFacts
<1>2. a + n \in taken /\ \A i \in Nat : a <= i /\ i < a + n => i \notin taken
  BY <1>1, RegionFacts
<1>3. l \in Nat /\ HeaderInv(F, l)
  BY DEF FreeInv, HeadersInv
<1>4. PICK m \in Nat \ {0} : /\ hdr[l] = FreeHeader(m) /\ Lines(l, m) \cap taken = {}
                             /\ l + m \in F \/ l + m \in taken
  BY <1>3 DEF HeaderInv
<1>5. FreeLines(hdr[l]) = m
  BY <1>4, FreeHeaderRead
<1>6. l + m <= a + n
  <2> SUFFICES ASSUME l + m > a + n PROVE FALSE
    BY <1>1, <1>3
  <2>1. a + n \in Lines(l, m)
    BY <1>1, <1>3 DEF Lines
  <2> QED
    BY <2>1, <1>2, <1>4
<1>7. l + m = a + n \/ l + m \in F
  BY <1>1, <1>2, <1>3, <1>4, <1>6
<1>8. end = a + n
  BY <1>1
<1> QED
  BY <1>5, <1>6, <1>7, <1>8

\* The walk over the headers of a region stays in it, and gets to its end.
LEMMA HeadersLead ==
  ASSUME NEW q, NVInv(q), NEW F, FreeInv(F), NEW r \in Regions
  PROVE  /\ r.at + r.lines \in Headers(r)
         /\ \A l \in Headers(r) : l = r.at + r.lines \/ l \in F
<1>1. PICK a \in Nat, n \in Nat \ {0} : a = r.at /\ n = r.lines
  BY RegionFacts
<1>2. PICK end : end = r.at + r.lines
  OBVIOUS
<1>3. end = a + n /\ end \in Nat
  BY <1>1, <1>2
<1> DEFINE Far(l) == IF l < end /\ FreeLines(hdr[l]) \in 1 .. end - l THEN l + FreeLines(hdr[l]) ELSE l
           G == [k \in 1 .. n |-> [l \in Nat |-> Far(l)]]
<1>4. G \in StepsOn(n, Nat)
  <2>1. ASSUME NEW l \in Nat PROVE Far(l) \in Nat
    <3>1. \A i \in 1 .. end - l : l + i \in Nat
      BY <1>3
    <3> QED
      BY <3>1
  <2> HIDE DEF Far
  <2> QED
    BY <2>1 DEF StepsOn
<1>5. PICK f : IsRun(f, n, Nat, a, G)
  <2> HIDE DEF G
  <2> QED
    BY <1>1, <1>4, Iteration
<1>6. f \in [0 .. n -> Nat] /\ f[0] = a /\ \A k \in 1 .. n : f[k] = G[k][f[k - 1]]
  <2> HIDE DEF G
  <2> QED
    BY <1>5 DEF IsRun
<1>7. \A k \in 1 .. n : f[k - 1] \in Nat
  BY <1>6
<1>8. \A k \in 1 .. n : f[k] = Far(f[k - 1])
  <2> HIDE DEF Far
  <2> QED
    BY <1>6, <1>7
<1> HIDE DEF G
<1> DEFINE Def(g) == g = [k \in 0 .. n |-> IF k = 0 THEN a ELSE Far(g[k - 1])]
<1>9. Def(f)
  <2> HIDE DEF Far
  <2> QED
    BY <1>1, <1>6, <1>8
<1>10. PICK w : w = CHOOSE g : Def(g)
  OBVIOUS
<1>11. Def(w)
  <2> HIDE DEF Def
  <2> QED
    BY <1>9, <1>10
<1>12. Headers(r) = {w[k] : k \in 0 .. n}
  BY <1>1, <1>2, <1>10 DEF Headers
<1>13. w[0] = a /\ \A k \in 1 .. n : w[k] = Far(w[k - 1])
  <2> HIDE DEF Far
  <2>1. 0 \in 0 .. n /\ \A k \in 1 .. n : k \in 0 .. n /\ k # 0
    BY <1>1
  <2> QED
    BY <1>11, <2>1
<1> HIDE DEF Def
<1> DEFINE P == {k \in 0 .. n : \/ w[k] = end
                                \/ w[k] \in F /\ w[k] \in Nat /\ a + k <= w[k] /\ w[k] < end}
<1>14. \A k \in 0 .. n : k \in P
  <2>1. 0 \in P
    <3>1. a \in F
      BY <1>1 DEF FreeInv, HeadersInv
    <3> QED
      BY <3>1, <1>1, <1>3, <1>13
  <2>2. ASSUME NEW k \in 0 .. n - 1, k \in P PROVE k + 1 \in P
    <3>1. k + 1 \in 1 .. n /\ k + 1 \in 0 .. n /\ (k + 1) - 1 = k
      BY <1>1
    <3>2. w[k + 1] = Far(w[k])
      <4> HIDE DEF Far
      <4> QED
        BY <3>1, <1>13
    <3>3. CASE w[k] = end
      BY <3>1, <3>2, <3>3, <1>3
    <3>4. CASE w[k] # end
      <4>1. PICK l \in Nat : l = w[k] /\ l \in F /\ a + k <= l /\ l < end
        BY <2>2, <3>4
      <4>2. r.at <= l /\ l < r.at + r.lines
        BY <4>1, <1>1, <1>2
      <4>3. PICK m : m = FreeLines(hdr[l])
        OBVIOUS
      <4>4. m \in 1 .. end - l /\ (l + m = end \/ l + m \in F)
        <5>1. l \in F /\ end = r.at + r.lines
          BY <4>1, <1>1, <1>2
        <5>2. PICK j \in Nat \ {0} : j = FreeLines(hdr[l]) /\ l + j <= end
                                     /\ (l + j = end \/ l + j \in F)
          BY <5>1, <4>1, <4>2, HeaderLeads
        <5>3. m = j /\ m \in 1 .. end - l
          BY <5>2, <4>1, <4>3, <1>3
        <5> QED
          BY <5>2, <5>3
      <4>5. w[k + 1] = l + m
        BY <3>2, <4>1, <4>3, <4>4
      <4> QED
        BY <3>1, <4>1, <4>4, <4>5, <1>1, <1>3
    <3> QED
      BY <3>3, <3>4
  <2> HIDE DEF P
  <2>3. \A k \in 0 .. n - 1 : k \in P => k + 1 \in P
    BY <2>2
  <2> QED
    BY <2>1, <2>3, <1>1, InductionTo
<1>15. \A k \in 0 .. n : w[k] = end \/ w[k] \in F
  BY <1>14
<1>16. w[n] = end
  <2>1. n \in 0 .. n
    BY <1>1
  <2>2. w[n] = end \/ (w[n] \in Nat /\ a + n <= w[n] /\ w[n] < end)
    BY <2>1, <1>14
  <2> QED
    BY <2>2, <1>3
<1> QED
  BY <1>1, <1>2, <1>12, <1>15, <1>16

\* A header outside a region does not lead into it.
LEMMA HeaderElsewhere ==
  ASSUME NEW q, NVInv(q), NEW F, FreeInv(F), NEW r \in Regions,
         NEW p \in F, p \notin Lines(r.at, r.lines)
  PROVE  \E k \in Nat \ {0} :
           /\ hdr[p] = FreeHeader(k)
           /\ Lines(p, k) \cap taken = {} /\ Lines(p, k) \cap Lines(r.at, r.lines) = {}
           /\ (p + k \in F /\ p + k \notin Lines(r.at, r.lines)) \/ p + k \in taken
<1>1. PICK a \in Nat, m \in Nat \ {0} : a = r.at /\ m = r.lines
  BY RegionFacts
<1>2. /\ a = 0 \/ a - 1 \in taken
      /\ a + m \in taken
  BY <1>1, RegionFacts
<1>3. p \in Nat /\ HeaderInv(F, p)
  BY DEF FreeInv, HeadersInv
<1>4. PICK k \in Nat \ {0} : /\ hdr[p] = FreeHeader(k) /\ Lines(p, k) \cap taken = {}
                             /\ p + k \in F \/ p + k \in taken
  BY <1>3 DEF HeaderInv
<1>5. p < a \/ p >= a + m
  BY <1>1, <1>3, InLines
<1>6. p < a => p + k < a
  <2> SUFFICES ASSUME p < a, p + k >= a PROVE FALSE
    BY <1>1, <1>3
  <2>1. a - 1 \in taken /\ a - 1 \in Lines(p, k)
    BY <1>1, <1>2, <1>3 DEF Lines
  <2> QED
    BY <2>1, <1>4
<1>7. p + k < a \/ p >= a + m
  BY <1>5, <1>6
<1>8. p + k \notin Lines(a, m) /\ Lines(p, k) \cap Lines(a, m) = {}
  BY <1>1, <1>3, <1>7 DEF Lines
<1> QED
  BY <1>1, <1>4, <1>8

LEMMA HeadersAreExact ==
  ASSUME NEW q, NVInv(q), NEW F, FreeInv(F)
  PROVE  HeadersExact
<1> SUFFICES ASSUME NEW r \in Regions
             PROVE  r.at + r.lines \in Headers(r) /\ r.at + r.lines # free_zone
  BY DEF HeadersExact
<1>1. r.at + r.lines \in taken
  BY RegionFacts
<1>2. r.at + r.lines # free_zone
  BY <1>1, BitmapIs
<1> QED
  BY <1>2, HeadersLead

-----------------------------------------------------------------------------
(* Steps and the free regions *)

\* A hint that is dropped is not the one of a region that would do.
LEMMA DropHintRegions ==
  ASSUME NEW q, NVInv(q), NEW F, FreeInv(F), DropHint
  PROVE  FreeInv(F)'
<1>1. /\ pc = "search" /\ index <= NR_SIZES /\ free_lists[index] # <<>>
      /\ Region.lines < need /\ free_lists' = Popped
      /\ taken' = taken /\ free_zone' = free_zone /\ hdr' = hdr
  BY DEF DropHint, zone
<1>2. index \in Index /\ TypeOK
  BY <1>1, NVAssumption DEF NVInv, TypeOK, Index
<1>3. PICK l : l = Head(free_lists[index])
  OBVIOUS
<1>4. ASSUME NEW r \in Regions, r.lines <= NR_SIZES, HintIn(free_lists, r)
      PROVE  HintIn(free_lists', r)
  <2>1. r.lines \in Nat \ {0} /\ r.at \in Nat /\ r.at < free_zone /\ r.at \notin taken
    <3>1. PICK a \in Nat, n \in Nat \ {0} : a = r.at /\ n = r.lines
      BY RegionFacts
    <3>2. a + n < free_zone /\ a \notin taken
      BY <3>1, RegionFacts
    <3> QED
      BY <3>1, <3>2, BitmapIs
  <2>2. ~ (BestFit(r.lines) = index /\ r.at = l)
    <3> SUFFICES ASSUME BestFit(r.lines) = index, r.at = l PROVE FALSE
      OBVIOUS
    <3>1. Region \in Regions /\ l \in Lines(Region.at, Region.lines)
      BY <2>1, <1>1, <1>3, RegionIsOne
    <3>2. l \in Lines(r.at, r.lines)
      BY <2>1 DEF Lines
    <3>3. Region = r
      BY <3>1, <3>2, SameRegion
    <3>4. BestFit(need) <= index /\ need \in Nat \ {0}
      BY <1>1, LinesPositive DEF NVInv, SearchInv
    <3>5. r.lines < need
      BY <3>3, <1>1
    <3> QED
      BY <3>4, <3>5, <2>1, <1>4, NVAssumption DEF BestFit
  <2> QED
    BY <2>1, <2>2, <1>1, <1>2, <1>3, <1>4, HintPopped
<1> QED
  BY <1>1, <1>4, RegionsStay

\* The rest of the region that is cut gets a hint and a header, unless one began
\* there; other regions do not change.
LEMMA TakeHintRegions ==
  ASSUME NEW q, NVInv(q), NVInv(q)', NEW F, FreeInv(F), TakeHint
  PROVE  \E G : FreeInv(G)'
<1>1. /\ pc = "search" /\ index <= NR_SIZES /\ free_lists[index] # <<>>
      /\ free_zone' = free_zone /\ need <= Region.lines
  <2>1. PICK n, m : n = need /\ m = Region.lines
    OBVIOUS
  <2>2. pc = "search" /\ index <= NR_SIZES /\ free_lists[index] # <<>> /\ m >= n
    BY <2>1 DEF TakeHint
  <2>3. m >= n <=> n <= m
    OBVIOUS
  <2> QED
    BY <2>1, <2>2, <2>3 DEF TakeHint, zone
<1>2. need \in Nat \ {0}
  BY <1>1, LinesPositive DEF NVInv, SearchInv
<1>3. PICK a, m : a = Region.at /\ m = Region.lines
  OBVIOUS
<1>4. a \in Nat /\ m \in Nat \ {0} /\ need \in 1 .. m
  BY <1>1, <1>2, <1>3, RegionIsOne
<1>5. Region \in Regions
  BY <1>1, <1>3, <1>4, RegionIsOne
<1>6. PICK r \in Regions : r = Region
  BY <1>5
<1>7. FreeRun(taken, free_zone, a, m)
  BY <1>3, <1>6, RegionIs
<1>8. /\ taken' = taken \cup Lines(a, need)
      /\ free_lists' = IF m = need THEN Popped ELSE Hinted(Popped, m - need, a + need)
      /\ hdr' = [i \in Line |-> IF i = a THEN AllocatedHeader(need)
                                ELSE IF i \in Lines(a, need) THEN Junk ELSE Cut(r)[i]]
  BY <1>3, <1>6 DEF TakeHint, HandOut, MakeOne
<1>9. taken \in SUBSET Nat /\ free_zone \in Nat /\ \A i \in taken : i < free_zone
  BY BitmapIs
<1>10. ASSUME NEW u \in Regions'
       PROVE  \/ u.at = a + need /\ u.lines = m - need
              \/ u \in Regions /\ Lines(u.at, u.lines) \cap Lines(a, m) = {}
  <2>1. u \in RegionType /\ FreeRun(taken', free_zone', u.at, u.lines)
    BY RegionIsAfter
  <2>2. FreeRun(taken \cup Lines(a, need), free_zone, u.at, u.lines)
    BY <2>1, <1>1, <1>8
  <2>3. PICK b, n : b = u.at /\ n = u.lines
    OBVIOUS
  <2>4. \/ b = a + need /\ n = m - need
        \/ FreeRun(taken, free_zone, b, n) /\ Lines(b, n) \cap Lines(a, m) = {}
    BY <2>2, <2>3, <1>4, <1>7, <1>9, RunsAfterCut
  <2> QED
    BY <2>1, <2>3, <2>4, RegionIs
<1>11. /\ a + m < free_zone /\ a + m \in taken
       /\ \A i \in Nat : a <= i /\ i < a + m => i \notin taken
       /\ a = 0 \/ a - 1 \in taken
  BY <1>3, <1>6, RegionFacts
<1>12. EndsTaken'
  BY <1>1, <1>8 DEF FreeInv, EndsTaken
<1>13. RegionsHinted'
  <2> SUFFICES ASSUME NEW u \in Regions', u.lines <= NR_SIZES PROVE HintIn(free_lists', u)
    BY HintedIsAfter
  <2>1. index \in Index /\ TypeOK
    <3>1. TypeOK
      BY DEF NVInv
    <3>2. index \in 0 .. NR_SIZES + 1
      BY <3>1 DEF TypeOK
    <3> QED
      BY <3>1, <3>2, <1>1, NVAssumption DEF Index
  <2>2. Popped \in [Index -> Seq(Line)]
    BY <2>1, <1>1, HintGone
  <2>3. u.lines \in Nat \ {0} /\ u.at \in Nat
    BY RegionIsAfter DEF FreeRun
  <2>4. m # need => m - need \in Nat \ {0} /\ a + need \in Line
    BY <1>2, <1>4, <1>9, <1>11, ZoneIsNat, LineIsNat
  <2>5. CASE u.at = a + need /\ u.lines = m - need
    <3>1. m # need
      BY <2>3, <2>5, <1>2, <1>4
    <3>2. PICK n, l : n = m - need /\ l = a + need
      OBVIOUS
    <3>3. HintIn(Hinted(Popped, n, l), u)
      BY <2>2, <2>3, <2>4, <2>5, <3>1, <3>2, HintStays
    <3> QED
      BY <3>1, <3>2, <3>3, <1>8
  <2>6. CASE u \in Regions /\ Lines(u.at, u.lines) \cap Lines(a, m) = {}
    <3>1. HintIn(free_lists, u)
      BY <2>6, HintedIs DEF FreeInv
    <3>2. u.at # Head(free_lists[index])
      <4> SUFFICES ASSUME u.at = Head(free_lists[index]) PROVE FALSE
        OBVIOUS
      <4>1. u.at < free_zone /\ u.at \notin taken /\ u.at \in Lines(u.at, u.lines)
        <5>1. PICK b \in Nat, n \in Nat \ {0} : b = u.at /\ n = u.lines
          BY <2>3
        <5>2. b + n < free_zone /\ b \notin taken
          BY <5>1, <2>6, RegionFacts
        <5> QED
          BY <5>1, <5>2, <1>9 DEF Lines
      <4>2. u.at \in Lines(a, m)
        BY <4>1, <1>1, <1>3, RegionIsOne
      <4> QED
        BY <4>1, <4>2, <2>6
    <3>3. HintIn(Popped, u)
      BY <2>1, <2>3, <3>1, <3>2, <1>1, HintPopped
    <3>4. CASE m = need
      BY <3>3, <3>4, <1>8
    <3>5. CASE m # need
      <4>1. PICK n, l : n = m - need /\ l = a + need
        OBVIOUS
      <4>2. HintIn(Hinted(Popped, n, l), u)
        BY <2>2, <2>3, <2>4, <3>3, <3>5, <4>1, HintStays
      <4> QED
        BY <3>5, <4>1, <4>2, <1>8
    <3> QED
      BY <3>4, <3>5
  <2> QED
    BY <2>5, <2>6, <1>10
<1>14. PICK c : c = a + need
  OBVIOUS
<1>15. PICK end : end = a + m
  OBVIOUS
<1>16. c \in Nat /\ end \in Nat /\ a < c /\ c <= end /\ (m = need <=> c = end)
  BY <1>4, <1>14, <1>15
<1>17. /\ \A p \in F : p \in Nat /\ p < free_zone /\ p \notin taken /\ HeaderInv(F, p)
       /\ \A u \in Regions : u.at \in F
  BY DEF FreeInv, HeadersInv
<1> DEFINE Others == {p \in F : p \notin Lines(a, m)}
           Kept == {p \in F : c <= p /\ p < end}
<1>18. \A i \in Nat : i \in taken' <=> i \in taken \/ (a <= i /\ i < c)
  BY <1>4, <1>8, <1>14, InLines
<1>19. taken' \in SUBSET Nat
  BY <1>4, <1>8, <1>9 DEF Lines
\* What is written to the header of a free line.
<1>20. ASSUME NEW p \in Nat, p < free_zone, ~ (a <= p /\ p < c)
       PROVE  hdr'[p] = Cut(r)[p]
  <2>1. p \in Line /\ p \notin Lines(a, need)
    BY <1>4, <1>9, <1>14, <1>20, ZoneIsNat, LineIsNat, InLines
  <2>2. p # a
    BY <1>16, <1>20
  <2> QED
    BY <2>1, <2>2, <1>8
\* Headers elsewhere stay, and so does where they lead.
<1>21. ASSUME NEW G, NEW p \in Others, Others \subseteq G, Cut(r)[p] = hdr[p]
       PROVE  p \in Nat /\ p < free_zone /\ p \notin taken' /\ HeaderInv(G, p)'
  <2>1. p \in F /\ p \notin Lines(a, m) /\ p \in Nat /\ p < free_zone /\ p \notin taken
    BY <1>17
  <2>2. PICK k \in Nat \ {0} :
          /\ hdr[p] = FreeHeader(k)
          /\ Lines(p, k) \cap taken = {} /\ Lines(p, k) \cap Lines(a, m) = {}
          /\ (p + k \in F /\ p + k \notin Lines(a, m)) \/ p + k \in taken
    BY <2>1, <1>3, <1>6, HeaderElsewhere
  <2>3. ~ (a <= p /\ p < c)
    BY <2>1, <1>4, <1>14, <1>16, <1>15, InLines
  <2>4. hdr'[p] = FreeHeader(k)
    BY <2>1, <2>2, <2>3, <1>20, <1>21
  <2>5. Lines(a, need) \subseteq Lines(a, m)
    BY <1>4 DEF Lines
  <2>6. Lines(p, k) \cap taken' = {} /\ p \notin taken'
    BY <2>1, <2>2, <2>5, <1>8
  <2>7. p + k \in G \/ p + k \in taken'
    BY <2>2, <1>8, <1>21
  <2> QED
    BY <2>1, <2>4, <2>6, <2>7 DEF HeaderInv
<1>22. \A u \in Regions' : u.at # c => u.at \in Others
  <2> SUFFICES ASSUME NEW u \in Regions', u.at # c PROVE u.at \in Others
    OBVIOUS
  <2>1. u \in Regions /\ Lines(u.at, u.lines) \cap Lines(a, m) = {}
    BY <1>10, <1>14
  <2>2. u.at \in Lines(u.at, u.lines)
    <3>1. PICK b \in Nat, n \in Nat \ {0} : b = u.at /\ n = u.lines
      BY <2>1, RegionFacts
    <3> QED
      BY <3>1 DEF Lines
  <2> QED
    BY <2>1, <2>2, <1>17
<1>23. \A u \in Regions' : u.at = c => c # end
  <2> SUFFICES ASSUME NEW u \in Regions', u.at = end PROVE FALSE
    BY <1>16
  <2>1. FreeRun(taken', free_zone', u.at, u.lines)
    BY RegionIsAfter
  <2>2. u.at \in Lines(u.at, u.lines) /\ u.at \notin taken'
    <3>1. u.at \in Nat /\ u.lines \in Nat \ {0} /\ Lines(u.at, u.lines) \cap taken' = {}
      BY <2>1 DEF FreeRun
    <3>2. u.at \in Lines(u.at, u.lines)
      BY <3>1 DEF Lines
    <3> QED
      BY <3>1, <3>2
  <2> QED
    BY <2>2, <1>8, <1>11, <1>15
<1>24. CASE m = need
  <2>1. Cut(r) = hdr
    BY <1>3, <1>6, <1>24 DEF Cut
  <2>2. \A u \in Regions' : u.at \in Others
    BY <1>16, <1>22, <1>23, <1>24
  <2>3. \A p \in Others : p \in Nat /\ p < free_zone /\ p \notin taken' /\ HeaderInv(Others, p)'
    BY <2>1, <1>21
  <2>4. HeadersInv(Others)'
    <3> HIDE DEF Others
    <3> QED
      BY <2>2, <2>3, <1>1 DEF HeadersInv
  <2> QED
    BY <2>4, <1>12, <1>13 DEF FreeInv
<1>25. CASE m # need /\ c \in Headers(r)
  <2>1. Cut(r) = hdr
    BY <1>3, <1>6, <1>14, <1>25 DEF Cut
  <2>2. c \in F
    <3>1. c = r.at + r.lines \/ c \in F
      BY <1>25, HeadersLead
    <3> QED
      BY <3>1, <1>3, <1>6, <1>15, <1>16, <1>25
  <2> DEFINE G == Others \cup Kept
  <2>3. ASSUME NEW p \in Kept
        PROVE  p \in Nat /\ p < free_zone /\ p \notin taken' /\ HeaderInv(G, p)'
    <3>1. p \in F /\ p \in Nat /\ c <= p /\ p < end /\ p < free_zone /\ p \notin taken /\ HeaderInv(F, p)
      BY <1>17
    <3>2. PICK k \in Nat \ {0} : /\ hdr[p] = FreeHeader(k) /\ Lines(p, k) \cap taken = {}
                                 /\ p + k \in F \/ p + k \in taken
      BY <3>1 DEF HeaderInv
    <3>3. k = FreeLines(hdr[p])
      BY <3>2, FreeHeaderRead
    <3>4. p + k <= end /\ (p + k = end \/ p + k \in F)
      <4>1. r.at <= p /\ end = r.at + r.lines
        BY <3>1, <1>3, <1>4, <1>6, <1>15, <1>16
      <4> QED
        BY <4>1, <3>1, <3>3, HeaderLeads
    <3>5. hdr'[p] = FreeHeader(k)
      BY <3>1, <3>2, <2>1, <1>16, <1>20
    <3>6. Lines(p, k) \cap taken' = {} /\ p \notin taken'
      <4>1. Lines(p, k) \cap Lines(a, need) = {} /\ p \notin Lines(a, need)
        BY <3>1, <1>4, <1>14 DEF Lines
      <4> QED
        BY <4>1, <3>1, <3>2, <1>8
    <3>7. p + k \in G \/ p + k \in taken'
      <4>1. CASE p + k = end
        BY <4>1, <1>8, <1>11, <1>15
      <4>2. CASE p + k # end
        BY <4>2, <3>1, <3>4, <1>16
      <4> QED
        BY <4>1, <4>2
    <3> HIDE DEF G
    <3> QED
      BY <3>1, <3>5, <3>6, <3>7 DEF HeaderInv
  <2>4. \A p \in Others : p \in Nat /\ p < free_zone /\ p \notin taken' /\ HeaderInv(G, p)'
    BY <2>1, <1>21
  <2>5. \A u \in Regions' : u.at \in G
    BY <2>2, <1>16, <1>22, <1>23
  <2>6. HeadersInv(G)'
    <3>1. \A p \in G : p \in Nat /\ p < free_zone' /\ p \notin taken' /\ HeaderInv(G, p)'
      <4>1. \A p \in G : p \in Others \/ p \in Kept
        OBVIOUS
      <4> HIDE DEF G, Others, Kept
      <4> QED
        BY <4>1, <2>3, <2>4, <1>1
    <3> HIDE DEF G
    <3> QED
      BY <3>1, <2>5 DEF HeadersInv
  <2> QED
    BY <2>6, <1>12, <1>13 DEF FreeInv
<1>26. CASE m # need /\ c \notin Headers(r)
  <2>1. PICK h : h = FreeHeader(m - need)
    OBVIOUS
  <2>2. Cut(r) = [hdr EXCEPT ![c] = h]
    BY <2>1, <1>3, <1>6, <1>14, <1>26 DEF Cut
  <2>3. hdr \in [Line -> Int]
    BY DEF NVInv, TypeOK
  <2>4. c \in Line /\ c < free_zone /\ c < end
    BY <1>9, <1>11, <1>15, <1>16, <1>26, ZoneIsNat, LineIsNat
  <2> DEFINE G == Others \cup {c}
  <2>5. \A p \in Others : p \in Nat /\ p < free_zone /\ p \notin taken' /\ HeaderInv(G, p)'
    <3>1. ASSUME NEW p \in Others PROVE Cut(r)[p] = hdr[p]
      <4>1. p \in Line /\ p # c
        <5>1. p \in Nat /\ p < free_zone /\ p \notin Lines(a, m)
          BY <1>17
        <5>2. c \in Lines(a, m)
          BY <2>4, <1>4, <1>14, <1>15, <1>16 DEF Lines
        <5> QED
          BY <5>1, <5>2, <1>9, ZoneIsNat, LineIsNat
      <4> QED
        BY <4>1, <2>2, <2>3
    <3> QED
      BY <3>1, <1>21
  <2>6. c \in Nat /\ c < free_zone /\ c \notin taken' /\ HeaderInv(G, c)'
    <3>1. hdr'[c] = h
      BY <2>2, <2>3, <2>4, <1>16, <1>20
    <3>2. m - need \in Nat \ {0} /\ c + (m - need) = end
      BY <1>2, <1>4, <1>14, <1>15, <1>26
    <3>3. Lines(c, m - need) \cap taken' = {}
      <4>1. \A i \in Lines(c, m - need) : i \in Nat /\ c <= i /\ i < end
        BY <3>2, <1>16 DEF Lines
      <4>2. \A i \in Lines(c, m - need) : i \in Nat /\ ~ (a <= i /\ i < c) /\ i \notin taken
        BY <4>1, <1>4, <1>11, <1>15, <1>16
      <4> QED
        BY <4>2, <1>18
    <3>4. c \notin taken'
      BY <2>4, <1>4, <1>11, <1>15, <1>16, <1>18
    <3>5. end \in taken'
      BY <1>8, <1>11, <1>15
    <3> HIDE DEF G
    <3> QED
      BY <2>1, <2>4, <3>1, <3>2, <3>3, <3>4, <3>5, <1>16 DEF HeaderInv
  <2>7. \A u \in Regions' : u.at \in G
    BY <1>22
  <2>8. HeadersInv(G)'
    <3>1. \A p \in G : p \in Nat /\ p < free_zone' /\ p \notin taken' /\ HeaderInv(G, p)'
      <4>1. \A p \in G : p \in Others \/ p = c
        OBVIOUS
      <4> HIDE DEF G, Others
      <4> QED
        BY <4>1, <2>5, <2>6, <1>1
    <3> HIDE DEF G
    <3> QED
      BY <3>1, <2>7 DEF HeadersInv
  <2> QED
    BY <2>8, <1>12, <1>13 DEF FreeInv
<1> QED
  BY <1>24, <1>25, <1>26

\* Steps that touch no free line.
LEMMA QuietRegions ==
  ASSUME NEW q, NVInv(q), NEW F, FreeInv(F),
         \/ \E s \in Requests : Malloc(s)
         \/ NextList \/ NoMemory \/ NothingDue \/ UNCHANGED vars
         \/ \E b \in held : Free(b)
  PROVE  FreeInv(F)'
<1>1. taken' = taken /\ free_zone' = free_zone /\ free_lists' = free_lists
  BY DEF Malloc, NextList, NoMemory, NothingDue, Free, vars, zone, queue
<1>2. \A p \in F : hdr'[p] = hdr[p]
  <2>1. CASE hdr' = hdr
    BY <2>1
  <2>2. ASSUME NEW b \in held, Free(b) PROVE \A p \in F : hdr'[p] = hdr[p]
    <3>1. b \in Taken(q) /\ hdr \in [Line -> Int]
      BY DEF Taken, NVInv, TypeOK
    <3>2. \A p \in F : p \in Line /\ p # b.at
      <4>1. b.at \in taken
        BY <3>1, BlockPlaces
      <4>2. \A p \in F : p \in Nat /\ p < free_zone /\ p \notin taken
        BY DEF FreeInv, HeadersInv
      <4> QED
        BY <4>1, <4>2, ZoneIsNat, LineIsNat
    <3>3. PICK h : h = WaitingHeader(hdr[b.at] \div BASE)
      OBVIOUS
    <3>4. hdr' = [hdr EXCEPT ![b.at] = h]
      BY <3>3, <2>2 DEF Free
    <3> QED
      BY <3>1, <3>2, <3>4
  <2>3. hdr' = hdr \/ \E b \in held : Free(b)
    BY DEF Malloc, NextList, NoMemory, NothingDue, vars
  <2> QED
    BY <2>1, <2>2, <2>3
<1> QED
  BY <1>1, <1>2, RegionsStay

\* What the zone gives is taken at once.
LEMMA FromZoneRegions ==
  ASSUME NEW q, NVInv(q), NVInv(q)', NEW F, FreeInv(F), pc = "search", FromZone
  PROVE  FreeInv(F)'
<1>1. PICK z : z = free_zone
  OBVIOUS
<1>2. need \in Nat \ {0}
  BY LinesPositive DEF NVInv, SearchInv
<1>3. /\ free_zone' = z + need /\ free_lists' = free_lists
      /\ taken' = taken \cup Lines(z, need)
      /\ hdr' = [i \in Line |-> IF i = z THEN AllocatedHeader(need)
                                ELSE IF i \in Lines(z, need) THEN Junk ELSE hdr[i]]
  BY <1>1 DEF FromZone, HandOut, MakeOne
<1>4. taken \in SUBSET Nat /\ z \in Nat /\ \A i \in taken : i < z
  BY <1>1, BitmapIs
<1>5. z = 0 \/ z - 1 \in taken
  BY <1>1 DEF FreeInv, EndsTaken
<1>6. ASSUME NEW u \in Regions' PROVE u \in Regions
  <2>1. u \in RegionType /\ FreeRun(taken', free_zone', u.at, u.lines)
    BY RegionIsAfter
  <2>2. FreeRun(taken \cup Lines(z, need), z + need, u.at, u.lines)
    BY <2>1, <1>3
  <2>3. FreeRun(taken, z, u.at, u.lines)
    BY <2>2, <1>2, <1>4, <1>5, RunsAfterZone
  <2> QED
    BY <2>1, <2>3, <1>1, RegionIs
<1>7. EndsTaken'
  <2>1. (z + need) - 1 \in Lines(z, need)
    BY <1>2, <1>4 DEF Lines
  <2> QED
    BY <2>1, <1>3 DEF EndsTaken
<1>8. RegionsHinted'
  <2>1. \A r \in Regions : r.lines <= NR_SIZES => HintIn(free_lists, r)
    BY HintedIs DEF FreeInv
  <2> QED
    BY <2>1, <1>3, <1>6, HintedIsAfter
<1>9. \A i \in Lines(z, need) : i \in Nat /\ z <= i
  BY <1>2, <1>4 DEF Lines
<1>10. ASSUME NEW p \in F
       PROVE  p \in Nat /\ p < free_zone' /\ p \notin taken' /\ HeaderInv(F, p)'
  <2>1. p \in Nat /\ p < z /\ p \notin taken /\ HeaderInv(F, p)
    BY <1>1 DEF FreeInv, HeadersInv
  <2>2. p \in Line /\ p \notin Lines(z, need)
    BY <2>1, <1>1, <1>9, ZoneIsNat, LineIsNat
  <2>3. hdr'[p] = hdr[p]
    BY <2>1, <2>2, <1>3, <1>4
  <2>4. PICK m \in Nat \ {0} : /\ hdr[p] = FreeHeader(m) /\ Lines(p, m) \cap taken = {}
                               /\ p + m \in F \/ p + m \in taken
    BY <2>1 DEF HeaderInv
  <2>5. p + m < z
    BY <2>4, <1>1, <1>4 DEF FreeInv, HeadersInv
  <2>6. Lines(p, m) \cap Lines(z, need) = {}
    BY <2>1, <2>5, <1>2, <1>4 DEF Lines
  <2>7. Lines(p, m) \cap taken' = {} /\ (p + m \in F \/ p + m \in taken')
    BY <2>4, <2>6, <1>3
  <2>8. p < z + need
    BY <2>1, <1>2, <1>4
  <2>9. HeaderInv(F, p)'
    BY <2>3, <2>4, <2>7 DEF HeaderInv
  <2> QED
    BY <2>1, <2>2, <2>8, <2>9, <1>3
<1>11. HeadersInv(F)'
  <2>1. \A r \in Regions : r.at \in F
    BY DEF FreeInv, HeadersInv
  <2> QED
    BY <2>1, <1>6, <1>10 DEF HeadersInv
<1> QED
  BY <1>7, <1>8, <1>11 DEF FreeInv

\* The zone takes in the block that is released and what is free in front of it.
LEMMA ReleaseToZoneRegions ==
  ASSUME NEW q, NVInv(q), NEW r, NVInv(r)', NEW F, FreeInv(F), ReleaseToZone
  PROVE  \E G : FreeInv(G)'
<1>1. /\ head # NIL /\ taken' = Released /\ free_lists' = free_lists
      /\ free_zone' = head - Backward /\ head + Forward >= free_zone
      /\ hdr' = [l \in Line |-> IF l < free_zone' THEN hdr[l] ELSE Junk]
  BY DEF ReleaseToZone
<1>2. PICK y : y = head - Backward
  OBVIOUS
<1>3. PICK s : s = Released
  OBVIOUS
<1>4. PICK m : m = q[1].lines
  OBVIOUS
<1>5. /\ head \in Nat /\ Backward \in 0 .. head /\ m \in Nat \ {0} /\ head + m <= free_zone
      /\ s = taken \ Lines(head, m)
  BY <1>1, <1>3, <1>4, FreedAround, HeadBlock, LineIsNat
<1>6. /\ y \in Nat /\ y <= head /\ (y = 0 \/ y - 1 \in s) /\ free_zone' = y /\ taken' = s
  BY <1>1, <1>2, <1>3, <1>5, FreedAround
<1>7. taken \in SUBSET Nat /\ free_zone \in Nat /\ \A i \in taken : i < free_zone
  BY BitmapIs
<1>8. s \in SUBSET taken /\ y <= free_zone /\ \A i \in taken : i < y => i \in s
  <2>1. \A i \in taken : i < y => i \notin Lines(head, m)
    BY <1>5, <1>6, <1>7 DEF Lines
  <2>2. y <= free_zone
    BY <1>5, <1>6, <1>7
  <2> QED
    BY <2>1, <2>2, <1>5
<1>9. ASSUME NEW u \in Regions' PROVE u \in Regions /\ u.at < y
  <2>1. u \in RegionType /\ FreeRun(s, y, u.at, u.lines)
    BY <1>6, RegionIsAfter
  <2>2. FreeRun(taken, free_zone, u.at, u.lines) /\ u.at + u.lines < y
    BY <2>1, <1>6, <1>7, <1>8, RunsBeforeZone
  <2>3. u.at \in Nat /\ u.lines \in Nat
    BY <2>1 DEF FreeRun
  <2> QED
    BY <2>1, <2>2, <2>3, <1>6, RegionIs
<1>10. EndsTaken'
  BY <1>6 DEF EndsTaken
<1>11. RegionsHinted'
  <2>1. \A u \in Regions : u.lines <= NR_SIZES => HintIn(free_lists, u)
    BY HintedIs DEF FreeInv
  <2> QED
    BY <2>1, <1>1, <1>9, HintedIsAfter
<1> DEFINE G == {p \in F : p < y}
<1>12. ASSUME NEW p \in G
       PROVE  p \in Nat /\ p < free_zone' /\ p \notin taken' /\ HeaderInv(G, p)'
  <2>1. p \in F /\ p \in Nat /\ p < y /\ p \notin taken /\ HeaderInv(F, p)
    BY DEF FreeInv, HeadersInv
  <2>2. PICK k \in Nat \ {0} : /\ hdr[p] = FreeHeader(k) /\ Lines(p, k) \cap taken = {}
                               /\ p + k \in F \/ p + k \in taken
    BY <2>1 DEF HeaderInv
  <2>3. p \in Line
    BY <2>1, <1>7, <1>8, ZoneIsNat, LineIsNat, <1>6
  <2>4. hdr'[p] = FreeHeader(k)
    BY <2>1, <2>2, <2>3, <1>1, <1>6
  <2>5. p + k < y
    <3> SUFFICES ASSUME p + k >= y PROVE FALSE
      BY <2>1, <1>6
    <3>1. y # 0 /\ y - 1 \in taken
      BY <2>1, <1>6, <1>8
    <3>2. y - 1 \in Lines(p, k)
      BY <3>1, <2>1, <1>6 DEF Lines
    <3> QED
      BY <3>1, <3>2, <2>2
  <2>6. Lines(p, k) \cap taken' = {} /\ p \notin taken'
    BY <2>1, <2>2, <1>6, <1>8
  <2>7. p + k \in G \/ p + k \in taken'
    BY <2>2, <2>5, <1>6, <1>8
  <2> HIDE DEF G
  <2>8. HeaderInv(G, p)'
    BY <2>4, <2>6, <2>7 DEF HeaderInv
  <2> QED
    BY <2>1, <2>6, <2>8, <1>6
<1>13. \A u \in Regions' : u.at \in G
  BY <1>9 DEF FreeInv, HeadersInv
<1> HIDE DEF G
<1>14. HeadersInv(G)'
  BY <1>12, <1>13 DEF HeadersInv
<1> QED
  BY <1>10, <1>11, <1>14 DEF FreeInv

\* The block that is released joins what is free around it: one region, whose parts
\* keep the header in front and get a new one.
LEMMA ReleaseToListsRegions ==
  ASSUME NEW q, NVInv(q), NEW r, NVInv(r)', NEW F, FreeInv(F), ReleaseToLists
  PROVE  \E G : FreeInv(G)'
<1>1. /\ head # NIL /\ taken' = Released /\ free_lists' = Hints /\ free_zone' = free_zone
      /\ hdr' = [hdr EXCEPT ![head] = FreeHeader(Forward)]
      /\ ~ (head + Forward >= free_zone /\ head < free_zone)
  BY DEF ReleaseToLists, zone
<1>2. PICK y : y = head - Backward
  OBVIOUS
<1>3. PICK s : s = Released
  OBVIOUS
<1>4. PICK m : m = q[1].lines
  OBVIOUS
<1>5. PICK f, b : f = Forward /\ b = Backward
  OBVIOUS
<1>6. /\ head \in Nat /\ head \in Line /\ b \in 0 .. head /\ m \in Nat \ {0}
      /\ head + m <= free_zone /\ head < free_zone /\ head \in taken
      /\ s = taken \ Lines(head, m) /\ f \in Nat /\ f >= m /\ head + f <= free_zone
  BY <1>1, <1>3, <1>4, <1>5, FreedAround, HeadBlock, LineIsNat
<1>7. taken \in SUBSET Nat /\ free_zone \in Nat /\ \A i \in taken : i < free_zone
  BY BitmapIs
<1>8. head + f < free_zone
  BY <1>1, <1>5, <1>6, <1>7
<1>9. PICK n : n = b + f
  OBVIOUS
<1>10. /\ y \in Nat /\ b \in Nat /\ y + b = head /\ n \in Nat \ {0} /\ f \in Nat \ {0}
       /\ y + n = head + f /\ n = f + b
  BY <1>2, <1>5, <1>6, <1>9
<1>11. /\ Lines(head, f) \cap s = {} /\ head + f \in s
       /\ Lines(y, b) \cap s = {} /\ (y = 0 \/ y - 1 \in s)
  <2>1. head + f = free_zone \/ head + f \in s
    BY <1>1, <1>3, <1>5, FreedAround
  <2>2. head + f \in s
    BY <2>1, <1>6, <1>7, <1>8
  <2>3. Lines(head, Forward) \cap Released = {}
    BY <1>1, FreedAround
  <2>4. Lines(head - Backward, Backward) \cap Released = {}
    BY <1>1, FreedAround
  <2>5. head - Backward = 0 \/ head - Backward - 1 \in Released
    BY <1>1, FreedAround
  <2>6. Lines(head, f) \cap s = {}
    BY <2>3, <1>3, <1>5
  <2>7. Lines(y, b) \cap s = {}
    BY <2>4, <1>2, <1>3, <1>5
  <2>8. y = 0 \/ y - 1 \in s
    BY <2>5, <1>2, <1>3, <1>5
  <2> QED
    BY <2>2, <2>6, <2>7, <2>8
<1>12. Lines(y, n) = Lines(y, b) \cup Lines(head, f)
  <2>1. Lines(y, b + f) = Lines(y, b) \cup Lines(y + b, f)
    BY <1>6, <1>10, RunCut
  <2>2. b + f = n /\ y + b = head
    BY <1>9, <1>10
  <2> QED
    BY <2>1, <2>2
<1>13. s \in SUBSET Nat /\ s \subseteq taken /\ taken \subseteq s \cup Lines(y, n)
  <2>1. Lines(head, m) \subseteq Lines(head, f)
    BY <1>6 DEF Lines
  <2> QED
    BY <2>1, <1>6, <1>7, <1>12
<1>14. FreeRun(s, free_zone, y, n)
  BY <1>8, <1>7, <1>10, <1>11, <1>12, <1>6 DEF FreeRun
<1>15. ASSUME NEW u \in Regions'
       PROVE  \/ u.at = y /\ u.lines = n
              \/ u \in Regions /\ Lines(u.at, u.lines) \cap Lines(y, n) = {}
  <2>1. u \in RegionType /\ FreeRun(taken', free_zone', u.at, u.lines)
    BY RegionIsAfter
  <2>2. FreeRun(s, free_zone, u.at, u.lines)
    BY <2>1, <1>1, <1>3
  <2>3. PICK a, k : a = u.at /\ k = u.lines
    OBVIOUS
  <2>4. FreeRun(s, free_zone, a, k)
    BY <2>2, <2>3
  <2>5. \/ a = y /\ k = n
        \/ FreeRun(taken, free_zone, a, k) /\ Lines(a, k) \cap Lines(y, n) = {}
    BY <2>4, <1>7, <1>13, <1>14, RunsAfterRelease
  <2> QED
    BY <2>1, <2>3, <2>5, RegionIs
\* What is free in front of the block was a region.
<1>16. b # 0 => y \in F
  <2> SUFFICES ASSUME b # 0 PROVE y \in F
    OBVIOUS
  <2>1. Lines(y, b) \cap Lines(head, m) = {}
    BY <1>6, <1>10 DEF Lines
  <2>2. FreeRun(taken, free_zone, y, b)
    BY <2>1, <1>6, <1>7, <1>10, <1>11 DEF FreeRun
  <2>3. PICK u : u = Block(y, b)
    OBVIOUS
  <2>4. u.at = y /\ u.lines = b
    BY <2>3 DEF Block
  <2>5. y \in Line /\ b \in 1 .. MaxLines
    BY <1>6, <1>7, <1>10, ZoneIsNat, LineIsNat
  <2>6. u \in RegionType
    BY <2>3, <2>5 DEF RegionType, Block
  <2>7. u \in Regions
    BY <2>2, <2>4, <2>6, RegionIs
  <2> QED
    BY <2>4, <2>7 DEF FreeInv, HeadersInv
<1>17. EndsTaken'
  <2>1. free_zone - 1 \in taken /\ free_zone - 1 \notin Lines(head, m)
    BY <1>6, <1>7, <1>8 DEF FreeInv, EndsTaken, Lines
  <2> QED
    BY <2>1, <1>1, <1>3, <1>6 DEF EndsTaken
<1>18. free_lists \in [Index -> Seq(Line)] /\ y \in Line
  <2>1. y \in Line
    BY <1>1, <1>2, HintsType
  <2> QED
    BY <2>1 DEF NVInv, TypeOK
<1>19. PICK fl : fl = IF b = 0 THEN free_lists ELSE Hinted(free_lists, n, y)
  OBVIOUS
<1>20. fl \in [Index -> Seq(Line)] /\ free_lists' = Hinted(fl, f, head)
  <2>1. fl \in [Index -> Seq(Line)]
    BY <1>10, <1>18, <1>19, HintAdded
  <2>2. Hints = IF b = 0 THEN Hinted(free_lists, f, head)
                ELSE Hinted(Hinted(free_lists, n, y), f, head)
    BY <1>2, <1>5, <1>10 DEF Hints
  <2> QED
    BY <2>1, <2>2, <1>1, <1>19
<1>21. RegionsHinted'
  <2> SUFFICES ASSUME NEW u \in Regions', u.lines <= NR_SIZES PROVE HintIn(free_lists', u)
    BY HintedIsAfter
  <2>1. u.lines \in Nat \ {0}
    BY RegionIsAfter DEF FreeRun
  <2>2. HintIn(fl, u) => HintIn(free_lists', u)
    BY <2>1, <1>6, <1>10, <1>20, HintStays
  <2>3. CASE u.at = y /\ u.lines = n
    <3>1. CASE b = 0
      <4>1. u.at = head /\ u.lines = f
        BY <2>3, <3>1, <1>10
      <4> QED
        BY <4>1, <2>1, <1>6, <1>10, <1>20, HintStays
    <3>2. CASE b # 0
      <4>1. HintIn(Hinted(free_lists, n, y), u)
        BY <2>1, <2>3, <1>10, <1>18, HintStays
      <4> QED
        BY <4>1, <3>2, <2>2, <1>19
    <3> QED
      BY <3>1, <3>2
  <2>4. CASE u \in Regions
    <3>1. HintIn(free_lists, u)
      BY <2>4, HintedIs DEF FreeInv
    <3>2. HintIn(Hinted(free_lists, n, y), u)
      BY <3>1, <2>1, <1>10, <1>18, HintStays
    <3> QED
      BY <3>1, <3>2, <2>2, <1>19
  <2> QED
    BY <2>3, <2>4, <1>15
<1>22. PICK h : h = head
  OBVIOUS
<1> DEFINE G == {p \in F : p \notin Lines(h, f)} \cup {h}
<1>23. ASSUME NEW p \in F, p \notin Lines(head, f)
       PROVE  p \in Nat /\ p < free_zone' /\ p \notin taken' /\ HeaderInv(G, p)'
  <2>1. p \in Nat /\ p < free_zone /\ p \notin taken /\ HeaderInv(F, p)
    BY DEF FreeInv, HeadersInv
  <2>2. PICK k \in Nat \ {0} : /\ hdr[p] = FreeHeader(k) /\ Lines(p, k) \cap taken = {}
                               /\ p + k \in F \/ p + k \in taken
    BY <2>1 DEF HeaderInv
  <2>3. p \in Line /\ p # head
    BY <2>1, <1>6, ZoneIsNat, LineIsNat
  <2>4. hdr'[p] = FreeHeader(k)
    <3>1. hdr \in [Line -> Int]
      BY DEF NVInv, TypeOK
    <3>2. PICK g : g = FreeHeader(Forward)
      OBVIOUS
    <3>3. hdr' = [hdr EXCEPT ![head] = g]
      BY <3>2, <1>1
    <3> QED
      BY <3>1, <3>3, <2>2, <2>3
  <2>5. p < head \/ p >= head + f
    BY <2>1, <1>6, <1>23, InLines
  <2>6. p < head => p + k <= head
    <3> SUFFICES ASSUME p < head, p + k > head PROVE FALSE
      BY <2>1, <1>6
    <3>1. head \in Lines(p, k)
      BY <2>1, <1>6 DEF Lines
    <3> QED
      BY <3>1, <2>2, <1>6
  <2>7. p + k = head \/ p + k \notin Lines(head, f)
    BY <2>1, <2>5, <2>6, <1>6 DEF Lines
  <2>8. Lines(head, m) \subseteq Lines(head, f)
    BY <1>6 DEF Lines
  <2>9. p + k \in G \/ p + k \in taken'
    BY <2>2, <2>7, <2>8, <1>1, <1>3, <1>6, <1>22
  <2>10. Lines(p, k) \cap taken' = {} /\ p \notin taken'
    BY <2>1, <2>2, <1>1, <1>3, <1>13
  <2> HIDE DEF G
  <2>11. HeaderInv(G, p)'
    BY <2>4, <2>9, <2>10 DEF HeaderInv
  <2> QED
    BY <2>1, <2>10, <2>11, <1>1
<1>24. h \in Nat /\ h < free_zone' /\ h \notin taken' /\ HeaderInv(G, h)'
  <2>1. hdr'[h] = FreeHeader(f)
    <3>1. hdr \in [Line -> Int]
      BY DEF NVInv, TypeOK
    <3> QED
      BY <3>1, <1>1, <1>5, <1>6, <1>22
  <2>2. h \in Lines(h, f)
    BY <1>6, <1>10, <1>22 DEF Lines
  <2>3. Lines(h, f) \cap taken' = {} /\ h + f \in taken'
    BY <1>1, <1>3, <1>11, <1>22
  <2> HIDE DEF G
  <2>4. HeaderInv(G, h)'
    BY <2>1, <2>3, <1>10 DEF HeaderInv
  <2> QED
    BY <2>2, <2>3, <2>4, <1>1, <1>6, <1>22
<1>25. \A u \in Regions' : u.at \in G
  <2> SUFFICES ASSUME NEW u \in Regions' PROVE u.at \in G
    OBVIOUS
  <2>1. CASE u.at = y
    <3>1. y # head => b # 0 /\ y \notin Lines(head, f)
      BY <1>10, <1>6 DEF Lines
    <3> QED
      BY <3>1, <2>1, <1>16, <1>22
  <2>2. CASE u \in Regions /\ Lines(u.at, u.lines) \cap Lines(y, n) = {}
    <3>1. u.at \in F
      BY <2>2 DEF FreeInv, HeadersInv
    <3>2. u.at \in Lines(u.at, u.lines)
      <4>1. PICK a \in Nat, k \in Nat \ {0} : a = u.at /\ k = u.lines
        BY <2>2, RegionFacts
      <4> QED
        BY <4>1 DEF Lines
    <3> QED
      BY <2>2, <3>1, <3>2, <1>12, <1>22
  <2> QED
    BY <2>1, <2>2, <1>15
<1>26. HeadersInv(G)'
  <2>1. \A p \in G : (p \in F /\ p \notin Lines(head, f)) \/ p = h
    BY <1>22
  <2> HIDE DEF G
  <2>2. \A p \in G : p \in Nat /\ p < free_zone' /\ p \notin taken' /\ HeaderInv(G, p)'
    BY <2>1, <1>23, <1>24
  <2> QED
    BY <2>2, <1>25 DEF HeadersInv
<1> HIDE DEF G
<1> QED
  BY <1>17, <1>21, <1>26 DEF FreeInv

-----------------------------------------------------------------------------
(* Free regions, as every step leaves them *)

RegionInvariant == \E q, F : NVInv(q) /\ FreeInv(F)

LEMMA RegionsStart == Init => FreeInv({})
<1> SUFFICES ASSUME Init PROVE FreeInv({})
  OBVIOUS
<1>1. free_zone = 0
  BY DEF Init
<1>2. Regions = {}
  <2>1. \A r \in Regions : FALSE
    <3> SUFFICES ASSUME NEW r \in Regions PROVE FALSE
      OBVIOUS
    <3>1. FreeRun(taken, free_zone, r.at, r.lines)
      BY NVStart, RegionIs
    <3> QED
      BY <3>1, <1>1 DEF FreeRun
  <2> QED
    BY <2>1
<1> QED
  BY <1>1, <1>2 DEF FreeInv, EndsTaken, RegionsHinted, HeadersInv

LEMMA RegionsStep ==
  ASSUME NEW q, NVInv(q), NEW F, FreeInv(F), [Next]_vars
  PROVE  \E r, G : NVInv(r)' /\ FreeInv(G)'
<1>1. PICK r : NVInv(r)'
  BY NVStep
<1>2. CASE \/ \E s \in Requests : Malloc(s)
           \/ NextList \/ NoMemory \/ NothingDue \/ UNCHANGED vars
           \/ \E b \in held : Free(b)
  BY <1>1, <1>2, QuietRegions
<1>3. CASE DropHint
  BY <1>1, <1>3, DropHintRegions
<1>4. CASE TakeHint
  BY <1>4, TakeHintStep, TakeHintRegions
<1>5. CASE TakeZone \/ MoreMemory
  <2>1. FromZone /\ pc = "search"
    BY <1>5 DEF TakeZone, MoreMemory
  <2>2. NVInv(q)'
    BY <1>5, TakeZoneStep, MoreMemoryStep
  <2> QED
    BY <2>1, <2>2, FromZoneRegions
<1>6. CASE ReleaseToZone
  BY <1>1, <1>6, ReleaseToZoneRegions
<1>7. CASE ReleaseToLists
  BY <1>1, <1>7, ReleaseToListsRegions
<1> QED
  BY <1>2, <1>3, <1>4, <1>5, <1>6, <1>7 DEF Next

LEMMA RegionsInvariance == Spec => []RegionInvariant
<1>1. Init => RegionInvariant
  BY NVStart, RegionsStart DEF RegionInvariant
<1>2. RegionInvariant /\ [Next]_vars => RegionInvariant'
  BY RegionsStep DEF RegionInvariant
<1> QED
  BY <1>1, <1>2, PTL DEF Spec

\* Wherever headers have been written and gone stale, those of a free region lead
\* through it, from its first line to the block behind it.
THEOREM HeadersStayExact == Spec => []HeadersExact
<1>1. RegionInvariant => HeadersExact
  BY HeadersAreExact DEF RegionInvariant
<1> QED
  BY <1>1, RegionsInvariance, PTL

\* No free region that has a list for its size is ever lost.
THEOREM RegionsStayHinted == Spec => []RegionsHinted
<1>1. RegionInvariant => RegionsHinted
  BY DEF RegionInvariant, FreeInv
<1> QED
  BY <1>1, RegionsInvariance, PTL

-----------------------------------------------------------------------------
(* A search comes to an end *)

\* The places of the hints: a list and a number in it.
Places(fl) == UNION {{i} \X (1 .. Len(fl[i])) : i \in Index}

LEMMA HintsCounted ==
  ASSUME NEW fl \in [Index -> Seq(Line)]
  PROVE  /\ IsFiniteSet(Places(fl))
         /\ SumFunction([i \in Index |-> Len(fl[i])]) = Cardinality(Places(fl))
<1>1. IsFiniteSet(Index)
  BY LineIsNat, FS_Interval DEF Index
<1> DEFINE g == [i \in Index |-> {i} \X (1 .. Len(fl[i]))]
           c == [i \in Index |-> Cardinality(g[i])]
<1>2. ASSUME NEW i \in Index PROVE IsFiniteSet(g[i]) /\ Cardinality(g[i]) = Len(fl[i])
  <2>1. Len(fl[i]) \in Nat
    BY LenProperties
  <2>2. PICK n \in Nat : n = Len(fl[i])
    BY <2>1
  <2>3. IsFiniteSet(1 .. n) /\ Cardinality(1 .. n) = n
    BY FS_Interval
  <2>4. IsFiniteSet({i}) /\ Cardinality({i}) = 1
    BY FS_Singleton
  <2>5. IsFiniteSet({i} \X (1 .. n)) /\ Cardinality({i} \X (1 .. n)) = Cardinality({i}) * Cardinality(1 .. n)
    BY <2>3, <2>4, FS_Product
  <2> QED
    BY <2>2, <2>3, <2>4, <2>5
<1>3. \A i, j \in Index : i # j => g[i] \cap g[j] = {}
  OBVIOUS
<1>4. UNION {g[i] : i \in Index} = Places(fl)
  BY DEF Places
<1>5. c = [i \in Index |-> Len(fl[i])]
  <2> HIDE DEF g
  <2> QED
    BY <1>2
<1>6. IsFiniteSet(Places(fl))
  <2>1. \A i \in Index : IsFiniteSet(g[i])
    BY <1>2
  <2>2. IsFiniteSet({g[i] : i \in Index})
    <3> HIDE DEF g
    <3> DEFINE h == [i \in Index |-> g[i]]
    <3>1. h \in Surjection(Index, {g[i] : i \in Index})
      BY DEF Surjection
    <3> QED
      BY <1>1, <3>1, FS_Surjection
  <2> HIDE DEF g
  <2>3. IsFiniteSet(UNION {g[i] : i \in Index})
    BY <2>1, <2>2, FS_UNION
  <2> QED
    BY <2>3, <1>4
<1>7. \A i \in Index : IsFiniteSet(g[i])
  BY <1>2
<1> HIDE DEF g
<1>8. SumFunction([i \in Index |-> Cardinality(g[i])]) = Cardinality(UNION {g[i] : i \in Index})
  <2>1. PICK e, U : e = [i \in Index |-> Cardinality(g[i])] /\ U = UNION {g[i] : i \in Index}
    OBVIOUS
  <2>2. PICK D, d : D = Index /\ d = g
    OBVIOUS
  <2>3. IsFiniteSet(D) /\ \A i \in D : IsFiniteSet(d[i])
    BY <2>2, <1>1, <1>7
  <2>4. \A i, j \in D : i # j => d[i] \cap d[j] = {}
    BY <2>2, <1>3
  <2>5. e \in [D -> Nat] /\ \A i \in D : e[i] = Cardinality(d[i])
    BY <2>1, <2>2, <2>3, FS_CardinalityType
  <2>6. \A u : u \in U <=> \E i \in D : u \in d[i]
    BY <2>1, <2>2
  <2>7. SumFunction(e) = Cardinality(U)
    BY <2>3, <2>4, <2>5, <2>6, SumOfSizes
  <2> QED
    BY <2>1, <2>7
<1> QED
  BY <1>4, <1>5, <1>6, <1>8

LEMMA HintCountIsNat ==
  ASSUME NEW q, NVInv(q)
  PROVE  HintCount \in Nat
<1>1. free_lists \in [Index -> Seq(Line)]
  BY DEF NVInv, TypeOK
<1>2. IsFiniteSet(Places(free_lists)) /\ HintCount = Cardinality(Places(free_lists))
  BY <1>1, HintsCounted DEF HintCount
<1> QED
  BY <1>2, FS_CardinalityType

\* A hint that is dropped is one less.
LEMMA HintUsedUp ==
  ASSUME NEW q, NVInv(q), DropHint
  PROVE  HintCount' = HintCount - 1 /\ HintCount \in Nat \ {0}
<1>1. TypeOK /\ index <= NR_SIZES /\ free_lists[index] # <<>> /\ free_lists' = Popped
  BY DEF NVInv, DropHint
<1>2. index \in Index
  <2>1. index \in 0 .. NR_SIZES + 1
    BY <1>1 DEF TypeOK
  <2> QED
    BY <2>1, <1>1, LineIsNat DEF Index
<1>3. PICK fl, fm : fl = free_lists /\ fm = Popped
  OBVIOUS
<1>4. /\ fl \in [Index -> Seq(Line)] /\ fm \in [Index -> Seq(Line)] /\ fl[index] # <<>>
      /\ fm[index] = Tail(fl[index]) /\ \A i \in Index \ {index} : fm[i] = fl[i]
  BY <1>1, <1>2, <1>3, HintGone DEF TypeOK
<1>5. PICK n : n = Len(fl[index])
  OBVIOUS
<1>6. n \in Nat \ {0} /\ Len(fm[index]) = n - 1
  <2>1. fl[index] \in Seq(Line)
    BY <1>2, <1>4
  <2>2. Len(fl[index]) \in Nat /\ Len(fl[index]) # 0
    BY <2>1, <1>4, EmptySeq, LenProperties
  <2> QED
    BY <2>1, <2>2, <1>4, <1>5, HeadTailProperties
<1>7. PICK p : p = <<index, n>>
  OBVIOUS
<1>8. p \in Places(fl) /\ Places(fm) = Places(fl) \ {p}
  <2>1. \A i \in Index : {i} \X (1 .. Len(fm[i])) = ({i} \X (1 .. Len(fl[i]))) \ {p}
    <3> SUFFICES ASSUME NEW i \in Index
                 PROVE  {i} \X (1 .. Len(fm[i])) = ({i} \X (1 .. Len(fl[i]))) \ {p}
      OBVIOUS
    <3>1. CASE i = index
      <4>1. 1 .. n - 1 = (1 .. n) \ {n}
        BY <1>6
      <4>2. {i} \X (1 .. n - 1) = ({i} \X (1 .. n)) \ {<<i, n>>}
        BY <4>1
      <4> QED
        BY <3>1, <4>2, <1>5, <1>6, <1>7
    <3>2. CASE i # index
      BY <3>2, <1>4, <1>7
    <3> QED
      BY <3>1, <3>2
  <2>2. p \in {index} \X (1 .. Len(fl[index]))
    BY <1>5, <1>6, <1>7
  <2>3. p \in Places(fl)
    BY <2>2, <1>2 DEF Places
  <2>4. Places(fm) = Places(fl) \ {p}
    BY <2>1 DEF Places
  <2> QED
    BY <2>3, <2>4
<1>9. /\ HintCount = Cardinality(Places(fl)) /\ HintCount' = Cardinality(Places(fm))
      /\ IsFiniteSet(Places(fl))
  <2>1. HintCount = SumFunction([i \in Index |-> Len(fl[i])])
    BY <1>3 DEF HintCount
  <2>2. HintCount' = SumFunction([i \in Index |-> Len(fm[i])])
    BY <1>1, <1>3 DEF HintCount
  <2> QED
    BY <2>1, <2>2, <1>4, HintsCounted
<1> QED
  BY <1>8, <1>9, FS_RemoveElement, FS_EmptySet, FS_CardinalityType

\* Lists that are searched are all of those that a region would be on that fits.
LEMMA ZoneIsLast ==
  ASSUME NEW q, NVInv(q), NEW F, FreeInv(F), pc = "search", index > NR_SIZES, NEW r \in Regions
  PROVE  r.lines < need \/ r.lines > NR_SIZES
<1> SUFFICES ASSUME ~ (r.lines < need), ~ (r.lines > NR_SIZES) PROVE FALSE
  OBVIOUS
<1>1. PICK n : n = r.lines
  OBVIOUS
<1>2. n \in Nat \ {0} /\ NR_SIZES \in Nat /\ need \in Nat \ {0}
  BY <1>1, RegionFacts, LineIsNat, LinesPositive DEF NVInv, SearchInv
<1>3. need <= n /\ n <= NR_SIZES
  BY <1>1, <1>2
<1>4. BestFit(n) = n - 1 /\ BestFit(need) = need - 1
  BY <1>2, <1>3 DEF BestFit
<1>5. PICK k \in 1 .. Len(free_lists[n - 1]) : free_lists[n - 1][k] = r.at
  BY <1>1, <1>3, <1>4 DEF FreeInv, RegionsHinted
<1>6. free_lists[n - 1] = <<>>
  <2>1. index \in 0 .. NR_SIZES + 1
    BY DEF NVInv, TypeOK
  <2>2. n - 1 \in 0 .. index - 1 /\ need - 1 <= n - 1
    BY <2>1, <1>2, <1>3
  <2>3. \A i \in 0 .. index - 1 : BestFit(need) <= i => free_lists[i] = <<>>
    BY DEF NVInv, SearchInv
  <2> QED
    BY <2>2, <2>3, <1>4
<1> QED
  BY <1>5, <1>6

LEMMA SearchStep ==
  ASSUME NEW q, NVInv(q), NEW F, FreeInv(F), Next
  PROVE  /\ pc = "search" /\ pc' = "search" => Remaining' \in 0 .. Remaining - 1
         /\ free_zone' > free_zone => \A r \in Regions : r.lines < need \/ r.lines > NR_SIZES
<1>1. index \in 0 .. NR_SIZES + 1 /\ NR_SIZES \in Nat /\ HintCount \in Nat
  BY LineIsNat, HintCountIsNat DEF NVInv, TypeOK
<1>2. CASE NextList
  <2>1. index <= NR_SIZES /\ index' = index + 1 /\ free_lists' = free_lists /\ free_zone' = free_zone
    BY <1>2 DEF NextList, zone
  <2>2. HintCount' = HintCount
    BY <2>1 DEF HintCount
  <2>3. free_zone \in Nat
    BY BitmapIs
  <2> QED
    BY <2>1, <2>2, <2>3, <1>1 DEF Remaining
<1>3. CASE DropHint
  <2>1. index' = index /\ free_zone' = free_zone
    BY <1>3 DEF DropHint, zone
  <2>2. HintCount' = HintCount - 1 /\ HintCount \in Nat \ {0}
    BY <1>3, HintUsedUp
  <2>3. free_zone \in Nat
    BY BitmapIs
  <2> QED
    BY <2>1, <2>2, <2>3, <1>1 DEF Remaining
<1>4. CASE TakeZone \/ MoreMemory
  <2>1. pc = "search" /\ index > NR_SIZES /\ pc' = "time"
    BY <1>4 DEF TakeZone, MoreMemory, FromZone, HandOut
  <2> QED
    BY <2>1, ZoneIsLast
<1>5. CASE ReleaseToZone
  <2>1. pc = "time" /\ head # NIL /\ free_zone' = head - Backward
    BY <1>5 DEF ReleaseToZone
  <2>2. head \in Nat /\ head < free_zone /\ Backward \in 0 .. head /\ free_zone \in Nat
    BY <2>1, HeadBlock, FreedAround, LineIsNat, BitmapIs
  <2>3. PICK b : b = Backward
    OBVIOUS
  <2>4. ~ (free_zone' > free_zone)
    BY <2>1, <2>2, <2>3
  <2> QED
    BY <2>1, <2>4
<1>6. CASE \/ \E s \in Requests : Malloc(s)
           \/ TakeHint \/ NoMemory \/ NothingDue \/ ReleaseToLists
           \/ \E b \in held : Free(b)
  <2>1. ~ (pc = "search" /\ pc' = "search") /\ free_zone' = free_zone
    BY <1>6 DEF Malloc, MayCall, TakeHint, HandOut, NoMemory, NothingDue, ReleaseToLists, Free, zone
  <2>2. free_zone \in Nat
    BY BitmapIs
  <2> QED
    BY <2>1, <2>2
<1> QED
  BY <1>2, <1>3, <1>4, <1>5, <1>6 DEF Next

\* However many hints have gone stale, every step of a search uses up a hint or a
\* list, and the free zone is the last resort.
THEOREM SearchStaysExact == Spec => SearchExact
<1>1. RegionInvariant /\ [Next]_vars =>
        [/\ pc = "search" /\ pc' = "search" => Remaining' \in 0 .. Remaining - 1
         /\ free_zone' > free_zone => \A r \in Regions : r.lines < need \/ r.lines > NR_SIZES]_vars
  BY SearchStep DEF RegionInvariant
<1> QED
  BY <1>1, RegionsInvariance, PTL DEF Spec, SearchExact

-----------------------------------------------------------------------------
(* Sizes in a uint32_t *)

\* What \div and % say of a number.
LEMMA Division ==
  ASSUME NEW a \in Nat, NEW b \in Nat \ {0}
  PROVE  \E q, r \in Nat : /\ a \div b = q /\ a % b = r
                           /\ a = q * b + r /\ r < b
<1>1. a \div b \in Nat /\ a % b \in Nat /\ a = (a \div b) * b + (a % b) /\ a % b < b
  OBVIOUS
<1> QED
  BY <1>1

LEMMA QuotientOfMultiple ==
  ASSUME NEW m \in Nat, NEW b \in Nat \ {0}
  PROVE  (m * b) \div b = m /\ (m * b) % b = 0 /\ m * b \in Nat
OBVIOUS

\* Multiples are in the order of their factors.
LEMMA Factors ==
  ASSUME NEW a \in Int, NEW b \in Int, NEW c \in Nat \ {0}
  PROVE  /\ a <= b <=> a * c <= b * c
         /\ a < b <=> a * c < b * c
         /\ a < b <=> a * c + c <= b * c
<1>1. a * c \in Int /\ b * c \in Int
  OBVIOUS
<1>2. a <= b => a * c <= b * c
  OBVIOUS
<1>3. a < b => a * c + c <= b * c
  OBVIOUS
<1>4. b <= a => b * c <= a * c
  OBVIOUS
<1>5. b < a => b * c + c <= a * c
  OBVIOUS
<1> QED
  BY <1>1, <1>2, <1>3, <1>4, <1>5

\* The lines that hold a size: getFreeLocation gives that many, on the list that
\* getBestFit says for either size.
LEMMA WholeLines ==
  ASSUME NEW z \in Nat \ {0}, z + NVBase <= NVWord
  PROVE  \E m \in Nat \ {0} :
           /\ ActualSize(z) = m * NVBase /\ m * NVBase >= z /\ m * NVBase - NVBase < z
           /\ BestFitBytes(z) = IF m > NVSizeLists THEN NVSizeLists ELSE m - 1
           /\ BestFitBytes(m * NVBase) = BestFitBytes(z)
<1>1. PICK b \in Nat \ {0} : b = NVBase
  BY NVSizesAssumption
<1>2. PICK n \in Nat \ {0} : n = NVSizeLists
  BY NVSizesAssumption
<1>3. NVWord \in Nat \ {0}
  BY NVSizesAssumption
<1>4. PICK q, r \in Nat : z \div b = q /\ z % b = r /\ z = q * b + r /\ r < b
  BY <1>1, Division
<1> DEFINE m == IF r = 0 THEN q ELSE q + 1
<1>5. /\ m \in Nat \ {0} /\ m * b \in Nat /\ q * b \in Nat /\ n * b \in Nat
      /\ m * b >= z /\ m * b - b < z
      /\ r = 0 => m * b = z
      /\ r # 0 => m * b = q * b + b
  <2>1. q * b \in Nat /\ n * b \in Nat /\ (q + 1) * b = q * b + b
    OBVIOUS
  <2>2. CASE r = 0
    <3>1. z = q * b /\ q # 0
      BY <1>4, <2>1, <2>2
    <3> QED
      BY <2>1, <2>2, <3>1
  <2>3. CASE r # 0
    BY <1>4, <2>1, <2>3
  <2> QED
    BY <2>2, <2>3
<1> HIDE DEF m
<1>6. z > n * b <=> m > n
  <2>1. m > n => m * b >= n * b + b
    BY <1>5, Factors
  <2>2. m <= n => m * b <= n * b
    BY <1>5, Factors
  <2> QED
    BY <1>5, <2>1, <2>2
<1>7. BestFitBytes(z) = IF m > n THEN n ELSE m - 1
  BY <1>1, <1>2, <1>4, <1>6 DEF BestFitBytes, m
<1>8. BestFitBytes(m * b) = IF m > n THEN n ELSE m - 1
  <2>1. m * b > n * b <=> m > n
    BY <1>5, Factors
  <2>2. (m * b) \div b = m /\ (m * b) % b = 0
    BY <1>5, QuotientOfMultiple
  <2>3. m - 1 + 0 = m - 1
    BY <1>5
  <2> QED
    BY <1>1, <1>2, <2>1, <2>2, <2>3 DEF BestFitBytes
<1>9. ActualSize(z) = m * b
  <2>1. CASE m <= n
    <3>1. BestFitBytes(z) = m - 1 /\ m - 1 < n /\ (m - 1) + 1 = m
      BY <1>5, <1>7, <2>1
    <3> QED
      BY <1>1, <1>2, <3>1 DEF ActualSize
  <2>2. CASE m > n
    <3>1. BestFitBytes(z) = n
      BY <1>5, <1>7, <2>2
    <3>2. CASE r = 0
      BY <1>1, <1>2, <1>4, <1>5, <3>1, <3>2 DEF ActualSize
    <3>3. CASE r # 0
      <4>1. z - r + b = m * b /\ m * b < NVWord /\ m * b \in Nat
        BY <1>1, <1>3, <1>4, <1>5, <3>3
      <4>2. UInt(z - r + b) = m * b
        BY <1>3, <4>1 DEF UInt
      <4> QED
        BY <1>1, <1>2, <1>4, <3>1, <3>3, <4>2 DEF ActualSize
    <3> QED
      BY <3>2, <3>3
  <2> QED
    BY <1>5, <2>1, <2>2
<1> QED
  BY <1>1, <1>2, <1>5, <1>7, <1>8, <1>9

\* A size that does not wrap gets its header and nothing else.
LEMMA HeaderAdded ==
  ASSUME NEW x \in Nat, NoWrap(x)
  PROVE  /\ SizeWithHeader(x) = x + NVHeader
         /\ x + NVHeader \in Nat \ {0} /\ x + NVHeader + NVBase <= NVWord
<1>1. /\ NVWord \in Nat \ {0} /\ NVHeader \in Nat \ {0} /\ NVBase \in Nat \ {0}
      /\ x + NVHeader + NVBase <= NVWord
  BY NVSizesAssumption DEF NoWrap
<1>2. x % NVWord = x /\ (x + NVHeader) % NVWord = x + NVHeader
  BY <1>1
<1> QED
  BY <1>1, <1>2 DEF SizeWithHeader, UInt

\* In pages: what the product of getMoreMemory can be.
LEMMA PageProduct ==
  \E w \in Nat \ {0} :
    /\ NVWord = w * NVPage /\ NVWord \div NVPage = w /\ NVNewPages < w
    /\ (w - 1) * NVPage = NVWord - NVPage
    /\ \A k \in Nat : /\ UInt(k * NVPage) \in Nat /\ UInt(k * NVPage) <= (w - 1) * NVPage
                      /\ UInt(k * NVPage) <= k * NVPage
                      /\ k < w => UInt(k * NVPage) = k * NVPage
<1>1. PICK p \in Nat \ {0} : p = NVPage
  BY NVSizesAssumption
<1>2. PICK v \in Nat \ {0} : v = NVWord
  BY NVSizesAssumption
<1>3. v % p = 0 /\ NVNewPages * p < v /\ NVNewPages \in Nat
  BY <1>1, <1>2, NVSizesAssumption
<1>4. PICK w \in Nat : v \div p = w /\ v = w * p
  <2>1. PICK q, r \in Nat : v \div p = q /\ v % p = r /\ v = q * p + r
    BY Division
  <2>2. q * p \in Nat
    OBVIOUS
  <2> QED
    BY <1>3, <2>1, <2>2
<1>5. w # 0 /\ NVNewPages < w
  BY <1>3, <1>4, Factors
<1>6. w - 1 \in Nat /\ (w - 1) * p = v - p
  <2>1. (w - 1) * p = w * p - p
    BY <1>4, <1>5
  <2> QED
    BY <1>4, <1>5, <2>1
<1>7. ASSUME NEW k \in Nat
      PROVE  /\ (k * p) % v \in Nat /\ (k * p) % v <= (w - 1) * p
             /\ (k * p) % v <= k * p
             /\ k < w => (k * p) % v = k * p
  <2>1. k * p \in Nat
    OBVIOUS
  <2>2. PICK t, r \in Nat : (k * p) % v = r /\ k * p = t * v + r /\ r < v
    BY <2>1, Division
  <2>3. t * v \in Nat
    OBVIOUS
  <2>4. r <= k * p
    BY <2>1, <2>2, <2>3
  <2>5. r = (k - t * w) * p
    <3>1. t * (w * p) = (t * w) * p /\ t * w \in Int
      OBVIOUS
    <3>2. (k - t * w) * p = k * p - (t * w) * p
      BY <3>1
    <3> QED
      BY <1>4, <2>1, <2>2, <2>3, <3>1, <3>2
  <2>6. k - t * w < w
    <3>1. k - t * w \in Int
      OBVIOUS
    <3> QED
      BY <1>4, <2>2, <2>5, <3>1, Factors
  <2>7. r <= (w - 1) * p
    <3>1. k - t * w \in Int /\ k - t * w <= w - 1 /\ w - 1 \in Int
      BY <2>6
    <3> QED
      BY <2>5, <3>1, Factors
  <2>8. ASSUME k < w PROVE (k * p) % v = k * p
    <3>1. k * p < v
      BY <1>4, <2>8, Factors
    <3> QED
      BY <2>1, <3>1
  <2> QED
    BY <2>2, <2>4, <2>7, <2>8
<1> QED
  BY <1>1, <1>2, <1>4, <1>5, <1>6, <1>7 DEF UInt

\* What becomes of a request of x bytes.
LEMMA RequestCovered ==
  ASSUME NEW x \in Nat PROVE RoundsToLines(x) /\ GrowthCovers(x)
<1> SUFFICES ASSUME NoWrap(x) PROVE RoundsToLines(x) /\ GrowthCovers(x)
  BY DEF RoundsToLines, GrowthCovers
<1>1. PICK y \in Nat \ {0} : y = x + NVHeader /\ SizeWithHeader(x) = y /\ y + NVBase <= NVWord
  BY HeaderAdded
<1>2. PICK m \in Nat \ {0} :
        /\ ActualSize(y) = m * NVBase /\ m * NVBase >= y /\ m * NVBase - NVBase < y
        /\ BestFitBytes(y) = IF m > NVSizeLists THEN NVSizeLists ELSE m - 1
        /\ BestFitBytes(m * NVBase) = BestFitBytes(y)
  BY <1>1, WholeLines
<1>3. /\ NVBase \in Nat \ {0} /\ NVSizeLists \in Nat \ {0} /\ NVPage \in Nat \ {0}
      /\ NVNewPages \in Nat \ {0} /\ NVWord \in Nat \ {0}
  BY NVSizesAssumption
<1>4. PICK z \in Nat \ {0} : z = m * NVBase
  <2>1. m * NVBase \in Nat /\ m * NVBase >= NVBase
    BY <1>3
  <2> QED
    BY <1>3, <2>1
<1>5. ActualSize(SizeWithHeader(x)) = z /\ z % NVBase = 0
  BY <1>1, <1>2, <1>3, <1>4, QuotientOfMultiple
<1>6. RoundsToLines(x)
  <2>1. z >= x + NVHeader /\ z - NVBase < x + NVHeader
    BY <1>1, <1>2, <1>4
  <2>2. BestFitBytes(z) = BestFitBytes(SizeWithHeader(x))
    BY <1>1, <1>2, <1>4
  <2>3. BestFitBytes(z) \in 0 .. NVSizeLists
    BY <1>2, <1>3, <1>4
  <2> QED
    BY <1>5, <2>1, <2>2, <2>3 DEF RoundsToLines
<1>7. GrowthCovers(x)
  <2>1. PICK w \in Nat \ {0} :
          /\ NVWord = w * NVPage /\ NVWord \div NVPage = w /\ NVNewPages < w
          /\ (w - 1) * NVPage = NVWord - NVPage
          /\ \A k \in Nat : /\ UInt(k * NVPage) \in Nat /\ UInt(k * NVPage) <= (w - 1) * NVPage
                            /\ UInt(k * NVPage) <= k * NVPage
                            /\ k < w => UInt(k * NVPage) = k * NVPage
    BY PageProduct
  <2>2. PageCounts = NVNewPages .. NVNewPages + w
    BY <2>1 DEF PageCounts
  <2>3. LoopExits(z) \in SUBSET Nat
    BY <1>3, <2>2 DEF LoopExits
  <2>4. ASSUME z > NVWord - NVPage PROVE Endless(z)
    <3>1. \A k \in PageCounts : ~ (z <= UInt(k * NVPage))
      <4> SUFFICES ASSUME NEW k \in PageCounts PROVE ~ (z <= UInt(k * NVPage))
        OBVIOUS
      <4>1. k \in Nat
        BY <1>3, <2>2
      <4>2. UInt(k * NVPage) \in Nat /\ UInt(k * NVPage) <= NVWord - NVPage
        BY <2>1, <4>1
      <4> QED
        BY <1>3, <2>4, <4>2
    <3> QED
      BY <3>1 DEF Endless, LoopExits
  <2>5. ASSUME z <= NVWord - NVPage
        PROVE  /\ w - 1 \in LoopExits(z) /\ ~ Endless(z)
    <3>1. w - 1 \in Nat /\ w - 1 \in PageCounts /\ w - 1 < w
      BY <1>3, <2>1, <2>2
    <3>2. UInt((w - 1) * NVPage) = NVWord - NVPage
      BY <2>1, <3>1
    <3> QED
      BY <2>5, <3>1, <3>2 DEF LoopExits, Endless
  <2>6. ASSUME ~ Endless(z)
        PROVE  /\ MorePages(z) * NVPage >= z
               /\ MorePages(z) = NVNewPages \/ (MorePages(z) - 1) * NVPage < z
    <3>1. z <= NVWord - NVPage
      BY <1>3, <2>4, <2>6
    <3>2. PICK k \in LoopExits(z) : k = MorePages(z) /\ \A j \in LoopExits(z) : k <= j
      BY <2>3, <2>6, LeastIs DEF MorePages, Endless
    <3>3. /\ k \in Nat /\ k \in PageCounts /\ z <= UInt(k * NVPage) /\ k <= w - 1
          /\ k \in NVNewPages .. NVNewPages + w
      BY <2>2, <2>3, <2>5, <3>1, <3>2 DEF LoopExits
    <3>4. k * NVPage >= z
      <4>1. k * NVPage \in Nat /\ UInt(k * NVPage) \in Nat /\ UInt(k * NVPage) <= k * NVPage
        BY <1>3, <2>1, <3>3
      <4> QED
        BY <3>3, <4>1
    <3>5. ASSUME k # NVNewPages PROVE (k - 1) * NVPage < z
      <4>1. k - 1 \in Nat /\ k - 1 \in PageCounts /\ k - 1 < w /\ ~ (k <= k - 1)
        BY <1>3, <2>2, <3>3, <3>5
      <4>2. ~ (z <= UInt((k - 1) * NVPage))
        BY <3>2, <4>1 DEF LoopExits
      <4>3. UInt((k - 1) * NVPage) = (k - 1) * NVPage /\ (k - 1) * NVPage \in Nat
        BY <1>3, <2>1, <4>1
      <4> QED
        BY <4>2, <4>3
    <3> QED
      BY <3>2, <3>4, <3>5
  <2>7. Endless(z) <=> z > NVWord - NVPage
    BY <1>3, <2>4, <2>5
  <2> QED
    BY <1>5, <2>6, <2>7 DEF GrowthCovers
<1> QED
  BY <1>6, <1>7

\* nvmalloc takes the fewest lines that hold a request and its header, on the list
\* of blocks that large, and asks for the fewest pages that hold the block: for every
\* size but those at the very end of a uint32_t, where the loop does not end.
THEOREM SizesStayCovered == RequestSpec => []NVSizesCovered
<1> DEFINE Inv == asked \in Nat
<1>1. RequestInit => Inv
  BY DEF RequestInit
<1>2. Inv /\ [Ask]_asked => Inv'
  BY DEF Ask
<1>3. Inv => NVSizesCovered
  BY RequestCovered DEF NVSizesCovered
<1> QED
  BY <1>1, <1>2, <1>3, PTL DEF RequestSpec

-----------------------------------------------------------------------------
(* The loops over the bitmap *)

BitmapOK == \E n \in Nat : bitmap \in [0 .. n - 1 -> SUBSET Bits]

LEMMA BytesAre ==
  ASSUME NEW n \in Nat, bitmap \in [0 .. n - 1 -> SUBSET Bits]
  PROVE  Bytes = n /\ DOMAIN bitmap = 0 .. Bytes - 1
<1>1. DOMAIN bitmap = 0 .. n - 1
  OBVIOUS
<1>2. Cardinality(0 .. n - 1) = n
  BY FS_Interval
<1> QED
  BY <1>1, <1>2 DEF Bytes

LEMMA DivMod ==
  ASSUME NEW l \in Int, NEW b \in Nat \ {0}
  PROVE  l \div b \in Int /\ l % b \in 0 .. b - 1 /\ l = (l \div b) * b + (l % b)
OBVIOUS

\* A line has its bit at one place, and the next and the previous line have theirs
\* one bit on and one bit back.
LEMMA CursorPlace ==
  ASSUME NEW l \in Int
  PROVE  /\ Cursor(l).byte \in Int /\ Cursor(l).mask \in Bits
         /\ l = Cursor(l).byte * ByteBits + Cursor(l).mask
<1>1. ByteBits \in Nat \ {0}
  BY NVBitmapAssumption
<1>2. /\ l \div ByteBits \in Int /\ l % ByteBits \in 0 .. ByteBits - 1
      /\ l = (l \div ByteBits) * ByteBits + (l % ByteBits)
  BY <1>1, DivMod
<1> QED
  BY <1>2 DEF Cursor, Bits

LEMMA PlaceOfCursor ==
  ASSUME NEW i \in Int, NEW k \in Bits
  PROVE  i * ByteBits + k \in Int /\ Cursor(i * ByteBits + k) = [byte |-> i, mask |-> k]
<1>1. ByteBits \in Nat \ {0} /\ k \in 0 .. ByteBits - 1
  BY NVBitmapAssumption DEF Bits
<1>2. PICK b : b = ByteBits
  OBVIOUS
<1>3. (i * b + k) \div b = i /\ (i * b + k) % b = k
  BY <1>1, <1>2
<1> QED
  BY <1>1, <1>2, <1>3 DEF Cursor

LEMMA OneUp ==
  ASSUME NEW l \in Int PROVE Up(Cursor(l)) = Cursor(l + 1)
<1>1. PICK i, k : i = Cursor(l).byte /\ k = Cursor(l).mask
  OBVIOUS
<1>2. i \in Int /\ k \in 0 .. ByteBits - 1 /\ l = i * ByteBits + k /\ ByteBits \in Nat \ {0}
  BY <1>1, CursorPlace, NVBitmapAssumption DEF Bits
<1>3. Cursor(l) = [byte |-> i, mask |-> k]
  BY <1>1 DEF Cursor
<1>4. CASE k = TopBit
  <2>1. l + 1 = (i + 1) * ByteBits + 0
    <3>1. l + 1 = i * ByteBits + ByteBits
      BY <1>2, <1>4 DEF TopBit
    <3> QED
      BY <1>2, <3>1
  <2>2. 0 \in Bits
    BY <1>2 DEF Bits
  <2>3. Cursor(l + 1) = [byte |-> i + 1, mask |-> 0]
    <3>1. i + 1 \in Int /\ (i + 1) * ByteBits + 0 = l + 1
      BY <1>2, <2>1
    <3> QED
      BY <2>2, <3>1, PlaceOfCursor
  <2> QED
    BY <1>3, <1>4, <2>3 DEF Up
<1>5. CASE k # TopBit
  <2>1. l + 1 = i * ByteBits + (k + 1) /\ k + 1 \in Bits
    BY <1>2, <1>5 DEF TopBit, Bits
  <2>2. Cursor(l + 1) = [byte |-> i, mask |-> k + 1]
    BY <1>2, <2>1, PlaceOfCursor
  <2> QED
    BY <1>3, <1>5, <2>2 DEF Up
<1> QED
  BY <1>4, <1>5

LEMMA OneDown ==
  ASSUME NEW l \in Int PROVE Down(Cursor(l)) = Cursor(l - 1)
<1>1. PICK i, k : i = Cursor(l).byte /\ k = Cursor(l).mask
  OBVIOUS
<1>2. i \in Int /\ k \in 0 .. ByteBits - 1 /\ l = i * ByteBits + k /\ ByteBits \in Nat \ {0}
  BY <1>1, CursorPlace, NVBitmapAssumption DEF Bits
<1>3. Cursor(l) = [byte |-> i, mask |-> k]
  BY <1>1 DEF Cursor
<1>4. CASE k = 0
  <2>1. l - 1 = (i - 1) * ByteBits + TopBit /\ TopBit \in Bits
    BY <1>2, <1>4 DEF TopBit, Bits
  <2>2. Cursor(l - 1) = [byte |-> i - 1, mask |-> TopBit]
    BY <1>2, <2>1, PlaceOfCursor
  <2> QED
    BY <1>3, <1>4, <2>2 DEF Down
<1>5. CASE k # 0
  <2>1. l - 1 = i * ByteBits + (k - 1) /\ k - 1 \in Bits
    BY <1>2, <1>5 DEF Bits
  <2>2. Cursor(l - 1) = [byte |-> i, mask |-> k - 1]
    BY <1>2, <2>1, PlaceOfCursor
  <2> QED
    BY <1>3, <1>5, <2>2 DEF Down
<1> QED
  BY <1>4, <1>5

\* After n rounds a loop is at the n-th bit on, or back.
LEMMA UpReaches ==
  ASSUME NEW l \in Int, NEW n \in Nat PROVE UpFrom(l)[n] = Cursor(l + n)
<1> DEFINE Def(f) == f = [k \in Nat |-> IF k = 0 THEN Cursor(l) ELSE Up(f[k - 1])]
           g == [k \in Nat |-> Cursor(l + k)]
           w == UpFrom(l)
<1>1. Def(g)
  <2>1. ASSUME NEW k \in Nat PROVE g[k] = IF k = 0 THEN Cursor(l) ELSE Up(g[k - 1])
    <3>1. CASE k = 0
      <4>1. l + 0 = l
        OBVIOUS
      <4> QED
        BY <3>1, <4>1
    <3>2. CASE k # 0
      <4>1. k - 1 \in Nat /\ l + (k - 1) \in Int /\ (l + (k - 1)) + 1 = l + k
        BY <3>2
      <4>2. g[k - 1] = Cursor(l + (k - 1)) /\ g[k] = Cursor(l + k)
        BY <4>1
      <4> QED
        BY <3>2, <4>1, <4>2, OneUp
    <3> QED
      BY <3>1, <3>2
  <2> QED
    BY <2>1
<1>2. w = CHOOSE f : Def(f)
  BY DEF UpFrom
<1>3. Def(w)
  <2> HIDE DEF Def, g, w
  <2> QED
    BY <1>1, <1>2
<1> HIDE DEF w
<1>4. w[0] = Cursor(l) /\ \A k \in Nat \ {0} : w[k] = Up(w[k - 1])
  BY <1>3
<1> DEFINE P == {k \in 0 .. n : w[k] = Cursor(l + k)}
<1>5. 0 \in P
  <2>1. l + 0 = l
    OBVIOUS
  <2> QED
    BY <1>4, <2>1
<1>6. ASSUME NEW k \in 0 .. n - 1, k \in P PROVE k + 1 \in P
  <2>1. k + 1 \in Nat \ {0} /\ (k + 1) - 1 = k /\ k + 1 \in 0 .. n /\ l + k \in Int /\ (l + k) + 1 = l + (k + 1)
    OBVIOUS
  <2>2. w[k + 1] = Up(w[k]) /\ w[k] = Cursor(l + k)
    BY <1>4, <1>6, <2>1
  <2> QED
    BY <2>1, <2>2, OneUp
<1>7. n \in P
  <2> HIDE DEF P
  <2> QED
    BY <1>5, <1>6, InductionTo
<1> QED
  BY <1>7 DEF w

LEMMA DownReaches ==
  ASSUME NEW l \in Int, NEW n \in Nat PROVE DownFrom(l)[n] = Cursor(l - 1 - n)
<1> DEFINE Def(f) == f = [k \in Nat |-> IF k = 0 THEN Down(Cursor(l)) ELSE Down(f[k - 1])]
           g == [k \in Nat |-> Cursor(l - 1 - k)]
           w == DownFrom(l)
<1>0. Down(Cursor(l)) = Cursor(l - 1 - 0)
  <2>1. l - 1 - 0 = l - 1
    OBVIOUS
  <2> QED
    BY <2>1, OneDown
<1>1. Def(g)
  <2>1. ASSUME NEW k \in Nat PROVE g[k] = IF k = 0 THEN Down(Cursor(l)) ELSE Down(g[k - 1])
    <3>1. CASE k = 0
      BY <3>1, <1>0
    <3>2. CASE k # 0
      <4>1. k - 1 \in Nat /\ l - 1 - (k - 1) \in Int /\ (l - 1 - (k - 1)) - 1 = l - 1 - k
        BY <3>2
      <4>2. g[k - 1] = Cursor(l - 1 - (k - 1)) /\ g[k] = Cursor(l - 1 - k)
        BY <4>1
      <4> QED
        BY <3>2, <4>1, <4>2, OneDown
    <3> QED
      BY <3>1, <3>2
  <2> QED
    BY <2>1
<1>2. w = CHOOSE f : Def(f)
  BY DEF DownFrom
<1>3. Def(w)
  <2> HIDE DEF Def, g, w
  <2> QED
    BY <1>1, <1>2
<1> HIDE DEF w
<1>4. w[0] = Cursor(l - 1 - 0) /\ \A k \in Nat \ {0} : w[k] = Down(w[k - 1])
  BY <1>3, <1>0
<1> DEFINE P == {k \in 0 .. n : w[k] = Cursor(l - 1 - k)}
<1>5. 0 \in P
  BY <1>4
<1>6. ASSUME NEW k \in 0 .. n - 1, k \in P PROVE k + 1 \in P
  <2>1. /\ k + 1 \in Nat \ {0} /\ (k + 1) - 1 = k /\ k + 1 \in 0 .. n
        /\ l - 1 - k \in Int /\ (l - 1 - k) - 1 = l - 1 - (k + 1)
    OBVIOUS
  <2>2. w[k + 1] = Down(w[k]) /\ w[k] = Cursor(l - 1 - k)
    BY <1>4, <1>6, <2>1
  <2> QED
    BY <2>1, <2>2, OneDown
<1>7. n \in P
  <2> HIDE DEF P
  <2> QED
    BY <1>5, <1>6, InductionTo
<1> QED
  BY <1>7 DEF w

LEMMA ByteInside ==
  ASSUME NEW n \in Nat, NEW l \in 0 .. n * ByteBits - 1
  PROVE  Cursor(l).byte \in 0 .. n - 1 /\ Cursor(l).mask \in Bits
<1>1. PICK i, k, b : i = Cursor(l).byte /\ k = Cursor(l).mask /\ b = ByteBits
  OBVIOUS
<1>2. b \in Nat \ {0} /\ n * b \in Nat
  BY <1>1, NVBitmapAssumption
<1>3. l \in Int /\ 0 <= l /\ l < n * b
  BY <1>1, <1>2
<1>4. i \in Int /\ k \in 0 .. b - 1 /\ l = i * b + k
  BY <1>1, <1>3, CursorPlace DEF Bits
<1>5. i >= 0
  <2> SUFFICES ASSUME i <= -1 PROVE FALSE
    BY <1>4
  <2>1. i * b <= (-1) * b
    BY <1>2, <1>4
  <2> QED
    BY <1>2, <1>3, <1>4, <2>1
<1>6. i <= n - 1
  <2> SUFFICES ASSUME n <= i PROVE FALSE
    BY <1>4
  <2>1. n * b <= i * b
    BY <1>2, <1>4
  <2> QED
    BY <1>2, <1>3, <1>4, <2>1
<1> QED
  BY <1>1, <1>4, <1>5, <1>6 DEF Bits

LEMMA LeastIsOnly ==
  ASSUME NEW T \in SUBSET Nat, NEW k \in T, \A j \in T : k <= j
  PROVE  Min(T) = k
<1>1. Min(T) \in T /\ \A j \in T : Min(T) <= j
  BY LeastIs
<1>2. Min(T) <= k /\ k <= Min(T) /\ Min(T) \in Nat /\ k \in Nat
  BY <1>1
<1> QED
  BY <1>2

LEMMA ForwardRight ==
  ASSUME NEW n \in Nat, bitmap \in [0 .. n - 1 -> SUBSET Bits],
         NEW l \in Bit, NEW z \in 0 .. Bytes * ByteBits
  PROVE  FreeForwardBits(bitmap, z, l) =
           IF l < z THEN Min({z} \cup {k \in TakenLines(bitmap) : k >= l}) - l ELSE 0
<1> DEFINE T == {k \in 0 .. z : l + k >= z \/ IsSet(bitmap, UpFrom(l)[k])}
<1>1. PICK t, w : t = TakenLines(bitmap) /\ w = Bytes * ByteBits
  OBVIOUS
<1>2. l \in Nat /\ l < w /\ z \in Nat /\ z <= w /\ w \in Nat
  BY <1>1, BytesAre, NVBitmapAssumption DEF Bit
<1>3. t \in SUBSET (0 .. w - 1) /\ \A k \in 0 .. w - 1 : k \in t <=> IsSet(bitmap, Cursor(k))
  BY <1>1 DEF TakenLines, Bit
<1>4. ASSUME NEW k \in 0 .. z PROVE k \in T <=> l + k >= z \/ l + k \in t
  <2>1. k \in Nat /\ UpFrom(l)[k] = Cursor(l + k)
    BY <1>2, UpReaches
  <2>2. CASE l + k >= z
    BY <2>2
  <2>3. CASE ~ (l + k >= z)
    <3>1. l + k \in 0 .. w - 1
      BY <1>2, <2>1, <2>3
    <3> QED
      BY <1>3, <2>1, <2>3, <3>1
  <2> QED
    BY <2>2, <2>3
<1>5. T \in SUBSET Nat /\ T \subseteq 0 .. z /\ FreeForwardBits(bitmap, z, l) = Min(T)
  BY <1>2 DEF FreeForwardBits
<1> HIDE DEF T
<1>6. CASE l >= z
  <2>1. 0 \in T /\ \A j \in T : 0 <= j
    <3>1. 0 \in 0 .. z /\ l + 0 >= z
      BY <1>2, <1>6
    <3> QED
      BY <1>4, <1>5, <3>1
  <2> QED
    BY <1>2, <1>5, <1>6, <2>1, LeastIsOnly
<1>7. CASE l < z
  <2> DEFINE M == {z} \cup {k \in t : k >= l}
  <2>1. M \in SUBSET Nat /\ M # {}
    <3>1. t \subseteq Nat
      BY <1>2, <1>3
    <3> QED
      BY <1>2, <3>1
  <2>2. PICK m : m = Min(M)
    OBVIOUS
  <2>3. m \in M /\ \A j \in M : m <= j
    <3> HIDE DEF M
    <3> QED
      BY <2>1, <2>2, LeastIs
  <2>4. m \in Nat /\ l <= m /\ m <= z /\ (m = z \/ m \in t)
    BY <1>2, <1>3, <1>7, <2>1, <2>3
  <2>5. m - l \in T
    <3>1. m - l \in 0 .. z /\ l + (m - l) = m
      BY <1>2, <2>4
    <3> QED
      BY <1>2, <1>4, <2>4, <3>1
  <2>6. ASSUME NEW j \in T PROVE m - l <= j
    <3>1. j \in 0 .. z /\ (l + j >= z \/ l + j \in t)
      BY <1>4, <1>5
    <3>2. CASE l + j >= z
      BY <1>2, <2>4, <3>1, <3>2
    <3>3. CASE l + j \in t
      <4>1. l + j \in M
        BY <1>2, <3>1, <3>3
      <4>2. m <= l + j
        BY <2>3, <4>1
      <4> QED
        BY <1>2, <2>4, <3>1, <4>2
    <3> QED
      BY <3>1, <3>2, <3>3
  <2>7. Min(T) = m - l
    BY <1>5, <2>5, <2>6, LeastIsOnly
  <2> QED
    BY <1>1, <1>5, <1>7, <2>2, <2>7
<1> QED
  BY <1>2, <1>6, <1>7

LEMMA BackwardRight ==
  ASSUME NEW n \in Nat, bitmap \in [0 .. n - 1 -> SUBSET Bits],
         NEW l \in Bit, NEW z \in 0 .. Bytes * ByteBits
  PROVE  FreeBackwardBits(bitmap, z, l) =
           IF l > z THEN 0 ELSE l - Max({0} \cup {k + 1 : k \in {i \in TakenLines(bitmap) : i < l}})
<1> DEFINE T == {k \in 0 .. l : \/ k > 0 /\ DownFrom(l)[k - 1] = Cursor(0)
                               \/ IsSet(bitmap, DownFrom(l)[k])}
           M == {0} \cup {k + 1 : k \in {i \in TakenLines(bitmap) : i < l}}
<1>1. PICK t, w : t = TakenLines(bitmap) /\ w = Bytes * ByteBits
  OBVIOUS
<1>2. l \in Nat /\ l < w /\ z \in Nat /\ w \in Nat
  BY <1>1, BytesAre, NVBitmapAssumption DEF Bit
<1>3. t \in SUBSET (0 .. w - 1) /\ \A k \in 0 .. w - 1 : k \in t <=> IsSet(bitmap, Cursor(k))
  BY <1>1 DEF TakenLines, Bit
<1>4. PICK m : m = Max(M)
  OBVIOUS
<1>5. M \in SUBSET (0 .. l) /\ 0 \in M
  BY <1>1, <1>2, <1>3
<1>6. m \in M /\ \A j \in M : j <= m
  <2> HIDE DEF M
  <2> QED
    BY <1>2, <1>4, <1>5, GreatestIs
<1>7. m = 0 \/ (m - 1 \in t /\ m - 1 < l)
  BY <1>1, <1>3, <1>6
<1>8. \A k \in t : k < l => k + 1 \in M
  BY <1>1
<1> HIDE DEF M
<1>9. m \in Nat /\ m <= l
  <2>1. m \in 0 .. l
    BY <1>5, <1>6
  <2> QED
    BY <1>2, <2>1
<1>10. CASE l > z
  BY <1>10 DEF FreeBackwardBits
<1>11. CASE l <= z /\ l = 0
  <2>1. m = 0
    BY <1>9, <1>11
  <2>2. FreeBackwardBits(bitmap, z, l) = 0
    BY <1>11 DEF FreeBackwardBits
  <2> QED
    BY <1>2, <1>4, <1>11, <2>1, <2>2 DEF M
<1>12. CASE l <= z /\ l # 0
  <2>1. FreeBackwardBits(bitmap, z, l) = Min(T)
    BY <1>2, <1>12 DEF FreeBackwardBits
  <2>2. ASSUME NEW k \in 0 .. l PROVE k \in T <=> k = l \/ l - 1 - k \in t
    <3>1. CASE k = l
      <4>1. k - 1 \in Nat /\ l \in Int /\ l - 1 - (k - 1) = 0 /\ k > 0
        BY <1>2, <1>12, <3>1
      <4>2. DownFrom(l)[k - 1] = Cursor(0)
        BY <4>1, DownReaches
      <4> QED
        BY <3>1, <4>1, <4>2
    <3>2. CASE k # l
      <4>1. k \in Nat /\ l \in Int /\ l - 1 - k \in 0 .. w - 1
        BY <1>2, <3>2
      <4>2. DownFrom(l)[k] = Cursor(l - 1 - k)
        BY <4>1, DownReaches
      <4>3. ~ (k > 0 /\ DownFrom(l)[k - 1] = Cursor(0))
        <5> SUFFICES ASSUME k > 0, DownFrom(l)[k - 1] = Cursor(0) PROVE FALSE
          OBVIOUS
        <5>1. k - 1 \in Nat /\ l - 1 - (k - 1) = l - k /\ l - k \in Int
          BY <1>2, <4>1
        <5>2. Cursor(l - k) = Cursor(0)
          BY <4>1, <5>1, DownReaches
        <5>3. l - k = Cursor(l - k).byte * ByteBits + Cursor(l - k).mask
          BY <5>1, CursorPlace
        <5>4. 0 = Cursor(0).byte * ByteBits + Cursor(0).mask
          BY CursorPlace
        <5> QED
          BY <3>2, <4>1, <5>2, <5>3, <5>4
      <4> QED
        BY <1>3, <3>2, <4>1, <4>2, <4>3
    <3> QED
      BY <3>1, <3>2
  <2>3. T \in SUBSET Nat /\ T \subseteq 0 .. l
    BY <1>2
  <2> HIDE DEF T
  <2>4. l - m \in T
    <3>1. l - m \in 0 .. l /\ (l - m = l <=> m = 0) /\ l - 1 - (l - m) = m - 1
      BY <1>2, <1>9
    <3> QED
      BY <1>7, <2>2, <3>1
  <2>5. ASSUME NEW j \in T PROVE l - m <= j
    <3>1. j \in 0 .. l /\ (j = l \/ l - 1 - j \in t)
      BY <2>2, <2>3
    <3>2. CASE j = l
      BY <1>2, <1>9, <3>2
    <3>3. CASE l - 1 - j \in t
      <4>1. l - 1 - j < l /\ (l - 1 - j) + 1 = l - j
        BY <1>2, <3>1
      <4>2. l - j \in M
        BY <1>8, <3>3, <4>1
      <4>3. l - j <= m
        BY <1>6, <4>2
      <4> QED
        BY <1>2, <1>9, <3>1, <4>3
    <3> QED
      BY <3>1, <3>2, <3>3
  <2>6. Min(T) = l - m
    BY <2>3, <2>4, <2>5, LeastIsOnly
  <2> QED
    BY <1>2, <1>4, <1>12, <2>1, <2>6 DEF M
<1> QED
  BY <1>2, <1>10, <1>11, <1>12

\* After k rounds of makeOne or makeZero the bits of k lines are what they write,
\* and the others what they were.
Rewritten(m, to, l, k) ==
  [b \in DOMAIN m |-> {j \in Bits : IF b * ByteBits + j \in l .. l + k - 1 THEN to = 1 ELSE j \in m[b]}]

RoundOn(m, c, to) == [m EXCEPT ![c.byte] = Written(@, c.mask, to)]

LEMMA OneRound ==
  ASSUME NEW n \in Nat, NEW m \in [0 .. n - 1 -> SUBSET Bits], NEW to, NEW l \in Nat, NEW k \in Nat,
         l + k < n * ByteBits
  PROVE  Rewritten(m, to, l, k + 1) = RoundOn(Rewritten(m, to, l, k), Cursor(l + k), to)
<1> DEFINE r == Rewritten(m, to, l, k)
           u == Rewritten(m, to, l, k + 1)
           c == Cursor(l + k)
           v == RoundOn(r, c, to)
<1>1. l + k \in 0 .. n * ByteBits - 1 /\ l + k \in Int
  BY NVBitmapAssumption
<1>2. c.byte \in 0 .. n - 1 /\ c.mask \in Bits
  BY <1>1, ByteInside
<1>3. DOMAIN m = 0 .. n - 1
  OBVIOUS
<1>4. \A b \in 0 .. n - 1, j \in Bits : j \in r[b] <=> IF b * ByteBits + j \in l .. l + k - 1 THEN to = 1 ELSE j \in m[b]
  BY <1>3 DEF Rewritten
<1>5. \A b \in 0 .. n - 1, j \in Bits :
        j \in u[b] <=> IF b * ByteBits + j \in l .. l + (k + 1) - 1 THEN to = 1 ELSE j \in m[b]
  BY <1>3 DEF Rewritten
<1>6. ASSUME NEW b \in 0 .. n - 1, NEW j \in Bits
      PROVE  /\ b * ByteBits + j \in Int
             /\ b * ByteBits + j = l + k <=> b = c.byte /\ j = c.mask
  <2>1. b \in Int
    OBVIOUS
  <2>2. b * ByteBits + j \in Int /\ Cursor(b * ByteBits + j) = [byte |-> b, mask |-> j]
    BY <2>1, PlaceOfCursor
  <2>3. l + k = c.byte * ByteBits + c.mask
    BY <1>1, CursorPlace
  <2> QED
    BY <2>2, <2>3
<1>7. /\ \A b \in 0 .. n - 1 : r[b] \subseteq Bits /\ u[b] \subseteq Bits
      /\ r = [b \in 0 .. n - 1 |-> r[b]] /\ u = [b \in 0 .. n - 1 |-> u[b]]
  BY <1>3 DEF Rewritten
<1> HIDE DEF r, u, c
<1>8. ASSUME NEW b \in 0 .. n - 1, NEW j \in Bits
      PROVE  j \in u[b] <=> IF b = c.byte /\ j = c.mask THEN to = 1 ELSE j \in r[b]
  <2>1. PICK x : x = b * ByteBits + j
    OBVIOUS
  <2>2. x \in Int /\ (x = l + k <=> b = c.byte /\ j = c.mask)
    BY <1>6, <2>1
  <2>3. x \in l .. l + (k + 1) - 1 <=> x \in l .. l + k - 1 \/ x = l + k
    BY <2>2
  <2>4. x = l + k => x \notin l .. l + k - 1
    BY <2>2
  <2> QED
    BY <1>4, <1>5, <2>1, <2>2, <2>3, <2>4
<1>9. ASSUME NEW b \in 0 .. n - 1 PROVE v[b] = IF b = c.byte THEN Written(r[b], c.mask, to) ELSE r[b]
  BY <1>7 DEF RoundOn
<1>10. ASSUME NEW b \in 0 .. n - 1 PROVE u[b] = v[b]
  <2>1. CASE b = c.byte
    <3>1. u[b] = Written(r[b], c.mask, to)
      <4>1. PICK x, y, k0 : x = u[b] /\ y = r[b] /\ k0 = c.mask
        OBVIOUS
      <4>2. x \subseteq Bits /\ y \subseteq Bits /\ k0 \in Bits
        BY <1>2, <1>7, <4>1
      <4>3. \A j \in Bits : j \in x <=> IF j = k0 THEN to = 1 ELSE j \in y
        BY <1>8, <2>1, <4>1
      <4>4. x = IF to = 1 THEN y \cup {k0} ELSE y \ {k0}
        <5>1. CASE to = 1
          BY <4>2, <4>3, <5>1
        <5>2. CASE to # 1
          BY <4>2, <4>3, <5>2
        <5> QED
          BY <5>1, <5>2
      <4> QED
        BY <4>1, <4>4 DEF Written
    <3> QED
      BY <1>9, <2>1, <3>1
  <2>2. CASE b # c.byte
    <3>1. u[b] = r[b]
      BY <1>7, <1>8, <2>2
    <3> QED
      BY <1>9, <2>2, <3>1
  <2> QED
    BY <2>1, <2>2
<1>11. v = [b \in 0 .. n - 1 |-> v[b]]
  BY <1>7 DEF RoundOn
<1>12. u = v
  BY <1>7, <1>10, <1>11
<1> QED
  BY <1>12 DEF u, r, c

LEMMA AllRounds ==
  ASSUME NEW n \in Nat, NEW m \in [0 .. n - 1 -> SUBSET Bits], NEW to, NEW l \in Nat, NEW k \in Nat,
         l + k <= n * ByteBits
  PROVE  MakeBits(m, to, l, k) = Rewritten(m, to, l, k)
<1> DEFINE step(i, r) == RoundOn(r, UpFrom(l)[i], to)
           Def(f) == f = [i \in 0 .. k |-> IF i = 0 THEN m ELSE step(i - 1, f[i - 1])]
           g == [i \in 0 .. k |-> Rewritten(m, to, l, i)]
<1>1. Rewritten(m, to, l, 0) = m
  <2>1. l .. l + 0 - 1 = {}
    OBVIOUS
  <2>2. Rewritten(m, to, l, 0) = [b \in 0 .. n - 1 |-> {j \in Bits : j \in m[b]}]
    BY <2>1 DEF Rewritten
  <2> QED
    BY <2>2
<1>2. ASSUME NEW i \in 1 .. k
      PROVE  Rewritten(m, to, l, i) = step(i - 1, Rewritten(m, to, l, i - 1))
  <2>1. i - 1 \in Nat /\ l + (i - 1) < n * ByteBits /\ (i - 1) + 1 = i /\ l \in Int
    BY NVBitmapAssumption
  <2>2. UpFrom(l)[i - 1] = Cursor(l + (i - 1))
    BY <2>1, UpReaches
  <2>3. Rewritten(m, to, l, (i - 1) + 1) = RoundOn(Rewritten(m, to, l, i - 1), Cursor(l + (i - 1)), to)
    <3>1. PICK q \in Nat : q = i - 1
      BY <2>1
    <3>2. l + q < n * ByteBits
      BY <2>1, <3>1
    <3>3. Rewritten(m, to, l, q + 1) = RoundOn(Rewritten(m, to, l, q), Cursor(l + q), to)
      BY <3>2, OneRound
    <3> QED
      BY <3>1, <3>3
  <2> QED
    BY <2>1, <2>2, <2>3
<1> HIDE DEF step
<1>3. Def(g)
  <2>1. ASSUME NEW i \in 0 .. k PROVE g[i] = IF i = 0 THEN m ELSE step(i - 1, g[i - 1])
    <3>1. CASE i = 0
      BY <1>1, <3>1
    <3>2. CASE i # 0
      <4>1. i \in 1 .. k /\ i - 1 \in 0 .. k
        BY <3>2
      <4> QED
        BY <1>2, <3>2, <4>1
    <3> QED
      BY <3>1, <3>2
  <2> QED
    BY <2>1
<1> DEFINE w == CHOOSE f : Def(f)
<1>4. Def(w)
  <2> HIDE DEF Def, g
  <2> QED
    BY <1>3
<1>5. MakeBits(m, to, l, k) = w[k]
  BY DEF MakeBits, step, RoundOn
<1> HIDE DEF w
<1>6. w[0] = m /\ \A i \in 1 .. k : w[i] = step(i - 1, w[i - 1])
  BY <1>4
<1> DEFINE S == {i \in 0 .. k : w[i] = Rewritten(m, to, l, i)}
<1>7. 0 \in S
  BY <1>1, <1>6
<1>8. ASSUME NEW i \in 0 .. k - 1, i \in S PROVE i + 1 \in S
  <2>1. i + 1 \in 1 .. k /\ (i + 1) - 1 = i
    OBVIOUS
  <2> QED
    BY <1>2, <1>6, <1>8, <2>1
<1>9. k \in S
  <2> HIDE DEF S
  <2>1. \A i \in 0 .. k : i \in S
    BY <1>7, <1>8, InductionTo
  <2>2. k \in 0 .. k
    OBVIOUS
  <2> QED
    BY <2>1, <2>2
<1> QED
  BY <1>5, <1>9

\* What the loops write is what module NVMalloc says.
LEMMA MakeRight ==
  ASSUME BitmapOK, NEW to,
         NEW l \in Nat, NEW k \in Nat, l + k <= Bytes * ByteBits
  PROVE  /\ MakeBits(bitmap, to, l, k) \in [0 .. Bytes - 1 -> SUBSET Bits]
         /\ to = 1 => TakenLines(MakeBits(bitmap, to, l, k)) = TakenLines(bitmap) \cup Lines(l, k)
         /\ to # 1 => TakenLines(MakeBits(bitmap, to, l, k)) = TakenLines(bitmap) \ Lines(l, k)
<1>0. PICK n \in Nat : bitmap \in [0 .. n - 1 -> SUBSET Bits]
  BY DEF BitmapOK
<1>1. Bytes = n /\ DOMAIN bitmap = 0 .. n - 1
  BY <1>0, BytesAre
<1>2. PICK r : r = MakeBits(bitmap, to, l, k)
  OBVIOUS
<1>3. r = Rewritten(bitmap, to, l, k)
  BY <1>0, <1>1, <1>2, AllRounds
<1>4. r = [b \in 0 .. n - 1 |-> {j \in Bits : IF b * ByteBits + j \in l .. l + k - 1 THEN to = 1 ELSE j \in bitmap[b]}]
  BY <1>1, <1>3 DEF Rewritten
<1>5. r \in [0 .. Bytes - 1 -> SUBSET Bits]
  BY <1>1, <1>4
<1>6. ASSUME NEW i \in Bit
      PROVE  IsSet(r, Cursor(i)) <=> IF i \in Lines(l, k) THEN to = 1 ELSE IsSet(bitmap, Cursor(i))
  <2>1. i \in Int /\ i \in 0 .. n * ByteBits - 1
    BY <1>1, NVBitmapAssumption DEF Bit
  <2>2. PICK b, j : b = Cursor(i).byte /\ j = Cursor(i).mask
    OBVIOUS
  <2>3. b \in 0 .. n - 1 /\ j \in Bits
    BY <2>1, <2>2, ByteInside
  <2>4. i = b * ByteBits + j
    BY <2>1, <2>2, CursorPlace
  <2>5. j \in r[b] <=> IF i \in Lines(l, k) THEN to = 1 ELSE j \in bitmap[b]
    BY <1>4, <2>3, <2>4 DEF Lines
  <2> QED
    BY <2>2, <2>5 DEF IsSet
<1>7. Lines(l, k) \subseteq Bit
  <2>1. n * ByteBits \in Nat
    BY NVBitmapAssumption
  <2> QED
    BY <1>1, <2>1 DEF Bit, Lines
<1>8. /\ \A i \in Bit : i \in TakenLines(r) <=> IsSet(r, Cursor(i))
      /\ \A i \in Bit : i \in TakenLines(bitmap) <=> IsSet(bitmap, Cursor(i))
      /\ TakenLines(r) \subseteq Bit /\ TakenLines(bitmap) \subseteq Bit
  BY DEF TakenLines
<1>9. CASE to = 1
  <2>1. TakenLines(r) = TakenLines(bitmap) \cup Lines(l, k)
    BY <1>6, <1>7, <1>8, <1>9
  <2> QED
    BY <1>2, <1>5, <1>9, <2>1
<1>10. CASE to # 1
  <2>1. TakenLines(r) = TakenLines(bitmap) \ Lines(l, k)
    BY <1>6, <1>7, <1>8, <1>10
  <2> QED
    BY <1>2, <1>5, <1>10, <2>1
<1> QED
  BY <1>9, <1>10

LEMMA MakeTaken ==
  ASSUME BitmapOK, NEW l \in Nat, NEW k \in Nat, l + k <= Bytes * ByteBits
  PROVE  /\ TakenLines(MakeBits(bitmap, 1, l, k)) = TakenLines(bitmap) \cup Lines(l, k)
         /\ TakenLines(MakeBits(bitmap, 0, l, k)) = TakenLines(bitmap) \ Lines(l, k)
<1>2. PICK one, nil : one = 1 /\ nil = 0 /\ nil # 1
  OBVIOUS
<1>3. TakenLines(MakeBits(bitmap, one, l, k)) = TakenLines(bitmap) \cup Lines(l, k)
  BY <1>2, MakeRight
<1>4. TakenLines(MakeBits(bitmap, nil, l, k)) = TakenLines(bitmap) \ Lines(l, k)
  BY <1>2, MakeRight
<1> QED
  BY <1>2, <1>3, <1>4

LEMMA LoopsRight ==
  ASSUME NEW n \in Nat, bitmap \in [0 .. n - 1 -> SUBSET Bits]
  PROVE  BitLoopsRight
<1> SUFFICES ASSUME NEW l \in Bit, NEW z \in 0 .. Bytes * ByteBits, NEW t, t = TakenLines(bitmap)
             PROVE  /\ FreeForwardBits(bitmap, z, l) =
                         IF l < z THEN Min({z} \cup {k \in t : k >= l}) - l ELSE 0
                    /\ FreeBackwardBits(bitmap, z, l) =
                         IF l > z THEN 0 ELSE l - Max({0} \cup {k + 1 : k \in {i \in t : i < l}})
                    /\ l <= z =>
                         /\ TakenLines(MakeBits(bitmap, 1, l, z - l)) = t \cup l .. z - 1
                         /\ TakenLines(MakeBits(bitmap, 0, l, z - l)) = t \ (l .. z - 1)
  BY Zenon DEF BitLoopsRight
<1>1. /\ FreeForwardBits(bitmap, z, l) = IF l < z THEN Min({z} \cup {k \in t : k >= l}) - l ELSE 0
      /\ FreeBackwardBits(bitmap, z, l) =
           IF l > z THEN 0 ELSE l - Max({0} \cup {k + 1 : k \in {i \in t : i < l}})
  BY ForwardRight, BackwardRight
<1>2. ASSUME l <= z
      PROVE  /\ TakenLines(MakeBits(bitmap, 1, l, z - l)) = t \cup l .. z - 1
             /\ TakenLines(MakeBits(bitmap, 0, l, z - l)) = t \ (l .. z - 1)
  <2>1. Bytes * ByteBits \in Nat
    BY BytesAre, NVBitmapAssumption
  <2>2. PICK k : k = z - l
    OBVIOUS
  <2>3. l \in Nat /\ k \in Nat /\ l + k = z /\ l + k <= Bytes * ByteBits
    BY <1>2, <2>1, <2>2 DEF Bit
  <2>4. /\ TakenLines(MakeBits(bitmap, 1, l, k)) = TakenLines(bitmap) \cup Lines(l, k)
        /\ TakenLines(MakeBits(bitmap, 0, l, k)) = TakenLines(bitmap) \ Lines(l, k)
    BY <2>3, MakeTaken DEF BitmapOK
  <2>5. Lines(l, k) = l .. z - 1
    BY <2>3 DEF Lines
  <2> QED
    BY <2>2, <2>4, <2>5
<1> QED
  BY <1>1, <1>2

\* Whatever has been marked, cleared and added: the loops of nvmalloc over the bytes of
\* its bitmap find the same free lines, and mark the same, as its model in lines.
THEOREM BitLoopsStayRight == BitmapSpec => []BitLoopsRight
<1> DEFINE Inv == \E n \in Nat : bitmap \in [0 .. n - 1 -> SUBSET Bits]
<1>1. BitmapInit => Inv
  BY NVBitmapAssumption DEF BitmapInit
<1>2. Inv /\ [BitmapNext]_bitmap => Inv'
  <2> SUFFICES ASSUME NEW n \in Nat, bitmap \in [0 .. n - 1 -> SUBSET Bits], [BitmapNext]_bitmap
               PROVE  \E i \in Nat : bitmap' \in [0 .. i - 1 -> SUBSET Bits]
    OBVIOUS
  <2>1. Bytes = n
    BY BytesAre
  <2>2. CASE \E to \in {0, 1}, l \in Bit, k \in 1 .. Bytes * ByteBits : MakeOneOrZero(to, l, k)
    <3>1. PICK to \in {0, 1}, l \in Bit, k \in 1 .. Bytes * ByteBits : MakeOneOrZero(to, l, k)
      BY <2>2
    <3>2. Bytes * ByteBits \in Nat
      BY <2>1, NVBitmapAssumption
    <3>3. l \in Nat /\ k \in Nat
      BY <3>2 DEF Bit
    <3>4. bitmap' \in [0 .. n - 1 -> SUBSET Bits]
      BY <2>1, <3>1, <3>3, MakeRight DEF MakeOneOrZero, BitmapOK
    <3> QED
      BY <3>4
  <2>3. CASE \E k \in GrowBytes : GrowBitmap(k)
    <3>1. PICK k \in GrowBytes : GrowBitmap(k)
      BY <2>3
    <3>2. k \in Nat /\ n + k \in Nat
      BY NVBitmapAssumption
    <3>3. bitmap' = [i \in 0 .. n + k - 1 |-> IF i < n THEN bitmap[i] ELSE {}]
      BY <2>1, <3>1 DEF GrowBitmap
    <3>4. bitmap' \in [0 .. n + k - 1 -> SUBSET Bits]
      BY <3>2, <3>3
    <3> QED
      BY <3>2, <3>4
  <2>4. CASE UNCHANGED bitmap
    BY <2>4
  <2> QED
    BY <2>2, <2>3, <2>4 DEF BitmapNext
<1>3. Inv => BitLoopsRight
  BY LoopsRight
<1> QED
  BY <1>1, <1>2, <1>3, PTL DEF BitmapSpec

\* So the loops can stand for the operators on sets of lines in NVMalloc, where the
\* bitmap has the lines that are taken and reaches as far as the free zone.
THEOREM BitmapServes ==
  ASSUME BitmapOK, TakenLines(bitmap) = taken, free_zone \in 0 .. Bytes * ByteBits, NEW l \in Bit
  PROVE  /\ FreeForwardBits(bitmap, free_zone, l) = IsFreeForward(taken, l)
         /\ FreeBackwardBits(bitmap, free_zone, l) = IsFreeBackward(taken, l)
         /\ \A k \in Nat : l + k <= Bytes * ByteBits =>
              /\ TakenLines(MakeBits(bitmap, 1, l, k)) = MakeOne(taken, l, k)
              /\ TakenLines(MakeBits(bitmap, 0, l, k)) = MakeZero(taken, l, k)
<1>1. PICK n \in Nat : bitmap \in [0 .. n - 1 -> SUBSET Bits]
  BY DEF BitmapOK
<1>2. FreeForwardBits(bitmap, free_zone, l) = IsFreeForward(taken, l)
  BY <1>1, ForwardRight DEF IsFreeForward
<1>3. FreeBackwardBits(bitmap, free_zone, l) = IsFreeBackward(taken, l)
  BY <1>1, BackwardRight DEF IsFreeBackward
<1>4. ASSUME NEW k \in Nat, l + k <= Bytes * ByteBits
      PROVE  /\ TakenLines(MakeBits(bitmap, 1, l, k)) = MakeOne(taken, l, k)
             /\ TakenLines(MakeBits(bitmap, 0, l, k)) = MakeZero(taken, l, k)
  <2>1. l \in Nat
    BY <1>1, BytesAre, NVBitmapAssumption DEF Bit
  <2> QED
    BY <1>4, <2>1, MakeTaken DEF MakeOne, MakeZero
<1> QED
  BY <1>2, <1>3, <1>4
=============================================================================
