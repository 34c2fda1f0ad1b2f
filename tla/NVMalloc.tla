------------------------------ MODULE NVMalloc ------------------------------
(***************************************************************************)
(* inc/nvmalloc/nvmalloc.c: the wear-aware allocator that inc/nv_alloc.c   *)
(* wraps.                                                                  *)
(*                                                                         *)
(* Memory is handed out in lines of BASE bytes, from the free lists or     *)
(* else from free_zone, the untouched end of the mapping.  A bitmap has    *)
(* the taken lines.  A freed block stays taken in the don't-allocate queue *)
(* until it has waited long enough, so that no line wears out by being     *)
(* written over and over; then it joins its free neighbours.               *)
(*                                                                         *)
(* A free list holds hints: places that were once the start of a free      *)
(* region of the list's size, and that may since have been allocated,      *)
(* extended or given back to the zone.  What is free there is measured     *)
(* with the bitmap when a hint is used.                                    *)
(*                                                                         *)
(* Places count lines from start_address.  A header holds bytes: size for  *)
(* an allocated block, -size for a free region, -(size + 1) in the queue.  *)
(* The checksum beside it is left out: it is right wherever a header was   *)
(* written, and Junk stands for what a client's data leaves there.         *)
(* nvmalloc takes no lock; one thread uses it.                             *)
(***************************************************************************)
EXTENDS Integers, Sequences, FiniteSetsExt

CONSTANTS
  BASE,             \* BASE_SIZE: bytes in a line
  HEADER,           \* sizeof(header)
  NR_SIZES,         \* free lists of one size; one more has all larger regions
  PAGE,             \* lines in a page
  NEW_ALLOC_PAGES,  \* pages the mapping grows by, at least
  InitPages,        \* nrPages of nvmalloc_init
  MaxLines,         \* bound: lines the mapping may grow to
  MaxHints,         \* bound: no call begins while there are this many hints
  Requests,         \* sizes in bytes that clients ask for
  Waits             \* is dont_allocate_wait above 0?

ASSUME NVAssumption ==
  /\ {BASE, NR_SIZES, PAGE, NEW_ALLOC_PAGES, InitPages, MaxHints} \subseteq Nat \ {0}
  /\ HEADER \in Nat /\ BASE > 1 /\ Requests \subseteq Nat \ {0} /\ Waits \in BOOLEAN
  /\ MaxLines \in Nat /\ InitPages * PAGE <= MaxLines

VARIABLES
  taken,          \* bitmap: the lines whose bit is 1
  hdr,            \* line -> the header at its start
  next,           \* line -> header_free.next, for blocks in the queue
  free_lists,     \* index -> hints
  free_zone, end_address,
  head, tail,     \* dont_allocate_list_head, dont_allocate_list_tail
  pc,             \* where the running call is: "idle", "search", "time"
  need,           \* actualSize, in lines
  index,          \* the free list being searched
  held            \* blocks of the clients

queue == <<next, head, tail>>
zone  == <<free_zone, end_address>>
vars  == <<taken, hdr, queue, free_lists, zone, pc, need, index, held>>

NIL   == -1
Junk  == 0
Line  == 0 .. MaxLines - 1
Index == 0 .. NR_SIZES

Lines(l, n) == l .. l + n - 1
Block(l, n) == [at |-> l, lines |-> n]

-----------------------------------------------------------------------------
(* Sizes *)

\* getFreeLocation: the size with its header, rounded up to whole lines.
LinesOf(s) == (s + HEADER + BASE - 1) \div BASE

\* getBestFit
BestFit(n) == IF n > NR_SIZES THEN NR_SIZES ELSE n - 1

AllocatedHeader(n) == BASE * n
FreeHeader(n)      == - (BASE * n)
WaitingHeader(n)   == - (BASE * n + 1)

\* Lines of a free region, and of a waiting block; 0 for any other header.
FreeLines(h)    == IF h < 0 /\ h % BASE = 0 THEN (- h) \div BASE ELSE 0
WaitingLines(h) == IF h < 0 THEN (- h - 1) \div BASE ELSE 0

-----------------------------------------------------------------------------
(* The bitmap, t being the taken lines *)

MakeTooFew(t, l, n) == t \cup Lines(l, n - 1)   \* slip for MakeOne
MakeOne(t, l, n)  == t \cup Lines(l, n)
MakeZero(t, l, n) == t \ Lines(l, n)

\* isFreeForward: free lines from l on, up to the free zone.
PastZone(t, l) == Min({MaxLines} \cup {k \in t : k >= l}) - l   \* slip
IsFreeForward(t, l) ==
  IF l < free_zone THEN Min({free_zone} \cup {k \in t : k >= l}) - l ELSE 0

\* isFreeBackward: free lines in front of l.
IsFreeBackward(t, l) ==
  IF l > free_zone THEN 0 ELSE l - Max({0} \cup {k + 1 : k \in {i \in t : i < l}})

-----------------------------------------------------------------------------
\* nvmalloc_init
Init ==
  /\ taken = {} /\ free_zone = 0 /\ end_address = InitPages * PAGE
  /\ hdr = [l \in Line |-> Junk] /\ next = [l \in Line |-> NIL]
  /\ free_lists = [i \in Index |-> <<>>]
  /\ head = NIL /\ tail = NIL
  /\ pc = "idle" /\ need = 0 /\ index = 0 /\ held = {}

HintCount == SumFunction([i \in Index |-> Len(free_lists[i])])

\* No call is running.  Hints that have gone stale may pile up without end.
MayCall == pc = "idle" /\ HintCount < MaxHints

(* nvmalloc, getFreeLocation *)

Malloc(s) ==
  /\ MayCall
  /\ pc' = "search" /\ need' = LinesOf(s) /\ index' = BestFit(LinesOf(s))
  /\ UNCHANGED <<taken, hdr, queue, free_lists, zone, held>>

\* The lists fl with a hint to a region of n lines at l.
Hinted(fl, n, l) == [fl EXCEPT ![BestFit(n)] = Append(@, l)]

\* The block that is found: makeOne, and its header.
HandOut(l, h) ==
  /\ taken' = MakeOne(taken, l, need)
  /\ hdr' = [i \in Line |-> IF i = l THEN AllocatedHeader(need)
                            ELSE IF i \in Lines(l, need) THEN Junk ELSE h[i]]
  /\ held' = held \cup {Block(l, need)}
  /\ pc' = "time" /\ need' = 0 /\ index' = 0

NextList ==
  /\ pc = "search" /\ index <= NR_SIZES /\ free_lists[index] = <<>>
  /\ index' = index + 1
  /\ UNCHANGED <<taken, hdr, queue, free_lists, zone, pc, need, held>>

\* The region around the first hint of the list, and the lists without it.
Region == LET l    == Head(free_lists[index])
              back == IsFreeBackward(taken, l)
          IN  Block(l - back, back + IsFreeForward(taken, l))
MovedBack == [free_lists EXCEPT ![index] = Append(Tail(@), Head(@))]   \* slip for Popped
Popped == [free_lists EXCEPT ![index] = Tail(@)]

\* Too small: the hint is dropped.
DropHint ==
  /\ pc = "search" /\ index <= NR_SIZES /\ free_lists[index] # <<>>
  /\ Region.lines < need
  /\ free_lists' = Popped
  /\ UNCHANGED <<taken, hdr, queue, zone, pc, need, index, held>>

\* Where the headers of a region begin, and where the last one ends: a header
\* that cannot be right is not passed.
Headers(r) ==
  LET end == r.at + r.lines
      at[k \in 0 .. r.lines] ==
        IF k = 0 THEN r.at
        ELSE LET l == at[k - 1] IN
             IF l < end /\ FreeLines(hdr[l]) \in 1 .. end - l THEN l + FreeLines(hdr[l]) ELSE l
  IN  {at[k] : k \in 0 .. r.lines}

\* The rest of a region that is cut keeps its header when one begins there
\* (exactFit), and gets one otherwise.
NoNewHeader(r) == hdr    \* slip for Cut
Cut(r) ==
  IF r.lines = need \/ r.at + need \in Headers(r) THEN hdr
  ELSE [hdr EXCEPT ![r.at + need] = FreeHeader(r.lines - need)]

TakeHint ==
  /\ pc = "search" /\ index <= NR_SIZES /\ free_lists[index] # <<>>
  /\ Region.lines >= need
  /\ free_lists' = IF Region.lines = need THEN Popped
                   ELSE Hinted(Popped, Region.lines - need, Region.at + need)
  /\ HandOut(Region.at, Cut(Region))
  /\ UNCHANGED <<queue, zone>>

\* No hint has led to anything.
Fits == free_zone + need <= end_address

FromZone ==
  /\ free_zone' = free_zone + need
  /\ HandOut(free_zone, hdr)
  /\ UNCHANGED <<queue, free_lists>>

TakeZone ==
  /\ pc = "search" /\ index > NR_SIZES /\ Fits
  /\ FromZone
  /\ UNCHANGED end_address

\* getMoreMemory
NewPages(n) == Max({NEW_ALLOC_PAGES, (n + PAGE - 1) \div PAGE})

MoreMemory ==
  /\ pc = "search" /\ index > NR_SIZES /\ ~ Fits
  /\ end_address + NewPages(need) * PAGE <= MaxLines
  /\ end_address' = end_address + NewPages(need) * PAGE
  /\ FromZone

\* The system has no more: nvmalloc returns NULL, without incrementTime.
NoMemory ==
  /\ pc = "search" /\ index > NR_SIZES /\ ~ Fits
  /\ pc' = "idle" /\ need' = 0 /\ index' = 0
  /\ UNCHANGED <<taken, hdr, queue, free_lists, zone, held>>

-----------------------------------------------------------------------------
(* nvfree *)

\* putInDNAList
Enqueued(l) ==
  /\ head' = IF tail = NIL THEN l ELSE head
  /\ tail' = l
  /\ next' = IF tail = NIL THEN next ELSE [next EXCEPT ![tail] = l]

Free(b) ==
  /\ MayCall
  /\ hdr' = [hdr EXCEPT ![b.at] = WaitingHeader(@ \div BASE)]
  /\ Enqueued(b.at)
  /\ held' = held \ {b} /\ pc' = "time"
  /\ UNCHANGED <<taken, free_lists, zone, need, index>>

-----------------------------------------------------------------------------
(* incrementTime, at the end of both *)

\* The queue is empty, or its first block has to wait on.  With no wait to
\* keep, the time since a block was added is never too short.
NothingDue ==
  /\ pc = "time" /\ (head = NIL \/ Waits)
  /\ pc' = "idle"
  /\ UNCHANGED <<taken, hdr, queue, free_lists, zone, need, index, held>>

\* The first block leaves the queue.  Nothing reads its `next` any more.
Dequeued ==
  /\ head' = IF head = tail THEN NIL ELSE next[head]
  /\ tail' = IF head = tail THEN NIL ELSE tail
  /\ next' = [next EXCEPT ![head] = NIL]

\* extendFreeLocation, for the block at `head`
Released == MakeZero(taken, head, WaitingLines(hdr[head]))
Forward  == IsFreeForward(Released, head)
Backward == IsFreeBackward(Released, head)

\* insertFreeLocation: what ends at the free zone joins it.  Nothing reads the
\* headers in there.
ReleaseToZone ==
  /\ pc = "time" /\ head # NIL
  /\ head + Forward >= free_zone /\ head < free_zone
  /\ taken' = Released /\ Dequeued
  /\ free_zone' = head - Backward
  /\ hdr' = [l \in Line |-> IF l < free_zone' THEN hdr[l] ELSE Junk]
  /\ pc' = "idle"
  /\ UNCHANGED <<free_lists, end_address, need, index, held>>

\* insertFreeLocation: a header over the block and what is free behind it, and
\* a hint; one more for all that is free, when there is something in front.
HintForwardOnly == Hinted(free_lists, Forward, head)   \* slip for Hints
Hints ==
  IF Backward = 0 THEN Hinted(free_lists, Forward, head)
  ELSE Hinted(Hinted(free_lists, Forward + Backward, head - Backward), Forward, head)

ReleaseToLists ==
  /\ pc = "time" /\ head # NIL
  /\ ~ (head + Forward >= free_zone /\ head < free_zone)
  /\ taken' = Released /\ Dequeued
  /\ hdr' = [hdr EXCEPT ![head] = FreeHeader(Forward)]
  /\ free_lists' = Hints
  /\ pc' = "idle"
  /\ UNCHANGED <<zone, need, index, held>>

Next ==
  \/ \E s \in Requests : Malloc(s)
  \/ NextList \/ DropHint \/ TakeHint \/ TakeZone \/ MoreMemory \/ NoMemory
  \/ \E b \in held : Free(b)
  \/ NothingDue \/ ReleaseToZone \/ ReleaseToLists

Spec == Init /\ [][Next]_vars
=============================================================================
