--------------------------- MODULE NVMallocProps ---------------------------
(* What is required of NVMalloc. *)
EXTENDS NVMalloc

\* The don't-allocate queue, read as incrementTime does: from its head along
\* `next` to its tail, each block as long as its header says.
Walked ==
  LET at[k \in 0 .. MaxLines] ==
        IF k = 0 THEN head
        ELSE LET l == at[k - 1] IN IF l \in {NIL, tail} THEN NIL ELSE next[l]
  IN  at
Queue ==
  LET at == Walked IN
  [i \in 1 .. Cardinality({k \in DOMAIN at : at[k] # NIL})
     |-> Block(at[i - 1], WaitingLines(hdr[at[i - 1]]))]
Queued == {Queue[i] : i \in DOMAIN Queue}

\* The free regions in front of the free zone, as large as they are.
Regions ==
  {r \in [at : Line, lines : 1 .. MaxLines] :
     /\ r.at + r.lines <= free_zone
     /\ Lines(r.at, r.lines) \cap taken = {}
     /\ r.at = 0 \/ r.at - 1 \in taken
     /\ r.at + r.lines = free_zone \/ r.at + r.lines \in taken}

Heap == INSTANCE WearHeap
  WITH Places <- Line, Lengths <- {LinesOf(s) : s \in Requests},
       blocks <- held, waiting <- Queue

-----------------------------------------------------------------------------

Blocks == [at : Line, lines : Nat \ {0}]

\* Every variable keeps its type, and the free zone lies in the mapping.
TypeOK ==
  /\ taken \subseteq Line
  /\ hdr \in [Line -> Int] /\ next \in [Line -> Line \cup {NIL}]
  /\ free_lists \in [Index -> Seq(Line)]
  /\ free_zone \in 0 .. end_address /\ end_address \in 0 .. MaxLines
  /\ {head, tail} \subseteq Line \cup {NIL} /\ (head = NIL <=> tail = NIL)
  /\ pc \in {"idle", "search", "time"} /\ need \in Nat /\ index \in 0 .. NR_SIZES + 1
  /\ held \subseteq Blocks

\* q is what waits, longest freed first: its blocks are linked from head to tail,
\* and say in their headers that they wait.
IsQueue(q) ==
  /\ q \in Seq(Blocks)
  /\ head = (IF q = <<>> THEN NIL ELSE q[1].at)
  /\ tail = (IF q = <<>> THEN NIL ELSE q[Len(q)].at)
  /\ \A i \in 1 .. Len(q) - 1 : next[q[i].at] = q[i + 1].at
  /\ \A i \in 1 .. Len(q) : hdr[q[i].at] = WaitingHeader(q[i].lines)

\* The bitmap has exactly the lines of the blocks that are held or wait, each
\* line in one block, all in front of the free zone.
BitmapInv(q) ==
  LET blocks == held \cup {q[i] : i \in 1 .. Len(q)} IN
  /\ taken = UNION {Lines(b.at, b.lines) : b \in blocks}
  /\ \A a, b \in blocks : a # b => Heap!Apart(a, b)
  /\ \A i, j \in 1 .. Len(q) : q[i] = q[j] => i = j
  /\ \A i \in 1 .. Len(q) : q[i] \notin held
  /\ \A l \in taken : l < free_zone

\* nvfree finds the header that it checks, and reads the block's length in it.
HeldInv == \A b \in held : hdr[b.at] = AllocatedHeader(b.lines)

\* A search is for what a client asked for, and has left empty the lists before
\* the one it is at.
SearchInv ==
  pc = "search" =>
    /\ need \in {LinesOf(s) : s \in Requests}
    /\ \A i \in 0 .. index - 1 : BestFit(need) <= i => free_lists[i] = <<>>
    /\ BestFit(need) <= index

\* Each line is in one block, and the queue is whole: what every step relies on.
NVInv(q) == TypeOK /\ IsQueue(q) /\ BitmapInv(q) /\ HeldInv /\ SearchInv

\* The bitmap and the queue are right (makeOne, makeZero, extendFreeLocation,
\* putInDNAList, incrementTime), whatever is allocated and freed in which order.
LinesExact == NVInv(Queue)

\* Headers lie end to end over every free region: getFreeLocation finds its
\* way through a region, and its "corruption" exits are not reached.  Nothing
\* free is left in front of the free zone.
HeadersExact ==
  \A r \in Regions : r.at + r.lines \in Headers(r) /\ r.at + r.lines # free_zone

\* A free region that has a list for its size is on it: however hints went
\* stale, no such region is lost.
RegionsHinted ==
  \A r \in Regions : r.lines <= NR_SIZES =>
    \E k \in 1 .. Len(free_lists[BestFit(r.lines)]) :
      free_lists[BestFit(r.lines)][k] = r.at

\* A search comes to an end even where every hint has gone stale, since each of its
\* steps uses up a hint that leads to nothing, or a list; and it touches the zone last,
\* only when no free region that has a list for its size would do.
Remaining == HintCount + NR_SIZES + 1 - index
SearchExact ==
  [][/\ pc = "search" /\ pc' = "search" => Remaining' \in 0 .. Remaining - 1
     /\ free_zone' > free_zone => \A r \in Regions : r.lines < need \/ r.lines > NR_SIZES]_vars

\* Blocks do not meet, neither those of clients nor those that wait, and blocks
\* leave the queue in the order in which they were freed.
ImplementsWearHeap == Heap!Spec
=============================================================================
