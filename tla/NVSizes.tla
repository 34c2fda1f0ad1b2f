------------------------------ MODULE NVSizes -------------------------------
(***************************************************************************)
(* The sizes of inc/nvmalloc/nvmalloc.c, which module NVMalloc takes for   *)
(* granted: they are held in a uint32_t, rounded up to lines, and what the *)
(* mapping grows by is counted up page by page.                            *)
(***************************************************************************)
EXTENDS Request, FiniteSetsExt

CONSTANTS
  NVWord,      \* 2^32: the values of a uint32_t
  NVBase,      \* BASE_SIZE
  NVHeader,    \* sizeof(header)
  NVSizeLists, \* NR_SIZES
  NVPage,      \* PAGE_SIZE, in bytes
  NVNewPages   \* NEW_ALLOC_PAGES

ASSUME NVSizesAssumption ==
  /\ {NVWord, NVBase, NVHeader, NVSizeLists, NVPage, NVNewPages} \subseteq Nat \ {0}
  /\ NVWord % NVPage = 0 /\ NVPage % NVBase = 0
  /\ NVNewPages * NVPage < NVWord

UInt(x) == x % NVWord

\* nv_malloc takes a size_t, nvmalloc a uint32_t, and so does getFreeLocation,
\* with the header.
SizeWithHeader(x) == UInt(UInt(x) + NVHeader)

\* getBestFit; the result is an int, and -1 for a size of 0.
BestFitBytes(z) ==
  IF z > NVSizeLists * NVBase THEN NVSizeLists
  ELSE z \div NVBase - 1 + (IF z % NVBase # 0 THEN 1 ELSE 0)

\* Slip for ActualSize: sizes are cut to whole lines.
CutSize(z) == IF BestFitBytes(z) < NVSizeLists THEN (BestFitBytes(z) + 1) * NVBase ELSE z - (z % NVBase)

\* getFreeLocation
ActualSize(z) ==
  IF BestFitBytes(z) < NVSizeLists THEN (BestFitBytes(z) + 1) * NVBase
  ELSE IF z % NVBase # 0 THEN UInt(z - (z % NVBase) + NVBase) ELSE z

\* getMoreMemory: while (size > newPages * PAGE_SIZE) newPages++.  The product
\* has had all its values after NVWord \div NVPage rounds.
PageCounts == NVNewPages .. NVNewPages + NVWord \div NVPage
LoopExits(z) == {k \in PageCounts : z <= UInt(k * NVPage)}
Endless(z)   == LoopExits(z) = {}
MorePages(z) == Min(LoopExits(z))

\* Is x far enough from the end of a word for its size not to wrap?
NoWrap(x) == x + NVHeader + NVBase <= NVWord

\* The block is the fewest lines that hold the request and its header, and a size
\* with a list of its own has the list of blocks that are exactly as large.
RoundsToLines(x) ==
  NoWrap(x) =>
    LET z == ActualSize(SizeWithHeader(x)) IN
    /\ z % NVBase = 0 /\ z >= x + NVHeader /\ z - NVBase < x + NVHeader
    /\ BestFitBytes(z) = BestFitBytes(SizeWithHeader(x))
    /\ BestFitBytes(z) \in 0 .. NVSizeLists

\* The loop of getMoreMemory finds the fewest pages that hold the block; only
\* within a page of 2^32 does it not end.
GrowthCovers(x) ==
  NoWrap(x) =>
    LET z == ActualSize(SizeWithHeader(x)) IN
    /\ Endless(z) <=> z > NVWord - NVPage
    /\ ~ Endless(z) =>
         /\ MorePages(z) * NVPage >= z
         /\ MorePages(z) = NVNewPages \/ (MorePages(z) - 1) * NVPage < z

\* nvmalloc takes the fewest lines that hold a request and its header, and asks the
\* system for the fewest pages that hold them, but for requests at the very end of
\* a uint32_t: its size wraps there, or the loop does not end.
NVSizesCovered == RoundsToLines(asked) /\ GrowthCovers(asked)
=============================================================================
