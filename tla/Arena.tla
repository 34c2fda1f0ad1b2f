------------------------------- MODULE Arena -------------------------------
(***************************************************************************)
(* What zalloc promises its clients, with no tree in sight: an arena of    *)
(* ArenaPages pages, out of which a request is served by the lowest free   *)
(* region of the right size that is aligned to that size, and to which     *)
(* that region returns when it is freed.  Module Buddy implements it.      *)
(***************************************************************************)
EXTENDS Naturals

CONSTANTS
  ArenaPages,   \* pages in the arena (1 << self->level)
  Demands,      \* request sizes in bytes
  DemandPages   \* pages a request is rounded up to

VARIABLE blocks   \* allocated blocks: first page, pages, bytes asked for

\* The region of n pages from page `off` lies in the arena and is free.
Vacant(off, n) ==
  /\ off + n <= ArenaPages
  /\ \A b \in blocks : off + n <= b.off \/ b.off + b.pages <= off

\* Page offsets at which n pages can be handed out.
Places(n) == {off \in 0 .. ArenaPages - 1 : off % n = 0 /\ Vacant(off, n)}

Init == blocks = {}

Malloc(s) ==
  LET n == DemandPages[s] IN
  \E off \in Places(n) :
    /\ \A o \in Places(n) : off <= o
    /\ blocks' = blocks \cup {[off |-> off, pages |-> n, used |-> s]}

Free(b) == blocks' = blocks \ {b}

Next == \/ \E s \in Demands : Malloc(s)
        \/ \E b \in blocks : Free(b)

Spec == Init /\ [][Next]_blocks
=============================================================================
