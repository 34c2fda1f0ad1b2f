------------------------------ MODULE WearHeap ------------------------------
(***************************************************************************)
(* What nvmalloc promises: blocks that do not meet, and for every freed    *)
(* block a wait, in the order of freeing, before its lines are used again. *)
(* Module NVMalloc implements it.                                          *)
(***************************************************************************)
EXTENDS Naturals, Sequences

CONSTANTS
  Places,    \* lines of memory
  Lengths    \* lines that blocks may have

VARIABLES
  blocks,    \* what the clients hold
  waiting    \* freed blocks, the longest freed first

Waiting == {waiting[i] : i \in 1 .. Len(waiting)}

Apart(a, b) == a.at + a.lines <= b.at \/ b.at + b.lines <= a.at

Init == blocks = {} /\ waiting = <<>>

Malloc ==
  \E b \in [at : Places, lines : Lengths] :
    /\ \A c \in blocks \cup Waiting : Apart(b, c)
    /\ blocks' = blocks \cup {b}
    /\ UNCHANGED waiting

Free(b) == blocks' = blocks \ {b} /\ waiting' = Append(waiting, b)

Release == waiting # <<>> /\ waiting' = Tail(waiting) /\ UNCHANGED blocks

Next == Malloc \/ Release \/ \E b \in blocks : Free(b)

Spec == Init /\ [][Next]_<<blocks, waiting>>
=============================================================================
