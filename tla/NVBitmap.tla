------------------------------ MODULE NVBitmap ------------------------------
(***************************************************************************)
(* The bitmap of inc/nvmalloc/nvmalloc.c, byte by byte, and the loops that *)
(* walk it with an index and a mask, for the sets of lines of module       *)
(* NVMalloc.                                                               *)
(*                                                                         *)
(* A byte is the set of its bits that are 1, a mask the number of its one  *)
(* bit: 0 stands for 1, TopBit for 128.  l and n count lines; free_lines   *)
(* are those in front of free_zone.                                        *)
(***************************************************************************)
EXTENDS Integers, FiniteSetsExt

CONSTANTS
  ByteBits,    \* bits of an unsigned char
  InitBytes,   \* bytes of the bitmap at first
  GrowBytes,   \* bytes it may grow by at a time
  MaxBytes     \* bound: bytes it may grow to

ASSUME NVBitmapAssumption ==
  ByteBits \in Nat \ {0} /\ InitBytes \in Nat /\ MaxBytes \in Nat /\ GrowBytes \subseteq Nat

VARIABLE bitmap

Bits   == 0 .. ByteBits - 1
TopBit == ByteBits - 1
Bytes  == Cardinality(DOMAIN bitmap)     \* bitmap_size
Bit    == 0 .. Bytes * ByteBits - 1

\* Where the bit of line l is.
Cursor(l)   == [byte |-> l \div ByteBits, mask |-> l % ByteBits]
IsSet(m, c) == c.mask \in m[c.byte]

\* The next and the previous bit.
LateCarry(c) == IF c.mask = ByteBits THEN [byte |-> c.byte + 1, mask |-> 0] ELSE [c EXCEPT !.mask = @ + 1]  \* slip for Up
Up(c)   == IF c.mask = TopBit THEN [byte |-> c.byte + 1, mask |-> 0] ELSE [c EXCEPT !.mask = @ + 1]
Down(c) == IF c.mask = 0 THEN [byte |-> c.byte - 1, mask |-> TopBit] ELSE [c EXCEPT !.mask = @ - 1]

\* Where a loop is after so many rounds.
UpFrom(l)   == LET at[n \in Nat] == IF n = 0 THEN Cursor(l) ELSE Up(at[n - 1]) IN at
DownFrom(l) == LET at[n \in Nat] == IF n = 0 THEN Down(Cursor(l)) ELSE Down(at[n - 1]) IN at

\* isFreeForward: the rounds until the loop ends.
FreeForwardBits(m, free_lines, l) ==
  Min({n \in 0 .. free_lines : l + n >= free_lines \/ IsSet(m, UpFrom(l)[n])})

\* isFreeBackward: the loop ends at a bit that is 1, or behind the first bit of all.
FreeBackwardBits(m, free_lines, l) ==
  IF l > free_lines \/ l = 0 THEN 0
  ELSE LET at == DownFrom(l) IN
       Min({n \in 0 .. l : \/ n > 0 /\ at[n - 1] = Cursor(0)
                           \/ IsSet(m, at[n])})

\* makeOne and makeZero: what a round does to a byte, and all n rounds.
Written(byte, mask, to) == IF to = 1 THEN byte \cup {mask} ELSE byte \ {mask}
MakeBits(m, to, l, n) ==
  LET made[k \in 0 .. n] ==
        IF k = 0 THEN m
        ELSE LET c == UpFrom(l)[k - 1] IN [made[k - 1] EXCEPT ![c.byte] = Written(@, c.mask, to)]
  IN made[n]

-----------------------------------------------------------------------------
\* nvmalloc_init: calloc
BitmapInit == bitmap = [i \in 0 .. InitBytes - 1 |-> {}]

MakeOneOrZero(to, l, n) ==
  /\ l + n <= Bytes * ByteBits
  /\ bitmap' = MakeBits(bitmap, to, l, n)

\* getMoreMemory: realloc, and a loop that clears what is new.
GrowBitmap(k) ==
  /\ Bytes + k <= MaxBytes
  /\ bitmap' = [i \in 0 .. Bytes + k - 1 |-> IF i < Bytes THEN bitmap[i] ELSE {}]

BitmapNext ==
  \/ \E to \in {0, 1}, l \in Bit, n \in 1 .. Bytes * ByteBits : MakeOneOrZero(to, l, n)
  \/ \E k \in GrowBytes : GrowBitmap(k)

BitmapSpec == BitmapInit /\ [][BitmapNext]_bitmap

-----------------------------------------------------------------------------
\* The lines whose bit is 1.
TakenLines(m) == {l \in Bit : IsSet(m, Cursor(l))}

\* From every line the loops find, and change, what module NVMalloc says of the set
\* of taken lines: across bytes, at the free zone, at line 0 and at the last bit.
BitLoopsRight ==
  \A l \in Bit, free_lines \in 0 .. Bytes * ByteBits :
    LET t == TakenLines(bitmap) IN
    /\ FreeForwardBits(bitmap, free_lines, l) =
         IF l < free_lines THEN Min({free_lines} \cup {k \in t : k >= l}) - l ELSE 0
    /\ FreeBackwardBits(bitmap, free_lines, l) =
         IF l > free_lines THEN 0 ELSE l - Max({0} \cup {k + 1 : k \in {i \in t : i < l}})
    /\ l <= free_lines =>
         /\ TakenLines(MakeBits(bitmap, 1, l, free_lines - l)) = t \cup l .. free_lines - 1
         /\ TakenLines(MakeBits(bitmap, 0, l, free_lines - l)) = t \ (l .. free_lines - 1)
=============================================================================
