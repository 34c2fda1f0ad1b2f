----------------------------- MODULE PageCount -----------------------------
(***************************************************************************)
(* The first line of buddy_alloc (inc/buddy/buddy.c): how many pages a     *)
(* request of s bytes is given, and what calloc asks for.  s goes through  *)
(* a float, the page count through next_pow_of_2, whose is_pow_of_2 looks  *)
(* at a uint32_t; calloc's product is a size_t.  The widths are constants, *)
(* so that TLC sees every kind of truncation with small numbers.  Where    *)
(* the code works on bits, a word is the set of the places of its ones.    *)
(***************************************************************************)
EXTENDS Request, Sequences, FiniteSetsExt

CONSTANTS
  PageSize,  \* PAGE_SIZE
  Pages,     \* 1 << self->level: the pages of the arena
  Mantissa,  \* significant bits of a float (24)
  Narrow,    \* bits of is_pow_of_2's argument (32)
  Shifts,    \* the shift counts of next_pow_of_2, in order (1, 2, 4, 8, 16)
  SizeBits,  \* bits of a size_t (64)
  Counts     \* the first arguments of calloc

TwoTo[k \in 0 .. SizeBits] == IF k = 0 THEN 1 ELSE 2 * TwoTo[k - 1]
Powers == {TwoTo[k] : k \in 0 .. SizeBits}

\* How far down a bit has come after the first i shifts.
Reach[i \in 0 .. Len(Shifts)] == IF i = 0 THEN 0 ELSE Reach[i - 1] + Shifts[i]

ASSUME PageCountAssumption ==
  /\ SizeBits \in Nat \ {0} /\ Mantissa \in 1 .. SizeBits /\ Narrow \in 1 .. SizeBits
  /\ PageSize \in Powers \ {1} /\ Pages \in Powers /\ Pages * PageSize \in Powers
  /\ Counts \subseteq Nat

\* is_pow_of_2 sees every page count of the arena whole, and the shifts leave no gap
\* down to its lowest bit.
ASSUME NarrowAssumption == Pages < TwoTo[Narrow]
ASSUME ShiftAssumption ==
  /\ Shifts \in Seq(Nat \ {0})
  /\ \A i \in 1 .. Len(Shifts) : Shifts[i] <= Reach[i - 1] + 1
  /\ \E k \in 0 .. Reach[Len(Shifts)] + 1 : k <= SizeBits /\ Pages = TwoTo[k]

ASSUME AskedAssumption == MaxSize < TwoTo[SizeBits]

\* The distance between neighbouring floats at x: the quotient has Mantissa bits.
Ulp(x) == Min({u \in Powers : x \div u < TwoTo[Mantissa]})

\* (float) x: to the nearest float, a tie to the one with an even significand.
ToFloat(x) ==
  LET u    == Ulp(x)
      down == x \div u
      rest == 2 * (x % u)
  IN IF rest > u \/ (rest = u /\ down % 2 = 1) THEN (down + 1) * u ELSE down * u

\* ceil(f / PAGE_SIZE): dividing a float by a power of two is exact.
Floor(f)   == f \div PageSize  \* slip for Ceiling
Ceiling(f) == (f + PageSize - 1) \div PageSize

Places    == 0 .. SizeBits - 1
BitsOf(x) == {k \in Places : (x \div TwoTo[k]) % 2 = 1}

\* The number with the bits b.
ValueOf(b) ==
  LET below[k \in 0 .. SizeBits] ==
        IF k = 0 THEN 0 ELSE below[k - 1] + (IF k - 1 \in b THEN TwoTo[k - 1] ELSE 0)
  IN below[SizeBits]

\* The argument is cut to Narrow bits.
IsPowOf2(x) == LET low == x % TwoTo[Narrow] IN BitsOf(low) \cap BitsOf(low - 1) = {}

\* x |= x >> k for one shift after the other.
Smeared(b) ==
  LET after[i \in 0 .. Len(Shifts)] ==
        IF i = 0 THEN b
        ELSE LET t == after[i - 1] IN t \cup {k \in Places : k + Shifts[i] \in t}
  IN after[Len(Shifts)]

NextPowOf2(x) == IF IsPowOf2(x) THEN x ELSE ValueOf(Smeared(BitsOf(x))) + 1

PagesFor(x) ==
  LET size == NextPowOf2(Ceiling(ToFloat(x))) IN IF size = 0 THEN 1 ELSE size

\* calloc: num * size, which it also clears.
CallocBytes(num, x) == (num * x) % TwoTo[SizeBits]

-----------------------------------------------------------------------------
\* A block of x bytes has a power of two of pages, half as many would not do, and
\* only the rounding of the float can leave it short, by half a unit in the last
\* place: neither the truncation in is_pow_of_2 nor the missing shifts let a large
\* request in.
Granted(x) ==
  LET n == PagesFor(x) IN
  n <= Pages =>
    /\ n \in Powers
    /\ n * PageSize + Ulp(x) \div 2 >= x
    /\ n > 1 => (n \div 2) * PageSize < x

\* malloc(s) and calloc(num, s) get such a block: what calloc clears lies in it but
\* for the rounding, and it holds less than num items of s bytes only where their
\* product is more than a size_t can say.
ShortByRoundingOnly ==
  /\ Granted(asked)
  /\ \A num \in Counts :
       /\ Granted(CallocBytes(num, asked))
       /\ num * asked < TwoTo[SizeBits] => CallocBytes(num, asked) = num * asked

\* And a request that fits in the arena is not refused for its size.
PageCountsRight == ShortByRoundingOnly /\ (asked <= Pages * PageSize => PagesFor(asked) <= Pages)

\* "Overlap test" (src/zalloc.c): the bytes of a block are as many as were asked.
BlockHoldsRequest == PagesFor(asked) <= Pages => asked <= PagesFor(asked) * PageSize
=============================================================================
