------------------------------ MODULE SlabSize ------------------------------
(***************************************************************************)
(* slab_init of inc/slab/slab.c: how large a slab of items of x bytes is,  *)
(* and how many items it has.  A slab is the header and the items behind   *)
(* it.  64 items would fill the 64 slots of `slots`; the power of two that *)
(* holds them is then halved, as long as two items fit into the half.      *)
(***************************************************************************)
EXTENDS Request, FiniteSetsExt

CONSTANTS
  DataOffset,    \* offsetof(struct slab_header, data)
  Slots,         \* bits of `slots` (64)
  SlabPageSize,  \* slab_pagesize, a power of two
  MaxShift       \* bound: slabs are no larger than 2^MaxShift bytes

PowerOf2[k \in 0 .. MaxShift] == IF k = 0 THEN 1 ELSE 2 * PowerOf2[k - 1]
PowersOf2 == {PowerOf2[k] : k \in 0 .. MaxShift}

ASSUME SlabSizeAssumption ==
  /\ {DataOffset, Slots, MaxShift} \subseteq Nat \ {0} /\ Slots >= 2
  /\ SlabPageSize \in PowersOf2

LeastSlabsize(x) == DataOffset + Slots * x

ASSUME MaxShiftSuffices == LeastSlabsize(MaxSize) <= PowerOf2[MaxShift]

\* 1 << ceil(log2(least_slabsize)).  Far below 2^53 the rounding of log2 does not show.
WholeSlabsize(x) == Min({q \in PowersOf2 : q >= LeastSlabsize(x)})
HalfSlabsize(x)  == WholeSlabsize(x) \div 2

Shrinks(x) ==
  /\ WholeSlabsize(x) # LeastSlabsize(x)
  /\ DataOffset < HalfSlabsize(x)
  /\ HalfSlabsize(x) - DataOffset >= 2 * x

Slabsize(x) == IF Shrinks(x) THEN HalfSlabsize(x) ELSE WholeSlabsize(x)

HeaderForgotten(x) == IF Shrinks(x) THEN HalfSlabsize(x) \div x ELSE Slots  \* slip for Itemcount
Itemcount(x) == IF Shrinks(x) THEN (HalfSlabsize(x) - DataOffset) \div x ELSE Slots

PagesPerAlloc(x) == Max({Slabsize(x), SlabPageSize})

\* The asserts of slab_is_valid on the sizes (compiled out, slab.c:44).
SizesAsserted(x) ==
  /\ {Slabsize(x), PagesPerAlloc(x)} \subseteq PowersOf2
  /\ Itemcount(x) \in 2 .. Slots
  /\ PagesPerAlloc(x) >= SlabPageSize /\ PagesPerAlloc(x) >= Slabsize(x)
  /\ DataOffset + x * Itemcount(x) <= Slabsize(x)

\* They hold, and the slab has all the items there is room for: one more would not
\* fit, by room or by slots, and slabs fill their page.  x is sch->itemsize.
LayoutValid(x) ==
  /\ SizesAsserted(x)
  /\ PagesPerAlloc(x) % Slabsize(x) = 0
  /\ Itemcount(x) < Slots => DataOffset + (Itemcount(x) + 1) * x > Slabsize(x)

\* slab_init lays out slabs of items of every size as slab_is_valid asserts, with
\* as many items as fit: what is asked for is sch->itemsize.
SlabLayoutValid == asked > 0 => LayoutValid(asked)
=============================================================================
