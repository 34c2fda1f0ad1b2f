------------------------------ MODULE SlabProps -----------------------------
(***************************************************************************)
(* What makes inc/slab/slab.c correct: the properties of module Slab.      *)
(***************************************************************************)
EXTENDS Slab

InUse == {x \in Header : \E p \in mapped : x \in SlabsOf(p)}

\* Every variable keeps its type.
TypeOK ==
  /\ {partial, empty, full} \subseteq Header \cup {NULL}
  /\ link \in [Header -> [next : Header \cup {NULL}, prev : Header \cup {NULL}]]
  /\ slots \in [Header -> SUBSET Slot]
  /\ ref \in [Header -> 0 .. K] /\ page \in [Header -> Header \cup {NULL}]
  /\ mapped \subseteq Bases
  /\ items \subseteq [slab : Header, slot : Slot]
  /\ phase \in {"open", "destroyed", "lost"}

FullOnes    == {x \in InUse : slots[x] = {}}
EmptyOnes   == {x \in InUse : slots[x] = Slot}
PartialOnes == InUse \ (FullOnes \cup EmptyOnes)

\* The slabs X hang together as a list from h along the links l: what is next and
\* what is previous undo each other, and no part of X is a ring.
IsList(l, h, X) ==
  /\ IF X = {} THEN h = NULL ELSE h \in X
  /\ \A x \in X :
       /\ l[x].prev = NULL <=> x = h
       /\ l[x].prev # NULL => l[x].prev \in X /\ l[l[x].prev].next = x
       /\ l[x].next # NULL => l[x].next \in X /\ l[l[x].next].prev = x
  /\ \A T \in SUBSET X : T # {} => \E x \in T : l[x].prev \notin T

ListInv ==
  /\ IsList(link, partial, PartialOnes)
  /\ IsList(link, empty, EmptyOnes)
  /\ IsList(link, full, FullOnes)

PagesApart == \A p, q \in mapped : p # q => p + K * S <= q \/ q + K * S <= p

\* What slab_is_valid asserts of the lists, and more: each list holds exactly the
\* mapped slabs whose slots call for it, whatever was allocated, freed and unmapped
\* in whatever order.  (The asserts themselves are compiled out, slab.c:44.)
ListsExact ==
  /\ TypeOK
  /\ phase = "open" =>
    /\ PagesApart /\ ListInv
    /\ SlabIsValid
    /\ Listed(full)    = FullOnes
    /\ Listed(empty)   = EmptyOnes
    /\ Listed(partial) = PartialOnes

\* The first slab of a mapped page counts the slabs of the page that are in use,
\* one at least: a page is unmapped exactly when its last item goes, never under
\* an item and never too late.
RefcountExact ==
  phase = "open" =>
    \A p \in mapped :
      /\ ref[p] = Cardinality({x \in SlabsOf(p) : slots[x] # Slot}) /\ ref[p] >= 1
      /\ \A x \in SlabsOf(p) \ {p} : ref[x] = 0 /\ page[x] = p

\* An item that is out lies in a mapped slab whose slot is taken, and every taken
\* slot is such an item: no item is handed out twice, and none is forgotten.
ItemsExact ==
  phase = "open" =>
    items = {o \in [slab : InUse, slot : Slot] : o.slot \notin slots[o.slab]}

\* slab_traverse visits the items that are out, each of them and no other; the
\* totals of slab_stats are the slabs that are mapped, these items, and the room
\* that is left.
ReportsExact ==
  phase = "open" =>
    /\ Traversed = items
    /\ Total(LAMBDA r : r.nr_slabs, SlabStats) = Cardinality(InUse)
    /\ Total(LAMBDA r : r.used_slots, SlabStats) = Cardinality(items)
    /\ Total(LAMBDA r : r.free_slots, SlabStats) = Items * Cardinality(InUse) - Cardinality(items)

\* slab_destroy unmaps every page: each is found through its first slab, on
\* whichever list that is.
DestroyUnmapsAll == phase = "destroyed" => mapped = {}

\* What the proofs carry from state to state.
SlabInv ==
  /\ TypeOK
  /\ phase = "open" => PagesApart /\ ListInv
  /\ RefcountExact /\ ItemsExact /\ DestroyUnmapsAll

\* "assert((uintptr_t) slab->page % slab_pagesize == 0)": slab_free finds the
\* header of every item.
HeaderFound == phase # "lost"
=============================================================================
