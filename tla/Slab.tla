-------------------------------- MODULE Slab --------------------------------
(***************************************************************************)
(* inc/slab/slab.c: a slab_chain, the allocator of fixed-size items.       *)
(*                                                                         *)
(* The chain maps pages of K slabs each.  A slab starts with its header    *)
(* and holds Items items; it is on one of three doubly linked lists        *)
(* (partial, empty, full) by how many of its slots are free.  The first    *)
(* slab of a page counts in `refcount` the slabs of the page that are in   *)
(* use; the last one to go unmaps the page.  The chain has no lock: one    *)
(* thread uses it, and a call is one action.                               *)
(*                                                                         *)
(* Addresses count memory pages of the system.  slab_free finds the header *)
(* of an item by rounding the item's address down to a multiple of the     *)
(* slab size S, which is right where the kernel happens to map pages at    *)
(* multiples of S: Bases says where it maps them.                          *)
(***************************************************************************)
EXTENDS Integers, SequencesExt

CONSTANTS
  S,      \* sch->slabsize
  K,      \* slabs in a page: pages_per_alloc / slabsize
  Items,  \* sch->itemcount
  Bases,    \* addresses at which mmap may map a page
  MaxItems  \* bound: items that are out at a time

ASSUME SlabAssumption ==
  /\ S \in Nat \ {0} /\ K \in Nat \ {0} /\ Items \in Nat /\ Items >= 2
  /\ Bases \subseteq Nat /\ IsFiniteSet(Bases) /\ MaxItems \in Nat

NULL == -1
Slot == 0 .. Items - 1                    \* sch->empty_slotmask
Rest == Slot \ {0}                        \* sch->initial_slotmask
SlabsOf(p) == {p + k * S : k \in 0 .. K - 1}
Header == UNION {SlabsOf(p) : p \in Bases}

VARIABLES
  partial, empty, full,  \* heads of the lists
  link,    \* header -> its next and prev
  slots,   \* header -> its free slots
  ref,     \* header -> refcount
  page,    \* header -> first slab of its page, for the slabs that are not first
  mapped,  \* the pages that are mapped
  items,   \* items handed out and not freed yet
  phase    \* "open"; "destroyed"; "lost": slab_free has read a header that is none

heads  == <<partial, empty, full>>
fields == <<link, slots, ref, page>>
vars   == <<heads, fields, mapped, items, phase>>

Unlinked == [next |-> NULL, prev |-> NULL]

-----------------------------------------------------------------------------
(* The moves of the lists.  l is the links so far. *)

SetNext(l, x, y) == [l EXCEPT ![x].next = y]
SetPrev(l, x, y) == IF x = NULL THEN l ELSE [l EXCEPT ![x].prev = y]

\* if ((x->prev->next = x->next) != NULL) x->next->prev = x->prev;
HalfCut(l, x) == SetNext(l, l[x].prev, l[x].next)  \* slip for CutOut
CutOut(l, x) == SetPrev(SetNext(l, l[x].prev, l[x].next), l[x].next, l[x].prev)

\* if ((head = head->next) != NULL) head->prev = NULL;
DropHead(l, head) == SetPrev(l, l[head].next, NULL)

\* x leaves the list of this head.
Left(l, x, head)     == IF x = head THEN DropHead(l, head) ELSE CutOut(l, x)
LeftHead(l, x, head) == IF x = head THEN l[x].next ELSE head

\* x->next = head; if (head != NULL) head->prev = x;
Pushed(l, x, head) == SetPrev(SetNext(l, x, head), head, x)

\* The header that counts the slabs in use of x's page.
Counter(x) == IF ref[x] # 0 THEN x ELSE page[x]

Item(x, i) == [slab |-> x, slot |-> i]
FirstFree(x) == CHOOSE i \in slots[x] : \A j \in slots[x] : i <= j

\* addr & alignment_mask: the S memory pages of a slab hold its items in order.
SlabAt(o) == ((o.slab + (o.slot * S) \div Items) \div S) * S

-----------------------------------------------------------------------------
\* slab_init
Init ==
  /\ partial = NULL /\ empty = NULL /\ full = NULL
  /\ link = [x \in Header |-> Unlinked] /\ slots = [x \in Header |-> {}]
  /\ ref = [x \in Header |-> 0] /\ page = [x \in Header |-> NULL]
  /\ mapped = {} /\ items = {} /\ phase = "open"

MayAlloc == phase = "open" /\ Cardinality(items) < MaxItems

\* slab_alloc: the first free slot of the first partial slab, which may be full then.
AllocPartial ==
  LET x == partial
      i == FirstFree(x) IN
  /\ MayAlloc /\ partial # NULL
  /\ slots' = [slots EXCEPT ![x] = @ \ {i}]
  /\ items' = items \cup {Item(x, i)}
  /\ IF slots'[x] = {}
       THEN /\ partial' = link[x].next /\ full' = x
            /\ link' = Pushed(DropHead(link, x), x, full)
       ELSE UNCHANGED <<partial, full, link>>
  /\ UNCHANGED <<empty, ref, page, mapped, phase>>

\* The first empty slab becomes the only partial one.
OwnCounted(x) == [ref EXCEPT ![x] = @ + 1]  \* slip for Counted
Counted(x) == [ref EXCEPT ![Counter(x)] = @ + 1]

AllocEmpty ==
  /\ MayAlloc /\ partial = NULL /\ empty # NULL
  /\ partial' = empty /\ empty' = link[empty].next
  /\ link' = SetNext(DropHead(link, empty), empty, NULL)
  /\ ref' = Counted(empty)
  /\ slots' = [slots EXCEPT ![empty] = Rest]
  /\ items' = items \cup {Item(empty, 0)}
  /\ UNCHANGED <<full, page, mapped, phase>>

\* The headers of a page that has just been mapped: the first slab is partial,
\* the others are chained as empty ones.
NewLink(p, x) ==
  IF x = p THEN Unlinked
           ELSE [next |-> IF x + S \in SlabsOf(p) THEN x + S ELSE NULL,
                 prev |-> IF x - S = p THEN NULL ELSE x - S]

AllocMap(p) ==
  /\ MayAlloc /\ partial = NULL /\ empty = NULL
  /\ \A q \in mapped : p + K * S <= q \/ q + K * S <= p
  /\ mapped' = mapped \cup {p}
  /\ partial' = p
  /\ empty' = IF K > 1 THEN p + S ELSE NULL
  /\ link' = [x \in Header |-> IF x \in SlabsOf(p) THEN NewLink(p, x) ELSE link[x]]
  /\ slots' = [x \in Header |->
                 IF x = p THEN Rest ELSE IF x \in SlabsOf(p) THEN Slot ELSE slots[x]]
  /\ ref' = [x \in Header |-> IF x = p THEN 1 ELSE IF x \in SlabsOf(p) THEN 0 ELSE ref[x]]
  /\ page' = [x \in Header |-> IF x \in SlabsOf(p) \ {p} THEN p ELSE page[x]]
  /\ items' = items \cup {Item(p, 0)}
  /\ UNCHANGED <<full, phase>>

\* mmap fails: partial is NULL again and so is the answer.
AllocFails ==
  /\ MayAlloc /\ partial = NULL /\ empty = NULL
  /\ UNCHANGED vars

-----------------------------------------------------------------------------
(* slab_free(o) *)

\* The item's header is where the mask says.
Found(o) == phase = "open" /\ SlabAt(o) = o.slab

\* Any other address holds an item, or nothing that is mapped.
FreeLost(o) ==
  /\ phase = "open" /\ SlabAt(o) # o.slab
  /\ phase' = "lost"
  /\ UNCHANGED <<heads, fields, mapped, items>>

\* A full slab becomes the first partial one.
FreeFull(o) ==
  LET x == o.slab IN
  /\ Found(o) /\ slots[x] = {}
  /\ slots' = [slots EXCEPT ![x] = {o.slot}]
  /\ full' = LeftHead(link, x, full)
  /\ link' = Pushed(SetPrev(Left(link, x, full), x, NULL), x, partial)
  /\ partial' = x
  /\ items' = items \ {o}
  /\ UNCHANGED <<empty, ref, page, mapped, phase>>

FewUsedSlots(x) == slots[x] # {} /\ Cardinality(Slot \ slots[x]) <= 2  \* slip for OneUsedSlot
OneUsedSlot(x) == slots[x] # {} /\ Cardinality(Slot \ slots[x]) <= 1

\* The last item of a page with no other slab in use: the slabs of the page
\* leave their lists, in the order of their addresses, and it is unmapped.
Emptied(l, x, p) ==
  LET cut[k \in 0 .. K] ==
        IF k = 0 THEN l
        ELSE LET y == p + (k - 1) * S
                 before == cut[k - 1]
             IN IF y = empty \/ y = x THEN before ELSE CutOut(before, y)
  IN cut[K]

FreeUnmap(o) ==
  LET x    == o.slab
      p    == Counter(x)
      cut  == Emptied(Left(link, x, partial), x, p)
      head == empty # NULL /\ empty \in SlabsOf(p)
      done == IF head THEN DropHead(cut, empty) ELSE cut IN
  /\ Found(o) /\ OneUsedSlot(x) /\ ref[p] = 1
  /\ partial' = LeftHead(link, x, partial)
  /\ empty' = IF head THEN cut[empty].next ELSE empty
  /\ mapped' = mapped \ {p}
  /\ link' = [y \in Header |-> IF y \in SlabsOf(p) THEN Unlinked ELSE done[y]]
  /\ slots' = [y \in Header |-> IF y \in SlabsOf(p) THEN {} ELSE slots[y]]
  /\ ref' = [ref EXCEPT ![p] = 0]
  /\ page' = [y \in Header |-> IF y \in SlabsOf(p) THEN NULL ELSE page[y]]
  /\ items' = items \ {o}
  /\ UNCHANGED <<full, phase>>

\* The last item of a slab, in a page that stays.
FreeToEmpty(o) ==
  LET x == o.slab IN
  /\ Found(o) /\ OneUsedSlot(x) /\ ref[Counter(x)] # 1
  /\ slots' = [slots EXCEPT ![x] = Slot]
  /\ partial' = LeftHead(link, x, partial)
  /\ link' = Pushed(SetPrev(Left(link, x, partial), x, NULL), x, empty)
  /\ empty' = x
  /\ ref' = [ref EXCEPT ![Counter(x)] = @ - 1]
  /\ items' = items \ {o}
  /\ UNCHANGED <<full, page, mapped, phase>>

FreeSome(o) ==
  /\ Found(o) /\ slots[o.slab] # {} /\ ~ OneUsedSlot(o.slab)
  /\ slots' = [slots EXCEPT ![o.slab] = @ \cup {o.slot}]
  /\ items' = items \ {o}
  /\ UNCHANGED <<heads, link, ref, page, mapped, phase>>

-----------------------------------------------------------------------------
\* Where next leads from a head in k steps, and the slabs met before NULL: one more
\* than there are in a list that runs into a ring.
Walked(head) ==
  LET at[k \in 0 .. Cardinality(Header)] ==
        IF k = 0 THEN head
        ELSE LET x == at[k - 1] IN IF x = NULL THEN NULL ELSE link[x].next
  IN  at
Chain(head) ==
  LET at == Walked(head) IN
  [i \in 1 .. Cardinality({k \in DOMAIN at : at[k] # NULL}) |-> at[i - 1]]
Listed(head) == Range(Chain(head))

\* slab_is_valid: its asserts on the lists, but for those on addresses.
SlabIsValid ==
  /\ \A head \in {partial, empty, full} : \A i \in DOMAIN Chain(head) :
       link[Chain(head)[i]].prev = IF i = 1 THEN NULL ELSE Chain(head)[i - 1]
  /\ \A x \in Listed(full) : slots[x] = {}
  /\ \A x \in Listed(empty) : slots[x] = Slot
  /\ \A x \in Listed(partial) : slots[x] # {} /\ slots[x] # Slot

\* slab_stats (and slab_dump, row by row): what is reported of a list.
UsedOf(head) == SumFunction([i \in DOMAIN Chain(head) |-> Cardinality(Slot \ slots[Chain(head)[i]])])
FreeOf(head) == SumFunction([i \in DOMAIN Chain(head) |-> Cardinality(slots[Chain(head)[i]])])
ListStats(head) ==
  [nr_slabs |-> Len(Chain(head)), used_slots |-> UsedOf(head), free_slots |-> FreeOf(head)]

SlabStats == <<ListStats(partial), ListStats(empty), ListStats(full)>>
Total(field(_), stats) == field(stats[1]) + field(stats[2]) + field(stats[3])

\* slab_traverse: the items it visits.
NotFullOnes == [slab : Listed(partial), slot : Slot]  \* slip for Traversed
Traversed ==
  {o \in [slab : Listed(partial), slot : Slot] : o.slot \notin slots[o.slab]}
  \cup [slab : Listed(full), slot : Slot]

\* slab_destroy: every page whose first slab is on a list is unmapped.
SomePages    == {x \in Listed(partial) \cup Listed(empty) : ref[x] # 0}  \* slip for DestroyPages
DestroyPages == {x \in Listed(partial) \cup Listed(empty) \cup Listed(full) : ref[x] # 0}

Destroy ==
  /\ phase = "open"
  /\ mapped' = mapped \ DestroyPages
  /\ items' = {} /\ phase' = "destroyed"
  /\ UNCHANGED <<heads, fields>>

-----------------------------------------------------------------------------
Alloc   == AllocPartial \/ AllocEmpty \/ AllocFails \/ \E p \in Bases : AllocMap(p)
Free(o) == FreeFull(o) \/ FreeUnmap(o) \/ FreeToEmpty(o) \/ FreeSome(o) \/ FreeLost(o)

Next == Alloc \/ Destroy \/ \E o \in items : Free(o)

Spec == Init /\ [][Next]_vars
=============================================================================
