# zalloc in TLA+

zalloc is a `malloc` replacement: a shared library, loaded with `LD_PRELOAD`, whose
`malloc`, `calloc`, `realloc` and `free` hand out pages of a 2 GiB file mapping that a
buddy tree administers, under one mutex. Next to it lie two more allocators (a slab chain
and a wear-aware one) that are compiled in but not wired to `malloc`. This directory holds
specifications of the code, TLC runs that check them on small instances, and machine-checked
proofs, for all sizes, of the buddy tree, of the library around it, of the slab chain, of nvmalloc,
of the registry of handlers and of the look-up in `foot.c`.

`tlc -config X.cfg M` runs a model (see the table of runs). `tlapm M.tla` checks the proofs of
`BuddyLemmas`, `BuddyProofs`, `ZallocProofs`, `FootProofs`, `Induction`, `SlabProofs`,
`NVMallocProofs` and `RegistryProofs`. `PROJECT.json` lists what models what, line by line.

## The system

| part | source | state | operations | modelled in |
|---|---|---|---|---|
| buddy tree | `inc/buddy/buddy.c` | array of nodes (state, used bytes), level | `buddy_alloc`, `buddy_free`, `buddy_used_size`, `buddy_page_size` | `Buddy`, `PageCount` |
| buddy arena | `inc/buddy_alloc.c` | `isInit`, `isDeinit`, `buddy`, `memblock` | `init_`, `buddy_xmalloc`, `buddy_xfree`, `buddy_get_size`, constructor, destructor | `Zalloc` |
| zalloc | `src/zalloc.c` | `lock_alloc` | `malloc`, `calloc`, `realloc`, `free`, `posix_memalign`, constructor, destructor | `Zalloc` |
| slab chain | `inc/slab/slab.c` | three lists of slabs, slot masks, reference counts | `slab_init`, `slab_alloc`, `slab_free`, `slab_traverse`, `slab_destroy`, `slab_is_valid`, `slab_stats` | `Slab`, `SlabSize` |
| slab handler | `inc/slab_alloc.c` | a chain that nobody initialises | wrappers | not modelled (dead: its constructor is commented out) |
| registry | `src/handler.c`, `inc/common/mini-clist.h` | ring list of handlers | `handler_register`, `handler_unregister`, `handler_get` | `Registry`, `HandlerList`; how often it is called in `Zalloc` |
| nvmalloc | `inc/nvmalloc/nvmalloc.c`, `inc/nv_alloc.c` | free lists by size and wear, do-not-allocate queue, bitmap, clock | `nvmalloc`, `nvfree`, `nvmalloc_init`, `nvmalloc_exit` | `NVMalloc`, `NVSizes`, `NVBitmap` |
| foot | `inc/foot.c` | two function pointers, `isFootInit`, `lock_foot` | `foot_init`, `origin_malloc`, `origin_free` | `Foot` |
| ram handler | `inc/ram_alloc.c` | | a constructor that registers, pass-through | a registration of `Registry`, calls of `Zalloc` |
| mmap handler | `inc/mmap_alloc.c` | bump pointer | | not modelled (no build has it, and it shares `memblock`, `fd` and `sb` with `buddy_alloc.c`) |
| logging | `inc/common/dbg.h` | | | not modelled |

How they interact. A call of a client thread locks `lock_alloc` and calls one or more
`buddy_*` functions; each of these runs `init_` first, which, until it has succeeded once,
makes a new tree, opens and maps the file and registers the handler. Constructors run in link
order before `main()` (the arena's without the mutex), destructors in the reverse order after
it (the mutex goes first, then the arena, again without the mutex), and other threads may
still run then.

What is hard here: the loops of the tree use unsigned indices that wrap above the root and
rely on what is read there; FULL, SPLIT and UNUSED marks depend on the whole history of
calls; set-up that fails half way and is retried, and that prints while the mutex is held;
`realloc` as three calls in one critical section; shutdown under running threads; a list of
handlers that grows under a walk without a lock; pointers left in slabs that change lists; hints
of nvmalloc that outlive the regions they were made for; sizes that pass through a float, a
`uint32_t` and sums that wrap.
`PROJECT.json` lists these hazards at their lines with the properties that watch them.

## Modules

**`Arena`** is the promise: a set of blocks, and a `malloc` that picks the lowest aligned
place that is free. `Buddy` is shown to implement it; `Zalloc` uses it in the tree's stead.

**`Buddy`** is `inc/buddy/buddy.c` at the grain of loop iterations. `st` and `used` are the
node array; `pc`, `op` and the locals (`size`, `index`, `level`, `length`, `left`, `offset`)
are those of the running call. One call runs at a time, as under the mutex. Actions and code:

| actions | code |
|---|---|
| `AllocTooLarge`, `AllocStart` | `buddy_alloc` up to its loop |
| `Take`, `SplitDown`, `Down`, `NextSibling`, `StartClimb`, `Climb` | the search loop, its `for (;;)` included |
| `MarkParent`, `MarkDone` | `_mark_parent` |
| `WalkStart`, `WalkDown`, `WalkAbort`, `QueryFound`, `FreeFound` | the walk that `buddy_free`, `buddy_used_size` and `buddy_page_size` share; `WalkAbort` is a failed assert |
| `CombineUp`, `CombineClear`, `Unfull`, `UnfullDone` | `_combine` |
| `Return` | the call returns |

`uint64_t` is `W` bits wide, so that `index` and `length` wrap as in the code, and
`LevelByte` is what `tree[-1].state` reads (the packed struct puts `level` there: 31 - 12 =
19). No action asks whether its indices are in the array: `SplitDown` would write behind it if a
search came to a leaf with too great a length, and that none does is a matter of the invariant.
Once `length` has overflowed to 0 no node matches any more, and `level`, which only a match reads,
stays as it is (`Followed`). `live` is not in the code: it is what the clients hold, added by the step that takes a
node. Clients free, and ask for the size of, what they hold. `Exhaust` says whether they may
ask for more than is free: without it the allocator keeps its promises, with it the model
shows what the code does instead of answering -1. The state `abort` has no successor: the
process has ended.

**`BuddyProps`** holds the properties of `Buddy` and its inductive invariant, `BuddyLemmas`
and `BuddyProofs` the proofs. **`ZallocProps`** and `ZallocProofs` do the same for `Zalloc`.

**`PageCount`** is the first line of `buddy_alloc`: `(float) s`, `ceil`, `next_pow_of_2` with
the `uint32_t` of `is_pow_of_2`; and the product that `calloc` asks for, cut to a `size_t`. Where the
code works on bits, a word is the set of the places of its ones: `x & (x - 1)` is a meet of two such
sets, `x |= x >> k` one of the rounds of `Smeared`. The widths are constants; `MCBuddy` assumes the page counts of its requests and has TLC check them
against this module. **`SlabSize`** is the arithmetic of `slab_init`, with the asserts of
`slab_is_valid` on its results. **`NVSizes`** has what `NVMalloc` takes for granted: sizes in a
`uint32_t`, their rounding to lines, and the loop that counts new pages. **`NVBitmap`** is the bitmap
itself, in bytes: the loops of `isFreeForward`, `isFreeBackward`, `makeOne` and `makeZero`, each a
recursive function of its rounds (where its index and mask are, what it has written), and how
`getMoreMemory` makes it longer. `NVMalloc` has the set of taken lines in its place. **`Request`** is the
client of `PageCount`, `SlabSize` and `NVSizes`, who asks for every size in turn.

**`Zalloc`** is the library with threads: every step of a call that touches shared memory is
an action of that thread, `init_` is three (new tree, mapping, registration), and `stage` is
how far the main thread has come through constructors, `main()` and destructors. `mem` says
of each page who wrote it and how much, so that copying and keeping contents can be stated;
`holds` is what clients hold. `init_` prints first: where the C library allocates a buffer for that
(`InitPrint`), the thread waits for itself. Blocks are of one page: sizes and splitting are `Buddy`'s
business. The tree is full when all pages are taken, and the search then spins with the mutex held.

A pointer is a page, NULL, or one of three that are no block. `Wild` is NULL or `MAP_FAILED` with an
offset, where nothing is mapped. `Under` is `memblock - 1`, the answer to a request larger than the
arena (`AllocHuge`): what lies there is the system's affair, so a write from there on may fault, or go
on over page 0 and, when `calloc` or the client itself writes (`Zero`, `WriteUnder`), over every page
(`Overrun`). `Behind` lies behind the arena.

Each `buddy_*` function tests `buddy` and then uses it, in two steps (`AllocCheck` and `AllocTake`,
`SizeCheck` and `SizeOld`, `FreeCheck` and `FreeBlock`). The use is one step of `Arena` as long as the
thread is alone in the tree, which the mutex sees to while there is one. When a second thread is in
the tree at the same time, which takes a destroyed mutex, the loops of the two interleave, both may
take one node, and marks may be missing: the tree is `torn` from then on, and each use of it may find
what it likes, spin, leave the array or fail an assert (`AllocTorn`, `SizeTorn`, `FreeTorn`). The
destructor unmaps the arena (`DestructorUnmaps`) before it forgets the tree (`DestructorForgets`), and
late threads may call in between. A thread that passed the test before the tree was forgotten accesses
NULL or not, as the compiler likes (`NoTree`).

**`Slab`** is a `slab_chain`. A header is its address; `link`, `slots`, `ref` and `page` are
its fields, and each branch of `slab_alloc` and `slab_free` is an action with the pointer
writes in the code's order (the helpers `CutOut`, `DropHead`, `Pushed` are the three idioms
the code repeats). The item count and sizes that `slab_init` computes are constants here (`SlabSize` computes
them). `SlabIsValid`, `SlabStats` and `Traversed` are what `slab_is_valid` asserts, `slab_stats`
counts and `slab_traverse` visits when they follow the lists: `Walked` is where a loop gets from a
head in so many steps, `Chain` the slabs it meets before NULL. `Bases` are the addresses `mmap` may return: when one is no multiple of the slab size the mask in
`slab_free` finds another place, and the run ends in the phase `lost`. The unmapped memory of
a page is reset in the model, so that equal states are equal; nothing reads it.

**`NVMalloc`** is `nvmalloc.c` in lines of memory. `taken` is the bitmap, `hdr` the header at the
start of each line (what a client's data leaves there is `Junk`), `free_lists` the lists of hints,
`head`, `tail` and `next` the don't-allocate queue. A call is `Malloc` or `Free`, then the steps
of the search (`NextList`, `DropHint`, `TakeHint`; `TakeZone`, `MoreMemory`, `NoMemory` when no
hint helps), then `incrementTime` (`NothingDue`, `ReleaseToZone`, `ReleaseToLists`). The clock is
not there: whether the first block of the queue has waited long enough is a choice, or always so
when there is no wait. That is exact, because the time that passes between two calls may be any.
The messages and exits on a corrupt header are not actions: `HeadersExact` says that they are
never reached. **`WearHeap`** is the promise: blocks that do not meet, and for freed ones a queue.
**`NVMallocProps`** holds the properties and the mapping of one to the other: `Queue` is what
`incrementTime` finds when it follows `next` from `head` to `tail`. **`NVMallocProofs`** proves them.

**`Registry`** is `handler.c` on the macros of `mini-clist.h`. A registration is the stores of
`LIST_ADDQ`: what no reader follows at once (`RegisterBegin`), then `el->p->n = el` and
`el->n = lh` in either order, since nothing orders them (`RegisterReach`, `RegisterEnd`). A walk of
`handler_get` (or of `test_all`, over `handlers_get`) goes on between them. `handler_unregister` is
one action; nothing in the program calls it, so it runs between two steps of a walk, for any handler
but the one the walk is at. A handler is registered once: `ZallocInv` says that of `init_`, which
may run often, and the other registration is a constructor's. **`HandlerList`** is the promise, where
taking off one that is not listed changes nothing. **`RegistryProps`** has the properties and the
mapping: who is listed is read along `p`, from the last handler to the first (`FromEnd`, `Ring`),
which is right even between the stores of a registration. **`RegistryProofs`** proves them.

**`Foot`** is `foot_init` under `lock_foot`, look-up by look-up, with `dlsym` that fails or not and
a `dlerror` that may speak of an earlier error. Its constructor is commented out, so threads call it
at will. **`MCParts`** puts the small parts side by side for one run: `PageCount`, `SlabSize`,
`NVSizes` over every size, `NVBitmap`, `Registry`, and `Foot`; they share nothing, and one of them moves.

Operators commented as a *slip* are wrong versions of the operator after them. They are used
nowhere; putting one in the other's place makes a named property fail (`mutants` in
`PROJECT.json`), which shows that the property depends on that line of code.

## Runs

| run | what it checks | what it shows |
|---|---|---|
| `buddy_arena` | `BuddyInv`, `TreeExact`, `OthersUntouched`, `CallsReturn`, `ImplementsArena` | 8 pages, requests of one page, of four and of too many, nothing asked that does not fit: marks and merges across three levels; calls are a first-fit arena; all parts of the inductive invariant |
| `buddy_exhausted` | `BuddyInv`, `NoOverlap`, `UsedSizeAnswer`, `AbortOnlyBehind`, `BehindOnlyWhenExhausted`, `SearchEnds` | 4 pages of two bytes, requests beyond what is free, both size queries: what survives, and which asserts may fail |
| `zalloc_threads` | `ZallocInv`, `OneAtATime`, `SoleHolder`, `Accounted`, `Contents`, `TreeKeepsBlocks`, `LockReleased` | two threads in all calls; set-up that fails in each way and is retried, prints that allocate; oversized requests, written through |
| `zalloc_exit` | `GoneStaysGone`, `CrashHasCause` | a thread that runs on while destructors run, in the tree together with the main thread too, and oversized requests |
| `slab_chain` | `ListsExact`, `RefcountExact`, `ItemsExact`, `ReportsExact`, `DestroyUnmapsAll` | every order of operations on two pages of three slabs: lists, counts, items, and what `slab_traverse` and `slab_stats` report of them |
| `nv_lists` | `LinesExact`, `HeadersExact`, `RegionsHinted`, `SearchExact`, `ImplementsWearHeap` | six lines, blocks of one, two and three: bitmap, headers and hints agree, no free region of a listed size is lost, searches end and touch the zone last, freed blocks wait in order |
| `small_parts` | `PageCountsRight`, `SlabLayoutValid`, `NVSizesCovered`, `BitLoopsRight`, `RingExact`, `WalkComplete`, `FaultOnlyInRace`, `WalkEnds`, `ImplementsHandlerList`, `FootExact` | all sizes to 2100 in narrow types, for pages, slabs and lines; every bitmap of three, six and nine lines, reached as it is written and grows; three handlers that come and go under a walk; look-ups of two threads that fail in every way |

`FaultOnlyInRace` says what the code does, not what one would wish: a walk that overtakes
`LIST_ADDQ` after its third store and before its last runs into NULL. That takes a thread that walks
while another registers; `test_all` walks and registers in one thread, and is safe. `NVSizesCovered`
likewise excepts the sizes near 2^32 that wrap, and states which those are.

Five runs are expected to find a violation; each shows where the code departs from what it
or its comments say:

| run | what the code does |
|---|---|
| `buddy_out_of_memory` | `index` is unsigned and both `return -1` are dead: with nothing left, a place behind the arena is handed out or, with the root FULL, the search never ends |
| `buddy_page_size` | `buddy_page_size` does not divide the offset by the page size |
| `pages_rounding` | `(float) s` may round down, and the block is then shorter than the request |
| `zalloc_map_failed` | after a failed `mmap`, `malloc` returns a pointer that is not NULL |
| `slab_aligned` | `slab_free` needs pages at multiples of the slab size, which `mmap` does not give |

### Bounds

* `Buddy`: 4 pages have every shape of node (root, inner, leaf; left and right); 8 add an inner
  node below an inner node, needed for marks that travel two levels. `buddy_arena` has 8,
  `buddy_exhausted`, which goes on behind the arena, has 4 and adds requests of two pages.
  `W` is 7 and 5 bits, the fewest with `2 * L < W`: `length` is doubled by each pass past the root and
  overflows, as in 64 bits, but not before each level of the tree has had its pass.
* `PageCount`: 4-bit floats round from 17 on, 6 bits truncate from 64 pages on; the sizes go to
  2100 (525 pages), beyond both and beyond the arena of 16. A `size_t` of 12 bits wraps for
  `calloc` of 3 and 7 items.
* `SlabSize`: item sizes to 2100 with a header of 40 bytes and the build's 64 slots, so that slabs
  are both smaller and larger than the page, 16 KiB instead of what the system has.
* `NVSizes`: an 11-bit `uint32_t` has all its sizes below 2100, with those that wrap.
* `NVBitmap`: bytes of three bits have a first, a last and another one; with three bytes a loop may
  cross a whole byte. It grows from one byte, by one or two.
* `Registry`: three handlers are the fewest with one before, one at and one behind a walk;
  `MaxChanges` = 6 lets each be registered, taken off, or registered anew under one walk.
* `Foot`: two threads, and calls until five of them have ended for nothing, three more than
  `FootExact` allows.
* `Zalloc`: the main thread, which alone runs constructors and destructors, and one other; each
  holds one block and may ask for the next in `realloc`. Four pages are never all taken
  (`zalloc_threads`), two pages are (`zalloc_exit`, where a search then spins). One size larger than the
  arena stands for all of them: each gets the same answer.
* `Slab`: three slabs in a page are the fewest where unmapping cuts two neighbours of one list;
  three items the fewest with a slab that neither fills nor empties. `Bases` are two aligned places
  and one that is not. Nine items fill a page, and with `MaxItems` = 11 the second page has items in
  more ways than one; `slab_aligned` allows 12, so that a third page may be mapped.
* `NVMalloc`: two lists of one size and one of larger regions; six lines hold a region of each
  kind with taken lines around it. The mapping starts at two lines and grows to the bound
  `MaxLines`. `MaxHints` stops the clients while three hints are on the lists: in the code they
  grow without end when a client allocates and frees in turn, because a release adds hints and only
  a search of the same list takes stale ones away.

### Fairness

`Buddy!FairSpec` asks that the running call goes on (`WF` of `Step`): the loops take no lock
and wait for nothing, so this is only that the thread is scheduled. `Zalloc!FairSpec` asks the
same of each thread's next step. A thread that waits for the mutex is promised nothing more (a
pthread mutex is not fair), and no property needs it: `LockReleased` is about the thread that
has the mutex. No client is assumed to call anything.

`RegistryFair` asks that a thread which registers or walks goes on, for `WalkEnds`: neither waits for
anything.

`Slab`, `NVMalloc` and `Foot` have safety only. A freed block of nvmalloc waits until the next call,
which need not come. That a search of nvmalloc ends is stated as an action property, `SearchExact`:
each step uses up a hint or a list, of which there are finitely many. `FootExact` bounds the calls
that end for nothing in the same way.

`CHECK_DEADLOCK FALSE` stands where a run may stop: the process has failed (`abort`,
`crashed`, `lost`), all blocks are held, the size bound is reached, or everything is destroyed.

## Proofs

### The tree

`BuddyProofs` proves of `Buddy`, for every depth `L`, every word width `W > L + 1` and `W > 2 * L`, every set of
requests and page counts, and with `Exhaust` allowed:

| theorem | states |
|---|---|
| `BuddyInvariance` | `Spec => []BuddyInv`, types included: in particular no search splits a leaf and no index leaves the array |
| `TreeStaysExact` | `TreeExact`: between calls the tree says exactly which pages are taken |
| `BehindWhenExhausted` | `BehindOnlyWhenExhausted`: a place behind the arena means that no node was left |
| `ArenaImplemented` | `ImplementsArena`, first fit, if no more is ever asked for than is free (`~ Exhaust`) |
| `Exclusion` | `NoOverlap`: two held blocks share no page, even behind the arena |
| `Isolation` | `OthersUntouched`: no step touches the node of a block that stays |
| `UsedSizeCorrect` | `UsedSizeAnswer`: what `realloc` copies is what was asked |
| `FreeSucceeds` | `AbortOnlyBehind`: freeing a held block of the arena fails no assert |
| `NoStraddling` | `InsideOrBehind`: a block does not straddle the end of the arena |
| `PagesStayRight` | `PageCountsRight`: the fewest pages that hold a request, but for the rounding |
| `CountsServe` | the counts are powers of two, or more than the arena has |

Assumed: the powers of two (`SizeAssumption`), that page counts are powers of two or larger than
the arena (`RequestAssumption`; `CountsServe` proves it of the counts of `PageCount`), that the byte in
front of the tree is not `NODE_FULL` (`LevelByteAssumption`; an arena of 8 pages would break
it), and what clients may do (`ClientAssumption`). The exclusion theorem is about blocks as long
as the page count, so the rounding of `pages_rounding` is outside it.

The argument. `NoOverlap` is not inductive: the step that takes a node knows that the node is
UNUSED, not that no block lies below or above it. `IndInv` says what the marks mean. Every
held block's node is USED, all nodes above it are SPLIT or FULL, and its offset is where node
and length put it (`BlockInv`); so a UNUSED node cannot lie above a held block, and taking it
cannot hit one. During a search every node above `index` is SPLIT (`SearchInv`), so the taken
node does not lie below a held block. `LengthAt` ties `length` to `level` and to the depth of
`index` through any number of turns past the root: a node that is taken there has an offset
behind the arena, which gives `NoStraddling`. A walk keeps `left` and `length` the node's own
range and the argument inside it (`WalkInv`), and ends at the block's node; while `_combine`
climbs, no held block is at or below `index` (`CombineInv`), so clearing it frees nobody.

That no search splits a leaf (`RoomBelow`) is the work of `PassInv`. Each pass past the root doubles
the length of every node, so that on the k-th pass (`OnPass`) the nodes of the requested length lie k
levels further down than on the first, and the search goes no deeper than those. On the pass on which
they are the leaves, every page that is clear of blocks lies ahead of the search (`PagesAhead`): it
takes one of them, or there is none. Then the root is USED or FULL, and each further pass ends there
(`BusyRoot`), for good. `2 * L < W` is needed for `length` not to overflow before that.

`TreeExact` needs more: `IndInv` holds as well of a tree that forgets marks. `TreeInv` compares
each node that counts with its two halves only: a USED node has its block, a divided one has a half
that is not UNUSED, and it is FULL when both halves are USED or FULL. Each of these has the one
exception that the running call makes: the node that a search has just split, the step that
`_mark_parent` or the loop of `_combine` is at, the node whose block has just been freed. That marks
agree with the blocks below a node follows by induction from the leaves to the root
(`NodesTell`). Here `Exhaust` makes no difference.

The refinement of `Arena` needs what a search has seen. `SweepInv` says that a search which has not
passed the root is at the level of its node, and that each node of the requested length that is
clear of all blocks lies ahead of it, in terms of the first page it has not passed (`Passed`); a
search that has passed the root began when no such node was left. A node that is USED, FULL or of
the right length and not UNUSED has no clear node below it, by `NodesTell` (`NothingHere`). So the
match is the lowest clear node (`TakeServes`), and a place behind the arena comes only after all
were passed. With `~ Exhaust` (`FitInv`) all blocks lie in the arena, where a free place is a clear
node and the other way round (`FreePlace`); a free returns the block the walk has found and no
other (`FreeReturns`); every other step leaves the blocks alone.

`BuddyLemmas` has the arithmetic: powers and quotients, ancestors in heap order, that two nodes
whose ranges meet are one above the other, that the leaves below a node are its pages, inductions
from the root and from the leaves, and the steps of `LengthAt`. `BuddyProofs` has one
lemma per action and conjunct it can disturb, and the temporal steps.

`PagesStayRight` and `CountsServe` are about `PageCount` and every `size_t` (`AskedAssumption`), for
any width of a float, of `is_pow_of_2`'s argument and of a `size_t`. Assumed: page size, pages and
their product are powers of two, the page more than a byte (`PageCountAssumption`); the pages of the
arena fit in the `uint32_t` (`NarrowAssumption`); and no shift is longer by more than one than all
before it together, which together reach down from the highest bit of a page count below the arena's
(`ShiftAssumption`: 1, 2, 4, 8 and 16 reach 31 places). The page counts above 2^32 that the `uint32_t`
truncates, and those the shifts do not fill, are thus within the theorem. The argument. A float is a
multiple of its unit, and so is each power of two that is not smaller than the request; rounding
cannot cross one (`FloatNear`), so half the pages would have been too few and a request that fits
the arena is let in. `is_pow_of_2` is exact below 2^32, since only a power of two has no bit in common
with its predecessor (`PowerTest`). A count that is no power of two has, smeared, all bits up to its
first (`SmearedDown`, by induction over the shifts), whose value is one less than the next power
(`ValueToTop`); where the shifts leave gaps the result is still larger than the count
(`ValueOfBits`, `ValueGrows`), hence than the arena (`NextPower`).

`InsideOrBehind` is in no run of its own, since the invariant that TLC checks implies it.

### The library

`ZallocProofs` proves of `Zalloc`, for every number of threads, of pages and of sizes, and however
set-up fails:

| theorem | states |
|---|---|
| `Invariance` | `Spec => []ZallocInv` |
| `MutualExclusion` | `OneAtATime`: one thread at a time is inside the allocator |
| `SoleHolding` | `SoleHolder`: no page is held twice |
| `Accounting` | `Accounted`: the tree has a block for each one in hand, and no other |
| `ContentsKept` | `Contents`: blocks keep their bytes, `realloc` copies them, unless somebody writes through the answer to an oversized request |
| `TreeKept` | `TreeKeepsBlocks`: repeated set-up throws away nothing that was handed out |
| `ExitInvariance` | `Spec => []ExitInv`, with late threads |
| `Finality` | `GoneStaysGone`: after its destructor the arena stays down |
| `CrashesHaveCauses` | `CrashHasCause`: what fails does so in a torn tree, without an arena, or on the answer to an oversized request |

The first six assume that other threads have ended when the destructors run (`~ LateThreads`): the
mutex is destroyed then, and two late threads may be inside at once. The last three are about late
threads too, and assume that `init_` succeeds (`InitOutcomes = {"ok"}`); when it never has, a call
after the destructor sets the arena up once more, and before that `calloc` may
clear memory at NULL.

The argument. None of the properties is inductive. `SoleHolder` depends on the page that
`buddy_alloc` finds being nobody's, so every block that anybody holds has to be on the tree
(`TreeInv`), except the old block of a `realloc` that has just freed it; a page in transit, handed
out or taken back, counts as claimed (`ClaimInv`). That needs to know which claim a call has at each
step (`CallInv`), that no other call is between two steps (`LockInv`), and that `init_`, which clears
the tree each time it is tried, does so only while there is no pointer into the arena (`SetUpInv`).
`LockInv` has two regimes: in `main()` whoever is inside has the mutex, outside it there is one
thread. `ContentInv` adds what the calls have written, with the copy of `realloc` waiting in the new
block while the old one is freed. Most actions keep most conjuncts for a common reason, which the
frame lemmas state (`ClaimFrame`, `TreeFrame`, `SameHand`, `ContentFrame`); the lemmas of the steps
cite them, action by action.

`Contents` is not unconditional, as the code is not: who has the answer to a request larger than the
arena may write over blocks of others. `BytesStay` excepts the steps of such a holder, page by page
(`Overrunning`: `realloc` itself reaches page 0 only), and `ContentInv` says that a held page has what
its client wrote or such foreign bytes, nothing else.

With late threads much of this is lost: a block that one thread has freed and not yet returned from
may be another's already, and any number of calls may be inside once the mutex is destroyed. What is
left is `ExitInv`. While there is a mutex, one thread is inside and the tree is whole (`MutexInv`).
`init_` has succeeded before there is a second thread, so no call clears the tree again (`ExitOrder`).
Behind the mutex, but before two threads have been in the tree together, each call finds tree and
mapping (`ArenaUp`), the pages that a thread still claims are on the tree, no other thread claims them
(`ClaimsApart`: a block that `realloc` has freed is no claim any more, although the caller still has
the old pointer), and the only pointer that is no page is `Under` (`KnownInv`). So an assert or an
access can fail only on that one. Once the tree is torn, or the arena going, none of this is claimed,
and there is no way back from either (`NoWayBack`); `CrashHasCause` names them as causes.

### The slab chain

`SlabProofs` proves of `Slab`, for every number and place of pages, of slabs in a page and of items in
a slab:

| theorem | states |
|---|---|
| `SlabInvariance` | `Spec => []SlabInv` |
| `ListsStayExact` | `ListsExact`: the lists hold the mapped slabs, each on the list its slots call for, and `slab_is_valid` finds nothing wrong |
| `RefcountStaysExact` | `RefcountExact`: a page counts its slabs in use |
| `ItemsStayExact` | `ItemsExact`: items out and taken slots are the same |
| `DestroyLeavesNothing` | `DestroyUnmapsAll`: `slab_destroy` finds every page |
| `ReportsStayExact` | `ReportsExact`: `slab_traverse` visits the items, `slab_stats` adds up |
| `AlignedHeadersFound` | where `mmap` maps at multiples of the slab size, `slab_free` finds every header |
| `LayoutsHold` | `SlabLayoutValid`: `slab_init` lays out slabs of every item size as `slab_is_valid` asserts |

Assumed: `SlabAssumption` (slabs of at least one address, at least one of them in a page and two items in
each; addresses are natural numbers, finitely many; `MaxItems` is a number); for `LayoutsHold`, which is about `SlabSize` and any client that asks for sizes
(`RequestSpec`), a page size that is a power of two and two slots at least (`SlabSizeAssumption`), and
powers of two beyond the largest slab (`MaxShiftSuffices`). `log2` and `ceil` are exact there: slabs are
far shorter than the 2^53 bytes where a `double` begins to round.

The argument. What `ListsExact` says by following the lists, no step could be shown to keep. So
`SlabInv` says of the links what does not follow them: `next` and `previous` undo each other among
the slabs of one kind, the head alone has no previous one, and in each subset that is not empty some
slab has its previous one elsewhere (`IsList`), so that no part is a ring. Each branch of
`slab_alloc` and `slab_free` is then one of four changes of such a set: a slab taken from the front or
the middle, put at the front, or a whole page of new ones put there; `FreeUnmap` takes out all slabs
of a page at once. That the loop of the code meets exactly the slabs of the set follows by induction
over its steps, and the totals of `slab_stats` by induction over the list (`Induction`).
`RefcountExact` and `ItemsExact` are inductive with that. `DestroyUnmapsAll` needs that the first
slab of each mapped page is on some list.

`LayoutsHold` is arithmetic: there is a least power of two that holds the header and the items
(`LeastNat`), of two powers of two the smaller divides the larger, and the quotient that `slab_init`
takes for the item count is the largest number of items that fit. A halved slab has fewer items than
slots, since the half is smaller than what all slots need.

### nvmalloc

`NVMallocProofs` proves of `NVMalloc`, for every size of the memory, every set of requests, every
number of lists and whatever the clients write into their blocks:

| theorem | states |
|---|---|
| `LinesStayExact` | `LinesExact`: bitmap, clients' blocks, queue and free zone agree on every line |
| `HeadersStayExact` | `HeadersExact`: headers lead through every free region from start to end |
| `RegionsStayHinted` | `RegionsHinted`: a free region of a listed size has its hint |
| `SearchStaysExact` | `SearchExact`: a search comes to its end, and takes from the zone last |
| `HeapImplemented` | `ImplementsWearHeap`: blocks apart, freed ones first-in first-out |
| `SizesStayCovered` | `NVSizesCovered`: the fewest lines that hold a request, the fewest pages that hold those |
| `BitLoopsStayRight` | `BitLoopsRight`: the loops over the bits find and change the lines they are to |
| `BitmapServes` | with the taken lines in its bits, the bitmap serves `NVMalloc` as its set does |

The argument. `NVInv(q)` has what waits as a parameter, a sequence of blocks: the queue in memory
represents it (`IsQueue`), bitmap and blocks agree (`BitmapInv`), what is held has a header that
`nvfree` will accept (`HeldInv`), and a search has emptied the lists it has passed (`SearchInv`).
Each step keeps `NVInv` for the same sequence, for one block more at its end (`nvfree`), or for one
less at its front (`incrementTime`), which is also the step of `WearHeap`. That `Queue`, read from
memory, is this sequence is an induction over the walk (`QueueRead`). A region is a run of free
lines that cannot be made longer; `isFreeForward` and `isFreeBackward` find the ends of the run that
a released block joins, and all other regions stay what they are. So the headers of a region and its
hint need be looked at in three cases only: the release makes it, a search cuts it, or nothing has
touched it. For headers this uses that a place which headers lead to stays one when a header behind
it changes (the lemmas about `Headers`), and that no free line is left in front of the zone
(`EndsTaken`). `SearchExact` adds up the hints of all lists (`HintsCounted`).

`SizesStayCovered` is about `NVSizes`, for every width of the integers and every size that does not
wrap. It assumes (`NVSizesAssumption`) that 2^32 is a multiple of the page, a page one of the line, and
`NEW_ALLOC_PAGES` pages shorter than 2^32 bytes. The number of lines is a quotient, rounded up
(`WholeLines`); the product that the loop of `getMoreMemory` compares does not wrap before it is large
enough, except for a size beyond the last page of a `uint32_t`, which no product reaches
(`RequestCovered`).

`BitLoopsStayRight` is about `NVBitmap`: bytes of any number of bits, a bitmap of any length, grown
and written at will (`NVBitmapAssumption` says that these are numbers). A loop has no invariant of its
own here; where its index and mask are after n rounds is shown by induction to be where the line n
further on, or back, has its bit, which is all there is to the carry from byte to byte (`UpReaches`, `DownReaches`). A
loop then stops at the first line that is taken, which is the least such number of rounds, and what
`makeOne` has written after k rounds is, again by induction, the first k of its lines.
`BitmapServes` puts this in the terms of `NVMalloc`, whose free zone and lines are those of
its state, so what is proved of sets of lines there holds of the bits.

### The registry

`RegistryProofs` proves of `Registry`, for any number of handlers and of changes:

| theorem | states |
|---|---|
| `RingStaysExact` | `RingExact`: the list is whole, also between the stores of a registration |
| `WalkStaysComplete` | `WalkComplete`: a walk misses nobody, and meets nobody twice |
| `FaultStaysInRace` | `FaultOnlyInRace`: NULL is met only in front of the last store of `LIST_ADDQ` |
| `HandlerListImplemented` | `ImplementsHandlerList`: handlers are listed in the order of registration |

The argument. `RegistryInv(m, c)` has the ring as a parameter: `c[0]` is the head, `c[1]` to `c[m]`
are the handlers. `RingInv` says what `n` and `p` hold of it, with `n` short of the truth at its last
or last but one node while stores of a registration are missing; `WalkInv` says where on `c` the walk
is and whom it has seen. A step keeps the ring, appends a handler, or takes out one place of it
(`Relisted`), which is the step of `HandlerList`. `RingRead` is the induction that following `p` from
the head finds `c`; the properties follow.

### foot

`FootCorrect` in `FootProofs`: `FootSpec => []FootExact`, for every number of threads and without
the bound on calls. A call that ends for a left-over error only has found one function more, and
there are two.

### Induction

Several of these proofs go along a list or add up over a set. `Induction` has what they need as
statements about sets and functions, with no operator as a parameter: a set of numbers has a least
one (`LeastNat`), a set with 0 and each successor up to a bound has all numbers up to it
(`InductionTo`), a recursive function equals what its equations say (`Iteration`), and `SumOfSizes`,
that the sizes of disjoint sets add up to the size of their union.

### Model-checked only

Liveness (`CallsReturn`, `SearchEnds`, `LockReleased`, `WalkEnds`), which these provers do not reach.
Every other property of a passing run is a theorem.

## Not modelled

* Printing, but for whether the first print of `init_` allocates, which is the C library's choice.
* Alignment: `posix_memalign` is `malloc` and ignores it, `aligned_alloc` returns NULL.
* In `Zalloc`, a product of `calloc` that wraps: it is the size that is asked for (`PageCount`).
* nvmalloc: the checksums of headers; `nvmalloc_exit`, which unmaps `nr_pages` bytes and not
  pages; a failed `mmap` in `nvmalloc_init`; the `_GNU_SOURCE` branch of `getMoreMemory`, which no
  build defines and which would move the memory under its clients; what `MAP_FIXED` maps over.
  Regions of more than `NR_SIZES` lines share one list, and a search for a still larger block drops
  their hints for good: `RegionsHinted` and `SearchExact` are about the others. Sizes of 2^32 and more, which `nv_malloc`
  cuts; the results of `realloc`, `calloc` and `malloc` for its bitmap and hints, which it does not look at.
* slab: item sizes so large that `slab_init` wraps. The slab handler is dead code.
* Registry: macros of `mini-clist.h` that the program does not use; taking off the handler that a
  loop is at, which the macro forbids.
* In `Zalloc`, what a search of a torn tree writes where it leaves the array, and what clients read or
  write through pointers that are `Wild` or `Behind`. A client writes its block when it gets it, and
  not again.
* File descriptors: each failed `init_` leaks one.
* Threads before `main()`: none call the library before its constructors have run, but the main
  thread may, from other libraries' constructors and destructors.
* A `level` other than the build's; the non-library build with its drivers.
