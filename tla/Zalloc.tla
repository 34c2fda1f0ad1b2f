------------------------------- MODULE Zalloc -------------------------------
(***************************************************************************)
(* src/zalloc.c and inc/buddy_alloc.c as the preloaded library: malloc,    *)
(* calloc, realloc, free and posix_memalign of a process with threads, the *)
(* one mutex they share, the lazy set-up of the arena (init_), and the     *)
(* constructors and destructors that run it up and down around main().     *)
(*                                                                         *)
(* Every shared-memory step of a call is an action.  The tree itself is    *)
(* the first-fit Arena that module Buddy implements, here with blocks of   *)
(* one page: it is full exactly when its root is FULL.  Once two threads   *)
(* have been in the tree together it can be anything: it is torn.          *)
(***************************************************************************)
EXTENDS Integers, FiniteSets

CONSTANTS
  Threads, Main,   \* Main also runs the constructors and destructors
  Nobody,          \* no thread
  ArenaPages,      \* pages of the arena, each one block
  Sizes,           \* request sizes in bytes, all of one page
  Oversize,        \* request sizes larger than the arena
  MaxHeld,         \* bound: blocks a thread holds before it frees one
  InitOutcomes,    \* how the first print, and then open, fstat and mmap may end
  LateThreads      \* do other threads still run when the process exits?

ASSUME ZallocAssumption ==
  /\ Main \in Threads /\ Nobody \notin Threads
  /\ ArenaPages \in Nat \ {0}
  /\ Sizes \subseteq Nat \ {0} /\ Oversize \subseteq Nat \ {0} /\ Sizes \cap Oversize = {}
  /\ MaxHeld \in Nat
  /\ InitOutcomes \subseteq {"ok", "small_file", "map_failed", "print_allocates"}
  /\ LateThreads \in BOOLEAN

Page   == 0 .. ArenaPages - 1   \* a pointer into the arena, by its page
Null   == -1
Wild   == -2                    \* not NULL, and nothing is mapped there: NULL or MAP_FAILED
                                \* with an offset
Under  == -3                    \* memblock - 1: what is mapped there is up to the system
Behind == -4                    \* behind the arena, where only a torn tree leads

VARIABLES
  stage,     \* how far Main has run constructors and destructors
  isInit, isDeinit, buddy, memblock,   \* globals of buddy_alloc.c
  handlers,  \* times buddy_handler was registered
  heap,      \* what the tree records: Arena's blocks
  torn,      \* have two threads been in the tree together?
  mem,       \* per page: who wrote it, and how many bytes of it
  mutex, owner,  \* lock_alloc: is it usable, and who has it
  pc, op, arg, len, new, old, then,  \* per thread: the call it is in and its locals
  holds      \* per thread: the blocks it holds, with their sizes

globals == <<isInit, isDeinit, buddy, memblock, handlers>>
tree    == <<heap, torn>>
lock    == <<mutex, owner>>
frame   == <<op, arg, len>>         \* what a call was made with
vars    == <<stage, globals, tree, mem, lock, pc, frame, new, old, then, holds>>

Heap == INSTANCE Arena
  WITH Demands <- Sizes, DemandPages <- [s \in Sizes |-> 1], blocks <- heap

Minimum(x, y) == IF x < y THEN x ELSE y

\* The block that starts at page p.
BlockAt(p) == {b \in heap : b.off = p}

\* Bytes that no client wrote where they are.
Foreign == [by |-> Nobody, bytes |-> 0]

\* The first n bytes of contents c.
Beginning(c, n) == [by |-> c.by, bytes |-> Minimum(c.bytes, n)]

\* The arena once somebody has written over some of its pages from in front of it.
Overrun(pages) == [p \in Page |-> IF p \in pages THEN Foreign ELSE mem[p]]

Goto(t, label) == pc' = [pc EXCEPT ![t] = label]

\* A failed assert or an access outside mapped memory ends the process.
Crash == stage' = "crashed"

Init ==
  /\ stage = "start"
  /\ isInit = FALSE /\ isDeinit = FALSE /\ buddy = FALSE /\ memblock = "null" /\ handlers = 0
  /\ heap = {} /\ torn = FALSE /\ mem = [p \in Page |-> Foreign]
  /\ mutex = "usable" /\ owner = Nobody
  /\ pc = [t \in Threads |-> "idle"] /\ op = [t \in Threads |-> "none"]
  /\ arg = [t \in Threads |-> Null] /\ len = [t \in Threads |-> 0]
  /\ new = [t \in Threads |-> Null] /\ old = [t \in Threads |-> 0]
  /\ then = [t \in Threads |-> "idle"]
  /\ holds = [t \in Threads |-> {}]

-----------------------------------------------------------------------------
(* Calls, and lock_alloc *)

\* A thread that is in no call may make one.  Main also calls from the constructors
\* and destructors of other libraries; other threads start in main(), and some may
\* still run when it has returned.
MayCall(t) ==
  /\ pc[t] = "idle"
  /\ \/ t = Main /\ stage # "closing"
     \/ stage = "running"
     \/ stage \in {"unlocked", "closing", "gone"} /\ LateThreads

Call(t, o, p, s) ==
  /\ MayCall(t)
  /\ Goto(t, "lock")
  /\ op' = [op EXCEPT ![t] = o] /\ arg' = [arg EXCEPT ![t] = p] /\ len' = [len EXCEPT ![t] = s]
  /\ UNCHANGED <<stage, globals, tree, mem, lock, new, old, then>>

CallAlloc(t) ==
  \E o \in {"malloc", "calloc"}, s \in Sizes \cup Oversize :
    /\ Cardinality(holds[t]) < MaxHeld
    /\ Call(t, o, Null, s)
    /\ UNCHANGED holds

CallRealloc(t) ==
  \E s \in Sizes \cup Oversize, p \in {Null} \cup {h.ptr : h \in holds[t]} :
    /\ p = Null => Cardinality(holds[t]) < MaxHeld
    /\ Call(t, "realloc", p, s)
    /\ UNCHANGED holds

\* The caller of free gives its block up as it calls.
CallFree(t) ==
  \E h \in holds[t] :
    /\ Call(t, "free", h.ptr, 0)
    /\ holds' = [holds EXCEPT ![t] = @ \ {h}]

\* Slip for Lock: nobody waits.
LockAnyway(t) ==
  /\ pc[t] = "lock" /\ owner' = t
  /\ Goto(t, "init")
  /\ then' = [then EXCEPT ![t] = IF op[t] = "free" THEN "free" ELSE "alloc"]
  /\ UNCHANGED <<stage, globals, tree, mem, mutex, frame, new, old, holds>>

\* pthread_mutex_lock on a destroyed mutex fails, and nobody looks.
Lock(t) ==
  /\ pc[t] = "lock"
  /\ \/ mutex = "usable" /\ owner = Nobody /\ owner' = t
     \/ mutex = "destroyed" /\ UNCHANGED owner
  /\ Goto(t, "init")
  /\ then' = [then EXCEPT ![t] = IF op[t] = "free" THEN "free" ELSE "alloc"]
  /\ UNCHANGED <<stage, globals, tree, mem, mutex, frame, new, old, holds>>

-----------------------------------------------------------------------------
(* init_, at the start of every buddy_* call until it has succeeded once *)

InitDone(t) ==
  /\ pc[t] = "init" /\ isInit
  /\ Goto(t, then[t])
  /\ UNCHANGED <<stage, globals, tree, mem, lock, frame, new, old, then, holds>>

\* init_ prints before anything else.  Where the C library allocates the buffer of
\* stdout at the first print, that malloc is this library's: it waits for the mutex
\* that the thread has, or, in the constructor, takes it, comes here and prints
\* again.  From the second time on the buffer is there.
InitPrint(t) ==
  /\ pc[t] = "init" /\ ~ isInit
  /\ "print_allocates" \in InitOutcomes /\ ~ buddy /\ ~ isDeinit
  /\ owner' = t /\ Goto(t, "stuck")
  /\ UNCHANGED <<stage, globals, tree, mem, mutex, frame, new, old, then, holds>>

\* Between its test of `buddy` and its return a call is in the tree.  Thread t, there
\* too, finds it torn, or tears it.
InTree(t) == pc[t] \in {"take", "measure", "release"}
Tears(t)  == torn \/ \E s \in Threads \ {t} : InTree(s)
Torn      == torn' = TRUE /\ heap' = {}   \* from here on nothing depends on heap

\* buddy_new clears the tree.
InitTree(t) ==
  /\ pc[t] = "init" /\ ~ isInit
  /\ buddy' = TRUE /\ heap' = {} /\ torn' = Tears(t)
  /\ Goto(t, "map")
  /\ UNCHANGED <<stage, isInit, isDeinit, memblock, handlers, mem, lock, frame, new, old, then, holds>>

InitMap(t) ==
  /\ pc[t] = "map"
  /\ \/ /\ "ok" \in InitOutcomes
        /\ memblock' = "mapped" /\ Goto(t, "register")
     \/ /\ "small_file" \in InitOutcomes
        /\ Goto(t, then[t]) /\ UNCHANGED memblock
     \/ /\ "map_failed" \in InitOutcomes
        /\ memblock' = "failed" /\ Goto(t, then[t])
  /\ UNCHANGED <<stage, isInit, isDeinit, buddy, handlers, tree, mem, lock, frame, new, old, then, holds>>

\* Slip for InitRegister: isInit is not set.
RegisterOnly(t) ==
  /\ pc[t] = "register"
  /\ handlers' = handlers + 1
  /\ Goto(t, then[t])
  /\ UNCHANGED <<stage, isInit, isDeinit, buddy, memblock, tree, mem, lock, frame, new, old, then, holds>>

InitRegister(t) ==
  /\ pc[t] = "register"
  /\ handlers' = handlers + 1 /\ isInit' = TRUE
  /\ Goto(t, then[t])
  /\ UNCHANGED <<stage, isDeinit, buddy, memblock, tree, mem, lock, frame, new, old, then, holds>>

-----------------------------------------------------------------------------
(* buddy_xmalloc, buddy_get_size, buddy_xfree *)

\* Slips for Pointer: the offset is forgotten, or scaled twice.
Base(off)   == IF memblock = "mapped" THEN 0 ELSE Null
Scaled(off) == IF memblock = "mapped" THEN 2 * off ELSE Null

\* memblock + off.  munmap leaves memblock as it is; NULL + 0 is NULL.
Placed       == memblock \in {"mapped", "unmapped"}
Pointer(off) == CASE Placed                          -> off
                  [] memblock = "null" /\ off = 0    -> Null
                  [] OTHER                           -> Wild

\* Slips for AfterAlloc: the old block is not freed; an early return without
\* unlock; the NULL tests of realloc are missing.
KeepsOld(t, p) == IF op[t] = "calloc" THEN "zero" ELSE "unlock"
EarlyOut(t, p) == IF p = Null THEN "idle" ELSE
                  IF op[t] = "realloc" /\ arg[t] # Null THEN "init" ELSE "unlock"
Untested(t, p) == IF op[t] = "realloc" THEN "init" ELSE "unlock"

\* Where the call goes on once buddy_xmalloc has returned p.
AfterAlloc(t, p) ==
  CASE op[t] = "calloc"                                    -> "zero"
    [] op[t] = "realloc" /\ p # Null /\ arg[t] # Null      -> "init"
    [] OTHER                                               -> "unlock"

Allocated(t, p) ==
  /\ new' = [new EXCEPT ![t] = p]
  /\ Goto(t, AfterAlloc(t, p))
  /\ then' = [then EXCEPT ![t] = "size"]

\* if (!buddy) return NULL;
AllocCheck(t) ==
  /\ pc[t] = "alloc"
  /\ IF buddy THEN Goto(t, "take") /\ UNCHANGED <<new, then>>
              ELSE Allocated(t, Null)
  /\ UNCHANGED <<stage, globals, tree, mem, lock, frame, old, holds>>

\* buddy_alloc finds a place.
AllocTake(t) ==
  /\ pc[t] = "take" /\ len[t] \in Sizes /\ ~ Tears(t)
  /\ Heap!Malloc(len[t])
  /\ \E b \in heap' \ heap : Allocated(t, Pointer(b.off))
  /\ UNCHANGED <<stage, globals, torn, mem, lock, frame, old, holds>>

\* It returns -1 for a request larger than the arena, which buddy_xmalloc,
\* comparing an unsigned value with `< 0`, adds to memblock.
AllocHuge(t) ==
  /\ pc[t] = "take" /\ len[t] \in Oversize
  /\ Allocated(t, IF Placed THEN Under ELSE Wild)
  /\ UNCHANGED <<stage, globals, tree, mem, lock, frame, old, holds>>

\* With no page left the search never ends (ExhaustedRefused of BuddyProps).
AllocSpin(t) ==
  /\ pc[t] = "take" /\ len[t] \in Sizes /\ Heap!Places(1) = {} /\ ~ Tears(t)
  /\ Goto(t, "spin")
  /\ UNCHANGED <<stage, globals, tree, mem, lock, frame, new, old, then, holds>>

\* Two threads mark nodes in each other's search: both may take one node, a FULL mark
\* may be missing or wrong, and a search may find what it likes, or nothing, or leave
\* the array.
AllocTorn(t) ==
  /\ pc[t] = "take" /\ len[t] \in Sizes /\ Tears(t)
  /\ Torn
  /\ \/ \E p \in {Pointer(off) : off \in Page} \cup {Behind} : Allocated(t, p) /\ UNCHANGED stage
     \/ Goto(t, "spin") /\ UNCHANGED <<stage, new, then>>
     \/ Crash /\ UNCHANGED <<pc, new, then>>
  /\ UNCHANGED <<globals, mem, lock, frame, old, holds>>

\* The destructor took the tree away between the test and its use: whether the
\* compiler reads `buddy` once or twice is up to it, and twice is a NULL access.
NoTree(t) ==
  /\ InTree(t) /\ ~ buddy
  /\ Crash
  /\ UNCHANGED <<globals, tree, mem, lock, pc, frame, new, old, then, holds>>

\* buddy_get_size, as far as its test of `buddy`,
SizeCheck(t) ==
  /\ pc[t] = "size"
  /\ IF buddy THEN Goto(t, "measure") /\ UNCHANGED old
              ELSE Goto(t, "copy") /\ old' = [old EXCEPT ![t] = 0]
  /\ UNCHANGED <<stage, globals, tree, mem, lock, frame, new, then, holds>>

\* and its walk; a pointer that is not the start of a block fails an assert.
SizeOld(t) ==
  /\ pc[t] = "measure" /\ ~ Tears(t)
  /\ \/ \E b \in BlockAt(arg[t]) :
          old' = [old EXCEPT ![t] = b.used] /\ Goto(t, "copy") /\ UNCHANGED stage
     \/ BlockAt(arg[t]) = {} /\ Crash /\ UNCHANGED <<old, pc>>
  /\ UNCHANGED <<globals, tree, mem, lock, frame, new, then, holds>>

\* In a torn tree the walk may end at any node, and fail an assert there.
SizeTorn(t) ==
  /\ pc[t] = "measure" /\ Tears(t)
  /\ Torn
  /\ \/ /\ arg[t] \in Page
        /\ \E n \in Sizes \cup {0} : old' = [old EXCEPT ![t] = n]
        /\ Goto(t, "copy") /\ UNCHANGED stage
     \/ Crash /\ UNCHANGED <<old, pc>>
  /\ UNCHANGED <<globals, mem, lock, frame, new, then, holds>>

\* memcpy of the smaller of the two sizes.  From one byte in front of the arena it
\* writes over the start of page 0, if it does not fault.
LongerLength(t) == IF len[t] < old[t] THEN old[t] ELSE len[t]  \* slip for CopyLength
CopyLength(t) == Minimum(len[t], old[t])

Copy(t) ==
  /\ pc[t] = "copy"
  /\ \/ CopyLength(t) = 0 /\ UNCHANGED mem
     \/ /\ CopyLength(t) > 0 /\ memblock = "mapped" /\ arg[t] \in Page
        /\ \/ /\ new[t] \in Page
              /\ mem' = [mem EXCEPT ![new[t]] = Beginning(mem[arg[t]], CopyLength(t))]
           \/ new[t] = Under /\ mem' = Overrun(IF CopyLength(t) > 1 THEN {0} ELSE {})
           \/ new[t] = Behind /\ UNCHANGED mem
  /\ Goto(t, "init") /\ then' = [then EXCEPT ![t] = "free"]
  /\ UNCHANGED <<stage, globals, tree, lock, frame, new, old, holds>>

\* An access outside the mapping may fault, and one where nothing is mapped does.
CopyFaults(t) ==
  /\ pc[t] = "copy" /\ CopyLength(t) > 0
  /\ ~ (memblock = "mapped" /\ arg[t] \in Page /\ new[t] \in Page)
  /\ Crash
  /\ UNCHANGED <<globals, tree, mem, lock, pc, frame, new, old, then, holds>>

\* memset of calloc; NULL is not looked for.  More bytes than the arena has, from one
\* byte in front of it, are all of it.
Zero(t) ==
  /\ pc[t] = "zero" /\ memblock = "mapped"
  /\ \/ new[t] \in Page /\ mem' = [mem EXCEPT ![new[t]] = [by |-> Nobody, bytes |-> len[t]]]
     \/ new[t] = Under /\ mem' = Overrun(Page)
     \/ new[t] = Behind /\ UNCHANGED mem
  /\ Goto(t, "unlock")
  /\ UNCHANGED <<stage, globals, tree, lock, frame, new, old, then, holds>>

ZeroFaults(t) ==
  /\ pc[t] = "zero" /\ ~ (memblock = "mapped" /\ new[t] \in Page)
  /\ Crash
  /\ UNCHANGED <<globals, tree, mem, lock, pc, frame, new, old, then, holds>>

\* buddy_xfree, as far as its test of `buddy`,
FreeCheck(t) ==
  /\ pc[t] = "free"
  /\ Goto(t, IF buddy THEN "release" ELSE "unlock")
  /\ UNCHANGED <<stage, globals, tree, mem, lock, frame, new, old, then, holds>>

\* and its walk: buddy_free asserts what buddy_used_size does.
FreeBlock(t) ==
  /\ pc[t] = "release" /\ ~ Tears(t)
  /\ \/ \E b \in BlockAt(arg[t]) : Heap!Free(b) /\ Goto(t, "unlock") /\ UNCHANGED stage
     \/ BlockAt(arg[t]) = {} /\ Crash /\ UNCHANGED <<heap, pc>>
  /\ UNCHANGED <<globals, torn, mem, lock, frame, new, old, then, holds>>

\* In a torn tree it may combine what others search, and fail an assert.
FreeTorn(t) ==
  /\ pc[t] = "release" /\ Tears(t)
  /\ Torn
  /\ \/ arg[t] \in Page /\ Goto(t, "unlock") /\ UNCHANGED stage
     \/ Crash /\ UNCHANGED pc
  /\ UNCHANGED <<globals, mem, lock, frame, new, old, then, holds>>

\* pthread_mutex_unlock does not look who has the mutex.  The call returns; the
\* caller of an allocation writes its block.
Kept(t) == {h \in holds[t] : ~ (op[t] = "realloc" /\ new[t] # Null /\ h.ptr = arg[t])}

Unlock(t) ==
  /\ pc[t] = "unlock"
  /\ owner' = IF mutex = "usable" THEN Nobody ELSE owner
  /\ holds' = [holds EXCEPT ![t] =
                 IF new[t] = Null THEN @ ELSE Kept(t) \cup {[ptr |-> new[t], size |-> len[t]]}]
  /\ mem' = IF new[t] \in Page /\ memblock = "mapped"
              THEN [mem EXCEPT ![new[t]] = [by |-> t, bytes |-> len[t]]] ELSE mem
  /\ Goto(t, "idle")
  /\ op' = [op EXCEPT ![t] = "none"] /\ arg' = [arg EXCEPT ![t] = Null]
  /\ len' = [len EXCEPT ![t] = 0] /\ new' = [new EXCEPT ![t] = Null]
  /\ old' = [old EXCEPT ![t] = 0] /\ then' = [then EXCEPT ![t] = "idle"]
  /\ UNCHANGED <<stage, globals, tree, mutex>>

\* The client of a request larger than the arena was told that it has so many bytes
\* from memblock - 1 on, and may write any first part of them.
WriteUnder(t) ==
  /\ MayCall(t) /\ memblock = "mapped"
  /\ \E h \in holds[t] : h.ptr = Under
  /\ \E n \in 1 .. ArenaPages : mem' = Overrun(0 .. n - 1)
  /\ UNCHANGED <<stage, globals, tree, lock, pc, frame, new, old, then, holds>>

-----------------------------------------------------------------------------
(* Constructors, in link order, and destructors, in the reverse order *)

\* __buddy_handler_init: init_ without the mutex.
BuddyConstructor ==
  /\ stage = "start" /\ pc[Main] = "idle"
  /\ stage' = "arena"
  /\ pc' = [pc EXCEPT ![Main] = "init"]
  /\ then' = [then EXCEPT ![Main] = "idle"]
  /\ UNCHANGED <<globals, tree, mem, lock, frame, new, old, holds>>

\* __zalloc_lib_init: the mutex is made anew.
LockConstructor ==
  /\ stage = "arena" /\ pc[Main] = "idle"
  /\ stage' = "running"
  /\ mutex' = "usable" /\ owner' = Nobody
  /\ UNCHANGED <<globals, tree, mem, pc, frame, new, old, then, holds>>

\* __zalloc_lib_deinit: pthread_mutex_destroy fails on a mutex somebody has.
LockDestructor ==
  /\ stage = "running" /\ pc[Main] = "idle"
  /\ LateThreads \/ \A t \in Threads : pc[t] = "idle"
  /\ stage' = "unlocked"
  /\ mutex' = IF owner = Nobody THEN "destroyed" ELSE mutex
  /\ UNCHANGED <<globals, tree, mem, owner, pc, frame, new, old, then, holds>>

\* __buddy_handler_deinit: no mutex here either.  First the arena goes: where there is
\* none, munmap from NULL on takes away a program that is linked there.
DestructorUnmaps ==
  /\ stage = "unlocked" /\ pc[Main] = "idle"
  /\ \/ stage' = "closing"
     \/ memblock = "null" /\ Crash
  /\ isDeinit' = TRUE
  /\ memblock' = IF memblock = "mapped" THEN "unmapped" ELSE memblock
  /\ UNCHANGED <<isInit, buddy, handlers, tree, mem, lock, pc, frame, new, old, then, holds>>

\* and then the tree; isInit stays set.
StartsOver ==  \* slip: isInit is reset
  /\ stage = "closing"
  /\ stage' = "gone" /\ buddy' = FALSE /\ isInit' = FALSE
  /\ UNCHANGED <<isDeinit, memblock, handlers, tree, mem, lock, pc, frame, new, old, then, holds>>

DestructorForgets ==
  /\ stage = "closing"
  /\ stage' = "gone" /\ buddy' = FALSE
  /\ UNCHANGED <<isInit, isDeinit, memblock, handlers, tree, mem, lock, pc, frame, new, old, then,
                 holds>>

-----------------------------------------------------------------------------
InitStep(t)  == InitDone(t) \/ InitPrint(t) \/ InitTree(t) \/ InitMap(t) \/ InitRegister(t)
AllocStep(t) == AllocCheck(t) \/ AllocTake(t) \/ AllocHuge(t) \/ AllocSpin(t) \/ AllocTorn(t)
SizeStep(t)  == SizeCheck(t) \/ SizeOld(t) \/ SizeTorn(t)
WriteStep(t) == Copy(t) \/ CopyFaults(t) \/ Zero(t) \/ ZeroFaults(t)
FreeStep(t)  == FreeCheck(t) \/ FreeBlock(t) \/ FreeTorn(t)

\* Thread t goes on with the call it is in.
Run(t) == \/ Lock(t) \/ InitStep(t) \/ AllocStep(t) \/ SizeStep(t) \/ WriteStep(t)
          \/ FreeStep(t) \/ NoTree(t) \/ Unlock(t)

Request(t) == CallAlloc(t) \/ CallRealloc(t) \/ CallFree(t) \/ WriteUnder(t)

Lifetime == \/ BuddyConstructor \/ LockConstructor
            \/ LockDestructor \/ DestructorUnmaps \/ DestructorForgets

Next == /\ stage # "crashed"
        /\ Lifetime \/ \E t \in Threads : Request(t) \/ Run(t)

Spec == Init /\ [][Next]_vars

\* A thread that can go on with its call does.
FairSpec == Spec /\ \A t \in Threads : WF_vars(Run(t) /\ stage # "crashed")
=============================================================================
