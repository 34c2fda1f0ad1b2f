---------------------------- MODULE ZallocProofs ----------------------------
(***************************************************************************)
(* Safety of src/zalloc.c with inc/buddy_alloc.c, for every number of      *)
(* threads, pages and sizes and every way in which set-up fails: ZallocInv *)
(* is inductive.  One lemma per conjunct, with a step per action; most     *)
(* actions leave a conjunct alone for a reason that a frame lemma states.  *)
(***************************************************************************)
EXTENDS ZallocProps, TLAPS

\* Pointers that point to pages are no others.
LEMMA PointerFacts ==
  /\ Page \cup {Null, Wild, Under, Behind} = Pointers
  /\ Page \subseteq Nat /\ {Null, Wild, Under, Behind} \cap Nat = {}
  /\ Null \notin Page /\ Wild \notin Page /\ Under \notin Page /\ Behind \notin Page
  /\ Null # Wild /\ Null # Under /\ Null # Behind /\ Wild # Under /\ Under # Behind
  /\ 0 \in Lengths /\ Sizes \subseteq Lengths /\ Oversize \subseteq Lengths
BY ZallocAssumption DEF Pointers, Lengths, Page, Null, Wild, Under, Behind

\* What a minimum is one of.
LEMMA MinimumFact == \A x, y : Minimum(x, y) \in {x, y}
BY DEF Minimum

\* Every call that copies or overruns leaves pages with contents.
LEMMA ContentsType ==
  ASSUME TypeOK
  PROVE  /\ Foreign \in [by : Threads \cup {Nobody}, bytes : Lengths]
         /\ \A p \in Page, n \in Lengths :
              Beginning(mem[p], n) \in [by : Threads \cup {Nobody}, bytes : Lengths]
         /\ \A pages : Overrun(pages) \in [Page -> [by : Threads \cup {Nobody}, bytes : Lengths]]
<1> DEFINE C == [by : Threads \cup {Nobody}, bytes : Lengths]
<1>1. Foreign \in C
  BY PointerFacts DEF Foreign
<1>2. ASSUME NEW p \in Page, NEW n \in Lengths PROVE Beginning(mem[p], n) \in C
  <2>1. mem[p].by \in Threads \cup {Nobody} /\ mem[p].bytes \in Lengths
    BY DEF TypeOK
  <2>2. Minimum(mem[p].bytes, n) \in Lengths
    BY <2>1, MinimumFact
  <2> QED
    BY <2>1, <2>2 DEF Beginning
<1>3. ASSUME NEW pages PROVE Overrun(pages) \in [Page -> C]
  <2>1. \A p \in Page : mem[p] \in C
    BY DEF TypeOK
  <2> HIDE DEF C
  <2> QED
    BY <1>1, <2>1 DEF Overrun
<1> QED
  BY <1>1, <1>2, <1>3

\* What buddy_alloc finds is a page that no block has.
LEMMA TakeEffect ==
  ASSUME TypeOK, NEW t \in Threads, AllocTake(t)
  PROVE  \E off \in Page :
           /\ \A b \in heap : b.off # off
           /\ heap' = heap \cup {[off |-> off, pages |-> 1, used |-> len[t]]}
           /\ Allocated(t, Pointer(off))
<1> DEFINE block(off) == [off |-> off, pages |-> 1, used |-> len[t]]
<1>1. PICK off \in Page : off \in Heap!Places(1) /\ heap' = heap \cup {block(off)}
  <2>1. len[t] \in Sizes /\ Heap!Malloc(len[t])
    BY DEF AllocTake
  <2> QED
    BY <2>1 DEF Heap!Malloc, Heap!Places, Page
<1>2. \A b \in heap : b.off # off
  <2>1. \A b \in heap : off + 1 <= b.off \/ b.off + 1 <= off
    BY <1>1 DEF Heap!Places, Heap!Vacant, TypeOK
  <2>2. off \in Nat /\ \A b \in heap : b.off \in Nat
    BY PointerFacts DEF TypeOK
  <2> QED
    BY <2>1, <2>2
<1>3. PICK b \in heap' \ heap : Allocated(t, Pointer(b.off))
  BY DEF AllocTake
<1>4. b = block(off)
  BY <1>1, <1>3
<1>5. b.off = off
  BY <1>4
<1> QED
  BY <1>1, <1>2, <1>3, <1>5

\* Every step keeps the types.
LEMMA TypeStep ==
  ASSUME TypeOK, Next, \A t \in Threads : pc[t] = "register" => handlers = 0
  PROVE  TypeOK'
<1> DEFINE Bytes == [by : Threads \cup {Nobody}, bytes : Lengths]
<1> USE ZallocAssumption, PointerFacts DEF TypeOK, globals, tree, lock, frame, Goto, Crash
<1>1. CASE BuddyConstructor
  BY <1>1 DEF BuddyConstructor
<1>2. CASE LockConstructor
  BY <1>2 DEF LockConstructor
<1>3. CASE LockDestructor
  BY <1>3 DEF LockDestructor
<1>4. CASE DestructorUnmaps
  BY <1>4 DEF DestructorUnmaps
<1>5. ASSUME NEW t \in Threads, CallAlloc(t) PROVE TypeOK'
  BY <1>5 DEF CallAlloc, Call
<1>6. ASSUME NEW t \in Threads, CallRealloc(t) PROVE TypeOK'
  <2>1. PICK s \in Sizes \cup Oversize, p \in {Null} \cup {h.ptr : h \in holds[t]} :
          Call(t, "realloc", p, s) /\ UNCHANGED holds
    BY <1>6 DEF CallRealloc
  <2>2. p \in Pointers /\ s \in Lengths
    OBVIOUS
  <2> QED
    BY <2>1, <2>2 DEF Call
<1>7. ASSUME NEW t \in Threads, CallFree(t) PROVE TypeOK'
  BY <1>7 DEF CallFree, Call
<1>8. ASSUME NEW t \in Threads, Lock(t) PROVE TypeOK'
  BY <1>8 DEF Lock
<1>9. ASSUME NEW t \in Threads, InitDone(t) PROVE TypeOK'
  BY <1>9 DEF InitDone
<1>10. ASSUME NEW t \in Threads, InitPrint(t) PROVE TypeOK'
  BY <1>10 DEF InitPrint
<1>11. ASSUME NEW t \in Threads, InitTree(t) PROVE TypeOK'
  <2>1. torn' \in BOOLEAN
    BY <1>11, Zenon DEF InitTree, Tears
  <2> QED
    BY <1>11, <2>1 DEF InitTree
<1>12. ASSUME NEW t \in Threads, InitMap(t) PROVE TypeOK'
  BY <1>12 DEF InitMap
<1>13. ASSUME NEW t \in Threads, InitRegister(t) PROVE TypeOK'
  BY <1>13 DEF InitRegister
<1>14. ASSUME NEW t \in Threads, AllocCheck(t) PROVE TypeOK'
  BY <1>14 DEF AllocCheck, Allocated, AfterAlloc
<1>15. ASSUME NEW t \in Threads, AllocTake(t) PROVE TypeOK'
  <2>1. PICK off \in Page :
          /\ heap' = heap \cup {[off |-> off, pages |-> 1, used |-> len[t]]}
          /\ Allocated(t, Pointer(off))
    BY <1>15, TakeEffect
  <2>2. Pointer(off) \in Pointers
    BY DEF Pointer
  <2>3. [off |-> off, pages |-> 1, used |-> len[t]] \in [off : Page, pages : {1}, used : Sizes]
    BY <1>15 DEF AllocTake
  <2> QED
    BY <1>15, <2>1, <2>2, <2>3 DEF AllocTake, Allocated, AfterAlloc
<1>16. ASSUME NEW t \in Threads, AllocHuge(t) PROVE TypeOK'
  BY <1>16 DEF AllocHuge, Allocated, AfterAlloc
<1>17. ASSUME NEW t \in Threads, AllocSpin(t) PROVE TypeOK'
  BY <1>17 DEF AllocSpin
<1>18. ASSUME NEW t \in Threads, NoTree(t) PROVE TypeOK'
  BY <1>18 DEF NoTree
<1>19. ASSUME NEW t \in Threads, SizeOld(t) PROVE TypeOK'
  <2>1. \A b \in BlockAt(arg[t]) : b.used \in Lengths
    BY DEF BlockAt
  <2> QED
    BY <1>19, <2>1 DEF SizeOld
<1>20. ASSUME NEW t \in Threads, Copy(t) PROVE TypeOK'
  <2>1. CopyLength(t) \in Lengths
    BY MinimumFact DEF CopyLength
  <2>2. arg[t] \in Page => Beginning(mem[arg[t]], CopyLength(t)) \in Bytes
    BY <2>1, ContentsType
  <2>3. mem' \in [Page -> Bytes]
    BY <1>20, <2>2, ContentsType DEF Copy
  <2> QED
    BY <1>20, <2>3 DEF Copy
<1>21. ASSUME NEW t \in Threads, Zero(t) PROVE TypeOK'
  <2>1. [by |-> Nobody, bytes |-> len[t]] \in Bytes
    OBVIOUS
  <2>2. mem' \in [Page -> Bytes]
    BY <1>21, <2>1, ContentsType DEF Zero
  <2> QED
    BY <1>21, <2>2 DEF Zero
<1>22. ASSUME NEW t \in Threads, FreeBlock(t) PROVE TypeOK'
  BY <1>22 DEF FreeBlock, Heap!Free
<1>23. ASSUME NEW t \in Threads, Unlock(t) PROVE TypeOK'
  <2>1. [by |-> t, bytes |-> len[t]] \in [by : Threads \cup {Nobody}, bytes : Lengths]
    OBVIOUS
  <2>2. Kept(t) \cup {[ptr |-> new[t], size |-> len[t]]} \subseteq [ptr : Pointers, size : Lengths]
    BY DEF Kept
  <2> QED
    BY <1>23, <2>1, <2>2 DEF Unlock
<1>24. CASE DestructorForgets
  BY <1>24 DEF DestructorForgets
<1>25. ASSUME NEW t \in Threads, AllocTorn(t) PROVE TypeOK'
  <2>1. {Pointer(off) : off \in Page} \cup {Behind} \subseteq Pointers
    BY DEF Pointer
  <2> QED
    BY <1>25, <2>1 DEF AllocTorn, Torn, Allocated, AfterAlloc
<1>26. ASSUME NEW t \in Threads, SizeCheck(t) PROVE TypeOK'
  BY <1>26 DEF SizeCheck
<1>27. ASSUME NEW t \in Threads, SizeTorn(t) PROVE TypeOK'
  BY <1>27 DEF SizeTorn, Torn
<1>28. ASSUME NEW t \in Threads, CopyFaults(t) PROVE TypeOK'
  BY <1>28 DEF CopyFaults
<1>29. ASSUME NEW t \in Threads, ZeroFaults(t) PROVE TypeOK'
  BY <1>29 DEF ZeroFaults
<1>30. ASSUME NEW t \in Threads, FreeCheck(t) PROVE TypeOK'
  BY <1>30 DEF FreeCheck
<1>31. ASSUME NEW t \in Threads, FreeTorn(t) PROVE TypeOK'
  BY <1>31 DEF FreeTorn, Torn
<1>32. ASSUME NEW t \in Threads, WriteUnder(t) PROVE TypeOK'
  BY <1>32, ContentsType DEF WriteUnder
<1> QED
  BY <1>1, <1>2, <1>3, <1>4, <1>5, <1>6, <1>7, <1>8, <1>9, <1>10, <1>11, <1>12, <1>13, <1>14,
     <1>15, <1>16, <1>17, <1>18, <1>19, <1>20, <1>21, <1>22, <1>23,
     <1>24, <1>25, <1>26, <1>27, <1>28, <1>29, <1>30, <1>31, <1>32
     DEF Next, Lifetime, Request, Run, InitStep, AllocStep, SizeStep, WriteStep, FreeStep

-----------------------------------------------------------------------------
(* The mutex, and the order of constructors, main() and destructors *)

\* While one thread is inside, the tree stays whole.
LEMMA Whole ==
  ASSUME LockInv
  PROVE  \A t \in Threads :
           /\ Inside(t) => ~ Tears(t)
           /\ ~ AllocTorn(t) /\ ~ SizeTorn(t) /\ ~ FreeTorn(t)
<1>1. ASSUME NEW t \in Threads, Inside(t) PROVE ~ Tears(t)
  BY <1>1 DEF LockInv, OneAtATime, Inside, Tears, InTree
<1> QED
  BY <1>1 DEF Inside, AllocTorn, SizeTorn, FreeTorn

\* A step keeps one thread inside: only the one that has the mutex moves.
LEMMA LockStep ==
  ASSUME ZallocInv, Next, ~ LateThreads
  PROVE  LockInv'
<1> USE ZallocAssumption
   DEF ZallocInv, TypeOK, LockInv, OneAtATime, Inside, globals, tree, lock, frame, Goto,
       Crash, MayCall
<1>0. stage # "crashed" /\ stage \in {"start", "arena", "running", "unlocked", "closing", "gone"}
  BY DEF Next
<1>1. CASE BuddyConstructor
  BY <1>1 DEF BuddyConstructor
<1>2. CASE LockConstructor
  BY <1>2 DEF LockConstructor
<1>3. CASE LockDestructor
  BY <1>3 DEF LockDestructor
<1>4. CASE DestructorUnmaps
  BY <1>4 DEF DestructorUnmaps
<1>5. ASSUME NEW t \in Threads, CallAlloc(t) PROVE LockInv'
  BY <1>5 DEF CallAlloc, Call, MayCall
<1>6. ASSUME NEW t \in Threads, CallRealloc(t) PROVE LockInv'
  BY <1>6 DEF CallRealloc, Call, MayCall
<1>7. ASSUME NEW t \in Threads, CallFree(t) PROVE LockInv'
  BY <1>7 DEF CallFree, Call, MayCall
<1>8. ASSUME NEW t \in Threads, Lock(t) PROVE LockInv'
  <2>1. /\ pc[t] = "lock" /\ UNCHANGED <<stage, mutex, torn>>
        /\ pc' = [pc EXCEPT ![t] = "init"]
        /\ \/ mutex = "usable" /\ owner = Nobody /\ owner' = t
           \/ mutex = "destroyed" /\ UNCHANGED owner
    BY <1>8 DEF Lock
  <2>2. \A s \in Threads \ {t} : ~ Inside(s)
    BY <1>0, <2>1
  <2>3. \A s \in Threads \ {t} : pc'[s] = pc[s]
    BY <2>1
  <2> QED
    BY <1>0, <2>1, <2>2, <2>3
<1>9. ASSUME NEW t \in Threads, InitDone(t) PROVE LockInv'
  BY <1>9 DEF InitDone
<1>10. ASSUME NEW t \in Threads, InitPrint(t) PROVE LockInv'
  BY <1>10 DEF InitPrint
<1>11. ASSUME NEW t \in Threads, InitTree(t) PROVE LockInv'
  <2>1. pc[t] = "init" /\ Inside(t)
    BY <1>11 DEF InitTree
  <2>2. ~ torn'
    BY <1>11, <2>1, Whole DEF InitTree
  <2>3. pc' = [pc EXCEPT ![t] = "map"] /\ UNCHANGED <<stage, mutex, owner>>
    BY <1>11 DEF InitTree
  <2> QED
    BY <2>1, <2>2, <2>3
<1>12. ASSUME NEW t \in Threads, InitMap(t) PROVE LockInv'
  BY <1>12 DEF InitMap
<1>13. ASSUME NEW t \in Threads, InitRegister(t) PROVE LockInv'
  BY <1>13 DEF InitRegister
<1>14. ASSUME NEW t \in Threads, AllocCheck(t) PROVE LockInv'
  BY <1>14 DEF AllocCheck, Allocated, AfterAlloc
<1>15. ASSUME NEW t \in Threads, AllocTake(t) PROVE LockInv'
  BY <1>15 DEF AllocTake, Allocated, AfterAlloc
<1>16. ASSUME NEW t \in Threads, AllocHuge(t) PROVE LockInv'
  BY <1>16 DEF AllocHuge, Allocated, AfterAlloc
<1>17. ASSUME NEW t \in Threads, AllocSpin(t) PROVE LockInv'
  BY <1>17 DEF AllocSpin
<1>18. ASSUME NEW t \in Threads, NoTree(t) PROVE LockInv'
  BY <1>18 DEF NoTree
<1>19. ASSUME NEW t \in Threads, SizeOld(t) PROVE LockInv'
  BY <1>19 DEF SizeOld
<1>20. ASSUME NEW t \in Threads, Copy(t) PROVE LockInv'
  BY <1>20 DEF Copy
<1>21. ASSUME NEW t \in Threads, Zero(t) PROVE LockInv'
  <2>1. pc[t] = "zero" /\ UNCHANGED <<stage, mutex, owner, torn>> /\ pc' = [pc EXCEPT ![t] = "unlock"]
    BY <1>21, Zenon DEF Zero
  <2> QED
    BY <2>1
<1>22. ASSUME NEW t \in Threads, FreeBlock(t) PROVE LockInv'
  BY <1>22 DEF FreeBlock
<1>23. ASSUME NEW t \in Threads, Unlock(t) PROVE LockInv'
  BY <1>23 DEF Unlock
<1>24. CASE DestructorForgets
  BY <1>24 DEF DestructorForgets
<1>25. \A t \in Threads : ~ AllocTorn(t) /\ ~ SizeTorn(t) /\ ~ FreeTorn(t)
  BY Whole DEF ZallocInv
<1>26. ASSUME NEW t \in Threads, SizeCheck(t) PROVE LockInv'
  BY <1>26 DEF SizeCheck
<1>28. ASSUME NEW t \in Threads, CopyFaults(t) PROVE LockInv'
  BY <1>28 DEF CopyFaults
<1>29. ASSUME NEW t \in Threads, ZeroFaults(t) PROVE LockInv'
  BY <1>29 DEF ZeroFaults
<1>30. ASSUME NEW t \in Threads, FreeCheck(t) PROVE LockInv'
  BY <1>30 DEF FreeCheck
<1>32. ASSUME NEW t \in Threads, WriteUnder(t) PROVE LockInv'
  BY <1>32 DEF WriteUnder
<1> QED
  BY <1>1, <1>2, <1>3, <1>4, <1>5, <1>6, <1>7, <1>8, <1>9, <1>10, <1>11, <1>12,
     <1>13, <1>14, <1>15, <1>16, <1>17, <1>18, <1>19, <1>20, <1>21, <1>22, <1>23,
     <1>24, <1>25, <1>26, <1>28, <1>29, <1>30, <1>32
     DEF Next, Lifetime, Request, Run, InitStep, AllocStep, SizeStep, WriteStep, FreeStep

\* A step keeps a call's locals in line with how far it has come.
LEMMA CallStep ==
  ASSUME TypeOK, CallInv, Next
  PROVE  CallInv'
<1> USE ZallocAssumption, PointerFacts
   DEF TypeOK, CallInv, Label, globals, tree, lock, frame, Goto, Crash
<1>1. CASE BuddyConstructor
  BY <1>1 DEF BuddyConstructor
<1>2. CASE LockConstructor
  BY <1>2 DEF LockConstructor
<1>3. CASE LockDestructor
  BY <1>3 DEF LockDestructor
<1>4. CASE DestructorUnmaps
  BY <1>4 DEF DestructorUnmaps
<1>5. ASSUME NEW t \in Threads, CallAlloc(t) PROVE CallInv'
  BY <1>5 DEF CallAlloc, Call, MayCall
<1>6. ASSUME NEW t \in Threads, CallRealloc(t) PROVE CallInv'
  BY <1>6 DEF CallRealloc, Call, MayCall
<1>7. ASSUME NEW t \in Threads, CallFree(t) PROVE CallInv'
  BY <1>7 DEF CallFree, Call, MayCall
<1>8. ASSUME NEW t \in Threads, Lock(t) PROVE CallInv'
  BY <1>8 DEF Lock
<1>9. ASSUME NEW t \in Threads, InitDone(t) PROVE CallInv'
  BY <1>9 DEF InitDone
<1>10. ASSUME NEW t \in Threads, InitPrint(t) PROVE CallInv'
  BY <1>10 DEF InitPrint
<1>11. ASSUME NEW t \in Threads, InitTree(t) PROVE CallInv'
  BY <1>11 DEF InitTree
<1>12. ASSUME NEW t \in Threads, InitMap(t) PROVE CallInv'
  BY <1>12 DEF InitMap
<1>13. ASSUME NEW t \in Threads, InitRegister(t) PROVE CallInv'
  BY <1>13 DEF InitRegister
<1>14. ASSUME NEW t \in Threads, AllocCheck(t) PROVE CallInv'
  BY <1>14 DEF AllocCheck, Allocated, AfterAlloc
<1>15. ASSUME NEW t \in Threads, AllocTake(t) PROVE CallInv'
  BY <1>15, TakeEffect DEF AllocTake, Allocated, AfterAlloc
<1>16. ASSUME NEW t \in Threads, AllocHuge(t) PROVE CallInv'
  BY <1>16 DEF AllocHuge, Allocated, AfterAlloc
<1>17. ASSUME NEW t \in Threads, AllocSpin(t) PROVE CallInv'
  BY <1>17 DEF AllocSpin
<1>18. ASSUME NEW t \in Threads, NoTree(t) PROVE CallInv'
  BY <1>18 DEF NoTree
<1>19. ASSUME NEW t \in Threads, SizeOld(t) PROVE CallInv'
  BY <1>19 DEF SizeOld
<1>20. ASSUME NEW t \in Threads, Copy(t) PROVE CallInv'
  BY <1>20 DEF Copy
<1>21. ASSUME NEW t \in Threads, Zero(t) PROVE CallInv'
  BY <1>21 DEF Zero
<1>22. ASSUME NEW t \in Threads, FreeBlock(t) PROVE CallInv'
  BY <1>22 DEF FreeBlock
<1>23. ASSUME NEW t \in Threads, Unlock(t) PROVE CallInv'
  BY <1>23 DEF Unlock
<1>24. CASE DestructorForgets
  BY <1>24 DEF DestructorForgets
<1>25. ASSUME NEW t \in Threads, AllocTorn(t) PROVE CallInv'
  BY <1>25 DEF AllocTorn, Torn, Allocated, AfterAlloc
<1>26. ASSUME NEW t \in Threads, SizeCheck(t) PROVE CallInv'
  BY <1>26 DEF SizeCheck
<1>27. ASSUME NEW t \in Threads, SizeTorn(t) PROVE CallInv'
  BY <1>27 DEF SizeTorn, Torn
<1>28. ASSUME NEW t \in Threads, CopyFaults(t) PROVE CallInv'
  BY <1>28 DEF CopyFaults
<1>29. ASSUME NEW t \in Threads, ZeroFaults(t) PROVE CallInv'
  BY <1>29 DEF ZeroFaults
<1>30. ASSUME NEW t \in Threads, FreeCheck(t) PROVE CallInv'
  BY <1>30 DEF FreeCheck
<1>31. ASSUME NEW t \in Threads, FreeTorn(t) PROVE CallInv'
  BY <1>31 DEF FreeTorn, Torn
<1>32. ASSUME NEW t \in Threads, WriteUnder(t) PROVE CallInv'
  BY <1>32 DEF WriteUnder
<1> QED
  BY <1>1, <1>2, <1>3, <1>4, <1>5, <1>6, <1>7, <1>8, <1>9, <1>10, <1>11, <1>12,
     <1>13, <1>14, <1>15, <1>16, <1>17, <1>18, <1>19, <1>20, <1>21, <1>22, <1>23,
     <1>24, <1>25, <1>26, <1>27, <1>28, <1>29, <1>30, <1>31, <1>32
     DEF Next, Lifetime, Request, Run, InitStep, AllocStep, SizeStep, WriteStep, FreeStep

-----------------------------------------------------------------------------
(* Set-up *)

\* A step hands out no page before init_ has succeeded.
LEMMA SetUpStep ==
  ASSUME ZallocInv, Next, ~ LateThreads
  PROVE  SetUpInv'
<1> USE ZallocAssumption, PointerFacts
   DEF ZallocInv, TypeOK, SetUpInv, NoPages, InTree, globals, tree, lock, frame, Goto, Crash
<1>0. stage # "crashed"
  BY DEF Next
<1>01. OneAtATime
  BY DEF ZallocInv, LockInv
<1>1. CASE BuddyConstructor
  BY <1>1 DEF BuddyConstructor
<1>2. CASE LockConstructor
  BY <1>2 DEF LockConstructor
<1>3. CASE LockDestructor
  BY <1>3 DEF LockDestructor
<1>4. CASE DestructorUnmaps
  <2>1. \A t \in Threads : pc[t] = "idle" /\ new[t] = Null
    BY <1>4 DEF DestructorUnmaps, LockInv, CallInv, Label
  <2> QED
    BY <1>4, <2>1 DEF DestructorUnmaps
<1>5. ASSUME NEW t \in Threads, CallAlloc(t) PROVE SetUpInv'
  <2>1. pc[t] = "idle" /\ pc' = [pc EXCEPT ![t] = "lock"] /\ arg' = [arg EXCEPT ![t] = Null]
    BY <1>5 DEF CallAlloc, Call, MayCall
  <2>2. UNCHANGED <<stage, globals, heap, new, holds>>
    BY <1>5 DEF CallAlloc, Call
  <2> QED
    BY <2>1, <2>2
<1>6. ASSUME NEW t \in Threads, CallRealloc(t) PROVE SetUpInv'
  <2>1. PICK p \in {Null} \cup {h.ptr : h \in holds[t]} :
          pc[t] = "idle" /\ pc' = [pc EXCEPT ![t] = "lock"] /\ arg' = [arg EXCEPT ![t] = p]
    BY <1>6 DEF CallRealloc, Call, MayCall
  <2>2. UNCHANGED <<stage, globals, heap, new, holds>>
    BY <1>6 DEF CallRealloc, Call
  <2>p. p = Null \/ \E h \in holds[t] : p = h.ptr
    OBVIOUS
  <2>3. ~ isInit => p \notin Page
    <3>1. CASE p = Null
      BY <3>1
    <3>2. CASE \E h \in holds[t] : p = h.ptr
      BY <3>2
    <3> QED
      BY <2>p, <3>1, <3>2
  <2> QED
    BY <2>1, <2>2, <2>3
<1>7. ASSUME NEW t \in Threads, CallFree(t) PROVE SetUpInv'
  BY <1>7 DEF CallFree, Call, MayCall
<1>8. ASSUME NEW t \in Threads, Lock(t) PROVE SetUpInv'
  BY <1>8 DEF Lock
<1>9. ASSUME NEW t \in Threads, InitDone(t) PROVE SetUpInv'
  BY <1>9 DEF InitDone
<1>10. ASSUME NEW t \in Threads, InitPrint(t) PROVE SetUpInv'
  BY <1>10 DEF InitPrint
<1>11. ASSUME NEW t \in Threads, InitTree(t) PROVE SetUpInv'
  BY <1>11 DEF InitTree
<1>12. ASSUME NEW t \in Threads, InitMap(t) PROVE SetUpInv'
  <2>1. \A s \in Threads \ {t} : pc[s] \in {"idle", "lock"} /\ pc'[s] = pc[s]
    BY <1>12, <1>01 DEF InitMap, OneAtATime, Inside
  <2>2. pc[t] = "map" /\ pc' \in [Threads -> {pc'[s] : s \in Threads}]
    BY <1>12 DEF InitMap
  <2>3. ~ isInit /\ NoPages /\ buddy /\ heap = {} /\ memblock # "mapped"
    BY <2>1, <2>2
  <2>4. UNCHANGED <<stage, isInit, buddy, handlers, heap, new, arg, holds>>
    BY <1>12 DEF InitMap
  <2>5. \/ memblock' = "mapped" /\ pc'[t] = "register"
        \/ memblock' \notin {"mapped", "unmapped"} /\ pc'[t] = then[t]
    BY <1>12, <2>3 DEF InitMap
  <2>6. stage # "closing"
    BY <2>2 DEF LockInv
  <2> QED
    BY <2>1, <2>3, <2>4, <2>5, <2>6
<1>13. ASSUME NEW t \in Threads, InitRegister(t) PROVE SetUpInv'
  <2>1. \A s \in Threads \ {t} : pc[s] \in {"idle", "lock"} /\ pc'[s] = pc[s]
    BY <1>13, <1>01 DEF InitRegister, OneAtATime, Inside
  <2>2. pc[t] = "register" /\ pc'[t] = then[t] /\ isInit'
    BY <1>13 DEF InitRegister
  <2>3. UNCHANGED <<stage, buddy, memblock, heap, new>>
    BY <1>13 DEF InitRegister
  <2> QED
    BY <2>1, <2>2, <2>3
<1>14. ASSUME NEW t \in Threads, AllocCheck(t) PROVE SetUpInv'
  BY <1>14 DEF AllocCheck, Allocated, AfterAlloc
<1>15. ASSUME NEW t \in Threads, AllocTake(t) PROVE SetUpInv'
  <2>1. \A s \in Threads \ {t} : pc[s] \in {"idle", "lock"} /\ pc'[s] = pc[s]
    BY <1>15, <1>01 DEF AllocTake, Allocated, OneAtATime, Inside
  <2>2. PICK off \in Page : Allocated(t, Pointer(off))
    BY <1>15, TakeEffect
  <2>3. Pointer(off) \in Page => memblock = "mapped" /\ isInit
    <3>1. pc[t] = "take" /\ buddy
      BY <1>15 DEF AllocTake
    <3>2. stage # "closing"
      BY <3>1 DEF LockInv
    <3>3. memblock # "unmapped"
      BY <1>0, <3>1, <3>2
    <3>4. memblock = "mapped" => isInit
      BY <2>1, <3>1
    <3> QED
      BY <3>3, <3>4 DEF Pointer, Placed
  <2>4. pc[t] = "take" /\ pc'[t] \in {"zero", "init", "unlock"}
    BY <1>15, <2>2 DEF AllocTake, Allocated, AfterAlloc
  <2>5. UNCHANGED <<stage, globals, arg, holds>> /\ new' = [new EXCEPT ![t] = Pointer(off)]
    BY <1>15, <2>2 DEF AllocTake, Allocated
  <2> QED
    BY <2>1, <2>3, <2>4, <2>5
<1>16. ASSUME NEW t \in Threads, AllocHuge(t) PROVE SetUpInv'
  BY <1>16 DEF AllocHuge, Allocated, AfterAlloc
<1>17. ASSUME NEW t \in Threads, AllocSpin(t) PROVE SetUpInv'
  BY <1>17 DEF AllocSpin
<1>18. ASSUME NEW t \in Threads, NoTree(t) PROVE SetUpInv'
  BY <1>18 DEF NoTree
<1>19. ASSUME NEW t \in Threads, SizeOld(t) PROVE SetUpInv'
  BY <1>19 DEF SizeOld
<1>20. ASSUME NEW t \in Threads, Copy(t) PROVE SetUpInv'
  BY <1>20 DEF Copy
<1>21. ASSUME NEW t \in Threads, Zero(t) PROVE SetUpInv'
  BY <1>21 DEF Zero
<1>22. ASSUME NEW t \in Threads, FreeBlock(t) PROVE SetUpInv'
  <2>1. \A s \in Threads \ {t} : pc[s] \in {"idle", "lock"} /\ pc'[s] = pc[s]
    BY <1>22, <1>01 DEF FreeBlock, OneAtATime, Inside
  <2>2. pc[t] = "release" /\ pc'[t] \in {"release", "unlock"} /\ UNCHANGED <<globals, arg, new, holds>>
    BY <1>22 DEF FreeBlock
  <2>3. stage' \in {stage, "crashed"}
    BY <1>22 DEF FreeBlock
  <2> QED
    BY <2>1, <2>2, <2>3
<1>23. ASSUME NEW t \in Threads, Unlock(t) PROVE SetUpInv'
  <2>1. \A s \in Threads \ {t} : pc[s] \in {"idle", "lock"} /\ pc'[s] = pc[s]
    BY <1>23, <1>01 DEF Unlock, OneAtATime, Inside
  <2>2. pc[t] = "unlock" /\ pc'[t] = "idle" /\ UNCHANGED <<stage, globals, heap>>
    BY <1>23 DEF Unlock
  <2>4. memblock = "mapped" => isInit
    BY <2>1, <2>2
  <2>3. /\ arg' = [arg EXCEPT ![t] = Null] /\ new' = [new EXCEPT ![t] = Null]
        /\ \A s \in Threads : \A h \in holds'[s] : h \in holds[s] \/ h.ptr = new[s]
    BY <1>23 DEF Unlock, Kept
  <2>5. ~ isInit => \A s \in Threads : \A h \in holds'[s] : h.ptr \notin Page
    BY <2>3
  <2>6. \A s \in Threads : arg'[s] \in {arg[s], Null} /\ new'[s] \in {new[s], Null}
    BY <2>3
  <2> QED
    BY <2>1, <2>2, <2>4, <2>5, <2>6
<1>24. CASE DestructorForgets
  <2>1. \A t \in Threads : pc[t] = "idle" /\ new[t] = Null
    BY <1>24 DEF DestructorForgets, LockInv, CallInv, Label
  <2> QED
    BY <1>24, <2>1 DEF DestructorForgets
<1>25. \A t \in Threads : ~ AllocTorn(t) /\ ~ SizeTorn(t) /\ ~ FreeTorn(t)
  BY Whole DEF ZallocInv
<1>26. ASSUME NEW t \in Threads, SizeCheck(t) PROVE SetUpInv'
  BY <1>26 DEF SizeCheck
<1>28. ASSUME NEW t \in Threads, CopyFaults(t) PROVE SetUpInv'
  BY <1>28 DEF CopyFaults
<1>29. ASSUME NEW t \in Threads, ZeroFaults(t) PROVE SetUpInv'
  BY <1>29 DEF ZeroFaults
<1>30. ASSUME NEW t \in Threads, FreeCheck(t) PROVE SetUpInv'
  BY <1>30 DEF FreeCheck
<1>32. ASSUME NEW t \in Threads, WriteUnder(t) PROVE SetUpInv'
  BY <1>32 DEF WriteUnder
<1> QED
  BY <1>1, <1>2, <1>3, <1>4, <1>5, <1>6, <1>7, <1>8, <1>9, <1>10, <1>11, <1>12,
     <1>13, <1>14, <1>15, <1>16, <1>17, <1>18, <1>19, <1>20, <1>21, <1>22, <1>23,
     <1>24, <1>25, <1>26, <1>28, <1>29, <1>30, <1>32
     DEF Next, Lifetime, Request, Run, InitStep, AllocStep, SizeStep, WriteStep, FreeStep

-----------------------------------------------------------------------------
(* No page is claimed twice *)

\* A step that hands out no page and takes none back leaves the claims apart.
LEMMA ClaimFrame ==
  ASSUME ClaimInv,
         \A s \in Threads :
           /\ holds'[s] \subseteq holds[s]
           /\ new'[s] = new[s] \/ new'[s] \notin Page
           /\ Returning(s)' \subseteq Returning(s)
  PROVE  ClaimInv'
<1>1. \A s \in Threads : Returning(s) \subseteq Page /\ Returning(s)' \subseteq Page
  BY DEF Returning
<1>2. SoleHolder'
  BY DEF ClaimInv, SoleHolder
<1>3. \A s, t \in Threads : new'[t] \in Page => \A h \in holds'[s] : h.ptr # new'[t]
  BY DEF ClaimInv
<1>4. ASSUME NEW t \in Threads, NEW p \in Returning(t)', NEW s \in Threads
      PROVE  p # new'[s] /\ (\A h \in holds'[s] : h.ptr # p) /\ (s # t => p \notin Returning(s)')
  <2>1. p \in Returning(t) /\ p \in Page
    BY <1>1, <1>4
  <2>2. p # new[s] /\ (\A h \in holds[s] : h.ptr # p) /\ (s # t => p \notin Returning(s))
    BY <2>1 DEF ClaimInv
  <2> QED
    BY <2>1, <2>2
<1> QED
  BY <1>2, <1>3, <1>4 DEF ClaimInv

\* A page that no block has is claimed by nobody, when no thread is about to return.
LEMMA FreshPage ==
  ASSUME ZallocInv, NEW t \in Threads, pc[t] = "take",
         NEW off \in Page, \A b \in heap : b.off # off
  PROVE  \A s \in Threads :
           new[s] = Null /\ off \notin Returning(s) /\ \A h \in holds[s] : h.ptr # off
<1> SUFFICES ASSUME NEW s \in Threads
             PROVE  new[s] = Null /\ off \notin Returning(s) /\ \A h \in holds[s] : h.ptr # off
  OBVIOUS
<1>1. pc[s] \in {"idle", "lock", "take"}
  BY DEF ZallocInv, LockInv, OneAtATime, Inside
<1>2. new[s] = Null
  BY <1>1 DEF ZallocInv, CallInv, Label
<1>3. off \notin Returning(s)
  BY DEF ZallocInv, TreeInv, BlockAt
<1>4. ASSUME NEW h \in holds[s], h.ptr = off
      PROVE  FALSE
  <2>1. h \in InHand(s)
    BY <1>1, <1>4 DEF InHand
  <2>2. h \in Recorded
    BY <2>1 DEF ZallocInv, TreeInv
  <2> QED
    BY <1>4, <2>2 DEF Recorded
<1> QED
  BY <1>2, <1>3, <1>4

\* A step leaves no page with two claims.
LEMMA ClaimStep ==
  ASSUME ZallocInv, Next, ~ LateThreads
  PROVE  ClaimInv'
<1> USE PointerFacts DEF ZallocInv, TypeOK, globals, tree, lock, frame, Goto, Crash
<1>1. CASE BuddyConstructor
  BY <1>1, ClaimFrame DEF BuddyConstructor, Returning
<1>2. CASE LockConstructor
  BY <1>2, ClaimFrame DEF LockConstructor, Returning
<1>3. CASE LockDestructor
  BY <1>3, ClaimFrame DEF LockDestructor, Returning
<1>4. CASE DestructorUnmaps
  BY <1>4, ClaimFrame DEF DestructorUnmaps, Returning
<1>5. ASSUME NEW t \in Threads, CallAlloc(t) PROVE ClaimInv'
  BY <1>5, ClaimFrame DEF CallAlloc, Call, MayCall, Returning
<1>6. ASSUME NEW t \in Threads, CallRealloc(t) PROVE ClaimInv'
  BY <1>6, ClaimFrame DEF CallRealloc, Call, MayCall, Returning
<1>7. ASSUME NEW t \in Threads, CallFree(t) PROVE ClaimInv'
  <2>1. PICK g \in holds[t] :
          /\ Call(t, "free", g.ptr, 0)
          /\ holds' = [holds EXCEPT ![t] = @ \ {g}]
    BY <1>7 DEF CallFree
  <2>2. /\ holds'[t] = holds[t] \ {g} /\ new' = new
        /\ \A s \in Threads \ {t} : holds'[s] = holds[s] /\ Returning(s)' = Returning(s)
    BY <2>1 DEF Call, Returning
  <2>3. Returning(t)' = {g.ptr} \cap Page
    BY <2>1 DEF Call, Returning
  <2>4. SoleHolder'
    BY <2>2 DEF ClaimInv, SoleHolder
  <2>5. \A s, u \in Threads : new'[u] \in Page => \A h \in holds'[s] : h.ptr # new'[u]
    BY <2>2 DEF ClaimInv
  <2>6. ASSUME NEW u \in Threads, NEW p \in Returning(u)', NEW s \in Threads
        PROVE  p # new'[s] /\ (\A h \in holds'[s] : h.ptr # p) /\ (s # u => p \notin Returning(s)')
    <3>1. CASE u = t
      <4>1. p = g.ptr /\ p \in Page
        BY <2>3, <2>6, <3>1
      <4>2. p # new[s]
        BY <4>1 DEF ClaimInv
      <4>3. \A h \in holds'[s] : h.ptr # p
        BY <2>2, <4>1 DEF ClaimInv, SoleHolder
      <4>4. s # t => p \notin Returning(s)
        BY <4>1 DEF ClaimInv
      <4> QED
        BY <2>2, <3>1, <4>2, <4>3, <4>4
    <3>2. CASE u # t
      <4>1. p \in Returning(u)
        BY <2>2, <2>6, <3>2
      <4>2. p # new[s] /\ (\A h \in holds[s] : h.ptr # p) /\ (s # u => p \notin Returning(s))
        BY <4>1 DEF ClaimInv
      <4>3. p # g.ptr
        BY <4>1 DEF ClaimInv
      <4> QED
        BY <2>2, <2>3, <4>2, <4>3
    <3> QED
      BY <3>1, <3>2
  <2> QED
    BY <2>4, <2>5, <2>6 DEF ClaimInv
<1>8. ASSUME NEW t \in Threads, Lock(t) PROVE ClaimInv'
  BY <1>8, ClaimFrame DEF Lock, Returning
<1>9. ASSUME NEW t \in Threads, InitDone(t) PROVE ClaimInv'
  BY <1>9, ClaimFrame DEF InitDone, Returning
<1>10. ASSUME NEW t \in Threads, InitPrint(t) PROVE ClaimInv'
  BY <1>10, ClaimFrame DEF InitPrint, Returning
<1>11. ASSUME NEW t \in Threads, InitTree(t) PROVE ClaimInv'
  BY <1>11, ClaimFrame DEF InitTree, Returning
<1>12. ASSUME NEW t \in Threads, InitMap(t) PROVE ClaimInv'
  BY <1>12, ClaimFrame DEF InitMap, Returning
<1>13. ASSUME NEW t \in Threads, InitRegister(t) PROVE ClaimInv'
  BY <1>13, ClaimFrame DEF InitRegister, Returning
<1>14. ASSUME NEW t \in Threads, AllocCheck(t) PROVE ClaimInv'
  BY <1>14, ClaimFrame DEF AllocCheck, Allocated, AfterAlloc, Returning, CallInv, Label
<1>15. ASSUME NEW t \in Threads, AllocTake(t) PROVE ClaimInv'
  <2>1. PICK off \in Page : (\A b \in heap : b.off # off) /\ Allocated(t, Pointer(off))
    BY <1>15, TakeEffect
  <2>2. /\ pc[t] = "take" /\ pc'[t] # "take" /\ UNCHANGED <<op, arg, holds>>
        /\ new' = [new EXCEPT ![t] = Pointer(off)]
        /\ \A s \in Threads \ {t} : pc'[s] = pc[s]
    BY <1>15, <2>1 DEF AllocTake, Allocated, AfterAlloc
  <2>3. \A s \in Threads :
          new[s] = Null /\ off \notin Returning(s) /\ \A h \in holds[s] : h.ptr # off
    BY <2>1, <2>2, FreshPage DEF ZallocInv
  <2>4. \A s \in Threads : Returning(s)' = Returning(s)
    BY <1>15, <2>2 DEF Returning, CallInv, Label
  <2>5. Pointer(off) \in Page => Pointer(off) = off
    BY DEF Pointer
  <2>6. \A s \in Threads : new'[s] \in Page => new'[s] = off
    BY <2>2, <2>3, <2>5
  <2>7. SoleHolder'
    BY <2>2 DEF ClaimInv, SoleHolder
  <2>8. \A s \in Threads : Returning(s) \subseteq Page
    BY DEF Returning
  <2> QED
    BY <2>2, <2>3, <2>4, <2>6, <2>7, <2>8 DEF ClaimInv
<1>16. ASSUME NEW t \in Threads, AllocHuge(t) PROVE ClaimInv'
  BY <1>16, ClaimFrame DEF AllocHuge, Allocated, AfterAlloc, Returning
<1>17. ASSUME NEW t \in Threads, AllocSpin(t) PROVE ClaimInv'
  BY <1>17, ClaimFrame DEF AllocSpin, Returning
<1>18. ASSUME NEW t \in Threads, NoTree(t) PROVE ClaimInv'
  BY <1>18, ClaimFrame DEF NoTree, Returning
<1>19. ASSUME NEW t \in Threads, SizeOld(t) PROVE ClaimInv'
  BY <1>19, ClaimFrame DEF SizeOld, Returning
<1>20. ASSUME NEW t \in Threads, Copy(t) PROVE ClaimInv'
  BY <1>20, ClaimFrame DEF Copy, Returning
<1>21. ASSUME NEW t \in Threads, Zero(t) PROVE ClaimInv'
  BY <1>21, ClaimFrame DEF Zero, Returning
<1>22. ASSUME NEW t \in Threads, FreeBlock(t) PROVE ClaimInv'
  BY <1>22, ClaimFrame DEF FreeBlock, Returning
<1>23. ASSUME NEW t \in Threads, Unlock(t) PROVE ClaimInv'
  <2>1. /\ new' = [new EXCEPT ![t] = Null] /\ UNCHANGED <<heap, mutex>>
        /\ \A s \in Threads \ {t} : holds'[s] = holds[s] /\ pc'[s] = pc[s] /\ op'[s] = op[s] /\ arg'[s] = arg[s]
        /\ op'[t] = "none" /\ pc[t] = "unlock"
        /\ holds'[t] = IF new[t] = Null THEN holds[t] ELSE Kept(t) \cup {[ptr |-> new[t], size |-> len[t]]}
    BY <1>23 DEF Unlock
  <2>2. Kept(t) \subseteq holds[t]
    BY DEF Kept
  <2>3. \A s \in Threads \ {t} : Returning(s)' = Returning(s)
    BY <2>1 DEF Returning
  <2>4. Returning(t)' = {} /\ \A s \in Threads : Returning(s) \subseteq Page
    BY <2>1 DEF Returning
  <2>5. \A s \in Threads \ {t} : new[s] = Null
    BY <2>1 DEF LockInv, OneAtATime, Inside, CallInv, Label
  <2>6. \A s \in Threads : \A h \in holds'[s] :
          h \in holds[s] \/ (s = t /\ h.ptr = new[t] /\ h = [ptr |-> new[t], size |-> len[t]])
    BY <2>1, <2>2
  <2>7. SoleHolder'
    BY <2>6 DEF ClaimInv, SoleHolder
  <2>8. \A s \in Threads : new'[s] \notin Page
    BY <2>1, <2>5
  <2>9. ASSUME NEW u \in Threads, NEW p \in Returning(u)', NEW s \in Threads
        PROVE  p # new'[s] /\ (\A h \in holds'[s] : h.ptr # p) /\ (s # u => p \notin Returning(s)')
    <3>1. u # t /\ p \in Returning(u) /\ p \in Page
      BY <2>3, <2>4, <2>9
    <3>2. \A v \in Threads : p # new[v] /\ (\A h \in holds[v] : h.ptr # p) /\ (v # u => p \notin Returning(v))
      BY <3>1 DEF ClaimInv
    <3> QED
      BY <2>3, <2>4, <2>6, <2>8, <3>1, <3>2
  <2> QED
    BY <2>7, <2>8, <2>9 DEF ClaimInv
<1>24. CASE DestructorForgets
  BY <1>24, ClaimFrame DEF DestructorForgets, Returning
<1>25. \A t \in Threads : ~ AllocTorn(t) /\ ~ SizeTorn(t) /\ ~ FreeTorn(t)
  BY Whole DEF ZallocInv
<1>26. ASSUME NEW t \in Threads, SizeCheck(t) PROVE ClaimInv'
  BY <1>26, ClaimFrame DEF SizeCheck, Returning
<1>28. ASSUME NEW t \in Threads, CopyFaults(t) PROVE ClaimInv'
  BY <1>28, ClaimFrame DEF CopyFaults, Returning
<1>29. ASSUME NEW t \in Threads, ZeroFaults(t) PROVE ClaimInv'
  BY <1>29, ClaimFrame DEF ZeroFaults, Returning
<1>30. ASSUME NEW t \in Threads, FreeCheck(t) PROVE ClaimInv'
  BY <1>30, ClaimFrame DEF FreeCheck, Returning
<1>32. ASSUME NEW t \in Threads, WriteUnder(t) PROVE ClaimInv'
  BY <1>32, ClaimFrame DEF WriteUnder, Returning
<1> QED
  BY <1>1, <1>2, <1>3, <1>4, <1>5, <1>6, <1>7, <1>8, <1>9, <1>10, <1>11, <1>12,
     <1>13, <1>14, <1>15, <1>16, <1>17, <1>18, <1>19, <1>20, <1>21, <1>22, <1>23,
     <1>24, <1>25, <1>26, <1>28, <1>29, <1>30, <1>32
     DEF Next, Lifetime, Request, Run, InitStep, AllocStep, SizeStep, WriteStep, FreeStep

-----------------------------------------------------------------------------
(* The tree has a block for every claim *)

\* A step that leaves the tree and the claims alone keeps them in agreement.
LEMMA TreeFrame ==
  ASSUME TreeInv, heap' = heap,
         \A s \in Threads : InHand(s)' = InHand(s) /\ Returning(s)' = Returning(s),
         isInit' /\ stage' \notin {"gone", "crashed"} =>
           isInit /\ stage \notin {"gone", "crashed"}
  PROVE  TreeInv'
<1>1. Recorded' = Recorded /\ \A p : BlockAt(p)' = BlockAt(p)
  BY DEF Recorded, BlockAt
<1> QED
  BY <1>1 DEF TreeInv

\* Which blocks a thread has in hand depends on its own call only.
LEMMA SameHand ==
  ASSUME NEW s \in Threads, holds'[s] = holds[s], new'[s] = new[s], op'[s] = op[s],
         arg'[s] = arg[s], len'[s] = len[s], pc'[s] = "unlock" <=> pc[s] = "unlock"
  PROVE  InHand(s)' = InHand(s) /\ Returning(s)' = Returning(s)
<1>1. Kept(s)' = Kept(s)
  BY DEF Kept
<1> QED
  BY <1>1 DEF InHand, Returning

\* So it does not matter either that a call makes ready to return nothing new.
LEMMA SameHandAtReturn ==
  ASSUME NEW s \in Threads, holds'[s] = holds[s], op'[s] = op[s], arg'[s] = arg[s],
         len'[s] = len[s], op[s] # "free", pc[s] # "unlock",
         (new[s] \notin Page /\ new'[s] \notin Page) \/ new'[s] = new[s],
         new'[s] # Null => op[s] # "realloc" \/ arg[s] \notin Page
  PROVE  InHand(s)' = InHand(s) /\ Returning(s)' = Returning(s)
<1>1. {h \in Kept(s)' : h.ptr \in Page} = {h \in holds[s] : h.ptr \in Page}
  BY DEF Kept
<1>2. InHand(s)' = InHand(s)
  BY <1>1 DEF InHand
<1> QED
  BY <1>2 DEF Returning

\* The blocks in hand once buddy_xmalloc has returned p.
LEMMA HandAfterAlloc ==
  ASSUME NEW t \in Threads, NEW p, new'[t] = p, pc'[t] = AfterAlloc(t, p),
         op'[t] = op[t], arg'[t] = arg[t], len'[t] = len[t], holds'[t] = holds[t]
  PROVE  InHand(t)' = {h \in holds[t] : h.ptr \in Page}
                      \cup IF p \in Page THEN {[ptr |-> p, size |-> len[t]]} ELSE {}
<1>1. CASE pc'[t] = "unlock"
  <2>1. {h \in Kept(t)' : h.ptr \in Page} = {h \in holds[t] : h.ptr \in Page}
    BY <1>1, PointerFacts DEF Kept, AfterAlloc
  <2> QED
    BY <1>1, <2>1 DEF InHand
<1>2. CASE pc'[t] # "unlock"
  BY <1>2 DEF InHand
<1> QED
  BY <1>1, <1>2

\* A new block on the tree is one record more.
LEMMA RecordedGrows ==
  ASSUME NEW block, heap' = heap \cup {block}
  PROVE  Recorded' = Recorded \cup {[ptr |-> block.off, size |-> block.used]}
BY DEF Recorded

\* A step keeps the tree in agreement with the claims.
LEMMA TreeStep ==
  ASSUME ZallocInv, Next, ~ LateThreads
  PROVE  TreeInv'
<1> USE PointerFacts DEF ZallocInv, TypeOK, globals, tree, lock, frame, Goto, Crash
<1>0. stage # "crashed"
  BY DEF Next
<1>1. CASE BuddyConstructor
  BY <1>1, TreeFrame, SameHand DEF BuddyConstructor
<1>2. CASE LockConstructor
  BY <1>2, TreeFrame, SameHand DEF LockConstructor
<1>3. CASE LockDestructor
  BY <1>3, TreeFrame, SameHand DEF LockDestructor
<1>4. CASE DestructorUnmaps
  BY <1>4, TreeFrame, SameHand DEF DestructorUnmaps
<1>5. ASSUME NEW t \in Threads, CallAlloc(t) PROVE TreeInv'
  <2>1. /\ pc[t] = "idle" /\ UNCHANGED <<stage, globals, heap, holds>>
        /\ UNCHANGED new /\ pc' = [pc EXCEPT ![t] = "lock"]
        /\ \A s \in Threads \ {t} : op'[s] = op[s] /\ arg'[s] = arg[s] /\ len'[s] = len[s]
        /\ op'[t] # "free" /\ op[t] # "free"
    BY <1>5 DEF CallAlloc, Call, MayCall, CallInv, Label
  <2>2. \A s \in Threads \ {t} : InHand(s)' = InHand(s) /\ Returning(s)' = Returning(s)
    BY <2>1, SameHand
  <2>3. InHand(t)' = InHand(t) /\ Returning(t)' = Returning(t)
    BY <2>1 DEF InHand, Returning, CallInv, Label
  <2> QED
    BY <2>1, <2>2, <2>3, TreeFrame
<1>6. ASSUME NEW t \in Threads, CallRealloc(t) PROVE TreeInv'
  <2>1. /\ pc[t] = "idle" /\ UNCHANGED <<stage, globals, heap, holds>>
        /\ UNCHANGED new /\ pc' = [pc EXCEPT ![t] = "lock"]
        /\ \A s \in Threads \ {t} : op'[s] = op[s] /\ arg'[s] = arg[s] /\ len'[s] = len[s]
        /\ op'[t] # "free" /\ op[t] # "free"
    BY <1>6 DEF CallRealloc, Call, MayCall, CallInv, Label
  <2>2. \A s \in Threads \ {t} : InHand(s)' = InHand(s) /\ Returning(s)' = Returning(s)
    BY <2>1, SameHand
  <2>3. InHand(t)' = InHand(t) /\ Returning(t)' = Returning(t)
    BY <2>1 DEF InHand, Returning, CallInv, Label
  <2> QED
    BY <2>1, <2>2, <2>3, TreeFrame
<1>7. ASSUME NEW t \in Threads, CallFree(t) PROVE TreeInv'
  <2>1. PICK g \in holds[t] :
          Call(t, "free", g.ptr, 0) /\ holds' = [holds EXCEPT ![t] = @ \ {g}]
    BY <1>7 DEF CallFree
  <2>2. /\ pc[t] = "idle" /\ pc' = [pc EXCEPT ![t] = "lock"] /\ new' = new /\ new[t] = Null
        /\ op' = [op EXCEPT ![t] = "free"] /\ arg' = [arg EXCEPT ![t] = g.ptr]
        /\ UNCHANGED <<stage, isInit, heap>> /\ op[t] = "none"
        /\ \A s \in Threads \ {t} : len'[s] = len[s]
    BY <2>1 DEF Call, MayCall, CallInv, Label
  <2>3. \A s \in Threads \ {t} : InHand(s)' = InHand(s) /\ Returning(s)' = Returning(s)
    BY <2>1, <2>2, SameHand
  <2>4. InHand(t)' = InHand(t) \ {g} /\ (g.ptr \in Page => g \in InHand(t))
    BY <2>1, <2>2 DEF InHand
  <2>5. Returning(t)' = {g.ptr} \cap Page /\ Returning(t) = {}
    BY <2>2 DEF Returning
  <2>6. Recorded' = Recorded /\ \A p : BlockAt(p)' = BlockAt(p)
    BY <2>2 DEF Recorded, BlockAt
  <2>7. g.ptr \in Page => BlockAt(g.ptr) # {}
    BY <2>4 DEF TreeInv, Recorded, BlockAt
  <2>8. ASSUME NEW r \in Recorded, isInit /\ stage \notin {"gone", "crashed"}
        PROVE  \E s \in Threads : r \in InHand(s)' \/ r.ptr \in Returning(s)'
    <3>1. PICK s \in Threads : r \in InHand(s) \/ r.ptr \in Returning(s)
      BY <2>8 DEF TreeInv
    <3>2. r.ptr \in Page
      BY DEF Recorded
    <3>3. CASE s = t /\ r = g
      BY <2>5, <3>2, <3>3
    <3> QED
      BY <2>3, <2>4, <2>5, <3>1, <3>3
  <2> QED
    BY <2>2, <2>3, <2>4, <2>5, <2>6, <2>7, <2>8 DEF TreeInv
<1>8. ASSUME NEW t \in Threads, Lock(t) PROVE TreeInv'
  BY <1>8, TreeFrame, SameHand DEF Lock
<1>9. ASSUME NEW t \in Threads, InitDone(t) PROVE TreeInv'
  BY <1>9, TreeFrame, SameHand DEF InitDone
<1>10. ASSUME NEW t \in Threads, InitPrint(t) PROVE TreeInv'
  BY <1>10, TreeFrame, SameHand DEF InitPrint
<1>11. ASSUME NEW t \in Threads, InitTree(t) PROVE TreeInv'
  <2>1. /\ ~ isInit /\ isInit' = isInit /\ heap' = {} /\ NoPages
        /\ pc[t] # "unlock" /\ pc' = [pc EXCEPT ![t] = "map"]
        /\ UNCHANGED <<op, arg, len, new, holds>>
    BY <1>11 DEF InitTree, SetUpInv
  <2>2. \A s \in Threads : InHand(s)' = {} /\ Returning(s)' = {}
    <3>1. \A s \in Threads : InHand(s)' = InHand(s) /\ Returning(s)' = Returning(s)
      BY <2>1, SameHand
    <3>2. \A s \in Threads : InHand(s) = {} /\ Returning(s) = {}
      BY <2>1 DEF NoPages, InHand, Returning, Kept
    <3> QED
      BY <3>1, <3>2
  <2> QED
    BY <2>1, <2>2 DEF TreeInv
<1>12. ASSUME NEW t \in Threads, InitMap(t) PROVE TreeInv'
  BY <1>12, TreeFrame, SameHand DEF InitMap
<1>13. ASSUME NEW t \in Threads, InitRegister(t) PROVE TreeInv'
  <2>1. heap = {} /\ heap' = heap /\ UNCHANGED <<op, arg, len, new, holds>> /\ NoPages
    BY <1>13 DEF InitRegister, SetUpInv
  <2>2. \A s \in Threads : pc'[s] = "unlock" <=> pc[s] = "unlock"
    BY <1>13 DEF InitRegister
  <2>3. \A s \in Threads : InHand(s)' = InHand(s) /\ Returning(s)' = Returning(s)
    BY <2>1, <2>2, SameHand
  <2>4. \A s \in Threads : InHand(s) = {} /\ Returning(s) = {}
    BY <2>1 DEF NoPages, InHand, Returning, Kept
  <2>5. Recorded' = {}
    BY <2>1 DEF Recorded
  <2> QED
    BY <2>1, <2>3, <2>4, <2>5 DEF TreeInv
<1>14. ASSUME NEW t \in Threads, AllocCheck(t) PROVE TreeInv'
  <2>1. /\ pc[t] = "alloc" /\ new[t] = Null /\ op[t] # "free"
        /\ UNCHANGED <<stage, globals, heap, holds, op, arg, len>>
        /\ \A s \in Threads \ {t} : pc'[s] = pc[s] /\ new'[s] = new[s]
    BY <1>14 DEF AllocCheck, Allocated, CallInv, Label
  <2>2. new'[t] = Null
    BY <1>14, <2>1 DEF AllocCheck, Allocated
  <2>3. \A s \in Threads : InHand(s)' = InHand(s) /\ Returning(s)' = Returning(s)
    BY <2>1, <2>2, SameHand, SameHandAtReturn
  <2> QED
    BY <2>1, <2>3, TreeFrame
<1>15. ASSUME NEW t \in Threads, AllocTake(t) PROVE TreeInv'
  <2>1. PICK off \in Page :
          /\ \A b \in heap : b.off # off
          /\ heap' = heap \cup {[off |-> off, pages |-> 1, used |-> len[t]]}
          /\ Allocated(t, Pointer(off))
    BY <1>15, TakeEffect
  <2>2. /\ pc[t] = "take" /\ pc'[t] = AfterAlloc(t, Pointer(off)) /\ new'[t] = Pointer(off)
        /\ UNCHANGED <<stage, isInit, memblock, op, arg, len, holds>>
        /\ op[t] # "free" /\ new[t] = Null
        /\ \A s \in Threads \ {t} : pc'[s] = pc[s] /\ new'[s] = new[s]
    BY <1>15, <2>1 DEF AllocTake, Allocated, CallInv, Label
  <2>3. \A s \in Threads \ {t} : InHand(s)' = InHand(s)
    BY <2>2, SameHand
  <2>4. \A s \in Threads : Returning(s)' = Returning(s)
    BY <2>2 DEF Returning
  <2> DEFINE fresh == [ptr |-> off, size |-> len[t]]
             given == IF Pointer(off) \in Page THEN {fresh} ELSE {}
  <2>5. Pointer(off) \in Page => Pointer(off) = off
    BY DEF Pointer
  <2>6. InHand(t)' = InHand(t) \cup given
    <3>1. InHand(t)' = {h \in holds[t] : h.ptr \in Page} \cup given
      BY <2>2, <2>5, HandAfterAlloc
    <3>2. InHand(t) = {h \in holds[t] : h.ptr \in Page}
      BY <2>2 DEF InHand
    <3> QED
      BY <3>1, <3>2
  <2>7. Recorded' = Recorded \cup {fresh}
    <3> DEFINE block == [off |-> off, pages |-> 1, used |-> len[t]]
    <3>1. block.off = off /\ block.used = len[t] /\ heap' = heap \cup {block}
      BY <2>1
    <3> HIDE DEF block
    <3> QED
      BY <3>1, RecordedGrows
  <2>8. \A b, c \in heap' : b.off = c.off => b = c
    BY <2>1 DEF TreeInv
  <2>9. \A s \in Threads : InHand(s)' \subseteq Recorded' /\ \A p \in Returning(s)' : BlockAt(p)' # {}
    BY <2>1, <2>3, <2>4, <2>6, <2>7 DEF TreeInv, BlockAt
  <2>10. ASSUME isInit, stage \notin {"gone", "crashed"}, NEW r \in Recorded'
         PROVE  \E s \in Threads : r \in InHand(s)' \/ r.ptr \in Returning(s)'
    <3>1. CASE r = fresh
      <4>0. stage # "closing"
        BY <2>2 DEF LockInv
      <4>1. Pointer(off) = off
        BY <1>0, <2>10, <4>0 DEF SetUpInv, Pointer, Placed
      <4> QED
        BY <2>6, <3>1, <4>1
    <3>2. CASE r \in Recorded
      <4>1. PICK s \in Threads : r \in InHand(s) \/ r.ptr \in Returning(s)
        BY <2>10, <3>2 DEF TreeInv
      <4> QED
        BY <2>3, <2>4, <2>6, <4>1
    <3> QED
      BY <2>7, <3>1, <3>2
  <2> QED
    BY <2>2, <2>8, <2>9, <2>10 DEF TreeInv
<1>16. ASSUME NEW t \in Threads, AllocHuge(t) PROVE TreeInv'
  <2>1. /\ pc[t] = "take" /\ new[t] = Null /\ op[t] # "free" /\ new'[t] \in {Under, Wild}
        /\ UNCHANGED <<stage, globals, heap, holds, op, arg, len>>
        /\ \A s \in Threads \ {t} : pc'[s] = pc[s] /\ new'[s] = new[s]
        /\ pc'[t] = AfterAlloc(t, new'[t])
    BY <1>16 DEF AllocHuge, Allocated, CallInv, Label
  <2>2. \A s \in Threads \ {t} : InHand(s)' = InHand(s) /\ Returning(s)' = Returning(s)
    BY <2>1, SameHand
  <2>3. InHand(t)' = InHand(t) /\ Returning(t)' = Returning(t)
    <3>1. CASE op[t] = "realloc" /\ arg[t] \in Page
      <4>1. pc'[t] = "init"
        BY <2>1, <3>1 DEF AfterAlloc
      <4> QED
        BY <2>1, <4>1 DEF InHand, Returning
    <3>2. CASE op[t] # "realloc" \/ arg[t] \notin Page
      BY <2>1, <3>2, SameHandAtReturn
    <3> QED
      BY <3>1, <3>2
  <2> QED
    BY <2>1, <2>2, <2>3, TreeFrame
<1>17. ASSUME NEW t \in Threads, AllocSpin(t) PROVE TreeInv'
  BY <1>17, TreeFrame, SameHand DEF AllocSpin
<1>18. ASSUME NEW t \in Threads, NoTree(t) PROVE TreeInv'
  BY <1>18, TreeFrame, SameHand DEF NoTree
<1>19. ASSUME NEW t \in Threads, SizeOld(t) PROVE TreeInv'
  BY <1>19, TreeFrame, SameHand DEF SizeOld
<1>20. ASSUME NEW t \in Threads, Copy(t) PROVE TreeInv'
  BY <1>20, TreeFrame, SameHand DEF Copy
<1>21. ASSUME NEW t \in Threads, Zero(t) PROVE TreeInv'
  <2>1. /\ pc[t] = "zero" /\ op[t] = "calloc" /\ UNCHANGED <<globals, heap, holds, op, arg, len, new>>
        /\ \A s \in Threads \ {t} : pc'[s] = pc[s]
        /\ stage' \in {stage, "crashed"}
    BY <1>21 DEF Zero, CallInv, Label
  <2>2. \A s \in Threads : InHand(s)' = InHand(s) /\ Returning(s)' = Returning(s)
    BY <2>1, SameHand, SameHandAtReturn
  <2> QED
    BY <2>1, <2>2, TreeFrame
<1>22. ASSUME NEW t \in Threads, FreeBlock(t) PROVE TreeInv'
  <2>1. /\ pc[t] = "release" /\ UNCHANGED <<globals, op, arg, len, new, holds>>
        /\ \A s \in Threads \ {t} : pc'[s] = pc[s]
    BY <1>22 DEF FreeBlock
  <2>2. CASE stage' = "crashed"
    <3>1. heap' = heap /\ pc' = pc
      BY <1>22, <2>2, <1>0 DEF FreeBlock
    <3> QED
      BY <2>1, <2>2, <3>1, SameHand, TreeFrame
  <2>3. CASE stage' # "crashed"
    <3>1. /\ stage' = stage /\ pc'[t] = "unlock"
          /\ \E b \in BlockAt(arg[t]) : heap' = heap \ {b}
      BY <1>22, <2>3 DEF FreeBlock, Heap!Free
    <3>2. \A s \in Threads : \A h \in holds[s] : s # t \/ op[t] = "free" => h.ptr # arg[t] \/ arg[t] \notin Page
      <4>1. CASE op[t] = "free"
        BY <2>1, <4>1 DEF ClaimInv, Returning
      <4>2. CASE op[t] = "realloc"
        <5>1. PICK g \in holds[t] : g.ptr = arg[t]
          BY <2>1, <4>2 DEF CallInv, Label
        <5> QED
          BY <4>2, <5>1 DEF ClaimInv, SoleHolder
      <4> QED
        BY <2>1, <4>1, <4>2 DEF CallInv, Label
    <3>3. \A s \in Threads : new[s] \in Page => new[s] # arg[t]
      <4>1. CASE op[t] = "free"
        BY <2>1, <4>1 DEF ClaimInv, Returning
      <4>2. CASE op[t] = "realloc"
        <5>1. PICK g \in holds[t] : g.ptr = arg[t]
          BY <2>1, <4>2 DEF CallInv, Label
        <5> QED
          BY <5>1 DEF ClaimInv
      <4> QED
        BY <2>1, <4>1, <4>2 DEF CallInv, Label
    <3>4. \A s \in Threads : \A h \in InHand(s)' : h \in InHand(s) /\ h.ptr # arg[t]
      BY <2>1, <3>1, <3>2, <3>3 DEF InHand, Kept, CallInv, Label
    <3>5. \A s \in Threads : \A h \in InHand(s) : h.ptr # arg[t] => h \in InHand(s)'
      BY <2>1, <3>1 DEF InHand, Kept
    <3>6. \A s \in Threads : \A p \in Returning(s)' : p \in Returning(s) /\ p # arg[t]
      BY <2>1, <3>1 DEF ClaimInv, Returning, CallInv, Label
    <3>7. \A s \in Threads : \A p \in Returning(s) : p # arg[t] => p \in Returning(s)'
      BY <2>1 DEF Returning
    <3>8. \A b \in heap : b.off # arg[t] => b \in heap'
      BY <3>1 DEF BlockAt
    <3>9. ASSUME NEW s \in Threads, NEW h \in InHand(s)'
          PROVE  h \in Recorded'
      <4>1. h \in Recorded /\ h.ptr # arg[t]
        BY <3>4 DEF TreeInv
      <4> QED
        BY <3>8, <4>1 DEF Recorded
    <3>10. ASSUME NEW s \in Threads, NEW p \in Returning(s)'
           PROVE  BlockAt(p)' # {}
      BY <3>6, <3>8 DEF TreeInv, BlockAt
    <3>11. ASSUME isInit, stage \notin {"gone", "crashed"}, NEW r \in Recorded'
           PROVE  \E s \in Threads : r \in InHand(s)' \/ r.ptr \in Returning(s)'
      <4>1. PICK b \in BlockAt(arg[t]) : heap' = heap \ {b}
        BY <3>1
      <4>2. r \in Recorded /\ r.ptr # arg[t]
        BY <4>1 DEF Recorded, BlockAt, TreeInv
      <4>3. PICK s \in Threads : r \in InHand(s) \/ r.ptr \in Returning(s)
        BY <3>11, <4>2 DEF TreeInv
      <4> QED
        BY <3>5, <3>7, <4>2, <4>3
    <3>12. \A b, c \in heap' : b.off = c.off => b = c
      BY <3>1 DEF TreeInv
    <3> QED
      BY <2>1, <3>1, <3>9, <3>10, <3>11, <3>12 DEF TreeInv
  <2> QED
    BY <2>2, <2>3
<1>23. ASSUME NEW t \in Threads, Unlock(t) PROVE TreeInv'
  <2>1. /\ new' = [new EXCEPT ![t] = Null] /\ UNCHANGED <<stage, isInit, heap>>
        /\ \A s \in Threads \ {t} : /\ holds'[s] = holds[s] /\ pc'[s] = pc[s] /\ op'[s] = op[s]
                                    /\ arg'[s] = arg[s] /\ len'[s] = len[s]
        /\ pc[t] = "unlock" /\ pc'[t] = "idle" /\ op'[t] = "none"
        /\ holds'[t] = IF new[t] = Null THEN holds[t] ELSE Kept(t) \cup {[ptr |-> new[t], size |-> len[t]]}
    BY <1>23 DEF Unlock
  <2>2. \A s \in Threads \ {t} : InHand(s)' = InHand(s) /\ Returning(s)' = Returning(s)
    BY <2>1, SameHand
  <2>3. Returning(t)' = Returning(t)
    BY <2>1 DEF Returning
  <2>4. InHand(t)' = {h \in holds'[t] : h.ptr \in Page}
    BY <2>1 DEF InHand
  <2>5. InHand(t)' = InHand(t)
    <3>1. new[t] = Null => Kept(t) = holds[t]
      BY DEF Kept
    <3> QED
      BY <2>1, <2>4, <3>1 DEF InHand
  <2> QED
    BY <2>1, <2>2, <2>3, <2>5, TreeFrame
<1>24. CASE DestructorForgets
  BY <1>24, TreeFrame, SameHand DEF DestructorForgets
<1>25. \A t \in Threads : ~ AllocTorn(t) /\ ~ SizeTorn(t) /\ ~ FreeTorn(t)
  BY Whole DEF ZallocInv
<1>26. ASSUME NEW t \in Threads, SizeCheck(t) PROVE TreeInv'
  BY <1>26, TreeFrame, SameHand DEF SizeCheck
<1>28. ASSUME NEW t \in Threads, CopyFaults(t) PROVE TreeInv'
  BY <1>28, TreeFrame, SameHand DEF CopyFaults
<1>29. ASSUME NEW t \in Threads, ZeroFaults(t) PROVE TreeInv'
  BY <1>29, TreeFrame, SameHand DEF ZeroFaults
<1>30. ASSUME NEW t \in Threads, FreeCheck(t) PROVE TreeInv'
  <2>1. /\ pc[t] = "free" /\ UNCHANGED <<stage, globals, heap, op, arg, len, new, holds>>
        /\ \A s \in Threads \ {t} : pc'[s] = pc[s]
        /\ pc'[t] = IF buddy THEN "release" ELSE "unlock"
    BY <1>30 DEF FreeCheck
  <2>2. CASE buddy
    BY <2>1, <2>2, SameHand, TreeFrame
  <2>3. CASE ~ buddy
    <3>1. ~ isInit \/ stage = "gone"
      BY <1>0, <2>1, <2>3 DEF LockInv, SetUpInv
    <3>2. \A s \in Threads : InHand(s)' \subseteq InHand(s) /\ Returning(s)' \subseteq Returning(s)
      BY <2>1 DEF InHand, Returning, Kept
    <3>3. Recorded' = Recorded /\ \A p : BlockAt(p)' = BlockAt(p)
      BY <2>1 DEF Recorded, BlockAt
    <3>4. UNCHANGED <<heap, isInit, stage>>
      BY <2>1
    <3> QED
      BY <3>1, <3>2, <3>3, <3>4 DEF TreeInv
  <2> QED
    BY <2>2, <2>3
<1>32. ASSUME NEW t \in Threads, WriteUnder(t) PROVE TreeInv'
  BY <1>32, TreeFrame, SameHand DEF WriteUnder
<1> QED
  BY <1>1, <1>2, <1>3, <1>4, <1>5, <1>6, <1>7, <1>8, <1>9, <1>10, <1>11, <1>12,
     <1>13, <1>14, <1>15, <1>16, <1>17, <1>18, <1>19, <1>20, <1>21, <1>22, <1>23,
     <1>24, <1>25, <1>26, <1>28, <1>29, <1>30, <1>32
     DEF Next, Lifetime, Request, Run, InitStep, AllocStep, SizeStep, WriteStep, FreeStep

-----------------------------------------------------------------------------
(* What blocks contain *)

\* A step of t that writes nothing, and after which no copy of t is due that was not
\* due before, leaves the contents in order.
LEMMA ContentFrame ==
  ASSUME ContentInv, NEW t \in Threads, mem' = mem,
         \A s \in Threads : holds'[s] \subseteq holds[s],
         \A s \in Threads \ {t} :
           /\ pc'[s] = pc[s] /\ then'[s] = then[s] /\ op'[s] = op[s] /\ arg'[s] = arg[s]
           /\ len'[s] = len[s] /\ new'[s] = new[s] /\ old'[s] = old[s] /\ holds'[s] = holds[s],
         op'[t] = "realloc" /\ new'[t] \in Page /\ arg'[t] \in Page =>
           /\ op[t] = "realloc" /\ arg'[t] = arg[t] /\ holds'[t] = holds[t]
           /\ pc'[t] = "copy" => \E h \in holds[t] : h.ptr = arg[t] /\ h.size = old'[t]
           /\ Label(t)' \in {"free", "release", "unlock"} =>
                Label(t) \in {"free", "release", "unlock"} /\ new'[t] = new[t] /\ len'[t] = len[t],
         (arg' = arg /\ holds' = holds) \/ (NoneUnder' => NoneUnder)
  PROVE  ContentInv'
<1>0. NoneUnder' => NoneUnder
  BY DEF NoneUnder
<1>1. \A s \in Threads : Written(s)'
  BY DEF ContentInv, Written
<1>2. ASSUME NEW s \in Threads \ {t}, op'[s] = "realloc", new'[s] \in Page, arg'[s] \in Page
      PROVE  /\ pc'[s] = "copy" => \E h \in holds'[s] : h.ptr = arg'[s] /\ h.size = old'[s]
             /\ Label(s)' \in {"free", "release", "unlock"} => CopyReady(s)'
  <2>1. Label(s)' = Label(s)
    BY DEF Label
  <2>2. CopyReady(s) => CopyReady(s)'
    <3>1. /\ mem' = mem /\ new'[s] = new[s] /\ arg'[s] = arg[s] /\ len'[s] = len[s]
          /\ holds'[s] = holds[s]
      OBVIOUS
    <3> QED
      BY <1>0, <3>1 DEF CopyReady
  <2>3. op[s] = "realloc" /\ new[s] \in Page /\ arg[s] \in Page
    BY <1>2
  <2> QED
    BY <2>1, <2>2, <2>3 DEF ContentInv
<1>3. ASSUME op'[t] = "realloc", new'[t] \in Page, arg'[t] \in Page
      PROVE  /\ pc'[t] = "copy" => \E h \in holds'[t] : h.ptr = arg'[t] /\ h.size = old'[t]
             /\ Label(t)' \in {"free", "release", "unlock"} => CopyReady(t)'
  <2>1. /\ op[t] = "realloc" /\ arg'[t] = arg[t] /\ holds'[t] = holds[t]
        /\ pc'[t] = "copy" => \E h \in holds[t] : h.ptr = arg[t] /\ h.size = old'[t]
    BY <1>3
  <2>2. ASSUME Label(t)' \in {"free", "release", "unlock"}
        PROVE  CopyReady(t)'
    <3>1. Label(t) \in {"free", "release", "unlock"} /\ new'[t] = new[t] /\ len'[t] = len[t]
      BY <1>3, <2>2
    <3>2. CopyReady(t)
      BY <1>3, <2>1, <3>1 DEF ContentInv
    <3> QED
      BY <1>0, <2>1, <3>1, <3>2 DEF CopyReady
  <2> QED
    BY <2>1, <2>2
<1> QED
  BY <1>1, <1>2, <1>3 DEF ContentInv

\* Nor does one that leaves calls alone.
LEMMA ContentQuiet ==
  ASSUME ContentInv, UNCHANGED <<mem, pc, frame, new, old, then, holds>>
  PROVE  ContentInv'
<1>1. /\ mem' = mem /\ pc' = pc /\ op' = op /\ arg' = arg /\ len' = len
      /\ new' = new /\ old' = old /\ then' = then /\ holds' = holds
  BY DEF frame
<1>2. \A s \in Threads : Written(s)' = Written(s)
  BY <1>1 DEF Written
<1>3. \A s \in Threads : CopyReady(s)' = CopyReady(s)
  BY <1>1 DEF CopyReady, NoneUnder
<1>4. \A s \in Threads : Label(s)' = Label(s)
  BY <1>1 DEF Label
<1> QED
  BY <1>1, <1>2, <1>3, <1>4 DEF ContentInv

\* What is written outside the blocks that somebody holds, or spoils them, leaves them
\* in order.
LEMMA WrittenStays ==
  ASSUME ZallocInv, holds' = holds, NEW t \in Threads,
         \A p \in Page \ {new[t]} : mem'[p] \in {mem[p], Foreign}
  PROVE  \A s \in Threads : Written(s)'
<1>1. ASSUME NEW s \in Threads, NEW h \in holds[s], h.ptr \in Page
      PROVE  mem'[h.ptr] \in {[by |-> s, bytes |-> h.size], Foreign}
  <2>1. h.ptr # new[t]
    BY <1>1 DEF ZallocInv, ClaimInv
  <2>2. mem[h.ptr] \in {[by |-> s, bytes |-> h.size], Foreign}
    BY <1>1 DEF ZallocInv, ContentInv, Written
  <2> QED
    BY <1>1, <2>1, <2>2
<1> QED
  BY <1>1 DEF Written

\* And while t is inside, no other thread has a copy under way.
LEMMA NoOtherCopy ==
  ASSUME ZallocInv, NEW t \in Threads, Inside(t), new' = new
  PROVE  \A s \in Threads \ {t} : new'[s] \notin Page
<1>1. \A s \in Threads \ {t} : new'[s] = Null
  BY DEF ZallocInv, LockInv, OneAtATime, Inside, CallInv, Label
<1> QED
  BY <1>1, PointerFacts

\* A step overwrites nothing that somebody holds.
LEMMA ContentStep ==
  ASSUME ZallocInv, Next, ~ LateThreads
  PROVE  ContentInv'
<1> USE PointerFacts DEF ZallocInv, TypeOK, globals, tree, lock, frame, Goto, Crash
<1>0. stage # "crashed"
  BY DEF Next
<1>01. OneAtATime
  BY DEF LockInv
<1>1. CASE BuddyConstructor
  <2>1. /\ UNCHANGED <<mem, op, arg, len, new, old, holds>>
        /\ pc' = [pc EXCEPT ![Main] = "init"] /\ op[Main] = "none"
        /\ then' = [then EXCEPT ![Main] = "idle"]
    BY <1>1, ZallocAssumption DEF BuddyConstructor, CallInv, Label
  <2> QED
    BY <2>1, ContentFrame, ZallocAssumption
<1>2. CASE LockConstructor
  BY <1>2, ContentQuiet DEF LockConstructor
<1>3. CASE LockDestructor
  BY <1>3, ContentQuiet DEF LockDestructor
<1>4. CASE DestructorUnmaps
  BY <1>4, ContentQuiet DEF DestructorUnmaps
<1>5. ASSUME NEW t \in Threads, CallAlloc(t) PROVE ContentInv'
  <2>1. /\ pc[t] = "idle" /\ pc' = [pc EXCEPT ![t] = "lock"] /\ arg' = arg
        /\ UNCHANGED <<mem, new, old, then, holds>> /\ new[t] = Null
        /\ \A s \in Threads \ {t} : op'[s] = op[s] /\ len'[s] = len[s]
    BY <1>5 DEF CallAlloc, Call, MayCall, Label, CallInv
  <2> QED
    BY <2>1, ContentFrame
<1>6. ASSUME NEW t \in Threads, CallRealloc(t) PROVE ContentInv'
  <2>1. PICK p \in {Null} \cup {h.ptr : h \in holds[t]} :
          /\ pc[t] = "idle" /\ pc' = [pc EXCEPT ![t] = "lock"] /\ new[t] = Null /\ arg[t] = Null
          /\ arg' = [arg EXCEPT ![t] = p] /\ UNCHANGED <<mem, new, old, then, holds>>
          /\ \A s \in Threads \ {t} : op'[s] = op[s] /\ len'[s] = len[s]
    <3>1. PICK z \in Sizes \cup Oversize, p \in {Null} \cup {h.ptr : h \in holds[t]} :
            Call(t, "realloc", p, z) /\ UNCHANGED holds
      BY <1>6 DEF CallRealloc
    <3> QED
      BY <3>1 DEF Call, MayCall, Label, CallInv
  <2>2. NoneUnder' => NoneUnder
    BY <2>1 DEF NoneUnder
  <2> QED
    BY <2>1, <2>2, ContentFrame
<1>7. ASSUME NEW t \in Threads, CallFree(t) PROVE ContentInv'
  <2>1. PICK g \in holds[t] :
          /\ pc[t] = "idle" /\ pc' = [pc EXCEPT ![t] = "lock"] /\ new[t] = Null /\ arg[t] = Null
          /\ arg' = [arg EXCEPT ![t] = g.ptr] /\ UNCHANGED <<mem, new, old, then>>
          /\ \A s \in Threads \ {t} : op'[s] = op[s] /\ len'[s] = len[s]
          /\ holds' = [holds EXCEPT ![t] = @ \ {g}]
    BY <1>7 DEF CallFree, Call, MayCall, Label, CallInv
  <2>2. NoneUnder' => NoneUnder
    <3>1. \A s \in Threads : \A h \in holds[s] : h \in holds'[s] \/ h.ptr = arg'[t]
      BY <2>1
    <3>2. \A s \in Threads : arg[s] = arg'[s] \/ arg[s] = Null
      BY <2>1
    <3> QED
      BY <3>1, <3>2 DEF NoneUnder
  <2> QED
    BY <2>1, <2>2, ContentFrame
<1>8. ASSUME NEW t \in Threads, Lock(t) PROVE ContentInv'
  BY <1>8, ContentFrame, <1>01 DEF Lock, Label, CallInv
<1>9. ASSUME NEW t \in Threads, InitDone(t) PROVE ContentInv'
  BY <1>9, ContentFrame, <1>01 DEF InitDone, Label
<1>10. ASSUME NEW t \in Threads, InitPrint(t) PROVE ContentInv'
  BY <1>10, ContentFrame, <1>01 DEF InitPrint, Label
<1>11. ASSUME NEW t \in Threads, InitTree(t) PROVE ContentInv'
  BY <1>11, ContentFrame, <1>01 DEF InitTree, Label
<1>12. ASSUME NEW t \in Threads, InitMap(t) PROVE ContentInv'
  BY <1>12, ContentFrame, <1>01 DEF InitMap, Label
<1>13. ASSUME NEW t \in Threads, InitRegister(t) PROVE ContentInv'
  BY <1>13, ContentFrame, <1>01 DEF InitRegister, Label
<1>14. ASSUME NEW t \in Threads, AllocCheck(t) PROVE ContentInv'
  BY <1>14, ContentFrame, <1>01 DEF AllocCheck, Allocated, AfterAlloc, Label, CallInv
<1>15. ASSUME NEW t \in Threads, AllocTake(t) PROVE ContentInv'
  <2>1. PICK off \in Page : Allocated(t, Pointer(off))
    BY <1>15, TakeEffect
  <2>2. op[t] = "realloc" /\ new'[t] \in Page /\ arg[t] \in Page => Label(t)' = "size"
    BY <1>15, <2>1 DEF AllocTake, Allocated, AfterAlloc, Label
  <2>3. pc'[t] \in {"zero", "init", "unlock"}
    BY <1>15, <2>1 DEF AllocTake, Allocated, AfterAlloc
  <2>5. /\ UNCHANGED <<mem, op, arg, len, old, holds>>
        /\ \A s \in Threads \ {t} : pc'[s] = pc[s] /\ then'[s] = then[s] /\ new'[s] = new[s]
    BY <1>15, <2>1 DEF AllocTake, Allocated
  <2> QED
    BY <2>2, <2>3, <2>5, ContentFrame
<1>16. ASSUME NEW t \in Threads, AllocHuge(t) PROVE ContentInv'
  BY <1>16, ContentFrame, <1>01 DEF AllocHuge, Allocated, AfterAlloc, Label, CallInv
<1>17. ASSUME NEW t \in Threads, AllocSpin(t) PROVE ContentInv'
  BY <1>17, ContentFrame, <1>01 DEF AllocSpin, Label
<1>18. ASSUME NEW t \in Threads, NoTree(t) PROVE ContentInv'
  BY <1>18, ContentQuiet DEF NoTree
<1>19. ASSUME NEW t \in Threads, SizeOld(t) PROVE ContentInv'
  <2>1. /\ UNCHANGED <<mem, op, arg, len, new, holds>> /\ pc[t] = "measure"
        /\ \A s \in Threads \ {t} : pc'[s] = pc[s] /\ then'[s] = then[s] /\ old'[s] = old[s]
        /\ pc'[t] \in {"measure", "copy"}
    BY <1>19 DEF SizeOld
  <2>2. ASSUME op[t] = "realloc", new[t] \in Page, arg[t] \in Page, pc'[t] = "copy"
        PROVE  \E h \in holds[t] : h.ptr = arg[t] /\ h.size = old'[t]
    <3>1. PICK h \in holds[t] : h.ptr = arg[t]
      BY <2>1, <2>2 DEF CallInv, Label
    <3>2. h \in Recorded
      BY <2>1, <2>2, <3>1 DEF TreeInv, InHand
    <3>4. PICK b \in BlockAt(arg[t]) : old'[t] = b.used
      BY <1>19, <2>1, <2>2 DEF SizeOld
    <3>5. b.used = h.size
      BY <3>1, <3>2, <3>4 DEF Recorded, BlockAt, TreeInv
    <3> QED
      BY <3>1, <3>4, <3>5
  <2>3. Label(t)' \notin {"free", "release", "unlock"}
    BY <2>1 DEF Label
  <2> QED
    BY <2>1, <2>2, <2>3, ContentFrame
<1>20. ASSUME NEW t \in Threads, Copy(t) PROVE ContentInv'
  <2>1. /\ UNCHANGED <<op, arg, len, new, old, holds>> /\ pc[t] = "copy" /\ pc'[t] = "init"
        /\ \A s \in Threads \ {t} : pc'[s] = pc[s]
    BY <1>20 DEF Copy
  <2>2. \A p \in Page \ {new[t]} : mem'[p] \in {mem[p], Foreign}
    BY <1>20 DEF Copy, Overrun
  <2>3. /\ \A s \in Threads : Written(s)'
        /\ \A s \in Threads \ {t} : new'[s] \notin Page
    BY <2>1, <2>2, WrittenStays, NoOtherCopy DEF Inside
  <2>4. ASSUME new[t] \in Page, arg[t] \in Page PROVE CopyReady(t)'
    <3>1. PICK h \in holds[t] : h.ptr = arg[t] /\ h.size = old[t]
      BY <2>1, <2>4 DEF ContentInv, CallInv, Label
    <3>2. h.size \in Sizes /\ len[t] \in Sizes /\ new[t] # arg[t]
      <4>1. h \in Recorded /\ [ptr |-> new[t], size |-> len[t]] \in Recorded
        BY <2>1, <2>4, <3>1 DEF TreeInv, InHand
      <4>2. \A r \in Recorded : r.size \in Sizes
        BY DEF Recorded
      <4> QED
        BY <2>4, <3>1, <4>1, <4>2 DEF ClaimInv
    <3>3. CopyLength(t) = Minimum(len[t], h.size) /\ CopyLength(t) > 0
      <4>1. h.size \in Nat \ {0} /\ len[t] \in Nat \ {0} /\ old[t] = h.size
        BY <3>1, <3>2, ZallocAssumption
      <4>2. CopyLength(t) = Minimum(len[t], h.size)
        BY <4>1 DEF CopyLength
      <4>3. Minimum(len[t], h.size) > 0
        BY <4>1, MinimumFact
      <4> QED
        BY <4>2, <4>3
    <3>4. mem' = [mem EXCEPT ![new[t]] = Beginning(mem[arg[t]], CopyLength(t))]
      BY <1>20, <2>4, <3>3 DEF Copy
    <3>5. mem[arg[t]] \in {[by |-> t, bytes |-> h.size], Foreign}
      BY <2>4, <3>1 DEF ContentInv, Written
    <3>6. Beginning(mem[arg[t]], CopyLength(t)) = Beginning(mem[arg[t]], len[t])
      <4>1. h.size \in Nat /\ len[t] \in Nat
        BY <3>2, ZallocAssumption
      <4>2. mem[arg[t]].bytes \in {h.size, 0}
        BY <3>5 DEF Foreign
      <4>3. Minimum(mem[arg[t]].bytes, CopyLength(t)) = Minimum(mem[arg[t]].bytes, len[t])
        BY <3>3, <4>1, <4>2 DEF Minimum
      <4> QED
        BY <4>3 DEF Beginning
    <3>7. mem'[new[t]] = Beginning(mem[arg[t]], len[t]) /\ mem'[arg[t]] = mem[arg[t]]
      BY <2>4, <3>2, <3>4, <3>6
    <3> QED
      BY <2>1, <3>7 DEF CopyReady, Beginning
  <2> QED
    BY <2>1, <2>3, <2>4 DEF ContentInv
<1>21. ASSUME NEW t \in Threads, Zero(t) PROVE ContentInv'
  <2>1. /\ UNCHANGED <<op, arg, len, new, old, holds>> /\ pc[t] = "zero" /\ op[t] = "calloc"
        /\ \A s \in Threads \ {t} : pc'[s] = pc[s]
    BY <1>21 DEF Zero, CallInv, Label
  <2>2. \A p \in Page \ {new[t]} : mem'[p] \in {mem[p], Foreign}
    BY <1>21 DEF Zero, Overrun
  <2>3. /\ \A s \in Threads : Written(s)'
        /\ \A s \in Threads \ {t} : new'[s] \notin Page
    BY <2>1, <2>2, WrittenStays, NoOtherCopy DEF Inside
  <2> QED
    BY <2>1, <2>3 DEF ContentInv
<1>22. ASSUME NEW t \in Threads, FreeBlock(t) PROVE ContentInv'
  BY <1>22, ContentFrame, <1>01 DEF FreeBlock, Label
<1>23. ASSUME NEW t \in Threads, Unlock(t) PROVE ContentInv'
  <2>1. /\ pc[t] = "unlock" /\ new' = [new EXCEPT ![t] = Null]
        /\ \A s \in Threads \ {t} : holds'[s] = holds[s]
        /\ holds'[t] = IF new[t] = Null THEN holds[t] ELSE Kept(t) \cup {[ptr |-> new[t], size |-> len[t]]}
        /\ mem' = IF new[t] \in Page /\ memblock = "mapped"
                    THEN [mem EXCEPT ![new[t]] = [by |-> t, bytes |-> len[t]]] ELSE mem
    BY <1>23 DEF Unlock
  <2>2. \A s \in Threads : new'[s] = Null
    BY <1>01, <2>1 DEF OneAtATime, Inside, CallInv, Label
  <2>3. new[t] \in Page => memblock = "mapped"
    BY DEF SetUpInv
  <2>4. ASSUME NEW s \in Threads, NEW h \in holds'[s], h.ptr \in Page
        PROVE  mem'[h.ptr] \in {[by |-> s, bytes |-> h.size], Foreign}
    <3>1. CASE h \in holds[s]
      <4>1. new[t] \in Page => h.ptr # new[t]
        BY <3>1 DEF ClaimInv
      <4>2. mem[h.ptr] \in {[by |-> s, bytes |-> h.size], Foreign}
        BY <2>4, <3>1 DEF ContentInv, Written
      <4> QED
        BY <2>1, <2>4, <4>1, <4>2
    <3>2. CASE h \notin holds[s]
      <4>1. s = t /\ h.ptr = new[t] /\ h.size = len[t] /\ new[t] \in Page
        BY <2>1, <2>4, <3>2 DEF Kept
      <4> QED
        BY <2>1, <2>3, <4>1
    <3> QED
      BY <3>1, <3>2
  <2> QED
    BY <2>2, <2>4 DEF ContentInv, Written
<1>24. CASE DestructorForgets
  BY <1>24, ContentQuiet DEF DestructorForgets
<1>25. \A t \in Threads : ~ AllocTorn(t) /\ ~ SizeTorn(t) /\ ~ FreeTorn(t)
  BY Whole DEF ZallocInv
<1>26. ASSUME NEW t \in Threads, SizeCheck(t) PROVE ContentInv'
  <2>1. /\ UNCHANGED <<mem, op, arg, len, new, then, holds>> /\ pc[t] = "size"
        /\ \A s \in Threads \ {t} : pc'[s] = pc[s] /\ old'[s] = old[s]
        /\ pc'[t] = IF buddy THEN "measure" ELSE "copy"
    BY <1>26 DEF SizeCheck
  <2>2. new[t] \in Page => buddy
    BY DEF SetUpInv
  <2> QED
    BY <2>1, <2>2, ContentFrame DEF Label
<1>28. ASSUME NEW t \in Threads, CopyFaults(t) PROVE ContentInv'
  BY <1>28, ContentQuiet DEF CopyFaults
<1>29. ASSUME NEW t \in Threads, ZeroFaults(t) PROVE ContentInv'
  BY <1>29, ContentQuiet DEF ZeroFaults
<1>30. ASSUME NEW t \in Threads, FreeCheck(t) PROVE ContentInv'
  BY <1>30, ContentFrame, <1>01 DEF FreeCheck, Label
<1>32. ASSUME NEW t \in Threads, WriteUnder(t) PROVE ContentInv'
  <2>1. UNCHANGED <<pc, op, arg, len, new, old, then, holds>>
    BY <1>32 DEF WriteUnder
  <2>2. \A p \in Page \ {new[t]} : mem'[p] \in {mem[p], Foreign}
    BY <1>32 DEF WriteUnder, Overrun
  <2>3. \A s \in Threads : Written(s)'
    BY <2>1, <2>2, WrittenStays
  <2>4. \A s \in Threads : CopyReady(s)'
    BY <1>32, <2>1 DEF WriteUnder, CopyReady, NoneUnder
  <2> QED
    BY <2>1, <2>3, <2>4 DEF ContentInv
<1> QED
  BY <1>1, <1>2, <1>3, <1>4, <1>5, <1>6, <1>7, <1>8, <1>9, <1>10, <1>11, <1>12,
     <1>13, <1>14, <1>15, <1>16, <1>17, <1>18, <1>19, <1>20, <1>21, <1>22, <1>23,
     <1>24, <1>25, <1>26, <1>28, <1>29, <1>30, <1>32
     DEF Next, Lifetime, Request, Run, InitStep, AllocStep, SizeStep, WriteStep, FreeStep

-----------------------------------------------------------------------------
(* The theorems *)

\* The invariant holds in the initial state,
LEMMA ZallocInit == ASSUME Init PROVE ZallocInv
<1> USE ZallocAssumption, PointerFacts DEF Init
<1>1. TypeOK
  <2>1. [by |-> Nobody, bytes |-> 0] \in [by : Threads \cup {Nobody}, bytes : Lengths]
    OBVIOUS
  <2>2. mem \in [Page -> [by : Threads \cup {Nobody}, bytes : Lengths]]
    BY <2>1 DEF Foreign
  <2>3. heap \subseteq [off : Page, pages : {1}, used : Sizes] /\ handlers \in 0 .. 1
    OBVIOUS
  <2> QED
    BY <2>2, <2>3 DEF TypeOK
<1>2. LockInv
  BY DEF LockInv, OneAtATime, Inside
<1>3. CallInv
  BY DEF CallInv, Label
<1>4. SetUpInv
  BY DEF SetUpInv, NoPages, InTree
<1>5. \A t \in Threads : InHand(t) = {} /\ Returning(t) = {}
  BY DEF InHand, Returning
<1>6. ClaimInv
  BY <1>5 DEF ClaimInv, SoleHolder
<1>7. TreeInv
  BY <1>5 DEF TreeInv, Recorded
<1>8. ContentInv
  BY DEF ContentInv, Written, Foreign
<1> QED
  BY <1>1, <1>2, <1>3, <1>4, <1>6, <1>7, <1>8 DEF ZallocInv

\* and a step that changes nothing keeps it.
LEMMA ZallocStutter == ASSUME ZallocInv, UNCHANGED vars PROVE ZallocInv'
<1> USE DEF vars, globals, tree, lock, frame, ZallocInv
<1>1. TypeOK' /\ LockInv'
  BY DEF TypeOK, LockInv, OneAtATime, Inside
<1>2. CallInv' /\ SetUpInv'
  BY DEF CallInv, Label, SetUpInv, NoPages, InTree
<1>3. \A t \in Threads : InHand(t)' = InHand(t) /\ Returning(t)' = Returning(t)
  BY SameHand
<1>4. ClaimInv'
  BY <1>3, ClaimFrame
<1>5. TreeInv'
  BY <1>3, TreeFrame
<1>6. ContentInv'
  BY ContentQuiet
<1> QED
  BY <1>1, <1>2, <1>4, <1>5, <1>6

\* The inductive invariant holds in every process that has ended its other threads
\* when its destructors run.
THEOREM Invariance == ASSUME ~ LateThreads PROVE Spec => []ZallocInv
<1>1. ZallocInv /\ [Next]_vars => ZallocInv'
  <2>1. CASE Next
    <3>1. ZallocInv => \A t \in Threads : pc[t] = "register" => handlers = 0
      BY DEF ZallocInv, SetUpInv
    <3> QED
      BY <2>1, <3>1, TypeStep, LockStep, CallStep, SetUpStep, ClaimStep, TreeStep, ContentStep
         DEF ZallocInv
  <2>2. CASE UNCHANGED vars
    BY <2>2, ZallocStutter
  <2> QED
    BY <2>1, <2>2
<1> QED
  BY <1>1, ZallocInit, PTL DEF Spec

\* However many threads call: one at a time works on the tree and the globals.
THEOREM MutualExclusion == ASSUME ~ LateThreads PROVE Spec => []OneAtATime
<1>1. ZallocInv => OneAtATime
  BY DEF ZallocInv, LockInv
<1> QED
  BY <1>1, Invariance, PTL

\* No page has two holders.
THEOREM SoleHolding == ASSUME ~ LateThreads PROVE Spec => []SoleHolder
<1>1. ZallocInv => SoleHolder
  BY DEF ZallocInv, ClaimInv
<1> QED
  BY <1>1, Invariance, PTL

\* The tree has exactly the blocks that are held, handed out or taken back: nothing
\* leaks and nothing is freed under its holder, through every realloc and every
\* set-up that failed half way.
THEOREM Accounting == ASSUME ~ LateThreads PROVE Spec => []Accounted
<1>1. ASSUME ZallocInv PROVE Accounted
  <2> SUFFICES ASSUME isInit /\ stage \notin {"gone", "crashed"}
               PROVE  /\ UNION {InHand(t) : t \in Threads} \subseteq Recorded
                      /\ \A r \in Recorded \ UNION {InHand(t) : t \in Threads} :
                           r.ptr \in UNION {Returning(t) : t \in Threads}
    BY DEF Accounted, Recorded
  <2> QED
    BY <1>1 DEF ZallocInv, TreeInv
<1> QED
  BY <1>1, Invariance, PTL

\* A step writes into no block that somebody holds, or its first bytes are spoilt from
\* in front of the arena.
LEMMA BytesStayStep ==
  ASSUME ZallocInv, Next
  PROVE  BytesStay
<1> USE PointerFacts DEF globals, tree, lock, frame
<1>0. TypeOK
  BY DEF ZallocInv
<1>1. ASSUME NEW t \in Threads, \A p \in Page \ {new[t]} : mem'[p] # mem[p] => Overrunning(t, p)
      PROVE  BytesStay
  <2>1. \A s \in Threads : \A h \in holds[s] : h.ptr \in Page => h.ptr # new[t]
    BY DEF ZallocInv, ClaimInv
  <2> QED
    BY <1>1, <2>1 DEF BytesStay
<1>2. ASSUME NEW t \in Threads, Copy(t) PROVE BytesStay
  <2>1. \A p \in Page \ {new[t]} : mem'[p] # mem[p] => new[t] = Under /\ p = 0
    BY <1>0, <1>2 DEF Copy, Overrun, TypeOK
  <2> QED
    BY <1>1, <2>1 DEF Overrunning
<1>3. ASSUME NEW t \in Threads, Zero(t) PROVE BytesStay
  <2>1. \A p \in Page \ {new[t]} : mem'[p] # mem[p] => new[t] = Under
    BY <1>0, <1>3 DEF Zero, TypeOK
  <2>2. op[t] = "calloc"
    BY <1>3 DEF Zero, ZallocInv, CallInv, Label
  <2> QED
    BY <1>1, <2>1, <2>2 DEF Overrunning
<1>4. ASSUME NEW t \in Threads, Unlock(t) PROVE BytesStay
  <2>1. \A p \in Page \ {new[t]} : mem'[p] = mem[p]
    BY <1>0, <1>4 DEF Unlock, TypeOK
  <2> QED
    BY <1>1, <2>1
<1>5. ASSUME NEW t \in Threads, WriteUnder(t) PROVE BytesStay
  <2>1. \A p : Overrunning(t, p)
    BY <1>5 DEF WriteUnder, Overrunning
  <2> QED
    BY <1>1, <2>1
<1>6. CASE mem' = mem
  BY <1>6 DEF BytesStay
<1>7. Lifetime => mem' = mem
  BY DEF Lifetime, BuddyConstructor, LockConstructor, LockDestructor, DestructorUnmaps,
         DestructorForgets
<1>8. ASSUME NEW t \in Threads, Request(t) PROVE mem' = mem \/ WriteUnder(t)
  BY <1>8 DEF Request, CallAlloc, CallRealloc, CallFree, Call
<1>9. ASSUME NEW t \in Threads, Run(t) PROVE mem' = mem \/ Copy(t) \/ Zero(t) \/ Unlock(t)
  <2>1. InitStep(t) => mem' = mem
    BY DEF InitStep, InitDone, InitPrint, InitTree, InitMap, InitRegister
  <2>2. AllocStep(t) => mem' = mem
    BY DEF AllocStep, AllocCheck, AllocTake, AllocHuge, AllocSpin, AllocTorn
  <2>3. SizeStep(t) \/ FreeStep(t) => mem' = mem
    BY DEF SizeStep, SizeCheck, SizeOld, SizeTorn, FreeStep, FreeCheck, FreeBlock, FreeTorn
  <2>4. Lock(t) \/ NoTree(t) \/ CopyFaults(t) \/ ZeroFaults(t) => mem' = mem
    BY DEF Lock, NoTree, CopyFaults, ZeroFaults
  <2> QED
    BY <1>9, <2>1, <2>2, <2>3, <2>4 DEF Run, WriteStep
<1> QED
  BY <1>2, <1>3, <1>4, <1>5, <1>6, <1>7, <1>8, <1>9 DEF Next

\* Blocks keep what was written into them, and realloc's new block starts with it,
\* unless somebody has the answer to a request larger than the arena.
THEOREM ContentsKept == ASSUME ~ LateThreads PROVE Spec => Contents
<1>1. ASSUME ZallocInv PROVE \A t \in Threads : Copied(t)
  <2>1. ASSUME NEW t \in Threads, pc[t] = "unlock", op[t] = "realloc", new[t] \in Page, arg[t] \in Page
        PROVE  CopyReady(t)
    BY <1>1, <2>1 DEF ZallocInv, ContentInv, Label
  <2> QED
    BY <2>1 DEF Copied
<1>2. ZallocInv /\ [Next]_vars => [BytesStay /\ \A t \in Threads : Copied(t)]_vars
  BY <1>1, BytesStayStep
<1> QED
  BY <1>2, Invariance, PTL DEF Spec, Contents

\* A block that leaves the tree is being freed, or was never handed out.
LEMMA OnlyFreedStep ==
  ASSUME ZallocInv, Next, ~ LateThreads
  PROVE  OnlyFreedLeave
<1> USE PointerFacts DEF OnlyFreedLeave, globals, tree
<1>1. CASE BuddyConstructor
  BY <1>1 DEF BuddyConstructor
<1>2. CASE LockConstructor
  BY <1>2 DEF LockConstructor
<1>3. CASE LockDestructor
  BY <1>3 DEF LockDestructor
<1>4. CASE DestructorUnmaps
  BY <1>4 DEF DestructorUnmaps
<1>5. ASSUME NEW t \in Threads, CallAlloc(t) PROVE OnlyFreedLeave
  BY <1>5 DEF CallAlloc, Call, MayCall
<1>6. ASSUME NEW t \in Threads, CallRealloc(t) PROVE OnlyFreedLeave
  BY <1>6 DEF CallRealloc, Call, MayCall
<1>7. ASSUME NEW t \in Threads, CallFree(t) PROVE OnlyFreedLeave
  BY <1>7 DEF CallFree, Call, MayCall
<1>8. ASSUME NEW t \in Threads, Lock(t) PROVE OnlyFreedLeave
  BY <1>8 DEF Lock
<1>9. ASSUME NEW t \in Threads, InitDone(t) PROVE OnlyFreedLeave
  BY <1>9 DEF InitDone
<1>10. ASSUME NEW t \in Threads, InitPrint(t) PROVE OnlyFreedLeave
  BY <1>10 DEF InitPrint
<1>11. ASSUME NEW t \in Threads, InitTree(t) PROVE OnlyFreedLeave
  <2>1. NoPages /\ heap \subseteq [off : Page, pages : {1}, used : Sizes]
    BY <1>11 DEF InitTree, ZallocInv, TypeOK, SetUpInv
  <2> QED
    BY <2>1 DEF NoPages
<1>12. ASSUME NEW t \in Threads, InitMap(t) PROVE OnlyFreedLeave
  BY <1>12 DEF InitMap
<1>13. ASSUME NEW t \in Threads, InitRegister(t) PROVE OnlyFreedLeave
  BY <1>13 DEF InitRegister
<1>14. ASSUME NEW t \in Threads, AllocCheck(t) PROVE OnlyFreedLeave
  BY <1>14 DEF AllocCheck, Allocated, AfterAlloc
<1>15. ASSUME NEW t \in Threads, AllocTake(t) PROVE OnlyFreedLeave
  BY <1>15, TakeEffect DEF AllocTake, Allocated, AfterAlloc, ZallocInv
<1>16. ASSUME NEW t \in Threads, AllocHuge(t) PROVE OnlyFreedLeave
  BY <1>16 DEF AllocHuge, Allocated, AfterAlloc
<1>17. ASSUME NEW t \in Threads, AllocSpin(t) PROVE OnlyFreedLeave
  BY <1>17 DEF AllocSpin
<1>18. ASSUME NEW t \in Threads, NoTree(t) PROVE OnlyFreedLeave
  BY <1>18 DEF NoTree
<1>19. ASSUME NEW t \in Threads, SizeOld(t) PROVE OnlyFreedLeave
  BY <1>19 DEF SizeOld
<1>20. ASSUME NEW t \in Threads, Copy(t) PROVE OnlyFreedLeave
  BY <1>20 DEF Copy
<1>21. ASSUME NEW t \in Threads, Zero(t) PROVE OnlyFreedLeave
  BY <1>21 DEF Zero
<1>22. ASSUME NEW t \in Threads, FreeBlock(t) PROVE OnlyFreedLeave
  BY <1>22 DEF FreeBlock, Heap!Free, BlockAt
<1>23. ASSUME NEW t \in Threads, Unlock(t) PROVE OnlyFreedLeave
  BY <1>23 DEF Unlock
<1>24. CASE DestructorForgets
  BY <1>24 DEF DestructorForgets
<1>25. \A t \in Threads : ~ AllocTorn(t) /\ ~ SizeTorn(t) /\ ~ FreeTorn(t)
  BY Whole DEF ZallocInv
<1>26. ASSUME NEW t \in Threads, SizeCheck(t) PROVE OnlyFreedLeave
  BY <1>26 DEF SizeCheck
<1>28. ASSUME NEW t \in Threads, CopyFaults(t) PROVE OnlyFreedLeave
  BY <1>28 DEF CopyFaults
<1>29. ASSUME NEW t \in Threads, ZeroFaults(t) PROVE OnlyFreedLeave
  BY <1>29 DEF ZeroFaults
<1>30. ASSUME NEW t \in Threads, FreeCheck(t) PROVE OnlyFreedLeave
  BY <1>30 DEF FreeCheck
<1>32. ASSUME NEW t \in Threads, WriteUnder(t) PROVE OnlyFreedLeave
  BY <1>32 DEF WriteUnder
<1> QED
  BY <1>1, <1>2, <1>3, <1>4, <1>5, <1>6, <1>7, <1>8, <1>9, <1>10, <1>11, <1>12,
     <1>13, <1>14, <1>15, <1>16, <1>17, <1>18, <1>19, <1>20, <1>21, <1>22, <1>23,
     <1>24, <1>25, <1>26, <1>28, <1>29, <1>30, <1>32
     DEF Next, Lifetime, Request, Run, InitStep, AllocStep, SizeStep, WriteStep, FreeStep

\* A block leaves the tree in the call that frees it, or before it was handed out.
THEOREM TreeKept == ASSUME ~ LateThreads PROVE Spec => TreeKeepsBlocks
<1>1. ZallocInv /\ [Next]_vars => [OnlyFreedLeave]_vars
  BY OnlyFreedStep
<1> QED
  BY <1>1, Invariance, PTL DEF Spec, TreeKeepsBlocks

\* Once set up, init_ changes nothing.
LEMMA ExitStep ==
  ASSUME ExitInv, Next, InitOutcomes = {"ok"}
  PROVE  ExitOrder'
<1> USE DEF ExitOrder, GoneStaysGone, globals, tree, lock, frame, Goto, Crash
<1>0. /\ stage # "crashed" /\ Main \in Threads /\ ExitOrder /\ pc \in [Threads -> {pc[t] : t \in Threads}]
      /\ \A t \in Threads : then[t] \notin {"init", "map", "register"}
  BY ZallocAssumption DEF Next, ExitInv, TypeOK
<1> USE <1>0
<1>1. CASE BuddyConstructor
  BY <1>1 DEF BuddyConstructor
<1>2. CASE LockConstructor
  BY <1>2 DEF LockConstructor
<1>3. CASE LockDestructor
  BY <1>3 DEF LockDestructor
<1>4. CASE DestructorUnmaps
  BY <1>4 DEF DestructorUnmaps
<1>5. ASSUME NEW t \in Threads, CallAlloc(t) PROVE ExitOrder'
  BY <1>5 DEF CallAlloc, Call, MayCall
<1>6. ASSUME NEW t \in Threads, CallRealloc(t) PROVE ExitOrder'
  BY <1>6 DEF CallRealloc, Call, MayCall
<1>7. ASSUME NEW t \in Threads, CallFree(t) PROVE ExitOrder'
  BY <1>7 DEF CallFree, Call, MayCall
<1>8. ASSUME NEW t \in Threads, Lock(t) PROVE ExitOrder'
  BY <1>8 DEF Lock
<1>9. ASSUME NEW t \in Threads, InitDone(t) PROVE ExitOrder'
  BY <1>9 DEF InitDone
<1>10. ASSUME NEW t \in Threads, InitPrint(t) PROVE ExitOrder'
  BY <1>10 DEF InitPrint
<1>11. ASSUME NEW t \in Threads, InitTree(t) PROVE ExitOrder'
  BY <1>11 DEF InitTree
<1>12. ASSUME NEW t \in Threads, InitMap(t) PROVE ExitOrder'
  BY <1>12 DEF InitMap
<1>13. ASSUME NEW t \in Threads, InitRegister(t) PROVE ExitOrder'
  <2>1. pc[t] = "register" /\ pc' = [pc EXCEPT ![t] = then[t]] /\ isInit'
        /\ UNCHANGED <<stage, buddy, memblock>>
    BY <1>13 DEF InitRegister
  <2>2. ~ isInit /\ stage \in {"start", "arena"} /\ \A s \in Threads \ {Main} : pc[s] = "idle"
    BY <2>1 DEF ExitInv, TypeOK
  <2>3. t = Main /\ \A s \in Threads : pc'[s] \notin {"map", "register"}
    BY <2>1, <2>2
  <2> QED
    BY <2>1, <2>2, <2>3
<1>14. ASSUME NEW t \in Threads, AllocCheck(t) PROVE ExitOrder'
  BY <1>14 DEF AllocCheck, Allocated, AfterAlloc, Allocated, AfterAlloc
<1>15. ASSUME NEW t \in Threads, AllocTake(t) PROVE ExitOrder'
  BY <1>15 DEF AllocTake, Allocated, AfterAlloc
<1>16. ASSUME NEW t \in Threads, AllocHuge(t) PROVE ExitOrder'
  BY <1>16 DEF AllocHuge, Allocated, AfterAlloc
<1>17. ASSUME NEW t \in Threads, AllocSpin(t) PROVE ExitOrder'
  BY <1>17 DEF AllocSpin
<1>18. ASSUME NEW t \in Threads, NoTree(t) PROVE ExitOrder'
  BY <1>18 DEF NoTree
<1>19. ASSUME NEW t \in Threads, SizeOld(t) PROVE ExitOrder'
  BY <1>19 DEF SizeOld
<1>20. ASSUME NEW t \in Threads, Copy(t) PROVE ExitOrder'
  BY <1>20 DEF Copy
<1>21. ASSUME NEW t \in Threads, Zero(t) PROVE ExitOrder'
  BY <1>21 DEF Zero
<1>22. ASSUME NEW t \in Threads, FreeBlock(t) PROVE ExitOrder'
  BY <1>22 DEF FreeBlock
<1>23. ASSUME NEW t \in Threads, Unlock(t) PROVE ExitOrder'
  BY <1>23 DEF Unlock
<1>24. CASE DestructorForgets
  BY <1>24 DEF DestructorForgets
<1>25. ASSUME NEW t \in Threads, AllocTorn(t) PROVE ExitOrder'
  BY <1>25 DEF AllocTorn, Torn, Allocated, AfterAlloc
<1>26. ASSUME NEW t \in Threads, SizeCheck(t) PROVE ExitOrder'
  BY <1>26 DEF SizeCheck
<1>27. ASSUME NEW t \in Threads, SizeTorn(t) PROVE ExitOrder'
  BY <1>27 DEF SizeTorn, Torn
<1>28. ASSUME NEW t \in Threads, CopyFaults(t) PROVE ExitOrder'
  BY <1>28 DEF CopyFaults
<1>29. ASSUME NEW t \in Threads, ZeroFaults(t) PROVE ExitOrder'
  BY <1>29 DEF ZeroFaults
<1>30. ASSUME NEW t \in Threads, FreeCheck(t) PROVE ExitOrder'
  BY <1>30 DEF FreeCheck
<1>31. ASSUME NEW t \in Threads, FreeTorn(t) PROVE ExitOrder'
  BY <1>31 DEF FreeTorn, Torn
<1>32. ASSUME NEW t \in Threads, WriteUnder(t) PROVE ExitOrder'
  BY <1>32 DEF WriteUnder
<1> QED
  BY <1>1, <1>2, <1>3, <1>4, <1>5, <1>6, <1>7, <1>8, <1>9, <1>10, <1>11, <1>12,
     <1>13, <1>14, <1>15, <1>16, <1>17, <1>18, <1>19, <1>20, <1>21, <1>22, <1>23,
     <1>24, <1>25, <1>26, <1>27, <1>28, <1>29, <1>30, <1>31, <1>32
     DEF Next, Lifetime, Request, Run, InitStep, AllocStep, SizeStep, WriteStep, FreeStep

-----------------------------------------------------------------------------
(* Two threads inside at once *)

\* For as long as there is a mutex no step tears the tree.
LEMMA StaysWhole ==
  ASSUME MutexInv, Next, mutex = "usable"
  PROVE  ~ torn'
<1> SUFFICES ASSUME torn' PROVE FALSE
  OBVIOUS
<1>0. ~ torn /\ OneAtATime
  BY DEF MutexInv
<1>1. PICK t \in Threads : Inside(t) /\ Tears(t)
  <2>1. ~ Lifetime
    BY <1>0 DEF Lifetime, BuddyConstructor, LockConstructor, LockDestructor, DestructorUnmaps,
                DestructorForgets, tree
  <2>2. PICK t \in Threads : Request(t) \/ Run(t)
    BY <2>1 DEF Next
  <2>3. ~ Request(t)
    BY <1>0 DEF Request, CallAlloc, CallRealloc, CallFree, Call, WriteUnder, tree
  <2>4. InitStep(t) => InitTree(t)
    BY <1>0 DEF InitStep, InitDone, InitPrint, InitMap, InitRegister, tree
  <2>5. AllocStep(t) => AllocTorn(t)
    BY <1>0 DEF AllocStep, AllocCheck, AllocTake, AllocHuge, AllocSpin, tree
  <2>6. SizeStep(t) => SizeTorn(t)
    BY <1>0 DEF SizeStep, SizeCheck, SizeOld, tree
  <2>7. FreeStep(t) => FreeTorn(t)
    BY <1>0 DEF FreeStep, FreeCheck, FreeBlock, tree
  <2>8. ~ WriteStep(t) /\ ~ NoTree(t) /\ ~ Unlock(t) /\ ~ Lock(t)
    BY <1>0 DEF WriteStep, Copy, CopyFaults, Zero, ZeroFaults, NoTree, Unlock, Lock, tree
  <2>9. InitTree(t) \/ AllocTorn(t) \/ SizeTorn(t) \/ FreeTorn(t)
    BY <2>2, <2>3, <2>4, <2>5, <2>6, <2>7, <2>8 DEF Run
  <2> QED
    BY <2>9 DEF InitTree, AllocTorn, SizeTorn, FreeTorn, Inside
<1> QED
  BY <1>0, <1>1 DEF Tears, InTree, OneAtATime, Inside

\* A step lets nobody in beside the owner of the mutex, until it is destroyed.
LEMMA MutexStep ==
  ASSUME ExitInv, Next, InitOutcomes = {"ok"}
  PROVE  MutexInv'
<1> USE ZallocAssumption DEF MutexInv, TypeOK, OneAtATime, Inside, globals, tree, lock, frame, Goto, Crash
<1>0. /\ stage # "crashed" /\ TypeOK /\ MutexInv
      /\ stage \in {"start", "arena"} => \A t \in Threads \ {Main} : pc[t] = "idle"
  BY DEF Next, ExitInv, ExitOrder
<1>01. mutex = "usable" => ~ torn'
  BY <1>0, StaysWhole
<1> USE <1>0, <1>01
<1>1. CASE BuddyConstructor
  BY <1>1 DEF BuddyConstructor
<1>2. CASE LockConstructor
  BY <1>2 DEF LockConstructor
<1>3. CASE LockDestructor
  BY <1>3 DEF LockDestructor
<1>4. CASE DestructorUnmaps
  BY <1>4 DEF DestructorUnmaps
<1>5. CASE DestructorForgets
  BY <1>5 DEF DestructorForgets
<1>6. ASSUME NEW t \in Threads, CallAlloc(t) PROVE MutexInv'
  BY <1>6 DEF CallAlloc, Call, MayCall
<1>7. ASSUME NEW t \in Threads, CallRealloc(t) PROVE MutexInv'
  BY <1>7 DEF CallRealloc, Call, MayCall
<1>8. ASSUME NEW t \in Threads, CallFree(t) PROVE MutexInv'
  BY <1>8 DEF CallFree, Call, MayCall
<1>9. ASSUME NEW t \in Threads, WriteUnder(t) PROVE MutexInv'
  BY <1>9 DEF WriteUnder
<1>10. ASSUME NEW t \in Threads, Lock(t) PROVE MutexInv'
  BY <1>10 DEF Lock
<1>11. ASSUME NEW t \in Threads, InitDone(t) PROVE MutexInv'
  BY <1>11 DEF InitDone
<1>12. ASSUME NEW t \in Threads, InitPrint(t) PROVE MutexInv'
  BY <1>12 DEF InitPrint
<1>13. ASSUME NEW t \in Threads, InitTree(t) PROVE MutexInv'
  BY <1>13 DEF InitTree, Tears, InTree
<1>14. ASSUME NEW t \in Threads, InitMap(t) PROVE MutexInv'
  BY <1>14 DEF InitMap
<1>15. ASSUME NEW t \in Threads, InitRegister(t) PROVE MutexInv'
  BY <1>15 DEF InitRegister
<1>16. ASSUME NEW t \in Threads, AllocCheck(t) PROVE MutexInv'
  BY <1>16 DEF AllocCheck, Allocated, AfterAlloc
<1>17. ASSUME NEW t \in Threads, AllocTake(t) PROVE MutexInv'
  BY <1>17 DEF AllocTake, Allocated, AfterAlloc
<1>18. ASSUME NEW t \in Threads, AllocHuge(t) PROVE MutexInv'
  BY <1>18 DEF AllocHuge, Allocated, AfterAlloc
<1>19. ASSUME NEW t \in Threads, AllocSpin(t) PROVE MutexInv'
  BY <1>19 DEF AllocSpin
<1>20. ASSUME NEW t \in Threads, AllocTorn(t) PROVE MutexInv'
  BY <1>20 DEF AllocTorn, Tears, InTree
<1>21. ASSUME NEW t \in Threads, SizeCheck(t) PROVE MutexInv'
  BY <1>21 DEF SizeCheck
<1>22. ASSUME NEW t \in Threads, SizeOld(t) PROVE MutexInv'
  BY <1>22 DEF SizeOld
<1>23. ASSUME NEW t \in Threads, SizeTorn(t) PROVE MutexInv'
  BY <1>23 DEF SizeTorn, Tears, InTree
<1>24. ASSUME NEW t \in Threads, Copy(t) PROVE MutexInv'
  BY <1>24 DEF Copy
<1>25. ASSUME NEW t \in Threads, CopyFaults(t) PROVE MutexInv'
  BY <1>25 DEF CopyFaults
<1>26. ASSUME NEW t \in Threads, Zero(t) PROVE MutexInv'
  BY <1>26 DEF Zero
<1>27. ASSUME NEW t \in Threads, ZeroFaults(t) PROVE MutexInv'
  BY <1>27 DEF ZeroFaults
<1>28. ASSUME NEW t \in Threads, FreeCheck(t) PROVE MutexInv'
  BY <1>28 DEF FreeCheck
<1>29. ASSUME NEW t \in Threads, FreeBlock(t) PROVE MutexInv'
  BY <1>29 DEF FreeBlock
<1>30. ASSUME NEW t \in Threads, FreeTorn(t) PROVE MutexInv'
  BY <1>30 DEF FreeTorn, Tears, InTree
<1>31. ASSUME NEW t \in Threads, NoTree(t) PROVE MutexInv'
  BY <1>31 DEF NoTree
<1>32. ASSUME NEW t \in Threads, Unlock(t) PROVE MutexInv'
  BY <1>32 DEF Unlock
<1> QED
  BY <1>1, <1>2, <1>3, <1>4, <1>5, <1>6, <1>7, <1>8, <1>9, <1>10, <1>11, <1>12, <1>13,
     <1>14, <1>15, <1>16, <1>17, <1>18, <1>19, <1>20, <1>21, <1>22, <1>23, <1>24, <1>25,
     <1>26, <1>27, <1>28, <1>29, <1>30, <1>31, <1>32
     DEF Next, Lifetime, Request, Run, InitStep, AllocStep, SizeStep, WriteStep, FreeStep

\* No step leads back from the last stages, or mends a torn tree.
LEMMA NoWayBack ==
  ASSUME TypeOK, Next
  PROVE  /\ stage = "gone" => stage' \in {"gone", "crashed"}
         /\ stage = "closing" => stage' \in {"closing", "gone", "crashed"}
         /\ torn => torn'
<1> DEFINE Onward == /\ stage = "gone" => stage' \in {"gone", "crashed"}
                     /\ stage = "closing" => stage' \in {"closing", "gone", "crashed"}
                     /\ torn => torn'
<1> USE DEF tree
<1>1. Lifetime => Onward
  BY DEF Lifetime, BuddyConstructor, LockConstructor, LockDestructor, DestructorUnmaps,
         DestructorForgets, Crash
<1>2. ASSUME NEW t \in Threads, Request(t) \/ Lock(t) \/ InitStep(t) PROVE Onward
  <2>1. Request(t) => stage' = stage /\ torn' = torn
    BY DEF Request, CallAlloc, CallRealloc, CallFree, Call, WriteUnder
  <2>2. InitTree(t) => stage' = stage /\ (torn => torn')
    BY Zenon DEF InitTree, Tears
  <2>3. InitStep(t) => InitTree(t) \/ (stage' = stage /\ torn' = torn)
    BY DEF InitStep, InitDone, InitPrint, InitMap, InitRegister
  <2>4. Lock(t) => stage' = stage /\ torn' = torn
    BY DEF Lock
  <2> QED
    BY <1>2, <2>1, <2>2, <2>3, <2>4
<1>3. ASSUME NEW t \in Threads, AllocStep(t) PROVE stage' \in {stage, "crashed"} /\ (torn => torn')
  BY <1>3 DEF AllocStep, AllocCheck, AllocTake, AllocHuge, AllocSpin, AllocTorn, Torn, Crash
<1>4. ASSUME NEW t \in Threads, SizeStep(t) \/ FreeStep(t)
      PROVE  stage' \in {stage, "crashed"} /\ (torn => torn')
  BY <1>4 DEF SizeStep, SizeCheck, SizeOld, SizeTorn, FreeStep, FreeCheck, FreeBlock, FreeTorn,
              Torn, Crash
<1>5. ASSUME NEW t \in Threads, WriteStep(t) \/ NoTree(t) \/ Unlock(t)
      PROVE  stage' \in {stage, "crashed"} /\ torn' = torn
  BY <1>5 DEF WriteStep, Copy, CopyFaults, Zero, ZeroFaults, NoTree, Unlock, Crash
<1> QED
  BY <1>1, <1>2, <1>3, <1>4, <1>5 DEF Next, Run

\* Which call finds the arena: once init_ has succeeded, every one.
LEMMA ArenaStep ==
  ASSUME ExitInv, Next, InitOutcomes = {"ok"}, stage' \notin {"closing", "gone", "crashed"}, ~ torn'
  PROVE  ArenaUp' /\ KnownInv'
<1> USE PointerFacts, ZallocAssumption
   DEF TypeOK, ArenaUp, KnownInv, Known, NoPages, globals, tree, lock, frame, Goto, Crash
<1>0. /\ stage \notin {"closing", "gone", "crashed"} /\ TypeOK /\ CallInv
      /\ ArenaUp /\ KnownInv /\ ClaimsApart
  <2>1. stage # "crashed" /\ TypeOK
    BY DEF Next, ExitInv
  <2>2. stage \notin {"closing", "gone"} /\ ~ torn
    BY <2>1, NoWayBack
  <2> QED
    BY <2>1, <2>2 DEF ExitInv
<1>01. \A t \in Threads : pc[t] \in {"map", "register"} =>
         ~ isInit /\ \A s \in Threads \ {t} : pc[s] = "idle"
  BY <1>0 DEF ExitInv, ExitOrder
<1> USE <1>0
<1>1. CASE BuddyConstructor
  BY <1>1 DEF BuddyConstructor
<1>2. CASE LockConstructor
  BY <1>2 DEF LockConstructor
<1>3. CASE LockDestructor
  BY <1>3 DEF LockDestructor
<1>4. CASE DestructorUnmaps
  BY <1>4 DEF DestructorUnmaps
<1>5. ASSUME NEW t \in Threads, CallAlloc(t) PROVE ArenaUp' /\ KnownInv'
  BY <1>5 DEF CallAlloc, Call, MayCall
<1>6. ASSUME NEW t \in Threads, CallRealloc(t) PROVE ArenaUp' /\ KnownInv'
  BY <1>6 DEF CallRealloc, Call, MayCall
<1>7. ASSUME NEW t \in Threads, CallFree(t) PROVE ArenaUp' /\ KnownInv'
  BY <1>7 DEF CallFree, Call, MayCall
<1>8. ASSUME NEW t \in Threads, Lock(t) PROVE ArenaUp' /\ KnownInv'
  BY <1>8 DEF Lock
<1>9. ASSUME NEW t \in Threads, InitDone(t) PROVE ArenaUp' /\ KnownInv'
  BY <1>9 DEF InitDone
<1>10. ASSUME NEW t \in Threads, InitPrint(t) PROVE ArenaUp' /\ KnownInv'
  BY <1>10 DEF InitPrint
<1>11. ASSUME NEW t \in Threads, InitTree(t) PROVE ArenaUp' /\ KnownInv'
  BY <1>11 DEF InitTree
<1>12. ASSUME NEW t \in Threads, InitMap(t) PROVE ArenaUp' /\ KnownInv'
  BY <1>12, <1>01 DEF InitMap
<1>13. ASSUME NEW t \in Threads, InitRegister(t) PROVE ArenaUp' /\ KnownInv'
  BY <1>13, <1>01 DEF InitRegister, CallInv, Label
<1>14. ASSUME NEW t \in Threads, AllocCheck(t) PROVE ArenaUp' /\ KnownInv'
  BY <1>14 DEF AllocCheck, Allocated, AfterAlloc
<1>15. ASSUME NEW t \in Threads, AllocTake(t) PROVE ArenaUp' /\ KnownInv'
  <2>1. PICK off \in Page : Allocated(t, Pointer(off))
    BY <1>15, TakeEffect
  <2>2. Pointer(off) = off /\ isInit
    BY <1>15 DEF AllocTake, Pointer, Placed
  <2>3. off # Null
    OBVIOUS
  <2> QED
    BY <1>15, <2>1, <2>2, <2>3 DEF AllocTake, Allocated, AfterAlloc
<1>16. ASSUME NEW t \in Threads, AllocHuge(t) PROVE ArenaUp' /\ KnownInv'
  BY <1>16 DEF AllocHuge, Allocated, AfterAlloc, Placed, Known
<1>17. ASSUME NEW t \in Threads, AllocSpin(t) PROVE ArenaUp' /\ KnownInv'
  BY <1>17 DEF AllocSpin
<1>18. ASSUME NEW t \in Threads, NoTree(t) PROVE ArenaUp' /\ KnownInv'
  BY <1>18 DEF NoTree
<1>19. ASSUME NEW t \in Threads, SizeOld(t) PROVE ArenaUp' /\ KnownInv'
  BY <1>19 DEF SizeOld
<1>20. ASSUME NEW t \in Threads, Copy(t) PROVE ArenaUp' /\ KnownInv'
  BY <1>20 DEF Copy
<1>21. ASSUME NEW t \in Threads, Zero(t) PROVE ArenaUp' /\ KnownInv'
  BY <1>21 DEF Zero
<1>22. ASSUME NEW t \in Threads, FreeBlock(t) PROVE ArenaUp' /\ KnownInv'
  BY <1>22 DEF FreeBlock
<1>23. ASSUME NEW t \in Threads, Unlock(t) PROVE ArenaUp' /\ KnownInv'
  <2>1. /\ pc[t] = "unlock" /\ pc' = [pc EXCEPT ![t] = "idle"] /\ UNCHANGED <<globals, heap>>
        /\ op' = [op EXCEPT ![t] = "none"] /\ arg' = [arg EXCEPT ![t] = Null]
        /\ new' = [new EXCEPT ![t] = Null] /\ isInit
        /\ \A s \in Threads : \A h \in holds'[s] : h \in holds[s] \/ (h.ptr = new[t] /\ new[t] # Null)
    BY <1>23 DEF Unlock, Kept
  <2> QED
    BY <2>1
<1>24. CASE DestructorForgets
  BY <1>24 DEF DestructorForgets
<1>25. ASSUME NEW t \in Threads, AllocTorn(t) PROVE ArenaUp' /\ KnownInv'
  BY <1>25 DEF AllocTorn, Torn, Allocated, AfterAlloc
<1>26. ASSUME NEW t \in Threads, SizeCheck(t) PROVE ArenaUp' /\ KnownInv'
  BY <1>26 DEF SizeCheck
<1>27. ASSUME NEW t \in Threads, SizeTorn(t) PROVE ArenaUp' /\ KnownInv'
  BY <1>27 DEF SizeTorn, Torn
<1>28. ASSUME NEW t \in Threads, CopyFaults(t) PROVE ArenaUp' /\ KnownInv'
  BY <1>28 DEF CopyFaults
<1>29. ASSUME NEW t \in Threads, ZeroFaults(t) PROVE ArenaUp' /\ KnownInv'
  BY <1>29 DEF ZeroFaults
<1>30. ASSUME NEW t \in Threads, FreeCheck(t) PROVE ArenaUp' /\ KnownInv'
  BY <1>30 DEF FreeCheck
<1>31. ASSUME NEW t \in Threads, FreeTorn(t) PROVE ArenaUp' /\ KnownInv'
  BY <1>31 DEF FreeTorn, Torn
<1>32. ASSUME NEW t \in Threads, WriteUnder(t) PROVE ArenaUp' /\ KnownInv'
  BY <1>32 DEF WriteUnder
<1> QED
  BY <1>1, <1>2, <1>3, <1>4, <1>5, <1>6, <1>7, <1>8, <1>9, <1>10, <1>11, <1>12,
     <1>13, <1>14, <1>15, <1>16, <1>17, <1>18, <1>19, <1>20, <1>21, <1>22, <1>23,
     <1>24, <1>25, <1>26, <1>27, <1>28, <1>29, <1>30, <1>31, <1>32
     DEF Next, Lifetime, Request, Run, InitStep, AllocStep, SizeStep, WriteStep, FreeStep

\* A step that hands out nothing, and takes no block off the tree that is still
\* claimed afterwards, keeps the claims apart.
LEMMA ApartFrame ==
  ASSUME ClaimsApart,
         \A s \in Threads : /\ InHand(s)' \subseteq InHand(s)
                            /\ Returning(s)' \subseteq Returning(s)
                            /\ holds'[s] \subseteq holds[s]
                            /\ new'[s] \in Page => new'[s] = new[s],
         \A b \in heap : b \in heap' \/ \A s \in Threads : b.off \notin Claimed(s)'
  PROVE  ClaimsApart'
<1>1. \A s \in Threads : Claimed(s)' \subseteq Claimed(s)
  BY DEF Claimed
<1>2. ASSUME NEW s \in Threads, NEW p \in Claimed(s)' PROVE BlockAt(p)' # {}
  <2>1. PICK b \in heap : b.off = p
    BY <1>1 DEF ClaimsApart, BlockAt
  <2> QED
    BY <2>1 DEF BlockAt
<1> QED
  BY <1>1, <1>2 DEF ClaimsApart

\* A step keeps the claims of the threads apart, until the arena is gone.
LEMMA ApartStep ==
  ASSUME ExitInv, Next, stage' \notin {"closing", "gone", "crashed"}, ~ torn'
  PROVE  ClaimsApart'
<1> USE PointerFacts DEF TypeOK, globals, tree, lock, frame, Goto, Crash
<1>0. /\ stage \notin {"closing", "gone", "crashed"} /\ TypeOK /\ CallInv
      /\ ArenaUp /\ KnownInv /\ ClaimsApart
  <2>1. stage # "crashed" /\ TypeOK
    BY DEF Next, ExitInv
  <2>2. stage \notin {"closing", "gone"} /\ ~ torn
    BY <2>1, NoWayBack
  <2> QED
    BY <2>1, <2>2 DEF ExitInv
<1> USE <1>0
<1>1. CASE BuddyConstructor
  BY <1>1, ApartFrame, SameHand DEF BuddyConstructor
<1>2. CASE LockConstructor
  BY <1>2, ApartFrame, SameHand DEF LockConstructor
<1>3. CASE LockDestructor
  BY <1>3, ApartFrame, SameHand DEF LockDestructor
<1>4. CASE DestructorUnmaps
  BY <1>4 DEF DestructorUnmaps
<1>5. ASSUME NEW t \in Threads, CallAlloc(t) \/ CallRealloc(t) PROVE ClaimsApart'
  <2>1. /\ pc[t] = "idle" /\ UNCHANGED <<stage, globals, heap, holds>>
        /\ UNCHANGED new /\ pc' = [pc EXCEPT ![t] = "lock"]
        /\ \A s \in Threads \ {t} : op'[s] = op[s] /\ arg'[s] = arg[s] /\ len'[s] = len[s]
        /\ op'[t] # "free" /\ new[t] = Null
    BY <1>5 DEF CallAlloc, CallRealloc, Call, MayCall, CallInv, Label
  <2>2. \A s \in Threads \ {t} : InHand(s)' = InHand(s) /\ Returning(s)' = Returning(s)
    BY <2>1, SameHand
  <2>3. InHand(t)' = InHand(t) /\ Returning(t)' = {}
    BY <2>1 DEF InHand, Returning
  <2> QED
    BY <2>1, <2>2, <2>3, ApartFrame
<1>7. ASSUME NEW t \in Threads, CallFree(t) PROVE ClaimsApart'
  <2>1. PICK g \in holds[t] :
          Call(t, "free", g.ptr, 0) /\ holds' = [holds EXCEPT ![t] = @ \ {g}]
    BY <1>7 DEF CallFree
  <2>2. /\ pc[t] = "idle" /\ pc' = [pc EXCEPT ![t] = "lock"] /\ new' = new /\ new[t] = Null
        /\ op' = [op EXCEPT ![t] = "free"] /\ arg' = [arg EXCEPT ![t] = g.ptr]
        /\ heap' = heap /\ op[t] = "none"
        /\ \A s \in Threads \ {t} : len'[s] = len[s]
    BY <2>1 DEF Call, MayCall, CallInv, Label
  <2>3. \A s \in Threads \ {t} : InHand(s)' = InHand(s) /\ Returning(s)' = Returning(s)
    BY <2>1, <2>2, SameHand
  <2>4. InHand(t)' = InHand(t) \ {g} /\ (g.ptr \in Page => g \in InHand(t))
    BY <2>1, <2>2 DEF InHand
  <2>5. Returning(t)' = {g.ptr} \cap Page
    BY <2>2 DEF Returning
  <2>6. \A s \in Threads : Claimed(s)' \subseteq Claimed(s)
    BY <2>3, <2>4, <2>5 DEF Claimed
  <2>7. \A h \in InHand(t)' : h.ptr \notin Returning(t)'
    BY <2>4, <2>5 DEF ClaimsApart
  <2>8. \A s \in Threads : holds'[s] \subseteq holds[s] /\ InHand(s)' \subseteq InHand(s)
    BY <2>1, <2>3, <2>4
  <2>9. \A p : BlockAt(p)' = BlockAt(p)
    BY <2>2 DEF BlockAt
  <2> QED
    BY <2>2, <2>3, <2>6, <2>7, <2>8, <2>9 DEF ClaimsApart
<1>8. ASSUME NEW t \in Threads, Lock(t) PROVE ClaimsApart'
  BY <1>8, ApartFrame, SameHand DEF Lock
<1>9. ASSUME NEW t \in Threads, InitDone(t) PROVE ClaimsApart'
  BY <1>9, ApartFrame, SameHand DEF InitDone
<1>10. ASSUME NEW t \in Threads, InitPrint(t) PROVE ClaimsApart'
  BY <1>10, ApartFrame, SameHand DEF InitPrint
<1>11. ASSUME NEW t \in Threads, InitTree(t) PROVE ClaimsApart'
  <2>1. /\ NoPages /\ pc[t] # "unlock" /\ pc' = [pc EXCEPT ![t] = "map"]
        /\ UNCHANGED <<op, arg, len, new, holds>>
    BY <1>11 DEF InitTree, ArenaUp
  <2>2. \A s \in Threads : InHand(s)' = {} /\ Returning(s)' = {}
    <3>1. \A s \in Threads : InHand(s)' = InHand(s) /\ Returning(s)' = Returning(s)
      BY <2>1, SameHand
    <3>2. \A s \in Threads : InHand(s) = {} /\ Returning(s) = {}
      BY <2>1 DEF NoPages, InHand, Returning, Kept
    <3> QED
      BY <3>1, <3>2
  <2>3. \A s \in Threads : Claimed(s)' = {}
    BY <2>2 DEF Claimed
  <2> QED
    BY <2>1, <2>2, <2>3, ApartFrame
<1>12. ASSUME NEW t \in Threads, InitMap(t) PROVE ClaimsApart'
  BY <1>12, ApartFrame, SameHand DEF InitMap
<1>13. ASSUME NEW t \in Threads, InitRegister(t) PROVE ClaimsApart'
  BY <1>13, ApartFrame, SameHand DEF InitRegister
<1>14. ASSUME NEW t \in Threads, AllocCheck(t) PROVE ClaimsApart'
  <2>1. /\ pc[t] = "alloc" /\ new[t] = Null /\ op[t] # "free"
        /\ UNCHANGED <<stage, globals, heap, holds, op, arg, len>>
        /\ \A s \in Threads \ {t} : pc'[s] = pc[s] /\ new'[s] = new[s]
    BY <1>14 DEF AllocCheck, Allocated, CallInv, Label
  <2>2. new'[t] = Null
    BY <1>14, <2>1 DEF AllocCheck, Allocated
  <2>3. \A s \in Threads : InHand(s)' = InHand(s) /\ Returning(s)' = Returning(s)
    BY <2>1, <2>2, SameHand, SameHandAtReturn
  <2> QED
    BY <2>1, <2>2, <2>3, ApartFrame
<1>15. ASSUME NEW t \in Threads, AllocTake(t) PROVE ClaimsApart'
  <2>1. PICK off \in Page :
          /\ \A b \in heap : b.off # off
          /\ heap' = heap \cup {[off |-> off, pages |-> 1, used |-> len[t]]}
          /\ Allocated(t, Pointer(off))
    BY <1>15, TakeEffect
  <2>2. Pointer(off) = off
    BY <1>15 DEF AllocTake, ArenaUp, Pointer, Placed
  <2>3. /\ pc[t] = "take" /\ pc'[t] = AfterAlloc(t, off) /\ new' = [new EXCEPT ![t] = off]
        /\ UNCHANGED <<op, arg, len, holds>>
        /\ op[t] # "free" /\ new[t] = Null
        /\ \A s \in Threads \ {t} : pc'[s] = pc[s]
    BY <1>15, <2>1, <2>2 DEF AllocTake, Allocated, CallInv, Label
  <2> DEFINE fresh == [ptr |-> off, size |-> len[t]]
  <2>4. \A s \in Threads \ {t} : InHand(s)' = InHand(s)
    BY <2>3, SameHand
  <2>5. \A s \in Threads : Returning(s)' = Returning(s)
    BY <2>3 DEF Returning
  <2>6. InHand(t)' = InHand(t) \cup {fresh} /\ InHand(t) = {h \in holds[t] : h.ptr \in Page}
    <3>1. InHand(t)' = {h \in holds[t] : h.ptr \in Page} \cup {fresh}
      BY <2>3, HandAfterAlloc
    <3>2. InHand(t) = {h \in holds[t] : h.ptr \in Page}
      BY <2>3 DEF InHand
    <3> QED
      BY <3>1, <3>2
  <2>7. /\ \A s \in Threads \ {t} : Claimed(s)' = Claimed(s)
        /\ Claimed(t)' = Claimed(t) \cup {off}
    <3>1. fresh.ptr = off
      OBVIOUS
    <3> HIDE DEF fresh
    <3>2. {h.ptr : h \in InHand(t)'} = {h.ptr : h \in InHand(t)} \cup {off}
      BY <2>6, <3>1
    <3>3. \A s \in Threads \ {t} : Claimed(s)' = Claimed(s)
      BY <2>4, <2>5 DEF Claimed
    <3>4. Claimed(t)' = {h.ptr : h \in InHand(t)'} \cup Returning(t)'
      BY DEF Claimed
    <3>5. Claimed(t) = {h.ptr : h \in InHand(t)} \cup Returning(t)
      BY DEF Claimed
    <3>6. Claimed(t)' = Claimed(t) \cup {off}
      BY <2>5, <3>2, <3>4, <3>5
    <3> QED
      BY <3>3, <3>6
  <2>8. \A s \in Threads : off \notin Claimed(s)
    BY <2>1 DEF ClaimsApart, BlockAt
  <2>9. \A h \in InHand(t) : h.ptr # off
    BY <2>8 DEF Claimed
  <2>10. \A s \in Threads : off \notin Returning(s)
    BY <2>8 DEF Claimed
  <2>11. \A s \in Threads : \A p \in Claimed(s)' : BlockAt(p)' # {}
    <3>1. ASSUME NEW s \in Threads, NEW p \in Claimed(s) PROVE BlockAt(p)' # {}
      <4>1. BlockAt(p) # {}
        BY DEF ClaimsApart
      <4> QED
        BY <2>1, <4>1 DEF BlockAt
    <3>2. BlockAt(off)' # {}
      <4> DEFINE block == [off |-> off, pages |-> 1, used |-> len[t]]
      <4>1. block \in heap' /\ block.off = off
        BY <2>1
      <4> QED
        BY <4>1 DEF BlockAt
    <3> QED
      BY <2>7, <3>1, <3>2
  <2>12. \A s, u \in Threads : s # u => Claimed(s)' \cap Claimed(u)' = {}
    BY <2>7, <2>8 DEF ClaimsApart
  <2>13. \A s \in Threads : \A g, h \in InHand(s)' : g.ptr = h.ptr => g = h
    <3>1. fresh.ptr = off
      OBVIOUS
    <3> HIDE DEF fresh
    <3>2. \A g, h \in InHand(t)' : g.ptr = h.ptr => g = h
      BY <2>6, <2>9, <3>1 DEF ClaimsApart
    <3>3. ASSUME NEW s \in Threads \ {t} PROVE \A g, h \in InHand(s)' : g.ptr = h.ptr => g = h
      BY <2>4 DEF ClaimsApart
    <3> QED
      BY <3>2, <3>3
  <2>14. \A s \in Threads : \A h \in InHand(s)' : h.ptr \notin Returning(s)'
    BY <2>4, <2>5, <2>6, <2>10 DEF ClaimsApart
  <2>15. \A s \in Threads : new'[s] \in Page => \A h \in holds'[s] : h.ptr # new'[s]
    BY <2>3, <2>6, <2>9 DEF ClaimsApart
  <2> QED
    BY <2>11, <2>12, <2>13, <2>14, <2>15 DEF ClaimsApart
<1>16. ASSUME NEW t \in Threads, AllocHuge(t) PROVE ClaimsApart'
  <2>1. /\ pc[t] = "take" /\ new[t] = Null /\ op[t] # "free" /\ new'[t] \notin Page
        /\ UNCHANGED <<stage, globals, heap, holds, op, arg, len>>
        /\ \A s \in Threads \ {t} : pc'[s] = pc[s] /\ new'[s] = new[s]
        /\ pc'[t] = AfterAlloc(t, new'[t])
    BY <1>16 DEF AllocHuge, Allocated, CallInv, Label
  <2>2. \A s \in Threads \ {t} : InHand(s)' = InHand(s) /\ Returning(s)' = Returning(s)
    BY <2>1, SameHand
  <2>3. InHand(t)' = InHand(t) /\ Returning(t)' = Returning(t)
    <3>1. InHand(t)' = {h \in holds[t] : h.ptr \in Page}
      BY <2>1, HandAfterAlloc
    <3>2. InHand(t) = {h \in holds[t] : h.ptr \in Page}
      BY <2>1 DEF InHand
    <3> QED
      BY <2>1, <3>1, <3>2 DEF Returning
  <2> QED
    BY <2>1, <2>2, <2>3, ApartFrame
<1>17. ASSUME NEW t \in Threads, AllocSpin(t) PROVE ClaimsApart'
  BY <1>17, ApartFrame, SameHand DEF AllocSpin
<1>18. ASSUME NEW t \in Threads, NoTree(t) PROVE ClaimsApart'
  BY <1>18 DEF NoTree
<1>19. ASSUME NEW t \in Threads, SizeOld(t) PROVE ClaimsApart'
  BY <1>19, ApartFrame, SameHand DEF SizeOld
<1>20. ASSUME NEW t \in Threads, Copy(t) PROVE ClaimsApart'
  BY <1>20, ApartFrame, SameHand DEF Copy
<1>21. ASSUME NEW t \in Threads, Zero(t) PROVE ClaimsApart'
  <2>1. /\ pc[t] = "zero" /\ op[t] = "calloc" /\ UNCHANGED <<heap, holds, op, arg, len, new>>
        /\ \A s \in Threads \ {t} : pc'[s] = pc[s]
    BY <1>21 DEF Zero, CallInv, Label
  <2>2. \A s \in Threads : InHand(s)' = InHand(s) /\ Returning(s)' = Returning(s)
    BY <2>1, SameHand, SameHandAtReturn
  <2> QED
    BY <2>1, <2>2, ApartFrame
<1>22. ASSUME NEW t \in Threads, FreeBlock(t) PROVE ClaimsApart'
  <2>1. /\ pc[t] = "release" /\ pc' = [pc EXCEPT ![t] = "unlock"]
        /\ UNCHANGED <<op, arg, len, new, holds>>
        /\ \E b \in BlockAt(arg[t]) : heap' = heap \ {b}
    BY <1>22 DEF FreeBlock, Heap!Free
  <2>2. \A s \in Threads \ {t} : InHand(s)' = InHand(s) /\ Returning(s)' = Returning(s)
    BY <2>1, SameHand
  <2>3. Returning(t)' = {} /\ InHand(t)' \subseteq InHand(t)
    BY <2>1 DEF Returning, InHand, Kept
  <2>4. \A s \in Threads : Claimed(s)' \subseteq Claimed(s)
    BY <2>2, <2>3 DEF Claimed
  <2>5. ASSUME arg[t] \in Page PROVE \A s \in Threads : arg[t] \notin Claimed(s)'
    <3>1. CASE op[t] = "free"
      <4>1. arg[t] \in Returning(t)
        BY <2>1, <2>5, <3>1 DEF Returning
      <4> QED
        BY <2>2, <2>3, <2>4, <4>1 DEF ClaimsApart, Claimed
    <3>2. CASE op[t] = "realloc"
      <4>1. PICK g \in holds[t] : g.ptr = arg[t]
        BY <2>1, <3>2 DEF CallInv, Label
      <4>2. new[t] # Null
        BY <2>1, <3>2 DEF CallInv, Label
      <4>3. g \in InHand(t)
        BY <2>1, <2>5, <4>1 DEF InHand
      <4>4. \A h \in InHand(t)' : h.ptr # arg[t]
        BY <2>1, <3>2, <4>1, <4>2 DEF InHand, Kept, ClaimsApart
      <4> QED
        BY <2>3, <2>4, <4>1, <4>3, <4>4 DEF ClaimsApart, Claimed
    <3> QED
      BY <2>1, <3>1, <3>2 DEF CallInv, Label
  <2>6. \A b \in heap : b \in heap' \/ \A s \in Threads : b.off \notin Claimed(s)'
    BY <2>1, <2>5 DEF BlockAt
  <2> QED
    BY <2>1, <2>2, <2>3, <2>6, ApartFrame
<1>23. ASSUME NEW t \in Threads, Unlock(t) PROVE ClaimsApart'
  <2>1. /\ new' = [new EXCEPT ![t] = Null] /\ UNCHANGED heap
        /\ \A s \in Threads \ {t} : /\ holds'[s] = holds[s] /\ pc'[s] = pc[s] /\ op'[s] = op[s]
                                    /\ arg'[s] = arg[s] /\ len'[s] = len[s]
        /\ pc[t] = "unlock" /\ pc'[t] = "idle" /\ op'[t] = "none"
        /\ holds'[t] = IF new[t] = Null THEN holds[t] ELSE Kept(t) \cup {[ptr |-> new[t], size |-> len[t]]}
    BY <1>23 DEF Unlock
  <2>2. \A s \in Threads \ {t} : InHand(s)' = InHand(s) /\ Returning(s)' = Returning(s)
    BY <2>1, SameHand
  <2>3. Returning(t)' = Returning(t)
    BY <2>1 DEF Returning
  <2>4. InHand(t)' = {h \in holds'[t] : h.ptr \in Page}
    BY <2>1 DEF InHand
  <2>5. InHand(t)' = InHand(t)
    <3>1. new[t] = Null => Kept(t) = holds[t]
      BY DEF Kept
    <3> QED
      BY <2>1, <2>4, <3>1 DEF InHand
  <2>6. \A s \in Threads : Claimed(s)' = Claimed(s)
    BY <2>2, <2>3, <2>5 DEF Claimed
  <2>7. \A s \in Threads : InHand(s)' = InHand(s) /\ Returning(s)' = Returning(s)
    BY <2>2, <2>3, <2>5
  <2>8. \A p : BlockAt(p)' = BlockAt(p)
    BY <2>1 DEF BlockAt
  <2>9. \A s \in Threads : new'[s] \in Page => new'[s] = new[s] /\ holds'[s] = holds[s]
    BY <2>1
  <2> QED
    BY <2>6, <2>7, <2>8, <2>9 DEF ClaimsApart
<1>24. CASE DestructorForgets
  BY <1>24 DEF DestructorForgets
<1>25. ASSUME NEW t \in Threads, AllocTorn(t) PROVE ClaimsApart'
  BY <1>25 DEF AllocTorn, Torn, Allocated, AfterAlloc
<1>26. ASSUME NEW t \in Threads, SizeCheck(t) PROVE ClaimsApart'
  BY <1>26, ApartFrame, SameHand DEF SizeCheck
<1>27. ASSUME NEW t \in Threads, SizeTorn(t) PROVE ClaimsApart'
  BY <1>27 DEF SizeTorn, Torn
<1>28. ASSUME NEW t \in Threads, CopyFaults(t) PROVE ClaimsApart'
  BY <1>28 DEF CopyFaults
<1>29. ASSUME NEW t \in Threads, ZeroFaults(t) PROVE ClaimsApart'
  BY <1>29 DEF ZeroFaults
<1>30. ASSUME NEW t \in Threads, FreeCheck(t) PROVE ClaimsApart'
  <2>1. pc[t] = "free" /\ buddy
    BY <1>30 DEF FreeCheck, ArenaUp
  <2>2. UNCHANGED <<heap, holds, op, arg, len, new>> /\ pc' = [pc EXCEPT ![t] = "release"]
    BY <1>30, <2>1 DEF FreeCheck
  <2> QED
    BY <2>1, <2>2, ApartFrame, SameHand
<1>31. ASSUME NEW t \in Threads, FreeTorn(t) PROVE ClaimsApart'
  BY <1>31 DEF FreeTorn, Torn
<1>32. ASSUME NEW t \in Threads, WriteUnder(t) PROVE ClaimsApart'
  BY <1>32, ApartFrame, SameHand DEF WriteUnder
<1> QED
  BY <1>1, <1>2, <1>3, <1>4, <1>5, <1>7, <1>8, <1>9, <1>10, <1>11, <1>12,
     <1>13, <1>14, <1>15, <1>16, <1>17, <1>18, <1>19, <1>20, <1>21, <1>22, <1>23,
     <1>24, <1>25, <1>26, <1>27, <1>28, <1>29, <1>30, <1>31, <1>32
     DEF Next, Lifetime, Request, Run, InitStep, AllocStep, SizeStep, WriteStep, FreeStep

\* What ends the process before its destructors do is a tree that two threads have
\* torn, or the answer to a request larger than the arena.
LEMMA CrashStep ==
  ASSUME ExitInv, Next, stage' = "crashed"
  PROVE  \/ stage \in {"closing", "gone"}
         \/ mutex = "destroyed" /\ torn'
         \/ \E t \in Threads : Under \in {arg[t], new[t]}
<1> SUFFICES ASSUME stage \notin {"closing", "gone"}, ~ (mutex = "destroyed" /\ torn')
             PROVE  \E t \in Threads : Under \in {arg[t], new[t]}
  OBVIOUS
<1> USE PointerFacts
<1>0. stage # "crashed" /\ TypeOK /\ CallInv /\ MutexInv
  BY DEF Next, ExitInv
<1>01. ~ torn'
  <2>1. CASE mutex = "usable"
    BY <1>0, <2>1, StaysWhole
  <2> QED
    BY <1>0, <2>1 DEF TypeOK
<1>02. ~ torn
  BY <1>0, <1>01, NoWayBack
<1>03. ArenaUp /\ KnownInv /\ ClaimsApart
  BY <1>0, <1>02 DEF ExitInv
<1>1. PICK t \in Threads : NoTree(t) \/ SizeOld(t) \/ CopyFaults(t) \/ ZeroFaults(t) \/ FreeBlock(t)
  <2>1. ~ Lifetime
    <3>1. ~ BuddyConstructor /\ ~ LockConstructor /\ ~ LockDestructor /\ ~ DestructorForgets
      BY DEF BuddyConstructor, LockConstructor, LockDestructor, DestructorForgets
    <3>2. ~ DestructorUnmaps
      <4>1. stage = "unlocked" => memblock = "mapped"
        BY <1>03 DEF ExitInv, ExitOrder, ArenaUp
      <4> QED
        BY <4>1 DEF DestructorUnmaps
    <3> QED
      BY <3>1, <3>2 DEF Lifetime
  <2>2. PICK t \in Threads : Request(t) \/ Run(t)
    BY <2>1 DEF Next
  <2>3. ~ Request(t)
    BY <1>0 DEF Request, CallAlloc, CallRealloc, CallFree, Call, WriteUnder
  <2>4. ~ Lock(t) /\ ~ InitStep(t)
    BY <1>0 DEF Lock, InitStep, InitDone, InitPrint, InitTree, InitMap, InitRegister
  <2>5. ~ AllocStep(t)
    BY <1>0, <1>01 DEF AllocStep, AllocCheck, AllocTake, AllocHuge, AllocSpin, AllocTorn, Torn
  <2>6. SizeStep(t) => SizeOld(t)
    BY <1>0, <1>01 DEF SizeStep, SizeCheck, SizeTorn, Torn
  <2>7. FreeStep(t) => FreeBlock(t)
    BY <1>0, <1>01 DEF FreeStep, FreeCheck, FreeTorn, Torn
  <2>8. WriteStep(t) => CopyFaults(t) \/ ZeroFaults(t)
    BY <1>0 DEF WriteStep, Copy, Zero
  <2>9. ~ Unlock(t)
    BY <1>0 DEF Unlock
  <2> QED
    BY <2>2, <2>3, <2>4, <2>5, <2>6, <2>7, <2>8, <2>9 DEF Run
<1>2. arg[t] \in Known \cup {Null} /\ new[t] \in Known \cup {Null}
  BY <1>03 DEF KnownInv
<1>3. pc[t] \notin {"idle", "lock", "init", "map", "register"} => isInit /\ buddy /\ memblock = "mapped"
  BY <1>03 DEF ArenaUp
<1>4. ASSUME arg[t] \in Page, pc[t] \in {"measure", "release"} PROVE BlockAt(arg[t]) # {}
  <2>1. op[t] \in {"free", "realloc"}
    BY <1>0, <1>4 DEF CallInv, Label
  <2>2. CASE op[t] = "free"
    BY <1>03, <1>4, <2>2 DEF Returning, Claimed, ClaimsApart
  <2>3. CASE op[t] = "realloc"
    <3>1. PICK g \in holds[t] : g.ptr = arg[t]
      BY <1>0, <1>4, <2>3 DEF CallInv
    <3>2. g \in InHand(t)
      BY <1>4, <3>1 DEF InHand
    <3> QED
      BY <1>03, <3>1, <3>2 DEF Claimed, ClaimsApart
  <2> QED
    BY <2>1, <2>2, <2>3
<1>5. ~ NoTree(t)
  BY <1>3 DEF NoTree, InTree
<1>6. CASE SizeOld(t)
  <2>1. pc[t] = "measure" /\ BlockAt(arg[t]) = {}
    BY <1>0, <1>6 DEF SizeOld
  <2>2. arg[t] # Null
    BY <1>0, <2>1 DEF CallInv, Label
  <2> QED
    BY <1>2, <1>4, <2>1, <2>2 DEF Known
<1>7. CASE CopyFaults(t)
  <2>1. pc[t] = "copy" /\ arg[t] # Null /\ new[t] # Null
    BY <1>0, <1>7 DEF CopyFaults, CallInv, Label
  <2>2. arg[t] \notin Page \/ new[t] \notin Page
    BY <1>3, <1>7, <2>1 DEF CopyFaults
  <2> QED
    BY <1>2, <2>1, <2>2 DEF Known
<1>8. CASE ZeroFaults(t)
  <2>1. pc[t] = "zero" /\ new[t] # Null
    BY <1>03, <1>8 DEF ZeroFaults, KnownInv
  <2>2. new[t] \notin Page
    BY <1>3, <1>8, <2>1 DEF ZeroFaults
  <2> QED
    BY <1>2, <2>1, <2>2 DEF Known
<1>9. CASE FreeBlock(t)
  <2>1. pc[t] = "release" /\ BlockAt(arg[t]) = {}
    BY <1>0, <1>9 DEF FreeBlock
  <2>2. arg[t] # Null
    BY <1>0, <1>03, <2>1 DEF CallInv, Label, KnownInv
  <2> QED
    BY <1>2, <1>4, <2>1, <2>2 DEF Known
<1> QED
  BY <1>1, <1>5, <1>6, <1>7, <1>8, <1>9

\* At the start there is nothing to be apart.
LEMMA ExitInit == ASSUME Init PROVE ExitInv
<1>1. TypeOK /\ CallInv
  BY ZallocInit DEF ZallocInv
<1>2. ExitOrder /\ MutexInv
  BY DEF Init, ExitOrder, GoneStaysGone, MutexInv, OneAtATime, Inside
<1>3. ArenaUp /\ KnownInv
  BY PointerFacts DEF Init, ArenaUp, KnownInv, NoPages
<1>4. \A t \in Threads : InHand(t) = {} /\ Returning(t) = {}
  BY PointerFacts DEF Init, InHand, Returning, Kept
<1>5. \A t \in Threads : Claimed(t) = {} /\ new[t] \notin Page
  BY <1>4, PointerFacts DEF Claimed, Init
<1> QED
  BY <1>1, <1>2, <1>3, <1>4, <1>5 DEF ExitInv, ClaimsApart

LEMMA ExitStutter == ASSUME ExitInv, UNCHANGED vars PROVE ExitInv'
<1> USE DEF vars, globals, tree, lock, frame
<1>1. TypeOK' /\ ExitOrder' /\ MutexInv' /\ CallInv'
  BY DEF ExitInv, TypeOK, ExitOrder, GoneStaysGone, MutexInv, OneAtATime, Inside, CallInv, Label
<1>2. ASSUME stage' \notin {"closing", "gone", "crashed"}, ~ torn' PROVE ArenaUp' /\ KnownInv'
  BY <1>2 DEF ExitInv, ArenaUp, KnownInv, NoPages
<1>3. ASSUME stage' \notin {"closing", "gone", "crashed"}, ~ torn' PROVE ClaimsApart'
  <2>1. ClaimsApart /\ \A s \in Threads : InHand(s)' = InHand(s) /\ Returning(s)' = Returning(s)
    BY <1>3, SameHand DEF ExitInv
  <2> QED
    BY <2>1, ApartFrame
<1> QED
  BY <1>1, <1>2, <1>3 DEF ExitInv

\* However many threads still run when the destructors do: where init_ succeeds, each
\* has pages of its own and finds the arena for as long as there is one.
THEOREM ExitInvariance == ASSUME InitOutcomes = {"ok"} PROVE Spec => []ExitInv
<1>1. Init => ExitInv
  BY ExitInit
<1>2. ExitInv /\ [Next]_vars => ExitInv'
  <2>1. ASSUME ExitInv, Next PROVE ExitInv'
    <3>1. TypeOK' /\ CallInv'
      BY <2>1, TypeStep, CallStep DEF ExitInv, ExitOrder
    <3>2. ExitOrder' /\ MutexInv'
      BY <2>1, ExitStep, MutexStep
    <3>3. stage' \notin {"closing", "gone", "crashed"} /\ ~ torn' => ClaimsApart' /\ ArenaUp' /\ KnownInv'
      BY <2>1, ApartStep, ArenaStep
    <3> QED
      BY <3>1, <3>2, <3>3 DEF ExitInv
  <2> QED
    BY <2>1, ExitStutter
<1> QED
  BY <1>1, <1>2, PTL DEF Spec

\* Where init_ succeeds, the arena is not set up again after its destructor, with any
\* number of threads that still run.
THEOREM Finality == ASSUME InitOutcomes = {"ok"} PROVE Spec => []GoneStaysGone
<1>1. ExitInv => GoneStaysGone
  BY DEF ExitInv, ExitOrder
<1> QED
  BY <1>1, ExitInvariance, PTL

\* Where init_ succeeds, no assert of the tree fails and nothing outside the mapping is
\* touched before the arena goes, but after two threads were in the tree together, their
\* mutex destroyed, or by the answer to a request larger than the arena.
THEOREM CrashesHaveCauses == ASSUME InitOutcomes = {"ok"} PROVE Spec => CrashHasCause
<1> DEFINE Caused == stage' = "crashed" =>
                       \/ stage \in {"closing", "gone"}
                       \/ mutex = "destroyed" /\ torn'
                       \/ \E t \in Threads : Under \in {arg[t], new[t]}
<1>1. ExitInv /\ [Next]_vars => [Caused]_vars
  BY CrashStep
<1> QED
  BY <1>1, ExitInvariance, PTL DEF Spec, CrashHasCause
=============================================================================
