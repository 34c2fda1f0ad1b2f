----------------------------- MODULE ZallocProps ----------------------------
(***************************************************************************)
(* What makes the malloc of the library correct: the properties of module  *)
(* Zalloc.                                                                 *)
(***************************************************************************)
EXTENDS Zalloc

Pointers == Page \cup {Null, Wild, Under, Behind}
Lengths  == Sizes \cup Oversize \cup {0}

\* Every variable keeps its type.
TypeOK ==
  /\ stage \in {"start", "arena", "running", "unlocked", "closing", "gone", "crashed"}
  /\ isInit \in BOOLEAN /\ isDeinit \in BOOLEAN /\ buddy \in BOOLEAN
  /\ memblock \in {"null", "failed", "mapped", "unmapped"} /\ handlers \in 0 .. 1
  /\ heap \subseteq [off : Page, pages : {1}, used : Sizes] /\ torn \in BOOLEAN
  /\ mem \in [Page -> [by : Threads \cup {Nobody}, bytes : Lengths]]
  /\ mutex \in {"usable", "destroyed"} /\ owner \in Threads \cup {Nobody}
  /\ pc \in [Threads -> {"idle", "lock", "init", "stuck", "map", "register", "alloc", "take",
                         "spin", "size", "measure", "copy", "zero", "free", "release", "unlock"}]
  /\ op \in [Threads -> {"none", "malloc", "calloc", "realloc", "free"}]
  /\ arg \in [Threads -> Pointers] /\ new \in [Threads -> Pointers]
  /\ len \in [Threads -> Lengths] /\ old \in [Threads -> Lengths]
  /\ then \in [Threads -> {"idle", "alloc", "size", "free"}]
  /\ holds \in [Threads -> SUBSET [ptr : Pointers, size : Lengths]]

\* Thread t executes code of the allocator that the mutex is to protect.
Inside(t) == pc[t] \notin {"idle", "lock"}

\* "Currently bolt-neck by one mutex" (buddy_alloc.c:38): at any time one thread
\* at most works on the tree and the globals of the arena.
OneAtATime == \A s, t \in Threads : Inside(s) /\ Inside(t) => s = t

\* No page is held twice, by one thread or by two.
SoleHolder ==
  \A s, t \in Threads : \A g \in holds[s], h \in holds[t] :
    g.ptr \in Page /\ g.ptr = h.ptr => s = t /\ g = h

\* The blocks that somebody holds, or that a call is handing out or taking back:
\* realloc still counts the old block until it has freed it.
InHand(t) ==
  {h \in (IF pc[t] = "unlock" THEN Kept(t) ELSE holds[t]) : h.ptr \in Page}
  \cup (IF new[t] \in Page THEN {[ptr |-> new[t], size |-> len[t]]} ELSE {})
Returning(t) == IF op[t] = "free" /\ pc[t] # "unlock" THEN {arg[t]} \cap Page ELSE {}

\* The tree records exactly the blocks in hand, with the sizes that were asked
\* for: no call leaks a block, and none frees one under its holder (realloc frees
\* the old block only once the new one is there).  What a call recorded before there
\* was a mapping is gone with the tree of that time.
Accounted ==
  isInit /\ stage \notin {"gone", "crashed"} =>
    LET inHand    == UNION {InHand(t) : t \in Threads}
        returning == UNION {Returning(t) : t \in Threads}
        recorded  == {[ptr |-> b.off, size |-> b.used] : b \in heap}
    IN /\ inHand \subseteq recorded
       /\ \A r \in recorded \ inHand : r.ptr \in returning

\* A step leaves alone what is in the blocks that somebody holds.  Only a request
\* larger than the arena spoils them, whose answer is one byte before the arena:
\* realloc itself then copies over the start of page 0, calloc clears everything, and
\* so may the client that has the answer.
Overrunning(t, p) ==
  \/ \E h \in holds[t] : h.ptr = Under
  \/ new[t] = Under /\ (op[t] = "realloc" => p = 0)
BytesStay ==
  \A t \in Threads : \A h \in holds[t] \cap holds'[t] :
    h.ptr \in Page /\ mem'[h.ptr] # mem[h.ptr] => \E s \in Threads : Overrunning(s, h.ptr)

\* The block that realloc returns starts with the bytes of the old one, as many as
\* fit, unless such a client has written over one of the two.
NoneUnder == \A s \in Threads : arg[s] # Under /\ \A h \in holds[s] : h.ptr # Under
CopyReady(t) == NoneUnder => mem[new[t]] = Beginning(mem[arg[t]], len[t])
Copied(t) ==
  pc[t] = "unlock" /\ op[t] = "realloc" /\ new[t] \in Page /\ arg[t] \in Page => CopyReady(t)

\* So blocks keep their contents, at any place and through every realloc.
Contents == [][BytesStay /\ \A t \in Threads : Copied(t)]_vars

\* A step takes a block off the tree for its holder, or while nobody holds it.
OnlyFreedLeave ==
  \A b \in heap \ heap' :
    \/ \E t \in Threads : pc[t] = "release" /\ arg[t] = b.off
    \/ \A t \in Threads : b.off \notin {h.ptr : h \in holds[t]}

\* Only the call that frees a block takes it off the tree while somebody holds it:
\* however often init_ runs, and clears the tree, it does so before the first
\* pointer into the arena was handed out.
TreeKeepsBlocks == [][OnlyFreedLeave]_vars

\* The process fails in the allocator for one of three causes: the arena is gone or
\* going; the mutex is destroyed and two threads were in the tree together; or somebody
\* has the answer to a request larger than the arena.
CrashHasCause ==
  [][stage' = "crashed" =>
       \/ stage \in {"closing", "gone"}
       \/ mutex = "destroyed" /\ torn'
       \/ \E t \in Threads : Under \in {arg[t], new[t]}]_vars

\* Once the destructor has run, the arena is never set up again: late calls find
\* isInit set and no tree.
GoneStaysGone == stage = "gone" => ~ buddy /\ memblock # "mapped"

\* A request of a size that fits gets NULL for as long as there is no arena.
FailedInitGivesNull ==
  \A t \in Threads : pc[t] = "unlock" /\ len[t] \in Sizes /\ ~ isInit => new[t] = Null

\* Whoever has the mutex gives it back, on every path through a call, unless the
\* process fails, the arena is full and the search of buddy_alloc never ends, or
\* the first print of init_ allocates: that can be only before main(), however often
\* set-up then fails and is tried again under the mutex.
LockReleased ==
  owner # Nobody ~>
    \/ owner = Nobody \/ stage = "crashed"
    \/ \E t \in Threads : pc[t] = "spin"
    \/ \E t \in Threads : pc[t] = "stuck" /\ stage \in {"start", "arena"}
-----------------------------------------------------------------------------
(* The inductive invariant, for a process whose other threads have ended when its *)
(* destructors run (~ LateThreads).                                               *)

\* Where the call of t goes on, and for init_, once that is done.
Label(t) == IF pc[t] \in {"init", "stuck", "map", "register"} THEN then[t] ELSE pc[t]

\* Outside main() one thread runs, in it the one that has the mutex.
LockInv ==
  /\ OneAtATime
  /\ stage \in {"start", "arena", "unlocked", "closing", "gone"} =>
       \A t \in Threads \ {Main} : pc[t] = "idle"
  /\ stage = "closing" => pc[Main] = "idle"
  /\ stage \in {"start", "arena", "running"} => mutex = "usable"
  /\ stage = "running" => \A t \in Threads : Inside(t) => owner = t
  /\ ~ torn

\* What a call has in its locals, by how far it has come.
CallInv ==
  \A t \in Threads :
    /\ Label(t) = "idle" => op[t] = "none" /\ arg[t] = Null /\ new[t] = Null
    /\ Label(t) # "idle" => op[t] # "none"
    /\ Label(t) \in {"alloc", "take", "spin"} => op[t] # "free"
    /\ Label(t) \in {"lock", "alloc", "take", "spin"} => new[t] = Null
    /\ Label(t) \in {"size", "measure", "copy"} => op[t] = "realloc"
    /\ Label(t) = "zero" => op[t] = "calloc"
    /\ Label(t) \in {"free", "release"} => op[t] \in {"free", "realloc"}
    /\ Label(t) \in {"size", "measure", "copy", "free", "release"} /\ op[t] = "realloc" =>
         new[t] # Null /\ arg[t] # Null
    /\ op[t] \in {"malloc", "calloc"} => arg[t] = Null
    /\ op[t] = "free" => new[t] = Null
    /\ op[t] = "realloc" /\ arg[t] # Null => \E h \in holds[t] : h.ptr = arg[t]

\* Before init_ has succeeded there is no pointer into the arena, and the tree that a
\* failed init_ left behind may be thrown away.
NoPages ==
  \A t \in Threads :
    new[t] \notin Page /\ arg[t] \notin Page /\ \A h \in holds[t] : h.ptr \notin Page
SetUpInv ==
  /\ ~ isInit => handlers = 0 /\ NoPages
  /\ isInit /\ stage \notin {"closing", "gone", "crashed"} => memblock = "mapped"
  /\ memblock = "mapped" => buddy /\ (isInit \/ \E t \in Threads : pc[t] = "register")
  /\ stage = "closing" => memblock # "mapped"
  /\ memblock = "unmapped" =>
       isInit /\ stage \in {"closing", "gone", "crashed"} /\ (stage = "gone" => ~ buddy)
  /\ \A t \in Threads :
       /\ pc[t] \in {"map", "register"} => buddy /\ ~ isInit /\ heap = {}
       /\ pc[t] = "register" => memblock = "mapped"
       /\ new[t] \in Page => memblock = "mapped"
       /\ InTree(t) => buddy

\* No page is claimed twice: by a holder, by a call that hands it out, by one that
\* takes it back.
ClaimInv ==
  /\ SoleHolder
  /\ \A s, t \in Threads : new[t] \in Page => \A h \in holds[s] : h.ptr # new[t]
  /\ \A t \in Threads : \A p \in Returning(t) : \A s \in Threads :
       /\ p # new[s] /\ \A h \in holds[s] : h.ptr # p
       /\ s # t => p \notin Returning(s)

\* The tree has a block for each claim, and no other.
Recorded == {[ptr |-> b.off, size |-> b.used] : b \in heap}
TreeInv ==
  /\ \A b, c \in heap : b.off = c.off => b = c
  /\ \A t \in Threads :
       /\ InHand(t) \subseteq Recorded
       /\ \A p \in Returning(t) : BlockAt(p) # {}
  /\ isInit /\ stage \notin {"gone", "crashed"} =>
       \A r \in Recorded : \E t \in Threads : r \in InHand(t) \/ r.ptr \in Returning(t)

\* What a client wrote is there, or what spoilt it; realloc's copy waits in the new
\* block while the old one is freed.
Written(t) ==
  \A h \in holds[t] : h.ptr \in Page => mem[h.ptr] \in {[by |-> t, bytes |-> h.size], Foreign}
ContentInv ==
  \A t \in Threads :
    /\ Written(t)
    /\ op[t] = "realloc" /\ new[t] \in Page /\ arg[t] \in Page =>
         /\ pc[t] = "copy" => \E h \in holds[t] : h.ptr = arg[t] /\ h.size = old[t]
         /\ Label(t) \in {"free", "release", "unlock"} => CopyReady(t)

\* All of it together: whatever is called in whatever order, and however often set-up
\* fails, the locks, locals, claims, tree and contents agree in every state.
ZallocInv == TypeOK /\ LockInv /\ CallInv /\ SetUpInv /\ ClaimInv /\ TreeInv /\ ContentInv

\* With late threads, and where init_ succeeds: it has done so before there is a
\* second thread, and never runs again.
ExitOrder ==
  /\ GoneStaysGone
  /\ stage = "closing" => memblock # "mapped"
  /\ stage \in {"start", "arena"} => \A t \in Threads \ {Main} : pc[t] = "idle"
  /\ stage = "arena" => isInit \/ pc[Main] \in {"init", "map", "register"}
  /\ stage \in {"running", "unlocked", "closing", "gone"} => isInit
  /\ \A t \in Threads : pc[t] \in {"map", "register"} => ~ isInit
  /\ ~ isInit => handlers = 0

\* For as long as there is a mutex, it keeps threads apart and the tree whole.
MutexInv ==
  /\ stage \in {"start", "arena", "running"} => mutex = "usable"
  /\ mutex = "usable" =>
       /\ OneAtATime /\ ~ torn
       /\ stage \notin {"start", "arena", "crashed"} =>
            \A t \in Threads : Inside(t) => owner = t

\* The pages that thread t may use, or is giving back: its own, and on the tree.
\* A block that realloc has freed counts no more, though its call has not returned.
Claimed(t) == {h.ptr : h \in InHand(t)} \cup Returning(t)
ClaimsApart ==
  /\ \A s, t \in Threads : s # t => Claimed(s) \cap Claimed(t) = {}
  /\ \A t \in Threads : \A g, h \in InHand(t) : g.ptr = h.ptr => g = h
  /\ \A t \in Threads : \A h \in InHand(t) : h.ptr \notin Returning(t)
  /\ \A t \in Threads : new[t] \in Page => \A h \in holds[t] : h.ptr # new[t]
  /\ \A t \in Threads : \A p \in Claimed(t) : BlockAt(p) # {}

\* A call that works on the arena finds it; pointers are the arena's, or the answer to a
\* request larger than it, and not NULL where a call needs a block.
ArenaUp ==
  /\ isInit => buddy /\ memblock = "mapped"
  /\ ~ isInit => NoPages
  /\ \A t \in Threads :
       /\ pc[t] \in {"idle", "lock", "init", "map", "register"} \/ isInit
       /\ pc[t] \in {"map", "register"} => buddy
       /\ pc[t] = "register" => memblock = "mapped"
Known == Page \cup {Under}
KnownInv ==
  \A t \in Threads :
    /\ \A h \in holds[t] : h.ptr \in Known
    /\ {arg[t], new[t]} \subseteq Known \cup {Null}
    /\ op[t] = "free" => arg[t] # Null
    /\ pc[t] = "zero" => new[t] # Null

\* Several threads may be inside once the mutex is destroyed: until the arena is gone,
\* or two are in the tree together, each still works on pages of its own.
ExitInv ==
  /\ TypeOK /\ ExitOrder /\ MutexInv /\ CallInv
  /\ stage \notin {"closing", "gone", "crashed"} /\ ~ torn => ClaimsApart /\ ArenaUp /\ KnownInv

=============================================================================
