------------------------------ MODULE Registry ------------------------------
(***************************************************************************)
(* src/handler.c on the ring lists of inc/common/mini-clist.h: handlers    *)
(* are appended at the end, taken off, and looked up by walking along n.   *)
(*                                                                         *)
(* There is no lock.  handler_register is called by constructors and, when *)
(* the constructor of the arena could not set it up, by init_ within some  *)
(* later call: by the walking thread itself (test_all of src/zalloc.c      *)
(* calls h->malloc in its loop), or by another one.  One thread registers  *)
(* at a time: constructors run alone, and init_ then has lock_alloc.  Its  *)
(* stores reach a walking thread in any order that the compiler likes.     *)
(* handler_unregister is modelled as called between two steps of the walk, *)
(* for any handler but the one that the loop is at ("<item> must not be    *)
(* modified during the loop").                                             *)
(***************************************************************************)
EXTENDS Integers, FiniteSets

CONSTANTS
  Handler,     \* the struct zalloc of the program, each with its name
  Unknown,     \* a name that no handler has
  ListHead,        \* `handlers`, the head of the list
  Nil,         \* NULL
  Idle,        \* no walk is going on
  MaxChanges   \* bound: handlers registered and taken off

ASSUME RegistryAssumption ==
  /\ IsFiniteSet(Handler) /\ MaxChanges \in Nat
  /\ Handler \cap {Unknown, ListHead, Nil, Idle} = {}
  /\ Unknown \notin {ListHead, Nil, Idle} /\ ListHead \notin {Nil, Idle} /\ Nil # Idle

Node == Handler \cup {ListHead}

VARIABLES
  n, p,     \* struct list of every node
  adding,   \* the handler that is being registered, or Nil
  todo,     \* stores of its registration that a reader cannot see yet
  at,       \* where the loop of handler_get is; Nil when it has followed NULL
  goal,     \* the name it looks for
  seen,     \* handlers it has visited
  since,    \* handlers that were on the list when it began, and still are
  changes

ring  == <<n, p>>
write == <<adding, todo>>
walk  == <<at, goal, seen, since>>
registryVars == <<ring, write, walk, changes>>

\* The list read along p, the way no loop of the code goes: the handlers from the
\* last one to the first, and then its head.
FromEnd ==
  LET met[k \in 0 .. Cardinality(Handler)] ==
        IF k = 0 THEN p[ListHead]
        ELSE IF met[k - 1] \in Handler THEN p[met[k - 1]] ELSE met[k - 1]
  IN  met

\* The handlers on the list.
Members == {FromEnd[k] : k \in DOMAIN FromEnd} \cap Handler

\* LIST_HEAD_INIT; a handler that was never registered has static zeros.
RegistryInit ==
  /\ n = [x \in Node |-> IF x = ListHead THEN ListHead ELSE Nil] /\ p = n
  /\ adding = Nil /\ todo = {}
  /\ at = Idle /\ goal = Unknown /\ seen = {} /\ since = {} /\ changes = 0

-----------------------------------------------------------------------------
(* handler_register: LIST_ADDQ *)

\* Slips for RegisterBegin: LIST_ADD, and a registration without its last store.
RegisterFront(h) ==
  /\ changes < MaxChanges /\ changes' = changes + 1
  /\ adding = Nil /\ h \notin Members
  /\ adding' = h /\ todo' = {"reach", "end"}
  /\ p' = [p EXCEPT ![h] = ListHead, ![IF n[ListHead] = ListHead THEN ListHead ELSE n[ListHead]] = h]
  /\ UNCHANGED <<n, walk>>
RegisterOpen(h) ==
  /\ changes < MaxChanges /\ changes' = changes + 1
  /\ adding = Nil /\ h \notin Members
  /\ adding' = h /\ todo' = {"reach"}
  /\ p' = [p EXCEPT ![h] = p[ListHead], ![ListHead] = h]
  /\ UNCHANGED <<n, walk>>

\* el->p = lh->p, lh->p = el: no loop follows p.  A handler is registered once.
RegisterBegin(h) ==
  /\ changes < MaxChanges /\ changes' = changes + 1
  /\ adding = Nil /\ h \notin Members
  /\ adding' = h /\ todo' = {"reach", "end"}
  /\ p' = [p EXCEPT ![h] = p[ListHead], ![ListHead] = h]
  /\ UNCHANGED <<n, walk>>

\* el->p->n = el
RegisterReach ==
  /\ "reach" \in todo
  /\ n' = [n EXCEPT ![p[adding]] = adding]
  /\ todo' = todo \ {"reach"}
  /\ UNCHANGED <<p, adding, walk, changes>>

\* el->n = lh
RegisterEnd ==
  /\ "end" \in todo
  /\ n' = [n EXCEPT ![adding] = ListHead]
  /\ todo' = todo \ {"end"}
  /\ UNCHANGED <<p, adding, walk, changes>>

RegisterReturn ==
  /\ adding # Nil /\ todo = {}
  /\ adding' = Nil
  /\ UNCHANGED <<ring, todo, walk, changes>>

-----------------------------------------------------------------------------
(* handler_unregister: LIST_DEL, LIST_INIT *)

Bypassed(x) == [n EXCEPT ![p[x]] = n[x]]
Rejoined(x) == [p EXCEPT ![n[x]] = p[x]]

\* Slip for Alone: no LIST_INIT.
StillLinked(f, x) == f
Alone(f, x) == [f EXCEPT ![x] = x]

\* One that has been taken off already points at itself, and nothing changes.
Unregister(h) ==
  /\ changes < MaxChanges /\ changes' = changes + 1
  /\ adding = Nil /\ n[h] # Nil /\ at # h
  /\ n' = Alone(Bypassed(h), h) /\ p' = Alone(Rejoined(h), h)
  /\ seen' = seen \ {h} /\ since' = since \ {h}
  /\ UNCHANGED <<write, at, goal>>

-----------------------------------------------------------------------------
(* handler_get: list_for_each_entry over the handlers, comparing names *)

WalkStart(name) ==
  /\ at = Idle
  /\ at' = n[ListHead] /\ goal' = name /\ seen' = {} /\ since' = Members \ {adding}
  /\ UNCHANGED <<ring, write, changes>>

Backward(x) == p[x]   \* slip for Onward
Onward(x) == n[x]

WalkNext ==
  /\ at \in Handler /\ at # goal
  /\ at' = Onward(at) /\ seen' = seen \cup {at}
  /\ UNCHANGED <<ring, write, goal, since, changes>>

\* return h, or return 0 at the head.
WalkReturn ==
  /\ at = ListHead \/ at = goal
  /\ at' = Idle /\ goal' = Unknown /\ seen' = {} /\ since' = {}
  /\ UNCHANGED <<ring, write, changes>>

-----------------------------------------------------------------------------
Register == RegisterReach \/ RegisterEnd \/ RegisterReturn
Walk     == WalkNext \/ WalkReturn

\* A walk that has followed NULL ends the process.
RegistryNext ==
  /\ at # Nil
  /\ \/ Register \/ Walk
     \/ \E h \in Handler : RegisterBegin(h) \/ Unregister(h)
     \/ \E name \in Handler \cup {Unknown} : WalkStart(name)

RegistrySpec == RegistryInit /\ [][RegistryNext]_registryVars

\* A thread that registers or walks goes on with it.
RegistryFair ==
  /\ WF_registryVars(Register /\ at # Nil)
  /\ WF_registryVars(Walk)
=============================================================================
