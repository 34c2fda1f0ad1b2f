----------------------------- MODULE SlabProofs -----------------------------
(***************************************************************************)
(* Proofs about Slab, for every slab size, number of slabs in a page and   *)
(* of items in a slab, and wherever the kernel maps pages.                 *)
(***************************************************************************)
EXTENDS SlabProps, SlabSize, Induction

HeaderOrNull == Header \cup {NULL}
Links == [Header -> [next : HeaderOrNull, prev : HeaderOrNull]]

-----------------------------------------------------------------------------
(* Addresses *)

LEMMA Product ==
  ASSUME NEW a \in Nat, NEW b \in Nat
  PROVE  a * b \in Nat /\ (b > 0 => a * b >= a) /\ (a > 0 /\ b > 0 => a * b > 0)
OBVIOUS

LEMMA ProductMonotone ==
  ASSUME NEW a \in Nat, NEW b \in Nat, NEW c \in Nat \ {0}
  PROVE  /\ a < b => a * c + c <= b * c
         /\ a * c = b * c => a = b
OBVIOUS

\* A slab begins within its page, and slabs of pages that lie apart differ.
LEMMA SlabPlaces ==
  ASSUME NEW p \in Bases
  PROVE  /\ p \in SlabsOf(p) /\ SlabsOf(p) \subseteq Header
         /\ \A x \in SlabsOf(p) : x \in Nat /\ p <= x /\ x + S <= p + K * S
<1> USE SlabAssumption
<1>1. p \in Nat /\ p + 0 * S = p /\ 0 \in 0 .. K - 1
  OBVIOUS
<1>2. ASSUME NEW k \in 0 .. K - 1
      PROVE  p + k * S \in Nat /\ p <= p + k * S /\ p + k * S + S <= p + K * S
  BY Product, ProductMonotone
<1>3. \A x \in SlabsOf(p) : x \in Nat /\ p <= x /\ x + S <= p + K * S
  BY <1>2 DEF SlabsOf
<1>4. p \in SlabsOf(p)
  BY <1>1 DEF SlabsOf
<1>5. SlabsOf(p) \subseteq Header
  BY DEF Header
<1> QED
  BY <1>3, <1>4, <1>5

LEMMA HeadersAreNat == Header \subseteq Nat /\ NULL \notin Header /\ NULL \notin Nat
<1>1. Header \subseteq Nat
  BY SlabPlaces DEF Header
<1> QED
  BY <1>1 DEF NULL

LEMMA ApartDisjoint ==
  ASSUME NEW p \in Bases, NEW q \in Bases, p + K * S <= q \/ q + K * S <= p
  PROVE  SlabsOf(p) \cap SlabsOf(q) = {}
<1>1. p \in Nat /\ q \in Nat /\ S \in Nat \ {0} /\ K * S \in Nat
  BY SlabAssumption, Product
<1>2. ASSUME NEW x \in SlabsOf(p), x \in SlabsOf(q) PROVE FALSE
  <2>1. x \in Nat /\ p <= x /\ x + S <= p + K * S /\ q <= x /\ x + S <= q + K * S
    BY <1>2, SlabPlaces
  <2> QED
    BY <1>1, <2>1
<1> QED
  BY <1>2

-----------------------------------------------------------------------------
(* The moves of the lists *)

\* What a move changes, and that links stay links.
LEMMA NextSet ==
  ASSUME NEW l \in Links, NEW x \in Header, NEW y \in HeaderOrNull
  PROVE  /\ SetNext(l, x, y) \in Links
         /\ SetNext(l, x, y)[x] = [next |-> y, prev |-> l[x].prev]
         /\ \A z \in Header \ {x} : SetNext(l, x, y)[z] = l[z]
<1>1. l[x] \in [next : HeaderOrNull, prev : HeaderOrNull]
  BY DEF Links
<1>2. [l[x] EXCEPT !.next = y] = [next |-> y, prev |-> l[x].prev]
  BY <1>1
<1>3. SetNext(l, x, y) = [l EXCEPT ![x] = [next |-> y, prev |-> l[x].prev]]
  BY <1>2 DEF SetNext
<1> QED
  BY <1>1, <1>3 DEF Links

LEMMA PrevSet ==
  ASSUME NEW l \in Links, NEW x \in Header, NEW y \in HeaderOrNull
  PROVE  /\ SetPrev(l, x, y) \in Links
         /\ SetPrev(l, x, y)[x] = [next |-> l[x].next, prev |-> y]
         /\ \A z \in Header \ {x} : SetPrev(l, x, y)[z] = l[z]
<1>1. l[x] \in [next : HeaderOrNull, prev : HeaderOrNull]
  BY DEF Links
<1>2. [l[x] EXCEPT !.prev = y] = [next |-> l[x].next, prev |-> y]
  BY <1>1
<1>3. SetPrev(l, x, y) = [l EXCEPT ![x] = [next |-> l[x].next, prev |-> y]]
  BY <1>2, HeadersAreNat DEF SetPrev
<1> QED
  BY <1>1, <1>3 DEF Links

LEMMA NoPrevSet == \A l, y : SetPrev(l, NULL, y) = l
  BY DEF SetPrev

\* What CutOut does to the two neighbours.
LEMMA Bridged ==
  ASSUME NEW l \in Links, NEW u \in Header, NEW v \in HeaderOrNull, v # u
  PROVE  /\ SetPrev(SetNext(l, u, v), v, u) \in Links
         /\ SetPrev(SetNext(l, u, v), v, u)[u] = [next |-> v, prev |-> l[u].prev]
         /\ v # NULL => SetPrev(SetNext(l, u, v), v, u)[v] = [next |-> l[v].next, prev |-> u]
         /\ \A z \in Header \ {u, v} : SetPrev(SetNext(l, u, v), v, u)[z] = l[z]
<1>1. PICK k : k = SetNext(l, u, v)
  OBVIOUS
<1>2. k \in Links /\ k[u] = [next |-> v, prev |-> l[u].prev] /\ \A z \in Header \ {u} : k[z] = l[z]
  BY <1>1, NextSet
<1>3. CASE v = NULL
  <2>1. SetPrev(k, v, u) = k
    BY <1>3, NoPrevSet
  <2> QED
    BY <1>1, <1>2, <1>3, <2>1
<1>4. CASE v # NULL
  <2>1. v \in Header /\ u \in HeaderOrNull
    BY <1>4 DEF HeaderOrNull
  <2>2. PICK m : m = SetPrev(k, v, u)
    OBVIOUS
  <2>3. m \in Links /\ m[v] = [next |-> k[v].next, prev |-> u] /\ \A z \in Header \ {v} : m[z] = k[z]
    BY <1>2, <2>1, <2>2, PrevSet
  <2>4. k[v] = l[v] /\ m[u] = k[u]
    BY <1>2, <2>1, <2>3
  <2>5. \A z \in Header \ {u, v} : m[z] = l[z]
    BY <1>2, <2>3
  <2> QED
    BY <1>1, <1>2, <2>2, <2>3, <2>4, <2>5
<1> QED
  BY <1>3, <1>4

\* In a list a slab is not its own neighbour, and its neighbours differ.
LEMMA NoShortRing ==
  ASSUME NEW l, NEW h, NEW X \in SUBSET Header, IsList(l, h, X), NEW x \in X
  PROVE  /\ l[x].prev # x /\ l[x].next # x
         /\ l[x].prev # NULL => l[x].prev # l[x].next
<1> USE HeadersAreNat DEF IsList
<1>1. l[x].prev # x
  <2>1. {x} \in SUBSET X /\ {x} # {}
    OBVIOUS
  <2>2. \E z \in {x} : l[z].prev \notin {x}
    BY <2>1
  <2> QED
    BY <2>2
<1>2. l[x].next # x
  BY <1>1
<1>3. ASSUME l[x].prev # NULL, l[x].prev = l[x].next PROVE FALSE
  <2> DEFINE u == l[x].prev
             T == {x, u}
  <2>1. u \in X /\ l[u].prev = x
    BY <1>3
  <2>2. T \in SUBSET X /\ T # {}
    BY <2>1
  <2>3. PICK z \in T : l[z].prev \notin T
    BY <2>2
  <2> QED
    BY <2>1, <2>3
<1> QED
  BY <1>1, <1>2, <1>3

\* No part of what is left is a ring when x leaves: one that had x's neighbours
\* in it would have been one with x.
LEMMA NoRingWithout ==
  ASSUME NEW l, NEW m, NEW X, NEW x \in X,
         \A T \in SUBSET X : T # {} => \E z \in T : l[z].prev \notin T,
         \A z \in X \ {x} : m[z].prev = IF l[z].prev = x THEN l[x].prev ELSE l[z].prev
  PROVE  \A T \in SUBSET (X \ {x}) : T # {} => \E z \in T : m[z].prev \notin T
<1> SUFFICES ASSUME NEW T \in SUBSET (X \ {x}), T # {}
             PROVE  \E z \in T : m[z].prev \notin T
  OBVIOUS
<1> DEFINE U == IF l[x].prev \in T THEN T \cup {x} ELSE T
<1>1. PICK z \in U : l[z].prev \notin U
  <2>1. U \in SUBSET X /\ U # {}
    OBVIOUS
  <2> HIDE DEF U
  <2> QED
    BY <2>1
<1>2. z \in T
  BY <1>1
<1> QED
  BY <1>1, <1>2

\* x leaves its list.
LEMMA LeftList ==
  ASSUME NEW l \in Links, NEW h \in HeaderOrNull, NEW X \in SUBSET Header,
         IsList(l, h, X), NEW x \in X
  PROVE  /\ Left(l, x, h) \in Links /\ LeftHead(l, x, h) \in HeaderOrNull
         /\ IsList(Left(l, x, h), LeftHead(l, x, h), X \ {x})
         /\ Left(l, x, h)[x] = l[x]
         /\ \A z \in Header \ X : Left(l, x, h)[z] = l[z]
<1> DEFINE u == l[x].prev
           v == l[x].next
           m == Left(l, x, h)
           g == LeftHead(l, x, h)
<1> USE HeadersAreNat
<1>1. x \in Header /\ u \in HeaderOrNull /\ v \in HeaderOrNull
  BY DEF Links
<1>2. u # x /\ v # x /\ (u # NULL => u # v)
  BY NoShortRing
<1>3. /\ u = NULL <=> x = h
      /\ u # NULL => u \in X /\ l[u].next = x
      /\ v # NULL => v \in X /\ l[v].prev = x
  BY DEF IsList
<1>4. CASE x = h
  <2>1. m = SetPrev(l, v, NULL) /\ g = v
    BY <1>4 DEF Left, LeftHead, DropHead
  <2>2. /\ m \in Links
        /\ v # NULL => m[v] = [next |-> l[v].next, prev |-> NULL]
        /\ \A z \in Header \ {v} : m[z] = l[z]
    <3> HIDE DEF u, v, m, g
    <3>1. CASE v = NULL
      BY <2>1, <3>1, NoPrevSet
    <3>2. CASE v # NULL
      <4>1. v \in Header /\ NULL \in HeaderOrNull
        BY <1>1, <3>2 DEF HeaderOrNull
      <4> QED
        BY <4>1, <2>1, <3>2, PrevSet
    <3> QED
      BY <3>1, <3>2
  <2> HIDE DEF u, v, m, g
  <2>3. ASSUME NEW z \in X \ {x}
        PROVE  /\ m[z].prev = NULL <=> z = g
               /\ m[z].prev # NULL => m[z].prev \in X \ {x} /\ m[m[z].prev].next = z
               /\ m[z].next # NULL => m[z].next \in X \ {x} /\ m[m[z].next].prev = z
    <3>1. CASE z = v
      <4>1. v # NULL /\ v \in X /\ z = g /\ m[v] = [next |-> l[v].next, prev |-> NULL]
        BY <3>1, <1>1, <2>1, <2>2
      <4>2. ASSUME l[v].next # NULL
            PROVE  l[v].next \in X \ {x} /\ m[l[v].next].prev = v
        <5>1. l[v].next \in X /\ l[l[v].next].prev = v
          BY <4>1, <4>2 DEF IsList
        <5>2. l[v].next # v /\ l[v].next # x
          BY <4>1, <5>1, <1>3, <1>4, NoShortRing DEF u
        <5> QED
          BY <5>1, <5>2, <2>2
      <4> QED
        BY <3>1, <4>1, <4>2
    <3>2. CASE z # v
      <4>1. m[z] = l[z]
        BY <2>2, <3>2
      <4>2. l[z].prev # NULL /\ l[z].prev # x
        BY <1>3, <1>4, <3>2 DEF IsList, u, v
      <4>3. l[z].prev # v => m[l[z].prev] = l[l[z].prev]
        BY <2>2, <4>2 DEF IsList
      <4>4. l[z].prev = v => m[v].next = l[v].next
        BY <2>2, <4>2
      <4>5. m[m[z].prev].next = z
        BY <4>1, <4>2, <4>3, <4>4 DEF IsList
      <4>6. ASSUME l[z].next # NULL PROVE l[z].next \in X \ {x} /\ m[l[z].next] = l[l[z].next]
        <5>1. l[z].next \in X /\ l[l[z].next].prev = z
          BY <4>6 DEF IsList
        <5>2. l[z].next # x /\ l[z].next # v
          BY <5>1, <1>3, <1>4, <4>6 DEF u
        <5> QED
          BY <5>1, <5>2, <2>2
      <4>7. z # g
        BY <2>1, <3>2
      <4> QED
        BY <4>1, <4>2, <4>5, <4>6, <4>7 DEF IsList
    <3> QED
      BY <3>1, <3>2
  <2>4. \A T \in SUBSET (X \ {x}) : T # {} => \E z \in T : m[z].prev \notin T
    <3>1. \A z \in X \ {x} : m[z].prev = IF l[z].prev = x THEN l[x].prev ELSE l[z].prev
      <4> SUFFICES ASSUME NEW z \in X \ {x}
                   PROVE  m[z].prev = IF l[z].prev = x THEN l[x].prev ELSE l[z].prev
        OBVIOUS
      <4>1. CASE z = v
        BY <4>1, <1>3, <1>4, <2>2 DEF u, v
      <4>2. CASE z # v
        <5>1. m[z] = l[z]
          BY <4>2, <2>2
        <5>2. l[z].prev # x
          BY <4>2, <1>1 DEF IsList, v
        <5> QED
          BY <5>1, <5>2
      <4> QED
        BY <4>1, <4>2
    <3> QED
      BY <3>1, NoRingWithout DEF IsList
  <2>5. IF X \ {x} = {} THEN g = NULL ELSE g \in X \ {x}
    <3>1. CASE v # NULL
      BY <3>1, <2>1, <1>2, <1>3
    <3>2. CASE v = NULL
      <4>1. \A T \in SUBSET (X \ {x}) : T = {}
        <5> SUFFICES ASSUME NEW T \in SUBSET (X \ {x}), T # {} PROVE FALSE
          OBVIOUS
        <5>1. PICK z \in X \ {x} : l[z].prev \notin X \ {x}
          BY DEF IsList
        <5>2. l[z].prev # NULL /\ l[z].prev \in X /\ l[l[z].prev].next = z
          BY <5>1, <1>4 DEF IsList
        <5>3. l[z].prev = x
          BY <5>1, <5>2
        <5> QED
          BY <5>2, <5>3, <3>2 DEF v
      <4> QED
        BY <4>1, <3>2, <2>1
    <3> QED
      BY <3>1, <3>2
  <2>6. IsList(m, g, X \ {x})
    BY <2>3, <2>4, <2>5 DEF IsList
  <2>7. m[x] = l[x] /\ \A z \in Header \ X : m[z] = l[z]
    BY <2>2, <1>1, <1>2, <1>3
  <2>8. g \in HeaderOrNull
    BY <2>1, <1>1
  <2> QED
    BY <2>2, <2>6, <2>7, <2>8 DEF m, g
<1>5. CASE x # h
  <2>1. m = SetPrev(SetNext(l, u, v), v, u) /\ g = h
    BY <1>5 DEF Left, LeftHead, CutOut
  <2>2. u \in X /\ u \in Header
    BY <1>3, <1>5
  <2>3. v # NULL => v \in Header /\ u # v
    BY <1>1, <1>2, <2>2 DEF HeaderOrNull
  <2> HIDE DEF u, v, m, g
  <2>4. /\ m \in Links /\ m[u] = [next |-> v, prev |-> l[u].prev]
        /\ v # NULL => m[v] = [next |-> l[v].next, prev |-> u]
        /\ \A z \in Header \ {u, v} : m[z] = l[z]
    <3>1. v \in HeaderOrNull
      BY <1>1
    <3> QED
      BY <2>1, <2>2, <2>3, <3>1, Bridged
  <2>5. \A z \in X \ {x} : m[z].prev = IF l[z].prev = x THEN u ELSE l[z].prev
    <3> SUFFICES ASSUME NEW z \in X \ {x}
                 PROVE  m[z].prev = IF l[z].prev = x THEN u ELSE l[z].prev
      OBVIOUS
    <3>1. l[z].prev = x => z = v
      BY <1>1 DEF IsList, v
    <3>2. z \in Header /\ z # NULL
      OBVIOUS
    <3>3. CASE z = v
      <4>1. m[v].prev = u
        BY <3>2, <3>3, <2>4
      <4>2. l[v].prev = x
        BY <3>2, <3>3, <1>3
      <4> QED
        BY <3>3, <4>1, <4>2
    <3>4. CASE z # v
      <4>1. l[z].prev # x
        BY <3>1, <3>4
      <4>2. m[z].prev = l[z].prev
        <5>1. CASE z = u
          BY <5>1, <2>4
        <5>2. CASE z # u
          BY <3>2, <3>4, <5>2, <2>4
        <5> QED
          BY <5>1, <5>2
      <4> QED
        BY <4>1, <4>2
    <3> QED
      BY <3>3, <3>4
  <2>6. \A z \in X \ {x} : m[z].next = IF z = u THEN v ELSE l[z].next
    <3> SUFFICES ASSUME NEW z \in X \ {x}
                 PROVE  m[z].next = IF z = u THEN v ELSE l[z].next
      OBVIOUS
    <3>1. CASE z = u
      BY <3>1, <2>4
    <3>2. z \in Header /\ z # NULL
      OBVIOUS
    <3>3. CASE z # u /\ z = v
      BY <3>2, <3>3, <2>4
    <3>4. CASE z # u /\ z # v
      BY <3>2, <3>4, <2>4
    <3> QED
      BY <3>1, <3>3, <3>4
  <2>7. ASSUME NEW z \in X \ {x}
        PROVE  /\ m[z].prev = NULL <=> z = g
               /\ m[z].prev # NULL => m[z].prev \in X \ {x} /\ m[m[z].prev].next = z
    <3>1. CASE l[z].prev = x
      <4>1. m[z].prev = u /\ u # NULL /\ u \in X \ {x} /\ z = v
        <5>1. z = v
          BY <3>1, <1>1 DEF IsList, v
        <5>2. m[z].prev = u
          BY <3>1, <2>5
        <5> QED
          BY <5>1, <5>2, <2>2, <1>2, <1>1
      <4>2. m[u].next = z
        BY <4>1, <2>4
      <4>3. z # h
        BY <3>1, <1>1 DEF IsList
      <4> QED
        BY <4>1, <4>2, <4>3, <2>1
    <3>2. CASE l[z].prev # x
      <4>1. m[z].prev = l[z].prev
        BY <3>2, <2>5
      <4>2. m[z].prev = NULL <=> z = g
        BY <4>1, <2>1 DEF IsList
      <4>3. ASSUME l[z].prev # NULL
            PROVE  l[z].prev \in X \ {x} /\ m[l[z].prev].next = z
        <5>1. l[z].prev \in X \ {x} /\ l[l[z].prev].next = z
          BY <3>2, <4>3 DEF IsList
        <5>2. l[z].prev # u
          BY <5>1, <1>3, <2>2
        <5> QED
          BY <5>1, <5>2, <2>6
      <4> QED
        BY <4>1, <4>2, <4>3
    <3> QED
      BY <3>1, <3>2
  <2>8. ASSUME NEW z \in X \ {x}, m[z].next # NULL
        PROVE  m[z].next \in X \ {x} /\ m[m[z].next].prev = z
    <3>1. CASE z = u
      BY <3>1, <2>8, <2>5, <2>6, <1>2, <1>3
    <3>2. CASE z # u
      <4>1. l[z].next \in X /\ l[l[z].next].prev = z /\ m[z].next = l[z].next
        BY <3>2, <2>6, <2>8 DEF IsList
      <4>2. l[z].next # x
        BY <4>1, <3>2 DEF u
      <4> QED
        BY <4>1, <4>2, <2>5
    <3> QED
      BY <3>1, <3>2
  <2>9. \A T \in SUBSET (X \ {x}) : T # {} => \E z \in T : m[z].prev \notin T
    <3>1. \A T \in SUBSET X : T # {} => \E z \in T : l[z].prev \notin T
      BY DEF IsList
    <3>2. \A z \in X \ {x} : m[z].prev = IF l[z].prev = x THEN l[x].prev ELSE l[z].prev
      BY <2>5 DEF u
    <3> QED
      BY <3>1, <3>2, NoRingWithout
  <2>10. IF X \ {x} = {} THEN g = NULL ELSE g \in X \ {x}
    BY <2>1, <2>2, <1>2, <1>5 DEF IsList
  <2>11. IsList(m, g, X \ {x})
    BY <2>7, <2>8, <2>9, <2>10 DEF IsList
  <2>12. m[x] = l[x] /\ \A z \in Header \ X : m[z] = l[z]
    BY <2>2, <2>4, <1>1, <1>2, <1>3
  <2>13. g \in HeaderOrNull
    BY <2>1
  <2> QED
    BY <2>4, <2>11, <2>12, <2>13 DEF m, g
<1> QED
  BY <1>4, <1>5

\* x is put in front of a list.
LEMMA PushedList ==
  ASSUME NEW l \in Links, NEW h \in HeaderOrNull, NEW X \in SUBSET Header,
         IsList(l, h, X), NEW x \in Header \ X, l[x].prev = NULL
  PROVE  /\ Pushed(l, x, h) \in Links
         /\ IsList(Pushed(l, x, h), x, X \cup {x})
         /\ \A z \in Header \ (X \cup {x}) : Pushed(l, x, h)[z] = l[z]
<1> DEFINE k == SetNext(l, x, h)
           m == Pushed(l, x, h)
           Y == X \cup {x}
<1> USE HeadersAreNat
<1>1. k \in Links /\ k[x] = [next |-> h, prev |-> NULL] /\ \A z \in Header \ {x} : k[z] = l[z]
  BY NextSet
<1>2. m = SetPrev(k, h, x)
  BY DEF Pushed
<1> HIDE DEF k, m
<1>3. h # NULL => h \in X /\ l[h].prev = NULL
  BY DEF IsList
<1>4. X = {} <=> h = NULL
  BY DEF IsList
<1>5. /\ m \in Links /\ m[x] = [next |-> h, prev |-> NULL]
      /\ h # NULL => m[h] = [next |-> l[h].next, prev |-> x]
      /\ \A z \in Header \ {x, h} : m[z] = l[z]
  <2>1. CASE h = NULL
    <3>1. m = k
      BY <1>2, <2>1, NoPrevSet
    <3> QED
      BY <3>1, <1>1, <2>1
  <2>2. CASE h # NULL
    <3>1. h \in Header /\ h # x /\ x \in HeaderOrNull
      BY <1>3, <2>2 DEF HeaderOrNull
    <3>2. /\ SetPrev(k, h, x) \in Links
          /\ SetPrev(k, h, x)[h] = [next |-> k[h].next, prev |-> x]
          /\ \A z \in Header \ {h} : SetPrev(k, h, x)[z] = k[z]
      <4>1. k \in Links
        BY <1>1
      <4> QED
        BY <4>1, <3>1, PrevSet
    <3>3. m \in Links /\ m[h] = [next |-> l[h].next, prev |-> x] /\ \A z \in Header \ {h} : m[z] = k[z]
      BY <1>1, <1>2, <3>1, <3>2
    <3> QED
      BY <3>1, <3>3, <1>1
  <2> QED
    BY <2>1, <2>2
<1>6. \A z \in X : m[z].next = l[z].next /\ m[z].prev = IF z = h THEN x ELSE l[z].prev
  BY <1>3, <1>5
<1>7. ASSUME NEW z \in Y
      PROVE  /\ m[z].prev = NULL <=> z = x
             /\ m[z].prev # NULL => m[z].prev \in Y /\ m[m[z].prev].next = z
             /\ m[z].next # NULL => m[z].next \in Y /\ m[m[z].next].prev = z
  <2>1. CASE z = x
    <3>1. m[x].prev = NULL /\ m[x].next = h
      BY <1>5
    <3>2. h # NULL => m[h].prev = x
      BY <1>5
    <3> QED
      BY <2>1, <3>1, <3>2, <1>3
  <2>2. CASE z = h /\ z \in X
    <3>1. m[z].prev = x /\ m[x].next = z
      BY <2>2, <1>5, <1>6
    <3>2. m[z].next = l[z].next
      BY <1>6, <2>2
    <3>3. ASSUME l[z].next # NULL PROVE l[z].next \in X /\ m[l[z].next].prev = z
      <4>1. l[z].next \in X /\ l[l[z].next].prev = z
        BY <2>2, <3>3 DEF IsList
      <4>2. l[z].next # h
        BY <4>1, <1>3, <2>2
      <4> QED
        BY <4>1, <4>2, <1>6
    <3> QED
      BY <2>2, <3>1, <3>2, <3>3
  <2>3. CASE z # h /\ z \in X
    <3>1. m[z].prev = l[z].prev /\ m[z].next = l[z].next
      BY <1>6, <2>3
    <3>2. l[z].prev # NULL /\ l[z].prev \in X /\ l[l[z].prev].next = z
      BY <2>3 DEF IsList
    <3>3. m[l[z].prev].next = z
      BY <3>2, <1>6
    <3>4. ASSUME l[z].next # NULL PROVE l[z].next \in X /\ m[l[z].next].prev = z
      <4>1. l[z].next \in X /\ l[l[z].next].prev = z
        BY <2>3, <3>4 DEF IsList
      <4>2. l[z].next # h
        BY <4>1, <1>3, <2>3
      <4> QED
        BY <4>1, <4>2, <1>6
    <3> QED
      BY <2>3, <3>1, <3>2, <3>3, <3>4
  <2> QED
    BY <2>1, <2>2, <2>3
<1>8. ASSUME NEW T \in SUBSET Y, T # {} PROVE \E z \in T : m[z].prev \notin T
  <2>1. CASE x \in T
    <3>1. m[x].prev = NULL
      BY <1>5
    <3>2. NULL \notin T
      OBVIOUS
    <3> QED
      BY <2>1, <3>1, <3>2
  <2>2. CASE x \notin T
    <3>1. PICK z \in T : l[z].prev \notin T
      BY <1>8, <2>2 DEF IsList
    <3>2. z \in X
      BY <2>2
    <3> QED
      BY <2>2, <3>1, <3>2, <1>6
  <2> QED
    BY <2>1, <2>2
<1>9. IsList(m, x, Y)
  BY <1>7, <1>8 DEF IsList
<1>10. \A z \in Header \ Y : m[z] = l[z]
  BY <1>3, <1>5
<1> QED
  BY <1>5, <1>9, <1>10 DEF m

\* What happens elsewhere does not matter to a list.
LEMMA SameList ==
  ASSUME NEW l, NEW m, NEW h, NEW X, IsList(l, h, X), NULL \notin X, \A x \in X : m[x] = l[x]
  PROVE  IsList(m, h, X)
BY DEF IsList

-----------------------------------------------------------------------------
(* Following the list *)

LEMMA FiniteHeader == IsFiniteSet(Header)
<1>1. ASSUME NEW p \in Bases PROVE IsFiniteSet(SlabsOf(p))
  <2> DEFINE f == [k \in 0 .. K - 1 |-> p + k * S]
  <2>1. f \in Surjection(0 .. K - 1, SlabsOf(p))
    BY DEF Surjection, SlabsOf
  <2>2. IsFiniteSet(0 .. K - 1)
    BY FS_Interval, SlabAssumption
  <2> QED
    BY <2>1, <2>2, FS_Surjection
<1> DEFINE Pages == {SlabsOf(p) : p \in Bases}
<1>2. IsFiniteSet(Pages)
  <2> DEFINE f == [p \in Bases |-> SlabsOf(p)]
  <2>1. f \in Surjection(Bases, Pages)
    BY DEF Surjection
  <2> QED
    BY <2>1, SlabAssumption, FS_Surjection
<1> QED
  BY <1>1, <1>2, FS_UNION DEF Header

Size == Cardinality(Header)

LEMMA SizeIsNat == Size \in Nat
  BY FiniteHeader, FS_CardinalityType DEF Size

\* at[k] is where k steps from a head lead.
LEMMA WalkedSteps ==
  ASSUME NEW h \in HeaderOrNull, link \in Links
  PROVE  /\ Walked(h) \in [0 .. Size -> HeaderOrNull]
         /\ Walked(h)[0] = h
         /\ \A k \in 1 .. Size : Walked(h)[k] =
              IF Walked(h)[k - 1] = NULL THEN NULL ELSE link[Walked(h)[k - 1]].next
<1> DEFINE G == [k \in 1 .. Size |-> [x \in HeaderOrNull |->
                   IF x = NULL THEN NULL ELSE link[x].next]]
<1>1. G \in StepsOn(Size, HeaderOrNull)
  BY DEF Links, HeaderOrNull, StepsOn
<1>2. PICK f : IsRun(f, Size, HeaderOrNull, h, G)
  <2> HIDE DEF G
  <2> QED
    BY <1>1, Iteration, SizeIsNat
<1> f \in [0 .. Size -> HeaderOrNull] /\ f[0] = h /\ \A k \in 1 .. Size : f[k] = G[k][f[k - 1]]
  <2> HIDE DEF G
  <2> QED
    BY <1>2 DEF IsRun
<1>3. \A k \in 1 .. Size : f[k - 1] \in HeaderOrNull
  BY SizeIsNat
<1>4. \A k \in 1 .. Size : f[k] = IF f[k - 1] = NULL THEN NULL ELSE link[f[k - 1]].next
  BY <1>2, <1>3
<1> DEFINE Def(g) == g = [k \in 0 .. Size |->
                            IF k = 0 THEN h
                            ELSE LET x == g[k - 1] IN IF x = NULL THEN NULL ELSE link[x].next]
<1>5. Def(f)
  BY <1>2, <1>4, SizeIsNat
<1>6. Def(Walked(h))
  <2>1. Walked(h) = CHOOSE g : Def(g)
    BY DEF Walked, Size
  <2> HIDE DEF Def
  <2> QED
    BY <1>5, <2>1
<1> DEFINE w == Walked(h)
<1> HIDE DEF Walked, w
<1>7. DOMAIN w = 0 .. Size /\ w = [k \in DOMAIN w |-> w[k]] /\ w[0] = h
  BY <1>6, SizeIsNat DEF w
<1>8. ASSUME NEW k \in 1 .. Size
      PROVE  w[k] = IF w[k - 1] = NULL THEN NULL ELSE link[w[k - 1]].next
  <2>1. k \in 0 .. Size /\ k # 0
    BY SizeIsNat
  <2> QED
    BY <1>6, <2>1 DEF w
<1> HIDE DEF G, Def
<1>9. w \in [0 .. Size -> HeaderOrNull]
  <2> DEFINE P == {k \in 0 .. Size : w[k] \in HeaderOrNull}
  <2>1. 0 \in P
    BY <1>7, SizeIsNat
  <2>2. ASSUME NEW k \in 0 .. Size - 1, k \in P PROVE k + 1 \in P
    <3>1. k + 1 \in 1 .. Size /\ (k + 1) - 1 = k /\ k + 1 \in 0 .. Size
      BY SizeIsNat
    <3>2. w[k + 1] = IF w[k] = NULL THEN NULL ELSE link[w[k]].next
      BY <1>8, <3>1
    <3>3. w[k] \in HeaderOrNull
      BY <2>2
    <3>4. w[k + 1] \in HeaderOrNull
      BY <3>2, <3>3 DEF Links, HeaderOrNull
    <3> QED
      BY <3>1, <3>4
  <2> HIDE DEF P
  <2>3. \A k \in 0 .. Size - 1 : k \in P => k + 1 \in P
    BY <2>2
  <2>4. \A k \in 0 .. Size : k \in P
    BY <2>1, <2>3, InductionTo, SizeIsNat
  <2>5. \A k \in 0 .. Size : w[k] \in HeaderOrNull
    BY <2>4 DEF P
  <2> QED
    BY <1>7, <2>5
<1> QED
  BY <1>7, <1>8, <1>9 DEF w

\* Following a list meets its slabs, each of them once and in order, and no other.
LEMMA ChainOfList ==
  ASSUME NEW h \in HeaderOrNull, link \in Links, NEW X \in SUBSET Header, IsList(link, h, X)
  PROVE  \E n \in Nat :
           /\ Chain(h) \in [1 .. n -> X]
           /\ \A x \in X : \E i \in 1 .. n : Chain(h)[i] = x
           /\ \A i, j \in 1 .. n : Chain(h)[i] = Chain(h)[j] => i = j
           /\ \A i \in 1 .. n :
                link[Chain(h)[i]].prev = IF i = 1 THEN NULL ELSE Chain(h)[i - 1]
<1> DEFINE at == Walked(h)
<1> USE HeadersAreNat, SizeIsNat
<1>1. /\ at \in [0 .. Size -> HeaderOrNull] /\ at[0] = h
      /\ \A k \in 1 .. Size : at[k] = IF at[k - 1] = NULL THEN NULL ELSE link[at[k - 1]].next
  BY WalkedSteps
<1>2. Chain(h) = [i \in 1 .. Cardinality({k \in 0 .. Size : at[k] # NULL}) |-> at[i - 1]]
  BY <1>1 DEF Chain
<1> HIDE DEF at
<1>3. \A k \in 0 .. Size : at[k] # NULL => at[k] \in X
  <2> DEFINE P == {k \in 0 .. Size : at[k] # NULL => at[k] \in X}
  <2>1. 0 \in P
    BY <1>1 DEF IsList
  <2>2. ASSUME NEW k \in 0 .. Size - 1, k \in P PROVE k + 1 \in P
    <3>1. at[k + 1] = IF at[k] = NULL THEN NULL ELSE link[at[k]].next
      BY <1>1
    <3>2. at[k] # NULL => at[k] \in X
      BY <2>2
    <3>3. at[k + 1] # NULL => at[k + 1] \in X
      BY <3>1, <3>2 DEF IsList
    <3> QED
      BY <3>3
  <2> HIDE DEF P
  <2>3. \A k \in 0 .. Size - 1 : k \in P => k + 1 \in P
    BY <2>2
  <2>4. \A k \in 0 .. Size : k \in P
    BY <2>1, <2>3, InductionTo
  <2> QED
    BY <2>4 DEF P
\* Behind the first slab, the slab in front is the one visited before.
<1>4. ASSUME NEW k \in 1 .. Size, at[k] # NULL
      PROVE  at[k - 1] # NULL /\ link[at[k]].prev = at[k - 1]
  <2>1. at[k - 1] # NULL /\ at[k] = link[at[k - 1]].next
    BY <1>1, <1>4
  <2> QED
    BY <2>1, <1>3, <1>4 DEF IsList
\* No slab is visited twice.
<1>5. ASSUME NEW i \in 0 .. Size, NEW j \in 0 .. Size, i < j, at[i] = at[j], at[i] # NULL
      PROVE  FALSE
  <2> DEFINE T == {k \in 0 .. Size : at[k] # NULL /\ \E m \in 0 .. Size : k < m /\ at[k] = at[m]}
  <2>1. T \in SUBSET Nat /\ i \in T
    BY <1>5
  <2>2. \A k \in T : k \in 0 .. Size /\ at[k] # NULL /\ \E m \in 0 .. Size : k < m /\ at[k] = at[m]
    OBVIOUS
  <2>3. \A k \in 0 .. Size : at[k] # NULL /\ (\E m \in 0 .. Size : k < m /\ at[k] = at[m]) => k \in T
    OBVIOUS
  <2> HIDE DEF T
  <2>4. PICK k \in T : \A m \in T : k <= m
    BY <2>1, LeastNat
  <2>5. k \in 0 .. Size /\ at[k] # NULL
    BY <2>2
  <2>6. PICK m \in 0 .. Size : k < m /\ at[k] = at[m]
    BY <2>2
  <2>7. m \in 1 .. Size /\ at[m - 1] # NULL /\ link[at[m]].prev = at[m - 1]
    BY <2>5, <2>6, <1>4
  <2>8. CASE k = 0
    <3>1. h \in X /\ link[h].prev = NULL
      BY <2>5, <2>8, <1>1, <1>3 DEF IsList
    <3> QED
      BY <2>6, <2>7, <2>8, <3>1, <1>1
  <2>9. CASE k # 0
    <3>1. k \in 1 .. Size /\ at[k - 1] # NULL /\ link[at[k]].prev = at[k - 1]
      BY <2>5, <2>9, <1>4
    <3>2. k - 1 \in 0 .. Size /\ m - 1 \in 0 .. Size /\ k - 1 < m - 1 /\ at[k - 1] = at[m - 1]
      BY <3>1, <2>6, <2>7
    <3>3. k - 1 \in T
      BY <3>1, <3>2, <2>3
    <3> QED
      BY <3>3, <2>4, <3>1
  <2> QED
    BY <2>8, <2>9
\* The walk ends.
<1>6. \E k \in 0 .. Size : at[k] = NULL
  <2> SUFFICES ASSUME \A k \in 0 .. Size : at[k] # NULL PROVE FALSE
    OBVIOUS
  <2>1. at \in [0 .. Size -> Header]
    BY <1>1 DEF HeaderOrNull
  <2>2. IsFiniteSet(0 .. Size) /\ Cardinality(0 .. Size) = Size + 1
    BY FS_Interval
  <2>3. \E i, j \in 0 .. Size : i # j /\ at[i] = at[j]
    BY <2>1, <2>2, FS_PigeonHole, FiniteHeader DEF Size
  <2>4. PICK i \in 0 .. Size, j \in 0 .. Size : i # j /\ at[i] = at[j]
    BY <2>3
  <2>5. i < j \/ j < i
    BY <2>4
  <2> QED
    BY <2>4, <2>5, <1>5
<1>7. PICK n \in 0 .. Size : at[n] = NULL /\ \A m \in 0 .. Size : at[m] = NULL => n <= m
  <2> DEFINE T == {k \in 0 .. Size : at[k] = NULL}
  <2>1. T \in SUBSET Nat /\ T # {}
    BY <1>6
  <2>2. \E k \in T : \A m \in T : k <= m
    <3> HIDE DEF T
    <3> QED
      BY <2>1, LeastNat
  <2> QED
    BY <2>2
<1>8. \A k \in 0 .. Size : at[k] # NULL <=> k < n
  <2> DEFINE P == {k \in 0 .. Size : n <= k => at[k] = NULL}
  <2>1. 0 \in P
    BY <1>7
  <2>2. ASSUME NEW k \in 0 .. Size - 1, k \in P PROVE k + 1 \in P
    <3>1. CASE n <= k
      <4>1. at[k] = NULL
        BY <2>2, <3>1
      <4>2. k + 1 \in 1 .. Size /\ (k + 1) - 1 = k
        OBVIOUS
      <4>3. at[k + 1] = NULL
        BY <4>1, <4>2, <1>1
      <4> QED
        BY <4>2, <4>3
    <3>2. CASE ~ (n <= k)
      <4>1. n <= k + 1 => n = k + 1
        BY <3>2
      <4>2. n <= k + 1 => at[k + 1] = NULL
        BY <4>1, <1>7
      <4> QED
        BY <4>2
    <3> QED
      BY <3>1, <3>2
  <2> HIDE DEF P
  <2>3. \A k \in 0 .. Size - 1 : k \in P => k + 1 \in P
    BY <2>2
  <2>4. \A k \in 0 .. Size : k \in P
    BY <2>1, <2>3, InductionTo
  <2>5. \A k \in 0 .. Size : n <= k => at[k] = NULL
    BY <2>4 DEF P
  <2> QED
    BY <2>5, <1>7
<1>9. Chain(h) = [i \in 1 .. n |-> at[i - 1]]
  <2>1. {k \in 0 .. Size : at[k] # NULL} = 0 .. n - 1
    BY <1>8
  <2>2. Cardinality(0 .. n - 1) = n
    BY FS_Interval
  <2> QED
    BY <2>1, <2>2, <1>2
<1>10. \A i \in 1 .. n : i - 1 \in 0 .. Size /\ at[i - 1] # NULL /\ at[i - 1] \in X /\ Chain(h)[i] = at[i - 1]
  BY <1>3, <1>8, <1>9
<1>11. Chain(h) \in [1 .. n -> X]
  BY <1>9, <1>10
<1>12. \A i \in 1 .. n : link[Chain(h)[i]].prev = IF i = 1 THEN NULL ELSE Chain(h)[i - 1]
  <2> SUFFICES ASSUME NEW i \in 1 .. n
               PROVE  link[Chain(h)[i]].prev = IF i = 1 THEN NULL ELSE Chain(h)[i - 1]
    OBVIOUS
  <2>1. CASE i = 1
    <3>1. Chain(h)[i] = h /\ h \in X
      BY <2>1, <1>10, <1>1
    <3> QED
      BY <2>1, <3>1 DEF IsList
  <2>2. CASE i # 1
    <3>1. i - 1 \in 1 .. Size /\ i - 1 \in 1 .. n /\ at[i - 1] # NULL
      BY <2>2, <1>10
    <3>2. link[at[i - 1]].prev = at[(i - 1) - 1]
      BY <3>1, <1>4
    <3>3. Chain(h)[i] = at[i - 1] /\ Chain(h)[i - 1] = at[(i - 1) - 1]
      BY <3>1, <1>10
    <3> QED
      BY <2>2, <3>2, <3>3
  <2> QED
    BY <2>1, <2>2
<1>13. ASSUME NEW i \in 1 .. n, NEW j \in 1 .. n, Chain(h)[i] = Chain(h)[j] PROVE i = j
  <2>1. at[i - 1] = at[j - 1] /\ at[i - 1] # NULL /\ i - 1 \in 0 .. Size /\ j - 1 \in 0 .. Size
    BY <1>10, <1>13
  <2>2. ~ (i - 1 < j - 1) /\ ~ (j - 1 < i - 1)
    BY <2>1, <1>5
  <2> QED
    BY <2>2
\* No slab is left out: those left out would begin somewhere.
<1>14. ASSUME NEW x \in X PROVE \E i \in 1 .. n : Chain(h)[i] = x
  <2> DEFINE T == {y \in X : \A i \in 1 .. n : Chain(h)[i] # y}
  <2> SUFFICES ASSUME x \in T PROVE FALSE
    OBVIOUS
  <2>1. T \in SUBSET X /\ T # {}
    OBVIOUS
  <2>2. PICK y \in T : link[y].prev \notin T
    <3> HIDE DEF T
    <3> QED
      BY <2>1 DEF IsList
  <2>3. y \in X /\ \A i \in 1 .. n : Chain(h)[i] # y
    OBVIOUS
  <2>4. CASE link[y].prev = NULL
    <3>1. y = h
      BY <2>3, <2>4 DEF IsList
    <3>2. h # NULL
      BY <2>3, <3>1
    <3>3. 0 < n
      BY <3>2, <1>1, <1>7
    <3>4. Chain(h)[1] = h
      BY <3>3, <1>10, <1>1
    <3> QED
      BY <3>1, <3>3, <3>4, <2>3
  <2>5. CASE link[y].prev # NULL
    <3>1. link[y].prev \in X /\ link[link[y].prev].next = y
      BY <2>3, <2>5 DEF IsList
    <3>2. PICK i \in 1 .. n : Chain(h)[i] = link[y].prev
      BY <3>1, <2>2
    <3>3. at[i - 1] = link[y].prev /\ at[i - 1] # NULL /\ i \in 1 .. Size
      BY <3>2, <1>10
    <3>4. at[i] = y
      BY <3>1, <3>3, <1>1
    <3>5. i < n
      BY <3>3, <3>4, <2>3, <1>8
    <3>6. i + 1 \in 1 .. n /\ Chain(h)[i + 1] = y
      BY <3>4, <3>5, <1>10
    <3> QED
      BY <3>6, <2>3
  <2> QED
    BY <2>4, <2>5
<1>15. n \in Nat /\ \A i, j \in 1 .. n : Chain(h)[i] = Chain(h)[j] => i = j
  BY <1>13
<1>16. \A x \in X : \E i \in 1 .. n : Chain(h)[i] = x
  BY <1>14
<1> HIDE DEF at
<1> QED
  BY <1>11, <1>12, <1>15, <1>16

-----------------------------------------------------------------------------
(* A slab changes its list *)

LEMMA SamePrev ==
  ASSUME NEW l \in Links, NEW x \in Header, l[x].prev = NULL
  PROVE  SetPrev(l, x, NULL) = l
<1> DEFINE m == SetPrev(l, x, NULL)
<1> NULL \in HeaderOrNull /\ l[x] \in [next : HeaderOrNull, prev : HeaderOrNull]
  BY DEF HeaderOrNull, Links
<1>1. m \in Links /\ m[x] = [next |-> l[x].next, prev |-> NULL] /\ \A z \in Header \ {x} : m[z] = l[z]
  BY PrevSet
<1>2. m[x] = l[x]
  BY <1>1
<1> HIDE DEF m
<1> QED
  BY <1>1, <1>2 DEF Links, m

\* The head of a list leaves it; it had no previous slab to begin with.
LEMMA HeadLeaves ==
  ASSUME NEW l \in Links, NEW h \in HeaderOrNull, NEW X \in SUBSET Header,
         IsList(l, h, X), h # NULL
  PROVE  /\ h \in X /\ l[h].prev = NULL
         /\ LeftHead(l, h, h) = l[h].next /\ Left(l, h, h) = DropHead(l, h)
         /\ DropHead(l, h) \in Links /\ DropHead(l, h)[h] = l[h]
         /\ SetPrev(Left(l, h, h), h, NULL) = DropHead(l, h)
<1>1. h \in X /\ l[h].prev = NULL
  BY DEF IsList
<1>2. LeftHead(l, h, h) = l[h].next /\ Left(l, h, h) = DropHead(l, h)
  BY DEF Left, LeftHead
<1>3. PICK x \in X : x = h
  BY <1>1
<1>4. /\ Left(l, x, h) \in Links /\ LeftHead(l, x, h) \in HeaderOrNull
      /\ IsList(Left(l, x, h), LeftHead(l, x, h), X \ {x})
      /\ Left(l, x, h)[x] = l[x]
      /\ \A z \in Header \ X : Left(l, x, h)[z] = l[z]
  BY LeftList
<1>5. DropHead(l, h) \in Links /\ DropHead(l, h)[h] = l[h]
  BY <1>2, <1>3, <1>4
<1>6. PICK m \in Links : m = DropHead(l, h) /\ m[h] = l[h]
  BY <1>5
<1>7. SetPrev(m, h, NULL) = m
  BY <1>1, <1>6, SamePrev
<1> QED
  BY <1>1, <1>2, <1>5, <1>6, <1>7

LEMMA Moved ==
  ASSUME NEW l \in Links, NEW a \in HeaderOrNull, NEW b \in HeaderOrNull, NEW c,
         NEW A \in SUBSET Header, NEW B \in SUBSET Header, NEW C \in SUBSET Header,
         A \cap B = {}, A \cap C = {}, B \cap C = {},
         IsList(l, a, A), IsList(l, b, B), IsList(l, c, C), NEW x \in A
  PROVE  /\ Pushed(SetPrev(Left(l, x, a), x, NULL), x, b) \in Links
         /\ LeftHead(l, x, a) \in HeaderOrNull
         /\ IsList(Pushed(SetPrev(Left(l, x, a), x, NULL), x, b), LeftHead(l, x, a), A \ {x})
         /\ IsList(Pushed(SetPrev(Left(l, x, a), x, NULL), x, b), x, B \cup {x})
         /\ IsList(Pushed(SetPrev(Left(l, x, a), x, NULL), x, b), c, C)
<1> DEFINE k == Left(l, x, a)
           h == LeftHead(l, x, a)
           r == SetPrev(k, x, NULL)
           m == Pushed(r, x, b)
<1> USE HeadersAreNat
<1>1. k \in Links /\ h \in HeaderOrNull /\ IsList(k, h, A \ {x}) /\ \A z \in Header \ A : k[z] = l[z]
  BY LeftList
<1> HIDE DEF k, h
<1>2. r \in Links /\ r[x].prev = NULL /\ \A z \in Header \ {x} : r[z] = k[z]
  <2>1. NULL \in HeaderOrNull
    BY DEF HeaderOrNull
  <2>2. r \in Links /\ r[x] = [next |-> k[x].next, prev |-> NULL] /\ \A z \in Header \ {x} : r[z] = k[z]
    <3>1. x \in Header
      OBVIOUS
    <3>2. PICK y : y = NULL
      OBVIOUS
    <3>3. /\ SetPrev(k, x, y) \in Links
          /\ SetPrev(k, x, y)[x] = [next |-> k[x].next, prev |-> y]
          /\ \A z \in Header \ {x} : SetPrev(k, x, y)[z] = k[z]
      BY <1>1, <2>1, <3>1, <3>2, PrevSet
    <3> QED
      BY <3>2, <3>3
  <2> QED
    BY <2>2
<1> HIDE DEF r
<1>3. IsList(r, h, A \ {x}) /\ IsList(r, b, B) /\ IsList(r, c, C)
  <2>1. IsList(r, h, A \ {x})
    <3>1. \A z \in A \ {x} : r[z] = k[z]
      BY <1>2
    <3> QED
      BY <3>1, <1>1, SameList
  <2>2. IsList(r, b, B)
    <3>1. \A z \in B : r[z] = l[z]
      BY <1>1, <1>2
    <3> QED
      BY <3>1, SameList
  <2>3. IsList(r, c, C)
    <3>1. \A z \in C : r[z] = l[z]
      BY <1>1, <1>2
    <3> QED
      BY <3>1, SameList
  <2> QED
    BY <2>1, <2>2, <2>3
<1>4. x \in Header \ B
  OBVIOUS
<1>5. m \in Links /\ IsList(m, x, B \cup {x}) /\ \A z \in Header \ (B \cup {x}) : m[z] = r[z]
  BY <1>2, <1>3, <1>4, PushedList
<1> HIDE DEF m
<1>6. IsList(m, h, A \ {x})
  <2>1. \A z \in A \ {x} : m[z] = r[z]
    BY <1>5
  <2> QED
    BY <2>1, <1>3, SameList
<1>7. IsList(m, c, C)
  <2>1. \A z \in C : m[z] = r[z]
    BY <1>5
  <2> QED
    BY <2>1, <1>3, SameList
<1> QED
  BY <1>1, <1>5, <1>6, <1>7 DEF k, h, r, m

\* CutOut makes links of links, whatever it is asked to cut out.
LEMMA CutOutType ==
  ASSUME NEW l \in Links, NEW x \in Header
  PROVE  CutOut(l, x) \in Links
<1> DEFINE u == l[x].prev
           v == l[x].next
           k == SetNext(l, u, v)
<1>1. u \in HeaderOrNull /\ v \in HeaderOrNull
  BY DEF Links
<1>2. CutOut(l, x) = SetPrev(k, v, u)
  BY DEF CutOut
<1> HIDE DEF u, v
<1>3. k \in Links
  <2>1. CASE u \in Header
    BY <1>1, <2>1, NextSet
  <2>2. CASE u \notin Header
    BY <1>1, <2>2 DEF SetNext, Links
  <2> QED
    BY <2>1, <2>2
<1> HIDE DEF k
<1>4. CASE v \in Header
  BY <1>1, <1>2, <1>3, <1>4, PrevSet
<1>5. CASE v \notin Header
  BY <1>1, <1>2, <1>3, <1>5, NoPrevSet DEF HeaderOrNull
<1> QED
  BY <1>4, <1>5

Place(p, k) == p + (k - 1) * S

LEMMA Places ==
  ASSUME NEW p \in Bases
  PROVE  /\ \A k \in 1 .. K : Place(p, k) \in SlabsOf(p)
         /\ \A x \in SlabsOf(p) : \E k \in 1 .. K : x = Place(p, k)
         /\ \A k, m \in 1 .. K : Place(p, k) = Place(p, m) => k = m
<1> USE SlabAssumption
<1>1. ASSUME NEW k \in 1 .. K PROVE Place(p, k) \in SlabsOf(p)
  <2>1. k - 1 \in 0 .. K - 1
    OBVIOUS
  <2> QED
    BY <2>1 DEF Place, SlabsOf
<1>2. ASSUME NEW x \in SlabsOf(p) PROVE \E k \in 1 .. K : x = Place(p, k)
  <2>1. PICK j \in 0 .. K - 1 : x = p + j * S
    BY DEF SlabsOf
  <2>2. j + 1 \in 1 .. K /\ (j + 1) - 1 = j
    OBVIOUS
  <2> QED
    BY <2>1, <2>2 DEF Place
<1>3. ASSUME NEW k \in 1 .. K, NEW m \in 1 .. K, Place(p, k) = Place(p, m) PROVE k = m
  <2> DEFINE i == k - 1
             j == m - 1
  <2>1. i \in Nat /\ j \in Nat /\ p \in Nat /\ i * S \in Nat /\ j * S \in Nat
    BY Product
  <2>2. i * S = j * S
    BY <2>1, <1>3 DEF Place
  <2>3. i = j
    BY <2>1, <2>2, ProductMonotone
  <2> QED
    BY <2>3
<1> QED
  BY <1>1, <1>2, <1>3

\* The links after k slabs of the page have been looked at.
LEMMA EmptiedSteps ==
  ASSUME NEW l \in Links, NEW x, NEW p \in Bases
  PROVE  \E cut : /\ cut[0] = l /\ Emptied(l, x, p) = cut[K]
                  /\ \A k \in 0 .. K : cut[k] \in Links
                  /\ \A k \in 1 .. K : cut[k] =
                       IF Place(p, k) = empty \/ Place(p, k) = x THEN cut[k - 1]
                       ELSE CutOut(cut[k - 1], Place(p, k))
<1> DEFINE New(k, b) == IF Place(p, k) = empty \/ Place(p, k) = x THEN b ELSE CutOut(b, Place(p, k))
           G == [k \in 1 .. K |-> [b \in Links |-> New(k, b)]]
<1>1. \A k \in 1 .. K : \A b \in Links : New(k, b) \in Links
  <2>1. \A k \in 1 .. K : Place(p, k) \in Header
    BY Places, SlabPlaces
  <2> QED
    BY <2>1, CutOutType
<1>2. G \in StepsOn(K, Links)
  <2> HIDE DEF New
  <2> QED
    BY <1>1 DEF StepsOn
<1>3. PICK f : IsRun(f, K, Links, l, G)
  <2> HIDE DEF G
  <2> QED
    BY <1>2, Iteration, SlabAssumption
<1>4. f \in [0 .. K -> Links] /\ f[0] = l /\ \A k \in 1 .. K : f[k] = G[k][f[k - 1]]
  <2> HIDE DEF G
  <2> QED
    BY <1>3 DEF IsRun
<1>5. \A k \in 1 .. K : f[k - 1] \in Links /\ f[k] = New(k, f[k - 1])
  <2> SUFFICES ASSUME NEW k \in 1 .. K PROVE f[k - 1] \in Links /\ f[k] = New(k, f[k - 1])
    OBVIOUS
  <2>1. f[k - 1] \in Links
    <3> HIDE DEF G
    <3> QED
      BY <1>4, SlabAssumption
  <2>2. G[k] = [b \in Links |-> New(k, b)]
    OBVIOUS
  <2>3. f[k] = G[k][f[k - 1]]
    <3> HIDE DEF G
    <3> QED
      BY <1>4
  <2> HIDE DEF G
  <2> QED
    BY <2>1, <2>2, <2>3
<1> DEFINE Def(c) == c = [k \in 0 .. K |-> IF k = 0 THEN l ELSE New(k, c[k - 1])]
<1> HIDE DEF G
<1>6. Def(f)
  <2> HIDE DEF New
  <2> QED
    BY <1>4, <1>5, SlabAssumption
<1> DEFINE cut == CHOOSE c : Def(c)
<1>7. Def(cut)
  <2> HIDE DEF Def
  <2> QED
    BY <1>6
<1>8. Emptied(l, x, p) = cut[K]
  BY DEF Emptied, Place
<1> HIDE DEF cut
<1>9. cut[0] = l /\ \A k \in 1 .. K : cut[k] = New(k, cut[k - 1])
  <2> HIDE DEF New
  <2> QED
    BY <1>7, SlabAssumption
<1>10. \A k \in 0 .. K : cut[k] \in Links
  <2> HIDE DEF New, Def
  <2> DEFINE P == {k \in 0 .. K : cut[k] \in Links}
  <2>1. 0 \in P
    BY <1>9, SlabAssumption
  <2>2. ASSUME NEW k \in 0 .. K - 1, k \in P PROVE k + 1 \in P
    <3>1. k + 1 \in 1 .. K /\ (k + 1) - 1 = k /\ k + 1 \in 0 .. K
      BY SlabAssumption
    <3>2. cut[k + 1] = New(k + 1, cut[k])
      BY <1>9, <3>1
    <3>3. cut[k + 1] \in Links
      BY <2>2, <3>1, <3>2, <1>1
    <3> QED
      BY <3>1, <3>3
  <2> HIDE DEF P
  <2>3. \A k \in 0 .. K - 1 : k \in P => k + 1 \in P
    BY <2>2
  <2>4. \A k \in 0 .. K : k \in P
    BY <2>1, <2>3, InductionTo, SlabAssumption
  <2> QED
    BY <2>4 DEF P
<1> QED
  BY <1>8, <1>9, <1>10

\* The slabs of a page have left the list of the empty ones, all but its head.
LEMMA EmptiedList ==
  ASSUME NEW l \in Links, empty \in HeaderOrNull, NEW E \in SUBSET Header, IsList(l, empty, E),
         NEW p \in Bases, NEW x \in SlabsOf(p), x \notin E, SlabsOf(p) \ {x} \subseteq E
  PROVE  /\ Emptied(l, x, p) \in Links
         /\ IsList(Emptied(l, x, p), empty, E \ (SlabsOf(p) \ {empty}))
         /\ \A z \in Header \ E : Emptied(l, x, p)[z] = l[z]
<1> USE SlabAssumption
<1>1. PICK cut : /\ cut[0] = l /\ Emptied(l, x, p) = cut[K]
                 /\ \A k \in 0 .. K : cut[k] \in Links
                 /\ \A k \in 1 .. K : cut[k] =
                      IF Place(p, k) = empty \/ Place(p, k) = x THEN cut[k - 1]
                      ELSE CutOut(cut[k - 1], Place(p, k))
  BY EmptiedSteps
<1> DEFINE Left_(k) == {y \in E : y = empty \/ \A j \in 1 .. k : y # Place(p, j)}
           P == {k \in 0 .. K : /\ IsList(cut[k], empty, Left_(k))
                                /\ \A z \in Header \ E : cut[k][z] = l[z]}
<1>2. 0 \in P
  <2>1. Left_(0) = E
    OBVIOUS
  <2> QED
    BY <2>1, <1>1
<1>3. ASSUME NEW k \in 0 .. K - 1, k \in P PROVE k + 1 \in P
  <2> DEFINE y == Place(p, k + 1)
  <2>1. k + 1 \in 1 .. K /\ (k + 1) - 1 = k /\ k + 1 \in 0 .. K /\ k \in 0 .. K
    OBVIOUS
  <2>2. IsList(cut[k], empty, Left_(k)) /\ \A z \in Header \ E : cut[k][z] = l[z]
    BY <1>3
  <2>3. cut[k] \in Links /\ y \in SlabsOf(p)
    BY <1>1, <2>1, Places
  <2>4. cut[k + 1] = IF y = empty \/ y = x THEN cut[k] ELSE CutOut(cut[k], y)
    BY <1>1, <2>1
  <2>5. Left_(k + 1) = IF y = empty THEN Left_(k) ELSE Left_(k) \ {y}
    OBVIOUS
  <2>6. CASE y = empty \/ y = x
    <3>1. Left_(k + 1) = Left_(k)
      BY <2>5, <2>6
    <3>2. cut[k + 1] = cut[k]
      BY <2>4, <2>6
    <3> HIDE DEF Left_, y
    <3> QED
      BY <2>1, <2>2, <3>1, <3>2
  <2>7. CASE y # empty /\ y # x
    <3>1. y \in Left_(k)
      <4>1. y \in E
        BY <2>3, <2>7
      <4>2. \A j \in 1 .. k : j \in 1 .. K /\ j # k + 1
        OBVIOUS
      <4>3. \A j \in 1 .. k : y # Place(p, j)
        BY <4>2, <2>1, Places
      <4> QED
        BY <4>1, <4>3
    <3>2. Left_(k) \in SUBSET Header /\ Left_(k + 1) = Left_(k) \ {y} /\ Left_(k) \subseteq E
      BY <2>5, <2>7
    <3> HIDE DEF Left_, y
    <3>3. Left(cut[k], y, empty) = CutOut(cut[k], y) /\ LeftHead(cut[k], y, empty) = empty
      BY <2>7 DEF Left, LeftHead
    <3>4. /\ IsList(CutOut(cut[k], y), empty, Left_(k + 1))
          /\ \A z \in Header \ Left_(k) : CutOut(cut[k], y)[z] = cut[k][z]
      <4>1. PICK c, A : c = cut[k] /\ A = Left_(k)
        OBVIOUS
      <4>2. c \in Links /\ A \in SUBSET Header /\ IsList(c, empty, A) /\ y \in A
        BY <4>1, <2>2, <2>3, <3>1, <3>2
      <4>3. /\ Left(c, y, empty) \in Links /\ LeftHead(c, y, empty) \in HeaderOrNull
            /\ IsList(Left(c, y, empty), LeftHead(c, y, empty), A \ {y})
            /\ Left(c, y, empty)[y] = c[y]
            /\ \A z \in Header \ A : Left(c, y, empty)[z] = c[z]
        <5>1. /\ c \in Links /\ empty \in HeaderOrNull /\ A \in SUBSET Header
          BY <4>2
        <5>2. IsList(c, empty, A)
          BY <4>2
        <5>3. y \in A
          BY <4>2
        <5> QED
          BY <5>1, <5>2, <5>3, LeftList
      <4> QED
        BY <4>1, <4>3, <3>2, <3>3
    <3>5. cut[k + 1] = CutOut(cut[k], y)
      BY <2>4, <2>7
    <3>6. \A z \in Header \ E : cut[k + 1][z] = l[z]
      BY <2>2, <3>2, <3>4, <3>5
    <3> QED
      BY <2>1, <3>4, <3>5, <3>6
  <2> QED
    BY <2>6, <2>7
<1>4. K \in P
  <2> HIDE DEF P
  <2>1. \A k \in 0 .. K - 1 : k \in P => k + 1 \in P
    BY <1>3
  <2>2. \A k \in 0 .. K : k \in P
    BY <1>2, <2>1, InductionTo
  <2> QED
    BY <2>2
<1>5. Left_(K) = E \ (SlabsOf(p) \ {empty})
  BY Places
<1> HIDE DEF Left_
<1>6. IsList(cut[K], empty, Left_(K)) /\ \A z \in Header \ E : cut[K][z] = l[z]
  BY <1>4
<1>7. cut[K] \in Links
  BY <1>1
<1> QED
  BY <1>1, <1>5, <1>6, <1>7

-----------------------------------------------------------------------------
(* What an open chain is like *)

Open == SlabInv /\ phase = "open"

LEMMA Typed ==
  ASSUME TypeOK
  PROVE  /\ link \in Links /\ slots \in [Header -> SUBSET Slot]
         /\ partial \in HeaderOrNull /\ empty \in HeaderOrNull /\ full \in HeaderOrNull
         /\ ref \in [Header -> 0 .. K] /\ page \in [Header -> HeaderOrNull]
         /\ mapped \in SUBSET Bases /\ InUse \in SUBSET Header
         /\ items \subseteq [slab : Header, slot : Slot]
<1>1. InUse \in SUBSET Header
  BY DEF InUse
<1> QED
  BY <1>1 DEF TypeOK, Links, HeaderOrNull

\* The page of a slab, and that the first slab of the page counts.
LEMMA PageOf ==
  ASSUME Open, NEW x \in InUse
  PROVE  /\ Counter(x) \in mapped /\ x \in SlabsOf(Counter(x))
         /\ \A q \in mapped : x \in SlabsOf(q) => q = Counter(x)
<1>1. PICK p \in mapped : x \in SlabsOf(p)
  BY DEF InUse
<1>2. mapped \subseteq Bases
  BY DEF Open, SlabInv, TypeOK
<1>3. \A q \in mapped : x \in SlabsOf(q) => q = p
  <2> SUFFICES ASSUME NEW q \in mapped, x \in SlabsOf(q), q # p PROVE FALSE
    OBVIOUS
  <2>1. p + K * S <= q \/ q + K * S <= p
    BY DEF Open, SlabInv, PagesApart
  <2> QED
    BY <2>1, <1>1, <1>2, ApartDisjoint
<1>4. ref[p] >= 1 /\ (x # p => ref[x] = 0 /\ page[x] = p)
  BY <1>1 DEF Open, SlabInv, RefcountExact
<1>5. Counter(x) = p
  BY <1>4 DEF Counter
<1> QED
  BY <1>1, <1>3, <1>5

LEMMA ItemOf ==
  ASSUME Open, NEW o \in items
  PROVE  /\ o.slab \in InUse /\ o.slot \in Slot /\ o.slot \notin slots[o.slab]
         /\ o = Item(o.slab, o.slot)
BY DEF Open, SlabInv, ItemsExact, Item

\* A slab has its items out in the slots that are not free.
LEMMA Kinds ==
  /\ PartialOnes = {x \in InUse : slots[x] # {} /\ slots[x] # Slot}
  /\ PartialOnes \subseteq InUse /\ EmptyOnes \subseteq InUse /\ FullOnes \subseteq InUse
  /\ PartialOnes \cap EmptyOnes = {} /\ PartialOnes \cap FullOnes = {} /\ EmptyOnes \cap FullOnes = {}
<1>1. Slot # {}
  BY SlabAssumption DEF Slot
<1> QED
  BY <1>1 DEF PartialOnes, EmptyOnes, FullOnes

-----------------------------------------------------------------------------
(* One slab changes *)

\* The slab x has the free slots ss after the step.
SlotsAfter(x, ss) == mapped' = mapped /\ slots' = [slots EXCEPT ![x] = ss]

LEMMA SlotsOf ==
  ASSUME Open, NEW x \in InUse, NEW ss \in SUBSET Slot, SlotsAfter(x, ss)
  PROVE  /\ slots' \in [Header -> SUBSET Slot] /\ InUse' = InUse
         /\ slots'[x] = ss /\ \A y \in Header \ {x} : slots'[y] = slots[y]
<1>1. InUse' = InUse
  BY DEF SlotsAfter, InUse
<1>2. x \in Header /\ slots \in [Header -> SUBSET Slot]
  BY Typed DEF Open, SlabInv
<1> QED
  BY <1>1, <1>2 DEF SlotsAfter

LEMMA KindsAfter ==
  ASSUME Open, NEW x \in InUse, NEW ss \in SUBSET Slot, SlotsAfter(x, ss)
  PROVE  /\ FullOnes' = IF ss = {} THEN FullOnes \cup {x} ELSE FullOnes \ {x}
         /\ EmptyOnes' = IF ss = Slot THEN EmptyOnes \cup {x} ELSE EmptyOnes \ {x}
         /\ PartialOnes' = IF ss # {} /\ ss # Slot THEN PartialOnes \cup {x} ELSE PartialOnes \ {x}
<1>1. /\ InUse' = InUse /\ InUse \subseteq Header
      /\ slots'[x] = ss /\ \A y \in Header \ {x} : slots'[y] = slots[y]
  BY SlotsOf, Typed DEF Open, SlabInv
<1>2. FullOnes' = {y \in InUse : slots'[y] = {}}
  BY <1>1 DEF FullOnes
<1>3. EmptyOnes' = {y \in InUse : slots'[y] = Slot}
  BY <1>1 DEF EmptyOnes
<1>4. PartialOnes' = InUse \ (FullOnes' \cup EmptyOnes')
  BY <1>1 DEF PartialOnes
<1>5. PartialOnes' = {y \in InUse : slots'[y] # {} /\ slots'[y] # Slot}
  BY <1>2, <1>3, <1>4
<1>6. FullOnes' = IF ss = {} THEN FullOnes \cup {x} ELSE FullOnes \ {x}
  BY <1>1, <1>2 DEF FullOnes
<1>7. EmptyOnes' = IF ss = Slot THEN EmptyOnes \cup {x} ELSE EmptyOnes \ {x}
  BY <1>1, <1>3 DEF EmptyOnes
<1>8. PartialOnes' = IF ss # {} /\ ss # Slot THEN PartialOnes \cup {x} ELSE PartialOnes \ {x}
  BY <1>1, <1>5, Kinds
<1> QED
  BY <1>6, <1>7, <1>8

\* The items that are out follow the slots.
LEMMA ItemTaken ==
  ASSUME Open, NEW x \in InUse, NEW i \in slots[x], SlotsAfter(x, slots[x] \ {i}),
         items' = items \cup {Item(x, i)}
  PROVE  ItemsExact' /\ items' \subseteq [slab : Header, slot : Slot]
<1>1. x \in Header /\ slots[x] \in SUBSET Slot /\ i \in Slot /\ slots[x] \ {i} \in SUBSET Slot
  BY Typed DEF Open, SlabInv
<1>2. /\ InUse' = InUse /\ InUse \subseteq Header
      /\ slots'[x] = slots[x] \ {i} /\ \A y \in Header \ {x} : slots'[y] = slots[y]
  BY <1>1, SlotsOf, Typed DEF Open, SlabInv
<1>3. items = {o \in [slab : InUse, slot : Slot] : o.slot \notin slots[o.slab]}
  BY DEF Open, SlabInv, ItemsExact
<1>4. Item(x, i) \in [slab : InUse, slot : Slot] /\ Item(x, i).slab = x /\ Item(x, i).slot = i
  BY <1>1 DEF Item
<1>5. ASSUME NEW o \in [slab : InUse, slot : Slot]
      PROVE  o \in items' <=> o.slot \notin slots'[o.slab]
  <2>1. o.slab = x /\ o.slot = i => o = Item(x, i)
    BY DEF Item
  <2>2. CASE o.slab = x
    BY <1>1, <1>2, <1>3, <1>4, <2>1, <2>2
  <2>3. CASE o.slab # x
    BY <1>1, <1>2, <1>3, <1>4, <2>3
  <2> QED
    BY <2>2, <2>3
<1>6. items' \subseteq [slab : InUse, slot : Slot]
  BY <1>3, <1>4
<1>7. items' = {o \in [slab : InUse, slot : Slot] : o.slot \notin slots'[o.slab]}
  BY <1>5, <1>6
<1> QED
  BY <1>2, <1>6, <1>7 DEF ItemsExact

LEMMA ItemReturned ==
  ASSUME Open, NEW o \in items, SlotsAfter(o.slab, slots[o.slab] \cup {o.slot}),
         items' = items \ {o}
  PROVE  ItemsExact' /\ items' \subseteq [slab : Header, slot : Slot]
<1> DEFINE x == o.slab
<1>1. x \in InUse /\ o.slot \in Slot /\ o = Item(x, o.slot)
  BY ItemOf
<1>2. slots[x] \cup {o.slot} \in SUBSET Slot /\ InUse \subseteq Header
  BY <1>1, Typed DEF Open, SlabInv
<1>3. /\ InUse' = InUse
      /\ slots'[x] = slots[x] \cup {o.slot} /\ \A y \in Header \ {x} : slots'[y] = slots[y]
  BY <1>1, <1>2, SlotsOf
<1>4. items = {q \in [slab : InUse, slot : Slot] : q.slot \notin slots[q.slab]}
  BY DEF Open, SlabInv, ItemsExact
<1>5. ASSUME NEW q \in [slab : InUse, slot : Slot]
      PROVE  q \in items' <=> q.slot \notin slots'[q.slab]
  <2>1. q = o <=> q.slab = x /\ q.slot = o.slot
    BY <1>1 DEF Item
  <2>2. CASE q.slab = x
    BY <1>1, <1>2, <1>3, <1>4, <2>1, <2>2
  <2>3. CASE q.slab # x
    BY <1>1, <1>2, <1>3, <1>4, <2>1, <2>3
  <2> QED
    BY <2>2, <2>3
<1>6. items' \subseteq [slab : InUse, slot : Slot]
  BY <1>4
<1>7. items' = {q \in [slab : InUse, slot : Slot] : q.slot \notin slots'[q.slab]}
  BY <1>5, <1>6
<1> QED
  BY <1>2, <1>3, <1>6, <1>7 DEF ItemsExact

\* So do the counts.
Used(p) == {x \in SlabsOf(p) : slots[x] # Slot}

LEMMA UsedFinite ==
  ASSUME NEW p \in Bases
  PROVE  /\ IsFiniteSet(Used(p)) /\ Cardinality(Used(p)) \in 0 .. K
         /\ IsFiniteSet(Used(p)') /\ Cardinality(Used(p)') \in 0 .. K
<1>1. IsFiniteSet(SlabsOf(p)) /\ Cardinality(SlabsOf(p)) <= K
  <2> DEFINE f == [k \in 0 .. K - 1 |-> p + k * S]
  <2>1. f \in Surjection(0 .. K - 1, SlabsOf(p))
    BY DEF Surjection, SlabsOf
  <2>2. IsFiniteSet(0 .. K - 1) /\ Cardinality(0 .. K - 1) = K
    BY FS_Interval, SlabAssumption
  <2> HIDE DEF f
  <2> QED
    BY <2>1, <2>2, FS_Surjection
<1>2. ASSUME NEW T \in SUBSET SlabsOf(p) PROVE IsFiniteSet(T) /\ Cardinality(T) \in 0 .. K
  <2>1. IsFiniteSet(T) /\ Cardinality(T) <= Cardinality(SlabsOf(p))
    BY <1>1, FS_Subset
  <2>2. Cardinality(T) \in Nat /\ Cardinality(SlabsOf(p)) \in Nat
    BY <1>1, <2>1, FS_CardinalityType
  <2> QED
    BY <1>1, <2>1, <2>2, SlabAssumption
<1>3. Used(p) \in SUBSET SlabsOf(p) /\ Used(p)' \in SUBSET SlabsOf(p)
  BY DEF Used
<1> QED
  BY <1>2, <1>3

LEMMA CountsKept ==
  ASSUME Open, NEW x \in InUse, NEW ss \in SUBSET Slot, SlotsAfter(x, ss),
         slots[x] # Slot, ss # Slot, ref' = ref, page' = page
  PROVE  RefcountExact' /\ ref' \in [Header -> 0 .. K]
<1>1. \A y \in Header : slots'[y] # Slot <=> slots[y] # Slot
  BY SlotsOf
<1>2. \A p \in mapped : SlabsOf(p) \subseteq Header
  BY Typed, SlabPlaces DEF Open, SlabInv
<1>3. \A p \in mapped : {y \in SlabsOf(p) : slots'[y] # Slot} = {y \in SlabsOf(p) : slots[y] # Slot}
  BY <1>1, <1>2
<1> QED
  BY <1>3, Typed DEF Open, SlabInv, RefcountExact, SlotsAfter

LEMMA CountsMoved ==
  ASSUME Open, NEW x \in InUse, NEW ss \in SUBSET Slot, SlotsAfter(x, ss), page' = page,
         \/ slots[x] = Slot /\ ss # Slot /\ ref' = [ref EXCEPT ![Counter(x)] = @ + 1]
         \/ slots[x] # Slot /\ ss = Slot /\ ref[Counter(x)] # 1 /\ ref' = [ref EXCEPT ![Counter(x)] = @ - 1]
  PROVE  RefcountExact' /\ ref' \in [Header -> 0 .. K]
<1>1. PICK c \in mapped :
        c = Counter(x) /\ x \in SlabsOf(c) /\ \A q \in mapped : x \in SlabsOf(q) => q = c
  BY PageOf
<1>2. mapped' = mapped /\ mapped \subseteq Bases /\ \A p \in mapped : p \in SlabsOf(p) /\ SlabsOf(p) \subseteq Header
  BY Typed, SlabPlaces DEF Open, SlabInv, SlotsAfter
<1>3. /\ ref \in [Header -> 0 .. K]
      /\ \A p \in mapped : ref[p] = Cardinality(Used(p)) /\ ref[p] >= 1
      /\ \A p \in mapped : \A y \in SlabsOf(p) \ {p} : ref[y] = 0 /\ page[y] = p
  BY Typed DEF Open, SlabInv, RefcountExact, Used
<1>4. slots'[x] = ss /\ \A y \in Header \ {x} : slots'[y] = slots[y]
  BY SlotsOf
<1>5. \A p \in mapped \ {c} : Used(p)' = Used(p)
  BY <1>1, <1>2, <1>4 DEF Used
<1>6. ref'[c] = Cardinality(Used(c)') /\ ref'[c] >= 1 /\ \A y \in Header \ {c} : ref'[y] = ref[y]
  <2>1. IsFiniteSet(Used(c)) /\ Cardinality(Used(c)) \in Nat
    BY <1>1, <1>2, UsedFinite
  <2>2. c \in Header
    BY <1>1, <1>2
  <2>3. CASE slots[x] = Slot
    <3>1. ref' = [ref EXCEPT ![c] = @ + 1] /\ ss # Slot
      BY <2>3, <1>1
    <3>2. Used(c)' = Used(c) \cup {x} /\ x \notin Used(c)
      BY <3>1, <2>3, <1>1, <1>2, <1>4 DEF Used
    <3>3. Cardinality(Used(c) \cup {x}) = Cardinality(Used(c)) + 1
      BY <3>2, <2>1, FS_AddElement
    <3> QED
      BY <3>1, <3>2, <3>3, <2>1, <2>2, <1>1, <1>3
  <2>4. CASE slots[x] # Slot
    <3>1. ref' = [ref EXCEPT ![c] = @ - 1] /\ ss = Slot /\ ref[c] # 1
      BY <2>4, <1>1
    <3>2. Used(c)' = Used(c) \ {x} /\ x \in Used(c)
      BY <3>1, <2>4, <1>1, <1>2, <1>4 DEF Used
    <3>3. Cardinality(Used(c) \ {x}) = Cardinality(Used(c)) - 1
      BY <3>2, <2>1, FS_RemoveElement
    <3> QED
      BY <3>1, <3>2, <3>3, <2>1, <2>2, <1>1, <1>3
  <2> QED
    BY <2>3, <2>4
<1>7. \A p \in mapped : ref'[p] = Cardinality(Used(p)') /\ ref'[p] >= 1
  BY <1>2, <1>3, <1>5, <1>6
<1>8. \A p \in mapped : \A y \in SlabsOf(p) \ {p} : ref'[y] = 0 /\ page'[y] = p
  <2> SUFFICES ASSUME NEW p \in mapped, NEW y \in SlabsOf(p) \ {p} PROVE ref'[y] = 0 /\ page'[y] = p
    OBVIOUS
  <2>1. ref[y] = 0 /\ page[y] = p /\ y \in Header
    BY <1>2, <1>3
  <2>2. y # c
    BY <2>1, <1>1, <1>3
  <2> QED
    BY <2>1, <2>2, <1>6
<1>9. RefcountExact'
  BY <1>2, <1>7, <1>8 DEF RefcountExact, Used
<1>10. ref' \in [Header -> 0 .. K]
  <2>1. Cardinality(Used(c)') \in 0 .. K
    BY <1>1, <1>2, UsedFinite
  <2>2. DOMAIN ref' = Header /\ ref' = [y \in Header |-> ref'[y]]
    BY <1>3
  <2>3. \A y \in Header : ref'[y] \in 0 .. K
    BY <1>3, <1>6, <2>1
  <2> QED
    BY <2>2, <2>3
<1> QED
  BY <1>9, <1>10

-----------------------------------------------------------------------------
(* The steps *)

LEMMA SlotFacts ==
  /\ 0 \in Slot /\ 1 \in Slot /\ IsFiniteSet(Slot) /\ Slot \subseteq Nat
  /\ Rest # {} /\ Rest # Slot /\ Rest \subseteq Slot
<1>1. IsFiniteSet(Slot)
  BY FS_Interval, SlabAssumption DEF Slot
<1>2. 0 \in Slot /\ 1 \in Slot /\ Slot \subseteq Nat
  BY SlabAssumption DEF Slot
<1>3. 1 \in Rest /\ 0 \notin Rest /\ Rest \subseteq Slot
  BY <1>2 DEF Rest
<1> QED
  BY <1>1, <1>2, <1>3

LEMMA FirstFreeIs ==
  ASSUME NEW x, slots[x] \in SUBSET Slot, slots[x] # {}
  PROVE  FirstFree(x) \in slots[x]
<1>1. slots[x] \in SUBSET Nat
  BY SlotFacts
<1>2. \E i \in slots[x] : \A j \in slots[x] : i <= j
  <2> DEFINE T == slots[x]
  <2> HIDE DEF T
  <2>1. T \in SUBSET Nat /\ T # {}
    BY <1>1 DEF T
  <2>2. \E i \in T : \A j \in T : i <= j
    BY <2>1, LeastNat
  <2> QED
    BY <2>2 DEF T
<1> QED
  BY <1>2 DEF FirstFree

\* A step puts together: the types of what it changes, its lists, counts and items.
LEMMA OpenStep ==
  ASSUME Open, phase' = "open", mapped' = mapped, page' = page,
         slots' \in [Header -> SUBSET Slot], link' \in Links,
         partial' \in HeaderOrNull, empty' \in HeaderOrNull, full' \in HeaderOrNull,
         ref' \in [Header -> 0 .. K], items' \subseteq [slab : Header, slot : Slot],
         ListInv', RefcountExact', ItemsExact'
  PROVE  SlabInv'
<1>1. TypeOK'
  BY DEF Open, SlabInv, TypeOK, Links, HeaderOrNull
<1>2. PagesApart'
  BY DEF Open, SlabInv, PagesApart
<1>3. DestroyUnmapsAll'
  BY DEF DestroyUnmapsAll
<1> QED
  BY <1>1, <1>2, <1>3 DEF SlabInv

LEMMA OpenLists ==
  ASSUME Open
  PROVE  /\ IsList(link, partial, PartialOnes) /\ IsList(link, empty, EmptyOnes) /\ IsList(link, full, FullOnes)
         /\ PartialOnes \in SUBSET Header /\ EmptyOnes \in SUBSET Header /\ FullOnes \in SUBSET Header
         /\ partial # NULL <=> partial \in PartialOnes
         /\ partial = NULL <=> PartialOnes = {}
         /\ empty # NULL <=> empty \in EmptyOnes
         /\ empty = NULL <=> EmptyOnes = {}
         /\ link \in Links /\ partial \in HeaderOrNull /\ empty \in HeaderOrNull /\ full \in HeaderOrNull
<1>1. IsList(link, partial, PartialOnes) /\ IsList(link, empty, EmptyOnes) /\ IsList(link, full, FullOnes)
  BY DEF Open, SlabInv, ListInv
<1>2. PartialOnes \in SUBSET Header /\ EmptyOnes \in SUBSET Header /\ FullOnes \in SUBSET Header
  BY Kinds, Typed DEF Open, SlabInv
<1>3. link \in Links /\ partial \in HeaderOrNull /\ empty \in HeaderOrNull /\ full \in HeaderOrNull
  BY Typed DEF Open, SlabInv
<1> QED
  BY <1>1, <1>2, <1>3, HeadersAreNat DEF IsList

LEMMA OpenKinds ==
  ASSUME Open
  PROVE  /\ link \in Links /\ partial \in HeaderOrNull /\ empty \in HeaderOrNull /\ full \in HeaderOrNull
         /\ IsList(link, partial, PartialOnes) /\ IsList(link, empty, EmptyOnes) /\ IsList(link, full, FullOnes)
         /\ PartialOnes \in SUBSET Header /\ EmptyOnes \in SUBSET Header /\ FullOnes \in SUBSET Header
         /\ PartialOnes \cap EmptyOnes = {} /\ PartialOnes \cap FullOnes = {} /\ EmptyOnes \cap FullOnes = {}
         /\ EmptyOnes \cap PartialOnes = {} /\ FullOnes \cap PartialOnes = {} /\ FullOnes \cap EmptyOnes = {}
BY OpenLists, Kinds

LEMMA AllocPartialStep ==
  ASSUME Open, AllocPartial
  PROVE  SlabInv'
<1>1. PICK x, i : x = partial /\ i = FirstFree(x)
  OBVIOUS
<1>2. x \in PartialOnes /\ x \in InUse /\ x \in Header /\ slots[x] \in SUBSET Slot /\ slots[x] # {} /\ slots[x] # Slot
  BY <1>1, OpenLists, Kinds, Typed DEF Open, SlabInv, AllocPartial
<1>3. i \in slots[x]
  BY <1>1, <1>2, FirstFreeIs
<1>4. PICK ss \in SUBSET Slot : ss = slots[x] \ {i}
  BY <1>2
<1>5. SlotsAfter(x, ss) /\ items' = items \cup {Item(x, i)} /\ phase' = "open" /\ page' = page /\ ref' = ref
      /\ empty' = empty
  BY <1>1, <1>4 DEF AllocPartial, SlotsAfter, MayAlloc
<1>6. ss # Slot
  BY <1>2, <1>3, <1>4
<1>7. RefcountExact' /\ ref' \in [Header -> 0 .. K]
  BY <1>2, <1>5, <1>6, CountsKept
<1>8. ItemsExact' /\ items' \subseteq [slab : Header, slot : Slot]
  BY <1>2, <1>3, <1>4, <1>5, ItemTaken
<1>9. slots' \in [Header -> SUBSET Slot] /\ slots'[x] = ss
  BY <1>2, <1>5, SlotsOf
<1>10. /\ FullOnes' = IF ss = {} THEN FullOnes \cup {x} ELSE FullOnes
       /\ EmptyOnes' = EmptyOnes
       /\ PartialOnes' = IF ss = {} THEN PartialOnes \ {x} ELSE PartialOnes
  <2>1. /\ FullOnes' = IF ss = {} THEN FullOnes \cup {x} ELSE FullOnes \ {x}
        /\ EmptyOnes' = IF ss = Slot THEN EmptyOnes \cup {x} ELSE EmptyOnes \ {x}
        /\ PartialOnes' = IF ss # {} /\ ss # Slot THEN PartialOnes \cup {x} ELSE PartialOnes \ {x}
    BY <1>2, <1>5, KindsAfter
  <2>2. x \in PartialOnes /\ x \notin FullOnes /\ x \notin EmptyOnes
    BY <1>2, Kinds
  <2> QED
    BY <2>1, <2>2, <1>6
<1>11. /\ ListInv' /\ link' \in Links
       /\ partial' \in HeaderOrNull /\ empty' \in HeaderOrNull /\ full' \in HeaderOrNull
  <2>1. CASE ss = {}
    <3>1. partial' = link[x].next /\ full' = x /\ link' = Pushed(DropHead(link, x), x, full)
      BY <1>1, <1>9, <2>1 DEF AllocPartial
    <3>2. /\ LeftHead(link, x, partial) = link[x].next
          /\ SetPrev(Left(link, x, partial), x, NULL) = DropHead(link, x)
      BY <1>1, <1>2, OpenLists, HeadLeaves
    <3>6. /\ link' \in Links /\ partial' \in HeaderOrNull
          /\ IsList(link', partial', PartialOnes \ {x})
          /\ IsList(link', x, FullOnes \cup {x}) /\ IsList(link', empty, EmptyOnes)
      <4>1. link' = Pushed(SetPrev(Left(link, x, partial), x, NULL), x, full)
            /\ partial' = LeftHead(link, x, partial)
        BY <3>1, <3>2
      <4> QED
        BY <4>1, <1>2, OpenKinds, Moved
    <3>7. full' \in HeaderOrNull /\ empty' \in HeaderOrNull
      BY <1>2, <1>5, OpenLists, <3>1 DEF HeaderOrNull
    <3> QED
      BY <3>1, <3>6, <3>7, <1>5, <1>10, <2>1 DEF ListInv
  <2>2. CASE ss # {}
    <3>1. partial' = partial /\ full' = full /\ link' = link
      BY <1>1, <1>9, <2>2 DEF AllocPartial
    <3> QED
      BY <3>1, <1>5, <1>10, <2>2, OpenLists DEF ListInv
  <2> QED
    BY <2>1, <2>2
<1>12. mapped' = mapped
  BY <1>5 DEF SlotsAfter
<1> QED
  BY <1>5, <1>7, <1>8, <1>9, <1>11, <1>12, OpenStep

LEMMA AllocEmptyStep ==
  ASSUME Open, AllocEmpty
  PROVE  SlabInv'
<1>1. PICK x : x = empty
  OBVIOUS
<1>2. x \in EmptyOnes /\ x \in InUse /\ x \in Header /\ slots[x] = Slot
  <2>1. x \in EmptyOnes /\ EmptyOnes \in SUBSET Header
    BY <1>1, OpenLists DEF AllocEmpty
  <2> QED
    BY <2>1 DEF EmptyOnes
<1>3. PICK ss \in SUBSET Slot : ss = Rest /\ ss = slots[x] \ {0} /\ ss # {} /\ ss # Slot
  <2>1. Rest \in SUBSET Slot /\ Rest # {} /\ Rest # Slot
    BY SlotFacts
  <2>2. Rest = slots[x] \ {0}
    BY <1>2 DEF Rest
  <2> QED
    BY <2>1, <2>2
<1>4. /\ SlotsAfter(x, ss) /\ items' = items \cup {Item(x, 0)} /\ phase' = "open" /\ page' = page
      /\ full' = full /\ partial' = x /\ empty' = link[x].next
      /\ ref' = [ref EXCEPT ![Counter(x)] = @ + 1]
      /\ link' = SetNext(DropHead(link, x), x, NULL)
  BY <1>1, <1>3 DEF AllocEmpty, SlotsAfter, MayAlloc, Counted
<1>5. RefcountExact' /\ ref' \in [Header -> 0 .. K]
  BY <1>2, <1>3, <1>4, CountsMoved
<1>6. ItemsExact' /\ items' \subseteq [slab : Header, slot : Slot]
  BY <1>2, <1>3, <1>4, ItemTaken, SlotFacts
<1>7. slots' \in [Header -> SUBSET Slot]
  BY <1>2, <1>4, SlotsOf
<1>8. partial = NULL /\ PartialOnes = {}
  BY OpenLists DEF AllocEmpty
<1>9. FullOnes' = FullOnes /\ EmptyOnes' = EmptyOnes \ {x} /\ PartialOnes' = PartialOnes \cup {x}
  <2>1. /\ FullOnes' = IF ss = {} THEN FullOnes \cup {x} ELSE FullOnes \ {x}
        /\ EmptyOnes' = IF ss = Slot THEN EmptyOnes \cup {x} ELSE EmptyOnes \ {x}
        /\ PartialOnes' = IF ss # {} /\ ss # Slot THEN PartialOnes \cup {x} ELSE PartialOnes \ {x}
    BY <1>2, <1>4, KindsAfter
  <2>2. x \notin FullOnes
    BY <1>2, Kinds
  <2> QED
    BY <2>1, <2>2, <1>3
<1>10. /\ ListInv' /\ link' \in Links
       /\ partial' \in HeaderOrNull /\ empty' \in HeaderOrNull /\ full' \in HeaderOrNull
  <2>1. /\ LeftHead(link, x, empty) = link[x].next
        /\ SetPrev(Left(link, x, empty), x, NULL) = DropHead(link, x)
    BY <1>1, OpenLists, HeadLeaves DEF AllocEmpty
  <2>5. link' = Pushed(DropHead(link, x), x, partial)
    BY <1>4, <1>8, NoPrevSet DEF Pushed
  <2>6. /\ link' \in Links /\ empty' \in HeaderOrNull
        /\ IsList(link', empty', EmptyOnes \ {x})
        /\ IsList(link', x, PartialOnes \cup {x}) /\ IsList(link', full, FullOnes)
    <3>1. link' = Pushed(SetPrev(Left(link, x, empty), x, NULL), x, partial)
          /\ empty' = LeftHead(link, x, empty)
      BY <1>4, <2>1, <2>5
    <3> QED
      BY <3>1, <1>2, OpenKinds, Moved
  <2>7. full' \in HeaderOrNull /\ partial' \in HeaderOrNull
    BY <1>2, <1>4, OpenLists DEF HeaderOrNull
  <2> QED
    BY <2>6, <2>7, <1>4, <1>9 DEF ListInv
<1>11. mapped' = mapped
  BY <1>4 DEF SlotsAfter
<1> QED
  BY <1>4, <1>5, <1>6, <1>7, <1>10, <1>11, OpenStep

LEMMA FreeFullStep ==
  ASSUME Open, NEW o \in items, FreeFull(o)
  PROVE  SlabInv'
<1>1. PICK x : x = o.slab
  OBVIOUS
<1>2. x \in InUse /\ o.slot \in Slot /\ slots[x] = {} /\ x \in FullOnes /\ x \in Header
  <2>1. x \in InUse /\ o.slot \in Slot
    BY <1>1, ItemOf
  <2>2. slots[x] = {}
    BY <1>1 DEF FreeFull
  <2> QED
    BY <2>1, <2>2 DEF FullOnes, InUse
<1>3. PICK ss \in SUBSET Slot : ss = slots[x] \cup {o.slot} /\ ss = {o.slot} /\ ss # {} /\ ss # Slot
  <2>1. {o.slot} \in SUBSET Slot /\ {o.slot} # {}
    BY <1>2
  <2>2. {o.slot} # Slot
    <3>1. ~ (0 \in {o.slot} /\ 1 \in {o.slot})
      OBVIOUS
    <3> QED
      BY <3>1, SlotFacts
  <2>3. slots[x] \cup {o.slot} = {o.slot}
    BY <1>2
  <2> QED
    BY <2>1, <2>2, <2>3
<1>4. /\ SlotsAfter(x, ss) /\ items' = items \ {o} /\ phase' = "open" /\ page' = page /\ ref' = ref
      /\ empty' = empty /\ partial' = x /\ full' = LeftHead(link, x, full)
      /\ link' = Pushed(SetPrev(Left(link, x, full), x, NULL), x, partial)
  BY <1>1, <1>3 DEF FreeFull, SlotsAfter, Found
<1>5. slots[x] # Slot
  BY <1>2, SlotFacts
<1>6. RefcountExact' /\ ref' \in [Header -> 0 .. K]
  BY <1>2, <1>3, <1>4, <1>5, CountsKept
<1>7. ItemsExact' /\ items' \subseteq [slab : Header, slot : Slot]
  BY <1>1, <1>3, <1>4, ItemReturned
<1>8. slots' \in [Header -> SUBSET Slot]
  BY <1>2, <1>4, SlotsOf
<1>9. FullOnes' = FullOnes \ {x} /\ EmptyOnes' = EmptyOnes /\ PartialOnes' = PartialOnes \cup {x}
  <2>1. /\ FullOnes' = IF ss = {} THEN FullOnes \cup {x} ELSE FullOnes \ {x}
        /\ EmptyOnes' = IF ss = Slot THEN EmptyOnes \cup {x} ELSE EmptyOnes \ {x}
        /\ PartialOnes' = IF ss # {} /\ ss # Slot THEN PartialOnes \cup {x} ELSE PartialOnes \ {x}
    BY <1>2, <1>4, KindsAfter
  <2>2. x \notin EmptyOnes
    BY <1>2, Kinds
  <2> QED
    BY <2>1, <2>2, <1>3
<1>10. /\ ListInv' /\ link' \in Links
       /\ partial' \in HeaderOrNull /\ empty' \in HeaderOrNull /\ full' \in HeaderOrNull
  <2>1. /\ link' \in Links /\ full' \in HeaderOrNull
        /\ IsList(link', full', FullOnes \ {x})
        /\ IsList(link', x, PartialOnes \cup {x}) /\ IsList(link', empty, EmptyOnes)
    BY <1>2, <1>4, OpenKinds, Moved
  <2> QED
    <3>1. x \in HeaderOrNull /\ empty \in HeaderOrNull
      BY <1>2, OpenLists DEF HeaderOrNull
    <3> QED
      BY <2>1, <3>1, <1>4, <1>9 DEF ListInv
<1>11. mapped' = mapped
  BY <1>4 DEF SlotsAfter
<1> QED
  BY <1>4, <1>6, <1>7, <1>8, <1>10, <1>11, OpenStep

\* With at most one slot in use, the item's slot is that one.
LEMMA OneSlot ==
  ASSUME Open, NEW o \in items
  PROVE  OneUsedSlot(o.slab) <=> slots[o.slab] # {} /\ slots[o.slab] \cup {o.slot} = Slot
<1>1. PICK T : T = Slot \ slots[o.slab]
  OBVIOUS
<1>2. o.slot \in T /\ slots[o.slab] \in SUBSET Slot
  BY <1>1, ItemOf, Typed DEF Open, SlabInv
<1>3. IsFiniteSet(T) /\ Cardinality(T) \in Nat
  BY <1>1, SlotFacts, FS_Difference, FS_CardinalityType
<1>4. Cardinality(T) <= 1 <=> T = {o.slot}
  <2>1. Cardinality(T) # 0
    BY <1>2, <1>3, FS_EmptySet
  <2>2. Cardinality(T) = 1 <=> \E z : T = {z}
    BY <1>3, FS_Singleton
  <2> QED
    BY <2>1, <2>2, <1>2, <1>3
<1>5. T = {o.slot} <=> slots[o.slab] \cup {o.slot} = Slot
  BY <1>1, <1>2
<1> QED
  BY <1>1, <1>4, <1>5 DEF OneUsedSlot

LEMMA FreeToEmptyStep ==
  ASSUME Open, NEW o \in items, FreeToEmpty(o)
  PROVE  SlabInv'
<1>1. PICK x : x = o.slab
  OBVIOUS
<1>2. /\ x \in InUse /\ o.slot \in Slot /\ slots[x] # {} /\ slots[x] # Slot /\ slots[x] \cup {o.slot} = Slot
      /\ x \in PartialOnes /\ x \in Header
  <2>1. x \in InUse /\ o.slot \in Slot /\ o.slot \notin slots[x]
    BY <1>1, ItemOf
  <2>2. slots[x] # {} /\ slots[x] \cup {o.slot} = Slot
    BY <1>1, OneSlot DEF FreeToEmpty
  <2>3. slots[x] # Slot /\ x \in Header
    BY <2>1 DEF InUse
  <2>4. x \in PartialOnes
    BY <2>1, <2>2, <2>3, Kinds
  <2> QED
    BY <2>1, <2>2, <2>3, <2>4
<1>3. PICK ss \in SUBSET Slot : ss = Slot /\ ss = slots[x] \cup {o.slot} /\ ss # {}
  BY <1>2
<1>4. /\ SlotsAfter(x, ss) /\ items' = items \ {o} /\ phase' = "open" /\ page' = page
      /\ ref[Counter(x)] # 1 /\ ref' = [ref EXCEPT ![Counter(x)] = @ - 1]
      /\ full' = full /\ empty' = x /\ partial' = LeftHead(link, x, partial)
      /\ link' = Pushed(SetPrev(Left(link, x, partial), x, NULL), x, empty)
  BY <1>1, <1>3 DEF FreeToEmpty, SlotsAfter, Found
<1>5. RefcountExact' /\ ref' \in [Header -> 0 .. K]
  BY <1>2, <1>3, <1>4, CountsMoved
<1>6. ItemsExact' /\ items' \subseteq [slab : Header, slot : Slot]
  BY <1>1, <1>3, <1>4, ItemReturned
<1>7. slots' \in [Header -> SUBSET Slot]
  BY <1>2, <1>4, SlotsOf
<1>8. FullOnes' = FullOnes /\ EmptyOnes' = EmptyOnes \cup {x} /\ PartialOnes' = PartialOnes \ {x}
  <2>1. /\ FullOnes' = IF ss = {} THEN FullOnes \cup {x} ELSE FullOnes \ {x}
        /\ EmptyOnes' = IF ss = Slot THEN EmptyOnes \cup {x} ELSE EmptyOnes \ {x}
        /\ PartialOnes' = IF ss # {} /\ ss # Slot THEN PartialOnes \cup {x} ELSE PartialOnes \ {x}
    BY <1>2, <1>4, KindsAfter
  <2>2. x \notin FullOnes
    BY <1>2, Kinds
  <2> QED
    BY <2>1, <2>2, <1>3
<1>9. /\ ListInv' /\ link' \in Links
      /\ partial' \in HeaderOrNull /\ empty' \in HeaderOrNull /\ full' \in HeaderOrNull
  <2>1. /\ link' \in Links /\ partial' \in HeaderOrNull
        /\ IsList(link', partial', PartialOnes \ {x})
        /\ IsList(link', x, EmptyOnes \cup {x}) /\ IsList(link', full, FullOnes)
    BY <1>2, <1>4, OpenKinds, Moved
  <2> QED
    <3>1. x \in HeaderOrNull /\ full \in HeaderOrNull
      BY <1>2, OpenLists DEF HeaderOrNull
    <3> QED
      BY <2>1, <3>1, <1>4, <1>8 DEF ListInv
<1>10. mapped' = mapped
  BY <1>4 DEF SlotsAfter
<1> QED
  BY <1>4, <1>5, <1>6, <1>7, <1>9, <1>10, OpenStep

LEMMA FreeSomeStep ==
  ASSUME Open, NEW o \in items, FreeSome(o)
  PROVE  SlabInv'
<1>1. PICK x : x = o.slab
  OBVIOUS
<1>2. /\ x \in InUse /\ o.slot \in Slot /\ slots[x] # {} /\ slots[x] # Slot /\ slots[x] \cup {o.slot} # Slot
      /\ x \in PartialOnes /\ x \in Header /\ slots[x] \in SUBSET Slot
  <2>1. x \in InUse /\ o.slot \in Slot /\ o.slot \notin slots[x]
    BY <1>1, ItemOf
  <2>2. slots[x] # {} /\ slots[x] \cup {o.slot} # Slot
    BY <1>1, OneSlot DEF FreeSome
  <2>3. slots[x] # Slot /\ x \in Header
    BY <2>1 DEF InUse
  <2>4. x \in PartialOnes
    BY <2>1, <2>2, <2>3, Kinds
  <2>5. slots[x] \in SUBSET Slot
    BY <2>3, Typed DEF Open, SlabInv
  <2> QED
    BY <2>1, <2>2, <2>3, <2>4, <2>5
<1>3. PICK ss \in SUBSET Slot : ss = slots[x] \cup {o.slot} /\ ss # {} /\ ss # Slot
  <2>1. slots[x] \cup {o.slot} \in SUBSET Slot /\ slots[x] \cup {o.slot} # {}
    BY <1>2
  <2> QED
    BY <1>2, <2>1
<1>4. /\ SlotsAfter(x, ss) /\ items' = items \ {o} /\ phase' = "open" /\ page' = page /\ ref' = ref
      /\ full' = full /\ empty' = empty /\ partial' = partial /\ link' = link
  BY <1>1, <1>3 DEF FreeSome, SlotsAfter, Found, heads
<1>5. RefcountExact' /\ ref' \in [Header -> 0 .. K]
  BY <1>2, <1>3, <1>4, CountsKept
<1>6. ItemsExact' /\ items' \subseteq [slab : Header, slot : Slot]
  BY <1>1, <1>3, <1>4, ItemReturned
<1>7. slots' \in [Header -> SUBSET Slot]
  BY <1>2, <1>4, SlotsOf
<1>8. FullOnes' = FullOnes /\ EmptyOnes' = EmptyOnes /\ PartialOnes' = PartialOnes
  <2>1. /\ FullOnes' = IF ss = {} THEN FullOnes \cup {x} ELSE FullOnes \ {x}
        /\ EmptyOnes' = IF ss = Slot THEN EmptyOnes \cup {x} ELSE EmptyOnes \ {x}
        /\ PartialOnes' = IF ss # {} /\ ss # Slot THEN PartialOnes \cup {x} ELSE PartialOnes \ {x}
    BY <1>2, <1>4, KindsAfter
  <2>2. x \notin FullOnes /\ x \notin EmptyOnes
    BY <1>2, Kinds
  <2> QED
    BY <2>1, <2>2, <1>2, <1>3
<1>9. ListInv'
  BY <1>4, <1>8, OpenLists DEF ListInv
<1>10. mapped' = mapped
  BY <1>4 DEF SlotsAfter
<1> QED
  BY <1>4, <1>5, <1>6, <1>7, <1>9, <1>10, OpenStep, Typed DEF Open, SlabInv

-----------------------------------------------------------------------------
(* A page comes *)

LEMMA Before ==
  ASSUME NEW k \in Nat \ {0}, NEW s \in Nat
  PROVE  (k - 1) * s = k * s - s /\ (k + 1) * s = k * s + s
OBVIOUS

\* The slab in front of one that is not the first.
LEMMA Neighbours ==
  ASSUME NEW p \in Bases, NEW x \in SlabsOf(p)
  PROVE  /\ x \in Nat /\ p \in Nat /\ S \in Nat \ {0} /\ p <= x
         /\ x # p => x - S \in SlabsOf(p)
         /\ K > 1 => p + S \in SlabsOf(p)
         /\ K = 1 => x = p
<1> USE SlabAssumption
<1>1. x \in Nat /\ p \in Nat /\ S \in Nat \ {0} /\ p <= x
  BY SlabPlaces
<1>2. PICK k \in 0 .. K - 1 : x = p + k * S
  BY DEF SlabsOf
<1>3. ASSUME x # p PROVE x - S \in SlabsOf(p)
  <2>1. k # 0
    BY <1>1, <1>2, <1>3
  <2>2. k - 1 \in 0 .. K - 1 /\ k \in Nat \ {0}
    BY <2>1
  <2>3. k * S \in Nat /\ (k - 1) * S = k * S - S
    BY <2>2, Before, Product
  <2>4. x - S = p + (k - 1) * S
    BY <1>1, <1>2, <2>3
  <2> QED
    BY <2>2, <2>4 DEF SlabsOf
<1>4. ASSUME K > 1 PROVE p + S \in SlabsOf(p)
  <2>1. 1 \in 0 .. K - 1 /\ p + S = p + 1 * S
    BY <1>4, <1>1
  <2> QED
    BY <2>1 DEF SlabsOf
<1>5. ASSUME K = 1 PROVE x = p
  <2>1. k = 0
    BY <1>5
  <2> QED
    BY <2>1, <1>1, <1>2
<1> QED
  BY <1>1, <1>3, <1>4, <1>5

\* The slabs of a page that has just been mapped, but for the first, are a list.
LEMMA NewPageList ==
  ASSUME NEW p \in Bases, NEW m, \A x \in SlabsOf(p) \ {p} : m[x] = NewLink(p, x)
  PROVE  IsList(m, IF K > 1 THEN p + S ELSE NULL, SlabsOf(p) \ {p})
<1> DEFINE X == SlabsOf(p) \ {p}
           h == IF K > 1 THEN p + S ELSE NULL
<1> USE HeadersAreNat
<1>1. p \in SlabsOf(p) /\ \A x \in X : x \in Nat /\ x # NULL /\ x # p
  BY SlabPlaces
<1>2. K \in Nat /\ K >= 1 /\ S \in Nat \ {0} /\ p \in Nat
  BY SlabAssumption
<1>3. X = {} <=> K = 1
  <2>1. K > 1 => p + S \in X
    BY <1>1, <1>2, Neighbours
  <2>2. K = 1 => X = {}
    BY Neighbours
  <2> QED
    BY <1>2, <2>1, <2>2
<1>4. IF X = {} THEN h = NULL ELSE h \in X
  <2>1. K > 1 => p + S \in X
    BY <1>1, <1>2, Neighbours
  <2> QED
    BY <1>2, <1>3, <2>1
<1>5. ASSUME NEW x \in X
      PROVE  /\ x \in Nat /\ x - S \in SlabsOf(p) /\ K > 1
             /\ m[x].prev = IF x - S = p THEN NULL ELSE x - S
             /\ m[x].next = IF x + S \in SlabsOf(p) THEN x + S ELSE NULL
  <2>1. m[x] = NewLink(p, x) /\ x # p
    OBVIOUS
  <2>2. x - S \in SlabsOf(p)
    BY Neighbours
  <2> QED
    BY <1>1, <1>2, <1>3, <2>1, <2>2 DEF NewLink
<1> HIDE DEF X
<1>6. ASSUME NEW x \in X
      PROVE  /\ m[x].prev = NULL <=> x = h
             /\ m[x].prev # NULL => m[x].prev \in X /\ m[m[x].prev].next = x
             /\ m[x].next # NULL => m[x].next \in X /\ m[m[x].next].prev = x
  <2>1. /\ x \in Nat /\ x - S \in SlabsOf(p) /\ K > 1 /\ x \in SlabsOf(p) /\ x # p
        /\ m[x].prev = IF x - S = p THEN NULL ELSE x - S
        /\ m[x].next = IF x + S \in SlabsOf(p) THEN x + S ELSE NULL
    BY <1>5 DEF X
  <2>2. m[x].prev = NULL <=> x = h
    <3>1. x - S \in Nat
      BY <2>1, SlabPlaces
    <3> QED
      BY <2>1, <3>1, <1>2
  <2>3. ASSUME m[x].prev # NULL PROVE m[x].prev \in X /\ m[m[x].prev].next = x
    <3>1. PICK y : y = x - S
      OBVIOUS
    <3>2. y \in X /\ m[x].prev = y /\ y \in Nat /\ y + S = x
      BY <2>1, <2>3, <3>1, <1>2, SlabPlaces DEF X
    <3>3. m[y].next = IF y + S \in SlabsOf(p) THEN y + S ELSE NULL
      BY <3>2, <1>5
    <3> QED
      BY <2>1, <3>2, <3>3
  <2>4. ASSUME m[x].next # NULL PROVE m[x].next \in X /\ m[m[x].next].prev = x
    <3>1. PICK y : y = x + S
      OBVIOUS
    <3>2. y \in SlabsOf(p) /\ m[x].next = y /\ y \in Nat /\ y - S = x /\ p <= x
      <4>1. y \in SlabsOf(p) /\ m[x].next = y
        BY <2>1, <2>4, <3>1
      <4>2. p <= x /\ y \in Nat
        BY <4>1, <2>1, SlabPlaces
      <4> QED
        BY <4>1, <4>2, <2>1, <3>1, <1>2
    <3>3. y \in X
      BY <3>1, <3>2, <2>1, <1>2 DEF X
    <3>4. m[y].prev = IF y - S = p THEN NULL ELSE y - S
      BY <3>3, <1>5
    <3> QED
      BY <2>1, <3>2, <3>3, <3>4
  <2> QED
    BY <2>2, <2>3, <2>4
<1>7. ASSUME NEW T \in SUBSET X, T # {} PROVE \E x \in T : m[x].prev \notin T
  <2>1. T \in SUBSET Nat
    BY <1>1 DEF X
  <2>2. PICK x \in T : \A y \in T : x <= y
    BY <1>7, <2>1, LeastNat
  <2>3. x \in Nat /\ m[x].prev = IF x - S = p THEN NULL ELSE x - S
    BY <1>5
  <2>4. m[x].prev \notin T
    <3>1. NULL \notin T
      BY <2>1
    <3>2. x - S \notin T
      BY <2>1, <2>2, <2>3, <1>2
    <3> QED
      BY <2>3, <3>1, <3>2
  <2> QED
    BY <2>4
<1>8. IsList(m, h, X)
  BY <1>4, <1>6, <1>7 DEF IsList
<1> QED
  BY <1>8 DEF X

LEMMA AllocMapStep ==
  ASSUME Open, NEW p \in Bases, AllocMap(p)
  PROVE  SlabInv'
<1> USE HeadersAreNat
<1>1. PICK Page : Page = SlabsOf(p)
  OBVIOUS
<1>2. p \in Page /\ Page \in SUBSET Header /\ p \in Header
  BY <1>1, SlabPlaces
<1>3. /\ partial = NULL /\ empty = NULL /\ full' = full /\ phase' = "open"
      /\ partial' = p /\ empty' = IF K > 1 THEN p + S ELSE NULL
      /\ mapped' = mapped \cup {p} /\ items' = items \cup {Item(p, 0)}
      /\ \A q \in mapped : p + K * S <= q \/ q + K * S <= p
  BY DEF AllocMap, MayAlloc
<1>4. /\ link' = [x \in Header |-> IF x \in Page THEN NewLink(p, x) ELSE link[x]]
      /\ slots' = [x \in Header |-> IF x = p THEN Rest ELSE IF x \in Page THEN Slot ELSE slots[x]]
      /\ ref' = [x \in Header |-> IF x = p THEN 1 ELSE IF x \in Page THEN 0 ELSE ref[x]]
      /\ page' = [x \in Header |-> IF x \in Page \ {p} THEN p ELSE page[x]]
  BY <1>1 DEF AllocMap
<1>5. /\ link \in Links /\ slots \in [Header -> SUBSET Slot] /\ full \in HeaderOrNull
      /\ ref \in [Header -> 0 .. K] /\ page \in [Header -> HeaderOrNull]
      /\ mapped \in SUBSET Bases /\ InUse \in SUBSET Header
      /\ items \subseteq [slab : Header, slot : Slot]
  BY Typed DEF Open, SlabInv
<1>6. \A q \in mapped : SlabsOf(q) \cap Page = {} /\ q # p
  <2>1. \A q \in mapped : q \in Bases /\ q \in SlabsOf(q) /\ SlabsOf(q) \cap Page = {}
    BY <1>1, <1>3, <1>5, ApartDisjoint, SlabPlaces
  <2> QED
    BY <2>1, <1>2
<1>7. InUse' = InUse \cup Page /\ InUse \cap Page = {}
  <2>1. InUse' = {x \in Header : \E q \in mapped \cup {p} : x \in SlabsOf(q)}
    BY <1>3 DEF InUse
  <2>2. InUse \cap Page = {}
    BY <1>6 DEF InUse
  <2>3. InUse' = InUse \cup Page
    BY <2>1, <1>1, <1>2 DEF InUse
  <2> QED
    BY <2>2, <2>3
<1>8. /\ slots' \in [Header -> SUBSET Slot] /\ slots'[p] = Rest
      /\ \A x \in Page \ {p} : slots'[x] = Slot
      /\ \A x \in Header \ Page : slots'[x] = slots[x]
  <2>1. Rest \in SUBSET Slot /\ Slot \in SUBSET Slot
    BY SlotFacts
  <2>2. \A x \in Header : (IF x = p THEN Rest ELSE IF x \in Page THEN Slot ELSE slots[x]) \in SUBSET Slot
    BY <2>1, <1>5
  <2> QED
    BY <2>2, <1>2, <1>4
<1>9. PartialOnes' = {p} /\ EmptyOnes' = Page \ {p} /\ FullOnes' = FullOnes
  <2>1. PartialOnes = {} /\ EmptyOnes = {}
    BY <1>3, OpenLists
  <2>2. \A x \in InUse : slots'[x] = slots[x] /\ slots[x] = {}
    <3>1. InUse = FullOnes
      BY <2>1 DEF PartialOnes, FullOnes
    <3> QED
      BY <3>1, <1>5, <1>7, <1>8 DEF FullOnes
  <2>3. Slot # {} /\ Rest # {} /\ Rest # Slot
    BY SlotFacts
  <2>4. FullOnes' = {x \in InUse \cup Page : slots'[x] = {}}
    BY <1>7 DEF FullOnes
  <2>5. EmptyOnes' = {x \in InUse \cup Page : slots'[x] = Slot}
    BY <1>7 DEF EmptyOnes
  <2>6. PartialOnes' = (InUse \cup Page) \ (FullOnes' \cup EmptyOnes')
    BY <1>7 DEF PartialOnes
  <2>7. FullOnes = InUse
    BY <2>2 DEF FullOnes
  <2>8. FullOnes' = InUse
    BY <2>2, <2>3, <2>4, <1>8
  <2>9. EmptyOnes' = Page \ {p}
    BY <2>2, <2>3, <2>5, <1>2, <1>8
  <2>10. PartialOnes' = {p}
    BY <2>6, <2>8, <2>9, <1>2, <1>7
  <2> QED
    BY <2>7, <2>8, <2>9, <2>10
<1>10. /\ link' \in Links /\ partial' \in HeaderOrNull /\ empty' \in HeaderOrNull /\ full' \in HeaderOrNull
       /\ \A x \in Header \ Page : link'[x] = link[x]
       /\ \A x \in Page : link'[x] = NewLink(p, x)
  <2>1. ASSUME NEW x \in Page PROVE NewLink(p, x) \in [next : HeaderOrNull, prev : HeaderOrNull]
    <3>1. CASE x = p
      BY <3>1 DEF NewLink, Unlinked, HeaderOrNull
    <3>2. CASE x # p
      <4>1. x - S \in Header
        BY <3>2, <1>1, <1>2, Neighbours
      <4>2. NewLink(p, x) = [next |-> IF x + S \in Page THEN x + S ELSE NULL,
                             prev |-> IF x - S = p THEN NULL ELSE x - S]
        BY <3>2, <1>1 DEF NewLink
      <4>3. (IF x + S \in Page THEN x + S ELSE NULL) \in HeaderOrNull
        BY <1>2 DEF HeaderOrNull
      <4>4. (IF x - S = p THEN NULL ELSE x - S) \in HeaderOrNull
        BY <4>1 DEF HeaderOrNull
      <4> QED
        BY <4>2, <4>3, <4>4
    <3> QED
      BY <3>1, <3>2
  <2>2. \A x \in Header : (IF x \in Page THEN NewLink(p, x) ELSE link[x]) \in [next : HeaderOrNull, prev : HeaderOrNull]
    BY <2>1, <1>5 DEF Links
  <2>3. link' \in Links
    BY <2>2, <1>4 DEF Links
  <2>4. partial' \in HeaderOrNull /\ full' \in HeaderOrNull
    BY <1>2, <1>3, <1>5 DEF HeaderOrNull
  <2>5. empty' \in HeaderOrNull
    <3>1. K > 1 => p + S \in Header
      BY <1>1, <1>2, Neighbours
    <3> QED
      BY <3>1, <1>3 DEF HeaderOrNull
  <2> QED
    BY <2>3, <2>4, <2>5, <1>2, <1>4
<1>11. ListInv'
  <2>1. IsList(link', partial', {p})
    <3>1. link'[p].next = NULL /\ link'[p].prev = NULL
      <4>1. NewLink(p, p) = Unlinked
        BY DEF NewLink
      <4>2. link'[p] = Unlinked
        BY <4>1, <1>2, <1>10
      <4> QED
        BY <4>2 DEF Unlinked
    <3>2. \A T \in SUBSET {p} : T # {} => \E x \in T : link'[x].prev \notin T
      BY <3>1, <1>2
    <3> QED
      BY <3>1, <3>2, <1>3 DEF IsList
  <2>2. IsList(link', empty', Page \ {p})
    <3>1. \A x \in SlabsOf(p) \ {p} : link'[x] = NewLink(p, x)
      BY <1>1, <1>10
    <3>2. IsList(link', IF K > 1 THEN p + S ELSE NULL, SlabsOf(p) \ {p})
      BY <3>1, NewPageList
    <3> QED
      BY <3>2, <1>1, <1>3
  <2>3. IsList(link', full', FullOnes)
    <3>1. \A x \in FullOnes : link'[x] = link[x]
      BY <1>5, <1>7, <1>10, Kinds
    <3>2. NULL \notin FullOnes
      BY <1>5, Kinds
    <3>3. IsList(link, full, FullOnes)
      BY OpenLists
    <3> QED
      BY <3>1, <3>2, <3>3, <1>3, SameList
  <2> QED
    BY <2>1, <2>2, <2>3, <1>9 DEF ListInv
<1>12. RefcountExact' /\ ref' \in [Header -> 0 .. K] /\ page' \in [Header -> HeaderOrNull]
  <2>1. /\ ref' \in [Header -> 0 .. K] /\ ref'[p] = 1
        /\ \A x \in Page \ {p} : ref'[x] = 0
        /\ \A x \in Header \ Page : ref'[x] = ref[x]
    BY <1>2, <1>4, <1>5, SlabAssumption
  <2>2. page' \in [Header -> HeaderOrNull]
    BY <1>2, <1>4, <1>5 DEF HeaderOrNull
  <2>3. /\ \A x \in Page \ {p} : page'[x] = p
        /\ \A x \in Header \ Page : page'[x] = page[x]
    BY <1>2, <1>4
  <2>4. ASSUME NEW q \in mapped'
        PROVE  /\ ref'[q] = Cardinality({x \in SlabsOf(q) : slots'[x] # Slot}) /\ ref'[q] >= 1
               /\ \A x \in SlabsOf(q) \ {q} : ref'[x] = 0 /\ page'[x] = q
    <3>1. CASE q = p
      <4>1. {x \in SlabsOf(q) : slots'[x] # Slot} = {p}
        BY <3>1, <1>1, <1>2, <1>8, SlotFacts
      <4>2. Cardinality({p}) = 1
        BY FS_Singleton
      <4> QED
        BY <3>1, <4>1, <4>2, <1>1, <2>1, <2>3
    <3>2. CASE q # p
      <4>1. q \in mapped /\ SlabsOf(q) \cap Page = {} /\ q \in SlabsOf(q) /\ SlabsOf(q) \subseteq Header
        BY <3>2, <1>3, <1>5, <1>6, SlabPlaces
      <4>2. \A x \in SlabsOf(q) : x \in Header \ Page /\ x # p
        BY <4>1, <1>2
      <4>3. {x \in SlabsOf(q) : slots'[x] # Slot} = {x \in SlabsOf(q) : slots[x] # Slot}
        BY <4>2, <1>8
      <4>4. \A x \in SlabsOf(q) : ref'[x] = ref[x] /\ page'[x] = page[x]
        BY <4>2, <2>1, <2>3
      <4>5. /\ ref[q] = Cardinality({x \in SlabsOf(q) : slots[x] # Slot}) /\ ref[q] >= 1
            /\ \A x \in SlabsOf(q) \ {q} : ref[x] = 0 /\ page[x] = q
        BY <4>1 DEF Open, SlabInv, RefcountExact
      <4> QED
        BY <4>1, <4>3, <4>4, <4>5
    <3> QED
      BY <3>1, <3>2
  <2> QED
    BY <2>1, <2>2, <2>4 DEF RefcountExact
<1>13. ItemsExact' /\ items' \subseteq [slab : Header, slot : Slot]
  <2>1. items = {o \in [slab : InUse, slot : Slot] : o.slot \notin slots[o.slab]}
    BY DEF Open, SlabInv, ItemsExact
  <2>2. Item(p, 0) \in [slab : Page, slot : Slot] /\ Item(p, 0).slab = p /\ Item(p, 0).slot = 0
    BY <1>2, SlotFacts DEF Item
  <2>3. items' \subseteq [slab : InUse \cup Page, slot : Slot]
    BY <2>1, <2>2, <1>3
  <2>4. ASSUME NEW o \in [slab : InUse \cup Page, slot : Slot]
        PROVE  o \in items' <=> o.slot \notin slots'[o.slab]
    <3>1. CASE o.slab \in InUse
      <4>1. o \in [slab : InUse, slot : Slot] /\ o.slab \in Header \ Page /\ o.slab # p
        BY <3>1, <1>2, <1>5, <1>7
      <4>2. o # Item(p, 0)
        BY <4>1, <2>2
      <4> QED
        BY <4>1, <4>2, <2>1, <1>3, <1>8
    <3>2. CASE o.slab = p
      <4>1. o.slab \notin InUse
        BY <3>2, <1>2, <1>7
      <4>2. o \in items' <=> o.slot = 0
        <5>1. o = Item(p, 0) <=> o.slot = 0
          BY <3>2, <2>2 DEF Item
        <5>2. o \notin items
          BY <4>1, <2>1
        <5> QED
          BY <5>1, <5>2, <1>3
      <4>3. o.slot \notin Rest <=> o.slot = 0
        BY DEF Rest
      <4> QED
        BY <3>2, <4>2, <4>3, <1>8
    <3>3. CASE o.slab \in Page \ {p}
      <4>1. o.slab \notin InUse /\ o # Item(p, 0)
        BY <3>3, <1>7, <2>2
      <4> QED
        BY <3>3, <4>1, <2>1, <1>3, <1>8
    <3> QED
      BY <3>1, <3>2, <3>3
  <2>5. items' = {o \in [slab : InUse \cup Page, slot : Slot] : o.slot \notin slots'[o.slab]}
    BY <2>3, <2>4
  <2>6. items' \subseteq [slab : Header, slot : Slot]
    BY <2>3, <1>2, <1>5
  <2> QED
    BY <2>5, <2>6, <1>7 DEF ItemsExact
<1>14. PagesApart'
  <2>1. \A q, r \in mapped : q # r => q + K * S <= r \/ r + K * S <= q
    BY DEF Open, SlabInv, PagesApart
  <2> QED
    BY <2>1, <1>3 DEF PagesApart
<1>15. TypeOK'
  BY <1>3, <1>5, <1>8, <1>10, <1>12, <1>13 DEF TypeOK, Links, HeaderOrNull
<1> QED
  BY <1>3, <1>11, <1>12, <1>13, <1>14, <1>15 DEF SlabInv, DestroyUnmapsAll

-----------------------------------------------------------------------------
(* A page goes *)

\* The head of the empty slabs goes last, if it is in the page.
LEMMA HeadOfPageGoes ==
  ASSUME NEW l \in Links, NEW h \in HeaderOrNull, NEW E \in SUBSET Header, NEW Page \in SUBSET Header,
         IsList(l, h, E \ (Page \ {h})), h \in E, h \in Page
  PROVE  /\ DropHead(l, h) \in Links /\ l[h].next \in HeaderOrNull
         /\ IsList(DropHead(l, h), l[h].next, E \ Page)
         /\ \A z \in Header \ E : DropHead(l, h)[z] = l[z]
<1>1. PICK X : X = E \ (Page \ {h})
  OBVIOUS
<1>2. X \in SUBSET Header /\ X \subseteq E /\ X \ {h} = E \ Page /\ IsList(l, h, X)
  BY <1>1
<1>3. PICK x \in X : x = h
  BY <1>1
<1>4. /\ Left(l, x, h) \in Links /\ LeftHead(l, x, h) \in HeaderOrNull
      /\ IsList(Left(l, x, h), LeftHead(l, x, h), X \ {x})
      /\ Left(l, x, h)[x] = l[x]
      /\ \A z \in Header \ X : Left(l, x, h)[z] = l[z]
  BY <1>2, LeftList
<1>5. Left(l, x, h) = DropHead(l, h) /\ LeftHead(l, x, h) = l[h].next
  BY <1>3 DEF Left, LeftHead
<1> QED
  BY <1>2, <1>3, <1>4, <1>5

LEMMA FreeUnmapStep ==
  ASSUME Open, NEW o \in items, FreeUnmap(o)
  PROVE  SlabInv'
<1> USE HeadersAreNat
<1>1. PICK x, p, Page, l, cut, head, done :
        /\ x = o.slab /\ p = Counter(x) /\ Page = SlabsOf(p)
        /\ l = Left(link, x, partial) /\ cut = Emptied(l, x, p)
        /\ head = (empty # NULL /\ empty \in Page)
        /\ done = IF head THEN DropHead(cut, empty) ELSE cut
  OBVIOUS
<1>2. /\ OneUsedSlot(x) /\ ref[p] = 1 /\ phase' = "open" /\ full' = full
      /\ partial' = LeftHead(link, x, partial)
      /\ empty' = IF head THEN cut[empty].next ELSE empty
      /\ mapped' = mapped \ {p} /\ items' = items \ {o}
      /\ link' = [y \in Header |-> IF y \in Page THEN Unlinked ELSE done[y]]
      /\ slots' = [y \in Header |-> IF y \in Page THEN {} ELSE slots[y]]
      /\ ref' = [ref EXCEPT ![p] = 0]
      /\ page' = [y \in Header |-> IF y \in Page THEN NULL ELSE page[y]]
  BY <1>1 DEF FreeUnmap, Found
<1>3. /\ link \in Links /\ slots \in [Header -> SUBSET Slot]
      /\ partial \in HeaderOrNull /\ empty \in HeaderOrNull /\ full \in HeaderOrNull
      /\ ref \in [Header -> 0 .. K] /\ page \in [Header -> HeaderOrNull]
      /\ mapped \in SUBSET Bases /\ InUse \in SUBSET Header
      /\ items \subseteq [slab : Header, slot : Slot]
  BY Typed DEF Open, SlabInv
<1>4. x \in InUse /\ o.slot \in Slot /\ o.slot \notin slots[x] /\ o = Item(x, o.slot)
  BY <1>1, ItemOf
<1>5. slots[x] # {} /\ slots[x] \cup {o.slot} = Slot /\ slots[x] # Slot
  BY <1>1, <1>2, <1>4, OneSlot
<1>6. p \in mapped /\ p \in Bases /\ x \in Page
  BY <1>1, <1>3, <1>4, PageOf
<1>7. p \in Page /\ Page \in SUBSET Header /\ Page \subseteq InUse
  BY <1>1, <1>6, SlabPlaces DEF InUse
<1>8. x \in PartialOnes
  BY <1>4, <1>5, Kinds
\* x is the only slab of the page in use.
<1>9. \A y \in Page \ {x} : y \in EmptyOnes
  <2>1. PICK U : U = {y \in SlabsOf(p) : slots[y] # Slot}
    OBVIOUS
  <2>2. ref[p] = Cardinality(U)
    BY <2>1, <1>6 DEF Open, SlabInv, RefcountExact
  <2>3. IsFiniteSet(U)
    BY <2>1, <1>6, UsedFinite DEF Used
  <2>4. \E z : U = {z}
    BY <2>2, <2>3, <1>2, FS_Singleton
  <2>5. x \in U
    BY <2>1, <1>1, <1>5, <1>6
  <2>6. U = {x}
    BY <2>4, <2>5
  <2>7. \A y \in Page \ {x} : slots[y] = Slot
    BY <2>1, <2>6, <1>1
  <2> QED
    BY <2>7, <1>7 DEF EmptyOnes
<1>10. \A y \in FullOnes : y \notin Page
  BY <1>8, <1>9, Kinds
<1>11. \A y \in PartialOnes \ {x} : y \notin Page
  BY <1>9, Kinds
<1>12. \A q \in mapped \ {p} : SlabsOf(q) \cap Page = {}
  <2> SUFFICES ASSUME NEW q \in mapped \ {p} PROVE SlabsOf(q) \cap Page = {}
    OBVIOUS
  <2>1. p + K * S <= q \/ q + K * S <= p
    BY <1>6 DEF Open, SlabInv, PagesApart
  <2> QED
    BY <2>1, <1>1, <1>3, <1>6, ApartDisjoint
<1>13. InUse' = InUse \ Page
  <2>1. InUse' = {y \in Header : \E q \in mapped \ {p} : y \in SlabsOf(q)}
    BY <1>2 DEF InUse
  <2>2. ASSUME NEW y \in Header
        PROVE  (\E q \in mapped \ {p} : y \in SlabsOf(q)) <=> y \in InUse \ Page
    BY <1>1, <1>6, <1>12 DEF InUse
  <2> QED
    BY <2>1, <2>2, <1>3
<1>14. slots' \in [Header -> SUBSET Slot] /\ \A y \in Header \ Page : slots'[y] = slots[y]
  <2>1. {} \in SUBSET Slot
    OBVIOUS
  <2> QED
    BY <2>1, <1>2, <1>3
<1>15. FullOnes' = FullOnes /\ EmptyOnes' = EmptyOnes \ Page /\ PartialOnes' = PartialOnes \ {x}
  <2>1. \A y \in InUse \ Page : slots'[y] = slots[y]
    BY <1>3, <1>14
  <2>2. FullOnes' = {y \in InUse \ Page : slots'[y] = {}}
    BY <1>13 DEF FullOnes
  <2>3. EmptyOnes' = {y \in InUse \ Page : slots'[y] = Slot}
    BY <1>13 DEF EmptyOnes
  <2>4. PartialOnes' = (InUse \ Page) \ (FullOnes' \cup EmptyOnes')
    BY <1>13 DEF PartialOnes
  <2>5. FullOnes' = FullOnes
    BY <2>1, <2>2, <1>10 DEF FullOnes
  <2>6. EmptyOnes' = EmptyOnes \ Page
    BY <2>1, <2>3 DEF EmptyOnes
  <2>7. PartialOnes' = PartialOnes \ {x}
    BY <2>4, <2>5, <2>6, <1>6, <1>11 DEF PartialOnes
  <2> QED
    BY <2>5, <2>6, <2>7
\* The lists, move by move.
<1>16. /\ l \in Links /\ partial' \in HeaderOrNull /\ IsList(l, partial', PartialOnes \ {x})
       /\ IsList(l, empty, EmptyOnes) /\ IsList(l, full, FullOnes)
  <2>1. /\ Left(link, x, partial) \in Links /\ LeftHead(link, x, partial) \in HeaderOrNull
        /\ IsList(Left(link, x, partial), LeftHead(link, x, partial), PartialOnes \ {x})
        /\ Left(link, x, partial)[x] = link[x]
        /\ \A z \in Header \ PartialOnes : Left(link, x, partial)[z] = link[z]
    <3>1. link \in Links /\ partial \in HeaderOrNull /\ PartialOnes \in SUBSET Header
      BY OpenLists
    <3>2. IsList(link, partial, PartialOnes)
      BY OpenLists
    <3> QED
      BY <3>1, <3>2, <1>8, LeftList
  <2>2. \A z \in Header \ PartialOnes : l[z] = link[z]
    BY <2>1, <1>1
  <2>3. IsList(l, empty, EmptyOnes)
    <3>1. \A z \in EmptyOnes : l[z] = link[z]
      BY <2>2, OpenLists, Kinds
    <3> QED
      BY <3>1, OpenLists, SameList
  <2>4. IsList(l, full, FullOnes)
    <3>1. \A z \in FullOnes : l[z] = link[z]
      BY <2>2, OpenLists, Kinds
    <3> QED
      BY <3>1, OpenLists, SameList
  <2> QED
    BY <2>1, <2>3, <2>4, <1>1, <1>2
<1>17. /\ cut \in Links /\ IsList(cut, empty, EmptyOnes \ (Page \ {empty}))
       /\ \A z \in Header \ EmptyOnes : cut[z] = l[z]
  <2>1. EmptyOnes \in SUBSET Header
    BY OpenLists
  <2>2. x \in SlabsOf(p) /\ x \notin EmptyOnes /\ SlabsOf(p) \ {x} \subseteq EmptyOnes
    BY <1>1, <1>6, <1>8, <1>9, Kinds
  <2>3. /\ Emptied(l, x, p) \in Links
        /\ IsList(Emptied(l, x, p), empty, EmptyOnes \ (SlabsOf(p) \ {empty}))
        /\ \A z \in Header \ EmptyOnes : Emptied(l, x, p)[z] = l[z]
    <3>1. PICK E : E = EmptyOnes
      OBVIOUS
    <3>2. E \in SUBSET Header /\ x \notin E /\ SlabsOf(p) \ {x} \subseteq E
      BY <2>1, <2>2, <3>1
    <3>3. IsList(l, empty, E)
      BY <1>16, <3>1
    <3>4. l \in Links
      BY <1>16
    <3>5. /\ Emptied(l, x, p) \in Links
          /\ IsList(Emptied(l, x, p), empty, E \ (SlabsOf(p) \ {empty}))
          /\ \A z \in Header \ E : Emptied(l, x, p)[z] = l[z]
      BY <3>2, <3>3, <3>4, <2>2, <1>3, <1>6, EmptiedList
    <3> QED
      BY <3>1, <3>5
  <2> QED
    BY <2>3, <1>1
<1>18. /\ done \in Links /\ empty' \in HeaderOrNull /\ IsList(done, empty', EmptyOnes \ Page)
       /\ \A z \in Header \ EmptyOnes : done[z] = l[z]
  <2>1. PICK E : E = EmptyOnes
    OBVIOUS
  <2>2. E \in SUBSET Header /\ (empty # NULL <=> empty \in E)
    BY <2>1, OpenLists
  <2>3. cut \in Links /\ IsList(cut, empty, E \ (Page \ {empty}))
    BY <2>1, <1>17
  <2>4. done \in Links /\ empty' \in HeaderOrNull /\ IsList(done, empty', E \ Page)
        /\ \A z \in Header \ E : done[z] = cut[z]
    <3>1. CASE head
      <4>1. empty \in E /\ empty \in Page
        BY <3>1, <2>2, <1>1
      <4>2. /\ DropHead(cut, empty) \in Links /\ cut[empty].next \in HeaderOrNull
            /\ IsList(DropHead(cut, empty), cut[empty].next, E \ Page)
            /\ \A z \in Header \ E : DropHead(cut, empty)[z] = cut[z]
        BY <4>1, <2>2, <2>3, <1>3, <1>7, HeadOfPageGoes
      <4>3. done = DropHead(cut, empty) /\ empty' = cut[empty].next
        BY <3>1, <1>1, <1>2
      <4> QED
        BY <4>2, <4>3
    <3>2. CASE ~ head
      <4>1. done = cut /\ empty' = empty
        BY <3>2, <1>1, <1>2
      <4>2. empty \notin Page
        BY <3>2, <1>1, <1>7
      <4>3. E \ (Page \ {empty}) = E \ Page
        BY <4>2
      <4> QED
        BY <4>1, <4>3, <2>3, <1>3
    <3> QED
      BY <3>1, <3>2
  <2> QED
    BY <2>1, <2>4, <1>17
<1>19. link' \in Links /\ \A y \in Header \ Page : link'[y] = done[y]
  <2>1. Unlinked \in [next : HeaderOrNull, prev : HeaderOrNull]
    BY DEF Unlinked, HeaderOrNull
  <2>2. \A y \in Header : (IF y \in Page THEN Unlinked ELSE done[y]) \in [next : HeaderOrNull, prev : HeaderOrNull]
    BY <2>1, <1>18 DEF Links
  <2> QED
    BY <2>2, <1>2 DEF Links
<1>20. ListInv'
  <2>1. IsList(link', partial', PartialOnes \ {x})
    <3>1. \A z \in PartialOnes \ {x} : z \in Header \ Page /\ z \in Header \ EmptyOnes
      BY <1>11, OpenLists, Kinds
    <3>2. \A z \in PartialOnes \ {x} : link'[z] = l[z]
      BY <3>1, <1>18, <1>19
    <3> QED
      BY <3>1, <3>2, <1>16, SameList
  <2>2. IsList(link', full', FullOnes)
    <3>1. \A z \in FullOnes : z \in Header \ Page /\ z \in Header \ EmptyOnes
      BY <1>10, OpenLists, Kinds
    <3>2. \A z \in FullOnes : link'[z] = l[z]
      BY <3>1, <1>18, <1>19
    <3>3. IsList(l, full', FullOnes)
      BY <1>2, <1>16
    <3> QED
      BY <3>1, <3>2, <3>3, SameList
  <2>3. IsList(link', empty', EmptyOnes \ Page)
    <3>1. \A z \in EmptyOnes \ Page : z \in Header \ Page
      BY OpenLists
    <3>2. \A z \in EmptyOnes \ Page : link'[z] = done[z]
      BY <3>1, <1>19
    <3> QED
      BY <3>1, <3>2, <1>18, SameList
  <2> QED
    BY <2>1, <2>2, <2>3, <1>15 DEF ListInv
<1>21. RefcountExact' /\ ref' \in [Header -> 0 .. K] /\ page' \in [Header -> HeaderOrNull]
  <2>1. ref' \in [Header -> 0 .. K] /\ \A y \in Header \ Page : ref'[y] = ref[y]
    BY <1>2, <1>3, <1>7, SlabAssumption
  <2>2. page' \in [Header -> HeaderOrNull] /\ \A y \in Header \ Page : page'[y] = page[y]
    BY <1>2, <1>3 DEF HeaderOrNull
  <2>3. ASSUME NEW q \in mapped'
        PROVE  /\ ref'[q] = Cardinality({y \in SlabsOf(q) : slots'[y] # Slot}) /\ ref'[q] >= 1
               /\ \A y \in SlabsOf(q) \ {q} : ref'[y] = 0 /\ page'[y] = q
    <3>1. q \in mapped /\ SlabsOf(q) \cap Page = {} /\ q \in SlabsOf(q) /\ SlabsOf(q) \subseteq Header
      BY <1>2, <1>3, <1>12, SlabPlaces
    <3>2. \A y \in SlabsOf(q) : y \in Header \ Page
      BY <3>1
    <3>3. {y \in SlabsOf(q) : slots'[y] # Slot} = {y \in SlabsOf(q) : slots[y] # Slot}
      BY <3>2, <1>14
    <3>4. \A y \in SlabsOf(q) : ref'[y] = ref[y] /\ page'[y] = page[y]
      BY <3>2, <2>1, <2>2
    <3>5. /\ ref[q] = Cardinality({y \in SlabsOf(q) : slots[y] # Slot}) /\ ref[q] >= 1
          /\ \A y \in SlabsOf(q) \ {q} : ref[y] = 0 /\ page[y] = q
      BY <3>1 DEF Open, SlabInv, RefcountExact
    <3> QED
      BY <3>1, <3>3, <3>4, <3>5
  <2> QED
    BY <2>1, <2>2, <2>3 DEF RefcountExact
<1>22. ItemsExact' /\ items' \subseteq [slab : Header, slot : Slot]
  <2>1. items = {q \in [slab : InUse, slot : Slot] : q.slot \notin slots[q.slab]}
    BY DEF Open, SlabInv, ItemsExact
  <2>2. ASSUME NEW q \in items, q.slab \in Page PROVE q = o
    <3>1. q = Item(q.slab, q.slot) /\ q.slot \in Slot /\ q.slot \notin slots[q.slab]
      BY ItemOf
    <3>2. q.slab = x
      BY <3>1, <2>2, <1>9 DEF EmptyOnes
    <3>3. q.slot = o.slot
      BY <3>1, <3>2, <1>5
    <3> QED
      BY <3>1, <3>2, <3>3, <1>4
  <2>3. ASSUME NEW q
        PROVE  q \in items' <=> q \in [slab : InUse \ Page, slot : Slot] /\ q.slot \notin slots'[q.slab]
    <3>1. ASSUME q \in items' PROVE q \in [slab : InUse \ Page, slot : Slot] /\ q.slot \notin slots'[q.slab]
      <4>1. q \in items /\ q.slab \notin Page
        BY <3>1, <2>2, <1>2
      <4>2. q \in [slab : InUse, slot : Slot] /\ q.slot \notin slots[q.slab]
        BY <4>1, <2>1
      <4>3. q \in [slab : InUse \ Page, slot : Slot] /\ q.slab \in Header \ Page
        BY <4>1, <4>2, <1>3
      <4> QED
        BY <4>2, <4>3, <1>14
    <3>2. ASSUME q \in [slab : InUse \ Page, slot : Slot], q.slot \notin slots'[q.slab] PROVE q \in items'
      <4>1. q \in [slab : InUse, slot : Slot] /\ q.slab \in Header \ Page
        BY <3>2, <1>3
      <4>2. q \in items
        BY <4>1, <3>2, <2>1, <1>14
      <4>3. q # o
        BY <4>1, <1>1, <1>6
      <4> QED
        BY <4>2, <4>3, <1>2
    <3> QED
      BY <3>1, <3>2
  <2>4. items' = {q \in [slab : InUse \ Page, slot : Slot] : q.slot \notin slots'[q.slab]}
    BY <2>3
  <2>5. items' \subseteq [slab : Header, slot : Slot]
    BY <1>2, <1>3
  <2> QED
    BY <2>4, <2>5, <1>13 DEF ItemsExact
<1>23. PagesApart'
  BY <1>2 DEF Open, SlabInv, PagesApart
<1>24. TypeOK'
  <2>1. mapped' \subseteq Bases /\ full' \in HeaderOrNull
    BY <1>2, <1>3
  <2> QED
    BY <2>1, <1>2, <1>14, <1>16, <1>18, <1>19, <1>21, <1>22 DEF TypeOK, Links, HeaderOrNull
<1> QED
  BY <1>2, <1>20, <1>21, <1>22, <1>23, <1>24 DEF SlabInv, DestroyUnmapsAll

-----------------------------------------------------------------------------
(* What the lists hold *)

LEMMA ListedIs ==
  ASSUME NEW h \in HeaderOrNull, link \in Links, NEW X \in SUBSET Header, IsList(link, h, X)
  PROVE  /\ Listed(h) = X
         /\ \A i \in DOMAIN Chain(h) :
              link[Chain(h)[i]].prev = IF i = 1 THEN NULL ELSE Chain(h)[i - 1]
<1>1. PICK n \in Nat :
        /\ Chain(h) \in [1 .. n -> X]
        /\ \A x \in X : \E i \in 1 .. n : Chain(h)[i] = x
        /\ \A i, j \in 1 .. n : Chain(h)[i] = Chain(h)[j] => i = j
        /\ \A i \in 1 .. n :
             link[Chain(h)[i]].prev = IF i = 1 THEN NULL ELSE Chain(h)[i - 1]
  BY ChainOfList
<1>2. DOMAIN Chain(h) = 1 .. n
  BY <1>1
<1>3. Listed(h) = {Chain(h)[i] : i \in 1 .. n}
  BY <1>2 DEF Listed, Range
<1> QED
  BY <1>1, <1>2, <1>3

LEMMA ListsHold ==
  ASSUME Open
  PROVE  /\ Listed(partial) = PartialOnes /\ Listed(empty) = EmptyOnes /\ Listed(full) = FullOnes
         /\ \A h \in {partial, empty, full} : \A i \in DOMAIN Chain(h) :
              link[Chain(h)[i]].prev = IF i = 1 THEN NULL ELSE Chain(h)[i - 1]
<1> USE OpenLists
<1>1. /\ Listed(partial) = PartialOnes
      /\ \A i \in DOMAIN Chain(partial) :
           link[Chain(partial)[i]].prev = IF i = 1 THEN NULL ELSE Chain(partial)[i - 1]
  BY ListedIs
<1>2. /\ Listed(empty) = EmptyOnes
      /\ \A i \in DOMAIN Chain(empty) :
           link[Chain(empty)[i]].prev = IF i = 1 THEN NULL ELSE Chain(empty)[i - 1]
  BY ListedIs
<1>3. /\ Listed(full) = FullOnes
      /\ \A i \in DOMAIN Chain(full) :
           link[Chain(full)[i]].prev = IF i = 1 THEN NULL ELSE Chain(full)[i - 1]
  BY ListedIs
<1> QED
  BY <1>1, <1>2, <1>3

\* slab_destroy finds every page, because the first slab of the page is on a list.
LEMMA DestroyStep ==
  ASSUME Open, Destroy
  PROVE  SlabInv'
<1>1. mapped \subseteq DestroyPages
  <2> SUFFICES ASSUME NEW p \in mapped PROVE p \in DestroyPages
    OBVIOUS
  <2>1. p \in InUse /\ ref[p] >= 1
    BY Typed, SlabPlaces DEF Open, SlabInv, RefcountExact, InUse
  <2>2. p \in PartialOnes \cup EmptyOnes \cup FullOnes
    BY <2>1 DEF PartialOnes
  <2> QED
    BY <2>1, <2>2, ListsHold DEF DestroyPages
<1>2. mapped' = {} /\ phase' = "destroyed" /\ items' = {}
      /\ UNCHANGED <<partial, empty, full, link, slots, ref, page>>
  BY <1>1 DEF Destroy, heads, fields
<1> QED
  BY <1>2 DEF Open, SlabInv, TypeOK, RefcountExact, ItemsExact, DestroyUnmapsAll

LEMMA FreeLostStep ==
  ASSUME SlabInv, NEW o \in items, FreeLost(o)
  PROVE  SlabInv'
<1>1. phase' = "lost" /\ UNCHANGED <<partial, empty, full, link, slots, ref, page, mapped, items>>
  BY DEF FreeLost, heads, fields
<1> QED
  BY <1>1 DEF SlabInv, TypeOK, RefcountExact, ItemsExact, DestroyUnmapsAll

LEMMA SlabStutter ==
  ASSUME SlabInv, UNCHANGED vars
  PROVE  SlabInv'
<1>1. UNCHANGED <<partial, empty, full, link, slots, ref, page, mapped, items, phase>>
  BY DEF vars, heads, fields
<1>2. InUse' = InUse
  BY <1>1 DEF InUse
<1>3. FullOnes' = FullOnes /\ EmptyOnes' = EmptyOnes /\ PartialOnes' = PartialOnes
  BY <1>1, <1>2 DEF FullOnes, EmptyOnes, PartialOnes
<1>4. TypeOK' /\ DestroyUnmapsAll' /\ RefcountExact'
  <2>1. TypeOK'
    BY <1>1 DEF SlabInv, TypeOK
  <2>2. DestroyUnmapsAll'
    BY <1>1 DEF SlabInv, DestroyUnmapsAll
  <2>3. RefcountExact'
    BY <1>1 DEF SlabInv, RefcountExact
  <2> QED
    BY <2>1, <2>2, <2>3
<1>5. ItemsExact'
  BY <1>1, <1>2 DEF SlabInv, ItemsExact
<1>6. phase' = "open" => PagesApart' /\ ListInv'
  BY <1>1, <1>3 DEF SlabInv, PagesApart, ListInv
<1> QED
  BY <1>4, <1>5, <1>6 DEF SlabInv

LEMMA SlabStep ==
  ASSUME SlabInv, [Next]_vars
  PROVE  SlabInv'
<1>1. CASE AllocPartial
  BY <1>1, AllocPartialStep DEF Open, AllocPartial, MayAlloc
<1>2. CASE AllocEmpty
  BY <1>2, AllocEmptyStep DEF Open, AllocEmpty, MayAlloc
<1>3. ASSUME NEW p \in Bases, AllocMap(p) PROVE SlabInv'
  BY <1>3, AllocMapStep DEF Open, AllocMap, MayAlloc
<1>4. CASE AllocFails
  BY <1>4, SlabStutter DEF AllocFails
<1>5. CASE Destroy
  BY <1>5, DestroyStep DEF Open, Destroy
<1>6. ASSUME NEW o \in items, Free(o) PROVE SlabInv'
  <2>1. CASE FreeFull(o)
    BY <2>1, FreeFullStep DEF Open, FreeFull, Found
  <2>2. CASE FreeUnmap(o)
    BY <2>2, FreeUnmapStep DEF Open, FreeUnmap, Found
  <2>3. CASE FreeToEmpty(o)
    BY <2>3, FreeToEmptyStep DEF Open, FreeToEmpty, Found
  <2>4. CASE FreeSome(o)
    BY <2>4, FreeSomeStep DEF Open, FreeSome, Found
  <2>5. CASE FreeLost(o)
    BY <2>5, FreeLostStep
  <2> QED
    BY <1>6, <2>1, <2>2, <2>3, <2>4, <2>5 DEF Free
<1>7. CASE UNCHANGED vars
  BY <1>7, SlabStutter
<1> QED
  BY <1>1, <1>2, <1>3, <1>4, <1>5, <1>6, <1>7 DEF Next, Alloc

LEMMA SlabStart == Init => SlabInv
<1> SUFFICES ASSUME Init PROVE SlabInv
  OBVIOUS
<1>1. InUse = {}
  BY DEF Init, InUse
<1>2. FullOnes = {} /\ EmptyOnes = {} /\ PartialOnes = {}
  BY <1>1 DEF FullOnes, EmptyOnes, PartialOnes
<1>3. ListInv
  BY <1>2 DEF ListInv, IsList, Init
<1>4. TypeOK
  <2>1. Unlinked \in [next : Header \cup {NULL}, prev : Header \cup {NULL}]
    BY DEF Unlinked
  <2>2. 0 \in 0 .. K
    BY SlabAssumption
  <2> QED
    BY <2>1, <2>2 DEF Init, TypeOK
<1>5. RefcountExact /\ DestroyUnmapsAll /\ PagesApart
  BY DEF Init, RefcountExact, DestroyUnmapsAll, PagesApart
<1>6. ItemsExact
  BY <1>1 DEF Init, ItemsExact
<1> QED
  BY <1>3, <1>4, <1>5, <1>6 DEF SlabInv

-----------------------------------------------------------------------------
(* The theorems *)

\* slab_init, slab_alloc, slab_free and slab_destroy keep the chain in order, as
\* long as slab_free finds the headers.
THEOREM SlabInvariance == Spec => []SlabInv
<1>1. SlabInv /\ [Next]_vars => SlabInv'
  BY SlabStep
<1> QED
  BY <1>1, SlabStart, PTL DEF Spec

\* Each list holds exactly the mapped slabs whose slots call for it, and the asserts
\* of slab_is_valid hold, between any two calls.
THEOREM ListsStayExact == Spec => []ListsExact
<1>1. SlabInv => ListsExact
  <2> SUFFICES ASSUME SlabInv PROVE ListsExact
    OBVIOUS
  <2>1. ASSUME phase = "open"
        PROVE  /\ PagesApart /\ ListInv /\ SlabIsValid
               /\ Listed(full) = FullOnes /\ Listed(empty) = EmptyOnes /\ Listed(partial) = PartialOnes
    <3>1. Open
      BY <2>1 DEF Open
    <3>2. /\ Listed(partial) = PartialOnes /\ Listed(empty) = EmptyOnes /\ Listed(full) = FullOnes
          /\ \A h \in {partial, empty, full} : \A i \in DOMAIN Chain(h) :
               link[Chain(h)[i]].prev = IF i = 1 THEN NULL ELSE Chain(h)[i - 1]
      BY <3>1, ListsHold
    <3>3. /\ \A x \in FullOnes : slots[x] = {}
          /\ \A x \in EmptyOnes : slots[x] = Slot
          /\ \A x \in PartialOnes : slots[x] # {} /\ slots[x] # Slot
      BY Kinds DEF FullOnes, EmptyOnes
    <3>4. SlabIsValid
      BY <3>2, <3>3 DEF SlabIsValid
    <3> QED
      BY <2>1, <3>2, <3>4 DEF SlabInv
  <2>2. TypeOK
    BY DEF SlabInv
  <2> QED
    BY <2>1, <2>2 DEF ListsExact
<1> QED
  BY <1>1, SlabInvariance, PTL

\* A page is unmapped exactly when the last item of its slabs is freed.
THEOREM RefcountStaysExact == Spec => []RefcountExact
<1>1. SlabInv => RefcountExact
  BY DEF SlabInv
<1> QED
  BY <1>1, SlabInvariance, PTL

\* No item is handed out twice and none is forgotten.
THEOREM ItemsStayExact == Spec => []ItemsExact
<1>1. SlabInv => ItemsExact
  BY DEF SlabInv
<1> QED
  BY <1>1, SlabInvariance, PTL

\* slab_destroy leaves no page mapped.
THEOREM DestroyLeavesNothing == Spec => []DestroyUnmapsAll
<1>1. SlabInv => DestroyUnmapsAll
  BY DEF SlabInv
<1> QED
  BY <1>1, SlabInvariance, PTL

-----------------------------------------------------------------------------
(* The header of an item *)

\* Division rounds to the multiple below.
LEMMA RoundedDown ==
  ASSUME NEW q \in Nat, NEW c \in Nat \ {0}, NEW d \in Nat, d < c
  PROVE  (q * c + d) \div c = q
OBVIOUS

LEMMA WithinSlab ==
  ASSUME NEW i \in Nat, NEW n \in Nat \ {0}, NEW c \in Nat \ {0}, i < n
  PROVE  (i * c) \div n \in Nat /\ (i * c) \div n < c
<1>1. PICK a, b, d : a = i * c /\ b = n * c /\ d = a \div n
  OBVIOUS
<1>2. a \in Nat /\ b \in Nat /\ a < b
  BY <1>1, Product, ProductMonotone
<1>3. d \in Nat /\ n * d <= a
  BY <1>1, <1>2
<1>4. d < c
  <2>1. n * d < n * c
    BY <1>1, <1>2, <1>3
  <2> QED
    BY <2>1, <1>3
<1> QED
  BY <1>1, <1>3, <1>4

\* Where the kernel maps every page at a multiple of the slab size, slab_free finds
\* the header of every item: the assert of slab_is_valid on addresses.  A slab size
\* of one memory page is such a place; slab_aligned shows what happens elsewhere.
THEOREM AlignedHeadersFound ==
  ASSUME \A p \in Bases : \E n \in Nat : p = n * S
  PROVE  Spec => []HeaderFound
<1>1. ASSUME NEW x \in Header, NEW i \in Slot PROVE SlabAt([slab |-> x, slot |-> i]) = x
  <2>1. PICK p \in Bases, k \in 0 .. K - 1 : x = p + k * S
    BY DEF Header, SlabsOf
  <2>2. PICK n \in Nat : p = n * S
    OBVIOUS
  <2>3. S \in Nat \ {0} /\ n + k \in Nat /\ x = (n + k) * S
    BY <2>1, <2>2, SlabAssumption
  <2>4. PICK q, d : q = n + k /\ d = (i * S) \div Items
    OBVIOUS
  <2>5. d \in Nat /\ d < S
    <3>1. i \in Nat /\ Items \in Nat \ {0} /\ i < Items
      BY SlabAssumption DEF Slot
    <3>2. (i * S) \div Items \in Nat /\ (i * S) \div Items < S
      BY <2>3, <3>1, WithinSlab
    <3> QED
      BY <2>4, <3>2
  <2>6. q \in Nat /\ (x + d) \div S = q
    BY <2>3, <2>4, <2>5, RoundedDown
  <2> QED
    BY <2>3, <2>4, <2>6 DEF SlabAt
<1>2. HeaderFound /\ SlabInv /\ [Next]_vars => HeaderFound'
  <2> SUFFICES ASSUME HeaderFound, SlabInv, [Next]_vars PROVE HeaderFound'
    OBVIOUS
  <2>1. ASSUME NEW o \in items PROVE SlabAt(o) = o.slab
    <3>1. o \in [slab : Header, slot : Slot]
      BY DEF SlabInv, TypeOK
    <3>2. o = [slab |-> o.slab, slot |-> o.slot] /\ o.slab \in Header /\ o.slot \in Slot
      BY <3>1
    <3> QED
      BY <3>2, <1>1
  <2>2. \A o \in items : ~ FreeLost(o)
    BY <2>1 DEF FreeLost
  <2>3. CASE Alloc
    BY <2>3 DEF Alloc, AllocPartial, AllocEmpty, AllocFails, AllocMap, vars, HeaderFound
  <2>4. CASE Destroy
    BY <2>4 DEF Destroy, HeaderFound
  <2>5. ASSUME NEW o \in items, Free(o) PROVE HeaderFound'
    BY <2>2, <2>5 DEF Free, FreeFull, FreeUnmap, FreeToEmpty, FreeSome, HeaderFound
  <2>6. CASE UNCHANGED vars
    BY <2>6 DEF vars, HeaderFound
  <2> QED
    BY <2>3, <2>4, <2>5, <2>6 DEF Next
<1>3. Init => HeaderFound
  BY DEF Init, HeaderFound
<1> QED
  BY <1>2, <1>3, SlabInvariance, PTL DEF Spec

-----------------------------------------------------------------------------
(* Reports *)

\* The slots f names of the slabs X.
SlotsIn(X, f) == {o \in [slab : X, slot : Slot] : o.slot \in f[o.slab]}

LEMMA SameSize ==
  ASSUME NEW A, NEW B, IsFiniteSet(A), NEW f \in [A -> B],
         \A a, b \in A : f[a] = f[b] => a = b, \A b \in B : \E a \in A : f[a] = b
  PROVE  IsFiniteSet(B) /\ Cardinality(B) = Cardinality(A)
<1>1. f \in Injection(A, B) /\ f \in Surjection(A, B)
  BY DEF Injection, IsInjective, Surjection
<1> QED
  BY <1>1, FS_Surjection

\* slab_stats adds up, over the slabs of a list, what each of them has.
LEMMA ListCounts ==
  ASSUME NEW h \in HeaderOrNull, link \in Links, NEW X \in SUBSET Header, IsList(link, h, X),
         NEW f \in [Header -> SUBSET Slot]
  PROVE  /\ Len(Chain(h)) = Cardinality(X)
         /\ SumFunction([i \in DOMAIN Chain(h) |-> Cardinality(f[Chain(h)[i]])])
              = Cardinality(SlotsIn(X, f))
<1>1. PICK n \in Nat :
        /\ Chain(h) \in [1 .. n -> X]
        /\ \A x \in X : \E i \in 1 .. n : Chain(h)[i] = x
        /\ \A i, j \in 1 .. n : Chain(h)[i] = Chain(h)[j] => i = j
        /\ \A i \in 1 .. n :
             link[Chain(h)[i]].prev = IF i = 1 THEN NULL ELSE Chain(h)[i - 1]
  BY ChainOfList
<1>2. PICK c \in [1 .. n -> X] :
        /\ c = Chain(h) /\ DOMAIN c = 1 .. n
        /\ \A x \in X : \E i \in 1 .. n : c[i] = x
        /\ \A i, j \in 1 .. n : c[i] = c[j] => i = j
  BY <1>1
<1>3. IsFiniteSet(1 .. n) /\ Cardinality(1 .. n) = n
  BY FS_Interval
<1>4. Len(c) = Cardinality(X)
  <2>1. Cardinality(X) = n
    BY <1>2, <1>3, SameSize
  <2>2. c \in Seq(X) /\ Len(c) = n
    BY <1>2
  <2> QED
    BY <2>1, <2>2
<1> DEFINE g == [i \in 1 .. n |-> {o \in [slab : {c[i]}, slot : Slot] : o.slot \in f[o.slab]}]
<1>5. ASSUME NEW i \in 1 .. n
      PROVE  IsFiniteSet(g[i]) /\ Cardinality(g[i]) = Cardinality(f[c[i]])
  <2> DEFINE A == f[c[i]]
             b == [j \in A |-> [slab |-> c[i], slot |-> j]]
  <2>1. A \in SUBSET Slot /\ IsFiniteSet(A)
    BY SlotFacts, FS_Subset
  <2>2. b \in [A -> g[i]] /\ \A j, k \in A : b[j] = b[k] => j = k
    <3>1. \A j \in A : b[j] \in g[i] /\ b[j].slot = j
      BY <2>1
    <3> QED
      BY <3>1
  <2>3. \A o \in g[i] : \E j \in A : b[j] = o
    <3> SUFFICES ASSUME NEW o \in g[i] PROVE \E j \in A : b[j] = o
      OBVIOUS
    <3>1. o = [slab |-> c[i], slot |-> o.slot] /\ o.slot \in A
      OBVIOUS
    <3>2. b[o.slot] = o
      BY <3>1
    <3> QED
      BY <3>1, <3>2
  <2> HIDE DEF A, b, g
  <2>4. PICK B, r : B = g[i] /\ r = b
    OBVIOUS
  <2>5. /\ r \in [A -> B] /\ \A j, k \in A : r[j] = r[k] => j = k
        /\ \A o \in B : \E j \in A : r[j] = o
    BY <2>2, <2>3, <2>4
  <2>6. IsFiniteSet(B) /\ Cardinality(B) = Cardinality(A)
    BY <2>1, <2>5, SameSize
  <2> QED
    BY <2>4, <2>6 DEF A
<1>6. \A i, j \in 1 .. n : i # j => g[i] \cap g[j] = {}
  BY <1>2
<1>7. UNION {g[i] : i \in 1 .. n} = SlotsIn(X, f)
  <2>1. ASSUME NEW i \in 1 .. n, NEW o \in g[i] PROVE o \in SlotsIn(X, f)
    BY <1>2, <2>1 DEF SlotsIn
  <2>2. ASSUME NEW o \in SlotsIn(X, f) PROVE \E i \in 1 .. n : o \in g[i]
    <3>1. o \in [slab : X, slot : Slot] /\ o.slot \in f[o.slab]
      BY DEF SlotsIn
    <3>2. PICK i \in 1 .. n : c[i] = o.slab
      BY <3>1, <1>2
    <3>3. o \in [slab : {c[i]}, slot : Slot]
      BY <3>1, <3>2
    <3> QED
      BY <3>1, <3>3
  <2> HIDE DEF g
  <2> QED
    BY <2>1, <2>2
<1> HIDE DEF g
<1>8. SumFunction([i \in 1 .. n |-> Cardinality(g[i])]) = Cardinality(UNION {g[i] : i \in 1 .. n})
  <2>1. PICK I, d : I = 1 .. n /\ d = g
    OBVIOUS
  <2>2. IsFiniteSet(I) /\ \A i \in I : IsFiniteSet(d[i])
    BY <1>3, <1>5, <2>1
  <2>3. \A i, j \in I : i # j => d[i] \cap d[j] = {}
    BY <1>6, <2>1
  <2>4. SumFunction([i \in I |-> Cardinality(d[i])]) = Cardinality(UNION {d[i] : i \in I})
    BY <2>2, <2>3, UnionSize
  <2> QED
    BY <2>1, <2>4
<1>9. [i \in 1 .. n |-> Cardinality(g[i])] = [i \in 1 .. n |-> Cardinality(f[c[i]])]
  BY <1>5
<1>10. SumFunction([i \in 1 .. n |-> Cardinality(f[c[i]])]) = Cardinality(SlotsIn(X, f))
  BY <1>7, <1>8, <1>9
<1> QED
  BY <1>2, <1>4, <1>10

LEMMA ThreeParts ==
  ASSUME NEW A, NEW B, NEW C, NEW D, D = A \cup B \cup C, IsFiniteSet(D),
         A \cap B = {}, A \cap C = {}, B \cap C = {}
  PROVE  Cardinality(A) + Cardinality(B) + Cardinality(C) = Cardinality(D)
<1>1. A \in SUBSET D /\ B \in SUBSET D /\ C \in SUBSET D
  OBVIOUS
<1>2. IsFiniteSet(A) /\ IsFiniteSet(B) /\ IsFiniteSet(C)
  BY <1>1, FS_Subset
<1>3. PICK E : E = A \cup B
  OBVIOUS
<1>4. IsFiniteSet(E) /\ Cardinality(E) = Cardinality(A) + Cardinality(B) - Cardinality(A \cap B)
  BY <1>2, <1>3, FS_Union
<1>5. Cardinality(E \cup C) = Cardinality(E) + Cardinality(C) - Cardinality(E \cap C)
  BY <1>2, <1>4, FS_Union
<1>6. E \cup C = D /\ E \cap C = {} /\ Cardinality({}) = 0
  BY <1>3, FS_EmptySet
<1>7. Cardinality(A) \in Nat /\ Cardinality(B) \in Nat /\ Cardinality(C) \in Nat
  BY <1>2, FS_CardinalityType
<1>8. Cardinality(A \cap B) = 0 /\ Cardinality(E \cap C) = 0
  BY <1>6
<1>9. Cardinality(E) = Cardinality(A) + Cardinality(B)
  BY <1>4, <1>7, <1>8
<1>10. Cardinality(E \cup C) = Cardinality(A) + Cardinality(B) + Cardinality(C)
  BY <1>5, <1>7, <1>8, <1>9
<1> QED
  BY <1>6, <1>10

\* What is reported of a list.
LEMMA StatsOfList ==
  ASSUME Open, NEW h \in HeaderOrNull, NEW X \in SUBSET Header, IsList(link, h, X)
  PROVE  /\ ListStats(h).nr_slabs = Cardinality(X)
         /\ ListStats(h).used_slots = Cardinality({o \in [slab : X, slot : Slot] : o.slot \notin slots[o.slab]})
         /\ ListStats(h).free_slots = Cardinality({o \in [slab : X, slot : Slot] : o.slot \in slots[o.slab]})
<1>1. link \in Links /\ slots \in [Header -> SUBSET Slot]
  BY Typed DEF Open, SlabInv
<1>2. PICK f \in [Header -> SUBSET Slot] : f = slots
  BY <1>1
<1>3. PICK u \in [Header -> SUBSET Slot] : u = [x \in Header |-> Slot \ slots[x]]
  OBVIOUS
<1>4. /\ Len(Chain(h)) = Cardinality(X)
      /\ SumFunction([i \in DOMAIN Chain(h) |-> Cardinality(f[Chain(h)[i]])]) = Cardinality(SlotsIn(X, f))
  BY <1>1, ListCounts
<1>5. SumFunction([i \in DOMAIN Chain(h) |-> Cardinality(u[Chain(h)[i]])]) = Cardinality(SlotsIn(X, u))
  BY <1>1, ListCounts
<1>6. FreeOf(h) = Cardinality(SlotsIn(X, f))
  BY <1>2, <1>4 DEF FreeOf
<1>7. UsedOf(h) = Cardinality(SlotsIn(X, u))
  <2>1. \A i \in DOMAIN Chain(h) : Chain(h)[i] \in Header
    <3>1. Listed(h) = X
      BY <1>1, ListedIs
    <3> QED
      BY <3>1 DEF Listed, Range
  <2>2. [i \in DOMAIN Chain(h) |-> Cardinality(u[Chain(h)[i]])]
          = [i \in DOMAIN Chain(h) |-> Cardinality(Slot \ slots[Chain(h)[i]])]
    BY <2>1, <1>3
  <2> QED
    BY <2>2, <1>5 DEF UsedOf
<1>8. SlotsIn(X, f) = {o \in [slab : X, slot : Slot] : o.slot \in slots[o.slab]}
  BY <1>2 DEF SlotsIn
<1>9. SlotsIn(X, u) = {o \in [slab : X, slot : Slot] : o.slot \notin slots[o.slab]}
  BY <1>3 DEF SlotsIn
<1> QED
  BY <1>4, <1>6, <1>7, <1>8, <1>9 DEF ListStats

\* slab_traverse visits the items that are out and no other, and the totals of
\* slab_stats are right.
THEOREM ReportsStayExact == Spec => []ReportsExact
<1>1. SlabInv => ReportsExact
  <2> SUFFICES ASSUME SlabInv, phase = "open"
               PROVE  /\ Traversed = items
                      /\ Total(LAMBDA r : r.nr_slabs, SlabStats) = Cardinality(InUse)
                      /\ Total(LAMBDA r : r.used_slots, SlabStats) = Cardinality(items)
                      /\ Total(LAMBDA r : r.free_slots, SlabStats) = Items * Cardinality(InUse) - Cardinality(items)
    BY DEF ReportsExact
  <2>1. Open
    BY DEF Open
  <2>2. PICK P, E, F, U, I :
          P = PartialOnes /\ E = EmptyOnes /\ F = FullOnes /\ U = InUse /\ I = items
    OBVIOUS
  <2>3. /\ U = P \cup E \cup F /\ P \cap E = {} /\ P \cap F = {} /\ E \cap F = {}
        /\ U \in SUBSET Header /\ P \in SUBSET Header /\ E \in SUBSET Header /\ F \in SUBSET Header
    BY <2>2, Kinds, Typed DEF SlabInv, PartialOnes
  <2>4. I = {o \in [slab : U, slot : Slot] : o.slot \notin slots[o.slab]}
    BY <2>1, <2>2 DEF SlabInv, ItemsExact
  <2>5. /\ \A x \in F : slots[x] = {}
        /\ \A x \in E : slots[x] = Slot
    BY <2>2 DEF FullOnes, EmptyOnes
  <2> DEFINE Out(X)  == {o \in [slab : X, slot : Slot] : o.slot \notin slots[o.slab]}
             Room(X) == {o \in [slab : X, slot : Slot] : o.slot \in slots[o.slab]}
  <2>6. Traversed = I
    <3>1. Listed(partial) = P /\ Listed(full) = F
      BY <2>1, <2>2, ListsHold
    <3>2. Traversed = Out(P) \cup [slab : F, slot : Slot]
      BY <3>1 DEF Traversed
    <3>3. [slab : F, slot : Slot] = Out(F)
      BY <2>5
    <3>4. Out(E) = {}
      BY <2>5
    <3>5. Out(U) = Out(P) \cup Out(E) \cup Out(F)
      BY <2>3
    <3>6. Out(U) = I
      BY <2>4
    <3> HIDE DEF Out
    <3> QED
      BY <3>2, <3>3, <3>4, <3>5, <3>6
  <2>7. /\ ListStats(partial).nr_slabs = Cardinality(P) /\ ListStats(partial).used_slots = Cardinality(Out(P))
        /\ ListStats(partial).free_slots = Cardinality(Room(P))
        /\ ListStats(empty).nr_slabs = Cardinality(E) /\ ListStats(empty).used_slots = Cardinality(Out(E))
        /\ ListStats(empty).free_slots = Cardinality(Room(E))
        /\ ListStats(full).nr_slabs = Cardinality(F) /\ ListStats(full).used_slots = Cardinality(Out(F))
        /\ ListStats(full).free_slots = Cardinality(Room(F))
    <3>1. IsList(link, partial, P) /\ IsList(link, empty, E) /\ IsList(link, full, F)
          /\ partial \in HeaderOrNull /\ empty \in HeaderOrNull /\ full \in HeaderOrNull
      BY <2>1, <2>2, OpenLists
    <3> QED
      BY <2>1, <2>3, <3>1, StatsOfList
  <2>8. IsFiniteSet(U) /\ IsFiniteSet([slab : U, slot : Slot])
        /\ Cardinality([slab : U, slot : Slot]) = Items * Cardinality(U) /\ Cardinality(U) \in Nat
    <3>1. IsFiniteSet(U) /\ IsFiniteSet(Slot) /\ Cardinality(Slot) = Items
      BY <2>3, FiniteHeader, FS_Subset, FS_Interval, SlabAssumption DEF Slot
    <3>2. IsFiniteSet(U \X Slot) /\ Cardinality(U \X Slot) = Cardinality(U) * Cardinality(Slot)
      BY <3>1, FS_Product
    <3> DEFINE b == [a \in U \X Slot |-> [slab |-> a[1], slot |-> a[2]]]
    <3>3. b \in [U \X Slot -> [slab : U, slot : Slot]] /\ \A a, d \in U \X Slot : b[a] = b[d] => a = d
      OBVIOUS
    <3>4. \A o \in [slab : U, slot : Slot] : \E a \in U \X Slot : b[a] = o
      <4> SUFFICES ASSUME NEW o \in [slab : U, slot : Slot] PROVE \E a \in U \X Slot : b[a] = o
        OBVIOUS
      <4>1. <<o.slab, o.slot>> \in U \X Slot /\ b[<<o.slab, o.slot>>] = o
        OBVIOUS
      <4> QED
        BY <4>1
    <3>5. IsFiniteSet([slab : U, slot : Slot]) /\ Cardinality([slab : U, slot : Slot]) = Cardinality(U \X Slot)
      <4>1. PICK A, B, f : A = U \X Slot /\ B = [slab : U, slot : Slot] /\ f = b
        OBVIOUS
      <4> HIDE DEF b
      <4>2. f \in [A -> B]
        BY <4>1, <3>3
      <4>3. \A a, d \in A : f[a] = f[d] => a = d
        BY <4>1, <3>3
      <4>4. \A o \in B : \E a \in A : f[a] = o
        BY <4>1, <3>4
      <4>5. IsFiniteSet(A)
        BY <4>1, <3>2
      <4>6. IsFiniteSet(B) /\ Cardinality(B) = Cardinality(A)
        BY <4>2, <4>3, <4>4, <4>5, SameSize
      <4> QED
        BY <4>1, <4>6
    <3>6. Cardinality(U) \in Nat
      BY <3>1, FS_CardinalityType
    <3> QED
      BY <3>1, <3>2, <3>5, <3>6, SlabAssumption
  <2>9. Cardinality(P) + Cardinality(E) + Cardinality(F) = Cardinality(U)
    BY <2>3, <2>8, ThreeParts
  <2>10. Cardinality(Out(P)) + Cardinality(Out(E)) + Cardinality(Out(F)) = Cardinality(I)
    <3>1. IsFiniteSet(I)
      BY <2>4, <2>8, FS_Subset
    <3>2. I = Out(P) \cup Out(E) \cup Out(F)
      BY <2>3, <2>4
    <3>3. Out(P) \cap Out(E) = {} /\ Out(P) \cap Out(F) = {} /\ Out(E) \cap Out(F) = {}
      BY <2>3
    <3> HIDE DEF Out
    <3> QED
      BY <3>1, <3>2, <3>3, ThreeParts
  <2>11. Cardinality(Room(P)) + Cardinality(Room(E)) + Cardinality(Room(F)) = Cardinality(Room(U))
    <3>1. Room(U) \in SUBSET [slab : U, slot : Slot]
      OBVIOUS
    <3>2. IsFiniteSet(Room(U))
      <4> HIDE DEF Room
      <4> QED
        BY <2>8, <3>1, FS_Subset
    <3>3. Room(U) = Room(P) \cup Room(E) \cup Room(F)
      BY <2>3
    <3>4. Room(P) \cap Room(E) = {} /\ Room(P) \cap Room(F) = {} /\ Room(E) \cap Room(F) = {}
      BY <2>3
    <3> HIDE DEF Room
    <3> QED
      BY <3>2, <3>3, <3>4, ThreeParts
  <2>12. Cardinality(Room(U)) = Items * Cardinality(U) - Cardinality(I)
    <3>1. PICK A : A = [slab : U, slot : Slot]
      OBVIOUS
    <3>2. Room(U) = A \ I /\ A \cap I = I
      BY <2>4, <3>1
    <3>3. Cardinality(A \ I) = Cardinality(A) - Cardinality(A \cap I)
      BY <2>8, <3>1, FS_Difference
    <3> HIDE DEF Room
    <3> QED
      BY <2>8, <3>1, <3>2, <3>3
  <2> HIDE DEF Out, Room
  <2>13. /\ SlabStats[1] = ListStats(partial) /\ SlabStats[2] = ListStats(empty) /\ SlabStats[3] = ListStats(full)
    BY DEF SlabStats
  <2>14. Total(LAMBDA r : r.nr_slabs, SlabStats) = Cardinality(U)
    BY <2>7, <2>9, <2>13 DEF Total
  <2>15. Total(LAMBDA r : r.used_slots, SlabStats) = Cardinality(I)
    BY <2>7, <2>10, <2>13 DEF Total
  <2>16. Total(LAMBDA r : r.free_slots, SlabStats) = Items * Cardinality(U) - Cardinality(I)
    BY <2>7, <2>11, <2>12, <2>13 DEF Total
  <2> QED
    BY <2>2, <2>6, <2>14, <2>15, <2>16
<1> QED
  BY <1>1, SlabInvariance, PTL

-----------------------------------------------------------------------------
(* The sizes of slabs, for items of every size *)

\* A quotient leaves less than the divisor.
LEMMA Division ==
  ASSUME NEW a \in Nat, NEW x \in Nat \ {0}
  PROVE  /\ a \div x \in Nat
         /\ (a \div x) * x <= a /\ a < (a \div x + 1) * x
OBVIOUS

LEMMA Multiple ==
  ASSUME NEW q \in Nat, NEW b \in Nat \ {0} PROVE (q * b) % b = 0
OBVIOUS

\* The powers of two are what their recursion says.
LEMMA PowersOfTwo ==
  /\ PowerOf2 \in [0 .. MaxShift -> Nat \ {0}] /\ PowerOf2[0] = 1
  /\ \A k \in 1 .. MaxShift : PowerOf2[k] = 2 * PowerOf2[k - 1]
<1>0. MaxShift \in Nat
  BY SlabSizeAssumption
<1> DEFINE G == [k \in 1 .. MaxShift |-> [x \in Nat \ {0} |-> 2 * x]]
<1>1. G \in StepsOn(MaxShift, Nat \ {0})
  BY DEF StepsOn
<1>2. PICK f : IsRun(f, MaxShift, Nat \ {0}, 1, G)
  <2> HIDE DEF G
  <2> QED
    BY <1>0, <1>1, Iteration
<1>3. f \in [0 .. MaxShift -> Nat \ {0}] /\ f[0] = 1 /\ \A k \in 1 .. MaxShift : f[k] = G[k][f[k - 1]]
  <2> HIDE DEF G
  <2> QED
    BY <1>2 DEF IsRun
<1>4. ASSUME NEW k \in 1 .. MaxShift PROVE f[k] = 2 * f[k - 1]
  <2>1. k - 1 \in 0 .. MaxShift
    BY <1>0
  <2>2. f[k - 1] \in Nat \ {0}
    BY <1>3, <2>1
  <2>3. G[k] = [x \in Nat \ {0} |-> 2 * x]
    OBVIOUS
  <2> QED
    BY <1>3, <2>2, <2>3
<1> DEFINE Def(g) == g = [k \in 0 .. MaxShift |-> IF k = 0 THEN 1 ELSE 2 * g[k - 1]]
<1>5. Def(f)
  BY <1>0, <1>3, <1>4
<1>6. Def(PowerOf2)
  <2>1. PowerOf2 = CHOOSE g : Def(g)
    BY DEF PowerOf2
  <2> HIDE DEF Def
  <2> QED
    BY <1>5, <2>1
<1> DEFINE w == PowerOf2
<1> HIDE DEF w
<1>7. w = [k \in 0 .. MaxShift |-> IF k = 0 THEN 1 ELSE 2 * w[k - 1]]
  BY <1>6 DEF w
<1>8. w[0] = 1 /\ \A k \in 1 .. MaxShift : w[k] = 2 * w[k - 1]
  <2>1. 0 \in 0 .. MaxShift /\ \A k \in 1 .. MaxShift : k \in 0 .. MaxShift /\ k # 0
    BY <1>0
  <2> QED
    BY <1>7, <2>1
<1> DEFINE P == {k \in 0 .. MaxShift : w[k] \in Nat \ {0}}
<1>9. ASSUME NEW k \in 0 .. MaxShift - 1, k \in P PROVE k + 1 \in P
  <2>1. k + 1 \in 1 .. MaxShift /\ (k + 1) - 1 = k /\ k + 1 \in 0 .. MaxShift
    BY <1>0
  <2>2. w[k + 1] = 2 * w[k]
    BY <1>8, <2>1
  <2> QED
    BY <1>9, <2>1, <2>2
<1>10. \A k \in 0 .. MaxShift : k \in P
  <2>1. 0 \in P
    BY <1>0, <1>8
  <2> HIDE DEF P
  <2> QED
    BY <1>0, <1>9, <2>1, InductionTo
<1> QED
  BY <1>7, <1>8, <1>10 DEF w

\* Each divides the larger ones.
LEMMA PowersDivide ==
  ASSUME NEW i \in 0 .. MaxShift, NEW j \in 0 .. MaxShift, i <= j
  PROVE  \E q \in Nat \ {0} : PowerOf2[j] = q * PowerOf2[i]
<1> DEFINE P == {d \in 0 .. MaxShift - i : \E q \in Nat \ {0} : PowerOf2[i + d] = q * PowerOf2[i]}
<1>0. MaxShift \in Nat /\ i \in Nat /\ MaxShift - i \in Nat /\ PowerOf2[i] \in Nat \ {0}
  <2>1. MaxShift \in Nat /\ i \in Nat
    BY SlabSizeAssumption
  <2>2. MaxShift - i \in Nat
    BY <2>1
  <2>3. PowerOf2[i] \in Nat \ {0}
    BY PowersOfTwo
  <2> QED
    BY <2>1, <2>2, <2>3
<1>1. 0 \in P
  <2>1. i + 0 = i /\ PowerOf2[i] = 1 * PowerOf2[i]
    BY <1>0
  <2> QED
    BY <1>0, <2>1
<1>2. ASSUME NEW d \in 0 .. (MaxShift - i) - 1, d \in P PROVE d + 1 \in P
  <2>1. PICK q \in Nat \ {0} : PowerOf2[i + d] = q * PowerOf2[i]
    BY <1>2
  <2>2. i + (d + 1) \in 1 .. MaxShift /\ (i + (d + 1)) - 1 = i + d /\ d + 1 \in 0 .. MaxShift - i
    BY <1>0
  <2>3. PowerOf2[i + (d + 1)] = 2 * (q * PowerOf2[i])
    BY <2>1, <2>2, PowersOfTwo
  <2>4. 2 * (q * PowerOf2[i]) = (2 * q) * PowerOf2[i] /\ 2 * q \in Nat \ {0}
    BY <1>0
  <2> QED
    BY <2>2, <2>3, <2>4
<1>3. \A d \in 0 .. MaxShift - i : d \in P
  <2> HIDE DEF P
  <2> QED
    BY <1>0, <1>1, <1>2, InductionTo
<1>4. j - i \in 0 .. MaxShift - i /\ i + (j - i) = j
  BY <1>0
<1> QED
  BY <1>3, <1>4

\* So of two powers of two the one that is not smaller is a multiple.
LEMMA LargerIsMultiple ==
  ASSUME NEW a \in PowersOf2, NEW b \in PowersOf2, a >= b
  PROVE  a \in Nat \ {0} /\ b \in Nat \ {0} /\ a % b = 0
<1>1. PICK i \in 0 .. MaxShift : a = PowerOf2[i]
  BY DEF PowersOf2
<1>2. PICK j \in 0 .. MaxShift : b = PowerOf2[j]
  BY DEF PowersOf2
<1>3. a \in Nat \ {0} /\ b \in Nat \ {0} /\ i \in Nat /\ j \in Nat
  BY <1>1, <1>2, PowersOfTwo
<1>4. PICK q \in Nat \ {0} : a = q * b
  <2>1. CASE j <= i
    BY <1>1, <1>2, <2>1, PowersDivide
  <2>2. CASE i < j
    <3>1. PICK r \in Nat \ {0} : b = r * a
      BY <1>1, <1>2, <1>3, <2>2, PowersDivide
    <3>2. r = 1
      BY <1>3, <3>1
    <3>3. a = 1 * b
      BY <1>3, <3>1, <3>2
    <3> QED
      BY <3>3
  <2> QED
    BY <1>3, <2>1, <2>2
<1> QED
  BY <1>3, <1>4, Multiple

\* The slab of slab_init before it is halved is the least power of two that holds 64
\* items.
LEMMA WholeSlab ==
  ASSUME NEW x \in Nat \ {0}, LeastSlabsize(x) <= PowerOf2[MaxShift]
  PROVE  /\ LeastSlabsize(x) \in Nat /\ LeastSlabsize(x) = DataOffset + Slots * x
         /\ WholeSlabsize(x) \in PowersOf2 /\ HalfSlabsize(x) \in PowersOf2
         /\ WholeSlabsize(x) >= LeastSlabsize(x) /\ LeastSlabsize(x) > HalfSlabsize(x)
<1> DEFINE T == {q \in PowersOf2 : q >= LeastSlabsize(x)}
<1>1. /\ DataOffset \in Nat \ {0} /\ Slots \in Nat /\ Slots >= 2 /\ MaxShift \in Nat \ {0}
      /\ Slots * x \in Nat /\ Slots * x >= 2
  <2>1. DataOffset \in Nat \ {0} /\ Slots \in Nat /\ Slots >= 2 /\ MaxShift \in Nat \ {0}
    BY SlabSizeAssumption
  <2>2. Slots * x \in Nat /\ Slots * x >= 2
    BY <2>1
  <2> QED
    BY <2>1, <2>2
<1>2. LeastSlabsize(x) \in Nat /\ LeastSlabsize(x) >= 3 /\ LeastSlabsize(x) = DataOffset + Slots * x
  BY <1>1 DEF LeastSlabsize
<1>3. PowersOf2 \subseteq Nat \ {0}
  BY PowersOfTwo DEF PowersOf2
<1>4. PowerOf2[MaxShift] \in T
  BY <1>1 DEF PowersOf2
<1>5. WholeSlabsize(x) \in T /\ \A q \in T : WholeSlabsize(x) <= q
  <2>1. T \in SUBSET Nat /\ T # {}
    BY <1>3, <1>4
  <2>2. WholeSlabsize(x) = Min(T)
    BY DEF WholeSlabsize
  <2> HIDE DEF T
  <2>3. \E q \in T : \A r \in T : q <= r
    BY <2>1, LeastNat
  <2> QED
    BY <2>2, <2>3 DEF Min
<1>6. PICK k \in 0 .. MaxShift : WholeSlabsize(x) = PowerOf2[k]
  BY <1>5 DEF PowersOf2
<1>7. k # 0 /\ k \in 1 .. MaxShift /\ k - 1 \in 0 .. MaxShift
  BY <1>1, <1>2, <1>5, <1>6, PowersOfTwo
<1>8. PowerOf2[k - 1] \in Nat \ {0} /\ WholeSlabsize(x) = 2 * PowerOf2[k - 1]
  BY <1>6, <1>7, PowersOfTwo
<1>9. HalfSlabsize(x) = PowerOf2[k - 1]
  BY <1>8 DEF HalfSlabsize
<1>10. HalfSlabsize(x) \in PowersOf2 /\ HalfSlabsize(x) < WholeSlabsize(x)
  BY <1>7, <1>8, <1>9 DEF PowersOf2
<1>11. PICK h : h = HalfSlabsize(x)
  OBVIOUS
<1>12. PICK w : w = WholeSlabsize(x)
  OBVIOUS
<1>13. PICK l : l = LeastSlabsize(x)
  OBVIOUS
<1>14. h \in PowersOf2 /\ w \in PowersOf2 /\ h < w /\ w >= l
       /\ h \in Nat /\ w \in Nat /\ l \in Nat
       /\ (h >= l => w <= h)
  BY <1>2, <1>3, <1>5, <1>10, <1>11, <1>12, <1>13
<1>15. h < l
  BY <1>14
<1> QED
  BY <1>2, <1>11, <1>12, <1>13, <1>14, <1>15

\* The larger of the slab and the least page is a power of two, and a multiple of the
\* slab.
LEMMA PageOfSlabs ==
  ASSUME NEW x, Slabsize(x) \in PowersOf2
  PROVE  /\ PagesPerAlloc(x) \in PowersOf2
         /\ PagesPerAlloc(x) >= SlabPageSize /\ PagesPerAlloc(x) >= Slabsize(x)
<1>1. SlabPageSize \in PowersOf2 /\ PowersOf2 \subseteq Nat
  BY SlabSizeAssumption, PowersOfTwo DEF PowersOf2
<1> DEFINE T == {Slabsize(x), SlabPageSize}
<1>2. \E m \in T : \A y \in T : m >= y
  <2>1. PICK a \in Nat : a = Slabsize(x)
    BY <1>1
  <2>2. PICK b \in Nat : b = SlabPageSize
    BY <1>1
  <2>3. T = {a, b}
    BY <2>1, <2>2
  <2>4. \E m \in {a, b} : \A y \in {a, b} : m >= y
    OBVIOUS
  <2> HIDE DEF T
  <2> QED
    BY <2>3, <2>4
<1>3. PagesPerAlloc(x) = Max(T)
  BY DEF PagesPerAlloc
<1>4. PagesPerAlloc(x) \in T /\ \A y \in T : PagesPerAlloc(x) >= y
  <2> HIDE DEF T
  <2> QED
    BY <1>2, <1>3 DEF Max
<1> QED
  BY <1>1, <1>4

\* What slab_init makes of items of x bytes.
LEMMA LayoutOfItems ==
  ASSUME NEW x \in Nat \ {0}, LeastSlabsize(x) <= PowerOf2[MaxShift] PROVE LayoutValid(x)
<1> DEFINE w == WholeSlabsize(x)
           h == HalfSlabsize(x)
<1>1. /\ DataOffset \in Nat \ {0} /\ Slots \in Nat /\ Slots >= 2 /\ Slots * x \in Nat
  BY SlabSizeAssumption
<1>2. /\ LeastSlabsize(x) = DataOffset + Slots * x
      /\ w \in PowersOf2 /\ h \in PowersOf2 /\ w >= DataOffset + Slots * x
      /\ h < DataOffset + Slots * x
  BY WholeSlab
<1>3. w \in Nat \ {0} /\ h \in Nat \ {0}
  BY <1>2, PowersOfTwo DEF PowersOf2
<1>4. /\ Slabsize(x) \in PowersOf2 /\ Itemcount(x) \in 2 .. Slots
      /\ DataOffset + x * Itemcount(x) <= Slabsize(x)
      /\ Itemcount(x) < Slots => DataOffset + (Itemcount(x) + 1) * x > Slabsize(x)
  <2>1. CASE ~ Shrinks(x)
    <3>1. Slabsize(x) = w /\ Itemcount(x) = Slots
      BY <2>1 DEF Slabsize, Itemcount
    <3>2. x * Slots = Slots * x
      BY <1>1
    <3> QED
      BY <1>1, <1>2, <3>1, <3>2
  <2>2. CASE Shrinks(x)
    <3> DEFINE room == h - DataOffset
               n    == room \div x
    <3>1. Slabsize(x) = h /\ Itemcount(x) = n /\ DataOffset < h /\ room >= 2 * x
      BY <2>2 DEF Slabsize, Itemcount, Shrinks
    <3>2. room \in Nat /\ room < Slots * x
      BY <1>1, <1>2, <1>3, <3>1
    <3>3. n \in Nat /\ n * x <= room /\ room < (n + 1) * x
      BY <3>2, Division
    <3> HIDE DEF n, room
    <3>4. n < Slots
      <4>1. n * x < Slots * x
        BY <1>1, <3>2, <3>3
      <4> QED
        BY <1>1, <3>3, <4>1
    <3>5. n >= 2
      <4>1. 2 * x < (n + 1) * x
        BY <3>1, <3>2, <3>3
      <4>2. 2 < n + 1
        BY <3>3, <4>1
      <4> QED
        BY <3>3, <4>2
    <3>6. x * n = n * x /\ x * n \in Nat /\ (n + 1) * x \in Nat
      BY <3>3
    <3>7. h = DataOffset + room
      BY <1>1, <1>3 DEF room
    <3> QED
      BY <1>1, <1>2, <3>1, <3>2, <3>3, <3>4, <3>5, <3>6, <3>7
  <2> QED
    BY <2>1, <2>2
<1>5. /\ PagesPerAlloc(x) \in PowersOf2
      /\ PagesPerAlloc(x) >= SlabPageSize /\ PagesPerAlloc(x) >= Slabsize(x)
  BY <1>4, PageOfSlabs
<1>6. PagesPerAlloc(x) % Slabsize(x) = 0
  BY <1>4, <1>5, LargerIsMultiple
<1> QED
  BY <1>4, <1>5, <1>6 DEF LayoutValid, SizesAsserted

\* slab_init lays out slabs of items of every size as slab_is_valid asserts, with as
\* many items as fit and slabs that fill their page.
THEOREM LayoutsHold == RequestSpec => []SlabLayoutValid
<1> DEFINE Inv == asked \in 0 .. MaxSize
<1>1. RequestInit => Inv
  BY RequestMaxSize DEF RequestInit
<1>2. Inv /\ [Ask]_asked => Inv'
  BY RequestMaxSize DEF Ask
<1>3. Inv => SlabLayoutValid
  <2> SUFFICES ASSUME Inv, asked > 0 PROVE LayoutValid(asked)
    BY DEF SlabLayoutValid
  <2>1. /\ asked \in Nat \ {0} /\ asked <= MaxSize /\ MaxSize \in Nat /\ DataOffset \in Nat
        /\ Slots \in Nat \ {0}
    BY RequestMaxSize, SlabSizeAssumption
  <2>2. /\ Slots * asked \in Nat /\ Slots * MaxSize \in Nat /\ Slots * asked <= Slots * MaxSize
    BY <2>1
  <2>3. PowerOf2[MaxShift] \in Nat
    BY SlabSizeAssumption, PowersOfTwo
  <2>4. LeastSlabsize(asked) <= PowerOf2[MaxShift]
    BY <2>1, <2>2, <2>3, MaxShiftSuffices DEF LeastSlabsize
  <2> QED
    BY <2>1, <2>4, LayoutOfItems
<1> QED
  BY <1>1, <1>2, <1>3, PTL DEF RequestSpec
=============================================================================
