--------------------------- MODULE RegistryProofs ---------------------------
(* Proofs of what RegistryProps requires, for any number of handlers. *)
EXTENDS RegistryProps, Induction, SequencesExt, SequenceTheorems

LEMMA NamesApart ==
  /\ ListHead \notin Handler /\ Nil \notin Handler /\ Idle \notin Handler
  /\ Nil # ListHead /\ Idle # ListHead /\ Nil # Idle
  /\ Node = Handler \cup {ListHead} /\ Nil \notin Node /\ Idle \notin Node
BY RegistryAssumption DEF Node

\* Where the nodes of the ring are.
LEMMA RingNodes ==
  ASSUME NEW m, NEW c, RingInv(m, c)
  PROVE  /\ m \in Nat /\ c \in [0 .. m -> Node] /\ c[0] = ListHead
         /\ \A i \in 1 .. m : c[i] \in Handler
         /\ \A i, j \in 0 .. m : c[i] = c[j] => i = j
<1>1. /\ m \in Nat /\ c \in [0 .. m -> Node] /\ c[0] = ListHead
      /\ \A i, j \in 0 .. m : c[i] = c[j] => i = j
  BY DEF RingInv
<1>2. ASSUME NEW i \in 1 .. m PROVE c[i] \in Handler
  <2>1. i \in 0 .. m /\ 0 \in 0 .. m /\ i # 0
    BY <1>1
  <2>2. c[i] \in Node /\ c[i] # ListHead
    BY <2>1, <1>1
  <2> QED
    BY <2>2, NamesApart
<1> QED
  BY <1>1, <1>2

-----------------------------------------------------------------------------
(* The list as it is read *)

\* No more handlers are on the list than there are.
LEMMA RingFits ==
  ASSUME NEW m, NEW c, RingInv(m, c)
  PROVE  m <= Cardinality(Handler) /\ Cardinality(Handler) \in Nat
<1>1. m \in Nat /\ \A i \in 1 .. m : c[i] \in Handler
  BY RingNodes
<1>2. IsFiniteSet(Handler) /\ Cardinality(Handler) \in Nat
  BY RegistryAssumption, FS_CardinalityType
<1> DEFINE f == [i \in 1 .. m |-> c[i]]
<1>3. f \in [1 .. m -> Handler]
  BY <1>1
<1>4. \A i, j \in 1 .. m : i # j => f[i] # f[j]
  <2> SUFFICES ASSUME NEW i \in 1 .. m, NEW j \in 1 .. m, c[i] = c[j] PROVE i = j
    OBVIOUS
  <2>1. i \in 0 .. m /\ j \in 0 .. m
    BY <1>1
  <2> QED
    BY <2>1, RingNodes
<1>5. IsFiniteSet(1 .. m) /\ Cardinality(1 .. m) = m
  BY <1>1, FS_Interval
<1> HIDE DEF f
<1>6. ~ (m > Cardinality(Handler))
  <2>1. Cardinality(1 .. m) > Cardinality(Handler) =>
          \E i, j \in 1 .. m : i # j /\ f[i] = f[j]
    BY <1>2, <1>3, <1>5, FS_PigeonHole
  <2> QED
    BY <2>1, <1>4, <1>5
<1> QED
  BY <1>1, <1>2, <1>6

\* What is read along p is the ring, backwards.
LEMMA RingRead ==
  ASSUME NEW m, NEW c, RingInv(m, c)
  PROVE  Listed = m /\ Ring = c /\ Members = {c[i] : i \in 1 .. m}
<1>1. PICK N : N = Cardinality(Handler)
  OBVIOUS
<1>2. /\ m \in Nat /\ c \in [0 .. m -> Node] /\ c[0] = ListHead
      /\ \A i \in 1 .. m : c[i] \in Handler
      /\ N \in Nat /\ m <= N
  BY <1>1, RingNodes, RingFits
<1>3. p[ListHead] = c[m] /\ \A i \in 1 .. m : p[c[i]] = c[i - 1]
  BY DEF RingInv
<1>4. PICK q : q = p
  OBVIOUS
<1> DEFINE Def(g) == g = [k \in 0 .. N |-> IF k = 0 THEN q[ListHead]
                                           ELSE IF g[k - 1] \in Handler THEN q[g[k - 1]] ELSE g[k - 1]]
           h == [k \in 0 .. N |-> IF k <= m THEN c[m - k] ELSE ListHead]
<1>5. FromEnd = CHOOSE g : Def(g)
  BY <1>1, <1>4 DEF FromEnd
<1>6. /\ h[0] = q[ListHead]
      /\ \A k \in 1 .. N : h[k] = IF h[k - 1] \in Handler THEN q[h[k - 1]] ELSE h[k - 1]
  <2>1. h[0] = c[m]
    BY <1>2
  <2>2. ASSUME NEW k \in 1 .. N
        PROVE  h[k] = IF h[k - 1] \in Handler THEN q[h[k - 1]] ELSE h[k - 1]
    <3>1. k \in 0 .. N /\ k - 1 \in 0 .. N
      BY <1>2
    <3>2. CASE k <= m
      <4>1. h[k] = c[m - k] /\ h[k - 1] = c[m - (k - 1)]
        BY <3>1, <3>2, <1>2
      <4>2. m - (k - 1) \in 1 .. m /\ (m - (k - 1)) - 1 = m - k
        BY <3>1, <3>2, <1>2
      <4>3. c[m - (k - 1)] \in Handler /\ q[c[m - (k - 1)]] = c[m - k]
        <5>1. PICK i : i = m - (k - 1)
          OBVIOUS
        <5>2. c[i] \in Handler /\ q[c[i]] = c[i - 1]
          BY <5>1, <4>2, <1>2, <1>3, <1>4
        <5> QED
          BY <5>1, <5>2, <4>2
      <4> HIDE DEF h
      <4> QED
        BY <4>1, <4>3
    <3>3. CASE ~ (k <= m)
      <4>1. h[k] = ListHead /\ h[k - 1] = ListHead
        <5>1. k - 1 <= m => m - (k - 1) = 0
          BY <3>1, <3>3, <1>2
        <5> QED
          BY <5>1, <3>1, <3>3, <1>2
      <4> HIDE DEF h
      <4> QED
        BY <4>1, NamesApart
    <3> QED
      BY <3>2, <3>3
  <2> QED
    BY <2>1, <2>2, <1>3, <1>4
<1>7. Def(h)
  <2>1. h = [k \in 0 .. N |-> h[k]]
    OBVIOUS
  <2>2. \A k \in 0 .. N : k # 0 => k \in 1 .. N
    BY <1>2
  <2> HIDE DEF h
  <2> QED
    BY <2>1, <2>2, <1>6
<1>8. PICK w : w = FromEnd
  OBVIOUS
<1>9. Def(w)
  <2> HIDE DEF Def, h
  <2> QED
    BY <1>5, <1>7, <1>8
<1>10. DOMAIN w = 0 .. N /\ w[0] = q[ListHead]
       /\ \A k \in 1 .. N : w[k] = IF w[k - 1] \in Handler THEN q[w[k - 1]] ELSE w[k - 1]
  <2>1. 0 \in 0 .. N /\ \A k \in 1 .. N : k \in 0 .. N /\ k # 0
    BY <1>2
  <2> QED
    BY <2>1, <1>9
<1> HIDE DEF Def, h
<1> DEFINE P == {k \in 0 .. N : w[k] = h[k]}
<1>11. \A k \in 0 .. N : k \in P
  <2>1. 0 \in P
    BY <1>2, <1>6, <1>10
  <2>2. ASSUME NEW k \in 0 .. N - 1, k \in P PROVE k + 1 \in P
    <3>1. k + 1 \in 1 .. N /\ k + 1 \in 0 .. N /\ (k + 1) - 1 = k
      BY <1>2
    <3>2. w[k] = h[k]
      BY <2>2
    <3> QED
      BY <3>1, <3>2, <1>6, <1>10
  <2> HIDE DEF P
  <2>3. \A k \in 0 .. N - 1 : k \in P => k + 1 \in P
    BY <2>2
  <2> QED
    BY <2>1, <2>3, <1>2, InductionTo
<1>12. \A k \in 0 .. N : w[k] = IF k <= m THEN c[m - k] ELSE ListHead
  BY <1>11 DEF h
<1>13. \A k \in 0 .. N : w[k] \in Handler <=> k < m
  <2> SUFFICES ASSUME NEW k \in 0 .. N PROVE w[k] \in Handler <=> k < m
    OBVIOUS
  <2>1. CASE k < m
    <3>1. m - k \in 1 .. m
      BY <2>1, <1>2
    <3> QED
      BY <3>1, <2>1, <1>2, <1>12
  <2>2. CASE ~ (k < m)
    <3>1. k <= m => m - k = 0
      BY <2>2, <1>2
    <3> QED
      BY <3>1, <2>2, <1>2, <1>12, NamesApart
  <2> QED
    BY <2>1, <2>2
<1>14. Listed = m
  <2>1. {k \in 0 .. N : w[k] \in Handler} = 0 .. m - 1
    BY <1>2, <1>13
  <2>2. Cardinality(0 .. m - 1) = m
    BY <1>2, FS_Interval
  <2> QED
    BY <2>1, <2>2, <1>8, <1>10 DEF Listed
<1>15. Ring = c
  <2>1. \A i \in 0 .. m : m - i \in 0 .. N /\ m - i <= m /\ m - (m - i) = i
    BY <1>2
  <2>2. \A i \in 0 .. m : w[m - i] = c[i]
    <3> SUFFICES ASSUME NEW i \in 0 .. m PROVE w[m - i] = c[i]
      OBVIOUS
    <3>1. PICK k : k = m - i
      OBVIOUS
    <3>2. k \in 0 .. N /\ k <= m /\ m - k = i
      BY <3>1, <2>1
    <3> QED
      BY <3>1, <3>2, <1>12
  <2>3. Ring = [i \in 0 .. m |-> w[m - i]]
    BY <1>8, <1>14 DEF Ring
  <2> QED
    BY <2>2, <2>3, <1>2
<1>16. Members = {c[i] : i \in 1 .. m}
  <2>1. ASSUME NEW k \in 0 .. N, w[k] \in Handler PROVE w[k] \in {c[i] : i \in 1 .. m}
    <3>1. m - k \in 1 .. m /\ w[k] = c[m - k]
      BY <2>1, <1>2, <1>12, <1>13
    <3> QED
      BY <3>1
  <2>2. ASSUME NEW i \in 1 .. m PROVE c[i] \in Handler /\ \E k \in 0 .. N : w[k] = c[i]
    <3>1. PICK k : k = m - i
      OBVIOUS
    <3>2. k \in 0 .. N /\ k <= m /\ m - k = i
      BY <3>1, <1>2
    <3> QED
      BY <3>2, <1>2, <1>12
  <2>3. Members = {w[k] : k \in 0 .. N} \cap Handler
    BY <1>8, <1>10 DEF Members
  <2> QED
    BY <2>1, <2>2, <2>3
<1> QED
  BY <1>14, <1>15, <1>16

-----------------------------------------------------------------------------
(* The steps of a registration *)

\* The ring with one handler more.
LEMMA BeginStep ==
  ASSUME NEW m, NEW c, RegistryInv(m, c), NEW h \in Handler, RegisterBegin(h)
  PROVE  \E k, d : /\ RegistryInv(k, d)'
                   /\ k = m + 1 /\ d = [i \in 0 .. m + 1 |-> IF i <= m THEN c[i] ELSE h]
<1>1. /\ adding = Nil /\ h \notin Members /\ adding' = h /\ todo' = {"reach", "end"}
      /\ p' = [p EXCEPT ![h] = p[ListHead], ![ListHead] = h]
      /\ changes < MaxChanges /\ changes' = changes + 1
      /\ n' = n /\ at' = at /\ goal' = goal /\ seen' = seen /\ since' = since
  BY DEF RegisterBegin, walk
<1>2. /\ m \in Nat /\ c \in [0 .. m -> Node] /\ c[0] = ListHead
      /\ \A i \in 1 .. m : c[i] \in Handler
      /\ \A i, j \in 0 .. m : c[i] = c[j] => i = j
  BY RingNodes DEF RegistryInv
<1>3. h \notin {c[i] : i \in 1 .. m}
  BY <1>1, RingRead DEF RegistryInv
<1>4. h # ListHead /\ \A i \in 0 .. m : c[i] # h
  <2>1. \A i \in 0 .. m : i = 0 \/ i \in 1 .. m
    BY <1>2
  <2> QED
    BY <2>1, <1>2, <1>3, NamesApart
<1>5. /\ p[ListHead] = c[m] /\ \A i \in 1 .. m : p[c[i]] = c[i - 1]
      /\ \A i \in 0 .. m - 1 : n[c[i]] = IF i = m - 1 /\ "reach" \in todo THEN ListHead ELSE c[i + 1]
      /\ n[c[m]] = ListHead \/ ("end" \in todo /\ n[c[m]] \in {Nil, c[m]})
      /\ IF adding = Nil THEN todo = {} ELSE m > 0 /\ adding = c[m]
      /\ \A x \in Handler : x \in {c[i] : i \in 1 .. m} \/ (n[x] = p[x] /\ n[x] \in {Nil, x})
  BY DEF RegistryInv, RingInv
<1>6. todo = {} /\ n[c[m]] = ListHead /\ \A i \in 0 .. m - 1 : n[c[i]] = c[i + 1]
  BY <1>1, <1>5
<1>7. n[h] \in {Nil, h}
  BY <1>3, <1>5
<1>8. /\ p \in [Node -> Node \cup {Nil}] /\ n \in [Node -> Node \cup {Nil}]
      /\ h \in Node /\ ListHead \in Node
  BY NamesApart DEF RegistryInv, RegistryTypeOK
<1>9. p'[ListHead] = h /\ p'[h] = c[m] /\ \A x \in Node \ {h, ListHead} : p'[x] = p[x]
  BY <1>1, <1>4, <1>5, <1>8
<1>10. PICK k : k = m + 1
  OBVIOUS
<1>11. PICK d : d = [i \in 0 .. m + 1 |-> IF i <= m THEN c[i] ELSE h]
  OBVIOUS
<1>12. /\ k \in Nat /\ k > 0 /\ d \in [0 .. k -> Node] /\ d[k] = h /\ k - 1 = m /\ m \in 0 .. k
       /\ \A i \in 0 .. m : d[i] = c[i]
  BY <1>2, <1>8, <1>10, <1>11
<1>13. \A i \in 0 .. k : i = k \/ i \in 0 .. m
  BY <1>2, <1>10
<1>14. RegistryTypeOK'
  <2>1. changes + 1 \in 0 .. MaxChanges
    BY <1>1, RegistryAssumption DEF RegistryInv, RegistryTypeOK
  <2>2. p' \in [Node -> Node \cup {Nil}]
    BY <1>1, <1>8
  <2> QED
    BY <2>1, <2>2, <1>1 DEF RegistryInv, RegistryTypeOK
<1>15. RingInv(k, d)'
  <2>1. \A i, j \in 0 .. k : d[i] = d[j] => i = j
    BY <1>2, <1>4, <1>12, <1>13
  <2>2. p'[ListHead] = d[k] /\ \A i \in 1 .. k : p'[d[i]] = d[i - 1]
    <3>1. ASSUME NEW i \in 1 .. k PROVE p'[d[i]] = d[i - 1]
      <4>1. CASE i = k
        <5>1. i - 1 \in 0 .. m /\ i - 1 = m
          BY <4>1, <1>2, <1>12
        <5> QED
          BY <5>1, <4>1, <1>9, <1>12
      <4>2. CASE i # k
        <5>1. i \in 1 .. m /\ i \in 0 .. m /\ i - 1 \in 0 .. m
          BY <4>2, <1>2, <1>10
        <5>2. c[i] \in Node \ {h, ListHead}
          BY <5>1, <1>2, <1>4, NamesApart
        <5>3. p'[c[i]] = c[i - 1]
          BY <5>1, <5>2, <1>5, <1>9
        <5>4. d[i] = c[i] /\ d[i - 1] = c[i - 1]
          BY <5>1, <1>12
        <5> QED
          BY <5>3, <5>4
      <4> QED
        BY <4>1, <4>2
    <3> QED
      BY <3>1, <1>9, <1>12
  <2>3. \A i \in 0 .. k - 1 : n'[d[i]] = IF i = k - 1 /\ "reach" \in todo' THEN ListHead ELSE d[i + 1]
    <3> SUFFICES ASSUME NEW i \in 0 .. m
                 PROVE  n[c[i]] = IF i = m THEN ListHead ELSE d[i + 1]
      BY <1>1, <1>12
    <3>1. CASE i = m
      BY <3>1, <1>6
    <3>2. CASE i # m
      <4>1. i \in 0 .. m - 1 /\ i + 1 \in 0 .. m
        BY <3>2, <1>2
      <4> QED
        BY <4>1, <3>2, <1>6, <1>12
    <3> QED
      BY <3>1, <3>2
  <2>4. n'[d[k]] \in {Nil, d[k]} /\ "end" \in todo'
    BY <1>1, <1>7, <1>12
  <2>5. adding' = d[k] /\ adding' # Nil
    BY <1>1, <1>12, NamesApart
  <2>6. \A x \in Handler : x \in {d[i] : i \in 1 .. k} \/ (n'[x] = p'[x] /\ n'[x] \in {Nil, x})
    <3> SUFFICES ASSUME NEW x \in Handler, x \notin {d[i] : i \in 1 .. k}
                 PROVE  n'[x] = p'[x] /\ n'[x] \in {Nil, x}
      OBVIOUS
    <3>1. x # h
      <4>1. k \in 1 .. k
        BY <1>12
      <4> QED
        BY <4>1, <1>12
    <3>2. x \notin {c[i] : i \in 1 .. m}
      <4>1. \A i \in 1 .. m : i \in 1 .. k /\ i \in 0 .. m
        BY <1>2, <1>10
      <4> QED
        BY <4>1, <1>12
    <3>3. x \in Node \ {h, ListHead}
      BY <3>1, NamesApart
    <3> QED
      BY <3>2, <3>3, <1>1, <1>5, <1>9
  <2>7. d[0] = ListHead
    BY <1>2, <1>12
  <2> QED
    BY <2>1, <2>2, <2>3, <2>4, <2>5, <2>6, <2>7, <1>12 DEF RingInv
<1>16. WalkInv(k, d)'
  <2>1. /\ since \subseteq {c[i] : i \in 1 .. m} \ {adding}
        /\ at = ListHead => since \subseteq seen
        /\ at \in Handler =>
             \E j \in 1 .. m :
               at = c[j] /\ \A i \in 1 .. m : c[i] \in since => (c[i] \in seen <=> i < j)
    BY DEF RegistryInv, WalkInv
  <2>2. \A i \in 1 .. m : i \in 1 .. k /\ i \in 0 .. m /\ d[i] = c[i]
    BY <1>2, <1>10, <1>12
  <2>3. since \subseteq {d[i] : i \in 1 .. k} \ {h}
    BY <2>1, <2>2, <1>3
  <2>4. ASSUME at \in Handler
        PROVE  /\ at # h
               /\ \E j \in 1 .. k :
                    at = d[j] /\ \A i \in 1 .. k : d[i] \in since => (d[i] \in seen <=> i < j)
    <3>1. PICK j \in 1 .. m :
            at = c[j] /\ \A i \in 1 .. m : c[i] \in since => (c[i] \in seen <=> i < j)
      BY <2>1, <2>4
    <3>2. \A i \in 1 .. k : d[i] \in since => i \in 1 .. m
      <4>1. \A i \in 1 .. k : i = k \/ i \in 1 .. m
        BY <1>2, <1>10
      <4> QED
        BY <4>1, <2>3, <1>12
    <3> QED
      BY <3>1, <3>2, <2>2, <1>3
  <2>5. at # h
    BY <2>4
  <2> QED
    BY <2>1, <2>3, <2>4, <2>5, <1>1 DEF WalkInv
<1> QED
  BY <1>10, <1>11, <1>14, <1>15, <1>16 DEF RegistryInv

\* The last handler but one, or the head, leads to the new one.
LEMMA ReachStep ==
  ASSUME NEW m, NEW c, RegistryInv(m, c), RegisterReach
  PROVE  RegistryInv(m, c)'
<1>1. /\ "reach" \in todo /\ n' = [n EXCEPT ![p[adding]] = adding] /\ todo' = todo \ {"reach"}
      /\ p' = p /\ adding' = adding /\ changes' = changes
      /\ at' = at /\ goal' = goal /\ seen' = seen /\ since' = since
  BY DEF RegisterReach, walk
<1>2. /\ m \in Nat /\ c \in [0 .. m -> Node] /\ c[0] = ListHead
      /\ \A i \in 1 .. m : c[i] \in Handler
      /\ \A i, j \in 0 .. m : c[i] = c[j] => i = j
  BY RingNodes DEF RegistryInv
<1>3. /\ p[ListHead] = c[m] /\ \A i \in 1 .. m : p[c[i]] = c[i - 1]
      /\ \A i \in 0 .. m - 1 : n[c[i]] = IF i = m - 1 /\ "reach" \in todo THEN ListHead ELSE c[i + 1]
      /\ n[c[m]] = ListHead \/ ("end" \in todo /\ n[c[m]] \in {Nil, c[m]})
      /\ IF adding = Nil THEN todo = {} ELSE m > 0 /\ adding = c[m]
      /\ \A x \in Handler : x \in {c[i] : i \in 1 .. m} \/ (n[x] = p[x] /\ n[x] \in {Nil, x})
  BY DEF RegistryInv, RingInv
<1>4. adding # Nil /\ m > 0 /\ adding = c[m] /\ m \in 1 .. m
  BY <1>1, <1>2, <1>3
<1>5. p[adding] = c[m - 1] /\ m - 1 \in 0 .. m /\ m \in 0 .. m /\ m - 1 # m
  BY <1>2, <1>3, <1>4
<1>6. c[m - 1] \in Node /\ c[m] \in Node /\ n \in [Node -> Node \cup {Nil}]
  BY <1>2, <1>5 DEF RegistryInv, RegistryTypeOK
<1>7. n'[c[m - 1]] = c[m] /\ \A x \in Node \ {c[m - 1]} : n'[x] = n[x]
  BY <1>1, <1>4, <1>5, <1>6
<1>8. RegistryTypeOK'
  <2>1. n' \in [Node -> Node \cup {Nil}]
    BY <1>1, <1>4, <1>6
  <2> QED
    BY <2>1, <1>1 DEF RegistryInv, RegistryTypeOK
<1>9. RingInv(m, c)'
  <2>1. \A i \in 0 .. m - 1 : n'[c[i]] = c[i + 1]
    <3> SUFFICES ASSUME NEW i \in 0 .. m - 1 PROVE n'[c[i]] = c[i + 1]
      OBVIOUS
    <3>1. CASE i = m - 1
      BY <3>1, <1>2, <1>7
    <3>2. CASE i # m - 1
      <4>1. i \in 0 .. m /\ c[i] \in Node /\ c[i] # c[m - 1]
        BY <3>2, <1>2, <1>5
      <4> QED
        BY <4>1, <3>2, <1>3, <1>7
    <3> QED
      BY <3>1, <3>2
  <2>2. "reach" \notin todo' /\ ("end" \in todo' <=> "end" \in todo)
    BY <1>1
  <2>3. n'[c[m]] = n[c[m]]
    BY <1>2, <1>5, <1>6, <1>7
  <2>4. \A x \in Handler : x \in {c[i] : i \in 1 .. m} \/ (n'[x] = p'[x] /\ n'[x] \in {Nil, x})
    <3> SUFFICES ASSUME NEW x \in Handler, x \notin {c[i] : i \in 1 .. m}
                 PROVE  n'[x] = p'[x] /\ n'[x] \in {Nil, x}
      OBVIOUS
    <3>1. x # c[m - 1]
      <4>1. m - 1 = 0 \/ m - 1 \in 1 .. m
        BY <1>2, <1>4
      <4> QED
        BY <4>1, <1>2, NamesApart
    <3>2. x \in Node \ {c[m - 1]}
      BY <3>1, NamesApart
    <3> QED
      BY <3>2, <1>1, <1>3, <1>7
  <2> QED
    BY <2>1, <2>2, <2>3, <2>4, <1>1, <1>2, <1>3, <1>4 DEF RingInv
<1>10. WalkInv(m, c)'
  BY <1>1 DEF RegistryInv, WalkInv
<1> QED
  BY <1>8, <1>9, <1>10 DEF RegistryInv

\* The new handler leads to the head.
LEMMA EndStep ==
  ASSUME NEW m, NEW c, RegistryInv(m, c), RegisterEnd
  PROVE  RegistryInv(m, c)'
<1>1. /\ "end" \in todo /\ n' = [n EXCEPT ![adding] = ListHead] /\ todo' = todo \ {"end"}
      /\ p' = p /\ adding' = adding /\ changes' = changes
      /\ at' = at /\ goal' = goal /\ seen' = seen /\ since' = since
  BY DEF RegisterEnd, walk
<1>2. /\ m \in Nat /\ c \in [0 .. m -> Node] /\ c[0] = ListHead
      /\ \A i \in 1 .. m : c[i] \in Handler
      /\ \A i, j \in 0 .. m : c[i] = c[j] => i = j
  BY RingNodes DEF RegistryInv
<1>3. /\ p[ListHead] = c[m] /\ \A i \in 1 .. m : p[c[i]] = c[i - 1]
      /\ \A i \in 0 .. m - 1 : n[c[i]] = IF i = m - 1 /\ "reach" \in todo THEN ListHead ELSE c[i + 1]
      /\ IF adding = Nil THEN todo = {} ELSE m > 0 /\ adding = c[m]
      /\ \A x \in Handler : x \in {c[i] : i \in 1 .. m} \/ (n[x] = p[x] /\ n[x] \in {Nil, x})
  BY DEF RegistryInv, RingInv
<1>4. adding # Nil /\ m > 0 /\ adding = c[m] /\ m \in 1 .. m /\ m \in 0 .. m
  BY <1>1, <1>2, <1>3
<1>5. c[m] \in Node /\ n \in [Node -> Node \cup {Nil}] /\ ListHead \in Node
  BY <1>2, <1>4, NamesApart DEF RegistryInv, RegistryTypeOK
<1>6. n'[c[m]] = ListHead /\ \A x \in Node \ {c[m]} : n'[x] = n[x]
  BY <1>1, <1>4, <1>5
<1>7. RegistryTypeOK'
  <2>1. n' \in [Node -> Node \cup {Nil}]
    BY <1>1, <1>5
  <2> QED
    BY <2>1, <1>1 DEF RegistryInv, RegistryTypeOK
<1>8. RingInv(m, c)'
  <2>1. \A i \in 0 .. m - 1 : n'[c[i]] = n[c[i]]
    <3> SUFFICES ASSUME NEW i \in 0 .. m - 1 PROVE n'[c[i]] = n[c[i]]
      OBVIOUS
    <3>1. i \in 0 .. m /\ i # m
      BY <1>2
    <3> QED
      BY <3>1, <1>2, <1>4, <1>6
  <2>2. "reach" \in todo' <=> "reach" \in todo
    BY <1>1
  <2>3. \A x \in Handler : x \in {c[i] : i \in 1 .. m} \/ (n'[x] = p'[x] /\ n'[x] \in {Nil, x})
    <3> SUFFICES ASSUME NEW x \in Handler, x \notin {c[i] : i \in 1 .. m}
                 PROVE  n'[x] = p'[x] /\ n'[x] \in {Nil, x}
      OBVIOUS
    <3>1. x \in Node \ {c[m]}
      BY <1>4, NamesApart
    <3> QED
      BY <3>1, <1>1, <1>3, <1>6
  <2> QED
    BY <2>1, <2>2, <2>3, <1>1, <1>2, <1>3, <1>4, <1>6 DEF RingInv
<1>9. WalkInv(m, c)'
  BY <1>1 DEF RegistryInv, WalkInv
<1> QED
  BY <1>7, <1>8, <1>9 DEF RegistryInv

LEMMA ReturnStep ==
  ASSUME NEW m, NEW c, RegistryInv(m, c), RegisterReturn
  PROVE  RegistryInv(m, c)'
<1>1. /\ todo = {} /\ adding' = Nil /\ todo' = todo /\ n' = n /\ p' = p /\ changes' = changes
      /\ at' = at /\ goal' = goal /\ seen' = seen /\ since' = since
  BY DEF RegisterReturn, ring, walk
<1>2. RegistryTypeOK' /\ RingInv(m, c)'
  BY <1>1 DEF RegistryInv, RegistryTypeOK, RingInv
<1>3. since \subseteq {c[i] : i \in 1 .. m} \ {Nil}
  BY RingNodes, NamesApart DEF RegistryInv, WalkInv
<1>4. WalkInv(m, c)'
  BY <1>1, <1>3 DEF RegistryInv, WalkInv
<1> QED
  BY <1>2, <1>4 DEF RegistryInv

-----------------------------------------------------------------------------
(* A handler is taken off *)

LEMMA UnregisterStep ==
  ASSUME NEW m, NEW c, RegistryInv(m, c), NEW h \in Handler, Unregister(h)
  PROVE  \/ RegistryInv(m, c)' /\ h \notin {c[i] : i \in 1 .. m}
         \/ \E j \in 1 .. m : \E k, d :
              /\ c[j] = h /\ RegistryInv(k, d)'
              /\ k = m - 1 /\ d = [i \in 0 .. m - 1 |-> IF i < j THEN c[i] ELSE c[i + 1]]
<1>1. /\ adding = Nil /\ n[h] # Nil /\ at # h /\ changes < MaxChanges /\ changes' = changes + 1
      /\ n' = [[n EXCEPT ![p[h]] = n[h]] EXCEPT ![h] = h]
      /\ p' = [[p EXCEPT ![n[h]] = p[h]] EXCEPT ![h] = h]
      /\ seen' = seen \ {h} /\ since' = since \ {h}
      /\ adding' = adding /\ todo' = todo /\ at' = at /\ goal' = goal
  BY DEF Unregister, Alone, Bypassed, Rejoined, write
<1>2. /\ m \in Nat /\ c \in [0 .. m -> Node] /\ c[0] = ListHead
      /\ \A i \in 1 .. m : c[i] \in Handler
      /\ \A i, j \in 0 .. m : c[i] = c[j] => i = j
  BY RingNodes DEF RegistryInv
<1>3. /\ p[ListHead] = c[m] /\ \A i \in 1 .. m : p[c[i]] = c[i - 1]
      /\ \A i \in 0 .. m - 1 : n[c[i]] = IF i = m - 1 /\ "reach" \in todo THEN ListHead ELSE c[i + 1]
      /\ n[c[m]] = ListHead \/ ("end" \in todo /\ n[c[m]] \in {Nil, c[m]})
      /\ IF adding = Nil THEN todo = {} ELSE m > 0 /\ adding = c[m]
      /\ \A x \in Handler : x \in {c[i] : i \in 1 .. m} \/ (n[x] = p[x] /\ n[x] \in {Nil, x})
  BY DEF RegistryInv, RingInv
<1>4. todo = {} /\ n[c[m]] = ListHead /\ \A i \in 0 .. m - 1 : n[c[i]] = c[i + 1]
  BY <1>1, <1>3
<1>5. /\ p \in [Node -> Node \cup {Nil}] /\ n \in [Node -> Node \cup {Nil}]
      /\ h \in Node /\ ListHead \in Node /\ h # ListHead
  BY NamesApart DEF RegistryInv, RegistryTypeOK
<1>6. changes + 1 \in 0 .. MaxChanges
  BY <1>1, RegistryAssumption DEF RegistryInv, RegistryTypeOK
<1>7. /\ since \subseteq {c[i] : i \in 1 .. m} \ {adding}
      /\ at = ListHead => since \subseteq seen
      /\ at \in Handler =>
           \E j \in 1 .. m :
             at = c[j] /\ \A i \in 1 .. m : c[i] \in since => (c[i] \in seen <=> i < j)
  BY DEF RegistryInv, WalkInv
\* One that is not on the list points at itself.
<1>8. CASE h \notin {c[i] : i \in 1 .. m}
  <2>1. n[h] = h /\ p[h] = h
    BY <1>1, <1>3, <1>8
  <2>2. n' = n /\ p' = p
    BY <2>1, <1>1, <1>5
  <2>3. RegistryTypeOK'
    BY <2>2, <1>1, <1>6 DEF RegistryInv, RegistryTypeOK
  <2>4. RingInv(m, c)'
    BY <2>2, <1>1 DEF RegistryInv, RingInv
  <2>5. WalkInv(m, c)'
    <3>1. since' = since /\ \A i \in 1 .. m : c[i] \in seen' <=> c[i] \in seen
      BY <1>1, <1>7, <1>8
    <3>2. since \subseteq seen => since' \subseteq seen'
      BY <1>1
    <3>3. "reach" \notin todo'
      BY <1>1, <1>4
    <3> QED
      BY <3>1, <3>2, <3>3, <1>1, <1>7 DEF WalkInv
  <2> QED
    BY <2>3, <2>4, <2>5, <1>8 DEF RegistryInv
<1>9. CASE h \in {c[i] : i \in 1 .. m}
  <2>1. PICK j \in 1 .. m : c[j] = h
    BY <1>9
  <2>2. PICK k : k = m - 1
    OBVIOUS
  <2>3. PICK d : d = [i \in 0 .. m - 1 |-> IF i < j THEN c[i] ELSE c[i + 1]]
    OBVIOUS
  <2>4. /\ k \in Nat /\ m = k + 1 /\ j \in Nat /\ 1 <= j /\ j <= k + 1 /\ j \in 0 .. m /\ j - 1 \in 0 .. m
    BY <1>2, <2>1, <2>2
  <2>5. \A i \in 0 .. k : i \in 0 .. m /\ i + 1 \in 1 .. m /\ i + 1 \in 0 .. m /\ i # m
    BY <2>4
  <2>6. /\ d \in [0 .. k -> Node]
        /\ \A i \in 0 .. k : i < j => d[i] = c[i]
        /\ \A i \in 0 .. k : ~ (i < j) => d[i] = c[i + 1]
    BY <1>2, <2>2, <2>3, <2>5
  \* The neighbours.
  <2>7. PICK a, b : a = p[h] /\ b = n[h]
    OBVIOUS
  <2>8. a = c[j - 1] /\ b = IF j = m THEN ListHead ELSE c[j + 1]
    <3>1. p[c[j]] = c[j - 1]
      BY <1>3
    <3>2. CASE j = m
      BY <3>1, <3>2, <1>4, <2>1, <2>7
    <3>3. CASE j # m
      <4>1. j \in 0 .. m - 1
        BY <3>3, <2>4
      <4>2. n[c[j]] = c[j + 1]
        BY <4>1, <1>4
      <4> QED
        BY <3>1, <3>3, <4>2, <2>1, <2>7
    <3> QED
      BY <3>2, <3>3
  <2>9. a \in Node /\ b \in Node /\ a # h /\ b # h
    <3>1. a \in Node /\ a # h
      BY <2>1, <2>4, <2>8, <1>2
    <3>2. j # m => j + 1 \in 0 .. m
      BY <2>4
    <3>3. b \in Node /\ b # h
      BY <3>2, <2>1, <2>4, <2>8, <1>2, <1>5
    <3> QED
      BY <3>1, <3>3
  <2>10. /\ n'[a] = b /\ n'[h] = h /\ \A x \in Node \ {a, h} : n'[x] = n[x]
         /\ p'[b] = a /\ p'[h] = h /\ \A x \in Node \ {b, h} : p'[x] = p[x]
         /\ n' \in [Node -> Node \cup {Nil}] /\ p' \in [Node -> Node \cup {Nil}]
    BY <1>1, <1>5, <2>7, <2>9
  <2>11. RegistryTypeOK'
    BY <2>10, <1>1, <1>6 DEF RegistryInv, RegistryTypeOK
  <2>12. \A i, l \in 0 .. k : d[i] = d[l] => i = l
    <3> SUFFICES ASSUME NEW i \in 0 .. k, NEW l \in 0 .. k, d[i] = d[l] PROVE i = l
      OBVIOUS
    <3>1. PICK x \in 0 .. m : d[i] = c[x] /\ x = IF i < j THEN i ELSE i + 1
      BY <2>5, <2>6
    <3>2. PICK y \in 0 .. m : d[l] = c[y] /\ y = IF l < j THEN l ELSE l + 1
      BY <2>5, <2>6
    <3>3. x = y
      BY <3>1, <3>2, <1>2
    <3> QED
      BY <3>1, <3>2, <3>3, <2>4
  <2>13. d[0] = ListHead
    BY <2>4, <2>6, <1>2
  <2>14. \A i \in 0 .. m : c[i] \in Node /\ (c[i] = h <=> i = j) /\ (c[i] = a <=> i = j - 1)
    BY <2>1, <2>4, <2>8, <1>2
  <2>15. \A i \in 0 .. m : c[i] = b <=> i = IF j = m THEN 0 ELSE j + 1
    <3>1. PICK l \in 0 .. m : l = IF j = m THEN 0 ELSE j + 1
      BY <2>4
    <3>2. b = c[l]
      BY <3>1, <2>8, <1>2
    <3> QED
      BY <3>1, <3>2, <1>2
  <2>16. p'[ListHead] = d[k]
    <3>1. 0 \in 0 .. m /\ k \in 0 .. k
      BY <2>4
    <3>2. CASE j = m
      <4>1. b = ListHead /\ k < j /\ j - 1 = k
        BY <3>2, <2>4, <2>8
      <4> QED
        BY <4>1, <3>1, <2>6, <2>8, <2>10
    <3>3. CASE j # m
      <4>1. c[0] # b /\ ~ (k < j)
        BY <3>1, <3>3, <2>4, <2>15
      <4>2. ListHead \in Node \ {b, h}
        BY <4>1, <1>2, <1>5
      <4> QED
        BY <4>1, <4>2, <3>1, <2>4, <2>6, <2>10, <1>3
    <3> QED
      BY <3>2, <3>3
  <2>17. ASSUME NEW i \in 1 .. k PROVE p'[d[i]] = d[i - 1]
    <3>1. i \in 0 .. k /\ i - 1 \in 0 .. k /\ i \in 1 .. m /\ i \in 0 .. m /\ i + 1 \in 1 .. m /\ i + 1 \in 0 .. m
          /\ (i + 1) - 1 = i /\ (i - 1) + 1 = i
      BY <2>4
    <3>2. CASE i < j
      <4>1. d[i] = c[i] /\ d[i - 1] = c[i - 1]
        BY <3>1, <3>2, <2>4, <2>6
      <4>2. c[i] \in Node \ {b, h}
        BY <3>1, <3>2, <2>4, <2>14, <2>15
      <4>3. p[c[i]] = c[i - 1]
        BY <3>1, <1>3
      <4> QED
        BY <4>1, <4>2, <4>3, <2>10
    <3>3. CASE i = j
      <4>1. d[i] = c[i + 1] /\ d[i - 1] = c[j - 1]
        BY <3>1, <3>3, <2>4, <2>6
      <4>2. b = c[i + 1]
        BY <3>1, <3>3, <2>4, <2>8
      <4> QED
        BY <4>1, <4>2, <2>8, <2>10
    <3>4. CASE i > j
      <4>1. d[i] = c[i + 1] /\ d[i - 1] = c[i]
        BY <3>1, <3>4, <2>4, <2>6
      <4>2. c[i + 1] \in Node \ {b, h}
        BY <3>1, <3>4, <2>4, <2>14, <2>15
      <4>3. p[c[i + 1]] = c[i]
        BY <3>1, <1>3
      <4> QED
        BY <4>1, <4>2, <4>3, <2>10
    <3> QED
      BY <3>2, <3>3, <3>4, <2>4
  <2>18. n'[d[k]] = ListHead
    <3>1. k \in 0 .. k /\ k + 1 = m /\ m \in 0 .. m
      BY <2>4
    <3>2. CASE j = m
      <4>1. d[k] = a /\ b = ListHead
        BY <3>1, <3>2, <2>4, <2>6, <2>8
      <4> QED
        BY <4>1, <2>10
    <3>3. CASE j # m
      <4>1. d[k] = c[m] /\ c[m] \in Node \ {a, h}
        BY <3>1, <3>3, <2>4, <2>6, <2>14
      <4> QED
        BY <4>1, <2>10, <1>4
    <3> QED
      BY <3>2, <3>3
  <2>19. ASSUME NEW i \in 0 .. k - 1 PROVE n'[d[i]] = d[i + 1]
    <3>1. i \in 0 .. k /\ i + 1 \in 0 .. k /\ i \in 0 .. m - 1 /\ i + 1 \in 0 .. m - 1 /\ i \in 0 .. m /\ i + 1 \in 0 .. m
      BY <2>4
    <3>2. CASE i = j - 1
      <4>1. d[i] = a /\ d[i + 1] = c[j + 1] /\ b = c[j + 1]
        BY <3>1, <3>2, <2>4, <2>6, <2>8
      <4> QED
        BY <4>1, <2>10
    <3>3. CASE i < j - 1
      <4>1. d[i] = c[i] /\ d[i + 1] = c[i + 1]
        BY <3>1, <3>3, <2>4, <2>6
      <4>2. c[i] \in Node \ {a, h}
        BY <3>1, <3>3, <2>4, <2>14
      <4>3. n[c[i]] = c[i + 1]
        BY <3>1, <1>4
      <4> QED
        BY <4>1, <4>2, <4>3, <2>10
    <3>4. CASE i > j - 1
      <4>1. d[i] = c[i + 1] /\ d[i + 1] = c[(i + 1) + 1]
        BY <3>1, <3>4, <2>4, <2>6
      <4>2. c[i + 1] \in Node \ {a, h}
        BY <3>1, <3>4, <2>4, <2>14
      <4>3. n[c[i + 1]] = c[(i + 1) + 1]
        BY <3>1, <1>4
      <4> QED
        BY <4>1, <4>2, <4>3, <2>10
    <3> QED
      BY <3>2, <3>3, <3>4, <2>4
  \* The handlers left, and their old places.
  <2>20. \A i \in 1 .. m : i # j => \E l \in 1 .. k : d[l] = c[i] /\ i = IF l < j THEN l ELSE l + 1
    <3> SUFFICES ASSUME NEW i \in 1 .. m, i # j
                 PROVE  \E l \in 1 .. k : d[l] = c[i] /\ i = IF l < j THEN l ELSE l + 1
      OBVIOUS
    <3>1. CASE i < j
      <4>1. i \in 1 .. k /\ i \in 0 .. k
        BY <3>1, <2>4
      <4> QED
        BY <4>1, <3>1, <2>6
    <3>2. CASE i > j
      <4>1. PICK l : l = i - 1
        OBVIOUS
      <4>2. l \in 1 .. k /\ l \in 0 .. k /\ ~ (l < j) /\ i = l + 1
        BY <4>1, <3>2, <2>4
      <4> QED
        BY <4>2, <2>6
    <3> QED
      BY <3>1, <3>2, <2>4
  <2>21. \A x \in Handler : x \in {d[i] : i \in 1 .. k} \/ (n'[x] = p'[x] /\ n'[x] \in {Nil, x})
    <3> SUFFICES ASSUME NEW x \in Handler, x \notin {d[i] : i \in 1 .. k}
                 PROVE  n'[x] = p'[x] /\ n'[x] \in {Nil, x}
      OBVIOUS
    <3>1. CASE x = h
      BY <3>1, <2>10
    <3>2. CASE x # h
      <4>1. x \notin {c[i] : i \in 1 .. m}
        BY <3>2, <2>1, <2>20
      <4>2. x # a /\ x # b
        <5>1. a = ListHead \/ a \in {c[i] : i \in 1 .. m}
          <6>1. j - 1 = 0 \/ j - 1 \in 1 .. m
            BY <2>4
          <6> QED
            BY <6>1, <2>8, <1>2
        <5>2. b = ListHead \/ b \in {c[i] : i \in 1 .. m}
          <6>1. j = m \/ j + 1 \in 1 .. m
            BY <2>4
          <6> QED
            BY <6>1, <2>8
        <5> QED
          BY <5>1, <5>2, <4>1, NamesApart
      <4>3. x \in Node \ {a, h} /\ x \in Node \ {b, h}
        BY <4>2, <3>2, NamesApart
      <4> QED
        BY <4>1, <4>3, <2>10, <1>3
    <3> QED
      BY <3>1, <3>2
  <2>22. RingInv(k, d)'
    <3>1. "reach" \notin todo' /\ adding' = Nil /\ todo' = {}
      BY <1>1, <1>4
    <3> QED
      BY <3>1, <2>4, <2>6, <2>12, <2>13, <2>16, <2>17, <2>18, <2>19, <2>21 DEF RingInv
  <2>23. WalkInv(k, d)'
    <3>1. since' \subseteq {d[i] : i \in 1 .. k} \ {Nil}
      <4> SUFFICES ASSUME NEW x \in since \ {h} PROVE x \in {d[i] : i \in 1 .. k} /\ x # Nil
        BY <1>1
      <4>1. PICK i \in 1 .. m : x = c[i]
        BY <1>7
      <4>2. i # j
        BY <4>1, <2>1
      <4> QED
        BY <4>1, <4>2, <2>20, <1>1, <1>7
    <3>2. at = ListHead => since' \subseteq seen'
      BY <1>1, <1>7
    <3>3. ASSUME at \in Handler
          PROVE  \E l \in 1 .. k :
                   at = d[l] /\ \A i \in 1 .. k : d[i] \in since' => (d[i] \in seen' <=> i < l)
      <4>1. PICK x \in 1 .. m :
              at = c[x] /\ \A i \in 1 .. m : c[i] \in since => (c[i] \in seen <=> i < x)
        BY <1>7, <3>3
      <4>2. x # j
        BY <4>1, <1>1, <2>1
      <4>3. PICK l \in 1 .. k : d[l] = c[x] /\ x = IF l < j THEN l ELSE l + 1
        BY <4>2, <2>20
      <4>4. ASSUME NEW i \in 1 .. k, d[i] \in since' PROVE d[i] \in seen' <=> i < l
        <5>1. PICK y \in 1 .. m : d[i] = c[y] /\ y = IF i < j THEN i ELSE i + 1
          BY <2>4, <2>5, <2>6
        <5>2. c[y] \in since /\ c[y] # h
          BY <5>1, <4>4, <1>1
        <5>3. c[y] \in seen <=> y < x
          BY <5>2, <4>1
        <5>4. y < x <=> i < l
          BY <5>1, <4>3, <2>4
        <5> QED
          BY <5>1, <5>2, <5>3, <5>4, <1>1
      <4> QED
        BY <4>1, <4>3, <4>4
    <3>4. "reach" \notin todo' /\ adding' = Nil /\ at' = at
      BY <1>1, <1>4
    <3> QED
      BY <3>1, <3>2, <3>3, <3>4 DEF WalkInv
  <2> QED
    BY <2>1, <2>2, <2>3, <2>11, <2>22, <2>23 DEF RegistryInv
<1> QED
  BY <1>8, <1>9

-----------------------------------------------------------------------------
(* The steps of a walk *)

\* Where n leads from a place on the list.
LEMMA OnwardFrom ==
  ASSUME NEW m, NEW c, RegistryInv(m, c), NEW j \in 0 .. m
  PROVE  \/ n[c[j]] = ListHead /\ \A i \in 1 .. m : c[i] # adding => i <= j
         \/ /\ j < m /\ n[c[j]] = c[j + 1] /\ ("reach" \in todo => c[j + 1] # adding)
         \/ j = m /\ j > 0 /\ n[c[j]] \in {Nil, c[j]} /\ adding = c[j] /\ "end" \in todo
<1>1. /\ m \in Nat /\ c \in [0 .. m -> Node]
      /\ \A i, l \in 0 .. m : c[i] = c[l] => i = l
  BY RingNodes DEF RegistryInv
<1>2. /\ \A i \in 0 .. m - 1 : n[c[i]] = IF i = m - 1 /\ "reach" \in todo THEN ListHead ELSE c[i + 1]
      /\ n[c[m]] = ListHead \/ ("end" \in todo /\ n[c[m]] \in {Nil, c[m]})
      /\ IF adding = Nil THEN todo = {} ELSE m > 0 /\ adding = c[m]
  BY DEF RegistryInv, RingInv
<1>3. CASE j = m
  <2>1. n[c[m]] = ListHead => \A i \in 1 .. m : i <= j
    BY <1>1, <1>3
  <2>2. "end" \in todo => adding = c[m] /\ m > 0
    BY <1>2
  <2> QED
    BY <2>1, <2>2, <1>2, <1>3
<1>4. CASE j # m /\ j = m - 1 /\ "reach" \in todo
  <2>1. n[c[j]] = ListHead /\ adding = c[m]
    BY <1>1, <1>2, <1>4
  <2>2. \A i \in 1 .. m : i # m => i <= j
    BY <1>1, <1>4
  <2> QED
    BY <2>1, <2>2
<1>5. CASE j # m /\ ~ (j = m - 1 /\ "reach" \in todo)
  <2>1. j \in 0 .. m - 1 /\ j < m
    BY <1>1, <1>5
  <2>2. n[c[j]] = c[j + 1]
    BY <2>1, <1>2, <1>5
  <2>3. "reach" \in todo => c[j + 1] # adding
    <3> SUFFICES ASSUME "reach" \in todo PROVE c[j + 1] # adding
      OBVIOUS
    <3>1. adding = c[m] /\ j + 1 \in 0 .. m /\ m \in 0 .. m /\ j + 1 # m
      BY <2>1, <1>1, <1>2, <1>5
    <3> QED
      BY <3>1, <1>1
  <2> QED
    BY <2>1, <2>2, <2>3
<1> QED
  BY <1>3, <1>4, <1>5

\* A walk changes nothing of the list.
LEMMA RingStays ==
  ASSUME NEW m, NEW c, RingInv(m, c), UNCHANGED <<ring, write>>
  PROVE  RingInv(m, c)'
BY DEF RingInv, ring, write

LEMMA WalkStartStep ==
  ASSUME NEW m, NEW c, RegistryInv(m, c), NEW name \in Handler \cup {Unknown}, WalkStart(name)
  PROVE  RegistryInv(m, c)'
<1>1. /\ at' = n[ListHead] /\ goal' = name /\ seen' = {} /\ since' = Members \ {adding}
      /\ UNCHANGED <<ring, write>> /\ changes' = changes
  BY DEF WalkStart
<1>2. /\ m \in Nat /\ c \in [0 .. m -> Node] /\ c[0] = ListHead /\ 0 \in 0 .. m
      /\ \A i \in 1 .. m : c[i] \in Handler
  BY RingNodes DEF RegistryInv
<1>3. since' = {c[i] : i \in 1 .. m} \ {adding}
  BY <1>1, RingRead DEF RegistryInv
<1>4. RegistryTypeOK'
  <2>1. n[ListHead] \in Node \cup {Nil}
    BY NamesApart DEF RegistryInv, RegistryTypeOK
  <2>2. since' \subseteq Handler
    BY <1>2, <1>3
  <2> QED
    BY <2>1, <2>2, <1>1 DEF RegistryInv, RegistryTypeOK, ring, write
<1>5. WalkInv(m, c)'
  <2>1. CASE n[ListHead] = ListHead /\ \A i \in 1 .. m : c[i] # adding => i <= 0
    <3>1. since' = {}
      BY <2>1, <1>2, <1>3
    <3> QED
      BY <3>1, <2>1, <1>1, <1>2, NamesApart DEF WalkInv, RegistryInv, RegistryTypeOK, ring, write
  <2>2. CASE 0 < m /\ n[ListHead] = c[1] /\ ("reach" \in todo => c[1] # adding)
    <3>1. 1 \in 1 .. m /\ c[1] # ListHead /\ c[1] \in Handler
      BY <2>2, <1>2, NamesApart
    <3>2. \A i \in 1 .. m : ~ (i < 1)
      BY <1>2
    <3> QED
      BY <3>1, <3>2, <2>2, <1>1, <1>3 DEF WalkInv, ring, write
  <2> QED
    BY <2>1, <2>2, <1>2, OnwardFrom
<1> QED
  BY <1>1, <1>4, <1>5, RingStays DEF RegistryInv

LEMMA WalkNextStep ==
  ASSUME NEW m, NEW c, RegistryInv(m, c), WalkNext
  PROVE  RegistryInv(m, c)' /\ (at' = Nil => adding # Nil /\ todo = {"end"})
<1>1. /\ at \in Handler /\ at' = n[at] /\ seen' = seen \cup {at} /\ since' = since /\ goal' = goal
      /\ UNCHANGED <<ring, write>> /\ changes' = changes
  BY DEF WalkNext, Onward
<1>2. /\ m \in Nat /\ c \in [0 .. m -> Node] /\ c[0] = ListHead
      /\ \A i \in 1 .. m : c[i] \in Handler
      /\ \A i, l \in 0 .. m : c[i] = c[l] => i = l
  BY RingNodes DEF RegistryInv
<1>3. /\ since \subseteq {c[i] : i \in 1 .. m} \ {adding} /\ ("reach" \in todo => at # adding)
      /\ \E l \in 1 .. m :
           at = c[l] /\ \A i \in 1 .. m : c[i] \in since => (c[i] \in seen <=> i < l)
  BY <1>1 DEF RegistryInv, WalkInv
<1>4. PICK j \in 1 .. m :
        at = c[j] /\ \A i \in 1 .. m : c[i] \in since => (c[i] \in seen <=> i < j)
  BY <1>3
<1>5. j \in 0 .. m /\ at' = n[c[j]] /\ \A i \in 1 .. m : i \in 0 .. m
  BY <1>1, <1>2, <1>4
<1>6. RegistryTypeOK'
  <2>1. at' \in Node \cup {Nil} /\ seen' \subseteq Handler
    BY <1>1, NamesApart DEF RegistryInv, RegistryTypeOK
  <2> QED
    BY <2>1, <1>1 DEF RegistryInv, RegistryTypeOK, ring, write
\* What is in seen afterwards.
<1>7. \A i \in 1 .. m : c[i] \in since => (c[i] \in seen' <=> i <= j)
  <2> SUFFICES ASSUME NEW i \in 1 .. m, c[i] \in since PROVE c[i] \in seen' <=> i <= j
    OBVIOUS
  <2>1. c[i] = c[j] <=> i = j
    BY <1>2, <1>5
  <2>2. c[i] \in seen' <=> i < j \/ i = j
    BY <2>1, <1>1, <1>4
  <2> QED
    BY <2>2, <1>2
<1>8. since' \subseteq {c[i] : i \in 1 .. m} \ {adding'} /\ todo' = todo /\ adding' = adding
  BY <1>1, <1>3 DEF write
<1>9. CASE n[c[j]] = ListHead /\ \A i \in 1 .. m : c[i] # adding => i <= j
  <2>1. since' \subseteq seen'
    <3> SUFFICES ASSUME NEW x \in since PROVE x \in seen'
      BY <1>1
    <3>1. PICK i \in 1 .. m : x = c[i] /\ x # adding
      BY <1>3
    <3> QED
      BY <3>1, <1>7, <1>9
  <2>2. at' \notin Handler /\ at' # Nil /\ ("reach" \in todo' => at' # adding')
    BY <1>5, <1>8, <1>9, NamesApart DEF RegistryInv, RegistryTypeOK
  <2>3. WalkInv(m, c)'
    BY <2>1, <2>2, <1>8 DEF WalkInv
  <2> QED
    BY <2>2, <2>3, <1>1, <1>6, RingStays DEF RegistryInv
<1>10. CASE j < m /\ n[c[j]] = c[j + 1] /\ ("reach" \in todo => c[j + 1] # adding)
  <2>1. PICK l : l = j + 1
    OBVIOUS
  <2>2. l \in 1 .. m /\ at' = c[l] /\ c[l] \in Handler /\ \A i \in 1 .. m : i <= j <=> i < l
    BY <2>1, <1>2, <1>5, <1>10
  <2>3. at' # ListHead /\ at' # Nil
    BY <2>2, NamesApart
  <2>4. \A i \in 1 .. m : c[i] \in since' => (c[i] \in seen' <=> i < l)
    BY <2>2, <1>1, <1>7
  <2>5. "reach" \in todo' => at' # adding'
    BY <2>1, <2>2, <1>8, <1>10
  <2>6. WalkInv(m, c)'
    BY <2>2, <2>3, <2>4, <2>5, <1>8 DEF WalkInv
  <2> QED
    BY <2>3, <2>6, <1>1, <1>6, RingStays DEF RegistryInv
<1>11. CASE j = m /\ n[c[j]] \in {Nil, c[j]} /\ adding = c[j] /\ "end" \in todo
  <2>1. "reach" \notin todo
    BY <1>3, <1>4, <1>11
  <2>2. todo = {"end"} /\ adding # Nil
    <3>1. todo \subseteq {"reach", "end"}
      BY DEF RegistryInv, RegistryTypeOK
    <3>2. todo = {"end"}
      BY <3>1, <2>1, <1>11
    <3>3. adding # Nil
      BY <1>1, <1>4, <1>11, NamesApart, Zenon
    <3> QED
      BY <3>2, <3>3
  <2>3. \A i \in 1 .. m : c[i] \in since' => (c[i] \in seen' <=> i < j)
    <3> SUFFICES ASSUME NEW i \in 1 .. m, c[i] \in since PROVE c[i] \in seen' <=> i < j
      BY <1>1
    <3>1. i # j
      BY <1>3, <1>11
    <3> QED
      BY <3>1, <1>2, <1>7
  <2>4. at' # ListHead /\ (at' \in Handler => at' = c[j])
    BY <1>2, <1>5, <1>11, NamesApart
  <2>5. WalkInv(m, c)'
    BY <2>1, <2>3, <2>4, <1>8 DEF WalkInv
  <2> QED
    BY <2>2, <2>5, <1>1, <1>6, RingStays DEF RegistryInv
<1> QED
  BY <1>5, <1>9, <1>10, <1>11, OnwardFrom

LEMMA WalkReturnStep ==
  ASSUME NEW m, NEW c, RegistryInv(m, c), WalkReturn
  PROVE  RegistryInv(m, c)'
<1>1. /\ at' = Idle /\ goal' = Unknown /\ seen' = {} /\ since' = {}
      /\ UNCHANGED <<ring, write>> /\ changes' = changes
  BY DEF WalkReturn
<1>2. RegistryTypeOK'
  BY <1>1 DEF RegistryInv, RegistryTypeOK, ring, write
<1>3. WalkInv(m, c)'
  <2>1. adding' # Idle
    BY <1>1, NamesApart DEF RegistryInv, RegistryTypeOK, write
  <2> QED
    BY <2>1, <1>1, NamesApart DEF WalkInv
<1> QED
  BY <1>1, <1>2, <1>3, RingStays DEF RegistryInv

-----------------------------------------------------------------------------
(* The invariant *)

RegistryInvariant == \E m, c : RegistryInv(m, c)

LEMMA RegistryStart ==
  ASSUME RegistryInit
  PROVE  \E m, c : RegistryInv(m, c) /\ m = 0
<1>1. PICK m : m = 0
  OBVIOUS
<1>2. PICK c : c = [i \in 0 .. 0 |-> ListHead]
  OBVIOUS
<1>3. m \in Nat /\ c \in [0 .. m -> Node] /\ c[0] = ListHead /\ \A i \in 0 .. m : i = 0
  BY <1>1, <1>2, NamesApart
<1>4. /\ n[ListHead] = ListHead /\ p[ListHead] = ListHead
      /\ \A x \in Handler : n[x] = Nil /\ p[x] = Nil
      /\ n \in [Node -> Node \cup {Nil}] /\ p \in [Node -> Node \cup {Nil}]
      /\ adding = Nil /\ todo = {}
  BY NamesApart DEF RegistryInit
<1>5. RegistryTypeOK
  BY <1>4, RegistryAssumption DEF RegistryInit, RegistryTypeOK
<1>6. RingInv(m, c)
  BY <1>1, <1>3, <1>4 DEF RingInv
<1>7. WalkInv(m, c)
  BY NamesApart DEF WalkInv, RegistryInit
<1> QED
  BY <1>1, <1>5, <1>6, <1>7 DEF RegistryInv

\* What a step does to the list.
Relisted(m, c, k, d) ==
  \/ k = m /\ d = c
  \/ \E h \in Handler :
       /\ h \notin {c[i] : i \in 1 .. m}
       /\ k = m + 1 /\ d = [i \in 0 .. m + 1 |-> IF i <= m THEN c[i] ELSE h]
  \/ \E j \in 1 .. m :
       k = m - 1 /\ d = [i \in 0 .. m - 1 |-> IF i < j THEN c[i] ELSE c[i + 1]]

LEMMA RegistryStep ==
  ASSUME NEW m, NEW c, RegistryInv(m, c), [RegistryNext]_registryVars
  PROVE  \E k, d : RegistryInv(k, d)' /\ Relisted(m, c, k, d)
<1>1. ASSUME NEW h \in Handler, RegisterBegin(h)
      PROVE  \E k, d : RegistryInv(k, d)' /\ Relisted(m, c, k, d)
  <2>1. h \notin {c[i] : i \in 1 .. m}
    BY <1>1, RingRead DEF RegistryInv, RegisterBegin
  <2> QED
    BY <2>1, <1>1, BeginStep DEF Relisted
<1>2. CASE Register
  BY <1>2, ReachStep, EndStep, ReturnStep DEF Register, Relisted
<1>3. ASSUME NEW h \in Handler, Unregister(h)
      PROVE  \E k, d : RegistryInv(k, d)' /\ Relisted(m, c, k, d)
  BY <1>3, UnregisterStep DEF Relisted
<1>4. CASE Walk
  BY <1>4, WalkNextStep, WalkReturnStep DEF Walk, Relisted
<1>5. ASSUME NEW name \in Handler \cup {Unknown}, WalkStart(name)
      PROVE  \E k, d : RegistryInv(k, d)' /\ Relisted(m, c, k, d)
  BY <1>5, WalkStartStep DEF Relisted
<1>6. CASE UNCHANGED registryVars
  <2>1. UNCHANGED <<ring, write>> /\ UNCHANGED walk /\ changes' = changes
    BY <1>6 DEF registryVars
  <2>2. RegistryTypeOK' /\ WalkInv(m, c)'
    BY <2>1 DEF RegistryInv, RegistryTypeOK, WalkInv, ring, write, walk
  <2>3. RingInv(m, c)'
    BY <2>1, RingStays DEF RegistryInv
  <2> QED
    BY <2>2, <2>3 DEF RegistryInv, Relisted
<1> QED
  BY <1>1, <1>2, <1>3, <1>4, <1>5, <1>6 DEF RegistryNext

LEMMA RegistryInvariance == RegistrySpec => []RegistryInvariant
<1>1. RegistryInit => RegistryInvariant
  BY RegistryStart DEF RegistryInvariant
<1>2. RegistryInvariant /\ [RegistryNext]_registryVars => RegistryInvariant'
  BY RegistryStep DEF RegistryInvariant
<1> QED
  BY <1>1, <1>2, PTL DEF RegistrySpec

-----------------------------------------------------------------------------
(* What is required *)

LEMMA RingIsExact ==
  ASSUME NEW m, NEW c, RegistryInv(m, c)
  PROVE  RingExact
<1>1. RegistryInv(Listed, Ring)
  BY RingRead DEF RegistryInv
<1>2. ASSUME adding = Nil, NEW x \in Node, n[x] # Nil PROVE p[n[x]] = x /\ n[p[x]] = x
  <2>1. /\ m \in Nat /\ c \in [0 .. m -> Node] /\ c[0] = ListHead
        /\ \A i \in 1 .. m : c[i] \in Handler
    BY RingNodes DEF RegistryInv
  <2>2. /\ p[ListHead] = c[m] /\ \A i \in 1 .. m : p[c[i]] = c[i - 1]
        /\ \A i \in 0 .. m - 1 : n[c[i]] = c[i + 1]
        /\ n[c[m]] = ListHead
        /\ \A y \in Handler : y \in {c[i] : i \in 1 .. m} \/ (n[y] = p[y] /\ n[y] \in {Nil, y})
    BY <1>2 DEF RegistryInv, RingInv
  <2>3. CASE x \in {c[i] : i \in 0 .. m}
    <3>1. PICK i \in 0 .. m : x = c[i]
      BY <2>3
    <3>2. p[n[x]] = x
      <4>1. CASE i = m
        BY <4>1, <3>1, <2>2
      <4>2. CASE i # m
        <5>1. i \in 0 .. m - 1 /\ i + 1 \in 1 .. m /\ (i + 1) - 1 = i
          BY <4>2, <2>1
        <5>2. n[x] = c[i + 1] /\ p[c[i + 1]] = c[(i + 1) - 1]
          BY <5>1, <3>1, <2>2
        <5> QED
          BY <5>1, <5>2, <3>1
      <4> QED
        BY <4>1, <4>2
    <3>3. n[p[x]] = x
      <4>1. CASE i = 0
        BY <4>1, <3>1, <2>1, <2>2
      <4>2. CASE i # 0
        <5>1. i \in 1 .. m /\ i - 1 \in 0 .. m - 1 /\ (i - 1) + 1 = i
          BY <4>2, <2>1
        <5>2. p[x] = c[i - 1] /\ n[c[i - 1]] = c[(i - 1) + 1]
          BY <5>1, <3>1, <2>2
        <5> QED
          BY <5>1, <5>2, <3>1
      <4> QED
        BY <4>1, <4>2
    <3> QED
      BY <3>2, <3>3
  <2>4. CASE x \notin {c[i] : i \in 0 .. m}
    <3>1. 0 \in 0 .. m /\ \A i \in 1 .. m : i \in 0 .. m
      BY <2>1
    <3>2. x \in Handler /\ x \notin {c[i] : i \in 1 .. m}
      BY <3>1, <2>1, <2>4, NamesApart
    <3> QED
      BY <3>2, <2>2, <1>2
  <2> QED
    BY <2>3, <2>4
<1> QED
  BY <1>1, <1>2 DEF RingExact

\* Whatever is registered and taken off, and while a registration is under way, the
\* handlers are in a ring from which each of them can be taken.
THEOREM RingStaysExact == RegistrySpec => []RingExact
<1>1. RegistryInvariant => RingExact
  BY RingIsExact DEF RegistryInvariant
<1> QED
  BY <1>1, RegistryInvariance, PTL

\* handler_get misses no handler that is registered all the time, and sees none twice.
THEOREM WalkStaysComplete == RegistrySpec => []WalkComplete
<1>1. ASSUME NEW m, NEW c, RegistryInv(m, c) PROVE WalkComplete
  <2>1. /\ at = ListHead => since \subseteq seen
        /\ at \in Handler =>
             \E j \in 1 .. m :
               at = c[j] /\ \A i \in 1 .. m : c[i] \in since => (c[i] \in seen <=> i < j)
    BY <1>1 DEF RegistryInv, WalkInv
  <2>2. ASSUME at \in since PROVE at \notin seen
    <3>1. at \in Handler
      BY <1>1, <2>2 DEF RegistryInv, RegistryTypeOK
    <3>2. PICK j \in 1 .. m :
            at = c[j] /\ \A i \in 1 .. m : c[i] \in since => (c[i] \in seen <=> i < j)
      BY <3>1, <2>1
    <3>3. ~ (j < j)
      OBVIOUS
    <3> QED
      BY <3>2, <3>3, <2>2
  <2> QED
    BY <2>1, <2>2 DEF WalkComplete
<1>2. RegistryInvariant => WalkComplete
  BY <1>1 DEF RegistryInvariant
<1> QED
  BY <1>2, RegistryInvariance, PTL

\* NULL is only met in the one gap between two stores of another thread's registration.
THEOREM FaultStaysInRace == RegistrySpec => FaultOnlyInRace
<1>1. ASSUME RegistryInvariant, RegistryNext PROVE at' = Nil => adding # Nil /\ todo = {"end"}
  <2>1. PICK m, c : RegistryInv(m, c)
    BY <1>1 DEF RegistryInvariant
  <2>2. CASE WalkNext
    BY <2>1, <2>2, WalkNextStep
  <2>3. ASSUME NEW name \in Handler \cup {Unknown}, WalkStart(name) PROVE at' # Nil
    <3>1. at' = n[ListHead]
      BY <2>3 DEF WalkStart
    <3>2. c[0] = ListHead /\ 0 \in 0 .. m /\ (0 < m => c[1] \in Handler) /\ m \in Nat
      BY <2>1, RingNodes DEF RegistryInv
    <3>3. n[c[0]] = ListHead \/ (0 < m /\ n[c[0]] = c[1])
      BY <2>1, <3>2, OnwardFrom
    <3> QED
      BY <3>1, <3>2, <3>3, NamesApart
  <2>4. CASE WalkReturn
    BY <2>4, NamesApart DEF WalkReturn
  <2>5. CASE Register
    <3>1. at' = at
      BY <2>5 DEF Register, RegisterReach, RegisterEnd, RegisterReturn, walk
    <3> QED
      BY <3>1, <1>1 DEF RegistryNext
  <2>6. ASSUME NEW h \in Handler, RegisterBegin(h) \/ Unregister(h) PROVE at' # Nil
    <3>1. at' = at
      BY <2>6 DEF RegisterBegin, Unregister, walk
    <3> QED
      BY <3>1, <1>1 DEF RegistryNext
  <2> QED
    BY <2>2, <2>3, <2>4, <2>5, <2>6, <1>1 DEF RegistryNext, Walk
<1>2. RegistryInvariant /\ [RegistryNext]_registryVars =>
        [at' = Nil => adding # Nil /\ todo = {"end"}]_registryVars
  BY <1>1
<1> QED
  BY <1>2, RegistryInvariance, PTL DEF RegistrySpec, FaultOnlyInRace

-----------------------------------------------------------------------------
(* The list that is promised *)

\* The list of the handlers c[1] to c[m].
ListOf(m, c) == [i \in 1 .. m |-> c[i]]

LEMMA ListRead ==
  ASSUME NEW m, NEW c, RegistryInv(m, c)
  PROVE  /\ Registered = ListOf(m, c) /\ ListOf(m, c) \in Seq(Handler)
         /\ Len(ListOf(m, c)) = m
<1>1. m \in Nat /\ \A i \in 1 .. m : c[i] \in Handler
  BY RingNodes DEF RegistryInv
<1>2. Listed = m /\ Ring = c
  BY RingRead DEF RegistryInv
<1> QED
  BY <1>1, <1>2 DEF Registered, ListOf

LEMMA ListReadAfter == (\A m, c : RegistryInv(m, c) => Registered = ListOf(m, c))'
<1>1. \A m, c : RegistryInv(m, c) => Registered = ListOf(m, c)
  BY ListRead
<1> QED
  BY <1>1, PTL

LEMMA PromiseStep ==
  ASSUME NEW m, NEW c, RegistryInv(m, c), NEW k, NEW d, RegistryInv(k, d)', Relisted(m, c, k, d)
  PROVE  [Promise!Next]_Registered
<1>1. PICK s : s = ListOf(m, c)
  OBVIOUS
<1>2. PICK t : t = ListOf(k, d)
  OBVIOUS
<1>3. /\ Registered = s /\ s \in Seq(Handler) /\ Len(s) = m /\ m \in Nat
      /\ \A i \in 1 .. m : s[i] = c[i]
      /\ Registered' = t /\ t = [i \in 1 .. k |-> d[i]]
  <2>1. Registered = ListOf(m, c) /\ ListOf(m, c) \in Seq(Handler) /\ Len(ListOf(m, c)) = m
    BY ListRead
  <2>2. Registered' = ListOf(k, d)
    BY ListReadAfter
  <2>3. m \in Nat
    BY RingNodes DEF RegistryInv
  <2> QED
    BY <2>1, <2>2, <2>3, <1>1, <1>2 DEF ListOf
<1>4. CASE k = m /\ d = c
  BY <1>1, <1>2, <1>3, <1>4
<1>5. ASSUME NEW h \in Handler, h \notin {c[i] : i \in 1 .. m},
             k = m + 1, d = [i \in 0 .. m + 1 |-> IF i <= m THEN c[i] ELSE h]
      PROVE  Promise!Next
  <2>1. t = Append(s, h)
    <3>1. PICK u : u = Append(s, h)
      OBVIOUS
    <3>2. /\ u \in Seq(Handler) /\ Len(u) = m + 1 /\ u[m + 1] = h
          /\ \A i \in 1 .. m : u[i] = s[i]
      BY <3>1, <1>3, AppendProperties
    <3>3. t \in Seq(Handler) /\ Len(t) = m + 1
      <4>1. \A i \in 1 .. m + 1 : d[i] \in Handler
        BY <1>5, <3>2, <1>3, RingNodes DEF RegistryInv
      <4> QED
        BY <4>1, <1>3, <1>5
    <3>4. ASSUME NEW i \in 1 .. m + 1 PROVE u[i] = t[i]
      <4>1. t[i] = IF i <= m THEN c[i] ELSE h
        BY <1>3, <1>5
      <4>2. CASE i <= m
        <5>1. i \in 1 .. m
          BY <4>2, <1>3
        <5> QED
          BY <5>1, <4>1, <4>2, <3>2, <1>3
      <4>3. CASE ~ (i <= m)
        <5>1. i = m + 1
          BY <4>3, <1>3
        <5> QED
          BY <5>1, <4>1, <4>3, <3>2
      <4> QED
        BY <4>2, <4>3
    <3> QED
      BY <3>1, <3>2, <3>3, <3>4, SeqEqual
  <2>2. h \notin Range(s)
    <3>1. \A i \in DOMAIN s : i \in 1 .. m /\ s[i] = c[i]
      BY <1>3
    <3> QED
      BY <3>1, <1>5 DEF Range
  <2>3. Promise!Register(h)
    BY <2>1, <2>2, <1>3 DEF Promise!Register, Promise!Range, Range
  <2> QED
    BY <2>3 DEF Promise!Next
<1>6. ASSUME NEW j \in 1 .. m,
             k = m - 1, d = [i \in 0 .. m - 1 |-> IF i < j THEN c[i] ELSE c[i + 1]]
      PROVE  Promise!Next
  <2>1. PICK a, b : a = SubSeq(s, 1, j - 1) /\ b = SubSeq(s, j + 1, m)
    OBVIOUS
  <2>2. /\ a \in Seq(Handler) /\ Len(a) = j - 1 /\ \A i \in 1 .. j - 1 : a[i] = s[i]
        /\ b \in Seq(Handler) /\ Len(b) = m - j /\ \A i \in 1 .. m - j : b[i] = s[i + j]
    <3>1. a \in Seq(Handler) /\ Len(a) = j - 1 /\ \A i \in 1 .. j - 1 : a[i] = s[i]
      BY <2>1, <1>3, SubSeqProperties
    <3>2. b \in Seq(Handler) /\ Len(b) = m - j /\ \A i \in 1 .. m - j : b[i] = s[i + j]
      BY <2>1, <1>3, SubSeqProperties
    <3> QED
      BY <3>1, <3>2
  <2>3. /\ a \o b \in Seq(Handler) /\ Len(a \o b) = m - 1
        /\ \A i \in 1 .. m - 1 : (a \o b)[i] = IF i < j THEN s[i] ELSE s[i + 1]
    <3>1. /\ a \o b \in Seq(Handler) /\ Len(a \o b) = Len(a) + Len(b)
          /\ \A i \in 1 .. Len(a) + Len(b) : (a \o b)[i] = IF i <= Len(a) THEN a[i] ELSE b[i - Len(a)]
      BY <2>2, ConcatProperties
    <3>2. ASSUME NEW i \in 1 .. m - 1 PROVE (a \o b)[i] = IF i < j THEN s[i] ELSE s[i + 1]
      <4>1. CASE i < j
        BY <4>1, <3>1, <2>2, <1>3
      <4>2. CASE ~ (i < j)
        <5>1. PICK l : l = i - (j - 1)
          OBVIOUS
        <5>2. l \in 1 .. m - j /\ l + j = i + 1 /\ ~ (i <= j - 1)
          BY <5>1, <4>2, <1>3
        <5>3. (a \o b)[i] = b[l]
          BY <5>1, <5>2, <3>1, <2>2, <1>3
        <5> QED
          BY <5>2, <5>3, <4>2, <2>2
      <4> QED
        BY <4>1, <4>2
    <3> QED
      BY <3>1, <3>2, <2>2, <1>3
  <2>4. t = a \o b
    <3>1. PICK u : u = a \o b
      OBVIOUS
    <3>2. /\ u \in Seq(Handler) /\ Len(u) = m - 1
          /\ \A i \in 1 .. m - 1 : u[i] = IF i < j THEN s[i] ELSE s[i + 1]
      BY <3>1, <2>3
    <3>3. \A i \in 1 .. m - 1 : t[i] = IF i < j THEN c[i] ELSE c[i + 1]
      BY <1>3, <1>6
    <3>4. ASSUME NEW i \in 1 .. m - 1 PROVE u[i] = t[i] /\ t[i] \in Handler
      <4>1. i \in 1 .. m /\ i + 1 \in 1 .. m
        BY <1>3
      <4>2. c[i] \in Handler /\ c[i + 1] \in Handler
        BY <4>1, RingNodes DEF RegistryInv
      <4> QED
        BY <4>1, <4>2, <3>2, <3>3, <1>3
    <3>5. t \in Seq(Handler) /\ Len(t) = m - 1
      <4>1. k = m - 1 /\ k \in Nat /\ t = [i \in 1 .. k |-> d[i]]
        BY <1>3, <1>6
      <4>2. \A i \in 1 .. k : t[i] \in Handler
        BY <4>1, <3>4
      <4>3. t \in [1 .. k -> Handler]
        BY <4>1, <4>2
      <4> QED
        BY <4>1, <4>3
    <3> QED
      BY <3>1, <3>2, <3>4, <3>5, SeqEqual
  <2>5. j \in 1 .. Len(Registered) /\ Registered[j] = s[j] /\ s[j] \in Handler
    BY <1>3
  <2>6. Registered' = Promise!RemoveAt(Registered, j)
    BY <2>1, <2>4, <1>3 DEF Promise!RemoveAt
  <2>7. Promise!Unregister(s[j])
    BY <2>5, <2>6 DEF Promise!Unregister
  <2> QED
    BY <2>5, <2>7 DEF Promise!Next
<1> QED
  BY <1>4, <1>5, <1>6 DEF Relisted

\* Registry implements HandlerList: a list in the order of registration, from which
\* handlers are taken one at a time.
THEOREM HandlerListImplemented == RegistrySpec => ImplementsHandlerList
<1>1. RegistryInit => Promise!Init
  <2> SUFFICES ASSUME RegistryInit PROVE Registered = <<>>
    BY DEF Promise!Init
  <2>1. PICK m, c : RegistryInv(m, c) /\ m = 0
    BY RegistryStart
  <2>2. Registered \in Seq(Handler) /\ Len(Registered) = 0
    BY <2>1, ListRead
  <2> QED
    BY <2>2, EmptySeq
<1>2. RegistryInvariant /\ [RegistryNext]_registryVars => [Promise!Next]_Registered
  BY RegistryStep, PromiseStep DEF RegistryInvariant
<1> QED
  BY <1>1, <1>2, RegistryInvariance, PTL DEF RegistrySpec, ImplementsHandlerList, Promise!Spec
=============================================================================
