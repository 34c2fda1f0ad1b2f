------------------------------ MODULE Induction ------------------------------
(***************************************************************************)
(* Induction, recursion and sums for the proofs of this directory, stated  *)
(* about sets and functions, so that nothing takes an operator as a        *)
(* parameter.                                                              *)
(***************************************************************************)
EXTENDS Integers, FiniteSets, Sequences, Functions, FiniteSetTheorems, WellFoundedInduction, TLAPS

\* A set of numbers that is not empty has a least one.
LEMMA LeastNat ==
  ASSUME NEW T \in SUBSET Nat, T # {}
  PROVE  \E k \in T : \A m \in T : k <= m
<1>1. PICK R : R = {ss \in Nat \X Nat : ss[1] < ss[2]}
  OBVIOUS
<1>2. IsWellFoundedOn(R, Nat)
  BY <1>1, NatLessThanWellFounded DEF OpToRel
<1>3. \E x \in T : \A y \in T : ~ (<<y, x>> \in R)
  BY <1>2, WFMin
<1>4. \A x, y \in Nat : <<y, x>> \in R <=> y < x
  BY <1>1
<1>5. PICK x \in T : \A y \in T : ~ (<<y, x>> \in R)
  BY <1>3
<1>6. \A y \in T : ~ (y < x)
  BY <1>4, <1>5
<1> QED
  BY <1>6

\* A set with 0, and with the successor of what is in it, has every number up to N.
LEMMA InductionTo ==
  ASSUME NEW N \in Nat, NEW P, 0 \in P,
         \A k \in 0 .. N - 1 : k \in P => k + 1 \in P
  PROVE  \A k \in 0 .. N : k \in P
<1> SUFFICES ASSUME (0 .. N) \ P # {} PROVE FALSE
  OBVIOUS
<1>1. PICK k \in (0 .. N) \ P : \A m \in (0 .. N) \ P : k <= m
  <2> DEFINE T == (0 .. N) \ P
  <2>1. T \in SUBSET Nat /\ T # {}
    OBVIOUS
  <2> HIDE DEF T
  <2>2. \E k \in T : \A m \in T : k <= m
    BY <2>1, LeastNat
  <2> QED
    BY <2>2 DEF T
<1>2. k # 0 /\ k - 1 \in 0 .. N - 1 /\ k - 1 \notin (0 .. N) \ P
  BY <1>1
<1>3. k - 1 \in P
  BY <1>2
<1> QED
  BY <1>1, <1>2, <1>3

\* A function of the numbers to N that begins at a and takes the steps G.
StepsOn(N, X) == [1 .. N -> [X -> X]]
IsRun(f, N, X, a, G) ==
  f \in [0 .. N -> X] /\ f[0] = a /\ \A k \in 1 .. N : f[k] = G[k][f[k - 1]]

LEMMA Iteration ==
  ASSUME NEW N \in Nat, NEW X, NEW a \in X, NEW G \in StepsOn(N, X)
  PROVE  \E f : IsRun(f, N, X, a, G)
<1> USE DEF StepsOn
<1> DEFINE Upto(k, f) == f[0] = a /\ \A m \in 1 .. k : f[m] = G[m][f[m - 1]]
           P == {k \in 0 .. N : \E f \in [0 .. N -> X] : Upto(k, f)}
<1>1. \A k \in 0 .. N : k \in P <=> \E f \in [0 .. N -> X] : Upto(k, f)
  <2> HIDE DEF Upto
  <2> QED
    OBVIOUS
<1> HIDE DEF P
<1>2. 0 \in P
  <2> DEFINE g == [k \in 0 .. N |-> a]
  <2>1. g \in [0 .. N -> X] /\ Upto(0, g)
    OBVIOUS
  <2> HIDE DEF Upto, g
  <2> QED
    BY <1>1, <2>1
<1>3. ASSUME NEW k \in 0 .. N - 1, k \in P PROVE k + 1 \in P
  <2> k \in 0 .. N /\ k + 1 \in 1 .. N /\ k + 1 \in 0 .. N
    OBVIOUS
  <2>1. PICK f \in [0 .. N -> X] : Upto(k, f)
    BY <1>1, <1>3
  <2> DEFINE y == G[k + 1][f[k]]
             g == [f EXCEPT ![k + 1] = y]
  <2>2. y \in X
    OBVIOUS
  <2> HIDE DEF y
  <2>3. g \in [0 .. N -> X] /\ g[k + 1] = y /\ \A m \in 0 .. k : g[m] = f[m]
    BY <2>2
  <2> HIDE DEF g
  <2>4. Upto(k + 1, g)
    <3>1. g[0] = a
      BY <2>1, <2>3
    <3>2. ASSUME NEW m \in 1 .. k + 1 PROVE g[m] = G[m][g[m - 1]]
      <4>1. CASE m = k + 1
        BY <4>1, <2>3 DEF y
      <4>2. CASE m # k + 1
        <5>1. m \in 1 .. k /\ m \in 0 .. k /\ m - 1 \in 0 .. k
          BY <4>2
        <5> QED
          BY <5>1, <2>1, <2>3
      <4> QED
        BY <4>1, <4>2
    <3> QED
      BY <3>1, <3>2
  <2> QED
    BY <1>1, <2>3, <2>4
<1>4. N \in P
  <2>1. \A k \in 0 .. N - 1 : k \in P => k + 1 \in P
    BY <1>3
  <2>2. \A k \in 0 .. N : k \in P
    BY <1>2, <2>1, InductionTo
  <2> QED
    BY <2>2
<1>5. PICK f \in [0 .. N -> X] : Upto(N, f)
  BY <1>1, <1>4
<1> QED
  BY <1>5 DEF IsRun
-----------------------------------------------------------------------------
(* Sums *)

\* The sizes of sets that do not meet add up to the size of their union.
LEMMA SumOfSizes ==
  ASSUME NEW D, IsFiniteSet(D), NEW g, \A i \in D : IsFiniteSet(g[i]),
         \A i, j \in D : i # j => g[i] \cap g[j] = {},
         NEW c \in [D -> Nat], \A i \in D : c[i] = Cardinality(g[i]),
         NEW U, \A u : u \in U <=> \E i \in D : u \in g[i]
  PROVE  SumFunction(c) = Cardinality(U)
<1> DEFINE All(s) == UNION {g[i] : i \in s}
           Size == [s \in SUBSET D |-> Cardinality(All(s))]
           Def(f) == f = [s \in SUBSET D |->
                            IF s = {} THEN 0
                            ELSE LET x == CHOOSE x \in s : TRUE IN c[x] + f[s \ {x}]]
<1>1. SumFunction(c) = (CHOOSE f : Def(f))[D]
  BY DEF SumFunction, SumFunctionOnSet, FoldFunctionOnSet, MapThenFoldSet
<1>2. ASSUME NEW s \in SUBSET D PROVE IsFiniteSet(s) /\ IsFiniteSet(All(s))
  <2>1. IsFiniteSet(s)
    BY FS_Subset
  <2>2. IsFiniteSet({g[i] : i \in s})
    <3> DEFINE h == [i \in s |-> g[i]]
    <3>1. h \in Surjection(s, {g[i] : i \in s})
      BY DEF Surjection
    <3> QED
      BY <2>1, <3>1, FS_Surjection
  <2>3. \A i \in s : IsFiniteSet(g[i])
    OBVIOUS
  <2>4. IsFiniteSet(All(s))
    BY <2>2, <2>3, FS_UNION
  <2> QED
    BY <2>1, <2>4
<1>3. ASSUME NEW s \in SUBSET D, NEW x \in s
      PROVE  Cardinality(All(s)) = Cardinality(g[x]) + Cardinality(All(s \ {x}))
  <2>1. PICK A, B : A = g[x] /\ B = All(s \ {x})
    OBVIOUS
  <2>2. All(s) = A \cup B /\ A \cap B = {}
    BY <2>1
  <2>3. IsFiniteSet(A) /\ IsFiniteSet(B)
    BY <1>2, <2>1
  <2>4. Cardinality(A \cap B) = 0
    BY <2>2, FS_EmptySet
  <2>5. Cardinality(A \cup B) = Cardinality(A) + Cardinality(B) - Cardinality(A \cap B)
    BY <2>3, FS_Union
  <2>6. Cardinality(A) \in Nat /\ Cardinality(B) \in Nat
    BY <2>3, FS_CardinalityType
  <2>7. Cardinality(A \cup B) = Cardinality(A) + Cardinality(B)
    BY <2>4, <2>5, <2>6
  <2> HIDE DEF All
  <2> QED
    BY <2>1, <2>2, <2>7
<1>4. Cardinality(All({})) = 0
  <2>1. All({}) = {}
    OBVIOUS
  <2> QED
    BY <2>1, FS_EmptySet
<1> HIDE DEF All
<1>5. Def(Size)
  <2>1. ASSUME NEW s \in SUBSET D
        PROVE  Size[s] = IF s = {} THEN 0 ELSE LET x == CHOOSE x \in s : TRUE IN c[x] + Size[s \ {x}]
    <3>1. CASE s = {}
      BY <3>1, <1>4
    <3>2. CASE s # {}
      <4>1. PICK x : x = CHOOSE y \in s : TRUE
        OBVIOUS
      <4>2. x \in s /\ s \ {x} \in SUBSET D
        BY <3>2, <4>1
      <4>3. Size[s] = c[x] + Size[s \ {x}]
        BY <4>2, <1>3
      <4> HIDE DEF Size
      <4> QED
        BY <3>2, <4>1, <4>3
    <3> QED
      BY <3>1, <3>2
  <2>2. Size = [s \in SUBSET D |-> Size[s]]
    OBVIOUS
  <2> HIDE DEF Size
  <2> QED
    BY <2>1, <2>2
<1> DEFINE sum == CHOOSE f : Def(f)
<1>6. Def(sum)
  <2> HIDE DEF Def, Size
  <2> QED
    BY <1>5
<1>7. ASSUME NEW s \in SUBSET D, s # {}
      PROVE  \E x \in s : sum[s] = c[x] + sum[s \ {x}]
  <2> HIDE DEF sum
  <2>1. PICK x : x = CHOOSE y \in s : TRUE
    OBVIOUS
  <2>2. x \in s
    BY <1>7, <2>1
  <2>3. sum[s] = c[x] + sum[s \ {x}]
    BY <1>6, <1>7, <2>1
  <2> QED
    BY <2>2, <2>3
<1>8. sum[{}] = 0
  <2> HIDE DEF sum
  <2>1. {} \in SUBSET D
    OBVIOUS
  <2> QED
    BY <2>1, <1>6
<1> HIDE DEF sum, Def
<1>9. ASSUME NEW s \in SUBSET D PROVE sum[s] = Cardinality(All(s))
  <2> DEFINE Wrong == {t \in SUBSET D : sum[t] # Cardinality(All(t))}
             Sizes == {Cardinality(t) : t \in Wrong}
  <2> SUFFICES ASSUME s \in Wrong PROVE FALSE
    OBVIOUS
  <2>1. Sizes \in SUBSET Nat /\ Sizes # {}
    BY <1>2, FS_CardinalityType
  <2>2. PICK n \in Sizes : \A m \in Sizes : n <= m
    <3> HIDE DEF Sizes
    <3> QED
      BY <2>1, LeastNat
  <2>3. PICK t \in Wrong : n = Cardinality(t)
    OBVIOUS
  <2>4. t \in SUBSET D /\ sum[t] # Cardinality(All(t)) /\ IsFiniteSet(t)
    BY <1>2
  <2>5. t # {}
    BY <2>4, <1>4, <1>8
  <2>6. PICK x \in t : sum[t] = c[x] + sum[t \ {x}]
    BY <2>4, <2>5, <1>7
  <2>7. Cardinality(t \ {x}) = Cardinality(t) - 1 /\ Cardinality(t) \in Nat
    BY <2>4, FS_RemoveElement, FS_CardinalityType
  <2>8. t \ {x} \notin Wrong
    <3>1. t \ {x} \in Wrong => Cardinality(t \ {x}) \in Sizes
      OBVIOUS
    <3> HIDE DEF Wrong, Sizes
    <3> QED
      BY <3>1, <2>1, <2>2, <2>3, <2>7
  <2>9. sum[t \ {x}] = Cardinality(All(t \ {x}))
    BY <2>4, <2>8
  <2>10. c[x] = Cardinality(g[x])
    BY <2>4
  <2> QED
    BY <2>4, <2>6, <2>9, <2>10, <1>3
<1>10. sum[D] = Cardinality(All(D))
  BY <1>9
<1>11. U = All(D)
  BY DEF All
<1> QED
  BY <1>1, <1>10, <1>11 DEF sum

\* The same of the sum and the union as they are written.
LEMMA UnionSize ==
  ASSUME NEW I, IsFiniteSet(I), NEW d, \A i \in I : IsFiniteSet(d[i]),
         \A i, j \in I : i # j => d[i] \cap d[j] = {}
  PROVE  SumFunction([i \in I |-> Cardinality(d[i])]) = Cardinality(UNION {d[i] : i \in I})
<1>1. PICK e, U : e = [i \in I |-> Cardinality(d[i])] /\ U = UNION {d[i] : i \in I}
  OBVIOUS
<1>2. e \in [I -> Nat] /\ \A i \in I : e[i] = Cardinality(d[i])
  BY <1>1, FS_CardinalityType
<1>3. \A u : u \in U <=> \E i \in I : u \in d[i]
  BY <1>1
<1>4. SumFunction(e) = Cardinality(U)
  BY <1>2, <1>3, SumOfSizes
<1> QED
  BY <1>1, <1>4

=============================================================================
