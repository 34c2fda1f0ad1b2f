----------------------------- MODULE FootProofs -----------------------------
(***************************************************************************)
(* foot_init of inc/foot.c is right with any number of threads and calls.  *)
(* What makes FootExact inductive is where a thread must have got to find  *)
(* both functions, and that a call which ends for a left-over error has    *)
(* found one function more.                                                *)
(***************************************************************************)
EXTENDS Foot, TLAPS

FootTypeOK ==
  /\ origin \in [Name -> BOOLEAN] /\ isFootInit \in BOOLEAN /\ missed \in BOOLEAN
  /\ lock_foot \in FootThreads \cup {FootNobody}
  /\ footPc \in [FootThreads -> Name \cup {"out", "lock", "ready", "unlock"}]
  /\ pending \in [FootThreads -> BOOLEAN]
  /\ refused \in BOOLEAN /\ unfinished \in Nat

Found == (IF origin["malloc"] THEN 1 ELSE 0) + (IF origin["free"] THEN 1 ELSE 0)

FootOrder ==
  \A t \in FootThreads :
    /\ footPc[t] \in {"free", "ready"} => origin["malloc"]
    /\ footPc[t] = "ready" => origin["free"]

FootCount ==
  /\ unfinished <= Found
  /\ \A t \in FootThreads :
       footPc[t] = "unlock" /\ ~ isFootInit /\ ~ refused => unfinished + 1 <= Found

FootInv == FootTypeOK /\ FootReady /\ FootExclusive /\ FootOrder /\ FootCount

LEMMA FootStart == ASSUME FootInit PROVE FootInv
<1> USE FootAssumption DEF FootInit, Name
<1>1. FootTypeOK
  BY DEF FootTypeOK
<1>2. FootReady /\ FootExclusive /\ FootOrder
  BY DEF FootReady, FootExclusive, FootOrder
<1>3. FootCount
  BY DEF FootCount, Found
<1> QED
  BY <1>1, <1>2, <1>3 DEF FootInv

LEMMA FootPreserved == ASSUME FootInv, [FootNext]_footVars PROVE FootInv'
<1> USE FootAssumption
    DEF FootInv, FootTypeOK, FootReady, FootExclusive, FootOrder, FootCount, Found, Name,
        FootGoto, lookUps, counts
<1>1. CASE UNCHANGED footVars
  BY <1>1 DEF footVars
<1>2. ASSUME NEW t \in FootThreads, FootEnter(t) PROVE FootInv'
  BY <1>2 DEF FootEnter
<1>3. ASSUME NEW t \in FootThreads, FootLock(t) PROVE FootInv'
  BY <1>3 DEF FootLock
<1>4. ASSUME NEW t \in FootThreads, Skip(t) PROVE FootInv'
  BY <1>4 DEF Skip, Following
<1>5. ASSUME NEW t \in FootThreads, Refused(t) PROVE FootInv'
  BY <1>5 DEF Refused, Cleans
<1>6. ASSUME NEW t \in FootThreads, LookUp(t) PROVE FootInv'
  BY <1>6 DEF LookUp, Following, Keeps
<1>7. ASSUME NEW t \in FootThreads, Ready(t), ~ missed PROVE FootInv'
  BY <1>7 DEF Ready
<1>8. ASSUME NEW t \in FootThreads, FootUnlock(t) PROVE FootInv'
  BY <1>8 DEF FootUnlock
<1>9. ASSUME NEW t \in FootThreads, OriginCall(t) PROVE FootInv'
  BY <1>9 DEF OriginCall
<1>10. ASSUME NEW t \in FootThreads, OtherError(t) PROVE FootInv'
  BY <1>10 DEF OtherError
<1> QED
  BY <1>1, <1>2, <1>3, <1>4, <1>5, <1>6, <1>7, <1>8, <1>9, <1>10 DEF FootNext, FootStep

\* Both functions are there once foot_init has succeeded, at most two of its calls end
\* for nothing but a left-over error, and one thread at a time looks up.
THEOREM FootCorrect == FootSpec => []FootExact
<1>1. FootInv => FootExact
  BY DEF FootInv, FootTypeOK, FootExact, FootConverges, FootCount, Found
<1> QED
  BY <1>1, FootStart, FootPreserved, PTL DEF FootSpec
=============================================================================
