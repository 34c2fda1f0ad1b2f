-------------------------------- MODULE Foot --------------------------------
(***************************************************************************)
(* inc/foot.c: the C library's own malloc and free, looked up once by name *)
(* under lock_foot.  What has been found is kept when a look-up fails, and *)
(* the next foot_init goes on from there.                                  *)
(*                                                                         *)
(* dlsym and dlerror are the system's: a look-up finds the function or     *)
(* not, and a thread has an error pending from a look-up that failed, of   *)
(* this code (whose test for NULL comes before the call of dlerror that    *)
(* would take it) or of any other.  Whether a later success clears it is   *)
(* up to the system.                                                       *)
(***************************************************************************)
EXTENDS Integers, FiniteSets

CONSTANTS
  FootThreads,
  FootNobody,   \* no thread
  FootCalls     \* bound: calls of foot_init that end without having set up

ASSUME FootAssumption == FootNobody \notin FootThreads /\ FootCalls \in Nat

Name == {"malloc", "free"}   \* in the order they are looked up

VARIABLES
  origin,      \* name -> is _origin_<name> there?
  isFootInit,
  lock_foot,   \* who has it
  footPc,      \* per thread: "out", "lock", the name to look up, "ready", "unlock"
  pending,     \* per thread: has dlerror an answer?
  refused,     \* did dlsym give NULL in the running call?
  unfinished,  \* calls that ended without set-up though dlsym found all it was asked for
  missed       \* has an assert of origin_malloc or origin_free failed?

lookUps  == <<origin, isFootInit, pending>>
counts   == <<refused, unfinished>>
footVars == <<lookUps, lock_foot, footPc, counts, missed>>

FootGoto(t, label) == footPc' = [footPc EXCEPT ![t] = label]

FootInit ==
  /\ origin = [f \in Name |-> FALSE] /\ isFootInit = FALSE /\ missed = FALSE
  /\ lock_foot = FootNobody /\ footPc = [t \in FootThreads |-> "out"]
  /\ pending = [t \in FootThreads |-> FALSE]
  /\ refused = FALSE /\ unfinished = 0

FootEnter(t) ==
  /\ footPc[t] = "out" /\ unfinished < FootCalls
  /\ FootGoto(t, "lock")
  /\ UNCHANGED <<lookUps, lock_foot, counts, missed>>

FootLock(t) ==
  /\ footPc[t] = "lock" /\ lock_foot = FootNobody
  /\ lock_foot' = t /\ refused' = FALSE
  /\ FootGoto(t, IF isFootInit THEN "unlock" ELSE "malloc")
  /\ UNCHANGED <<lookUps, unfinished, missed>>

Following(f) == IF f = "malloc" THEN "free" ELSE "ready"

\* It is there already.
Skip(t) ==
  /\ footPc[t] \in Name /\ origin[footPc[t]]
  /\ FootGoto(t, Following(footPc[t]))
  /\ UNCHANGED <<lookUps, lock_foot, counts, missed>>

\* dlsym gives NULL: goto clean.
PressesOn(t) == Following(footPc[t])  \* slip for Cleans
Cleans(t) == "unlock"

Refused(t) ==
  /\ footPc[t] \in Name /\ ~ origin[footPc[t]]
  /\ pending' = [pending EXCEPT ![t] = TRUE]
  /\ refused' = TRUE
  /\ FootGoto(t, Cleans(t))
  /\ UNCHANGED <<origin, isFootInit, lock_foot, unfinished, missed>>

\* dlsym finds the function; a pending error ends the call all the same.
Keeps(t, stale) == [origin EXCEPT ![footPc[t]] = TRUE]

LookUp(t) ==
  /\ footPc[t] \in Name /\ ~ origin[footPc[t]]
  /\ \E stale \in {FALSE, pending[t]} :
       /\ origin' = Keeps(t, stale)
       /\ FootGoto(t, IF stale THEN "unlock" ELSE Following(footPc[t]))
  /\ pending' = [pending EXCEPT ![t] = FALSE]
  /\ UNCHANGED <<isFootInit, lock_foot, counts, missed>>

Ready(t) ==
  /\ footPc[t] = "ready"
  /\ isFootInit' = TRUE /\ FootGoto(t, "unlock")
  /\ UNCHANGED <<origin, pending, lock_foot, counts, missed>>

FootUnlock(t) ==
  /\ footPc[t] = "unlock"
  /\ lock_foot' = FootNobody
  /\ unfinished' = IF isFootInit \/ refused THEN unfinished ELSE unfinished + 1
  /\ FootGoto(t, "out")
  /\ UNCHANGED <<lookUps, refused, missed>>

\* origin_malloc and origin_free assert that their function is there.
OriginCall(t) ==
  /\ footPc[t] = "out"
  /\ missed' = \E f \in Name : ~ origin[f]
  /\ missed'
  /\ UNCHANGED <<lookUps, lock_foot, footPc, counts>>

\* Some other code of the thread leaves an error.
OtherError(t) ==
  /\ footPc[t] = "out" /\ ~ pending[t]
  /\ pending' = [pending EXCEPT ![t] = TRUE]
  /\ UNCHANGED <<origin, isFootInit, lock_foot, footPc, counts, missed>>

FootStep(t) ==
  FootLock(t) \/ Skip(t) \/ Refused(t) \/ LookUp(t) \/ Ready(t) \/ FootUnlock(t)

FootNext ==
  /\ ~ missed
  /\ \E t \in FootThreads : FootStep(t) \/ FootEnter(t) \/ OriginCall(t) \/ OtherError(t)

FootSpec == FootInit /\ [][FootNext]_footVars

-----------------------------------------------------------------------------
\* Once set up, both functions are there, and no assert of origin_malloc or
\* origin_free fails: only a program that calls them without a foot_init that
\* succeeded is stopped.
FootReady == isFootInit => (\A f \in Name : origin[f]) /\ ~ missed

\* However the look-ups of several threads fail, with or without a left-over
\* error, each call gets further or dlsym had nothing for it: two calls at most end
\* without set-up that dlsym refused nothing.
FootConverges == unfinished <= 2

\* Threads look up one at a time, and none returns with lock_foot, whichever way it
\* took through `goto clean`.
FootExclusive ==
  \A t \in FootThreads : footPc[t] \notin {"out", "lock"} <=> lock_foot = t

FootExact == FootReady /\ FootConverges /\ FootExclusive
=============================================================================
