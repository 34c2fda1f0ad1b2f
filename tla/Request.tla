------------------------------ MODULE Request -------------------------------
(***************************************************************************)
(* A client that asks for every size in turn, for the modules that say     *)
(* what becomes of one size: PageCount, SlabSize and NVSizes.              *)
(***************************************************************************)
EXTENDS Integers

CONSTANT MaxSize   \* bound: the largest size

ASSUME RequestMaxSize == MaxSize \in Nat

VARIABLE asked     \* the size, in bytes

RequestInit == asked = 0
Ask         == asked < MaxSize /\ asked' = asked + 1
RequestSpec == RequestInit /\ [][Ask]_asked
=============================================================================
