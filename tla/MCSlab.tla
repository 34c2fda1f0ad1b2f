------------------------------- MODULE MCSlab -------------------------------
(* Instances of Slab for TLC. *)
EXTENDS SlabProps
=============================================================================
