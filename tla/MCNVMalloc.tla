----------------------------- MODULE MCNVMalloc -----------------------------
(* Instances of NVMalloc for TLC. *)
EXTENDS NVMallocProps
=============================================================================
