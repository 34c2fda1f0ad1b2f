------------------------------ MODULE MCZalloc ------------------------------
(* Instances of Zalloc for TLC: main() and one more thread. *)
EXTENDS ZallocProps
CONSTANTS main, worker, nobody
=============================================================================
