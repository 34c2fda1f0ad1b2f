------------------------------ MODULE MCParts -------------------------------
(***************************************************************************)
(* An instance for TLC of the parts of the system that are small and do    *)
(* not touch one another: what sizes become (PageCount, SlabSize and       *)
(* NVSizes, over every size), nvmalloc's bitmap, the registry of handlers, *)
(* and foot.  One of them is chosen at the start, and only it moves.       *)
(***************************************************************************)
EXTENDS PageCount, SlabSize, NVSizes, NVBitmap, RegistryProps, Foot

VARIABLE part

partsVars == <<part, asked, bitmap, registryVars, footVars>>

PartsInit ==
  /\ part \in {"sizes", "bitmap", "handlers", "foot"}
  /\ RequestInit /\ BitmapInit /\ RegistryInit /\ FootInit

PartsNext ==
  /\ UNCHANGED part
  /\ \/ part = "sizes" /\ Ask /\ UNCHANGED <<bitmap, registryVars, footVars>>
     \/ part = "bitmap" /\ BitmapNext /\ UNCHANGED <<asked, registryVars, footVars>>
     \/ part = "handlers" /\ RegistryNext /\ UNCHANGED <<asked, bitmap, footVars>>
     \/ part = "foot" /\ FootNext /\ UNCHANGED <<asked, bitmap, registryVars>>

PartsSpec == PartsInit /\ [][PartsNext]_partsVars /\ RegistryFair

-----------------------------------------------------------------------------
MCShifts == <<1, 2, 3>>
=============================================================================
