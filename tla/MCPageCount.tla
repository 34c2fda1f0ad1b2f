---------------------------- MODULE MCPageCount -----------------------------
(* PageCount with 4-bit floats, a 6-bit is_pow_of_2 and the shifts that fit it. *)
EXTENDS PageCount

MCShifts == <<1, 2, 3>>
=============================================================================
