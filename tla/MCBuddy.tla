------------------------------ MODULE MCBuddy ------------------------------
(* Instances of Buddy for TLC: arenas of 4 and 8 pages of one byte or two. *)
EXTENDS BuddyProps

MCPowers == [k \in 0 .. W |-> 2 ^ k]

MCPagesOf ==
  [r \in Requests |->
     LET n == (r + PAGE - 1) \div PAGE IN
     CASE n <= 1 -> 1 [] n = 2 -> 2 [] n <= 4 -> 4 [] n <= 8 -> 8 [] OTHER -> 16]

(* The page counts are those that module PageCount computes.  2^30 is the *)
(* largest power of two that TLC has.                                     *)
Count == INSTANCE PageCount
  WITH PageSize <- PAGE, Pages <- N, Mantissa <- 24, Narrow <- 30, Shifts <- <<1, 2, 4, 8, 16>>,
       SizeBits <- 30, Counts <- {}, MaxSize <- 0, asked <- 0

ASSUME CountAssumption == \A r \in Requests : MCPagesOf[r] = Count!PagesFor(r)
=============================================================================
