--------------------------- MODULE MCMemoryCache ---------------------------
(***************************************************************************)
(* Instances of MemoryCache for TLC: two goroutines are enough to find the *)
(* cache not full together; three keys are more than a cache with a limit  *)
(* of one and an overshoot of one holds.                                   *)
(***************************************************************************)
EXTENDS MemoryCache

NoneOrOne == {0, 1}
=============================================================================
