--------------------------- MODULE MCResolverPool ---------------------------
(***************************************************************************)
(* Instances of ResolverPool for TLC.  Three resolvers are the fewest for  *)
(* which two of them can be drawn in more than one way; two goroutines are *)
(* enough for every race between a read and a write.                       *)
(***************************************************************************)
EXTENDS ResolverPool, TLC

CONSTANTS r1, r2, r3, gone

ThreeResolvers == {r1, r2, r3}
Gone == {gone}
NoBestOrTwo == {<<>>, <<r3, gone>>}
NoBest == {<<>>}
Spread == {r1, r2}
Best == {r3, gone}

(* Goroutines are alike, and so are the two high-spread resolvers.         *)
Symmetry == Permutations(Threads) \cup Permutations({r1, r2})
=============================================================================
