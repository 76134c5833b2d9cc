---------------------------- MODULE MCLookupRace ----------------------------
(***************************************************************************)
(* Instances of LookupRace for TLC.  Three resolvers are enough for a      *)
(* winner, a loser that finds the channel full and a worker still under    *)
(* way when the call returns; the resolver list of the code has at most    *)
(* two entries, plus the stored best resolvers in privacy mode.            *)
(***************************************************************************)
EXTENDS LookupRace

NoneSelf == {}
OneSelf == {2}
BothKinds == BOOLEAN
OrdinarySites == {FALSE}
UniqueOnly == {TRUE}
=============================================================================
