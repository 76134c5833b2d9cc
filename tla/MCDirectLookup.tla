--------------------------- MODULE MCDirectLookup ---------------------------
(***************************************************************************)
(* Two calls in sequence: the second runs while the worker and the helper  *)
(* of the first may still be there.                                        *)
(***************************************************************************)
EXTENDS DirectLookup
=============================================================================
