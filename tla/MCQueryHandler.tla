--------------------------- MODULE MCQueryHandler ---------------------------
(***************************************************************************)
(* Instances of QueryHandler for TLC: shop is a site behind a CNAME at a   *)
(* CDN, news is behind the same CNAME or behind none.                      *)
(***************************************************************************)
EXTENDS QueryHandler, TLC

CONSTANTS shop, news, cdn

Sites == {shop, news}
SitesAndCdn == {shop, news, cdn}
SharedTarget == (shop :> cdn) @@ (news :> cdn) @@ (cdn :> cdn)
OwnTargets == (shop :> cdn) @@ (news :> news) @@ (cdn :> cdn)
OneHost == {news}
UniqueCdn == {cdn}

AllOn == [direct |-> TRUE, hosts |-> TRUE, cache |-> TRUE]
DefaultOnly == {AllOn}
NothingOn == [direct |-> FALSE, hosts |-> FALSE, cache |-> FALSE]
Varied == {AllOn, NothingOn}

(* Goroutines and ids are interchangeable.                                 *)
Symmetry == Permutations(Goroutines) \cup Permutations(Ids)
=============================================================================
