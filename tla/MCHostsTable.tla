---------------------------- MODULE MCHostsTable ----------------------------
(***************************************************************************)
(* Two lookups at a time; files that add, drop, overrule and skip entries. *)
(***************************************************************************)
EXTENDS HostsTable

CONSTANTS r1, r2, a, b, ip4, other4, ip6

MCReaders == {r1, r2}
MCDomains == {a, b}
MCAddresses4 == {ip4, other4}
MCAddresses6 == {ip6}

Line(d, ip) == [domain |-> d, ip |-> ip]
MCFiles == {
    <<Line(a, ip4), Line(b, ip6)>>,
    <<Line(a, other4), Line(a, ip6), Line(b, NoAddress)>>,
    <<Line(NoDomain, ip4), Line(b, ip4)>>}
=============================================================================
