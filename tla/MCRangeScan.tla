---------------------------- MODULE MCRangeScan ----------------------------
(* Addresses of three bits.  A range of eight, halves and a quarter of it,  *)
(* a single address; a half, a quarter and a single range are excluded, and *)
(* an address of each family, before a host that is not.                    *)
(* The local range is all eight or a half.                                  *)
EXTENDS RangeScan

V4(a, n) == [family |-> "v4", addr |-> a, ones |-> n]
V6(a, n) == [family |-> "v6", addr |-> a, ones |-> n]

MCCalls == {NoCIDR, V4(5, 0), V4(4, 1), V4(2, 2), V4(5, 3), V6(0, 0), V6(6, 1)}
MCLocalRanges == {V4(0, 0), V4(4, 1)}
MCExcludeRanges == {V4(6, 1), V4(6, 2), V4(4, 3)}
MCExcludeAddrs == {<<"v4", 2>>, <<"v6", 5>>}

\* TLC compares the two enumerations for every range of either family.
ASSUME HostRangeCorrect
=============================================================================
