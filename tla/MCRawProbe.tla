---------------------------- MODULE MCRawProbe -----------------------------
(* Two probes that may draw the same source port. *)
EXTENDS RawProbe

CONSTANTS p1, p2, s1, s2

MCProbes == {p1, p2}
MCSourcePorts == {s1, s2}
=============================================================================
