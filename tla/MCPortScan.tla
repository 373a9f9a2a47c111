---------------------------- MODULE MCPortScan -----------------------------
(* Two raw probes that may draw the same source port; three proxies, one of *)
(* them of a scheme that is not supported.                                  *)
EXTENDS PortScan

CONSTANTS p1, p2, s1, s2

MCProbes == {p1, p2}
MCSourcePorts == {s1, s2}
MCProxies == <<"http", "socks5", "socks4">>
=============================================================================
