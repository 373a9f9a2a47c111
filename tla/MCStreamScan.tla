---------------------------- MODULE MCStreamScan ----------------------------
(* Three hosts, the second of them excluded, with one open port out of two. *)
EXTENDS StreamScan, TLC

CONSTANTS h1, h2, h3, p1, p2

MCHostList == <<h1, h2, h3>>
MCExcluded == {h2}
MCPorts == {p1, p2}
MCOpenPorts == h1 :> {p1} @@ h2 :> {p1, p2} @@ h3 :> {p2}
=============================================================================
