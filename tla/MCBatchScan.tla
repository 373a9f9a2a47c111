---------------------------- MODULE MCBatchScan ----------------------------
(* ScanHost on three ports, one of each kind of target, and two workers. *)
EXTENDS BatchScan, TLC

CONSTANTS p1, p2, p3

MCPorts == {p1, p2, p3}
MCReply == p1 :> "accept" @@ p2 :> "refuse" @@ p3 :> "silent"
=============================================================================
