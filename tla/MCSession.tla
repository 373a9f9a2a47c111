----------------------------- MODULE MCSession -----------------------------
(* Two ports, one router before the target, two probes in the database,    *)
(* two scripts of which one was selected twice.                            *)
EXTENDS Session

CONSTANTS p1, p2, r1, target, stranger, http, ssh, w1, w2

MCPortList == <<p1, p2>>
MCPath == <<r1, target>>
MCOthers == {stranger}
MCDatabase == <<[name |-> "GetRequest", ports |-> {p1}], [name |-> "NULL", ports |-> {}]>>
MCScriptIDs == <<http, ssh>>
MCSelected == <<ssh, http, ssh>>
MCMatching == [p \in {p1, p2} |-> IF p = p1 THEN {http, ssh} ELSE {ssh}]
MCWorkers == {w1, w2}
MCRequests == {{}, {"os", "traceroute"}} \cup {{a} : a \in Analyses}
MCVersionRequests == {{"banners"}}
=============================================================================
