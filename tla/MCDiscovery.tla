---------------------------- MODULE MCDiscovery ----------------------------
(* Four hosts: one answers both methods, one the first, one the second and  *)
(* one none.  The stream's buffer is smaller than the list.                 *)
EXTENDS Discovery

MCMethods == <<"icmp", "connect">>
MCAnswers == <<{"icmp", "connect"}, {"connect"}, {}, {"icmp"}>>
=============================================================================
