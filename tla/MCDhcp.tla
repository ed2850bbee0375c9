------------------------------- MODULE MCDhcp -------------------------------
(* Two leases: one renewed after one coarse tick and rebound after two,   *)
(* one without end.  The counters wrap at 10 and 3.                        *)
EXTENDS Dhcp

CONSTANTS l1, l2

MCLeases == {l1, l2}
MCRenew  == [l \in MCLeases |-> IF l = l1 THEN 1 ELSE 3]
MCRebind == [l \in MCLeases |-> IF l = l1 THEN 2 ELSE 3]
=============================================================================
