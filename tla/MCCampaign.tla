----------------------------- MODULE MCCampaign -----------------------------
(* Two launchers for Campaign.  One starts any of the configurations or all *)
(* of them, the other one of them.                                          *)
EXTENDS Campaign

CONSTANTS l1, l2

MCInit == Init /\ Cardinality(wanted[l2]) = 1
MCFairSpec == MCInit /\ [][Next]_vars /\ \A l \in Launchers : WF_vars(Stopping(l))
=============================================================================
