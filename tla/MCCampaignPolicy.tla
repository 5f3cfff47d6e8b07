--------------------------- MODULE MCCampaignPolicy ---------------------------
(***************************************************************************)
(* CampaignPolicy for TLC.                                                 *)
(***************************************************************************)
EXTENDS CampaignPolicy

\* Draft ids like 9, 10 and 11 go round when they are sorted as text.
RotatedOrders ==
    {[p \in Pub |-> ((p + k) % Publications) + 1] : k \in 0 .. Publications - 1}

=============================================================================
