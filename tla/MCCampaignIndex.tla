--------------------------- MODULE MCCampaignIndex --------------------------
(* Four accounts that share a domain, two of them a bio as well.             *)
EXTENDS CampaignIndex
Shared == [a \in Id |-> IF a <= 2 THEN {"bio", "domain"} ELSE {"domain"}]
=============================================================================
