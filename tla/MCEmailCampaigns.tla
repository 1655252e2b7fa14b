-------------------------- MODULE MCEmailCampaigns --------------------------
(* Campaigns of up to three steps and two web processes.                       *)
EXTENDS EmailCampaigns, TLC

=============================================================================
