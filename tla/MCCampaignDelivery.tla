------------------------ MODULE MCCampaignDelivery ------------------------
(* TLC instances of CampaignDelivery. *)
EXTENDS CampaignDelivery, TLC

Symmetry == Permutations(Sends) \cup Permutations(Requests)
              \cup Permutations(Workers)

AllOperations == {"launch", "pause", "resume", "kill", "retry"}
AllFaults == {"request", "worker", "mailer", "database"}
=============================================================================
