------------------------- MODULE MCWebhookDelivery -------------------------
(***************************************************************************)
(* Two events for one subscription, and sweeps that may overlap.           *)
(***************************************************************************)
EXTENDS WebhookDelivery, TLC

Symmetry == Permutations(Events) \cup Permutations(Sweeps)
=============================================================================
