------------------------- MODULE MCWebhookDelivery --------------------------
(* WebhookDelivery for TLC.  The message slots are interchangeable;        *)
(* MessageSymmetry is for configurations that check invariants only.       *)
EXTENDS WebhookDelivery, TLC

MessageSymmetry == Permutations(Messages)
=============================================================================
