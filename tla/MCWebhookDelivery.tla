--------------------------- MODULE MCWebhookDelivery ---------------------------
(* Instances of WebhookDelivery for TLC: a delivery for each endpoint.        *)
EXTENDS WebhookDelivery

CONSTANTS w1, w2, d1, d2, e1, e2

MCTo == [d \in Delivery |-> IF d = d1 THEN e1 ELSE e2]
==============================================================================
