------------------------- MODULE MCWebhookDelivery --------------------------
(***************************************************************************)
(* Model checking of WebhookDelivery, with a claim of the webhook document *)
(* that the code does not meet.                                            *)
(***************************************************************************)
EXTENDS WebhookDelivery

CONSTANTS s1, s2        \* streams, each with a webhook endpoint

(* webhook-delivery.md, open breaker: "New deliveries immediately fail and *)
(* move to DLQ".  What the outbox calls dead-lettered is in the dead-      *)
(* letter queue, where an operator can find it.                            *)
DeadLettersFound ==
    \A e \in DOMAIN outbox : outbox[e].status = "dlq" =>
        \E l \in DOMAIN dlq : deliveries[dlq[l].delivery].event = e
=============================================================================
