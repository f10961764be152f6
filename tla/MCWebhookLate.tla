--------------------------- MODULE MCWebhookLate ---------------------------
(* Small instances of WebhookLate.                                         *)
EXTENDS MCWebhook, WebhookLate
============================================================================
