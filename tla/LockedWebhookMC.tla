--------------------------- MODULE LockedWebhookMC ---------------------------
(* The instances of WebhookMC with the lock's statements.                  *)
EXTENDS LockedWebhook, WebhookMC
=============================================================================
