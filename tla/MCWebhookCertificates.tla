----------------------- MODULE MCWebhookCertificates -----------------------
(* Instances of WebhookCertificates for TLC.                                *)
EXTENDS WebhookCertificates
=============================================================================
