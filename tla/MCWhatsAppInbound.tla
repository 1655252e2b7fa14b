-------------------------- MODULE MCWhatsAppInbound --------------------------
(* One inbound message, from its delivery to the end of its last run.        *)
EXTENDS WhatsAppInbound

=============================================================================
