------------------------------ MODULE Workers ------------------------------
(* The RQ worker processes: whoever runs a job of the WhatsApp queue.        *)

CONSTANT Worker

=============================================================================
