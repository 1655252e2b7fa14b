--------------------------- MODULE MCWhatsAppQueue ---------------------------
(* Small sets of deliveries, workers and replay requests of one event.       *)
EXTENDS WhatsAppQueue, TLC

Actors == Permutations(Delivery) \cup Permutations(Worker) \cup Permutations(Request)

=============================================================================
