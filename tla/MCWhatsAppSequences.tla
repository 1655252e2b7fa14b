------------------------ MODULE MCWhatsAppSequences ------------------------
(* A few enrollments of a sequence of two steps.                             *)
EXTENDS WhatsAppSequences, TLC

Actors == Permutations(Worker) \cup Permutations(Enrollment)

=============================================================================
