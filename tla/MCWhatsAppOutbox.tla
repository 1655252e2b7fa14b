-------------------------- MODULE MCWhatsAppOutbox --------------------------
(* One AI reply and one manual message, two workers.                        *)
EXTENDS WhatsAppOutbox, TLC

Workers == Permutations(Worker)

=============================================================================
