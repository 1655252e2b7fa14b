--------------------------- MODULE MCEmailChannel ---------------------------
(* One lead, two addresses, an inbound email and two mails sent.             *)
EXTENDS EmailChannel, TLC

Actors == Permutations(Server) \cup Permutations(Address)

=============================================================================
