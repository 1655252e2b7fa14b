--------------------------- MODULE MCContactPolicy ---------------------------
(* A customer, the tenant's operator, and two senders.                       *)
EXTENDS ContactPolicy, TLC

Symmetry == Permutations(Sender) \cup Permutations(MetaId)
=============================================================================
