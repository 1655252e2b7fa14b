---------------------------- MODULE MCLeadStore ----------------------------
(* One contact, with two messages of hers, one of ours and two handlers.     *)
EXTENDS LeadStore, TLC

Symmetry == Permutations(Handler) \cup Permutations(Inbound)
=============================================================================
