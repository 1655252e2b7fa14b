------------------------ MODULE MCOperationalControls ------------------------
(* Three requests by two web requests at a time, and two senders.            *)
EXTENDS OperationalControls, TLC

Symmetry == Permutations(Request) \cup Permutations(Exec)
=============================================================================
