--------------------------- MODULE MCReplyPipeline ---------------------------
(* One inbound message, two workers.                                         *)
EXTENDS ReplyPipeline, TLC

Workers == Permutations(Worker)

=============================================================================
