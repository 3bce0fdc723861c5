--------------------------- MODULE MCQueueControl ---------------------------
(***************************************************************************)
(* Small histories of queues for TLC.                                      *)
(***************************************************************************)
EXTENDS QueueControl

TwoSeconds == 1..2
=============================================================================
