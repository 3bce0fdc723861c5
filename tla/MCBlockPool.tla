----------------------------- MODULE MCBlockPool -----------------------------
(***************************************************************************)
(* Small runs of the client for TLC.                                       *)
(***************************************************************************)
EXTENDS BlockPool

Ok == [clean |-> TRUE, off |-> 0]

\* Everything came, but the connection did not close.
Reset == [clean |-> FALSE, off |-> 0]

Served == {Ok}
ServedOrReset == {Ok, Reset}
==============================================================================
