------------------------------ MODULE MCSweep --------------------------------
(***************************************************************************)
(* Small experiments for TLC: two points that share an axis value, the     *)
(* first with two values.                                                  *)
(***************************************************************************)
EXTENDS Sweep

Points == <<[held |-> "a", values |-> <<1, 2>>], [held |-> "b", values |-> <<1>>]>>

Small(axis, queries, reps, interleave, keep_going) ==
    [calls |-> Points, axis |-> axis, queries |-> queries, reps |-> reps,
     interleave |-> interleave, keep_going |-> keep_going, lost |-> FALSE]

\* The axis is a text that looks like a number, as sf is.
Lost(e) == [e EXCEPT !.lost = TRUE]

Plans ==
    {Small("knob", 1, 2, TRUE, TRUE), Small("knob", 1, 2, FALSE, FALSE),
     Small("instance", 1, 1, TRUE, FALSE), Small("query", 2, 1, FALSE, FALSE),
     Lost(Small("knob", 1, 1, FALSE, FALSE))}

\* What a resume does not recognise: a fixed list of two queries, as
\* experiments/tpch/sf100-workers-http has it, and a sweep over such a text.
NotFound == {Small("knob", 2, 1, FALSE, TRUE), Lost(Small("knob", 1, 1, FALSE, TRUE))}
==============================================================================
