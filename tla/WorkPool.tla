------------------------------- MODULE WorkPool -------------------------------
(***************************************************************************)
(* What the Linux S3 client promises of its blocks (competitors/linux-s3/  *)
(* src/main.rs), without slots, barriers, counters and threads: each is    *)
(* given out once, comes back fetched cleanly or not, and the verdict is   *)
(* given when none is left or out, COMPLETE only if all came back clean.   *)
(* BlockPool implements it.                                                *)
(***************************************************************************)
EXTENDS Integers

CONSTANT Blocks

VARIABLES
    fate,     \* of each block
    answer    \* the verdict

Fates == {"left", "out", "clean", "broken"}

Init == fate = [b \in Blocks |-> "left"] /\ answer = "none"

\* A block goes out.
Take(b) == fate[b] = "left" /\ fate' = [fate EXCEPT ![b] = "out"] /\ UNCHANGED answer

\* It comes back.
Finish(b) ==
    /\ fate[b] = "out"
    /\ \E f \in {"clean", "broken"} : fate' = [fate EXCEPT ![b] = f]
    /\ UNCHANGED answer

\* All are back.  The client may know more against the run than its blocks.
Answer ==
    /\ answer = "none" /\ \A b \in Blocks : fate[b] \in {"clean", "broken"}
    /\ answer' \in {"INCOMPLETE"} \cup
                   (IF \A b \in Blocks : fate[b] = "clean" THEN {"COMPLETE"} ELSE {})
    /\ UNCHANGED fate

Next == (\E b \in Blocks : Take(b) \/ Finish(b)) \/ Answer

Spec == Init /\ [][Next]_<<fate, answer>>
=============================================================================
