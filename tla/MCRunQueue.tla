------------------------------ MODULE MCRunQueue ------------------------------
(***************************************************************************)
(* Small queues for TLC.                                                   *)
(***************************************************************************)
EXTENDS RunQueue

OneGroup == [x \in 1..N |-> 0]
TwoGroups == [x \in 1..N |-> IF x <= 2 THEN 0 ELSE 1]
OneRep == [x \in 1..N |-> 1]
UnevenReps == [x \in 1..N |-> IF x = 1 THEN 2 ELSE 1]
UnevenPoints == [x \in 1..N |-> IF x = 2 THEN 2 ELSE 1]
OnePoint == [x \in 1..N |-> 1]
OwnBench == [x \in 1..N |-> x]
LastSharesFirstBench == [x \in 1..N |-> IF x = 3 THEN 1 ELSE x]
OneTree == [x \in 1..N |-> 1]
NeverTroubled == [x \in 1..N |-> 0]
TroubledAtTheEnds == [x \in 1..N |-> IF x = 2 THEN 0 ELSE 1]
OwnLog == [x \in 1..N |-> x]
==============================================================================
