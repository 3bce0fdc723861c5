---------------------------- MODULE MCMiniosvRun ----------------------------
(* A query and its rep, a list of two; a server of the sweep's own, or the operator's. *)
EXTENDS MiniosvRun, TLC

Sweep(arm, own, operator, cells) ==
    [arm |-> arm, own |-> own, operator |-> operator, cells |-> cells]

AllSweeps ==
    {Sweep("duckdb-tpch", FALSE, 0, <<<<6>>, <<6>>>>),
     Sweep("duckdb-tpch", FALSE, 0, <<<<1, 6>>, <<6>>>>),
     Sweep("smoltcp-s3", TRUE, 0, <<<<1>>, <<2>>>>),
     Sweep("smoltcp-s3", FALSE, 0, <<<<1>>, <<1>>>>),
     Sweep("smoltcp-s3", FALSE, 1, <<<<1>>>>),
     Sweep("anyblob", FALSE, 2, <<<<1>>, <<1>>>>),
     Sweep("linux-http", TRUE, 0, <<<<1>>, <<1>>, <<2>>>>)}

\* Neither the zones nor the operator's processes are told apart.
Alike == Permutations(Zones) \cup Permutations(Clis)
=============================================================================
