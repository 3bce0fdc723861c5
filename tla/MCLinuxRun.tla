----------------------------- MODULE MCLinuxRun -----------------------------
(* A card to tune, two queries, one of them twice, a profiled one; the throughput arms. *)
EXTENDS LinuxRun

Guest(arm, queries) ==
    [arm |-> arm, mode |-> "stock", queries |-> queries, http |-> "", gro |-> "", queues |-> 0,
     probe |-> FALSE, answers |-> FALSE, buf |-> 20,
     noise |-> 0]

Duckdb(queries) == Guest("duckdb", queries)

AllArms ==
    {[Duckdb(<<6>>) EXCEPT !.gro = "off", !.queues = 1, !.noise = 1],
     [Duckdb(<<6>>) EXCEPT !.answers = TRUE, !.noise = 1],
     [Duckdb(<<1, 6>>) EXCEPT !.gro = "off"],
     [Duckdb(<<1, 6>>) EXCEPT !.http = "log"],
     [Duckdb(<<6>>) EXCEPT !.http = "phase", !.buf = 4],
     [Duckdb(<<6>>) EXCEPT !.probe = TRUE],
     [Duckdb(<<1, 1>>) EXCEPT !.noise = 1],
     [Guest("linux-s3", <<>>) EXCEPT !.mode = "parity", !.queues = 1],
     [Guest("linux-s3", <<>>) EXCEPT !.mode = "nogro", !.queues = 1],
     [Guest("anyblob", <<>>) EXCEPT !.mode = "nogro", !.queues = 1, !.buf = 3, !.noise = 1],
     [Guest("linux-http", <<>>) EXCEPT !.mode = "parity", !.noise = 1]}

AnyBlob == {Guest("anyblob", <<>>)}
TwoTimes == {1, 2}
=============================================================================
