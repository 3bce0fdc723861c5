------------------------------ MODULE BlockPool ------------------------------
(***************************************************************************)
(* The Linux S3 client's block pool, competitors/linux-s3/src/main.rs.     *)
(*                                                                         *)
(* main spawns C threads ("slots") for each worker.  Every slot draws      *)
(* blocks from one shared counter until it is empty, and fetches each over *)
(* a connection of its own.  Before its first fetch a slot waits at its    *)
(* worker's barrier; the last to arrive, the leader, starts the worker's   *)
(* clock.  A slot that drew nothing still owes the barrier its arrival.    *)
(* When every slot is joined main gives the verdict.                       *)
(***************************************************************************)
EXTENDS Integers, FiniteSetsExt

CONSTANTS
    Workers,          \* 0 .. cfg.workers - 1
    Conns,            \* the C slots of a worker: 0 .. cfg.conns_per_worker - 1
    Total,            \* total_blocks = workers * blocks_per_worker
    BlockSize, ObjectSize,
    Word,             \* 2^64: block offsets are multiplied modulo it
    Stub,             \* BENCH_TLS_STUB: count ciphertext, not the body
    Ends              \* how a connection may end: closed cleanly or not, and with
                      \* how many bytes more (or, negative, fewer) than it asked for

ASSUME PoolAssumption ==
    /\ IsFiniteSet(Workers) /\ Workers # {}
    /\ IsFiniteSet(Conns) /\ Conns # {}
    /\ Total \in Nat \ {0}
    /\ BlockSize \in Nat \ {0} /\ ObjectSize \in Nat \ {0} /\ Word \in Nat \ {0}
    /\ Stub \in BOOLEAN
    /\ Ends \subseteq [clean : BOOLEAN, off : Int]

Slots == Workers \X Conns
SlotsOf(w) == {w} \X Conns
WorkerOf(s) == s[1]
Blocks == 0..(Total - 1)

VARIABLES
    next_block,   \* the pool
    first_idle,   \* it is set: a slot found the pool empty
    pc,           \* where a slot's thread is
    block,        \* the block it drew last
    drew,         \* ~outs.is_empty(): it has fetched a block
    arrived,      \* who has reached a worker's barrier
    started,      \* worker_start[w] # 0
    outcomes,     \* what the slots return: one record per connection
    verdict       \* "none", then "COMPLETE" or "INCOMPLETE"

vars == <<next_block, first_idle, pc, block, drew, arrived, started, outcomes, verdict>>

PcOf == {"claim", "barrier", "waiting", "leader", "fetch", "empty", "owes", "lingers", "done"}

Init ==
    /\ next_block = 0 /\ first_idle = FALSE
    /\ pc = [s \in Slots |-> "claim"] /\ block = [s \in Slots |-> 0]
    /\ drew = [s \in Slots |-> FALSE]
    /\ arrived = [w \in Workers |-> {}] /\ started = [w \in Workers |-> FALSE]
    /\ outcomes = {} /\ verdict = "none"

Goto(s, l) == pc' = [pc EXCEPT ![s] = l]

-----------------------------------------------------------------------------
\* Faulty: the counter is loaded and stored, and another slot comes in between.
ClaimRacy(s) ==
    /\ pc[s] = "claim"
    /\ \E seen \in {next_block, next_block - 1} \cap Nat :
          /\ next_block' = seen + 1
          /\ \/ seen >= Total /\ Goto(s, "empty") /\ UNCHANGED block
             \/ /\ seen < Total
                /\ block' = [block EXCEPT ![s] = seen]
                /\ Goto(s, IF drew[s] THEN "fetch" ELSE "barrier")
    /\ UNCHANGED <<first_idle, drew, arrived, started, outcomes, verdict>>

\* Faulty: the block after the last is handed out too.
ClaimOneTooMany(s) ==
    /\ pc[s] = "claim"
    /\ next_block' = next_block + 1
    /\ \/ next_block > Total /\ Goto(s, "empty") /\ UNCHANGED block
       \/ /\ next_block <= Total
          /\ block' = [block EXCEPT ![s] = next_block]
          /\ Goto(s, IF drew[s] THEN "fetch" ELSE "barrier")
    /\ UNCHANGED <<first_idle, drew, arrived, started, outcomes, verdict>>

\* pool.fetch_add(1): a block, or the news that there is none left.  A slot's first
\* block takes it to the barrier, a later one straight to its connection.
Claim(s) ==
    /\ pc[s] = "claim"
    /\ next_block' = next_block + 1
    /\ \/ next_block >= Total /\ Goto(s, "empty") /\ UNCHANGED block
       \/ /\ next_block < Total
          /\ block' = [block EXCEPT ![s] = next_block]
          /\ Goto(s, IF drew[s] THEN "fetch" ELSE "barrier")
    /\ UNCHANGED <<first_idle, drew, arrived, started, outcomes, verdict>>

\* Barrier::wait, the arrival.  The last of the worker's slots is the leader; only
\* a slot that holds a block does anything about it.
Arrive(s) ==
    LET w == WorkerOf(s) IN
    /\ pc[s] \in {"barrier", "owes"}
    /\ arrived' = [arrived EXCEPT ![w] = @ \cup {s}]
    /\ Goto(s, IF pc[s] = "owes" THEN "lingers"
               ELSE IF arrived'[w] = SlotsOf(w) THEN "leader" ELSE "waiting")
    /\ UNCHANGED <<next_block, first_idle, block, drew, started, outcomes, verdict>>

\* Faulty: the barrier is one short of the worker's slots.
ReleaseOneShort(s) ==
    LET w == WorkerOf(s) IN
    /\ pc[s] \in {"waiting", "lingers"}
    /\ Cardinality(arrived[w]) >= Cardinality(SlotsOf(w)) - 1
    /\ Goto(s, IF pc[s] = "waiting" THEN "fetch" ELSE "done")
    /\ UNCHANGED <<next_block, first_idle, block, drew, arrived, started, outcomes, verdict>>

\* Barrier::wait, the release: once all have arrived.
Release(s) ==
    /\ pc[s] \in {"waiting", "lingers"}
    /\ arrived[WorkerOf(s)] = SlotsOf(WorkerOf(s))
    /\ Goto(s, IF pc[s] = "waiting" THEN "fetch" ELSE "done")
    /\ UNCHANGED <<next_block, first_idle, block, drew, arrived, started, outcomes, verdict>>

\* The leader starts its worker's clock.
StartClock(s) ==
    /\ pc[s] = "leader"
    /\ started' = [started EXCEPT ![WorkerOf(s)] = TRUE]
    /\ Goto(s, "fetch")
    /\ UNCHANGED <<next_block, first_idle, block, drew, arrived, outcomes, verdict>>

\* One connection, from its dial to its close or its timeout.  One never established
\* is not clean and has no bytes.
Fetch(s) ==
    /\ pc[s] = "fetch"
    /\ \E e \in Ends : outcomes' = outcomes \cup {[slot |-> s, block |-> block[s], end |-> e]}
    /\ drew' = [drew EXCEPT ![s] = TRUE]
    /\ Goto(s, "claim")
    /\ UNCHANGED <<next_block, first_idle, block, arrived, started, verdict>>

\* Faulty: a slot that drew nothing leaves without arriving at the barrier.
FindEmptyLeaves(s) ==
    /\ pc[s] = "empty"
    /\ first_idle' = TRUE
    /\ Goto(s, "done")
    /\ UNCHANGED <<next_block, block, drew, arrived, started, outcomes, verdict>>

\* Faulty: only a slot that fetched something ends the steady window.
FindEmptyAfterWork(s) ==
    /\ pc[s] = "empty"
    /\ first_idle' = (first_idle \/ drew[s])
    /\ Goto(s, IF drew[s] THEN "done" ELSE "owes")
    /\ UNCHANGED <<next_block, block, drew, arrived, started, outcomes, verdict>>

\* The pool was empty: the first to say so ends the steady window.
FindEmpty(s) ==
    /\ pc[s] = "empty"
    /\ first_idle' = TRUE
    /\ Goto(s, IF drew[s] THEN "done" ELSE "owes")
    /\ UNCHANGED <<next_block, block, drew, arrived, started, outcomes, verdict>>

Slot(s) ==
    \/ Claim(s) \/ Arrive(s) \/ Release(s) \/ StartClock(s) \/ Fetch(s) \/ FindEmpty(s)

\* Faulty: the bytes alone decide.
JudgeByBytes ==
    LET off == MapThenSumSet(LAMBDA o : o.end.off, outcomes) IN
    /\ verdict = "none"
    /\ \A s \in Slots : pc[s] = "done"
    /\ verdict' = IF (IF Stub THEN off >= 0 ELSE off = 0) THEN "COMPLETE" ELSE "INCOMPLETE"
    /\ UNCHANGED <<next_block, first_idle, pc, block, drew, arrived, started, outcomes>>

\* main has joined every slot: all connections clean, as many as planned, and the
\* bytes as expected (at least as expected when ciphertext is counted).
Judge ==
    LET off == MapThenSumSet(LAMBDA o : o.end.off, outcomes)
        covered == Cardinality(outcomes) = Total
        ranges_ok == \A o \in outcomes : o.end.clean
        bytes_ok == IF Stub THEN off >= 0 ELSE off = 0
    IN
    /\ verdict = "none"
    /\ \A s \in Slots : pc[s] = "done"
    /\ verdict' = IF ranges_ok /\ covered /\ bytes_ok THEN "COMPLETE" ELSE "INCOMPLETE"
    /\ UNCHANGED <<next_block, first_idle, pc, block, drew, arrived, started, outcomes>>

\* The process has exited.
Exited == verdict # "none" /\ UNCHANGED vars

Next == (\E s \in Slots : Slot(s)) \/ Judge \/ Exited

Spec == Init /\ [][Next]_vars

\* Every thread runs, and every connection ends: SYN_TIMEOUT and STALL_TIMEOUT bound
\* each of its waits.
FairSpec == Spec /\ (\A s \in Slots : WF_vars(Slot(s))) /\ WF_vars(Judge)

-----------------------------------------------------------------------------
(***************************************************************************)
(* The range a block stands for.                                           *)
(***************************************************************************)

\* Faulty: blocks wrap at the object's end, not a block before it.
StrideWhole == ObjectSize

\* Where a block starts: wrapped within the object, u64 arithmetic.
Stride == (IF ObjectSize > BlockSize THEN ObjectSize - BlockSize ELSE 0) + 1

Offset(b) == ((b * BlockSize) % Word) % Stride

LastByte(b) == Offset(b) + BlockSize - 1

-----------------------------------------------------------------------------
\* Every variable has its type.
TypeOK ==
    /\ next_block \in Nat /\ first_idle \in BOOLEAN
    /\ pc \in [Slots -> PcOf] /\ block \in [Slots -> Blocks] /\ drew \in [Slots -> BOOLEAN]
    /\ arrived \in [Workers -> SUBSET Slots] /\ started \in [Workers -> BOOLEAN]
    /\ outcomes \subseteq [slot : Slots, block : Blocks, end : Ends]
    /\ verdict \in {"none", "COMPLETE", "INCOMPLETE"}

Holds(s) == pc[s] \in {"barrier", "waiting", "leader", "fetch"}

\* No block is fetched twice, nor fetched while another slot holds it: the pool
\* hands out every block once, whatever the order of the slots.
EachBlockOnce ==
    /\ \A s, t \in Slots : Holds(s) /\ Holds(t) /\ s # t => block[s] # block[t]
    /\ \A o \in outcomes, s \in Slots : Holds(s) => o.block # block[s]
    /\ \A o, p \in outcomes : o # p => o.block # p.block

\* No connection is dialled before every slot of its worker is set up and at the
\* barrier, first blocks and later ones alike (the barrier in run_conn).
NoDialBeforeTheBarrier ==
    /\ \A s \in Slots : pc[s] = "fetch" => arrived[WorkerOf(s)] = SlotsOf(WorkerOf(s))
    /\ \A o \in outcomes : arrived[WorkerOf(o.slot)] = SlotsOf(WorkerOf(o.slot))

\* The steady window ends when the first slot goes idle, neither sooner nor later:
\* once first_idle is set every block has been drawn, and until then every slot is
\* drawing, waiting with a block or fetching (wire_windows: "every slot busy").
WindowEndsWithThePool ==
    /\ first_idle => next_block > Total
    /\ ~first_idle => \A s \in Slots : pc[s] \notin {"owes", "lingers", "done"}

\* COMPLETE means that every block was fetched, by one connection that closed
\* cleanly (the verdict's three conditions together).
CompleteMeansEveryBlock ==
    verdict = "COMPLETE" =>
        \A b \in Blocks : \E o \in outcomes :
            o.block = b /\ o.end.clean /\ \A p \in outcomes : p.block = b => p = o

\* What has become of a block.
Fate(b) ==
    IF \E o \in outcomes : o.block = b
    THEN IF \A o \in outcomes : o.block = b => o.end.clean THEN "clean" ELSE "broken"
    ELSE IF \E s \in Slots : Holds(s) /\ block[s] = b THEN "out" ELSE "left"

Pool == INSTANCE WorkPool WITH fate <- [b \in Blocks |-> Fate(b)], answer <- verdict

\* The threads, their counter and their barriers do what WorkPool promises, step by step:
\* a block that is out comes back once and never goes out again, and the verdict waits for
\* all of them (main's joins).
ImplementsWorkPool == Pool!Spec

\* A range that is asked for lies in the object, when a block fits into it.
RequestsInObject ==
    BlockSize <= ObjectSize =>
        \A s \in Slots : Holds(s) => Offset(block[s]) \in Nat /\ LastByte(block[s]) < ObjectSize

\* Every run comes to a verdict: no slot waits at a barrier that will not fill, the
\* slots that never drew a block included.
AlwaysAVerdict == <>(verdict # "none")

\* main: full is "the last worker's clock start": when the run is over, the clock of
\* every worker that fetched anything was started.
EveryClockStarted ==
    verdict # "none" => \A o \in outcomes : started[WorkerOf(o.slot)]
=============================================================================
