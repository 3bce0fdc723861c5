------------------------------ MODULE LinuxRun ------------------------------
(***************************************************************************)
(* One run of a Linux arm: the driver's run_once (scripts/bench/           *)
(* linux-s3/bench.py, which anyblob and linux-http inherit, and            *)
(* duckdb-linux/bench.py) beside the guest it has just launched.           *)
(*                                                                         *)
(* All the driver sees is EC2's console output, the last of what the guest *)
(* said.  It reads it until a verdict is in it or its time is up, asks     *)
(* whether EC2 took the machine, terminates it, and cuts the text into     *)
(* rows, of which valid keeps some.                                        *)
(***************************************************************************)
EXTENDS LinuxGuest, FiniteSets

VARIABLES
    dpc,         \* where the driver is
    text,        \* the console as it last read it
    interrupted  \* EC2 said that it took the machine

driver == <<dpc, text, interrupted>>
vars == <<guest, driver>>

Init ==
    /\ GuestInit
    /\ dpc = "poll" /\ text = <<>> /\ interrupted = FALSE

Min2(a, b) == IF a < b THEN a ELSE b

\* The console output is the end of what was said, and nothing once the machine is off.
Output == IF vm = "up" THEN SubSeq(con, Len(con) - Min2(Len(con), cfg.buf) + 1, Len(con))
                       ELSE <<>>

Unprefixed(s) == Cardinality({i \in 1..Len(s) : s[i].k = "kernel"})

\* len(got) > len(text): duckdb-linux compares it to a text that lost cloud-init's prefix
\* from each line of the script.  A line and its prefix count the same here.
Longer(got) ==
    IF IsDuckdb THEN 2 * Len(got) > Len(text) + Unprefixed(text)
                ELSE Len(got) > Len(text)

Judged(s) == \E i \in 1..Len(s) : s[i].k \in Verdicts

\* Faulty: the loop reads on until its time is up.
PollOn ==
    /\ dpc = "poll"
    /\ text' = IF Longer(Output) THEN Output ELSE text
    /\ UNCHANGED <<dpc, interrupted, guest>>

\* The loop: read, keep the longer, and out on a verdict.
Poll ==
    /\ dpc = "poll"
    /\ text' = IF Longer(Output) THEN Output ELSE text
    /\ dpc' = IF Judged(text') THEN "finally" ELSE "poll"
    /\ UNCHANGED <<interrupted, guest>>

\* max_vm_seconds are over.
Deadline ==
    /\ dpc = "poll" /\ dpc' = "finally"
    /\ UNCHANGED <<text, interrupted, guest>>

\* An interrupt in the loop: the finally on the way out, and no rows.
Interrupt ==
    /\ dpc = "poll" /\ dpc' = "unwind" /\ text' = <<>>
    /\ UNCHANGED <<interrupted, guest>>

-----------------------------------------------------------------------------
(***************************************************************************)
(* The rows.                                                               *)
(***************************************************************************)

\* What parse finds first of some kinds.
First(s, K) ==
    LET found == {i \in 1..Len(s) : s[i].k \in K}
    IN IF found = {} THEN Line("nothing", 0, 0, None)
                     ELSE s[CHOOSE i \in found : \A j \in found : i <= j]
Has(s, k) == \E i \in 1..Len(s) : s[i].k = k

Complete == Has(text, "COMPLETE")

\* The same, byte for byte.
SameLine(a, b) == a.k = b.k /\ a.q = b.q /\ a.v = b.v

IsHead(l) == l.k \in {"ms", "fail"}

\* A set of positions, in order.
InOrder(S) ==
    [n \in 1..Cardinality(S) |-> CHOOSE i \in S : Cardinality({j \in S : j <= i}) = n]

HeadsAt(s) == {i \in 1..Len(s) : IsHead(s[i])}

\* Faulty: every line that looks like the start of a query is one.
HeadsWithEchoes(s) == InOrder(HeadsAt(s))

\* Where a query's block starts: its line, unless that says what the last one said.
Heads(s) ==
    LET raw == HeadsAt(s)
        previous(i) == {j \in raw : j < i /\ \A k \in raw : ~(j < k /\ k < i)}
    IN InOrder({i \in raw : \A j \in previous(i) : ~SameLine(s[i], s[j])})

\* parse of the metrics over a part of the text; 0 and None for what is not there.
Parse(s) ==
    LET ms == First(s, {"ms"})
        card == First(s, {"nic"})
        sum == First(s, {"summary"})
        judge == First(s, Verdicts)
    IN [q |-> 0, seq |-> 0, complete |-> Complete,
        ms |-> IF ms.k = "ms" THEN ms.v.ms ELSE 0,
        match |-> IF ms.k = "ms" THEN ms.v.match ELSE None,
        gro |-> IF card.k = "nic" THEN card.v.gro ELSE None,
        queues |-> IF card.k = "nic" THEN card.v.queues ELSE 0,
        nicfail |-> Has(s, "nicfail"),
        total |-> IF sum.k = "summary" THEN sum.v.total ELSE 0,
        summary |-> IF sum.k = "summary" THEN sum.v.ms ELSE 0,
        stats |-> First(s, {"stats"}).t,
        phase |-> First(s, {"phase"}).t,
        probefail |-> Has(s, "probefail"),
        probeok |-> IF judge.k \in Verdicts THEN judge.v ELSE 0]

\* finish: a single query's time is in the sum, if its own line did not make it.
Finish(r) == [r EXCEPT !.ms = IF @ = 0 /\ r.total = 1 THEN r.summary ELSE @]

\* Faulty: only what is said between a query's line and the next is known of it.
RowsOfSlices ==
    LET h == Heads(text)
        end(i) == IF i < Len(h) THEN h[i + 1] - 1 ELSE Len(text)
        part(i) == Parse(SubSeq(text, h[i], end(i)))
    IN IF Len(h) <= 1 THEN <<Finish(Parse(text))>>
       ELSE [i \in 1..Len(h) |-> Finish([part(i) EXCEPT !.q = text[h[i]].q, !.seq = i])]

\* The text cut at the heads, one row each, with what was said of the card before the
\* first; or one row for all of it.
QueryRows ==
    LET h == Heads(text)
        wide == Parse(text)
        end(i) == IF i < Len(h) THEN h[i + 1] - 1 ELSE Len(text)
        part(i) == Parse(SubSeq(text, h[i], end(i)))
    IN IF Len(h) <= 1 THEN <<Finish(wide)>>
       ELSE [i \in 1..Len(h) |->
                Finish([part(i) EXCEPT !.q = text[h[i]].q, !.seq = i,
                          !.gro = IF @ = None THEN wide.gro ELSE @,
                          !.queues = IF @ = 0 THEN wide.queues ELSE @,
                          !.nicfail = @ \/ wide.nicfail])]

\* The row of a throughput arm.
ClientRow ==
    [complete |-> Complete,
     clean |-> IF Has(text, "result") THEN IF First(text, {"result"}).v THEN "yes" ELSE "no"
               ELSE None,
     wire |-> Has(text, "wire"),
     budget |-> Has(text, "budget"),
     shaped |-> Cardinality({i \in 1..Len(text) : text[i].k = "shaped"})]

\* What run_once returns.
rows == IF dpc # "over" THEN <<>> ELSE IF IsDuckdb THEN QueryRows ELSE <<ClientRow>>

\* The finally: runner.interrupted, asked before our own terminate gives a reason of its
\* own, and runner.terminate; either may fail unseen.
EndMachine ==
    /\ interrupted' \in {reason = "spot", FALSE}
    /\ \/ vm' = "gone" /\ reason' = IF vm = "up" THEN "user" ELSE reason
       \/ UNCHANGED machine
    /\ UNCHANGED <<script, con, noise>>

Return ==
    /\ dpc = "finally" /\ dpc' = "over"
    /\ EndMachine
    /\ UNCHANGED text

Unwind ==
    /\ dpc = "unwind" /\ dpc' = "dead"
    /\ EndMachine
    /\ UNCHANGED text

\* Killed outright: no finally.
Killed ==
    /\ dpc \in {"poll", "finally", "unwind"} /\ dpc' = "dead" /\ text' = <<>>
    /\ UNCHANGED <<interrupted, guest>>

\* Bench.valid, which linux-s3 has and anyblob adds to; linux-http's; the ladder's steps.
ValidClient(r) == r.complete /\ r.clean = "yes"
ValidAnyBlob(r) == ValidClient(r)
ValidWrk(r) == r.complete /\ r.clean # "no"

\* Faulty: a tune that was not refused was made.
ValidUnlessRefused(r) ==
    /\ r.complete
    /\ IF cfg.probe THEN ~r.probefail /\ r.probeok = 9
       ELSE r.match # "no" /\ r.ms # 0 /\ ~r.nicfail

\* duckdb-linux's: the ladder's steps; or the answer, the time, and the card against what
\* was asked for.
ValidDuckdb(r) ==
    /\ r.complete
    /\ IF cfg.probe THEN ~r.probefail /\ r.probeok = 9
       ELSE /\ r.match # "no" /\ r.ms # 0
            /\ ~r.nicfail
            /\ cfg.gro # "" => r.gro = cfg.gro
            /\ cfg.queues > 0 => r.queues = cfg.queues

Valid(r) == CASE IsDuckdb -> ValidDuckdb(r)
              [] cfg.arm = "linux-http" -> ValidWrk(r)
              [] cfg.arm = "anyblob" -> ValidAnyBlob(r)
              [] cfg.arm = "linux-s3" -> ValidClient(r)

-----------------------------------------------------------------------------
GuestStep == (Script \/ PowerOff \/ Reclaim \/ Panic) /\ UNCHANGED driver

Driver == Poll \/ Deadline \/ Interrupt \/ Return \/ Unwind \/ Killed

\* The machine is up, and does nothing more of its own.
Stays == vm = "up" /\ pc \in {"hung", "dead"}
\* The driver is over, or dead, and the machine too or for ever.
Ended ==
    /\ dpc \in {"over", "dead"} /\ (vm = "gone" \/ Stays)
    /\ UNCHANGED vars

Next == GuestStep \/ Driver \/ Ended

Spec == Init /\ [][Next]_vars

\* The script runs while the machine does, a shutdown comes, and the driver's loop is timed.
FairSpec ==
    /\ Spec
    /\ WF_vars(Script /\ UNCHANGED driver) /\ WF_vars(PowerOff /\ UNCHANGED driver)
    /\ WF_vars(Deadline) /\ WF_vars(Return) /\ WF_vars(Unwind)

-----------------------------------------------------------------------------
TypeOK ==
    /\ cfg \in Configs
    /\ pc \in {"start", "tune", "fetch", "bench", "probe", "views", "answers", "query", "profile",
               "finally", "wait", "hung", "dead"}
    /\ turn \in Nat /\ Len(ran) \in {turn - 1, turn}
    /\ nic \in [gro : {"on", "off"}, queues : Channels]
    /\ verdict \in {None} \cup Verdicts
    /\ noise \in 0..cfg.noise /\ timer \in BOOLEAN
    /\ vm \in {"up", "gone"} /\ (vm = "up" <=> reason = None)
    /\ dpc \in {"poll", "finally", "unwind", "over", "dead"}
    /\ dpc = "poll" => ~Judged(text)
    /\ interrupted \in BOOLEAN /\ (interrupted => reason = "spot")

Kept == {i \in 1..Len(rows) : Valid(rows[i])}

\* The lines of two queries in a row that ran are told apart by what they say.
Distinct(i) == ran[i].q # ran[i + 1].q \/ ran[i].ms # ran[i + 1].ms
                 \/ ran[i].match # ran[i + 1].match
Heard == {text[i].t : i \in {j \in 1..Len(text) : IsHead(text[j])}}

Tuned == (cfg.gro # "" => nic.gro = cfg.gro) /\ (cfg.queues > 0 => nic.queues = cfg.queues)
ShownTuned == (cfg.gro # "" \/ cfg.queues > 0) =>
    \E i \in 1..Len(text) : text[i].k = "nic" /\ text[i].v = nic

\* A boot of several queries whose lines all reached the driver, echoed or not, gives a
\* row for each in its turn, with its own time, answer and statistics or none at all; and
\* they are kept if the guest called the run complete and showed its card to be as asked.
\* run_once cuts the text at the lines, tells an echo from a repeated query, and brings
\* what was said before the first into all of them.
RowsAreTheTurns ==
    IsDuckdb /\ rows # <<>> /\ ~cfg.probe /\ Len(ran) > 1
      /\ (\A i \in 1..Len(ran) - 1 : Distinct(i)) /\ Heard = 1..Len(ran)
    => /\ Len(rows) = Len(ran)
       /\ \A i \in 1..Len(ran) :
             /\ rows[i].q = ran[i].q /\ rows[i].seq = i
             /\ rows[i].ms = ran[i].ms /\ rows[i].match = ran[i].match
             /\ rows[i].stats \in {0, i} /\ rows[i].phase \in {0, i}
       /\ Complete /\ Tuned /\ ShownTuned /\ ~Has(text, "nicfail") => Kept = 1..Len(rows)

\* A row of a tuned DuckDB run is kept only if the card really was as asked, whatever
\* ethtool said or the console lost.
ValidMeansTuned == IsDuckdb /\ ~cfg.probe /\ Kept # {} => Tuned

\* A kept row is of a run the guest judged good, and its query's answer was not wrong: a
\* time that is recovered from the sum has no match of its own to show it.  wrk's errors
\* are only on the console.
ValidMeansMeasured ==
    \A i \in Kept :
      /\ verdict = "COMPLETE"
      /\ IsDuckdb /\ ~cfg.probe => AllSound /\ Len(ran) = Len(Queries)
      /\ cfg.arm \in {"linux-s3", "anyblob"} => Has(con, "result") /\ First(con, {"result"}).v

\* Whether somebody is left to end the machine: its driver, or the shutdown it arms.  A
\* driver that is killed, or whose terminate fails, leaves a client that never returns.
Forgotten == dpc \in {"dead", "over"} /\ Stays

\* Every machine is terminated, by the driver or by its own shutdown, but for one that was
\* forgotten before it could arm it.
MachineGoesAway == <>(vm = "gone" \/ Forgotten)

\* "a timed shutdown backstops a forgotten run" (competitors/anyblob/scripts/instance.py).
ShutdownBackstops == dpc = "dead" ~> vm = "gone"
=============================================================================
