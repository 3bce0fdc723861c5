----------------------------- MODULE LinuxGuest -----------------------------
(***************************************************************************)
(* The program a Linux arm boots: competitors/common/instance_prelude.py   *)
(* with the arm's scripts/instance.py behind it, run once by cloud-init.   *)
(*                                                                         *)
(* It tunes the network card, fetches its client from the bucket, runs it, *)
(* and says everything on the serial console, its only way out.  Its last  *)
(* act is to arm a shutdown, in case nobody comes for the results.  A line *)
(* of the console is [k, q, t, v]: its kind, the query and the turn it is  *)
(* about, and what it says.                                                *)
(***************************************************************************)
EXTENDS Integers, Sequences

CONSTANTS
    Configs,   \* what a driver may ask of a guest
    Ms,        \* query times, in units of what the console prints
    Panics     \* whether the machine may stop without a word

Channels == {1, 2}

\* The settings a script finds in CONFIG, and the console it talks to.
Config ==
    [arm : {"linux-s3", "anyblob", "linux-http", "duckdb"},
     mode : {"stock", "capped", "parity", "nogro", "nogro1500"},
     queries : Seq(Nat), http : {"", "log", "phase"}, probe : BOOLEAN, answers : BOOLEAN,
     gro : {"", "on", "off"}, queues : {0} \cup Channels,
     buf : Nat \ {0}, noise : Nat]

ASSUME LinuxGuestAssumption ==
    /\ Ms \subseteq Nat \ {0} /\ Panics \in BOOLEAN
    /\ Configs \subseteq Config
    /\ \A c \in Configs :
          /\ c.arm = "duckdb" => c.queries # <<>>
          /\ c.arm = "linux-s3" /\ c.mode # "stock" => c.queues # 0

VARIABLES
    cfg,       \* CONFIG; what the console keeps (buf), and how many lines it may spoil
    pc,        \* where the script is
    out,       \* what it says before it goes on
    turn,      \* the query it runs, of cfg.queries
    ran,       \* those it has run
    nic,       \* the network card: receive aggregation, queues
    verdict,   \* what it has printed of COMPLETE and INCOMPLETE
    con,       \* the serial console since the boot
    noise,     \* lines that did not reach it exactly once
    timer,     \* a shutdown is armed
    vm, reason \* the machine is up or gone, and why

script == <<cfg, pc, out, turn, ran, nic, verdict, timer>>
machine == <<vm, reason>>
guest == <<script, con, noise, machine>>

None == "none"
Line(k, q, t, v) == [k |-> k, q |-> q, t |-> t, v |-> v]
Kernel == Line("kernel", 0, 0, None)
Garbage == Line("garbage", 0, 0, None)
Verdict(v) == Line(v, 0, 0, 0)
Verdicts == {"COMPLETE", "INCOMPLETE"}

IsDuckdb == cfg.arm = "duckdb"

GuestInit ==
    /\ cfg \in Configs
    /\ pc = "start" /\ out = <<>> /\ turn = 1 /\ ran = <<>>
    /\ nic = [gro |-> "on", queues |-> 2]
    /\ verdict = None /\ con = <<Kernel>> /\ noise = 0
    /\ timer = FALSE /\ vm = "up" /\ reason = None

Goto(l) == pc' = l
Say(lines) == out' = lines
At(l) == vm = "up" /\ out = <<>> /\ pc = l

-----------------------------------------------------------------------------
\* say: a line to stdout and to /dev/console.  cloud-init passes stdout on to the console
\* too, so it may be there twice, and a kernel message may land on top of it.
Printed ==
    /\ vm = "up" /\ out # <<>>
    /\ LET l == Head(out) IN
       /\ \/ con' = Append(con, l) /\ UNCHANGED noise
          \/ /\ noise < cfg.noise /\ noise' = noise + 1
             /\ con' \in {con \o <<l, l>>, Append(con, Garbage)}
       /\ verdict' = IF l.k \in Verdicts THEN l.k ELSE verdict
    /\ out' = Tail(out)
    /\ UNCHANGED <<cfg, pc, turn, ran, nic, timer, machine>>

\* The order of the mains: linux-s3 and duckdb-linux tune before they fetch, the others
\* what they have fetched.
Start ==
    /\ At("start")
    /\ Goto(IF cfg.arm \in {"linux-s3", "duckdb"} THEN "tune" ELSE "fetch")
    /\ Say(<<Line("log", 0, 0, None)>>)
    /\ UNCHANGED <<cfg, turn, ran, nic, verdict, con, noise, timer, machine>>

\* An exception on the way: straight to main's finally, and no verdict.
Raise == Goto("finally") /\ UNCHANGED <<out, turn, ran, nic>>

\* run never raises: a command that fails leaves the card n as it is, and nobody knows.
GroOff(n) == {n, [n EXCEPT !.gro = "off"]}
CapCores(n) == {n, [n EXCEPT !.queues = cfg.queues]}
MatchSmoltcp(n) == GroOff(n)     \* the frame, the acknowledgements and the rest apart
MatchMininet(n) == GroOff(n)

\* linux-s3's MODE: what each removes of the card's features.
TuneS3 ==
    /\ At("tune") /\ cfg.arm = "linux-s3"
    /\ \E n \in IF cfg.mode = "stock" THEN {nic} ELSE CapCores(nic) :
          nic' \in CASE cfg.mode = "parity" -> MatchSmoltcp(n)
                     [] cfg.mode \in {"nogro", "nogro1500"} -> GroOff(n)
                     [] OTHER -> {n}
    /\ Goto("fetch")
    /\ UNCHANGED <<cfg, out, turn, ran, verdict, con, noise, timer, machine>>

\* anyblob's and linux-http's: a mode and a number of cores, apart from each other.
TuneClient ==
    /\ At("tune") /\ cfg.arm \in {"anyblob", "linux-http"}
    /\ \E n \in CASE cfg.mode = "parity" /\ cfg.arm = "linux-http" -> MatchMininet(nic)
                  [] cfg.mode = "nogro" -> GroOff(nic)
                  [] OTHER -> {nic} :
          nic' \in IF cfg.queues > 0 THEN CapCores(n) ELSE {n}
    /\ Goto("bench")
    /\ UNCHANGED <<cfg, out, turn, ran, verdict, con, noise, timer, machine>>

NicFailed == Line("nicfail", 0, 0, None)

\* tune_nic, of duckdb-linux: the settings asked for, a line for each that ethtool
\* refused, and what the card says it has now; a ? if it will not say.
TuneNic ==
    /\ At("tune") /\ IsDuckdb
    /\ \/ /\ cfg.gro = "" /\ cfg.queues = 0
          /\ Goto("fetch") /\ UNCHANGED <<out, turn, ran, nic>>
       \/ /\ cfg.gro # "" \/ cfg.queues > 0
          /\ \/ \* no interface, or no ethtool
                Goto("fetch") /\ Say(<<NicFailed>>) /\ UNCHANGED <<turn, ran, nic>>
             \/ \E g \in {"on", "off"}, refused \in {<<>>, <<NicFailed>>},
                   n \in Channels, said \in BOOLEAN :
                   /\ cfg.gro # "off" => g = nic.gro
                   /\ cfg.queues = 0 => n = nic.queues
                   /\ nic' = [gro |-> g, queues |-> n]
                   /\ Say(refused \o <<Line("nic", 0, 0,
                             IF said THEN nic' ELSE [gro |-> "?", queues |-> 0])>>)
                   /\ Goto("fetch") /\ UNCHANGED <<turn, ran>>
             \/ Raise      \* ethtool took its 30 s
    /\ UNCHANGED <<cfg, verdict, con, noise, timer, machine>>

\* A file of the bucket; one that cannot be had is a verdict.
Fetched(arm, next) ==
    /\ At("fetch") /\ cfg.arm = arm
    /\ \/ Goto(next) /\ UNCHANGED out
       \/ Goto("finally") /\ Say(<<Verdict("INCOMPLETE")>>)
    /\ UNCHANGED <<cfg, turn, ran, nic, verdict, con, noise, timer, machine>>

FetchBinary == Fetched("linux-s3", "bench")
FetchAnyBlob == Fetched("anyblob", "tune")
FetchWrk == Fetched("linux-http", "tune")
FetchDuckdb == Fetched("duckdb", IF cfg.probe THEN "probe" ELSE "views")

-----------------------------------------------------------------------------
(***************************************************************************)
(* The throughput arms: one client, and the counters around it.            *)
(***************************************************************************)

Result(clean) == Line("result", 0, 0, clean)
Wire == Line("wire", 0, 0, None)
Judge(good) == Verdict(IF good THEN "COMPLETE" ELSE "INCOMPLETE")

\* percpu and report_cpu_budget, report_cpu, and report_counters, which adds a line where
\* EC2 held packets back.
ReportBudget == <<Line("budget", 0, 0, None)>>
ReportCpu == <<Line("cpu", 0, 0, None)>>
ReportCounters(shaped) == IF shaped THEN <<Line("shaped", 0, 0, None)>> ELSE <<>>

\* A client's lines as it prints them: the verdict is not the last of them.
Client(good) == <<Result(good), Judge(good), Wire>>

\* linux-s3: the client may exit with no verdict, or never; or its bucket has no address.
RunBench ==
    /\ At("bench") /\ cfg.arm = "linux-s3"
    /\ \/ /\ \E printed \in {<<>>} \cup {Client(g) : g \in BOOLEAN}, shaped \in BOOLEAN :
                Say(printed \o ReportBudget \o ReportCpu \o ReportCounters(shaped))
          /\ Goto("finally")
       \/ Goto("hung") /\ UNCHANGED out
       \/ Goto("finally") /\ UNCHANGED out
    /\ UNCHANGED <<cfg, turn, ran, nic, verdict, con, noise, timer, machine>>

\* anyblob: the same, with the library's client.
RunAnyBlob ==
    /\ At("bench") /\ cfg.arm = "anyblob"
    /\ \/ /\ \E printed \in {<<>>} \cup {Client(g) : g \in BOOLEAN}, shaped \in BOOLEAN :
                Say(printed \o ReportBudget \o ReportCounters(shaped))
          /\ Goto("finally")
       \/ Goto("hung") /\ UNCHANGED out
       \/ Goto("finally") /\ UNCHANGED out
    /\ UNCHANGED <<cfg, turn, ran, nic, verdict, con, noise, timer, machine>>

\* linux-http's main: wrk under a timeout, its output printed when it is over, and a
\* verdict of the script's own, which wrk's errors do not change; or an exception before it,
\* wrk's lines printed or not.
RunWrk ==
    /\ At("bench") /\ cfg.arm = "linux-http"
    /\ \/ \E good, errors \in BOOLEAN :
             Say(ReportBudget \o <<Result(~errors), Wire, Judge(good)>>)
       \/ Say(<<Verdict("INCOMPLETE")>> \o ReportBudget)
       \/ \E errors \in BOOLEAN : Say(ReportBudget \o <<Result(~errors), Wire>>)
       \/ UNCHANGED out
    /\ Goto("finally")
    /\ UNCHANGED <<cfg, turn, ran, nic, verdict, con, noise, timer, machine>>

-----------------------------------------------------------------------------
(***************************************************************************)
(* The DuckDB arm: the CPU ladder, or the queries.                         *)
(***************************************************************************)

\* cpu_probe: a line for each step, the steps without a time, and a verdict that counts
\* them; all, or not.
CpuProbe ==
    /\ At("probe")
    /\ \/ /\ \E all \in BOOLEAN :
                Say((IF all THEN <<>> ELSE <<Line("probefail", 0, 0, None)>>)
                    \o <<Line(Judge(all).k, 0, 0, IF all THEN 9 ELSE 8)>>)
          /\ Goto("finally") /\ UNCHANGED <<turn, ran, nic>>
       \/ UNCHANGED out /\ Raise
    /\ UNCHANGED <<cfg, verdict, con, noise, timer, machine>>

\* setup_views, and then fetch_answers: queries of their own, which may fail.
SetupViews ==
    /\ At("views")
    /\ \/ Goto("answers") /\ UNCHANGED <<out, turn, ran, nic>>
       \/ Raise
    /\ UNCHANGED <<cfg, verdict, con, noise, timer, machine>>

FetchAnswers ==
    /\ At("answers")
    /\ \/ Goto("query") /\ UNCHANGED <<out, turn, ran, nic>>
       \/ Raise
    /\ UNCHANGED <<cfg, verdict, con, noise, timer, machine>>

Queries == cfg.queries
Profiled == cfg.http # ""

\* run_sql raises on an exit code or after 120 s: a query that failed.
Failed(q) == [q |-> q, ms |-> 0, match |-> None, sound |-> FALSE]

\* result_matches, where there is a canned answer; a query without rows is left unchecked.
Matches == IF cfg.answers THEN {"yes", "no", "unchecked"} ELSE {"unchecked"}

\* One query of main's loop: FAIL and on to the next; or its time, and how it compared.  One
\* left unchecked for want of rows still counts as checked, so it cannot be COMPLETE.
Query ==
    /\ At("query") /\ turn <= Len(Queries)
    /\ LET q == Queries[turn] IN
       \/ /\ ran' = Append(ran, Failed(q))
          /\ Say(<<Line("fail", q, turn, None)>>)
          /\ turn' = turn + 1 /\ Goto("query")
       \/ \E ms \in Ms, match \in Matches :
             /\ ran' = Append(ran, [q |-> q, ms |-> ms, match |-> match,
                                    sound |-> match = "yes" \/ ~cfg.answers])
             /\ Say(<<Line("ms", q, turn, [ms |-> ms, match |-> match])>>)
             /\ IF Profiled THEN Goto("profile") /\ UNCHANGED turn
                            ELSE Goto("query") /\ turn' = turn + 1
    /\ UNCHANGED <<cfg, nic, verdict, con, noise, timer, machine>>

Stats(k, failed, good) == Line(IF good THEN k ELSE failed, Queries[turn], turn, None)

\* What the shim wrote, as a line: netphase_report, or why it could not be read.
PhaseLine(good) == IF cfg.http = "phase" THEN <<Stats("phase", "phasefail", good)>> ELSE <<>>

\* http_profile: the query once more with its requests logged, and under run_sql_sampled
\* with netphase.so where that is asked for; a line of each, or what failed.
HttpProfile ==
    /\ At("profile")
    /\ \/ Say(<<Stats("stats", "statsfail", FALSE)>> \o PhaseLine(FALSE))    \* the pass itself
       \/ \E p, s \in BOOLEAN : Say(PhaseLine(p) \o <<Stats("stats", "statsfail", s)>>)
    /\ turn' = turn + 1 /\ Goto("query")
    /\ UNCHANGED <<cfg, ran, nic, verdict, con, noise, timer, machine>>

Total(s) ==
    LET upto[i \in 0..Len(s)] == IF i = 0 THEN 0 ELSE upto[i - 1] + s[i].ms
    IN upto[Len(s)]

AllSound == \A i \in 1..Len(ran) : ran[i].sound

\* Faulty: a wrong answer does not spoil the run.
SummaryOfTimes ==
    /\ At("query") /\ turn > Len(Queries)
    /\ Say(<<Line("summary", 0, 0, [total |-> Len(Queries), ms |-> Total(ran)]),
             Judge(\A i \in 1..Len(ran) : ran[i].ms > 0)>>)
    /\ Goto("finally")
    /\ UNCHANGED <<cfg, turn, ran, nic, verdict, con, noise, timer, machine>>

\* The end of main: the sum, and COMPLETE if every query ran and every answer matched.
Summary ==
    /\ At("query") /\ turn > Len(Queries)
    /\ Say(<<Line("summary", 0, 0, [total |-> Len(Queries), ms |-> Total(ran)]),
             Judge(AllSound)>>)
    /\ Goto("finally")
    /\ UNCHANGED <<cfg, turn, ran, nic, verdict, con, noise, timer, machine>>

-----------------------------------------------------------------------------
\* Faulty: the shutdown is for the runs that have results to keep.
FinallyIfJudged ==
    /\ At("finally")
    /\ timer' = (verdict # None) /\ Goto("wait")
    /\ UNCHANGED <<cfg, out, turn, ran, nic, verdict, con, noise, machine>>

\* main's finally: sync, and a shutdown in 15 minutes.
Finally ==
    /\ At("finally")
    /\ timer' = TRUE /\ Goto("wait")
    /\ UNCHANGED <<cfg, out, turn, ran, nic, verdict, con, noise, machine>>

\* The shutdown fires; the machine was launched to terminate on it.
PowerOff ==
    /\ vm = "up" /\ timer
    /\ vm' = "gone" /\ reason' = "shutdown"
    /\ UNCHANGED <<script, con, noise>>

\* EC2 takes a spot machine back.
Reclaim ==
    /\ vm = "up"
    /\ vm' = "gone" /\ reason' = "spot"
    /\ UNCHANGED <<script, con, noise>>

\* The kernel stops, or cloud-init never runs the script.
Panic ==
    /\ Panics /\ vm = "up" /\ pc \notin {"dead", "wait"}
    /\ Goto("dead") /\ out' = <<>>
    /\ UNCHANGED <<cfg, turn, ran, nic, verdict, con, noise, timer, machine>>

Script ==
    \/ Printed \/ Start \/ TuneS3 \/ TuneClient \/ TuneNic
    \/ FetchBinary \/ FetchAnyBlob \/ FetchWrk \/ FetchDuckdb
    \/ RunBench \/ RunAnyBlob \/ RunWrk
    \/ CpuProbe \/ SetupViews \/ FetchAnswers \/ Query \/ HttpProfile \/ Summary \/ Finally
=============================================================================
