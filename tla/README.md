# A verification project for miniosv_ctrl

TLA+ models of the control side of the miniOSv benchmarks: the detached queue that
runs experiments on rented machines and the commands around it, the sweep below it
that decides what to measure and keeps the results, the drivers of the six arms with
the guests they boot, the renting of machines on the spot market, the nginx some arms
dial, the native Linux client whose threads share one pool of blocks, and the shim that
times another client's requests. TLC checks the models on small instances; TLAPS proves
the invariants of eight of them, and one refinement, for every size.

Paths below are relative to `src/`.

## 1. The system

```
 just queue ──> runqueue.py submit ──spawns──> runqueue.py runner  (own session)
                     │ queue/<id>/state.json         │ one child per experiment,
                     │ queue/LATEST                  │ one log per experiment
 just queue-stop ────┴──SIGTERM──────────────────────┤
                                                     v
                                              experiment.py  ── one call per point
                                                     v
                                   bench.py / runner.py main ── the sweep, the CSV
                                                     v
                             run_once: build, launch, console, terminate
                                │                    │
                        aws-deploy.py          EC2 (spot requests, quota, images)
                                                     v
                              the client on the machine (main.rs, main.cpp, duckdb)
```

| component | state | operations | interacts by |
|---|---|---|---|
| queue runner (`scripts/bench/runqueue.py`, `Runner`) | `state.json`, `self.children`, `self.stopping`, the deadline, per-experiment status and attempts | `run_one`, `end_child`, `run_group`, `sweep`, `main` | child processes, signals, their logs, EC2 |
| queue control (same file) | `LATEST`, pid, state files | `submit`, `checks`, `running_queue`, `status`, `stop` | files and SIGTERM |
| spot market (`scripts/bench/runner.py` 123-295) | instances, spot requests, the vCPU quota | `launch`, `terminate`, `sweep_spot_requests` | EC2 |
| sweep driver (`runner.py` 467-715) | the plan, the frame, the CSV, the built configuration | `done`, `main` | the CSV, one `bench` object |
| experiment runner (`scripts/bench/experiment.py`) | none but its position in the points | `main`, `remote`, `local` | driver calls, exit codes |
| drivers (`scripts/bench/*/bench.py`) | image or instance of one run | `build`, `run_once`, `valid` | EC2, console |
| HTTP server (`httpserver.py`, `nginx-server.py`) | an object per process, a state file, an instance | `start`, `stop`, `atexit`, `verify_external` | EC2, the state file |
| instance scripts (`competitors/*/scripts/instance.py`) | the card, the queries run, a timer | tune, fetch, run, verdict, arm a shutdown | the serial console |
| Linux S3 client (`competitors/linux-s3/src/main.rs`) | `next_block`, `first_idle`, barriers, worker clocks, one outcome per connection | a thread per slot, `run_conn`, the verdict | sockets |
| AnyBlob client (`competitors/anyblob/src/main.cpp`) | submitted requests, call-back counters | submit, call back, wait, verdict | the library's threads |
| netphase (`competitors/duckdb-linux/netphase/netphase.c`) | one exchange per socket | wrapped `connect/send/recv/close` | interposition |
| bucket set-up (`scripts/bucket_policy.py`, shell) | the bucket policy | get, change, put | S3 |
| samplers, reports | the kernel's, none | sampling, figures | |

**What is hard.** The runner is concurrent: `run_one` threads, the main thread, a
signal handler, a deadline and children that die at any time share one
dictionary of children; what a child launched costs money until somebody takes
it down, and the only record of it is a printed line. The sweep can be killed
at any step and goes on from a CSV. The client's threads draw from one counter,
wait at barriers once and only once, and their clocks and flags decide which
seconds are reported. `PROJECT.json` lists every such point under `hazards`,
each at its line, with the property that watches it or the reason why none does.

**What makes each part correct.** Queue runner: nothing it started outlives it,
the sweep takes what is ours and nothing else, "done" means measured, arms
alternate, and a stop ends it. Sweep: every cell once, in order, with the knobs
its image was built with, across restarts. Client: every block once, no dial
before the barrier, a steady window that ends with the pool, a COMPLETE that is
one, a verdict in any case. Spot market: nothing runs that no request accounts for,
and a leaked request has a cause. netphase: every answered exchange
is booked once, inside the window. Queue control: one queue at a time, one runner in a
directory, and a stop that ends it. Drivers: a row is of the query, the image, the card and the
server it names, what is kept was judged good, and what a run leaves up was said. Guests: whatever
becomes of the driver, the machine goes away. Servers: each has an owner or is on record.

## 2. Modules

### RunQueue — `scripts/bench/runqueue.py`, class `Runner`

`main` is the program counter of the runner's main thread; `pc[x]` that of
`run_one(x)`, executed by the main thread in the sequential and interleaved
modes and by a thread per experiment in the concurrent one. `children`,
`stopping`, `verdict`, `status`, `attempts` are the code's; `expired` stands for
`now() >= deadline`. `at` is the position of `run_group`'s loops over groups,
reps and points.

| actions | code |
|---|---|
| `Call`, `Check`, `Spawn`, `Register`, `PollEnds`, `EndReturns`, `Reap`, `Retry` | `run_one` 271-324. Spawn and Register are two steps: a child exists before `self.children` knows it |
| `EndChild` (inside `PollEnds`) | `end_child` 326-357: interrupts `aws-deploy.py`, terminates the rest, empties the dictionary. The processes are listed once (337): a deploy its driver starts, in a session of its own, between the listing and its SIGTERM is in `escaped` |
| `Boot`, `Cell`, `StartThread`, `Join`, `RunNext`, `Result`, `NextCell`, `Plot`, `Plotted` | `main` 454-491 and `run_group` 405-451, in the code's loop order |
| `WrapUp`, `Ended`, `Close` | `main` 493-514 |
| `Sweep`, `SweepImages` | `sweep` 359-403: the listing may raise; `runner.terminate` hides EC2's refusal (`runner.py` 221) and the sweep goes on; then the images, until a call raises. `swept` says how far it came: no, failed, asked (the instances), ok |
| `Stop`, `Expire` | SIGTERM from `stop`, the clock |
| `ChildLaunch`, `ChildPrint`, `ChildTerminate`, `ChildExit`, `TeardownDone` | one run of a driver as the runner can tell: launched, id printed, taken down, gone with a reason. `TakeDown` is `runner.terminate`, which may be refused or without credentials |
| `StrayLaunch`, `StrayPrint` | an escaped deploy launches and prints like any other, before the sweep or after it; `adrift` remembers what it launched |
| `LoseCreds`, `ForeignLaunch` | the AWS session ends; another checkout's queue launches and registers an image |

A log is the ids it shows (`printed`) and the reasons its last 4000 characters
hold (`tail`): two of its attempts can be in there, as in the code. Two logs
with one stem are one log. `mode` is chosen in Init. `Bench` is the name `checks` compares, `Tree` the
tree a build of that bench writes: `smoltcp-s3` and `duckdb-tpch` are two benches that build in `miniosv/` and
boot its one `build/release.x64/loader.img`. `QueueAssumption` has what `checks` refuses, names and nothing else.

### BlockPool — `competitors/linux-s3/src/main.rs`

`next_block` is the shared counter, `pc[s]` where a slot's thread is (drawing,
before the barrier, waiting in it, its leader, fetching, out of blocks, owing
the barrier its arrival, lingering, done). `arrived[w]` is who reached the
worker's barrier, `started[w]` whether its clock was stored, `outcomes` what the
connections ended with: cleanly or not, and how many bytes off. `Judge` is the
end of `main`: joins, sums and the verdict, in stub mode too. `Stride`,
`Offset` and `LastByte` are the range arithmetic of `run_conn` with u64
overflow as `% Word`. TLS, HTTP parsing and the byte pump are inside `Fetch`.

### WorkPool — what the client promises

A block is left, out, clean or broken; `Take`, `Finish` and `Answer` are all that may
happen, and COMPLETE needs every block clean. `BlockPool` implements it under the mapping
`fate <- [b \in Blocks |-> Fate(b)]`, `answer <- verdict`: a block is out while a slot
holds it, and what its outcome says afterwards (`ImplementsWorkPool`). A slot that draws a
number past the last block, every barrier, clock and flag are stutters.

### Sweep — `scripts/bench/runner.py`, `scripts/bench/experiment.py`

`x` is the experiment: its driver calls (one per point, or per group of points
that differ in the axis only), the axis, the length of a query list, reps, order and
`keep_going`. `call` is the point the experiment is at, `pc`, `idx`, `built`,
`attempt`, `rows`, `df` the driver's. `file` is the CSV; `torn` says that it is
there and empty. `to_csv` is two actions: `Concat` opens, and thereby empties, the
file; `Write` flushes more of the frame each time until everything is out.
`Killed` takes both processes away at any step; `Start` begins again. A row is
its knobs, its rep, its query, whether it is valid (a free choice, the last row
decides about abandoning), and two histories: the image it ran on and the run
it came from. A line cut in the middle counts as not written. What the CSV does to a knob is
`lost` of the experiment: `done` compares what `read_csv` made of a column with what the driver parsed,
which differ for good when the texts of a `str` knob look like numbers (`--sweep sf=1,0.1` gives floats). Rows the
driver has read (up to `old` of its frame) are then never found, those it measured since are. A column that
mixes numbers and other texts comes back as text and is not such a case.

### SpotMarket — `scripts/bench/runner.py` 123-295

Several drivers rent on one account. `pc[d]` is where driver `d` is between two calls to
EC2: in `sweep_spot_requests` ("list", "look"), the loop over `zones`,
`run_instances`, on-demand, its run ("up"), `terminate` ("sirs", "drop"). `request` and
`instance` are EC2's, by launch: the request exists first (`Open`), is fulfilled later
(`Fulfil`), outlives its instance, and is closed by `cancel` or by a reclaim. `listed` and
`stale` are the lists the code keeps between its calls, which others' steps make stale.

| actions | code |
|---|---|
| `Launch`, `Refused`, `Open`, `Answer`, `NoZone`, `OnDemand` | `launch`; a launch may be refused in any zone, and is when `Limit` requests count |
| `List`, `Look`, `CancelStale` | `sweep_spot_requests`, each call with the exception it swallows |
| `Terminate`, `Sirs`, `Cancel` | `terminate`, likewise |
| `Killed` | a driver is killed anywhere; what it rented stays |
| `Fulfil`, `Reclaim`, `PowerOff` | EC2, and a machine's own ceiling, whether a driver watches it or not |

`Flaky` says which calls may fail. `excused` and `unseen` are histories.

### NetPhase — `competitors/duckdb-linux/netphase/netphase.c`

Threads (`pc`, `fd`, `t`) are inside one wrapper at a time, cut where another thread can
see the difference: `Stamp` | `OnSend` | `Send`, `Recv` | `OnRecv` | `Record`, `Shut` | `OnClose` |
`Close`. `slots`, `req`, `hs`, `t_first_send`, `t_last_recv`, `conns` are the library's. The world
keeps the truth: `owner` is the thread that holds a descriptor, which the kernel
hands out again once `Close` let go of it; `wire` what went over a connection last; `answered`
what the file should say. A socket is in one thread's hands at a time, as in the program that is
measured; a receive is one byte; a connection that cannot send is given up. `Exit` comes when no
thread is inside a wrapper, then `Fini` slot by slot and `Dump`.

### QueueControl — `scripts/bench/runqueue.py` 76-238, 517-577

Runs of `just queue` (`sub[s]`), of `just queue-stop` (`stp[t]`) and the runners they are
about, over the files between them: `dirs`, `file` (a state.json per queue: status and pid) and
`latest`. A queue's id is the second (`sec`) it was submitted in. `owner` is the process table, in
which pids are handed out again, to a runner or, with `Foreign`, to anybody.

| actions | code |
|---|---|
| `Preflight`, `Look`, `Ask` | `checks`: what `running_queue` reads, the pid it asks for, `our_instances`; each may refuse |
| `MkDir`, `WriteState`, `Truncate`, `WriteLatest`, `Spawn` | the rest of `submit`, in its order. `write_text` empties the file first |
| `TakeSignals`, `Begin`, `StartChild`, `ReapChild`, `EndPlan`, `Close`, `Exit` | the runner as its files and children show it; what it does in between is RunQueue |
| `ReadPid`, `Term`, `Wait` | `stop`. Pid `None` becomes 0, the process group of the stop itself |
| `GiveUp`, `Crash`, `Process`, `ChildLaunch`, `Taken`, `ChildExit`, `Tick` | shells that are closed, `kill -9`, other processes, children, the clock |

### LinuxGuest — `competitors/*/scripts/instance.py`, `instance_prelude.py`

One boot of a Linux arm: what the script does to the card (`nic`), which queries it runs
(`ran`), and what it says. `out` is what is printed before the script goes on; `Printed` puts one
line on the console `con`, which may double it or spoil it (`noise`, at most `cfg.noise` lines). A
line is its kind, its query, its turn and a value. The tune actions follow each script's own order
and mode (`TuneS3`, `TuneClient`, `TuneNic`), and a command whose failure the script ignores may
leave the card as it was. `hung` is a client that is waited for without a timeout. An exception anywhere in a script,
in the middle of a client's lines too, ends in its `finally`. `Finally` arms the shutdown,
`PowerOff` is its coming, `Reclaim` EC2's, `Panic` a machine that stops without a word.

### LinuxRun — `scripts/bench/{linux-s3,anyblob,linux-http,duckdb-linux}/bench.py`

`LinuxRun` extends `LinuxGuest` with the driver of that run. `Poll` reads the end of the console
(`Output`, the last `cfg.buf` lines, nothing once the machine is off), keeps the longer text as
`Longer` says, and leaves on a verdict; `Deadline`, `Interrupt` and `Killed` are the other ways out.
`Return` and `Unwind` are the `finally`: ask EC2 whether it took the machine, terminate, either may
fail unseen. `Heads`, `Parse`, `Finish` and `QueryRows` cut the text into rows as duckdb-linux does, echoes and
repeated queries included; `ClientRow` is the row of the other arms; `ValidDuckdb`, `ValidClient`,
`ValidAnyBlob`, `ValidWrk` are the four `valid`.

### HttpServer — `scripts/bench/httpserver.py`, `nginx-server.py`, `nginx-static/scripts/server.py`

The processes that hold an `HttpServer` object (`obj`) are the driver of a bench and any number of
`nginx-server.py` (`Clis`), which may overlap: `start` looks at the record minutes before it writes it,
`stop` a moment before it removes it, and nothing keeps two of them apart. `saw` is the id on record
when a process looked, `crossed` the history of servers whose record was undone or written over by a
process that had not seen it; two `write_text` at a time may leave a file that is not JSON, which `load` takes for none.
`box` is the machines, `new` an id EC2 gave out that is in no variable of the program yet,
`file` the record in `results/http/nginx-server.json`, `lost` the history of servers left by a process
that could not help it. `StartServer`, `TryZone`, `Note`, `Ready`, `NeverReady` are `start`;
`Terminate` with `Forget` is `stop`; `Quit` is an end that runs atexit, `Killed` one that does not.
`Look` is `load`; `CmdStart`, `Unregister`, `OpenRecord`, `WriteRecord`, `CmdStop`, `Unlink` are the two commands.

### MiniosvRun — `scripts/bench/{smoltcp-s3,duckdb-tpch}/bench.py`, and what dials a server

`MiniosvRun` extends `HttpServer` with a sweep that is built and run cell by cell: `Replace`,
`VerifyExternal`, `Bake`, `Make`, `BuildLinux` are the `build`s, `image` what lies in the working tree: knobs,
address and boot arguments, and whether this driver's last build wrote it (`ours`). Somebody else's `make` (`Remake`), in the
tree both unikernel arms share, replaces all of it at any time up to the upload: knobs and address are then another's
and the arguments gone. `BeginRun` to `Return` is `run_once`, in which duckdb-tpch writes its arguments again and
smoltcp-s3 nothing. `dep` is the deploy
it spawns, in a session of its own, with its instance (`vm`), its image (`ami`), its `log`; `boot` is a
history of what was booted, where. `rows` carry the columns the properties are about. In the two arms
that boot Linux a run is the one step `RunLinux`; LinuxRun has its inside.

### MC modules

One `MC` module per run family holds the values its configurations give
the constants. Operators commented *Faulty* are plausible mistakes kept beside
the definition they replace; each shows that a property can fail.

## 3. What the runs show

| run | instance | shows |
|---|---|---|
| `queue_groups` | 3 experiments in 2 groups, reps 2/1/1, points 1/2/2, all three modes, one tree for all, one with a deploy, one whose rows `done` does not recognise, 1 launch, at most 1 troubled attempt for the first and the last; fair threads; 863,616 states | `NothingOutlivesTheQueue`: once the runner leaves its plan no child lives, whichever thread `end_child` caught between start and registration. `SweepCollectsWhatWasPrinted`: after a sweep an instance whose id a log shows is up only if EC2 refused to terminate it or a deploy that `end_child` missed launched it. `OthersKeepTheirInstances`: no step takes another checkout's instance. `MembersAlternate`: a measured cell was preceded by every earlier cell of every member of its group that did not fail. `DoneMeansEverythingRan`. `OneBuildTreeEach`: two live children work in one tree only as two benches of one group of a concurrent queue. `StopEndsTheQueue` (liveness) |
| `pool_blocks` | 2 workers × 2 slots, 3 blocks of 4 bytes, object of 7, word 8, connections clean or reset | `EachBlockOnce`, `NoDialBeforeTheBarrier`, `WindowEndsWithThePool`, `CompleteMeansEveryBlock`, `RequestsInObject`, `AlwaysAVerdict` (liveness), `ImplementsWorkPool` (refinement) |
| `sweep_plans` | 2 points sharing an axis value, 2 values and 1; 5 experiments, one with a knob the CSV does not give back; 3 starts, 8 runs, 2 attempts; 362,986 states | `RecognisedCellsOnce` (`NoCellTwice` for the cells `done` can recognise), `OkMeansEveryCell`, `RowsMatchTheirImage`, under kills at every step |
| `spot_two_drivers` | 2 drivers, 2 zones, room for 1 request, 3 launches, every call may fail; 1.72 million states | `RunningIsOnRecord`: no instance runs whose request was cancelled, unless EC2 failed to terminate or describe it. `LeaksHaveACause`: a request that outlives its instance goes back to a killed driver or a failed call |
| `netphase_reuse` | 2 threads, 2 descriptors, 3 connections, 4 stamps | `ExchangesAddUp`: at exit the file has every answered send once, handshakes apart, with its bytes, whoever had the descriptor. `WindowHoldsEveryReceive`: no receive is stamped outside the window |
| `control_races` | 2 submits, 1 stop, 2 seconds, 2 pids that others get too | `OneQueueAtATime`: at most one runner is at work, unless a submit looked while another queue was being set up. `OneRunnerEach`: no two runners in a directory, whoever raced. `StopEndsTheRunner` (liveness): a runner that took the signal goes |
| `linux_runs` | 11 boots of the four arms, one spoiled line, 2 times, a console that keeps 3, 4 or all lines; 621,284 states | `RowsAreTheTurns`: with all lines heard, echoed or not, a row for each turn with its own time, answer and statistics. `ValidMeansTuned`: a kept row's card was as asked. `ValidMeansMeasured`: a kept row is of a run the guest judged good. `MachineGoesAway` (liveness) |
| `miniosv_sweeps` | 7 sweeps of one to three cells, 2 servers, 2 zones, up to 2 `nginx-server.py` at a time, 1 spoiled line, calls that fail, a make of somebody else; zones and those processes are symmetric; 1.87 million states | `ServersHaveAnOwner`: a server that runs is held or on record, unless its record went by an overlapping command. `RowsNameTheirServer`: a complete row came from the server and zone it names. `ValidIsOfItsCell`: a valid duckdb row is of the boot arguments and the query of its cell, whoever ran make; a valid row of either arm is of its knobs, unless somebody else's make wrote the image since the build. `NothingLeftUnsaid`: what a run leaves up was said |

**Bounds.** Three experiments in two groups are the least with a round that could overlap the next group's, and
the two of the first group have the races of the runner: between the thread that ends all children and one
that is starting its own. Uneven reps and points make every boundary of the loops occur. One launch is enough for
the sweep: each claim is about one instance, and every experiment may be the one that has it. `MaxTroubled`
bounds attempts that are refused or fail and `MaxLaunch` the instances of one queue;
the retry loop has no counter of its own that could behave differently later.
With four slots and three blocks some slot draws nothing and some slot may draw
all; block 1 wraps at the object's last start, block 2 (`2 * 4`) at the word. Three starts are one more than it takes to lose
rows, resume, and lose them again; eight runs cover the largest plan and what
is measured again. On the account one request is the limit so that a leak blocks the other driver's
every attempt, and a third launch sees both a leak and a live machine; two drivers are enough
for a sweep against a launch or a `terminate`. Two descriptors and three connections have one
reused by the thread that closed it and by the other; four stamps give each thread a send and
an answer. Two submits, a stop and a crash between them are the races of queue control, two seconds
tell a submit in the same second from one in the next, and two pids let one be handed out again while
the other runs. Two queries of a boot are the least with an order and a repetition; one spoiled line is
the least that doubles, merges or removes each kind of line, and a console of three or four lines loses
the head of a run. Two servers are the least with a wrong one to name, and two overlapping `nginx-server.py` the least that undo each other's
record; a sweep has as many as servers the operator may launch in it (`Operator`). A queue that is over stutters (`Over`), so TLC looks for deadlocks
there; an experiment that was started `MaxStarts` times does stop, as do a history of queues
and a sweep that are over, and their configurations say `CHECK_DEADLOCK FALSE`.

**Fairness.** `RunQueue`: weak fairness of the runner's threads and nothing else:
they are scheduled and their sleeps end. Children may run forever, AWS may never
answer, no deadline need come. `BlockPool`: weak fairness of every slot's thread and
of `main`; a connection ends because `SYN_TIMEOUT` and `STALL_TIMEOUT` bound each
of its waits. `QueueControl`: a runner that is asked to stop goes on; one that is not may be
in a child for ever, and submits and stops may be given up. `LinuxRun`: the guest's script runs while its machine does, a shutdown that was
armed comes, and the driver's loop has a deadline and its `finally` ends; that a driver
is killed, or a reclaim comes, is never assumed. The other modules claim no liveness.

### Where the code and what is said of it part

Each is a run that TLC ends with a counterexample.

| run | what happens |
|---|---|
| `pool_no_clock` | When the last slot to arrive at a barrier drew no block, it drops `is_leader` and nobody stores the worker's clock |
| `sweep_not_found` | With a fixed query list (`experiments/tpch/sf100-workers-http/miniosv.toml`) `done` compares each row's own query with the list, and in a sweep of texts that look like numbers (`--sweep sf=1,0.1`, `duckdb-tpch/bench.py` 7) floats with texts: every start measures everything again. Either alone ends the run |
| `queue_one_tree` | `smoltcp-s3` and `duckdb-tpch` in one group of a concurrent queue pass `checks`, which compares bench names, and are at work in one tree, though its help says "one miniOSv arm at most" (`runqueue.py` 587-588) |
| `linux_forgotten` | A driver that is killed while the guest's client never returns leaves the machine up: the timed shutdown that "backstops a forgotten run" is armed only behind the client |

What was seen beside these is in section 7.

## 4. What is proved

`RunQueueProofs`, `BlockPoolProofs`, `QueueControlProofs`, `SpotMarketProofs`, `SweepProofs`,
`NetPhaseProofs`, `LinuxRunProofs` (with the guest of `LinuxGuest`) and `MiniosvRunProofs` (with the servers
of `HttpServer`) prove, for every value of the constants allowed by the assumption of the module they
are about:

| theorem | says |
|---|---|
| `RunQueueProofs!TypeCorrect` | `Spec => []TypeOK` |
| `RunQueueProofs!QueueEndsItsChildren` | `[]NothingOutlivesTheQueue` |
| `RunQueueProofs!SweepCollects` | `[]SweepCollectsWhatWasPrinted` |
| `RunQueueProofs!BuildTreesAreExclusive` | `[]OneBuildTreeEach` |
| `RunQueueProofs!TheRuleIsEnough` | `RuleOfTheHelp` gives `[]OneArmPerTree`: what `checks` would have to refuse |
| `RunQueueProofs!OthersAreLeftAlone` | `OthersKeepTheirInstances`, an action property |
| `RunQueueProofs!PlanHolds` | `[]Plan`: what has run, by where the plan is |
| `RunQueueProofs!GroupsAlternate` | `[]MembersAlternate` |
| `RunQueueProofs!DoneIsDone` | `[]DoneMeansEverythingRan` |
| `BlockPoolProofs!TypeCorrect` | `[]TypeOK` |
| `BlockPoolProofs!BlocksAreHandedOutOnce` | `[]EachBlockOnce` |
| `BlockPoolProofs!DialsWaitForTheBarrier` | `[]NoDialBeforeTheBarrier` |
| `BlockPoolProofs!WindowIsSteady` | `[]WindowEndsWithThePool` |
| `BlockPoolProofs!RequestsStayInTheObject` | `[]RequestsInObject` |
| `BlockPoolProofs!CompleteIsComplete` | `[]CompleteMeansEveryBlock` |
| `BlockPoolProofs!BlockPoolImplementsWorkPool` | `Spec => ImplementsWorkPool`, the refinement |
| `QueueControlProofs!TypeCorrect` | `[]TypeOK` |
| `QueueControlProofs!NoSharedDirectory` | `[]OneRunnerEach` |
| `QueueControlProofs!QueuesAreAlone` | `[]OneQueueAtATime` |
| `SpotMarketProofs!TypeCorrect` | `[]TypeOK` |
| `SpotMarketProofs!NothingRunsUnrecorded` | `[]RunningIsOnRecord` |
| `SpotMarketProofs!EveryLeakHasACause` | `[]LeaksHaveACause` |
| `SweepProofs!TypeCorrect` | `[]TypeOK` |
| `SweepProofs!RowsAreOfTheirImage` | `[]RowsMatchTheirImage` |
| `SweepProofs!CellsAreMeasuredOnce` | `[]RecognisedCellsOnce` |
| `SweepProofs!OkIsEveryCell` | `[]OkMeansEveryCell` |
| `NetPhaseProofs!TypeCorrect` | `[]TypeOK` |
| `NetPhaseProofs!WindowHoldsReceives` | `[]WindowHoldsEveryReceive` |
| `NetPhaseProofs!BooksBalance` | `[]Booking`: what was answered is booked or owed |
| `NetPhaseProofs!ExchangesAreBooked` | `[]ExchangesAddUp` |
| `LinuxRunProofs!TypeCorrect` | `[]TypeOK` |
| `LinuxRunProofs!KeptIsTuned` | `[]ValidMeansTuned` |
| `LinuxRunProofs!KeptIsMeasured` | `[]ValidMeansMeasured` |
| `LinuxRunProofs!ConsoleIsInTurn` | `[]Story`: the console tells of the queries in their turn |
| `LinuxRunProofs!RowsAreOfTheTurns` | `[]RowsAreTheTurns` |
| `MiniosvRunProofs!TypeCorrect` | `[]TypeOK` |
| `MiniosvRunProofs!ServersAreOwned` | `[]ServersHaveAnOwner` |
| `MiniosvRunProofs!OneAtATimeIsEnough` | with one `nginx-server.py` at a time, `[](crossed = {} /\ ServersHaveAnOwner)` |
| `MiniosvRunProofs!RowsAreOfTheirServer` | `[]RowsNameTheirServer` |
| `MiniosvRunProofs!RowsAreOfTheirCell` | `[]ValidIsOfItsCell` |
| `MiniosvRunProofs!NothingIsLeft` | `[]NothingLeftUnsaid` |

**The runner's argument.** The claims speak of the end of a queue, so the invariant must
say why nothing is left on the way there. `Watched`: a live child is one whose
`run_one` has just started it, or polls it with the child in the dictionary. `MainAlone` and `OneCall`: while main is not in a round
no `run_one` is under way, and outside the concurrent mode there is at most
one. `OneRound`: threads under way belong to the round, and the round to one group. Hence
leaving the plan means every `run_one` returned, and by `Watched` no child is
alive. `Swept` adds that what a sweep left printed and up was refused or is adrift, and since no child
is left to print, nothing but an escaped deploy comes later. Two live children are of one concurrent round
(`LiveTogether`), hence of one group and, by `QueueAssumption`, of two benches; a group that keeps the rule of the help has
two trees. `Held`: the ids that are printed, held by a
child or torn down are ids this queue launched, so a sweep by printed ids is blind to
other checkouts.

**The argument of the runner's plan.** The cell at hand, `at`, divides the cells of a group. `Behind` and
`Ahead`: a member that has not failed ran every cell before it, nobody ran one after it, and no group that is to
come has run anything; `FailedIsOut`: who has failed is called no more. Within a cell, `RoundHasTheCell` and
`CalledHaveRun` say that the round is who has this cell and has not failed, and that whoever of it returned
well has run it. So two members differ by the cell at hand at most, and the end of the plan is behind every
cell. `PlotIsLast` keeps what a plotting pass overwrites of a status out of the verdict, and
`VerdictIsEarned` carries it through the sweep to the state file.

**The pool's argument.** `Drawn`: what is held or was fetched is below `next_block`, which
makes a fresh block differ from all of them, and so `EachBlockOnce` inductive. `Barrier`:
who is past the barrier saw it full and nobody leaves it. `IdleLast` and
`WindowEndsWithThePool`: a slot is out of blocks only after the counter passed the last one,
and no slot gets beyond that without the flag raised. `Judged`: when there is a
verdict all slots are done. `CompleteMeansEveryBlock` then needs counting: a verdict
of COMPLETE has as many clean outcomes as there are blocks, no two of
the same block, hence one of each.

**The pool's refinement.** A drawn number is a block nobody holds or has an outcome of, so a
`Claim` below `Total` is a `Take`; a `Fetch` adds the outcome of the very block its slot held,
so it is a `Finish`; main's verdict comes when every slot is done, and then `Accounted`, that a block
below the counter is held or has an outcome, leaves no block out. Every other step changes no block's fate (`SameFates`).

**The argument of queue control.** `Claims`: a directory is claimed by the submit whose `mkdir` made
it, until it spawns, and by that runner; `mkdir` fails on what is there, so there is one claim at most, and
a crashed runner's directory is not claimed again. `Alone`, which holds until a submit looks
too early: at most one submit is being set up, past its look no runner is at work, and what a
runner at work has saved is what `LATEST` leads to with its own pid; so the look of a later submit
finds it alive and refuses.

**The market's argument.** `Known` says what a driver may rely on after the call that told it: what
it will cancel as stale has ended, or EC2 would not say; what it drops is its own, ended likewise. Both
are for good (`Ended`), which is why a stale list does no harm. `Fulfilled` ties request and instance
together, so that a request nobody has an instance for is never on such a list. `Owned`: what
counts is some driver's or excused, and `drop` is reached with the request listed, gone, or excused.

**The sweep's argument.** `Imaged`: from a run's beginning the image is that of its cell, since `done`
is asked and the build comes before. `Once`: from the moment a cell is not found until its rows join the frame,
no row of the frame is of that cell, because one driver works on it and appends in one place. `Framed`: while
a driver decides, the file is the frame, and a write in progress has left a prefix of the frame, so no
cell is saved twice whenever the driver is killed. The claim is limited to a cell of one row or a sweep over queries, with knobs the CSV gives back (`Recognised`);
for a list of queries that is not the axis, and for a text that comes back a number, `sweep_not_found` shows that it fails.

What a sweep that ends well has measured is `Settled`, cell by cell behind the one at hand: its own row is in the frame, or an invalid row
that ended its call is (`Progress`). Rows only join the frame, and an unchanged experiment means the same cells
by its plan (`SameCells`), so what is settled stays so.

**The shim's argument.** `Holding`: who is inside a wrapper holds the descriptor, so nobody
else changes its slot, and a descriptor is only given away with its slot free. `Stamped`: a slot that
expects an answer had a send, and the first send's stamp was stored by then; a receive is stamped
after that look, hence later. `t_last_recv` only grows, so it stays at or after every stamp a slot has.

**The argument of its books.** When the file is written the sums agree; before that they differ by what is
under way, so `Balance` says by how much. A descriptor owes an exchange while its slot is receiving, or while
the call that received holds it between the kernel and `on_recv` (`Pending`), and it owes the bytes in
its slot and in that call. The numbers owed are summed over the descriptors as the cardinality of a set of
units, `f` once for each thing `f` owes, so that a step on one descriptor changes the sum by what it changes
of that descriptor (`OneMore`, `BalanceFrame`). `Agree` is why each step does: slot and
wire count the same exchanges and agree on what came last, unless a call is on its way from one to the other.
Then on_send, on_close and fini book what a closing slot owes (`Closing`), and `Ending`: at exit
nobody is in a call, and the file waits for the last slot.

**The argument of a Linux run.** What a line of the console says is so when it is said and stays so
(`CardShown`, `Judgement`, `AllRan`, `OneResult`): the card is set in one step, before it is shown, and never after; one verdict is given, behind
the last query; a client says one result. `DriverOK`: the driver's text has only lines that were said, however
many were lost or doubled. A row's card and verdict are taken from such lines by `First`, in a slice of the text
or in all of it (`RowOf`), and the slices are parts of the text because the heads, a set of positions put in
order, come out of it each once and ascending (`Ranked`, `Listed`). What the row claims was therefore
said, and so it is.

**The argument of its rows.** A line says of which turn it is, and `Story` that console, and whatever end of it the
driver read, are in the order of the turns (`Ordered`): a query's own line before what its profile says and
before the next query's, and equal to what the guest noted of that turn, echoed or not. Among the heads of such a text
the ones that `Heads` keeps are the first of each turn (`StartsClimb`): an echo says what its line said, and
neighbouring queries are told apart. Their turns therefore climb without a gap from 1, and a climb without a gap counts
(`Steady`), so the n-th head is the n-th query's (`HeadsAreTurns`) and all that is of a turn up to the next head is of the n-th
(`SliceOfTurn`). `parse` finds that query's time, answer and statistics or none there (`ParsedTurn`); `finish` leaves them, for
a sum counts all the queries and they are more than one; and the card is shown once, so what `wide` brings in is it.

**The argument of the servers.** `Held` says of each process, place by place, what it knows of a server:
between the launch and the end it has its id, and before the launch nothing. `RecordOK`: what a process saw on record when it decided to
replace or remove it has ended or is one of those counted as lost, and a server it did not see is `crossed` when its record goes.
Hence whatever else runs is held by its launcher or on record. With one process at a time what is on record is what it
saw (`Alone`), and nothing is crossed.

**The argument of a driver's run.** `Baked`: from a build to the next an image that nobody else made has the knobs of the built cell and the
address the driver had, for `Address` keeps that address while a built cell is measured; and a
duckdb image has the cell's arguments or none, whoever runs make meanwhile. `Booted`: what runs is what
was baked when the image was taken; `Heard`: what the console said is a prefix of the arguments that were
booted. Rows are made of these (`RowsOK`) and nothing changes a row. `Ending` follows the `finally`: the
driver knows an instance's id if a line said it, and has ended it, been refused, or
warned; the image is gone with its deploy, or warned of.

**The assumptions.** They bound nothing but the shape of the inputs: the settings of a guest are a
record of the fields the scripts read from CONFIG, a duckdb guest has queries and a tuned linux-s3 one a number of queues (its
driver always gives one); cells are sequences of numbers; `"none"`, which stands for Python's `None`, is not the name of
a zone, a thread or an experiment; bounds are natural numbers. They do not say how many there are of anything.

**Only model-checked:** the liveness properties, which need fairness and are out of the prover's reach. Every
safety property of a passing run, and the refinement, is a theorem.

## 5. What is not modelled

Figures, metrics and regular expressions (of a line only its kind and what the properties compare is
kept); TLS and HTTP inside a connection; the
samplers (their state is the kernel's); the AnyBlob client (its threads wait inside a library that is a
submodule and not in the repository; LinuxRun has it as a client that says its result or never returns); the
bucket set-up (run by hand once); reports; notifications. `main.rs`'s rates are left out except for
what decides their window. `experiment.py`'s remote and local runs, which are one process without state, and
`--only` are left out. A sweep that mixes points with and without a server of their own is
excluded from `MiniosvRun` (section 7). Inside `MiniosvRun` a run of `anyblob` or `linux-http` is one step.

## 6. What could follow

1. The byte pump of `main.rs` (`pump`, `count_body`): what is counted of a response and the time-outs
   inside a connection, as a refinement of `Fetch`.
2. RunQueue's cells composed with Sweep's, for `--only`; RunQueue as a refinement of the runner in
   QueueControl.

## 7. Seen and not made a run

Where a comment or a document promises something, its place is given.

*Queue.* A child that is ended between `run_instances` and the line with the id leaves its instance up,
since `sweep` knows ids from logs only (`README.md` 125-126 promises every instance launched since the
queue began). So does a deploy that its driver starts while `end_child` is killing it: it is in no list, and what it launches
is swept only if its line is in a log by then. An instance EC2 refuses to terminate stays up, and the event log
says "terminated" (385-386): `SweepCollectsWhatWasPrinted` names both. Credentials that end in the middle of a run leave its instance up
(`runqueue.py` 494-495 says that nothing is). The plotting pass of an interleaved queue drops
what `run_one` returns: when rows are not recognised it measures, and a stop there ends the queue
"done" with no sweep (480). A retry is decided on a log tail that an earlier attempt may have written
(313). In a concurrent round `end_child` of one thread ends the other thread's child, which that one may
take for a failure (304), and the last verdict of a round wins (436). A `run_one` that raises, as `save` or
`Popen` may, ends its thread only: the round counts it as failed (435), its status stays "running", so it is called again
in later rounds and the queue may end "done"; the model has no such exception, and in the other modes it is
QueueControl's `Crash` of the runner. Further, an interleaved queue that stops
leaves "done" on members whose last cell went through (503). `sweep` deregisters every `miniosv-*` image
created since the queue began, another checkout's included, whose instances it keeps (389-398).
A queue that is "starting" has no pid, so a stop signals its own process group (567); `stop` looks at the
pid and not at the status, so it signals whoever has the pid of a queue that is over.

*Sweep.* A driver killed while `to_csv` rewrites the file loses rows that were saved, or leaves an empty file
every later start fails on (`runner.py` 680: a partial sweep survives interruption). `--keep-going`'s help
says that an invalid run abandons the queue, but `experiment.py` sees exit code 0. `--only axis=value`
runs every point with that value (`experiment.py` 144).

*Market.* `terminate` cancels the request of an instance whose termination failed, which the order in its
docstring is to avoid, and a sweep cancels that of one it cannot describe: `RunningIsOnRecord` looks away
from both (`unseen`).

*Servers.* Two `nginx-server.py start` that overlap launch two servers and record the later one (37, 50), and a `stop` that
overlaps a `start` may remove its record (86): the other server bills with nobody to stop it until its own shutdown.
`ServersHaveAnOwner` names these as `crossed`. `nginx-server.py` 84 says that `terminate` waits for `terminated`, which it does not
(`runner.py` 241-243). A server started by hand "bills until you do", yet its own shutdown ends it after
two hours; one that printed SERVER FAILED never arms it (`server.py` 7-8). In a sweep that mixes points with
and without a server of their own, `self.server` stays set, and rows of the latter name the former's.

*Drivers.* An interrupted unikernel driver leaves its deploy running (a session of its own, and no
`finally`), and the queue's SIGTERM skips atexit. The smoltcp image is not rebuilt for a rep, so a make in
between, of either arm, is not noticed until the next build, and rows say the knobs and the server of an image they did not run;
`duckdb-tpch` writes its boot arguments again, but not what is compiled in: `workers`, `conns`, `tls` and the address
are then the other make's. `RowsNameTheirServer` and `ValidIsOfItsCell` excuse just those rows (`ours`). A second driver in
the same tree is such a make and also writes arguments of its own; that two do not work there at a time is
`OneArmPerTree`, which a concurrent queue breaks and `just bench` by hand never looks at. In
`duckdb-tpch` 459-460 the trailing SUMMARY is said to be left out of the rows, but it is in the last slice. Of a
list of two queries whose one line is lost a valid row remains, labelled with the whole list. A query that
is repeated with the same time and answer is taken for an echo.

*Client.* A worker's clock is stored after the barrier released everybody (`main.rs` 341-342). In stub mode the
byte check is over the sum of all connections, so one's framing can hide another's loss (838).
