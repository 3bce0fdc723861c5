------------------------------ MODULE RunQueue ------------------------------
(***************************************************************************)
(* The detached queue runner, class Runner of scripts/bench/runqueue.py.   *)
(*                                                                         *)
(* A queue is a list of experiments.  The runner starts one child process  *)
(* per experiment (experiment.py, below it the sweep driver, below that    *)
(* perhaps aws-deploy.py), retries it while spot is refused, ends every    *)
(* child when it is told to stop or its deadline passes, and then sweeps   *)
(* the instances its own runs printed.                                     *)
(*                                                                         *)
(* main is the runner's main thread.  pc[x] is where run_one(x) is: the    *)
(* main thread executes it in the sequential and interleaved modes, a      *)
(* thread of its own in the concurrent mode.  Experiments are named by     *)
(* their position in the queue, 1..N.                                      *)
(***************************************************************************)
EXTENDS Integers, FiniteSets

CONSTANTS
    N,            \* how many experiments are queued
    Group,        \* state["experiments"][x]["group"]
    Reps,         \* ... ["reps"]
    Points,       \* Len of ... ["values"]
    Bench,        \* the bench an experiment builds and runs
    Tree,         \* the tree that build writes: one for every miniOSv bench
    Log,          \* the experiment's log: the *stem* of its path
    Deploys,      \* the experiments whose driver runs aws-deploy.py
    Unrecognised, \* those whose rows done() does not match: measured again every time
    Modes,        \* among "sequential", "interleave" and "concurrent"
    MaxTroubled,  \* bound: attempts after which the environment is kind to an experiment
    MaxLaunch     \* bound: instances launched in one queue

X == 1..N

Members(g) == {x \in X : Group[x] = g}

ASSUME QueueAssumption ==
    /\ N \in Nat \ {0}
    /\ Group  \in [X -> Nat]
    /\ Reps   \in [X -> Nat \ {0}]
    /\ Points \in [X -> Nat \ {0}]
    /\ DOMAIN Bench = X /\ DOMAIN Tree = X /\ DOMAIN Log = X
    /\ Deploys \subseteq X /\ Unrecognised \subseteq X
    /\ Modes \subseteq {"sequential", "interleave", "concurrent"}
    /\ MaxTroubled \in [X -> Nat] /\ MaxLaunch \in Nat
    \* what checks() refuses to queue: two arms of a concurrent group on one bench
    /\ "concurrent" \in Modes =>
          \A x, y \in X : Group[x] = Group[y] /\ x # y => Bench[x] # Bench[y]

VARIABLES
    \* the runner
    mode,         \* state["interleave"] and state["concurrent"]
    main,         \* where the main thread is
    at,           \* run_group's loop: group g, rep k, point i
    due,          \* experiments of the current round not yet started
    round,        \* experiments of the current round (the list `due` of the code)
    pc,           \* where run_one is, per experiment
    ret,          \* what it returned
    status,       \* x["status"]
    attempts,     \* x["attempts"]
    children,     \* self.children
    verdict,      \* the queue's verdict
    stopping,     \* self.stopping
    expired,      \* now() >= deadline
    swept,        \* how far sweep() came: "no", "failed", "asked" (the instances), "ok"
    ran,          \* history: the (rep, point) cells a child finished with 0
    \* its environment
    proc,         \* the child process of an experiment
    cur,          \* the instance it launched last
    tail,         \* what the last 4000 characters of a log say
    teardown,     \* aws-deploy.py processes taking their instance down
    escaped,      \* aws-deploy.py processes that end_child did not list
    up,           \* EC2 instances of ours, pending or running
    printed,      \* instance ids some log shows
    images,       \* miniosv-* images created since the queue began
    next,         \* the next instance id
    creds,        \* AWS accepts our credentials
    adrift,       \* history: the ids that escaped deploys launched
    refused       \* history: the ids EC2 refused to terminate for the sweep

runner == <<mode, main, at, due, round, pc, ret, status, attempts, children, verdict,
            stopping, expired, swept, ran>>
world == <<proc, cur, tail, teardown, escaped, up, printed, images, next, creds, adrift,
           refused>>
vars == <<runner, world>>

Foreign == 0      \* an instance (and an image) of another checkout, same account
Id == 1..MaxLaunch
Logs == {Log[x] : x \in X}

Live == {"build", "up", "shown"}                  \* child.poll() is None
Exits == {"ok", "refused", "failed", "creds"}     \* what the child printed last
Ending == {"expired", "stopped", "credentials"}
PcOf == {"idle", "top", "go", "spawned", "poll", "ending", "retry", "returned"}
MainOf == {"boot", "cell", "run", "wait", "start", "join", "plot", "plotwait",
           "wrapup", "ending", "sweep", "images", "close", "over"}
StatusOf == {"queued", "running", "waiting for spot", "done", "failed",
             "credentials expired"} \cup Ending
Cells(x) == (1..Reps[x]) \X (0..(Points[x] - 1))

Init ==
    /\ mode \in Modes
    /\ main = "boot" /\ at = [g |-> 0, k |-> 1, i |-> 0]
    /\ due = {} /\ round = {}
    /\ pc = [x \in X |-> "idle"] /\ ret = [x \in X |-> "none"]
    /\ status = [x \in X |-> "queued"] /\ attempts = [x \in X |-> 0]
    /\ children = {} /\ verdict = "done"
    /\ stopping = FALSE /\ expired = FALSE /\ swept = "no"
    /\ ran = [x \in X |-> {}]
    /\ proc = [x \in X |-> "none"] /\ cur = [x \in X |-> Foreign]
    /\ tail = [l \in Logs |-> {}]
    /\ teardown = {} /\ escaped = {} /\ adrift = {} /\ refused = {} /\ up = {} /\ printed = {} /\ images = {}
    /\ next = 1 /\ creds = TRUE

-----------------------------------------------------------------------------
(***************************************************************************)
(* run_one: one experiment, retried while spot is refused.                 *)
(***************************************************************************)

Return(x, v) ==
    /\ pc' = [pc EXCEPT ![x] = "returned"]
    /\ ret' = [ret EXCEPT ![x] = v]

\* The head of the retry loop: stopping first, then the deadline.
Check(x) ==
    /\ pc[x] = "top"
    /\ \/ stopping /\ Return(x, "stopped")
       \/ ~stopping /\ expired /\ Return(x, "expired")
       \/ ~stopping /\ ~expired /\ pc' = [pc EXCEPT ![x] = "go"] /\ UNCHANGED ret
    /\ UNCHANGED <<mode, main, at, due, round, status, attempts, children, verdict,
                   stopping, expired, swept, ran, world>>

\* The attempt is counted and saved, and the child started in its own session.
Spawn(x) ==
    /\ pc[x] = "go"
    /\ attempts' = [attempts EXCEPT ![x] = @ + 1]
    /\ status' = [status EXCEPT ![x] = "running"]
    /\ proc' = [proc EXCEPT ![x] = "build"]
    /\ pc' = [pc EXCEPT ![x] = "spawned"]
    /\ UNCHANGED <<mode, main, at, due, round, ret, children, verdict, stopping, expired,
                   swept, ran, cur, tail, teardown, escaped, up, printed, images, next, creds,
                   adrift, refused>>

\* Only now is the child in self.children, where end_child looks for it.
Register(x) ==
    /\ pc[x] = "spawned"
    /\ children' = children \cup {x}
    /\ pc' = [pc EXCEPT ![x] = "poll"]
    /\ UNCHANGED <<mode, main, at, due, round, ret, status, attempts, verdict, stopping,
                   expired, swept, ran, world>>

\* Whether the child of x has anything left to measure: the plotting pass finds
\* every row in the CSV, unless the experiment's rows are not recognised: a fixed
\* query list ("9 13") never equals the query of the rows it produced.
Measures(x) == main # "plotwait" \/ x \in Unrecognised

\* Faulty: the dictionary is cleared before its values are listed.
EndChildClearsFirst == children' = {} /\ UNCHANGED <<proc, teardown, escaped>>

\* end_child: every child in flight, whichever thread asks.  Deploys get SIGINT
\* and tear down what they launched, everything else SIGTERM and dies at once.
\* The processes are listed once: a deploy that a driver starts, in a session of
\* its own, between the listing and its own SIGTERM is signalled by nobody.
EndChild ==
    LET live == {x \in children : proc[x] \in Live} IN
    /\ children' = {}
    /\ proc' = [x \in X |-> IF x \in live THEN "killed" ELSE proc[x]]
    /\ teardown' = teardown \cup {x \in live \cap Deploys : proc[x] \in {"up", "shown"}}
    /\ \E missed \in SUBSET {x \in live \cap Deploys : proc[x] = "build" /\ Measures(x)} :
          escaped' = escaped \cup missed

\* Faulty: the poll loop looks at the stop flag only.
PollIgnoresDeadline(x) ==
    /\ pc[x] = "poll" /\ proc[x] \in Live
    /\ stopping
    /\ EndChild
    /\ pc' = [pc EXCEPT ![x] = "ending"]
    /\ UNCHANGED <<mode, main, at, due, round, ret, status, attempts, verdict, stopping,
                   expired, swept, ran, cur, tail, up, printed, images, next, creds, adrift,
                   refused>>

\* The poll loop finds the child alive and the queue stopping or past its deadline.
PollEnds(x) ==
    /\ pc[x] = "poll" /\ proc[x] \in Live
    /\ stopping \/ expired
    /\ EndChild
    /\ pc' = [pc EXCEPT ![x] = "ending"]
    /\ UNCHANGED <<mode, main, at, due, round, ret, status, attempts, verdict, stopping,
                   expired, swept, ran, cur, tail, up, printed, images, next, creds, adrift,
                   refused>>

\* end_child's wait is over: the deploys are gone, or 90 seconds have passed.
EndReturns(x) ==
    /\ pc[x] = "ending"
    /\ Return(x, IF stopping THEN "stopped" ELSE "expired")
    /\ UNCHANGED <<mode, main, at, due, round, status, attempts, children, verdict,
                   stopping, expired, swept, ran, world>>

\* What the child of x was asked for: one cell, or the experiment.
Asked(x) == IF main \in {"start", "join"} \/ (main = "wait" /\ mode # "sequential")
            THEN {<<at.k, at.i>>} ELSE Cells(x)

\* The child has exited: its return code, then the log's tail, give the verdict.
Reap(x) ==
    /\ pc[x] = "poll" /\ proc[x] \notin Live
    /\ children' = children \ {x}
    /\ \/ /\ proc[x] = "ok"
          /\ status' = [status EXCEPT ![x] = "done"]
          /\ ran' = [ran EXCEPT ![x] = @ \cup Asked(x)]
          /\ Return(x, "done")
       \/ /\ proc[x] # "ok" /\ "creds" \in tail[Log[x]]
          /\ status' = [status EXCEPT ![x] = "credentials expired"]
          /\ Return(x, "credentials")
          /\ UNCHANGED ran
       \/ /\ proc[x] # "ok" /\ "creds" \notin tail[Log[x]] /\ "refused" \in tail[Log[x]]
          /\ status' = [status EXCEPT ![x] = "waiting for spot"]
          /\ pc' = [pc EXCEPT ![x] = "retry"]
          /\ UNCHANGED <<ret, ran>>
       \/ /\ proc[x] # "ok" /\ tail[Log[x]] = {}
          /\ status' = [status EXCEPT ![x] = "failed"]
          /\ Return(x, "failed")
          /\ UNCHANGED ran
    /\ UNCHANGED <<mode, main, at, due, round, attempts, verdict, stopping, expired,
                   swept, world>>

\* retry_wait_s, or what is left of the ttl, has passed, or the queue is stopping.
Retry(x) ==
    /\ pc[x] = "retry"
    /\ pc' = [pc EXCEPT ![x] = "top"]
    /\ UNCHANGED <<mode, main, at, due, round, ret, status, attempts, children, verdict,
                   stopping, expired, swept, ran, world>>

RunOne(x) ==
    \/ Check(x) \/ Spawn(x) \/ Register(x) \/ PollEnds(x)
    \/ EndReturns(x) \/ Reap(x) \/ Retry(x)

-----------------------------------------------------------------------------
(***************************************************************************)
(* main and run_group: which experiment runs when.                         *)
(***************************************************************************)

First(x, S) == x \in S /\ \A y \in S : x <= y
Last(x, S) == x \in S /\ \A y \in S : y <= x

Call(x) == pc' = [pc EXCEPT ![x] = "top"]
Idle(S) == pc' = [x \in X |-> IF x \in S THEN "idle" ELSE pc[x]]

Boot ==
    /\ main = "boot"
    /\ \/ mode = "sequential" /\ main' = "run" /\ due' = X
       \/ mode # "sequential" /\ main' = "cell" /\ UNCHANGED due
    /\ UNCHANGED <<mode, at, round, pc, ret, status, attempts, children, verdict, stopping,
                   expired, swept, ran, world>>

\* Faulty: every rep of a point before the next point.
NextCellRepFirst ==
    LET m == Members(at.g) IN
    IF \E x \in m : at.k + 1 <= Reps[x] THEN [at EXCEPT !.k = @ + 1]
    ELSE IF \E x \in m : at.i + 1 < Points[x] THEN [g |-> at.g, k |-> 1, i |-> at.i + 1]
    ELSE [g |-> at.g + 1, k |-> 1, i |-> 0]

\* Faulty: the points of the shortest member only.
NextCellShortest ==
    LET m == Members(at.g) IN
    IF m # {} /\ \A x \in m : at.i + 1 < Points[x] THEN [at EXCEPT !.i = @ + 1]
    ELSE IF \E x \in m : at.k + 1 <= Reps[x] THEN [g |-> at.g, k |-> at.k + 1, i |-> 0]
    ELSE [g |-> at.g + 1, k |-> 1, i |-> 0]

\* run_group's loops: point-major inside a rep, rep-major inside a group.
NextCell ==
    LET m == Members(at.g) IN
    IF \E x \in m : at.i + 1 < Points[x] THEN [at EXCEPT !.i = @ + 1]
    ELSE IF \E x \in m : at.k + 1 <= Reps[x] THEN [g |-> at.g, k |-> at.k + 1, i |-> 0]
    ELSE [g |-> at.g + 1, k |-> 1, i |-> 0]

\* Faulty: positions counted from zero.
DueFromZero == {x - 1 : x \in {y \in Members(at.g) : status[y] # "failed"}}

\* Who takes part in a round: members that have not failed and have this cell.
Due == {x \in Members(at.g) : status[x] # "failed" /\ at.k <= Reps[x] /\ at.i < Points[x]}

\* The head of the innermost loop, and past the last group the plotting pass.
Cell ==
    /\ main = "cell"
    /\ \/ /\ \A x \in X : Group[x] < at.g
          /\ main' = "plot" /\ due' = X
          /\ UNCHANGED <<at, round>>
       \/ /\ \E x \in X : Group[x] >= at.g
          /\ Due = {}
          /\ at' = NextCell
          /\ UNCHANGED <<main, due, round>>
       \/ /\ Due # {}
          /\ due' = Due /\ round' = Due
          /\ main' = IF mode = "concurrent" THEN "start" ELSE "run"
          /\ UNCHANGED at
    /\ UNCHANGED <<mode, pc, ret, status, attempts, children, verdict, stopping,
                   expired, swept, ran, world>>

\* One after another, in queue order, on the main thread.
RunNext ==
    /\ main = "run"
    /\ \/ \E x \in X : First(x, due) /\ Call(x) /\ due' = due \ {x} /\ main' = "wait"
                       /\ UNCHANGED at
       \/ /\ due = {} /\ mode = "sequential" /\ main' = "wrapup"
          /\ UNCHANGED <<due, at, pc>>
       \/ /\ due = {} /\ mode # "sequential" /\ main' = "cell" /\ at' = NextCell
          /\ UNCHANGED <<due, pc>>
    /\ UNCHANGED <<mode, round, ret, status, attempts, children, verdict, stopping,
                   expired, swept, ran, world>>

\* run_one has returned: an ending verdict leaves the loops, a failure does not.
Result ==
    /\ main = "wait"
    /\ \E x \in X :
          /\ pc[x] = "returned"
          /\ Idle({x})
          /\ \/ ret[x] \in Ending /\ verdict' = ret[x] /\ main' = "wrapup"
             \/ ret[x] \notin Ending /\ main' = "run" /\ UNCHANGED verdict
    /\ UNCHANGED <<mode, at, due, round, ret, status, attempts, children, stopping,
                   expired, swept, ran, world>>

\* --concurrent: a thread for every member of the round, staggered, then join.
StartThread ==
    /\ main = "start"
    /\ \/ \E x \in X : First(x, due) /\ Call(x) /\ due' = due \ {x} /\ UNCHANGED main
       \/ due = {} /\ main' = "join" /\ UNCHANGED <<due, pc>>
    /\ UNCHANGED <<mode, at, round, ret, status, attempts, children, verdict, stopping,
                   expired, swept, ran, world>>

\* Faulty: the threads of a round are not waited for.
JoinDoesNotWait ==
    /\ main = "join"
    /\ main' = (IF stopping \/ expired THEN "wrapup" ELSE "cell")
    /\ verdict' = (IF stopping THEN "stopped" ELSE IF expired THEN "expired" ELSE verdict)
    /\ at' = NextCell
    /\ UNCHANGED <<mode, due, round, pc, ret, status, attempts, children, stopping, expired,
                   swept, ran, world>>

\* The verdict of a round is the last ending one in queue order.
Join ==
    LET ended == {x \in round : ret[x] \in Ending} IN
    /\ main = "join"
    /\ \A x \in round : pc[x] = "returned"
    /\ Idle(round)
    /\ \/ /\ \E x \in X : Last(x, ended) /\ verdict' = ret[x]
          /\ main' = "wrapup" /\ UNCHANGED at
       \/ ended = {} /\ main' = "cell" /\ at' = NextCell /\ UNCHANGED verdict
    /\ UNCHANGED <<mode, due, round, ret, status, attempts, children, stopping, expired,
                   swept, ran, world>>

\* "everything is done: this pass only plots", and drops what run_one returns.
Plot ==
    /\ main = "plot"
    /\ \/ \E x \in X :
             /\ First(x, due) /\ due' = due \ {x}
             /\ \/ status[x] = "done" /\ Call(x) /\ main' = "plotwait"
                \/ status[x] # "done" /\ UNCHANGED <<pc, main>>
       \/ due = {} /\ main' = "wrapup" /\ UNCHANGED <<due, pc>>
    /\ UNCHANGED <<mode, at, round, ret, status, attempts, children, verdict, stopping,
                   expired, swept, ran, world>>

Plotted ==
    /\ main = "plotwait"
    /\ \E x \in X : pc[x] = "returned" /\ Idle({x})
    /\ main' = "plot"
    /\ UNCHANGED <<mode, at, due, round, ret, status, attempts, children, verdict, stopping,
                   expired, swept, ran, world>>

\* After the plan: end what is in flight; sweep unless it went through or the
\* credentials are gone.
WrapUp ==
    /\ main = "wrapup"
    /\ \/ verdict \in Ending /\ EndChild /\ main' = "ending"
       \/ verdict \notin Ending /\ main' = "close" /\ UNCHANGED <<children, proc, teardown, escaped>>
    /\ UNCHANGED <<mode, at, due, round, pc, ret, status, attempts, verdict, stopping,
                   expired, swept, ran, cur, tail, up, printed, images, next, creds, adrift,
                   refused>>

Ended ==
    /\ main = "ending"
    /\ main' = IF verdict = "credentials" THEN "close" ELSE "sweep"
    /\ UNCHANGED <<mode, at, due, round, pc, ret, status, attempts, children, verdict,
                   stopping, expired, swept, ran, world>>

\* Faulty: everything that bears one of our tags.
SweepByTag ==
    /\ main = "sweep"
    /\ \/ swept' = "failed" /\ main' = "close" /\ UNCHANGED <<up, refused>>
       \/ creds /\ swept' = "asked" /\ main' = "images" /\ up' = {} /\ UNCHANGED refused
    /\ UNCHANGED <<mode, at, due, round, pc, ret, status, attempts, children, verdict,
                   stopping, expired, ran, proc, cur, tail, teardown, escaped, printed,
                   images, next, creds, adrift>>

\* sweep, the instances: ours up since the queue began, by the ids the logs show.
\* The listing may raise, and does without credentials; runner.terminate suppresses
\* EC2's refusal, and the sweep goes on as if they were gone.
Sweep ==
    /\ main = "sweep"
    /\ \/ swept' = "failed" /\ main' = "close" /\ UNCHANGED <<up, refused>>
       \/ /\ creds /\ swept' = "asked" /\ main' = "images"
          /\ \/ up' = up \ printed /\ UNCHANGED refused
             \/ refused' = refused \cup (up \cap printed) /\ UNCHANGED up
    /\ UNCHANGED <<mode, at, due, round, pc, ret, status, attempts, children, verdict,
                   stopping, expired, ran, proc, cur, tail, teardown, escaped, printed,
                   images, next, creds, adrift>>

\* sweep, the images: every miniosv-* image of the window, whoever's, until a call
\* raises.
SweepImages ==
    /\ main = "images"
    /\ main' = "close"
    /\ \/ creds /\ swept' = "ok" /\ images' = {}
       \/ creds /\ images' \in SUBSET images /\ UNCHANGED swept
       \/ UNCHANGED <<images, swept>>
    /\ UNCHANGED <<mode, at, due, round, pc, ret, status, attempts, children, verdict,
                   stopping, expired, ran, proc, cur, tail, teardown, escaped, up, printed,
                   next, creds, adrift, refused>>

\* Faulty: only an ending verdict is looked at.
CloseForgetsFailures ==
    /\ main = "close"
    /\ main' = "over"
    /\ status' = [x \in X |-> IF /\ verdict \in Ending
                                 /\ status[x] \in {"running", "waiting for spot", "queued"}
                              THEN verdict ELSE status[x]]
    /\ UNCHANGED <<mode, at, due, round, pc, ret, attempts, children, verdict, stopping,
                   expired, swept, ran, world>>

\* The statuses and the verdict that are saved last.
Close ==
    /\ main = "close"
    /\ main' = "over"
    /\ status' = [x \in X |-> IF /\ verdict \in Ending
                                 /\ status[x] \in {"running", "waiting for spot", "queued"}
                              THEN verdict ELSE status[x]]
    /\ verdict' = IF verdict \notin Ending /\ \E x \in X : status[x] = "failed"
                  THEN "failed" ELSE verdict
    /\ UNCHANGED <<mode, at, due, round, pc, ret, attempts, children, stopping, expired,
                   swept, ran, world>>

Main ==
    \/ Boot \/ Cell \/ RunNext \/ Result \/ StartThread \/ Join
    \/ Plot \/ Plotted \/ WrapUp \/ Ended \/ Sweep \/ SweepImages \/ Close

-----------------------------------------------------------------------------
(***************************************************************************)
(* The environment: signals, the clock, AWS, and the child processes.      *)
(***************************************************************************)

\* SIGTERM or SIGINT: `just queue-stop`.
Stop ==
    /\ main \notin {"boot", "over"} /\ ~stopping
    /\ stopping' = TRUE
    /\ UNCHANGED <<mode, main, at, due, round, pc, ret, status, attempts, children, verdict,
                   expired, swept, ran, world>>

\* The ttl passes.
Expire ==
    /\ main # "over" /\ ~expired
    /\ expired' = TRUE
    /\ UNCHANGED <<mode, main, at, due, round, pc, ret, status, attempts, children, verdict,
                   stopping, swept, ran, world>>

\* The `aws login` session ends.
LoseCreds ==
    /\ main # "over" /\ creds
    /\ creds' = FALSE
    /\ UNCHANGED <<runner, proc, cur, tail, teardown, escaped, up, printed, images, next,
                   adrift, refused>>

\* Another checkout on the same account launches, with an image of its own.
ForeignLaunch ==
    /\ main # "over" /\ Foreign \notin up
    /\ up' = up \cup {Foreign} /\ images' = images \cup {Foreign}
    /\ UNCHANGED <<runner, proc, cur, tail, teardown, escaped, printed, next, creds, adrift,
                   refused>>

\* run_instances has returned; a deploy registered its image first.
ChildLaunch(x) ==
    /\ proc[x] = "build" /\ Measures(x) /\ creds /\ next \in Id
    /\ proc' = [proc EXCEPT ![x] = "up"]
    /\ cur' = [cur EXCEPT ![x] = next] /\ next' = next + 1
    /\ up' = up \cup {next}
    /\ images' = IF x \in Deploys THEN images \cup {x} ELSE images
    /\ UNCHANGED <<runner, tail, teardown, escaped, printed, creds, adrift, refused>>

\* The line "Instance running: i-..." reaches a log.
ChildPrint(x) ==
    /\ proc[x] = "up"
    /\ proc' = [proc EXCEPT ![x] = "shown"]
    /\ printed' = printed \cup {cur[x]}
    /\ UNCHANGED <<runner, cur, tail, teardown, escaped, up, images, next, creds, adrift, refused>>

\* EC2 takes down the instance of x and its image; or it refuses, or the credentials
\* are gone, which both drivers and aws-deploy.py let pass.
TakeDown(x) ==
    \/ creds /\ up' = up \ {cur[x]} /\ images' = images \ {x}
    \/ UNCHANGED <<up, images>>

\* The run is over and the driver terminates its instance, and the deploy its image.
ChildTerminate(x) ==
    /\ proc[x] = "shown"
    /\ proc' = [proc EXCEPT ![x] = "build"]
    /\ TakeDown(x)
    /\ UNCHANGED <<runner, cur, tail, teardown, escaped, printed, next, creds, adrift, refused>>

\* The child exits, having printed why.  A short attempt leaves what earlier ones
\* printed within the log's last 4000 characters, a long one does not.
ChildExit(x) ==
    /\ proc[x] = "build"
    /\ \E how \in Exits, long \in BOOLEAN :
          /\ how \in {"refused", "failed"} => attempts[x] <= MaxTroubled[x]
          /\ how = "refused" => creds /\ Measures(x)
          /\ how = "creds" => ~creds
          /\ proc' = [proc EXCEPT ![x] = how]
          /\ tail' = [tail EXCEPT ![Log[x]] =
                        ({how} \cap {"refused", "creds"}) \cup (IF long THEN {} ELSE @)]
    /\ UNCHANGED <<runner, cur, teardown, escaped, up, printed, images, next, creds, adrift, refused>>

\* aws-deploy.py has handled its SIGINT.
TeardownDone(x) ==
    /\ x \in teardown
    /\ teardown' = teardown \ {x}
    /\ TakeDown(x)
    /\ UNCHANGED <<runner, proc, cur, tail, escaped, printed, next, creds, adrift, refused>>

\* A deploy nobody signalled launches like any other,
StrayLaunch(x) ==
    /\ x \in escaped /\ creds /\ next \in Id
    /\ escaped' = escaped \ {x}
    /\ next' = next + 1
    /\ up' = up \cup {next} /\ adrift' = adrift \cup {next}
    /\ images' = images \cup {x}
    /\ UNCHANGED <<runner, proc, cur, tail, teardown, printed, creds, refused>>

\* and its log shows the id, before or after the sweep has read it.
StrayPrint ==
    /\ \E i \in adrift \ printed : printed' = printed \cup {i}
    /\ UNCHANGED <<runner, proc, cur, tail, teardown, escaped, up, images, next, creds,
                   adrift, refused>>

Child(x) ==
    \/ ChildLaunch(x) \/ ChildPrint(x) \/ ChildTerminate(x)
    \/ ChildExit(x) \/ TeardownDone(x) \/ StrayLaunch(x)

\* A queue that is over stays over.
Over == main = "over" /\ UNCHANGED vars

Next ==
    \/ Main
    \/ \E x \in X : RunOne(x) \/ Child(x)
    \/ Stop \/ Expire \/ LoseCreds \/ ForeignLaunch \/ StrayPrint
    \/ Over

Spec == Init /\ [][Next]_vars

\* Threads are scheduled and their sleeps end.  Nothing is assumed of the
\* children, of AWS, of the user or of the clock.
Fairness == WF_vars(Main) /\ \A x \in X : WF_vars(RunOne(x))

FairSpec == Spec /\ Fairness

-----------------------------------------------------------------------------
(***************************************************************************)
(* Properties.                                                             *)
(***************************************************************************)

\* Every variable has its type.
TypeOK ==
    /\ mode \in Modes /\ main \in MainOf /\ at \in [g : Nat, k : Nat, i : Nat]
    /\ due \subseteq X /\ round \subseteq X
    /\ pc \in [X -> PcOf]
    /\ ret \in [X -> {"none", "done", "failed"} \cup Ending]
    /\ status \in [X -> StatusOf] /\ attempts \in [X -> Nat]
    /\ children \subseteq X /\ verdict \in {"done", "failed"} \cup Ending
    /\ stopping \in BOOLEAN /\ expired \in BOOLEAN /\ swept \in {"no", "failed", "asked", "ok"}
    /\ ran \in [X -> SUBSET (Nat \X Nat)]
    /\ proc \in [X -> {"none", "killed"} \cup Live \cup Exits]
    /\ cur \in [X -> Id \cup {Foreign}]
    /\ tail \in [Logs -> SUBSET {"refused", "creds"}]
    /\ teardown \subseteq X /\ escaped \subseteq X
    /\ adrift \subseteq Id /\ refused \subseteq Id \cup {Foreign}
    /\ up \subseteq Id \cup {Foreign}
    /\ printed \subseteq Id \cup {Foreign}
    /\ images \subseteq X \cup {Foreign}
    /\ next \in 1..(MaxLaunch + 1) /\ creds \in BOOLEAN

\* When the runner comes to sweep, and ever after, no child of the queue is alive:
\* end_child clears one dictionary for all threads, and each thread registers its
\* child only after starting it, so a child in between must be ended by its own
\* thread (run_one's poll loop).  A child is experiment.py with the driver below it;
\* a deploy that end_child's listing missed is in "escaped".
NothingOutlivesTheQueue ==
    main \in {"ending", "sweep", "images", "close", "over"} => \A x \in X : proc[x] \notin Live

\* Once the sweep is through with the instances, and whatever becomes of the images,
\* an instance whose id a log of the queue shows is up only if EC2 refused to
\* terminate it for the sweep, which runner.terminate does not tell, or if a deploy
\* launched it that was started while end_child was killing its driver (launched,
\* end_child and sweep).
SweepCollectsWhatWasPrinted ==
    swept \in {"asked", "ok"} => up \cap printed \subseteq refused \cup adrift

\* A queue that says "done" has run every rep of every point of every experiment,
\* in whatever mode, over however many refusals (run_one, run_group, main).
DoneMeansEverythingRan ==
    main = "over" /\ verdict = "done" => \A x \in X : ran[x] = Cells(x)

Before(c, d) == c[1] < d[1] \/ (c[1] = d[1] /\ c[2] < d[2])

\* "Every member's i-th point before any member's (i+1)-th, rep by rep": a cell that
\* was measured was preceded by every earlier cell of every member of its group,
\* except those of a member that failed (run_group).
MembersAlternate ==
    mode # "sequential" =>
        \A x, y \in X : Group[x] = Group[y] /\ status[y] # "failed" =>
            \A c \in ran[x] : \A d \in Cells(y) : Before(d, c) => d \in ran[y]

\* Two children never work in one build tree at a time, except in the one way checks()
\* lets through: it compares the names of the benches, so two miniOSv benches in a group
\* of a concurrent queue pass.  In no other mode, and in no two groups, is a child
\* started while another lives (run_group joins before the next round).
OneBuildTreeEach ==
    \A x, y \in X : x # y /\ Tree[x] = Tree[y] /\ proc[x] \in Live /\ proc[y] \in Live =>
        mode = "concurrent" /\ Group[x] = Group[y] /\ Bench[x] # Bench[y]

\* "The experiments must not share a build tree (one miniOSv arm at most)", the help of
\* --concurrent: two children at work at a time work in two trees.
OneArmPerTree ==
    \A x, y \in X : x # y /\ proc[x] \in Live /\ proc[y] \in Live => Tree[x] # Tree[y]

\* No step of the queue takes down another checkout's instance: sweep goes by the
\* ids its own logs show, not by the tag ("a queue in another checkout on the same
\* account keeps its instances").
OthersKeepTheirInstances == [][(Foreign \in up) => (Foreign \in up')]_vars

\* A queue told to stop, or past its deadline, comes to its end: no loop of run_one
\* waits without looking at either, and no thread waits for another forever.
StopEndsTheQueue == (stopping \/ expired) ~> main = "over"
=============================================================================
