---------------------------- MODULE QueueControl ----------------------------
(***************************************************************************)
(* Queue control, scripts/bench/runqueue.py: `just queue`, the runner it   *)
(* detaches, `just queue-stop`, and the files between them.                *)
(*                                                                         *)
(* A queue is named by the second it was submitted in.  It has a directory *)
(* with a state.json; LATEST names the newest.  A submit reads LATEST and  *)
(* that state, asks whether its pid lives, asks EC2 for instances of ours, *)
(* and then makes the directory, writes state.json, LATEST, and spawns the *)
(* runner.  The runner loads the state, takes its signals, writes its pid  *)
(* and "running", and only then can be seen.  Pids are the kernel's, and   *)
(* are handed out again.                                                   *)
(***************************************************************************)
EXTENDS Integers, FiniteSets

CONSTANTS
    Submits,      \* runs of `just queue`
    Stops,        \* runs of `just queue-stop`
    Pids,         \* what the kernel hands out
    Queues,       \* the seconds of this history, 1 .. n: a queue's id
    NoQueue,      \* LATEST is not there, or was truncated and not yet written
    Foreign       \* whether a process of somebody else's may get a pid

ASSUME QueueControlAssumption ==
    /\ IsFiniteSet(Queues) /\ Queues \subseteq Nat \ {0} /\ NoQueue \notin Queues
    /\ IsFiniteSet(Pids) /\ 0 \notin Pids
    /\ Foreign \in BOOLEAN

VARIABLES
    sec,          \* the second it is
    dirs,         \* queue directories that exist
    file,         \* their state.json: status and pid, 0 for null
    latest,       \* LATEST
    owner,        \* the process table: whose a pid is
    rpc,          \* where the runner of a pid is
    stopping,     \* its Runner.stopping
    kids,         \* queues whose child (experiment.py) lives
    up,           \* queues an instance of which is up
    sub, seen,    \* where a submit is, and the state it read
    stp, aim,     \* where a stop is, and the pid it read
    overlapped    \* history: a submit looked while another queue was being set up

vars == <<sec, dirs, file, latest, owner, rpc, stopping, kids, up, sub, seen, stp, aim,
          overlapped>>

files == <<dirs, file, latest>>
table == <<owner, rpc, stopping>>
cloud == <<kids, up>>
submits == <<sub, seen, overlapped>>
stops == <<stp, aim>>

Live == {"running", "waiting for spot"}
Over == {"done", "failed", "expired", "stopped", "credentials"}
Statuses == {"absent", "starting"} \cup Live \cup Over
Absent == [status |-> "absent", pid |-> 0]
Nobody == 0      \* a free pid
Other == -1      \* a process of somebody else's

Init ==
    /\ sec \in Queues /\ \A q \in Queues : sec <= q
    /\ dirs = {} /\ file = [q \in Queues |-> Absent] /\ latest = NoQueue
    /\ owner = [p \in Pids |-> Nobody] /\ rpc = [p \in Pids |-> "none"]
    /\ stopping = [p \in Pids |-> FALSE]
    /\ kids = {} /\ up = {}
    /\ sub = [s \in Submits |-> [pc |-> "idle", q |-> NoQueue]]
    /\ seen = [s \in Submits |-> Absent]
    /\ stp = [t \in Stops |-> "idle"] /\ aim = [t \in Stops |-> 0]
    /\ overlapped = FALSE

\* kill(pid, 0): pid 0 is the caller's own process group, which is always there.
alive(pid) == pid = 0 \/ owner[pid] # Nobody

-----------------------------------------------------------------------------
(***************************************************************************)
(* submit.                                                                 *)
(***************************************************************************)
Step(s, l) == sub' = [sub EXCEPT ![s].pc = l]

\* A queue is being set up: it was looked for, or spawned, and cannot be seen yet.
InSetup(s) == sub[s].pc \in {"look", "ask", "mkdir", "write", "truncate", "name", "spawn"}
Starting == {p \in Pids : rpc[p] \in {"init", "handling"}}

\* checks, up to running_queue: the environment, the credentials, the bucket and its
\* region, the subnet and its endpoint, the experiments and their plans.  Each may end
\* the submit; running_queue then reads the state that LATEST names.
Preflight(s) ==
    /\ sub[s].pc = "idle"
    /\ \/ Step(s, "refused") /\ UNCHANGED <<seen, overlapped>>
       \/ /\ Step(s, "look")
          /\ seen' = [seen EXCEPT ![s] = IF latest = NoQueue THEN Absent ELSE file[latest]]
          /\ overlapped' = (overlapped \/ Starting # {} \/ \E t \in Submits \ {s} : InSetup(t))
    /\ UNCHANGED <<sec, files, table, cloud, stops>>

\* Faulty: a queue that waits for spot is taken for one that is over.
LookRunningOnly(s) ==
    /\ sub[s].pc = "look"
    /\ Step(s, IF seen[s].status = "running" /\ alive(seen[s].pid) THEN "refused" ELSE "ask")
    /\ UNCHANGED <<sec, files, table, cloud, seen, overlapped, stops>>

\* running_queue, then its pid: a live runner refuses the submit.
Look(s) ==
    /\ sub[s].pc = "look"
    /\ Step(s, IF seen[s].status \in Live /\ alive(seen[s].pid) THEN "refused" ELSE "ask")
    /\ UNCHANGED <<sec, files, table, cloud, seen, overlapped, stops>>

\* our_instances, the ttl, and two experiments of a concurrent group on one bench.
Ask(s) ==
    /\ sub[s].pc = "ask"
    /\ \/ Step(s, "refused")
       \/ up = {} /\ Step(s, "mkdir")
    /\ UNCHANGED <<sec, files, table, cloud, seen, overlapped, stops>>

\* Faulty: the directory may be there already.
MkDirAnyway(s) ==
    /\ sub[s].pc = "mkdir"
    /\ dirs' = dirs \cup {sec} /\ sub' = [sub EXCEPT ![s] = [pc |-> "write", q |-> sec]]
    /\ UNCHANGED <<sec, file, latest, table, cloud, seen, overlapped, stops>>

\* qdir.mkdir: a second submit of the same second ends here.
MkDir(s) ==
    /\ sub[s].pc = "mkdir"
    /\ \/ sec \in dirs /\ Step(s, "refused") /\ UNCHANGED dirs
       \/ /\ sec \notin dirs
          /\ dirs' = dirs \cup {sec} /\ sub' = [sub EXCEPT ![s] = [pc |-> "write", q |-> sec]]
    /\ UNCHANGED <<sec, file, latest, table, cloud, seen, overlapped, stops>>

WriteState(s) ==
    /\ sub[s].pc = "write"
    /\ file' = [file EXCEPT ![sub[s].q] = [status |-> "starting", pid |-> 0]]
    /\ Step(s, "truncate")
    /\ UNCHANGED <<sec, dirs, latest, table, cloud, seen, overlapped, stops>>

\* LATEST.write_text: the file is emptied, then written.
Truncate(s) ==
    /\ sub[s].pc = "truncate"
    /\ latest' = NoQueue /\ Step(s, "name")
    /\ UNCHANGED <<sec, dirs, file, table, cloud, seen, overlapped, stops>>

WriteLatest(s) ==
    /\ sub[s].pc = "name"
    /\ latest' = sub[s].q /\ Step(s, "spawn")
    /\ UNCHANGED <<sec, dirs, file, table, cloud, seen, overlapped, stops>>

\* Popen in a session of its own: the runner survives this shell.
Spawn(s) ==
    /\ sub[s].pc = "spawn"
    /\ \E p \in Pids :
          /\ owner[p] = Nobody
          /\ owner' = [owner EXCEPT ![p] = sub[s].q] /\ rpc' = [rpc EXCEPT ![p] = "init"]
          /\ stopping' = [stopping EXCEPT ![p] = FALSE]
    /\ Step(s, "queued")
    /\ UNCHANGED <<sec, files, cloud, seen, overlapped, stops>>

\* The shell is closed, or the user gives up, before the runner exists.
GiveUp(s) ==
    /\ InSetup(s)
    /\ Step(s, "refused")
    /\ UNCHANGED <<sec, files, table, cloud, seen, overlapped, stops>>

Submit(s) ==
    \/ Preflight(s) \/ Look(s) \/ Ask(s) \/ MkDir(s) \/ WriteState(s) \/ Truncate(s)
    \/ WriteLatest(s) \/ Spawn(s) \/ GiveUp(s)

-----------------------------------------------------------------------------
(***************************************************************************)
(* The runner, as the files and its children show it.                      *)
(***************************************************************************)
\* Faulty: the process is gone, its pid is not given back.
FreeLater(p) ==
    /\ rpc' = [rpc EXCEPT ![p] = "none"] /\ stopping' = [stopping EXCEPT ![p] = FALSE]
    /\ UNCHANGED owner

\* The process of a pid is gone.
Free(p) ==
    /\ owner' = [owner EXCEPT ![p] = Nobody] /\ rpc' = [rpc EXCEPT ![p] = "none"]
    /\ stopping' = [stopping EXCEPT ![p] = FALSE]

Goto(p, l) == rpc' = [rpc EXCEPT ![p] = l] /\ UNCHANGED <<owner, stopping>>

\* __init__ has read state.json; SIGHUP ignored, SIGTERM and SIGINT are "stopping".
TakeSignals(p) ==
    /\ rpc[p] = "init" /\ Goto(p, "handling")
    /\ UNCHANGED <<sec, files, cloud, submits, stops>>

\* save: state.json is replaced whole, by a rename.
Save(p, status) == file' = [file EXCEPT ![owner[p]] = [status |-> status, pid |-> p]]

Begin(p) ==
    /\ rpc[p] = "handling" /\ Goto(p, "plan") /\ Save(p, "running")
    /\ UNCHANGED <<sec, dirs, latest, cloud, submits, stops>>

\* run_one: a child, and "running" again.
StartChild(p) ==
    /\ rpc[p] = "plan" /\ ~stopping[p]
    /\ Goto(p, "child") /\ Save(p, "running") /\ kids' = kids \cup {owner[p]}
    /\ UNCHANGED <<sec, dirs, latest, up, submits, stops>>

\* It is over; when spot refused it the queue waits, and says so.
ReapChild(p) ==
    /\ rpc[p] = "child" /\ owner[p] \notin kids
    /\ Goto(p, "plan")
    /\ \/ Save(p, "waiting for spot") \/ UNCHANGED file
    /\ UNCHANGED <<sec, dirs, latest, cloud, submits, stops>>

\* Faulty: SIGTERM is looked at between children only.
EndChildBetween(p) ==
    /\ rpc[p] = "plan" /\ Goto(p, "close")
    /\ UNCHANGED <<sec, files, cloud, submits, stops>>

\* The plan is done, or the queue is stopped or expired: end_child and sweep.
EndPlan(p) ==
    /\ rpc[p] \in {"plan", "child"}
    /\ \/ rpc[p] = "plan" /\ UNCHANGED <<kids, up>>
       \/ kids' = kids \ {owner[p]} /\ up' = up \ {owner[p]}
    /\ Goto(p, "close")
    /\ UNCHANGED <<sec, files, submits, stops>>

\* The verdict is saved, and later the process is gone.
Close(p) ==
    /\ rpc[p] = "close" /\ Goto(p, "exit") /\ (\E v \in Over : Save(p, v))
    /\ UNCHANGED <<sec, dirs, latest, cloud, submits, stops>>

Exit(p) ==
    /\ rpc[p] = "exit" /\ Free(p)
    /\ UNCHANGED <<sec, files, cloud, submits, stops>>

Runner(p) ==
    \/ TakeSignals(p) \/ Begin(p) \/ StartChild(p) \/ ReapChild(p)
    \/ EndPlan(p) \/ Close(p) \/ Exit(p)

\* kill -9, the kernel's memory killer: nothing is saved, the child goes on.
Crash(p) ==
    /\ owner[p] \in Queues /\ Free(p)
    /\ UNCHANGED <<sec, files, cloud, submits, stops>>

-----------------------------------------------------------------------------
(***************************************************************************)
(* The children, the kernel, the clock.                                    *)
(***************************************************************************)
ChildLaunch(q) ==
    /\ q \in kids \ up /\ up' = up \cup {q}
    /\ UNCHANGED <<sec, files, table, kids, submits, stops>>

Taken(q) ==
    /\ q \in up /\ up' = up \ {q}
    /\ UNCHANGED <<sec, files, table, kids, submits, stops>>

ChildExit(q) ==
    /\ q \in kids \ up /\ kids' = kids \ {q}
    /\ UNCHANGED <<sec, files, table, up, submits, stops>>

Process(p) ==
    /\ Foreign
    /\ \/ owner[p] = Nobody /\ owner' = [owner EXCEPT ![p] = Other]
       \/ owner[p] = Other /\ owner' = [owner EXCEPT ![p] = Nobody]
    /\ UNCHANGED <<sec, files, rpc, stopping, cloud, submits, stops>>

Tick ==
    /\ sec + 1 \in Queues /\ sec' = sec + 1
    /\ UNCHANGED <<files, table, cloud, submits, stops>>

World == (\E q \in Queues : ChildLaunch(q) \/ Taken(q) \/ ChildExit(q))
         \/ (\E p \in Pids : Process(p) \/ Crash(p)) \/ Tick

-----------------------------------------------------------------------------
(***************************************************************************)
(* stop.                                                                   *)
(***************************************************************************)

\* latest_state: with no LATEST, or an empty one, the stop fails.
ReadPid(t) ==
    /\ stp[t] = "idle"
    /\ \/ latest = NoQueue /\ stp' = [stp EXCEPT ![t] = "failed"] /\ UNCHANGED aim
       \/ /\ latest # NoQueue
          /\ aim' = [aim EXCEPT ![t] = file[latest].pid]
          /\ stp' = [stp EXCEPT ![t] = IF alive(file[latest].pid) THEN "kill" ELSE "not running"]
    /\ UNCHANGED <<sec, files, table, cloud, submits>>

\* SIGTERM.  A runner that has not taken its signals yet dies of it, as does whoever
\* has its pid by now; pid 0 is the stop's own process group, and `just` with it.
Term(t) ==
    LET p == aim[t] IN
    /\ stp[t] = "kill"
    /\ \/ p = 0 /\ stp' = [stp EXCEPT ![t] = "killed itself"] /\ UNCHANGED table
       \/ /\ p # 0 /\ owner[p] = Nobody
          /\ stp' = [stp EXCEPT ![t] = "failed"] /\ UNCHANGED table
       \/ /\ p # 0 /\ owner[p] # Nobody
          /\ stp' = [stp EXCEPT ![t] = "wait"]
          /\ IF rpc[p] \in {"none", "init"} THEN Free(p)
             ELSE stopping' = [stopping EXCEPT ![p] = TRUE] /\ UNCHANGED <<owner, rpc>>
    /\ UNCHANGED <<sec, files, cloud, submits, aim>>

\* 60 polls, two seconds apart: it is gone, or the stop gives up waiting.
Wait(t) ==
    /\ stp[t] = "wait" /\ stp' = [stp EXCEPT ![t] = "done"]
    /\ UNCHANGED <<sec, files, table, cloud, submits, aim>>

Stop(t) == ReadPid(t) \/ Term(t) \/ Wait(t)

Next ==
    \/ \E s \in Submits : Submit(s)
    \/ \E p \in Pids : Runner(p)
    \/ \E t \in Stops : Stop(t)
    \/ World

Spec == Init /\ [][Next]_vars

\* A runner that is asked to stop polls its child every second and ends it.
Stopping(p) == TakeSignals(p) \/ Begin(p) \/ ReapChild(p) \/ Close(p) \/ Exit(p)
               \/ (stopping[p] /\ EndPlan(p))

FairSpec == Spec /\ \A p \in Pids : WF_vars(Stopping(p))

-----------------------------------------------------------------------------
Runners == {p \in Pids : rpc[p] # "none"}

\* Its verdict is not saved yet.
AtWork == {p \in Runners : rpc[p] # "exit"}

\* Every variable has its type, and only a queue's pid has a runner.
TypeOK ==
    /\ sec \in Queues /\ dirs \subseteq Queues /\ latest \in Queues \cup {NoQueue}
    /\ file \in [Queues -> [status : Statuses, pid : Pids \cup {0}]]
    /\ owner \in [Pids -> Queues \cup {Nobody, Other}]
    /\ \A p \in Pids : rpc[p] # "none" <=> owner[p] \in Queues
    /\ rpc \in [Pids -> {"none", "init", "handling", "plan", "child", "close", "exit"}]
    /\ stopping \in [Pids -> BOOLEAN]
    /\ kids \subseteq Queues /\ up \subseteq Queues
    /\ seen \in [Submits -> [status : Statuses, pid : Pids \cup {0}]]
    /\ sub \in [Submits -> [pc : {"idle", "refused", "look", "ask", "mkdir", "write", "truncate",
                                  "name", "spawn", "queued"},
                            q : Queues \cup {NoQueue}]]
    /\ stp \in [Stops -> {"idle", "failed", "not running", "kill", "killed itself", "wait", "done"}]
    /\ aim \in [Stops -> Pids \cup {0}]
    /\ overlapped \in BOOLEAN

\* One queue at a time (checks: running_queue and our_instances refuse a second), as
\* long as no submit looked while another queue was being set up: a runner is seen from
\* the moment it has saved its pid, waiting for spot or not, until its verdict is saved.
OneQueueAtATime == ~overlapped => Cardinality(AtWork) <= 1

\* No two runners share a queue's directory, whoever raced whom: the second mkdir of a
\* second fails, and a directory gets one runner.
OneRunnerEach == \A p, r \in Runners : owner[p] = owner[r] => p = r

\* A stop that reached the runner of a queue with its handlers in place ends it: a
\* second queue can start, whatever the child was doing.
StopEndsTheRunner == \A p \in Pids : stopping[p] ~> ~stopping[p]
=============================================================================
