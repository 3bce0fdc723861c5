------------------------------ MODULE MiniosvRun ------------------------------
(***************************************************************************)
(* A sweep of a unikernel arm, point by point: build and run_once of       *)
(* scripts/bench/smoltcp-s3/bench.py and duckdb-tpch/bench.py, with the    *)
(* deploy they run and read the log of; and of the Linux arms that dial    *)
(* the same server, anyblob and linux-http, whose runs LinuxRun has.       *)
(*                                                                         *)
(* A point is built once and run for each of its reps.  The image of the   *)
(* build lies in the working tree, where others run make too; `just        *)
(* deploy` is a session of its own, which an interrupt of the driver does  *)
(* not reach.                                                              *)
(***************************************************************************)
EXTENDS HttpServer, Sequences

CONSTANTS
    Sweeps,    \* what may be swept
    MaxNoise   \* bound: lines of a boot that the console spoils

\* The cells in order, each by what its guest is asked to do: the queries, or one number
\* for the compiled-in knobs.  own: a server type is given; sweeps that mix points with
\* and without a server of their own are left out.  operator: how many servers somebody may
\* launch with nginx-server.py.
ASSUME MiniosvRunAssumption ==
    /\ MaxNoise \in Nat
    /\ \A s \in Sweeps :
          /\ s.arm \in {"smoltcp-s3", "duckdb-tpch", "anyblob", "linux-http"}
          /\ s.own \in BOOLEAN /\ s.operator \in 0..MaxServers
          /\ s.cells \in Seq(Seq(Nat)) /\ s.cells # <<>>
          /\ \A n \in DOMAIN s.cells : s.cells[n] # <<>>

VARIABLES
    sweep,       \* the bench, its cells, its server
    ip, bzone,   \* --target-ip and BENCH_ZONE; 0 for S3, "none" for unset
    dpc,         \* where the driver is, while its process is "idle"
    cell,        \* of sweep.cells
    built,       \* the cell whose image it built, <<>> for none
    image,       \* in the working tree: what was compiled into it, its boot arguments, and
                 \* (history) whether this driver's build was the last to write it
    dep,         \* the deploy: where it is
    vm, why,     \* its instance, and who ended it
    ami,         \* its image and snapshot exist
    boot,        \* history: what it booted and where
    log,         \* the reasons, ids and verdicts its log shows
    heads,       \* the queries whose line the log has
    said,        \* how many lines the guest has printed
    noise,       \* how many of them were spoiled
    iid,         \* the driver has found the instance's id
    interrupted, \* and that EC2 took it
    warned,      \* what it has said may be left over
    refused,     \* history: its terminate failed
    rows         \* the rows of the sweep

args == <<sweep, ip, bzone>>
deploy == <<dep, vm, why, ami, boot, log, heads, said, noise>>
seen == <<iid, interrupted, warned, refused>>
driver == <<dpc, cell, built, rows>>
vars == <<server, args, deploy, seen, driver, image>>

None == <<>>
Cell == sweep.cells[cell]
IsDuckdb == sweep.arm = "duckdb-tpch"
IsLinux == sweep.arm \in {"anyblob", "linux-http"}
Own == obj["driver"]
Holds == Own.atexit      \* self.server

NoBoot == [knobs |-> None, target |-> 0, args |-> None, ours |-> TRUE, zone |-> "none",
           dialled |-> 0]

Fresh ==
    /\ dep' = "none" /\ vm' = "none" /\ why' = "none" /\ ami' = FALSE /\ boot' = NoBoot
    /\ log' = {} /\ heads' = <<>> /\ said' = 0 /\ noise' = 0
    /\ iid' = FALSE /\ interrupted' = FALSE /\ warned' = {} /\ refused' = FALSE

Init ==
    /\ ServerInit
    /\ sweep \in Sweeps /\ ip = 0 /\ bzone = "none"
    /\ dpc = "off" /\ cell = 1 /\ built = None /\ rows = <<>>
    /\ image = [knobs |-> None, target |-> 0, args |-> None, ours |-> FALSE]
    /\ dep = "none" /\ vm = "none" /\ why = "none" /\ ami = FALSE /\ boot = NoBoot
    /\ log = {} /\ heads = <<>> /\ said = 0 /\ noise = 0
    /\ iid = FALSE /\ interrupted = FALSE /\ warned = {} /\ refused = FALSE

At(l) == pc["driver"] = "idle" /\ dpc = l
To(l) == dpc' = l
Ends == Exit("driver") /\ UNCHANGED dpc

-----------------------------------------------------------------------------
(***************************************************************************)
(* The sweep and its builds.                                               *)
(***************************************************************************)

\* Whoever starts the driver types an address and a zone, or none; not always the right ones.
StartDriver ==
    /\ dpc = "off" /\ To("next") /\ Goto("driver", "idle")
    /\ IF sweep.own \/ IsDuckdb THEN UNCHANGED <<ip, bzone>>
       ELSE ip' \in {0} \cup Ids /\ bzone' \in Zones \cup {"none"}
    /\ UNCHANGED <<sweep, box, todo, new, obj, record, lost, deploy, seen, cell, built, rows, image>>

\* main: a configuration other than the last is built.
NextCell ==
    /\ At("next")
    /\ \/ cell > Len(sweep.cells) /\ Ends
       \/ /\ cell <= Len(sweep.cells)
          /\ To(IF built = Cell THEN "run" ELSE IF IsDuckdb THEN "make" ELSE "server")
          /\ UNCHANGED server
    /\ UNCHANGED <<args, deploy, seen, cell, built, rows, image>>

\* Faulty: BENCH_ZONE is taken at its word.
VerifiedButForTheZone == ip = 0 \/ (Up(file) /\ file = ip /\ bzone # "none")

\* verify_external: a private address is that of the recorded server, which runs, in the
\* zone the client will be pinned to.
VerifyExternal == ip = 0 \/ (Up(file) /\ file = ip /\ bzone = box[file].zone)

\* build, with a server of its own: the last one is stopped, another one started.
Replace ==
    /\ At("server") /\ sweep.own
    /\ IF Own.iid = 0 THEN UNCHANGED <<box, lost>> ELSE Terminate(Own.iid, {})
    /\ StartServer("driver") /\ To("image") /\ UNCHANGED record
    /\ UNCHANGED <<args, deploy, seen, cell, built, rows, image>>

\* build, without: the address given is checked before anything launches.
BuildExternal ==
    /\ At("server") /\ ~sweep.own
    /\ \/ VerifyExternal /\ To("image") /\ UNCHANGED server
       \/ Ends
    /\ UNCHANGED <<args, deploy, seen, cell, built, rows, image>>

\* start has returned.
Started ==
    /\ pc["driver"] = "started" /\ Goto("driver", "idle")
    /\ UNCHANGED <<box, todo, new, obj, record, lost, args, deploy, seen, driver, image>>

Target == IF Holds THEN Own.ip ELSE ip

\* What a build compiles in: the point's knobs and the address.
Compiled(im, target) == [im EXCEPT !.knobs = Cell, !.target = target, !.ours = TRUE]

\* just build.
Bake ==
    /\ At("image") /\ sweep.arm = "smoltcp-s3"
    /\ \/ image' = Compiled(image, Target) /\ built' = Cell /\ To("run") /\ UNCHANGED server
       \/ Ends /\ UNCHANGED <<built, image>>
    /\ UNCHANGED <<args, deploy, seen, cell, rows>>

\* The Linux arms have built theirs before; their guests get the address at the launch.
BuildLinux ==
    /\ At("image") /\ IsLinux
    /\ \/ built' = Cell /\ To("run") /\ UNCHANGED server
       \/ Ends /\ UNCHANGED built
    /\ UNCHANGED <<args, deploy, seen, cell, rows, image>>

\* Faulty: boot arguments that are there are left alone.
SetArgsIfNone(im) == IF im.args = None THEN [im EXCEPT !.args = Cell] ELSE im

\* setargs.
SetArgs(im) == [im EXCEPT !.args = Cell]

\* require_data, make, which writes a new image only if it has to, and setargs.
Make ==
    /\ At("make")
    /\ \/ /\ \E im \in {image, [image EXCEPT !.args = None]} :
                image' = SetArgs(Compiled(im, ip))
          /\ built' = Cell /\ To("run") /\ UNCHANGED server
       \/ Ends /\ UNCHANGED <<built, image>>
    /\ UNCHANGED <<args, deploy, seen, cell, rows>>

\* "a make in the working tree while a queue is live regenerates loader.img", of either arm:
\* the knobs, the address and the program itself are then another's, the arguments none.  One
\* while an instance runs shows after the run; a second one changes nothing that is told apart.
Remake ==
    /\ ~IsLinux /\ built # None /\ dep \in {"none", "upload"}
    /\ image.ours \/ image.args # None
    /\ \E t \in {0} \cup (Ids \ Unused) :
          image' = [knobs |-> None, target |-> t, args |-> None, ours |-> FALSE]
    /\ UNCHANGED <<server, args, deploy, seen, driver>>

-----------------------------------------------------------------------------
(***************************************************************************)
(* The deploy (miniosv/scripts/aws-deploy.py, as the drivers use it) and   *)
(* the guest whose console it writes to the log.                           *)
(***************************************************************************)

Says(l) == log' = log \cup {l}

\* The image is uploaded as it lies there.
Register ==
    /\ dep = "upload" /\ dep' = "launch" /\ ami' = TRUE
    /\ boot' = [boot EXCEPT !.knobs = image.knobs, !.target = image.target, !.args = image.args,
                            !.ours = image.ours]
    /\ UNCHANGED <<vm, why, log, heads, said, noise>>

Launch ==
    /\ dep = "launch"
    /\ \/ vm' = "up" /\ dep' = "id" /\ UNCHANGED log
       \/ dep' = "teardown" /\ Says("refused") /\ UNCHANGED vm
    /\ UNCHANGED <<why, ami, boot, heads, said, noise>>

PrintId ==
    /\ dep = "id" /\ dep' = "console" /\ Says("id")
    /\ UNCHANGED <<vm, why, ami, boot, heads, said, noise>>

Talks == dep = "console" /\ vm = "up" /\ log \cap {"COMPLETE", "INCOMPLETE", "crash"} = {}

\* A guest without boot arguments prints its usage and spins.  A query has its line, on
\* which a kernel message may land.
Answer ==
    /\ Talks /\ IsDuckdb /\ said < Len(boot.args) /\ said' = said + 1
    /\ \/ heads' = Append(heads, boot.args[said + 1]) /\ UNCHANGED noise
       \/ noise < MaxNoise /\ noise' = noise + 1 /\ UNCHANGED heads
    /\ UNCHANGED <<dep, vm, why, ami, boot, log>>

\* COMPLETE is said by a guest that got all it asked for: its queries, or its blocks; an
\* image that another make left may be of either arm.
Verdict ==
    /\ Talks
    /\ \/ IsDuckdb /\ boot.args # None /\ said = Len(boot.args) /\ Says("COMPLETE")
             /\ UNCHANGED boot
       \/ /\ ~IsDuckdb \/ (~boot.ours /\ said = 0)
          /\ boot.target = 0 \/ Up(boot.target)
          /\ Says("COMPLETE") /\ boot' = [boot EXCEPT !.dialled = boot.target]
       \/ /\ ~IsDuckdb \/ boot.args # None \/ ~boot.ours
          /\ Says("INCOMPLETE") /\ UNCHANGED boot
       \/ IsDuckdb /\ Says("crash") /\ UNCHANGED boot
    /\ UNCHANGED <<dep, vm, why, ami, heads, said, noise>>

\* EC2 takes the instance.
TakeInstance ==
    /\ vm = "up" /\ vm' = "gone" /\ why' = "spot"
    /\ UNCHANGED <<dep, ami, boot, log, heads, said, noise>>

\* It tears down on an interrupt, and by itself when the instance is gone: the instance
\* first, then the image.
OwnTeardown ==
    /\ dep = "console" /\ vm = "gone" /\ dep' = "teardown"
    /\ UNCHANGED <<vm, why, ami, boot, log, heads, said, noise>>

Teardown ==
    /\ dep = "teardown"
    /\ IF vm = "up" THEN vm' = "gone" /\ why' = "user" /\ UNCHANGED <<dep, ami>>
       ELSE dep' = "exited" /\ ami' = FALSE /\ UNCHANGED <<vm, why>>
    /\ UNCHANGED <<boot, log, heads, said, noise>>

\* What a deploy does without its driver is the queue's matter (RunQueue).
Deploy ==
    /\ pc["driver"] = "idle"
    /\ Register \/ Launch \/ PrintId \/ Answer \/ Verdict \/ TakeInstance \/ OwnTeardown
         \/ Teardown
    /\ UNCHANGED <<server, args, seen, driver, image>>

-----------------------------------------------------------------------------
(***************************************************************************)
(* run_once.                                                               *)
(***************************************************************************)

\* The driver's steps that leave the server and the image alone.
Same == UNCHANGED <<server, args, image, cell, built, rows>>

\* The boot arguments are written again before every deploy.
BeginRun ==
    /\ At("run") /\ ~IsLinux /\ To("deploy")
    /\ image' = IF IsDuckdb THEN SetArgs(image) ELSE image
    /\ UNCHANGED <<server, args, deploy, seen, cell, built, rows>>

\* Popen of `just deploy`, pinned to the server's zone or to BENCH_ZONE.
StartDeploy ==
    /\ At("deploy") /\ To("id")
    /\ dep' = "upload" /\ boot' = [NoBoot EXCEPT !.zone = IF Holds THEN Own.zone ELSE bzone]
    /\ UNCHANGED <<vm, why, ami, log, heads, said, noise, seen>> /\ Same

\* The loop for the id: it is there; the deploy has ended; or 1500 seconds are over.
FindId == At("id") /\ "id" \in log /\ iid' = TRUE /\ To("verdict")
            /\ UNCHANGED <<interrupted, warned, refused, deploy>> /\ Same
NoId == At("id") /\ To("signal") /\ UNCHANGED <<seen, deploy>> /\ Same

\* The loop for the verdict: one way or another it is over, at max_vm_seconds at the latest.
AwaitVerdict == At("verdict") /\ To("end") /\ UNCHANGED <<seen, deploy>> /\ Same

\* Faulty: what ended the instance is asked for when it has ended.
EndThenAsk ==
    /\ At("end") /\ To("signal")
    /\ vm' = "gone" /\ why' = (IF vm = "up" THEN "user" ELSE why)
    /\ interrupted' = (why' # "none") /\ UNCHANGED refused
    /\ UNCHANGED <<dep, ami, boot, log, heads, said, noise, iid, warned>> /\ Same

\* runner.interrupted, then runner.terminate; either may fail unseen.
EndInstance ==
    /\ At("end") /\ To("signal")
    /\ interrupted' \in {why = "spot", FALSE}
    /\ \/ /\ vm' = "gone" /\ why' = (IF vm = "up" THEN "user" ELSE why)
          /\ UNCHANGED refused
       \/ Flaky /\ refused' = TRUE /\ UNCHANGED <<vm, why>>
    /\ UNCHANGED <<dep, ami, boot, log, heads, said, noise, iid, warned>> /\ Same

\* SIGINT to the deploy's group.
Signal ==
    /\ At("signal") /\ To("wait")
    /\ dep' = IF dep \in {"teardown", "exited"} THEN dep ELSE "teardown"
    /\ UNCHANGED <<vm, why, ami, boot, log, heads, said, noise, seen>> /\ Same

NoIdWarning == IF iid THEN {} ELSE {"instance"}

\* Faulty: nobody waits for the teardown.
WaitNot ==
    /\ At("wait") /\ To("row")
    /\ warned' = NoIdWarning
    /\ UNCHANGED <<dep, vm, why, ami, boot, log, heads, said, noise, iid, interrupted, refused>>
    /\ Same

\* It ends within 75 seconds, or is killed and said to leak.
Wait ==
    /\ At("wait") /\ To("row")
    /\ \/ dep = "exited" /\ UNCHANGED dep /\ warned' = NoIdWarning
       \/ dep # "exited" /\ dep' = "killed" /\ warned' = NoIdWarning \cup {"image"}
    /\ UNCHANGED <<vm, why, ami, boot, log, heads, said, noise, iid, interrupted, refused>>
    /\ Same

Completed == "COMPLETE" \in log

\* A row.  query is the column: the line's own query, or else the cell's; t is what its
\* time is of, <<>> for no time.
Row(query, t) ==
    [cell |-> Cell, query |-> query, t |-> t, complete |-> Completed, whole |-> noise = 0,
     interrupted |-> interrupted, server_id |-> 0, server_zone |-> "none", target_ip |-> 0,
     boot |-> boot]

\* duckdb-tpch: a row for all of it, or one per line of a query.
DuckdbRows ==
    IF Len(heads) <= 1 THEN <<Row(Cell, heads)>>
    ELSE [i \in 1..Len(heads) |-> Row(<<heads[i]>>, <<heads[i]>>)]

\* What the arms that dial a server say of it: their own object, or the zone they were told.
Served(r) ==
    IF Holds THEN [r EXCEPT !.server_id = Own.iid, !.server_zone = Own.zone, !.target_ip = Own.ip]
    ELSE IF bzone # "none" THEN [r EXCEPT !.server_zone = bzone, !.target_ip = ip] ELSE r

Append2(s, rs) == rows' = s \o rs

\* Spot refused: nothing is recorded, the sweep fails.  Else the rows, and on.
Return ==
    /\ At("row")
    /\ \/ "refused" \in log /\ Ends /\ UNCHANGED <<cell, rows, deploy, seen>>
       \/ /\ "refused" \notin log
          /\ Append2(rows, IF IsDuckdb THEN DuckdbRows ELSE <<Served(Row(Cell, None))>>)
          /\ cell' = cell + 1 /\ To("next") /\ Fresh /\ UNCHANGED server
    /\ UNCHANGED <<args, built, image>>

\* A run of anyblob or linux-http, in one step: a client in self.zone that dials the address
\* and gets everything, if the server is up, or not.  linux-http asserts that it has one.
RunLinux ==
    /\ At("run") /\ IsLinux
    /\ \/ /\ Target = 0 /\ Ends /\ UNCHANGED <<cell, rows>>
       \/ /\ Target # 0
          /\ \E complete \in {FALSE, Up(Target)} :
                LET b == [NoBoot EXCEPT !.target = Target, !.zone = IF Holds THEN Own.zone ELSE bzone,
                                        !.dialled = IF complete THEN Target ELSE 0]
                    r == [Row(Cell, None) EXCEPT !.complete = complete, !.boot = b]
                IN Append2(rows, <<Served(r)>>)
          /\ cell' = cell + 1 /\ To("next") /\ UNCHANGED server
    /\ UNCHANGED <<args, deploy, seen, built, image>>

\* An interrupt or a kill at any time: the deploy is in a session of its own and goes on.
Broken ==
    /\ Interrupt("driver") \/ Killed("driver")
    /\ UNCHANGED <<args, deploy, seen, driver, image>>

\* valid: of a DuckDB row its time too.  Answers, counters and the ladder are left out.
Valid(r) == r.complete /\ (IsDuckdb => r.t # None)

Driver ==
    \/ StartDriver \/ NextCell \/ Replace \/ BuildExternal \/ Started \/ Bake \/ BuildLinux \/ Make
    \/ BeginRun \/ StartDeploy \/ FindId \/ NoId \/ AwaitVerdict \/ EndInstance \/ Signal \/ Wait
    \/ Return \/ RunLinux \/ Broken

\* Bound: the servers that the operator launches, and the processes that do it at a time.
Operator ==
    /\ Cli /\ sweep.operator > 0 /\ Cardinality(Unused') >= MaxServers - sweep.operator
    /\ Cardinality({c \in Clis : pc'[c] # "off"}) <= sweep.operator

Servers ==
    /\ Machines \/ Starting("driver") \/ Operator
    /\ UNCHANGED <<args, deploy, seen, driver, image>>

Next == Driver \/ Servers \/ Deploy \/ Remake

Spec == Init /\ [][Next]_vars

-----------------------------------------------------------------------------
TypeOK ==
    /\ ServerTypeOK
    /\ sweep \in Sweeps /\ ip \in {0} \cup Ids /\ bzone \in Zones \cup {"none"}
    /\ dpc \in {"off", "next", "server", "image", "make", "run", "deploy", "id", "verdict", "end",
                "signal", "wait", "row"}
    /\ dep \in {"none", "upload", "launch", "id", "console", "teardown", "exited", "killed"}
    /\ vm = "gone" <=> why # "none"
    /\ cell \in 1..Len(sweep.cells) + 1 /\ warned \subseteq {"image", "instance"}
    /\ Len(heads) + noise = said /\ (interrupted => why = "spot")
    /\ dpc = "verdict" => iid

\* The bytes of a complete row came from the server it names, in the zone it names, and the
\* client was in that zone too: whatever the operator started and stopped meanwhile; but not
\* of an image that somebody else has made.  verify_external and Served, "the same-AZ check
\* then compares a claim with itself".
RowsNameTheirServer ==
    \A n \in DOMAIN rows : LET r == rows[n] IN
        r.complete /\ r.boot.ours /\ r.boot.dialled # 0 =>
            /\ r.target_ip = r.boot.dialled
            /\ r.server_zone = box[r.boot.dialled].zone /\ r.boot.zone = r.server_zone
            /\ sweep.own => r.server_id = r.boot.dialled

\* A valid row is of what its cell asked for.  A DuckDB guest was asked the cell's queries,
\* whoever ran make in between ("the next rep then boots to the usage banner"), and if no
\* line was spoiled its time is that of the query it names.  The knobs that booted are the
\* cell's, in the first rep and the later ones, in a resumed cell and in one after another
\* value; but for an image that a make of somebody else wrote since the build, which neither
\* driver notices.
ValidIsOfItsCell ==
    \A n \in DOMAIN rows : LET r == rows[n] IN
        Valid(r) =>
            /\ IsDuckdb =>
                   /\ r.boot.args = r.cell
                   /\ r.whole => r.t = r.query
                   /\ Len(r.cell) = 1 => r.t = r.cell
            /\ ~IsLinux /\ r.boot.ours => r.boot.knobs = r.cell

\* A run that returns has ended its instance and its image, or has said which of them it
\* may have left; but for an instance EC2 did not terminate ("check for a leaked AMI").
NothingLeftUnsaid ==
    At("row") =>
        /\ ami => "image" \in warned
        /\ vm = "up" => "instance" \in warned \/ refused
=============================================================================
