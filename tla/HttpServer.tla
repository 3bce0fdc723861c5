------------------------------ MODULE HttpServer ------------------------------
(***************************************************************************)
(* The nginx an HTTP bench dials: HttpServer of scripts/bench/httpserver.py*)
(* with the machine it launches (competitors/nginx-static/scripts/         *)
(* server.py), and scripts/bench/nginx-server.py, which keeps one alive    *)
(* across experiments and records it in results/http/nginx-server.json.    *)
(*                                                                         *)
(* The processes that hold such an object are the driver of a bench, which *)
(* stops its server at the next build or at exit, and any number of        *)
(* `nginx-server.py start`, which leave theirs to whoever reads the        *)
(* record.  Each may be killed, and a call to EC2 may fail unseen.         *)
(* nginx-server.py looks at the record once, minutes before it writes or   *)
(* removes it, and nothing keeps two of them apart.                        *)
(***************************************************************************)
EXTENDS Integers, FiniteSets

CONSTANTS
    Zones,      \* of the subnet's VPC
    Clis,       \* processes of nginx-server.py that may run at a time
    MaxServers, \* bound: servers launched
    Flaky       \* whether calls to EC2 may fail

ASSUME HttpServerAssumption ==
    /\ Zones # {} /\ "none" \notin Zones /\ "driver" \notin Clis
    /\ MaxServers \in Nat \ {0} /\ Flaky \in BOOLEAN

Ids == 1..MaxServers
Users == Clis \cup {"driver"}

VARIABLES
    box,   \* per id: a machine, where it is, what its console says
    pc,    \* per process: where it is, "off" for none
    todo,  \* the zones it has not tried yet
    new,   \* what EC2 gave it and it has not noted yet; 0 for nothing
    obj,   \* its HttpServer
    file,  \* nginx-server.json: an id, or 0 for no file, or one that is not JSON
    saw,     \* history: the id on record when a process of nginx-server.py looked, else 0
    lost,    \* history: servers left by a process that could not help it
    crossed  \* history: servers whose record went by a process that had not seen it

record == <<file, saw, crossed>>
server == <<box, pc, todo, new, obj, record, lost>>

\* The private address of a machine is its id; 0 is None.
NoServer == [iid |-> 0, ip |-> 0, zone |-> "none", atexit |-> FALSE]
Up(i) == i \in Ids /\ box[i].st = "up"
Off(i) == [box EXCEPT ![i].st = "gone"]
Unused == {i \in Ids : box[i].st = "none"}

ServerInit ==
    /\ box = [i \in Ids |-> [st |-> "none", zone |-> "none", says |-> "none"]]
    /\ pc = [u \in Users |-> "off"] /\ todo = [u \in Users |-> {}]
    /\ new = [u \in Users |-> 0] /\ obj = [u \in Users |-> NoServer]
    /\ file = 0 /\ saw = [u \in Users |-> 0] /\ lost = {} /\ crossed = {}

Goto(u, l) == pc' = [pc EXCEPT ![u] = l]

-----------------------------------------------------------------------------
(***************************************************************************)
(* The machine: server.py.                                                 *)
(***************************************************************************)

\* main: a ranged GET of its own is answered, or something on the way is not.  Only a
\* server that is ready arms its shutdown.
Boot ==
    /\ \E i \in Ids, s \in {"READY", "FAILED"} :
          Up(i) /\ box[i].says = "none" /\ box' = [box EXCEPT ![i].says = s]
    /\ UNCHANGED <<pc, todo, new, obj, record, lost>>

\* The two hours are over.
PowerOff ==
    /\ \E i \in Ids : Up(i) /\ box[i].says = "READY" /\ box' = Off(i)
    /\ UNCHANGED <<pc, todo, new, obj, record, lost>>

\* EC2 takes it back.
Reclaim ==
    /\ \E i \in Ids : Up(i) /\ box' = Off(i)
    /\ UNCHANGED <<pc, todo, new, obj, record, lost>>

-----------------------------------------------------------------------------
(***************************************************************************)
(* The object.                                                             *)
(***************************************************************************)

\* stop, by runner.terminate: a failure of it is not seen, and the object forgets its
\* server all the same.
Terminate(i, dropped) ==
    \/ box' = Off(i) /\ lost' = lost \cup dropped
    \/ Flaky /\ UNCHANGED box /\ lost' = lost \cup dropped \cup {i}

Forget(u) ==
    /\ Goto(u, "off")
    /\ todo' = [todo EXCEPT ![u] = {}] /\ new' = [new EXCEPT ![u] = 0]
    /\ obj' = [obj EXCEPT ![u] = NoServer] /\ saw' = [saw EXCEPT ![u] = 0]

\* The process ends and leaves some servers to themselves: atexit stops its own.
Quit(u, dropped) ==
    /\ IF obj[u].atexit /\ obj[u].iid # 0 THEN Terminate(obj[u].iid, dropped)
       ELSE UNCHANGED box /\ lost' = lost \cup dropped
    /\ Forget(u)
    /\ UNCHANGED <<file, crossed>>

Exit(u) == Quit(u, {})

\* What nobody will know of when it ends here: a machine it has not noted, or one that it
\* has taken off the list and not yet recorded.
Unheld(u) == {new[u], IF obj[u].atexit THEN 0 ELSE obj[u].iid} \ {0, file}

\* An interrupt runs what atexit holds; a kill, and the queue's SIGTERM, do not.
Interrupt(u) == pc[u] # "off" /\ Quit(u, Unheld(u))
Killed(u) ==
    /\ pc[u] # "off"
    /\ lost' = lost \cup ({new[u], obj[u].iid} \ {0, file})
    /\ Forget(u) /\ UNCHANGED <<box, file, crossed>>

\* __init__ registers stop; ensure_binary and the lookup of the AMI may fail, which is an
\* exit; then the zones in an order of the scores, of BENCH_ZONES or of the subnets.
StartServer(u) ==
    /\ obj' = [obj EXCEPT ![u] = [NoServer EXCEPT !.atexit = TRUE]]
    /\ todo' = [todo EXCEPT ![u] = Zones] /\ Goto(u, "zones")
    /\ UNCHANGED new

\* The loop over the zones: one that provides it, or the next, or the retry phrase.
TryZone(u) ==
    /\ pc[u] = "zones"
    /\ \E z \in todo[u] :
          \/ \E i \in Unused :
                /\ \A j \in Unused : i <= j
                /\ box' = [box EXCEPT ![i] = [st |-> "up", zone |-> z, says |-> "none"]]
                /\ new' = [new EXCEPT ![u] = i] /\ Goto(u, "accepted")
                /\ UNCHANGED <<todo, obj, record, lost>>
          \/ todo[u] # {z} /\ todo' = [todo EXCEPT ![u] = @ \ {z}]
                /\ UNCHANGED <<box, pc, new, obj, record, lost>>
          \/ todo[u] = {z} /\ Exit(u)

\* The id is noted, and printed for the queue's sweep.
Note(u) ==
    /\ pc[u] = "accepted"
    /\ obj' = [obj EXCEPT ![u].iid = new[u], ![u].zone = box[new[u]].zone]
    /\ new' = [new EXCEPT ![u] = 0] /\ Goto(u, "await")
    /\ UNCHANGED <<box, todo, record, lost>>

\* The console says that it is ready, maybe no longer truly.
Ready(u) ==
    /\ pc[u] = "await" /\ box[obj[u].iid].says = "READY"
    /\ obj' = [obj EXCEPT ![u].ip = obj[u].iid] /\ Goto(u, "started")
    /\ todo' = [todo EXCEPT ![u] = {}]
    /\ UNCHANGED <<box, new, record, lost>>

\* It failed, or READY_S are over: stop, and an exit whose atexit finds nothing to stop.
NeverReady(u) ==
    /\ pc[u] = "await"
    /\ Terminate(obj[u].iid, {}) /\ Forget(u) /\ UNCHANGED <<file, crossed>>

-----------------------------------------------------------------------------
(***************************************************************************)
(* nginx-server.py.                                                        *)
(***************************************************************************)

\* load.
Look(c) == saw' = [saw EXCEPT ![c] = file]

\* Faulty: whatever is recorded, another one is started.
CmdStartAnyway(c) ==
    /\ pc[c] = "off" /\ Unused # {} /\ Look(c)
    /\ StartServer(c) /\ UNCHANGED <<box, lost, file, crossed>>

\* start: not beside one that is recorded and live.  live is FALSE for one that EC2 does
\* not describe.
CmdStart(c) ==
    /\ pc[c] = "off" /\ Unused # {} /\ Look(c)
    /\ \/ ~Up(file) /\ UNCHANGED lost
       \/ Up(file) /\ Flaky /\ lost' = lost \cup {file}
    /\ StartServer(c) /\ UNCHANGED <<box, file, crossed>>

\* From here on the server is nobody's but the record's.
Unregister(c) ==
    /\ pc[c] = "started"
    /\ obj' = [obj EXCEPT ![c].atexit = FALSE] /\ Goto(c, "open")
    /\ UNCHANGED <<box, todo, new, record, lost>>

\* What is on record is undone, whether it was seen or not.
Undo(c) == file' = 0 /\ crossed' = crossed \cup ({file} \ {0, saw[c]})

\* write_text empties the file,
OpenRecord(c) ==
    /\ pc[c] = "open" /\ Undo(c) /\ Goto(c, "write")
    /\ UNCHANGED <<box, todo, new, obj, saw, lost>>

\* and writes it; over what another has written since, it may be JSON or not.
WriteRecord(c) ==
    /\ pc[c] = "write"
    /\ file' \in {obj[c].iid} \cup (IF file = 0 THEN {} ELSE {0})
    /\ crossed' = crossed \cup ({file, obj[c].iid} \ {0, file'})
    /\ Forget(c) /\ UNCHANGED <<box, lost>>

\* stop: terminate, which does not wait for the machine to be gone,
CmdStop(c) ==
    /\ pc[c] = "off" /\ file # 0 /\ Look(c)
    /\ Terminate(file, {}) /\ Goto(c, "unlink")
    /\ UNCHANGED <<todo, new, obj, file, crossed>>

\* and the record is gone.
Unlink(c) ==
    /\ pc[c] = "unlink" /\ Undo(c) /\ Forget(c)
    /\ UNCHANGED <<box, lost>>

Machines == Boot \/ PowerOff \/ Reclaim

Starting(u) == TryZone(u) \/ Note(u) \/ Ready(u) \/ NeverReady(u)

Cli ==
    \E c \in Clis :
       \/ CmdStart(c) \/ Starting(c) \/ Unregister(c) \/ OpenRecord(c) \/ WriteRecord(c)
       \/ CmdStop(c) \/ Unlink(c) \/ Interrupt(c) \/ Killed(c)

-----------------------------------------------------------------------------
ServerTypeOK ==
    /\ \A i \in Ids :
          /\ box[i].st \in {"none", "up", "gone"} /\ box[i].says \in {"none", "READY", "FAILED"}
          /\ box[i].zone \in Zones <=> box[i].st # "none"
    /\ file \in {0} \cup Ids /\ lost \subseteq Ids /\ crossed \subseteq Ids
    /\ \A u \in Users :
          /\ pc[u] \in {"off", "idle", "zones", "accepted", "await", "started"}
                         \cup (IF u \in Clis THEN {"open", "write", "unlink"} ELSE {})
          /\ todo[u] \subseteq Zones /\ new[u] \in {0} \cup Ids
          /\ new[u] # 0 <=> pc[u] = "accepted"
          /\ obj[u].ip \in {0, obj[u].iid} /\ saw[u] \in {0} \cup Ids

\* A server that runs is held by the process that launched it, or is on record for
\* nginx-server.py stop; but for what a process that was killed held, what an interrupt
\* found between two notes, what EC2 failed to end or to describe, and a server whose record
\* was undone or written over by an nginx-server.py that had looked before it was there: two
\* starts that overlap, or a stop that overlaps one, leave such a server.  HttpServer.stop
\* and atexit, the build that replaces a server, and cmd_start's look at the record.
ServersHaveAnOwner ==
    \A i \in Ids \ (lost \cup crossed) :
       Up(i) => i = file \/ \E u \in Users : i \in {new[u], obj[u].iid}
=============================================================================
