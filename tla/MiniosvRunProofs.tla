--------------------------- MODULE MiniosvRunProofs ---------------------------
(***************************************************************************)
(* Any sweep, any number of zones and servers, whatever the operator does  *)
(* meanwhile: a server that runs has an owner, a row names the server its  *)
(* bytes came from and the cell its image was built for, and a run leaves  *)
(* nothing behind unsaid.  A process knows of a server exactly in the      *)
(* steps between the launch and its end; what was baked into the image is  *)
(* the built cell and the address the driver has, until the next build;    *)
(* and what the guest booted is what was baked.                            *)
(***************************************************************************)
EXTENDS MiniosvRun, TLAPS

(***************************************************************************)
(* The servers.                                                            *)
(***************************************************************************)
Machine == [st : {"none", "up", "gone"}, zone : Zones \cup {"none"},
            says : {"none", "READY", "FAILED"}]
Object == [iid : {0} \cup Ids, ip : {0} \cup Ids, zone : Zones \cup {"none"}, atexit : BOOLEAN]
Coming == {"zones", "accepted", "await", "started"}
Pcs == {"off", "idle", "open", "write", "unlink"} \cup Coming

Launched(i) == i \in Ids /\ box[i].st # "none"

BoxOK ==
    box \in [Ids -> Machine] /\ \A i \in Ids : box[i].zone \in Zones <=> box[i].st # "none"
RecordTypes ==
    file \in {0} \cup Ids /\ saw \in [Users -> {0} \cup Ids] /\ crossed \subseteq Ids
Types ==
    /\ BoxOK
    /\ pc \in [Users -> Pcs] /\ pc["driver"] \notin {"open", "write", "unlink"}
    /\ todo \in [Users -> SUBSET Zones]
    /\ new \in [Users -> {0} \cup Ids] /\ obj \in [Users -> Object]
    /\ RecordTypes /\ lost \subseteq Ids

\* What a process holds, by where it is.
Held(u) ==
    /\ new[u] # 0 <=> pc[u] = "accepted"
    /\ new[u] # 0 => Launched(new[u])
    /\ obj[u].iid # 0 => Launched(obj[u].iid) /\ obj[u].zone = box[obj[u].iid].zone
    /\ obj[u].ip \in {0, obj[u].iid}
    /\ pc[u] \in {"off", "unlink"} => obj[u] = NoServer
    /\ pc[u] \in Coming => obj[u].atexit
    /\ pc[u] \in {"zones", "accepted"} => obj[u].iid = 0
    /\ pc[u] \in {"await", "started", "open", "write"} => obj[u].iid # 0
    /\ pc[u] \in {"started", "open", "write"} => obj[u].ip = obj[u].iid
    /\ pc[u] \in {"open", "write"} => ~obj[u].atexit
    /\ pc[u] = "idle" =>
          obj[u] = NoServer \/ (obj[u].atexit /\ obj[u].iid # 0 /\ obj[u].ip = obj[u].iid)

\* A process that looked at the record goes on only if nobody needs what it saw any more.
RecordOK ==
    /\ file # 0 => Launched(file)
    /\ \A u \in Users : saw[u] # 0 => Launched(saw[u]) /\ (~Up(saw[u]) \/ saw[u] \in lost)

ServerInv == Types /\ (\A u \in Users : Held(u)) /\ RecordOK /\ ServersHaveAnOwner

\* Every machine keeps its zone, and none that was launched is unlaunched.
Grows == \A i \in Ids : Launched(i) => Launched(i)' /\ box'[i].zone = box[i].zone

-----------------------------------------------------------------------------
(***************************************************************************)
(* The driver, its image and its deploy.                                   *)
(***************************************************************************)
Building == {"off", "next", "server", "image", "make", "run", "deploy"}
Running == {"id", "verdict", "end", "signal", "wait", "row"}
Idle == pc["driver"] = "idle"
IsSmoltcp == sweep.arm = "smoltcp-s3"

Image == [knobs : Seq(Nat), target : {0} \cup Ids, args : Seq(Nat), ours : BOOLEAN]
Boot1 == [knobs : Seq(Nat), target : {0} \cup Ids, args : Seq(Nat), ours : BOOLEAN,
          zone : Zones \cup {"none"}, dialled : {0} \cup Ids]
Rows == [cell : Seq(Nat), query : Seq(Nat), t : Seq(Nat), complete : BOOLEAN, whole : BOOLEAN,
         interrupted : BOOLEAN, server_id : {0} \cup Ids, server_zone : Zones \cup {"none"},
         target_ip : {0} \cup Ids, boot : Boot1]

DriverTypes ==
    /\ sweep \in Sweeps /\ ip \in {0} \cup Ids /\ bzone \in Zones \cup {"none"}
    /\ dpc \in Building \cup Running /\ cell \in 1..Len(sweep.cells) + 1
    /\ built \in Seq(Nat) /\ rows \in Seq(Rows)
    /\ image \in Image
    /\ iid \in BOOLEAN /\ interrupted \in BOOLEAN /\ refused \in BOOLEAN
    /\ warned \subseteq {"image", "instance"}
DeployTypes ==
    /\ dep \in {"none", "upload", "launch", "id", "console", "teardown", "exited", "killed"}
    /\ vm \in {"none", "up", "gone"} /\ why \in {"none", "spot", "user"} /\ ami \in BOOLEAN
    /\ boot \in Boot1 /\ log \subseteq {"refused", "id", "COMPLETE", "INCOMPLETE", "crash"}
    /\ heads \in Seq(Nat) /\ said \in Nat /\ noise \in Nat

\* Where a cell is.
Places ==
    /\ pc["driver"] \in Coming => dpc = "image" /\ sweep.own
    /\ dpc \in {"server", "image"} => ~IsDuckdb
    /\ dpc = "make" => IsDuckdb
    /\ dpc \in {"deploy"} \cup Running => ~IsLinux
    /\ dpc \notin {"off", "next"} => cell <= Len(sweep.cells)
    /\ dpc \in {"run", "deploy"} \cup Running => built = Cell
    /\ dpc = "off" => built = None

\* The address a built cell has: the sweep's own server, or the operator's, verified.
Address ==
    /\ ~sweep.own \/ IsDuckdb => ~Holds
    /\ ~IsDuckdb /\ (built # None \/ dpc = "image") =>
          IF sweep.own THEN Idle => Holds
          ELSE ip = 0 \/ (Launched(ip) /\ bzone = box[ip].zone)

\* What is in the image, if nobody else has made it.
Baked ==
    /\ ~IsLinux /\ built # None /\ image.ours => image.knobs = built
    /\ IsSmoltcp /\ built # None /\ image.ours /\ Idle /\ dpc # "image" => image.target = Target
    /\ IsDuckdb /\ dpc \in {"deploy"} \cup Running => image.args \in {None, Cell}

\* No deploy but in a run.
NoDeploy ==
    dpc \in Building =>
        /\ dep = "none" /\ vm = "none" /\ why = "none" /\ ~ami /\ boot = NoBoot
        /\ log = {} /\ heads = <<>> /\ said = 0 /\ noise = 0
        /\ ~iid /\ ~interrupted /\ warned = {} /\ ~refused

Early == {"none", "upload", "launch", "id"}
\* How far a deploy is, and what it leaves.
Deployed ==
    /\ dpc \in Running => dep # "none"
    /\ dep \in Early => log = {} /\ said = 0 /\ heads = <<>> /\ noise = 0
    /\ dep \in {"none", "upload", "launch"} => vm = "none"
    /\ dep \in {"none", "upload"} => ~ami
    /\ dep \in {"id", "console"} => vm # "none"
    /\ dep = "exited" => ~ami /\ vm # "up"
    /\ vm = "gone" <=> why # "none"
    /\ interrupted => why = "spot"
    /\ "id" \in log => vm # "none"

\* What the driver knows of it, and has done.
Ending ==
    /\ iid => "id" \in log
    /\ dpc = "id" => ~iid
    /\ dpc \in {"verdict", "end"} => iid
    /\ dpc \in {"signal", "wait", "row"} /\ iid => vm = "gone" \/ refused
    /\ dpc \in {"wait", "row"} => dep \in {"teardown", "exited", "killed"}
    /\ dpc # "row" => dep # "killed"
    /\ dpc = "row" =>
          /\ dep # "teardown" /\ (dep = "killed" => "image" \in warned)
          /\ ~iid => "instance" \in warned

\* What booted is what was baked, and where it was sent.
Booted ==
    /\ dep # "none" /\ Idle => boot.zone = IF Holds THEN Own.zone ELSE bzone
    /\ dep \in {"launch", "id", "console"} \/ log # {} =>
          /\ boot.ours => boot.knobs = Cell
          /\ IsSmoltcp /\ boot.ours /\ Idle => boot.target = Target
          /\ IsDuckdb => boot.args \in {None, Cell}
    /\ boot.dialled # 0 =>
          /\ "COMPLETE" \in log /\ boot.dialled = boot.target /\ Launched(boot.target)
          /\ IsDuckdb => ~boot.ours

\* What the guest has said.
Heard ==
    /\ Len(heads) + noise = said /\ said <= Len(boot.args)
    /\ noise = 0 => \A k \in 1..said : heads[k] = boot.args[k]
    /\ IsDuckdb /\ "COMPLETE" \in log =>
          said = 0 \/ (boot.args # None /\ said = Len(boot.args))

RunInv ==
    /\ DriverTypes /\ DeployTypes /\ Places /\ Address /\ Baked /\ NoDeploy /\ Deployed
    /\ Ending /\ Booted /\ Heard

NamesItsServer(r) ==
    r.complete /\ r.boot.ours /\ r.boot.dialled # 0 =>
        /\ Launched(r.boot.dialled) /\ r.target_ip = r.boot.dialled
        /\ r.server_zone = box[r.boot.dialled].zone /\ r.boot.zone = r.server_zone
        /\ sweep.own => r.server_id = r.boot.dialled
OfItsCell(r) ==
    Valid(r) =>
        /\ IsDuckdb =>
               /\ r.boot.args = r.cell
               /\ r.whole => r.t = r.query
               /\ Len(r.cell) = 1 => r.t = r.cell
        /\ ~IsLinux /\ r.boot.ours => r.boot.knobs = r.cell

RowsOK == \A n \in DOMAIN rows : NamesItsServer(rows[n]) /\ OfItsCell(rows[n])

IInv == ServerInv /\ RunInv /\ RowsOK

-----------------------------------------------------------------------------
(***************************************************************************)
(* Steps of the servers.                                                   *)
(***************************************************************************)
LEMMA Numbers ==
    /\ Ids \subseteq Nat /\ 0 \notin Ids
    /\ Users = Clis \cup {"driver"} /\ "driver" \notin Clis
BY HttpServerAssumption DEF HttpServerAssumption, Ids, Users

LEMMA NothingHeld ==
    /\ NoServer \in Object /\ NoServer.iid = 0 /\ NoServer.ip = 0 /\ ~NoServer.atexit
    /\ NoServer.zone = "none"
BY DEF NoServer, Object

\* A machine that is off: it was up, and is what it was but for that.
LEMMA OffStep ==
    ASSUME BoxOK, NEW i \in Ids, box[i].st # "none", box' = Off(i)
    PROVE  BoxOK' /\ Grows /\ \A j \in Ids : Up(j)' <=> Up(j) /\ j # i
<1>1. box' = [box EXCEPT ![i] = [box[i] EXCEPT !.st = "gone"]] BY DEF Off
<1>2. box[i] \in Machine BY DEF BoxOK
<1>3. [box[i] EXCEPT !.st = "gone"] \in Machine BY <1>2 DEF Machine
<1>4. /\ box'[i].st = "gone" /\ box'[i].zone = box[i].zone
      /\ \A j \in Ids \ {i} : box'[j] = box[j]
  BY <1>1, <1>2 DEF BoxOK, Machine
<1>5. box' \in [Ids -> Machine] BY <1>1, <1>3 DEF BoxOK
<1>6. BoxOK' BY <1>4, <1>5 DEF BoxOK
<1>7. Grows BY <1>4 DEF Grows, Launched
<1>8. \A j \in Ids : Up(j)' <=> Up(j) /\ j # i BY <1>4 DEF Up
<1> QED BY <1>6, <1>7, <1>8

LEMMA SameBox ==
    ASSUME BoxOK, UNCHANGED box
    PROVE  BoxOK' /\ Grows /\ \A j \in Ids : Up(j)' <=> Up(j)
BY DEF BoxOK, Grows, Launched, Up

\* A process that takes no step holds what it held.
LEMMA HeldElsewhere ==
    ASSUME NEW w \in Users, Held(w), Types, Grows,
           pc'[w] = pc[w], new'[w] = new[w], obj'[w] = obj[w]
    PROVE  Held(w)'
<1>1. new[w] # 0 => Launched(new[w])' BY DEF Held, Grows, Launched
<1>2. obj[w].iid # 0 => Launched(obj[w].iid)' /\ box'[obj[w].iid].zone = box[obj[w].iid].zone
  BY DEF Held, Grows, Launched
<1> QED BY <1>1, <1>2 DEF Held

\* A step of one process: what is left to show is what it holds itself.
LEMMA UserStep ==
    ASSUME ServerInv, NEW u \in Users, BoxOK', Grows,
           NEW p \in Pcs, u = "driver" => p \notin {"open", "write", "unlink"},
           pc' = [pc EXCEPT ![u] = p],
           todo' \in [Users -> SUBSET Zones], new' \in [Users -> {0} \cup Ids],
           obj' \in [Users -> Object],
           \A w \in Users \ {u} : new'[w] = new[w] /\ obj'[w] = obj[w],
           RecordTypes', lost' \subseteq Ids,
           Held(u)'
    PROVE  Types' /\ \A w \in Users : Held(w)'
<1>1. Types /\ \A w \in Users : Held(w) BY DEF ServerInv
<1>2. pc' \in [Users -> Pcs] /\ pc'["driver"] \notin {"open", "write", "unlink"}
  <2>1. "driver" \in Users BY DEF Users
  <2> QED BY <1>1, <2>1 DEF Types
<1>3. Types' BY <1>2 DEF Types
<1>4. ASSUME NEW w \in Users, w # u PROVE Held(w)'
  <2>1. pc'[w] = pc[w] BY <1>1, <1>4 DEF Types
  <2>2. new'[w] = new[w] /\ obj'[w] = obj[w] BY <1>4
  <2>3. Held(w) BY <1>1
  <2> QED BY <1>1, <2>1, <2>2, <2>3, HeldElsewhere
<1> QED BY <1>3, <1>4

\* What the record needs of a step: a look at it goes on only where nobody needs it.
LEMMA RecordStep ==
    ASSUME RecordOK, RecordTypes, Grows, lost \subseteq lost',
           \A j \in Ids : Launched(j) /\ Up(j)' => Up(j),
           file' # 0 => Launched(file)',
           \A u \in Users : \/ saw'[u] \in {0, saw[u]}
                            \/ saw'[u] = file /\ file' = file /\ (~Up(file)' \/ file \in lost')
    PROVE  RecordOK'
<1>1. ASSUME NEW u \in Users, saw'[u] # 0
      PROVE  \E i \in Ids : saw'[u] = i /\ Launched(i)' /\ (~Up(i)' \/ i \in lost')
  <2>1. CASE saw'[u] = saw[u]
    <3>1. Launched(saw[u]) /\ (~Up(saw[u]) \/ saw[u] \in lost) BY <1>1, <2>1 DEF RecordOK
    <3>2. PICK i \in Ids : i = saw[u] BY <3>1 DEF Launched
    <3>3. Launched(i) /\ (~Up(i) \/ i \in lost) BY <3>1, <3>2
    <3>4. Launched(i)' /\ (~Up(i)' \/ i \in lost') BY <3>3 DEF Grows
    <3> QED BY <2>1, <3>2, <3>4
  <2>2. CASE saw'[u] = file /\ file' = file /\ (~Up(file)' \/ file \in lost')
    <3>1. PICK i \in Ids : i = file BY <1>1, <2>2 DEF RecordTypes
    <3>2. Launched(i) BY <1>1, <2>2, <3>1 DEF RecordOK
    <3>3. Launched(i)' BY <3>2 DEF Grows
    <3>4. ~Up(i)' \/ i \in lost' BY <2>2, <3>1 DEF Up
    <3> QED BY <2>2, <3>1, <3>3, <3>4
  <2> QED BY <1>1, <2>1, <2>2
<1>2. ASSUME NEW u \in Users, saw'[u] # 0
      PROVE  Launched(saw[u])' /\ (~Up(saw[u])' \/ saw'[u] \in lost')
  BY <1>1, <1>2 DEF Launched, Up
<1> QED BY <1>2 DEF RecordOK

LEMMA RecordStays ==
    ASSUME RecordOK, RecordTypes, Grows, UNCHANGED file, lost \subseteq lost',
           \A j \in Ids : Launched(j) /\ Up(j)' => Up(j),
           \A u \in Users : saw'[u] \in {0, saw[u]}
    PROVE  RecordOK'
<1>1. file' # 0 => Launched(file)' BY DEF RecordOK, Grows, Launched
<1> QED BY <1>1, RecordStep

\* A step of the machines, or one that nothing of the servers takes part in.
LEMMA NobodyStep ==
    ASSUME ServerInv, BoxOK', Grows, UNCHANGED <<pc, todo, new, obj, record, lost>>,
           \A j \in Ids : Up(j)' => Up(j)
    PROVE  ServerInv'
<1>1. Types /\ RecordTypes /\ RecordOK /\ \A w \in Users : Held(w) BY DEF ServerInv, Types
<1>2. UNCHANGED <<file, saw, crossed>> BY DEF record
<1>3. Types' BY <1>1, <1>2 DEF Types, RecordTypes
<1>4. \A w \in Users : Held(w)' BY <1>1, HeldElsewhere
<1>5. RecordOK' BY <1>1, <1>2, RecordStays
<1>6. ServersHaveAnOwner' BY <1>2 DEF ServerInv, ServersHaveAnOwner
<1> QED BY <1>3, <1>4, <1>5, <1>6 DEF ServerInv

LEMMA MachinesStep ==
    ASSUME ServerInv, Machines
    PROVE  ServerInv' /\ Grows /\ UNCHANGED <<pc, obj>>
<1>1. BoxOK BY DEF ServerInv, Types
<1>2. CASE Boot
  <2>1. UNCHANGED <<pc, todo, new, obj, record, lost>> BY <1>2 DEF Boot
  <2>2. PICK i \in Ids, s \in {"READY", "FAILED"} :
            Up(i) /\ box' = [box EXCEPT ![i].says = s]
    BY <1>2 DEF Boot
  <2>3. box[i] \in Machine BY <1>1 DEF BoxOK
  <2>4. [box[i] EXCEPT !.says = s] \in Machine BY <2>3 DEF Machine
  <2>5. box' = [box EXCEPT ![i] = [box[i] EXCEPT !.says = s]] BY <2>2
  <2>6. /\ box'[i].st = box[i].st /\ box'[i].zone = box[i].zone
        /\ \A j \in Ids \ {i} : box'[j] = box[j]
    BY <1>1, <2>3, <2>5 DEF BoxOK, Machine
  <2>7. box' \in [Ids -> Machine] BY <1>1, <2>4, <2>5 DEF BoxOK
  <2>8. BoxOK' BY <1>1, <2>6, <2>7 DEF BoxOK
  <2>9. Grows BY <2>6 DEF Grows, Launched
  <2>10. \A j \in Ids : Up(j)' => Up(j) BY <2>6 DEF Up
  <2> QED BY <2>1, <2>8, <2>9, <2>10, NobodyStep
<1>3. CASE PowerOff \/ Reclaim
  <2>1. UNCHANGED <<pc, todo, new, obj, record, lost>> BY <1>3 DEF PowerOff, Reclaim
  <2>2. PICK i \in Ids : Up(i) /\ box' = Off(i) BY <1>3 DEF PowerOff, Reclaim
  <2>3. box[i].st # "none" BY <2>2 DEF Up
  <2>4. BoxOK' /\ Grows /\ \A j \in Ids : Up(j)' <=> Up(j) /\ j # i BY <1>1, <2>2, <2>3, OffStep
  <2> QED BY <2>1, <2>4, NobodyStep
<1> QED BY <1>2, <1>3 DEF Machines

\* A server is terminated, or EC2 failed to: it is off, or nobody can help it.
LEMMA TerminateStep ==
    ASSUME ServerInv, NEW i, Launched(i), NEW d \in SUBSET Ids, Terminate(i, d)
    PROVE  /\ BoxOK' /\ Grows /\ lost' \subseteq Ids /\ lost \cup d \subseteq lost'
           /\ \A j \in Ids : Up(j)' => Up(j)
           /\ ~Up(i)' \/ i \in lost'
<1>1. BoxOK /\ lost \subseteq Ids /\ i \in Ids /\ box[i].st # "none"
  BY DEF ServerInv, Types, Launched
<1>2. CASE box' = Off(i) /\ lost' = lost \cup d BY <1>1, <1>2, OffStep
<1>3. CASE UNCHANGED box /\ lost' = lost \cup d \cup {i} BY <1>1, <1>3, SameBox
<1> QED BY <1>2, <1>3 DEF Terminate

\* A process ends: what it held is off, or lost, or on record.
LEMMA ForgetStep ==
    ASSUME ServerInv, NEW u \in Users, Forget(u), UNCHANGED <<file, crossed>>, BoxOK', Grows,
           lost \subseteq lost', lost' \subseteq Ids,
           \A j \in Ids : Up(j)' => Up(j),
           \A j \in {new[u], obj[u].iid} \ {0, file} : ~Up(j)' \/ j \in lost'
    PROVE  ServerInv' /\ pc'[u] = "off" /\ obj'[u] = NoServer
           /\ \A w \in Users \ {u} : pc'[w] = pc[w] /\ obj'[w] = obj[w]
<1>1. /\ Types /\ RecordOK /\ ServersHaveAnOwner
      /\ pc \in [Users -> Pcs] /\ todo \in [Users -> SUBSET Zones]
      /\ new \in [Users -> {0} \cup Ids] /\ obj \in [Users -> Object]
      /\ RecordTypes
  BY DEF ServerInv, Types
<1>2. /\ pc' = [pc EXCEPT ![u] = "off"] /\ todo' = [todo EXCEPT ![u] = {}]
      /\ new' = [new EXCEPT ![u] = 0] /\ obj' = [obj EXCEPT ![u] = NoServer]
      /\ saw' = [saw EXCEPT ![u] = 0]
  BY DEF Forget, Goto
<1>3. /\ pc'[u] = "off" /\ new'[u] = 0 /\ obj'[u] = NoServer
      /\ \A w \in Users \ {u} : pc'[w] = pc[w] /\ new'[w] = new[w] /\ obj'[w] = obj[w]
  BY <1>1, <1>2
<1>4. /\ new' \in [Users -> {0} \cup Ids] /\ obj' \in [Users -> Object]
      /\ todo' \in [Users -> SUBSET Zones] /\ RecordTypes'
  BY <1>1, <1>2, NothingHeld DEF RecordTypes
<1>5. Held(u)' BY <1>3, NothingHeld DEF Held, Coming
<1>6. "off" \in Pcs BY DEF Pcs
<1>7. Types' /\ \A w \in Users : Held(w)' BY <1>1, <1>2, <1>3, <1>4, <1>5, <1>6, UserStep
<1>8. RecordOK'
  <2>1. \A w \in Users : saw'[w] \in {0, saw[w]} BY <1>1, <1>2 DEF RecordTypes
  <2> QED BY <1>1, <2>1, RecordStays
<1>9. ServersHaveAnOwner'
  <2> SUFFICES ASSUME NEW i \in Ids \ (lost' \cup crossed'), Up(i)'
               PROVE  i = file' \/ \E w \in Users : i \in {new'[w], obj'[w].iid}
    BY DEF ServersHaveAnOwner
  <2>1. i = file \/ \E w \in Users : i \in {new[w], obj[w].iid} BY <1>1 DEF ServersHaveAnOwner
  <2>2. i # 0 BY Numbers
  <2>3. i # file => i \notin {new[u], obj[u].iid} BY <2>2
  <2> QED BY <1>3, <2>1, <2>3
<1> QED BY <1>3, <1>7, <1>8, <1>9 DEF ServerInv

LEMMA QuitStep ==
    ASSUME ServerInv, NEW u \in Users, NEW d, Quit(u, d),
           d = Unheld(u) \/ (d = {} /\ pc[u] \in {"idle", "zones"})
    PROVE  ServerInv' /\ Grows /\ pc'[u] = "off" /\ obj'[u] = NoServer
           /\ \A w \in Users \ {u} : pc'[w] = pc[w] /\ obj'[w] = obj[w]
<1> DEFINE o == obj[u]
           n == new[u]
<1>1. Held(u) /\ BoxOK /\ lost \subseteq Ids /\ n \in {0} \cup Ids /\ o \in Object
  BY DEF ServerInv, Types
<1>2. Forget(u) /\ UNCHANGED <<file, crossed>> BY DEF Quit
<1>3. o.iid \in {0} \cup Ids /\ (o.iid # 0 => Launched(o.iid)) BY <1>1 DEF Object, Held
<1>4. n # 0 => pc[u] = "accepted" BY <1>1 DEF Held
<1>5. pc[u] \in {"idle", "zones"} => o.iid = 0 \/ o.atexit BY <1>1, NothingHeld DEF Held
<1>6. d \in SUBSET Ids
  <2>1. Unheld(u) \subseteq Ids BY <1>1, <1>3 DEF Unheld
  <2> QED BY <2>1
<1> HIDE DEF o, n
<1>7. {n, IF o.atexit THEN 0 ELSE o.iid} \ {0, file} \subseteq d
  <2>1. CASE d = Unheld(u) BY <2>1 DEF Unheld, o, n
  <2>2. CASE d = {} /\ pc[u] \in {"idle", "zones"} BY <1>4, <1>5, <2>2
  <2> QED BY <2>1, <2>2
<1>8. /\ BoxOK' /\ Grows /\ lost \subseteq lost' /\ lost' \subseteq Ids
      /\ \A j \in Ids : Up(j)' => Up(j)
      /\ \A j \in {n, o.iid} \ {0, file} : ~Up(j)' \/ j \in lost'
  <2>1. CASE o.atexit /\ o.iid # 0
    <3>1. Terminate(o.iid, d) BY <2>1 DEF Quit, o
    <3>2. PICK i \in Ids : i = o.iid BY <1>3, <2>1
    <3>3. Launched(i) /\ Terminate(i, d) BY <1>3, <2>1, <3>1, <3>2
    <3>4. /\ BoxOK' /\ Grows /\ lost' \subseteq Ids /\ lost \cup d \subseteq lost'
          /\ \A j \in Ids : Up(j)' => Up(j)
          /\ ~Up(i)' \/ i \in lost'
      BY <1>6, <3>3, TerminateStep
    <3>5. \A j \in {n, o.iid} \ {0, file} : ~Up(j)' \/ j \in lost' BY <1>7, <2>1, <3>2, <3>4
    <3> QED BY <3>4, <3>5
  <2>2. CASE ~(o.atexit /\ o.iid # 0)
    <3>1. UNCHANGED box /\ lost' = lost \cup d BY <2>2 DEF Quit, o
    <3>2. BoxOK' /\ Grows /\ \A j \in Ids : Up(j)' <=> Up(j) BY <1>1, <3>1, SameBox
    <3>3. \A j \in {n, o.iid} \ {0, file} : ~Up(j)' \/ j \in lost' BY <1>7, <2>2, <3>1
    <3> QED BY <1>1, <1>6, <3>1, <3>2, <3>3
  <2> QED BY <2>1, <2>2
<1> QED BY <1>2, <1>8, ForgetStep DEF o, n

LEMMA KilledStep ==
    ASSUME ServerInv, NEW u \in Users, Killed(u)
    PROVE  ServerInv' /\ Grows /\ pc'[u] = "off" /\ obj'[u] = NoServer
           /\ \A w \in Users \ {u} : pc'[w] = pc[w] /\ obj'[w] = obj[w]
<1>1. BoxOK /\ lost \subseteq Ids /\ new[u] \in {0} \cup Ids /\ obj[u].iid \in {0} \cup Ids
  BY DEF ServerInv, Types, Object
<1>2. /\ lost' = lost \cup ({new[u], obj[u].iid} \ {0, file})
      /\ Forget(u) /\ UNCHANGED <<box, file, crossed>>
  BY DEF Killed
<1>3. BoxOK' /\ Grows /\ \A j \in Ids : Up(j)' <=> Up(j) BY <1>1, <1>2, SameBox
<1>4. lost \subseteq lost' /\ lost' \subseteq Ids BY <1>1, <1>2
<1>5. \A j \in {new[u], obj[u].iid} \ {0, file} : ~Up(j)' \/ j \in lost' BY <1>2
<1> QED BY <1>2, <1>3, <1>4, <1>5, ForgetStep

LEMMA StartServerStep ==
    ASSUME ServerInv, NEW u \in Users, StartServer(u), UNCHANGED <<file, crossed>>, BoxOK', Grows,
           lost \subseteq lost', lost' \subseteq Ids,
           \A j \in Ids : Up(j)' => Up(j),
           new[u] = 0, \A j \in {obj[u].iid} \ {0} : ~Up(j)' \/ j \in lost',
           saw' = saw \/ (saw' = [saw EXCEPT ![u] = file] /\ (~Up(file)' \/ file \in lost'))
    PROVE  ServerInv' /\ pc'[u] = "zones" /\ obj'[u].atexit
           /\ \A w \in Users \ {u} : pc'[w] = pc[w] /\ obj'[w] = obj[w]
<1> DEFINE o == [NoServer EXCEPT !.atexit = TRUE]
<1>1. /\ Types /\ RecordOK /\ ServersHaveAnOwner
      /\ pc \in [Users -> Pcs] /\ todo \in [Users -> SUBSET Zones]
      /\ new \in [Users -> {0} \cup Ids] /\ obj \in [Users -> Object]
      /\ RecordTypes
  BY DEF ServerInv, Types
<1>2. /\ pc' = [pc EXCEPT ![u] = "zones"] /\ todo' = [todo EXCEPT ![u] = Zones]
      /\ new' = new /\ obj' = [obj EXCEPT ![u] = o]
  BY DEF StartServer, Goto
<1>3. o \in Object /\ o.iid = 0 /\ o.ip = 0 /\ o.atexit BY DEF NoServer, Object
<1> HIDE DEF o
<1>4. /\ pc'[u] = "zones" /\ new'[u] = 0 /\ obj'[u] = o
      /\ \A w \in Users \ {u} : pc'[w] = pc[w] /\ new'[w] = new[w] /\ obj'[w] = obj[w]
  BY <1>1, <1>2
<1>5. obj' \in [Users -> Object] /\ todo' \in [Users -> SUBSET Zones] /\ RecordTypes'
  BY <1>1, <1>2, <1>3 DEF RecordTypes
<1>6. Held(u)' BY <1>3, <1>4 DEF Held, Coming
<1>7. "zones" \in Pcs BY DEF Pcs, Coming
<1>8. Types' /\ \A w \in Users : Held(w)'
  BY <1>1, <1>2, <1>4, <1>5, <1>6, <1>7, UserStep
<1>9. RecordOK'
  <2>1. file' # 0 => Launched(file)' BY <1>1 DEF RecordOK, Grows, Launched
  <2>2. \A w \in Users : \/ saw'[w] \in {0, saw[w]}
                         \/ saw'[w] = file /\ file' = file /\ (~Up(file)' \/ file \in lost')
    BY <1>1 DEF RecordTypes
  <2> QED BY <1>1, <2>1, <2>2, RecordStep
<1>10. ServersHaveAnOwner'
  <2> SUFFICES ASSUME NEW i \in Ids \ (lost' \cup crossed'), Up(i)'
               PROVE  i = file' \/ \E w \in Users : i \in {new'[w], obj'[w].iid}
    BY DEF ServersHaveAnOwner
  <2>1. i = file \/ \E w \in Users : i \in {new[w], obj[w].iid} BY <1>1 DEF ServersHaveAnOwner
  <2>2. i # 0 BY Numbers
  <2>3. i \notin {new[u], obj[u].iid} BY <2>2
  <2> QED BY <1>4, <2>1, <2>3
<1> QED BY <1>3, <1>4, <1>8, <1>9, <1>10 DEF ServerInv

\* A process that changes what it holds, and neither machine nor record.
LEMMA OwnStep ==
    ASSUME ServerInv, NEW u \in Users, UNCHANGED <<box, record, lost>>,
           NEW p \in Pcs, u = "driver" => p \notin {"open", "write", "unlink"},
           pc' = [pc EXCEPT ![u] = p],
           todo' \in [Users -> SUBSET Zones], new' \in [Users -> {0} \cup Ids],
           obj' \in [Users -> Object],
           \A w \in Users \ {u} : new'[w] = new[w] /\ obj'[w] = obj[w],
           Held(u)',
           {new[u], obj[u].iid} \subseteq {0, new'[u], obj'[u].iid}
    PROVE  ServerInv' /\ Grows
           /\ \A w \in Users \ {u} : pc'[w] = pc[w] /\ obj'[w] = obj[w]
<1>1. Types /\ RecordOK /\ ServersHaveAnOwner /\ pc \in [Users -> Pcs]
      /\ lost \subseteq Ids /\ RecordTypes /\ BoxOK /\ UNCHANGED <<file, saw, crossed>>
  BY DEF ServerInv, Types, record
<1>2. BoxOK' /\ Grows /\ \A j \in Ids : Up(j)' <=> Up(j) BY <1>1, SameBox
<1>3. Types' /\ \A w \in Users : Held(w)'
  <2>1. RecordTypes' BY <1>1 DEF RecordTypes
  <2> QED BY <1>1, <1>2, <2>1, UserStep
<1>5. RecordOK' BY <1>1, <1>2, RecordStays
<1>6. ServersHaveAnOwner'
  <2> SUFFICES ASSUME NEW i \in Ids \ (lost' \cup crossed'), Up(i)'
               PROVE  i = file' \/ \E w \in Users : i \in {new'[w], obj'[w].iid}
    BY DEF ServersHaveAnOwner
  <2>1. i = file \/ \E w \in Users : i \in {new[w], obj[w].iid}
    BY <1>1, <1>2 DEF ServersHaveAnOwner
  <2>2. i # 0 BY Numbers
  <2>3. CASE i \in {new[u], obj[u].iid} BY <2>2, <2>3
  <2>4. CASE i \notin {new[u], obj[u].iid} BY <1>1, <2>1, <2>4
  <2> QED BY <2>3, <2>4
<1>7. \A w \in Users \ {u} : pc'[w] = pc[w] BY <1>1
<1> QED BY <1>2, <1>3, <1>5, <1>6, <1>7 DEF ServerInv

LEMMA TryZoneStep ==
    ASSUME ServerInv, NEW u \in Users, TryZone(u)
    PROVE  ServerInv' /\ Grows /\ ((pc'[u] = "off" /\ obj'[u] = NoServer) \/ pc'[u] \in Coming)
           /\ \A w \in Users \ {u} : pc'[w] = pc[w] /\ obj'[w] = obj[w]
<1>1. /\ Types /\ RecordOK /\ ServersHaveAnOwner /\ Held(u) /\ BoxOK
      /\ pc \in [Users -> Pcs] /\ todo \in [Users -> SUBSET Zones]
      /\ new \in [Users -> {0} \cup Ids] /\ obj \in [Users -> Object]
      /\ RecordTypes /\ lost \subseteq Ids
  BY DEF ServerInv, Types
<1>2. pc[u] = "zones" /\ new[u] = 0 /\ obj[u].iid = 0 /\ obj[u].atexit /\ obj[u].ip = 0
  BY <1>1 DEF TryZone, Held, Coming
<1>3. PICK z \in todo[u] :
          \/ \E i \in Unused :
                /\ box' = [box EXCEPT ![i] = [st |-> "up", zone |-> z, says |-> "none"]]
                /\ new' = [new EXCEPT ![u] = i] /\ Goto(u, "accepted")
                /\ UNCHANGED <<todo, obj, record, lost>>
          \/ todo' = [todo EXCEPT ![u] = @ \ {z}] /\ UNCHANGED <<box, pc, new, obj, record, lost>>
          \/ Exit(u)
  BY DEF TryZone
<1>4. z \in Zones BY <1>1
<1>5. ASSUME NEW i \in Unused,
             box' = [box EXCEPT ![i] = [st |-> "up", zone |-> z, says |-> "none"]],
             new' = [new EXCEPT ![u] = i], Goto(u, "accepted"), UNCHANGED <<todo, obj, record, lost>>
      PROVE  ServerInv' /\ Grows /\ pc'[u] \in Coming
             /\ \A w \in Users \ {u} : pc'[w] = pc[w] /\ obj'[w] = obj[w]
  <2> DEFINE m == [st |-> "up", zone |-> z, says |-> "none"]
  <2>1. i \in Ids /\ box[i].st = "none" /\ i # 0 BY Numbers DEF Unused
  <2>2. m \in Machine /\ m.st # "none" /\ m.zone \in Zones BY <1>4 DEF Machine
  <2>3. box' = [box EXCEPT ![i] = m] BY <1>5
  <2> HIDE DEF m
  <2>4. box'[i] = m /\ \A j \in Ids \ {i} : box'[j] = box[j] BY <1>1, <2>1, <2>3 DEF BoxOK
  <2>5. box' \in [Ids -> Machine] BY <1>1, <2>1, <2>2, <2>3 DEF BoxOK
  <2>6. BoxOK' BY <1>1, <2>2, <2>4, <2>5 DEF BoxOK
  <2>7. Grows BY <2>1, <2>4 DEF Grows, Launched
  <2>8. /\ pc' = [pc EXCEPT ![u] = "accepted"] /\ "accepted" \in Pcs
        /\ pc'[u] = "accepted" /\ new'[u] = i /\ obj' = obj
        /\ \A w \in Users \ {u} : pc'[w] = pc[w] /\ new'[w] = new[w]
    BY <1>1, <1>5 DEF Goto, Pcs, Coming
  <2>9. new' \in [Users -> {0} \cup Ids] BY <1>1, <1>5, <2>1
  <2>10. Launched(i)' BY <2>1, <2>2, <2>4 DEF Launched
  <2>11. Held(u)' BY <1>2, <2>1, <2>8, <2>10 DEF Held, Coming
  <2>12. Types' /\ \A w \in Users : Held(w)'
    <3>1. RecordTypes' BY <1>1, <1>5 DEF record, RecordTypes
    <3> QED BY <1>1, <1>5, <2>6, <2>7, <2>8, <2>9, <2>11, <3>1, UserStep
  <2>13. RecordOK'
    <3>1. UNCHANGED <<file, saw, lost>> BY <1>5 DEF record
    <3>2. \A j \in Ids : Launched(j) /\ Up(j)' => Up(j) BY <2>1, <2>4 DEF Launched, Up
    <3> QED BY <1>1, <2>7, <3>1, <3>2, RecordStays
  <2>14. ServersHaveAnOwner'
    <3> SUFFICES ASSUME NEW j \in Ids \ (lost' \cup crossed'), Up(j)'
                 PROVE  j = file' \/ \E w \in Users : j \in {new'[w], obj'[w].iid}
      BY DEF ServersHaveAnOwner
    <3>1. CASE j = i BY <2>8, <3>1
    <3>2. CASE j # i
      <4>1. Up(j) BY <2>4, <3>2 DEF Up
      <4>2. j = file \/ \E w \in Users : j \in {new[w], obj[w].iid}
        BY <1>1, <1>5, <4>1 DEF ServersHaveAnOwner, record
      <4>3. j # 0 BY Numbers
      <4> QED BY <1>2, <1>5, <2>8, <4>2, <4>3 DEF record
    <3> QED BY <3>1, <3>2
  <2> QED BY <2>7, <2>8, <2>12, <2>13, <2>14 DEF ServerInv, Coming
<1>6. ASSUME todo' = [todo EXCEPT ![u] = @ \ {z}], UNCHANGED <<box, pc, new, obj, record, lost>>
      PROVE  ServerInv' /\ Grows /\ pc'[u] \in Coming
             /\ \A w \in Users \ {u} : pc'[w] = pc[w] /\ obj'[w] = obj[w]
  <2>1. BoxOK' /\ Grows /\ \A j \in Ids : Up(j)' <=> Up(j) BY <1>1, <1>6, SameBox
  <2>2. todo' \in [Users -> SUBSET Zones] BY <1>1, <1>6
  <2>3. Types' BY <1>1, <1>6, <2>1, <2>2 DEF Types, RecordTypes, record
  <2>4. \A w \in Users : Held(w)' BY <1>1, <1>6, <2>1, HeldElsewhere DEF ServerInv
  <2>5. RecordOK' BY <1>1, <1>6 DEF RecordOK, Launched, Up, record
  <2>6. ServersHaveAnOwner' BY <1>1, <1>6 DEF ServersHaveAnOwner, Up, record
  <2> QED BY <1>2, <1>6, <2>1, <2>3, <2>4, <2>5, <2>6 DEF ServerInv, Coming
<1>7. CASE Exit(u) BY <1>2, <1>7, QuitStep DEF Exit
<1> QED BY <1>3, <1>5, <1>6, <1>7

LEMMA NoteStep ==
    ASSUME ServerInv, NEW u \in Users, Note(u)
    PROVE  ServerInv' /\ Grows /\ pc'[u] \in Coming
           /\ \A w \in Users \ {u} : pc'[w] = pc[w] /\ obj'[w] = obj[w]
<1>1. /\ Types /\ Held(u) /\ pc \in [Users -> Pcs] /\ todo \in [Users -> SUBSET Zones]
      /\ new \in [Users -> {0} \cup Ids] /\ obj \in [Users -> Object] /\ box \in [Ids -> Machine]
  BY DEF ServerInv, Types, BoxOK
<1>i. PICK i \in Ids : i = new[u] /\ Launched(i)
  BY <1>1 DEF Note, Held, Launched
<1> DEFINE o == [obj[u] EXCEPT !.iid = i, !.zone = box[i].zone]
<1>2. /\ pc[u] = "accepted" /\ obj' = [obj EXCEPT ![u] = o]
      /\ new' = [new EXCEPT ![u] = 0] /\ pc' = [pc EXCEPT ![u] = "await"]
      /\ UNCHANGED <<box, todo, record, lost>>
  BY <1>i DEF Note, Goto
<1>3. /\ i # 0 /\ obj[u].iid = 0 /\ obj[u].ip = 0 /\ obj[u].atexit
      /\ obj[u] \in Object
  BY <1>1, <1>2, Numbers DEF Held, Coming
<1>4. box[i].zone \in Zones \cup {"none"} BY <1>1 DEF Machine
<1>5. o \in Object /\ o.iid = i /\ o.zone = box[i].zone /\ o.ip = 0 /\ o.atexit
  BY <1>3, <1>4 DEF Object
<1> HIDE DEF o
<1>6. /\ pc'[u] = "await" /\ new'[u] = 0 /\ obj'[u] = o
      /\ \A w \in Users \ {u} : new'[w] = new[w] /\ obj'[w] = obj[w]
      /\ obj' \in [Users -> Object] /\ new' \in [Users -> {0} \cup Ids]
      /\ "await" \in Pcs
  BY <1>1, <1>5, <1>2 DEF Pcs, Coming
<1>7. Held(u)'
  <2>1. Launched(i)' /\ box'[i].zone = box[i].zone BY <1>i, <1>2 DEF Launched
  <2> QED BY <1>3, <1>5, <1>6, <2>1 DEF Held, Coming
<1>8. {new[u], obj[u].iid} \subseteq {0, new'[u], obj'[u].iid} BY <1>i, <1>3, <1>5, <1>6
<1> QED BY <1>1, <1>6, <1>7, <1>8, <1>2, OwnStep DEF Coming

LEMMA ReadyStep ==
    ASSUME ServerInv, NEW u \in Users, Ready(u)
    PROVE  ServerInv' /\ Grows /\ pc'[u] \in Coming
           /\ \A w \in Users \ {u} : pc'[w] = pc[w] /\ obj'[w] = obj[w]
<1> DEFINE o == [obj[u] EXCEPT !.ip = obj[u].iid]
<1>1. /\ Types /\ Held(u) /\ pc \in [Users -> Pcs] /\ todo \in [Users -> SUBSET Zones]
      /\ new \in [Users -> {0} \cup Ids] /\ obj \in [Users -> Object]
  BY DEF ServerInv, Types
<1>2. /\ pc[u] = "await" /\ obj' = [obj EXCEPT ![u] = o]
      /\ pc' = [pc EXCEPT ![u] = "started"] /\ todo' = [todo EXCEPT ![u] = {}]
      /\ UNCHANGED <<box, new, record, lost>>
  BY DEF Ready, Goto
<1>3. /\ obj[u].iid # 0 /\ Launched(obj[u].iid) /\ obj[u].zone = box[obj[u].iid].zone
      /\ obj[u].atexit /\ obj[u] \in Object /\ new[u] = 0
  BY <1>1, <1>2 DEF Held, Coming
<1>4. o \in Object /\ o.iid = obj[u].iid /\ o.zone = obj[u].zone /\ o.ip = o.iid /\ o.atexit
  BY <1>3 DEF Object
<1> HIDE DEF o
<1>5. /\ pc'[u] = "started" /\ new'[u] = 0 /\ obj'[u] = o
      /\ \A w \in Users \ {u} : obj'[w] = obj[w]
      /\ obj' \in [Users -> Object] /\ todo' \in [Users -> SUBSET Zones]
      /\ "started" \in Pcs
  BY <1>1, <1>2, <1>3, <1>4 DEF Pcs, Coming
<1>6. Held(u)' BY <1>2, <1>3, <1>4, <1>5 DEF Held, Coming, Launched
<1>7. {new[u], obj[u].iid} \subseteq {0, new'[u], obj'[u].iid} BY <1>3, <1>4, <1>5
<1> QED BY <1>1, <1>2, <1>5, <1>6, <1>7, OwnStep DEF Coming

LEMMA NeverReadyStep ==
    ASSUME ServerInv, NEW u \in Users, NeverReady(u)
    PROVE  ServerInv' /\ Grows /\ pc'[u] = "off" /\ obj'[u] = NoServer
           /\ \A w \in Users \ {u} : pc'[w] = pc[w] /\ obj'[w] = obj[w]
<1>1. Held(u) /\ pc[u] = "await" /\ lost \subseteq Ids BY DEF ServerInv, Types, NeverReady
<1>2. new[u] = 0 /\ obj[u].iid # 0 /\ Launched(obj[u].iid) BY <1>1 DEF Held
<1>3. PICK i \in Ids : i = obj[u].iid BY <1>2 DEF Launched
<1>4. Launched(i) /\ Terminate(i, {}) BY <1>2, <1>3 DEF NeverReady
<1>5. /\ BoxOK' /\ Grows /\ lost' \subseteq Ids /\ lost \cup {} \subseteq lost'
      /\ \A j \in Ids : Up(j)' => Up(j)
      /\ ~Up(i)' \/ i \in lost'
  BY <1>4, TerminateStep
<1>6. \A j \in {new[u], obj[u].iid} \ {0, file} : ~Up(j)' \/ j \in lost' BY <1>2, <1>3, <1>5
<1>7. Forget(u) /\ UNCHANGED <<file, crossed>> BY DEF NeverReady
<1> QED BY <1>5, <1>6, <1>7, ForgetStep

LEMMA StartingStep ==
    ASSUME ServerInv, NEW u \in Users, Starting(u)
    PROVE  ServerInv' /\ Grows /\ ((pc'[u] = "off" /\ obj'[u] = NoServer) \/ pc'[u] \in Coming)
           /\ \A w \in Users \ {u} : pc'[w] = pc[w] /\ obj'[w] = obj[w]
<1>1. CASE TryZone(u) BY <1>1, TryZoneStep
<1>2. CASE Note(u) BY <1>2, NoteStep
<1>3. CASE Ready(u) BY <1>3, ReadyStep
<1>4. CASE NeverReady(u) BY <1>4, NeverReadyStep
<1> QED BY <1>1, <1>2, <1>3, <1>4 DEF Starting

\* What a step of one nginx-server.py leaves to the others.
Others(c) == ServerInv' /\ Grows /\ \A w \in Users \ {c} : pc'[w] = pc[w] /\ obj'[w] = obj[w]

LEMMA CmdStartStep ==
    ASSUME ServerInv, NEW c \in Clis, CmdStart(c)
    PROVE  Others(c)
<1>1. /\ Types /\ Held(c) /\ BoxOK /\ lost \subseteq Ids /\ RecordTypes /\ c \in Users
  BY DEF ServerInv, Types, Users
<1>2. /\ pc[c] = "off" /\ StartServer(c) /\ UNCHANGED <<box, file, crossed>>
      /\ (~Up(file) /\ UNCHANGED lost) \/ (Up(file) /\ lost' = lost \cup {file})
      /\ saw' = [saw EXCEPT ![c] = file]
  BY DEF CmdStart, Look
<1>3. new[c] = 0 /\ obj[c].iid = 0 BY <1>1, <1>2, NothingHeld DEF Held
<1>4. BoxOK' /\ Grows /\ \A j \in Ids : Up(j)' <=> Up(j) BY <1>1, <1>2, SameBox
<1>5. lost \subseteq lost' /\ lost' \subseteq Ids BY <1>1, <1>2 DEF Up
<1>6. ~Up(file)' \/ file \in lost' BY <1>2 DEF Up
<1> QED BY <1>1, <1>2, <1>3, <1>4, <1>5, <1>6, StartServerStep DEF Others

LEMMA UnregisterStep ==
    ASSUME ServerInv, NEW c \in Clis, Unregister(c)
    PROVE  Others(c)
<1> DEFINE o == [obj[c] EXCEPT !.atexit = FALSE]
<1>1. /\ Types /\ Held(c) /\ pc \in [Users -> Pcs] /\ todo \in [Users -> SUBSET Zones]
      /\ new \in [Users -> {0} \cup Ids] /\ obj \in [Users -> Object] /\ c \in Users
      /\ c # "driver"
  BY Numbers DEF ServerInv, Types
<1>2. /\ pc[c] = "started" /\ obj' = [obj EXCEPT ![c] = o] /\ pc' = [pc EXCEPT ![c] = "open"]
      /\ UNCHANGED <<box, todo, new, record, lost>>
  BY DEF Unregister, Goto
<1>3. /\ obj[c].iid # 0 /\ Launched(obj[c].iid) /\ obj[c].zone = box[obj[c].iid].zone
      /\ obj[c].ip = obj[c].iid /\ obj[c] \in Object /\ new[c] = 0
  BY <1>1, <1>2 DEF Held, Coming
<1>4. o \in Object /\ o.iid = obj[c].iid /\ o.zone = obj[c].zone /\ o.ip = o.iid /\ ~o.atexit
  BY <1>3 DEF Object
<1> HIDE DEF o
<1>5. /\ pc'[c] = "open" /\ new'[c] = 0 /\ obj'[c] = o
      /\ \A w \in Users \ {c} : obj'[w] = obj[w]
      /\ obj' \in [Users -> Object] /\ "open" \in Pcs
  BY <1>1, <1>2, <1>3, <1>4 DEF Pcs
<1>6. Held(c)' BY <1>2, <1>3, <1>4, <1>5 DEF Held, Coming, Launched
<1>7. {new[c], obj[c].iid} \subseteq {0, new'[c], obj'[c].iid} BY <1>3, <1>4, <1>5
<1> QED BY <1>1, <1>2, <1>5, <1>6, <1>7, OwnStep DEF Others

\* The record goes: it was of a server that nobody needs any more, if it is what was seen,
\* and otherwise it is told.
LEMMA UndoStep ==
    ASSUME ServerInv, NEW c \in Clis, Undo(c), UNCHANGED <<box, lost>>
    PROVE  /\ BoxOK' /\ Grows /\ file' \in {0} \cup Ids /\ crossed' \subseteq Ids
           /\ file' = 0 /\ crossed \subseteq crossed'
           /\ \A i \in Ids \ (lost' \cup crossed') :
                 Up(i)' => \E w \in Users : i \in {new[w], obj[w].iid}
<1>1. /\ BoxOK /\ RecordTypes /\ RecordOK /\ ServersHaveAnOwner /\ c \in Users
  BY DEF ServerInv, Types, Users
<1>2. BoxOK' /\ Grows /\ \A j \in Ids : Up(j)' <=> Up(j) BY <1>1, SameBox
<1>3. file' = 0 /\ crossed' = crossed \cup ({file} \ {0, saw[c]}) BY DEF Undo
<1>4. ASSUME NEW i \in Ids \ (lost' \cup crossed'), Up(i)'
      PROVE  \E w \in Users : i \in {new[w], obj[w].iid}
  <2>1. Up(i) /\ i \notin lost /\ i \notin crossed BY <1>2, <1>3, <1>4
  <2>2. i = file \/ \E w \in Users : i \in {new[w], obj[w].iid}
    BY <1>1, <2>1 DEF ServersHaveAnOwner
  <2>3. i # 0 BY Numbers
  <2>4. i # file
    <3> SUFFICES ASSUME i = file PROVE FALSE OBVIOUS
    <3>1. i = saw[c] BY <1>3, <1>4, <2>3
    <3> QED BY <1>1, <2>1, <2>3, <3>1 DEF RecordOK
  <2> QED BY <2>2, <2>4
<1> QED BY <1>1, <1>2, <1>3, <1>4 DEF RecordTypes

LEMMA OpenRecordStep ==
    ASSUME ServerInv, NEW c \in Clis, OpenRecord(c)
    PROVE  Others(c)
<1>1. /\ Types /\ Held(c) /\ pc \in [Users -> Pcs] /\ c \in Users /\ c # "driver"
      /\ todo \in [Users -> SUBSET Zones] /\ new \in [Users -> {0} \cup Ids]
      /\ obj \in [Users -> Object] /\ RecordOK /\ RecordTypes /\ lost \subseteq Ids /\ BoxOK
  BY Numbers DEF ServerInv, Types
<1>2. /\ pc[c] = "open" /\ pc' = [pc EXCEPT ![c] = "write"] /\ Undo(c)
      /\ UNCHANGED <<box, todo, new, obj, saw, lost>>
  BY DEF OpenRecord, Goto
<1>3. /\ BoxOK' /\ Grows /\ file' = 0 /\ crossed' \subseteq Ids
      /\ \A i \in Ids \ (lost' \cup crossed') :
            Up(i)' => \E w \in Users : i \in {new[w], obj[w].iid}
  BY <1>2, UndoStep
<1>4. /\ pc'[c] = "write" /\ "write" \in Pcs /\ RecordTypes'
      /\ \A w \in Users \ {c} : pc'[w] = pc[w]
  BY <1>1, <1>2, <1>3 DEF Pcs, RecordTypes
<1>5. Held(c)' BY <1>1, <1>2, <1>4 DEF Held, Coming, Launched
<1>6. Types' /\ \A w \in Users : Held(w)' BY <1>1, <1>2, <1>3, <1>4, <1>5, UserStep
<1>7. RecordOK' BY <1>1, <1>2, <1>3 DEF RecordOK, Launched, Up
<1>8. ServersHaveAnOwner' BY <1>2, <1>3 DEF ServersHaveAnOwner
<1> QED BY <1>2, <1>3, <1>4, <1>6, <1>7, <1>8 DEF ServerInv, Others

LEMMA UnlinkStep ==
    ASSUME ServerInv, NEW c \in Clis, Unlink(c)
    PROVE  Others(c)
<1>1. /\ Types /\ Held(c) /\ pc \in [Users -> Pcs] /\ c \in Users /\ c # "driver"
      /\ todo \in [Users -> SUBSET Zones] /\ new \in [Users -> {0} \cup Ids]
      /\ obj \in [Users -> Object] /\ RecordOK /\ RecordTypes /\ lost \subseteq Ids /\ BoxOK
  BY Numbers DEF ServerInv, Types
<1>2. /\ pc[c] = "unlink" /\ Undo(c) /\ UNCHANGED <<box, lost>>
      /\ pc' = [pc EXCEPT ![c] = "off"] /\ todo' = [todo EXCEPT ![c] = {}]
      /\ new' = [new EXCEPT ![c] = 0] /\ obj' = [obj EXCEPT ![c] = NoServer]
      /\ saw' = [saw EXCEPT ![c] = 0]
  BY DEF Unlink, Forget, Goto
<1>3. /\ BoxOK' /\ Grows /\ file' = 0 /\ crossed' \subseteq Ids
      /\ \A i \in Ids \ (lost' \cup crossed') :
            Up(i)' => \E w \in Users : i \in {new[w], obj[w].iid}
  BY <1>2, UndoStep
<1>4. new[c] = 0 /\ obj[c] = NoServer BY <1>1, <1>2 DEF Held
<1>5. new' = new /\ obj' = obj BY <1>1, <1>2, <1>4
<1>6. /\ pc'[c] = "off" /\ "off" \in Pcs /\ RecordTypes'
      /\ \A w \in Users \ {c} : pc'[w] = pc[w]
      /\ todo' \in [Users -> SUBSET Zones]
  BY <1>1, <1>2, <1>3 DEF Pcs, RecordTypes
<1>7. Held(c)' BY <1>4, <1>5, <1>6, NothingHeld DEF Held, Coming
<1>8. Types' /\ \A w \in Users : Held(w)' BY <1>1, <1>2, <1>3, <1>5, <1>6, <1>7, UserStep
<1>9. RecordOK'
  <2>1. \A w \in Users : saw'[w] \in {0, saw[w]} BY <1>1, <1>2 DEF RecordTypes
  <2>2. \A j \in Ids : Launched(j) /\ Up(j)' => Up(j) BY <1>2 DEF Up
  <2> QED BY <1>1, <1>2, <1>3, <2>1, <2>2, RecordStep
<1>10. ServersHaveAnOwner' BY <1>3, <1>5 DEF ServersHaveAnOwner
<1> QED BY <1>3, <1>5, <1>6, <1>8, <1>9, <1>10 DEF ServerInv, Others

LEMMA WriteRecordStep ==
    ASSUME ServerInv, NEW c \in Clis, WriteRecord(c)
    PROVE  Others(c)
<1>1. /\ Types /\ Held(c) /\ pc \in [Users -> Pcs] /\ c \in Users /\ c # "driver"
      /\ todo \in [Users -> SUBSET Zones] /\ new \in [Users -> {0} \cup Ids]
      /\ obj \in [Users -> Object] /\ RecordOK /\ RecordTypes /\ lost \subseteq Ids /\ BoxOK
      /\ ServersHaveAnOwner
  BY Numbers DEF ServerInv, Types
<1>2. /\ pc[c] = "write" /\ UNCHANGED <<box, lost>>
      /\ file' \in {obj[c].iid, 0} /\ crossed' = crossed \cup ({file, obj[c].iid} \ {0, file'})
      /\ pc' = [pc EXCEPT ![c] = "off"] /\ todo' = [todo EXCEPT ![c] = {}]
      /\ new' = [new EXCEPT ![c] = 0] /\ obj' = [obj EXCEPT ![c] = NoServer]
      /\ saw' = [saw EXCEPT ![c] = 0]
  BY DEF WriteRecord, Forget, Goto
<1>3. BoxOK' /\ Grows /\ \A j \in Ids : Up(j)' <=> Up(j) BY <1>1, <1>2, SameBox
<1>4. PICK i \in Ids : i = obj[c].iid /\ Launched(i) /\ i # 0 /\ new[c] = 0
  BY <1>1, <1>2 DEF Held, Launched
<1>5. /\ pc'[c] = "off" /\ "off" \in Pcs /\ new'[c] = 0 /\ obj'[c] = NoServer
      /\ \A w \in Users \ {c} : pc'[w] = pc[w] /\ new'[w] = new[w] /\ obj'[w] = obj[w]
      /\ todo' \in [Users -> SUBSET Zones] /\ new' \in [Users -> {0} \cup Ids]
      /\ obj' \in [Users -> Object]
  BY <1>1, <1>2, NothingHeld DEF Pcs
<1>6. RecordTypes' BY <1>1, <1>2, <1>4 DEF RecordTypes
<1>7. Held(c)' BY <1>5, NothingHeld DEF Held, Coming
<1>8. Types' /\ \A w \in Users : Held(w)' BY <1>1, <1>2, <1>3, <1>5, <1>6, <1>7, UserStep
<1>9. RecordOK'
  <2>1. \A w \in Users : saw'[w] \in {0, saw[w]} BY <1>1, <1>2 DEF RecordTypes
  <2>2. file' # 0 => Launched(file)' BY <1>2, <1>4 DEF Launched
  <2> QED BY <1>1, <1>2, <1>3, <2>1, <2>2, RecordStep
<1>10. ServersHaveAnOwner'
  <2> SUFFICES ASSUME NEW j \in Ids \ (lost' \cup crossed'), Up(j)'
               PROVE  j = file' \/ \E w \in Users : j \in {new'[w], obj'[w].iid}
    BY DEF ServersHaveAnOwner
  <2>1. j = file \/ \E w \in Users : j \in {new[w], obj[w].iid}
    BY <1>1, <1>2, <1>3 DEF ServersHaveAnOwner
  <2>2. j # 0 BY Numbers
  <2>3. j # file' => j # file /\ j # i BY <1>2, <1>4, <2>2
  <2> QED BY <1>4, <1>5, <2>1, <2>2, <2>3
<1> QED BY <1>3, <1>5, <1>8, <1>9, <1>10 DEF ServerInv, Others

LEMMA CmdStopStep ==
    ASSUME ServerInv, NEW c \in Clis, CmdStop(c)
    PROVE  Others(c)
<1>1. /\ Types /\ Held(c) /\ pc \in [Users -> Pcs] /\ c \in Users /\ c # "driver"
      /\ todo \in [Users -> SUBSET Zones] /\ new \in [Users -> {0} \cup Ids]
      /\ obj \in [Users -> Object] /\ RecordOK /\ RecordTypes /\ ServersHaveAnOwner
  BY Numbers DEF ServerInv, Types
<1>2. /\ pc[c] = "off" /\ file # 0 /\ Terminate(file, {})
      /\ pc' = [pc EXCEPT ![c] = "unlink"] /\ UNCHANGED <<todo, new, obj, file, crossed>>
      /\ saw' = [saw EXCEPT ![c] = file]
  BY DEF CmdStop, Goto, Look
<1>3. PICK i \in Ids : i = file /\ Launched(i) BY <1>1, <1>2 DEF RecordOK, Launched
<1>4. Terminate(i, {}) BY <1>2, <1>3
<1>5. /\ BoxOK' /\ Grows /\ lost' \subseteq Ids /\ lost \cup {} \subseteq lost'
      /\ \A j \in Ids : Up(j)' => Up(j)
      /\ ~Up(i)' \/ i \in lost'
  BY <1>3, <1>4, TerminateStep
<1>6. /\ pc'[c] = "unlink" /\ "unlink" \in Pcs /\ \A w \in Users \ {c} : pc'[w] = pc[w]
  BY <1>1, <1>2 DEF Pcs
<1>7. Held(c)' BY <1>1, <1>2, <1>6, NothingHeld DEF Held, Coming
<1>8. RecordTypes' BY <1>1, <1>2 DEF RecordTypes
<1>9. Types' /\ \A w \in Users : Held(w)' BY <1>1, <1>2, <1>5, <1>6, <1>7, <1>8, UserStep
<1>10. RecordOK'
  <2>1. ~Up(file)' \/ file \in lost' BY <1>2, <1>3, <1>5 DEF Up
  <2>2. file' # 0 => Launched(file)' BY <1>2, <1>3, <1>5 DEF Grows, Launched
  <2>3. \A w \in Users : saw'[w] \in {0, saw[w]} \/ (saw'[w] = file /\ file' = file)
    BY <1>1, <1>2 DEF RecordTypes
  <2> QED BY <1>1, <1>5, <2>1, <2>2, <2>3, RecordStep
<1>11. ServersHaveAnOwner' BY <1>1, <1>2, <1>5 DEF ServersHaveAnOwner
<1> QED BY <1>2, <1>5, <1>6, <1>9, <1>10, <1>11 DEF ServerInv, Others

LEMMA CliStep ==
    ASSUME ServerInv, Cli
    PROVE  ServerInv' /\ Grows /\ pc'["driver"] = pc["driver"] /\ obj'["driver"] = obj["driver"]
<1>1. PICK c \in Clis :
         \/ CmdStart(c) \/ Starting(c) \/ Unregister(c) \/ OpenRecord(c) \/ WriteRecord(c)
         \/ CmdStop(c) \/ Unlink(c) \/ Interrupt(c) \/ Killed(c)
  BY DEF Cli
<1>2. c \in Users /\ "driver" \in Users \ {c} BY Numbers
<1>3. Others(c)
  <2>1. CASE Starting(c) BY <1>2, <2>1, StartingStep DEF Others
  <2>2. CASE Interrupt(c)
    <3>1. Quit(c, Unheld(c)) BY <2>2 DEF Interrupt
    <3> QED BY <1>2, <3>1, QuitStep DEF Others
  <2>3. CASE Killed(c) BY <1>2, <2>3, KilledStep DEF Others
  <2> QED BY <1>1, <2>1, <2>2, <2>3, CmdStartStep, UnregisterStep, OpenRecordStep,
             WriteRecordStep, CmdStopStep, UnlinkStep
<1> QED BY <1>2, <1>3 DEF Others

\* The driver's own steps with its server.
LEMMA ReplaceStep ==
    ASSUME ServerInv, Replace
    PROVE  ServerInv' /\ Grows /\ pc'["driver"] = "zones" /\ obj'["driver"].atexit
<1>1. /\ Types /\ Held("driver") /\ "driver" \in Users /\ BoxOK /\ lost \subseteq Ids
  BY DEF ServerInv, Types, Users
<1>2. pc["driver"] = "idle" /\ StartServer("driver") /\ UNCHANGED <<file, saw, crossed>>
      /\ IF obj["driver"].iid = 0 THEN UNCHANGED <<box, lost>> ELSE Terminate(obj["driver"].iid, {})
  BY DEF Replace, At, Own, record
<1>3. new["driver"] = 0 BY <1>1, <1>2 DEF Held
<1>4. /\ BoxOK' /\ Grows /\ lost \subseteq lost' /\ lost' \subseteq Ids
      /\ \A j \in Ids : Up(j)' => Up(j)
      /\ \A j \in {obj["driver"].iid} \ {0} : ~Up(j)' \/ j \in lost'
  <2>1. CASE obj["driver"].iid = 0 BY <1>1, <1>2, <2>1, SameBox
  <2>2. CASE obj["driver"].iid # 0
    <3>1. PICK i \in Ids : i = obj["driver"].iid /\ Launched(i) BY <1>1, <2>2 DEF Held, Launched
    <3>2. Terminate(i, {}) BY <1>2, <2>2, <3>1
    <3>3. /\ BoxOK' /\ Grows /\ lost' \subseteq Ids /\ lost \cup {} \subseteq lost'
          /\ \A j \in Ids : Up(j)' => Up(j)
          /\ ~Up(i)' \/ i \in lost'
      BY <3>1, <3>2, TerminateStep
    <3> QED BY <3>1, <3>3
  <2> QED BY <2>1, <2>2
<1> QED BY <1>1, <1>2, <1>3, <1>4, StartServerStep

LEMMA IdleStep ==
    ASSUME ServerInv, UNCHANGED <<box, todo, new, obj, record, lost>>, Goto("driver", "idle"),
           pc["driver"] \in {"off", "idle", "started"}
    PROVE  ServerInv' /\ Grows /\ pc'["driver"] = "idle" /\ obj'["driver"] = obj["driver"]
<1> DEFINE u == "driver"
<1>1. /\ Types /\ Held(u) /\ pc \in [Users -> Pcs] /\ todo \in [Users -> SUBSET Zones]
      /\ new \in [Users -> {0} \cup Ids] /\ obj \in [Users -> Object] /\ u \in Users
  BY DEF ServerInv, Types, Users
<1>2. pc' = [pc EXCEPT ![u] = "idle"] BY DEF Goto
<1>3. pc'[u] = "idle" /\ "idle" \in Pcs /\ "idle" \notin {"open", "write", "unlink"}
  BY <1>1, <1>2 DEF Pcs
<1>4. new[u] = 0 /\ (pc[u] = "started" => obj[u].atexit /\ obj[u].iid # 0 /\ obj[u].ip = obj[u].iid)
  BY <1>1 DEF Held, Coming
<1>5. Held(u)' BY <1>1, <1>3, <1>4 DEF Held, Coming, Launched
<1>6. {new[u], obj[u].iid} \subseteq {0, new'[u], obj'[u].iid} OBVIOUS
<1> QED BY <1>1, <1>2, <1>3, <1>5, <1>6, OwnStep

LEMMA EndsStep ==
    ASSUME ServerInv, pc["driver"] = "idle", Exit("driver")
    PROVE  ServerInv' /\ Grows /\ pc'["driver"] = "off" /\ obj'["driver"] = NoServer
BY QuitStep DEF Exit, Users

LEMMA StillStep ==
    ASSUME ServerInv, UNCHANGED server
    PROVE  ServerInv' /\ Grows /\ UNCHANGED <<pc, obj>>
<1>1. BoxOK /\ UNCHANGED <<box, pc, todo, new, obj, record, lost>> BY DEF ServerInv, Types, server
<1>2. BoxOK' /\ Grows /\ \A j \in Ids : Up(j)' <=> Up(j) BY <1>1, SameBox
<1> QED BY <1>1, <1>2, NobodyStep

-----------------------------------------------------------------------------
(***************************************************************************)
(* Steps of the driver and its deploy.                                     *)
(***************************************************************************)
LEMMA Arms ==
    ASSUME sweep \in Sweeps
    PROVE  /\ sweep.arm \in {"smoltcp-s3", "duckdb-tpch", "anyblob", "linux-http"}
           /\ sweep.own \in BOOLEAN /\ sweep.cells \in Seq(Seq(Nat)) /\ sweep.cells # <<>>
           /\ Len(sweep.cells) \in Nat
           /\ \A n \in 1..Len(sweep.cells) : sweep.cells[n] \in Seq(Nat) /\ sweep.cells[n] # None
           /\ IsSmoltcp => ~IsDuckdb /\ ~IsLinux
           /\ IsDuckdb => ~IsLinux
           /\ IsSmoltcp \/ IsDuckdb \/ IsLinux
<1>1. /\ sweep.arm \in {"smoltcp-s3", "duckdb-tpch", "anyblob", "linux-http"}
      /\ sweep.own \in BOOLEAN /\ sweep.cells \in Seq(Seq(Nat)) /\ sweep.cells # <<>>
      /\ \A n \in DOMAIN sweep.cells : sweep.cells[n] # <<>>
  BY MiniosvRunAssumption DEF MiniosvRunAssumption
<1>2. Len(sweep.cells) \in Nat /\ DOMAIN sweep.cells = 1..Len(sweep.cells)
      /\ \A n \in 1..Len(sweep.cells) : sweep.cells[n] \in Seq(Nat)
  <2>1. \A s \in Seq(Seq(Nat)) : /\ Len(s) \in Nat /\ DOMAIN s = 1..Len(s)
                                 /\ \A n \in 1..Len(s) : s[n] \in Seq(Nat)
    OBVIOUS
  <2> QED BY <1>1, <2>1
<1>3. /\ IsSmoltcp => ~IsDuckdb /\ ~IsLinux
      /\ IsDuckdb => ~IsLinux
      /\ IsSmoltcp \/ IsDuckdb \/ IsLinux
  BY <1>1 DEF IsSmoltcp, IsDuckdb, IsLinux
<1> QED BY <1>1, <1>2, <1>3 DEF None

LEMMA CellIs ==
    ASSUME DriverTypes, cell <= Len(sweep.cells)
    PROVE  Cell \in Seq(Nat) /\ Cell # None
<1>1. sweep \in Sweeps /\ cell \in 1..Len(sweep.cells) + 1 BY DEF DriverTypes
<1>2. Len(sweep.cells) \in Nat BY <1>1, Arms
<1>3. cell \in 1..Len(sweep.cells) BY <1>1, <1>2
<1> QED BY <1>1, <1>3, Arms DEF Cell

\* Rows stay as good as they are: a server keeps its zone.
LEMMA RowsStay ==
    ASSUME RowsOK, Grows, UNCHANGED <<sweep, rows>>
    PROVE  RowsOK'
<1> SUFFICES ASSUME NEW n \in DOMAIN rows
             PROVE  NamesItsServer(rows[n])' /\ OfItsCell(rows[n])'
  BY DEF RowsOK
<1> DEFINE r == rows[n]
<1>1. NamesItsServer(r) /\ OfItsCell(r) BY DEF RowsOK
<1>2. rows'[n] = r OBVIOUS
<1>3. OfItsCell(rows[n])' BY <1>1, <1>2 DEF OfItsCell, Valid, IsDuckdb, IsLinux
<1>4. \A i : Launched(i) => (i \in Ids /\ box'[i].st # "none" /\ box'[i].zone = box[i].zone)
  BY DEF Grows, Launched
<1>5. NamesItsServer(rows[n])' BY <1>1, <1>2, <1>4 DEF NamesItsServer, Launched
<1> QED BY <1>3, <1>5

\* A step of the servers that is not one of the driver's own, or that ends it, or that is on
\* its way to a server.
LEMMA ServersFrame ==
    ASSUME RunInv, RowsOK, Grows, UNCHANGED <<args, deploy, seen, driver, image>>,
           \/ pc'["driver"] = pc["driver"] /\ obj'["driver"] = obj["driver"]
           \/ pc'["driver"] = "off" /\ obj'["driver"] = NoServer
           \/ pc["driver"] \in Coming /\ pc'["driver"] \in Coming
    PROVE  RunInv' /\ RowsOK'
<1>1. UNCHANGED <<sweep, ip, bzone, dpc, cell, built, rows, image>>
      /\ UNCHANGED <<dep, vm, why, ami, boot, log, heads, said, noise>>
      /\ UNCHANGED <<iid, interrupted, warned, refused>>
  BY DEF args, deploy, seen, driver
<1>2. Idle' => Idle /\ obj'["driver"] = obj["driver"] BY DEF Idle, Coming
<1>3. \A i : Launched(i) => (i \in Ids /\ box'[i].st # "none" /\ box'[i].zone = box[i].zone)
  BY DEF Grows, Launched
<1>4. DriverTypes' /\ DeployTypes' BY <1>1 DEF RunInv, DriverTypes, DeployTypes
<1>5. Places'
  <2>1. pc'["driver"] \in Coming => pc["driver"] \in Coming BY DEF Coming
  <2> QED BY <1>1, <2>1 DEF RunInv, Places, IsDuckdb, IsLinux, Cell
<1>6. Address'
  <2>1. Address /\ Places BY DEF RunInv
  <2>2. ~sweep.own \/ IsDuckdb => ~Holds'
    <3> SUFFICES ASSUME ~sweep.own \/ IsDuckdb PROVE ~Holds' OBVIOUS
    <3>1. ~Holds /\ pc["driver"] \notin Coming BY <2>1 DEF Address, Places
    <3> QED BY <3>1, NothingHeld DEF Holds, Own
  <2>3. Idle' => (Holds' <=> Holds) BY <1>2 DEF Holds, Own
  <2>4. Launched(ip) => Launched(ip)' /\ box'[ip].zone = box[ip].zone BY <1>1, <1>3 DEF Launched
  <2> QED BY <1>1, <1>2, <2>1, <2>2, <2>3, <2>4 DEF Address, IsDuckdb
<1>7. Baked'
  <2>1. Idle' => Target' = Target BY <1>1, <1>2 DEF Target, Holds, Own
  <2> QED BY <1>1, <1>2, <2>1 DEF RunInv, Baked, IsSmoltcp, IsDuckdb, Cell, IsLinux
<1>8. NoDeploy' /\ Deployed' /\ Ending' BY <1>1 DEF RunInv, NoDeploy, Deployed, Ending
<1>9. Booted'
  <2>1. Idle' => Target' = Target /\ Holds' = Holds /\ Own'.zone = Own.zone
    BY <1>1, <1>2 DEF Target, Holds, Own
  <2>2. Launched(boot.target) => Launched(boot.target)' BY <1>1, <1>3 DEF Launched
  <2> QED BY <1>1, <1>2, <2>1, <2>2 DEF RunInv, Booted, IsSmoltcp, IsDuckdb, Cell
<1>10. Heard' BY <1>1 DEF RunInv, Heard, IsDuckdb
<1>11. RowsOK' BY <1>1, RowsStay
<1> QED BY <1>4, <1>5, <1>6, <1>7, <1>8, <1>9, <1>10, <1>11 DEF RunInv

\* Between two runs there is no deploy, and nothing that it could have left.
LEMMA BetweenRuns ==
    ASSUME NoDeploy', dpc' \in Building
    PROVE  Deployed' /\ Ending' /\ Booted' /\ Heard'
<1>1. /\ dep' = "none" /\ vm' = "none" /\ why' = "none" /\ ~ami' /\ boot' = NoBoot
      /\ log' = {} /\ heads' = <<>> /\ said' = 0 /\ noise' = 0
      /\ ~iid' /\ ~interrupted' /\ warned' = {} /\ ~refused'
  BY DEF NoDeploy
<1>2. dpc' \notin Running /\ dpc' \notin {"id", "verdict", "end", "signal", "wait", "row"}
  BY DEF Building, Running
<1>3. Deployed' BY <1>1, <1>2 DEF Deployed, Early
<1>4. Ending' BY <1>1, <1>2 DEF Ending
<1>5. Booted' BY <1>1 DEF Booted, NoBoot
<1>6. Heard'
  <2>1. Len(heads') = 0 /\ Len(boot'.args) = 0 BY <1>1 DEF NoBoot, None
  <2> QED BY <1>1, <2>1 DEF Heard
<1> QED BY <1>3, <1>4, <1>5, <1>6

LEMMA BuildingStep ==
    ASSUME RunInv, RowsOK, Grows, dpc \in Building, dpc' \in Building,
           UNCHANGED <<deploy, seen, sweep, rows>>,
           DriverTypes', Places', Address', Baked'
    PROVE  RunInv' /\ RowsOK'
<1>1. UNCHANGED <<dep, vm, why, ami, boot, log, heads, said, noise>>
      /\ UNCHANGED <<iid, interrupted, warned, refused>>
  BY DEF deploy, seen
<1>2. DeployTypes' /\ NoDeploy' BY <1>1 DEF RunInv, DeployTypes, NoDeploy
<1>3. Deployed' /\ Ending' /\ Booted' /\ Heard' BY <1>2, BetweenRuns
<1>4. RowsOK' BY RowsStay
<1> QED BY <1>2, <1>3, <1>4 DEF RunInv

\* The driver ends where it is.
LEMMA EndsFrame ==
    ASSUME ServerInv, RunInv, RowsOK, pc["driver"] = "idle", Ends,
           UNCHANGED <<args, deploy, seen, cell, built, rows, image>>
    PROVE  ServerInv' /\ RunInv' /\ RowsOK'
<1>1. Exit("driver") /\ UNCHANGED driver BY DEF Ends, driver
<1>2. ServerInv' /\ Grows /\ pc'["driver"] = "off" /\ obj'["driver"] = NoServer
  BY <1>1, EndsStep
<1> QED BY <1>1, <1>2, ServersFrame

LEMMA StartDriverStep ==
    ASSUME IInv, StartDriver
    PROVE  IInv'
<1>1. ServerInv /\ RunInv /\ RowsOK /\ Places /\ Address /\ Baked /\ DriverTypes BY DEF IInv, RunInv
<1>2. /\ dpc = "off" /\ dpc' = "next" /\ Goto("driver", "idle")
      /\ UNCHANGED <<sweep, box, todo, new, obj, record, lost, deploy, seen, cell, built, rows, image>>
      /\ ip' \in {0} \cup Ids /\ bzone' \in Zones \cup {"none"}
      /\ built = None
  BY <1>1 DEF StartDriver, To, DriverTypes, Places
<1>3. pc["driver"] \in {"off", "idle"}
  <2>1. pc["driver"] \in Pcs \ {"open", "write", "unlink"} BY <1>1 DEF ServerInv, Types, Users
  <2> QED BY <1>1, <1>2, <2>1 DEF Pcs, Places
<1>4. ServerInv' /\ Grows /\ pc'["driver"] = "idle" /\ obj'["driver"] = obj["driver"]
  BY <1>1, <1>2, <1>3, IdleStep
<1>5. dpc \in Building /\ dpc' \in Building BY <1>2 DEF Building
<1>6. DriverTypes' BY <1>1, <1>2, <1>5 DEF DriverTypes, seen
<1>7. Places' BY <1>1, <1>2, <1>4 DEF Places, Coming, Running, IsDuckdb, IsLinux
<1>8. Address' BY <1>1, <1>2 DEF Address, Holds, Own, IsDuckdb
<1>9. Baked' BY <1>2 DEF Baked, Running, IsLinux
<1> QED BY <1>1, <1>2, <1>4, <1>5, <1>6, <1>7, <1>8, <1>9, BuildingStep DEF IInv

LEMMA NextCellStep ==
    ASSUME IInv, NextCell
    PROVE  IInv'
<1>1. ServerInv /\ RunInv /\ RowsOK /\ Places /\ Address /\ Baked /\ DriverTypes BY DEF IInv, RunInv
<1>2. /\ pc["driver"] = "idle" /\ dpc = "next"
      /\ UNCHANGED <<args, deploy, seen, cell, built, rows, image>>
  BY DEF NextCell, At
<1>3. CASE Ends BY <1>1, <1>2, <1>3, EndsFrame DEF IInv
<1>4. CASE /\ cell <= Len(sweep.cells) /\ UNCHANGED server
           /\ dpc' = IF built = Cell THEN "run" ELSE IF IsDuckdb THEN "make" ELSE "server"
  <2>1. ServerInv' /\ Grows /\ UNCHANGED <<pc, obj>> BY <1>1, <1>4, StillStep
  <2>2. UNCHANGED <<sweep, ip, bzone>> BY <1>2 DEF args
  <2>3. dpc \in Building /\ dpc' \in {"run", "make", "server"} /\ dpc' \in Building
    BY <1>2, <1>4 DEF Building
  <2>4. DriverTypes' BY <1>1, <1>2, <2>2, <2>3 DEF DriverTypes, seen
  <2>5. Places' BY <1>1, <1>2, <1>4, <2>1, <2>2, <2>3 DEF Places, Coming, Running, IsDuckdb, IsLinux, Cell
  <2>6. Address'
    <3>1. Launched(ip)' = Launched(ip) /\ box'[ip].zone = box[ip].zone
      BY <1>4, <2>2 DEF Launched, server
    <3> QED BY <1>1, <1>2, <2>1, <2>2, <2>3, <3>1 DEF Address, Holds, Own, IsDuckdb, Idle
  <2>7. Baked'
    BY <1>1, <1>2, <2>1, <2>2, <2>3
    DEF Baked, Running, Target, Holds, Own, IsDuckdb, IsSmoltcp, IsLinux, Idle
  <2> QED BY <1>1, <1>2, <2>1, <2>2, <2>3, <2>4, <2>5, <2>6, <2>7, BuildingStep DEF IInv
<1> QED BY <1>3, <1>4 DEF NextCell, To

LEMMA ReplaceRun ==
    ASSUME IInv, Replace
    PROVE  IInv'
<1>1. ServerInv /\ RunInv /\ RowsOK /\ Places /\ Address /\ Baked /\ DriverTypes BY DEF IInv, RunInv
<1>2. /\ dpc = "server" /\ sweep.own /\ dpc' = "image"
      /\ UNCHANGED <<sweep, ip, bzone, deploy, seen, cell, built, rows, image>>
  BY DEF Replace, At, To, args
<1>3. ServerInv' /\ Grows /\ pc'["driver"] = "zones" /\ obj'["driver"].atexit
  BY <1>1, ReplaceStep
<1>4. dpc \in Building /\ dpc' \in Building BY <1>2 DEF Building
<1>5. ~IsDuckdb BY <1>1, <1>2 DEF Places
<1>6. DriverTypes' BY <1>1, <1>2, <1>4 DEF DriverTypes, seen
<1>7. Places' BY <1>1, <1>2, <1>3, <1>5 DEF Places, Coming, Running, IsDuckdb, IsLinux
<1>8. Address' BY <1>2, <1>3, <1>5 DEF Address, Holds, Own, IsDuckdb, Idle
<1>9. Baked' BY <1>1, <1>2 DEF Baked, Running, IsSmoltcp, IsLinux
<1> QED BY <1>1, <1>2, <1>3, <1>4, <1>6, <1>7, <1>8, <1>9, BuildingStep DEF IInv

LEMMA BuildExternalStep ==
    ASSUME IInv, BuildExternal
    PROVE  IInv'
<1>1. ServerInv /\ RunInv /\ RowsOK /\ Places /\ Address /\ Baked /\ DriverTypes BY DEF IInv, RunInv
<1>2. /\ pc["driver"] = "idle" /\ dpc = "server" /\ ~sweep.own
      /\ UNCHANGED <<args, deploy, seen, cell, built, rows, image>>
  BY DEF BuildExternal, At
<1>3. CASE Ends BY <1>1, <1>2, <1>3, EndsFrame DEF IInv
<1>4. CASE VerifyExternal /\ dpc' = "image" /\ UNCHANGED server
  <2>1. ServerInv' /\ Grows /\ UNCHANGED <<pc, obj>> BY <1>1, <1>4, StillStep
  <2>2. UNCHANGED <<sweep, ip, bzone>> BY <1>2 DEF args
  <2>3. dpc \in Building /\ dpc' \in Building BY <1>2, <1>4 DEF Building
  <2>4. DriverTypes' BY <1>1, <1>2, <2>2, <2>3 DEF DriverTypes, seen
  <2>5. Places'
    <3>1. pc'["driver"] \notin Coming BY <1>2, <2>1 DEF Coming
    <3> QED BY <1>1, <1>2, <1>4, <2>2, <3>1 DEF Places, Running, IsDuckdb, IsLinux
  <2>6. Address'
    <3>1. ip = 0 \/ (Launched(ip) /\ bzone = box[ip].zone)
      BY <1>4 DEF VerifyExternal, Up, Launched
    <3>2. ip' = 0 \/ (Launched(ip)' /\ bzone' = box'[ip'].zone)
      BY <1>4, <2>2, <3>1 DEF Launched, server
    <3> QED BY <1>1, <1>2, <2>1, <2>2, <3>2 DEF Address, Holds, Own
  <2>7. Baked' BY <1>1, <1>2, <1>4, <2>2 DEF Baked, Running, IsSmoltcp, IsLinux
  <2> QED BY <1>1, <1>2, <2>1, <2>2, <2>3, <2>4, <2>5, <2>6, <2>7, BuildingStep DEF IInv
<1> QED BY <1>3, <1>4 DEF BuildExternal, To

\* The driver has its server, and is back in build.
LEMMA StartedStep ==
    ASSUME IInv, Started
    PROVE  IInv'
<1>1. ServerInv /\ RunInv /\ RowsOK /\ Places /\ Address /\ Baked /\ DriverTypes BY DEF IInv, RunInv
<1>2. /\ pc["driver"] = "started" /\ Goto("driver", "idle")
      /\ UNCHANGED <<box, todo, new, obj, record, lost, args, deploy, seen, driver, image>>
  BY DEF Started
<1>3. ServerInv' /\ Grows /\ pc'["driver"] = "idle" /\ obj'["driver"] = obj["driver"]
  BY <1>1, <1>2, IdleStep
<1>4. dpc = "image" /\ sweep.own /\ ~IsDuckdb BY <1>1, <1>2 DEF Places, Coming
<1>5. obj["driver"].atexit BY <1>1, <1>2 DEF ServerInv, Held, Coming, Users
<1>6. UNCHANGED <<sweep, ip, bzone, dpc, cell, built, rows>> BY <1>2 DEF args, driver
<1>7. dpc \in Building /\ dpc' \in Building BY <1>4, <1>6 DEF Building
<1>8. DriverTypes' BY <1>1, <1>2, <1>6 DEF DriverTypes, seen
<1>9. Places' BY <1>1, <1>3, <1>4, <1>6 DEF Places, Coming, IsDuckdb, IsLinux, Cell
<1>10. Address' BY <1>3, <1>4, <1>5, <1>6 DEF Address, Holds, Own, IsDuckdb
<1>11. Baked' BY <1>1, <1>2, <1>4, <1>6 DEF Baked, IsSmoltcp, IsDuckdb, IsLinux
<1> QED BY <1>1, <1>2, <1>3, <1>6, <1>7, <1>8, <1>9, <1>10, <1>11, BuildingStep DEF IInv

\* What a build leaves in the image: its arguments are what they were.
LEMMA CompiledIs ==
    ASSUME NEW im \in Image, NEW a \in {0} \cup Ids, Cell \in Seq(Nat)
    PROVE  /\ Compiled(im, a) \in Image
           /\ Compiled(im, a).knobs = Cell /\ Compiled(im, a).target = a
           /\ Compiled(im, a).args = im.args /\ Compiled(im, a).ours
BY DEF Compiled, Image

\* What is baked is the cell, with the address that the driver has.
LEMMA BakeStep ==
    ASSUME IInv, Bake
    PROVE  IInv'
<1>1. ServerInv /\ RunInv /\ RowsOK /\ Places /\ Address /\ Baked /\ DriverTypes BY DEF IInv, RunInv
<1>2. /\ pc["driver"] = "idle" /\ dpc = "image" /\ IsSmoltcp
      /\ UNCHANGED <<args, deploy, seen, cell, rows>>
  BY DEF Bake, At, IsSmoltcp
<1>3. CASE Ends /\ UNCHANGED <<built, image>> BY <1>1, <1>2, <1>3, EndsFrame DEF IInv
<1>4. CASE /\ image' = Compiled(image, Target)
           /\ built' = Cell /\ dpc' = "run" /\ UNCHANGED server
  <2>1. ServerInv' /\ Grows /\ UNCHANGED <<pc, obj>> BY <1>1, <1>4, StillStep
  <2>2. UNCHANGED <<sweep, ip, bzone>> BY <1>2 DEF args
  <2>3. dpc \in Building /\ dpc' \in Building BY <1>2, <1>4 DEF Building
  <2>4. cell <= Len(sweep.cells) /\ Cell \in Seq(Nat) BY <1>1, <1>2, CellIs DEF Places
  <2>5. ~IsDuckdb /\ ~IsLinux BY <1>1, <1>2, Arms DEF DriverTypes
  <2>6. Target \in {0} \cup Ids
    <3>1. obj["driver"] \in Object BY <1>1 DEF ServerInv, Types, Users
    <3> QED BY <1>1, <3>1 DEF Target, Own, Object, DriverTypes
  <2>7. image' \in Image
        /\ image'.knobs = Cell /\ image'.target = Target
    BY <1>1, <1>4, <2>4, <2>6, CompiledIs DEF DriverTypes
  <2>8. DriverTypes' BY <1>1, <1>2, <1>4, <2>2, <2>3, <2>4, <2>7 DEF DriverTypes, seen
  <2>9. Places'
    <3>1. pc'["driver"] \notin Coming BY <1>2, <2>1 DEF Coming
    <3> QED BY <1>1, <1>2, <1>4, <2>2, <2>4, <2>5, <3>1 DEF Places, Running, IsDuckdb, IsLinux, Cell
  <2>10. Address'
    <3>1. Launched(ip)' = Launched(ip) /\ box'[ip'].zone = box[ip].zone
      BY <1>4, <2>2 DEF Launched, server
    <3> QED BY <1>1, <1>2, <2>1, <2>2, <2>5, <3>1 DEF Address, Holds, Own, IsDuckdb, Idle
  <2>11. Baked'
    <3>1. Target' = Target BY <2>1, <2>2 DEF Target, Holds, Own
    <3> QED BY <1>4, <2>2, <2>5, <2>7, <3>1 DEF Baked, IsDuckdb, IsLinux
  <2> QED BY <1>1, <1>2, <2>1, <2>2, <2>3, <2>8, <2>9, <2>10, <2>11, BuildingStep DEF IInv
<1> QED BY <1>3, <1>4 DEF Bake, To

LEMMA BuildLinuxStep ==
    ASSUME IInv, BuildLinux
    PROVE  IInv'
<1>1. ServerInv /\ RunInv /\ RowsOK /\ Places /\ Address /\ Baked /\ DriverTypes BY DEF IInv, RunInv
<1>2. /\ pc["driver"] = "idle" /\ dpc = "image" /\ IsLinux
      /\ UNCHANGED <<args, deploy, seen, cell, rows, image>>
  BY DEF BuildLinux, At
<1>3. CASE Ends /\ UNCHANGED built BY <1>1, <1>2, <1>3, EndsFrame DEF IInv
<1>4. CASE built' = Cell /\ dpc' = "run" /\ UNCHANGED server
  <2>1. ServerInv' /\ Grows /\ UNCHANGED <<pc, obj>> BY <1>1, <1>4, StillStep
  <2>2. UNCHANGED <<sweep, ip, bzone>> BY <1>2 DEF args
  <2>3. dpc \in Building /\ dpc' \in Building BY <1>2, <1>4 DEF Building
  <2>4. cell <= Len(sweep.cells) /\ Cell \in Seq(Nat) BY <1>1, <1>2, CellIs DEF Places
  <2>5. ~IsDuckdb /\ ~IsSmoltcp BY <1>1, <1>2, Arms DEF DriverTypes
  <2>6. DriverTypes' BY <1>1, <1>2, <1>4, <2>2, <2>3, <2>4 DEF DriverTypes, seen
  <2>7. Places'
    <3>1. pc'["driver"] \notin Coming BY <1>2, <2>1 DEF Coming
    <3> QED BY <1>1, <1>2, <1>4, <2>2, <2>4, <2>5, <3>1 DEF Places, Running, IsDuckdb, IsLinux, Cell
  <2>8. Address'
    <3>1. Launched(ip)' = Launched(ip) /\ box'[ip'].zone = box[ip].zone
      BY <1>4, <2>2 DEF Launched, server
    <3> QED BY <1>1, <1>2, <2>1, <2>2, <2>5, <3>1 DEF Address, Holds, Own, IsDuckdb, Idle
  <2>9. Baked' BY <1>2, <2>2, <2>5 DEF Baked, IsDuckdb, IsSmoltcp, IsLinux
  <2> QED BY <1>1, <1>2, <2>1, <2>2, <2>3, <2>6, <2>7, <2>8, <2>9, BuildingStep DEF IInv
<1> QED BY <1>3, <1>4 DEF BuildLinux, To

\* An image with the boot arguments set.
LEMMA ArgsSet ==
    ASSUME NEW im \in Image, Cell \in Seq(Nat)
    PROVE  /\ SetArgs(im) \in Image
           /\ SetArgs(im).args = Cell /\ SetArgs(im).knobs = im.knobs
           /\ SetArgs(im).target = im.target /\ SetArgs(im).ours = im.ours
BY DEF SetArgs, Image

LEMMA MakeStep ==
    ASSUME IInv, Make
    PROVE  IInv'
<1>1. ServerInv /\ RunInv /\ RowsOK /\ Places /\ Address /\ Baked /\ DriverTypes BY DEF IInv, RunInv
<1>2. /\ pc["driver"] = "idle" /\ dpc = "make" /\ IsDuckdb
      /\ UNCHANGED <<args, deploy, seen, cell, rows>>
  BY <1>1 DEF Make, At, Places
<1>3. CASE Ends /\ UNCHANGED <<built, image>> BY <1>1, <1>2, <1>3, EndsFrame DEF IInv
<1>4. CASE /\ \E im \in {image, [image EXCEPT !.args = None]} : image' = SetArgs(Compiled(im, ip))
           /\ built' = Cell /\ dpc' = "run" /\ UNCHANGED server
  <2>1. ServerInv' /\ Grows /\ UNCHANGED <<pc, obj>> BY <1>1, <1>4, StillStep
  <2>2. UNCHANGED <<sweep, ip, bzone>> BY <1>2 DEF args
  <2>3. dpc \in Building /\ dpc' \in Building BY <1>2, <1>4 DEF Building
  <2>4. cell <= Len(sweep.cells) /\ Cell \in Seq(Nat) BY <1>1, <1>2, CellIs DEF Places
  <2>5. ~IsLinux /\ ~IsSmoltcp BY <1>1, <1>2, Arms DEF DriverTypes
  <2>6. image' \in Image /\ image'.knobs = Cell /\ image'.args = Cell
    <3>1. PICK im \in {image, [image EXCEPT !.args = None]} : image' = SetArgs(Compiled(im, ip))
      BY <1>4
    <3>2. im \in Image
      <4>1. None \in Seq(Nat) BY DEF None
      <4> QED BY <1>1, <3>1, <4>1 DEF DriverTypes, Image
    <3>3. Compiled(im, ip) \in Image /\ Compiled(im, ip).knobs = Cell
      BY <1>1, <2>4, <3>2, CompiledIs DEF DriverTypes
    <3> QED BY <2>4, <3>1, <3>3, ArgsSet
  <2>7. DriverTypes' BY <1>1, <1>2, <1>4, <2>2, <2>3, <2>4, <2>6 DEF DriverTypes, seen
  <2>8. Places'
    <3>1. pc'["driver"] \notin Coming BY <1>2, <2>1 DEF Coming
    <3> QED BY <1>1, <1>2, <1>4, <2>2, <2>4, <2>5, <3>1 DEF Places, Running, IsDuckdb, IsLinux, Cell
  <2>9. Address' BY <1>1, <1>2, <2>1, <2>2 DEF Address, Holds, Own, IsDuckdb
  <2>10. Baked' BY <1>4, <2>2, <2>5, <2>6 DEF Baked, IsSmoltcp, Running, IsLinux
  <2> QED BY <1>1, <1>2, <2>1, <2>2, <2>3, <2>7, <2>8, <2>9, <2>10, BuildingStep DEF IInv
<1> QED BY <1>3, <1>4 DEF Make, To

\* Before a deploy, an image's arguments are its cell's; a make may take them away again.
LEMMA BeginRunStep ==
    ASSUME IInv, BeginRun
    PROVE  IInv'
<1>1. ServerInv /\ RunInv /\ RowsOK /\ Places /\ Address /\ Baked /\ DriverTypes BY DEF IInv, RunInv
<1>2. /\ pc["driver"] = "idle" /\ dpc = "run" /\ dpc' = "deploy" /\ ~IsLinux
      /\ image' = IF IsDuckdb THEN SetArgs(image) ELSE image
      /\ UNCHANGED <<server, args, deploy, seen, cell, built, rows>>
  BY DEF BeginRun, At, To
<1>3. ServerInv' /\ Grows /\ UNCHANGED <<pc, obj>> BY <1>1, <1>2, StillStep
<1>4. UNCHANGED <<sweep, ip, bzone>> BY <1>2 DEF args
<1>5. dpc \in Building /\ dpc' \in Building BY <1>2 DEF Building
<1>6. Cell \in Seq(Nat) BY <1>1, <1>2, CellIs DEF Places
<1>7. /\ image' \in Image
      /\ image'.knobs = image.knobs /\ image'.target = image.target
      /\ image'.ours = image.ours /\ (IsDuckdb => image'.args = Cell)
  BY <1>1, <1>2, <1>6, ArgsSet DEF DriverTypes
<1>8. DriverTypes' BY <1>1, <1>2, <1>4, <1>5, <1>7 DEF DriverTypes, seen
<1>9. Places'
  <2>1. pc'["driver"] \notin Coming BY <1>2, <1>3 DEF Coming
  <2> QED BY <1>1, <1>2, <1>4, <2>1 DEF Places, Running, IsDuckdb, IsLinux, Cell
<1>10. Address'
  <2>1. Launched(ip)' = Launched(ip) /\ box'[ip'].zone = box[ip].zone
    BY <1>2, <1>4 DEF Launched, server
  <2> QED BY <1>1, <1>2, <1>3, <1>4, <2>1 DEF Address, Holds, Own, IsDuckdb, Idle
<1>11. Baked'
  <2>1. Target' = Target BY <1>3, <1>4 DEF Target, Holds, Own
  <2>2. Cell' = Cell BY <1>2, <1>4 DEF Cell
  <2> QED BY <1>1, <1>2, <1>3, <1>4, <1>7, <2>1, <2>2 DEF Baked, IsDuckdb, IsSmoltcp, Idle, IsLinux
<1> QED BY <1>1, <1>2, <1>3, <1>4, <1>5, <1>8, <1>9, <1>10, <1>11, BuildingStep DEF IInv

LEMMA RemakeStep ==
    ASSUME IInv, Remake
    PROVE  IInv'
<1>1. ServerInv /\ RunInv /\ RowsOK BY DEF IInv
<1>2. /\ \E a \in {0} \cup Ids :
            image' = [knobs |-> None, target |-> a, args |-> None, ours |-> FALSE]
      /\ UNCHANGED <<server, args, deploy, seen, driver>>
  BY DEF Remake
<1>3. ServerInv' /\ Grows /\ UNCHANGED <<pc, obj>> BY <1>1, <1>2, StillStep
<1>4. UNCHANGED <<sweep, ip, bzone, dpc, cell, built, rows, box>>
      /\ UNCHANGED <<dep, vm, why, ami, boot, log, heads, said, noise>>
      /\ UNCHANGED <<iid, interrupted, warned, refused>>
  BY <1>2 DEF args, deploy, seen, driver, server
<1>5. /\ image' \in Image
      /\ image'.args = None /\ ~image'.ours
  <2>1. None \in Seq(Nat) BY DEF None
  <2> QED BY <1>2, <2>1 DEF Image
<1>7. DriverTypes' /\ DeployTypes' BY <1>1, <1>4, <1>5 DEF RunInv, DriverTypes, DeployTypes
<1>8. Places' /\ Address'
  BY <1>1, <1>3, <1>4 DEF RunInv, Places, Address, IsDuckdb, IsLinux, Cell, Holds, Own, Idle, Launched
<1>9. Baked' BY <1>4, <1>5 DEF Baked, IsSmoltcp, IsLinux
<1>10. NoDeploy' /\ Deployed' /\ Ending' /\ Heard'
  BY <1>1, <1>4 DEF RunInv, NoDeploy, Deployed, Ending, Heard, IsDuckdb
<1>11. Booted'
  BY <1>1, <1>3, <1>4 DEF RunInv, Booted, IsDuckdb, IsSmoltcp, Cell, Holds, Own, Idle, Launched, Target
<1>12. RowsOK' BY <1>1, <1>3, <1>4, RowsStay
<1> QED BY <1>3, <1>7, <1>8, <1>9, <1>10, <1>11, <1>12 DEF IInv, RunInv

\* A step of a run leaves the server, the image and the cell alone.
LEMMA RunFrame ==
    ASSUME IInv, UNCHANGED <<server, args, image, cell, built, rows>>,
           dpc' = dpc \/ (dpc \in {"deploy"} \cup Running /\ dpc' \in Running),
           iid' \in BOOLEAN, interrupted' \in BOOLEAN, refused' \in BOOLEAN,
           warned' \subseteq {"image", "instance"}
    PROVE  /\ ServerInv' /\ DriverTypes' /\ Places' /\ Address' /\ Baked' /\ RowsOK'
           /\ UNCHANGED <<pc, obj, box, sweep, ip, bzone, Cell, Target, Holds, Own>>
<1>1. ServerInv /\ RunInv /\ RowsOK BY DEF IInv
<1>2. ServerInv' /\ Grows /\ UNCHANGED <<pc, obj>> BY <1>1, StillStep
<1>3. UNCHANGED <<sweep, ip, bzone, box>> BY DEF args, server
<1>4. UNCHANGED <<Cell, Target, Holds, Own>> BY <1>2, <1>3 DEF Cell, Target, Holds, Own
<1>5. DriverTypes' BY <1>1, <1>3 DEF RunInv, DriverTypes
<1>6. dpc' \in Running => dpc \in {"deploy"} \cup Running /\ dpc \notin {"off", "next", "image"}
  BY DEF Running
<1>7. Places'
  BY <1>1, <1>2, <1>3, <1>4, <1>6 DEF RunInv, Places, IsDuckdb, IsLinux, Running, Coming
<1>8. Address'
  <2>1. Launched(ip)' = Launched(ip) BY <1>3 DEF Launched
  <2> QED BY <1>1, <1>2, <1>3, <1>4, <1>6, <2>1 DEF RunInv, Address, IsDuckdb, Idle, Running
<1>9. Baked' BY <1>1, <1>2, <1>3, <1>4, <1>6 DEF RunInv, Baked, IsDuckdb, IsSmoltcp, Idle, IsLinux
<1>10. RowsOK' BY <1>1, <1>2, <1>3, RowsStay
<1> QED BY <1>2, <1>3, <1>4, <1>5, <1>7, <1>8, <1>9, <1>10

\* A step of the deploy: what is left to show.
LEMMA DeployFrame ==
    ASSUME IInv, UNCHANGED <<server, args, seen, driver, image>>, dep # "none",
           DeployTypes', Deployed', Ending', Booted', Heard'
    PROVE  IInv'
<1>1. RunInv /\ DriverTypes /\ NoDeploy BY DEF IInv, RunInv
<1>2. UNCHANGED <<dpc, cell, built, rows, iid, interrupted, warned, refused>>
  BY DEF driver, seen
<1>3. /\ ServerInv' /\ DriverTypes' /\ Places' /\ Address' /\ Baked' /\ RowsOK'
  <2>1. /\ iid' \in BOOLEAN /\ interrupted' \in BOOLEAN /\ refused' \in BOOLEAN
        /\ warned' \subseteq {"image", "instance"}
    BY <1>1, <1>2 DEF DriverTypes
  <2> QED BY <1>2, <2>1, RunFrame
<1>4. NoDeploy' BY <1>1, <1>2 DEF NoDeploy
<1> QED BY <1>3, <1>4 DEF IInv, RunInv

\* What a step of the deploy may use.
Context ==
    /\ IInv /\ pc["driver"] = "idle"
    /\ UNCHANGED <<server, args, seen, driver, image>>

LEMMA Contexts ==
    ASSUME Context
    PROVE  /\ DriverTypes /\ DeployTypes /\ Baked /\ NoDeploy /\ Deployed /\ Ending /\ Booted
           /\ Heard /\ Idle /\ Places
           /\ UNCHANGED <<sweep, ip, bzone, dpc, cell, built, rows, image, iid, interrupted>>
           /\ UNCHANGED <<warned, refused, pc, obj, box, Cell, Target, Holds, Own>>
           /\ IsSmoltcp => ~IsDuckdb /\ ~IsLinux
           /\ IsDuckdb => ~IsLinux
           /\ dep # "none" => dpc \in Running
<1>1. UNCHANGED <<sweep, ip, bzone, dpc, cell, built, rows, image, iid, interrupted>>
      /\ UNCHANGED <<warned, refused, pc, obj, box>>
  BY DEF Context, args, seen, driver, server
<1>2. UNCHANGED <<Cell, Target, Holds, Own>> BY <1>1 DEF Cell, Target, Holds, Own
<1>3. RunInv /\ pc["driver"] = "idle" BY DEF Context, IInv
<1>4. /\ IsSmoltcp => ~IsDuckdb /\ ~IsLinux
      /\ IsDuckdb => ~IsLinux
  BY <1>3, Arms DEF RunInv, DriverTypes
<1>5. dep # "none" => dpc \in Running BY <1>3 DEF RunInv, DriverTypes, NoDeploy
<1> QED BY <1>1, <1>2, <1>3, <1>4, <1>5 DEF RunInv, Idle

LEMMA RegisterStep ==
    ASSUME Context, Register
    PROVE  IInv'
<1>1. /\ dep = "upload" /\ dep' = "launch" /\ ami' = TRUE
      /\ boot' = [boot EXCEPT !.knobs = image.knobs, !.target = image.target, !.args = image.args,
                              !.ours = image.ours]
      /\ UNCHANGED <<vm, why, log, heads, said, noise>>
  BY DEF Register
<1>2. /\ DriverTypes /\ DeployTypes /\ Baked /\ Deployed /\ Ending /\ Booted /\ Heard /\ Idle
      /\ Places
      /\ UNCHANGED <<sweep, bzone, dpc, built, iid, interrupted, warned, refused, pc>>
      /\ UNCHANGED <<Cell, Target, Holds, Own>>
      /\ dpc \in Running
  BY <1>1, Contexts
<1>3. /\ boot' \in Boot1 /\ boot'.knobs = image.knobs /\ boot'.target = image.target
      /\ boot'.args = image.args /\ boot'.zone = boot.zone /\ boot'.dialled = boot.dialled
      /\ boot'.ours = image.ours
  BY <1>1, <1>2 DEF DriverTypes, DeployTypes, Boot1, Image
<1>4. log = {} /\ said = 0 /\ heads = <<>> /\ noise = 0 /\ vm = "none"
  BY <1>1, <1>2 DEF Deployed, Early
<1>5. DeployTypes' BY <1>1, <1>2, <1>3 DEF DeployTypes
<1>6. Deployed' BY <1>1, <1>2, <1>4 DEF Deployed, Early
<1>7. Ending' BY <1>1, <1>2 DEF Ending
<1>8. Booted'
  <2>1. built = Cell /\ built # None /\ dpc # "image"
    <3>1. built = Cell /\ cell <= Len(sweep.cells) /\ dpc # "image" BY <1>2 DEF Places, Running
    <3> QED BY <1>2, <3>1, CellIs
  <2>2. boot.dialled = 0 BY <1>2, <1>4 DEF Booted
  <2>3. /\ image.ours => image.knobs = Cell
        /\ IsSmoltcp /\ image.ours => image.target = Target
        /\ IsDuckdb => image.args \in {None, Cell}
    <3>1. ~IsLinux BY <1>2 DEF Places, Running
    <3> QED BY <1>2, <2>1, <3>1 DEF Baked, IsLinux
  <2>4. boot.zone = IF Holds THEN Own.zone ELSE bzone BY <1>1, <1>2 DEF Booted
  <2> QED BY <1>1, <1>2, <1>3, <2>2, <2>3, <2>4 DEF Booted, IsSmoltcp, IsDuckdb, Idle
<1>9. Heard'
  <2>1. Len(boot'.args) \in Nat
    <3>1. boot'.args \in Seq(Nat) BY <1>3 DEF Boot1
    <3> QED BY <3>1
  <2>2. Len(heads) = 0 BY <1>4
  <2>3. "COMPLETE" \notin log' BY <1>1, <1>4
  <2> QED BY <1>1, <1>4, <2>1, <2>2, <2>3 DEF Heard
<1> QED BY <1>1, <1>5, <1>6, <1>7, <1>8, <1>9, DeployFrame DEF Context

\* A step of the deploy that leaves what booted as it is, and what the guest said.
LEMMA ConsoleStep ==
    ASSUME Context, dep # "none", UNCHANGED <<boot, heads, said, noise>>,
           dep' \in {"launch", "id", "console"} => dep \in {"launch", "id", "console"},
           log' \subseteq log \cup {"refused", "id"}, log' # {} => dep = "launch" \/ dep = "id" \/ log # {},
           log \subseteq log',
           DeployTypes', Deployed', Ending'
    PROVE  IInv'
<1>1. /\ Booted /\ Heard
      /\ UNCHANGED <<sweep, bzone, box, pc, Cell, Target, Holds, Own>>
  BY Contexts
<1>2. "COMPLETE" \in log' <=> "COMPLETE" \in log OBVIOUS
<1>3. Launched(boot.target)' = Launched(boot.target) BY <1>1 DEF Launched
<1>4. Booted' BY <1>1, <1>2, <1>3 DEF Booted, IsSmoltcp, IsDuckdb, Idle
<1>5. Heard' BY <1>1, <1>2 DEF Heard, IsDuckdb
<1> QED BY <1>4, <1>5, DeployFrame DEF Context

LEMMA LaunchStep ==
    ASSUME Context, Launch \/ PrintId \/ TakeInstance \/ OwnTeardown \/ Teardown
    PROVE  IInv'
<1>1. /\ DeployTypes /\ Deployed /\ Ending /\ DriverTypes
      /\ UNCHANGED <<dpc, iid, interrupted, warned, refused>>
      /\ dep # "none" => dpc \in Running
  BY Contexts
<1>2. dep # "none"
  BY <1>1 DEF Launch, PrintId, TakeInstance, OwnTeardown, Teardown, Deployed
<1>3. UNCHANGED <<boot, heads, said, noise>>
  BY DEF Launch, PrintId, TakeInstance, OwnTeardown, Teardown
<1>4. CASE Launch
  <2>1. DeployTypes' BY <1>1, <1>4 DEF Launch, Says, DeployTypes
  <2>2. Deployed' BY <1>1, <1>4 DEF Launch, Says, Deployed, Early
  <2>3. Ending' BY <1>1, <1>4 DEF Launch, Says, Ending, Deployed, Early
  <2> QED BY <1>2, <1>3, <1>4, <2>1, <2>2, <2>3, ConsoleStep DEF Launch, Says
<1>5. CASE PrintId
  <2>1. DeployTypes' BY <1>1, <1>5 DEF PrintId, Says, DeployTypes
  <2>2. Deployed' BY <1>1, <1>5 DEF PrintId, Says, Deployed, Early
  <2>3. Ending' BY <1>1, <1>5 DEF PrintId, Says, Ending
  <2> QED BY <1>2, <1>3, <1>5, <2>1, <2>2, <2>3, ConsoleStep DEF PrintId, Says
<1>6. CASE TakeInstance
  <2>1. DeployTypes' BY <1>1, <1>6 DEF TakeInstance, DeployTypes
  <2>2. Deployed' BY <1>1, <1>6 DEF TakeInstance, Deployed, Early
  <2>3. Ending' BY <1>1, <1>6 DEF TakeInstance, Ending
  <2>4. dep' = dep /\ log' = log BY <1>6 DEF TakeInstance
  <2> QED BY <1>2, <1>3, <2>1, <2>2, <2>3, <2>4, ConsoleStep
<1>7. CASE OwnTeardown
  <2>1. DeployTypes' BY <1>1, <1>7 DEF OwnTeardown, DeployTypes
  <2>2. Deployed' BY <1>1, <1>7 DEF OwnTeardown, Deployed, Early
  <2>3. Ending' BY <1>1, <1>7 DEF OwnTeardown, Ending
  <2> QED BY <1>2, <1>3, <1>7, <2>1, <2>2, <2>3, ConsoleStep DEF OwnTeardown
<1>8. CASE Teardown
  <2>1. DeployTypes' BY <1>1, <1>8 DEF Teardown, DeployTypes
  <2>2. Deployed' BY <1>1, <1>8 DEF Teardown, Deployed, Early
  <2>3. Ending' BY <1>1, <1>8 DEF Teardown, Ending
  <2>4. dep' \in {"teardown", "exited"} /\ log' = log BY <1>8 DEF Teardown
  <2> QED BY <1>2, <1>3, <2>1, <2>2, <2>3, <2>4, ConsoleStep
<1> QED BY <1>4, <1>5, <1>6, <1>7, <1>8

\* A query's line, or a spoilt one: what is heard is the start of what was asked.
LEMMA AnswerStep ==
    ASSUME Context, Answer
    PROVE  IInv'
<1>1. /\ DriverTypes /\ DeployTypes /\ Deployed /\ Ending /\ Booted /\ Heard /\ Idle
      /\ UNCHANGED <<sweep, bzone, dpc, iid, interrupted, warned, refused>>
      /\ UNCHANGED <<pc, box, Cell, Target, Holds, Own>>
  BY Contexts
<1>2. /\ dep = "console" /\ vm = "up" /\ "COMPLETE" \notin log
      /\ said < Len(boot.args) /\ said' = said + 1
      /\ UNCHANGED <<dep, vm, why, ami, boot, log>>
  BY DEF Answer, Talks
<1>3. /\ boot.args \in Seq(Nat) /\ heads \in Seq(Nat) /\ said \in Nat /\ noise \in Nat
      /\ Len(heads) + noise = said /\ (noise = 0 => \A k \in 1..said : heads[k] = boot.args[k])
  BY <1>1 DEF DeployTypes, Boot1, Heard
<1>4. /\ Len(boot.args) \in Nat /\ Len(heads) \in Nat /\ said \in Nat /\ noise \in Nat
      /\ Len(heads) + noise = said /\ said' = said + 1
  BY <1>2, <1>3
<1>5. said + 1 \in 1..Len(boot.args) BY <1>2, <1>3, <1>4
<1>6. boot.args[said + 1] \in Nat BY <1>3, <1>5
<1>7. /\ heads' \in Seq(Nat) /\ noise' \in Nat /\ Len(heads') + noise' = said'
      /\ noise' = 0 => \A k \in 1..said' : heads'[k] = boot.args[k]
  <2>1. CASE heads' = Append(heads, boot.args[said + 1]) /\ UNCHANGED noise
    <3>1. heads' \in Seq(Nat) /\ Len(heads') = Len(heads) + 1 BY <1>3, <1>6, <2>1
    <3>2. ASSUME noise = 0, NEW k \in 1..said + 1 PROVE heads'[k] = boot.args[k]
      <4>1. CASE k = said + 1 BY <1>3, <2>1, <3>2, <4>1
      <4>2. CASE k # said + 1
        <5>1. k \in 1..said /\ k \in 1..Len(heads) BY <1>3, <1>4, <3>2, <4>2
        <5> QED BY <1>3, <2>1, <3>2, <5>1
      <4> QED BY <4>1, <4>2
    <3>3. noise' = noise BY <2>1
    <3>4. Len(heads') + noise' = said' BY <1>4, <3>1, <3>3
    <3> QED BY <1>4, <3>1, <3>2, <3>3, <3>4
  <2>2. CASE noise' = noise + 1 /\ UNCHANGED heads
    <3>1. noise' # 0 /\ noise' \in Nat /\ heads' \in Seq(Nat) BY <1>3, <2>2
    <3>2. Len(heads') = Len(heads) /\ noise' = noise + 1 BY <2>2
    <3>3. Len(heads') + noise' = said' BY <1>4, <3>2
    <3> QED BY <3>1, <3>3
  <2> QED BY <2>1, <2>2 DEF Answer
<1>8. DeployTypes' BY <1>1, <1>2, <1>3, <1>7 DEF DeployTypes
<1>9. Deployed' BY <1>1, <1>2 DEF Deployed, Early
<1>10. Ending' BY <1>1, <1>2 DEF Ending
<1>11. Booted'
  <2>1. Launched(boot.target)' = Launched(boot.target) BY <1>1, <1>2 DEF Launched
  <2> QED BY <1>1, <1>2, <2>1 DEF Booted, IsSmoltcp, IsDuckdb, Idle
<1>12. Heard' BY <1>2, <1>4, <1>5, <1>7 DEF Heard
<1>13. dep # "none" BY <1>2
<1> QED BY <1>8, <1>9, <1>10, <1>11, <1>12, <1>13, DeployFrame DEF Context

LEMMA VerdictStep ==
    ASSUME Context, Verdict
    PROVE  IInv'
<1>1. /\ DriverTypes /\ DeployTypes /\ Deployed /\ Ending /\ Booted /\ Heard /\ Idle
      /\ UNCHANGED <<sweep, bzone, dpc, iid, interrupted, warned, refused>>
      /\ UNCHANGED <<pc, box, Cell, Target, Holds, Own>>
      /\ IsSmoltcp => ~IsDuckdb
  BY Contexts
<1>2. /\ dep = "console" /\ vm = "up" /\ "COMPLETE" \notin log
      /\ UNCHANGED <<dep, vm, why, ami, heads, said, noise>>
  BY DEF Verdict, Talks
<1>3. PICK l \in {"COMPLETE", "INCOMPLETE", "crash"} :
          /\ log' = log \cup {l}
          /\ l = "COMPLETE" =>
                \/ IsDuckdb /\ boot.args # None /\ said = Len(boot.args) /\ boot' = boot
                \/ /\ ~IsDuckdb \/ (~boot.ours /\ said = 0)
                   /\ boot.target = 0 \/ Up(boot.target)
                   /\ boot' = [boot EXCEPT !.dialled = boot.target]
          /\ l # "COMPLETE" => boot' = boot
  BY DEF Verdict, Says
<1>4. /\ boot' \in Boot1 /\ boot'.knobs = boot.knobs /\ boot'.target = boot.target
      /\ boot'.args = boot.args /\ boot'.zone = boot.zone /\ boot'.ours = boot.ours
      /\ boot'.dialled # 0 => l = "COMPLETE" /\ (IsDuckdb => ~boot.ours)
                              /\ boot'.dialled = boot.target /\ Launched(boot.target)
  <2>1. boot \in Boot1 /\ boot.dialled = 0 BY <1>1, <1>2 DEF DeployTypes, Booted
  <2>2. Up(boot.target) => Launched(boot.target) BY DEF Up, Launched
  <2>3. CASE boot' = boot BY <2>1, <2>3
  <2>4. CASE /\ l = "COMPLETE" /\ (IsDuckdb => ~boot.ours)
             /\ boot.target = 0 \/ Up(boot.target)
             /\ boot' = [boot EXCEPT !.dialled = boot.target]
    BY <2>1, <2>2, <2>4 DEF Boot1
  <2> QED BY <1>3, <2>3, <2>4
<1>5. DeployTypes' BY <1>1, <1>2, <1>3, <1>4 DEF DeployTypes
<1>6. Deployed' BY <1>1, <1>2, <1>3 DEF Deployed, Early
<1>7. Ending' BY <1>1, <1>2, <1>3 DEF Ending
<1>8. Booted'
  <2>1. boot'.dialled # 0 => Launched(boot.target)' BY <1>1, <1>4 DEF Launched
  <2> QED BY <1>1, <1>2, <1>3, <1>4, <2>1 DEF Booted, IsSmoltcp, IsDuckdb, Idle
<1>9. Heard' BY <1>1, <1>2, <1>3, <1>4 DEF Heard, IsDuckdb
<1>10. dep # "none" BY <1>2
<1> QED BY <1>5, <1>6, <1>7, <1>8, <1>9, <1>10, DeployFrame DEF Context

LEMMA DeployStep ==
    ASSUME IInv, Deploy
    PROVE  IInv'
<1>1. Context BY DEF Deploy, Context
<1> QED BY <1>1, RegisterStep, LaunchStep, AnswerStep, VerdictStep DEF Deploy

\* A step of run_once.
Once ==
    /\ IInv /\ pc["driver"] = "idle" /\ dpc \in {"deploy"} \cup Running /\ dpc' \in Running
    /\ UNCHANGED <<server, args, image, cell, built, rows>>

LEMMA OnceFrame ==
    ASSUME Once, iid' \in BOOLEAN, interrupted' \in BOOLEAN, refused' \in BOOLEAN,
           warned' \subseteq {"image", "instance"},
           DeployTypes', Deployed', Ending', Booted', Heard'
    PROVE  IInv'
<1>1. /\ ServerInv' /\ DriverTypes' /\ Places' /\ Address' /\ Baked' /\ RowsOK'
  BY RunFrame DEF Once
<1>2. NoDeploy'
  <2>1. dpc' \notin Building BY DEF Once, Building, Running
  <2> QED BY <2>1 DEF NoDeploy
<1> QED BY <1>1, <1>2 DEF IInv, RunInv

LEMMA Onces ==
    ASSUME Once
    PROVE  /\ DriverTypes /\ DeployTypes /\ NoDeploy /\ Deployed /\ Ending /\ Booted /\ Heard
           /\ Idle /\ Types
           /\ UNCHANGED <<sweep, ip, bzone, pc, obj, box, Cell, Target, Holds, Own>>
           /\ IsSmoltcp => ~IsDuckdb
<1>1. UNCHANGED <<sweep, ip, bzone, pc, obj, box, cell>> BY DEF Once, args, server
<1>2. UNCHANGED <<Cell, Target, Holds, Own>> BY <1>1 DEF Cell, Target, Holds, Own
<1>3. RunInv /\ ServerInv /\ pc["driver"] = "idle" BY DEF Once, IInv
<1>4. IsSmoltcp => ~IsDuckdb BY <1>3, Arms DEF RunInv, DriverTypes
<1> QED BY <1>1, <1>2, <1>3, <1>4 DEF RunInv, ServerInv, Idle

LEMMA StartDeployStep ==
    ASSUME IInv, StartDeploy
    PROVE  IInv'
<1>1. /\ dpc = "deploy" /\ dpc' = "id" /\ pc["driver"] = "idle" /\ dep' = "upload"
      /\ boot' = [NoBoot EXCEPT !.zone = IF Holds THEN Own.zone ELSE bzone]
      /\ UNCHANGED <<vm, why, ami, log, heads, said, noise>>
      /\ UNCHANGED <<iid, interrupted, warned, refused>>
  BY DEF StartDeploy, At, To, seen
<1>2. Once BY <1>1 DEF StartDeploy, Same, Once, Running
<1>3. /\ DriverTypes /\ DeployTypes /\ NoDeploy /\ Types
      /\ UNCHANGED <<sweep, bzone, pc, Cell, Target, Holds, Own>>
  BY <1>2, Onces
<1>4. /\ vm = "none" /\ why = "none" /\ ~ami /\ log = {} /\ heads = <<>> /\ said = 0
      /\ noise = 0 /\ ~iid /\ ~interrupted /\ warned = {} /\ ~refused
  BY <1>1, <1>3 DEF NoDeploy, Building
<1>5. /\ boot' \in Boot1 /\ boot'.args = <<>> /\ boot'.dialled = 0
      /\ boot'.zone = IF Holds THEN Own.zone ELSE bzone
  <2>1. (IF Holds THEN Own.zone ELSE bzone) \in Zones \cup {"none"}
    <3>1. obj["driver"] \in Object BY <1>3 DEF Types, Users
    <3> QED BY <1>3, <3>1 DEF Own, Object, DriverTypes
  <2>2. None \in Seq(Nat) /\ None = <<>> BY DEF None
  <2> HIDE DEF None
  <2> QED BY <1>1, <2>1, <2>2 DEF NoBoot, Boot1
<1>6. DeployTypes' BY <1>1, <1>3, <1>5 DEF DeployTypes
<1>7. Deployed' BY <1>1, <1>4 DEF Deployed, Early
<1>8. Ending' BY <1>1, <1>4 DEF Ending
<1>9. Booted' BY <1>1, <1>3, <1>4, <1>5 DEF Booted
<1>10. Heard'
  <2>1. Len(heads') = 0 /\ Len(boot'.args) = 0 BY <1>1, <1>4, <1>5
  <2> QED BY <1>1, <1>4, <2>1 DEF Heard
<1>11. /\ iid' \in BOOLEAN /\ interrupted' \in BOOLEAN /\ refused' \in BOOLEAN
       /\ warned' \subseteq {"image", "instance"}
  BY <1>1, <1>3 DEF DriverTypes
<1> QED BY <1>2, <1>6, <1>7, <1>8, <1>9, <1>10, <1>11, OnceFrame

\* The steps that only look, and the end of the instance: they leave the guest's words alone.
LEMMA LookStep ==
    ASSUME IInv, FindId \/ NoId \/ AwaitVerdict \/ EndInstance \/ Signal \/ Wait
    PROVE  IInv'
<1>1. /\ Once /\ dpc \in Running /\ UNCHANGED <<boot, log, heads, said, noise, ami>>
  BY DEF FindId, NoId, AwaitVerdict, EndInstance, Signal, Wait, At, To, Same, Once, Running, deploy
<1>2. /\ DriverTypes /\ DeployTypes /\ Deployed /\ Ending /\ Booted /\ Heard /\ Idle
      /\ UNCHANGED <<sweep, bzone, pc, box, Cell, Target, Holds, Own>>
  BY <1>1, Onces
<1>3. dep # "none" BY <1>1, <1>2 DEF Deployed
<1>4. Heard' BY <1>1, <1>2 DEF Heard, IsDuckdb
<1>5. ASSUME dep' \in {"launch", "id", "console"} => dep' = dep PROVE Booted'
  <2>1. Launched(boot.target)' = Launched(boot.target) BY <1>1, <1>2 DEF Launched
  <2> QED BY <1>1, <1>2, <1>3, <1>5, <2>1 DEF Booted, IsSmoltcp, IsDuckdb, Idle
<1>6. /\ iid \in BOOLEAN /\ interrupted \in BOOLEAN /\ refused \in BOOLEAN
      /\ warned \subseteq {"image", "instance"}
  BY <1>2 DEF DriverTypes
<1>7. CASE FindId \/ NoId \/ AwaitVerdict
  <2>1. /\ UNCHANGED <<dep, vm, why, interrupted, warned, refused>>
        /\ \/ dpc = "id" /\ dpc' = "verdict" /\ "id" \in log /\ iid' = TRUE
           \/ dpc = "id" /\ dpc' = "signal" /\ iid' = iid
           \/ dpc = "verdict" /\ dpc' = "end" /\ iid' = iid
    BY <1>7 DEF FindId, NoId, AwaitVerdict, At, To, deploy, seen
  <2>2. DeployTypes' BY <1>1, <1>2, <2>1 DEF DeployTypes
  <2>3. Deployed' BY <1>1, <1>2, <1>3, <2>1 DEF Deployed
  <2>4. Ending' BY <1>1, <1>2, <2>1 DEF Ending
  <2>5. iid' \in BOOLEAN BY <1>6, <2>1
  <2> QED BY <1>1, <1>4, <1>5, <1>6, <2>1, <2>2, <2>3, <2>4, <2>5, OnceFrame
<1>8. CASE EndInstance
  <2>1. /\ dpc = "end" /\ dpc' = "signal" /\ UNCHANGED <<dep, iid, warned>>
        /\ interrupted' \in {why = "spot", FALSE}
        /\ \/ /\ vm' = "gone" /\ why' = (IF vm = "up" THEN "user" ELSE why)
              /\ UNCHANGED refused
           \/ refused' = TRUE /\ UNCHANGED <<vm, why>>
    BY <1>8 DEF EndInstance, At, To
  <2>2. iid /\ "id" \in log /\ vm # "none" /\ dep \notin Early
    BY <1>2, <2>1 DEF Ending, Deployed
  <2>3. DeployTypes' BY <1>1, <1>2, <2>1 DEF DeployTypes
  <2>4. why = "spot" => vm = "gone" BY <1>2 DEF Deployed
  <2>5. Deployed' BY <1>1, <1>2, <1>3, <2>1, <2>2, <2>3, <2>4 DEF Deployed, DeployTypes, Early
  <2>6. Ending' BY <1>1, <1>2, <2>1, <2>2 DEF Ending
  <2>7. interrupted' \in BOOLEAN /\ refused' \in BOOLEAN BY <1>6, <2>1
  <2> QED BY <1>1, <1>4, <1>5, <1>6, <2>1, <2>3, <2>5, <2>6, <2>7, OnceFrame
<1>9. CASE Signal
  <2>1. /\ dpc = "signal" /\ dpc' = "wait"
        /\ dep' = IF dep \in {"teardown", "exited"} THEN dep ELSE "teardown"
        /\ UNCHANGED <<vm, why, iid, interrupted, warned, refused>>
    BY <1>9 DEF Signal, At, To, seen
  <2>2. DeployTypes' BY <1>1, <1>2, <2>1 DEF DeployTypes
  <2>3. Deployed' BY <1>1, <1>2, <2>1 DEF Deployed, Early
  <2>4. Ending' BY <1>1, <1>2, <2>1 DEF Ending
  <2> QED BY <1>1, <1>4, <1>5, <1>6, <2>1, <2>2, <2>3, <2>4, OnceFrame
<1>10. CASE Wait
  <2>1. /\ dpc = "wait" /\ dpc' = "row" /\ UNCHANGED <<vm, why, iid, interrupted, refused>>
        /\ \/ dep = "exited" /\ UNCHANGED dep /\ warned' = NoIdWarning
           \/ dep # "exited" /\ dep' = "killed" /\ warned' = NoIdWarning \cup {"image"}
    BY <1>10 DEF Wait, At, To
  <2>2. NoIdWarning \subseteq {"instance"} /\ (~iid => "instance" \in NoIdWarning)
    BY DEF NoIdWarning
  <2>3. DeployTypes' BY <1>1, <1>2, <2>1 DEF DeployTypes
  <2>4. Deployed' BY <1>1, <1>2, <2>1 DEF Deployed, Early
  <2>5. Ending' BY <1>1, <1>2, <2>1, <2>2 DEF Ending
  <2>6. warned' \subseteq {"image", "instance"} BY <2>1, <2>2
  <2> QED BY <1>1, <1>4, <1>5, <1>6, <2>1, <2>3, <2>4, <2>5, <2>6, OnceFrame
<1> QED BY <1>7, <1>8, <1>9, <1>10

-----------------------------------------------------------------------------
(***************************************************************************)
(* Rows.                                                                   *)
(***************************************************************************)
LEMMA SameSeq ==
    ASSUME NEW s \in Seq(Nat), NEW t \in Seq(Nat), Len(s) = Len(t),
           \A k \in 1..Len(s) : s[k] = t[k]
    PROVE  s = t
OBVIOUS

LEMMA RowsMore ==
    ASSUME RowsOK, rows \in Seq(Rows), NEW rs \in Seq(Rows), rows' = rows \o rs,
           UNCHANGED <<sweep, box>>,
           \A k \in 1..Len(rs) : NamesItsServer(rs[k]) /\ OfItsCell(rs[k])
    PROVE  RowsOK' /\ rows' \in Seq(Rows)
<1>1. rows' \in Seq(Rows) OBVIOUS
<1>2. \A r : NamesItsServer(r)' <=> NamesItsServer(r) BY DEF NamesItsServer, Launched
<1>3. \A r : OfItsCell(r)' <=> OfItsCell(r) BY DEF OfItsCell, Valid, IsDuckdb, IsLinux
<1>4. Len(rows) \in Nat /\ Len(rs) \in Nat /\ DOMAIN rows = 1..Len(rows)
      /\ DOMAIN rows' = 1..Len(rows) + Len(rs)
  OBVIOUS
<1>5. ASSUME NEW n \in 1..Len(rows) + Len(rs)
      PROVE  NamesItsServer(rows[n])' /\ OfItsCell(rows[n])'
  <2> DEFINE r == rows'[n]
  <2>1. NamesItsServer(r) /\ OfItsCell(r)
    <3>1. CASE n <= Len(rows)
      <4>1. n \in 1..Len(rows) /\ r = rows[n] BY <1>4, <3>1
      <4> QED BY <1>4, <4>1 DEF RowsOK
    <3>2. CASE n > Len(rows)
      <4>1. n - Len(rows) \in 1..Len(rs) /\ r = rs[n - Len(rows)] BY <1>4, <3>2
      <4> QED BY <4>1
    <3> QED BY <1>4, <3>1, <3>2
  <2>2. PICK x : x = rows'[n] OBVIOUS
  <2>3. NamesItsServer(x)' /\ OfItsCell(x)'
    <3>1. NamesItsServer(x) /\ OfItsCell(x) BY <2>1, <2>2
    <3> QED BY <1>2, <1>3, <3>1
  <2> QED BY <2>2, <2>3 DEF NamesItsServer, OfItsCell, Valid
<1> QED BY <1>1, <1>4, <1>5 DEF RowsOK

\* On to the next cell, and no trace of the last deploy.
LEMMA RunOver ==
    ASSUME IInv, pc["driver"] = "idle", dpc \in {"run", "row"}, dpc' = "next",
           cell' = cell + 1, UNCHANGED <<server, args, built, image>>,
           ami' \in BOOLEAN, iid' \in BOOLEAN, interrupted' \in BOOLEAN, refused' \in BOOLEAN,
           NoDeploy', rows' \in Seq(Rows), RowsOK'
    PROVE  IInv'
<1>1. ServerInv /\ DriverTypes /\ Places /\ Address /\ Baked BY DEF IInv, RunInv
<1>2. ServerInv' /\ Grows /\ UNCHANGED <<pc, obj>> BY <1>1, StillStep
<1>3. UNCHANGED <<sweep, ip, bzone, box>> BY DEF args, server
<1>4. dpc' \in Building /\ dpc' \notin Running BY DEF Building, Running
<1>5. Deployed' /\ Ending' /\ Booted' /\ Heard' BY <1>4, BetweenRuns
<1>6. DeployTypes'
  <2>1. None \in Seq(Nat) /\ <<>> \in Seq(Nat) BY DEF None
  <2>2. /\ dep' = "none" /\ vm' = "none" /\ why' = "none" /\ ~ami' /\ ami' \in BOOLEAN
        /\ boot' = NoBoot /\ log' = {} /\ heads' = <<>> /\ said' = 0 /\ noise' = 0
    BY <1>4 DEF NoDeploy
  <2>3. NoBoot \in Boot1
    <3> HIDE DEF None
    <3> QED BY <2>1 DEF NoBoot, Boot1
  <2> QED BY <2>1, <2>2, <2>3 DEF DeployTypes
<1>7. DriverTypes'
  <2>1. cell <= Len(sweep.cells) BY <1>1 DEF Places
  <2>2. cell' \in 1..Len(sweep.cells) + 1
    <3>1. Len(sweep.cells) \in Nat BY <1>1, Arms DEF DriverTypes
    <3>2. cell \in 1..Len(sweep.cells) + 1 BY <1>1 DEF DriverTypes
    <3> QED BY <2>1, <3>1, <3>2
  <2>3. /\ ~iid' /\ iid' \in BOOLEAN /\ ~interrupted' /\ interrupted' \in BOOLEAN
        /\ warned' = {} /\ ~refused' /\ refused' \in BOOLEAN
    BY <1>4 DEF NoDeploy
  <2> QED BY <1>1, <1>3, <1>4, <2>2, <2>3 DEF DriverTypes
<1>8. Places' BY <1>1, <1>2, <1>4 DEF Places, Coming, Running
<1>9. UNCHANGED <<Holds, Target>> BY <1>2, <1>3 DEF Holds, Own, Target
<1>10. Address' BY <1>1, <1>2, <1>3, <1>9 DEF Address, IsDuckdb, Launched, Idle
<1>11. Baked' BY <1>1, <1>2, <1>3, <1>9 DEF Baked, IsSmoltcp, IsDuckdb, Idle, Running, IsLinux
<1> QED BY <1>2, <1>5, <1>6, <1>7, <1>8, <1>10, <1>11 DEF IInv, RunInv

LEMMA RowIs ==
    ASSUME DriverTypes, DeployTypes, cell <= Len(sweep.cells),
           NEW q \in Seq(Nat), NEW t \in Seq(Nat)
    PROVE  /\ Row(q, t) \in Rows
           /\ Row(q, t).complete = ("COMPLETE" \in log) /\ Row(q, t).whole = (noise = 0)
           /\ Row(q, t).boot = boot /\ Row(q, t).cell = Cell
           /\ Row(q, t).query = q /\ Row(q, t).t = t
<1>1. Cell \in Seq(Nat) BY CellIs
<1>2. boot \in Boot1 /\ interrupted \in BOOLEAN BY DEF DriverTypes, DeployTypes
<1> QED BY <1>1, <1>2 DEF Row, Rows, Completed

\* Where the bytes of a run came from: the address is the one thing a row goes by.
LEMMA FromTheServer ==
    ASSUME IInv, pc["driver"] = "idle", dpc \in {"run", "row"}, ~IsDuckdb, Target # 0,
           NEW r \in Rows, r.server_id = 0,
           r.boot.dialled \in {0, Target}, r.boot.zone = IF Holds THEN Own.zone ELSE bzone
    PROVE  NamesItsServer(Served(r))
<1>1. ServerInv /\ DriverTypes /\ Places /\ Address BY DEF IInv, RunInv
<1>2. obj["driver"] \in Object /\ Held("driver") BY <1>1 DEF ServerInv, Types, Users
<1>3. Idle /\ sweep.own \in BOOLEAN BY <1>1, Arms DEF Idle, DriverTypes
<1>4. built # None
  <2>1. cell <= Len(sweep.cells) /\ built = Cell BY <1>1 DEF Places, Running
  <2> QED BY <1>1, <2>1, CellIs
<1>5. CASE Holds
  <2>1. /\ Own.iid # 0 /\ Own.ip = Own.iid /\ Launched(Own.iid) /\ Own.zone = box[Own.iid].zone
    BY <1>2, <1>5 DEF Held, Own, Holds, NoServer
  <2>2. Target = Own.iid BY <1>5, <2>1 DEF Target
  <2>3. Served(r) = [r EXCEPT !.server_id = Own.iid, !.server_zone = Own.zone,
                              !.target_ip = Own.ip]
    BY <1>5 DEF Served
  <2>4. /\ Served(r).boot = r.boot /\ Served(r).complete = r.complete
        /\ Served(r).server_id = Own.iid /\ Served(r).server_zone = Own.zone
        /\ Served(r).target_ip = Own.ip
    BY <2>3 DEF Rows
  <2> QED BY <1>5, <2>1, <2>2, <2>4 DEF NamesItsServer
<1>6. CASE ~Holds
  <2>1. ~sweep.own /\ Launched(ip) /\ bzone = box[ip].zone /\ Target = ip
    BY <1>1, <1>3, <1>4, <1>6 DEF Address, Target
  <2>2. bzone \in Zones /\ bzone # "none"
    <3>1. BoxOK BY <1>1 DEF ServerInv, Types
    <3> QED BY <2>1, <3>1, HttpServerAssumption DEF BoxOK, Launched
  <2>3. Served(r) = [r EXCEPT !.server_zone = bzone, !.target_ip = ip]
    BY <1>6, <2>2 DEF Served
  <2>4. /\ Served(r).boot = r.boot /\ Served(r).complete = r.complete
        /\ Served(r).server_zone = bzone /\ Served(r).target_ip = ip
    BY <2>3 DEF Rows
  <2> QED BY <1>6, <2>1, <2>4 DEF NamesItsServer
<1> QED BY <1>5, <1>6

LEMMA ServedIs ==
    ASSUME IInv, NEW r \in Rows, ~IsDuckdb
    PROVE  /\ Served(r) \in Rows /\ Served(r).boot = r.boot /\ Served(r).complete = r.complete
           /\ Served(r).cell = r.cell
<1>1. DriverTypes /\ Types BY DEF IInv, RunInv, ServerInv
<1>2. ip \in {0} \cup Ids /\ bzone \in Zones \cup {"none"} BY <1>1 DEF DriverTypes
<1>3. Own.iid \in {0} \cup Ids /\ Own.ip \in {0} \cup Ids /\ Own.zone \in Zones \cup {"none"}
  BY <1>1 DEF Own, Types, Object, Users
<1> QED BY <1>2, <1>3 DEF Served, Rows

\* What a run of smoltcp-s3 or of a Linux arm appends.
LEMMA OneRow ==
    ASSUME NEW r \in Rows, NamesItsServer(r), OfItsCell(r)
    PROVE  /\ <<r>> \in Seq(Rows)
           /\ \A k \in 1..Len(<<r>>) : NamesItsServer(<<r>>[k]) /\ OfItsCell(<<r>>[k])
<1> DEFINE rs == <<r>>
<1>1. rs \in Seq(Rows) /\ Len(rs) = 1 /\ rs[1] = r OBVIOUS
<1> HIDE DEF rs
<1>2. \A k \in 1..Len(rs) : k = 1 BY <1>1
<1>3. \A k \in 1..Len(rs) : rs[k] = r BY <1>1, <1>2
<1>4. \A k \in 1..Len(rs) : NamesItsServer(rs[k]) /\ OfItsCell(rs[k]) BY <1>3
<1> QED BY <1>1, <1>4 DEF rs

LEMMA DuckdbRow ==
    ASSUME IInv, pc["driver"] = "idle", dpc = "row", IsDuckdb
    PROVE  /\ DuckdbRows \in Seq(Rows)
           /\ \A k \in 1..Len(DuckdbRows) :
                 NamesItsServer(DuckdbRows[k]) /\ OfItsCell(DuckdbRows[k])
<1>1. /\ DriverTypes /\ DeployTypes /\ Booted /\ Heard /\ cell <= Len(sweep.cells)
  BY DEF IInv, RunInv, Places
<1>2. Cell \in Seq(Nat) /\ Cell # None /\ ~IsSmoltcp
  BY <1>1, CellIs, Arms DEF DriverTypes
<1>3. boot.ours => boot.dialled = 0 BY <1>1 DEF Booted
<1>4. heads \in Seq(Nat) /\ Len(heads) \in Nat /\ said \in Nat /\ noise \in Nat
      /\ Len(heads) + noise = said /\ boot.args \in Seq(Nat)
  BY <1>1 DEF DeployTypes, Heard, Boot1
<1>5. ASSUME "COMPLETE" \in log, Len(heads) # 0
      PROVE  boot.args = Cell /\ said = Len(Cell) /\ (boot.ours => boot.knobs = Cell)
  <2>1. said # 0
    <3> DEFINE n == Len(heads)
    <3>1. n \in Nat /\ n # 0 /\ noise \in Nat /\ said = n + noise BY <1>4, <1>5
    <3> HIDE DEF n
    <3> QED BY <3>1
  <2>2. boot.args # None /\ said = Len(boot.args) BY <1>1, <1>5, <2>1 DEF Heard
  <2>3. log # {} BY <1>5
  <2> QED BY <1>1, <2>2, <2>3 DEF Booted
<1>6. ASSUME "COMPLETE" \in log, Len(heads) # 0, noise = 0 PROVE heads = Cell
  <2>1. Len(heads) = said BY <1>4, <1>6
  <2>2. Len(heads) = Len(Cell) BY <2>1, <1>5, <1>6
  <2>3. \A k \in 1..Len(heads) : heads[k] = Cell[k] BY <1>1, <1>5, <1>6, <2>1 DEF Heard
  <2> QED BY <1>2, <1>4, <2>2, <2>3, SameSeq
<1>7. ASSUME "COMPLETE" \in log, Len(Cell) = 1, Len(heads) # 0 PROVE noise = 0 /\ Len(heads) = 1
  <2>1. said = 1 BY <1>5, <1>7
  <2>2. Len(heads) \in Nat /\ noise \in Nat /\ Len(heads) + noise = said BY <1>4
  <2> DEFINE n == Len(heads)
  <2>3. n \in Nat /\ noise \in Nat /\ n + noise = 1 /\ n # 0 BY <1>7, <2>1, <2>2
  <2> HIDE DEF n
  <2>4. noise = 0 /\ n = 1 BY <2>3
  <2> QED BY <2>4 DEF n
<1>8. CASE Len(heads) <= 1
  <2> DEFINE r == Row(Cell, heads)
  <2>1. /\ r \in Rows /\ r.complete = ("COMPLETE" \in log) /\ r.whole = (noise = 0)
        /\ r.boot = boot /\ r.cell = Cell /\ r.query = Cell /\ r.t = heads
    BY <1>1, <1>2, <1>4, RowIs
  <2>2. DuckdbRows = <<r>> BY <1>8 DEF DuckdbRows
  <2> HIDE DEF r
  <2>3. NamesItsServer(r) BY <1>3, <2>1 DEF NamesItsServer
  <2>4. OfItsCell(r)
    <3>1. ASSUME Valid(r)
          PROVE  r.boot.args = r.cell /\ (r.whole => r.t = r.query)
                 /\ (Len(r.cell) = 1 => r.t = r.cell)
                 /\ (r.boot.ours => r.boot.knobs = r.cell)
      <4>1. "COMPLETE" \in log /\ heads # None BY <2>1, <3>1 DEF Valid
      <4>2. Len(heads) # 0 BY <1>4, <4>1 DEF None
      <4>3. r.boot.args = r.cell /\ (r.boot.ours => r.boot.knobs = r.cell)
        BY <1>5, <2>1, <4>1, <4>2
      <4>4. r.whole => r.t = r.query BY <1>6, <2>1, <4>1, <4>2
      <4>5. Len(r.cell) = 1 => r.t = r.cell BY <1>6, <1>7, <2>1, <4>1, <4>2
      <4> QED BY <4>3, <4>4, <4>5
    <3> QED BY <1>2, <3>1 DEF OfItsCell
  <2> QED BY <2>1, <2>2, <2>3, <2>4, OneRow
<1>9. CASE ~(Len(heads) <= 1)
  <2>1. DuckdbRows = [i \in 1..Len(heads) |-> Row(<<heads[i]>>, <<heads[i]>>)]
    BY <1>9 DEF DuckdbRows
  <2>2. ASSUME NEW i \in 1..Len(heads)
        PROVE  LET r == Row(<<heads[i]>>, <<heads[i]>>)
               IN  r \in Rows /\ NamesItsServer(r) /\ OfItsCell(r)
    <3> DEFINE q == <<heads[i]>>
               r == Row(q, q)
    <3>1. heads[i] \in Nat BY <1>4, <2>2
    <3>2. q \in Seq(Nat) BY <3>1
    <3> HIDE DEF q
    <3>3. /\ r \in Rows /\ r.complete = ("COMPLETE" \in log) /\ r.boot = boot /\ r.cell = Cell
          /\ r.query = q /\ r.t = q
      BY <1>1, <3>2, RowIs
    <3> HIDE DEF r
    <3>4. NamesItsServer(r) BY <1>3, <3>3 DEF NamesItsServer
    <3>5. ASSUME Valid(r)
          PROVE  /\ r.boot.args = r.cell /\ Len(r.cell) # 1
                 /\ r.boot.ours => r.boot.knobs = r.cell
      <4>1. "COMPLETE" \in log BY <3>3, <3>5 DEF Valid
      <4>2. Len(heads) # 0 /\ Len(heads) # 1
        <5> DEFINE n == Len(heads)
        <5>1. n \in Nat /\ ~(n <= 1) BY <1>4, <1>9
        <5> HIDE DEF n
        <5>2. n # 0 /\ n # 1 BY <5>1
        <5> QED BY <5>2 DEF n
      <4> QED BY <1>5, <1>7, <3>3, <4>1, <4>2
    <3>6. OfItsCell(r) BY <1>2, <3>3, <3>5 DEF OfItsCell
    <3> QED BY <3>3, <3>4, <3>6 DEF r, q
  <2>3. DuckdbRows \in Seq(Rows) /\ Len(DuckdbRows) = Len(heads)
    <3> DEFINE R(i) == Row(<<heads[i]>>, <<heads[i]>>)
    <3>1. \A i \in 1..Len(heads) : R(i) \in Rows BY <2>2
    <3>2. DuckdbRows = [i \in 1..Len(heads) |-> R(i)] BY <2>1
    <3> HIDE DEF R
    <3> QED BY <1>4, <3>1, <3>2
  <2>4. ASSUME NEW k \in 1..Len(DuckdbRows)
        PROVE  NamesItsServer(DuckdbRows[k]) /\ OfItsCell(DuckdbRows[k])
    <3>1. k \in 1..Len(heads) BY <2>3
    <3>2. DuckdbRows[k] = Row(<<heads[k]>>, <<heads[k]>>) BY <2>1, <3>1
    <3> QED BY <2>2, <3>1, <3>2
  <2> QED BY <2>3, <2>4
<1> QED BY <1>8, <1>9

LEMMA SmoltcpRow ==
    ASSUME IInv, pc["driver"] = "idle", dpc = "row", ~IsDuckdb
    PROVE  LET r == Served(Row(Cell, None))
           IN  r \in Rows /\ NamesItsServer(r) /\ OfItsCell(r)
<1>1. /\ DriverTypes /\ DeployTypes /\ Booted /\ Deployed /\ cell <= Len(sweep.cells)
      /\ ~IsLinux /\ Idle
  BY DEF IInv, RunInv, Places, Running, Idle
<1>2. IsSmoltcp /\ Cell \in Seq(Nat) /\ None \in Seq(Nat)
  BY <1>1, CellIs, Arms DEF DriverTypes, None
<1> DEFINE row == Row(Cell, None)
           r == Served(row)
<1>3. /\ row \in Rows /\ row.complete = ("COMPLETE" \in log) /\ row.boot = boot
      /\ row.cell = Cell
  BY <1>1, <1>2, RowIs
<1>4. row.server_id = 0 BY DEF Row
<1> HIDE DEF row
<1>5. r \in Rows /\ r.boot = boot /\ r.complete = row.complete /\ r.cell = Cell
  BY <1>3, ServedIs
<1>6. OfItsCell(r)
  <2>1. r.complete => log # {} BY <1>3, <1>5
  <2> HIDE DEF r
  <2>2. r.complete /\ r.boot.ours => r.boot.knobs = r.cell BY <1>1, <1>2, <1>5, <2>1 DEF Booted
  <2> QED BY <1>1, <2>2 DEF OfItsCell, Valid
<1>7. NamesItsServer(r)
  <2>1. CASE boot.dialled = 0 \/ ~boot.ours
    <3> HIDE DEF r
    <3> QED BY <1>5, <2>1 DEF NamesItsServer
  <2>2. CASE boot.dialled # 0 /\ boot.ours
    <3>1. "COMPLETE" \in log /\ boot.dialled = boot.target BY <1>1, <2>2 DEF Booted
    <3>2. boot.target = Target BY <1>1, <1>2, <2>2, <3>1 DEF Booted
    <3>3. boot.zone = IF Holds THEN Own.zone ELSE bzone
      <4>1. dep # "none" BY <1>1 DEF Deployed, Running
      <4> QED BY <1>1, <4>1 DEF Booted
    <3> QED BY <1>3, <1>4, <2>2, <3>1, <3>2, <3>3, FromTheServer
  <2> QED BY <2>1, <2>2
<1> QED BY <1>5, <1>6, <1>7 DEF row

LEMMA ReturnStep ==
    ASSUME IInv, Return
    PROVE  IInv'
<1>1. pc["driver"] = "idle" /\ dpc = "row" /\ UNCHANGED <<args, built, image>>
  BY DEF Return, At
<1>2. CASE Ends /\ UNCHANGED <<cell, rows, deploy, seen>>
  BY <1>1, <1>2, EndsFrame DEF IInv
<1>3. CASE /\ rows' = rows \o (IF IsDuckdb THEN DuckdbRows ELSE <<Served(Row(Cell, None))>>)
           /\ cell' = cell + 1 /\ To("next") /\ Fresh /\ UNCHANGED server
  <2> DEFINE rs == IF IsDuckdb THEN DuckdbRows ELSE <<Served(Row(Cell, None))>>
  <2>1. rs \in Seq(Rows) /\ \A k \in 1..Len(rs) : NamesItsServer(rs[k]) /\ OfItsCell(rs[k])
    <3>1. CASE IsDuckdb
      <4>1. rs = DuckdbRows BY <3>1
      <4> HIDE DEF rs
      <4> QED BY <1>1, <3>1, <4>1, DuckdbRow
    <3>2. CASE ~IsDuckdb
      <4> DEFINE r == Served(Row(Cell, None))
      <4>1. r \in Rows /\ NamesItsServer(r) /\ OfItsCell(r) BY <1>1, <3>2, SmoltcpRow
      <4>2. rs = <<r>> BY <3>2
      <4> HIDE DEF rs, r
      <4> QED BY <4>1, <4>2, OneRow
    <3> QED BY <3>1, <3>2
  <2>2. rows' = rows \o rs BY <1>3
  <2> HIDE DEF rs
  <2>3. UNCHANGED <<sweep, box>> BY <1>1, <1>3 DEF args, server
  <2>4. RowsOK /\ rows \in Seq(Rows) BY DEF IInv, RunInv, DriverTypes
  <2>5. RowsOK' /\ rows' \in Seq(Rows) BY <2>1, <2>2, <2>3, <2>4, RowsMore
  <2>6. NoDeploy' BY <1>3 DEF NoDeploy, Fresh
  <2>7. /\ dpc' = "next" /\ ami' \in BOOLEAN /\ iid' \in BOOLEAN /\ interrupted' \in BOOLEAN
        /\ refused' \in BOOLEAN
    BY <1>3 DEF Fresh, To
  <2> QED BY <1>1, <1>3, <2>5, <2>6, <2>7, RunOver
<1> QED BY <1>2, <1>3 DEF Return, Append2

LEMMA RunLinuxStep ==
    ASSUME IInv, RunLinux
    PROVE  IInv'
<1>1. /\ pc["driver"] = "idle" /\ dpc = "run" /\ IsLinux
      /\ UNCHANGED <<args, deploy, seen, built, image>>
  BY DEF RunLinux, At
<1>2. CASE Ends /\ UNCHANGED <<cell, rows>>
  BY <1>1, <1>2, EndsFrame DEF IInv
<1>3. ASSUME Target # 0, NEW complete \in {FALSE, Up(Target)},
             LET b == [NoBoot EXCEPT !.target = Target,
                                     !.zone = IF Holds THEN Own.zone ELSE bzone,
                                     !.dialled = IF complete THEN Target ELSE 0]
                 r == [Row(Cell, None) EXCEPT !.complete = complete, !.boot = b]
             IN  rows' = rows \o <<Served(r)>>,
             cell' = cell + 1, To("next"), UNCHANGED server
      PROVE  IInv'
  <2>1. /\ DriverTypes /\ DeployTypes /\ NoDeploy /\ cell <= Len(sweep.cells) /\ Types /\ RowsOK
    BY <1>1 DEF IInv, RunInv, ServerInv, Places
  <2>2. /\ sweep.arm \in {"anyblob", "linux-http"} /\ ~IsDuckdb /\ ~IsSmoltcp
        /\ Cell \in Seq(Nat) /\ None \in Seq(Nat)
    BY <1>1, <2>1, CellIs DEF None, IsLinux, IsDuckdb, IsSmoltcp
  <2> DEFINE zone == IF Holds THEN Own.zone ELSE bzone
             dialled == IF complete THEN Target ELSE 0
             b == [NoBoot EXCEPT !.target = Target, !.zone = zone, !.dialled = dialled]
             row == Row(Cell, None)
             r == [row EXCEPT !.complete = complete, !.boot = b]
             s == Served(r)
  <2>3. Target \in {0} \cup Ids /\ zone \in Zones \cup {"none"}
    <3>1. obj["driver"] \in Object BY <2>1 DEF Types, Users
    <3> QED BY <2>1, <3>1 DEF Target, Own, Object, DriverTypes
  <2>4. complete \in BOOLEAN BY <1>3 DEF Up
  <2>5. row \in Rows /\ row.server_id = 0
    <3>1. row \in Rows BY <2>1, <2>2, RowIs
    <3> QED BY <3>1 DEF Row
  <2>6. rows' = rows \o <<s>> BY <1>3
  <2>7. dialled \in {0, Target} OBVIOUS
  <2> HIDE DEF zone, dialled, row
  <2>8. b \in Boot1 /\ b.dialled = dialled /\ b.zone = zone
    <3> HIDE DEF None
    <3> QED BY <2>2, <2>3, <2>7 DEF NoBoot, Boot1
  <2> HIDE DEF b
  <2>9. r \in Rows /\ r.server_id = 0 /\ r.boot = b BY <2>4, <2>5, <2>8 DEF Rows
  <2> HIDE DEF r
  <2>10. s \in Rows BY <2>2, <2>9, ServedIs
  <2>11. NamesItsServer(s)
    <3>1. r.boot.dialled \in {0, Target} /\ r.boot.zone = IF Holds THEN Own.zone ELSE bzone
      BY <2>7, <2>8, <2>9 DEF zone
    <3> QED BY <1>1, <1>3, <2>2, <2>9, <3>1, FromTheServer
  <2>12. OfItsCell(s) BY <1>1, <2>2 DEF OfItsCell
  <2> HIDE DEF s
  <2> DEFINE rs == <<s>>
  <2>13. rs \in Seq(Rows) /\ \A k \in 1..Len(rs) : NamesItsServer(rs[k]) /\ OfItsCell(rs[k])
    BY <2>10, <2>11, <2>12, OneRow
  <2>14. rows' = rows \o rs BY <2>6
  <2> HIDE DEF rs
  <2>15. UNCHANGED <<sweep, box>> BY <1>1, <1>3 DEF args, server
  <2>16. RowsOK' /\ rows' \in Seq(Rows)
    BY <2>1, <2>13, <2>14, <2>15, RowsMore DEF DriverTypes
  <2>17. UNCHANGED <<dep, vm, why, ami, boot, log, heads, said, noise>>
         /\ UNCHANGED <<iid, interrupted, warned, refused>>
    BY <1>1 DEF deploy, seen
  <2>18. NoDeploy' BY <1>1, <2>1, <2>17 DEF NoDeploy, Building
  <2>19. /\ dpc' = "next" /\ ami' \in BOOLEAN /\ iid' \in BOOLEAN /\ interrupted' \in BOOLEAN
         /\ refused' \in BOOLEAN
    BY <1>3, <2>1, <2>17 DEF To, DriverTypes, DeployTypes
  <2> QED BY <1>1, <1>3, <2>16, <2>18, <2>19, RunOver
<1> QED BY <1>2, <1>3 DEF RunLinux, Append2

-----------------------------------------------------------------------------
(***************************************************************************)
(* The servers while the driver works, and the end of the driver.          *)
(***************************************************************************)
LEMMA BrokenStep ==
    ASSUME IInv, Broken
    PROVE  IInv'
<1>1. ServerInv /\ RunInv /\ RowsOK /\ "driver" \in Users BY DEF IInv, Users
<1>2. ServerInv' /\ Grows /\ pc'["driver"] = "off" /\ obj'["driver"] = NoServer
  <2>1. CASE Interrupt("driver")
    <3>1. Quit("driver", Unheld("driver")) BY <2>1 DEF Interrupt
    <3> QED BY <1>1, <3>1, QuitStep
  <2>2. CASE Killed("driver") BY <1>1, <2>2, KilledStep
  <2> QED BY <2>1, <2>2 DEF Broken
<1> QED BY <1>1, <1>2, ServersFrame DEF Broken, IInv

LEMMA ServersStep ==
    ASSUME IInv, Servers
    PROVE  IInv'
<1>1. /\ ServerInv /\ RunInv /\ RowsOK /\ "driver" \in Users
      /\ UNCHANGED <<args, deploy, seen, driver, image>>
  BY DEF IInv, Users, Servers
<1>2. CASE Machines
  <2>1. ServerInv' /\ Grows /\ UNCHANGED <<pc, obj>> BY <1>1, <1>2, MachinesStep
  <2> QED BY <1>1, <2>1, ServersFrame DEF IInv
<1>3. CASE Starting("driver")
  <2>1. /\ ServerInv' /\ Grows
        /\ \/ pc'["driver"] = "off" /\ obj'["driver"] = NoServer
           \/ pc'["driver"] \in Coming
    BY <1>1, <1>3, StartingStep
  <2>2. pc["driver"] \in Coming
    BY <1>3 DEF Starting, TryZone, Note, Ready, NeverReady, Coming
  <2> QED BY <1>1, <2>1, <2>2, ServersFrame DEF IInv
<1>4. CASE Operator
  <2>1. Cli BY <1>4 DEF Operator
  <2>2. ServerInv' /\ Grows /\ pc'["driver"] = pc["driver"] /\ obj'["driver"] = obj["driver"]
    BY <1>1, <2>1, CliStep
  <2> QED BY <1>1, <2>2, ServersFrame DEF IInv
<1> QED BY <1>2, <1>3, <1>4 DEF Servers

LEMMA StutterStep ==
    ASSUME IInv, UNCHANGED vars
    PROVE  IInv'
<1>1. /\ ServerInv /\ RunInv /\ RowsOK
      /\ UNCHANGED server /\ UNCHANGED <<args, deploy, seen, driver, image>>
  BY DEF IInv, vars
<1>2. ServerInv' /\ Grows /\ UNCHANGED <<pc, obj>> BY <1>1, StillStep
<1> QED BY <1>1, <1>2, ServersFrame DEF IInv

LEMMA StepIInv == IInv /\ [Next]_vars => IInv'
<1> SUFFICES ASSUME IInv, [Next]_vars PROVE IInv' OBVIOUS
<1>1. CASE StartDriver \/ NextCell \/ Replace \/ BuildExternal \/ Started
  BY <1>1, StartDriverStep, NextCellStep, ReplaceRun, BuildExternalStep, StartedStep
<1>2. CASE Bake \/ BuildLinux \/ Make \/ BeginRun \/ Remake
  BY <1>2, BakeStep, BuildLinuxStep, MakeStep, BeginRunStep, RemakeStep
<1>3. CASE StartDeploy \/ FindId \/ NoId \/ AwaitVerdict \/ EndInstance \/ Signal \/ Wait
  BY <1>3, StartDeployStep, LookStep
<1>4. CASE Return \/ RunLinux \/ Broken
  BY <1>4, ReturnStep, RunLinuxStep, BrokenStep
<1>5. CASE Servers \/ Deploy BY <1>5, ServersStep, DeployStep
<1>6. CASE UNCHANGED vars BY <1>6, StutterStep
<1> QED BY <1>1, <1>2, <1>3, <1>4, <1>5, <1>6 DEF Next, Driver

LEMMA InitIInv == Init => IInv
<1> SUFFICES ASSUME Init PROVE IInv OBVIOUS
<1>1. /\ box = [i \in Ids |-> [st |-> "none", zone |-> "none", says |-> "none"]]
      /\ pc = [u \in Users |-> "off"] /\ todo = [u \in Users |-> {}]
      /\ new = [u \in Users |-> 0] /\ obj = [u \in Users |-> NoServer]
      /\ file = 0 /\ saw = [u \in Users |-> 0] /\ crossed = {} /\ lost = {} /\ sweep \in Sweeps /\ ip = 0 /\ bzone = "none"
      /\ dpc = "off" /\ cell = 1 /\ built = None /\ rows = <<>>
      /\ image = [knobs |-> None, target |-> 0, args |-> None, ours |-> FALSE]
      /\ iid = FALSE /\ interrupted = FALSE /\ warned = {} /\ refused = FALSE
  BY DEF Init, ServerInit
<1>2. /\ dep = "none" /\ vm = "none" /\ why = "none" /\ ami = FALSE /\ boot = NoBoot
      /\ log = {} /\ heads = <<>> /\ said = 0 /\ noise = 0
  BY DEF Init
<1>3. None \in Seq(Nat) /\ None = <<>> /\ Len(None) = 0 BY DEF None
<1>4. NoBoot \in Boot1 /\ NoBoot.dialled = 0 /\ NoBoot.args = None
  <2> HIDE DEF None
  <2> QED BY <1>3 DEF NoBoot, Boot1
<1>5. Types
  <2>1. BoxOK BY <1>1, HttpServerAssumption DEF BoxOK, Machine
  <2>2. NoServer \in Object BY DEF NoServer, Object
  <2>3. pc["driver"] = "off" BY <1>1 DEF Users
  <2>4. pc \in [Users -> Pcs] BY <1>1 DEF Pcs
  <2>5. /\ todo \in [Users -> SUBSET Zones] /\ new \in [Users -> {0} \cup Ids]
        /\ obj \in [Users -> Object] /\ RecordTypes /\ lost \subseteq Ids
    BY <1>1, <2>2 DEF RecordTypes
  <2> QED BY <2>1, <2>3, <2>4, <2>5 DEF Types
<1>6. ServersHaveAnOwner BY <1>1 DEF ServersHaveAnOwner, Up
<1>7. \A u \in Users : Held(u) BY <1>1 DEF Held, NoServer, Coming
<1>8. RecordOK BY <1>1 DEF RecordOK
<1>9. pc["driver"] = "off" /\ ~Idle /\ ~Holds
  BY <1>1 DEF Users, Idle, Holds, Own, NoServer
<1>10. DriverTypes
  <2>1. cell \in 1..Len(sweep.cells) + 1
    <3>1. Len(sweep.cells) \in Nat BY <1>1, Arms
    <3> QED BY <1>1, <3>1
  <2>2. rows \in Seq(Rows) BY <1>1
  <2>3. built \in Seq(Nat) BY <1>1, <1>3
  <2>4. image \in Image
    <3> HIDE DEF None
    <3> QED BY <1>1, <1>3 DEF Image
  <2>5. dpc \in Building \cup Running BY <1>1 DEF Building
  <2>6. /\ ip \in {0} \cup Ids /\ bzone \in Zones \cup {"none"} /\ sweep \in Sweeps
        /\ iid \in BOOLEAN /\ interrupted \in BOOLEAN /\ refused \in BOOLEAN
        /\ warned \subseteq {"image", "instance"}
    BY <1>1
  <2> QED BY <2>1, <2>2, <2>3, <2>4, <2>5, <2>6 DEF DriverTypes
<1>11. DeployTypes
  <2>1. boot \in Boot1 BY <1>2, <1>4
  <2>2. heads \in Seq(Nat) /\ said \in Nat /\ noise \in Nat BY <1>2
  <2>3. /\ dep = "none" /\ vm = "none" /\ why = "none" /\ ami \in BOOLEAN /\ log = {}
    BY <1>2
  <2> QED BY <2>1, <2>2, <2>3 DEF DeployTypes
<1>12. Places BY <1>1, <1>9 DEF Places, Coming, Running
<1>13. Address BY <1>1, <1>9 DEF Address
<1>14. Baked BY <1>1 DEF Baked, Running, IsLinux
<1>15. NoDeploy BY <1>1, <1>2 DEF NoDeploy
<1>16. Deployed BY <1>1, <1>2 DEF Deployed, Early, Running
<1>17. Ending BY <1>1, <1>2 DEF Ending
<1>18. Booted BY <1>2, <1>4 DEF Booted
<1>19. Heard
  <2>1. Len(heads) = 0 /\ Len(boot.args) = 0 BY <1>2, <1>3, <1>4
  <2> QED BY <1>2, <2>1 DEF Heard
<1>20. RowsOK
  <2>1. DOMAIN rows = {} BY <1>1
  <2> QED BY <2>1 DEF RowsOK
<1> QED BY <1>5, <1>6, <1>7, <1>8, <1>10, <1>11, <1>12, <1>13, <1>14, <1>15, <1>16, <1>17,
           <1>18, <1>19, <1>20
        DEF IInv, ServerInv, RunInv

-----------------------------------------------------------------------------
\* What every reachable state is like: what each process holds by where it is, what was
\* baked and booted, what the guest has said, and what every row so far says.
THEOREM Inductive == Spec => []IInv
BY InitIInv, StepIInv, PTL DEF Spec

\* Every variable keeps its type, whatever is swept: a machine has a zone once it is launched,
\* a process an unnoted machine only right after the launch; a line that the guest printed is
\* a heading or spoiled, and a run is called interrupted only if EC2 took its instance.
THEOREM TypeCorrect == Spec => []TypeOK
<1>1. ASSUME IInv PROVE TypeOK
  <2>1. /\ DriverTypes /\ DeployTypes /\ Deployed /\ Ending /\ Heard /\ Types
        /\ \A u \in Users : Held(u)
    BY <1>1 DEF IInv, RunInv, ServerInv
  <2>2. ServerTypeOK
    <3>1. \A i \in Ids : /\ box[i].st \in {"none", "up", "gone"}
                         /\ box[i].says \in {"none", "READY", "FAILED"}
                         /\ box[i].zone \in Zones <=> box[i].st # "none"
      <4>1. BoxOK BY <2>1 DEF Types
      <4>2. \A i \in Ids : box[i] \in Machine BY <4>1 DEF BoxOK
      <4> QED BY <4>1, <4>2 DEF BoxOK, Machine
    <3>2. ASSUME NEW u \in Users
          PROVE  /\ pc[u] \in {"off", "idle", "zones", "accepted", "await", "started"}
                                 \cup (IF u \in Clis THEN {"open", "write", "unlink"} ELSE {})
                 /\ todo[u] \subseteq Zones /\ new[u] \in {0} \cup Ids
                 /\ new[u] # 0 <=> pc[u] = "accepted"
                 /\ obj[u].ip \in {0, obj[u].iid} /\ saw[u] \in {0} \cup Ids
      <4>1. pc[u] \in Pcs /\ pc["driver"] \notin {"open", "write", "unlink"} BY <2>1 DEF Types
      <4>2. u \in Clis \/ u = "driver" BY DEF Users
      <4>3. todo[u] \subseteq Zones /\ new[u] \in {0} \cup Ids /\ saw[u] \in {0} \cup Ids
        BY <2>1 DEF Types, RecordTypes
      <4>4. /\ new[u] # 0 <=> pc[u] = "accepted"
            /\ obj[u].ip \in {0, obj[u].iid}
        BY <2>1 DEF Held
      <4>5. pc[u] \in {"off", "idle", "zones", "accepted", "await", "started"}
                         \cup (IF u \in Clis THEN {"open", "write", "unlink"} ELSE {})
        BY <4>1, <4>2 DEF Pcs, Coming
      <4> QED BY <4>3, <4>4, <4>5
    <3>3. file \in {0} \cup Ids /\ lost \subseteq Ids /\ crossed \subseteq Ids
      BY <2>1 DEF Types, RecordTypes
    <3> QED BY <3>1, <3>2, <3>3 DEF ServerTypeOK
  <2>3. dpc \in {"off", "next", "server", "image", "make", "run", "deploy", "id", "verdict", "end",
                 "signal", "wait", "row"}
    BY <2>1 DEF DriverTypes, Building, Running
  <2>4. /\ vm = "gone" <=> why # "none"
        /\ interrupted => why = "spot"
    BY <2>1 DEF Deployed
  <2>5. Len(heads) + noise = said BY <2>1 DEF Heard
  <2>6. dpc = "verdict" => iid BY <2>1 DEF Ending
  <2> QED BY <2>1, <2>2, <2>3, <2>4, <2>5, <2>6 DEF TypeOK, DriverTypes, DeployTypes
<1> QED BY <1>1, Inductive, PTL

\* However many servers, zones and processes, and wherever they end: a server that runs is in
\* the hands of the process that launched it or on record, but for one that is counted as
\* lost, or whose record an nginx-server.py undid that had looked before it was there.
\* atexit, the build that replaces a server, and cmd_start's look at the record.
THEOREM ServersAreOwned == Spec => []ServersHaveAnOwner
<1>1. IInv => ServersHaveAnOwner BY DEF IInv, ServerInv
<1> QED BY <1>1, Inductive, PTL

-----------------------------------------------------------------------------
\* What is on record is what the one process has seen, or it has just emptied the file.
Alone(c) ==
    /\ crossed = {}
    /\ pc[c] \notin {"off", "write"} => file = saw[c]
    /\ pc[c] = "write" => file = 0

\* A step of its own keeps the record as it has seen it.
LEMMA AloneCli ==
    ASSUME NEW c, Clis = {c}, ServerInv, Alone(c), Cli
    PROVE  Alone(c)'
<1>1. /\ pc \in [Users -> Pcs] /\ saw \in [Users -> {0} \cup Ids] /\ c \in Users
  BY DEF ServerInv, Types, RecordTypes, Users
<1>2. CASE CmdStart(c) BY <1>1, <1>2 DEF CmdStart, StartServer, Goto, Look, Alone
<1>3. CASE Starting(c)
  <2>1. pc[c] \in Coming /\ pc[c] \notin {"off", "write"}
    BY <1>3 DEF Starting, TryZone, Note, Ready, NeverReady, Coming
  <2>2. UNCHANGED <<file, crossed>> /\ (pc'[c] = "off" \/ (saw' = saw /\ pc'[c] \in Coming))
    <3>1. CASE TryZone(c)
      <4>1. \/ Goto(c, "accepted") /\ UNCHANGED record
            \/ UNCHANGED <<pc, record>>
            \/ Exit(c)
        BY <3>1 DEF TryZone
      <4> QED BY <1>1, <2>1, <4>1 DEF Goto, record, Exit, Quit, Forget, Coming
    <3>2. CASE Note(c) BY <1>1, <3>2 DEF Note, Goto, record, Coming
    <3>3. CASE Ready(c) BY <1>1, <3>3 DEF Ready, Goto, record, Coming
    <3>4. CASE NeverReady(c) BY <1>1, <3>4 DEF NeverReady, Forget, Goto
    <3> QED BY <1>3, <3>1, <3>2, <3>3, <3>4 DEF Starting
  <2> QED BY <2>1, <2>2 DEF Alone, Coming
<1>4. CASE Unregister(c) BY <1>1, <1>4 DEF Unregister, Goto, record, Alone
<1>5. CASE OpenRecord(c) BY <1>1, <1>5 DEF OpenRecord, Undo, Goto, Alone
<1>6. CASE WriteRecord(c) BY <1>1, <1>6 DEF WriteRecord, Forget, Goto, Alone
<1>7. CASE CmdStop(c) BY <1>1, <1>7 DEF CmdStop, Goto, Look, Alone
<1>8. CASE Unlink(c) BY <1>1, <1>8 DEF Unlink, Undo, Forget, Goto, Alone
<1>9. CASE Interrupt(c) \/ Killed(c)
  BY <1>1, <1>9 DEF Interrupt, Killed, Quit, Forget, Goto, Alone
<1> QED BY <1>2, <1>3, <1>4, <1>5, <1>6, <1>7, <1>8, <1>9 DEF Cli

\* A step of the driver or of a machine leaves the record to the process.
LEMMA AloneElse ==
    ASSUME NEW c, Clis = {c}, UNCHANGED <<file, crossed>>, pc'[c] = pc[c], saw'[c] = saw[c],
           Alone(c)
    PROVE  Alone(c)'
BY DEF Alone

\* What the driver does with its server is nothing to the record.
LEMMA DriversPart ==
    ASSUME NEW c \in Clis, ServerInv,
           \/ UNCHANGED <<pc, record>>
           \/ (\E l \in {"idle", "accepted", "await", "started", "zones"} : Goto("driver", l))
                 /\ UNCHANGED record
           \/ Forget("driver") /\ UNCHANGED <<file, crossed>>
    PROVE  UNCHANGED <<file, crossed>> /\ pc'[c] = pc[c] /\ saw'[c] = saw[c]
<1>1. /\ pc \in [Users -> Pcs] /\ saw \in [Users -> {0} \cup Ids] /\ c \in Users
      /\ c # "driver"
  BY Numbers DEF ServerInv, Types, RecordTypes
<1> QED BY <1>1 DEF Goto, Forget, record

LEMMA AloneStep ==
    ASSUME NEW c, Clis = {c}, IInv, Alone(c), [Next]_vars
    PROVE  Alone(c)'
<1>1. ServerInv /\ c \in Clis BY DEF IInv
<1>2. CASE Servers
  <2>1. CASE Machines
    BY <1>1, <2>1, AloneElse, DriversPart DEF Machines, Boot, PowerOff, Reclaim
  <2>2. CASE Starting("driver")
    <3>1. CASE TryZone("driver")
      <4>1. \/ Goto("driver", "accepted") /\ UNCHANGED record
            \/ UNCHANGED <<pc, record>>
            \/ Exit("driver")
        BY <3>1 DEF TryZone
      <4> QED BY <1>1, <4>1, AloneElse, DriversPart DEF Exit, Quit
    <3>2. CASE Note("driver") BY <1>1, <3>2, AloneElse, DriversPart DEF Note
    <3>3. CASE Ready("driver") BY <1>1, <3>3, AloneElse, DriversPart DEF Ready
    <3>4. CASE NeverReady("driver") BY <1>1, <3>4, AloneElse, DriversPart DEF NeverReady
    <3> QED BY <2>2, <3>1, <3>2, <3>3, <3>4 DEF Starting
  <2>3. CASE Operator BY <1>1, <2>3, AloneCli DEF Operator
  <2> QED BY <1>2, <2>1, <2>2, <2>3 DEF Servers
<1>3. CASE UNCHANGED server BY <1>1, <1>3, AloneElse, DriversPart DEF server
<1>4. CASE Ends BY <1>1, <1>4, AloneElse, DriversPart DEF Ends, Exit, Quit
<1>5. CASE Broken
  BY <1>1, <1>5, AloneElse, DriversPart DEF Broken, Interrupt, Killed, Quit
<1>6. CASE StartDriver
  <2>1. Goto("driver", "idle") /\ UNCHANGED record BY <1>6 DEF StartDriver
  <2> QED BY <1>1, <2>1, AloneElse, DriversPart
<1>7. CASE Replace
  <2>1. Goto("driver", "zones") /\ UNCHANGED record BY <1>7 DEF Replace, StartServer
  <2> QED BY <1>1, <2>1, AloneElse, DriversPart
<1>8. CASE Started
  <2>1. Goto("driver", "idle") /\ UNCHANGED record BY <1>8 DEF Started
  <2> QED BY <1>1, <2>1, AloneElse, DriversPart
<1>9. ASSUME NextCell \/ BuildExternal \/ Bake \/ BuildLinux \/ Make \/ Return \/ RunLinux
      PROVE  UNCHANGED server \/ Ends
  BY <1>9 DEF NextCell, BuildExternal, Bake, BuildLinux, Make, Return, RunLinux
<1>10. ASSUME \/ BeginRun \/ StartDeploy \/ FindId \/ NoId \/ AwaitVerdict \/ EndInstance
              \/ Signal \/ Wait \/ Remake \/ Deploy \/ UNCHANGED vars
       PROVE  UNCHANGED server
  BY <1>10
  DEF BeginRun, StartDeploy, FindId, NoId, AwaitVerdict, EndInstance, Signal, Wait, Remake,
      Deploy, Same, vars
<1>11. CASE Driver
  <2>1. CASE StartDriver \/ Replace \/ Started \/ Broken BY <1>5, <1>6, <1>7, <1>8, <2>1
  <2>2. CASE NextCell \/ BuildExternal \/ Bake \/ BuildLinux \/ Make \/ Return \/ RunLinux
    BY <1>3, <1>4, <1>9, <2>2
  <2>3. CASE \/ BeginRun \/ StartDeploy \/ FindId \/ NoId \/ AwaitVerdict \/ EndInstance
            \/ Signal \/ Wait
    BY <1>3, <1>10, <2>3
  <2> QED BY <1>11, <2>1, <2>2, <2>3 DEF Driver
<1>12. CASE Deploy \/ Remake \/ UNCHANGED vars BY <1>3, <1>10, <1>12
<1> QED BY <1>2, <1>11, <1>12 DEF Next

\* One nginx-server.py at a time and the look at the record is enough: what is undone or
\* written over is what the process has seen, and no server that runs is off the record
\* because of it.  cmd_start and cmd_stop, which look once.
THEOREM OneAtATimeIsEnough ==
    ASSUME NEW c, Clis = {c}
    PROVE  Spec => [](crossed = {} /\ ServersHaveAnOwner)
<1>1. Init => Alone(c)
  BY DEF Init, ServerInit, Alone, Users
<1>2. IInv /\ Alone(c) /\ [Next]_vars => Alone(c)' BY AloneStep
<1>3. IInv /\ Alone(c) => crossed = {} /\ ServersHaveAnOwner BY DEF Alone, IInv, ServerInv
<1> QED BY <1>1, <1>2, <1>3, Inductive, PTL DEF Spec

-----------------------------------------------------------------------------
\* The bytes of a complete row came from the server it names, in its zone, if the image was
\* of the driver's own build: the address baked into it, or given to the Linux client, is that of the driver's own server, or one
\* that verify_external found on record, and a machine never changes its zone.
THEOREM RowsAreOfTheirServer == Spec => []RowsNameTheirServer
<1>1. IInv => RowsNameTheirServer BY DEF IInv, RowsOK, NamesItsServer, RowsNameTheirServer
<1> QED BY <1>1, Inductive, PTL

\* A valid row is of what its cell asked for.  A DuckDB guest answered the cell's queries
\* whoever ran make meanwhile: run_once writes the boot arguments again, and what the guest
\* prints is the start of what it was asked.  Of either arm, the knobs it was compiled with
\* are the cell's, if nobody else's make has written the image since the build.
THEOREM RowsAreOfTheirCell == Spec => []ValidIsOfItsCell
<1>1. IInv => ValidIsOfItsCell
  BY DEF IInv, RowsOK, OfItsCell, ValidIsOfItsCell
<1> QED BY <1>1, Inductive, PTL

\* A run that returns has ended its instance and its image or has said what may be left, but
\* for an instance that EC2 did not terminate: the id is found, or its absence is said, and
\* the deploy is waited for, or its kill is said.
THEOREM NothingIsLeft == Spec => []NothingLeftUnsaid
<1>1. ASSUME IInv PROVE NothingLeftUnsaid
  <2>1. Deployed /\ Ending BY <1>1 DEF IInv, RunInv
  <2> SUFFICES ASSUME At("row")
               PROVE  /\ ami => "image" \in warned
                      /\ vm = "up" => "instance" \in warned \/ refused
    BY DEF NothingLeftUnsaid
  <2>2. dpc = "row" BY DEF At
  <2> QED BY <2>1, <2>2 DEF Deployed, Ending
<1> QED BY <1>1, Inductive, PTL
=============================================================================
