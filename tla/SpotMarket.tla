------------------------------ MODULE SpotMarket ------------------------------
(***************************************************************************)
(* Renting machines: launch, terminate and sweep_spot_requests of          *)
(* scripts/bench/runner.py, called by several drivers on one EC2 account.  *)
(*                                                                         *)
(* A spot instance comes from a one-time request that outlives it and      *)
(* counts against the account's limit until it is cancelled.  A driver     *)
(* that ends its run terminates the instance and cancels the request; one  *)
(* that is killed does neither, and the next launch sweeps up after it.    *)
(* Calls to EC2 may fail, and what they show may change before it is used. *)
(***************************************************************************)
EXTENDS Integers, FiniteSets

CONSTANTS
    Drivers,     \* processes that rent machines, one at a time each
    Zones,       \* of the subnet's VPC
    Limit,       \* spot requests the account may have open or active
    Flaky,       \* the calls that may fail: "terminate", "list", "describe", "cancel"
    MaxRequests  \* bound: launches that EC2 accepted

ASSUME SpotMarketAssumption ==
    /\ Drivers # {} /\ Zones # {} /\ Limit \in Nat /\ MaxRequests \in Nat
    /\ Flaky \subseteq {"terminate", "list", "describe", "cancel"}

Markets == {"on-demand", "spot", "spot-or-on-demand"}
Ids == 1..MaxRequests

VARIABLES
    \* a driver
    pc,        \* where it is
    market,    \* --market, "none" for no process
    mine,      \* the instance it launched, 0 for none
    zones,     \* those it has not tried yet
    listed,    \* the requests it has still to look at, or to cancel
    stale,     \* of those, the ones whose instance it found gone
    \* EC2
    request,   \* per id: "none", "open", "active", "cancelled"; "on-demand" has none
    instance,  \* per id: "none", "running", "gone"
    excused,   \* history: ids whose driver was killed or whose request EC2 did not drop
    unseen     \* history: ids that EC2 failed to terminate or to describe

driver == <<pc, market, mine, zones, listed, stale>>
ec2 == <<request, instance, excused, unseen>>
vars == <<driver, ec2>>

PcOf == {"off", "list", "look", "zones", "opened", "fallback", "up",
         "sirs", "drop"}

Counted == {i \in Ids : request[i] \in {"open", "active"}}
Unused == {i \in Ids : request[i] = "none"}
Leaks == {i \in Counted : instance[i] = "gone"}

Init ==
    /\ pc = [d \in Drivers |-> "off"] /\ market = [d \in Drivers |-> "none"]
    /\ mine = [d \in Drivers |-> 0] /\ zones = [d \in Drivers |-> {}]
    /\ listed = [d \in Drivers |-> {}] /\ stale = [d \in Drivers |-> {}]
    /\ request = [i \in Ids |-> "none"] /\ instance = [i \in Ids |-> "none"]
    /\ excused = {} /\ unseen = {}

Goto(d, l) == pc' = [pc EXCEPT ![d] = l]

\* The process is no more, and forgets.
Gone(d) ==
    /\ Goto(d, "off")
    /\ mine' = [mine EXCEPT ![d] = 0] /\ zones' = [zones EXCEPT ![d] = {}]
    /\ listed' = [listed EXCEPT ![d] = {}] /\ stale' = [stale EXCEPT ![d] = {}]
    /\ market' = [market EXCEPT ![d] = "none"]

\* An id of the account's next launch.
New == CHOOSE i \in Unused : TRUE

-----------------------------------------------------------------------------
(***************************************************************************)
(* launch.                                                                 *)
(***************************************************************************)

Launch(d) ==
    /\ pc[d] = "off"
    /\ \E k \in Markets :
          /\ market' = [market EXCEPT ![d] = k]
          /\ Goto(d, IF k = "on-demand" THEN "fallback" ELSE "list")
    /\ UNCHANGED <<mine, zones, listed, stale, ec2>>

TryZones(d) == zones' = [zones EXCEPT ![d] = Zones]

\* Faulty: those that are still being fulfilled are looked at too.
ListOpenToo(d) ==
    /\ pc[d] = "list"
    /\ listed' = [listed EXCEPT ![d] = Counted]
    /\ Goto(d, "look")
    /\ UNCHANGED <<market, mine, zones, stale, ec2>>

\* sweep_spot_requests: the open and active requests, of which those with no instance yet
\* are left alone; or nothing is swept.
List(d) ==
    /\ pc[d] = "list"
    /\ \/ /\ listed' = [listed EXCEPT ![d] = {i \in Counted : instance[i] # "none"}]
          /\ Goto(d, "look") /\ UNCHANGED zones
       \/ /\ "list" \in Flaky
          /\ Goto(d, "zones") /\ TryZones(d) /\ UNCHANGED listed
    /\ UNCHANGED <<market, mine, stale, ec2>>

\* One request: stale if its instance is gone by now, forgotten, or cannot be described.
Look(d) ==
    /\ pc[d] = "look"
    /\ \E i \in listed[d] :
          /\ listed' = [listed EXCEPT ![d] = @ \ {i}]
          /\ \/ instance[i] = "running" /\ UNCHANGED <<stale, unseen>>
             \/ instance[i] # "running" /\ stale' = [stale EXCEPT ![d] = @ \cup {i}] /\ UNCHANGED unseen
             \/ /\ "describe" \in Flaky
                /\ stale' = [stale EXCEPT ![d] = @ \cup {i}] /\ unseen' = unseen \cup {i}
    /\ UNCHANGED <<pc, market, mine, zones, request, instance, excused>>

Cancelled(S) == request' = [i \in Ids |-> IF i \in S /\ i \in Counted THEN "cancelled" ELSE request[i]]

\* The stale ones are cancelled in one call, whose failure nobody hears of.
CancelStale(d) ==
    /\ pc[d] = "look" /\ listed[d] = {}
    /\ \/ Cancelled(stale[d])
       \/ "cancel" \in Flaky /\ UNCHANGED request
    /\ stale' = [stale EXCEPT ![d] = {}]
    /\ Goto(d, "zones") /\ TryZones(d)
    /\ UNCHANGED <<market, mine, listed, instance, excused, unseen>>

\* run_instances in the next zone: refused for want of capacity or for the limit, ...
Refused(d) ==
    /\ pc[d] = "zones" /\ zones[d] # {}
    /\ \E z \in zones[d] : zones' = [zones EXCEPT ![d] = @ \ {z}]
    /\ UNCHANGED <<pc, market, mine, listed, stale, ec2>>

\* The loop over the zones is left.
Launched(d) ==
    /\ zones' = [zones EXCEPT ![d] = {}]
    /\ Goto(d, "opened")
    /\ UNCHANGED <<market, listed, stale, instance, excused, unseen>>

\* Faulty: what was launched is not kept for terminate.
OpenForgets(d) ==
    /\ pc[d] = "zones" /\ zones[d] # {}
    /\ Cardinality(Counted) < Limit /\ Unused # {}
    /\ request' = [request EXCEPT ![New] = "open"]
    /\ UNCHANGED mine
    /\ Launched(d)

\* ... or accepted: a request first, ...
Open(d) ==
    /\ pc[d] = "zones" /\ zones[d] # {}
    /\ Cardinality(Counted) < Limit /\ Unused # {}
    /\ request' = [request EXCEPT ![New] = "open"]
    /\ mine' = [mine EXCEPT ![d] = New]
    /\ Launched(d)

\* ... then its instance, whatever has become of the driver.
Fulfil(i) ==
    /\ request[i] = "open"
    /\ request' = [request EXCEPT ![i] = "active"]
    /\ instance' = [instance EXCEPT ![i] = "running"]
    /\ UNCHANGED <<driver, excused, unseen>>

Answer(d) ==
    /\ pc[d] = "opened" /\ instance[mine[d]] # "none"
    /\ Goto(d, "up")
    /\ UNCHANGED <<market, mine, zones, listed, stale, ec2>>

\* No zone has one: the verdict, or on-demand in the subnet given.
NoZone(d) ==
    /\ pc[d] = "zones" /\ zones[d] = {}
    /\ \/ market[d] = "spot" /\ Gone(d)
       \/ /\ market[d] = "spot-or-on-demand"
          /\ Goto(d, "fallback")
          /\ UNCHANGED <<market, mine, zones, listed, stale>>
    /\ UNCHANGED ec2

OnDemand(d) ==
    /\ pc[d] = "fallback"
    /\ \/ /\ Unused # {}
          /\ request' = [request EXCEPT ![New] = "on-demand"]
          /\ instance' = [instance EXCEPT ![New] = "running"]
          /\ mine' = [mine EXCEPT ![d] = New]
          /\ Goto(d, "up")
          /\ UNCHANGED <<market, zones, listed, stale>>
       \/ Gone(d) /\ UNCHANGED <<request, instance>>
    /\ UNCHANGED <<excused, unseen>>

-----------------------------------------------------------------------------
(***************************************************************************)
(* terminate.                                                              *)
(***************************************************************************)

\* Terminate first; a failure is suppressed.
Terminate(d) ==
    /\ pc[d] = "up"
    /\ \/ instance' = [instance EXCEPT ![mine[d]] = "gone"] /\ UNCHANGED unseen
       \/ "terminate" \in Flaky /\ UNCHANGED instance /\ unseen' = unseen \cup {mine[d]}
    /\ Goto(d, "sirs")
    /\ UNCHANGED <<market, mine, zones, listed, stale, request, excused>>

Excuse(S) == excused' = (excused \cup S) \ {0}

\* Faulty: only the requests that were not yet fulfilled are listed.
SirsOpenOnly(d) ==
    /\ pc[d] = "sirs"
    /\ listed' = [listed EXCEPT ![d] = {i \in {mine[d]} \cap Counted : request[i] = "open"}]
    /\ Goto(d, "drop")
    /\ UNCHANGED <<market, mine, zones, stale, ec2>>

\* Its requests that are open or active, or none if they cannot be listed.
Sirs(d) ==
    /\ pc[d] = "sirs"
    /\ \/ listed' = [listed EXCEPT ![d] = {mine[d]} \cap Counted] /\ UNCHANGED excused
       \/ "list" \in Flaky /\ listed' = [listed EXCEPT ![d] = {}] /\ Excuse({mine[d]})
    /\ Goto(d, "drop")
    /\ UNCHANGED <<market, mine, zones, stale, request, instance, unseen>>

\* Then cancel.
Cancel(d) ==
    /\ pc[d] = "drop"
    /\ \/ Cancelled(listed[d]) /\ UNCHANGED excused
       \/ "cancel" \in Flaky /\ UNCHANGED request /\ Excuse(listed[d])
    /\ Gone(d)
    /\ UNCHANGED <<instance, unseen>>

-----------------------------------------------------------------------------
\* A crash, a SIGKILL, a queue that is stopped: the driver skips the rest.
Killed(d) ==
    /\ pc[d] # "off"
    /\ Gone(d)
    /\ Excuse({mine[d]})
    /\ UNCHANGED <<request, instance, unseen>>

\* EC2 takes a spot instance back, and closes its request with it.
Reclaim(i) ==
    /\ request[i] = "active" /\ instance[i] = "running"
    /\ instance' = [instance EXCEPT ![i] = "gone"]
    /\ request' = [request EXCEPT ![i] = "cancelled"]
    /\ UNCHANGED <<driver, excused, unseen>>

\* An instance ends by itself: its ceiling powers it off, its driver there or not.
PowerOff(i) ==
    /\ instance[i] = "running"
    /\ instance' = [instance EXCEPT ![i] = "gone"]
    /\ UNCHANGED <<driver, request, excused, unseen>>

Driver(d) ==
    \/ Launch(d) \/ List(d) \/ Look(d) \/ CancelStale(d)
    \/ Refused(d) \/ Open(d) \/ Answer(d) \/ NoZone(d) \/ OnDemand(d)
    \/ Terminate(d) \/ Sirs(d) \/ Cancel(d)
    \/ Killed(d)

Next ==
    \/ \E d \in Drivers : Driver(d)
    \/ \E i \in Ids : Fulfil(i) \/ Reclaim(i) \/ PowerOff(i)

Spec == Init /\ [][Next]_vars

-----------------------------------------------------------------------------
\* Every variable has its type; a driver that is up has an instance.
TypeOK ==
    /\ pc \in [Drivers -> PcOf] /\ market \in [Drivers -> Markets \cup {"none"}]
    /\ mine \in [Drivers -> Ids \cup {0}] /\ zones \in [Drivers -> SUBSET Zones]
    /\ listed \in [Drivers -> SUBSET Ids] /\ stale \in [Drivers -> SUBSET Ids]
    /\ request \in [Ids -> {"none", "open", "active", "cancelled", "on-demand"}]
    /\ instance \in [Ids -> {"none", "running", "gone"}]
    /\ excused \subseteq Ids /\ unseen \subseteq Ids
    /\ \A d \in Drivers : pc[d] \in {"opened", "up", "sirs", "drop"} => mine[d] # 0

\* "Terminate first, then cancel": no instance runs whose request is gone, which would
\* leave "one running with nothing recording that we own it", not even one that another
\* driver's sweep looked at before it was fulfilled; unless EC2 failed to terminate or
\* describe it, for both failures are taken for success.
RunningIsOnRecord ==
    \A i \in Ids \ unseen : request[i] = "cancelled" => instance[i] # "running"

\* A driver that ends its run itself leaves no request behind, reclaimed or not: every
\* leak goes back to a driver that was killed or a call that failed (terminate).
LeaksHaveACause ==
    \A i \in Leaks : i \in excused \/ \E d \in Drivers : mine[d] = i
==============================================================================
