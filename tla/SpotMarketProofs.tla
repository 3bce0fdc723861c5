--------------------------- MODULE SpotMarketProofs ---------------------------
(***************************************************************************)
(* Any number of drivers, zones and requests, every call failing at any    *)
(* time: nothing runs whose request was cancelled, and no request is left  *)
(* behind without a cause.  The first rests on what a driver knows of an   *)
(* instance before it cancels: that it is gone, or that EC2 would not say; *)
(* the second on every request being some driver's until that driver has   *)
(* asked for its end, or is excused.                                       *)
(***************************************************************************)
EXTENDS SpotMarket, TLAPS

DriverOK ==
    /\ pc \in [Drivers -> PcOf] /\ market \in [Drivers -> Markets \cup {"none"}]
    /\ mine \in [Drivers -> Ids \cup {0}] /\ zones \in [Drivers -> SUBSET Zones]
    /\ listed \in [Drivers -> SUBSET Ids] /\ stale \in [Drivers -> SUBSET Ids]
Ec2OK ==
    /\ request \in [Ids -> {"none", "open", "active", "cancelled", "on-demand"}]
    /\ instance \in [Ids -> {"none", "running", "gone"}]
    /\ excused \subseteq Ids /\ unseen \subseteq Ids

\* A driver has an instance from its launch to the end of terminate, and at no other time.
Holds(d) == pc[d] \in {"opened", "up", "sirs", "drop"}
HoldsOne == \A d \in Drivers : Holds(d) <=> mine[d] # 0

\* It was there, and is gone or EC2 would not say: for good.
Ended(i) == instance[i] = "gone" \/ (i \in unseen /\ instance[i] # "none")

\* A request is fulfilled by an instance, once.
Fulfilled == \A i \in Ids : request[i] \in {"none", "open"} <=> instance[i] = "none"

\* What the drivers know of the instances they have listed.
Known ==
    \A d \in Drivers :
        /\ pc[d] \in {"up", "sirs", "drop"} => instance[mine[d]] # "none"
        /\ pc[d] \in {"sirs", "drop"} => Ended(mine[d])
        /\ pc[d] = "look" => \A i \in listed[d] : instance[i] # "none"
        /\ pc[d] = "drop" => /\ listed[d] \subseteq {mine[d]}
                             /\ mine[d] \in Counted => mine[d] \in listed[d] \cup excused
        /\ \A i \in stale[d] : Ended(i)

\* A request that counts is some driver's, or excused.
Owned == \A i \in Counted : i \in excused \/ \E d \in Drivers : mine[d] = i

IInv ==
    /\ DriverOK /\ Ec2OK /\ HoldsOne /\ Fulfilled /\ Known /\ Owned
    /\ RunningIsOnRecord

-----------------------------------------------------------------------------
LEMMA NewIsUnused == Unused # {} => New \in Unused
BY DEF New

LEMMA InitIInv == Init => IInv
<1> SUFFICES ASSUME Init PROVE IInv OBVIOUS
<1>1. DriverOK BY DEF Init, DriverOK, PcOf, Markets
<1>2. Ec2OK BY DEF Init, Ec2OK
<1>3. HoldsOne BY DEF Init, HoldsOne, Holds
<1>4. Fulfilled BY DEF Init, Fulfilled
<1>5. Known BY DEF Init, Known
<1>6. Owned BY DEF Init, Owned, Counted
<1>7. RunningIsOnRecord BY DEF Init, RunningIsOnRecord
<1> QED BY <1>1, <1>2, <1>3, <1>4, <1>5, <1>6, <1>7 DEF IInv

\* Steps of a driver that EC2 does not feel.
LEMMA AloneIInv ==
    ASSUME IInv, NEW d \in Drivers,
           Launch(d) \/ List(d) \/ Refused(d) \/ Answer(d) \/ (NoZone(d) /\ ~(market[d] = "spot"))
    PROVE  IInv'
<1> USE DEF IInv, ec2
<1>1. UNCHANGED <<request, instance, excused, unseen, mine, stale>>
  BY DEF Launch, List, Refused, Answer, NoZone
<1>2. DriverOK'
  BY DEF DriverOK, PcOf, Markets, Launch, List, Refused, Answer, NoZone, Goto, TryZones, Counted
<1>3. Ec2OK' BY <1>1 DEF Ec2OK
<1>4. HoldsOne' BY <1>1 DEF HoldsOne, Holds, Launch, List, Refused, Answer, NoZone, Goto, DriverOK
<1>5. Fulfilled' BY <1>1 DEF Fulfilled
<1>6. Known'
  BY <1>1 DEF Known, Ended, Counted, DriverOK, HoldsOne, Holds, Launch, List, Refused, Answer,
              NoZone, Goto
<1>7. Owned' /\ RunningIsOnRecord' BY <1>1 DEF Owned, Counted, RunningIsOnRecord
<1> QED BY <1>2, <1>3, <1>4, <1>5, <1>6, <1>7

\* The process ends with nothing to account for.
LEMMA GoneIInv ==
    ASSUME IInv, NEW d \in Drivers, Gone(d), UNCHANGED <<instance, unseen>>,
           request' \in [Ids -> {"none", "open", "active", "cancelled", "on-demand"}],
           excused' \subseteq Ids, excused \subseteq excused',
           \A i \in Ids : request'[i] # request[i] =>
               request[i] \in {"open", "active"} /\ request'[i] = "cancelled" /\ Ended(i),
           mine[d] # 0 => mine[d] \in excused' \/ request'[mine[d]] \notin {"open", "active"}
    PROVE  IInv'
<1> USE DEF IInv
<1>1. DriverOK' BY DEF DriverOK, Gone, Goto, PcOf
<1>2. Ec2OK' BY DEF Ec2OK
<1>3. HoldsOne' BY DEF HoldsOne, Holds, Gone, Goto, DriverOK
<1>4. Fulfilled'
  <2> SUFFICES ASSUME NEW i \in Ids
               PROVE  request'[i] \in {"none", "open"} <=> instance'[i] = "none"
    BY DEF Fulfilled
  <2>1. CASE request'[i] = request[i] BY <2>1 DEF Fulfilled
  <2>2. CASE request'[i] # request[i] BY <2>2 DEF Ended
  <2> QED BY <2>1, <2>2
<1>5. \A e \in Drivers : e # d => /\ pc'[e] = pc[e] /\ mine'[e] = mine[e]
                                  /\ listed'[e] = listed[e] /\ stale'[e] = stale[e]
  BY DEF Gone, Goto, DriverOK
<1>6. pc'[d] = "off" /\ stale'[d] = {} BY DEF Gone, Goto, DriverOK
<1>7. Counted' \subseteq Counted BY DEF Counted, Ec2OK
<1>8. Known' BY <1>5, <1>6, <1>7 DEF Known, Ended
<1>9. Owned'
  <2> SUFFICES ASSUME NEW i \in Counted'
               PROVE  i \in excused' \/ \E e \in Drivers : mine'[e] = i
    BY DEF Owned
  <2>1. i \in Counted /\ i # 0 /\ request'[i] \in {"open", "active"}
    BY <1>7 DEF Counted, Ids
  <2>2. CASE i \in excused BY <2>2
  <2>3. CASE mine[d] = i BY <2>1, <2>3
  <2>4. ASSUME NEW e \in Drivers, e # d, mine[e] = i PROVE \E f \in Drivers : mine'[f] = i
    BY <1>5, <2>4
  <2> QED BY <2>1, <2>2, <2>3, <2>4 DEF Owned
<1>10. RunningIsOnRecord' BY DEF RunningIsOnRecord, Ended
<1> QED BY <1>1, <1>2, <1>3, <1>4, <1>8, <1>9, <1>10

\* A look at a listed request.
LEMMA LookIInv ==
    ASSUME IInv, NEW d \in Drivers, Look(d)
    PROVE  IInv'
<1> USE DEF IInv
<1>1. PICK i \in listed[d] :
          /\ listed' = [listed EXCEPT ![d] = @ \ {i}]
          /\ \/ UNCHANGED <<stale, unseen>>
             \/ instance[i] # "running" /\ stale' = [stale EXCEPT ![d] = @ \cup {i}] /\ UNCHANGED unseen
             \/ stale' = [stale EXCEPT ![d] = @ \cup {i}] /\ unseen' = unseen \cup {i}
  BY DEF Look
<1>2. i \in Ids BY DEF DriverOK
<1>3. pc[d] = "look" /\ UNCHANGED <<pc, market, mine, zones, request, instance, excused>>
  BY DEF Look
<1>4. instance[i] # "none" BY <1>3 DEF Known
<1>5. unseen \subseteq unseen' BY <1>1
<1>6. DriverOK' BY <1>1, <1>2, <1>3 DEF DriverOK
<1>7. Ec2OK' BY <1>1, <1>2, <1>3 DEF Ec2OK
<1>8. HoldsOne' /\ Fulfilled' /\ Owned'
  BY <1>3 DEF HoldsOne, Holds, Fulfilled, Owned, Counted
<1>9. \A e \in Drivers : \A j \in stale'[e] : Ended(j)'
  BY <1>1, <1>2, <1>3, <1>4, <1>5 DEF Known, Ended, DriverOK, Ec2OK
<1>10. Known'
  BY <1>1, <1>3, <1>5, <1>9 DEF Known, Ended, Counted, DriverOK
<1>11. RunningIsOnRecord' BY <1>3, <1>5 DEF RunningIsOnRecord
<1> QED BY <1>6, <1>7, <1>8, <1>10, <1>11

\* The stale ones are cancelled.
LEMMA CancelStaleIInv ==
    ASSUME IInv, NEW d \in Drivers, CancelStale(d)
    PROVE  IInv'
<1> USE DEF IInv
<1>1. /\ pc[d] = "look" /\ listed[d] = {} /\ pc' = [pc EXCEPT ![d] = "zones"]
      /\ stale' = [stale EXCEPT ![d] = {}] /\ zones' = [zones EXCEPT ![d] = Zones]
      /\ UNCHANGED <<market, mine, listed, instance, excused, unseen>>
  BY DEF CancelStale, Goto, TryZones
<1>2. \A i \in Ids : request'[i] # request[i] =>
          request[i] \in {"open", "active"} /\ request'[i] = "cancelled" /\ i \in stale[d]
  BY DEF CancelStale, Cancelled, Counted
<1>3. request' \in [Ids -> {"none", "open", "active", "cancelled", "on-demand"}]
  BY DEF CancelStale, Cancelled, Ec2OK
<1>4. \A i \in stale[d] : Ended(i) BY DEF Known
<1>5. DriverOK' BY <1>1 DEF DriverOK, PcOf
<1>6. Ec2OK' BY <1>1, <1>3 DEF Ec2OK
<1>7. HoldsOne' BY <1>1 DEF HoldsOne, Holds, DriverOK
<1>8. Counted' \subseteq Counted BY <1>2 DEF Counted
<1>9. Known' BY <1>1, <1>8 DEF Known, Ended, DriverOK
<1>10. Owned' BY <1>1, <1>8 DEF Owned
<1>11. RunningIsOnRecord' BY <1>1, <1>2, <1>4 DEF RunningIsOnRecord, Ended
<1>12. Fulfilled'
  <2> SUFFICES ASSUME NEW i \in Ids
               PROVE  request'[i] \in {"none", "open"} <=> instance'[i] = "none"
    BY DEF Fulfilled
  <2>1. CASE request'[i] = request[i] BY <1>1, <2>1 DEF Fulfilled
  <2>2. CASE request'[i] # request[i] BY <1>1, <1>2, <1>4, <2>2 DEF Ended
  <2> QED BY <2>1, <2>2
<1> QED BY <1>5, <1>6, <1>7, <1>9, <1>10, <1>11, <1>12

\* A launch that EC2 accepts takes an id nothing is known of.
LEMMA OpenIInv ==
    ASSUME IInv, NEW d \in Drivers, Open(d)
    PROVE  IInv'
<1> USE DEF IInv
<1> DEFINE n == New
<1>1. n \in Ids /\ request[n] = "none" BY NewIsUnused DEF Open, Unused
<1>2. instance[n] = "none" BY <1>1 DEF Fulfilled
<1>3. /\ pc[d] = "zones" /\ pc' = [pc EXCEPT ![d] = "opened"] /\ zones' = [zones EXCEPT ![d] = {}]
      /\ request' = [request EXCEPT ![n] = "open"] /\ mine' = [mine EXCEPT ![d] = n]
      /\ UNCHANGED <<market, listed, stale, instance, excused, unseen>>
  BY DEF Open, Launched, Goto
<1> HIDE DEF n
<1>4. mine[d] = 0 BY <1>3 DEF HoldsOne, Holds, DriverOK
<1>5. DriverOK' BY <1>1, <1>3 DEF DriverOK, PcOf
<1>6. Ec2OK' BY <1>1, <1>3 DEF Ec2OK
<1>7. HoldsOne' BY <1>1, <1>3 DEF HoldsOne, Holds, DriverOK, Ids
<1>8. Fulfilled' BY <1>1, <1>2, <1>3 DEF Fulfilled, Ec2OK
<1>9. Known' BY <1>1, <1>2, <1>3 DEF Known, Ended, Counted, DriverOK, Ec2OK
<1>10. Owned' BY <1>1, <1>3, <1>4 DEF Owned, Counted, DriverOK, Ec2OK, Ids
<1>11. RunningIsOnRecord' BY <1>1, <1>3 DEF RunningIsOnRecord, Ec2OK
<1> QED BY <1>5, <1>6, <1>7, <1>8, <1>9, <1>10, <1>11

LEMMA OnDemandIInv ==
    ASSUME IInv, NEW d \in Drivers, OnDemand(d)
    PROVE  IInv'
<1> USE DEF IInv
<1>a. pc[d] = "fallback" /\ UNCHANGED <<excused, unseen>> BY DEF OnDemand
<1>b. mine[d] = 0 BY <1>a DEF HoldsOne, Holds, DriverOK
<1>1. CASE Gone(d) /\ UNCHANGED <<request, instance>>
  BY <1>a, <1>b, <1>1, GoneIInv DEF Ec2OK
<1>2. CASE ~(Gone(d) /\ UNCHANGED <<request, instance>>)
  <2> DEFINE n == New
  <2>1. n \in Ids /\ request[n] = "none" BY <1>2, NewIsUnused DEF OnDemand, Unused
  <2>2. instance[n] = "none" BY <2>1 DEF Fulfilled
  <2>3. /\ pc' = [pc EXCEPT ![d] = "up"] /\ request' = [request EXCEPT ![n] = "on-demand"]
        /\ instance' = [instance EXCEPT ![n] = "running"] /\ mine' = [mine EXCEPT ![d] = n]
        /\ UNCHANGED <<market, zones, listed, stale, excused, unseen>>
    BY <1>2 DEF OnDemand, Goto
  <2> HIDE DEF n
  <2>4. DriverOK' BY <2>1, <2>3 DEF DriverOK, PcOf
  <2>5. Ec2OK' BY <2>1, <2>3 DEF Ec2OK
  <2>6. HoldsOne' BY <2>1, <2>3 DEF HoldsOne, Holds, DriverOK, Ids
  <2>7. Fulfilled' BY <2>1, <2>2, <2>3 DEF Fulfilled, Ec2OK
  <2>8. Known' BY <2>1, <2>2, <2>3 DEF Known, Ended, Counted, DriverOK, Ec2OK
  <2>9. Owned' BY <1>b, <2>1, <2>3 DEF Owned, Counted, DriverOK, Ec2OK, Ids
  <2>10. RunningIsOnRecord' BY <2>1, <2>3 DEF RunningIsOnRecord, Ec2OK
  <2> QED BY <2>4, <2>5, <2>6, <2>7, <2>8, <2>9, <2>10
<1> QED BY <1>1, <1>2 DEF OnDemand

\* terminate.
LEMMA TerminateIInv ==
    ASSUME IInv, NEW d \in Drivers, Terminate(d)
    PROVE  IInv'
<1> USE DEF IInv
<1>1. /\ pc[d] = "up" /\ pc' = [pc EXCEPT ![d] = "sirs"]
      /\ UNCHANGED <<market, mine, zones, listed, stale, request, excused>>
  BY DEF Terminate, Goto
<1>2. mine[d] \in Ids /\ instance[mine[d]] # "none"
  BY <1>1 DEF HoldsOne, Holds, DriverOK, Known
<1>3. \/ instance' = [instance EXCEPT ![mine[d]] = "gone"] /\ unseen' = unseen
      \/ instance' = instance /\ unseen' = unseen \cup {mine[d]}
  BY DEF Terminate
<1>4. \A i \in Ids : Ended(i) => Ended(i)' BY <1>2, <1>3 DEF Ended, Ec2OK
<1>5. Ended(mine[d])' BY <1>1, <1>2, <1>3 DEF Ended, Ec2OK
<1>6. \A i \in Ids : instance'[i] = "none" <=> instance[i] = "none" BY <1>2, <1>3 DEF Ec2OK
<1>7. DriverOK' BY <1>1 DEF DriverOK, PcOf
<1>8. Ec2OK' BY <1>1, <1>2, <1>3 DEF Ec2OK
<1>9. HoldsOne' BY <1>1 DEF HoldsOne, Holds, DriverOK
<1>10. Fulfilled' BY <1>1, <1>6 DEF Fulfilled
<1>11. Known'
  <2> SUFFICES ASSUME NEW e \in Drivers
               PROVE  /\ pc'[e] \in {"up", "sirs", "drop"} => instance'[mine[e]] # "none"
                      /\ pc'[e] \in {"sirs", "drop"} => Ended(mine[e])'
                      /\ pc'[e] = "look" => \A i \in listed[e] : instance'[i] # "none"
                      /\ pc'[e] = "drop" =>
                           /\ listed[e] \subseteq {mine[e]}
                           /\ mine[e] \in Counted => mine[e] \in listed[e] \cup excused
                      /\ \A i \in stale[e] : Ended(i)'
    BY <1>1 DEF Known, Counted, Ended
  <2>1. e = d \/ pc'[e] = pc[e] BY <1>1 DEF DriverOK
  <2>2. pc'[d] = "sirs" BY <1>1 DEF DriverOK
  <2>3. listed[e] \subseteq Ids /\ stale[e] \subseteq Ids BY DEF DriverOK
  <2>4. pc'[e] \in {"up", "sirs", "drop"} => mine[e] \in Ids
    BY <1>2, <2>1 DEF HoldsOne, Holds, DriverOK
  <2>5. pc'[e] \in {"up", "sirs", "drop"} => instance'[mine[e]] # "none"
    BY <1>2, <1>6, <2>1, <2>4 DEF Known
  <2>6. pc'[e] \in {"sirs", "drop"} => Ended(mine[e])'
    BY <1>1, <1>4, <1>5, <2>1, <2>4 DEF Known, Ended
  <2>7. \A i \in stale[e] : Ended(i)' BY <1>4, <2>3 DEF Known
  <2> QED BY <1>6, <2>1, <2>2, <2>3, <2>5, <2>6, <2>7 DEF Known
<1>12. Owned' BY <1>1 DEF Owned, Counted
<1>13. RunningIsOnRecord' BY <1>1, <1>3 DEF RunningIsOnRecord, Ec2OK
<1> QED BY <1>7, <1>8, <1>9, <1>10, <1>11, <1>12, <1>13

LEMMA SirsIInv ==
    ASSUME IInv, NEW d \in Drivers, Sirs(d)
    PROVE  IInv'
<1> USE DEF IInv
<1>1. /\ pc[d] = "sirs" /\ pc' = [pc EXCEPT ![d] = "drop"]
      /\ UNCHANGED <<market, mine, zones, stale, request, instance, unseen>>
  BY DEF Sirs, Goto
<1>2. mine[d] \in Ids BY <1>1 DEF HoldsOne, Holds, DriverOK
<1>3. \/ listed' = [listed EXCEPT ![d] = {mine[d]} \cap Counted] /\ excused' = excused
      \/ listed' = [listed EXCEPT ![d] = {}] /\ excused' = excused \cup {mine[d]}
  BY <1>2 DEF Sirs, Excuse, Ec2OK, Ids
<1>4. excused \subseteq excused' BY <1>3
<1>5. DriverOK' BY <1>1, <1>2, <1>3 DEF DriverOK, PcOf
<1>6. Ec2OK' BY <1>1, <1>2, <1>3 DEF Ec2OK
<1>7. HoldsOne' BY <1>1 DEF HoldsOne, Holds, DriverOK
<1>8. Fulfilled' /\ RunningIsOnRecord' BY <1>1 DEF Fulfilled, RunningIsOnRecord
<1>9. Known' BY <1>1, <1>2, <1>3, <1>4 DEF Known, Ended, Counted, DriverOK
<1>10. Owned' BY <1>1, <1>4 DEF Owned, Counted
<1> QED BY <1>5, <1>6, <1>7, <1>8, <1>9, <1>10

LEMMA CancelIInv ==
    ASSUME IInv, NEW d \in Drivers, Cancel(d)
    PROVE  IInv'
<1> USE DEF IInv
<1>1. pc[d] = "drop" /\ Gone(d) /\ UNCHANGED <<instance, unseen>> BY DEF Cancel
<1>2. mine[d] \in Ids /\ Ended(mine[d]) /\ listed[d] \subseteq {mine[d]}
  BY <1>1 DEF HoldsOne, Holds, DriverOK, Known
<1>3. mine[d] \in Counted => mine[d] \in listed[d] \cup excused BY <1>1 DEF Known
<1>4. CASE Cancelled(listed[d]) /\ excused' = excused
  <2>1. request' \in [Ids -> {"none", "open", "active", "cancelled", "on-demand"}]
    BY <1>4 DEF Cancelled, Ec2OK
  <2>2. \A i \in Ids : request'[i] # request[i] =>
            request[i] \in {"open", "active"} /\ request'[i] = "cancelled" /\ Ended(i)
    BY <1>2, <1>4 DEF Cancelled, Counted
  <2>3. mine[d] \in excused' \/ request'[mine[d]] \notin {"open", "active"}
    BY <1>2, <1>3, <1>4 DEF Cancelled, Counted
  <2>4. excused' \subseteq Ids BY <1>4 DEF Ec2OK
  <2> QED BY <1>1, <1>4, <2>1, <2>2, <2>3, <2>4, GoneIInv
<1>5. CASE request' = request /\ Excuse(listed[d])
  <2>1. excused' = excused \cup listed[d] BY <1>2, <1>5 DEF Excuse, Ec2OK, Ids
  <2>2. excused' \subseteq Ids BY <1>2, <2>1 DEF Ec2OK
  <2>3. mine[d] \in excused' \/ request'[mine[d]] \notin {"open", "active"}
    BY <1>2, <1>3, <1>5, <2>1 DEF Counted
  <2>4. request' \in [Ids -> {"none", "open", "active", "cancelled", "on-demand"}]
    BY <1>5 DEF Ec2OK
  <2> QED BY <1>1, <1>5, <2>1, <2>2, <2>3, <2>4, GoneIInv
<1> QED BY <1>4, <1>5 DEF Cancel

LEMMA KilledIInv ==
    ASSUME IInv, NEW d \in Drivers, Killed(d)
    PROVE  IInv'
<1> USE DEF IInv
<1>1. Gone(d) /\ UNCHANGED <<request, instance, unseen>> BY DEF Killed
<1>2. mine[d] \in Ids \cup {0} BY DEF DriverOK
<1>3. excused' = (excused \cup {mine[d]}) \ {0} BY DEF Killed, Excuse
<1>a. 0 \notin excused /\ excused \subseteq Ids BY DEF Ec2OK, Ids
<1>4. excused' \subseteq Ids /\ excused \subseteq excused' BY <1>2, <1>3, <1>a
<1>5. mine[d] # 0 => mine[d] \in excused' BY <1>3
<1>6. request' \in [Ids -> {"none", "open", "active", "cancelled", "on-demand"}]
  BY <1>1 DEF Ec2OK
<1> QED BY <1>1, <1>4, <1>5, <1>6, GoneIInv

LEMMA NoZoneIInv ==
    ASSUME IInv, NEW d \in Drivers, NoZone(d)
    PROVE  IInv'
<1> USE DEF IInv
<1>1. CASE market[d] # "spot" BY <1>1, AloneIInv
<1>2. CASE market[d] = "spot"
  <2>1. Gone(d) /\ UNCHANGED <<request, instance, excused, unseen>> /\ pc[d] = "zones"
    BY <1>2 DEF NoZone, ec2
  <2>2. mine[d] = 0 BY <2>1 DEF HoldsOne, Holds, DriverOK
  <2> QED BY <2>1, <2>2, GoneIInv DEF Ec2OK
<1> QED BY <1>1, <1>2

-----------------------------------------------------------------------------
\* EC2's own steps: an instance comes once, and what has ended stays so.
LEMMA Ec2IInv ==
    ASSUME IInv, NEW i \in Ids, Fulfil(i) \/ Reclaim(i) \/ PowerOff(i)
    PROVE  IInv'
<1> USE DEF IInv, driver
<1>1. UNCHANGED <<pc, market, mine, zones, listed, stale, excused, unseen>>
  BY DEF Fulfil, Reclaim, PowerOff
<1>2. Ec2OK' BY DEF Ec2OK, Fulfil, Reclaim, PowerOff
<1>3. \A j \in Ids : /\ Ended(j) => Ended(j)'
                     /\ instance[j] # "none" => instance'[j] # "none"
  BY <1>1 DEF Ended, Ec2OK, Fulfilled, Fulfil, Reclaim, PowerOff
<1>4. Counted' \subseteq Counted
  BY DEF Counted, Ec2OK, Fulfil, Reclaim, PowerOff
<1>5. DriverOK' BY <1>1 DEF DriverOK
<1>6. HoldsOne' BY <1>1 DEF HoldsOne, Holds
<1>7. Fulfilled' BY DEF Fulfilled, Ec2OK, Fulfil, Reclaim, PowerOff
<1>8. Known'
  <2> SUFFICES ASSUME NEW e \in Drivers
               PROVE  /\ pc[e] \in {"up", "sirs", "drop"} => instance'[mine[e]] # "none"
                      /\ pc[e] \in {"sirs", "drop"} => Ended(mine[e])'
                      /\ pc[e] = "look" => \A j \in listed[e] : instance'[j] # "none"
                      /\ pc[e] = "drop" =>
                           /\ listed[e] \subseteq {mine[e]}
                           /\ mine[e] \in Counted' => mine[e] \in listed[e] \cup excused
                      /\ \A j \in stale[e] : Ended(j)'
    BY <1>1 DEF Known, Ended
  <2>1. pc[e] \in {"up", "sirs", "drop"} => mine[e] \in Ids
    BY DEF HoldsOne, Holds, DriverOK
  <2>2. listed[e] \subseteq Ids /\ stale[e] \subseteq Ids BY DEF DriverOK
  <2>3. pc[e] \in {"sirs", "drop"} => Ended(mine[e])'
    BY <1>1, <1>3, <2>1 DEF Known, Ended
  <2> QED BY <1>3, <1>4, <2>1, <2>2, <2>3 DEF Known
<1>9. Owned' BY <1>1, <1>4 DEF Owned
<1>10. RunningIsOnRecord'
  BY <1>1 DEF RunningIsOnRecord, Ec2OK, Fulfil, Reclaim, PowerOff
<1> QED BY <1>2, <1>5, <1>6, <1>7, <1>8, <1>9, <1>10

\* IInv is inductive.
THEOREM Inductive == Spec => []IInv
<1>1. Init => IInv BY InitIInv
<1>2. ASSUME IInv, [Next]_vars PROVE IInv'
  <2>1. CASE UNCHANGED vars
    BY <1>2, <2>1 DEF vars, driver, ec2, IInv, DriverOK, Ec2OK, HoldsOne, Holds, Fulfilled, Known,
                      Ended, Owned, Counted, RunningIsOnRecord
  <2>2. ASSUME NEW d \in Drivers, Driver(d) PROVE IInv'
    <3>1. CASE Launch(d) \/ List(d) \/ Refused(d) \/ Answer(d) BY <1>2, <3>1, AloneIInv
    <3>2. CASE Look(d) BY <1>2, <3>2, LookIInv
    <3>3. CASE CancelStale(d) BY <1>2, <3>3, CancelStaleIInv
    <3>4. CASE Open(d) BY <1>2, <3>4, OpenIInv
    <3>5. CASE NoZone(d) BY <1>2, <3>5, NoZoneIInv
    <3>6. CASE OnDemand(d) BY <1>2, <3>6, OnDemandIInv
    <3>7. CASE Terminate(d) BY <1>2, <3>7, TerminateIInv
    <3>8. CASE Sirs(d) BY <1>2, <3>8, SirsIInv
    <3>9. CASE Cancel(d) BY <1>2, <3>9, CancelIInv
    <3>10. CASE Killed(d) BY <1>2, <3>10, KilledIInv
    <3> QED
      BY <2>2, <3>1, <3>2, <3>3, <3>4, <3>5, <3>6, <3>7, <3>8, <3>9, <3>10 DEF Driver
  <2>3. ASSUME NEW i \in Ids, Fulfil(i) \/ Reclaim(i) \/ PowerOff(i) PROVE IInv'
    BY <1>2, <2>3, Ec2IInv
  <2> QED BY <1>2, <2>1, <2>2, <2>3 DEF Next
<1> QED BY <1>1, <1>2, PTL DEF Spec

-----------------------------------------------------------------------------
\* Every variable keeps its type, and a driver that is up has an instance, whatever EC2
\* refuses, fails or takes back (launch, terminate).
THEOREM TypeCorrect == Spec => []TypeOK
<1>1. IInv => TypeOK BY DEF IInv, DriverOK, Ec2OK, HoldsOne, Holds, TypeOK
<1> QED BY <1>1, Inductive, PTL

\* Neither sweep_spot_requests nor terminate cancels the request of an instance that runs,
\* but for one that EC2 failed to terminate or to describe.
THEOREM NothingRunsUnrecorded == Spec => []RunningIsOnRecord
<1>1. IInv => RunningIsOnRecord BY DEF IInv
<1> QED BY <1>1, Inductive, PTL

\* A request that outlives its instance is some driver's still, or its driver was killed,
\* or EC2 failed to list or cancel it (terminate).
THEOREM EveryLeakHasACause == Spec => []LeaksHaveACause
<1>1. IInv => LeaksHaveACause BY DEF IInv, Owned, LeaksHaveACause, Leaks
<1> QED BY <1>1, Inductive, PTL
=============================================================================
