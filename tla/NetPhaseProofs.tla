---------------------------- MODULE NetPhaseProofs ----------------------------
(***************************************************************************)
(* For any number of threads, descriptors and stamps.  The measured window *)
(* holds every receive: a thread inside a wrapper holds its descriptor, so *)
(* nobody else touches its slot; a slot that expects an answer had a send  *)
(* before, whose stamp the first one's is not after; and stamps are taken  *)
(* after the slot was looked at.  And every exchange is booked once: what  *)
(* was answered is, in every state, what is booked plus what the           *)
(* descriptors still owe, and when the file is written they owe nothing.   *)
(***************************************************************************)
EXTENDS NetPhase, FiniteSetTheorems, TLAPS

ShimOK ==
    /\ slots \in [Fds -> Slot] /\ req \in Aggregate /\ hs \in Aggregate
    /\ t_first_send \in Nat /\ t_last_recv \in Nat /\ conns \in 0..MaxConns
    /\ exit \in {"no", "exiting", "dumped"}
ProgramOK == pc \in [Threads -> PcOf] /\ fd \in [Threads -> Fds] /\ t \in [Threads -> Nat]
WorldOK ==
    /\ owner \in [Fds -> Threads \cup {None}]
    /\ wire \in [Fds -> [open : BOOLEAN, tls : BOOLEAN, last : {None, "sent", "received"}, n : Nat]]
    /\ answered \in [hs : Nat, req : Nat, bytes : Nat] /\ clock \in Nat

\* Who is inside a wrapper holds the descriptor, and a free descriptor has a free slot.
Holding ==
    /\ \A i \in Threads : pc[i] # "idle" => owner[fd[i]] = i
    /\ \A i \in Threads : pc[i] = "close" => ~slots[fd[i]].sock
    /\ \A f \in Fds : owner[f] = None => ~slots[f].sock

\* The stamps, and what they are of.
Stamped ==
    /\ t_first_send <= clock
    /\ \A i \in Threads : t[i] <= clock
    /\ \A i \in Threads : pc[i] = "onsend" => t[i] > 0
    /\ \A i \in Threads : pc[i] = "record" => 0 < t_first_send /\ t_first_send < t[i]
    /\ \A f \in Fds : slots[f].phase # "IDLE" => t_first_send > 0

Typed == ShimOK /\ ProgramOK /\ WorldOK
IInv == Typed /\ Holding /\ Stamped /\ WindowHoldsEveryReceive

-----------------------------------------------------------------------------
(***************************************************************************)
(* What the steps are made of.                                             *)
(***************************************************************************)
LEMMA ZeroIsASlot ==
    /\ Zero \in Slot
    /\ \A tls \in BOOLEAN : [Zero EXCEPT !.sock = TRUE, !.tls = tls] \in Slot
BY DEF Zero, Slot

\* close_exchange leaves a slot that is idle or waits for its answer, with the same stamp.
LEMMA ClosedSlot ==
    ASSUME NEW s \in Slot
    PROVE  /\ Closed(s) \in Slot /\ Closed(s).t_last = s.t_last /\ Closed(s).sock = s.sock
           /\ Closed(s).phase # "IDLE" => s.phase # "IDLE"
<1>1. CASE s.phase = "RECEIVING"
  <2>1. Closed(s) = [sock |-> s.sock, phase |-> "IDLE", tls |-> s.tls, exchanges |-> s.exchanges + 1,
                     t_last |-> s.t_last, bytes |-> 0]
    BY <1>1 DEF Closed, Slot
  <2>2. Closed(s) \in Slot BY <2>1 DEF Slot
  <2> QED BY <2>1, <2>2
<1>2. CASE s.phase # "RECEIVING" BY <1>2 DEF Closed
<1> QED BY <1>1, <1>2

LEMMA SentSlot ==
    ASSUME NEW s \in Slot
    PROVE  [s EXCEPT !.phase = "SENT"] \in Slot /\ [s EXCEPT !.phase = "SENT"].t_last = s.t_last
           /\ [s EXCEPT !.phase = "SENT"].sock = s.sock
BY DEF Slot

LEMMA FreeSlot ==
    ASSUME NEW s \in Slot
    PROVE  [s EXCEPT !.sock = FALSE] \in Slot /\ [s EXCEPT !.sock = FALSE].t_last = s.t_last
           /\ [s EXCEPT !.sock = FALSE].phase = s.phase /\ ~[s EXCEPT !.sock = FALSE].sock
BY DEF Slot

LEMMA BookedOK ==
    ASSUME NEW s \in Slot, req \in Aggregate, hs \in Aggregate, CloseExchange(s)
    PROVE  req' \in Aggregate /\ hs' \in Aggregate
BY DEF CloseExchange, Booked, Aggregate, Slot

LEMMA ReceivedSlot ==
    ASSUME NEW s \in Slot, NEW now \in Nat
    PROVE  /\ Received(s, now) \in Slot /\ Received(s, now).t_last = now
           /\ Received(s, now).sock = s.sock
<1> DEFINE a == [s EXCEPT !.phase = "RECEIVING"]
           b == [a EXCEPT !.t_last = now]
<1>1. a \in Slot /\ a.sock = s.sock BY DEF Slot
<1>2. Received(s, now) = [b EXCEPT !.bytes = b.bytes + 1] BY DEF Received
<1> HIDE DEF a
<1>3. b \in Slot /\ b.sock = s.sock /\ b.t_last = now BY <1>1 DEF Slot
<1> HIDE DEF b
<1> QED BY <1>2, <1>3 DEF Slot

LEMMA InitIInv == Init => IInv
<1> SUFFICES ASSUME Init PROVE IInv OBVIOUS
<1>1. ShimOK
  <2>1. Nothing \in Aggregate BY DEF Nothing, Aggregate
  <2>2. 0 \in 0..MaxConns BY NetPhaseAssumption DEF NetPhaseAssumption
  <2>3. [f \in Fds |-> Zero] \in [Fds -> Slot] BY ZeroIsASlot
  <2> QED BY <2>1, <2>2, <2>3 DEF Init, ShimOK
<1>2. ProgramOK BY DEF Init, ProgramOK, PcOf
<1>3. WorldOK BY DEF Init, WorldOK, Fresh, None
<1>4. Holding BY DEF Init, Holding, Zero
<1>5. Stamped BY DEF Init, Stamped, Zero
<1>6. WindowHoldsEveryReceive BY DEF Init, WindowHoldsEveryReceive, Zero
<1> QED BY <1>1, <1>2, <1>3, <1>4, <1>5, <1>6 DEF IInv, Typed

\* A thread that begins a call holds what it calls it on, and no other thread is there.
LEMMA EnterHolding ==
    ASSUME Typed, Holding, NEW i \in Threads, NEW f \in Fds, NEW l \in PcOf \ {"close"},
           Enter(i, f, l), UNCHANGED <<slots, owner>>
    PROVE  Holding'
BY DEF Typed, ProgramOK, Holding, Enter, Goto

\* A thread goes on in its call, or ends it, and leaves the slots' sockets alone.
LEMMA GotoHolding ==
    ASSUME Typed, Holding, NEW i \in Threads, NEW l \in PcOf \ {"close"}, Goto(i, l),
           pc[i] # "idle", UNCHANGED <<fd, owner>>,
           \A f \in Fds : slots'[f].sock = slots[f].sock
    PROVE  Holding'
BY DEF Typed, ProgramOK, Holding, Goto

\* Only the slot of the descriptor a thread holds changes.
LEMMA OthersApart ==
    ASSUME Typed, Holding, NEW i \in Threads, NEW j \in Threads, i # j,
           pc[i] # "idle", pc[j] # "idle"
    PROVE  fd[i] # fd[j]
BY DEF Holding

-----------------------------------------------------------------------------
LEMMA SocketIInv == ASSUME IInv, NEW i \in Threads, Socket(i) PROVE IInv'
<1> USE DEF IInv, Typed
<1>1. PICK f \in Fds : /\ owner[f] = None /\ owner' = [owner EXCEPT ![f] = i]
                       /\ wire' = [wire EXCEPT ![f] = Fresh]
  BY DEF Socket
<1>2. UNCHANGED <<slots, req, hs, t_first_send, t_last_recv, conns, exit, pc, fd, t, answered, clock>>
  BY DEF Socket, shim, program
<1>3. ShimOK' /\ ProgramOK' BY <1>2 DEF ShimOK, ProgramOK
<1>4. WorldOK' BY <1>1, <1>2 DEF WorldOK, Fresh
<1>5. Holding'
  <2>1. \A j \in Threads : pc[j] # "idle" => fd[j] # f
    BY <1>1, NetPhaseAssumption DEF Holding, NetPhaseAssumption
  <2> QED BY <1>1, <1>2, <2>1 DEF Holding, WorldOK, ProgramOK
<1>6. Stamped' /\ WindowHoldsEveryReceive' BY <1>2 DEF Stamped, WindowHoldsEveryReceive
<1> QED BY <1>3, <1>4, <1>5, <1>6

LEMMA ConnectIInv == ASSUME IInv, NEW i \in Threads, Connect(i) PROVE IInv'
<1> USE DEF IInv, Typed
<1>1. PICK f \in Fds, tls \in BOOLEAN, ok \in BOOLEAN :
          /\ owner[f] = i /\ wire' = [wire EXCEPT ![f] = [Fresh EXCEPT !.open = ok, !.tls = tls]]
          /\ slots' = [slots EXCEPT ![f] = [Zero EXCEPT !.sock = TRUE, !.tls = tls]]
  BY DEF Connect
<1>2. /\ pc[i] = "idle" /\ conns < MaxConns /\ conns' = conns + 1
      /\ UNCHANGED <<req, hs, t_first_send, t_last_recv, exit, pc, fd, t, owner, answered, clock>>
  BY DEF Connect, program
<1> DEFINE z == [Zero EXCEPT !.sock = TRUE, !.tls = tls]
<1>3. z \in Slot /\ z.t_last = 0 /\ z.phase = "IDLE" BY ZeroIsASlot DEF Zero
<1> HIDE DEF z
<1>4. slots' = [slots EXCEPT ![f] = z] BY <1>1 DEF z
<1>5. ShimOK' BY <1>2, <1>3, <1>4, NetPhaseAssumption DEF ShimOK, NetPhaseAssumption
<1>6. ProgramOK' BY <1>2 DEF ProgramOK
<1>7. WorldOK' BY <1>1, <1>2 DEF WorldOK, Fresh
<1>8. \A j \in Threads : pc[j] # "idle" => fd[j] # f BY <1>1, <1>2 DEF Holding
<1>9. Holding' BY <1>1, <1>2, <1>4, <1>8, NetPhaseAssumption
               DEF Holding, ShimOK, ProgramOK, NetPhaseAssumption
<1>10. Stamped' BY <1>2, <1>3, <1>4 DEF Stamped, ShimOK
<1>11. WindowHoldsEveryReceive' BY <1>2, <1>3, <1>4 DEF WindowHoldsEveryReceive, ShimOK
<1> QED BY <1>5, <1>6, <1>7, <1>9, <1>10, <1>11

LEMMA StampIInv == ASSUME IInv, NEW i \in Threads, Stamp(i) PROVE IInv'
<1> USE DEF IInv, Typed
<1>1. PICK f \in Fds : Enter(i, f, IF slots[f].sock THEN "onsend" ELSE "send") BY DEF Stamp
<1>2. /\ clock' = clock + 1 /\ t' = [t EXCEPT ![i] = clock + 1]
      /\ UNCHANGED <<slots, req, hs, t_first_send, t_last_recv, conns, exit, owner, wire, answered>>
  BY DEF Stamp, Tick, shim
<1> DEFINE l == IF slots[f].sock THEN "onsend" ELSE "send"
<1>3. l \in PcOf \ {"close"} /\ l \in {"onsend", "send"} BY DEF PcOf
<1> HIDE DEF l
<1>4. Enter(i, f, l) BY <1>1 DEF l
<1>5. ShimOK' BY <1>2 DEF ShimOK
<1>6. ProgramOK' BY <1>2, <1>3, <1>4 DEF ProgramOK, WorldOK, Enter, Goto
<1>7. WorldOK' BY <1>2 DEF WorldOK
<1>8. Holding' BY <1>2, <1>3, <1>4, EnterHolding
<1>9. Stamped' BY <1>2, <1>3, <1>4 DEF Stamped, ShimOK, ProgramOK, WorldOK, Enter, Goto
<1>10. WindowHoldsEveryReceive' BY <1>2 DEF WindowHoldsEveryReceive
<1> QED BY <1>5, <1>6, <1>7, <1>8, <1>9, <1>10

LEMMA OnSendIInv == ASSUME IInv, NEW i \in Threads, OnSend(i) PROVE IInv'
<1> USE DEF IInv, Typed
<1> DEFINE f == fd[i]  s == slots[f]  n == [Closed(s) EXCEPT !.phase = "SENT"]
<1>1. /\ pc[i] = "onsend" /\ Goto(i, "send") /\ CloseExchange(s) /\ slots' = [slots EXCEPT ![f] = n]
      /\ t_first_send' = IF t_first_send = 0 THEN t[i] ELSE t_first_send
      /\ UNCHANGED <<t_last_recv, conns, exit, fd, t, owner, wire, answered, clock>>
  BY DEF OnSend, world
<1>2. f \in Fds /\ s \in Slot /\ t[i] \in Nat BY DEF ShimOK, ProgramOK
<1>3. n \in Slot /\ n.t_last = s.t_last /\ n.sock = s.sock BY <1>2, ClosedSlot, SentSlot
<1>4. req' \in Aggregate /\ hs' \in Aggregate BY <1>1, <1>2, BookedOK DEF ShimOK
<1> HIDE DEF n, f, s
<1>5. t_first_send' \in Nat /\ t_first_send' > 0 /\ t_first_send' <= clock
  BY <1>1, <1>2 DEF ShimOK, WorldOK, Stamped
<1>6. ShimOK' BY <1>1, <1>2, <1>3, <1>4, <1>5 DEF ShimOK
<1>7. ProgramOK' BY <1>1 DEF ProgramOK, Goto, PcOf
<1>8. WorldOK' BY <1>1 DEF WorldOK
<1>9. \A g \in Fds : slots'[g].sock = slots[g].sock /\ slots'[g].t_last = slots[g].t_last
  BY <1>1, <1>2, <1>3 DEF ShimOK, s
<1>10. Holding' BY <1>1, <1>9, GotoHolding DEF PcOf
<1>11. Stamped'
  <2>1. \A j \in Threads : t'[j] <= clock' BY <1>1 DEF Stamped
  <2>2. \A j \in Threads : pc'[j] = "onsend" => t'[j] > 0 BY <1>1 DEF Stamped, ProgramOK, Goto
  <2>3. \A j \in Threads : pc'[j] = "record" => 0 < t_first_send' /\ t_first_send' < t'[j]
    BY <1>1 DEF Stamped, ProgramOK, Goto, ShimOK
  <2> QED BY <1>1, <1>5, <2>1, <2>2, <2>3 DEF Stamped
<1>12. WindowHoldsEveryReceive' BY <1>1, <1>9 DEF WindowHoldsEveryReceive, ShimOK
<1> QED BY <1>6, <1>7, <1>8, <1>10, <1>11, <1>12

LEMMA SendIInv == ASSUME IInv, NEW i \in Threads, Send(i) PROVE IInv'
<1> USE DEF IInv, Typed
<1>1. /\ pc[i] = "send" /\ Goto(i, "idle")
      /\ UNCHANGED <<slots, req, hs, t_first_send, t_last_recv, conns, exit, fd, t, owner, answered,
                     clock>>
  BY DEF Send, shim
<1>2. ShimOK' BY <1>1 DEF ShimOK
<1>3. ProgramOK' BY <1>1 DEF ProgramOK, Goto, PcOf
<1>4. WorldOK'
  <2>1. PICK ok \in BOOLEAN : wire' = [wire EXCEPT ![fd[i]] = IF ok THEN [@ EXCEPT !.last = "sent"]
                                                             ELSE [@ EXCEPT !.open = FALSE]]
    BY DEF Send
  <2> QED BY <1>1, <2>1 DEF WorldOK, ProgramOK
<1>5. Holding' BY <1>1, GotoHolding DEF PcOf
<1>6. Stamped' BY <1>1 DEF Stamped, Goto, ProgramOK
<1>7. WindowHoldsEveryReceive' BY <1>1 DEF WindowHoldsEveryReceive
<1> QED BY <1>2, <1>3, <1>4, <1>5, <1>6, <1>7

LEMMA RecvIInv == ASSUME IInv, NEW i \in Threads, Recv(i) PROVE IInv'
<1> USE DEF IInv, Typed
<1>1. PICK f \in Fds :
          /\ Enter(i, f, "onrecv")
          /\ wire' = [wire EXCEPT ![f] =
                        [wire[f] EXCEPT !.last = IF wire[f].last = None THEN None ELSE "received",
                                        !.n = IF wire[f].last = "sent" THEN wire[f].n + 1 ELSE wire[f].n]]
          /\ \E first \in BOOLEAN, handshake \in BOOLEAN :
                answered' = [hs    |-> answered.hs + IF first /\ handshake THEN 1 ELSE 0,
                             req   |-> answered.req + IF first /\ ~handshake THEN 1 ELSE 0,
                             bytes |-> answered.bytes + IF wire[f].last = None THEN 0 ELSE 1]
  BY DEF Recv
<1>2. UNCHANGED <<slots, req, hs, t_first_send, t_last_recv, conns, exit, t, owner, clock>>
  BY DEF Recv, shim
<1>3. ShimOK' BY <1>2 DEF ShimOK
<1>4. ProgramOK' BY <1>1, <1>2 DEF ProgramOK, Enter, Goto, PcOf
<1>5. WorldOK'
  <2>1. answered' \in [hs : Nat, req : Nat, bytes : Nat] BY <1>1 DEF WorldOK
  <2>2. wire' \in [Fds -> [open : BOOLEAN, tls : BOOLEAN, last : {None, "sent", "received"}, n : Nat]]
    <3> DEFINE Wire == [open : BOOLEAN, tls : BOOLEAN, last : {None, "sent", "received"}, n : Nat]
               w == wire[f]
               l == IF w.last = None THEN None ELSE "received"
               n == IF w.last = "sent" THEN w.n + 1 ELSE w.n
    <3>1. w \in Wire BY DEF WorldOK
    <3>2. l \in {None, "sent", "received"} /\ n \in Nat BY <3>1
    <3>3. wire' = [wire EXCEPT ![f] = [w EXCEPT !.last = l, !.n = n]] BY <1>1
    <3> HIDE DEF l, n, w
    <3> DEFINE v == [w EXCEPT !.last = l, !.n = n]
    <3>4. v \in Wire BY <3>1, <3>2
    <3>5. wire' = [wire EXCEPT ![f] = v] BY <3>3
    <3> HIDE DEF v
    <3> QED BY <3>4, <3>5 DEF WorldOK
  <2> QED BY <1>2, <2>1, <2>2 DEF WorldOK
<1>6. Holding' BY <1>1, <1>2, EnterHolding DEF PcOf
<1>7. Stamped' BY <1>1, <1>2 DEF Stamped, ProgramOK, Enter, Goto
<1>8. WindowHoldsEveryReceive' BY <1>2 DEF WindowHoldsEveryReceive
<1> QED BY <1>3, <1>4, <1>5, <1>6, <1>7, <1>8

\* The stamp is taken after the slot was found to expect an answer.
LEMMA OnRecvIInv == ASSUME IInv, NEW i \in Threads, OnRecv(i) PROVE IInv'
<1> USE DEF IInv, Typed
<1>1. /\ pc[i] = "onrecv" /\ fd[i] \in Fds
      /\ UNCHANGED <<slots, req, hs, t_first_send, t_last_recv, conns, exit, fd, owner, wire, answered>>
  BY DEF OnRecv, shim, ProgramOK
<1>2. ShimOK' BY <1>1 DEF ShimOK
<1>3. WindowHoldsEveryReceive' BY <1>1 DEF WindowHoldsEveryReceive
<1>4. CASE Goto(i, "idle") /\ UNCHANGED <<t, clock>>
  <2>1. ProgramOK' /\ WorldOK' BY <1>1, <1>4 DEF ProgramOK, WorldOK, Goto, PcOf
  <2>2. Holding' BY <1>1, <1>4, GotoHolding DEF PcOf
  <2>3. Stamped' BY <1>1, <1>4 DEF Stamped, ProgramOK, Goto
  <2> QED BY <1>2, <1>3, <2>1, <2>2, <2>3
<1>5. CASE /\ slots[fd[i]].phase # "IDLE" /\ Goto(i, "record")
           /\ clock' = clock + 1 /\ t' = [t EXCEPT ![i] = clock + 1]
  <2>1. ProgramOK' /\ WorldOK' BY <1>1, <1>5 DEF ProgramOK, WorldOK, Goto, PcOf
  <2>2. Holding' BY <1>1, <1>5, GotoHolding DEF PcOf
  <2>3. 0 < t_first_send /\ t_first_send < clock + 1
    BY <1>1, <1>5 DEF Stamped, ShimOK, WorldOK
  <2>4. Stamped' BY <1>1, <1>5, <2>3 DEF Stamped, ShimOK, ProgramOK, WorldOK, Goto
  <2> QED BY <1>2, <1>3, <2>1, <2>2, <2>4
<1> QED BY <1>4, <1>5 DEF OnRecv, Tick

LEMMA RecordIInv == ASSUME IInv, NEW i \in Threads, Record(i) PROVE IInv'
<1> USE DEF IInv, Typed
<1> DEFINE f == fd[i]  n == Received(slots[f], t[i])
<1>1. /\ pc[i] = "record" /\ Goto(i, "idle") /\ slots' = [slots EXCEPT ![f] = n]
      /\ t_last_recv' = IF t[i] > t_last_recv THEN t[i] ELSE t_last_recv
      /\ UNCHANGED <<req, hs, t_first_send, conns, exit, fd, t, owner, wire, answered, clock>>
  BY DEF Record, world
<1>2. f \in Fds /\ slots[f] \in Slot /\ t[i] \in Nat BY DEF ShimOK, ProgramOK
<1>3. n \in Slot /\ n.t_last = t[i] /\ n.sock = slots[f].sock BY <1>2, ReceivedSlot
<1> HIDE DEF n, f
<1>4. 0 < t_first_send /\ t_first_send < t[i] BY <1>1 DEF Stamped
<1>5. t_last_recv' \in Nat /\ t_last_recv' >= t[i] /\ t_last_recv' >= t_last_recv
  BY <1>1, <1>2 DEF ShimOK
<1>6. ShimOK' BY <1>1, <1>2, <1>3, <1>5 DEF ShimOK
<1>7. ProgramOK' /\ WorldOK' BY <1>1 DEF ProgramOK, WorldOK, Goto, PcOf
<1>8. \A g \in Fds : slots'[g].sock = slots[g].sock BY <1>1, <1>2, <1>3 DEF ShimOK
<1>9. Holding' BY <1>1, <1>8, GotoHolding DEF PcOf
<1>10. Stamped' BY <1>1, <1>4 DEF Stamped, ShimOK, ProgramOK, Goto
<1>11. WindowHoldsEveryReceive'
  <2> SUFFICES ASSUME NEW g \in Fds, slots'[g].t_last # 0
               PROVE  0 < t_first_send /\ t_first_send < slots'[g].t_last
                      /\ slots'[g].t_last <= t_last_recv'
    BY <1>1 DEF WindowHoldsEveryReceive
  <2>1. CASE g = f BY <1>1, <1>2, <1>3, <1>4, <1>5, <2>1 DEF ShimOK
  <2>2. CASE g # f
    <3>1. slots'[g] = slots[g] /\ slots[g].t_last \in Nat BY <1>1, <2>2 DEF ShimOK, Slot
    <3> QED BY <1>5, <3>1 DEF WindowHoldsEveryReceive, ShimOK
  <2> QED BY <2>1, <2>2
<1> QED BY <1>6, <1>7, <1>9, <1>10, <1>11

LEMMA ShutIInv == ASSUME IInv, NEW i \in Threads, Shut(i) PROVE IInv'
<1> USE DEF IInv, Typed
<1>1. PICK f \in Fds : Enter(i, f, "onclose") BY DEF Shut
<1>2. UNCHANGED <<slots, req, hs, t_first_send, t_last_recv, conns, exit, t, owner, wire, answered,
                  clock>>
  BY DEF Shut, shim, world
<1>3. ShimOK' /\ WorldOK' BY <1>2 DEF ShimOK, WorldOK
<1>4. ProgramOK' BY <1>1, <1>2 DEF ProgramOK, Enter, Goto, PcOf
<1>5. Holding' BY <1>1, <1>2, EnterHolding DEF PcOf
<1>6. Stamped' BY <1>1, <1>2 DEF Stamped, ProgramOK, Enter, Goto
<1>7. WindowHoldsEveryReceive' BY <1>2 DEF WindowHoldsEveryReceive
<1> QED BY <1>3, <1>4, <1>5, <1>6, <1>7

LEMMA OnCloseIInv == ASSUME IInv, NEW i \in Threads, OnClose(i) PROVE IInv'
<1> USE DEF IInv, Typed
<1> DEFINE f == fd[i]  s == slots[f]
<1>1. /\ pc[i] = "onclose" /\ Goto(i, "close")
      /\ UNCHANGED <<t_first_send, t_last_recv, conns, exit, fd, t, owner, wire, answered, clock>>
  BY DEF OnClose, world
<1>2. f \in Fds /\ s \in Slot BY DEF ShimOK, ProgramOK
<1>3. req' \in Aggregate /\ hs' \in Aggregate BY <1>2, BookedOK DEF OnClose, ShimOK
<1> DEFINE n == IF s.sock THEN [Closed(s) EXCEPT !.sock = FALSE] ELSE s
<1>4. /\ slots' = [slots EXCEPT ![f] = n] /\ n \in Slot /\ ~n.sock /\ n.t_last = s.t_last
      /\ n.phase # "IDLE" => s.phase # "IDLE"
  <2>1. CASE s.sock BY <1>2, <2>1, ClosedSlot, FreeSlot DEF OnClose
  <2>2. CASE ~s.sock BY <1>2, <2>2 DEF OnClose, ShimOK
  <2> QED BY <2>1, <2>2
<1> HIDE DEF n
<1>5. ShimOK' BY <1>1, <1>2, <1>3, <1>4 DEF ShimOK
<1>6. ProgramOK' /\ WorldOK' BY <1>1 DEF ProgramOK, WorldOK, Goto, PcOf
<1>7. \A j \in Threads : pc[j] # "idle" /\ j # i => fd[j] # f BY <1>1, OthersApart
<1>8. Holding'
  <2>1. \A j \in Threads : pc'[j] # "idle" => owner'[fd'[j]] = j
    BY <1>1 DEF Holding, ProgramOK, Goto
  <2>2. \A j \in Threads : pc'[j] = "close" => ~slots'[fd'[j]].sock
    BY <1>1, <1>2, <1>4, <1>7 DEF Holding, ProgramOK, ShimOK, Goto
  <2>3. \A g \in Fds : owner'[g] = None => ~slots'[g].sock
    BY <1>1, <1>2, <1>4 DEF Holding, ShimOK
  <2> QED BY <2>1, <2>2, <2>3 DEF Holding
<1>9. Stamped' BY <1>1, <1>2, <1>4 DEF Stamped, ShimOK, ProgramOK, Goto
<1>10. WindowHoldsEveryReceive' BY <1>1, <1>2, <1>4 DEF WindowHoldsEveryReceive, ShimOK
<1> QED BY <1>5, <1>6, <1>8, <1>9, <1>10

\* The slot is free when the descriptor is anybody's again.
LEMMA CloseIInv == ASSUME IInv, NEW i \in Threads, Close(i) PROVE IInv'
<1> USE DEF IInv, Typed
<1> DEFINE f == fd[i]
<1>1. /\ pc[i] = "close" /\ Goto(i, "idle")
      /\ owner' = [owner EXCEPT ![f] = IF owner[f] = i THEN None ELSE owner[f]]
      /\ UNCHANGED <<slots, req, hs, t_first_send, t_last_recv, conns, exit, fd, t, wire, answered,
                     clock>>
  BY DEF Close, shim
<1>2. f \in Fds /\ owner[f] = i /\ ~slots[f].sock BY <1>1 DEF ProgramOK, Holding
<1>3. ShimOK' BY <1>1 DEF ShimOK
<1>4. ProgramOK' BY <1>1 DEF ProgramOK, Goto, PcOf
<1>5. WorldOK' BY <1>1, <1>2 DEF WorldOK
<1>6. \A j \in Threads : pc[j] # "idle" /\ j # i => fd[j] # f BY <1>1, OthersApart
<1>7. Holding' BY <1>1, <1>2, <1>6 DEF Holding, ProgramOK, WorldOK, Goto
<1>8. Stamped' BY <1>1 DEF Stamped, ProgramOK, Goto
<1>9. WindowHoldsEveryReceive' BY <1>1 DEF WindowHoldsEveryReceive
<1> QED BY <1>3, <1>4, <1>5, <1>7, <1>8, <1>9

LEMMA FiniIInv == ASSUME IInv, Fini PROVE IInv'
<1> USE DEF IInv, Typed
<1>1. PICK f \in Fds : CloseExchange(slots[f]) /\ slots' = [slots EXCEPT ![f] = Closed(slots[f])]
  BY DEF Fini
<1> DEFINE s == slots[f]  n == Closed(s)
<1>2. UNCHANGED <<t_first_send, t_last_recv, conns, exit, pc, fd, t, owner, wire, answered, clock>>
  BY DEF Fini, program, world
<1>3. s \in Slot BY DEF ShimOK
<1>4. /\ n \in Slot /\ n.t_last = s.t_last /\ n.sock = s.sock
      /\ n.phase # "IDLE" => s.phase # "IDLE"
  BY <1>3, ClosedSlot
<1>5. req' \in Aggregate /\ hs' \in Aggregate BY <1>1, <1>3, BookedOK DEF ShimOK
<1>6. slots' = [slots EXCEPT ![f] = n] BY <1>1
<1> HIDE DEF n
<1>7. ShimOK' BY <1>2, <1>4, <1>5, <1>6 DEF ShimOK
<1>8. ProgramOK' /\ WorldOK' BY <1>2 DEF ProgramOK, WorldOK
<1>9. Holding' BY <1>2, <1>4, <1>6 DEF Holding, ShimOK, ProgramOK
<1>10. Stamped' BY <1>2, <1>4, <1>6 DEF Stamped, ShimOK
<1>11. WindowHoldsEveryReceive' BY <1>2, <1>4, <1>6 DEF WindowHoldsEveryReceive, ShimOK
<1> QED BY <1>7, <1>8, <1>9, <1>10, <1>11

\* Leaving and writing the file touch nothing but exit.
LEMMA EndIInv == ASSUME IInv, Exit \/ Dump \/ UNCHANGED vars PROVE IInv'
<1> USE DEF IInv, Typed
<1>1. /\ exit' \in {exit, "exiting", "dumped"}
      /\ UNCHANGED <<slots, req, hs, t_first_send, t_last_recv, conns, pc, fd, t, owner, wire,
                     answered, clock>>
  BY DEF Exit, Dump, vars, shim, program, world
<1>2. Typed' BY <1>1 DEF ShimOK, ProgramOK, WorldOK
<1>3. Holding' /\ Stamped' /\ WindowHoldsEveryReceive'
  BY <1>1 DEF Holding, Stamped, WindowHoldsEveryReceive
<1> QED BY <1>2, <1>3

-----------------------------------------------------------------------------
\* The strengthening is kept by every wrapper's steps and by fini.
THEOREM Inductive == Spec => []IInv
<1>1. ASSUME IInv, [Next]_vars PROVE IInv'
  <2>1. ASSUME NEW i \in Threads, Thread(i) PROVE IInv'
    <3>1. CASE Socket(i) \/ Connect(i) BY <1>1, <3>1, SocketIInv, ConnectIInv
    <3>2. CASE Stamp(i) \/ OnSend(i) \/ Send(i) BY <1>1, <3>2, StampIInv, OnSendIInv, SendIInv
    <3>3. CASE Recv(i) \/ OnRecv(i) \/ Record(i) BY <1>1, <3>3, RecvIInv, OnRecvIInv, RecordIInv
    <3>4. CASE Shut(i) \/ OnClose(i) \/ Close(i) BY <1>1, <3>4, ShutIInv, OnCloseIInv, CloseIInv
    <3> QED BY <2>1, <3>1, <3>2, <3>3, <3>4 DEF Thread
  <2>2. CASE Fini BY <1>1, <2>2, FiniIInv
  <2>3. CASE Exit \/ Dump \/ UNCHANGED vars BY <1>1, <2>3, EndIInv
  <2> QED BY <1>1, <2>1, <2>2, <2>3 DEF Next, Over
<1> QED BY <1>1, InitIInv, PTL DEF Spec

\* Every variable keeps its type, and a descriptor that is nobody's has a free slot
\* (on_close frees it before the kernel's close).
THEOREM TypeCorrect == Spec => []TypeOK
<1>1. IInv => TypeOK BY DEF IInv, Typed, ShimOK, ProgramOK, WorldOK, Holding, TypeOK
<1> QED BY <1>1, Inductive, PTL

\* No receive is stamped outside the measured window, whichever threads race to store
\* the first send and the last receive (on_send, on_recv).
THEOREM WindowHoldsReceives == Spec => []WindowHoldsEveryReceive
<1>1. IInv => WindowHoldsEveryReceive BY DEF IInv
<1> QED BY <1>1, Inductive, PTL

-----------------------------------------------------------------------------
(***************************************************************************)
(* What is booked and what is still to be booked.                          *)
(***************************************************************************)
\* Where the thread is that has a descriptor, as far as it is in a call on it.
At(f) == IF owner[f] # None /\ fd[owner[f]] = f THEN pc[owner[f]] ELSE "idle"

\* An answer has been received and its slot does not know yet.
InFlight(f) ==
    At(f) = "record" \/ (At(f) = "onrecv" /\ slots[f].sock /\ slots[f].phase # "IDLE")
Pending(f) == InFlight(f) \/ slots[f].phase = "RECEIVING"

\* What a descriptor still owes the file.
OwedHs == [f \in Fds |-> IF Pending(f) /\ IsHandshake(slots[f]) THEN 1 ELSE 0]
OwedReq == [f \in Fds |-> IF Pending(f) /\ ~IsHandshake(slots[f]) THEN 1 ELSE 0]
OwedBytes == [f \in Fds |-> slots[f].bytes + IF InFlight(f) THEN 1 ELSE 0]

\* As many things as the numbers of h add up to, so that a sum is a cardinality.
Units(h) == UNION {{f} \X (1..h[f]) : f \in Fds}

Balance ==
    /\ IsFiniteSet(Units(OwedHs)) /\ answered.hs = hs.n + Cardinality(Units(OwedHs))
    /\ IsFiniteSet(Units(OwedReq)) /\ answered.req = req.n + Cardinality(Units(OwedReq))
    /\ IsFiniteSet(Units(OwedBytes))
    /\ answered.bytes = hs.bytes + req.bytes + Cardinality(Units(OwedBytes))

\* The slot of an open connection and what went over its wire.
Agree(f) == LET s == slots[f]
                w == wire[f]
                received == At(f) \in {"onrecv", "record"}
            IN
    /\ w.open /\ owner[f] # None /\ At(f) # "close" => s.sock
    /\ At(f) \in {"onsend", "onrecv", "record"} => w.open
    /\ s.sock => w.open \/ s.phase # "RECEIVING"
    /\ s.sock /\ w.open =>
          /\ s.tls = w.tls
          /\ w.n = s.exchanges + IF Pending(f) THEN 1 ELSE 0
          /\ At(f) = "send" => s.phase = "SENT"
          /\ At(f) \in {"idle", "onsend", "onclose"} =>
                /\ w.last = None <=> s.phase = "IDLE"
                /\ w.last = "sent" <=> s.phase = "SENT"
          /\ received => w.last # "sent" /\ (w.last = None <=> s.phase = "IDLE")
          /\ At(f) = "record" => w.last = "received"

Ending ==
    /\ \A f \in Fds : slots[f].phase = "RECEIVING" => slots[f].sock
    /\ \A f \in Fds : slots[f].phase # "RECEIVING" => slots[f].bytes = 0
    /\ exit # "no" => \A i \in Threads : pc[i] = "idle"
    /\ exit = "dumped" => \A f \in Fds : slots[f].phase # "RECEIVING"

Booking == Balance /\ Ending /\ (exit = "no" => \A f \in Fds : Agree(f))

LEMMA OneMore ==
    ASSUME NEW h \in [Fds -> Nat], NEW f \in Fds, NEW m \in Nat, NEW k,
           k = [h EXCEPT ![f] = m], IsFiniteSet(Units(h))
    PROVE  /\ IsFiniteSet(Units(k))
           /\ Cardinality(Units(h)) \in Nat /\ Cardinality(Units(k)) \in Nat
           /\ Cardinality(Units(k)) + h[f] = Cardinality(Units(h)) + m
<1> DEFINE rest == UNION {{g} \X (1..h[g]) : g \in Fds \ {f}}
           Own(n) == {f} \X (1..n)
<1>1. Units(h) = rest \cup Own(h[f]) BY DEF Units
<1>2. Units(k) = rest \cup Own(m)
  <2>1. k[f] = m /\ \A g \in Fds \ {f} : k[g] = h[g] OBVIOUS
  <2>2. {{g} \X (1..k[g]) : g \in Fds} = {{g} \X (1..h[g]) : g \in Fds \ {f}} \cup {Own(m)}
    BY <2>1
  <2> QED BY <2>2 DEF Units
<1>3. ASSUME NEW n \in Nat
      PROVE  IsFiniteSet(Own(n)) /\ Cardinality(Own(n)) = n /\ rest \cap Own(n) = {}
  <2>1. IsFiniteSet({f}) /\ Cardinality({f}) = 1 BY FS_Singleton
  <2>2. IsFiniteSet(1..n) /\ Cardinality(1..n) = n
    <3> HIDE DEF Own, rest
    <3>3. 1 \in Int /\ n \in Int OBVIOUS
    <3>1. /\ IsFiniteSet(1..n)
          /\ Cardinality(1..n) = IF 1 > n THEN 0 ELSE n - 1 + 1
      BY <3>3, FS_Interval
    <3>2. (IF 1 > n THEN 0 ELSE n - 1 + 1) = n OBVIOUS
    <3> QED BY <3>1, <3>2
  <2>3. IsFiniteSet(Own(n)) /\ Cardinality(Own(n)) = n
    <3>1. IsFiniteSet(Own(n)) /\ Cardinality(Own(n)) = Cardinality({f}) * Cardinality(1..n)
      BY <2>1, <2>2, FS_Product
    <3> HIDE DEF Own, rest
    <3>2. 1 * n = n OBVIOUS
    <3> QED BY <2>1, <2>2, <3>1, <3>2
  <2>4. ASSUME NEW z \in rest, z \in Own(n) PROVE FALSE
    <3>1. PICK g \in Fds \ {f} : z \in {g} \X (1..h[g]) OBVIOUS
    <3>2. z[1] = g BY <3>1
    <3>3. z[1] = f BY <2>4
    <3> QED BY <3>2, <3>3
  <2> HIDE DEF Own, rest
  <2> QED BY <2>3, <2>4
<1>4. IsFiniteSet(rest)
  <2>1. rest \in SUBSET Units(h) BY <1>1
  <2> QED BY <2>1, FS_Subset
<1> HIDE DEF Own, rest
<1>5. ASSUME NEW n \in Nat
      PROVE  /\ IsFiniteSet(rest \cup Own(n))
             /\ Cardinality(rest \cup Own(n)) = Cardinality(rest) + n
  <2>1. IsFiniteSet(Own(n)) /\ Cardinality(Own(n)) = n /\ rest \cap Own(n) = {} BY <1>3
  <2>2. Cardinality(rest \cap Own(n)) = 0 BY <2>1, FS_EmptySet
  <2>3. Cardinality(rest) \in Nat BY <1>4, FS_CardinalityType
  <2>4. /\ IsFiniteSet(rest \cup Own(n))
        /\ Cardinality(rest \cup Own(n)) =
              Cardinality(rest) + Cardinality(Own(n)) - Cardinality(rest \cap Own(n))
    BY <1>4, <2>1, FS_Union
  <2> QED BY <2>1, <2>2, <2>3, <2>4
<1>6. Cardinality(rest) \in Nat BY <1>4, FS_CardinalityType
<1>7. h[f] \in Nat OBVIOUS
<1>8. /\ IsFiniteSet(Units(k)) /\ Cardinality(Units(k)) = Cardinality(rest) + m
      /\ Cardinality(Units(h)) = Cardinality(rest) + h[f]
  BY <1>1, <1>2, <1>5, <1>7
<1> QED BY <1>6, <1>7, <1>8

\* Only one descriptor is touched, its slot, its wire, and the thread on it.
Only(f) == \A g \in Fds \ {f} :
    slots'[g] = slots[g] /\ wire'[g] = wire[g] /\ owner'[g] = owner[g] /\ At(g)' = At(g)

LEMMA OwedTypes ==
    ASSUME Typed
    PROVE  OwedHs \in [Fds -> Nat] /\ OwedReq \in [Fds -> Nat] /\ OwedBytes \in [Fds -> Nat]
<1>1. OwedHs \in [Fds -> Nat] BY DEF OwedHs
<1>2. OwedReq \in [Fds -> Nat] BY DEF OwedReq
<1>3. \A f \in Fds : slots[f].bytes \in Nat BY DEF Typed, ShimOK, Slot
<1> QED BY <1>1, <1>2, <1>3 DEF OwedBytes

\* What one descriptor's exchange adds to the truth and takes off what it owes is booked.
LEMMA BalanceFrame ==
    ASSUME Typed, Typed', Balance, NEW f \in Fds, Only(f),
           answered'.hs + hs.n + OwedHs[f] = answered.hs + hs'.n + OwedHs'[f],
           answered'.req + req.n + OwedReq[f] = answered.req + req'.n + OwedReq'[f],
           answered'.bytes + hs.bytes + req.bytes + OwedBytes[f] =
               answered.bytes + hs'.bytes + req'.bytes + OwedBytes'[f]
    PROVE  Balance'
<1>1. /\ OwedHs \in [Fds -> Nat] /\ OwedReq \in [Fds -> Nat] /\ OwedBytes \in [Fds -> Nat]
  BY OwedTypes
<1>2. OwedHs' \in [Fds -> Nat] /\ OwedReq' \in [Fds -> Nat] /\ OwedBytes' \in [Fds -> Nat]
  <2>1. OwedHs' \in [Fds -> Nat] BY DEF OwedHs
  <2>2. OwedReq' \in [Fds -> Nat] BY DEF OwedReq
  <2>3. \A g \in Fds : slots'[g].bytes \in Nat BY DEF Typed, ShimOK, Slot
  <2> QED BY <2>1, <2>2, <2>3 DEF OwedBytes
<1>3. ASSUME NEW g \in Fds \ {f}
      PROVE  OwedHs'[g] = OwedHs[g] /\ OwedReq'[g] = OwedReq[g] /\ OwedBytes'[g] = OwedBytes[g]
  <2>1. slots'[g] = slots[g] /\ At(g)' = At(g) BY DEF Only
  <2>2. InFlight(g)' = InFlight(g) BY <2>1 DEF InFlight
  <2>3. Pending(g)' = Pending(g) BY <2>1, <2>2 DEF Pending
  <2> QED BY <2>1, <2>2, <2>3 DEF OwedHs, OwedReq, OwedBytes
<1>4. /\ OwedHs' = [OwedHs EXCEPT ![f] = OwedHs'[f]]
      /\ OwedReq' = [OwedReq EXCEPT ![f] = OwedReq'[f]]
      /\ OwedBytes' = [OwedBytes EXCEPT ![f] = OwedBytes'[f]]
  BY <1>1, <1>2, <1>3
<1>5. /\ OwedHs'[f] \in Nat /\ OwedReq'[f] \in Nat /\ OwedBytes'[f] \in Nat
      /\ OwedHs[f] \in Nat /\ OwedReq[f] \in Nat /\ OwedBytes[f] \in Nat
  BY <1>1, <1>2
<1>6. /\ hs.n \in Nat /\ hs.bytes \in Nat /\ req.n \in Nat /\ req.bytes \in Nat
      /\ hs'.n \in Nat /\ hs'.bytes \in Nat /\ req'.n \in Nat /\ req'.bytes \in Nat
      /\ answered.hs \in Nat /\ answered.req \in Nat /\ answered.bytes \in Nat
      /\ answered'.hs \in Nat /\ answered'.req \in Nat /\ answered'.bytes \in Nat
  BY DEF Typed, ShimOK, WorldOK, Aggregate
<1> DEFINE H == OwedHs'
           R == OwedReq'
           B == OwedBytes'
<1>8. /\ Units(OwedHs)' = Units(H) /\ Units(OwedReq)' = Units(R) /\ Units(OwedBytes)' = Units(B)
  BY DEF Units
<1>9. H = [OwedHs EXCEPT ![f] = H[f]] /\ H[f] \in Nat BY <1>4, <1>5
<1>10. R = [OwedReq EXCEPT ![f] = R[f]] /\ R[f] \in Nat BY <1>4, <1>5
<1>11. B = [OwedBytes EXCEPT ![f] = B[f]] /\ B[f] \in Nat BY <1>4, <1>5
<1>12. /\ answered'.hs + hs.n + OwedHs[f] = answered.hs + hs'.n + H[f]
       /\ answered'.req + req.n + OwedReq[f] = answered.req + req'.n + R[f]
       /\ answered'.bytes + hs.bytes + req.bytes + OwedBytes[f] =
             answered.bytes + hs'.bytes + req'.bytes + B[f]
  OBVIOUS
<1> HIDE DEF H, R, B
<1>13. IsFiniteSet(Units(H)) /\ answered'.hs = hs'.n + Cardinality(Units(H))
  <2>1. IsFiniteSet(Units(OwedHs)) /\ answered.hs = hs.n + Cardinality(Units(OwedHs))
    BY DEF Balance
  <2>2. /\ IsFiniteSet(Units(H))
        /\ Cardinality(Units(OwedHs)) \in Nat /\ Cardinality(Units(H)) \in Nat
        /\ Cardinality(Units(H)) + OwedHs[f] = Cardinality(Units(OwedHs)) + H[f]
    BY <1>1, <1>9, <2>1, OneMore
  <2>3. hs.n \in Nat /\ hs'.n \in Nat BY <1>6
  <2>4. answered'.hs + (hs.n) + OwedHs[f] = answered.hs + (hs'.n) + H[f]
    BY <1>5, <1>6, <1>9, <1>12
  <2> DEFINE x == answered.hs
             y == hs.n
             u == answered'.hs
             v == hs'.n
             a == Cardinality(Units(OwedHs))
             c == Cardinality(Units(H))
             o == OwedHs[f]
             n == H[f]
  <2>5. /\ x \in Nat /\ y \in Nat /\ a \in Nat /\ o \in Nat
        /\ u \in Nat /\ v \in Nat /\ c \in Nat /\ n \in Nat
    BY <1>5, <1>6, <1>9, <2>2, <2>3
  <2>6. x = y + a /\ c + o = a + n /\ u + y + o = x + v + n BY <2>1, <2>2, <2>4
  <2> HIDE DEF x, y, u, v, a, c, o, n
  <2>7. u = v + c BY <2>5, <2>6
  <2> QED BY <2>2, <2>7 DEF u, v, c
<1>14. IsFiniteSet(Units(R)) /\ answered'.req = req'.n + Cardinality(Units(R))
  <2>1. IsFiniteSet(Units(OwedReq)) /\ answered.req = req.n + Cardinality(Units(OwedReq))
    BY DEF Balance
  <2>2. /\ IsFiniteSet(Units(R))
        /\ Cardinality(Units(OwedReq)) \in Nat /\ Cardinality(Units(R)) \in Nat
        /\ Cardinality(Units(R)) + OwedReq[f] = Cardinality(Units(OwedReq)) + R[f]
    BY <1>1, <1>10, <2>1, OneMore
  <2>3. req.n \in Nat /\ req'.n \in Nat BY <1>6
  <2>4. answered'.req + (req.n) + OwedReq[f] = answered.req + (req'.n) + R[f]
    BY <1>5, <1>6, <1>10, <1>12
  <2> DEFINE x == answered.req
             y == req.n
             u == answered'.req
             v == req'.n
             a == Cardinality(Units(OwedReq))
             c == Cardinality(Units(R))
             o == OwedReq[f]
             n == R[f]
  <2>5. /\ x \in Nat /\ y \in Nat /\ a \in Nat /\ o \in Nat
        /\ u \in Nat /\ v \in Nat /\ c \in Nat /\ n \in Nat
    BY <1>5, <1>6, <1>10, <2>2, <2>3
  <2>6. x = y + a /\ c + o = a + n /\ u + y + o = x + v + n BY <2>1, <2>2, <2>4
  <2> HIDE DEF x, y, u, v, a, c, o, n
  <2>7. u = v + c BY <2>5, <2>6
  <2> QED BY <2>2, <2>7 DEF u, v, c
<1>15. IsFiniteSet(Units(B)) /\ answered'.bytes = hs'.bytes + req'.bytes + Cardinality(Units(B))
  <2>1. IsFiniteSet(Units(OwedBytes)) /\ answered.bytes = hs.bytes + req.bytes + Cardinality(Units(OwedBytes))
    BY DEF Balance
  <2>2. /\ IsFiniteSet(Units(B))
        /\ Cardinality(Units(OwedBytes)) \in Nat /\ Cardinality(Units(B)) \in Nat
        /\ Cardinality(Units(B)) + OwedBytes[f] = Cardinality(Units(OwedBytes)) + B[f]
    BY <1>1, <1>11, <2>1, OneMore
  <2>3. hs.bytes + req.bytes \in Nat /\ hs'.bytes + req'.bytes \in Nat BY <1>6
  <2>4. answered'.bytes + (hs.bytes + req.bytes) + OwedBytes[f] = answered.bytes + (hs'.bytes + req'.bytes) + B[f]
    BY <1>5, <1>6, <1>11, <1>12
  <2> DEFINE x == answered.bytes
             y == hs.bytes + req.bytes
             u == answered'.bytes
             v == hs'.bytes + req'.bytes
             a == Cardinality(Units(OwedBytes))
             c == Cardinality(Units(B))
             o == OwedBytes[f]
             n == B[f]
  <2>5. /\ x \in Nat /\ y \in Nat /\ a \in Nat /\ o \in Nat
        /\ u \in Nat /\ v \in Nat /\ c \in Nat /\ n \in Nat
    BY <1>5, <1>6, <1>11, <2>2, <2>3
  <2>6. x = y + a /\ c + o = a + n /\ u + y + o = x + v + n BY <2>1, <2>2, <2>4
  <2> HIDE DEF x, y, u, v, a, c, o, n
  <2>7. u = v + c BY <2>5, <2>6
  <2> QED BY <2>2, <2>7 DEF u, v, c
<1> QED BY <1>8, <1>13, <1>14, <1>15 DEF Balance

\* The other descriptors' slots agree with their wires as before.
LEMMA AgreeFrame ==
    ASSUME NEW f \in Fds, Only(f), \A g \in Fds : Agree(g), Agree(f)'
    PROVE  \A g \in Fds : Agree(g)'
<1> SUFFICES ASSUME NEW g \in Fds \ {f} PROVE Agree(g)' OBVIOUS
<1>1. /\ slots'[g] = slots[g] /\ wire'[g] = wire[g] /\ owner'[g] = owner[g] /\ At(g)' = At(g)
  BY DEF Only
<1>2. InFlight(g)' = InFlight(g) BY <1>1 DEF InFlight
<1>3. Pending(g)' = Pending(g) BY <1>1, <1>2 DEF Pending
<1>4. Agree(g) OBVIOUS
<1> QED BY <1>1, <1>3, <1>4 DEF Agree

\* Where a thread is that goes on in its call, and one that begins one.
LEMMA GotoAt ==
    ASSUME Typed, Holding, NEW i \in Threads, NEW f \in Fds, f = fd[i], pc[i] # "idle",
           NEW l \in PcOf, Goto(i, l), UNCHANGED <<fd, owner>>
    PROVE  /\ At(f) = pc[i] /\ At(f)' = l /\ owner[f] = i /\ i # None
           /\ \A g \in Fds \ {f} : At(g)' = At(g)
<1>1. owner[f] = i /\ i # None BY NetPhaseAssumption DEF Holding
<1>2. pc' = [pc EXCEPT ![i] = l] /\ pc \in [Threads -> PcOf] BY DEF Goto, Typed, ProgramOK
<1>3. At(f) = pc[i] /\ At(f)' = l BY <1>1, <1>2 DEF At
<1>4. ASSUME NEW g \in Fds \ {f} PROVE At(g)' = At(g)
  <2>1. owner[g] = None \/ owner[g] \in Threads BY DEF Typed, WorldOK
  <2>2. owner[g] = i => fd[owner[g]] # g OBVIOUS
  <2> QED BY <1>2, <2>1, <2>2 DEF At
<1> QED BY <1>1, <1>3, <1>4

LEMMA EnterAt ==
    ASSUME Typed, NEW i \in Threads, NEW f \in Fds, NEW l \in PcOf, Enter(i, f, l),
           UNCHANGED owner
    PROVE  /\ At(f) = "idle" /\ At(f)' = l /\ owner[f] = i /\ i # None
           /\ \A g \in Fds \ {f} : At(g)' = At(g)
<1>1. owner[f] = i /\ i # None /\ pc[i] = "idle" BY NetPhaseAssumption DEF Enter
<1>2. /\ pc' = [pc EXCEPT ![i] = l] /\ pc \in [Threads -> PcOf]
      /\ fd' = [fd EXCEPT ![i] = f] /\ fd \in [Threads -> Fds]
  BY DEF Enter, Goto, Typed, ProgramOK
<1>3. At(f) = "idle" /\ At(f)' = l BY <1>1, <1>2 DEF At
<1>4. ASSUME NEW g \in Fds \ {f} PROVE At(g)' = At(g)
  <2>1. owner[g] = None \/ owner[g] \in Threads BY DEF Typed, WorldOK
  <2> QED BY <1>1, <1>2, <2>1 DEF At
<1> QED BY <1>1, <1>3, <1>4

LEMMA Owes ==
    ASSUME NEW f \in Fds
    PROVE  /\ OwedHs[f] = IF Pending(f) /\ IsHandshake(slots[f]) THEN 1 ELSE 0
           /\ OwedReq[f] = IF Pending(f) /\ ~IsHandshake(slots[f]) THEN 1 ELSE 0
           /\ OwedBytes[f] = slots[f].bytes + IF InFlight(f) THEN 1 ELSE 0
           /\ OwedHs'[f] = IF Pending(f)' /\ IsHandshake(slots'[f]) THEN 1 ELSE 0
           /\ OwedReq'[f] = IF Pending(f)' /\ ~IsHandshake(slots'[f]) THEN 1 ELSE 0
           /\ OwedBytes'[f] = slots'[f].bytes + IF InFlight(f)' THEN 1 ELSE 0
BY DEF OwedHs, OwedReq, OwedBytes

\* A step of the program that touches one descriptor.
LEMMA OnOne ==
    ASSUME IInv, IInv', Booking, exit = "no", exit' = "no", NEW f \in Fds, Only(f),
           Agree(f)', slots'[f].phase = "RECEIVING" => slots'[f].sock,
           slots'[f].phase # "RECEIVING" => slots'[f].bytes = 0,
           answered'.hs + hs.n + OwedHs[f] = answered.hs + hs'.n + OwedHs'[f],
           answered'.req + req.n + OwedReq[f] = answered.req + req'.n + OwedReq'[f],
           answered'.bytes + hs.bytes + req.bytes + OwedBytes[f] =
               answered.bytes + hs'.bytes + req'.bytes + OwedBytes'[f]
    PROVE  Booking'
<1>1. Typed /\ Typed' /\ Balance /\ Ending /\ \A g \in Fds : Agree(g) BY DEF IInv, Booking
<1>2. Balance' BY <1>1, BalanceFrame
<1>3. \A g \in Fds : Agree(g)' BY <1>1, AgreeFrame
<1>4. Ending'
  <2>1. ASSUME NEW g \in Fds
        PROVE  /\ slots'[g].phase = "RECEIVING" => slots'[g].sock
               /\ slots'[g].phase # "RECEIVING" => slots'[g].bytes = 0
    BY <1>1 DEF Ending, Only
  <2> QED BY <2>1 DEF Ending
<1> QED BY <1>2, <1>3, <1>4 DEF Booking

\* What is owed for an exchange is what close_exchange books of it.
LEMMA Closing ==
    ASSUME Typed, NEW f \in Fds, CloseExchange(slots[f]), ~InFlight(f), ~Pending(f)',
           slots[f].phase # "RECEIVING" => slots[f].bytes = 0, slots'[f].bytes = 0,
           UNCHANGED answered
    PROVE  /\ answered'.hs + hs.n + OwedHs[f] = answered.hs + hs'.n + OwedHs'[f]
           /\ answered'.req + req.n + OwedReq[f] = answered.req + req'.n + OwedReq'[f]
           /\ answered'.bytes + hs.bytes + req.bytes + OwedBytes[f] =
                 answered.bytes + hs'.bytes + req'.bytes + OwedBytes'[f]
<1> DEFINE s == slots[f]
<1>1. s \in Slot /\ s.bytes \in Nat BY DEF Typed, ShimOK, Slot
<1>2. /\ hs.n \in Nat /\ hs.bytes \in Nat /\ req.n \in Nat /\ req.bytes \in Nat
      /\ answered.hs \in Nat /\ answered.req \in Nat /\ answered.bytes \in Nat
      /\ answered' = answered
  BY DEF Typed, ShimOK, WorldOK, Aggregate
<1>3. ~InFlight(f)' BY DEF Pending
<1>4. OwedHs'[f] = 0 /\ OwedReq'[f] = 0 /\ OwedBytes'[f] = 0 BY <1>3, Owes
<1>5. CASE s.phase = "RECEIVING"
  <2>1. Pending(f) BY <1>5 DEF Pending
  <2>2. OwedBytes[f] = s.bytes BY <1>1, Owes
  <2>3. CASE IsHandshake(s)
    <3>1. OwedHs[f] = 1 /\ OwedReq[f] = 0 BY <2>1, <2>3, Owes
    <3>2. hs' = Booked(hs, s) /\ req' = req BY <1>5, <2>3 DEF CloseExchange
    <3>3. hs'.n = hs.n + 1 /\ hs'.bytes = hs.bytes + s.bytes BY <3>2 DEF Booked
    <3> HIDE DEF s
    <3> QED BY <1>1, <1>2, <1>4, <2>2, <3>1, <3>2, <3>3
  <2>4. CASE ~IsHandshake(s)
    <3>1. OwedHs[f] = 0 /\ OwedReq[f] = 1 BY <2>1, <2>4, Owes
    <3>2. req' = Booked(req, s) /\ hs' = hs BY <1>5, <2>4 DEF CloseExchange
    <3>3. req'.n = req.n + 1 /\ req'.bytes = req.bytes + s.bytes BY <3>2 DEF Booked
    <3> HIDE DEF s
    <3> QED BY <1>1, <1>2, <1>4, <2>2, <3>1, <3>2, <3>3
  <2> QED BY <2>3, <2>4
<1>6. CASE s.phase # "RECEIVING"
  <2>1. ~Pending(f) BY <1>6 DEF Pending
  <2>2. OwedHs[f] = 0 /\ OwedReq[f] = 0 /\ OwedBytes[f] = 0 BY <1>6, <2>1, Owes
  <2>3. hs' = hs /\ req' = req BY <1>6 DEF CloseExchange
  <2> QED BY <1>2, <1>4, <2>2, <2>3
<1> QED BY <1>5, <1>6

\* What close_exchange leaves.
LEMMA ClosedIs ==
    ASSUME NEW s \in Slot
    PROVE  /\ Closed(s).sock = s.sock /\ Closed(s).tls = s.tls
           /\ Closed(s).phase # "RECEIVING"
           /\ s.phase = "RECEIVING" =>
                 Closed(s).exchanges = s.exchanges + 1 /\ Closed(s).bytes = 0
           /\ s.phase # "RECEIVING" => Closed(s) = s
<1>1. CASE s.phase = "RECEIVING"
  <2>1. Closed(s) = [sock |-> s.sock, phase |-> "IDLE", tls |-> s.tls, exchanges |-> s.exchanges + 1,
                     t_last |-> s.t_last, bytes |-> 0]
    BY <1>1 DEF Closed, Slot
  <2> QED BY <1>1, <2>1
<1>2. CASE s.phase # "RECEIVING" BY <1>2 DEF Closed
<1> QED BY <1>1, <1>2

\* The program is running when a thread is inside a call.
LEMMA InACall ==
    ASSUME IInv, Booking, NEW i \in Threads, pc[i] # "idle"
    PROVE  /\ exit = "no" /\ fd[i] \in Fds /\ owner[fd[i]] = i /\ At(fd[i]) = pc[i]
           /\ Agree(fd[i]) /\ slots[fd[i]] \in Slot /\ Typed /\ Holding
           /\ slots[fd[i]].phase # "RECEIVING" => slots[fd[i]].bytes = 0
           /\ slots[fd[i]].phase = "RECEIVING" => slots[fd[i]].sock
<1>1. exit = "no" BY DEF Booking, Ending
<1>2. fd[i] \in Fds /\ owner[fd[i]] = i /\ i # None
  BY NetPhaseAssumption DEF IInv, Typed, ProgramOK, Holding
<1>3. At(fd[i]) = pc[i] BY <1>2 DEF At
<1>4. slots[fd[i]] \in Slot BY <1>2 DEF IInv, Typed, ShimOK
<1> QED BY <1>1, <1>2, <1>3, <1>4 DEF Booking, Ending, IInv

LEMMA OnSendBooks == ASSUME IInv, IInv', Booking, NEW i \in Threads, OnSend(i) PROVE Booking'
<1> DEFINE s == slots[fd[i]]
           c == Closed(s)
           n == [c EXCEPT !.phase = "SENT"]
<1>1. /\ pc[i] = "onsend" /\ Goto(i, "send") /\ CloseExchange(s)
      /\ slots' = [slots EXCEPT ![fd[i]] = n]
      /\ UNCHANGED <<conns, exit, fd, owner, wire, answered, clock>>
  BY DEF OnSend, world
<1>2. PICK f \in Fds : f = fd[i] BY <1>1, InACall
<1>3. /\ exit = "no" /\ owner[f] = i /\ Agree(f) /\ s \in Slot /\ Typed /\ Holding
      /\ s.phase # "RECEIVING" => s.bytes = 0
  BY <1>1, <1>2, InACall
<1>4. /\ At(f) = "onsend" /\ At(f)' = "send" /\ i # None
      /\ \A g \in Fds \ {f} : At(g)' = At(g)
  BY <1>1, <1>2, <1>3, GotoAt DEF PcOf
<1>5. slots'[f] = n /\ \A g \in Fds \ {f} : slots'[g] = slots[g]
  BY <1>1, <1>2 DEF IInv, Typed, ShimOK
<1>6. Only(f) BY <1>1, <1>4, <1>5 DEF Only
<1>7. c \in Slot BY <1>3, ClosedSlot
<1>8. /\ n.phase = "SENT" /\ n.sock = c.sock /\ n.tls = c.tls /\ n.exchanges = c.exchanges
      /\ n.bytes = c.bytes
  <2> HIDE DEF c
  <2> QED BY <1>7 DEF Slot
<1>9. /\ c.sock = s.sock /\ c.tls = s.tls
      /\ s.phase = "RECEIVING" => c.exchanges = s.exchanges + 1 /\ c.bytes = 0
      /\ s.phase # "RECEIVING" => c = s
  BY <1>3, ClosedIs
<1> DEFINE w == wire[f]
<1>10. wire'[f] = w /\ s = slots[f] /\ owner[f] # None /\ owner' = owner BY <1>1, <1>2, <1>3, <1>4
<1> HIDE DEF n, c, s, w
<1>11. /\ ~InFlight(f) /\ ~InFlight(f)' /\ ~Pending(f)' /\ n.bytes = 0
       /\ Pending(f) <=> s.phase = "RECEIVING"
  BY <1>3, <1>4, <1>5, <1>8, <1>9, <1>10 DEF InFlight, Pending
<1>12. w.open /\ s.sock /\ s.tls = w.tls
       /\ w.n = s.exchanges + IF Pending(f) THEN 1 ELSE 0
  BY <1>3, <1>4, <1>10 DEF Agree, w
<1>13. n.sock /\ n.tls = w.tls /\ w.n = n.exchanges + 0
  <2>1. s.exchanges \in Nat BY <1>3 DEF Slot
  <2> QED BY <1>8, <1>9, <1>11, <1>12, <2>1
<1>14. Agree(f)' BY <1>4, <1>5, <1>8, <1>10, <1>11, <1>13 DEF Agree
<1> QED BY <1>1, <1>3, <1>5, <1>6, <1>8, <1>10, <1>11, <1>14, Closing, OnOne

LEMMA OnCloseBooks == ASSUME IInv, IInv', Booking, NEW i \in Threads, OnClose(i) PROVE Booking'
<1> DEFINE s == slots[fd[i]]
           c == Closed(s)
           n == IF s.sock THEN [c EXCEPT !.sock = FALSE] ELSE s
<1>1. /\ pc[i] = "onclose" /\ Goto(i, "close")
      /\ UNCHANGED <<conns, exit, fd, owner, wire, answered, clock>>
  BY DEF OnClose, world
<1>2. PICK f \in Fds : f = fd[i] BY <1>1, InACall
<1>3. /\ exit = "no" /\ owner[f] = i /\ Agree(f) /\ s \in Slot /\ Typed /\ Holding
      /\ s.phase # "RECEIVING" => s.bytes = 0
      /\ s.phase = "RECEIVING" => s.sock
  BY <1>1, <1>2, InACall
<1>4. /\ At(f) = "onclose" /\ At(f)' = "close"
      /\ \A g \in Fds \ {f} : At(g)' = At(g)
  BY <1>1, <1>2, <1>3, GotoAt DEF PcOf
<1>5. /\ slots' = [slots EXCEPT ![fd[i]] = n] /\ CloseExchange(s)
  <2>1. CASE s.sock BY <2>1 DEF OnClose
  <2>2. CASE ~s.sock
    <3>1. s.phase # "RECEIVING" BY <1>3, <2>2
    <3>2. UNCHANGED <<slots, req, hs>> BY <2>2 DEF OnClose
    <3>3. CloseExchange(s) BY <3>1, <3>2 DEF CloseExchange
    <3> QED BY <2>2, <3>2, <3>3 DEF IInv, Typed, ShimOK
  <2> QED BY <2>1, <2>2
<1>6. slots'[f] = n /\ \A g \in Fds \ {f} : slots'[g] = slots[g]
  BY <1>2, <1>5 DEF IInv, Typed, ShimOK
<1>7. Only(f) BY <1>1, <1>4, <1>6 DEF Only
<1>8. /\ s.phase = "RECEIVING" => c.bytes = 0
      /\ s.phase # "RECEIVING" => c = s
      /\ c.phase # "RECEIVING" /\ c \in Slot
  BY <1>3, ClosedIs, ClosedSlot
<1>9. /\ n.phase # "RECEIVING" /\ n.bytes = 0 /\ ~n.sock
  <2>1. CASE s.sock
    <3>1. n = [c EXCEPT !.sock = FALSE] BY <2>1
    <3> HIDE DEF n, c, s
    <3> QED BY <1>3, <1>8, <3>1 DEF Slot
  <2>2. CASE ~s.sock BY <1>3, <2>2
  <2> QED BY <2>1, <2>2
<1>10. s = slots[f] BY <1>2
<1> HIDE DEF n, c, s
<1>11. ~InFlight(f) /\ ~InFlight(f)' /\ ~Pending(f)'
  BY <1>4, <1>6, <1>9 DEF InFlight, Pending
<1>12. Agree(f)' BY <1>4, <1>6, <1>9 DEF Agree
<1> QED BY <1>1, <1>3, <1>5, <1>6, <1>7, <1>9, <1>10, <1>11, <1>12, Closing, OnOne

\* A step that books nothing and leaves what is owed.
LEMMA NothingOwed ==
    ASSUME Typed, NEW f \in Fds, UNCHANGED <<req, hs, answered>>,
           Pending(f)' = Pending(f), InFlight(f)' = InFlight(f),
           Pending(f) => IsHandshake(slots'[f]) = IsHandshake(slots[f]),
           slots'[f].bytes = slots[f].bytes
    PROVE  /\ answered'.hs + hs.n + OwedHs[f] = answered.hs + hs'.n + OwedHs'[f]
           /\ answered'.req + req.n + OwedReq[f] = answered.req + req'.n + OwedReq'[f]
           /\ answered'.bytes + hs.bytes + req.bytes + OwedBytes[f] =
                 answered.bytes + hs'.bytes + req'.bytes + OwedBytes'[f]
<1>1. OwedHs'[f] = OwedHs[f] /\ OwedReq'[f] = OwedReq[f] /\ OwedBytes'[f] = OwedBytes[f]
  BY Owes
<1> QED BY <1>1

LEMMA SocketBooks == ASSUME IInv, IInv', Booking, NEW i \in Threads, Socket(i) PROVE Booking'
<1>1. /\ pc[i] = "idle" /\ exit = "no" /\ exit' = "no"
      /\ UNCHANGED <<slots, req, hs, pc, fd, answered>>
  BY DEF Socket, shim, program
<1>2. PICK f \in Fds : /\ owner[f] = None /\ owner' = [owner EXCEPT ![f] = i]
                       /\ wire' = [wire EXCEPT ![f] = Fresh]
  BY DEF Socket
<1>3. /\ owner \in [Fds -> Threads \cup {None}] /\ slots[f] \in Slot /\ ~slots[f].sock /\ Typed
      /\ slots[f].phase = "RECEIVING" => slots[f].sock
      /\ slots[f].phase # "RECEIVING" => slots[f].bytes = 0
  BY <1>2 DEF IInv, Typed, WorldOK, ShimOK, Holding, Booking, Ending
<1>4. owner'[f] = i /\ wire'[f].open = FALSE
      /\ \A g \in Fds \ {f} : owner'[g] = owner[g] /\ wire'[g] = wire[g]
  BY <1>2 DEF IInv, Typed, WorldOK, Fresh
<1>5. At(f) = "idle" /\ At(f)' = "idle" BY <1>1, <1>2, <1>4 DEF At
<1>6. \A g \in Fds \ {f} : At(g)' = At(g) BY <1>1, <1>4 DEF At
<1>7. Only(f) BY <1>1, <1>4, <1>6 DEF Only
<1>8. /\ InFlight(f)' = InFlight(f) /\ Pending(f)' = Pending(f) /\ slots'[f] = slots[f]
  BY <1>1, <1>5 DEF InFlight, Pending
<1>9. Agree(f)' BY <1>3, <1>4, <1>5, <1>8 DEF Agree
<1> QED BY <1>1, <1>3, <1>7, <1>8, <1>9, NothingOwed, OnOne

\* The slot that connect wipes owes nothing: its connection is over, or never was.
LEMMA ConnectBooks == ASSUME IInv, IInv', Booking, NEW i \in Threads, Connect(i) PROVE Booking'
<1>1. /\ pc[i] = "idle" /\ exit = "no" /\ exit' = "no"
      /\ UNCHANGED <<req, hs, pc, fd, owner, answered>>
  BY DEF Connect, program
<1>2. PICK f \in Fds, tls \in BOOLEAN, ok \in BOOLEAN :
          /\ owner[f] = i /\ ~wire[f].open
          /\ wire' = [wire EXCEPT ![f] = [Fresh EXCEPT !.open = ok, !.tls = tls]]
          /\ slots' = [slots EXCEPT ![f] = [Zero EXCEPT !.sock = TRUE, !.tls = tls]]
  BY DEF Connect
<1>3. /\ Typed /\ slots[f] \in Slot /\ Agree(f)
      /\ slots[f].phase = "RECEIVING" => slots[f].sock
      /\ slots[f].phase # "RECEIVING" => slots[f].bytes = 0
  BY <1>1 DEF IInv, Typed, ShimOK, Booking, Ending
<1>4. /\ wire'[f] = [open |-> ok, tls |-> tls, last |-> None, n |-> 0]
      /\ slots'[f] = [sock |-> TRUE, phase |-> "IDLE", tls |-> tls, exchanges |-> 0,
                      t_last |-> 0, bytes |-> 0]
      /\ \A g \in Fds \ {f} : wire'[g] = wire[g] /\ slots'[g] = slots[g]
  BY <1>2 DEF IInv, Typed, WorldOK, ShimOK, Fresh, Zero
<1>5. At(f) = "idle" /\ \A g \in Fds : At(g)' = At(g) BY <1>1, <1>2 DEF At
<1>6. Only(f) BY <1>1, <1>4, <1>5 DEF Only
<1>7. slots[f].phase # "RECEIVING" BY <1>2, <1>3 DEF Agree
<1>8. ~Pending(f) /\ ~InFlight(f) /\ ~Pending(f)' /\ ~InFlight(f)'
  BY <1>4, <1>5, <1>7 DEF Pending, InFlight
<1>9. Agree(f)'
  <2> DEFINE s == slots'[f]
             w == wire'[f]
  <2>1. /\ s.sock /\ s.tls = tls /\ s.phase = "IDLE" /\ s.exchanges = 0
        /\ w.open = ok /\ w.tls = tls /\ w.last = None /\ w.n = 0 /\ None # "sent"
    BY <1>4 DEF None
  <2>2. At(f)' = "idle" BY <1>5
  <2>3. w.n = s.exchanges + 0 BY <2>1
  <2> HIDE DEF s, w
  <2> QED BY <1>8, <2>1, <2>2, <2>3 DEF Agree, s, w
<1>10. slots'[f].phase = "IDLE" /\ slots'[f].bytes = 0 BY <1>4
<1>11. slots'[f].bytes = slots[f].bytes BY <1>3, <1>7, <1>10
<1>12. Pending(f)' = Pending(f) /\ InFlight(f)' = InFlight(f) BY <1>8 DEF Pending, InFlight
<1> QED BY <1>1, <1>3, <1>6, <1>8, <1>9, <1>10, <1>11, <1>12, NothingOwed, OnOne

\* The calls that begin without a word on the wire: a send's stamp and a close.
LEMMA EnterBooks ==
    ASSUME IInv, IInv', Booking, NEW i \in Threads, NEW f \in Fds,
           NEW l \in PcOf, l = "onsend" \/ l = "send" \/ l = "onclose", Enter(i, f, l),
           l = "onsend" => wire[f].open, l # "send" \/ ~(wire[f].open /\ slots[f].sock),
           UNCHANGED <<slots, req, hs, exit, owner, wire, answered>>
    PROVE  Booking'
<1>0. /\ slots' = slots /\ req' = req /\ hs' = hs /\ exit' = exit /\ owner' = owner
      /\ wire' = wire /\ answered' = answered
  OBVIOUS
<1>1. /\ exit = "no" /\ exit' = "no" /\ Typed /\ Agree(f) /\ slots'[f] = slots[f]
      /\ slots[f].phase = "RECEIVING" => slots[f].sock
      /\ slots[f].phase # "RECEIVING" => slots[f].bytes = 0
  BY <1>0 DEF Enter, IInv, Booking, Ending
<1>2. /\ At(f) = "idle" /\ At(f)' = l /\ owner[f] = i /\ i # None
      /\ \A g \in Fds \ {f} : At(g)' = At(g)
  BY <1>0, <1>1, EnterAt
<1>3. Only(f) BY <1>0, <1>2 DEF Only
<1>4. InFlight(f)' = InFlight(f) /\ Pending(f)' = Pending(f)
  BY <1>0, <1>2 DEF InFlight, Pending
<1>5. Agree(f)'
  <2>1. /\ wire'[f] = wire[f] /\ owner'[f] = owner[f] /\ slots'[f] = slots[f]
        /\ At(f) = "idle" /\ owner[f] # None
    BY <1>0, <1>1, <1>2
  <2>2. At(f)' = "onsend" \/ At(f)' = "send" \/ At(f)' = "onclose" BY <1>2
  <2>3. At(f)' = "onsend" => wire[f].open BY <1>2
  <2>4. At(f)' = "send" => ~(wire[f].open /\ slots[f].sock) BY <1>2
  <2> QED BY <1>1, <1>4, <2>1, <2>2, <2>3, <2>4 DEF Agree
<1>6. /\ answered'.hs + hs.n + OwedHs[f] = answered.hs + hs'.n + OwedHs'[f]
      /\ answered'.req + req.n + OwedReq[f] = answered.req + req'.n + OwedReq'[f]
      /\ answered'.bytes + hs.bytes + req.bytes + OwedBytes[f] =
            answered.bytes + hs'.bytes + req'.bytes + OwedBytes'[f]
  BY <1>0, <1>1, <1>4, NothingOwed
<1> QED BY <1>0, <1>1, <1>3, <1>5, <1>6, OnOne

LEMMA StampBooks == ASSUME IInv, IInv', Booking, NEW i \in Threads, Stamp(i) PROVE Booking'
<1>1. PICK f \in Fds : /\ wire[f].open
                       /\ Enter(i, f, IF slots[f].sock THEN "onsend" ELSE "send")
  BY DEF Stamp
<1>2. UNCHANGED <<slots, req, hs, exit, owner, wire, answered>> BY DEF Stamp, shim
<1>3. CASE slots[f].sock
  <2>1. Enter(i, f, "onsend") /\ "onsend" \in PcOf BY <1>1, <1>3 DEF PcOf
  <2> QED BY <1>1, <1>2, <2>1, EnterBooks
<1>4. CASE ~slots[f].sock
  <2>1. Enter(i, f, "send") /\ "send" \in PcOf BY <1>1, <1>4 DEF PcOf
  <2> QED BY <1>2, <1>4, <2>1, EnterBooks
<1> QED BY <1>3, <1>4

LEMMA ShutBooks == ASSUME IInv, IInv', Booking, NEW i \in Threads, Shut(i) PROVE Booking'
<1>1. PICK f \in Fds : Enter(i, f, "onclose") BY DEF Shut
<1>3. "onclose" \in PcOf BY DEF PcOf
<1>2. UNCHANGED <<slots, req, hs, exit, owner, wire, answered>> BY DEF Shut, shim, world
<1> QED BY <1>1, <1>2, <1>3, EnterBooks

LEMMA SendBooks == ASSUME IInv, IInv', Booking, NEW i \in Threads, Send(i) PROVE Booking'
<1>1. /\ pc[i] = "send" /\ Goto(i, "idle")
      /\ UNCHANGED <<slots, req, hs, exit, fd, owner, answered>>
  BY DEF Send, shim
<1>2. PICK f \in Fds : f = fd[i] BY <1>1, InACall
<1>3. /\ exit = "no" /\ exit' = "no" /\ owner[f] = i /\ Agree(f) /\ Typed /\ Holding
      /\ slots[f].phase # "RECEIVING" => slots[f].bytes = 0
      /\ slots[f].phase = "RECEIVING" => slots[f].sock
      /\ slots'[f] = slots[f]
  BY <1>1, <1>2, InACall
<1>4. /\ At(f) = "send" /\ At(f)' = "idle" /\ i # None
      /\ \A g \in Fds \ {f} : At(g)' = At(g)
  BY <1>1, <1>2, <1>3, GotoAt DEF PcOf
<1>5. /\ \/ wire'[f] = [wire[f] EXCEPT !.last = "sent"]
         \/ wire'[f] = [wire[f] EXCEPT !.open = FALSE]
      /\ \A g \in Fds \ {f} : wire'[g] = wire[g]
  BY <1>2 DEF Send, IInv, Typed, WorldOK
<1>6. Only(f) BY <1>1, <1>4, <1>5 DEF Only
<1>7. InFlight(f)' = InFlight(f) /\ Pending(f)' = Pending(f)
  BY <1>1, <1>4 DEF InFlight, Pending
<1>8. Agree(f)'
  <2> DEFINE w == wire[f]
             v == wire'[f]
  <2>1. w \in [open : BOOLEAN, tls : BOOLEAN, last : {None, "sent", "received"}, n : Nat]
    BY DEF IInv, Typed, WorldOK
  <2>2. \/ v.open = w.open /\ v.tls = w.tls /\ v.n = w.n /\ v.last = "sent"
        \/ v.open = FALSE
    BY <1>5, <2>1
  <2>3. /\ w.open => slots[f].sock
        /\ slots[f].sock /\ w.open =>
              slots[f].phase = "SENT" /\ slots[f].tls = w.tls
              /\ w.n = slots[f].exchanges + IF Pending(f) THEN 1 ELSE 0
        /\ slots[f].sock => w.open \/ slots[f].phase # "RECEIVING"
    BY <1>3, <1>4 DEF Agree
  <2>4. None # "sent" BY DEF None
  <2> HIDE DEF w, v
  <2> QED BY <1>3, <1>4, <1>7, <2>2, <2>3, <2>4 DEF Agree, v
<1> QED BY <1>1, <1>3, <1>6, <1>7, <1>8, NothingOwed, OnOne

\* The first answer to a send is owed from here on, and every receive in answer is owed its byte.
LEMMA RecvBooks == ASSUME IInv, IInv', Booking, NEW i \in Threads, Recv(i) PROVE Booking'
<1>1. PICK f \in Fds :
          /\ wire[f].open /\ Enter(i, f, "onrecv")
          /\ LET w == wire[f]
                 first == w.last = "sent"
                 handshake == w.tls /\ w.n = 0
             IN
             /\ wire' = [wire EXCEPT ![f] = [w EXCEPT !.last = IF w.last = None THEN None ELSE "received",
                                                      !.n = IF first THEN w.n + 1 ELSE w.n]]
             /\ answered' = [hs    |-> answered.hs + IF first /\ handshake THEN 1 ELSE 0,
                             req   |-> answered.req + IF first /\ ~handshake THEN 1 ELSE 0,
                             bytes |-> answered.bytes + IF w.last = None THEN 0 ELSE 1]
  BY DEF Recv
<1> DEFINE w == wire[f]
           v == wire'[f]
           s == slots[f]
<1>2. slots' = slots /\ req' = req /\ hs' = hs /\ exit' = exit /\ owner' = owner
  BY DEF Recv, shim
<1>3. /\ exit = "no" /\ exit' = "no" /\ Typed /\ Agree(f) /\ slots'[f] = s /\ s \in Slot
      /\ s.phase = "RECEIVING" => s.sock
      /\ s.phase # "RECEIVING" => s.bytes = 0
      /\ s.exchanges \in Nat /\ s.bytes \in Nat
      /\ s.phase = "IDLE" \/ s.phase = "SENT" \/ s.phase = "RECEIVING"
  BY <1>1, <1>2 DEF Enter, IInv, Typed, ShimOK, Booking, Ending, Slot
<1>4. /\ At(f) = "idle" /\ At(f)' = "onrecv" /\ owner[f] = i /\ i # None
      /\ \A g \in Fds \ {f} : At(g)' = At(g)
  <2>1. "onrecv" \in PcOf BY DEF PcOf
  <2>2. UNCHANGED owner /\ Enter(i, f, "onrecv") /\ Typed BY <1>1, <1>2, <1>3
  <2> QED BY <2>1, <2>2, EnterAt
<1>5. /\ w.n \in Nat /\ w.tls \in BOOLEAN
      /\ w.last = None \/ w.last = "sent" \/ w.last = "received"
      /\ v.open = w.open /\ v.tls = w.tls
      /\ v.last = (IF w.last = None THEN None ELSE "received")
      /\ v.n = (IF w.last = "sent" THEN w.n + 1 ELSE w.n)
      /\ \A g \in Fds \ {f} : wire'[g] = wire[g]
  <2> DEFINE Wire == [open : BOOLEAN, tls : BOOLEAN, last : {None, "sent", "received"}, n : Nat]
             l == IF w.last = None THEN None ELSE "received"
             n == IF w.last = "sent" THEN w.n + 1 ELSE w.n
  <2>1. w \in Wire /\ wire \in [Fds -> Wire] BY <1>3 DEF Typed, WorldOK
  <2>2. wire' = [wire EXCEPT ![f] = [w EXCEPT !.last = l, !.n = n]] BY <1>1
  <2> HIDE DEF l, n
  <2>3. v = [w EXCEPT !.last = l, !.n = n] /\ \A g \in Fds \ {f} : wire'[g] = wire[g]
    BY <2>1, <2>2
  <2> HIDE DEF w, v
  <2>4. v.open = w.open /\ v.tls = w.tls /\ v.last = l /\ v.n = n BY <2>1, <2>3
  <2>5. /\ w.n \in Nat /\ w.tls \in BOOLEAN
        /\ w.last = None \/ w.last = "sent" \/ w.last = "received"
    BY <2>1
  <2> QED BY <2>3, <2>4, <2>5 DEF l, n
<1>6. /\ answered'.hs = answered.hs + IF w.last = "sent" /\ w.tls /\ w.n = 0 THEN 1 ELSE 0
      /\ answered'.req = answered.req + IF w.last = "sent" /\ ~(w.tls /\ w.n = 0) THEN 1 ELSE 0
      /\ answered'.bytes = answered.bytes + IF w.last = None THEN 0 ELSE 1
  BY <1>1
<1>7. Only(f) BY <1>2, <1>4, <1>5 DEF Only
<1>8. /\ s.sock /\ s.tls = w.tls /\ w.open
      /\ w.n = s.exchanges + IF Pending(f) THEN 1 ELSE 0
      /\ w.last = None <=> s.phase = "IDLE"
      /\ w.last = "sent" <=> s.phase = "SENT"
  BY <1>1, <1>3, <1>4 DEF Agree
<1>9. /\ ~InFlight(f)
      /\ Pending(f) <=> s.phase = "RECEIVING"
      /\ InFlight(f)' <=> s.phase # "IDLE"
      /\ Pending(f)' <=> s.phase # "IDLE"
  BY <1>3, <1>4, <1>8 DEF InFlight, Pending
<1>10. /\ hs.n \in Nat /\ hs.bytes \in Nat /\ req.n \in Nat /\ req.bytes \in Nat
       /\ answered.hs \in Nat /\ answered.req \in Nat /\ answered.bytes \in Nat
  BY <1>3 DEF Typed, ShimOK, WorldOK, Aggregate
<1>11. /\ OwedHs[f] = IF Pending(f) /\ IsHandshake(s) THEN 1 ELSE 0
       /\ OwedReq[f] = IF Pending(f) /\ ~IsHandshake(s) THEN 1 ELSE 0
       /\ OwedBytes[f] = s.bytes + IF InFlight(f) THEN 1 ELSE 0
       /\ OwedHs'[f] = IF Pending(f)' /\ IsHandshake(s) THEN 1 ELSE 0
       /\ OwedReq'[f] = IF Pending(f)' /\ ~IsHandshake(s) THEN 1 ELSE 0
       /\ OwedBytes'[f] = s.bytes + IF InFlight(f)' THEN 1 ELSE 0
  BY <1>3, Owes
<1>12. None # "sent" /\ None # "received" BY DEF None
<1> HIDE DEF w, v, s
<1>13. /\ answered'.hs + hs.n + OwedHs[f] = answered.hs + hs'.n + OwedHs'[f]
       /\ answered'.req + req.n + OwedReq[f] = answered.req + req'.n + OwedReq'[f]
       /\ answered'.bytes + hs.bytes + req.bytes + OwedBytes[f] =
             answered.bytes + hs'.bytes + req'.bytes + OwedBytes'[f]
  <2>1. CASE s.phase = "IDLE"
    <3>1. /\ OwedHs[f] = 0 /\ OwedReq[f] = 0 /\ OwedBytes[f] = s.bytes + 0
          /\ OwedHs'[f] = 0 /\ OwedReq'[f] = 0 /\ OwedBytes'[f] = s.bytes + 0
      BY <1>9, <1>11, <2>1
    <3>2. /\ answered'.hs = answered.hs + 0 /\ answered'.req = answered.req + 0
          /\ answered'.bytes = answered.bytes + 0
      BY <1>6, <1>8, <1>12, <2>1
    <3> QED BY <1>2, <1>3, <1>10, <3>1, <3>2
  <2>2. CASE s.phase = "SENT"
    <3>1. w.n = s.exchanges + 0 /\ w.n = s.exchanges BY <1>3, <1>8, <1>9, <2>2
    <3>2. IsHandshake(s) <=> w.tls /\ w.n = 0 BY <1>8, <3>1 DEF IsHandshake
    <3>3. /\ OwedHs[f] = 0 /\ OwedReq[f] = 0 /\ OwedBytes[f] = s.bytes + 0
          /\ OwedHs'[f] = (IF IsHandshake(s) THEN 1 ELSE 0)
          /\ OwedReq'[f] = (IF IsHandshake(s) THEN 0 ELSE 1) /\ OwedBytes'[f] = s.bytes + 1
      BY <1>9, <1>11, <2>2
    <3>4. /\ answered'.hs = answered.hs + (IF IsHandshake(s) THEN 1 ELSE 0)
          /\ answered'.req = answered.req + (IF IsHandshake(s) THEN 0 ELSE 1)
          /\ answered'.bytes = answered.bytes + 1
      BY <1>6, <1>8, <1>12, <2>2, <3>2
    <3> QED BY <1>2, <1>3, <1>10, <3>3, <3>4
  <2>3. CASE s.phase = "RECEIVING"
    <3>1. /\ OwedHs'[f] = OwedHs[f] /\ OwedReq'[f] = OwedReq[f]
          /\ OwedBytes[f] = s.bytes + 0 /\ OwedBytes'[f] = s.bytes + 1
      BY <1>9, <1>11, <2>3
    <3>2. /\ answered'.hs = answered.hs + 0 /\ answered'.req = answered.req + 0
          /\ answered'.bytes = answered.bytes + 1
      BY <1>6, <1>8, <2>3
    <3>3. OwedHs[f] \in Nat /\ OwedReq[f] \in Nat BY <1>11
    <3> QED BY <1>2, <1>3, <1>10, <3>1, <3>2, <3>3
  <2> QED BY <1>3, <2>1, <2>2, <2>3
<1>14. Agree(f)'
  <2>1. slots'[f] = s /\ wire'[f] = v /\ owner'[f] = i BY <1>2, <1>3, <1>4 DEF v
  <2>2. v.last # "sent" /\ (v.last = None <=> s.phase = "IDLE") BY <1>5, <1>8, <1>12
  <2>3. v.n = s.exchanges + IF Pending(f)' THEN 1 ELSE 0
    <3>1. CASE s.phase = "IDLE" BY <1>3, <1>5, <1>8, <1>9, <1>12, <3>1
    <3>2. CASE s.phase = "SENT"
      <4>1. w.n = s.exchanges + 0 /\ v.n = w.n + 1 BY <1>5, <1>8, <1>9, <3>2
      <4> QED BY <1>3, <1>9, <3>2, <4>1
    <3>3. CASE s.phase = "RECEIVING" BY <1>3, <1>5, <1>8, <1>9, <3>3
    <3> QED BY <1>3, <3>1, <3>2, <3>3
  <2> QED BY <1>4, <1>5, <1>8, <2>1, <2>2, <2>3 DEF Agree
<1>15. /\ slots'[f].phase = "RECEIVING" => slots'[f].sock
       /\ slots'[f].phase # "RECEIVING" => slots'[f].bytes = 0
  BY <1>3
<1> QED BY <1>3, <1>7, <1>13, <1>14, <1>15, OnOne

\* A receive before any send belongs to no exchange.
LEMMA OnRecvBooks == ASSUME IInv, IInv', Booking, NEW i \in Threads, OnRecv(i) PROVE Booking'
<1>1. /\ pc[i] = "onrecv"
      /\ slots' = slots /\ req' = req /\ hs' = hs /\ exit' = exit /\ fd' = fd /\ owner' = owner
      /\ wire' = wire /\ answered' = answered
  BY DEF OnRecv, shim
<1>2. PICK f \in Fds : f = fd[i] BY <1>1, InACall
<1> DEFINE s == slots[f]
           w == wire[f]
<1>3. /\ exit = "no" /\ exit' = "no" /\ owner[f] = i /\ Agree(f) /\ Typed /\ Holding
      /\ s.phase # "RECEIVING" => s.bytes = 0
      /\ s.phase = "RECEIVING" => s.sock
      /\ slots'[f] = s /\ wire'[f] = w /\ At(f) = "onrecv" /\ i # None
  BY <1>1, <1>2, InACall, NetPhaseAssumption
<1>4. PICK l \in PcOf :
         /\ Goto(i, l)
         /\ \/ l = "idle" /\ (~s.sock \/ s.phase = "IDLE")
            \/ l = "record" /\ s.sock /\ s.phase # "IDLE"
  BY <1>2 DEF OnRecv, PcOf
<1>5. /\ At(f)' = l /\ \A g \in Fds \ {f} : At(g)' = At(g)
  BY <1>1, <1>2, <1>3, <1>4, GotoAt
<1>6. Only(f) BY <1>1, <1>5 DEF Only
<1>7. /\ w.open /\ s.sock /\ s.tls = w.tls /\ w.last # "sent"
      /\ w.n = s.exchanges + IF Pending(f) THEN 1 ELSE 0
      /\ w.last = None <=> s.phase = "IDLE"
      /\ w.last = None \/ w.last = "sent" \/ w.last = "received"
      /\ owner[f] # None
  <2>1. w.last = None \/ w.last = "sent" \/ w.last = "received" BY <1>3 DEF Typed, WorldOK
  <2> QED BY <1>3, <2>1 DEF Agree
<1>8. InFlight(f)' = InFlight(f) /\ Pending(f)' = Pending(f)
  BY <1>1, <1>3, <1>4, <1>5, <1>7 DEF InFlight, Pending
<1>9. None # "sent" BY DEF None
<1>10. Agree(f)'
  <2>1. owner'[f] = owner[f] BY <1>1
  <2> HIDE DEF s, w
  <2>2. /\ l = "idle" => s.phase = "IDLE"
        /\ l = "record" => w.last = "received"
    BY <1>4, <1>7
  <2> QED BY <1>3, <1>4, <1>5, <1>7, <1>8, <1>9, <2>1, <2>2 DEF Agree
<1> QED BY <1>1, <1>3, <1>6, <1>8, <1>10, NothingOwed, OnOne

LEMMA RecordBooks == ASSUME IInv, IInv', Booking, NEW i \in Threads, Record(i) PROVE Booking'
<1> DEFINE n == Received(slots[fd[i]], t[i])
<1>1. /\ pc[i] = "record" /\ Goto(i, "idle") /\ slots' = [slots EXCEPT ![fd[i]] = n]
      /\ req' = req /\ hs' = hs /\ exit' = exit /\ fd' = fd /\ owner' = owner
      /\ wire' = wire /\ answered' = answered
  BY DEF Record, world
<1>2. PICK f \in Fds : f = fd[i] BY <1>1, InACall
<1> DEFINE s == slots[f]
           w == wire[f]
<1>3. /\ exit = "no" /\ exit' = "no" /\ owner[f] = i /\ Agree(f) /\ Typed /\ Holding
      /\ s \in Slot /\ s.exchanges \in Nat /\ s.bytes \in Nat
      /\ wire'[f] = w /\ At(f) = "record" /\ i # None
  BY <1>1, <1>2, InACall, NetPhaseAssumption DEF Slot
<1>4. /\ At(f)' = "idle" /\ \A g \in Fds \ {f} : At(g)' = At(g)
  BY <1>1, <1>2, <1>3, GotoAt DEF PcOf
<1>5. slots'[f] = n /\ \A g \in Fds \ {f} : slots'[g] = slots[g]
  BY <1>1, <1>2 DEF IInv, Typed, ShimOK
<1>6. /\ n.phase = "RECEIVING" /\ n.sock = s.sock /\ n.tls = s.tls /\ n.exchanges = s.exchanges
      /\ n.bytes = s.bytes + 1
  <2> DEFINE a == [s EXCEPT !.phase = "RECEIVING"]
             b == [a EXCEPT !.t_last = t[i]]
  <2>1. n = [b EXCEPT !.bytes = b.bytes + 1] BY <1>2 DEF Received
  <2> HIDE DEF n, s
  <2>2. /\ a.phase = "RECEIVING" /\ a.sock = s.sock /\ a.tls = s.tls
        /\ a.exchanges = s.exchanges /\ a.bytes = s.bytes /\ a \in Slot
    BY <1>3 DEF Slot
  <2> HIDE DEF a
  <2>3. t[i] \in Nat BY <1>3 DEF Typed, ProgramOK
  <2>4. /\ b.phase = "RECEIVING" /\ b.sock = s.sock /\ b.tls = s.tls
        /\ b.exchanges = s.exchanges /\ b.bytes = s.bytes /\ b \in Slot
    BY <2>2, <2>3 DEF Slot
  <2> HIDE DEF b
  <2> QED BY <2>1, <2>4 DEF Slot
<1>7. Only(f) BY <1>1, <1>4, <1>5 DEF Only
<1>8. /\ w.open /\ s.sock /\ s.tls = w.tls /\ w.last = "received"
      /\ w.n = s.exchanges + IF Pending(f) THEN 1 ELSE 0
      /\ owner[f] # None
  BY <1>3 DEF Agree
<1> HIDE DEF n
<1>9. InFlight(f) /\ Pending(f) /\ ~InFlight(f)' /\ Pending(f)'
  BY <1>3, <1>4, <1>5, <1>6 DEF InFlight, Pending
<1>10. IsHandshake(n) <=> IsHandshake(s) BY <1>6 DEF IsHandshake
<1>11. /\ OwedHs'[f] = OwedHs[f] /\ OwedReq'[f] = OwedReq[f]
  BY <1>5, <1>9, <1>10, Owes
<1>12. OwedBytes'[f] = (s.bytes + 1) + 0 /\ OwedBytes[f] = s.bytes + 1
  BY <1>5, <1>6, <1>9, Owes
<1>13. OwedBytes'[f] = OwedBytes[f] BY <1>3, <1>12
<1>14. /\ answered'.hs + hs.n + OwedHs[f] = answered.hs + hs'.n + OwedHs'[f]
       /\ answered'.req + req.n + OwedReq[f] = answered.req + req'.n + OwedReq'[f]
       /\ answered'.bytes + hs.bytes + req.bytes + OwedBytes[f] =
             answered.bytes + hs'.bytes + req'.bytes + OwedBytes'[f]
  BY <1>1, <1>11, <1>13
<1>15. None # "received" /\ "sent" # "received" BY DEF None
<1>16. Agree(f)'
  <2>1. owner'[f] = owner[f] /\ slots'[f] = n /\ wire'[f] = w BY <1>1, <1>3, <1>5
  <2>2. w.n = n.exchanges + IF Pending(f)' THEN 1 ELSE 0 BY <1>6, <1>8, <1>9
  <2> HIDE DEF s, w
  <2> QED BY <1>4, <1>6, <1>8, <1>15, <2>1, <2>2 DEF Agree
<1>17. /\ slots'[f].phase = "RECEIVING" => slots'[f].sock
       /\ slots'[f].phase # "RECEIVING" => slots'[f].bytes = 0
  BY <1>5, <1>6, <1>8
<1> QED BY <1>3, <1>7, <1>14, <1>16, <1>17, OnOne

LEMMA CloseBooks == ASSUME IInv, IInv', Booking, NEW i \in Threads, Close(i) PROVE Booking'
<1>1. /\ pc[i] = "close" /\ Goto(i, "idle")
      /\ owner' = [owner EXCEPT ![fd[i]] = IF @ = i THEN None ELSE @]
      /\ slots' = slots /\ req' = req /\ hs' = hs /\ exit' = exit /\ fd' = fd
      /\ wire' = wire /\ answered' = answered
  BY DEF Close, shim
<1>2. PICK f \in Fds : f = fd[i] BY <1>1, InACall
<1>3. /\ exit = "no" /\ exit' = "no" /\ owner[f] = i /\ Agree(f) /\ Typed /\ Holding
      /\ slots[f].phase # "RECEIVING" => slots[f].bytes = 0
      /\ slots[f].phase = "RECEIVING" => slots[f].sock
      /\ slots'[f] = slots[f] /\ wire'[f] = wire[f] /\ At(f) = "close"
  BY <1>1, <1>2, InACall
<1>4. ~slots[f].sock /\ slots[f].phase # "RECEIVING" BY <1>1, <1>2, <1>3 DEF Holding
<1>5. /\ owner'[f] = None /\ \A g \in Fds \ {f} : owner'[g] = owner[g]
  BY <1>1, <1>2, <1>3 DEF Typed, WorldOK
<1>6. At(f)' = "idle" BY <1>5 DEF At
<1>7. ASSUME NEW g \in Fds \ {f} PROVE At(g)' = At(g)
  <2>1. owner[g] = None \/ owner[g] \in Threads BY <1>3 DEF Typed, WorldOK
  <2>2. pc' = [pc EXCEPT ![i] = "idle"] /\ pc \in [Threads -> PcOf]
    BY <1>1, <1>3 DEF Goto, Typed, ProgramOK
  <2>3. owner[g] = i => fd[owner[g]] # g BY <1>2
  <2> QED BY <1>1, <1>5, <2>1, <2>2, <2>3 DEF At
<1>8. Only(f) BY <1>1, <1>5, <1>7 DEF Only
<1>9. /\ InFlight(f)' = InFlight(f) /\ Pending(f)' = Pending(f)
  BY <1>3, <1>4, <1>6 DEF InFlight, Pending
<1>10. Agree(f)' BY <1>3, <1>4, <1>5, <1>6 DEF Agree
<1> QED BY <1>1, <1>3, <1>8, <1>9, <1>10, NothingOwed, OnOne

\* fini books what a descriptor owes, as a close would have.
LEMMA FiniBooks == ASSUME IInv, IInv', Booking, Fini PROVE Booking'
<1>1. PICK f \in Fds : /\ OpenAtExit(f) /\ CloseExchange(slots[f])
                       /\ slots' = [slots EXCEPT ![f] = Closed(slots[f])]
  BY DEF Fini
<1> DEFINE s == slots[f]
           n == Closed(s)
<1>2. /\ exit = "exiting" /\ exit' = "exiting" /\ UNCHANGED <<pc, fd, owner, wire, answered>>
      /\ answered' = answered
  BY DEF Fini, program, world
<1>3. /\ Typed /\ Typed' /\ Balance /\ Ending /\ s \in Slot
      /\ s.phase # "RECEIVING" => s.bytes = 0
      /\ s.sock /\ s.phase = "RECEIVING"
  BY <1>1 DEF IInv, Booking, Ending, Typed, ShimOK, OpenAtExit
<1>4. slots'[f] = n /\ \A g \in Fds \ {f} : slots'[g] = slots[g]
  BY <1>1, <1>3 DEF Typed, ShimOK
<1>5. n.phase # "RECEIVING" /\ n.bytes = 0 /\ n.sock BY <1>3, ClosedIs
<1>6. \A i \in Threads : pc[i] = "idle" /\ pc'[i] = "idle" BY <1>2, <1>3 DEF Ending
<1>7. ASSUME NEW g \in Fds PROVE At(g) = "idle" /\ At(g)' = "idle"
  <2>1. owner[g] = None \/ owner[g] \in Threads BY <1>3 DEF Typed, WorldOK
  <2> QED BY <1>2, <1>6, <2>1 DEF At
<1>8. Only(f) BY <1>2, <1>4, <1>7 DEF Only
<1> HIDE DEF n
<1>9. ~InFlight(f) /\ ~Pending(f)' /\ slots'[f].bytes = 0
  BY <1>4, <1>5, <1>7 DEF InFlight, Pending
<1>10. Balance' BY <1>1, <1>2, <1>3, <1>8, <1>9, Closing, BalanceFrame
<1>11. Ending'
  <2>1. ASSUME NEW g \in Fds
        PROVE  /\ slots'[g].phase = "RECEIVING" => slots'[g].sock
               /\ slots'[g].phase # "RECEIVING" => slots'[g].bytes = 0
    BY <1>3, <1>4, <1>5 DEF Ending
  <2> QED BY <1>2, <1>6, <2>1 DEF Ending
<1> QED BY <1>2, <1>10, <1>11 DEF Booking

\* Leaving and writing the file move nothing, and what is still open keeps the file waiting.
LEMMA EndBooks ==
    ASSUME IInv, IInv', Booking, Exit \/ Dump \/ UNCHANGED vars PROVE Booking'
<1>1. /\ slots' = slots /\ req' = req /\ hs' = hs /\ pc' = pc /\ fd' = fd
      /\ owner' = owner /\ wire' = wire /\ answered' = answered
  BY DEF Exit, Dump, vars, shim, program, world
<1>2. Balance /\ Ending BY DEF Booking
<1>3. ASSUME NEW f \in Fds
      PROVE  /\ At(f)' = At(f) /\ InFlight(f)' = InFlight(f) /\ Pending(f)' = Pending(f)
             /\ Agree(f)' = Agree(f)
  BY <1>1 DEF At, InFlight, Pending, Agree
<1>4. OwedHs' = OwedHs /\ OwedReq' = OwedReq /\ OwedBytes' = OwedBytes
  BY <1>1, <1>3 DEF OwedHs, OwedReq, OwedBytes
<1>5. Balance' BY <1>1, <1>2, <1>4 DEF Balance, Units
<1>6. CASE Exit BY <1>1, <1>2, <1>5, <1>6 DEF Exit, Ending, Booking
<1>7. CASE Dump
  <2>1. \A f \in Fds : slots[f].phase # "RECEIVING" BY <1>2, <1>7 DEF Dump, OpenAtExit, Ending
  <2> QED BY <1>1, <1>2, <1>5, <1>7, <2>1 DEF Dump, Ending, Booking
<1>8. CASE UNCHANGED vars
  <2>1. exit' = exit BY <1>8 DEF vars, shim
  <2> QED BY <1>1, <1>2, <1>3, <1>5, <2>1 DEF Ending, Booking
<1> QED BY <1>6, <1>7, <1>8

\* Who owes nothing has no unit, so that the sum of nothings is nothing.
LEMMA NoUnits ==
    ASSUME NEW h, \A f \in Fds : h[f] = 0
    PROVE  IsFiniteSet(Units(h)) /\ Cardinality(Units(h)) = 0
<1>1. Units(h) = {} BY DEF Units
<1>2. IsFiniteSet({}) /\ Cardinality({}) = 0 BY FS_EmptySet
<1> HIDE DEF Units
<1> QED BY <1>1, <1>2

LEMMA InitBooks == Init => Booking
<1> SUFFICES ASSUME Init PROVE Booking OBVIOUS
<1>1. /\ req = Nothing /\ hs = Nothing /\ exit = "no"
      /\ answered = [hs |-> 0, req |-> 0, bytes |-> 0]
      /\ \A i \in Threads : pc[i] = "idle"
  BY DEF Init
<1>2. \A f \in Fds : slots[f] = Zero /\ owner[f] = None /\ wire[f] = Fresh BY DEF Init
<1>3. \A f \in Fds : At(f) = "idle" BY <1>2 DEF At
<1>4. \A f \in Fds : slots[f].phase = "IDLE" /\ slots[f].bytes = 0 /\ ~slots[f].sock
  BY <1>2 DEF Zero
<1>5. \A f \in Fds : ~InFlight(f) /\ ~Pending(f) BY <1>3, <1>4 DEF InFlight, Pending
<1>6. \A f \in Fds : OwedHs[f] = 0 /\ OwedReq[f] = 0 /\ OwedBytes[f] = 0
  BY <1>4, <1>5 DEF OwedHs, OwedReq, OwedBytes
<1>7. /\ IsFiniteSet(Units(OwedHs)) /\ Cardinality(Units(OwedHs)) = 0
      /\ IsFiniteSet(Units(OwedReq)) /\ Cardinality(Units(OwedReq)) = 0
      /\ IsFiniteSet(Units(OwedBytes)) /\ Cardinality(Units(OwedBytes)) = 0
  BY <1>6, NoUnits
<1>8. hs.n = 0 /\ req.n = 0 /\ hs.bytes = 0 /\ req.bytes = 0 BY <1>1 DEF Nothing
<1>9. answered.hs = 0 /\ answered.req = 0 /\ answered.bytes = 0 BY <1>1
<1>10. Balance BY <1>7, <1>8, <1>9 DEF Balance
<1>11. Ending BY <1>1, <1>4 DEF Ending
<1>12. \A f \in Fds : Agree(f) BY <1>2, <1>3, <1>4 DEF Agree, Fresh
<1> QED BY <1>1, <1>10, <1>11, <1>12 DEF Booking

\* The books balance in every state: what was answered is booked or still owed, by the
\* descriptor whose call or slot has it (on_send, on_recv, on_close, fini).
THEOREM BooksBalance == Spec => []Booking
<1>1. ASSUME IInv, IInv', Booking, [Next]_vars PROVE Booking'
  <2>1. ASSUME NEW i \in Threads, Thread(i) PROVE Booking'
    <3>1. CASE Socket(i) \/ Connect(i) BY <1>1, <3>1, SocketBooks, ConnectBooks
    <3>2. CASE Stamp(i) \/ OnSend(i) \/ Send(i)
      BY <1>1, <3>2, StampBooks, OnSendBooks, SendBooks
    <3>3. CASE Recv(i) \/ OnRecv(i) \/ Record(i)
      BY <1>1, <3>3, RecvBooks, OnRecvBooks, RecordBooks
    <3>4. CASE Shut(i) \/ OnClose(i) \/ Close(i)
      BY <1>1, <3>4, ShutBooks, OnCloseBooks, CloseBooks
    <3> QED BY <2>1, <3>1, <3>2, <3>3, <3>4 DEF Thread
  <2>2. CASE Fini BY <1>1, <2>2, FiniBooks
  <2>3. CASE Exit \/ Dump \/ UNCHANGED vars BY <1>1, <2>3, EndBooks
  <2> QED BY <1>1, <2>1, <2>2, <2>3 DEF Next, Over
<1> QED BY <1>1, InitBooks, Inductive, PTL DEF Spec

\* The file accounts for every exchange once: when it is written no call is under way and
\* no exchange open, so nothing is owed and what was answered is what is booked (fini).
THEOREM ExchangesAreBooked == Spec => []ExchangesAddUp
<1>1. ASSUME IInv, Booking PROVE ExchangesAddUp
  <2> SUFFICES ASSUME exit = "dumped"
               PROVE  /\ hs.n = answered.hs /\ req.n = answered.req
                      /\ hs.bytes + req.bytes = answered.bytes
    BY DEF ExchangesAddUp
  <2>1. Balance /\ Ending /\ Typed BY <1>1 DEF Booking, IInv
  <2>2. \A f \in Fds : slots[f].phase # "RECEIVING" /\ slots[f].bytes = 0 BY <2>1 DEF Ending
  <2>3. ASSUME NEW f \in Fds PROVE ~InFlight(f) /\ ~Pending(f)
    <3>1. owner[f] = None \/ owner[f] \in Threads BY <2>1 DEF Typed, WorldOK
    <3>2. At(f) = "idle" BY <2>1, <3>1 DEF At, Ending
    <3> QED BY <2>2, <3>2 DEF InFlight, Pending
  <2>4. \A f \in Fds : OwedHs[f] = 0 /\ OwedReq[f] = 0 /\ OwedBytes[f] = 0
    BY <2>2, <2>3 DEF OwedHs, OwedReq, OwedBytes
  <2>5. /\ Cardinality(Units(OwedHs)) = 0 /\ Cardinality(Units(OwedReq)) = 0
        /\ Cardinality(Units(OwedBytes)) = 0
    BY <2>4, NoUnits
  <2>6. hs.n \in Nat /\ hs.bytes \in Nat /\ req.n \in Nat /\ req.bytes \in Nat
    BY <2>1 DEF Typed, ShimOK, Aggregate
  <2> QED BY <2>1, <2>5, <2>6 DEF Balance
<1> QED BY <1>1, Inductive, BooksBalance, PTL
=============================================================================
