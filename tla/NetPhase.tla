------------------------------- MODULE NetPhase -------------------------------
(***************************************************************************)
(* The request stopwatch competitors/duckdb-linux/netphase/netphase.c: a   *)
(* library between a program and its socket calls that stamps every send   *)
(* and receive and books, per connection, exchanges of send(s) followed by *)
(* receive(s); the first of a TLS connection, the handshake, apart.        *)
(*                                                                         *)
(* Threads of the program open, use and close sockets, each socket in the  *)
(* hands of one thread at a time.  The kernel gives a closed descriptor to *)
(* whoever asks next, and slots are found by descriptor.                   *)
(***************************************************************************)
EXTENDS Integers, FiniteSets

CONSTANTS
    Threads,
    Fds,       \* descriptors in use, all below MAXFD
    MaxTime,   \* bound: stamps taken
    MaxConns   \* bound: connections

None == "none"

ASSUME NetPhaseAssumption ==
    /\ Threads # {} /\ None \notin Threads /\ Fds # {}
    /\ MaxTime \in Nat /\ MaxConns \in Nat

VARIABLES
    \* netphase.c
    slots,         \* per descriptor
    req, hs,       \* requests and handshakes booked
    t_first_send, t_last_recv, conns,
    exit,          \* "no", "exiting" (fini) or "dumped"
    \* the threads, inside a wrapper
    pc, fd, t,
    \* the kernel and the truth about what went over a connection
    owner,         \* the thread that holds a descriptor
    wire,          \* per descriptor, of its connection
    answered,      \* history: exchanges answered: handshakes, requests, receives
    clock          \* CLOCK_MONOTONIC

shim == <<slots, req, hs, t_first_send, t_last_recv, conns, exit>>
program == <<pc, fd, t>>
world == <<owner, wire, answered, clock>>
vars == <<shim, program, world>>

PcOf == {"idle", "stamp", "onsend", "send", "onrecv", "record", "onclose", "close"}

Zero == [sock |-> FALSE, phase |-> "IDLE", tls |-> FALSE, exchanges |-> 0,
         t_last |-> 0, bytes |-> 0]
Nothing == [n |-> 0, bytes |-> 0]

\* A connection: may it be used, what went over it last, how many exchanges it had.
Fresh == [open |-> FALSE, tls |-> FALSE, last |-> None, n |-> 0]

Init ==
    /\ slots = [f \in Fds |-> Zero] /\ req = Nothing /\ hs = Nothing
    /\ t_first_send = 0 /\ t_last_recv = 0 /\ conns = 0 /\ exit = "no"
    /\ pc = [i \in Threads |-> "idle"] /\ fd \in [Threads -> Fds]
    /\ \A i, j \in Threads : fd[i] = fd[j]
    /\ t = [i \in Threads |-> 0]
    /\ owner = [f \in Fds |-> None] /\ wire = [f \in Fds |-> Fresh]
    /\ answered = [hs |-> 0, req |-> 0, bytes |-> 0] /\ clock = 0

-----------------------------------------------------------------------------
\* What close_exchange books of an exchange; the times and gaps it sums are left out.
Booked(a, s) == [n |-> a.n + 1, bytes |-> a.bytes + s.bytes]

IsHandshake(s) == s.exchanges = 0 /\ s.tls

\* close_exchange: an exchange that is being received is booked, and the slot is idle.
Closed(s) ==
    IF s.phase = "RECEIVING"
    THEN [s EXCEPT !.exchanges = @ + 1, !.phase = "IDLE", !.bytes = 0] ELSE s

CloseExchange(s) ==
    /\ req' = IF s.phase = "RECEIVING" /\ ~IsHandshake(s) THEN Booked(req, s) ELSE req
    /\ hs' = IF s.phase = "RECEIVING" /\ IsHandshake(s) THEN Booked(hs, s) ELSE hs

Goto(i, l) == pc' = [pc EXCEPT ![i] = l]

Tick == clock' = clock + 1

\* The thread calls a wrapper on a socket of its own.
Enter(i, f, l) ==
    /\ pc[i] = "idle" /\ exit = "no"
    /\ owner[f] = i
    /\ fd' = [fd EXCEPT ![i] = f]
    /\ Goto(i, l)

-----------------------------------------------------------------------------
\* socket, not wrapped: any descriptor that is free.
Socket(i) ==
    /\ pc[i] = "idle" /\ exit = "no"
    /\ \E f \in Fds :
          /\ owner[f] = None
          /\ owner' = [owner EXCEPT ![f] = i]
          /\ wire' = [wire EXCEPT ![f] = Fresh]
    /\ UNCHANGED <<shim, program, answered, clock>>

\* Connected or refused, the slot is wiped and counted.
Connect(i) ==
    /\ pc[i] = "idle" /\ exit = "no" /\ conns < MaxConns
    /\ \E f \in Fds, tls \in BOOLEAN, ok \in BOOLEAN :
          /\ owner[f] = i /\ ~wire[f].open
          /\ wire' = [wire EXCEPT ![f] = [Fresh EXCEPT !.open = ok, !.tls = tls]]
          /\ slots' = [slots EXCEPT ![f] = [Zero EXCEPT !.sock = TRUE, !.tls = tls]]
    /\ conns' = conns + 1
    /\ UNCHANGED <<req, hs, t_first_send, t_last_recv, exit, program, owner, answered, clock>>

\* A send: on_send stamps, ...
Stamp(i) ==
    /\ clock < MaxTime /\ Tick
    /\ \E f \in Fds :
          /\ wire[f].open
          /\ Enter(i, f, IF slots[f].sock THEN "onsend" ELSE "send")
    /\ t' = [t EXCEPT ![i] = clock']
    /\ UNCHANGED <<shim, owner, wire, answered>>

\* ... closes the exchange before it and opens the next, ...
OnSend(i) ==
    /\ pc[i] = "onsend"
    /\ LET s == slots[fd[i]] IN
          /\ CloseExchange(s)
          /\ slots' = [slots EXCEPT ![fd[i]] = [Closed(s) EXCEPT !.phase = "SENT"]]
    /\ t_first_send' = IF t_first_send = 0 THEN t[i] ELSE t_first_send
    /\ Goto(i, "send")
    /\ UNCHANGED <<t_last_recv, conns, exit, fd, t, world>>

\* ... and only then the bytes leave.  A connection that cannot send is given up.
Send(i) ==
    /\ pc[i] = "send"
    /\ \E ok \in BOOLEAN :
          wire' = [wire EXCEPT ![fd[i]] = IF ok THEN [@ EXCEPT !.last = "sent"]
                                                ELSE [@ EXCEPT !.open = FALSE]]
    /\ Goto(i, "idle")
    /\ UNCHANGED <<shim, fd, t, owner, answered, clock>>

\* A receive that returned something: an answer, more of it, or a TLS 1.3 session
\* ticket that nothing answered for.  What comes before any send is not an exchange.
Recv(i) ==
    /\ clock < MaxTime
    /\ \E f \in Fds :
          /\ wire[f].open
          /\ Enter(i, f, "onrecv")
          /\ LET w == wire[f]
                 first == w.last = "sent"
                 handshake == w.tls /\ w.n = 0
             IN
             /\ wire' = [wire EXCEPT ![f] = [w EXCEPT !.last = IF w.last = None THEN None ELSE "received",
                                                      !.n = IF first THEN w.n + 1 ELSE w.n]]
             /\ answered' = [hs    |-> answered.hs + IF first /\ handshake THEN 1 ELSE 0,
                          req   |-> answered.req + IF first /\ ~handshake THEN 1 ELSE 0,
                          bytes |-> answered.bytes + IF w.last = None THEN 0 ELSE 1]
    /\ UNCHANGED <<shim, t, owner, clock>>

\* on_recv stamps what belongs to an exchange ...
OnRecv(i) ==
    /\ pc[i] = "onrecv"
    /\ LET s == slots[fd[i]] IN
       \/ /\ ~s.sock \/ s.phase = "IDLE"
          /\ Goto(i, "idle") /\ UNCHANGED <<t, clock>>
       \/ /\ s.sock /\ s.phase # "IDLE"
          /\ Tick /\ t' = [t EXCEPT ![i] = clock'] /\ Goto(i, "record")
    /\ UNCHANGED <<shim, fd, owner, wire, answered>>

Received(s, now) ==
    [s EXCEPT !.phase = "RECEIVING", !.t_last = now, !.bytes = @ + 1]

\* Faulty: the last receive is stored, not compared and exchanged.
RecordStores(i) ==
    /\ pc[i] = "record"
    /\ slots' = [slots EXCEPT ![fd[i]] = Received(@, t[i])]
    /\ t_last_recv' = t[i]
    /\ Goto(i, "idle")
    /\ UNCHANGED <<req, hs, t_first_send, conns, exit, fd, t, world>>

\* ... and moves t_last_recv forward, against other threads' receives.
Record(i) ==
    /\ pc[i] = "record"
    /\ slots' = [slots EXCEPT ![fd[i]] = Received(@, t[i])]
    /\ t_last_recv' = IF t[i] > t_last_recv THEN t[i] ELSE t_last_recv
    /\ Goto(i, "idle")
    /\ UNCHANGED <<req, hs, t_first_send, conns, exit, fd, t, world>>

\* Faulty: close lets go of the descriptor before it looks at the slot.
ShutFirst(i) ==
    /\ \E f \in Fds :
          /\ Enter(i, f, "onclose")
          /\ owner' = [owner EXCEPT ![f] = None]
    /\ UNCHANGED <<shim, t, wire, answered, clock>>

\* Faulty: the slot is not marked free.
OnCloseKeepsSlot(i) ==
    /\ pc[i] = "onclose"
    /\ LET s == slots[fd[i]] IN
          \/ s.sock /\ CloseExchange(s)
                /\ slots' = [slots EXCEPT ![fd[i]] = Closed(s)]
          \/ ~s.sock /\ UNCHANGED <<slots, req, hs>>
    /\ Goto(i, "close")
    /\ UNCHANGED <<t_first_send, t_last_recv, conns, exit, fd, t, world>>

\* A close: the open exchange is booked and the slot marked free ...
Shut(i) ==
    /\ \E f \in Fds : Enter(i, f, "onclose")
    /\ UNCHANGED <<shim, t, world>>

OnClose(i) ==
    /\ pc[i] = "onclose"
    /\ LET s == slots[fd[i]] IN
          \/ s.sock /\ CloseExchange(s)
                /\ slots' = [slots EXCEPT ![fd[i]] = [Closed(s) EXCEPT !.sock = FALSE]]
          \/ ~s.sock /\ UNCHANGED <<slots, req, hs>>
    /\ Goto(i, "close")
    /\ UNCHANGED <<t_first_send, t_last_recv, conns, exit, fd, t, world>>

\* ... before the descriptor is anybody's.
Close(i) ==
    /\ pc[i] = "close"
    /\ owner' = [owner EXCEPT ![fd[i]] = IF @ = i THEN None ELSE @]
    /\ Goto(i, "idle")
    /\ UNCHANGED <<shim, fd, t, wire, answered, clock>>

-----------------------------------------------------------------------------
\* The program ends, its sockets open or not.
Exit ==
    /\ exit = "no" /\ conns > 0 /\ \A i \in Threads : pc[i] = "idle"
    /\ exit' = "exiting"
    /\ UNCHANGED <<slots, req, hs, t_first_send, t_last_recv, conns, program, world>>

OpenAtExit(f) == slots[f].sock /\ slots[f].phase = "RECEIVING"

\* fini counts "exchanges still open at exit", slot by slot, ...
Fini ==
    /\ exit = "exiting"
    /\ \E f \in Fds :
          /\ OpenAtExit(f)
          /\ CloseExchange(slots[f])
          /\ slots' = [slots EXCEPT ![f] = Closed(@)]
    /\ UNCHANGED <<t_first_send, t_last_recv, conns, exit, program, world>>

\* ... and writes the file.
Dump ==
    /\ exit = "exiting" /\ \A f \in Fds : ~OpenAtExit(f)
    /\ exit' = "dumped"
    /\ UNCHANGED <<slots, req, hs, t_first_send, t_last_recv, conns, program, world>>

Over == exit = "dumped" /\ UNCHANGED vars

Thread(i) ==
    \/ Socket(i) \/ Connect(i)
    \/ Stamp(i) \/ OnSend(i) \/ Send(i)
    \/ Recv(i) \/ OnRecv(i) \/ Record(i)
    \/ Shut(i) \/ OnClose(i) \/ Close(i)

Next == (\E i \in Threads : Thread(i)) \/ Exit \/ Fini \/ Dump \/ Over

Spec == Init /\ [][Next]_vars

-----------------------------------------------------------------------------
Slot == [sock : BOOLEAN, phase : {"IDLE", "SENT", "RECEIVING"}, tls : BOOLEAN, exchanges : Nat,
         t_last : Nat, bytes : Nat]
Aggregate == [n : Nat, bytes : Nat]

\* Every variable has its type, and a descriptor that is nobody's has a free slot.
TypeOK ==
    /\ slots \in [Fds -> Slot] /\ req \in Aggregate /\ hs \in Aggregate
    /\ t_first_send \in Nat /\ t_last_recv \in Nat /\ conns \in 0..MaxConns
    /\ exit \in {"no", "exiting", "dumped"}
    /\ pc \in [Threads -> PcOf] /\ fd \in [Threads -> Fds] /\ t \in [Threads -> Nat]
    /\ owner \in [Fds -> Threads \cup {None}]
    /\ \A f \in Fds : owner[f] = None => ~slots[f].sock
    /\ wire \in [Fds -> [open : BOOLEAN, tls : BOOLEAN, last : {None, "sent", "received"}, n : Nat]]
    /\ answered \in [hs : Nat, req : Nat, bytes : Nat] /\ clock \in Nat

\* The file accounts for every exchange once, whichever thread had it and however its
\* descriptor was reused: each answered send is booked, the first of a TLS connection
\* with the handshakes, and what was received in answer with it (close_exchange, fini).
ExchangesAddUp ==
    exit = "dumped" =>
        /\ hs.n = answered.hs /\ req.n = answered.req
        /\ hs.bytes + req.bytes = answered.bytes

\* The measured window holds every receive: none is stamped before its first send or
\* after its last receive, however the threads' stores fall between their stamps (the
\* compare-and-exchanges of on_send and on_recv).
WindowHoldsEveryReceive ==
    \A f \in Fds : slots[f].t_last # 0 =>
        0 < t_first_send /\ t_first_send < slots[f].t_last /\ slots[f].t_last <= t_last_recv
=============================================================================
