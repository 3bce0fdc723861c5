--------------------------- MODULE BlockPoolProofs ---------------------------
(***************************************************************************)
(* Theorems about the block pool, for any number of workers, slots and     *)
(* blocks.                                                                 *)
(*                                                                         *)
(* TypeOK is inductive.  On top of it: a block that a slot holds or that   *)
(* was fetched has been drawn from the pool (Drawn), which is what makes   *)
(* the next one fresh; whoever dials, or has dialled, found its worker's   *)
(* barrier full (Barrier); and a slot is idle only after the pool (Idle).  *)
(***************************************************************************)
EXTENDS BlockPool, FiniteSetTheorems, TLAPS

\* What is held or fetched was drawn.
Drawn ==
    /\ \A s \in Slots : Holds(s) => block[s] < next_block
    /\ \A o \in outcomes : o.block < next_block

\* Past the barrier, for good.
Barrier ==
    /\ \A s \in Slots : pc[s] \in {"leader", "fetch"} \/ drew[s] =>
           arrived[WorkerOf(s)] = SlotsOf(WorkerOf(s))
    /\ \A o \in outcomes : arrived[WorkerOf(o.slot)] = SlotsOf(WorkerOf(o.slot))
    /\ \A w \in Workers : arrived[w] \subseteq SlotsOf(w)

\* Only an empty pool makes a slot idle.
IdleLast ==
    \A s \in Slots : pc[s] \in {"empty", "owes", "lingers", "done"} => next_block > Total

\* The verdict is the last word.
Judged ==
    /\ IsFiniteSet(outcomes)
    /\ verdict # "none" => \A s \in Slots : pc[s] = "done"
    /\ verdict = "COMPLETE" => /\ Cardinality(outcomes) = Total
                               /\ \A o \in outcomes : o.end.clean

Inv ==
    /\ Drawn /\ EachBlockOnce
    /\ Barrier
    /\ IdleLast /\ WindowEndsWithThePool
    /\ Judged
IInv == TypeOK /\ Inv

-----------------------------------------------------------------------------
\* A slot is one of its worker's, and its worker is one.
LEMMA SlotFacts == \A s \in Slots : WorkerOf(s) \in Workers /\ s \in SlotsOf(WorkerOf(s))
  BY DEF Slots, SlotsOf, WorkerOf

\* Every step keeps every variable in its type.
LEMMA TypeStep == TypeOK /\ [Next]_vars => TypeOK'
<1> SUFFICES ASSUME TypeOK, [Next]_vars PROVE TypeOK'
  OBVIOUS
<1> USE DEF TypeOK, Goto, PcOf
<1>1. ASSUME NEW s \in Slots, Claim(s) PROVE TypeOK'
  BY <1>1, PoolAssumption DEF Claim, Blocks
<1>2. ASSUME NEW s \in Slots, Arrive(s) PROVE TypeOK'
  <2>1. arrived' \in [Workers -> SUBSET Slots]
    BY <1>2, SlotFacts DEF Arrive
  <2> QED
    BY <1>2, <2>1 DEF Arrive
<1>3. ASSUME NEW s \in Slots, Release(s) PROVE TypeOK'
  BY <1>3 DEF Release
<1>4. ASSUME NEW s \in Slots, StartClock(s) PROVE TypeOK'
  BY <1>4, SlotFacts DEF StartClock
<1>5. ASSUME NEW s \in Slots, Fetch(s) PROVE TypeOK'
  BY <1>5 DEF Fetch
<1>6. ASSUME NEW s \in Slots, FindEmpty(s) PROVE TypeOK'
  BY <1>6 DEF FindEmpty
<1>7. CASE Judge
  <2> HIDE DEF TypeOK
  <2>1. verdict' \in {"COMPLETE", "INCOMPLETE"}
        /\ UNCHANGED <<next_block, first_idle, pc, block, drew, arrived, started, outcomes>>
    BY <1>7 DEF Judge
  <2> QED
    BY <2>1 DEF TypeOK
<1>8. CASE UNCHANGED vars
  BY <1>8 DEF vars
<1> QED
  BY <1>1, <1>2, <1>3, <1>4, <1>5, <1>6, <1>7, <1>8 DEF Next, Slot, Exited

\* Every step keeps the rest of the invariant.
LEMMA InvStep == TypeOK /\ TypeOK' /\ Inv /\ [Next]_vars => Inv'
<1> SUFFICES ASSUME TypeOK, TypeOK', Inv, [Next]_vars PROVE Inv'
  OBVIOUS
<1> USE DEF Holds
<1>0. /\ \A t \in Slots : block[t] \in Int
      /\ \A o \in outcomes : o.block \in Int
  BY PoolAssumption DEF TypeOK, Blocks
<1>1. ASSUME NEW s \in Slots, Claim(s) PROVE Inv'
  <2>1. next_block' = next_block + 1 /\ next_block \in Nat /\ Total \in Nat
        /\ UNCHANGED <<first_idle, drew, arrived, outcomes, verdict>>
    BY <1>1, PoolAssumption DEF Claim, TypeOK
  <2>2. CASE next_block >= Total /\ Goto(s, "empty") /\ UNCHANGED block
    <3>1. \A t \in Slots : (pc'[t] = pc[t] \/ (t = s /\ pc'[t] = "empty"))
      BY <2>2 DEF Goto, TypeOK
    <3>2. \A t \in Slots : Holds(t)' => Holds(t) /\ block'[t] = block[t]
      BY <2>2, <3>1
    <3>3. Drawn' /\ EachBlockOnce'
      <4>1. EachBlockOnce'
        BY <2>1, <3>2 DEF Inv, EachBlockOnce
      <4>2. \A t \in Slots : Holds(t)' => block'[t] < next_block'
        BY <2>1, <3>2, <1>0 DEF Inv, Drawn
      <4>3. \A o \in outcomes' : o.block < next_block'
        BY <2>1, <1>0 DEF Inv, Drawn
      <4> QED
        BY <4>1, <4>2, <4>3 DEF Drawn
    <3>4. Barrier'
      BY <2>1, <3>1 DEF Inv, Barrier
    <3>5. IdleLast' /\ WindowEndsWithThePool'
      BY <2>1, <2>2, <3>1 DEF Inv, IdleLast, WindowEndsWithThePool
    <3>6. Judged'
      BY <1>1, <2>1, <3>1 DEF Inv, Judged, Claim
    <3> QED
      BY <3>3, <3>4, <3>5, <3>6 DEF Inv
  <2>3. CASE /\ next_block < Total
             /\ block' = [block EXCEPT ![s] = next_block]
             /\ Goto(s, IF drew[s] THEN "fetch" ELSE "barrier")
    <3>1. /\ \A t \in Slots \ {s} : pc'[t] = pc[t] /\ block'[t] = block[t]
          /\ block'[s] = next_block
          /\ pc'[s] = IF drew[s] THEN "fetch" ELSE "barrier"
      BY <2>3 DEF Goto, TypeOK
    <3>2. Drawn'
      <4>1. \A t \in Slots : Holds(t)' => block'[t] < next_block'
        BY <2>1, <3>1, <1>0 DEF Inv, Drawn
      <4>2. \A o \in outcomes' : o.block < next_block'
        BY <2>1, <1>0 DEF Inv, Drawn
      <4> QED
        BY <4>1, <4>2 DEF Drawn
    <3>3. EachBlockOnce'
      BY <2>1, <3>1, <1>0 DEF Inv, Drawn, EachBlockOnce
    <3>4. Barrier'
      BY <2>1, <3>1 DEF Inv, Barrier
    <3>5. IdleLast' /\ WindowEndsWithThePool'
      BY <2>1, <2>3, <3>1 DEF Inv, IdleLast, WindowEndsWithThePool
    <3>6. Judged'
      BY <1>1, <2>1, <3>1 DEF Inv, Judged, Claim
    <3> QED
      BY <3>2, <3>3, <3>4, <3>5, <3>6 DEF Inv
  <2> QED
    BY <1>1, <2>2, <2>3 DEF Claim
<1>2. ASSUME NEW s \in Slots, Arrive(s) PROVE Inv'
  <2> DEFINE w == WorkerOf(s)
  <2>1. w \in Workers /\ s \in SlotsOf(w)
    BY SlotFacts
  <2>2. UNCHANGED <<next_block, first_idle, block, drew, outcomes, verdict>>
        /\ pc[s] \in {"barrier", "owes"}
    BY <1>2 DEF Arrive
  <2>3. /\ \A t \in Slots \ {s} : pc'[t] = pc[t]
        /\ pc[s] = "owes" => pc'[s] = "lingers"
        /\ pc[s] = "barrier" => pc'[s] \in {"leader", "waiting"}
        /\ pc'[s] = "leader" => arrived'[w] = SlotsOf(w)
    BY <1>2 DEF Arrive, Goto, TypeOK
  <2>4. /\ \A v \in Workers \ {w} : arrived'[v] = arrived[v]
        /\ arrived'[w] = arrived[w] \cup {s}
    BY <1>2, <2>1 DEF Arrive, TypeOK
  <2>5. Drawn' /\ EachBlockOnce'
    BY <2>2, <2>3 DEF Inv, Drawn, EachBlockOnce
  <2>6. Barrier'
    <3>1. \A v \in Workers : arrived[v] = SlotsOf(v) => arrived'[v] = SlotsOf(v)
      BY <2>1, <2>4
    <3>2. \A t \in Slots : pc'[t] \in {"leader", "fetch"} \/ drew'[t] =>
              arrived'[WorkerOf(t)] = SlotsOf(WorkerOf(t))
      BY <2>2, <2>3, <3>1, SlotFacts DEF Inv, Barrier
    <3>3. \A o \in outcomes' : arrived'[WorkerOf(o.slot)] = SlotsOf(WorkerOf(o.slot))
      BY <2>2, <3>1, SlotFacts DEF Inv, Barrier, TypeOK
    <3>4. \A v \in Workers : arrived'[v] \subseteq SlotsOf(v)
      BY <2>1, <2>4 DEF Inv, Barrier
    <3> QED
      BY <3>2, <3>3, <3>4 DEF Barrier
  <2>7. IdleLast' /\ WindowEndsWithThePool'
    BY <2>2, <2>3 DEF Inv, IdleLast, WindowEndsWithThePool
  <2>8. Judged'
    BY <2>2, <2>3 DEF Inv, Judged
  <2> QED
    BY <2>5, <2>6, <2>7, <2>8 DEF Inv
<1>3. ASSUME NEW s \in Slots, Release(s) PROVE Inv'
  <2>1. UNCHANGED <<next_block, first_idle, block, drew, arrived, outcomes, verdict>>
    BY <1>3 DEF Release
  <2>2. /\ pc[s] \in {"waiting", "lingers"} /\ arrived[WorkerOf(s)] = SlotsOf(WorkerOf(s))
        /\ pc[s] = "waiting" => pc'[s] = "fetch"
        /\ pc[s] = "lingers" => pc'[s] = "done"
        /\ \A t \in Slots \ {s} : pc'[t] = pc[t]
    BY <1>3 DEF Release, Goto, TypeOK
  <2>3. Drawn' /\ EachBlockOnce'
    BY <2>1, <2>2 DEF Inv, Drawn, EachBlockOnce
  <2>4. Barrier'
    BY <2>1, <2>2 DEF Inv, Barrier
  <2>5. IdleLast' /\ WindowEndsWithThePool'
    BY <2>1, <2>2 DEF Inv, IdleLast, WindowEndsWithThePool
  <2>6. Judged'
    BY <2>1, <2>2 DEF Inv, Judged
  <2> QED
    BY <2>3, <2>4, <2>5, <2>6 DEF Inv
<1>4. ASSUME NEW s \in Slots, StartClock(s) PROVE Inv'
  <2>1. UNCHANGED <<next_block, first_idle, block, drew, arrived, outcomes, verdict>>
    BY <1>4 DEF StartClock
  <2>2. /\ pc[s] = "leader" /\ pc'[s] = "fetch"
        /\ \A t \in Slots \ {s} : pc'[t] = pc[t]
    BY <1>4 DEF StartClock, Goto, TypeOK
  <2>3. Drawn' /\ EachBlockOnce'
    BY <2>1, <2>2 DEF Inv, Drawn, EachBlockOnce
  <2>4. Barrier'
    BY <2>1, <2>2 DEF Inv, Barrier
  <2>5. IdleLast' /\ WindowEndsWithThePool'
    BY <2>1, <2>2 DEF Inv, IdleLast, WindowEndsWithThePool
  <2>6. Judged'
    BY <2>1, <2>2 DEF Inv, Judged
  <2> QED
    BY <2>3, <2>4, <2>5, <2>6 DEF Inv
<1>5. ASSUME NEW s \in Slots, Fetch(s) PROVE Inv'
  <2>1. PICK e \in Ends : outcomes' = outcomes \cup {[slot |-> s, block |-> block[s], end |-> e]}
    BY <1>5 DEF Fetch
  <2>2. /\ UNCHANGED <<next_block, first_idle, block, arrived, verdict>>
        /\ pc[s] = "fetch" /\ pc'[s] = "claim"
        /\ \A t \in Slots \ {s} : pc'[t] = pc[t] /\ drew'[t] = drew[t]
    BY <1>5 DEF Fetch, Goto, TypeOK
  <2>3. Drawn' /\ EachBlockOnce'
    BY <2>1, <2>2 DEF Inv, Drawn, EachBlockOnce
  <2>4. Barrier'
    BY <2>1, <2>2 DEF Inv, Barrier
  <2>5. IdleLast' /\ WindowEndsWithThePool'
    BY <2>2 DEF Inv, IdleLast, WindowEndsWithThePool
  <2>6. Judged'
    <3>1. IsFiniteSet(outcomes')
      BY <2>1, FS_AddElement DEF Inv, Judged
    <3>2. verdict = "none"
      BY <2>2 DEF Inv, Judged
    <3> QED
      BY <2>2, <3>1, <3>2 DEF Judged
  <2> QED
    BY <2>3, <2>4, <2>5, <2>6 DEF Inv
<1>6. ASSUME NEW s \in Slots, FindEmpty(s) PROVE Inv'
  <2>1. UNCHANGED <<next_block, block, drew, arrived, outcomes, verdict>> /\ first_idle'
    BY <1>6 DEF FindEmpty
  <2>2. /\ pc[s] = "empty" /\ pc'[s] \in {"done", "owes"}
        /\ \A t \in Slots \ {s} : pc'[t] = pc[t]
    BY <1>6 DEF FindEmpty, Goto, TypeOK
  <2>3. Drawn' /\ EachBlockOnce'
    BY <2>1, <2>2 DEF Inv, Drawn, EachBlockOnce
  <2>4. Barrier'
    BY <2>1, <2>2 DEF Inv, Barrier
  <2>5. IdleLast' /\ WindowEndsWithThePool'
    BY <2>1, <2>2 DEF Inv, IdleLast, WindowEndsWithThePool
  <2>6. Judged'
    BY <2>1, <2>2 DEF Inv, Judged
  <2> QED
    BY <2>3, <2>4, <2>5, <2>6 DEF Inv
<1>7. CASE Judge
  <2>1. /\ UNCHANGED <<next_block, first_idle, pc, block, drew, arrived, outcomes>>
        /\ \A s \in Slots : pc[s] = "done"
        /\ verdict' = "COMPLETE" => /\ Cardinality(outcomes) = Total
                                    /\ \A o \in outcomes : o.end.clean
    BY <1>7 DEF Judge
  <2>2. Drawn' /\ EachBlockOnce' /\ Barrier' /\ IdleLast' /\ WindowEndsWithThePool'
    BY <2>1 DEF Inv, Drawn, EachBlockOnce, Barrier, IdleLast, WindowEndsWithThePool
  <2>3. Judged'
    BY <2>1 DEF Inv, Judged
  <2> QED
    BY <2>2, <2>3 DEF Inv
<1>8. CASE UNCHANGED vars
  BY <1>8 DEF vars, Inv, Drawn, EachBlockOnce, Barrier, IdleLast, WindowEndsWithThePool, Judged
<1> QED
  BY <1>1, <1>2, <1>3, <1>4, <1>5, <1>6, <1>7, <1>8 DEF Next, Slot, Exited

\* The client starts in its invariant.
LEMMA InitInv == Init => IInv
<1> SUFFICES ASSUME Init PROVE IInv
  OBVIOUS
<1>1. TypeOK
  <2>1. 0 \in Blocks
    BY PoolAssumption DEF Blocks
  <2> QED
    BY <2>1 DEF Init, TypeOK, PcOf
<1>2. IsFiniteSet(outcomes)
  BY FS_EmptySet DEF Init
<1>3. Inv
  BY <1>2 DEF Init, Inv, Drawn, EachBlockOnce, Barrier, IdleLast, WindowEndsWithThePool,
              Judged, Holds
<1> QED
  BY <1>1, <1>3 DEF IInv

\* The inductive invariant: what the other theorems follow from.
THEOREM Invariant == Spec => []IInv
<1>1. IInv /\ [Next]_vars => IInv'
  BY TypeStep, InvStep DEF IInv
<1> QED
  BY InitInv, <1>1, PTL DEF Spec

\* Every variable always has its type.
THEOREM TypeCorrect == Spec => []TypeOK
<1>1. IInv => TypeOK
  BY DEF IInv
<1> QED
  BY Invariant, <1>1, PTL

\* The counter hands out every block once, whatever the order of the slots (the pool in main).
THEOREM BlocksAreHandedOutOnce == Spec => []EachBlockOnce
<1>1. IInv => EachBlockOnce
  BY DEF IInv, Inv
<1> QED
  BY Invariant, <1>1, PTL

\* Nothing is dialled before its worker's barrier is full (run_conn).
THEOREM DialsWaitForTheBarrier == Spec => []NoDialBeforeTheBarrier
<1>1. IInv => NoDialBeforeTheBarrier
  BY DEF IInv, Inv, Barrier, NoDialBeforeTheBarrier
<1> QED
  BY Invariant, <1>1, PTL

\* The steady window ends with the first idle slot, and every block was drawn by then.
THEOREM WindowIsSteady == Spec => []WindowEndsWithThePool
<1>1. IInv => WindowEndsWithThePool
  BY DEF IInv, Inv
<1> QED
  BY Invariant, <1>1, PTL

\* No request of the pool's reaches past the object's end (run_conn's start and end).
THEOREM RequestsStayInTheObject == Spec => []RequestsInObject
<1>1. ASSUME NEW n \in Nat, NEW m \in Nat \ {0} PROVE n % m \in 0..(m - 1)
  OBVIOUS
<1>2. ASSUME TypeOK, BlockSize <= ObjectSize, NEW s \in Slots
      PROVE  Offset(block[s]) \in Nat /\ LastByte(block[s]) < ObjectSize
  <2> DEFINE b == block[s]
  <2>1. b \in Nat
    BY <1>2 DEF TypeOK, Blocks
  <2>2. b * BlockSize \in Nat
    BY <2>1, PoolAssumption
  <2>3. (b * BlockSize) % Word \in Nat
    BY <1>1, <2>2, PoolAssumption
  <2>4. Stride \in Nat \ {0} /\ Stride = ObjectSize - BlockSize + 1
    BY <1>2, PoolAssumption DEF Stride
  <2>5. Offset(b) \in 0..(Stride - 1)
    BY <1>1, <2>3, <2>4 DEF Offset
  <2> QED
    BY <2>4, <2>5, PoolAssumption DEF LastByte
<1>3. IInv => RequestsInObject
  BY <1>2 DEF IInv, RequestsInObject
<1> QED
  BY Invariant, <1>3, PTL

\* COMPLETE means that every block was fetched cleanly by exactly one connection: as
\* many outcomes as blocks, no two of them of one block (main's verdict).
THEOREM CompleteIsComplete == Spec => []CompleteMeansEveryBlock
<1>1. ASSUME IInv, verdict = "COMPLETE", NEW b \in Blocks
      PROVE  \E o \in outcomes :
                 o.block = b /\ o.end.clean /\ \A p \in outcomes : p.block = b => p = o
  <2> DEFINE f == [o \in outcomes |-> o.block]
  <2>1. \A o, p \in outcomes : o.block = p.block => o = p
    BY <1>1 DEF IInv, Inv, EachBlockOnce
  <2>2. \A o \in outcomes : o.block \in Blocks
    BY <1>1 DEF IInv, TypeOK
  <2>3. f \in Injection(outcomes, Blocks)
    BY <2>1, <2>2 DEF Injection, IsInjective
  <2>4. IsFiniteSet(Blocks) /\ Cardinality(Blocks) = Total
    BY FS_Interval, PoolAssumption DEF Blocks
  <2>5. Cardinality(outcomes) = Total /\ \A o \in outcomes : o.end.clean
    BY <1>1 DEF IInv, Inv, Judged
  <2>6. f \in Surjection(outcomes, Blocks)
    <3> HIDE DEF f
    <3> QED
      BY <2>3, <2>4, <2>5, FS_Injection
  <2>7. PICK o \in outcomes : f[o] = b
    BY <2>6 DEF Surjection
  <2> QED
    BY <2>1, <2>5, <2>7
<1>2. IInv => CompleteMeansEveryBlock
  BY <1>1 DEF CompleteMeansEveryBlock
<1> QED
  BY Invariant, <1>2, PTL

-----------------------------------------------------------------------------
(***************************************************************************)
(* BlockPool implements WorkPool: every step of a slot or of main takes,   *)
(* finishes or answers there, or changes nothing.                          *)
(***************************************************************************)

\* A block that was drawn is not lost: it is held, or it was fetched.
Accounted ==
    \A b \in Blocks : b < next_block =>
        (\E s \in Slots : Holds(s) /\ block[s] = b) \/ (\E o \in outcomes : o.block = b)

Fated == [b \in Blocks |-> Fate(b)]

\* Who goes on holding what he holds changes no block's fate.
LEMMA SameFates ==
  ASSUME UNCHANGED outcomes,
         \A t \in Slots : (Holds(t)' <=> Holds(t)) /\ (Holds(t) => block'[t] = block[t])
  PROVE  Fated' = Fated
<1>1. \A b \in Blocks : (\E t \in Slots : Holds(t)' /\ block'[t] = b)
                           <=> (\E t \in Slots : Holds(t) /\ block[t] = b)
  OBVIOUS
<1>2. \A b \in Blocks : Fate(b)' = Fate(b)
  BY <1>1 DEF Fate
<1> QED
  BY <1>2 DEF Fated

\* No drawn block is lost by a step.
LEMMA AccountedStep == TypeOK /\ Accounted /\ [Next]_vars => Accounted'
<1> SUFFICES ASSUME TypeOK, Accounted, [Next]_vars,
                    NEW b \in Blocks, b < next_block'
             PROVE  \/ \E s \in Slots : Holds(s)' /\ block'[s] = b
                    \/ \E o \in outcomes' : o.block = b
  BY DEF Accounted
<1> USE DEF Holds
<1>1. ASSUME NEW s \in Slots, Claim(s)
      PROVE  \/ \E t \in Slots : Holds(t)' /\ block'[t] = b
             \/ \E o \in outcomes' : o.block = b
  <2>1. next_block \in Nat /\ b \in Nat /\ pc[s] = "claim" /\ outcomes' = outcomes
        /\ next_block' = next_block + 1
        /\ \A t \in Slots \ {s} : pc'[t] = pc[t] /\ block'[t] = block[t]
    BY <1>1, PoolAssumption DEF Claim, Goto, TypeOK, Blocks
  <2>2. CASE b < next_block
    <3>1. CASE \E t \in Slots : Holds(t) /\ block[t] = b
      BY <2>1, <3>1
    <3>2. CASE \E o \in outcomes : o.block = b
      BY <2>1, <3>2
    <3> QED
      BY <2>2, <3>1, <3>2 DEF Accounted
  <2>3. CASE b = next_block
    <3>1. next_block < Total
      BY <2>3, PoolAssumption DEF Blocks
    <3>2. block'[s] = b /\ pc'[s] \in {"fetch", "barrier"}
      BY <1>1, <2>1, <2>3, <3>1, PoolAssumption DEF Claim, Goto, TypeOK
    <3> QED
      BY <3>2
  <2> QED
    BY <2>1, <2>2, <2>3
<1>2. ASSUME NEW s \in Slots, Fetch(s)
      PROVE  \/ \E t \in Slots : Holds(t)' /\ block'[t] = b
             \/ \E o \in outcomes' : o.block = b
  <2>1. PICK e \in Ends : outcomes' = outcomes \cup {[slot |-> s, block |-> block[s], end |-> e]}
    BY <1>2 DEF Fetch
  <2>2. /\ block' = block /\ next_block' = next_block
        /\ \A t \in Slots \ {s} : pc'[t] = pc[t]
    BY <1>2 DEF Fetch, Goto, TypeOK
  <2>3. CASE block[s] = b
    <3> DEFINE o == [slot |-> s, block |-> block[s], end |-> e]
    <3>1. o \in outcomes' /\ o.block = b
      BY <2>1, <2>3
    <3> QED
      BY <3>1
  <2>4. CASE block[s] # b
    <3>1. CASE \E t \in Slots : Holds(t) /\ block[t] = b
      BY <2>2, <2>4, <3>1
    <3>2. CASE \E o \in outcomes : o.block = b
      BY <2>1, <3>2
    <3> QED
      BY <2>2, <3>1, <3>2 DEF Accounted
  <2> QED
    BY <2>3, <2>4
<1>3. ASSUME UNCHANGED <<next_block, block, outcomes>>,
             \A t \in Slots : Holds(t) => Holds(t)'
      PROVE  \/ \E t \in Slots : Holds(t)' /\ block'[t] = b
             \/ \E o \in outcomes' : o.block = b
  BY <1>3 DEF Accounted
<1>4. ASSUME NEW s \in Slots, Arrive(s) \/ Release(s) \/ StartClock(s) \/ FindEmpty(s)
      PROVE  UNCHANGED <<next_block, block, outcomes>> /\ \A t \in Slots : Holds(t) => Holds(t)'
  BY <1>4 DEF Arrive, Release, StartClock, FindEmpty, Goto, TypeOK
<1>5. CASE Judge \/ UNCHANGED vars
  BY <1>3, <1>5 DEF Judge, vars
<1> QED
  BY <1>1, <1>2, <1>3, <1>4, <1>5 DEF Next, Slot, Exited

\* Every step is one of WorkPool's, or a stutter.
LEMMA PoolStep ==
  IInv /\ Accounted /\ [Next]_vars => [Pool!Next]_<<Fated, verdict>>
<1> SUFFICES ASSUME IInv, Accounted, [Next]_vars
             PROVE  Pool!Next \/ UNCHANGED <<Fated, verdict>>
  OBVIOUS
<1>0. TypeOK /\ Drawn /\ EachBlockOnce /\ IdleLast
  BY DEF IInv, Inv
<1>1. ASSUME NEW s \in Slots, Claim(s) PROVE Pool!Next \/ UNCHANGED <<Fated, verdict>>
  <2>1. next_block \in Nat /\ pc[s] = "claim" /\ outcomes' = outcomes /\ verdict' = verdict
    BY <1>0, <1>1 DEF Claim, TypeOK
  <2>2. CASE next_block >= Total /\ Goto(s, "empty") /\ UNCHANGED block
    <3>1. \A t \in Slots : Holds(t)' <=> Holds(t)
      BY <1>0, <2>1, <2>2 DEF Goto, TypeOK, Holds
    <3>2. Fated' = Fated
      BY <2>1, <2>2, <3>1, SameFates
    <3> QED
      BY <2>1, <3>2
  <2>3. CASE /\ next_block < Total
             /\ block' = [block EXCEPT ![s] = next_block]
             /\ Goto(s, IF drew[s] THEN "fetch" ELSE "barrier")
    <3>1. PICK b \in Blocks : b = next_block
      BY <2>1, <2>3, PoolAssumption DEF Blocks
    <3>2. /\ Holds(s)' /\ ~Holds(s) /\ block'[s] = b
          /\ \A t \in Slots \ {s} : (Holds(t)' <=> Holds(t)) /\ block'[t] = block[t]
      BY <1>0, <2>1, <2>3, <3>1 DEF Goto, TypeOK, Holds
    <3>3. \A t \in Slots : Holds(t) => block[t] # b
      BY <1>0, <2>1, <3>1, PoolAssumption DEF Drawn, TypeOK, Blocks
    <3>4. \A o \in outcomes : o.block # b
      BY <1>0, <2>1, <3>1, PoolAssumption DEF Drawn, TypeOK, Blocks
    <3>5. Fate(b) = "left" /\ Fate(b)' = "out"
      <4>1. Fate(b) = "left"
        BY <3>3, <3>4 DEF Fate
      <4>2. (\E t \in Slots : Holds(t)' /\ block'[t] = b) /\ ~\E o \in outcomes' : o.block = b
        BY <2>1, <3>2, <3>4
      <4> QED
        BY <4>1, <4>2 DEF Fate
    <3>6. \A c \in Blocks \ {b} : Fate(c)' = Fate(c)
      BY <2>1, <3>2 DEF Fate
    <3>7. Fated' = [Fated EXCEPT ![b] = "out"] /\ Fated[b] = "left"
      BY <3>1, <3>5, <3>6 DEF Fated
    <3>8. Pool!Take(b)
      BY <2>1, <3>7 DEF Pool!Take, Fated
    <3> QED
      BY <3>1, <3>8 DEF Pool!Next
  <2> QED
    BY <1>1, <2>2, <2>3 DEF Claim
<1>2. ASSUME NEW s \in Slots, Fetch(s) PROVE Pool!Next \/ UNCHANGED <<Fated, verdict>>
  <2>0. PICK b \in Blocks : b = block[s]
    BY <1>0 DEF TypeOK
  <2>1. PICK e \in Ends : outcomes' = outcomes \cup {[slot |-> s, block |-> b, end |-> e]}
    BY <1>2, <2>0 DEF Fetch
  <2>2. /\ Holds(s) /\ ~Holds(s)' /\ block' = block /\ verdict' = verdict
        /\ \A t \in Slots \ {s} : Holds(t)' <=> Holds(t)
    BY <1>0, <1>2 DEF Fetch, Goto, TypeOK, Holds
  <2>3. \A o \in outcomes : o.block # b
    BY <1>0, <2>0, <2>2 DEF EachBlockOnce
  <2>4. Fate(b) = "out"
    BY <2>0, <2>2, <2>3 DEF Fate
  <2>5. Fate(b)' \in {"clean", "broken"}
    <3> DEFINE o == [slot |-> s, block |-> b, end |-> e]
    <3>1. o \in outcomes' /\ o.block = b
      BY <2>1
    <3> QED
      BY <3>1 DEF Fate
  <2>6. ASSUME NEW c \in Blocks \ {b} PROVE Fate(c)' = Fate(c)
    <3>1. /\ (\E o \in outcomes' : o.block = c) <=> (\E o \in outcomes : o.block = c)
          /\ (\A o \in outcomes' : o.block = c => o.end.clean)
               <=> (\A o \in outcomes : o.block = c => o.end.clean)
      BY <2>1, <2>6
    <3>2. (\E t \in Slots : Holds(t)' /\ block'[t] = c) <=> (\E t \in Slots : Holds(t) /\ block[t] = c)
      BY <2>0, <2>2, <2>6
    <3> QED
      BY <3>1, <3>2 DEF Fate
  <2>7. Fated' = [Fated EXCEPT ![b] = Fate(b)'] /\ Fated[b] = "out"
    BY <2>2, <2>4, <2>6 DEF Fated
  <2>8. Pool!Finish(b)
    BY <2>2, <2>5, <2>7 DEF Pool!Finish, Fated
  <2> QED
    BY <2>2, <2>8 DEF Pool!Next
<1>3. ASSUME NEW s \in Slots, Arrive(s) \/ Release(s) \/ StartClock(s) \/ FindEmpty(s)
      PROVE  UNCHANGED <<Fated, verdict>>
  <2>1. UNCHANGED <<block, outcomes, verdict>> /\ \A t \in Slots : Holds(t)' <=> Holds(t)
    BY <1>0, <1>3 DEF Arrive, Release, StartClock, FindEmpty, Goto, TypeOK, Holds
  <2> QED
    BY <2>1, SameFates
<1>4. CASE Judge
  <2>1. /\ UNCHANGED <<pc, block, outcomes>> /\ verdict = "none"
        /\ \A s \in Slots : pc[s] = "done"
        /\ verdict' = "INCOMPLETE" \/ (verdict' = "COMPLETE" /\ \A o \in outcomes : o.end.clean)
    BY <1>4 DEF Judge
  <2>2. Fated' = Fated
    BY <2>1, SameFates DEF Holds
  <2>3. PICK s \in Slots : TRUE
    <3>1. PICK w \in Workers, c \in Conns : TRUE
      BY PoolAssumption
    <3>2. <<w, c>> \in Slots
      BY DEF Slots
    <3> QED
      BY <3>2
  <2>4. next_block > Total
    BY <1>0, <2>1, <2>3 DEF IdleLast
  <2>5. \A b \in Blocks : \E o \in outcomes : o.block = b
    <3>1. \A b \in Blocks : b < next_block
      BY <1>0, <2>4, PoolAssumption DEF Blocks, TypeOK
    <3>2. \A t \in Slots : ~Holds(t)
      BY <2>1 DEF Holds
    <3> QED
      BY <3>1, <3>2 DEF Accounted
  <2>6. \A b \in Blocks : Fated[b] \in {"clean", "broken"}
    BY <2>5 DEF Fated, Fate
  <2>7. verdict' = "COMPLETE" => \A b \in Blocks : Fated[b] = "clean"
    BY <2>1, <2>5 DEF Fated, Fate
  <2>8. Pool!Answer
    BY <2>1, <2>2, <2>6, <2>7 DEF Pool!Answer, Fated
  <2> QED
    BY <2>8 DEF Pool!Next
<1>5. CASE UNCHANGED vars
  <2>1. UNCHANGED <<block, outcomes, verdict, pc>>
    BY <1>5 DEF vars
  <2> QED
    BY <2>1, SameFates DEF Holds
<1> QED
  BY <1>1, <1>2, <1>3, <1>4, <1>5 DEF Next, Slot, Exited

\* The client's threads, counter and barriers do what WorkPool promises of the blocks, for
\* any number of workers, slots and blocks (main.rs, the pool and main's joins).
THEOREM BlockPoolImplementsWorkPool == Spec => ImplementsWorkPool
<1>1. Init => Pool!Init /\ Accounted
  <2> SUFFICES ASSUME Init PROVE Pool!Init /\ Accounted
    OBVIOUS
  <2>1. next_block = 0 /\ outcomes = {} /\ verdict = "none" /\ \A s \in Slots : ~Holds(s)
    BY DEF Init, Holds
  <2>2. \A b \in Blocks : Fate(b) = "left"
    BY <2>1 DEF Fate
  <2>3. \A b \in Blocks : ~(b < next_block)
    BY <2>1, PoolAssumption DEF Blocks
  <2> QED
    BY <2>1, <2>2, <2>3 DEF Pool!Init, Accounted
<1>2. TypeOK /\ Accounted /\ [Next]_vars => Accounted'
  BY AccountedStep
<1>3. IInv => TypeOK
  BY DEF IInv
<1>4. IInv /\ Accounted /\ [Next]_vars => [Pool!Next]_<<[b \in Blocks |-> Fate(b)], verdict>>
  BY PoolStep DEF Fated
<1> QED
  BY Invariant, <1>1, <1>2, <1>3, <1>4, PTL DEF Spec, ImplementsWorkPool, Pool!Spec
=============================================================================
