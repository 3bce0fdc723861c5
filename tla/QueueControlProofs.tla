-------------------------- MODULE QueueControlProofs --------------------------
(***************************************************************************)
(* That two runners never share a queue's directory, for any number of     *)
(* submits, stops, pids and seconds.  A directory is claimed by the submit *)
(* whose mkdir made it, from then until it spawns its runner, and by that  *)
(* runner; mkdir fails on a directory that is there, so a directory has at *)
(* most one claim, and a crashed runner's is never claimed again.          *)
(***************************************************************************)
EXTENDS QueueControl, FiniteSetTheorems, TLAPS

State == [status : Statuses, pid : Pids \cup {0}]
SubPc == {"idle", "refused", "look", "ask", "mkdir", "write", "truncate", "name", "spawn", "queued"}
RunnerPc == {"init", "handling", "plan", "child", "close", "exit"}

\* TypeOK, by who writes it.
FilesOK ==
    /\ sec \in Queues /\ dirs \subseteq Queues /\ latest \in Queues \cup {NoQueue}
    /\ file \in [Queues -> State]
TableOK ==
    /\ owner \in [Pids -> Queues \cup {Nobody, Other}]
    /\ \A p \in Pids : rpc[p] # "none" <=> owner[p] \in Queues
    /\ rpc \in [Pids -> {"none"} \cup RunnerPc]
    /\ stopping \in [Pids -> BOOLEAN]
CloudOK == kids \subseteq Queues /\ up \subseteq Queues
SubmitsOK ==
    /\ seen \in [Submits -> State]
    /\ sub \in [Submits -> [pc : SubPc, q : Queues \cup {NoQueue}]]
    /\ overlapped \in BOOLEAN
StopsOK ==
    /\ stp \in [Stops -> {"idle", "failed", "not running", "kill", "killed itself", "wait", "done"}]
    /\ aim \in [Stops -> Pids \cup {0}]

\* The submit has made its directory and not yet spawned its runner.
Holding(s) == sub[s].pc \in {"write", "truncate", "name", "spawn"}

\* What is claimed is there, and nothing is claimed twice.
Claims ==
    /\ \A s \in Submits : Holding(s) => sub[s].q \in dirs
    /\ \A p \in Pids : rpc[p] # "none" => owner[p] \in dirs
    /\ \A s, t \in Submits : Holding(s) /\ Holding(t) /\ sub[s].q = sub[t].q => s = t
    /\ \A s \in Submits, p \in Pids : Holding(s) /\ rpc[p] # "none" => owner[p] # sub[s].q
    /\ \A p, r \in Pids : rpc[p] # "none" /\ rpc[r] # "none" /\ owner[p] = owner[r] => p = r

IInv == FilesOK /\ TableOK /\ CloudOK /\ SubmitsOK /\ StopsOK /\ Claims

-----------------------------------------------------------------------------
(***************************************************************************)
(* What the steps are made of.                                             *)
(***************************************************************************)

LEMMA AbsentIsAState == Absent \in State
BY DEF Absent, State, Statuses

\* A part that a step leaves alone.
LEMMA Kept ==
    /\ FilesOK /\ UNCHANGED <<sec, files>> => FilesOK'
    /\ TableOK /\ UNCHANGED table => TableOK'
    /\ CloudOK /\ UNCHANGED cloud => CloudOK'
    /\ SubmitsOK /\ UNCHANGED submits => SubmitsOK'
    /\ StopsOK /\ UNCHANGED stops => StopsOK'
    /\ Claims /\ UNCHANGED <<dirs, sub, owner, rpc>> => Claims'
<1>1. FilesOK /\ UNCHANGED <<sec, files>> => FilesOK' BY DEF FilesOK, files
<1>2. TableOK /\ UNCHANGED table => TableOK' BY DEF TableOK, table
<1>3. CloudOK /\ UNCHANGED cloud => CloudOK' BY DEF CloudOK, cloud
<1>4. SubmitsOK /\ UNCHANGED submits => SubmitsOK' BY DEF SubmitsOK, submits
<1>5. StopsOK /\ UNCHANGED stops => StopsOK' BY DEF StopsOK, stops
<1>6. Claims /\ UNCHANGED <<dirs, sub, owner, rpc>> => Claims' BY DEF Claims, Holding
<1> QED BY <1>1, <1>2, <1>3, <1>4, <1>5, <1>6

\* A submit goes on within its queue; it makes no claim that it did not have.
LEMMA StepOK ==
    ASSUME SubmitsOK, Claims, NEW s \in Submits, NEW l \in SubPc, Step(s, l),
           l \in {"write", "truncate", "name", "spawn"} => Holding(s),
           UNCHANGED <<dirs, owner, rpc>>
    PROVE  /\ sub' \in [Submits -> [pc : SubPc, q : Queues \cup {NoQueue}]]
           /\ Claims'
<1>1. sub' \in [Submits -> [pc : SubPc, q : Queues \cup {NoQueue}]] BY DEF SubmitsOK, Step
<1>2. \A t \in Submits : sub'[t].q = sub[t].q /\ sub'[t].pc = IF t = s THEN l ELSE sub[t].pc
  BY DEF SubmitsOK, Step
<1>3. \A t \in Submits : Holding(t)' => Holding(t) BY <1>2 DEF Holding
<1>4. Claims' BY <1>2, <1>3 DEF Claims
<1> QED BY <1>1, <1>4

LEMMA SaveOK ==
    ASSUME FilesOK, NEW p \in Pids, NEW v \in Statuses, Save(p, v), UNCHANGED <<sec, dirs, latest>>
    PROVE  FilesOK'
<1>1. [status |-> v, pid |-> p] \in State BY DEF State
<1> QED BY <1>1 DEF FilesOK, Save

\* A runner goes on, and keeps its claim.
LEMMA GotoOK ==
    ASSUME TableOK, Claims, NEW p \in Pids, rpc[p] # "none", NEW l \in RunnerPc, Goto(p, l),
           UNCHANGED <<dirs, sub>>
    PROVE  TableOK' /\ Claims'
<1>1. l # "none" BY DEF RunnerPc
<1>2. \A r \in Pids : rpc'[r] # "none" <=> rpc[r] # "none" BY <1>1 DEF TableOK, Goto
<1>3. TableOK' BY <1>2 DEF TableOK, Goto
<1>4. Claims' BY <1>2 DEF Claims, Holding, Goto
<1> QED BY <1>3, <1>4

\* A process is gone, and its claim with it.
LEMMA FreeOK ==
    ASSUME TableOK, Claims, NEW p \in Pids, Free(p), UNCHANGED <<dirs, sub>>
    PROVE  TableOK' /\ Claims'
<1>1. Nobody \notin Queues BY QueueControlAssumption DEF Nobody
<1>2. TableOK' BY <1>1 DEF TableOK, Free
<1>3. \A r \in Pids : rpc'[r] # "none" => rpc[r] # "none" /\ owner'[r] = owner[r]
  BY DEF TableOK, Free
<1>4. Claims' BY <1>3 DEF Claims, Holding
<1> QED BY <1>2, <1>4

\* Nothing is there, and so nothing is claimed.
LEMMA InitIInv == Init => IInv
<1> SUFFICES ASSUME Init PROVE IInv OBVIOUS
<1>1. FilesOK BY AbsentIsAState DEF Init, FilesOK
<1>2. TableOK BY QueueControlAssumption DEF Init, TableOK, Nobody
<1>3. CloudOK BY DEF Init, CloudOK
<1>4. SubmitsOK
  <2>1. seen \in [Submits -> State] BY AbsentIsAState DEF Init
  <2>2. sub \in [Submits -> [pc : SubPc, q : Queues \cup {NoQueue}]] BY DEF Init, SubPc
  <2> QED BY <2>1, <2>2 DEF Init, SubmitsOK
<1>5. StopsOK BY DEF Init, StopsOK
<1>6. Claims BY DEF Init, Claims, Holding
<1> QED BY <1>1, <1>2, <1>3, <1>4, <1>5, <1>6 DEF IInv

-----------------------------------------------------------------------------
(***************************************************************************)
(* The steps.                                                              *)
(***************************************************************************)

\* A submit: MkDir makes a claim that nobody has, Spawn hands it on.
LEMMA SubmitIInv ==
    ASSUME IInv, NEW s \in Submits, Submit(s)
    PROVE  IInv'
<1> USE DEF IInv
<1>1. CASE Preflight(s)
  <2>1. seen' \in [Submits -> State] BY <1>1, AbsentIsAState DEF Preflight, SubmitsOK, FilesOK
  <2>2. overlapped' \in BOOLEAN BY <1>1 DEF Preflight, SubmitsOK
  <2>3. sub' \in [Submits -> [pc : SubPc, q : Queues \cup {NoQueue}]] /\ Claims'
    BY <1>1, StepOK DEF Preflight, SubPc, files, table
  <2>4. SubmitsOK' BY <2>1, <2>2, <2>3 DEF SubmitsOK
  <2> QED BY <1>1, <2>3, <2>4, Kept DEF Preflight
<1>2. CASE Look(s)
  <2>1. sub' \in [Submits -> [pc : SubPc, q : Queues \cup {NoQueue}]] /\ Claims'
    BY <1>2, StepOK DEF Look, SubPc, files, table
  <2>2. SubmitsOK' BY <1>2, <2>1 DEF Look, SubmitsOK
  <2> QED BY <1>2, <2>1, <2>2, Kept DEF Look
<1>3. CASE Ask(s)
  <2>1. sub' \in [Submits -> [pc : SubPc, q : Queues \cup {NoQueue}]] /\ Claims'
    BY <1>3, StepOK DEF Ask, SubPc, files, table
  <2>2. SubmitsOK' BY <1>3, <2>1 DEF Ask, SubmitsOK
  <2> QED BY <1>3, <2>1, <2>2, Kept DEF Ask
<1>4. CASE MkDir(s)
  <2>1. FilesOK' BY <1>4 DEF MkDir, FilesOK
  <2>2. CASE sec \in dirs
    <3>1. sub' \in [Submits -> [pc : SubPc, q : Queues \cup {NoQueue}]] /\ Claims'
      BY <1>4, <2>2, StepOK DEF MkDir, SubPc, table
    <3>2. SubmitsOK' BY <1>4, <3>1 DEF MkDir, SubmitsOK
    <3> QED BY <1>4, <2>1, <3>1, <3>2, Kept DEF MkDir
  <2>3. CASE sec \notin dirs
    <3>1. sub' = [sub EXCEPT ![s] = [pc |-> "write", q |-> sec]] /\ dirs' = dirs \cup {sec}
      BY <1>4, <2>3 DEF MkDir
    <3>2. [pc |-> "write", q |-> sec] \in [pc : SubPc, q : Queues \cup {NoQueue}]
      BY DEF SubPc, FilesOK
    <3>3. SubmitsOK' BY <1>4, <3>1, <3>2 DEF MkDir, SubmitsOK
    <3>4. \A t \in Submits : IF t = s THEN Holding(t)' /\ sub'[t].q = sec
                             ELSE Holding(t)' = Holding(t) /\ sub'[t].q = sub[t].q
      BY <3>1 DEF Holding, SubmitsOK
    <3>5. UNCHANGED <<owner, rpc>> BY <1>4 DEF MkDir, table
    <3>6. Claims' BY <2>3, <3>1, <3>4, <3>5 DEF Claims
    <3> QED BY <1>4, <2>1, <3>3, <3>6, Kept DEF MkDir
  <2> QED BY <2>2, <2>3
<1>5. CASE WriteState(s)
  <2>1. sub' \in [Submits -> [pc : SubPc, q : Queues \cup {NoQueue}]] /\ Claims'
    BY <1>5, StepOK DEF WriteState, SubPc, files, table, Holding
  <2>2. SubmitsOK' BY <1>5, <2>1 DEF WriteState, SubmitsOK
  <2>3. [status |-> "starting", pid |-> 0] \in State BY DEF State, Statuses
  <2>4. FilesOK' BY <1>5, <2>3 DEF WriteState, FilesOK
  <2> QED BY <1>5, <2>1, <2>2, <2>4, Kept DEF WriteState
<1>6. CASE Truncate(s)
  <2>1. sub' \in [Submits -> [pc : SubPc, q : Queues \cup {NoQueue}]] /\ Claims'
    BY <1>6, StepOK DEF Truncate, SubPc, files, table, Holding
  <2>2. SubmitsOK' BY <1>6, <2>1 DEF Truncate, SubmitsOK
  <2>3. FilesOK' BY <1>6 DEF Truncate, FilesOK
  <2> QED BY <1>6, <2>1, <2>2, <2>3, Kept DEF Truncate
<1>7. CASE WriteLatest(s)
  <2>1. sub' \in [Submits -> [pc : SubPc, q : Queues \cup {NoQueue}]] /\ Claims'
    BY <1>7, StepOK DEF WriteLatest, SubPc, files, table, Holding
  <2>2. SubmitsOK' BY <1>7, <2>1 DEF WriteLatest, SubmitsOK
  <2>3. FilesOK' BY <1>7 DEF WriteLatest, FilesOK, SubmitsOK
  <2> QED BY <1>7, <2>1, <2>2, <2>3, Kept DEF WriteLatest
<1>8. CASE Spawn(s)
  <2>1. PICK p \in Pids : /\ owner[p] = Nobody
                          /\ owner' = [owner EXCEPT ![p] = sub[s].q]
                          /\ rpc' = [rpc EXCEPT ![p] = "init"]
                          /\ stopping' = [stopping EXCEPT ![p] = FALSE]
    BY <1>8 DEF Spawn
  <2>2. Holding(s) /\ sub[s].q \in dirs /\ sub[s].q \in Queues
    BY <1>8 DEF Spawn, Holding, Claims, FilesOK
  <2>3. rpc[p] = "none"
    BY <2>1, QueueControlAssumption DEF TableOK, Nobody
  <2>4. TableOK' BY <2>1, <2>2 DEF TableOK, RunnerPc
  <2>5. sub' \in [Submits -> [pc : SubPc, q : Queues \cup {NoQueue}]]
    BY <1>8 DEF Spawn, Step, SubPc, SubmitsOK
  <2>6. SubmitsOK' BY <1>8, <2>5 DEF Spawn, SubmitsOK
  <2>7. \A t \in Submits : Holding(t)' => t # s /\ Holding(t) /\ sub'[t].q = sub[t].q
    BY <1>8 DEF Spawn, Step, Holding, SubmitsOK
  <2>8. \A r \in Pids : rpc'[r] # "none" /\ r # p => rpc[r] # "none" /\ owner'[r] = owner[r]
    BY <2>1 DEF TableOK
  <2>9. rpc'[p] = "init" /\ owner'[p] = sub[s].q BY <2>1 DEF TableOK
  <2>10. dirs' = dirs BY <1>8 DEF Spawn, files
  <2>11. Claims' BY <2>2, <2>7, <2>8, <2>9, <2>10 DEF Claims
  <2> QED BY <1>8, <2>4, <2>6, <2>11, Kept DEF Spawn
<1>9. CASE GiveUp(s)
  <2>1. sub' \in [Submits -> [pc : SubPc, q : Queues \cup {NoQueue}]] /\ Claims'
    BY <1>9, StepOK DEF GiveUp, SubPc, files, table
  <2>2. SubmitsOK' BY <1>9, <2>1 DEF GiveUp, SubmitsOK
  <2> QED BY <1>9, <2>1, <2>2, Kept DEF GiveUp
<1> QED
  BY <1>1, <1>2, <1>3, <1>4, <1>5, <1>6, <1>7, <1>8, <1>9 DEF Submit

\* A runner, or its crash: only Exit and Crash give its claim up.
LEMMA RunnerIInv ==
    ASSUME IInv, NEW p \in Pids, Runner(p) \/ Crash(p)
    PROVE  IInv'
<1> USE DEF IInv
<1>1. CASE TakeSignals(p)
  <2>1. TableOK' /\ Claims' BY <1>1, GotoOK DEF TakeSignals, RunnerPc, files, submits
  <2> QED BY <1>1, <2>1, Kept DEF TakeSignals
<1>2. CASE Begin(p)
  <2>1. TableOK' /\ Claims' BY <1>2, GotoOK DEF Begin, RunnerPc, submits
  <2>2. FilesOK' BY <1>2, SaveOK, Kept DEF Begin, Statuses, Live, Over, files
  <2> QED BY <1>2, <2>1, <2>2, Kept DEF Begin
<1>3. CASE StartChild(p)
  <2>1. TableOK' /\ Claims' BY <1>3, GotoOK DEF StartChild, RunnerPc, submits
  <2>2. FilesOK' BY <1>3, SaveOK, Kept DEF StartChild, Statuses, Live, Over, files
  <2>3. CloudOK' BY <1>3 DEF StartChild, CloudOK, TableOK
  <2> QED BY <1>3, <2>1, <2>2, <2>3, Kept DEF StartChild
<1>4. CASE ReapChild(p)
  <2>1. TableOK' /\ Claims' BY <1>4, GotoOK DEF ReapChild, RunnerPc, submits
  <2>2. FilesOK' BY <1>4, SaveOK, Kept DEF ReapChild, Statuses, Live, Over, files
  <2> QED BY <1>4, <2>1, <2>2, Kept DEF ReapChild
<1>5. CASE EndPlan(p)
  <2>1. TableOK' /\ Claims' BY <1>5, GotoOK DEF EndPlan, RunnerPc, submits, files
  <2>2. CloudOK' BY <1>5 DEF EndPlan, CloudOK
  <2> QED BY <1>5, <2>1, <2>2, Kept DEF EndPlan
<1>6. CASE Close(p)
  <2>1. TableOK' /\ Claims' BY <1>6, GotoOK DEF Close, RunnerPc, submits
  <2>2. FilesOK' BY <1>6, SaveOK, Kept DEF Close, Statuses, Live, Over, files
  <2> QED BY <1>6, <2>1, <2>2, Kept DEF Close
<1>7. CASE Exit(p)
  <2>1. TableOK' /\ Claims' BY <1>7, FreeOK DEF Exit, files, submits
  <2> QED BY <1>7, <2>1, Kept DEF Exit
<1>8. CASE Crash(p)
  <2>1. TableOK' /\ Claims' BY <1>8, FreeOK DEF Crash, files, submits
  <2> QED BY <1>8, <2>1, Kept DEF Crash
<1> QED
  BY <1>1, <1>2, <1>3, <1>4, <1>5, <1>6, <1>7, <1>8 DEF Runner

\* A stop: a runner that has not taken its signals dies of them.
LEMMA StopIInv ==
    ASSUME IInv, NEW t \in Stops, Stop(t)
    PROVE  IInv'
<1> USE DEF IInv
<1>1. CASE ReadPid(t)
  <2>1. latest # NoQueue => file[latest].pid \in Pids \cup {0} BY DEF FilesOK, State
  <2>2. StopsOK' BY <1>1, <2>1 DEF ReadPid, StopsOK
  <2>3. Claims' BY <1>1, Kept DEF ReadPid, files, table, submits
  <2> QED BY <1>1, <2>2, <2>3, Kept DEF ReadPid
<1>2. CASE Term(t)
  <2>1. StopsOK' BY <1>2 DEF Term, StopsOK
  <2>2. UNCHANGED <<dirs, sub>> BY <1>2 DEF Term, files, submits
  <2>3. TableOK' /\ Claims'
    <3>1. CASE UNCHANGED table BY <2>2, <3>1, Kept DEF table
    <3>2. CASE aim[t] \in Pids /\ Free(aim[t]) BY <2>2, <3>2, FreeOK
    <3>3. CASE /\ stopping' = [stopping EXCEPT ![aim[t]] = TRUE]
               /\ UNCHANGED <<owner, rpc>>
      BY <2>2, <3>3, Kept DEF TableOK
    <3> QED BY <1>2, <3>1, <3>2, <3>3 DEF Term, StopsOK
  <2> QED BY <1>2, <2>1, <2>3, Kept DEF Term
<1>3. CASE Wait(t)
  <2>1. StopsOK' BY <1>3 DEF Wait, StopsOK
  <2>2. Claims' BY <1>3, Kept DEF Wait, files, table, submits
  <2> QED BY <1>3, <2>1, <2>2, Kept DEF Wait
<1> QED BY <1>1, <1>2, <1>3 DEF Stop

\* The children, the kernel's other processes and the clock claim nothing.
LEMMA WorldIInv ==
    ASSUME IInv, World
    PROVE  IInv'
<1> USE DEF IInv
<1>1. ASSUME NEW q \in Queues, ChildLaunch(q) \/ Taken(q) \/ ChildExit(q) PROVE IInv'
  <2>1. CloudOK' BY <1>1 DEF ChildLaunch, Taken, ChildExit, CloudOK
  <2>2. UNCHANGED <<sec, files, table, submits, stops>> BY <1>1 DEF ChildLaunch, Taken, ChildExit
  <2>3. Claims' BY <2>2, Kept DEF files, table, submits
  <2> QED BY <2>1, <2>2, <2>3, Kept
<1>2. ASSUME NEW p \in Pids, Process(p) PROVE IInv'
  <2>1. Nobody \notin Queues /\ Other \notin Queues BY QueueControlAssumption DEF Nobody, Other
  <2>2. TableOK' BY <1>2, <2>1 DEF Process, TableOK
  <2>3. \A r \in Pids : rpc[r] # "none" => owner'[r] = owner[r]
    BY <1>2, <2>1 DEF Process, TableOK
  <2>4. UNCHANGED <<dirs, sub, rpc>> BY <1>2 DEF Process, files, submits
  <2>5. Claims' BY <2>3, <2>4 DEF Claims, Holding
  <2> QED BY <1>2, <2>2, <2>5, Kept DEF Process
<1>3. ASSUME NEW p \in Pids, Crash(p) PROVE IInv'
  BY <1>3, RunnerIInv
<1>4. CASE Tick
  <2>1. FilesOK' BY <1>4 DEF Tick, FilesOK, files
  <2>2. Claims' BY <1>4, Kept DEF Tick, files, table, submits
  <2> QED BY <1>4, <2>1, <2>2, Kept DEF Tick
<1> QED BY <1>1, <1>2, <1>3, <1>4 DEF World

THEOREM Inductive == Spec => []IInv
<1>1. IInv /\ UNCHANGED vars => IInv'
  <2> SUFFICES ASSUME IInv, UNCHANGED vars PROVE IInv' OBVIOUS
  <2>1. UNCHANGED <<sec, files, table, cloud, submits, stops, dirs, sub, owner, rpc>>
    BY DEF vars, files, table, cloud, submits, stops
  <2> QED BY <2>1, Kept DEF IInv
<1>2. IInv /\ [Next]_vars => IInv'
  BY <1>1, SubmitIInv, RunnerIInv, StopIInv, WorldIInv DEF Next
<1> QED BY InitIInv, <1>2, PTL DEF Spec

\* Every variable of Queue control has its type, and a pid has a runner exactly when it is
\* a queue's.
THEOREM TypeCorrect == Spec => []TypeOK
<1>1. IInv => TypeOK
  BY DEF IInv, TypeOK, FilesOK, TableOK, CloudOK, SubmitsOK, StopsOK, State, SubPc, RunnerPc
<1> QED BY Inductive, <1>1, PTL

\* However many submits race, crash and are stopped, no two runners write one state.json.
THEOREM NoSharedDirectory == Spec => []OneRunnerEach
<1>1. IInv => OneRunnerEach
  BY DEF IInv, Claims, OneRunnerEach, Runners
<1> QED BY Inductive, <1>1, PTL

-----------------------------------------------------------------------------
(***************************************************************************)
(* One queue at a time.  As long as no submit looked too early, at most    *)
(* one submit is being set up, and past its look no runner is at work; and *)
(* what a runner at work has saved is what LATEST leads to, so that a      *)
(* submit that looks is refused.                                           *)
(***************************************************************************)

Past(s) == sub[s].pc \in {"ask", "mkdir", "write", "truncate", "name", "spawn"}
Working(p) == rpc[p] \in {"init", "handling", "plan", "child", "close"}
Settled(p) == rpc[p] \in {"plan", "child", "close"}
Shows(state, p) == state.status \in Live /\ state.pid = p

Alone ==
    /\ \A s, t \in Submits : InSetup(s) /\ InSetup(t) => s = t
    /\ \A p, r \in Pids : Working(p) /\ Working(r) => p = r
    /\ \A s \in Submits, p \in Pids : Working(p) => ~Past(s)
    /\ \A s \in Submits, p \in Pids :
          sub[s].pc = "look" /\ Working(p) => Settled(p) /\ Shows(seen[s], p)
    /\ \A s \in Submits : sub[s].pc = "spawn" => latest = sub[s].q
    /\ \A p \in Pids : Working(p) => latest = owner[p]
    /\ \A p \in Pids : Settled(p) => Shows(file[latest], p)

Apart == overlapped \/ Alone

LEMMA InitApart == Init => Apart
BY DEF Init, Apart, Alone, InSetup, Past, Working, Settled

\* Alone is about the runners' places and the submits', seen, LATEST and the states.
LEMMA KeptApart ==
    Apart /\ UNCHANGED <<sub, seen, overlapped, rpc, owner, latest, file>> => Apart'
BY DEF Apart, Alone, InSetup, Past, Working, Settled, Shows

\* Fewer runners at work are no less alone.
LEMMA FewerApart ==
    ASSUME Apart, UNCHANGED <<sub, seen, overlapped, latest, file>>,
           \A p \in Pids : /\ Working(p)' => Working(p) /\ owner'[p] = owner[p]
                           /\ Settled(p)' => Settled(p)
                           /\ Working(p)' /\ Settled(p) => Settled(p)'
    PROVE  Apart'
BY DEF Apart, Alone, InSetup, Past, Shows

\* A submit that gives up, or goes on past its look, with nobody at work.
LEMMA OnApart ==
    ASSUME SubmitsOK, Apart, NEW s \in Submits, NEW l \in SubPc, Step(s, l), InSetup(s),
           l # "look", UNCHANGED <<seen, overlapped, rpc, owner>>,
           l \in {"refused", "queued"} => UNCHANGED <<latest, file>>,
           l \notin {"refused", "queued"} =>
               overlapped \/ \A p \in Pids : ~Working(p),
           l = "spawn" => latest' = sub[s].q
    PROVE  Apart'
<1> SUFFICES ASSUME Alone PROVE Apart'
  BY DEF Apart
<1>1. \A t \in Submits : sub'[t].q = sub[t].q /\ sub'[t].pc = IF t = s THEN l ELSE sub[t].pc
  BY DEF SubmitsOK, Step
<1>2. \A t \in Submits : t # s => ~InSetup(t) BY DEF Alone
<1>3. \A t \in Submits : InSetup(t)' => t = s BY <1>1, <1>2 DEF InSetup
<1>4. \A t \in Submits : t # s => ~Past(t)' /\ sub'[t].pc \notin {"look", "spawn"}
  BY <1>3 DEF Past, InSetup
<1>5. \A p \in Pids : (Working(p)' <=> Working(p)) /\ (Settled(p)' <=> Settled(p))
  BY DEF Working, Settled
<1>6. CASE l \in {"refused", "queued"}
  <2>1. ~Past(s)' /\ sub'[s].pc \notin {"look", "spawn"} BY <1>1, <1>6 DEF Past
  <2>2. Alone' BY <1>3, <1>4, <1>5, <1>6, <2>1 DEF Alone, Shows
  <2> QED BY <2>2 DEF Apart
<1>7. CASE l \notin {"refused", "queued"}
  <2>1. CASE overlapped BY <2>1 DEF Apart
  <2>2. CASE \A p \in Pids : ~Working(p)
    <3>1. \A p \in Pids : ~Working(p)' /\ ~Settled(p)' BY <1>5, <2>2 DEF Working, Settled
    <3>2. sub'[s].pc = "spawn" => latest' = sub'[s].q BY <1>1
    <3>3. Alone' BY <1>3, <1>4, <3>1, <3>2 DEF Alone
    <3> QED BY <3>3 DEF Apart
  <2> QED BY <1>7, <2>1, <2>2
<1> QED BY <1>6, <1>7

\* Whoever is past its look has nobody at work beside it.
LEMMA PastAlone ==
    ASSUME Apart, NEW s \in Submits, Past(s)
    PROVE  overlapped \/ \A p \in Pids : ~Working(p)
BY DEF Apart, Alone

LEMMA SubmitApart ==
    ASSUME IInv, Apart, NEW s \in Submits, Submit(s)
    PROVE  Apart'
<1> USE DEF IInv
<1>1. CASE Preflight(s)
  <2>1. UNCHANGED <<rpc, owner, latest, file>> BY <1>1 DEF Preflight, files, table
  <2>2. CASE Step(s, "refused") /\ UNCHANGED <<seen, overlapped>>
    <3>1. \A t \in Submits : sub'[t].q = sub[t].q
                             /\ sub'[t].pc = IF t = s THEN "refused" ELSE sub[t].pc
      BY <2>2 DEF SubmitsOK, Step
    <3>2. \A t \in Submits : /\ InSetup(t)' => InSetup(t)
                             /\ Past(t)' => Past(t)
                             /\ sub'[t].pc \in {"look", "spawn"} => sub'[t].pc = sub[t].pc
      BY <3>1 DEF InSetup, Past
    <3> QED BY <2>1, <2>2, <3>1, <3>2 DEF Apart, Alone, Working, Settled, Shows
  <2>3. CASE /\ Step(s, "look")
             /\ seen' = [seen EXCEPT ![s] = IF latest = NoQueue THEN Absent ELSE file[latest]]
             /\ overlapped' = (overlapped \/ Starting # {} \/ \E t \in Submits \ {s} : InSetup(t))
    <3> SUFFICES ASSUME ~overlapped' PROVE Alone'
      BY DEF Apart
    <3>1. /\ Alone /\ \A p \in Pids : rpc[p] \notin {"init", "handling"}
          /\ \A t \in Submits \ {s} : ~InSetup(t)
      BY <2>3 DEF Apart, Starting
    <3>2. \A t \in Submits : sub'[t].q = sub[t].q
                             /\ sub'[t].pc = IF t = s THEN "look" ELSE sub[t].pc
      BY <2>3 DEF SubmitsOK, Step
    <3>3. \A t \in Submits : t # s => ~InSetup(t)' /\ ~Past(t)' /\ sub'[t].pc \notin {"look", "spawn"}
      BY <3>1, <3>2 DEF InSetup, Past
    <3>4. ~Past(s)' /\ sub'[s].pc # "spawn" BY <3>2 DEF Past
    <3>5. \A p \in Pids : (Working(p)' <=> Working(p)) /\ (Settled(p)' <=> Settled(p))
                          /\ (Working(p) => Settled(p))
      BY <2>1, <3>1 DEF Working, Settled
    <3>6. \A p \in Pids : Working(p) => latest # NoQueue
      BY <3>1, QueueControlAssumption DEF Working, TableOK, Claims, FilesOK, Alone
    <3>7. \A p \in Pids : Working(p) => Shows(seen'[s], p)
      BY <2>3, <3>1, <3>5, <3>6 DEF Alone, SubmitsOK
    <3> QED BY <2>1, <3>1, <3>3, <3>4, <3>5, <3>7 DEF Alone, Shows
  <2> QED BY <1>1, <2>2, <2>3 DEF Preflight
<1>2. CASE Look(s)
  <2>1. Nobody \notin Queues BY QueueControlAssumption DEF Nobody
  <2>2. overlapped \/ (\A p \in Pids : ~Working(p))
        \/ (seen[s].status \in Live /\ alive(seen[s].pid))
    BY <1>2, <2>1 DEF Look, Apart, Alone, Working, Shows, alive, TableOK
  <2> QED BY <1>2, <2>2, OnApart DEF Look, SubPc, InSetup, files, table
<1>3. CASE Ask(s)
  <2>1. Past(s) /\ InSetup(s) BY <1>3 DEF Ask, Past, InSetup
  <2> QED BY <1>3, <2>1, PastAlone, OnApart DEF Ask, SubPc, files, table
<1>4. CASE MkDir(s)
  <2>1. Past(s) /\ InSetup(s) BY <1>4 DEF MkDir, Past, InSetup
  <2>2. CASE Step(s, "refused") BY <1>4, <2>1, <2>2, OnApart DEF MkDir, SubPc, table
  <2>3. CASE sub' = [sub EXCEPT ![s] = [pc |-> "write", q |-> sec]]
    <3> SUFFICES ASSUME ~overlapped, Alone PROVE Alone'
      BY <1>4 DEF Apart, MkDir
    <3>1. \A p \in Pids : ~Working(p) BY <2>1, PastAlone
    <3>2. \A p \in Pids : ~Working(p)' /\ ~Settled(p)'
      BY <1>4, <3>1 DEF MkDir, table, Working, Settled
    <3>3. \A t \in Submits : t # s => ~InSetup(t) BY <2>1 DEF Alone
    <3>4. sub'[s].pc = "write" /\ \A t \in Submits : t # s => sub'[t] = sub[t]
      BY <2>3 DEF SubmitsOK
    <3>5. \A t \in Submits : InSetup(t)' => t = s BY <3>3, <3>4 DEF InSetup
    <3>6. \A t \in Submits : sub'[t].pc # "spawn" BY <3>4, <3>5 DEF InSetup
    <3> QED BY <3>2, <3>5, <3>6 DEF Alone
  <2> QED BY <1>4, <2>2, <2>3 DEF MkDir
<1>5. CASE WriteState(s)
  <2>1. Past(s) /\ InSetup(s) BY <1>5 DEF WriteState, Past, InSetup
  <2> QED BY <1>5, <2>1, PastAlone, OnApart DEF WriteState, SubPc, table
<1>6. CASE Truncate(s)
  <2>1. Past(s) /\ InSetup(s) BY <1>6 DEF Truncate, Past, InSetup
  <2> QED BY <1>6, <2>1, PastAlone, OnApart DEF Truncate, SubPc, table
<1>7. CASE WriteLatest(s)
  <2>1. Past(s) /\ InSetup(s) BY <1>7 DEF WriteLatest, Past, InSetup
  <2> QED BY <1>7, <2>1, PastAlone, OnApart DEF WriteLatest, SubPc, table
<1>8. CASE Spawn(s)
  <2>1. PICK p \in Pids : /\ owner[p] = Nobody
                          /\ owner' = [owner EXCEPT ![p] = sub[s].q]
                          /\ rpc' = [rpc EXCEPT ![p] = "init"]
    BY <1>8 DEF Spawn
  <2>2. Past(s) /\ InSetup(s) /\ sub[s].pc = "spawn" BY <1>8 DEF Spawn, Past, InSetup
  <2>3. UNCHANGED <<latest, file, seen, overlapped>> BY <1>8 DEF Spawn, files
  <2> SUFFICES ASSUME ~overlapped, Alone PROVE Alone'
    BY <2>3 DEF Apart
  <2>4. \A r \in Pids : ~Working(r) /\ ~Settled(r) BY <2>2, PastAlone DEF Working, Settled
  <2>5. \A t \in Submits : t # s => ~InSetup(t) BY <2>2 DEF Alone
  <2>6. \A t \in Submits : sub'[t].q = sub[t].q
                           /\ sub'[t].pc = IF t = s THEN "queued" ELSE sub[t].pc
    BY <1>8 DEF Spawn, SubmitsOK, Step
  <2>7. \A t \in Submits : ~InSetup(t)' /\ ~Past(t)' /\ sub'[t].pc \notin {"look", "spawn"}
    BY <2>5, <2>6 DEF InSetup, Past
  <2>8. \A r \in Pids : Working(r)' => r = p BY <2>1, <2>4 DEF TableOK, Working
  <2>9. \A r \in Pids : ~Settled(r)' BY <2>1, <2>4 DEF TableOK, Settled
  <2>10. owner'[p] = sub[s].q /\ latest = sub[s].q BY <2>1, <2>2 DEF TableOK, Alone
  <2> QED BY <2>3, <2>7, <2>8, <2>9, <2>10 DEF Alone
<1>9. CASE GiveUp(s)
  <2> QED BY <1>9, OnApart DEF GiveUp, SubPc, files, table
<1> QED
  BY <1>1, <1>2, <1>3, <1>4, <1>5, <1>6, <1>7, <1>8, <1>9 DEF Submit

\* A runner at work goes on, and may save that it is.
LEMMA GoApart ==
    ASSUME IInv, Apart, NEW p \in Pids, Working(p),
           NEW l \in {"handling", "plan", "child", "close"}, Goto(p, l),
           l = "handling" => ~Settled(p),
           UNCHANGED <<sub, seen, overlapped, latest>>,
           \/ Settled(p) /\ UNCHANGED file
           \/ l = "handling" /\ UNCHANGED file
           \/ \E v \in Live : Save(p, v)
    PROVE  Apart'
<1> USE DEF IInv
<1> SUFFICES ASSUME ~overlapped, Alone PROVE Alone'
  BY DEF Apart
<1>1. \A r \in Pids : rpc'[r] = IF r = p THEN l ELSE rpc[r] BY DEF TableOK, Goto
<1>2. \A r \in Pids : /\ Working(r)' <=> Working(r)
                      /\ Settled(r)' => r = p
                      /\ Settled(r) => Settled(r)'
  BY <1>1 DEF Working, Settled, Alone
<1>3. latest = owner[p] /\ latest \in Queues BY DEF Alone, Working, TableOK
<1>4. Settled(p)' => Shows(file'[latest], p)
  <2>1. CASE Settled(p) /\ UNCHANGED file BY <2>1 DEF Alone, Shows
  <2>2. CASE l = "handling" BY <1>1, <2>2 DEF Settled
  <2>3. ASSUME NEW v \in Live, Save(p, v) PROVE Shows(file'[latest], p)
    BY <1>3, <2>3 DEF Save, FilesOK, Shows
  <2> QED BY <2>1, <2>2, <2>3
<1>5. UNCHANGED owner BY DEF Goto
<1> QED BY <1>2, <1>4, <1>5 DEF Alone, InSetup, Past, Shows

\* A process is gone, a runner at work or not.
LEMMA FreeApart ==
    ASSUME IInv, Apart, NEW p \in Pids, Free(p), UNCHANGED <<sub, seen, overlapped, latest, file>>
    PROVE  Apart'
<1>1. \A r \in Pids : r # p => rpc'[r] = rpc[r] /\ owner'[r] = owner[r]
  BY DEF IInv, TableOK, Free
<1>2. rpc'[p] = "none" BY DEF IInv, TableOK, Free
<1>3. \A r \in Pids : /\ Working(r)' => Working(r) /\ owner'[r] = owner[r]
                      /\ Settled(r)' => Settled(r)
                      /\ Working(r)' /\ Settled(r) => Settled(r)'
  BY <1>1, <1>2 DEF Working, Settled
<1> QED BY <1>3, FewerApart

LEMMA RunnerApart ==
    ASSUME IInv, Apart, NEW p \in Pids, Runner(p) \/ Crash(p)
    PROVE  Apart'
<1>1. CASE TakeSignals(p)
  BY <1>1, GoApart DEF TakeSignals, Working, Settled, files, submits
<1>2. CASE Begin(p)
  BY <1>2, GoApart DEF Begin, Working, Live, submits
<1>3. CASE StartChild(p)
  BY <1>3, GoApart DEF StartChild, Working, Live, submits
<1>4. CASE ReapChild(p)
  BY <1>4, GoApart DEF ReapChild, Working, Settled, Live, submits
<1>5. CASE EndPlan(p)
  BY <1>5, GoApart DEF EndPlan, Working, Settled, files, submits
<1>6. CASE Close(p)
  <2> SUFFICES ASSUME ~overlapped, Alone PROVE Alone'
    BY <1>6 DEF Apart, Close, submits
  <2>1. UNCHANGED <<sub, seen, latest, owner>> BY <1>6 DEF Close, submits, Goto
  <2>2. \A r \in Pids : rpc'[r] = IF r = p THEN "exit" ELSE rpc[r]
    BY <1>6 DEF Close, IInv, TableOK, Goto
  <2>3. Working(p) BY <1>6 DEF Close, Working
  <2>4. \A r \in Pids : ~Working(r)' /\ ~Settled(r)'
    BY <2>2, <2>3 DEF Alone, Working, Settled
  <2> QED BY <2>1, <2>4 DEF Alone, InSetup
<1>7. CASE Exit(p) BY <1>7, FreeApart DEF Exit, files, submits
<1>8. CASE Crash(p) BY <1>8, FreeApart DEF Crash, files, submits
<1> QED
  BY <1>1, <1>2, <1>3, <1>4, <1>5, <1>6, <1>7, <1>8 DEF Runner

LEMMA StopApart ==
    ASSUME IInv, Apart, NEW t \in Stops, Stop(t)
    PROVE  Apart'
<1>1. CASE ReadPid(t) BY <1>1, KeptApart DEF ReadPid, files, table, submits
<1>2. CASE Term(t)
  <2>1. UNCHANGED <<sub, seen, overlapped, latest, file>> BY <1>2 DEF Term, files, submits
  <2>2. UNCHANGED <<owner, rpc>> \/ (aim[t] \in Pids /\ Free(aim[t]))
    BY <1>2 DEF Term, table, IInv, StopsOK
  <2> QED BY <2>1, <2>2, KeptApart, FreeApart
<1>3. CASE Wait(t) BY <1>3, KeptApart DEF Wait, files, table, submits
<1> QED BY <1>1, <1>2, <1>3 DEF Stop

LEMMA WorldApart ==
    ASSUME IInv, Apart, World
    PROVE  Apart'
<1>1. ASSUME NEW q \in Queues, ChildLaunch(q) \/ Taken(q) \/ ChildExit(q) PROVE Apart'
  BY <1>1, KeptApart DEF ChildLaunch, Taken, ChildExit, files, table, submits
<1>2. ASSUME NEW p \in Pids, Process(p) PROVE Apart'
  <2>1. Nobody \notin Queues /\ Other \notin Queues BY QueueControlAssumption DEF Nobody, Other
  <2>2. UNCHANGED <<sub, seen, overlapped, latest, file, rpc>> BY <1>2 DEF Process, files, submits
  <2>3. \A r \in Pids : Working(r) => owner'[r] = owner[r]
    BY <1>2, <2>1 DEF Process, IInv, TableOK, Working
  <2>4. \A r \in Pids : (Working(r)' <=> Working(r)) /\ (Settled(r)' <=> Settled(r))
    BY <2>2 DEF Working, Settled
  <2> QED BY <2>2, <2>3, <2>4, FewerApart
<1>3. ASSUME NEW p \in Pids, Crash(p) PROVE Apart'
  BY <1>3, RunnerApart
<1>4. CASE Tick BY <1>4, KeptApart DEF Tick, files, table, submits
<1> QED BY <1>1, <1>2, <1>3, <1>4 DEF World

\* Submits that do not overlap leave one queue at work at most, over any number of them,
\* of crashes, of stops and of pids used again.
THEOREM QueuesAreAlone == Spec => []OneQueueAtATime
<1>1. IInv /\ Apart /\ [Next]_vars => Apart'
  BY KeptApart, SubmitApart, RunnerApart, StopApart, WorldApart
     DEF Next, vars, files, table, submits
<1>2. IInv /\ Apart => OneQueueAtATime
  <2> SUFFICES ASSUME IInv, Alone PROVE Cardinality(AtWork) <= 1
    BY DEF Apart, OneQueueAtATime
  <2>1. \A p \in AtWork : p \in Pids /\ Working(p)
    BY DEF AtWork, Runners, Working, IInv, TableOK, RunnerPc
  <2>2. CASE AtWork = {}
    BY <2>2, FS_EmptySet
  <2>3. CASE AtWork # {}
    <3>1. PICK p \in AtWork : TRUE BY <2>3
    <3>2. AtWork = {p} BY <2>1, <3>1 DEF Alone
    <3> QED BY <3>2, FS_Singleton
  <2> QED BY <2>2, <2>3
<1> QED BY InitApart, <1>1, <1>2, Inductive, PTL DEF Spec
=============================================================================
