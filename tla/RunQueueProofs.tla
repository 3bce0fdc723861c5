--------------------------- MODULE RunQueueProofs ---------------------------
(***************************************************************************)
(* Theorems about the queue runner, for every queue in every mode.        *)
(*                                                                         *)
(* TypeOK is inductive.  On top of it, IInv says who may be where: a child *)
(* that is alive is watched by its run_one, which has it in self.children  *)
(* from the moment it polls; outside the rounds no run_one is active, in a *)
(* sequential call exactly one is, and in a concurrent round only the      *)
(* members of the round are.                                               *)
(***************************************************************************)
EXTENDS RunQueue, TLAPS

Quiet == {"boot", "cell", "run", "plot", "wrapup", "ending", "sweep", "images", "close", "over"}

\* A live child is between Popen and its registration, or polled and registered.
Watched == \A x \in X : proc[x] \in Live =>
               pc[x] = "spawned" \/ (pc[x] = "poll" /\ x \in children)

\* The main thread alone is at work.
MainAlone == main \in Quiet => \A x \in X : pc[x] = "idle"

\* A call of run_one by the main thread is the only one.
OneCall == main \in {"wait", "plotwait"} =>
               \A x, y \in X : pc[x] # "idle" /\ pc[y] # "idle" => x = y

\* A concurrent round: threads of one group only.
OneRound == main \in {"start", "join"} =>
               /\ mode = "concurrent" /\ due \subseteq round
               /\ round \subseteq Members(at.g)
               /\ \A x \in (X \ round) \cup due : pc[x] = "idle"

\* What the sweep did to the instances lasts: only escaped deploys print after it.
Swept == /\ swept \in {"asked", "ok"} => main \in {"images", "close", "over"}
         /\ swept \in {"asked", "ok"} => up \cap printed \subseteq refused \cup adrift
         /\ main = "images" => swept = "asked"

\* Only ids that AWS gave us are held by a child, torn down or printed.
Held == /\ \A x \in X : proc[x] \in {"up", "shown"} \/ x \in teardown => cur[x] \in Id
        /\ printed \subseteq Id

Inv == Watched /\ MainAlone /\ OneCall /\ OneRound /\ Swept /\ Held
IInv == TypeOK /\ Inv

-----------------------------------------------------------------------------
\* The cells of an experiment are pairs of naturals.
LEMMA CellsType == \A x \in X : Cells(x) \subseteq Nat \X Nat
  BY QueueAssumption DEF Cells, X

\* The next cell of the loops is a cell.
LEMMA NextCellType == TypeOK => NextCell \in [g : Nat, k : Nat, i : Nat]
  BY DEF TypeOK, NextCell

\* What a child is asked for are cells.
LEMMA AskedType == TypeOK => \A x \in X : Asked(x) \subseteq Nat \X Nat
  BY CellsType DEF TypeOK, Asked

\* Every step of the queue keeps every variable in its type.
LEMMA TypeStep == TypeOK /\ [Next]_vars => TypeOK'
<1> SUFFICES ASSUME TypeOK, [Next]_vars PROVE TypeOK'
  OBVIOUS
<1> USE DEF TypeOK, runner, world
<1>1. ASSUME NEW x \in X, Check(x) PROVE TypeOK'
  BY <1>1 DEF Check, Return, PcOf, Ending
<1>2. ASSUME NEW x \in X, Spawn(x) PROVE TypeOK'
  <2>0. attempts[x] \in Nat /\ "running" \in StatusOf
    BY <1>2 DEF StatusOf
  <2>1. attempts' \in [X -> Nat] /\ status' \in [X -> StatusOf]
    BY <1>2, <2>0 DEF Spawn
  <2>2. proc' \in [X -> {"none", "killed"} \cup Live \cup Exits] /\ pc' \in [X -> PcOf]
    BY <1>2 DEF Spawn, PcOf, Live
  <2> QED
    BY <1>2, <2>1, <2>2 DEF Spawn
<1>3. ASSUME NEW x \in X, Register(x) PROVE TypeOK'
  BY <1>3 DEF Register, PcOf
<1>4. ASSUME NEW x \in X, PollEnds(x) PROVE TypeOK'
  BY <1>4 DEF PollEnds, EndChild, PcOf
<1>5. ASSUME NEW x \in X, EndReturns(x) PROVE TypeOK'
  BY <1>5 DEF EndReturns, Return, PcOf, Ending
<1>6. ASSUME NEW x \in X, Reap(x) PROVE TypeOK'
  <2>1. pc' \in [X -> PcOf]
    <3>1. pc' = [pc EXCEPT ![x] = "returned"] \/ pc' = [pc EXCEPT ![x] = "retry"]
      BY <1>6 DEF Reap, Return
    <3> QED
      BY <3>1 DEF PcOf
  <2>4. ret' \in [X -> {"none", "done", "failed"} \cup Ending]
    <3>1. ASSUME NEW v \in {"done", "failed", "credentials"}, Return(x, v)
          PROVE  ret' \in [X -> {"none", "done", "failed"} \cup Ending]
      BY <3>1 DEF Return, Ending
    <3> QED
      BY <1>6, <3>1 DEF Reap
  <2>2. status' \in [X -> StatusOf]
    BY <1>6 DEF Reap, StatusOf
  <2>3. ran' \in [X -> SUBSET (Nat \X Nat)]
    <3> DEFINE P == Nat \X Nat
    <3>1. Asked(x) \subseteq P /\ ran \in [X -> SUBSET P]
      BY AskedType
    <3>2. ran' = ran \/ ran' = [ran EXCEPT ![x] = @ \cup Asked(x)]
      BY <1>6 DEF Reap
    <3> HIDE DEF P
    <3>3. ran' \in [X -> SUBSET P]
      BY <3>1, <3>2
    <3> QED
      BY <3>3 DEF P
  <2> QED
    BY <1>6, <2>1, <2>2, <2>3, <2>4 DEF Reap
<1>7. ASSUME NEW x \in X, Retry(x) PROVE TypeOK'
  BY <1>7 DEF Retry, PcOf
<1>8. CASE Boot
  BY <1>8 DEF Boot, MainOf
<1>9. CASE Cell
  BY <1>9, NextCellType DEF Cell, Due, Members, MainOf
<1>10. CASE RunNext
  BY <1>10, NextCellType DEF RunNext, Call, MainOf, PcOf
<1>11. CASE Result
  BY <1>11 DEF Result, Idle, MainOf, PcOf
<1>12. CASE StartThread
  BY <1>12 DEF StartThread, Call, MainOf, PcOf
<1>13. CASE Join
  BY <1>13, NextCellType DEF Join, Idle, Last, MainOf, PcOf
<1>14. CASE Plot
  BY <1>14 DEF Plot, Call, MainOf, PcOf
<1>15. CASE Plotted
  BY <1>15 DEF Plotted, Idle, MainOf, PcOf
<1>16. CASE WrapUp
  BY <1>16 DEF WrapUp, EndChild, MainOf
<1>17. CASE Ended
  BY <1>17 DEF Ended, MainOf
<1>18. CASE Sweep
  BY <1>18 DEF Sweep, MainOf
<1>19. CASE Close
  BY <1>19 DEF Close, MainOf, StatusOf, Ending
<1>20. CASE Stop
  BY <1>20 DEF Stop
<1>21. CASE Expire
  BY <1>21 DEF Expire
<1>22. CASE LoseCreds
  BY <1>22 DEF LoseCreds
<1>23. CASE ForeignLaunch
  BY <1>23 DEF ForeignLaunch
<1>24. ASSUME NEW x \in X, ChildLaunch(x) PROVE TypeOK'
  <2>1. next \in Id /\ next' \in 1..(MaxLaunch + 1)
    BY <1>24, QueueAssumption DEF ChildLaunch, Id
  <2>2. proc' \in [X -> {"none", "killed"} \cup Live \cup Exits]
    BY <1>24 DEF ChildLaunch, Live
  <2>3. cur' \in [X -> Id \cup {Foreign}] /\ up' \subseteq Id \cup {Foreign}
    BY <1>24, <2>1 DEF ChildLaunch
  <2> QED
    BY <1>24, <2>1, <2>2, <2>3 DEF ChildLaunch
<1>25. ASSUME NEW x \in X, ChildPrint(x) PROVE TypeOK'
  BY <1>25 DEF ChildPrint, Live
<1>26. ASSUME NEW x \in X, ChildTerminate(x) PROVE TypeOK'
  BY <1>26 DEF ChildTerminate, TakeDown, Live
<1>27. ASSUME NEW x \in X, ChildExit(x) PROVE TypeOK'
  BY <1>27 DEF ChildExit, Live, Exits, Logs
<1>28. ASSUME NEW x \in X, TeardownDone(x) PROVE TypeOK'
  BY <1>28 DEF TeardownDone, TakeDown
<1>29. CASE UNCHANGED vars
  BY <1>29 DEF vars
<1>31. CASE SweepImages
  BY <1>31 DEF SweepImages, MainOf
<1>32. ASSUME NEW x \in X, StrayLaunch(x) PROVE TypeOK'
  <2>1. next \in Id /\ next' \in 1..(MaxLaunch + 1)
    BY <1>32, QueueAssumption DEF StrayLaunch, Id
  <2> QED
    BY <1>32, <2>1 DEF StrayLaunch
<1>33. CASE StrayPrint
  BY <1>33 DEF StrayPrint
<1>30. QED
  BY <1>1, <1>2, <1>3, <1>4, <1>5, <1>6, <1>7, <1>8, <1>9, <1>10, <1>11, <1>12, <1>13,
     <1>14, <1>15, <1>16, <1>17, <1>18, <1>19, <1>20, <1>21, <1>22, <1>23, <1>24, <1>25,
     <1>26, <1>27, <1>28, <1>29, <1>31, <1>32, <1>33 DEF Next, Main, RunOne, Child, Over

\* Every variable of the queue has its type, whatever the queue.
THEOREM TypeCorrect == Spec => []TypeOK
<1>1. Init => TypeOK
  <2> SUFFICES ASSUME Init PROVE TypeOK
    OBVIOUS
  <2>1. next \in 1..(MaxLaunch + 1) /\ at \in [g : Nat, k : Nat, i : Nat]
    BY QueueAssumption DEF Init
  <2>2. main \in MainOf /\ pc \in [X -> PcOf] /\ status \in [X -> StatusOf]
    BY DEF Init, MainOf, PcOf, StatusOf
  <2> QED
    BY <2>1, <2>2 DEF Init, TypeOK
<1>2. QED
  BY <1>1, TypeStep, PTL DEF Spec

-----------------------------------------------------------------------------
\* Every step of the queue keeps who may be where.
LEMMA InvStep == IInv /\ [Next]_vars => Inv'
<1> SUFFICES ASSUME IInv, [Next]_vars PROVE Inv'
  OBVIOUS
<1> USE DEF Inv, Watched, MainAlone, OneCall, OneRound, Swept, Held, runner, world
<1>0. /\ pc \in [X -> PcOf] /\ due \subseteq X /\ round \subseteq X /\ main \in MainOf
      /\ proc \in [X -> {"none", "killed"} \cup Live \cup Exits]
      /\ cur \in [X -> Id \cup {Foreign}] /\ up \subseteq Id \cup {Foreign}
      /\ adrift \subseteq Id /\ printed \subseteq Id
      /\ Inv
  BY DEF IInv, TypeOK, Inv, Held
<1>1. ASSUME NEW x \in X, Check(x) PROVE Inv'
  BY <1>0, <1>1 DEF Check, Return, Quiet, Live
<1>2. ASSUME NEW x \in X, Spawn(x) PROVE Inv'
  BY <1>0, <1>2 DEF Spawn, Quiet, Live
<1>3. ASSUME NEW x \in X, Register(x) PROVE Inv'
  BY <1>0, <1>3 DEF Register, Quiet, Live
<1>4. ASSUME NEW x \in X, PollEnds(x) PROVE Inv'
  BY <1>0, <1>4 DEF PollEnds, EndChild, Quiet, Live
<1>5. ASSUME NEW x \in X, EndReturns(x) PROVE Inv'
  BY <1>0, <1>5 DEF EndReturns, Return, Quiet, Live
<1>6. ASSUME NEW x \in X, Reap(x) PROVE Inv'
  <2>1. pc' = [pc EXCEPT ![x] = "returned"] \/ pc' = [pc EXCEPT ![x] = "retry"]
    BY <1>6 DEF Reap, Return
  <2>2. /\ pc[x] = "poll" /\ proc[x] \notin Live /\ children' = children \ {x}
        /\ UNCHANGED <<mode, main, at, due, round, swept, proc, cur, teardown, up, printed>>
    BY <1>6 DEF Reap
  <2> QED
    BY <1>0, <2>1, <2>2 DEF Quiet, Live
<1>7. ASSUME NEW x \in X, Retry(x) PROVE Inv'
  BY <1>0, <1>7 DEF Retry, Quiet, Live
<1>8. CASE Boot
  BY <1>0, <1>8 DEF Boot, Quiet
<1>9. CASE Cell
  <2>1. /\ main = "cell" /\ main' \in {"plot", "cell", "run", "start"}
        /\ UNCHANGED <<mode, pc, proc, children, swept, cur, teardown, up, printed>>
    BY <1>9 DEF Cell
  <2>2. main' = "start" => /\ mode = "concurrent" /\ due' = Due /\ round' = Due
                           /\ UNCHANGED at /\ Due \subseteq Members(at.g)
    BY <1>9 DEF Cell, Due
  <2>3. \A x \in X : pc[x] = "idle"
    BY <1>0, <2>1 DEF Quiet
  <2>4. Due \subseteq X
    BY DEF Due, Members
  <2> QED
    BY <1>0, <2>1, <2>2, <2>3, <2>4 DEF Quiet
<1>10. CASE RunNext
  BY <1>0, <1>10 DEF RunNext, First, Call, Quiet, Live
<1>11. CASE Result
  BY <1>0, <1>11 DEF Result, Idle, Quiet, Live
<1>12. CASE StartThread
  <2>1. CASE due = {} /\ main' = "join" /\ UNCHANGED <<due, pc>>
    BY <1>0, <1>12, <2>1 DEF StartThread, Quiet, Live
  <2>2. ASSUME NEW x \in X, First(x, due), Call(x), due' = due \ {x}, UNCHANGED main
        PROVE  Inv'
    <3>1. x \in round /\ pc' = [pc EXCEPT ![x] = "top"] /\ main = "start"
      BY <1>0, <1>12, <2>2 DEF StartThread, First, Call
    <3>2. Watched'
      <4>1. pc[x] = "idle" /\ proc[x] \notin Live
        BY <1>0, <2>2, <3>1 DEF First
      <4>2. UNCHANGED <<proc, children>>
        BY <1>12 DEF StartThread
      <4> QED
        BY <1>0, <3>1, <4>1, <4>2
    <3>3. OneRound' /\ MainAlone' /\ OneCall'
      BY <1>0, <1>12, <2>2, <3>1 DEF StartThread, Quiet, Members
    <3> QED
      BY <1>0, <1>12, <2>2, <3>2, <3>3 DEF StartThread
  <2> QED
    BY <1>12, <2>1, <2>2 DEF StartThread
<1>13. CASE Join
  BY <1>0, <1>13 DEF Join, Idle, Quiet, Live
<1>14. CASE Plot
  BY <1>0, <1>14 DEF Plot, First, Call, Quiet, Live
<1>15. CASE Plotted
  BY <1>0, <1>15 DEF Plotted, Idle, Quiet, Live
<1>16. CASE WrapUp
  BY <1>0, <1>16 DEF WrapUp, EndChild, Quiet, Live
<1>17. CASE Ended
  BY <1>0, <1>17 DEF Ended, Quiet
<1>18. CASE Sweep
  BY <1>0, <1>18 DEF Sweep, Quiet
<1>19. CASE Close
  BY <1>0, <1>19 DEF Close, Quiet
<1>20. CASE Stop
  BY <1>0, <1>20 DEF Stop
<1>21. CASE Expire
  BY <1>0, <1>21 DEF Expire
<1>22. CASE LoseCreds
  BY <1>0, <1>22 DEF LoseCreds
<1>23. CASE ForeignLaunch
  BY <1>0, <1>23, QueueAssumption DEF ForeignLaunch, Foreign, Id
<1>24. ASSUME NEW x \in X, ChildLaunch(x) PROVE Inv'
  BY <1>0, <1>24 DEF ChildLaunch, Quiet, Live
<1>25. ASSUME NEW x \in X, ChildPrint(x) PROVE Inv'
  BY <1>0, <1>25 DEF ChildPrint, Quiet, Live
<1>26. ASSUME NEW x \in X, ChildTerminate(x) PROVE Inv'
  BY <1>0, <1>26 DEF ChildTerminate, TakeDown, Quiet, Live
<1>27. ASSUME NEW x \in X, ChildExit(x) PROVE Inv'
  BY <1>0, <1>27 DEF ChildExit, Quiet, Live, Exits
<1>28. ASSUME NEW x \in X, TeardownDone(x) PROVE Inv'
  BY <1>0, <1>28 DEF TeardownDone, TakeDown
<1>29. CASE UNCHANGED vars
  BY <1>0, <1>29 DEF vars
<1>31. CASE SweepImages
  BY <1>0, <1>31 DEF SweepImages, Quiet
<1>32. ASSUME NEW x \in X, StrayLaunch(x) PROVE Inv'
  BY <1>0, <1>32 DEF StrayLaunch, Quiet
<1>33. CASE StrayPrint
  BY <1>0, <1>33 DEF StrayPrint, Quiet
<1>30. QED
  BY <1>1, <1>2, <1>3, <1>4, <1>5, <1>6, <1>7, <1>8, <1>9, <1>10, <1>11, <1>12, <1>13,
     <1>14, <1>15, <1>16, <1>17, <1>18, <1>19, <1>20, <1>21, <1>22, <1>23, <1>24, <1>25,
     <1>26, <1>27, <1>28, <1>29, <1>31, <1>32, <1>33 DEF Next, Main, RunOne, Child, Over

\* The inductive invariant holds.
THEOREM Invariant == Spec => []IInv
<1>1. Init => Inv
  BY QueueAssumption DEF Init, Inv, Watched, MainAlone, OneCall, OneRound, Swept, Held, Live
<1>2. QED
  BY <1>1, InvStep, TypeCorrect, PTL DEF Spec, IInv

-----------------------------------------------------------------------------
\* Whatever the queue and its mode, once the runner turns to sweeping no child of it
\* is alive: end_child and the poll loops together miss none.
THEOREM QueueEndsItsChildren == Spec => []NothingOutlivesTheQueue
<1>1. IInv => NothingOutlivesTheQueue
  BY DEF IInv, Inv, Watched, MainAlone, Quiet, NothingOutlivesTheQueue
<1>2. QED
  BY <1>1, Invariant, PTL

\* Whatever the queue, after the sweep an instance that a log shows is up only when EC2
\* refused the sweep or an escaped deploy launched it: no child prints or launches later.
THEOREM SweepCollects == Spec => []SweepCollectsWhatWasPrinted
<1>1. IInv => SweepCollectsWhatWasPrinted
  BY DEF IInv, Inv, Swept, SweepCollectsWhatWasPrinted
<1>2. QED
  BY <1>1, Invariant, PTL

\* Children that live at a time are members of one group of a concurrent queue: in a
\* sequential call there is one, and a round runs the members of one group.
LEMMA LiveTogether ==
    ASSUME IInv, NEW x \in X, NEW y \in X, x # y, proc[x] \in Live, proc[y] \in Live
    PROVE  mode = "concurrent" /\ Group[x] = Group[y] /\ "concurrent" \in Modes
<1>1. pc[x] # "idle" /\ pc[y] # "idle"
  BY DEF IInv, Inv, Watched
<1>2. main \in {"start", "join"}
  BY <1>1 DEF IInv, TypeOK, Inv, MainAlone, OneCall, MainOf, Quiet
<1>3. x \in round /\ y \in round /\ round \subseteq Members(at.g) /\ mode = "concurrent"
  BY <1>1, <1>2 DEF IInv, Inv, OneRound
<1> QED
  BY <1>3 DEF Members, IInv, TypeOK

\* Two children never work in one build tree at a time but as two benches of one group
\* of a concurrent queue, which is what checks() lets through.
THEOREM BuildTreesAreExclusive == Spec => []OneBuildTreeEach
<1>1. IInv => OneBuildTreeEach
  BY LiveTogether, QueueAssumption DEF OneBuildTreeEach
<1>2. QED
  BY <1>1, Invariant, PTL

\* A queue that keeps the rule of the help, which checks() does not enforce, builds in no
\* tree twice at a time, in whatever mode.
RuleOfTheHelp == \A x, y \in X : Group[x] = Group[y] /\ x # y => Tree[x] # Tree[y]

THEOREM TheRuleIsEnough == ASSUME RuleOfTheHelp PROVE Spec => []OneArmPerTree
<1>1. IInv => OneArmPerTree
  BY LiveTogether, RuleOfTheHelp DEF OneArmPerTree, RuleOfTheHelp
<1>2. QED
  BY <1>1, Invariant, PTL

\* No step takes down an instance of another checkout.
THEOREM OthersAreLeftAlone == Spec => OthersKeepTheirInstances
<1>1. IInv /\ [Next]_vars => [(Foreign \in up) => (Foreign \in up')]_vars
  <2> SUFFICES ASSUME IInv, [Next]_vars, Foreign \in up PROVE Foreign \in up'
    OBVIOUS
  <2>1. Foreign \notin Id
    BY QueueAssumption DEF Foreign, Id
  <2>2. Foreign \notin printed /\ \A x \in X :
            proc[x] = "shown" \/ x \in teardown => cur[x] # Foreign
    BY <2>1 DEF IInv, Inv, Held
  <2>3. ASSUME NEW x \in X, RunOne(x) \/ Child(x) PROVE Foreign \in up'
    BY <2>2, <2>3 DEF RunOne, Check, Spawn, Register, PollEnds, EndReturns, Reap, Retry,
       Child, ChildLaunch, ChildPrint, ChildTerminate, ChildExit, TeardownDone, TakeDown,
       StrayLaunch, runner, world
  <2>4. CASE Main
    BY <2>2, <2>4 DEF Main, Boot, Cell, RunNext, Result, StartThread, Join, Plot, Plotted,
       WrapUp, Ended, Sweep, SweepImages, Close, world
  <2> QED
    BY <2>3, <2>4 DEF Next, Stop, Expire, LoseCreds, ForeignLaunch, StrayPrint, Over, vars, world
<1>2. QED
  BY <1>1, Invariant, PTL DEF Spec, OthersKeepTheirInstances

-----------------------------------------------------------------------------
(***************************************************************************)
(* The plan: what the group loops have behind them, member by member and   *)
(* cell by cell, and what a verdict of "done" rests on.                    *)
(***************************************************************************)
\* The cell at hand, and what a child of x is asked for until it is plotted.
Here == <<at.k, at.i>>
Target(x) == IF mode = "sequential" THEN Cells(x) ELSE {Here}

InPlan == {"run", "wait", "start", "join"}
Called(x) == IF mode = "sequential" THEN TRUE ELSE x \in round

\* In the alternating modes, `at` divides the cells: before it all has run, after it nothing.
Behind == mode # "sequential" =>
    \A y \in X : status[y] # "failed" => \A d \in Cells(y) :
        Group[y] < at.g \/ (Group[y] = at.g /\ Before(d, Here)) => d \in ran[y]
Ahead == mode # "sequential" =>
    \A x \in X : \A c \in ran[x] :
        Group[x] < at.g \/ (Group[x] = at.g /\ (Before(c, Here) \/ c = Here))

\* Only cells are run.
OnlyCells == at.k > 0 /\ \A x \in X : ran[x] \subseteq Cells(x)

\* A member that failed is not called again.
FailedIsOut ==
    /\ main = "boot" => \A x \in X : status[x] # "failed"
    /\ \A x \in X : status[x] = "failed" => pc[x] \in {"idle", "returned"}
    /\ main \in InPlan => \A x \in due : status[x] # "failed" /\ pc[x] = "idle"

\* A round is who had the cell at hand when it began.
RoundHasTheCell == main \in InPlan /\ mode # "sequential" =>
    /\ due \subseteq round /\ \A x \in X : pc[x] # "idle" => x \in round
    /\ \A x \in round : Group[x] = at.g /\ Here \in Cells(x)
    /\ \A x \in X : status[x] # "failed" /\ Group[x] = at.g /\ Here \in Cells(x) => x \in round

\* Who was called and is over ran what it was called for, or failed.
CalledHaveRun == main \in InPlan =>
    \A x \in X : Called(x) /\ x \notin due /\ pc[x] = "idle" /\ status[x] # "failed"
                    => Target(x) \subseteq ran[x]

\* What run_one returns.
ReturnsItsStatus == \A x \in X : pc[x] = "returned" =>
    /\ ret[x] # "none"
    /\ ret[x] = "failed" => status[x] = "failed"
    /\ ret[x] = "done" /\ main \in InPlan => Target(x) \subseteq ran[x]

\* The plan is behind when rows are only plotted.
PlotIsLast ==
    /\ main \in {"cell", "plot", "plotwait"} => mode # "sequential"
    /\ main \in {"plot", "plotwait"} => \A x \in X : Group[x] < at.g

\* The verdict.
AllRan == \A x \in X : status[x] # "failed" => Cells(x) \subseteq ran[x]
VerdictIsEarned ==
    /\ main \notin {"wrapup", "ending", "sweep", "images", "close", "over"} => verdict = "done"
    /\ main \in {"ending", "sweep", "images"} => verdict \in Ending
    /\ main \in {"wrapup", "close", "over"} /\ verdict = "done" => AllRan
    /\ main = "over" /\ verdict = "done" => \A x \in X : status[x] # "failed"

Plan == Behind /\ Ahead /\ OnlyCells /\ FailedIsOut /\ RoundHasTheCell /\ CalledHaveRun
        /\ ReturnsItsStatus /\ PlotIsLast /\ VerdictIsEarned

-----------------------------------------------------------------------------
\* What is before the next cell was before this one, or is this one, or is no member's.
LEMMA NextCellStep ==
    ASSUME TypeOK, at.k > 0
    PROVE  /\ NextCell.k > 0
           /\ \A x \in X : Group[x] < at.g => Group[x] < NextCell.g
           /\ \A x \in X : Group[x] = at.g => Group[x] <= NextCell.g
           /\ \A x \in X : \A d \in Cells(x) :
                 LET there == <<NextCell.k, NextCell.i>> IN
                 /\ Group[x] < NextCell.g \/ (Group[x] = NextCell.g /\ Before(d, there))
                    <=> \/ Group[x] < at.g
                        \/ Group[x] = at.g /\ (Before(d, Here) \/ d = Here)
<1> DEFINE n == NextCell
           m == Members(at.g)
<1>0. at \in [g : Nat, k : Nat, i : Nat] /\ Group \in [X -> Nat] /\ Points \in [X -> Nat \ {0}]
      /\ Reps \in [X -> Nat \ {0}]
  BY QueueAssumption DEF TypeOK
<1>1. \/ n = [g |-> at.g, k |-> at.k, i |-> at.i + 1] /\ \E x \in m : at.i + 1 < Points[x]
      \/ /\ n = [g |-> at.g, k |-> at.k + 1, i |-> 0]
         /\ \A x \in m : at.i + 1 >= Points[x]
      \/ /\ n = [g |-> at.g + 1, k |-> 1, i |-> 0]
         /\ \A x \in m : at.i + 1 >= Points[x] /\ at.k + 1 > Reps[x]
  BY <1>0 DEF NextCell, Members
<1>2. ASSUME NEW x \in X, NEW d \in Cells(x)
      PROVE  /\ d = <<d[1], d[2]>> /\ d[1] \in 1..Reps[x] /\ d[2] \in 0..(Points[x] - 1)
             /\ d[1] \in Nat /\ d[2] \in Nat /\ d[1] <= Reps[x] /\ d[2] < Points[x] /\ d[1] > 0
  BY <1>0 DEF Cells
<1> HIDE DEF n
<1>3. n.k > 0 /\ n.k \in Nat /\ n.i \in Nat /\ n.g \in Nat BY <1>0, <1>1
<1>4. ASSUME NEW x \in X
      PROVE  /\ Group[x] < at.g => Group[x] < n.g
             /\ Group[x] = at.g => Group[x] <= n.g
  BY <1>0, <1>1
<1>5. ASSUME NEW x \in X, NEW d \in Cells(x)
      PROVE  Group[x] < n.g \/ (Group[x] = n.g /\ Before(d, <<n.k, n.i>>))
             <=> \/ Group[x] < at.g
                 \/ Group[x] = at.g /\ (Before(d, Here) \/ d = Here)
  <2>1. /\ Before(d, <<n.k, n.i>>) <=> d[1] < n.k \/ (d[1] = n.k /\ d[2] < n.i)
        /\ Before(d, Here) <=> d[1] < at.k \/ (d[1] = at.k /\ d[2] < at.i)
        /\ d = Here <=> d[1] = at.k /\ d[2] = at.i
    BY <1>2 DEF Before, Here
  <2>2. x \in m <=> Group[x] = at.g BY DEF Members
  <2>3. CASE Group[x] = at.g
    BY <1>0, <1>1, <1>2, <2>1, <2>2, <2>3
  <2>4. CASE Group[x] # at.g
    BY <1>0, <1>1, <1>2, <2>1, <2>4
  <2> QED BY <2>3, <2>4
<1> QED BY <1>3, <1>4, <1>5 DEF n

\* A step that touches nothing the plan speaks of.
LEMMA PlanSame ==
    ASSUME Plan, UNCHANGED <<mode, main, at, due, round, pc, ret, status, verdict, ran>>
    PROVE  Plan'
BY DEF Plan, Behind, Ahead, OnlyCells, FailedIsOut, RoundHasTheCell, CalledHaveRun,
       ReturnsItsStatus, PlotIsLast, VerdictIsEarned, AllRan, Here, Target, Called

\* A step of run_one that is not its last.
LEMMA PlanRunOne ==
    ASSUME IInv, Plan, NEW x \in X, NEW l \in PcOf \ {"idle"},
           pc[x] \notin {"idle", "returned"}, pc' = [pc EXCEPT ![x] = l],
           UNCHANGED <<mode, main, at, due, round, verdict, ran>>,
           status' \in {status, [status EXCEPT ![x] = "running"],
                        [status EXCEPT ![x] = "waiting for spot"],
                        [status EXCEPT ![x] = "credentials expired"]},
           l = "returned" => ret' \in {[ret EXCEPT ![x] = v] : v \in Ending},
           l # "returned" => ret' = ret
    PROVE  Plan'
<1>0. /\ pc \in [X -> PcOf] /\ ret \in [X -> {"none", "done", "failed"} \cup Ending]
      /\ status \in [X -> StatusOf] /\ main \in MainOf
  BY DEF IInv, TypeOK
<1>1. status[x] # "failed" /\ status'[x] # "failed" /\ \A y \in X \ {x} : status'[y] = status[y]
  BY <1>0 DEF Plan, FailedIsOut
<1>2. main \in {"wait", "plotwait", "start", "join"}
  BY <1>0 DEF IInv, Inv, MainAlone, Quiet, MainOf
<1>3. \A y \in X : (status'[y] = "failed") = (status[y] = "failed") BY <1>1
<1>4. Here' = Here /\ \A y \in X : Target(y)' = Target(y) /\ Called(y)' = Called(y)
  BY DEF Here, Target, Called
<1>5. Behind' /\ Ahead' BY <1>3, <1>4 DEF Plan, Behind, Ahead
<1>6. OnlyCells' /\ PlotIsLast' BY DEF Plan, OnlyCells, PlotIsLast
<1>7. FailedIsOut'
  <2>1. main \in InPlan => x \notin due BY DEF Plan, FailedIsOut
  <2>2. \A y \in X \ {x} : pc'[y] = pc[y] BY <1>0
  <2> QED BY <1>1, <1>2, <1>3, <2>1, <2>2 DEF Plan, FailedIsOut, IInv, TypeOK
<1>8. RoundHasTheCell' BY <1>0, <1>3, <1>4 DEF Plan, RoundHasTheCell
<1>9. CalledHaveRun' BY <1>0, <1>3, <1>4 DEF Plan, CalledHaveRun
<1>10. ReturnsItsStatus'
  <2>1. pc'[x] = "returned" => ret'[x] \in Ending BY <1>0
  <2>2. \A y \in X \ {x} : ret'[y] = ret[y] /\ pc'[y] = pc[y] BY <1>0
  <2> QED BY <1>3, <1>4, <2>1, <2>2 DEF Plan, ReturnsItsStatus, Ending
<1>11. VerdictIsEarned' BY <1>2, <1>3 DEF Plan, VerdictIsEarned
<1> QED BY <1>5, <1>6, <1>7, <1>8, <1>9, <1>10, <1>11 DEF Plan

\* The child has exited: with 0, it ran what it was asked for.
LEMMA PlanReap == ASSUME IInv, Plan, NEW x \in X, Reap(x) PROVE Plan'
<1>0. /\ pc \in [X -> PcOf] /\ ret \in [X -> {"none", "done", "failed"} \cup Ending]
      /\ status \in [X -> StatusOf] /\ main \in MainOf /\ ran \in [X -> SUBSET (Nat \X Nat)]
  BY DEF IInv, TypeOK
<1>1. pc[x] = "poll" /\ UNCHANGED <<mode, main, at, due, round, verdict>>
  BY DEF Reap
<1>2. main \in {"wait", "plotwait", "start", "join"}
  BY <1>0, <1>1 DEF IInv, Inv, MainAlone, Quiet, MainOf
<1>3. Here' = Here /\ \A y \in X : Target(y)' = Target(y) /\ Called(y)' = Called(y)
  BY <1>1 DEF Here, Target, Called
<1>4. status[x] # "failed" BY <1>1 DEF Plan, FailedIsOut
<1>5. CASE Return(x, "credentials") /\ status' = [status EXCEPT ![x] = "credentials expired"]
           /\ UNCHANGED ran
  BY <1>0, <1>1, <1>5, PlanRunOne DEF Return, PcOf, Ending
<1>6. CASE /\ pc' = [pc EXCEPT ![x] = "retry"]
           /\ status' = [status EXCEPT ![x] = "waiting for spot"] /\ UNCHANGED <<ret, ran>>
  BY <1>0, <1>1, <1>6, PlanRunOne DEF PcOf
<1>7. CASE \E how \in {"done", "failed"} :
             /\ Return(x, how) /\ status' = [status EXCEPT ![x] = how]
             /\ ran' = IF how = "done" THEN [ran EXCEPT ![x] = @ \cup Asked(x)] ELSE ran
  <2>1. PICK how \in {"done", "failed"} :
             /\ Return(x, how) /\ status' = [status EXCEPT ![x] = how]
             /\ ran' = IF how = "done" THEN [ran EXCEPT ![x] = @ \cup Asked(x)] ELSE ran
    BY <1>7
  <2>2. /\ pc'[x] = "returned" /\ ret'[x] = how /\ status'[x] = how
        /\ \A y \in X \ {x} : /\ pc'[y] = pc[y] /\ ret'[y] = ret[y] /\ status'[y] = status[y]
                             /\ ran'[y] = ran[y]
    BY <1>0, <2>1 DEF Return
  <2>3. ran'[x] = ran[x] \cup (IF how = "done" THEN Asked(x) ELSE {})
    BY <1>0, <2>1
  <2>4. main \in InPlan => Asked(x) = Target(x)
    <3>1. main \in {"start", "join"} => mode = "concurrent" BY DEF IInv, Inv, OneRound
    <3> QED BY <1>2, <3>1 DEF Asked, Target, Here, InPlan
  <2>5. main = "plotwait" => Asked(x) = Cells(x) BY DEF Asked
  <2>6. main \in InPlan /\ mode # "sequential" =>
          x \in round /\ Group[x] = at.g /\ Here \in Cells(x)
    BY <1>1 DEF Plan, RoundHasTheCell
  <2>7. main \in InPlan => x \notin due BY <1>1 DEF Plan, FailedIsOut
  <2>8. \A y \in X : ran[y] \subseteq ran'[y]
    BY <2>2, <2>3
  <2>9. Behind'
    <3>1. \A y \in X : status'[y] # "failed" => status[y] # "failed" BY <1>4, <2>2
    <3> QED BY <1>1, <1>3, <2>8, <3>1 DEF Plan, Behind
  <2>10. Ahead'
    <3> SUFFICES ASSUME mode # "sequential", NEW y \in X, NEW c \in ran'[y], c \notin ran[y]
                 PROVE  Group[y] < at.g \/ (Group[y] = at.g /\ (Before(c, Here) \/ c = Here))
      BY <1>1, <1>3 DEF Plan, Ahead
    <3>1. y = x /\ how = "done" /\ c \in Asked(x) BY <2>2, <2>3
    <3>2. CASE main = "plotwait" BY <3>1, <3>2 DEF Plan, PlotIsLast
    <3>3. CASE main # "plotwait" BY <1>2, <2>4, <2>6, <3>1, <3>3 DEF InPlan, Target
    <3> QED BY <3>2, <3>3
  <2>11. OnlyCells'
    <3>1. Asked(x) \subseteq Cells(x)
      BY <1>2, <2>4, <2>5, <2>6 DEF Target, InPlan
    <3> QED BY <1>1, <2>2, <2>3, <3>1 DEF Plan, OnlyCells
  <2>12. FailedIsOut' BY <1>1, <1>2, <2>2, <2>7 DEF Plan, FailedIsOut, IInv, TypeOK
  <2>13. RoundHasTheCell'
    BY <1>1, <1>3, <1>4, <2>2, <2>6 DEF Plan, RoundHasTheCell
  <2>14. CalledHaveRun' BY <1>1, <1>3, <2>2, <2>8 DEF Plan, CalledHaveRun
  <2>15. ReturnsItsStatus'
    <3>1. main \in InPlan /\ how = "done" => Target(x) \subseteq ran'[x] BY <2>3, <2>4
    <3> QED BY <1>1, <1>3, <2>2, <3>1 DEF Plan, ReturnsItsStatus
  <2>16. PlotIsLast' BY <1>1 DEF Plan, PlotIsLast
  <2>17. VerdictIsEarned' BY <1>1, <1>2 DEF Plan, VerdictIsEarned
  <2> QED BY <2>9, <2>10, <2>11, <2>12, <2>13, <2>14, <2>15, <2>16, <2>17 DEF Plan
<1> QED BY <1>5, <1>6, <1>7 DEF Reap

\* The loops go on to the next cell when everybody who has this one ran it, or failed.
LEMMA PlanAdvance ==
    ASSUME IInv, Plan, mode # "sequential", main \in {"cell", "run", "join"}, main' = "cell",
           at' = NextCell, UNCHANGED <<mode, status, verdict, ran>>,
           \A y \in X : pc'[y] = "idle",
           \A y \in X : status[y] # "failed" /\ Group[y] = at.g /\ Here \in Cells(y) => Here \in ran[y]
    PROVE  Plan'
<1>1. TypeOK /\ at.k > 0 BY DEF IInv, Plan, OnlyCells
<1>2. Here' = <<NextCell.k, NextCell.i>> BY DEF Here
<1>3. Behind'
  <2> SUFFICES ASSUME NEW y \in X, status[y] # "failed", NEW d \in Cells(y),
                      Group[y] < NextCell.g \/ (Group[y] = NextCell.g /\ Before(d, Here'))
               PROVE  d \in ran[y]
    BY DEF Behind
  <2>1. Group[y] < at.g \/ (Group[y] = at.g /\ (Before(d, Here) \/ d = Here))
    BY <1>1, <1>2, NextCellStep
  <2> QED BY <2>1 DEF Plan, Behind
<1>4. Ahead'
  <2> SUFFICES ASSUME NEW y \in X, NEW c \in ran[y]
               PROVE  Group[y] < NextCell.g \/ (Group[y] = NextCell.g /\ Before(c, Here'))
    BY DEF Ahead
  <2>1. c \in Cells(y) BY DEF Plan, OnlyCells
  <2>2. Group[y] < at.g \/ (Group[y] = at.g /\ (Before(c, Here) \/ c = Here))
    BY DEF Plan, Ahead
  <2> QED BY <1>1, <1>2, <2>1, <2>2, NextCellStep
<1>5. OnlyCells' BY <1>1, NextCellStep DEF Plan, OnlyCells
<1>6. FailedIsOut' /\ RoundHasTheCell' /\ CalledHaveRun' /\ ReturnsItsStatus' /\ PlotIsLast'
  BY DEF FailedIsOut, RoundHasTheCell, CalledHaveRun, ReturnsItsStatus, PlotIsLast, InPlan
<1>7. VerdictIsEarned' BY DEF Plan, VerdictIsEarned
<1> QED BY <1>3, <1>4, <1>5, <1>6, <1>7 DEF Plan

LEMMA PlanBoot == ASSUME IInv, Plan, Boot PROVE Plan'
<1>1. /\ main = "boot" /\ main' \in {"run", "cell"} /\ (main' = "run") = (mode = "sequential")
      /\ main' = "run" => due' = X
      /\ UNCHANGED <<mode, at, round, pc, ret, status, verdict, ran>>
  BY DEF Boot
<1>2. \A x \in X : pc[x] = "idle" BY <1>1 DEF IInv, Inv, MainAlone, Quiet
<1>3. Here' = Here BY <1>1 DEF Here
<1>4. Behind' /\ Ahead' BY <1>1, <1>3 DEF Plan, Behind, Ahead
<1>5. FailedIsOut' BY <1>1, <1>2 DEF Plan, FailedIsOut, InPlan
<1>6. OnlyCells' /\ RoundHasTheCell' /\ CalledHaveRun' /\ ReturnsItsStatus' /\ PlotIsLast'
      /\ VerdictIsEarned'
  BY <1>1, <1>2 DEF Plan, OnlyCells, RoundHasTheCell, CalledHaveRun, ReturnsItsStatus, PlotIsLast,
                    VerdictIsEarned, InPlan
<1> QED BY <1>4, <1>5, <1>6 DEF Plan

\* The members due are those that have the cell and have not failed.
LEMMA DueHave ==
    ASSUME TypeOK, at.k > 0
    PROVE  Due = {x \in X : status[x] # "failed" /\ Group[x] = at.g /\ Here \in Cells(x)}
<1>1. \A x \in X : Here \in Cells(x) <=> at.k <= Reps[x] /\ at.i < Points[x]
  BY QueueAssumption DEF TypeOK, Here, Cells
<1> QED BY <1>1 DEF Due, Members

LEMMA PlanCell == ASSUME IInv, Plan, Cell PROVE Plan'
<1>1. main = "cell" /\ UNCHANGED <<mode, pc, ret, status, verdict, ran>> BY DEF Cell
<1>2. mode # "sequential" /\ \A x \in X : pc[x] = "idle"
  BY <1>1 DEF Plan, PlotIsLast, IInv, Inv, MainAlone, Quiet
<1>3. Due = {x \in X : status[x] # "failed" /\ Group[x] = at.g /\ Here \in Cells(x)}
  BY DueHave DEF IInv, Plan, OnlyCells
<1>4. CASE (\A x \in X : Group[x] < at.g) /\ main' = "plot" /\ UNCHANGED at
  <2>1. Here' = Here BY <1>4 DEF Here
  <2>2. Behind' /\ Ahead' BY <1>1, <1>4, <2>1 DEF Plan, Behind, Ahead
  <2> QED BY <1>1, <1>2, <1>4, <2>2
          DEF Plan, OnlyCells, FailedIsOut, RoundHasTheCell, CalledHaveRun, ReturnsItsStatus,
              PlotIsLast, VerdictIsEarned, InPlan
<1>5. CASE Due = {} /\ at' = NextCell /\ UNCHANGED main
  BY <1>1, <1>2, <1>3, <1>5, PlanAdvance
<1>6. CASE due' = Due /\ round' = Due /\ main' \in {"start", "run"} /\ UNCHANGED at
  <2>1. Here' = Here BY <1>6 DEF Here
  <2>2. Behind' /\ Ahead' BY <1>1, <2>1, <1>6 DEF Plan, Behind, Ahead
  <2>3. FailedIsOut' BY <1>1, <1>2, <1>3, <1>6 DEF Plan, FailedIsOut
  <2>4. RoundHasTheCell' BY <1>1, <1>2, <1>3, <1>6, <2>1 DEF RoundHasTheCell
  <2>5. CalledHaveRun' BY <1>1, <1>2, <1>6 DEF CalledHaveRun, Called
  <2> QED BY <1>1, <1>2, <1>6, <2>2, <2>3, <2>4, <2>5
          DEF Plan, OnlyCells, ReturnsItsStatus, PlotIsLast, VerdictIsEarned
<1> QED BY <1>4, <1>5, <1>6 DEF Cell

\* run_one of x is called.
LEMMA PlanCall ==
    ASSUME IInv, Plan, NEW x \in X, x \in due, Call(x), due' = due \ {x}, main \in {"run", "start"},
           main' \in {main, "wait"}, UNCHANGED <<mode, at, round, ret, status, verdict, ran>>
    PROVE  Plan'
<1>1. pc'[x] = "top" /\ \A y \in X \ {x} : pc'[y] = pc[y] BY DEF Call, IInv, TypeOK
<1>2. Here' = Here /\ \A y \in X : Target(y)' = Target(y) /\ Called(y)' = Called(y)
  BY DEF Here, Target, Called
<1>3. status[x] # "failed" /\ (mode # "sequential" => x \in round)
  BY DEF Plan, FailedIsOut, RoundHasTheCell, InPlan
<1>4. Behind' /\ Ahead' BY <1>2 DEF Plan, Behind, Ahead
<1>5. FailedIsOut'
  <2>1. due \subseteq X BY DEF IInv, TypeOK
  <2> QED BY <1>1, <1>3, <2>1 DEF Plan, FailedIsOut, InPlan
<1>6. RoundHasTheCell' BY <1>1, <1>2, <1>3 DEF Plan, RoundHasTheCell, InPlan
<1>7. CalledHaveRun' BY <1>1, <1>2 DEF Plan, CalledHaveRun, InPlan
<1>8. ReturnsItsStatus' BY <1>1, <1>2 DEF Plan, ReturnsItsStatus, InPlan
<1>9. OnlyCells' /\ PlotIsLast' /\ VerdictIsEarned'
  BY DEF Plan, OnlyCells, PlotIsLast, VerdictIsEarned
<1> QED BY <1>4, <1>5, <1>6, <1>7, <1>8, <1>9 DEF Plan

\* The plan is over, run through or left with an ending verdict.
LEMMA PlanOver ==
    ASSUME Plan, UNCHANGED <<mode, at, ran>>,
           main' \in {"wrapup", "ending", "sweep", "images", "close", "over"},
           \A y \in X : (status'[y] = "failed") = (status[y] = "failed"),
           \A y \in X : pc'[y] = "idle",
           VerdictIsEarned'
    PROVE  Plan'
<1>1. Here' = Here BY DEF Here
<1>2. Behind' /\ Ahead' BY <1>1 DEF Plan, Behind, Ahead
<1> QED BY <1>2 DEF Plan, OnlyCells, FailedIsOut, RoundHasTheCell, CalledHaveRun, ReturnsItsStatus,
                    PlotIsLast, InPlan

LEMMA PlanRunNext == ASSUME IInv, Plan, RunNext PROVE Plan'
<1>1. main = "run" /\ UNCHANGED <<mode, round, ret, status, verdict, ran>> BY DEF RunNext
<1>2. \A x \in X : pc[x] = "idle" BY <1>1 DEF IInv, Inv, MainAlone, Quiet
<1>3. verdict = "done" BY <1>1 DEF Plan, VerdictIsEarned
<1>4. CASE \E x \in X : First(x, due) /\ Call(x) /\ due' = due \ {x} /\ main' = "wait" /\ UNCHANGED at
  BY <1>1, <1>4, PlanCall DEF First
<1>5. CASE due = {} /\ mode = "sequential" /\ main' = "wrapup" /\ UNCHANGED <<due, at, pc>>
  <2>1. AllRan
    BY <1>1, <1>2, <1>5 DEF Plan, CalledHaveRun, Called, Target, AllRan, InPlan
  <2>2. VerdictIsEarned' BY <1>1, <1>3, <1>5, <2>1 DEF VerdictIsEarned, AllRan
  <2> QED BY <1>1, <1>2, <1>5, <2>2, PlanOver
<1>6. CASE due = {} /\ mode # "sequential" /\ main' = "cell" /\ at' = NextCell /\ UNCHANGED <<due, pc>>
  <2>1. \A y \in X : status[y] # "failed" /\ Group[y] = at.g /\ Here \in Cells(y) => Here \in ran[y]
    BY <1>1, <1>2, <1>6 DEF Plan, RoundHasTheCell, CalledHaveRun, Called, Target, InPlan
  <2> QED BY <1>1, <1>2, <1>6, <2>1, PlanAdvance
<1> QED BY <1>4, <1>5, <1>6 DEF RunNext

LEMMA PlanResult == ASSUME IInv, Plan, Result PROVE Plan'
<1>1. main = "wait" /\ UNCHANGED <<mode, at, due, round, ret, status, ran>> BY DEF Result
<1>2. PICK x \in X :
          /\ pc[x] = "returned" /\ Idle({x})
          /\ \/ ret[x] \in Ending /\ verdict' = ret[x] /\ main' = "wrapup"
             \/ ret[x] \notin Ending /\ main' = "run" /\ UNCHANGED verdict
  BY DEF Result
<1>3. \A y \in X : pc'[y] = "idle"
  BY <1>1, <1>2 DEF Idle, IInv, Inv, OneCall
<1>4. CASE ret[x] \in Ending /\ verdict' = ret[x] /\ main' = "wrapup"
  <2>1. VerdictIsEarned' BY <1>4 DEF VerdictIsEarned, Ending
  <2> QED BY <1>1, <1>3, <1>4, <2>1, PlanOver
<1>5. CASE ret[x] \notin Ending /\ main' = "run" /\ UNCHANGED verdict
  <2>1. Here' = Here /\ \A y \in X : Target(y)' = Target(y) /\ Called(y)' = Called(y)
    BY <1>1 DEF Here, Target, Called
  <2>2. status[x] # "failed" => Target(x) \subseteq ran[x]
    <3>1. ret[x] \in {"done", "failed"}
      BY <1>2, <1>5 DEF Plan, ReturnsItsStatus, IInv, TypeOK
    <3> QED BY <1>1, <1>2, <3>1 DEF Plan, ReturnsItsStatus, InPlan
  <2>3. Behind' /\ Ahead' BY <1>1, <2>1 DEF Plan, Behind, Ahead
  <2>4. FailedIsOut'
    <3>1. due \subseteq X /\ main' = "run" BY <1>5 DEF IInv, TypeOK
    <3>2. \A y \in due : status[y] # "failed" BY <1>1 DEF Plan, FailedIsOut, InPlan
    <3> QED BY <1>1, <1>3, <3>1, <3>2 DEF FailedIsOut
  <2>5. RoundHasTheCell' BY <1>1, <1>3, <2>1 DEF Plan, RoundHasTheCell, InPlan
  <2>6. CalledHaveRun'
    <3>1. \A y \in X \ {x} : pc[y] = "idle" BY <1>1, <1>2 DEF IInv, Inv, OneCall
    <3> QED BY <1>1, <2>1, <2>2, <3>1 DEF Plan, CalledHaveRun, InPlan
  <2> QED BY <1>1, <1>3, <1>5, <2>3, <2>4, <2>5, <2>6
          DEF Plan, OnlyCells, ReturnsItsStatus, PlotIsLast, VerdictIsEarned
<1> QED BY <1>2, <1>4, <1>5

LEMMA PlanStartThread == ASSUME IInv, Plan, StartThread PROVE Plan'
<1>1. main = "start" /\ UNCHANGED <<mode, at, round, ret, status, verdict, ran>> BY DEF StartThread
<1>2. CASE \E x \in X : First(x, due) /\ Call(x) /\ due' = due \ {x} /\ UNCHANGED main
  BY <1>1, <1>2, PlanCall DEF First
<1>3. CASE due = {} /\ main' = "join" /\ UNCHANGED <<due, pc>>
  <2>1. Here' = Here /\ \A y \in X : Target(y)' = Target(y) /\ Called(y)' = Called(y)
    BY <1>1 DEF Here, Target, Called
  <2>2. Behind' /\ Ahead' BY <1>1, <2>1 DEF Plan, Behind, Ahead
  <2>3. RoundHasTheCell' BY <1>1, <1>3, <2>1 DEF Plan, RoundHasTheCell, InPlan
  <2>4. CalledHaveRun' /\ ReturnsItsStatus'
    BY <1>1, <1>3, <2>1 DEF Plan, CalledHaveRun, ReturnsItsStatus, InPlan
  <2> QED BY <1>1, <1>3, <2>2, <2>3, <2>4
          DEF Plan, OnlyCells, FailedIsOut, PlotIsLast, VerdictIsEarned, InPlan
<1> QED BY <1>2, <1>3 DEF StartThread

LEMMA PlanJoin == ASSUME IInv, Plan, Join PROVE Plan'
<1> DEFINE ended == {x \in round : ret[x] \in Ending}
<1>1. /\ main = "join" /\ UNCHANGED <<mode, due, round, ret, status, ran>>
      /\ (\A x \in round : pc[x] = "returned") /\ Idle(round)
  BY DEF Join
<1>2. mode # "sequential" BY <1>1 DEF IInv, Inv, OneRound
<1>3. \A y \in X : pc'[y] = "idle"
  BY <1>1, <1>2 DEF Idle, Plan, RoundHasTheCell, InPlan
<1>4. CASE main' = "wrapup" /\ UNCHANGED at /\ verdict' \in Ending
  <2>1. VerdictIsEarned' BY <1>4 DEF VerdictIsEarned, Ending
  <2> QED BY <1>1, <1>3, <1>4, <2>1, PlanOver
<1>5. CASE ended = {} /\ main' = "cell" /\ at' = NextCell /\ UNCHANGED verdict
  <2> SUFFICES ASSUME NEW y \in X, status[y] # "failed", Group[y] = at.g, Here \in Cells(y)
               PROVE  Here \in ran[y]
    BY <1>1, <1>2, <1>3, <1>5, PlanAdvance
  <2>1. y \in round BY <1>1, <1>2 DEF Plan, RoundHasTheCell, InPlan
  <2>2. ret[y] \in {"done", "failed"}
    BY <1>1, <1>5, <2>1 DEF Plan, ReturnsItsStatus, IInv, TypeOK
  <2>3. Target(y) \subseteq ran[y]
    BY <1>1, <2>1, <2>2 DEF Plan, ReturnsItsStatus, InPlan
  <2> QED BY <1>2, <2>3 DEF Target
<1> QED BY <1>4, <1>5 DEF Join, Last

LEMMA PlanPlot == ASSUME IInv, Plan, Plot PROVE Plan'
<1>1. main = "plot" /\ UNCHANGED <<mode, at, round, ret, status, verdict, ran>> BY DEF Plot
<1>2. \A x \in X : pc[x] = "idle" BY <1>1 DEF IInv, Inv, MainAlone, Quiet
<1>3. Here' = Here BY <1>1 DEF Here
<1>4. mode # "sequential" /\ (\A x \in X : Group[x] < at.g) /\ verdict = "done"
  BY <1>1 DEF Plan, PlotIsLast, VerdictIsEarned
<1>5. CASE \E x \in X : /\ First(x, due) /\ due' = due \ {x}
                        /\ \/ status[x] = "done" /\ Call(x) /\ main' = "plotwait"
                           \/ status[x] # "done" /\ UNCHANGED <<pc, main>>
  <2>1. main' \in {"plot", "plotwait"} BY <1>1, <1>5
  <2>2. \A x \in X : pc'[x] = "idle" \/ (pc'[x] = "top" /\ status[x] = "done")
    BY <1>2, <1>5 DEF Call, IInv, TypeOK
  <2>3. Behind' /\ Ahead' BY <1>1, <1>3 DEF Plan, Behind, Ahead
  <2> QED BY <1>1, <1>4, <2>1, <2>2, <2>3
          DEF Plan, OnlyCells, FailedIsOut, RoundHasTheCell, CalledHaveRun, ReturnsItsStatus,
              PlotIsLast, VerdictIsEarned, InPlan
<1>6. CASE due = {} /\ main' = "wrapup" /\ UNCHANGED <<due, pc>>
  <2>1. AllRan BY <1>4 DEF Plan, Behind, AllRan
  <2>2. VerdictIsEarned' BY <1>1, <1>4, <1>6, <2>1 DEF VerdictIsEarned, AllRan
  <2> QED BY <1>1, <1>2, <1>6, <2>2, PlanOver
<1> QED BY <1>5, <1>6 DEF Plot

LEMMA PlanPlotted == ASSUME IInv, Plan, Plotted PROVE Plan'
<1>1. /\ main = "plotwait" /\ main' = "plot"
      /\ UNCHANGED <<mode, at, due, round, ret, status, verdict, ran>>
  BY DEF Plotted
<1>2. \A y \in X : pc'[y] = "idle" BY <1>1 DEF Plotted, Idle, IInv, Inv, OneCall
<1>3. Here' = Here BY <1>1 DEF Here
<1>4. Behind' /\ Ahead' BY <1>1, <1>3 DEF Plan, Behind, Ahead
<1> QED BY <1>1, <1>2, <1>4
        DEF Plan, OnlyCells, FailedIsOut, RoundHasTheCell, CalledHaveRun, ReturnsItsStatus,
            PlotIsLast, VerdictIsEarned, InPlan

LEMMA PlanEnd == ASSUME IInv, Plan, WrapUp \/ Ended \/ Sweep \/ SweepImages \/ Close PROVE Plan'
<1>1. /\ main \in {"wrapup", "ending", "sweep", "images", "close"}
      /\ main' \in {"ending", "sweep", "images", "close", "over"}
      /\ UNCHANGED <<mode, at, pc, ran>>
  BY DEF WrapUp, Ended, Sweep, SweepImages, Close
<1>2. \A x \in X : pc[x] = "idle" BY <1>1 DEF IInv, Inv, MainAlone, Quiet
<1>3. \A y \in X : (status'[y] = "failed") = (status[y] = "failed")
  BY DEF WrapUp, Ended, Sweep, SweepImages, Close, Ending
<1>4. VerdictIsEarned'
  <2>1. CASE WrapUp BY <2>1 DEF WrapUp, Plan, VerdictIsEarned, AllRan
  <2>2. CASE Ended BY <2>2 DEF Ended, Plan, VerdictIsEarned, Ending
  <2>3. CASE Sweep BY <2>3 DEF Sweep, Plan, VerdictIsEarned, Ending
  <2>5. CASE SweepImages BY <2>5 DEF SweepImages, Plan, VerdictIsEarned, Ending
  <2>4. CASE Close
    <3>1. main = "close" /\ main' = "over" /\ ran' = ran BY <2>4 DEF Close
    <3>2. verdict' = "done" => verdict = "done" /\ \A x \in X : status[x] # "failed"
      BY <2>4 DEF Close, Ending
    <3>3. verdict' = "done" => AllRan' /\ \A x \in X : status'[x] # "failed"
      BY <1>3, <3>1, <3>2 DEF Plan, VerdictIsEarned, AllRan
    <3> QED BY <3>1, <3>3 DEF VerdictIsEarned
  <2> QED BY <2>1, <2>2, <2>3, <2>4, <2>5
<1> QED BY <1>1, <1>2, <1>3, <1>4, PlanOver

LEMMA PlanStep == IInv /\ Plan /\ [Next]_vars => Plan'
<1> SUFFICES ASSUME IInv, Plan, [Next]_vars PROVE Plan'
  OBVIOUS
<1>1. ASSUME NEW x \in X, Check(x) \/ Spawn(x) \/ Register(x) PROVE Plan'
  <2>1. CASE Check(x)
    BY <2>1, PlanRunOne DEF Check, Return, PcOf, Ending, runner, world
  <2>2. CASE Spawn(x)
    BY <2>2, PlanRunOne DEF Spawn, PcOf
  <2>3. CASE Register(x)
    BY <2>3, PlanRunOne DEF Register, PcOf
  <2> QED BY <1>1, <2>1, <2>2, <2>3
<1>2. ASSUME NEW x \in X, PollEnds(x) \/ EndReturns(x) \/ Retry(x) PROVE Plan'
  <2>1. CASE PollEnds(x)
    BY <2>1, PlanRunOne DEF PollEnds, PcOf
  <2>2. CASE EndReturns(x)
    BY <2>2, PlanRunOne DEF EndReturns, Return, PcOf, Ending
  <2>3. CASE Retry(x)
    BY <2>3, PlanRunOne DEF Retry, PcOf
  <2> QED BY <1>2, <2>1, <2>2, <2>3
<1>3. ASSUME NEW x \in X, RunOne(x) PROVE Plan'
  BY <1>1, <1>2, <1>3, PlanReap DEF RunOne
<1>4. ASSUME NEW x \in X, Child(x) PROVE Plan'
  BY <1>4, PlanSame DEF Child, ChildLaunch, ChildPrint, ChildTerminate, ChildExit, TeardownDone, StrayLaunch, runner
<1>5. CASE Stop \/ Expire \/ LoseCreds \/ ForeignLaunch \/ StrayPrint \/ UNCHANGED vars
  BY <1>5, PlanSame DEF Stop, Expire, LoseCreds, ForeignLaunch, StrayPrint, vars, runner
<1>6. CASE Main
  BY <1>6, PlanBoot, PlanCell, PlanRunNext, PlanResult, PlanStartThread, PlanJoin, PlanPlot,
     PlanPlotted, PlanEnd DEF Main
<1> QED BY <1>3, <1>4, <1>5, <1>6 DEF Next, Over

LEMMA PlanInit == Init => Plan
<1> SUFFICES ASSUME Init PROVE Plan OBVIOUS
<1>1. Here = <<1, 0>> /\ at.g = 0 /\ at.k = 1 BY DEF Init, Here
<1>2. \A y \in X : \A d \in Cells(y) : ~Before(d, Here) /\ ~(Group[y] < at.g)
  BY <1>1, QueueAssumption DEF Cells, Before
<1>3. Behind BY <1>2 DEF Behind
<1>4. FailedIsOut /\ VerdictIsEarned BY DEF Init, FailedIsOut, VerdictIsEarned, InPlan
<1>5. Ahead /\ OnlyCells BY <1>1 DEF Init, Ahead, OnlyCells
<1>6. RoundHasTheCell /\ CalledHaveRun /\ ReturnsItsStatus /\ PlotIsLast
  BY DEF Init, RoundHasTheCell, CalledHaveRun, ReturnsItsStatus, PlotIsLast, InPlan
<1> QED BY <1>3, <1>4, <1>5, <1>6 DEF Plan

\* What the plan has behind it is kept by every step, in every mode.
THEOREM PlanHolds == Spec => []Plan
  BY PlanInit, PlanStep, Invariant, PTL DEF Spec

\* The members of a group alternate: whatever member a cell is of, when it has been measured
\* so has every earlier cell of every member that has not failed (run_group).
THEOREM GroupsAlternate == Spec => []MembersAlternate
<1>1. TypeOK /\ Plan => MembersAlternate
  <2> SUFFICES ASSUME TypeOK, Plan, mode # "sequential", NEW x \in X, NEW y \in X,
                      Group[x] = Group[y], status[y] # "failed",
                      NEW c \in ran[x], NEW d \in Cells(y), Before(d, c)
               PROVE  d \in ran[y]
    BY DEF MembersAlternate
  <2>1. Group[x] < at.g \/ (Group[x] = at.g /\ (Before(c, Here) \/ c = Here))
    BY DEF Plan, Ahead
  <2>2. c \in Cells(x) BY DEF Plan, OnlyCells
  <2>3. c \in Nat \X Nat /\ d \in Nat \X Nat /\ Here \in Nat \X Nat
    BY <2>2, CellsType DEF TypeOK, Here
  <2>4. Before(c, Here) \/ c = Here => Before(d, Here) BY <2>3 DEF Before
  <2> QED BY <2>1, <2>4 DEF Plan, Behind
<1> QED BY <1>1, TypeCorrect, PlanHolds, PTL

\* "done" is said of queues that ran everything: run_group's rounds leave no cell of a
\* member out, and a queue is left early or with a failure only under another verdict.
THEOREM DoneIsDone == Spec => []DoneMeansEverythingRan
<1>1. Plan => DoneMeansEverythingRan
  BY DEF Plan, VerdictIsEarned, AllRan, OnlyCells, DoneMeansEverythingRan
<1> QED BY <1>1, PlanHolds, PTL
=============================================================================
