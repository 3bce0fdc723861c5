----------------------------- MODULE SweepProofs -----------------------------
(***************************************************************************)
(* For every experiment, of any number of points, values and reps, killed  *)
(* and started again any number of times: a row has the knobs of the image *)
(* it ran on, and, where done can recognise a row read back from the CSV,  *)
(* no cell is measured twice.  A row is made when the image is its cell's  *)
(* own; and from the moment a cell was not found until its rows are in the *)
(* frame, no row of the frame is of that cell.                             *)
(***************************************************************************)
EXTENDS Sweep, TLAPS

\* The k-th run of the n-th cell of a call, its m-th query, on the image built for it.
RowAs(c, n, m, v, k) ==
    [held |-> Held(c), value |-> Plan(c)[n].value, rep |-> Plan(c)[n].rep, query |-> m..m,
     valid |-> v, image |-> Image(c, Plan(c)[n].value), run |-> k]

Fit ==
    {RowAs(c, n, m, v, k) :
        c \in DOMAIN x.calls, n \in Nat, m \in 1..x.queries, v \in BOOLEAN, k \in Nat}

Placed ==
    /\ x \in Experiments
    /\ exp \in {"off", "running", "ok", "failed"} /\ pc \in PcOf
    /\ (pc = "off") = (exp # "running")
    /\ call \in DOMAIN x.calls /\ idx \in Nat \ {0} /\ idx <= Len(Plan(call)) + 1
    /\ pc \in {"build", "run", "concat", "write", "check"} => idx <= Len(Plan(call))
    /\ attempt \in 1..MaxAttempts
    /\ runs \in 0..MaxRuns /\ starts \in 0..MaxStarts

\* The frame and the file, and how much of one is in the other.
Framed ==
    /\ rows \in Seq(Fit) /\ df \in Seq(Fit) /\ file \in Seq(Fit)
    /\ old \in 0..Len(df)
    /\ torn \in BOOLEAN /\ (torn => file = <<>>)
    /\ pc \in {"next", "build", "run", "concat", "check"} => file = df
    /\ pc = "write" => Len(file) <= Len(df)

Imaged == pc = "run" => built = Image(call, Cell.value)

IInv == Placed /\ Framed /\ Imaged

-----------------------------------------------------------------------------
(***************************************************************************)
(* Sequences, and what an experiment is made of.                           *)
(***************************************************************************)
LEMMA Prefix ==
    ASSUME NEW S, NEW s \in Seq(S), NEW n \in 0..Len(s)
    PROVE  SubSeq(s, 1, n) \in Seq(S) /\ Len(SubSeq(s, 1, n)) = n
OBVIOUS

LEMMA Calls ==
    ASSUME x \in Experiments
    PROVE  /\ x.calls \in Seq(DriverCall) /\ DOMAIN x.calls = 1..Len(x.calls)
           /\ 1 \in DOMAIN x.calls /\ x.reps \in Nat \ {0} /\ x.queries \in Nat \ {0}
<1>1. x \in Experiment /\ x.calls # <<>> BY SweepAssumption DEF SweepAssumption
<1>2. x.calls \in Seq(DriverCall) /\ x.reps \in Nat \ {0} /\ x.queries \in Nat \ {0}
  BY <1>1 DEF Experiment
<1>3. DOMAIN x.calls = 1..Len(x.calls) /\ Len(x.calls) # 0 /\ Len(x.calls) \in Nat
  BY <1>1, <1>2
<1> QED BY <1>2, <1>3

LEMMA PlanLength ==
    ASSUME x \in Experiments, NEW c \in DOMAIN x.calls
    PROVE  Len(Plan(c)) \in Nat /\ DOMAIN Plan(c) = 1..Len(Plan(c))
<1>1. x.calls[c] \in DriverCall BY Calls
<1>2. Len(x.calls[c].values) \in Nat BY <1>1 DEF DriverCall
<1> DEFINE a == Len(x.calls[c].values)  b == x.reps
<1>3. a * b \in Nat BY <1>2, Calls
<1> HIDE DEF a, b
<1>4. Plan(c) = [n \in 1..(a * b) |-> Plan(c)[n]] BY DEF Plan, a, b
<1> QED BY <1>3, <1>4

LEMMA Constants == x' = x => Fit' = Fit
BY DEF Fit, RowAs, Held, Plan, Image

-----------------------------------------------------------------------------
(***************************************************************************)
(* The steps.                                                              *)
(***************************************************************************)
LEMMA InitIInv == Init => IInv
<1> SUFFICES ASSUME Init PROVE IInv OBVIOUS
<1>1. x \in Experiments BY DEF Init
<1>2. Len(Plan(1)) \in Nat /\ 1 \in DOMAIN x.calls BY <1>1, Calls, PlanLength
<1>3. Placed BY <1>1, <1>2, SweepAssumption DEF Init, Placed, PcOf, SweepAssumption
<1>4. Framed
  <2>1. \A S : <<>> \in Seq(S) /\ Len(<<>>) = 0 OBVIOUS
  <2>2. rows = <<>> /\ df = <<>> /\ old = 0 /\ file = <<>> /\ torn = FALSE /\ pc = "off" BY DEF Init
  <2>3. rows \in Seq(Fit) /\ df \in Seq(Fit) /\ file \in Seq(Fit) BY <2>1, <2>2
  <2>4. old \in 0..Len(df)
    <3>1. Len(df) = 0 BY <2>1, <2>2
    <3> QED BY <2>2, <3>1
  <2> QED BY <2>2, <2>3, <2>4 DEF Framed
<1>5. Imaged BY DEF Init, Imaged
<1> QED BY <1>3, <1>4, <1>5 DEF IInv

\* A driver begins, or both processes are gone: nothing but the file is left.
LEMMA AnewIInv ==
    ASSUME IInv, x' = x, file' = file, torn' = torn, runs' \in 0..MaxRuns, starts' \in 0..MaxStarts,
           \/ exp' = "running" /\ (\E c \in DOMAIN x.calls : Driver(c))
           \/ \E how \in {"off", "ok", "failed"} : Gone(how)
    PROVE  IInv'
<1> USE DEF IInv
<1>1. /\ call' \in DOMAIN x.calls /\ idx' = 1 /\ attempt' = 1 /\ rows' = <<>> /\ df' = <<>> /\ old' = 0
      /\ \/ pc' = "read" /\ exp' = "running"
         \/ pc' = "off" /\ exp' \in {"off", "ok", "failed"}
  BY Calls DEF Driver, Gone, Placed
<1>2. Len(Plan(call)') \in Nat
  <2>1. x \in Experiments BY DEF Placed
  <2>2. Len(Plan(call')) \in Nat BY <1>1, <2>1, PlanLength
  <2>3. Plan(call)' = Plan(call') BY DEF Plan
  <2> QED BY <2>2, <2>3
<1>3. Placed' BY <1>1, <1>2, SweepAssumption DEF Placed, PcOf, SweepAssumption
<1>4. Framed' BY <1>1, Constants DEF Framed
<1>5. Imaged' BY <1>1 DEF Imaged
<1> QED BY <1>3, <1>4, <1>5

\* Steps that measure and write nothing, with the image at hand when a run begins.
LEMMA OnIInv ==
    ASSUME IInv, UNCHANGED <<x, exp, call, rows, df, old, file, torn, runs, starts>>,
           pc \in {"next", "build", "run", "check"}, pc' \in {"next", "build", "run"},
           idx' \in Nat \ {0}, idx' <= Len(Plan(call)) + 1, attempt' \in 1..MaxAttempts,
           pc' # "next" => idx' = idx /\ idx <= Len(Plan(call)),
           pc' = "run" => built' = Image(call, Cell.value)
    PROVE  IInv'
<1> USE DEF IInv
<1>1. Plan(call)' = Plan(call) BY DEF Plan
<1>2. Placed' BY <1>1 DEF Placed, PcOf
<1>3. Framed' BY Constants DEF Framed
<1>4. Imaged' BY <1>1 DEF Imaged, Image, Held, Cell
<1> QED BY <1>2, <1>3, <1>4

LEMMA ReadIInv == ASSUME IInv, Read PROVE IInv'
<1> USE DEF IInv
<1>1. CASE Fails BY <1>1, AnewIInv DEF Read, Fails, Placed
<1>2. CASE ~Fails
  <2>1. /\ df' = file /\ old' = Len(file) /\ pc = "read" /\ pc' = "next"
        /\ UNCHANGED <<x, exp, call, idx, built, attempt, rows, file, torn, runs, starts>>
    BY <1>2 DEF Read
  <2>2. Plan(call)' = Plan(call) BY <2>1 DEF Plan
  <2>3. Placed' BY <2>1, <2>2 DEF Placed, PcOf
  <2>4. Framed' BY <2>1, Constants DEF Framed
  <2>5. Imaged' BY <2>1 DEF Imaged
  <2> QED BY <2>3, <2>4, <2>5
<1> QED BY <1>1, <1>2

\* The driver exits with 0.
LEMMA SucceedsIInv ==
    ASSUME IInv, pc # "off", Succeeds, UNCHANGED <<x, file, torn, runs, starts>>
    PROVE  IInv'
<1> USE DEF IInv
<1>1. exp = "running" BY DEF Placed
<1>2. CASE call = Len(x.calls) BY <1>2, AnewIInv DEF Succeeds, Placed
<1>3. CASE call # Len(x.calls)
  <2>1. call + 1 \in DOMAIN x.calls BY <1>3, Calls DEF Placed
  <2>2. exp' = "running" /\ Driver(call + 1) BY <1>1, <1>3 DEF Succeeds
  <2> QED BY <2>1, <2>2, AnewIInv DEF Placed
<1> QED BY <1>2, <1>3

LEMMA NextCellIInv == ASSUME IInv, NextCell PROVE IInv'
<1> USE DEF IInv
<1>1. /\ pc = "next" /\ idx \in Nat \ {0} /\ Len(Plan(call)) \in Nat
      /\ UNCHANGED <<x, file, torn, runs, starts>> /\ attempt \in 1..MaxAttempts
      /\ 1 \in 1..MaxAttempts
  BY PlanLength, SweepAssumption DEF NextCell, Placed, SweepAssumption
<1>2. CASE idx > Len(Plan(call)) BY <1>1, <1>2, SucceedsIInv DEF NextCell
<1>3. CASE idx <= Len(Plan(call)) /\ Done
  <2>1. /\ idx' = idx + 1 /\ pc' = "next"
        /\ UNCHANGED <<exp, call, built, attempt, rows, df, old>>
    BY <1>1, <1>3 DEF NextCell
  <2> QED BY <1>1, <1>3, <2>1, OnIInv
<1>4. CASE idx <= Len(Plan(call)) /\ ~Done
  <2>1. /\ pc' = "build" /\ attempt' = 1
        /\ UNCHANGED <<exp, call, idx, built, rows, df, old>>
    BY <1>1, <1>4 DEF NextCell
  <2> QED BY <1>1, <1>4, <2>1, OnIInv
<1> QED BY <1>1, <1>2, <1>3, <1>4 DEF NextCell

LEMMA BuildIInv == ASSUME IInv, Build PROVE IInv'
<1> USE DEF IInv
<1>1. CASE Fails BY <1>1, AnewIInv DEF Build, Fails, Placed
<1>2. CASE ~Fails
  <2>1. /\ pc = "build" /\ pc' = "run" /\ built' = Image(call, Cell.value)
        /\ UNCHANGED <<x, exp, call, idx, attempt, rows, df, old, file, torn, runs, starts>>
    BY <1>2 DEF Build
  <2>2. /\ idx \in Nat \ {0} /\ idx <= Len(Plan(call)) /\ attempt \in 1..MaxAttempts
        /\ Len(Plan(call)) \in Nat
    BY <2>1, PlanLength DEF Placed
  <2> QED BY <2>1, <2>2, OnIInv
<1> QED BY <1>1, <1>2

LEMMA AgainIInv == ASSUME IInv, Again PROVE IInv'
<1> USE DEF IInv
<1>1. /\ idx \in Nat \ {0} /\ idx <= Len(Plan(call)) /\ attempt + 1 \in 1..MaxAttempts
      /\ Len(Plan(call)) \in Nat
  BY PlanLength, SweepAssumption DEF Placed, Again, SweepAssumption
<1>2. built = Image(call, Cell.value) BY DEF Imaged, Again
<1> QED BY <1>1, <1>2, OnIInv DEF Again

LEMMA MeasureIInv == ASSUME IInv, Measure PROVE IInv'
<1> USE DEF IInv
<1>1. /\ pc = "run" /\ pc' = "concat" /\ runs < MaxRuns /\ runs' = runs + 1
      /\ UNCHANGED <<x, exp, call, idx, built, attempt, df, old, file, torn, starts>>
  BY DEF Measure
<1>2. PICK valid \in [1..x.queries -> BOOLEAN] :
          rows' = [n \in 1..x.queries |-> RowOf(n, valid[n])]
  BY DEF Measure
<1>3. built = Image(call, Cell.value) BY <1>1 DEF Imaged
<1>4. runs + 1 \in 0..MaxRuns /\ runs + 1 \in Nat BY <1>1, SweepAssumption DEF Placed, SweepAssumption
<1>5. \A n \in 1..x.queries : RowOf(n, valid[n]) \in Fit
  <2> SUFFICES ASSUME NEW n \in 1..x.queries PROVE RowOf(n, valid[n]) \in Fit OBVIOUS
  <2>1. call \in DOMAIN x.calls /\ idx \in Nat /\ n \in 1..x.queries /\ valid[n] \in BOOLEAN
    BY Calls DEF Placed
  <2>2. RowOf(n, valid[n]) = RowAs(call, idx, n, valid[n], runs + 1)
    BY <1>3 DEF RowOf, RowAs, Cell
  <2> QED BY <1>4, <2>1, <2>2 DEF Fit
<1>6. x.queries \in Nat BY Calls DEF Placed
<1>7. rows' \in Seq(Fit) BY <1>2, <1>5, <1>6
<1>8. Plan(call)' = Plan(call) BY <1>1 DEF Plan
<1>9. Placed' BY <1>1, <1>4, <1>8 DEF Placed, PcOf
<1>10. Framed' BY <1>1, <1>7, Constants DEF Framed
<1>11. Imaged' BY <1>1 DEF Imaged
<1> QED BY <1>9, <1>10, <1>11

LEMMA ConcatIInv == ASSUME IInv, Concat PROVE IInv'
<1> USE DEF IInv
<1>1. /\ pc = "concat" /\ pc' = "write" /\ df' = df \o rows /\ file' = <<>> /\ torn' = TRUE
      /\ UNCHANGED <<x, exp, call, idx, built, attempt, rows, old, runs, starts>>
  BY DEF Concat
<1>2. Plan(call)' = Plan(call) BY <1>1 DEF Plan
<1>3. Placed' BY <1>1, <1>2 DEF Placed, PcOf
<1>4. df' \in Seq(Fit) BY <1>1 DEF Framed
<1>7. old' \in 0..Len(df')
  <2>1. df \in Seq(Fit) /\ rows \in Seq(Fit) /\ old \in 0..Len(df) BY DEF Framed
  <2>2. Len(df \o rows) = Len(df) + Len(rows) /\ Len(df) \in Nat /\ Len(rows) \in Nat BY <2>1
  <2> QED BY <1>1, <2>1, <2>2
<1>5. Framed' BY <1>1, <1>4, <1>7, Constants DEF Framed
<1>6. Imaged' BY <1>1 DEF Imaged
<1> QED BY <1>3, <1>5, <1>6

LEMMA WriteIInv == ASSUME IInv, Write PROVE IInv'
<1> USE DEF IInv
<1>1. /\ pc = "write" /\ torn' = FALSE
      /\ UNCHANGED <<x, exp, call, idx, built, attempt, rows, df, old, runs, starts>>
  BY DEF Write
<1>2. PICK n \in (Len(file) + 1)..Len(df) :
          file' = SubSeq(df, 1, n) /\ pc' = IF n = Len(df) THEN "check" ELSE "write"
  BY DEF Write
<1>3. df \in Seq(Fit) /\ file \in Seq(Fit) BY DEF Framed
<1>4. n \in 0..Len(df) BY <1>2, <1>3
<1>5. file' \in Seq(Fit) /\ Len(file') = n BY <1>2, <1>3, <1>4, Prefix
<1>6. n = Len(df) => file' = df BY <1>2, <1>3
<1>7. Plan(call)' = Plan(call) BY <1>1 DEF Plan
<1>8. Placed' BY <1>1, <1>2, <1>7 DEF Placed, PcOf
<1>9. Framed'
  <2>1. rows' \in Seq(Fit)' /\ df' \in Seq(Fit)' /\ file' \in Seq(Fit)'
    BY <1>1, <1>3, <1>5, Constants DEF Framed
  <2>2. pc' \in {"write", "check"} /\ (pc' = "check" => file' = df') BY <1>1, <1>2, <1>6
  <2>3. Len(file') <= Len(df') BY <1>1, <1>3, <1>4, <1>5
  <2>4. torn' = FALSE BY <1>1
  <2>5. old' \in 0..Len(df') BY <1>1 DEF Framed
  <2> QED BY <2>1, <2>2, <2>3, <2>4, <2>5 DEF Framed
<1>10. Imaged' BY <1>1, <1>2 DEF Imaged
<1> QED BY <1>8, <1>9, <1>10

LEMMA CheckIInv == ASSUME IInv, Check PROVE IInv'
<1> USE DEF IInv
<1>1. /\ pc = "check" /\ idx \in Nat \ {0} /\ idx <= Len(Plan(call)) /\ Len(Plan(call)) \in Nat
      /\ attempt \in 1..MaxAttempts /\ UNCHANGED <<x, file, torn, runs, starts>>
  BY PlanLength DEF Check, Placed
<1>2. CASE Succeeds BY <1>1, <1>2, SucceedsIInv
<1>3. CASE ~Succeeds
  <2>1. idx' = idx + 1 /\ pc' = "next" /\ UNCHANGED <<exp, call, built, attempt, rows, df, old>>
    BY <1>3 DEF Check
  <2> QED BY <1>1, <2>1, OnIInv
<1> QED BY <1>2, <1>3

LEMMA StepIInv == ASSUME IInv, [Next]_vars PROVE IInv'
<1> USE DEF IInv
<1>1. CASE Start
  <2>1. starts + 1 \in 0..MaxStarts BY <1>1, SweepAssumption DEF Start, Placed, SweepAssumption
  <2>2. 1 \in DOMAIN x.calls BY Calls DEF Placed
  <2> QED BY <1>1, <2>1, <2>2, AnewIInv DEF Start, Placed
<1>2. CASE Killed BY <1>2, AnewIInv DEF Killed, Placed
<1>3. CASE Raise BY <1>3, AnewIInv DEF Raise, Fails, Placed
<1>4. CASE UNCHANGED vars
  BY <1>4, Constants DEF vars, Placed, Framed, Imaged, Plan, Image, Held, Cell
<1> QED
  BY <1>1, <1>2, <1>3, <1>4, ReadIInv, NextCellIInv, BuildIInv, AgainIInv, MeasureIInv, ConcatIInv,
     WriteIInv, CheckIInv
  DEF Next

\* IInv is inductive.
THEOREM Inductive == Spec => []IInv
BY InitIInv, StepIInv, PTL DEF Spec

-----------------------------------------------------------------------------
\* Every variable keeps its type: the driver stays within its plan and its attempts, and
\* to_csv never writes more than the frame.
THEOREM TypeCorrect == Spec => []TypeOK
<1>1. IInv => TypeOK
  <2> SUFFICES ASSUME IInv PROVE TypeOK OBVIOUS
  <2>1. Len(Plan(call)) \in Nat BY PlanLength DEF IInv, Placed
  <2>2. Len(file) <= Len(df) \/ exp # "running" \/ pc = "read"
    BY DEF IInv, Placed, Framed, PcOf
  <2> QED BY <2>1, <2>2 DEF IInv, Placed, Framed, TypeOK
<1> QED BY <1>1, Inductive, PTL

\* A row's knobs are those of the image it ran on, for any plan, skipped cells, retries and
\* restarts (main's `built`).
THEOREM RowsAreOfTheirImage == Spec => []RowsMatchTheirImage
<1>1. IInv => RowsMatchTheirImage
  <2> SUFFICES ASSUME IInv, NEW row \in Rows(file)
               PROVE  \E c \in DOMAIN x.calls : row.held = Held(c) /\ row.image = Image(c, row.value)
    BY DEF RowsMatchTheirImage
  <2>1. row \in Fit BY DEF IInv, Framed, Rows
  <2> QED BY <2>1 DEF Fit, RowAs
<1> QED BY <1>1, Inductive, PTL

-----------------------------------------------------------------------------
(***************************************************************************)
(* No cell twice.  Where a cell has several rows and the query is not the  *)
(* axis, or a knob does not come back from the CSV as it was, done finds   *)
(* none of the rows again, and the claim is false: the run sweep_not_found *)
(* shows both.                                                             *)
(***************************************************************************)
OncePerCell(S) == \A r, q \in S : SameCell(r, q) => r.run = q.run

\* The row is of the cell at hand.
Here(r) == r.held = Held(call) /\ r.value = Cell.value /\ r.rep = Cell.rep

Once ==
    /\ OncePerCell(Rows(df)) /\ OncePerCell(Rows(file))
    /\ pc \in {"build", "run", "concat"} => \A r \in Rows(df) : ~Here(r)
    /\ pc = "concat" => \A r \in Rows(rows) : Here(r) /\ r.run = runs

LEMMA RowsOfNone == Rows(<<>>) = {}
BY DEF Rows

LEMMA RowsOfBoth ==
    ASSUME NEW S, NEW s \in Seq(S), NEW t \in Seq(S)
    PROVE  Rows(s \o t) \subseteq Rows(s) \cup Rows(t)
<1> SUFFICES ASSUME NEW i \in DOMAIN (s \o t) PROVE (s \o t)[i] \in Rows(s) \cup Rows(t)
  BY DEF Rows
<1>1. i \in 1..(Len(s) + Len(t)) OBVIOUS
<1>2. CASE i <= Len(s) BY <1>1, <1>2 DEF Rows
<1>3. CASE i > Len(s)
  <2>1. i - Len(s) \in DOMAIN t /\ (s \o t)[i] = t[i - Len(s)] BY <1>1, <1>3
  <2> QED BY <2>1 DEF Rows
<1> QED BY <1>1, <1>2, <1>3

LEMMA RowsOfPart ==
    ASSUME NEW S, NEW s \in Seq(S), NEW n \in 0..Len(s)
    PROVE  Rows(SubSeq(s, 1, n)) \subseteq Rows(s)
<1> SUFFICES ASSUME NEW i \in DOMAIN SubSeq(s, 1, n) PROVE SubSeq(s, 1, n)[i] \in Rows(s)
  BY DEF Rows
<1>1. i \in 1..n /\ SubSeq(s, 1, n)[i] = s[i] OBVIOUS
<1>2. i \in DOMAIN s BY <1>1
<1> QED BY <1>1, <1>2 DEF Rows

\* What done finds is what is of the cell at hand.
LEMMA DoneFindsTheCell ==
    ASSUME IInv, Recognised, ~Done
    PROVE  \A r \in Rows(df) : ~Here(r)
<1> SUFFICES ASSUME NEW i \in DOMAIN df, Here(df[i]) PROVE FALSE BY DEF Rows
<1>1. df[i] \in Fit BY DEF IInv, Framed
<1>2. PICK m \in 1..x.queries : df[i].query = m..m BY <1>1 DEF Fit, RowAs
<1>3. (x.queries = 1 \/ x.axis = "query") /\ ~x.lost BY DEF Recognised
<1>4. x.queries = 1 => df[i].query = 1..x.queries BY <1>2
<1>5. Found(i) BY <1>3, <1>4 DEF Found, Here
<1> QED BY <1>5 DEF Done

\* Steps that leave the rows where they are.
LEMMA StillOnce ==
    ASSUME Once, UNCHANGED <<x, call, df, file>>,
           pc' # "concat",
           pc' \in {"build", "run"} =>
               idx' = idx /\ (pc \in {"build", "run"} \/ \A r \in Rows(df) : ~Here(r))
    PROVE  Once'
<1>1. pc' \in {"build", "run"} => \A r \in Rows(df) : ~Here(r) BY DEF Once
<1>2. pc' \in {"build", "run"} => \A r \in Rows(df) : ~Here(r)'
  BY <1>1 DEF Here, Held, Cell, Plan
<1> QED BY <1>2 DEF Once, OncePerCell, SameCell, Rows

\* A driver begins, or both processes are gone.
LEMMA AnewOnce ==
    ASSUME Once, file' = file, df' = <<>>, pc' \in {"read", "off"}
    PROVE  Once'
BY RowsOfNone DEF Once, OncePerCell, SameCell, Rows

LEMMA SucceedsOnce == ASSUME Once, Succeeds, file' = file PROVE Once'
BY AnewOnce DEF Succeeds, Gone, Driver

LEMMA MeasureOnce == ASSUME IInv, Once, Measure PROVE Once'
<1>1. pc = "run" /\ pc' = "concat" /\ runs' = runs + 1 /\ UNCHANGED <<x, call, idx, df, file>>
  BY DEF Measure
<1>2. PICK valid \in [1..x.queries -> BOOLEAN] :
          rows' = [n \in 1..x.queries |-> RowOf(n, valid[n])]
  BY DEF Measure
<1>3. \A r \in Rows(rows') : Here(r) /\ r.run = runs'
  <2> SUFFICES ASSUME NEW n \in 1..x.queries
               PROVE  Here(RowOf(n, valid[n])) /\ RowOf(n, valid[n]).run = runs'
    BY <1>2 DEF Rows
  <2> QED BY <1>1 DEF RowOf, Here
<1>4. ASSUME NEW r PROVE r.held = Held(call)' /\ r.value = Cell.value' /\ r.rep = Cell.rep' <=> Here(r)
  BY <1>1 DEF Here, Held, Cell, Plan
<1>5. \A r \in Rows(rows)' : Here(r)' /\ r.run = runs' BY <1>3, <1>4 DEF Here, Rows
<1>6. \A r \in Rows(df)' : ~Here(r)' BY <1>1, <1>4 DEF Once, Here, Rows
<1>7. OncePerCell(Rows(df))' /\ OncePerCell(Rows(file))'
  BY <1>1 DEF Once, OncePerCell, SameCell, Rows
<1> QED BY <1>1, <1>5, <1>6, <1>7 DEF Once

LEMMA ConcatOnce == ASSUME IInv, Once, Concat PROVE Once'
<1>1. pc = "concat" /\ pc' = "write" /\ df' = df \o rows /\ file' = <<>> BY DEF Concat
<1>2. Rows(df \o rows) \subseteq Rows(df) \cup Rows(rows) BY RowsOfBoth DEF IInv, Framed
<1>3. \A r, q \in Rows(df) \cup Rows(rows) : SameCell(r, q) => r.run = q.run
  BY <1>1 DEF Once, OncePerCell, SameCell, Here
<1>4. OncePerCell(Rows(df))' BY <1>1, <1>2, <1>3 DEF OncePerCell, SameCell, Rows
<1>5. OncePerCell(Rows(file))' BY <1>1, RowsOfNone DEF OncePerCell, Rows
<1> QED BY <1>1, <1>4, <1>5 DEF Once

LEMMA WriteOnce == ASSUME IInv, Once, Write PROVE Once'
<1>1. /\ UNCHANGED <<x, call, idx, df>> /\ pc' \in {"write", "check"}
      /\ \E n \in (Len(file) + 1)..Len(df) : file' = SubSeq(df, 1, n)
  BY DEF Write
<1>2. PICK n \in 0..Len(df) : file' = SubSeq(df, 1, n) BY <1>1 DEF IInv, Framed
<1>3. Rows(file') \subseteq Rows(df) BY <1>2, RowsOfPart DEF IInv, Framed
<1>4. OncePerCell(Rows(file))' BY <1>3 DEF Once, OncePerCell, SameCell, Rows
<1>5. OncePerCell(Rows(df))' BY <1>1 DEF Once, OncePerCell, SameCell, Rows
<1> QED BY <1>1, <1>4, <1>5 DEF Once

LEMMA StepOnce == ASSUME IInv, Recognised, Once, [Next]_vars PROVE Once'
<1>1. CASE Start \/ Killed \/ Raise \/ (Read /\ Fails) \/ (Build /\ Fails)
  BY <1>1, AnewOnce DEF Start, Killed, Raise, Read, Build, Fails, Gone, Driver
<1>2. CASE Read /\ ~Fails
  <2>1. df' = file /\ file' = file /\ pc' = "next" BY <1>2 DEF Read
  <2> QED BY <2>1 DEF Once, OncePerCell, SameCell, Rows
<1>3. CASE NextCell
  <2>1. CASE Succeeds BY <1>3, <2>1, SucceedsOnce DEF NextCell
  <2>2. CASE ~Succeeds
    <3>1. /\ UNCHANGED <<x, call, df, file>>
          /\ pc = "next" /\ (pc' = "next" \/ (pc' = "build" /\ idx' = idx /\ ~Done))
      BY <1>3, <2>2 DEF NextCell
    <3> QED BY <3>1, DoneFindsTheCell, StillOnce
  <2> QED BY <2>1, <2>2
<1>4. CASE Build /\ ~Fails BY <1>4, StillOnce DEF Build
<1>5. CASE Again BY <1>5, StillOnce DEF Again
<1>6. CASE Check
  <2>1. CASE Succeeds BY <1>6, <2>1, SucceedsOnce DEF Check
  <2>2. CASE ~Succeeds BY <1>6, <2>2, StillOnce DEF Check
  <2> QED BY <2>1, <2>2
<1>7. CASE UNCHANGED vars
  <2>1. UNCHANGED <<x, call, idx, pc, rows, df, file, runs>> BY <1>7 DEF vars
  <2>2. Held(call)' = Held(call) /\ Cell' = Cell BY <2>1 DEF Held, Cell, Plan
  <2>3. ASSUME NEW r PROVE Here(r)' <=> Here(r) BY <2>2 DEF Here
  <2>4. OncePerCell(Rows(df))' /\ OncePerCell(Rows(file))'
    BY <2>1 DEF Once, OncePerCell, SameCell, Rows
  <2>5. Rows(df)' = Rows(df) /\ Rows(rows)' = Rows(rows) BY <2>1 DEF Rows
  <2> QED BY <2>1, <2>3, <2>4, <2>5 DEF Once
<1> QED BY <1>1, <1>2, <1>3, <1>4, <1>5, <1>6, <1>7, MeasureOnce, ConcatOnce, WriteOnce DEF Next

\* Where a cell has one row, or the query is the axis, and the CSV gives the knobs back as
\* they were, done finds whatever a run left, valid or not: no cell is measured into the CSV
\* twice, over any number of kills and starts.
THEOREM CellsAreMeasuredOnce == Spec => []RecognisedCellsOnce
<1> DEFINE Inv == Recognised => Once
<1>1. Init => Inv BY RowsOfNone DEF Init, Once, OncePerCell
<1>2. Inv => RecognisedCellsOnce BY DEF Once, OncePerCell, NoCellTwice, RecognisedCellsOnce, Rows
<1>3. IInv /\ Inv /\ [Next]_vars => Inv'
  <2> SUFFICES ASSUME IInv, Inv, [Next]_vars, Recognised' PROVE Once' OBVIOUS
  <2>1. x' = x
    BY DEF Next, Start, Killed, Read, NextCell, Build, Again, Raise, Measure, Concat, Write, Check, vars
  <2>2. Recognised BY <2>1 DEF Recognised
  <2> QED BY <2>2, StepOnce
<1> HIDE DEF Inv
<1>4. Spec => []Inv BY <1>1, <1>3, Inductive, PTL DEF Spec
<1> QED BY <1>2, <1>4, PTL
-----------------------------------------------------------------------------
(***************************************************************************)
(* What an exit code of 0 means.  Every cell before the one at hand is     *)
(* settled, by a row of its own or by the invalid row that ended its call: *)
(* in the file when a driver begins, in the frame from then on.  So a call *)
(* that comes to its end has settled all of its cells, and the last call   *)
(* all there are.                                                          *)
(***************************************************************************)
\* A row that settles the n-th cell of a call: its own, or the one that ended the call.
Settled(c, n, S) ==
    \E row \in S :
        /\ row.held = Held(c)
        /\ \/ row.value = Plan(c)[n].value /\ row.rep = Plan(c)[n].rep
           \/ ~x.keep_going /\ ~row.valid

\* Every cell before the one at hand is settled.
SettledSoFar(S) ==
    /\ \A c \in DOMAIN x.calls : c < call => \A n \in DOMAIN Plan(c) : Settled(c, n, S)
    /\ \A n \in DOMAIN Plan(call) : n < idx => Settled(call, n, S)

Progress ==
    /\ pc = "read" => idx = 1 /\ SettledSoFar(Rows(file))
    /\ pc \notin {"off", "read"} => SettledSoFar(Rows(df))
    /\ pc = "concat" => rows # <<>> /\ \A r \in Rows(rows) : Here(r)
    /\ pc \in {"write", "check"} =>
          /\ Settled(call, idx, Rows(df))
          /\ rows # <<>> /\ rows[Len(rows)] \in Rows(df) /\ rows[Len(rows)].held = Held(call)
    /\ OkMeansEveryCell

\* What an unchanged experiment means by its cells does not change either.
LEMMA SameCells ==
    ASSUME x' = x
    PROVE  /\ \A c \in DOMAIN x.calls : Plan(c)' = Plan(c) /\ Held(c)' = Held(c)
           /\ x.keep_going' = x.keep_going /\ (DOMAIN x.calls)' = DOMAIN x.calls
BY DEF Plan, Held

\* More rows settle no fewer cells.
LEMMA SettledMore ==
    ASSUME NEW S, NEW T, S \subseteq T
    PROVE  /\ \A c, n : Settled(c, n, S) => Settled(c, n, T)
           /\ SettledSoFar(S) => SettledSoFar(T)
BY DEF Settled, SettledSoFar

\* The cells at hand and their rows in the frame, while neither changes.
LEMMA StillSettled ==
    ASSUME Placed, SettledSoFar(Rows(df)), UNCHANGED <<x, call, df>>,
           idx' = idx \/ (idx' = idx + 1 /\ Settled(call, idx, Rows(df)))
    PROVE  SettledSoFar(Rows(df))'
<1>1. \A c \in DOMAIN x.calls : Plan(c)' = Plan(c) /\ Held(c)' = Held(c) BY SameCells
<1>2. Rows(df)' = Rows(df) BY DEF Rows
<1>3. call \in DOMAIN x.calls /\ idx \in Nat /\ DOMAIN Plan(call) \subseteq Nat
  BY DEF Placed, Plan
<1>4. Plan(call)' = Plan(call) /\ Held(call)' = Held(call) BY DEF Plan, Held
<1>5. \A c \in DOMAIN x.calls : \A n : Settled(c, n, Rows(df))' <=> Settled(c, n, Rows(df))
  BY <1>1, <1>2 DEF Settled
<1>6. \A n : Settled(call, n, Rows(df))' <=> Settled(call, n, Rows(df))
  BY <1>2, <1>4 DEF Settled
<1> QED BY <1>1, <1>3, <1>4, <1>5, <1>6 DEF SettledSoFar

\* The call is over and so are its cells: on to the next, or the experiment is.
LEMMA SucceedsProgress ==
    ASSUME IInv, Succeeds, pc # "off", UNCHANGED <<x, file>>, file = df,
           SettledSoFar(Rows(df)), \A n \in DOMAIN Plan(call) : Settled(call, n, Rows(df))
    PROVE  Progress'
<1>1. x' = x /\ file' = file /\ Rows(file)' = Rows(file) /\ Rows(file) = Rows(df) BY DEF Rows
<1>2. \A c \in DOMAIN x.calls : Plan(c)' = Plan(c) /\ Held(c)' = Held(c) BY <1>1, SameCells
<1>3. \A c \in DOMAIN x.calls : \A n : Settled(c, n, Rows(file))' <=> Settled(c, n, Rows(file))
  BY <1>1, <1>2 DEF Settled
<1>4. call \in DOMAIN x.calls /\ DOMAIN x.calls = 1..Len(x.calls) /\ Len(x.calls) \in Nat
  BY Calls DEF IInv, Placed
<1>5. \A c \in DOMAIN x.calls : c <= call => \A n \in DOMAIN Plan(c) : Settled(c, n, Rows(file))
  BY <1>1, <1>4 DEF SettledSoFar
<1>6. CASE call = Len(x.calls)
  <2>1. exp' = "ok" /\ pc' = "off" BY <1>6 DEF Succeeds, Gone
  <2>2. \A c \in DOMAIN x.calls : \A n \in DOMAIN Plan(c) : Settled(c, n, Rows(file))'
    BY <1>3, <1>4, <1>5, <1>6
  <2>3. OkMeansEveryCell' BY <1>1, <1>2, <2>2 DEF OkMeansEveryCell, Settled
  <2> QED BY <2>1, <2>3 DEF Progress
<1>7. CASE call # Len(x.calls)
  <2>1. exp' = exp /\ pc' = "read" /\ call' = call + 1 /\ idx' = 1 BY <1>7 DEF Succeeds, Driver
  <2>2. exp' # "ok"
    BY <2>1 DEF IInv, Placed
  <2>3. SettledSoFar(Rows(file))'
    <3>1. \A c \in DOMAIN x.calls : c < call' => \A n \in DOMAIN Plan(c)' : Settled(c, n, Rows(file))'
      BY <1>2, <1>3, <1>4, <1>5, <2>1
    <3>2. DOMAIN Plan(call)' \subseteq Nat \ {0} BY DEF Plan
    <3> QED BY <1>1, <2>1, <3>1, <3>2 DEF SettledSoFar
  <2> QED BY <2>1, <2>2, <2>3 DEF Progress, OkMeansEveryCell
<1> QED BY <1>6, <1>7

\* A driver is started on the first call, or both processes are gone without a 0.
LEMMA AnewProgress ==
    ASSUME IInv, x' = x, file' = file, exp' # "ok",
           Driver(1) \/ pc' = "off"
    PROVE  Progress'
<1>1. OkMeansEveryCell' BY DEF OkMeansEveryCell
<1>2. CASE pc' = "off" BY <1>1, <1>2 DEF Progress
<1>3. CASE Driver(1)
  <2>1. pc' = "read" /\ call' = 1 /\ idx' = 1 BY <1>3 DEF Driver
  <2>2. DOMAIN x.calls = 1..Len(x.calls) BY Calls DEF IInv, Placed
  <2>3. DOMAIN Plan(call)' \subseteq Nat \ {0} BY DEF Plan
  <2>4. SettledSoFar(Rows(file))' BY <2>1, <2>2, <2>3 DEF SettledSoFar
  <2> QED BY <1>1, <2>1, <2>4 DEF Progress
<1> QED BY <1>2, <1>3

\* Steps of the driver that leave the experiment and its frame alone.
LEMMA OnProgress ==
    ASSUME IInv, Progress, UNCHANGED <<x, exp, call, df>>, pc # "off", pc # "read",
           pc' \in {"next", "build", "run"},
           idx' = idx \/ (idx' = idx + 1 /\ Settled(call, idx, Rows(df)))
    PROVE  Progress'
<1>1. exp' # "ok" BY DEF IInv, Placed
<1>2. SettledSoFar(Rows(df))' BY StillSettled DEF IInv, Progress
<1> QED BY <1>1, <1>2 DEF Progress, OkMeansEveryCell

LEMMA ReadProgress == ASSUME IInv, Progress, Read PROVE Progress'
<1>1. CASE Fails BY <1>1, AnewProgress DEF Read, Fails, Gone
<1>2. CASE ~Fails
  <2>1. pc = "read" /\ pc' = "next" /\ df' = file /\ UNCHANGED <<x, exp, call, idx>>
    BY <1>2 DEF Read
  <2>2. exp' # "ok" BY <2>1 DEF IInv, Placed
  <2>3. SettledSoFar(Rows(file)) BY <2>1 DEF Progress
  <2>4. Rows(df)' = Rows(file) BY <2>1 DEF Rows
  <2>5. SettledSoFar(Rows(df))' BY <2>1, <2>3, <2>4 DEF SettledSoFar, Settled, Plan, Held
  <2> QED BY <2>1, <2>2, <2>5 DEF Progress, OkMeansEveryCell
<1> QED BY <1>1, <1>2

LEMMA NextCellProgress == ASSUME IInv, Progress, NextCell PROVE Progress'
<1>1. /\ pc = "next" /\ idx \in Nat \ {0} /\ Len(Plan(call)) \in Nat /\ UNCHANGED <<x, file>>
      /\ file = df /\ SettledSoFar(Rows(df)) /\ DOMAIN Plan(call) = 1..Len(Plan(call))
  <2>1. Len(Plan(call)) \in Nat BY PlanLength DEF IInv, Placed
  <2>2. DOMAIN Plan(call) = 1..Len(Plan(call)) BY PlanLength DEF IInv, Placed
  <2> QED BY <2>1, <2>2 DEF NextCell, IInv, Placed, Framed, Progress
<1>2. CASE idx > Len(Plan(call))
  <2>1. Succeeds BY <1>1, <1>2 DEF NextCell
  <2>2. \A n \in DOMAIN Plan(call) : Settled(call, n, Rows(df)) BY <1>1, <1>2 DEF SettledSoFar
  <2> QED BY <1>1, <2>1, <2>2, SucceedsProgress
<1>3. CASE idx <= Len(Plan(call)) /\ Done
  <2>1. Settled(call, idx, Rows(df)) BY <1>3 DEF Done, Found, Cell, Rows, Settled
  <2>2. idx' = idx + 1 /\ pc' = "next" /\ UNCHANGED <<exp, call, df>> BY <1>1, <1>3 DEF NextCell
  <2> QED BY <1>1, <2>1, <2>2, OnProgress
<1>4. CASE idx <= Len(Plan(call)) /\ ~Done
  <2>1. idx' = idx /\ pc' = "build" /\ UNCHANGED <<exp, call, df>> BY <1>1, <1>4 DEF NextCell
  <2> QED BY <1>1, <2>1, OnProgress
<1> QED BY <1>1, <1>2, <1>3, <1>4

LEMMA BuildProgress == ASSUME IInv, Progress, Build PROVE Progress'
<1>1. CASE Fails BY <1>1, AnewProgress DEF Build, Fails, Gone
<1>2. CASE ~Fails BY <1>2, OnProgress DEF Build
<1> QED BY <1>1, <1>2

\* A run that answered has a row, and its rows are of the cell at hand.
LEMMA MeasureProgress == ASSUME IInv, Progress, Measure PROVE Progress'
<1>1. pc = "run" /\ pc' = "concat" /\ UNCHANGED <<x, exp, call, idx, df>> BY DEF Measure
<1>2. PICK valid \in [1..x.queries -> BOOLEAN] :
          rows' = [n \in 1..x.queries |-> RowOf(n, valid[n])]
  BY DEF Measure
<1>3. x.queries \in Nat \ {0} BY Calls DEF IInv, Placed
<1>4. rows' # <<>> BY <1>2, <1>3
<1>5. Held(call)' = Held(call) /\ Cell' = Cell BY <1>1 DEF Held, Cell, Plan
<1>6. \A r \in Rows(rows)' : Here(r)' BY <1>2, <1>5 DEF Rows, RowOf, Here
<1>7. SettledSoFar(Rows(df))' BY <1>1, StillSettled DEF IInv, Progress
<1>8. exp' # "ok" BY <1>1 DEF IInv, Placed
<1> QED BY <1>1, <1>4, <1>6, <1>7, <1>8 DEF Progress, OkMeansEveryCell

LEMMA RowsJoin ==
    ASSUME NEW S, NEW s \in Seq(S), NEW t \in Seq(S), t # <<>>
    PROVE  Rows(s) \subseteq Rows(s \o t) /\ t[Len(t)] \in Rows(s \o t) /\ t[Len(t)] \in Rows(t)
<1>1. Len(t) \in Nat \ {0} /\ Len(s) \in Nat OBVIOUS
<1>2. ASSUME NEW i \in DOMAIN s PROVE s[i] \in Rows(s \o t)
  <2>1. i \in DOMAIN (s \o t) /\ (s \o t)[i] = s[i] OBVIOUS
  <2> QED BY <2>1 DEF Rows
<1>3. t[Len(t)] \in Rows(s \o t)
  <2>1. Len(s) + Len(t) \in DOMAIN (s \o t) /\ (s \o t)[Len(s) + Len(t)] = t[Len(t)] BY <1>1
  <2> QED BY <2>1 DEF Rows
<1>4. t[Len(t)] \in Rows(t) BY <1>1 DEF Rows
<1>5. Rows(s) \subseteq Rows(s \o t) BY <1>2 DEF Rows
<1> QED BY <1>3, <1>4, <1>5

LEMMA ConcatProgress == ASSUME IInv, Progress, Concat PROVE Progress'
<1>1. pc = "concat" /\ pc' = "write" /\ df' = df \o rows /\ UNCHANGED <<x, exp, call, idx, rows>>
  BY DEF Concat
<1>2. rows # <<>> /\ \A r \in Rows(rows) : Here(r) BY <1>1 DEF Progress
<1> DEFINE last == rows[Len(rows)]
<1>3. Rows(df) \subseteq Rows(df \o rows) /\ last \in Rows(df \o rows) /\ last \in Rows(rows)
  BY <1>2, RowsJoin DEF IInv, Framed
<1> HIDE DEF last
<1>4. Rows(df)' = Rows(df \o rows) BY <1>1 DEF Rows
<1>5. SettledSoFar(Rows(df)) BY <1>1 DEF Progress
<1>6. SettledSoFar(Rows(df \o rows)) BY <1>3, <1>5, SettledMore
<1>7. Settled(call, idx, Rows(df \o rows)) /\ last.held = Held(call)
  BY <1>2, <1>3 DEF Settled, Here, Cell
<1>8. SettledSoFar(Rows(df))' BY <1>1, <1>4, <1>6 DEF SettledSoFar, Settled, Plan, Held
<1>9. Settled(call, idx, Rows(df))' BY <1>1, <1>4, <1>7 DEF Settled, Plan, Held
<1>10. last' = last /\ Held(call)' = Held(call) BY <1>1 DEF last, Held
<1>11. exp' # "ok" BY <1>1 DEF IInv, Placed
<1>12. (rows # <<>> /\ last \in Rows(df) /\ last.held = Held(call))'
  BY <1>1, <1>2, <1>3, <1>4, <1>7, <1>10
<1> QED BY <1>1, <1>8, <1>9, <1>11, <1>12 DEF Progress, OkMeansEveryCell, last

LEMMA WriteProgress == ASSUME IInv, Progress, Write PROVE Progress'
<1>1. pc = "write" /\ pc' \in {"write", "check"} /\ UNCHANGED <<x, exp, call, idx, rows, df>>
  BY DEF Write
<1>2. SettledSoFar(Rows(df))' BY <1>1, StillSettled DEF IInv, Progress
<1>3. Rows(df)' = Rows(df) /\ Held(call)' = Held(call) BY <1>1 DEF Rows, Held
<1>4. Settled(call, idx, Rows(df))' BY <1>1, <1>3 DEF Progress, Settled, Plan, Held
<1>5. exp' # "ok" BY <1>1 DEF IInv, Placed
<1> QED BY <1>1, <1>2, <1>3, <1>4, <1>5 DEF Progress, OkMeansEveryCell

\* An invalid row settles what is left of its call.
LEMMA CheckProgress == ASSUME IInv, Progress, Check PROVE Progress'
<1>1. /\ pc = "check" /\ file = df /\ UNCHANGED <<x, file>> /\ SettledSoFar(Rows(df))
      /\ Settled(call, idx, Rows(df))
      /\ rows[Len(rows)] \in Rows(df) /\ rows[Len(rows)].held = Held(call)
  BY DEF Check, IInv, Framed, Progress
<1>2. CASE ~rows[Len(rows)].valid /\ ~x.keep_going
  <2>1. Succeeds BY <1>2 DEF Check
  <2>2. \A n \in DOMAIN Plan(call) : Settled(call, n, Rows(df)) BY <1>1, <1>2 DEF Settled
  <2> QED BY <1>1, <2>1, <2>2, SucceedsProgress
<1>3. CASE rows[Len(rows)].valid \/ x.keep_going
  <2>1. idx' = idx + 1 /\ pc' = "next" /\ UNCHANGED <<exp, call, df>> BY <1>3 DEF Check
  <2> QED BY <1>1, <2>1, OnProgress
<1> QED BY <1>2, <1>3

LEMMA StepProgress == ASSUME IInv, Progress, [Next]_vars PROVE Progress'
<1>1. CASE Start BY <1>1, AnewProgress DEF Start
<1>2. CASE Killed \/ Raise BY <1>2, AnewProgress DEF Killed, Raise, Fails, Gone
<1>3. CASE Again BY <1>3, OnProgress DEF Again
<1>4. CASE UNCHANGED vars
  <2>1. UNCHANGED <<x, exp, call, pc, idx, rows, df, file>> BY <1>4 DEF vars
  <2>2. Rows(df)' = Rows(df) /\ Rows(file)' = Rows(file) /\ Rows(rows)' = Rows(rows)
    BY <2>1 DEF Rows
  <2>3. SettledSoFar(Rows(df))' = SettledSoFar(Rows(df))
        /\ SettledSoFar(Rows(file))' = SettledSoFar(Rows(file))
    BY <2>1, <2>2 DEF SettledSoFar, Settled, Plan, Held
  <2>4. Settled(call, idx, Rows(df))' = Settled(call, idx, Rows(df)) /\ Held(call)' = Held(call)
    BY <2>1, <2>2 DEF Settled, Plan, Held
  <2>5. (\A r \in Rows(rows) : Here(r))' = (\A r \in Rows(rows) : Here(r))
    BY <2>1, <2>2 DEF Here, Cell, Plan, Held
  <2>6. OkMeansEveryCell' = OkMeansEveryCell BY <2>1, <2>2 DEF OkMeansEveryCell, Plan, Held
  <2> QED BY <2>1, <2>2, <2>3, <2>4, <2>5, <2>6 DEF Progress
<1> QED
  BY <1>1, <1>2, <1>3, <1>4, ReadProgress, NextCellProgress, BuildProgress, MeasureProgress,
     ConcatProgress, WriteProgress, CheckProgress
  DEF Next

\* An exit code of 0 says that every rep of every point has a row in the CSV, or that its
\* point has the invalid row at which the driver abandoned the plan, over any number of
\* kills, restarts and failed points before (main, both).
THEOREM OkIsEveryCell == Spec => []OkMeansEveryCell
<1>1. Init => Progress BY DEF Init, Progress, OkMeansEveryCell
<1>2. Spec => []Progress BY <1>1, StepProgress, Inductive, PTL DEF Spec
<1>3. Progress => OkMeansEveryCell BY DEF Progress
<1> QED BY <1>2, <1>3, PTL
=============================================================================
