-------------------------------- MODULE Sweep --------------------------------
(***************************************************************************)
(* One experiment and its results file: scripts/bench/experiment.py, which *)
(* calls the sweep driver (main of scripts/bench/runner.py) once per point *)
(* or, interleaved, once per group of points, all into one CSV.            *)
(*                                                                         *)
(* The driver goes through its plan, skips what the CSV already holds, and *)
(* saves the CSV after every run.  The experiment may be killed at any     *)
(* time and is then started again: the CSV is all that is left of it.      *)
(***************************************************************************)
EXTENDS Integers, Sequences

CONSTANTS
    Experiments,    \* the experiments there may be
    MaxAttempts,    \* range(6): runs refused for the vCPU quota
    MaxRuns,        \* bound: runs measured
    MaxStarts       \* bound: times the experiment is started

\* One call of the driver: the knobs it holds and the values of the axis.
DriverCall == [held : STRING, values : Seq(Nat)]

\* The axis is a knob; or the instance type, every value of which runs one image; or
\* the query.  A point may be a list of queries, each with a row of its own.  "lost": what
\* read_csv makes of a knob is not what the driver parsed, as with the texts 1 and 0.1 of
\* --sweep sf=1,0.1, which come back as numbers.
Experiment ==
    [calls : Seq(DriverCall), axis : {"knob", "instance", "query"}, queries : Nat \ {0},
     reps : Nat \ {0}, interleave : BOOLEAN, keep_going : BOOLEAN,
     lost : BOOLEAN]

ASSUME SweepAssumption ==
    /\ Experiments # {} /\ Experiments \subseteq Experiment
    /\ \A e \in Experiments : e.calls # <<>> /\ \A c \in DOMAIN e.calls : e.calls[c].values # <<>>
    /\ MaxAttempts \in Nat \ {0} /\ MaxRuns \in Nat /\ MaxStarts \in Nat

VARIABLES
    x,        \* the experiment
    exp,      \* experiment.py: "off", "running", "ok" or "failed"
    call,     \* the point it is at
    pc,       \* where the driver is
    idx,      \* its position in the plan
    built,    \* the configuration its image was built for
    attempt,  \* of the current run
    rows,     \* what the current run answered
    df,       \* the driver's copy of the CSV
    old,      \* how many rows of it read_csv made
    file,     \* the rows of the CSV
    torn,     \* the CSV exists and has no byte in it
    runs,     \* history: runs measured so far
    starts    \* times the experiment was started

vars == <<x, exp, call, pc, idx, built, attempt, rows, df, old, file, torn, runs, starts>>

None == <<>>
PcOf == {"off", "read", "next", "build", "run", "concat", "write", "check"}

Held(c) == x.calls[c].held

\* Value-major, or rep-major so that drift hits every value alike.
Plan(c) ==
    LET vs == x.calls[c].values IN
    [n \in 1..(Len(vs) * x.reps) |->
        IF x.interleave
        THEN [value |-> vs[((n - 1) % Len(vs)) + 1], rep |-> ((n - 1) \div Len(vs)) + 1]
        ELSE [value |-> vs[((n - 1) \div x.reps) + 1], rep |-> ((n - 1) % x.reps) + 1]]

Cell == Plan(call)[idx]

\* What is compiled into the image of a cell.
Image(c, v) == IF x.axis = "instance" THEN <<Held(c)>> ELSE <<Held(c), v>>

\* The row of the n-th query of the list: its own query wins over the point's list.
RowOf(n, valid) ==
    [held |-> Held(call), value |-> Cell.value, rep |-> Cell.rep, query |-> n..n,
     valid |-> valid, image |-> built, run |-> runs + 1]

\* done: axis value, rep and every other knob agree, whether the row is valid or not, and
\* as the frame has them: a row that went through the CSV has lost what is lost there.
Found(i) ==
    /\ df[i].held = Held(call) /\ df[i].value = Cell.value /\ df[i].rep = Cell.rep
    /\ x.axis = "query" \/ df[i].query = 1..x.queries
    /\ x.lost => i > old

\* Faulty: a resume repeats the invalid runs, or goes by the axis alone.
DoneIfValid == \E i \in DOMAIN df : Found(i) /\ df[i].valid
DoneByAxis == \E i \in DOMAIN df : df[i].value = Cell.value /\ df[i].rep = Cell.rep

Done == \E i \in DOMAIN df : Found(i)

Init ==
    /\ x \in Experiments
    /\ exp = "off" /\ call = 1 /\ pc = "off" /\ idx = 1
    /\ built = None /\ attempt = 1
    /\ rows = <<>> /\ df = <<>> /\ old = 0 /\ file = <<>> /\ torn = FALSE
    /\ runs = 0 /\ starts = 0

-----------------------------------------------------------------------------
(***************************************************************************)
(* experiment.py.                                                          *)
(***************************************************************************)

\* Every driver is a process of its own.
Driver(c) ==
    /\ call' = c /\ pc' = "read" /\ idx' = 1
    /\ built' = None /\ attempt' = 1 /\ rows' = <<>> /\ df' = <<>> /\ old' = 0

Gone(how) ==
    /\ exp' = how
    /\ call' = 1 /\ pc' = "off" /\ idx' = 1
    /\ built' = None /\ attempt' = 1 /\ rows' = <<>> /\ df' = <<>> /\ old' = 0

Start ==
    /\ exp # "running" /\ starts < MaxStarts
    /\ exp' = "running" /\ starts' = starts + 1
    /\ Driver(1)
    /\ UNCHANGED <<x, file, torn, runs>>

\* The driver exits with 0: on to the next point.
Succeeds ==
    IF call = Len(x.calls) THEN Gone("ok") ELSE Driver(call + 1) /\ UNCHANGED exp

\* It exits with anything else: "point ... failed".
Fails == Gone("failed")

\* The queue, the user or the machine kills both.
Killed ==
    /\ exp = "running"
    /\ Gone("off")
    /\ UNCHANGED <<x, file, torn, runs, starts>>

-----------------------------------------------------------------------------
(***************************************************************************)
(* The driver.                                                             *)
(***************************************************************************)

\* What comes before the plan may fail, and pd.read_csv raises on a file without a byte.
Read ==
    /\ pc = "read"
    /\ \/ Fails
       \/ ~torn /\ df' = file /\ old' = Len(file) /\ pc' = "next"
          /\ UNCHANGED <<exp, call, idx, built, attempt, rows>>
    /\ UNCHANGED <<x, file, torn, runs, starts>>

\* The loop over the plan.
NextCell ==
    /\ pc = "next"
    /\ \/ /\ idx > Len(Plan(call))
          /\ Succeeds
       \/ /\ idx <= Len(Plan(call)) /\ Done
          /\ idx' = idx + 1
          /\ UNCHANGED <<exp, call, pc, built, attempt, rows, df, old>>
       \/ /\ idx <= Len(Plan(call)) /\ ~Done
          /\ pc' = "build" /\ attempt' = 1
          /\ UNCHANGED <<exp, call, idx, built, rows, df, old>>
    /\ UNCHANGED <<x, file, torn, runs, starts>>

\* Faulty: the image is built for the first cell only.
BuildOnce ==
    /\ pc = "build"
    /\ built' = IF built = None THEN Image(call, Cell.value) ELSE built
    /\ pc' = "run"
    /\ UNCHANGED <<exp, call, idx, attempt, rows, df, old>>
    /\ UNCHANGED <<x, file, torn, runs, starts>>

\* Only a configuration that differs from the last one is built; it may not build.
Build ==
    /\ pc = "build"
    /\ \/ /\ built' = Image(call, Cell.value)
          /\ pc' = "run"
          /\ UNCHANGED <<exp, call, idx, attempt, rows, df, old>>
       \/ built # Image(call, Cell.value) /\ Fails
    /\ UNCHANGED <<x, file, torn, runs, starts>>

\* Faulty: the sixth refusal is retried as well.
AgainOnceMore ==
    /\ pc = "run" /\ attempt <= MaxAttempts
    /\ attempt' = attempt + 1
    /\ UNCHANGED <<x, exp, call, pc, idx, built, rows, df, old, file, torn, runs, starts>>

\* The quota was full, and either run_once raised or its log says so and no row of
\* it is valid: again in 90 seconds.
Again ==
    /\ pc = "run" /\ attempt < MaxAttempts
    /\ attempt' = attempt + 1
    /\ UNCHANGED <<x, exp, call, pc, idx, built, rows, df, old, file, torn, runs, starts>>

\* run_once raised: spot refused, or the quota for the last time, or anything else.
Raise ==
    /\ pc = "run"
    /\ Fails
    /\ UNCHANGED <<x, file, torn, runs, starts>>

\* A run that answered, each of its rows valid or not.
Measure ==
    /\ pc = "run" /\ runs < MaxRuns
    /\ \E valid \in [1..x.queries -> BOOLEAN] : rows' = [n \in 1..x.queries |-> RowOf(n, valid[n])]
    /\ runs' = runs + 1
    /\ pc' = "concat"
    /\ UNCHANGED <<x, exp, call, idx, built, attempt, df, old, file, torn, starts>>

\* The rows join the frame, and to_csv opens, and so empties, the file.
Concat ==
    /\ pc = "concat"
    /\ df' = df \o rows
    /\ file' = <<>> /\ torn' = TRUE
    /\ pc' = "write"
    /\ UNCHANGED <<x, exp, call, idx, built, attempt, rows, old, runs, starts>>

Rows(frame) == {frame[i] : i \in DOMAIN frame}

\* What has been flushed so far, and in the end everything.
Write ==
    /\ pc = "write"
    /\ \E n \in (Len(file) + 1)..Len(df) :
          /\ file' = SubSeq(df, 1, n)
          /\ pc' = IF n = Len(df) THEN "check" ELSE "write"
    /\ torn' = FALSE
    /\ UNCHANGED <<x, exp, call, idx, built, attempt, rows, df, old, runs, starts>>

\* The last row decides whether the rest of the plan is abandoned, with exit code 0.
Check ==
    /\ pc = "check"
    /\ \/ ~rows[Len(rows)].valid /\ ~x.keep_going /\ Succeeds
       \/ /\ rows[Len(rows)].valid \/ x.keep_going
          /\ idx' = idx + 1 /\ pc' = "next"
          /\ UNCHANGED <<exp, call, built, attempt, rows, df, old>>
    /\ UNCHANGED <<x, file, torn, runs, starts>>

Next ==
    \/ Start \/ Killed
    \/ Read \/ NextCell \/ Build \/ Again \/ Raise \/ Measure \/ Concat \/ Write \/ Check

Spec == Init /\ [][Next]_vars

-----------------------------------------------------------------------------
\* Every variable has its type.
TypeOK ==
    /\ x \in Experiments
    /\ exp \in {"off", "running", "ok", "failed"}
    /\ pc \in PcOf
    /\ (pc = "off") = (exp # "running")
    /\ call \in DOMAIN x.calls /\ idx \in 1..(Len(Plan(call)) + 1) /\ attempt \in 1..MaxAttempts
    /\ old \in 0..Len(df)
    /\ Len(file) <= Len(df) \/ exp # "running" \/ pc = "read"
    /\ torn \in BOOLEAN /\ (torn => file = <<>>)
    /\ runs \in 0..MaxRuns /\ starts \in 0..MaxStarts

SameCell(r, q) == r.held = q.held /\ r.value = q.value /\ r.rep = q.rep

\* No cell is measured into the CSV twice, however often the experiment is killed and
\* started again: what a run left in the file is found again, valid or not (done,
\* "Whether the CSV already holds this run").
NoCellTwice ==
    \A i, j \in DOMAIN file : SameCell(file[i], file[j]) => file[i].run = file[j].run

\* What done can recognise: a cell has one row, or the query is the axis, and the knobs
\* come back from the CSV as they were.
Recognised == (x.queries = 1 \/ x.axis = "query") /\ ~x.lost

\* The cells that done can recognise are measured once, over kills, restarts, invalid rows,
\* abandoned plans and points that share a value of the axis (done, main).
RecognisedCellsOnce == Recognised => NoCellTwice

\* An experiment that ended with 0 has a row for every rep of every point, or an
\* invalid row at that point, where the driver abandoned its plan (main, both).
OkMeansEveryCell ==
    exp = "ok" =>
        \A c \in DOMAIN x.calls : \A n \in DOMAIN Plan(c) :
            \E row \in Rows(file) :
                /\ row.held = Held(c)
                /\ \/ row.value = Plan(c)[n].value /\ row.rep = Plan(c)[n].rep
                   \/ ~x.keep_going /\ ~row.valid

\* A row's knobs are those its image was built with, over skipped cells, retries and
\* restarts (main's `built`).
RowsMatchTheirImage ==
    \A row \in Rows(file) :
        \E c \in DOMAIN x.calls : row.held = Held(c) /\ row.image = Image(c, row.value)
==============================================================================
