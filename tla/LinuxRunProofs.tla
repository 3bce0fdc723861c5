---------------------------- MODULE LinuxRunProofs ----------------------------
(***************************************************************************)
(* For every configuration, console and order of the guest's and the       *)
(* driver's steps: a DuckDB row that is kept has the card it asked for, and *)
(* a kept row is of a run that the guest judged good.  What a line of the  *)
(* console says is true when it is said and stays so: the card is tuned    *)
(* once and before it is shown, one verdict is given, after the last query, *)
(* and the driver reads nothing that was not said.  Its rows are the       *)
(* queries in their turn, because the console tells of them in that order. *)
(***************************************************************************)
EXTENDS LinuxRun, FiniteSetTheorems, TLAPS

\* A query that ran, and what a line can say.
Match == {None, "yes", "no", "unchecked"}
Run == [q : Nat, ms : Nat, match : Match, sound : BOOLEAN]
Card == [gro : {"on", "off"}, queues : Channels]
Unsaid == [gro |-> "?", queues |-> 0]
Kinds ==
    {"kernel", "garbage", "log", "nic", "nicfail", "result", "wire", "budget", "cpu", "shaped",
     "probefail", "fail", "ms", "stats", "statsfail", "phase", "phasefail", "summary"} \cup Verdicts
Values ==
    {None, Unsaid} \cup BOOLEAN \cup Nat \cup Card \cup [ms : Nat, match : Match]
      \cup {[total |-> n, ms |-> Total(s)] : n \in Nat, s \in Seq(Run)}
Words == [k : Kinds, q : Nat, t : Nat, v : Values]

Early == {"start", "tune"}
Late == {"finally", "wait", "dead"}
Between == {"fetch", "bench", "probe", "views", "answers", "query", "profile", "hung"}

Lines(s) == {s[i] : i \in 1..Len(s)}
\* Everything that was said or is about to be.
Told == Lines(con) \cup Lines(out)

GuestOK ==
    /\ cfg \in Configs /\ pc \in Early \cup Between \cup Late
    /\ turn \in Nat \ {0} /\ ran \in Seq(Run) /\ nic \in Card
    /\ out \in Seq(Words) /\ con \in Seq(Words)
    /\ verdict \in {None} \cup Verdicts
    /\ noise \in 0..cfg.noise /\ timer \in BOOLEAN
    /\ vm \in {"up", "gone"} /\ (vm = "up" <=> reason = None)

\* Where the loop over the queries is.
Turns ==
    /\ Len(ran) \in {turn - 1, turn} /\ Len(ran) <= Len(Queries)
    /\ turn <= Len(Queries) + 1
    /\ pc \in Early \cup {"fetch", "views", "answers", "query"} => Len(ran) = turn - 1
    /\ pc = "profile" => Len(ran) = turn /\ turn <= Len(Queries)
    /\ pc = "probe" => cfg.probe

\* What a line says is so, once it is said and from then on.
CardShown == \A l \in Told : l.k = "nic" => IsDuckdb /\ pc \notin Early /\ l.v \in {nic, Unsaid}

Judgement ==
    /\ \A l \in Told : l.k \in Verdicts => pc \in Late
    /\ \A l, m \in Told : l.k \in Verdicts /\ m.k \in Verdicts => l.k = m.k
    /\ \A l \in Lines(con) : l.k \in Verdicts => verdict = l.k

AllRan ==
    IsDuckdb /\ ~cfg.probe =>
        \A l \in Told : l.k = "COMPLETE" => AllSound /\ Len(ran) = Len(Queries)

OneResult ==
    /\ \A l \in Told : l.k = "result" => pc \in Late
    /\ \A l, m \in Told : l.k = "result" /\ m.k = "result" => l.v = m.v

GuestInv == GuestOK /\ Turns /\ CardShown /\ Judgement /\ AllRan /\ OneResult

\* The driver has nothing that was not said.
DriverOK ==
    /\ dpc \in {"poll", "finally", "unwind", "over", "dead"}
    /\ text \in Seq(Words) /\ Lines(text) \subseteq Lines(con)
    /\ dpc = "poll" => ~Judged(text)
    /\ interrupted \in BOOLEAN /\ (interrupted => reason = "spot")

IInv == GuestInv /\ DriverOK

-----------------------------------------------------------------------------
(***************************************************************************)
(* Sequences of lines.                                                     *)
(***************************************************************************)
LEMMA LinesOfFew ==
    /\ Lines(<<>>) = {}
    /\ \A a : Lines(<<a>>) = {a}
    /\ \A a, b : Lines(<<a, b>>) = {a, b}
    /\ \A a, b, c : Lines(<<a, b, c>>) = {a, b, c}
BY DEF Lines

LEMMA LinesOfBoth ==
    ASSUME NEW S, NEW s \in Seq(S), NEW t \in Seq(S)
    PROVE  s \o t \in Seq(S) /\ Lines(s \o t) = Lines(s) \cup Lines(t)
<1>1. Len(s \o t) = Len(s) + Len(t) /\ Len(s) \in Nat /\ Len(t) \in Nat OBVIOUS
<1>2. ASSUME NEW i \in 1..Len(s \o t) PROVE (s \o t)[i] \in Lines(s) \cup Lines(t)
  <2>1. CASE i <= Len(s) BY <1>1, <2>1 DEF Lines
  <2>2. CASE i > Len(s)
    <3>1. i - Len(s) \in 1..Len(t) /\ (s \o t)[i] = t[i - Len(s)] BY <1>1, <2>2
    <3> QED BY <3>1 DEF Lines
  <2> QED BY <1>1, <2>1, <2>2
<1>3. ASSUME NEW i \in 1..Len(s) PROVE s[i] \in Lines(s \o t)
  <2>1. i \in 1..Len(s \o t) /\ (s \o t)[i] = s[i] BY <1>1
  <2> QED BY <2>1 DEF Lines
<1>4. ASSUME NEW i \in 1..Len(t) PROVE t[i] \in Lines(s \o t)
  <2>1. Len(s) + i \in 1..Len(s \o t) /\ (s \o t)[Len(s) + i] = t[i] BY <1>1
  <2> QED BY <2>1 DEF Lines
<1>5. s \o t \in Seq(S) OBVIOUS
<1>6. \A l \in Lines(s \o t) : l \in Lines(s) \cup Lines(t)
  <2> SUFFICES ASSUME NEW l \in Lines(s \o t) PROVE l \in Lines(s) \cup Lines(t) OBVIOUS
  <2>1. PICK i \in 1..Len(s \o t) : l = (s \o t)[i] BY DEF Lines
  <2> QED BY <1>2, <2>1
<1>7. \A l \in Lines(s) : l \in Lines(s \o t)
  <2> SUFFICES ASSUME NEW l \in Lines(s) PROVE l \in Lines(s \o t) OBVIOUS
  <2>1. PICK i \in 1..Len(s) : l = s[i] BY DEF Lines
  <2> QED BY <1>3, <2>1
<1>8. \A l \in Lines(t) : l \in Lines(s \o t)
  <2> SUFFICES ASSUME NEW l \in Lines(t) PROVE l \in Lines(s \o t) OBVIOUS
  <2>1. PICK i \in 1..Len(t) : l = t[i] BY DEF Lines
  <2> QED BY <1>4, <2>1
<1> QED BY <1>5, <1>6, <1>7, <1>8

LEMMA LinesOfMore ==
    ASSUME NEW S, NEW s \in Seq(S), NEW a \in S
    PROVE  Append(s, a) \in Seq(S) /\ Lines(Append(s, a)) = Lines(s) \cup {a}
<1>1. Append(s, a) = s \o <<a>> OBVIOUS
<1>2. <<a>> \in Seq(S) OBVIOUS
<1>3. Lines(<<a>>) = {a} BY LinesOfFew
<1>4. s \o <<a>> \in Seq(S) /\ Lines(s \o <<a>>) = Lines(s) \cup Lines(<<a>>)
  BY <1>2, LinesOfBoth
<1> QED BY <1>1, <1>3, <1>4

LEMMA LinesOfRest ==
    ASSUME NEW S, NEW s \in Seq(S), s # <<>>
    PROVE  /\ Head(s) \in S /\ Head(s) \in Lines(s)
           /\ Tail(s) \in Seq(S) /\ Lines(Tail(s)) \subseteq Lines(s)
<1>1. Len(s) \in Nat \ {0} /\ Head(s) = s[1] OBVIOUS
<1>2. Head(s) \in Lines(s) BY <1>1 DEF Lines
<1>3. Tail(s) \in Seq(S) /\ Len(Tail(s)) = Len(s) - 1 BY <1>1
<1>4. ASSUME NEW i \in 1..Len(Tail(s)) PROVE Tail(s)[i] \in Lines(s)
  <2>1. Tail(s)[i] = s[i + 1] /\ i + 1 \in 1..Len(s) BY <1>1, <1>3
  <2> QED BY <2>1 DEF Lines
<1> QED BY <1>1, <1>2, <1>3, <1>4 DEF Lines

LEMMA LinesOfPart ==
    ASSUME NEW S, NEW s \in Seq(S), NEW a \in Nat \ {0}, NEW b \in Nat, b <= Len(s)
    PROVE  SubSeq(s, a, b) \in Seq(S) /\ Lines(SubSeq(s, a, b)) \subseteq Lines(s)
<1>1. SubSeq(s, a, b) \in Seq(S)
      /\ Len(SubSeq(s, a, b)) = IF a <= b THEN b - a + 1 ELSE 0
  OBVIOUS
<1>2. ASSUME NEW i \in 1..Len(SubSeq(s, a, b)) PROVE SubSeq(s, a, b)[i] \in Lines(s)
  <2>1. SubSeq(s, a, b)[i] = s[a + i - 1] /\ a + i - 1 \in 1..Len(s) BY <1>1
  <2> QED BY <2>1 DEF Lines
<1> QED BY <1>1, <1>2 DEF Lines

LEMMA LinesAreOf ==
    ASSUME NEW S, NEW s \in Seq(S)
    PROVE  Lines(s) \subseteq S
BY DEF Lines

LEMMA Settings ==
    ASSUME cfg \in Configs
    PROVE  /\ cfg \in Config /\ cfg.queries \in Seq(Nat) /\ Len(cfg.queries) \in Nat
           /\ cfg.noise \in Nat /\ cfg.buf \in Nat \ {0}
           /\ cfg.arm \in {"linux-s3", "anyblob", "linux-http", "duckdb"}
           /\ cfg.mode \in {"stock", "capped", "parity", "nogro", "nogro1500"}
           /\ cfg.gro \in {"", "on", "off"} /\ cfg.queues \in {0} \cup Channels
           /\ cfg.arm = "linux-s3" /\ cfg.mode # "stock" => cfg.queues # 0
           /\ cfg.http \in {"", "log", "phase"} /\ cfg.probe \in BOOLEAN /\ cfg.answers \in BOOLEAN
           /\ Ms \subseteq Nat \ {0}
<1>1. cfg \in Config /\ (cfg.arm = "linux-s3" /\ cfg.mode # "stock" => cfg.queues # 0)
      /\ Ms \subseteq Nat \ {0}
  BY LinuxGuestAssumption DEF LinuxGuestAssumption
<1>2. /\ cfg.queries \in Seq(Nat) /\ cfg.noise \in Nat /\ cfg.buf \in Nat \ {0}
      /\ cfg.arm \in {"linux-s3", "anyblob", "linux-http", "duckdb"}
      /\ cfg.mode \in {"stock", "capped", "parity", "nogro", "nogro1500"}
      /\ cfg.gro \in {"", "on", "off"} /\ cfg.queues \in {0} \cup Channels
      /\ cfg.http \in {"", "log", "phase"} /\ cfg.probe \in BOOLEAN /\ cfg.answers \in BOOLEAN
  BY <1>1 DEF Config
<1>3. Len(cfg.queries) \in Nat
  <2>1. \A s \in Seq(Nat) : Len(s) \in Nat OBVIOUS
  <2> QED BY <1>2, <2>1
<1> QED BY <1>1, <1>2, <1>3

LEMMA Said ==
    /\ \A k \in Kinds, q, t \in Nat, v \in Values : Line(k, q, t, v) \in Words
    /\ None \in Values /\ BOOLEAN \subseteq Values /\ Nat \subseteq Values
    /\ Kernel \in Words /\ Garbage \in Words
    /\ \A v \in Verdicts : Verdict(v) \in Words
<1>1. \A k \in Kinds, q, t \in Nat, v \in Values : Line(k, q, t, v) \in Words
  BY DEF Line, Words
<1>2. None \in Values /\ BOOLEAN \subseteq Values /\ Nat \subseteq Values BY DEF Values
<1>3. "kernel" \in Kinds /\ "garbage" \in Kinds /\ Verdicts \subseteq Kinds BY DEF Kinds
<1>4. Kernel \in Words /\ Garbage \in Words BY <1>1, <1>2, <1>3 DEF Kernel, Garbage
<1>5. \A v \in Verdicts : Verdict(v) \in Words BY <1>1, <1>2, <1>3 DEF Verdict
<1> QED BY <1>1, <1>2, <1>4, <1>5

-----------------------------------------------------------------------------
(***************************************************************************)
(* The guest.                                                              *)
(***************************************************************************)
\* A step of the script that says some lines, or none: they have to be so.
LEMMA SpeakStep ==
    ASSUME GuestInv, out = <<>>, pc \notin Late, UNCHANGED <<cfg, con, verdict>>,
           nic' = nic \/ pc \in Early, pc' \in Early => pc \in Early,
           \A l \in Lines(out') : l.k = "nic" => IsDuckdb /\ pc' \notin Early /\ l.v \in {nic', Unsaid},
           \A l \in Lines(out') : l.k \in Verdicts => pc' \in Late,
           \A l, m \in Lines(out') : l.k \in Verdicts /\ m.k \in Verdicts => l.k = m.k,
           IsDuckdb /\ ~cfg.probe =>
               \A l \in Lines(out') : l.k = "COMPLETE" => AllSound' /\ Len(ran') = Len(Queries),
           \A l \in Lines(out') : l.k = "result" => pc' \in Late,
           \A l, m \in Lines(out') : l.k = "result" /\ m.k = "result" => l.v = m.v
    PROVE  CardShown' /\ Judgement' /\ AllRan' /\ OneResult'
<1>1. Told = Lines(con) BY LinesOfFew DEF Told
<1>2. Told' = Lines(con) \cup Lines(out') BY DEF Told, Lines
<1>3. Lines(con)' = Lines(con) BY DEF Lines
<1>4. \A l \in Lines(con) : l.k \notin Verdicts /\ l.k # "result"
  BY <1>1 DEF GuestInv, Judgement, OneResult
<1>5. \A l \in Lines(con) : l.k = "nic" => IsDuckdb /\ pc \notin Early /\ l.v \in {nic', Unsaid}
  BY <1>1 DEF GuestInv, CardShown
<1>6. IsDuckdb' = IsDuckdb /\ Queries' = Queries BY DEF IsDuckdb, Queries
<1>7. CardShown' BY <1>2, <1>5, <1>6 DEF CardShown
<1>8. Judgement' BY <1>2, <1>3, <1>4 DEF Judgement
<1>9. AllRan' BY <1>2, <1>4, <1>6 DEF AllRan, Verdicts
<1>10. OneResult' BY <1>2, <1>4 DEF OneResult
<1> QED BY <1>7, <1>8, <1>9, <1>10

\* A step that says nothing.
LEMMA QuietStep ==
    ASSUME GuestInv, out = <<>>, out' = <<>>, pc \notin Late, UNCHANGED <<cfg, con, verdict>>,
           nic' = nic \/ pc \in Early, pc' \in Early => pc \in Early
    PROVE  CardShown' /\ Judgement' /\ AllRan' /\ OneResult'
<1>1. Lines(out') = {} BY LinesOfFew
<1> QED BY <1>1, SpeakStep

\* A step within the words that are being said: none is new but a spoilt one, and none of the
\* facts they are about changes.
LEMMA ToldStep ==
    ASSUME GuestInv, Told' \subseteq Told \cup {Garbage}, UNCHANGED <<cfg, ran, nic>>,
           pc' \in Early => pc \in Early, pc \in Late => pc' \in Late,
           \A l \in Lines(con)' : l.k \in Verdicts => verdict' = l.k
    PROVE  CardShown' /\ Judgement' /\ AllRan' /\ OneResult'
<1>1. Garbage.k \notin Verdicts \cup {"nic", "result"} BY DEF Garbage, Line, Verdicts
<1>2. \A l \in Told' : l.k \in Verdicts \cup {"nic", "result"} => l \in Told BY <1>1
<1>3. IsDuckdb' = IsDuckdb /\ Queries' = Queries /\ AllSound' = AllSound
  BY DEF IsDuckdb, Queries, AllSound
<1>4. CardShown' BY <1>2, <1>3 DEF GuestInv, CardShown
<1>5. Judgement' BY <1>2 DEF GuestInv, Judgement
<1>6. AllRan' BY <1>2, <1>3 DEF GuestInv, AllRan, Verdicts
<1>7. OneResult' BY <1>2 DEF GuestInv, OneResult
<1> QED BY <1>4, <1>5, <1>6, <1>7

LEMMA PrintedStep ==
    ASSUME GuestInv, Printed
    PROVE  GuestInv' /\ Lines(con) \subseteq Lines(con)'
<1> DEFINE l == Head(out)
<1>1. /\ vm = "up" /\ out # <<>> /\ out' = Tail(out)
      /\ \/ con' = Append(con, l) /\ UNCHANGED noise
         \/ /\ noise < cfg.noise /\ noise' = noise + 1
            /\ con' \in {con \o <<l, l>>, Append(con, Garbage)}
      /\ verdict' = IF l.k \in Verdicts THEN l.k ELSE verdict
      /\ UNCHANGED <<cfg, pc, turn, ran, nic, timer, vm, reason>>
  BY DEF Printed, machine
<1>2. /\ l \in Words /\ l \in Lines(out)
      /\ out' \in Seq(Words) /\ Lines(out') \subseteq Lines(out)
  BY <1>1, LinesOfRest DEF GuestInv, GuestOK
<1> HIDE DEF l
<1>3. con \in Seq(Words) /\ Garbage \in Words BY Said DEF GuestInv, GuestOK
<1>4. <<l, l>> \in Seq(Words) BY <1>2
<1>5. con' \in Seq(Words) /\ (Lines(con') = Lines(con) \cup {l} \/ Lines(con') = Lines(con) \cup {Garbage})
  <2>1. con' \in {Append(con, l), con \o <<l, l>>, Append(con, Garbage)} BY <1>1
  <2>2. con \o <<l, l>> \in Seq(Words) /\ Lines(con \o <<l, l>>) = Lines(con) \cup {l}
    <3>1. Lines(<<l, l>>) = {l} BY LinesOfFew
    <3>2. /\ con \o <<l, l>> \in Seq(Words)
          /\ Lines(con \o <<l, l>>) = Lines(con) \cup Lines(<<l, l>>)
      BY <1>3, <1>4, LinesOfBoth
    <3> QED BY <3>1, <3>2
  <2>3. Append(con, l) \in Seq(Words) /\ Lines(Append(con, l)) = Lines(con) \cup {l}
    BY <1>2, <1>3, LinesOfMore
  <2>4. Append(con, Garbage) \in Seq(Words)
        /\ Lines(Append(con, Garbage)) = Lines(con) \cup {Garbage}
    BY <1>3, LinesOfMore
  <2> QED BY <2>1, <2>2, <2>3, <2>4
<1>6. Lines(con)' = Lines(con') /\ Lines(out)' = Lines(out') BY DEF Lines
<1>7. Told' \subseteq Told \cup {Garbage} BY <1>2, <1>5, <1>6 DEF Told
<1>8. \A m \in Lines(con)' : m.k \in Verdicts => verdict' = m.k
  <2> SUFFICES ASSUME NEW m \in Lines(con)', m.k \in Verdicts PROVE verdict' = m.k OBVIOUS
  <2>1. Garbage.k \notin Verdicts BY DEF Garbage, Line, Verdicts
  <2>2. m \in Lines(con) \/ m = l BY <1>5, <1>6, <2>1
  <2>3. l \in Told /\ m \in Told BY <1>2, <2>2 DEF Told
  <2>4. l.k \in Verdicts => l.k = m.k BY <2>3 DEF GuestInv, Judgement
  <2>5. m \in Lines(con) => verdict = m.k BY DEF GuestInv, Judgement
  <2> QED BY <1>1, <2>2, <2>4, <2>5
<1>9. GuestOK'
  <2>1. noise' \in 0..cfg.noise
    <3>1. cfg.noise \in Nat /\ noise \in 0..cfg.noise BY Settings DEF GuestInv, GuestOK
    <3>2. noise' = noise \/ (noise < cfg.noise /\ noise' = noise + 1) BY <1>1
    <3> QED BY <3>1, <3>2
  <2>2. verdict' \in {None} \cup Verdicts BY <1>1 DEF GuestInv, GuestOK
  <2> QED BY <1>1, <1>2, <1>5, <2>1, <2>2 DEF GuestInv, GuestOK
<1>10. Turns' BY <1>1 DEF GuestInv, Turns, Queries
<1>11. CardShown' /\ Judgement' /\ AllRan' /\ OneResult' BY <1>1, <1>7, <1>8, ToldStep
<1> QED BY <1>5, <1>6, <1>9, <1>10, <1>11 DEF GuestInv

\* The script goes on where it is, in the machine that runs it.
LEMMA AtPlace ==
    ASSUME GuestInv, NEW l, At(l)
    PROVE  /\ vm = "up" /\ out = <<>> /\ pc = l /\ Lines(out) = {} /\ out \in Seq(Words)
           /\ cfg \in Configs /\ turn \in Nat \ {0} /\ ran \in Seq(Run) /\ nic \in Card
BY LinesOfFew DEF At, GuestInv, GuestOK

\* What it leaves alone keeps its type.
LEMMA GuestOKStep ==
    ASSUME GuestInv, UNCHANGED <<cfg, con, verdict, noise, machine>>,
           pc' \in Early \cup Between \cup Late, turn' \in Nat \ {0}, ran' \in Seq(Run), nic' \in Card,
           out' \in Seq(Words), timer' \in BOOLEAN
    PROVE  GuestOK'
BY DEF GuestInv, GuestOK, machine

\* A step that leaves the loop and what has run alone.
LEMMA TurnsStep ==
    ASSUME GuestInv, UNCHANGED <<cfg, turn, ran>>,
           pc \in Early \cup {"fetch", "views", "answers", "query"}
             \/ pc' \notin Early \cup {"fetch", "views", "answers", "query"},
           pc' = "profile" => pc = "profile", pc' = "probe" => cfg.probe
    PROVE  Turns'
BY DEF GuestInv, Turns, Queries

LEMMA StartStep == ASSUME GuestInv, Start PROVE GuestInv'
<1>1. /\ pc = "start" /\ out = <<>> /\ pc' \in {"tune", "fetch"}
      /\ out' = <<Line("log", 0, 0, None)>>
      /\ UNCHANGED <<cfg, turn, ran, nic, verdict, con, noise, timer, machine>>
  BY DEF Start, At, Goto, Say
<1>2. Line("log", 0, 0, None) \in Words BY Said DEF Kinds
<1>3. Lines(out') = {Line("log", 0, 0, None)} BY <1>1, LinesOfFew
<1>4. GuestOK' BY <1>1, <1>2, GuestOKStep DEF GuestInv, GuestOK, Early, Between
<1>5. Turns' BY <1>1, TurnsStep DEF Early
<1>6. Line("log", 0, 0, None).k \notin Verdicts \cup {"nic", "result"} BY DEF Line, Verdicts
<1>7. CardShown' /\ Judgement' /\ AllRan' /\ OneResult'
  BY <1>1, <1>3, <1>6, SpeakStep DEF Early, Late, Verdicts
<1> QED BY <1>4, <1>5, <1>7 DEF GuestInv

\* The card is as it was, or has lost its aggregation, or the channels beyond the budget.
LEMMA Cards ==
    ASSUME NEW n \in Card, cfg \in Configs
    PROVE  /\ GroOff(n) \subseteq Card
           /\ cfg.queues # 0 => CapCores(n) \subseteq Card
BY Settings DEF GroOff, CapCores, Card, Channels

\* A step that says nothing and leaves what ran alone.
LEMMA QuietInv ==
    ASSUME GuestInv, out = <<>>, UNCHANGED <<cfg, out, turn, ran, verdict, con, noise, timer, machine>>,
           pc \notin Late, pc' \in Between \cup Late, nic' \in Card, nic' = nic \/ pc \in Early,
           pc' \in {"fetch", "views", "answers", "query"} =>
               pc \in Early \cup {"fetch", "views", "answers", "query"},
           pc' # "profile", pc' = "probe" => cfg.probe
    PROVE  GuestInv'
<1>1. GuestOK' BY GuestOKStep DEF GuestInv, GuestOK
<1>2. pc' \notin Early BY DEF Early, Between, Late
<1>3. Turns' BY <1>2, TurnsStep DEF Early
<1>4. CardShown' /\ Judgement' /\ AllRan' /\ OneResult' BY <1>2, QuietStep
<1> QED BY <1>1, <1>3, <1>4 DEF GuestInv

\* A client that is not DuckDB's has no card line, so tuning it later is no harm.
LEMMA TuneS3Step == ASSUME GuestInv, TuneS3 PROVE GuestInv'
<1>1. /\ pc = "tune" /\ out = <<>> /\ pc' = "fetch" /\ cfg.arm = "linux-s3"
      /\ UNCHANGED <<cfg, out, turn, ran, verdict, con, noise, timer, machine>>
  BY DEF TuneS3, At, Goto
<1>2. cfg \in Configs /\ nic \in Card BY DEF GuestInv, GuestOK
<1>3. nic' \in Card
  <2>1. PICK n \in IF cfg.mode = "stock" THEN {nic} ELSE CapCores(nic) :
            nic' \in CASE cfg.mode = "parity" -> MatchSmoltcp(n)
                       [] cfg.mode \in {"nogro", "nogro1500"} -> GroOff(n)
                       [] OTHER -> {n}
    BY DEF TuneS3
  <2>2. n \in Card BY <1>1, <1>2, <2>1, Cards, Settings
  <2>3. nic' \in GroOff(n) \cup {n} BY <2>1 DEF MatchSmoltcp
  <2> QED BY <1>2, <2>2, <2>3, Cards
<1> QED BY <1>1, <1>3, QuietInv DEF Early, Between, Late

LEMMA TuneClientStep == ASSUME GuestInv, TuneClient PROVE GuestInv'
<1>1. /\ pc = "tune" /\ out = <<>> /\ pc' = "bench"
      /\ UNCHANGED <<cfg, out, turn, ran, verdict, con, noise, timer, machine>>
  BY DEF TuneClient, At, Goto
<1>2. cfg \in Configs /\ nic \in Card BY DEF GuestInv, GuestOK
<1>3. nic' \in Card
  <2>1. PICK n \in CASE cfg.mode = "parity" /\ cfg.arm = "linux-http" -> MatchMininet(nic)
                     [] cfg.mode = "nogro" -> GroOff(nic)
                     [] OTHER -> {nic} :
            nic' \in IF cfg.queues > 0 THEN CapCores(n) ELSE {n}
    BY DEF TuneClient
  <2>2. n \in GroOff(nic) \cup {nic} BY <2>1 DEF MatchMininet
  <2>3. n \in Card BY <1>2, <2>2, Cards
  <2>4. cfg.queues > 0 => cfg.queues # 0 OBVIOUS
  <2> QED BY <1>2, <2>1, <2>3, <2>4, Cards
<1> QED BY <1>1, <1>3, QuietInv DEF Early, Between, Late

\* Lines that show no card, judge nothing and give no result.
Plain(S) == \A l \in S : l.k \notin Verdicts \cup {"nic", "result"}

LEMMA PlainLines ==
    /\ \A k, q, t, v : Line(k, q, t, v).k = k /\ Line(k, q, t, v).v = v
    /\ Plain({}) /\ \A S, T : Plain(S) /\ Plain(T) => Plain(S \cup T)
    /\ \A k \in Kinds \ (Verdicts \cup {"nic", "result"}) : \A q, t, v : Plain({Line(k, q, t, v)})
BY DEF Plain, Line

LEMMA PlainStep ==
    ASSUME GuestInv, out = <<>>, Plain(Lines(out')), pc \notin Late,
           UNCHANGED <<cfg, con, verdict, nic>>, pc' \in Early => pc \in Early
    PROVE  CardShown' /\ Judgement' /\ AllRan' /\ OneResult'
BY SpeakStep DEF Plain, Verdicts

\* The card is what the last line says, if it says anything.
LEMMA TuneNicStep == ASSUME GuestInv, TuneNic PROVE GuestInv'
<1>1. /\ pc = "tune" /\ out = <<>> /\ IsDuckdb
      /\ UNCHANGED <<cfg, turn, ran, verdict, con, noise, timer, machine>>
  BY DEF TuneNic, At, Raise
<1>2. nic \in Card /\ timer \in BOOLEAN BY DEF GuestInv, GuestOK
<1>3. CASE UNCHANGED <<out, nic>> /\ pc' \in {"fetch", "finally"}
  BY <1>1, <1>2, <1>3, QuietInv DEF Early, Between, Late
<1>4. CASE pc' = "fetch" /\ Say(<<NicFailed>>) /\ UNCHANGED nic
  <2>1. NicFailed \in Words BY Said DEF NicFailed, Kinds
  <2>2. out' = <<NicFailed>> /\ Lines(out') = {NicFailed} BY <1>4, LinesOfFew DEF Say
  <2>3. Plain(Lines(out')) BY <2>2, PlainLines DEF NicFailed, Kinds, Verdicts
  <2>4. GuestOK' BY <1>1, <1>2, <1>4, <2>1, <2>2, GuestOKStep DEF GuestInv, GuestOK, Between
  <2>5. Turns' BY <1>1, <1>4, TurnsStep DEF Early
  <2>6. CardShown' /\ Judgement' /\ AllRan' /\ OneResult'
    BY <1>1, <1>4, <2>3, PlainStep DEF Early, Late
  <2> QED BY <2>4, <2>5, <2>6 DEF GuestInv
<1>5. CASE /\ pc' = "fetch"
           /\ \E g \in {"on", "off"}, refused \in {<<>>, <<NicFailed>>}, n \in Channels, said \in BOOLEAN :
                 /\ nic' = [gro |-> g, queues |-> n]
                 /\ Say(refused \o <<Line("nic", 0, 0,
                           IF said THEN nic' ELSE [gro |-> "?", queues |-> 0])>>)
  <2>1. PICK g \in {"on", "off"}, refused \in {<<>>, <<NicFailed>>}, n \in Channels, said \in BOOLEAN :
                 /\ nic' = [gro |-> g, queues |-> n]
                 /\ Say(refused \o <<Line("nic", 0, 0,
                           IF said THEN nic' ELSE [gro |-> "?", queues |-> 0])>>)
    BY <1>5
  <2> DEFINE shown == Line("nic", 0, 0, IF said THEN nic' ELSE [gro |-> "?", queues |-> 0])
  <2>2. nic' \in Card BY <2>1 DEF Card
  <2>3. shown.v \in {nic', Unsaid} /\ shown.k = "nic" BY PlainLines DEF Unsaid
  <2>4. shown \in Words
    <3>1. (IF said THEN nic' ELSE [gro |-> "?", queues |-> 0]) \in Values
      BY <2>2 DEF Values, Unsaid
    <3> QED BY <3>1, Said DEF Kinds
  <2>5. NicFailed \in Words BY Said DEF NicFailed, Kinds
  <2>6. out' = refused \o <<shown>> BY <2>1 DEF Say
  <2> HIDE DEF shown
  <2>7. refused \in Seq(Words) /\ Lines(refused) \subseteq {NicFailed}
    <3>1. <<NicFailed>> \in Seq(Words) /\ <<>> \in Seq(Words) BY <2>5
    <3>2. Lines(<<NicFailed>>) = {NicFailed} /\ Lines(<<>>) = {} BY LinesOfFew
    <3> QED BY <3>1, <3>2
  <2>8. <<shown>> \in Seq(Words) /\ Lines(<<shown>>) = {shown} BY <2>4, LinesOfFew
  <2>9. out' \in Seq(Words) /\ Lines(out') \subseteq {NicFailed, shown}
    <3> DEFINE last == <<shown>>
    <3>1. refused \in Seq(Words) /\ last \in Seq(Words) BY <2>7, <2>8
    <3> HIDE DEF last
    <3>2. refused \o last \in Seq(Words) /\ Lines(refused \o last) = Lines(refused) \cup Lines(last)
      BY <3>1, LinesOfBoth
    <3>3. refused \o <<shown>> \in Seq(Words)
          /\ Lines(refused \o <<shown>>) = Lines(refused) \cup Lines(<<shown>>)
      BY <3>2 DEF last
    <3> QED BY <2>6, <2>7, <2>8, <3>3
  <2>10. NicFailed.k = "nicfail" BY PlainLines DEF NicFailed
  <2>11. GuestOK' BY <1>1, <1>2, <1>5, <2>2, <2>9, GuestOKStep DEF GuestInv, GuestOK, Between
  <2>12. Turns' BY <1>1, <1>5, TurnsStep DEF Early
  <2>13. CardShown' /\ Judgement' /\ AllRan' /\ OneResult'
    <3>1. \A l \in Lines(out') : l.k \notin Verdicts \cup {"result"}
      BY <2>3, <2>9, <2>10 DEF Verdicts
    <3>2. \A l \in Lines(out') : l.k = "nic" => l.v \in {nic', Unsaid} BY <2>3, <2>9, <2>10
    <3>3. pc \in Early /\ pc \notin Late /\ pc' \notin Early BY <1>1, <1>5 DEF Early, Late
    <3>4. "COMPLETE" \in Verdicts BY DEF Verdicts
    <3> QED BY <1>1, <3>1, <3>2, <3>3, <3>4, SpeakStep
  <2> QED BY <2>11, <2>12, <2>13 DEF GuestInv
<1> QED BY <1>1, <1>3, <1>4, <1>5 DEF TuneNic, Goto, Raise

\* A judgement is given once, with the last that the script has to say.
LEMMA VerdictInv ==
    ASSUME GuestInv, out = <<>>, UNCHANGED <<cfg, turn, ran, nic, verdict, con, noise, timer, machine>>,
           pc \in Between, pc' = "finally", out' \in Seq(Words),
           NEW j \in Verdicts, NEW r \in BOOLEAN,
           \A l \in Lines(out') :
              \/ l.k \notin Verdicts \cup {"nic", "result"}
              \/ l.k = j \/ l = Line("result", 0, 0, r),
           IsDuckdb /\ ~cfg.probe /\ j = "COMPLETE" => AllSound /\ Len(ran) = Len(Queries)
    PROVE  GuestInv'
<1>1. GuestOK' BY GuestOKStep DEF GuestInv, GuestOK, Late
<1>2. Turns' BY TurnsStep DEF Early, Between
<1>3. Line("result", 0, 0, r).k = "result" /\ Line("result", 0, 0, r).v = r BY PlainLines
<1>4. j # "nic" /\ j # "result" /\ "result" \notin Verdicts /\ "nic" \notin Verdicts
      /\ "COMPLETE" \in Verdicts
  BY DEF Verdicts
<1>5. \A l \in Lines(out') : l.k # "nic" BY <1>3, <1>4
<1>6. \A l \in Lines(out') : l.k \in Verdicts => l.k = j BY <1>3, <1>4
<1>7. \A l \in Lines(out') : l.k = "result" => l.v = r BY <1>3, <1>4
<1>8. AllSound' = AllSound BY DEF AllSound
<1>9. pc' \in Late /\ pc \notin Late /\ pc' \notin Early BY DEF Late, Early, Between
<1>10. CardShown' /\ Judgement' /\ AllRan' /\ OneResult'
  BY <1>4, <1>5, <1>6, <1>7, <1>8, <1>9, SpeakStep
<1> QED BY <1>1, <1>2, <1>10 DEF GuestInv

LEMMA FetchStep ==
    ASSUME GuestInv, FetchBinary \/ FetchAnyBlob \/ FetchWrk \/ FetchDuckdb
    PROVE  GuestInv'
<1>1. PICK arm, next :
        /\ Fetched(arm, next)
        /\ next \in Early \cup Between
        /\ next = "tune" => arm \in {"anyblob", "linux-http"}
        /\ next = "probe" => cfg.probe
        /\ next \in {"tune", "bench", "probe", "views"}
  BY DEF FetchBinary, FetchAnyBlob, FetchWrk, FetchDuckdb, Early, Between
<1>2. /\ pc = "fetch" /\ out = <<>> /\ cfg.arm = arm
      /\ UNCHANGED <<cfg, turn, ran, nic, verdict, con, noise, timer, machine>>
  BY <1>1 DEF Fetched, At
<1>3. CASE pc' = next /\ UNCHANGED out /\ next # "tune"
  BY <1>1, <1>2, <1>3, QuietInv DEF Early, Between, Late, GuestInv, GuestOK
<1>4. CASE pc' = next /\ UNCHANGED out /\ next = "tune"
  <2>1. ~IsDuckdb BY <1>1, <1>2, <1>4 DEF IsDuckdb
  <2>2. Told = Lines(con) /\ Told' = Lines(con) BY <1>2, <1>4, LinesOfFew DEF Told, Lines
  <2>3. CardShown' BY <2>1, <2>2 DEF GuestInv, CardShown
  <2>4. Judgement' /\ AllRan' /\ OneResult'
    <3>1. pc \notin Late BY <1>2 DEF Late
    <3>2. \A l \in Told : l.k \notin Verdicts \cup {"result"}
      BY <3>1 DEF GuestInv, Judgement, OneResult
    <3>3. Lines(con)' = Lines(con) /\ Lines(con) \subseteq Told BY <1>2 DEF Lines, Told
    <3>4. "COMPLETE" \in Verdicts BY DEF Verdicts
    <3> QED BY <2>2, <3>2, <3>3, <3>4 DEF Judgement, AllRan, OneResult
  <2>5. GuestOK' BY <1>2, <1>4, GuestOKStep DEF GuestInv, GuestOK, Early
  <2>6. Turns' BY <1>2, <1>4, TurnsStep DEF Early
  <2> QED BY <2>3, <2>4, <2>5, <2>6 DEF GuestInv
<1>5. CASE pc' = "finally" /\ Say(<<Verdict("INCOMPLETE")>>)
  <2>1. "INCOMPLETE" \in Verdicts BY DEF Verdicts
  <2>2. Verdict("INCOMPLETE") \in Words BY <2>1, Said
  <2>3. out' = <<Verdict("INCOMPLETE")>> /\ Lines(out') = {Verdict("INCOMPLETE")}
    BY <1>5, LinesOfFew DEF Say
  <2>4. Verdict("INCOMPLETE").k = "INCOMPLETE" BY PlainLines DEF Verdict
  <2>5. out' \in Seq(Words) BY <2>2, <2>3
  <2> QED BY <1>2, <1>5, <2>1, <2>3, <2>4, <2>5, VerdictInv DEF Between
<1> QED BY <1>1, <1>3, <1>4, <1>5 DEF Fetched, Goto

-----------------------------------------------------------------------------
\* The lines a client leaves, with the counters around it.
Inert(l) == l.k \notin Verdicts \cup {"nic", "result"}

LEMMA InertLines ==
    \A k \in Kinds \ (Verdicts \cup {"nic", "result"}), q, t \in Nat, v \in Values :
        Line(k, q, t, v) \in Words /\ Inert(Line(k, q, t, v))
BY Said, PlainLines DEF Inert

LEMMA Counters ==
    /\ ReportBudget \in Seq(Words) /\ ReportCpu \in Seq(Words)
    /\ \A b \in BOOLEAN : ReportCounters(b) \in Seq(Words)
    /\ \A l \in Lines(ReportBudget) \cup Lines(ReportCpu) : Inert(l)
    /\ \A b \in BOOLEAN : \A l \in Lines(ReportCounters(b)) : Inert(l)
    /\ Wire \in Words /\ Inert(Wire)
<1> DEFINE Of(k) == Line(k, 0, 0, None)
<1>1. \A k \in {"budget", "cpu", "shaped", "wire"} : Of(k) \in Words BY Said DEF Kinds
<1>2. \A k \in {"budget", "cpu", "shaped", "wire"} : Inert(Of(k))
  BY PlainLines DEF Inert, Verdicts
<1>3. /\ ReportBudget = <<Of("budget")>> /\ ReportCpu = <<Of("cpu")>> /\ Wire = Of("wire")
      /\ \A b \in BOOLEAN : ReportCounters(b) \in {<<Of("shaped")>>, <<>>}
  BY DEF ReportBudget, ReportCpu, ReportCounters, Wire
<1> HIDE DEF Of
<1>4. /\ Lines(ReportBudget) = {Of("budget")} /\ Lines(ReportCpu) = {Of("cpu")}
      /\ \A b \in BOOLEAN : Lines(ReportCounters(b)) \subseteq {Of("shaped")}
  BY <1>3, LinesOfFew
<1>5. \A w \in Words : <<w>> \in Seq(Words) OBVIOUS
<1>6. <<>> \in Seq(Words) OBVIOUS
<1>7. ReportBudget \in Seq(Words) /\ ReportCpu \in Seq(Words)
      /\ \A b \in BOOLEAN : ReportCounters(b) \in Seq(Words)
  BY <1>1, <1>3, <1>5, <1>6
<1> QED BY <1>1, <1>2, <1>3, <1>4, <1>7

\* What a client printed: nothing, or one result, one verdict and its counters.
LEMMA Clients ==
    ASSUME NEW g \in BOOLEAN, NEW printed \in {<<>>, Client(g)}
    PROVE  /\ printed \in Seq(Words)
           /\ \A l \in Lines(printed) : Inert(l) \/ l.k = Judge(g).k \/ l = Line("result", 0, 0, g)
           /\ Judge(g).k \in Verdicts /\ Judge(g) \in Words /\ Result(g) \in Words
<1>1. Judge(g) \in Words /\ Judge(g).k \in Verdicts BY Said, PlainLines DEF Judge, Verdict, Verdicts
<1>2. Result(g) \in Words /\ Result(g) = Line("result", 0, 0, g) BY Said DEF Result, Kinds
<1>3. Wire \in Words /\ Inert(Wire) BY Counters
<1>4. Lines(<<Result(g), Judge(g), Wire>>) = {Result(g), Judge(g), Wire} /\ Lines(<<>>) = {}
  BY LinesOfFew
<1>5. <<Result(g), Judge(g), Wire>> \in Seq(Words) /\ <<>> \in Seq(Words) BY <1>1, <1>2, <1>3
<1> QED BY <1>1, <1>2, <1>3, <1>4, <1>5 DEF Client

LEMMA PrintedBy ==
    ASSUME NEW printed \in {<<>>} \cup {Client(g) : g \in BOOLEAN}
    PROVE  \E g \in BOOLEAN : printed \in {<<>>, Client(g)}
OBVIOUS

\* Each of the throughput arms' clients.
LEMMA BenchInv ==
    ASSUME GuestInv, out = <<>>, UNCHANGED <<cfg, turn, ran, nic, verdict, con, noise, timer, machine>>,
           pc = "bench", ~IsDuckdb, pc' = "finally", out' \in Seq(Words),
           NEW j \in BOOLEAN, NEW r \in BOOLEAN,
           \A l \in Lines(out') : Inert(l) \/ l.k = Judge(j).k \/ l = Line("result", 0, 0, r)
    PROVE  GuestInv'
<1>1. Judge(j).k \in Verdicts BY Clients
<1>2. \A l \in Lines(out') : \/ l.k \notin Verdicts \cup {"nic", "result"}
                             \/ l.k = Judge(j).k \/ l = Line("result", 0, 0, r)
  BY DEF Inert
<1>3. pc \in Between BY DEF Between
<1> QED BY <1>1, <1>2, <1>3, VerdictInv

LEMMA RunBenchStep == ASSUME GuestInv, RunBench PROVE GuestInv'
<1>1. /\ pc = "bench" /\ out = <<>> /\ ~IsDuckdb
      /\ UNCHANGED <<cfg, turn, ran, nic, verdict, con, noise, timer, machine>>
  BY DEF RunBench, At, IsDuckdb
<1>2. CASE UNCHANGED out /\ pc' \in {"hung", "finally"}
  BY <1>1, <1>2, QuietInv DEF Between, Late, GuestInv, GuestOK
<1>3. CASE /\ pc' = "finally"
           /\ \E printed \in {<<>>} \cup {Client(g) : g \in BOOLEAN}, shaped \in BOOLEAN :
                 Say(printed \o ReportBudget \o ReportCpu \o ReportCounters(shaped))
  <2>1. PICK printed \in {<<>>} \cup {Client(g) : g \in BOOLEAN}, shaped \in BOOLEAN :
            out' = printed \o ReportBudget \o ReportCpu \o ReportCounters(shaped)
    BY <1>3 DEF Say
  <2>2. PICK g \in BOOLEAN : printed \in {<<>>, Client(g)} BY PrintedBy
  <2>3. printed \in Seq(Words) BY <2>2, Clients
  <2> DEFINE a == printed \o ReportBudget   b == a \o ReportCpu
  <2>4. a \in Seq(Words) /\ Lines(a) = Lines(printed) \cup Lines(ReportBudget)
    BY <2>3, Counters, LinesOfBoth
  <2> HIDE DEF a
  <2>5. b \in Seq(Words) /\ Lines(b) = Lines(a) \cup Lines(ReportCpu)
    BY <2>4, Counters, LinesOfBoth
  <2>6. out' = b \o ReportCounters(shaped) BY <2>1 DEF a
  <2> HIDE DEF b
  <2>7. out' \in Seq(Words) /\ Lines(out') = Lines(b) \cup Lines(ReportCounters(shaped))
    BY <2>5, <2>6, Counters, LinesOfBoth
  <2>8. \A l \in Lines(out') : Inert(l) \/ l.k = Judge(g).k \/ l = Line("result", 0, 0, g)
    BY <2>2, <2>4, <2>5, <2>7, Clients, Counters
  <2> QED BY <1>1, <1>3, <2>7, <2>8, BenchInv
<1> QED BY <1>2, <1>3 DEF RunBench, Goto

LEMMA RunAnyBlobStep == ASSUME GuestInv, RunAnyBlob PROVE GuestInv'
<1>1. /\ pc = "bench" /\ out = <<>> /\ ~IsDuckdb
      /\ UNCHANGED <<cfg, turn, ran, nic, verdict, con, noise, timer, machine>>
  BY DEF RunAnyBlob, At, IsDuckdb
<1>2. CASE UNCHANGED out /\ pc' \in {"hung", "finally"}
  BY <1>1, <1>2, QuietInv DEF Between, Late, GuestInv, GuestOK
<1>3. CASE /\ pc' = "finally"
           /\ \E printed \in {<<>>} \cup {Client(g) : g \in BOOLEAN}, shaped \in BOOLEAN :
                 Say(printed \o ReportBudget \o ReportCounters(shaped))
  <2>1. PICK printed \in {<<>>} \cup {Client(g) : g \in BOOLEAN}, shaped \in BOOLEAN :
            out' = printed \o ReportBudget \o ReportCounters(shaped)
    BY <1>3 DEF Say
  <2>2. PICK g \in BOOLEAN : printed \in {<<>>, Client(g)} BY PrintedBy
  <2>3. printed \in Seq(Words) BY <2>2, Clients
  <2> DEFINE a == printed \o ReportBudget
  <2>4. a \in Seq(Words) /\ Lines(a) = Lines(printed) \cup Lines(ReportBudget)
    BY <2>3, Counters, LinesOfBoth
  <2>5. out' = a \o ReportCounters(shaped) BY <2>1
  <2> HIDE DEF a
  <2>6. out' \in Seq(Words) /\ Lines(out') = Lines(a) \cup Lines(ReportCounters(shaped))
    BY <2>4, <2>5, Counters, LinesOfBoth
  <2>7. \A l \in Lines(out') : Inert(l) \/ l.k = Judge(g).k \/ l = Line("result", 0, 0, g)
    BY <2>2, <2>4, <2>6, Clients, Counters
  <2> QED BY <1>1, <1>3, <2>6, <2>7, BenchInv
<1> QED BY <1>2, <1>3 DEF RunAnyBlob, Goto

LEMMA RunWrkStep == ASSUME GuestInv, RunWrk PROVE GuestInv'
<1>1. /\ pc = "bench" /\ pc' = "finally" /\ out = <<>> /\ ~IsDuckdb
      /\ UNCHANGED <<cfg, turn, ran, nic, verdict, con, noise, timer, machine>>
  BY DEF RunWrk, At, IsDuckdb, Goto
<1>2. ASSUME NEW good \in BOOLEAN, NEW errors \in BOOLEAN,
             Say(ReportBudget \o <<Result(~errors), Wire, Judge(good)>>)
      PROVE  GuestInv'
  <2> DEFINE r == ~errors   s == <<Result(r), Wire, Judge(good)>>
  <2>1. r \in BOOLEAN BY <1>2
  <2> HIDE DEF r
  <2>2. Result(r) \in Words /\ Result(r) = Line("result", 0, 0, r) BY <2>1, Clients DEF Result
  <2>3. Judge(good) \in Words BY <1>2, Clients
  <2>4. Wire \in Words /\ Inert(Wire) BY Counters
  <2>5. s \in Seq(Words) BY <2>2, <2>3, <2>4
  <2>6. Lines(s) = {Result(r), Wire, Judge(good)} BY LinesOfFew
  <2>7. out' = ReportBudget \o s BY <1>2 DEF Say, r
  <2> HIDE DEF s
  <2>8. out' \in Seq(Words) /\ Lines(out') = Lines(ReportBudget) \cup Lines(s)
    BY <2>5, <2>7, Counters, LinesOfBoth
  <2>9. \A l \in Lines(out') : Inert(l) \/ l.k = Judge(good).k \/ l = Line("result", 0, 0, r)
    BY <2>2, <2>4, <2>6, <2>8, Counters
  <2> QED BY <1>1, <1>2, <2>1, <2>8, <2>9, BenchInv
<1>3. CASE Say(<<Verdict("INCOMPLETE")>> \o ReportBudget)
  <2> DEFINE s == <<Verdict("INCOMPLETE")>>
  <2>1. Verdict("INCOMPLETE") = Judge(FALSE) BY DEF Judge
  <2>2. Judge(FALSE) \in Words BY Clients
  <2>3. s \in Seq(Words)
    <3>1. Verdict("INCOMPLETE") \in Words BY <2>1, <2>2
    <3> QED BY <3>1
  <2>4. Lines(s) = {Judge(FALSE)} BY <2>1, LinesOfFew
  <2>5. out' = s \o ReportBudget BY <1>3 DEF Say
  <2> HIDE DEF s
  <2>6. ReportBudget \in Seq(Words) BY Counters
  <2>7. out' \in Seq(Words) /\ Lines(out') = Lines(s) \cup Lines(ReportBudget)
    BY <2>3, <2>5, <2>6, LinesOfBoth
  <2>8. \A l \in Lines(out') : Inert(l) \/ l.k = Judge(FALSE).k \/ l = Line("result", 0, 0, TRUE)
    BY <2>4, <2>7, Counters
  <2> QED BY <1>1, <2>7, <2>8, BenchInv
<1>4. ASSUME NEW errors \in BOOLEAN, Say(ReportBudget \o <<Result(~errors), Wire>>)
      PROVE  GuestInv'
  <2> DEFINE r == ~errors   s == <<Result(r), Wire>>
  <2>1. r \in BOOLEAN BY <1>4
  <2> HIDE DEF r
  <2>2. Result(r) \in Words /\ Result(r) = Line("result", 0, 0, r) BY <2>1, Clients DEF Result
  <2>3. Wire \in Words /\ Inert(Wire) BY Counters
  <2>4. s \in Seq(Words) BY <2>2, <2>3
  <2>5. Lines(s) = {Result(r), Wire} BY LinesOfFew
  <2>6. out' = ReportBudget \o s BY <1>4 DEF Say, r
  <2> HIDE DEF s
  <2>7. out' \in Seq(Words) /\ Lines(out') = Lines(ReportBudget) \cup Lines(s)
    BY <2>4, <2>6, Counters, LinesOfBoth
  <2>8. \A l \in Lines(out') : Inert(l) \/ l.k = Judge(FALSE).k \/ l = Line("result", 0, 0, r)
    BY <2>2, <2>3, <2>5, <2>7, Counters
  <2> QED BY <1>1, <2>1, <2>7, <2>8, BenchInv
<1>5. CASE UNCHANGED out
  BY <1>1, <1>5, QuietInv DEF Between, Late, GuestInv, GuestOK
<1> QED BY <1>2, <1>3, <1>4, <1>5 DEF RunWrk

-----------------------------------------------------------------------------
LEMMA CpuProbeStep == ASSUME GuestInv, CpuProbe PROVE GuestInv'
<1>1. /\ pc = "probe" /\ pc' = "finally" /\ out = <<>> /\ cfg.probe
      /\ UNCHANGED <<cfg, turn, ran, nic, verdict, con, noise, timer, machine>>
  BY DEF CpuProbe, At, Raise, Goto, GuestInv, Turns
<1>2. CASE UNCHANGED out
  BY <1>1, <1>2, QuietInv DEF Between, Late, GuestInv, GuestOK
<1>3. ASSUME NEW all \in BOOLEAN,
             Say((IF all THEN <<>> ELSE <<Line("probefail", 0, 0, None)>>)
                 \o <<Line(Judge(all).k, 0, 0, IF all THEN 9 ELSE 8)>>)
      PROVE  GuestInv'
  <2> DEFINE failed == Line("probefail", 0, 0, None)
             judged == Line(Judge(all).k, 0, 0, IF all THEN 9 ELSE 8)
             s == IF all THEN <<>> ELSE <<failed>>
             t == <<judged>>
  <2>1. failed \in Words /\ Inert(failed)
    BY Said, PlainLines DEF Inert, Kinds, Verdicts
  <2>2. Judge(all).k \in Verdicts /\ judged.k = Judge(all).k BY <1>3, Clients, PlainLines
  <2>3. judged \in Words
    <3>1. (IF all THEN 9 ELSE 8) \in Nat BY <1>3
    <3> QED BY <2>2, <3>1, Said DEF Kinds
  <2>4. out' = s \o t BY <1>3 DEF Say
  <2> HIDE DEF failed, judged
  <2>5. s \in Seq(Words) BY <2>1
  <2>6. Lines(s) \subseteq {failed} BY LinesOfFew
  <2>7. t \in Seq(Words) BY <2>3
  <2>8. Lines(t) = {judged} BY LinesOfFew
  <2> HIDE DEF s, t
  <2>9. out' \in Seq(Words) /\ Lines(out') = Lines(s) \cup Lines(t)
    BY <2>4, <2>5, <2>7, LinesOfBoth
  <2>10. \A l \in Lines(out') : l.k \notin Verdicts \cup {"nic", "result"} \/ l.k = Judge(all).k
    BY <2>1, <2>2, <2>6, <2>8, <2>9 DEF Inert
  <2> QED BY <1>1, <2>2, <2>9, <2>10, VerdictInv DEF Between
<1> QED BY <1>2, <1>3 DEF CpuProbe

LEMMA ViewsStep == ASSUME GuestInv, SetupViews \/ FetchAnswers PROVE GuestInv'
<1>1. /\ pc \in {"views", "answers"} /\ pc' \in {"answers", "query", "finally"} /\ out = <<>>
      /\ UNCHANGED <<cfg, out, turn, ran, nic, verdict, con, noise, timer, machine>>
  BY DEF SetupViews, FetchAnswers, At, Raise, Goto
<1> QED BY <1>1, QuietInv DEF Between, Late, GuestInv, GuestOK

\* A query of the list ran, and there is one more to count.
LEMMA QueryStep == ASSUME GuestInv, Query PROVE GuestInv'
<1> DEFINE q == Queries[turn]
<1>1. /\ pc = "query" /\ out = <<>> /\ turn <= Len(Queries) /\ vm = "up"
      /\ UNCHANGED <<cfg, nic, verdict, con, noise, timer, machine>>
  BY DEF Query, At
<1>2. /\ cfg \in Configs /\ turn \in Nat \ {0} /\ ran \in Seq(Run) /\ Len(ran) = turn - 1
      /\ Queries \in Seq(Nat) /\ Len(Queries) \in Nat /\ Ms \subseteq Nat \ {0}
      /\ nic \in Card /\ timer \in BOOLEAN
  BY <1>1, Settings DEF GuestInv, GuestOK, Turns, Queries
<1>3. Len(ran) \in Nat /\ turn \in 1..Len(Queries)
  <2>1. Len(ran) \in Nat BY <1>2
  <2> QED BY <1>1, <1>2, <2>1
<1>4. q \in Nat BY <1>2, <1>3
<1> HIDE DEF q
<1>5. ASSUME NEW run \in Run, NEW said \in Words, Inert(said),
             ran' = Append(ran, run), out' = <<said>>,
             \/ pc' = "query" /\ turn' = turn + 1
             \/ pc' = "profile" /\ turn' = turn
      PROVE  GuestInv'
  <2>1. ran' \in Seq(Run) /\ Len(ran') = turn BY <1>2, <1>3, <1>5
  <2>2. out' \in Seq(Words) BY <1>5
  <2>3. GuestOK' BY <1>1, <1>2, <1>5, <2>1, <2>2, GuestOKStep DEF Between
  <2>4. Turns' BY <1>1, <1>2, <1>3, <1>5, <2>1 DEF Turns, Queries, Early
  <2>5. Lines(out') = {said} BY <1>5, LinesOfFew
  <2>6. Plain(Lines(out')) BY <1>5, <2>5 DEF Plain, Inert
  <2>7. CardShown' /\ Judgement' /\ AllRan' /\ OneResult'
    BY <1>1, <1>5, <2>6, PlainStep DEF Early, Late
  <2> QED BY <2>3, <2>4, <2>7 DEF GuestInv
<1>6. CASE /\ ran' = Append(ran, Failed(q)) /\ Say(<<Line("fail", q, turn, None)>>)
           /\ turn' = turn + 1 /\ Goto("query")
  <2>1. Failed(q) \in Run BY <1>4 DEF Failed, Run, Match
  <2>2. Line("fail", q, turn, None) \in Words /\ Inert(Line("fail", q, turn, None))
    <3>1. "fail" \in Kinds \ (Verdicts \cup {"nic", "result"}) BY DEF Kinds, Verdicts
    <3>2. turn \in Nat /\ None \in Values BY <1>2, Said
    <3> QED BY <1>4, <3>1, <3>2, InertLines
  <2> QED BY <1>5, <1>6, <2>1, <2>2 DEF Say, Goto
<1>7. ASSUME NEW ms \in Ms, NEW match \in Matches,
             ran' = Append(ran, [q |-> q, ms |-> ms, match |-> match,
                                 sound |-> match = "yes" \/ ~cfg.answers]),
             Say(<<Line("ms", q, turn, [ms |-> ms, match |-> match])>>),
             IF Profiled THEN Goto("profile") /\ UNCHANGED turn
                         ELSE Goto("query") /\ turn' = turn + 1
      PROVE  GuestInv'
  <2>1. match \in Match BY <1>7 DEF Matches, Match
  <2>2. ms \in Nat BY <1>2, <1>7
  <2>3. (match = "yes" \/ ~cfg.answers) \in BOOLEAN OBVIOUS
  <2>4. [q |-> q, ms |-> ms, match |-> match, sound |-> match = "yes" \/ ~cfg.answers] \in Run
    BY <1>4, <2>1, <2>2, <2>3 DEF Run
  <2>5. [ms |-> ms, match |-> match] \in Values BY <2>1, <2>2 DEF Values
  <2>6. /\ Line("ms", q, turn, [ms |-> ms, match |-> match]) \in Words
        /\ Inert(Line("ms", q, turn, [ms |-> ms, match |-> match]))
    <3>1. "ms" \in Kinds \ (Verdicts \cup {"nic", "result"}) BY DEF Kinds, Verdicts
    <3>2. turn \in Nat BY <1>2
    <3> QED BY <1>4, <2>5, <3>1, <3>2, InertLines
  <2> QED BY <1>5, <1>7, <2>4, <2>6 DEF Say, Goto
<1> QED BY <1>6, <1>7 DEF Query, q

LEMMA HttpProfileStep == ASSUME GuestInv, HttpProfile PROVE GuestInv'
<1>1. /\ pc = "profile" /\ pc' = "query" /\ out = <<>> /\ turn' = turn + 1
      /\ UNCHANGED <<cfg, ran, nic, verdict, con, noise, timer, machine>>
  BY DEF HttpProfile, At, Goto
<1>2. /\ cfg \in Configs /\ turn \in Nat \ {0} /\ ran \in Seq(Run) /\ Len(ran) = turn
      /\ Queries \in Seq(Nat) /\ Len(Queries) \in Nat /\ turn <= Len(Queries)
      /\ nic \in Card /\ timer \in BOOLEAN
  BY <1>1, Settings DEF GuestInv, GuestOK, Turns, Queries
<1> DEFINE Of(k) == Line(k, Queries[turn], turn, None)
<1>3. \A k \in {"stats", "statsfail", "phase", "phasefail"} : Of(k) \in Words /\ Inert(Of(k))
  <2>1. Queries[turn] \in Nat /\ turn \in Nat
    <3>1. turn \in 1..Len(Queries) BY <1>2
    <3> QED BY <1>2, <3>1
  <2>2. {"stats", "statsfail", "phase", "phasefail"} \subseteq Kinds \ (Verdicts \cup {"nic", "result"})
    BY DEF Kinds, Verdicts
  <2>3. None \in Values BY Said
  <2> QED BY <2>1, <2>2, <2>3, InertLines
<1>4. \A g \in BOOLEAN : PhaseLine(g) \in {<<>>, <<Of("phase")>>, <<Of("phasefail")>>}
  BY DEF PhaseLine, Stats
<1>5. \A g \in BOOLEAN : Stats("stats", "statsfail", g) \in {Of("stats"), Of("statsfail")}
  BY DEF Stats
<1> HIDE DEF Of
<1>6. ASSUME NEW s, NEW t, out' = s \o t,
             s \in {<<>>} \cup {<<Of(k)>> : k \in {"stats", "statsfail", "phase", "phasefail"}},
             t \in {<<>>} \cup {<<Of(k)>> : k \in {"stats", "statsfail", "phase", "phasefail"}}
      PROVE  GuestInv'
  <2>1. ASSUME NEW u \in {<<>>} \cup {<<Of(k)>> : k \in {"stats", "statsfail", "phase", "phasefail"}}
        PROVE  u \in Seq(Words) /\ Plain(Lines(u))
    <3>1. CASE u = <<>>
      <4>1. u \in Seq(Words) BY <3>1
      <4> QED BY <3>1, <4>1, LinesOfFew, PlainLines
    <3>2. ASSUME NEW k \in {"stats", "statsfail", "phase", "phasefail"}, u = <<Of(k)>>
          PROVE  u \in Seq(Words) /\ Plain(Lines(u))
      <4>1. Of(k) \in Words /\ Inert(Of(k)) BY <1>3, <3>2
      <4>2. u \in Seq(Words) BY <3>2, <4>1
      <4>3. Lines(u) = {Of(k)} BY <3>2, LinesOfFew
      <4> QED BY <4>1, <4>2, <4>3 DEF Plain, Inert
    <3> QED BY <2>1, <3>1, <3>2
  <2>2. s \in Seq(Words) BY <1>6, <2>1
  <2>3. t \in Seq(Words) BY <1>6, <2>1
  <2>4. out' \in Seq(Words) /\ Lines(out') = Lines(s) \cup Lines(t) BY <1>6, <2>2, <2>3, LinesOfBoth
  <2>5. Plain(Lines(out')) BY <1>6, <2>1, <2>4, PlainLines
  <2>6. GuestOK' BY <1>1, <1>2, <2>4, GuestOKStep DEF Between
  <2>7. Turns' BY <1>1, <1>2 DEF Turns, Queries, Early
  <2>8. CardShown' /\ Judgement' /\ AllRan' /\ OneResult' BY <1>1, <2>5, PlainStep DEF Early, Late
  <2> QED BY <2>6, <2>7, <2>8 DEF GuestInv
<1>7. CASE Say(<<Stats("stats", "statsfail", FALSE)>> \o PhaseLine(FALSE))
  <2>1. out' = <<Stats("stats", "statsfail", FALSE)>> \o PhaseLine(FALSE) BY <1>7 DEF Say
  <2>2. PhaseLine(FALSE) \in {<<>>} \cup {<<Of(k)>> : k \in {"stats", "statsfail", "phase", "phasefail"}} BY <1>4
  <2>3. <<Stats("stats", "statsfail", FALSE)>> \in {<<Of(k)>> : k \in {"stats", "statsfail", "phase", "phasefail"}} BY <1>5
  <2> QED BY <1>6, <2>1, <2>2, <2>3
<1>8. ASSUME NEW p \in BOOLEAN, NEW s \in BOOLEAN,
             Say(PhaseLine(p) \o <<Stats("stats", "statsfail", s)>>)
      PROVE  GuestInv'
  <2>1. out' = PhaseLine(p) \o <<Stats("stats", "statsfail", s)>> BY <1>8 DEF Say
  <2>2. PhaseLine(p) \in {<<>>} \cup {<<Of(k)>> : k \in {"stats", "statsfail", "phase", "phasefail"}} BY <1>4, <1>8
  <2>3. <<Stats("stats", "statsfail", s)>> \in {<<Of(k)>> : k \in {"stats", "statsfail", "phase", "phasefail"}} BY <1>5, <1>8
  <2> QED BY <1>6, <2>1, <2>2, <2>3
<1> QED BY <1>7, <1>8 DEF HttpProfile

\* The verdict on all of them.
LEMMA SummaryStep == ASSUME GuestInv, Summary PROVE GuestInv'
<1>1. /\ pc = "query" /\ pc' = "finally" /\ out = <<>> /\ turn > Len(Queries)
      /\ out' = <<Line("summary", 0, 0, [total |-> Len(Queries), ms |-> Total(ran)]), Judge(AllSound)>>
      /\ UNCHANGED <<cfg, turn, ran, nic, verdict, con, noise, timer, machine>>
  BY DEF Summary, At, Goto, Say
<1>2. /\ turn \in Nat \ {0} /\ ran \in Seq(Run) /\ Len(ran) = turn - 1 /\ turn <= Len(Queries) + 1
      /\ Len(Queries) \in Nat
  BY <1>1, Settings DEF GuestInv, GuestOK, Turns, Queries
<1>3. Len(ran) = Len(Queries) BY <1>1, <1>2
<1> DEFINE v == [total |-> Len(Queries), ms |-> Total(ran)]
           j == AllSound
<1>4. v \in Values BY <1>2 DEF Values
<1>5. j \in BOOLEAN BY DEF AllSound
<1> HIDE DEF v
<1>6. Line("summary", 0, 0, v) \in Words /\ Inert(Line("summary", 0, 0, v))
  <2>1. "summary" \in Kinds \ (Verdicts \cup {"nic", "result"}) BY DEF Kinds, Verdicts
  <2> QED BY <1>4, <2>1, InertLines
<1>7. Judge(j) \in Words /\ Judge(j).k \in Verdicts BY <1>5, Clients
<1>8. Judge(j).k = "COMPLETE" => AllSound BY PlainLines DEF Judge, Verdict
<1> DEFINE a == Line("summary", 0, 0, v)   b == Judge(j)
<1>9. out' = <<a, b>> BY <1>1 DEF v
<1> HIDE DEF j
<1>10. a \in Words /\ b \in Words BY <1>6, <1>7
<1> HIDE DEF a, b
<1>11. out' \in Seq(Words) BY <1>9, <1>10
<1>12. Lines(out') = {a, b} BY <1>9, LinesOfFew
<1>13. \A l \in Lines(out') : l.k \notin Verdicts \cup {"nic", "result"} \/ l.k = Judge(j).k
  BY <1>6, <1>12 DEF a, b, Inert
<1> DEFINE k == Judge(j).k
<1>14. pc \in Between BY <1>1 DEF Between
<1>15. k \in Verdicts /\ (k = "COMPLETE" => AllSound /\ Len(ran) = Len(Queries)) BY <1>3, <1>7, <1>8
<1>16. \A l \in Lines(out') : \/ l.k \notin Verdicts \cup {"nic", "result"}
                              \/ l.k = k \/ l = Line("result", 0, 0, TRUE)
  BY <1>13
<1> HIDE DEF k
<1> QED BY <1>1, <1>11, <1>14, <1>15, <1>16, VerdictInv

\* Nothing more is said: the shutdown, or a machine that stops.
LEMMA EndStep == ASSUME GuestInv, Finally \/ Panic PROVE GuestInv'
<1>1. /\ UNCHANGED <<cfg, turn, ran, nic, verdict, con, noise, machine>>
      /\ pc' \in {"wait", "dead"} /\ (pc \in Late => pc' \in Late) /\ out' \in {<<>>, out}
      /\ timer' \in BOOLEAN
  BY DEF Finally, Panic, At, Goto, Late, GuestInv, GuestOK
<1>2. out' \in Seq(Words) /\ Lines(out') \subseteq Lines(out)
  <2>1. <<>> \in Seq(Words) OBVIOUS
  <2> QED BY <1>1, <2>1, LinesOfFew DEF GuestInv, GuestOK
<1>3. Lines(con)' = Lines(con) /\ Lines(out)' = Lines(out') BY <1>1 DEF Lines
<1>4. Told' \subseteq Told \cup {Garbage} BY <1>2, <1>3 DEF Told
<1>5. GuestOK' BY <1>1, <1>2, GuestOKStep DEF GuestInv, GuestOK, Late
<1>6. Turns' BY <1>1, TurnsStep DEF Early
<1>7. \A l \in Lines(con)' : l.k \in Verdicts => verdict' = l.k
  BY <1>1, <1>3 DEF GuestInv, Judgement
<1>8. CardShown' /\ Judgement' /\ AllRan' /\ OneResult'
  BY <1>1, <1>4, <1>7, ToldStep DEF Early, Late
<1> QED BY <1>5, <1>6, <1>8 DEF GuestInv

\* The machine goes, or nothing does.
LEMMA MachineStep ==
    ASSUME GuestInv, UNCHANGED <<script, con, noise>>,
           UNCHANGED machine \/ (vm' = "gone" /\ reason' # None)
    PROVE  GuestInv'
<1>1. UNCHANGED <<cfg, pc, out, turn, ran, nic, verdict, timer, con, noise>> BY DEF script
<1>2. Lines(con)' = Lines(con) /\ Told' = Told BY <1>1 DEF Lines, Told
<1>3. GuestOK' BY <1>1 DEF GuestInv, GuestOK, machine
<1>4. Turns' BY <1>1 DEF GuestInv, Turns, Queries
<1>5. CardShown' /\ Judgement' /\ AllRan' /\ OneResult'
  BY <1>1, <1>2, ToldStep DEF GuestInv, Judgement
<1> QED BY <1>3, <1>4, <1>5 DEF GuestInv

LEMMA GuestStep1 ==
    ASSUME GuestInv, Script \/ PowerOff \/ Reclaim \/ Panic
    PROVE  /\ GuestInv' /\ Lines(con) \subseteq Lines(con)'
           /\ reason = "spot" => reason' = "spot"
<1>1. CASE Printed BY <1>1, PrintedStep DEF Printed, machine
<1>2. CASE Script /\ ~Printed
  <2>1. GuestInv'
    BY <1>2, StartStep, TuneS3Step, TuneClientStep, TuneNicStep, FetchStep, RunBenchStep,
       RunAnyBlobStep, RunWrkStep, CpuProbeStep, ViewsStep, QueryStep, HttpProfileStep, SummaryStep,
       EndStep
    DEF Script
  <2>2. UNCHANGED <<con, reason>>
    BY <1>2 DEF Script, Start, TuneS3, TuneClient, TuneNic, FetchBinary, FetchAnyBlob, FetchWrk,
       FetchDuckdb, Fetched, RunBench, RunAnyBlob, RunWrk, CpuProbe, SetupViews, FetchAnswers, Query,
       HttpProfile, Summary, Finally, machine
  <2> QED BY <2>1, <2>2 DEF Lines
<1>3. CASE Panic
  <2>1. UNCHANGED <<con, reason>> BY <1>3 DEF Panic, machine
  <2> QED BY <1>3, <2>1, EndStep DEF Lines
<1>4. CASE PowerOff \/ Reclaim
  <2>1. UNCHANGED <<script, con, noise>> /\ vm = "up" /\ vm' = "gone" /\ reason' # None
    BY <1>4 DEF PowerOff, Reclaim, None
  <2>2. reason = None BY <2>1 DEF GuestInv, GuestOK
  <2> QED BY <2>1, <2>2, MachineStep DEF Lines, None
<1> QED BY <1>1, <1>2, <1>3, <1>4

-----------------------------------------------------------------------------
(***************************************************************************)
(* The driver.                                                             *)
(***************************************************************************)
LEMMA OutputIsSaid ==
    ASSUME GuestInv
    PROVE  Output \in Seq(Words) /\ Lines(Output) \subseteq Lines(con)
<1>1. con \in Seq(Words) /\ Len(con) \in Nat /\ cfg.buf \in Nat \ {0}
  <2>1. con \in Seq(Words) /\ cfg.buf \in Nat \ {0} BY Settings DEF GuestInv, GuestOK
  <2> QED BY <2>1
<1>2. CASE vm = "up"
  <2>1. Min2(Len(con), cfg.buf) \in 0..Len(con) BY <1>1 DEF Min2
  <2> DEFINE a == Len(con) - Min2(Len(con), cfg.buf) + 1
  <2>2. a \in Nat \ {0} BY <1>1, <2>1
  <2> HIDE DEF a
  <2>3. SubSeq(con, a, Len(con)) \in Seq(Words) /\ Lines(SubSeq(con, a, Len(con))) \subseteq Lines(con)
    BY <1>1, <2>2, LinesOfPart
  <2> QED BY <1>2, <2>3 DEF Output, a
<1>3. CASE vm # "up"
  <2>1. <<>> \in Seq(Words) OBVIOUS
  <2> QED BY <1>3, <2>1, LinesOfFew DEF Output
<1> QED BY <1>2, <1>3

\* The guest goes on, and what the driver knows stays true.
LEMMA DriverStill ==
    ASSUME DriverOK, UNCHANGED driver, Lines(con) \subseteq Lines(con)',
           reason = "spot" => reason' = "spot"
    PROVE  DriverOK'
BY DEF DriverOK, driver, Judged, Lines

LEMMA PollStep == ASSUME GuestInv, DriverOK, Poll PROVE DriverOK'
<1>1. /\ text' = (IF Longer(Output) THEN Output ELSE text)
      /\ dpc' = IF Judged(text') THEN "finally" ELSE "poll"
      /\ UNCHANGED <<interrupted, con, reason>>
  BY DEF Poll, guest, machine
<1>2. text' \in Seq(Words) /\ Lines(text') \subseteq Lines(con) BY <1>1, OutputIsSaid DEF DriverOK
<1>3. Judged(text)' = Judged(text') /\ Lines(text)' = Lines(text') /\ Lines(con)' = Lines(con)
  BY <1>1 DEF Judged, Lines
<1> QED BY <1>1, <1>2, <1>3 DEF DriverOK

\* The loop is over, for better or worse.
LEMMA LeaveStep ==
    ASSUME GuestInv, DriverOK, Deadline \/ Interrupt \/ Killed
    PROVE  DriverOK'
<1>1. /\ dpc' \in {"finally", "unwind", "dead"} /\ text' \in {<<>>, text}
      /\ UNCHANGED <<interrupted, con, reason>>
  BY DEF Deadline, Interrupt, Killed, guest, machine
<1>2. text' \in Seq(Words) /\ Lines(text') \subseteq Lines(con)
  <2>1. <<>> \in Seq(Words) OBVIOUS
  <2> QED BY <1>1, <2>1, LinesOfFew DEF DriverOK
<1>3. Lines(text)' = Lines(text') /\ Lines(con)' = Lines(con) BY <1>1 DEF Lines
<1> QED BY <1>1, <1>2, <1>3 DEF DriverOK

\* The machine is ended after it was asked whether EC2 took it.
LEMMA EndMachineStep ==
    ASSUME GuestInv, DriverOK, Return \/ Unwind
    PROVE  GuestInv' /\ DriverOK'
<1>1. /\ dpc' \in {"over", "dead"} /\ UNCHANGED <<text, script, con, noise>>
      /\ interrupted' \in {reason = "spot", FALSE}
      /\ \/ vm' = "gone" /\ reason' = IF vm = "up" THEN "user" ELSE reason
         \/ UNCHANGED machine
  BY DEF Return, Unwind, EndMachine
<1>2. vm = "up" <=> reason = None BY DEF GuestInv, GuestOK
<1>3. vm' = "gone" /\ reason' = (IF vm = "up" THEN "user" ELSE reason) => reason' # None
  BY <1>2 DEF None
<1>4. GuestInv' BY <1>1, <1>3, MachineStep
<1>5. reason = "spot" => reason' = "spot" BY <1>1, <1>2 DEF machine, None
<1>6. Lines(text)' = Lines(text) /\ Lines(con)' = Lines(con) BY <1>1 DEF Lines
<1>7. DriverOK' BY <1>1, <1>5, <1>6 DEF DriverOK
<1> QED BY <1>4, <1>7

LEMMA InitIInv == Init => IInv
<1> SUFFICES ASSUME Init PROVE IInv OBVIOUS
<1> USE DEF Init, GuestInit
<1>1. <<>> \in Seq(Words) /\ <<>> \in Seq(Run) OBVIOUS
<1>2. con \in Seq(Words) /\ Lines(con) = {Kernel} /\ Lines(out) = {} /\ Lines(text) = {}
  <2>1. Kernel \in Words BY Said
  <2> QED BY <2>1, LinesOfFew
<1>3. Inert(Kernel)
  <2>1. "kernel" \in Kinds \ (Verdicts \cup {"nic", "result"}) BY DEF Kinds, Verdicts
  <2> QED BY <2>1, InertLines, Said DEF Kernel
<1>4. GuestOK
  <2>1. nic \in Card BY DEF Card, Channels
  <2>2. noise \in 0..cfg.noise
    <3>1. cfg.noise \in Nat /\ noise = 0 BY Settings
    <3> QED BY <3>1
  <2>3. pc = "start" /\ verdict = None /\ turn = 1 /\ vm = "up" /\ reason = None /\ timer = FALSE
        /\ cfg \in Configs /\ out = <<>> /\ ran = <<>>
    OBVIOUS
  <2> HIDE DEF Init, GuestInit
  <2>4. turn \in Nat \ {0} /\ out \in Seq(Words) /\ ran \in Seq(Run) BY <1>1, <2>3
  <2>5. pc \in Early /\ timer \in BOOLEAN /\ vm \in {"up", "gone"} BY <2>3 DEF Early
  <2> QED BY <1>2, <2>1, <2>2, <2>3, <2>4, <2>5 DEF GuestOK
<1>5. Turns
  <2>1. Len(Queries) \in Nat BY Settings DEF Queries
  <2>2. Len(ran) = 0 OBVIOUS
  <2> QED BY <2>1, <2>2 DEF Turns
<1>6. Told = {Kernel} BY <1>2 DEF Told
<1>7. CardShown /\ Judgement /\ AllRan /\ OneResult
  BY <1>2, <1>3, <1>6 DEF CardShown, Judgement, AllRan, OneResult, Inert, Verdicts
<1>8. DriverOK
  <2>1. ~Judged(text) BY DEF Judged
  <2> QED BY <1>1, <1>2, <2>1 DEF DriverOK
<1> QED BY <1>4, <1>5, <1>7, <1>8 DEF IInv, GuestInv

LEMMA StepIInv == ASSUME IInv, [Next]_vars PROVE IInv'
<1>1. GuestInv /\ DriverOK BY DEF IInv
<1>2. CASE GuestStep BY <1>1, <1>2, GuestStep1, DriverStill DEF GuestStep, IInv
<1>3. CASE Poll \/ Deadline \/ Interrupt \/ Killed
  <2>1. UNCHANGED guest BY <1>3 DEF Poll, Deadline, Interrupt, Killed
  <2>2. GuestInv' BY <1>1, <2>1, MachineStep DEF guest
  <2> QED BY <1>1, <1>3, <2>2, PollStep, LeaveStep DEF IInv
<1>4. CASE Return \/ Unwind BY <1>1, <1>4, EndMachineStep DEF IInv
<1>5. CASE UNCHANGED vars
  <2>1. UNCHANGED guest /\ UNCHANGED driver BY <1>5 DEF vars
  <2>2. GuestInv' BY <1>1, <2>1, MachineStep DEF guest
  <2>3. UNCHANGED <<con, reason>> BY <2>1 DEF guest, machine
  <2>4. DriverOK' BY <1>1, <2>1, <2>3, DriverStill DEF Lines
  <2> QED BY <2>2, <2>4 DEF IInv
<1> QED BY <1>2, <1>3, <1>4, <1>5 DEF Next, Driver, Ended

\* IInv is inductive.
THEOREM Inductive == Spec => []IInv
BY InitIInv, StepIInv, PTL DEF Spec

\* Every variable keeps its type, for every configuration: the loop stays within its queries,
\* the driver leaves its own on the first verdict, and says "interrupted" only of a machine
\* that EC2 took.
THEOREM TypeCorrect == Spec => []TypeOK
<1>1. IInv => TypeOK
  <2> SUFFICES ASSUME IInv PROVE TypeOK OBVIOUS
  <2>1. nic \in [gro : {"on", "off"}, queues : Channels] BY DEF IInv, GuestInv, GuestOK, Card
  <2>2. pc \in {"start", "tune", "fetch", "bench", "probe", "views", "answers", "query", "profile",
               "finally", "wait", "hung", "dead"}
    BY DEF IInv, GuestInv, GuestOK, Early, Between, Late
  <2> QED BY <2>1, <2>2 DEF TypeOK, IInv, GuestInv, GuestOK, Turns, DriverOK
<1> QED BY <1>1, Inductive, PTL

-----------------------------------------------------------------------------
(***************************************************************************)
(* The rows.                                                               *)
(***************************************************************************)
\* The positions of a set are ranked without a gap, so InOrder lists them all.
LEMMA Ranked ==
    ASSUME NEW N \in Nat, NEW S \in SUBSET (1..N)
    PROVE  /\ Cardinality(S) \in Nat /\ (S # {} => Cardinality(S) > 0)
           /\ \A i \in S : Cardinality({j \in S : j <= i}) \in 1..Cardinality(S)
           /\ \A i, k \in S : i < k =>
                  Cardinality({j \in S : j <= i}) < Cardinality({j \in S : j <= k})
           /\ \A n \in 1..Cardinality(S) :
                  \E i \in S : Cardinality({j \in S : j <= i}) = n
<1> DEFINE R(i) == {j \in S : j <= i}
           c == Cardinality(S)
           rank == [i \in S |-> Cardinality(R(i))]
<1>1. IsFiniteSet(S)
  <2>1. IsFiniteSet(1..N) BY FS_Interval
  <2> QED BY <2>1, FS_Subset
<1>2. c \in Nat /\ (S # {} => c > 0) BY <1>1, FS_CardinalityType, FS_EmptySet
<1>3. ASSUME NEW i \in S
      PROVE  IsFiniteSet(R(i)) /\ Cardinality(R(i)) \in 1..c
  <2>1. R(i) \in SUBSET S OBVIOUS
  <2>2. IsFiniteSet(R(i)) /\ Cardinality(R(i)) <= c BY <1>1, <2>1, FS_Subset
  <2>3. i \in R(i) OBVIOUS
  <2>4. Cardinality(R(i)) \in Nat /\ Cardinality(R(i)) # 0
    BY <2>2, <2>3, FS_CardinalityType, FS_EmptySet
  <2> HIDE DEF R, c
  <2> QED BY <1>2, <2>2, <2>4
<1>4. ASSUME NEW i \in S, NEW k \in S, i < k
      PROVE  Cardinality(R(i)) < Cardinality(R(k))
  <2>1. R(i) \in SUBSET R(k)
    <3> SUFFICES ASSUME NEW j \in S, j <= i PROVE j <= k OBVIOUS
    <3>1. i \in Nat /\ j \in Nat /\ k \in Nat OBVIOUS
    <3> QED BY <1>4, <3>1
  <2>2. k \in R(k) /\ k \notin R(i) BY <1>4
  <2>3. IsFiniteSet(R(k)) /\ Cardinality(R(i)) \in 1..c /\ Cardinality(R(k)) \in 1..c BY <1>3
  <2> HIDE DEF R, c
  <2>4. Cardinality(R(i)) <= Cardinality(R(k)) /\ Cardinality(R(k)) # Cardinality(R(i))
    BY <2>1, <2>2, <2>3, FS_Subset
  <2> QED BY <1>2, <2>3, <2>4
<1>5. rank \in [S -> 1..c] BY <1>3
<1>6. ASSUME NEW i \in S, NEW k \in S, rank[i] = rank[k] PROVE i = k
  <2>1. Cardinality(R(i)) = Cardinality(R(k)) BY <1>6
  <2>2. Cardinality(R(i)) \in 1..c BY <1>3
  <2> HIDE DEF R, c, rank
  <2>3. ~(i < k) /\ ~(k < i) BY <1>2, <1>4, <2>1, <2>2
  <2> QED BY <2>3
<1>7. rank \in Injection(S, 1..c)
  <2> HIDE DEF rank, c, R
  <2> QED BY <1>5, <1>6 DEF Injection, IsInjective
<1>8. IsFiniteSet(1..c) /\ Cardinality(1..c) = c
  <2> HIDE DEF c
  <2> QED BY <1>2, FS_Interval
<1>9. rank \in Surjection(S, 1..c)
  <2> HIDE DEF rank
  <2> QED BY <1>7, <1>8, FS_Injection
<1>10. \A n \in 1..c : \E i \in S : Cardinality(R(i)) = n
  <2> SUFFICES ASSUME NEW n \in 1..c PROVE \E i \in S : Cardinality(R(i)) = n OBVIOUS
  <2>1. PICK i \in S : rank[i] = n
    <3> HIDE DEF rank, c
    <3> QED BY <1>9 DEF Surjection
  <2> QED BY <2>1
<1> QED BY <1>2, <1>3, <1>4, <1>10

\* A set of positions in order: all of them, each once, ascending.
LEMMA Listed ==
    ASSUME NEW N \in Nat, NEW S \in SUBSET (1..N)
    PROVE  /\ Len(InOrder(S)) = Cardinality(S) /\ Cardinality(S) \in Nat
           /\ \A n \in 1..Cardinality(S) :
                  InOrder(S)[n] \in S /\ Cardinality({j \in S : j <= InOrder(S)[n]}) = n
           /\ \A m, n \in 1..Cardinality(S) : m < n => InOrder(S)[m] < InOrder(S)[n]
           /\ \A i \in S : \E n \in 1..Cardinality(S) : InOrder(S)[n] = i
<1> DEFINE rank(i) == Cardinality({j \in S : j <= i})
           c == Cardinality(S)
<1>1. /\ c \in Nat
      /\ \A i \in S : rank(i) \in 1..c
      /\ \A i, k \in S : i < k => rank(i) < rank(k)
      /\ \A n \in 1..c : \E i \in S : rank(i) = n
  BY Ranked
<1>2. InOrder(S) = [n \in 1..c |-> CHOOSE i \in S : rank(i) = n] BY DEF InOrder
<1>3. S \subseteq Nat OBVIOUS
<1> HIDE DEF rank, c
<1>4. Len(InOrder(S)) = c BY <1>1, <1>2
<1>5. ASSUME NEW n \in 1..c PROVE InOrder(S)[n] \in S /\ rank(InOrder(S)[n]) = n
  BY <1>1, <1>2
<1>6. ASSUME NEW m \in 1..c, NEW n \in 1..c, m < n PROVE InOrder(S)[m] < InOrder(S)[n]
  <2> DEFINE a == InOrder(S)[m]
             b == InOrder(S)[n]
  <2>1. a \in S /\ b \in S /\ rank(a) = m /\ rank(b) = n BY <1>5
  <2> HIDE DEF a, b
  <2>2. a \in Nat /\ b \in Nat BY <1>3, <2>1
  <2>3. ~(b < a) /\ a # b BY <1>1, <1>6, <2>1
  <2>4. a < b BY <2>2, <2>3
  <2> QED BY <2>4 DEF a, b
<1>7. ASSUME NEW i \in S PROVE \E n \in 1..c : InOrder(S)[n] = i
  <2> DEFINE n == rank(i)
  <2>1. n \in 1..c BY <1>1
  <2>2. InOrder(S)[n] \in S /\ rank(InOrder(S)[n]) = n BY <1>5, <2>1
  <2> DEFINE a == InOrder(S)[n]
  <2>3. a \in S /\ rank(a) = rank(i) BY <2>2
  <2>4. n \in Nat /\ a \in Nat /\ i \in Nat
    <3>1. n \in Nat
      <4> HIDE DEF n
      <4> QED BY <1>1, <2>1
    <3> HIDE DEF a, n
    <3> QED BY <1>3, <2>3, <3>1
  <2> HIDE DEF a, n
  <2>5. ~(a < i) /\ ~(i < a)
    <3>1. a < i => rank(a) < rank(i) BY <1>1, <2>3
    <3>2. i < a => rank(i) < rank(a) BY <1>1, <2>3
    <3>3. rank(i) \in Nat BY <2>4 DEF n
    <3> QED BY <2>3, <3>1, <3>2, <3>3
  <2>6. a = i BY <2>4, <2>5
  <2> QED BY <2>1, <2>6 DEF a
<1>8. /\ Len(InOrder(S)) = Cardinality(S) /\ Cardinality(S) \in Nat
  BY <1>1, <1>4 DEF c
<1> QED BY <1>5, <1>6, <1>7, <1>8 DEF rank, c

\* First finds the first, or nothing.
LEMMA FirstFound ==
    ASSUME NEW s \in Seq(Words), NEW K
    PROVE  \/ First(s, K) = Line("nothing", 0, 0, None) /\ \A i \in 1..Len(s) : s[i].k \notin K
           \/ First(s, K) \in Lines(s) /\ First(s, K).k \in K
<1> DEFINE found == {i \in 1..Len(s) : s[i].k \in K}
           at == CHOOSE i \in found : \A j \in found : i <= j
<1>1. CASE found = {} BY <1>1 DEF First
<1>2. CASE found # {}
  <2>1. Len(s) \in Nat /\ found \in SUBSET (1..Len(s)) OBVIOUS
  <2>2. \E i \in found : \A j \in found : i <= j
    <3>1. /\ Cardinality(found) \in Nat /\ Cardinality(found) > 0
          /\ \A i \in found : Cardinality({j \in found : j <= i}) \in 1..Cardinality(found)
          /\ \A i, k \in found : i < k =>
                 Cardinality({j \in found : j <= i}) < Cardinality({j \in found : j <= k})
          /\ \A n \in 1..Cardinality(found) :
                 \E i \in found : Cardinality({j \in found : j <= i}) = n
      <4> HIDE DEF found
      <4> QED BY <1>2, <2>1, Ranked
    <3> DEFINE rank(i) == Cardinality({j \in found : j <= i})
    <3>2. found \subseteq Nat BY <2>1
    <3> HIDE DEF found
    <3>3. 1 \in 1..Cardinality(found) BY <3>1
    <3>4. PICK i \in found : rank(i) = 1 BY <3>1, <3>3
    <3>5. \A j \in found : j < i => rank(j) < rank(i) BY <3>1
    <3>6. \A j \in found : rank(j) \in 1..Cardinality(found) BY <3>1
    <3> HIDE DEF rank
    <3>7. \A j \in found : i <= j BY <3>2, <3>4, <3>5, <3>6
    <3> QED BY <3>7
  <2> HIDE DEF found
  <2>3. at \in found BY <2>2
  <2> HIDE DEF at
  <2>4. First(s, K) = s[at] BY <1>2 DEF First, found, at
  <2> QED BY <2>3, <2>4 DEF found, Lines
<1> QED BY <1>1, <1>2

\* What a row knows of the card, a line about the card said.
LEMMA Parsed ==
    ASSUME NEW s \in Seq(Words)
    PROVE  /\ Parse(s).complete = Complete
           /\ \/ Parse(s).gro = None
              \/ \E l \in Lines(s) : l.k = "nic" /\ Parse(s).gro = l.v.gro
           /\ \/ Parse(s).queues = 0
              \/ \E l \in Lines(s) : l.k = "nic" /\ Parse(s).queues = l.v.queues
<1> DEFINE card == First(s, {"nic"})
<1>1. card.k = "nic" => card \in Lines(s)
  <2>1. card = Line("nothing", 0, 0, None) => card.k = "nothing" BY DEF Line
  <2>2. card = Line("nothing", 0, 0, None) \/ card \in Lines(s) BY FirstFound
  <2> HIDE DEF card
  <2> QED BY <2>1, <2>2
<1>2. /\ Parse(s).complete = Complete
      /\ Parse(s).gro = IF card.k = "nic" THEN card.v.gro ELSE None
      /\ Parse(s).queues = IF card.k = "nic" THEN card.v.queues ELSE 0
  BY DEF Parse
<1> HIDE DEF card
<1> QED BY <1>1, <1>2

LEMMA HeadsOfText ==
    ASSUME NEW s \in Seq(Words)
    PROVE  /\ Len(Heads(s)) \in Nat
           /\ \A i \in 1..Len(Heads(s)) : Heads(s)[i] \in 1..Len(s)
           /\ \A i, j \in 1..Len(Heads(s)) : i < j => Heads(s)[i] < Heads(s)[j]
<1> DEFINE raw == HeadsAt(s)
           previous(i) == {j \in raw : j < i /\ \A k \in raw : ~(j < k /\ k < i)}
           T == {i \in raw : \A j \in previous(i) : ~SameLine(s[i], s[j])}
<1>1. Heads(s) = InOrder(T) BY DEF Heads
<1>2. T \in SUBSET (1..Len(s)) BY DEF HeadsAt
<1>3. Len(s) \in Nat OBVIOUS
<1> HIDE DEF T
<1>4. /\ Len(InOrder(T)) = Cardinality(T) /\ Cardinality(T) \in Nat
      /\ \A n \in 1..Cardinality(T) : InOrder(T)[n] \in T
      /\ \A m, n \in 1..Cardinality(T) : m < n => InOrder(T)[m] < InOrder(T)[n]
  BY <1>2, <1>3, Listed
<1> QED BY <1>1, <1>2, <1>4

\* The fields that finish leaves as they are.
LEMMA Finished ==
    ASSUME NEW r, {"complete", "gro", "queues"} \subseteq DOMAIN r
    PROVE  /\ Finish(r).complete = r.complete /\ Finish(r).gro = r.gro
           /\ Finish(r).queues = r.queues
BY DEF Finish

\* A query's slice, with what was said of the card before the first.
LEMMA RowOf ==
    ASSUME text \in Seq(Words), NEW i \in 1..Len(QueryRows)
    PROVE  /\ QueryRows[i].complete = Complete
           /\ \/ QueryRows[i].gro = None
              \/ \E l \in Lines(text) : l.k = "nic" /\ QueryRows[i].gro = l.v.gro
           /\ \/ QueryRows[i].queues = 0
              \/ \E l \in Lines(text) : l.k = "nic" /\ QueryRows[i].queues = l.v.queues
<1> DEFINE h == Heads(text)
           wide == Parse(text)
           end(n) == IF n < Len(h) THEN h[n + 1] - 1 ELSE Len(text)
           slice(n) == SubSeq(text, h[n], end(n))
           part(n) == Parse(slice(n))
           cut(n) == [part(n) EXCEPT !.q = text[h[n]].q, !.seq = n,
                          !.gro = IF @ = None THEN wide.gro ELSE @,
                          !.queues = IF @ = 0 THEN wide.queues ELSE @,
                          !.nicfail = @ \/ wide.nicfail]
<1>1. QueryRows = IF Len(h) <= 1 THEN <<Finish(wide)>> ELSE [n \in 1..Len(h) |-> Finish(cut(n))]
  BY DEF QueryRows
<1>2. /\ Len(h) \in Nat /\ \A n \in 1..Len(h) : h[n] \in 1..Len(text)
      /\ Len(text) \in Nat
  BY HeadsOfText
<1>3. /\ wide.complete = Complete
      /\ wide.gro = None \/ \E l \in Lines(text) : l.k = "nic" /\ wide.gro = l.v.gro
      /\ wide.queues = 0 \/ \E l \in Lines(text) : l.k = "nic" /\ wide.queues = l.v.queues
  BY Parsed
<1>4. CASE Len(h) <= 1
  <2>1. QueryRows = <<Finish(wide)>> BY <1>1, <1>4
  <2>3. {"complete", "gro", "queues"} \subseteq DOMAIN wide BY DEF Parse
  <2> HIDE DEF wide
  <2>2. QueryRows[i] = Finish(wide)
    <3>1. i = 1 BY <2>1
    <3> QED BY <2>1, <3>1
  <2> QED BY <1>3, <2>2, <2>3, Finished
<1>5. CASE ~(Len(h) <= 1)
  <2> DEFINE P == part(i)
             C == cut(i)
  <2>1. i \in 1..Len(h) /\ QueryRows[i] = Finish(C)
    <3> HIDE DEF cut, h
    <3>1. QueryRows = [n \in 1..Len(h) |-> Finish(cut(n))] BY <1>1, <1>5
    <3>2. Len(QueryRows) = Len(h) BY <1>2, <3>1
    <3> QED BY <3>1, <3>2
  <2>2. Lines(slice(i)) \subseteq Lines(text) /\ slice(i) \in Seq(Words)
    <3> DEFINE e == end(i)
    <3>1. h[i] \in Nat \ {0} BY <1>2, <2>1
    <3>2. e \in Nat /\ e <= Len(text)
      <4>1. CASE i < Len(h)
        <5> HIDE DEF h
        <5>1. i + 1 \in 1..Len(h) BY <1>2, <2>1, <4>1
        <5>2. h[i + 1] \in 1..Len(text) BY <1>2, <5>1
        <5>3. e = h[i + 1] - 1 BY <4>1
        <5> HIDE DEF e
        <5> QED BY <1>2, <5>2, <5>3
      <4>2. CASE ~(i < Len(h)) BY <1>2, <4>2
      <4> QED BY <4>1, <4>2
    <3> HIDE DEF e, h
    <3>3. /\ SubSeq(text, h[i], e) \in Seq(Words)
          /\ Lines(SubSeq(text, h[i], e)) \subseteq Lines(text)
      BY <3>1, <3>2, LinesOfPart
    <3> QED BY <3>3 DEF e
  <2>3. /\ P.complete = Complete
        /\ P.gro = None \/ \E l \in Lines(slice(i)) : l.k = "nic" /\ P.gro = l.v.gro
        /\ P.queues = 0 \/ \E l \in Lines(slice(i)) : l.k = "nic" /\ P.queues = l.v.queues
    <3> HIDE DEF slice
    <3> QED BY <2>2, Parsed
  <2>4. /\ C.complete = P.complete
        /\ C.gro = IF P.gro = None THEN wide.gro ELSE P.gro
        /\ C.queues = IF P.queues = 0 THEN wide.queues ELSE P.queues
        /\ {"complete", "gro", "queues"} \subseteq DOMAIN C
    <3>1. "gro" \in DOMAIN P /\ "queues" \in DOMAIN P /\ "complete" \in DOMAIN P
      BY DEF Parse
    <3>2. C = [P EXCEPT !.q = text[h[i]].q, !.seq = i,
                        !.gro = IF @ = None THEN wide.gro ELSE @,
                        !.queues = IF @ = 0 THEN wide.queues ELSE @,
                        !.nicfail = @ \/ wide.nicfail]
      OBVIOUS
    <3> HIDE DEF P, C, wide, h
    <3> QED BY <3>1, <3>2
  <2>5. /\ QueryRows[i].complete = C.complete /\ QueryRows[i].gro = C.gro
        /\ QueryRows[i].queues = C.queues
    <3> HIDE DEF C
    <3> QED BY <2>1, <2>4, Finished
  <2> HIDE DEF P, C, wide, slice
  <2>6. QueryRows[i].complete = Complete BY <2>3, <2>4, <2>5
  <2>7. QueryRows[i].gro = None
        \/ \E l \in Lines(text) : l.k = "nic" /\ QueryRows[i].gro = l.v.gro
    BY <1>3, <2>2, <2>3, <2>4, <2>5
  <2>8. QueryRows[i].queues = 0
        \/ \E l \in Lines(text) : l.k = "nic" /\ QueryRows[i].queues = l.v.queues
    BY <1>3, <2>2, <2>3, <2>4, <2>5
  <2> QED BY <2>6, <2>7, <2>8
<1> QED BY <1>4, <1>5

\* A kept row is one that the arm's valid lets through, of a run that says it is complete.
LEMMA KeptRow ==
    ASSUME IInv, NEW i \in Kept
    PROVE  /\ Complete
           /\ IsDuckdb => i \in 1..Len(QueryRows) /\ ValidDuckdb(QueryRows[i])
           /\ cfg.arm \in {"linux-s3", "anyblob"} => ClientRow.clean = "yes"
<1>1. i \in 1..Len(rows) /\ Valid(rows[i]) BY DEF Kept
<1>2. text \in Seq(Words) BY DEF IInv, DriverOK
<1>3. cfg.arm \in {"linux-s3", "anyblob", "linux-http", "duckdb"}
  BY Settings DEF IInv, GuestInv, GuestOK
<1>4. rows = IF IsDuckdb THEN QueryRows ELSE <<ClientRow>>
  <2>1. Len(<<>>) = 0 OBVIOUS
  <2>2. dpc = "over" BY <1>1, <2>1 DEF rows
  <2> QED BY <2>2 DEF rows
<1>5. CASE IsDuckdb
  <2>1. cfg.arm = "duckdb" /\ rows = QueryRows BY <1>4, <1>5 DEF IsDuckdb
  <2>2. i \in 1..Len(QueryRows) /\ ValidDuckdb(QueryRows[i])
    BY <1>1, <2>1, <1>5 DEF Valid
  <2>3. QueryRows[i].complete = Complete BY <1>2, <2>2, RowOf
  <2>4. Complete BY <2>2, <2>3 DEF ValidDuckdb
  <2> QED BY <2>1, <2>2, <2>4
<1>6. CASE ~IsDuckdb
  <2>1. rows[i] = ClientRow
    <3>1. rows = <<ClientRow>> BY <1>4, <1>6
    <3> HIDE DEF rows
    <3>2. i = 1 BY <1>1, <3>1
    <3> QED BY <3>1, <3>2
  <2>2. Valid(ClientRow) BY <1>1, <2>1
  <2>3. ClientRow.complete = Complete BY DEF ClientRow
  <2>4. cfg.arm # "duckdb" BY <1>6 DEF IsDuckdb
  <2>5. CASE cfg.arm = "linux-http"
    BY <1>6, <2>2, <2>3, <2>5 DEF Valid, ValidWrk
  <2>6. CASE cfg.arm = "anyblob"
    BY <1>6, <2>2, <2>3, <2>6 DEF Valid, ValidAnyBlob, ValidClient
  <2>7. CASE cfg.arm = "linux-s3"
    BY <1>6, <2>2, <2>3, <2>7 DEF Valid, ValidClient
  <2> QED BY <1>3, <1>6, <2>4, <2>5, <2>6, <2>7
<1> QED BY <1>5, <1>6

\* A row of a tuned DuckDB run is kept only if the card was as asked: valid compares it with
\* what a console line said of the card, tune_nic says that line after it has set the card,
\* and nothing sets it again.
THEOREM KeptIsTuned == Spec => []ValidMeansTuned
<1>1. ASSUME IInv PROVE ValidMeansTuned
  <2> SUFFICES ASSUME IsDuckdb, ~cfg.probe, NEW i \in Kept PROVE Tuned
    BY DEF ValidMeansTuned
  <2> DEFINE r == QueryRows[i]
  <2>1. i \in 1..Len(QueryRows) /\ ValidDuckdb(r) BY <1>1, KeptRow
  <2>2. text \in Seq(Words) /\ Lines(text) \subseteq Lines(con) BY <1>1 DEF IInv, DriverOK
  <2>3. /\ r.gro = None \/ \E l \in Lines(text) : l.k = "nic" /\ r.gro = l.v.gro
        /\ r.queues = 0 \/ \E l \in Lines(text) : l.k = "nic" /\ r.queues = l.v.queues
    BY <2>1, <2>2, RowOf
  <2> HIDE DEF r
  <2>4. \A l \in Lines(text) : l.k = "nic" => l.v = nic \/ l.v = Unsaid
    BY <1>1, <2>2 DEF IInv, GuestInv, CardShown, Told
  <2>5. Unsaid.gro = "?" /\ Unsaid.queues = 0 BY DEF Unsaid
  <2>6. cfg.gro \in {"", "on", "off"} /\ cfg.queues \in {0} \cup Channels
    BY <1>1, Settings DEF IInv, GuestInv, GuestOK
  <2>7. /\ cfg.gro # "" => r.gro = cfg.gro
        /\ cfg.queues > 0 => r.queues = cfg.queues
    BY <2>1 DEF ValidDuckdb
  <2>8. cfg.gro # "" => nic.gro = cfg.gro
    <3>1. cfg.gro # "" => cfg.gro # None /\ cfg.gro # "?" BY <2>6 DEF None
    <3> QED BY <2>3, <2>4, <2>5, <2>7, <3>1
  <2>9. cfg.queues > 0 => nic.queues = cfg.queues
    <3> SUFFICES ASSUME cfg.queues > 0 PROVE nic.queues = cfg.queues OBVIOUS
    <3>1. r.queues = cfg.queues /\ r.queues # 0
      <4>1. \A n \in {0} \cup Channels : n > 0 => n # 0 BY DEF Channels
      <4>2. cfg.queues # 0 BY <2>6, <4>1
      <4> QED BY <2>7, <4>2
    <3>2. PICK l \in Lines(text) : l.k = "nic" /\ r.queues = l.v.queues BY <2>3, <3>1
    <3>3. l.v = nic \/ l.v = Unsaid BY <2>4, <3>2
    <3> QED BY <2>5, <3>1, <3>2, <3>3
  <2> QED BY <2>8, <2>9 DEF Tuned
<1> QED BY <1>1, Inductive, PTL

\* A kept row is of a run that its guest judged good: the one verdict it gave was COMPLETE,
\* which for DuckDB it says when every query ran and compared, and which a throughput client
\* says beside a result that is clean.
THEOREM KeptIsMeasured == Spec => []ValidMeansMeasured
<1>1. ASSUME IInv PROVE ValidMeansMeasured
  <2> SUFFICES ASSUME NEW i \in Kept
               PROVE  /\ verdict = "COMPLETE"
                      /\ IsDuckdb /\ ~cfg.probe => AllSound /\ Len(ran) = Len(Queries)
                      /\ cfg.arm \in {"linux-s3", "anyblob"} =>
                            Has(con, "result") /\ First(con, {"result"}).v
    BY DEF ValidMeansMeasured
  <2>1. /\ Complete
        /\ cfg.arm \in {"linux-s3", "anyblob"} => ClientRow.clean = "yes"
    BY <1>1, KeptRow
  <2>2. /\ text \in Seq(Words) /\ con \in Seq(Words) /\ Lines(text) \subseteq Lines(con)
    BY <1>1 DEF IInv, GuestInv, GuestOK, DriverOK
  <2>3. PICK l \in Lines(text) : l.k = "COMPLETE"
    <3>1. PICK n \in 1..Len(text) : text[n].k = "COMPLETE" BY <2>1 DEF Complete, Has
    <3>2. text[n] \in Lines(text) BY DEF Lines
    <3> QED BY <3>1, <3>2
  <2>4. l \in Lines(con) /\ l \in Told BY <2>2 DEF Told
  <2>5. verdict = "COMPLETE" BY <1>1, <2>3, <2>4 DEF IInv, GuestInv, Judgement, Verdicts
  <2>6. IsDuckdb /\ ~cfg.probe => AllSound /\ Len(ran) = Len(Queries)
    BY <1>1, <2>3, <2>4 DEF IInv, GuestInv, AllRan
  <2>7. ASSUME cfg.arm \in {"linux-s3", "anyblob"}
        PROVE  Has(con, "result") /\ First(con, {"result"}).v
    <3> DEFINE a == First(text, {"result"})
               b == First(con, {"result"})
    <3>1. Has(text, "result") /\ (IF a.v THEN "yes" ELSE "no") = "yes"
      <4>1. ClientRow.clean = "yes"
        <5> HIDE DEF a, b
        <5> QED BY <2>1, <2>7
      <4>2. ClientRow.clean = IF Has(text, "result") THEN IF a.v THEN "yes" ELSE "no" ELSE None
        BY DEF ClientRow
      <4>3. None # "yes" BY DEF None
      <4> QED BY <4>1, <4>2, <4>3
    <3>2. a.v
      <4>1. "no" # "yes" OBVIOUS
      <4> QED BY <3>1, <4>1
    <3>3. PICK m \in Lines(text) : m.k = "result" BY <3>1 DEF Has, Lines
    <3>4. Has(con, "result") BY <2>2, <3>3 DEF Has, Lines
    <3>5. a \in Lines(text) /\ a.k = "result"
      <4>1. \/ a = Line("nothing", 0, 0, None) /\ \A n \in 1..Len(text) : text[n].k \notin {"result"}
            \/ a \in Lines(text) /\ a.k \in {"result"}
        BY <2>2, FirstFound
      <4> HIDE DEF a
      <4> QED BY <3>1, <4>1 DEF Has
    <3>6. b \in Lines(con) /\ b.k = "result"
      <4>1. \/ b = Line("nothing", 0, 0, None) /\ \A n \in 1..Len(con) : con[n].k \notin {"result"}
            \/ b \in Lines(con) /\ b.k \in {"result"}
        BY <2>2, FirstFound
      <4> HIDE DEF b
      <4> QED BY <3>4, <4>1 DEF Has
    <3> HIDE DEF a, b
    <3>7. a \in Told /\ b \in Told BY <2>2, <3>5, <3>6 DEF Told
    <3>8. a.v = b.v BY <1>1, <3>5, <3>6, <3>7 DEF IInv, GuestInv, OneResult
    <3>9. b.v BY <3>2, <3>8
    <3> QED BY <3>4, <3>9 DEF b
  <2> QED BY <2>5, <2>6, <2>7
<1> QED BY <1>1, Inductive, PTL

-----------------------------------------------------------------------------
(***************************************************************************)
(* The story that a console tells of several queries.                      *)
(***************************************************************************)
\* What a line about a turn is, and that it may stand before another.
OfTurn(l) == IsHead(l) \/ l.k \in {"stats", "phase"}
InPlace(l, m) == l.t < m.t \/ (l.t = m.t /\ (IsHead(m) => IsHead(l)))

Ordered(s) == \A i, j \in 1..Len(s) :
    i < j /\ OfTurn(s[i]) /\ OfTurn(s[j]) => InPlace(s[i], s[j])
Follows(s, u) == \A l \in Lines(s), m \in Lines(u) : OfTurn(l) /\ OfTurn(m) => InPlace(l, m)

\* What the guest says of the i-th query that it ran.
HeadOf(i) ==
    IF ran[i].ms = 0 THEN Line("fail", ran[i].q, i, None)
                     ELSE Line("ms", ran[i].q, i, [ms |-> ran[i].ms, match |-> ran[i].match])

RanRight == \A i \in 1..Len(ran) :
    /\ ran[i].ms = 0 => ran[i].match = None
    /\ ran[i].sound => ran[i].ms # 0 /\ ran[i].match # "no"
TurnsSaid == \A l \in Told :
    /\ OfTurn(l) => l.t \in 1..Len(ran)
    /\ IsHead(l) => l = HeadOf(l.t)
    /\ l.k = "summary" => l.v.total = Len(Queries)
OneCard == \A l, m \in Told : l.k = "nic" /\ m.k = "nic" => l.v = m.v
InTurn == Ordered(con) /\ Ordered(out) /\ Follows(con, out)

ManyTurns == IsDuckdb /\ ~cfg.probe
GuestStory == RanRight /\ TurnsSaid /\ OneCard /\ InTurn
Story == ManyTurns => GuestStory /\ Ordered(text)

LEMMA OrderedFew ==
    /\ Ordered(<<>>) /\ \A a : Ordered(<<a>>)
    /\ \A a, b : InPlace(a, b) \/ ~OfTurn(a) \/ ~OfTurn(b) => Ordered(<<a, b>>)
    /\ \A a : InPlace(a, a)
    /\ \A s : Follows(s, <<>>)
<1>1. \A a : InPlace(a, a) BY DEF InPlace
<1>2. Ordered(<<>>) BY DEF Ordered
<1>3. ASSUME NEW a PROVE Ordered(<<a>>)
  <2>1. Len(<<a>>) = 1 OBVIOUS
  <2>2. \A i, j \in 1..1 : ~(i < j) OBVIOUS
  <2> QED BY <2>1, <2>2 DEF Ordered
<1>4. ASSUME NEW a, NEW b, InPlace(a, b) \/ ~OfTurn(a) \/ ~OfTurn(b) PROVE Ordered(<<a, b>>)
  <2> DEFINE s == <<a, b>>
  <2>1. Len(s) = 2 /\ s[1] = a /\ s[2] = b OBVIOUS
  <2>2. \A i, j \in 1..2 : i < j => i = 1 /\ j = 2 OBVIOUS
  <2> HIDE DEF s
  <2>3. Ordered(s) BY <1>4, <2>1, <2>2 DEF Ordered
  <2> QED BY <2>3 DEF s
<1>5. ASSUME NEW s PROVE Follows(s, <<>>) BY LinesOfFew DEF Follows
<1> QED BY <1>1, <1>2, <1>3, <1>4, <1>5

LEMMA OrderedBoth ==
    ASSUME NEW S, NEW s \in Seq(S), NEW u \in Seq(S), Ordered(s), Ordered(u), Follows(s, u)
    PROVE  Ordered(s \o u)
<1>1. /\ Len(s \o u) = Len(s) + Len(u) /\ Len(s) \in Nat /\ Len(u) \in Nat
      /\ \A i \in 1..Len(s) : (s \o u)[i] = s[i]
      /\ \A i \in Len(s) + 1..Len(s \o u) : (s \o u)[i] = u[i - Len(s)]
  OBVIOUS
<1> DEFINE w == s \o u
<1>2. ASSUME NEW i \in 1..Len(w), NEW j \in 1..Len(w), i < j, OfTurn(w[i]), OfTurn(w[j])
      PROVE  InPlace(w[i], w[j])
  <2>1. CASE j <= Len(s)
    <3>1. i \in 1..Len(s) /\ j \in 1..Len(s) BY <1>1, <1>2, <2>1
    <3>2. w[i] = s[i] /\ w[j] = s[j] BY <1>1, <3>1
    <3> HIDE DEF w
    <3> QED BY <1>2, <3>1, <3>2 DEF Ordered
  <2>2. CASE i > Len(s)
    <3>1. i \in Len(s) + 1..Len(w) /\ j \in Len(s) + 1..Len(w) BY <1>1, <1>2, <2>2
    <3>2. w[i] = u[i - Len(s)] /\ w[j] = u[j - Len(s)] BY <1>1, <3>1
    <3>3. i - Len(s) \in 1..Len(u) /\ j - Len(s) \in 1..Len(u) /\ i - Len(s) < j - Len(s)
      BY <1>1, <1>2, <3>1
    <3> HIDE DEF w
    <3> QED BY <1>2, <3>2, <3>3 DEF Ordered
  <2>3. CASE i <= Len(s) /\ j > Len(s)
    <3>1. i \in 1..Len(s) /\ j \in Len(s) + 1..Len(w) BY <1>1, <1>2, <2>3
    <3>2. w[i] = s[i] /\ w[j] = u[j - Len(s)] /\ j - Len(s) \in 1..Len(u) BY <1>1, <3>1
    <3>3. w[i] \in Lines(s) /\ w[j] \in Lines(u) BY <3>1, <3>2 DEF Lines
    <3> HIDE DEF w
    <3> QED BY <1>2, <3>3 DEF Follows
  <2> QED BY <1>1, <2>1, <2>2, <2>3
<1> HIDE DEF w
<1>3. Ordered(w) BY <1>2 DEF Ordered
<1> QED BY <1>3 DEF w

LEMMA OrderedRest ==
    ASSUME NEW S, NEW s \in Seq(S), s # <<>>, Ordered(s)
    PROVE  Ordered(Tail(s)) /\ Follows(<<Head(s)>>, Tail(s))
<1> DEFINE r == Tail(s)
<1>1. /\ Len(s) \in Nat \ {0} /\ Len(r) = Len(s) - 1 /\ Head(s) = s[1]
      /\ \A i \in 1..Len(r) : r[i] = s[i + 1]
  OBVIOUS
<1> HIDE DEF r
<1>2. ASSUME NEW i \in 1..Len(r), NEW j \in 1..Len(r), i < j, OfTurn(r[i]), OfTurn(r[j])
      PROVE  InPlace(r[i], r[j])
  <2>1. i + 1 \in 1..Len(s) /\ j + 1 \in 1..Len(s) /\ i + 1 < j + 1 BY <1>1, <1>2
  <2> QED BY <1>1, <1>2, <2>1 DEF Ordered
<1>3. ASSUME NEW j \in 1..Len(r), OfTurn(Head(s)), OfTurn(r[j]) PROVE InPlace(Head(s), r[j])
  <2>1. 1 \in 1..Len(s) /\ j + 1 \in 1..Len(s) /\ 1 < j + 1 BY <1>1
  <2> QED BY <1>1, <1>3, <2>1 DEF Ordered
<1>4. Lines(<<Head(s)>>) = {Head(s)} BY LinesOfFew
<1>5. Follows(<<Head(s)>>, r)
  <2> SUFFICES ASSUME NEW m \in Lines(r), OfTurn(Head(s)), OfTurn(m) PROVE InPlace(Head(s), m)
    BY <1>4 DEF Follows
  <2>1. PICK j \in 1..Len(r) : m = r[j] BY DEF Lines
  <2> QED BY <1>3, <2>1
<1>6. Ordered(r) BY <1>2 DEF Ordered
<1> QED BY <1>5, <1>6 DEF r

LEMMA OrderedPart ==
    ASSUME NEW S, NEW s \in Seq(S), NEW a \in Nat \ {0}, NEW b \in Nat, b <= Len(s), Ordered(s)
    PROVE  Ordered(SubSeq(s, a, b))
<1> DEFINE r == SubSeq(s, a, b)
<1>1. /\ Len(s) \in Nat /\ Len(r) = IF a <= b THEN b - a + 1 ELSE 0
      /\ \A i \in 1..Len(r) : r[i] = s[a + i - 1]
  OBVIOUS
<1> HIDE DEF r
<1>2. ASSUME NEW i \in 1..Len(r), NEW j \in 1..Len(r), i < j, OfTurn(r[i]), OfTurn(r[j])
      PROVE  InPlace(r[i], r[j])
  <2>1. a + i - 1 \in 1..Len(s) /\ a + j - 1 \in 1..Len(s) /\ a + i - 1 < a + j - 1
    BY <1>1, <1>2
  <2> QED BY <1>1, <1>2, <2>1 DEF Ordered
<1>3. Ordered(r) BY <1>2 DEF Ordered
<1> QED BY <1>3 DEF r

\* A step that says nothing new but a spoilt line.
LEMMA StoryWithin ==
    ASSUME GuestStory, UNCHANGED <<cfg, ran>>, Told' \subseteq Told \cup {Garbage}, InTurn'
    PROVE  GuestStory'
<1>1. Garbage.k = "garbage" /\ ~OfTurn(Garbage) BY DEF Garbage, Line, OfTurn, IsHead
<1>2. \A l \in Told' : OfTurn(l) \/ l.k \in {"nic", "summary"} => l \in Told BY <1>1
<1>3. Queries' = Queries /\ \A i : HeadOf(i)' = HeadOf(i) BY DEF Queries, HeadOf
<1>4. RanRight' BY DEF GuestStory, RanRight
<1>5. TurnsSaid'
  <2> SUFFICES ASSUME NEW l \in Told'
               PROVE  /\ OfTurn(l) => l.t \in 1..Len(ran')
                      /\ IsHead(l) => l = HeadOf(l.t)'
                      /\ l.k = "summary" => l.v.total = Len(Queries')
    BY DEF TurnsSaid
  <2>1. IsHead(l) => OfTurn(l) BY DEF OfTurn
  <2> QED BY <1>2, <1>3, <2>1 DEF GuestStory, TurnsSaid
<1>6. OneCard' BY <1>2 DEF GuestStory, OneCard
<1> QED BY <1>4, <1>5, <1>6 DEF GuestStory

\* A step that says what is so, after all that was said.
LEMMA StorySays ==
    ASSUME GuestInv, GuestStory, out = <<>>, UNCHANGED <<cfg, con>>, RanRight',
           out' \in Seq(Words), Ordered(out'), Len(ran') >= Len(ran), Len(ran') \in Nat,
           \A i \in 1..Len(ran) : ran'[i] = ran[i],
           \A m \in Lines(out') :
              /\ OfTurn(m) => m.t \in 1..Len(ran')
              /\ IsHead(m) => m = HeadOf(m.t)'
              /\ m.k = "summary" => m.v.total = Len(Queries)
              /\ \A l \in Lines(con) : OfTurn(l) /\ OfTurn(m) => InPlace(l, m),
           \A l, m \in Lines(out') : l.k = "nic" /\ m.k = "nic" => l.v = m.v,
           pc \in Early \/ \A m \in Lines(out') : m.k # "nic"
    PROVE  GuestStory'
<1>1. Told' = Lines(con) \cup Lines(out') /\ Lines(con) \subseteq Told
  BY DEF Told, Lines
<1>2. Len(ran) \in Nat BY DEF GuestInv, GuestOK
<1>3. Queries' = Queries BY DEF Queries
<1>4. \A i \in 1..Len(ran) : HeadOf(i)' = HeadOf(i) BY DEF HeadOf
<1>5. TurnsSaid'
  <2> SUFFICES ASSUME NEW l \in Lines(con)
               PROVE  /\ OfTurn(l) => l.t \in 1..Len(ran')
                      /\ IsHead(l) => l = HeadOf(l.t)'
                      /\ l.k = "summary" => l.v.total = Len(Queries)
    BY <1>1, <1>3 DEF TurnsSaid
  <2>1. /\ OfTurn(l) => l.t \in 1..Len(ran)
        /\ IsHead(l) => l = HeadOf(l.t)
        /\ l.k = "summary" => l.v.total = Len(Queries)
    BY <1>1 DEF GuestStory, TurnsSaid
  <2>2. IsHead(l) => OfTurn(l) BY DEF OfTurn
  <2>3. OfTurn(l) => l.t \in 1..Len(ran') BY <1>2, <2>1
  <2> QED BY <1>4, <2>1, <2>2, <2>3
<1>6. OneCard'
  <2>1. pc \in Early => \A l \in Lines(con) : l.k # "nic" BY <1>1 DEF GuestInv, CardShown
  <2>2. \A l, m \in Lines(con) : l.k = "nic" /\ m.k = "nic" => l.v = m.v
    BY <1>1 DEF GuestStory, OneCard
  <2> QED BY <1>1, <2>1, <2>2 DEF OneCard
<1>7. InTurn'
  <2>1. Ordered(con)' BY DEF GuestStory, InTurn, Ordered
  <2>2. Follows(con, out)' BY DEF Follows, Lines
  <2>3. Ordered(out)' BY DEF Ordered
  <2> QED BY <2>1, <2>2, <2>3 DEF InTurn
<1> QED BY <1>5, <1>6, <1>7 DEF GuestStory

\* A step that says nothing of a turn, a card or the sum.
LEMMA StoryAside ==
    ASSUME GuestInv, GuestStory, out = <<>>, UNCHANGED <<cfg, con, ran>>,
           out' \in Seq(Words), Ordered(out'),
           \A m \in Lines(out') : ~OfTurn(m) /\ m.k \notin {"nic", "summary"}
    PROVE  GuestStory'
<1>1. Len(ran) \in Nat BY DEF GuestInv, GuestOK
<1>2. RanRight' BY DEF GuestStory, RanRight
<1>3. \A m \in Lines(out') : ~IsHead(m) BY DEF OfTurn
<1> QED BY <1>1, <1>2, <1>3, StorySays

\* Nothing is said and the console is as it was.
LEMMA StorySilent ==
    ASSUME GuestStory, UNCHANGED <<cfg, con, ran>>, out' = out \/ out' = <<>>
    PROVE  GuestStory'
<1>1. Lines(<<>>) = {} BY LinesOfFew
<1>2. Lines(con)' = Lines(con) /\ Lines(out)' = Lines(out') BY DEF Lines
<1>3. Lines(out') \subseteq Lines(out) BY <1>1
<1>4. Told' \subseteq Told BY <1>2, <1>3 DEF Told
<1>5. InTurn'
  <2>1. Ordered(con)' BY DEF GuestStory, InTurn, Ordered
  <2>2. Ordered(out') BY OrderedFew DEF GuestStory, InTurn
  <2>3. Follows(con, out)' BY <1>2, <1>3 DEF GuestStory, InTurn, Follows
  <2>4. Ordered(out)' BY <2>2 DEF Ordered
  <2> QED BY <2>1, <2>3, <2>4 DEF InTurn
<1> QED BY <1>4, <1>5, StoryWithin

\* A line that comes twice, or not at all, leaves the order as it was.
LEMMA PrintedStory == ASSUME GuestInv, GuestStory, Printed PROVE GuestStory'
<1> DEFINE l == Head(out)
<1>1. /\ out # <<>> /\ out' = Tail(out) /\ UNCHANGED <<cfg, ran>>
      /\ con' \in {Append(con, l), con \o <<l, l>>, Append(con, Garbage)}
  BY DEF Printed
<1>2. /\ l \in Words /\ l \in Lines(out)
      /\ out' \in Seq(Words) /\ Lines(out') \subseteq Lines(out)
  BY <1>1, LinesOfRest DEF GuestInv, GuestOK
<1>3. Ordered(out') /\ Follows(<<l>>, out')
  BY <1>1, OrderedRest DEF GuestInv, GuestOK, GuestStory, InTurn
<1> HIDE DEF l
<1>4. con \in Seq(Words) /\ Garbage \in Words BY Said DEF GuestInv, GuestOK
<1>5. PICK u : /\ u \in {<<l>>, <<l, l>>, <<Garbage>>} /\ con' = con \o u
  <2>1. ASSUME NEW w \in Words PROVE Append(con, w) = con \o <<w>>
    BY <1>4
  <2> QED BY <1>1, <1>2, <1>4, <2>1
<1>6. u \in Seq(Words) /\ Lines(u) \subseteq {l, Garbage}
  <2>1. <<l>> \in Seq(Words) /\ <<l, l>> \in Seq(Words) /\ <<Garbage>> \in Seq(Words)
    BY <1>2, <1>4
  <2>2. Lines(<<l>>) = {l} /\ Lines(<<l, l>>) = {l} /\ Lines(<<Garbage>>) = {Garbage}
    <3>1. Lines(<<l, l>>) = {l, l} BY LinesOfFew
    <3> QED BY <3>1, LinesOfFew
  <2> QED BY <1>5, <2>1, <2>2
<1>7. Ordered(u) BY <1>5, OrderedFew
<1>8. ~OfTurn(Garbage) BY DEF Garbage, Line, OfTurn, IsHead
<1>9. Follows(con, u)
  <2> SUFFICES ASSUME NEW a \in Lines(con), OfTurn(a), OfTurn(l) PROVE InPlace(a, l)
    BY <1>6, <1>8 DEF Follows
  <2> QED BY <1>2 DEF GuestStory, InTurn, Follows
<1>10. Ordered(con')
  <2>1. Ordered(con) BY DEF GuestStory, InTurn
  <2>2. Ordered(con \o u) BY <1>4, <1>6, <1>7, <1>9, <2>1, OrderedBoth
  <2> QED BY <1>5, <2>2
<1>11. Lines(con') = Lines(con) \cup Lines(u) BY <1>4, <1>5, <1>6, LinesOfBoth
<1>12. Follows(con', out')
  <2> SUFFICES ASSUME NEW a \in Lines(con'), NEW m \in Lines(out'), OfTurn(a), OfTurn(m)
               PROVE  InPlace(a, m)
    BY DEF Follows
  <2>1. CASE a \in Lines(con)
    <3>1. m \in Lines(out) BY <1>2
    <3> QED BY <2>1, <3>1 DEF GuestStory, InTurn, Follows
  <2>2. CASE a = l
    <3>1. l \in Lines(<<l>>) BY LinesOfFew
    <3> QED BY <1>3, <2>2, <3>1 DEF Follows
  <2> QED BY <1>6, <1>8, <1>11, <2>1, <2>2
<1>13. InTurn'
  <2>1. Ordered(con)' BY <1>10 DEF Ordered
  <2>2. Ordered(out)' BY <1>3 DEF Ordered
  <2>3. Follows(con, out)' BY <1>12 DEF Follows, Lines
  <2> QED BY <2>1, <2>2, <2>3 DEF InTurn
<1>14. Told' \subseteq Told \cup {Garbage}
  <2>1. Lines(con)' = Lines(con') /\ Lines(out)' = Lines(out') BY DEF Lines
  <2> QED BY <1>2, <1>6, <1>11, <2>1 DEF Told
<1> QED BY <1>1, <1>13, <1>14, StoryWithin

LEMMA OrderedAlike ==
    ASSUME NEW s, \A l, m \in Lines(s) : OfTurn(l) /\ OfTurn(m) => InPlace(l, m)
    PROVE  Ordered(s)
BY DEF Ordered, Lines

LEMMA TurnLines ==
    /\ \A k, q, t, v : Line(k, q, t, v).k = k /\ Line(k, q, t, v).t = t /\ Line(k, q, t, v).v = v
    /\ \A k, q, t, v : IsHead(Line(k, q, t, v)) <=> k \in {"ms", "fail"}
    /\ \A k, q, t, v : OfTurn(Line(k, q, t, v)) <=> k \in {"ms", "fail", "stats", "phase"}
BY DEF Line, IsHead, OfTurn

\* One line that is not of a turn.
LEMMA StoryOneAside ==
    ASSUME GuestInv, GuestStory, out = <<>>, UNCHANGED <<cfg, con, ran>>,
           NEW w \in Words, out' = <<w>>, ~OfTurn(w), w.k \notin {"nic", "summary"}
    PROVE  GuestStory'
<1>1. out' \in Seq(Words) /\ Lines(out') = {w} BY LinesOfFew
<1>2. Ordered(out') BY OrderedFew
<1> QED BY <1>1, <1>2, StoryAside

LEMMA StartStory == ASSUME GuestInv, GuestStory, Start PROVE GuestStory'
<1>1. out = <<>> /\ UNCHANGED <<cfg, con, ran>> /\ out' = <<Line("log", 0, 0, None)>>
  BY DEF Start, At, Say
<1>2. Line("log", 0, 0, None) \in Words BY Said DEF Kinds
<1>3. ~OfTurn(Line("log", 0, 0, None)) /\ Line("log", 0, 0, None).k = "log" BY TurnLines
<1> QED BY <1>1, <1>2, <1>3, StoryOneAside

LEMMA FetchStory == ASSUME GuestInv, GuestStory, FetchDuckdb PROVE GuestStory'
<1>1. out = <<>> /\ UNCHANGED <<cfg, con, ran>>
      /\ (UNCHANGED out \/ out' = <<Verdict("INCOMPLETE")>>)
  BY DEF FetchDuckdb, Fetched, At, Say
<1>2. Verdict("INCOMPLETE") \in Words /\ Verdict("INCOMPLETE").k = "INCOMPLETE"
      /\ ~OfTurn(Verdict("INCOMPLETE"))
  <2>1. "INCOMPLETE" \in Verdicts BY DEF Verdicts
  <2> QED BY <2>1, Said, TurnLines DEF Verdict
<1> QED BY <1>1, <1>2, StoryOneAside, StorySilent

\* The one line of the card.
LEMMA TuneNicStory == ASSUME GuestInv, GuestStory, TuneNic PROVE GuestStory'
<1>1. pc = "tune" /\ out = <<>> /\ UNCHANGED <<cfg, con, ran>> BY DEF TuneNic, At, Raise
<1>2. NicFailed \in Words /\ NicFailed.k = "nicfail" /\ ~OfTurn(NicFailed)
  BY Said, TurnLines DEF NicFailed, Kinds
<1>3. CASE UNCHANGED out BY <1>1, <1>3, StorySilent
<1>4. CASE out' = <<NicFailed>> BY <1>1, <1>2, <1>4, StoryOneAside
<1>5. ASSUME NEW refused \in {<<>>, <<NicFailed>>}, NEW v \in Values,
             out' = refused \o <<Line("nic", 0, 0, v)>>
      PROVE  GuestStory'
  <2> DEFINE shown == Line("nic", 0, 0, v)
             last == <<shown>>
  <2>1. shown \in Words /\ shown.k = "nic" /\ shown.v = v /\ ~OfTurn(shown)
    BY Said, TurnLines DEF Kinds
  <2>2. out' = refused \o last BY <1>5
  <2> HIDE DEF shown
  <2>3. last \in Seq(Words) /\ Lines(last) = {shown} BY <2>1, LinesOfFew
  <2>4. refused \in Seq(Words) /\ Lines(refused) \subseteq {NicFailed}
    <3>1. <<NicFailed>> \in Seq(Words) /\ <<>> \in Seq(Words) BY <1>2
    <3>2. Lines(<<NicFailed>>) = {NicFailed} /\ Lines(<<>>) = {} BY LinesOfFew
    <3> QED BY <1>5, <3>1, <3>2
  <2> HIDE DEF last
  <2>5. out' \in Seq(Words) /\ Lines(out') = Lines(refused) \cup Lines(last)
    BY <2>2, <2>3, <2>4, LinesOfBoth
  <2>6. \A l \in Lines(out') : ~OfTurn(l) /\ (l = NicFailed \/ l = shown)
    BY <1>2, <2>1, <2>3, <2>4, <2>5
  <2>7. Ordered(out') BY <2>6, OrderedAlike
  <2>8. RanRight' /\ Len(ran) \in Nat /\ ran' = ran
    BY <1>1 DEF GuestInv, GuestOK, GuestStory, RanRight
  <2>9. \A l \in Lines(out') : ~IsHead(l) /\ l.k # "summary" /\ (l.k = "nic" => l.v = v)
    BY <1>2, <2>1, <2>6 DEF OfTurn
  <2>10. pc \in Early BY <1>1 DEF Early
  <2> QED BY <1>1, <2>5, <2>6, <2>7, <2>8, <2>9, <2>10, StorySays
<1>6. CASE \E g \in {"on", "off"}, refused \in {<<>>, <<NicFailed>>}, n \in Channels, said \in BOOLEAN :
              /\ nic' = [gro |-> g, queues |-> n]
              /\ Say(refused \o <<Line("nic", 0, 0,
                        IF said THEN nic' ELSE [gro |-> "?", queues |-> 0])>>)
  <2>1. PICK g \in {"on", "off"}, refused \in {<<>>, <<NicFailed>>}, n \in Channels, said \in BOOLEAN :
              /\ nic' = [gro |-> g, queues |-> n]
              /\ Say(refused \o <<Line("nic", 0, 0,
                        IF said THEN nic' ELSE [gro |-> "?", queues |-> 0])>>)
    BY <1>6
  <2>2. (IF said THEN nic' ELSE [gro |-> "?", queues |-> 0]) \in Values
    <3>1. nic' \in Card BY <2>1 DEF Card
    <3> QED BY <3>1 DEF Values, Unsaid
  <2> QED BY <1>5, <2>1, <2>2 DEF Say
<1> QED BY <1>3, <1>4, <1>6 DEF TuneNic, Say, Raise

\* The line of a query that has just run is of the last turn, behind all others.
LEMMA QueryStory == ASSUME GuestInv, GuestStory, Query PROVE GuestStory'
<1> DEFINE q == Queries[turn]
<1>1. /\ pc = "query" /\ out = <<>> /\ turn <= Len(Queries)
      /\ UNCHANGED <<cfg, con>>
  BY DEF Query, At
<1>2. /\ cfg \in Configs /\ turn \in Nat \ {0} /\ ran \in Seq(Run) /\ Len(ran) = turn - 1
      /\ Queries \in Seq(Nat) /\ Len(Queries) \in Nat /\ Ms \subseteq Nat \ {0}
  BY <1>1, Settings DEF GuestInv, GuestOK, Turns, Queries
<1>3. q \in Nat
  <2>1. turn \in 1..Len(Queries) BY <1>1, <1>2
  <2> QED BY <1>2, <2>1
<1> HIDE DEF q
<1>4. ASSUME NEW run \in Run, NEW said \in Words, ran' = Append(ran, run), out' = <<said>>,
             run.ms = 0 => run.match = None, run.sound => run.ms # 0 /\ run.match # "no",
             IsHead(said), said.t = turn,
             said = IF run.ms = 0 THEN Line("fail", run.q, turn, None)
                    ELSE Line("ms", run.q, turn, [ms |-> run.ms, match |-> run.match])
      PROVE  GuestStory'
  <2>1. /\ Len(ran') = turn /\ ran'[turn] = run
        /\ \A i \in 1..Len(ran) : ran'[i] = ran[i]
    BY <1>2, <1>4
  <2>2. out' \in Seq(Words) /\ Lines(out') = {said} BY <1>4, LinesOfFew
  <2>3. Ordered(out') BY <1>4, OrderedFew
  <2>4. said = HeadOf(said.t)' BY <1>4, <2>1 DEF HeadOf
  <2>5. RanRight'
    <3> SUFFICES ASSUME NEW i \in 1..Len(ran')
                 PROVE  /\ ran'[i].ms = 0 => ran'[i].match = None
                        /\ ran'[i].sound => ran'[i].ms # 0 /\ ran'[i].match # "no"
      BY DEF RanRight
    <3>1. CASE i = turn BY <1>4, <2>1, <3>1
    <3>2. CASE i # turn
      <4>1. i \in 1..Len(ran) BY <1>2, <2>1, <3>2
      <4> QED BY <2>1, <4>1 DEF GuestStory, RanRight
    <3> QED BY <3>1, <3>2
  <2>6. ASSUME NEW l \in Lines(con), OfTurn(l) PROVE InPlace(l, said)
    <3>1. l \in Told BY DEF Told
    <3>2. l.t \in 1..Len(ran) BY <2>6, <3>1 DEF GuestStory, TurnsSaid
    <3>3. l.t < said.t BY <1>2, <1>4, <3>2
    <3> QED BY <3>3 DEF InPlace
  <2>7. said.k # "nic" /\ said.k # "summary" BY <1>4 DEF IsHead
  <2>8. said.t \in 1..Len(ran') /\ Len(ran') >= Len(ran) /\ Len(ran') \in Nat
    BY <1>2, <1>4, <2>1
  <2> QED BY <1>1, <2>1, <2>2, <2>3, <2>4, <2>5, <2>6, <2>7, <2>8, StorySays
<1>5. CASE /\ ran' = Append(ran, Failed(q)) /\ Say(<<Line("fail", q, turn, None)>>)
  <2>1. Failed(q) \in Run BY <1>3 DEF Failed, Run, Match
  <2>2. Line("fail", q, turn, None) \in Words BY <1>2, <1>3, Said DEF Kinds
  <2>3. Failed(q).q = q /\ Failed(q).ms = 0 /\ Failed(q).match = None /\ ~Failed(q).sound
    BY DEF Failed
  <2>4. IsHead(Line("fail", q, turn, None)) /\ Line("fail", q, turn, None).t = turn BY TurnLines
  <2> QED BY <1>4, <1>5, <2>1, <2>2, <2>3, <2>4 DEF Say
<1>6. ASSUME NEW ms \in Ms, NEW match \in Matches,
             ran' = Append(ran, [q |-> q, ms |-> ms, match |-> match,
                                 sound |-> match = "yes" \/ ~cfg.answers]),
             Say(<<Line("ms", q, turn, [ms |-> ms, match |-> match])>>)
      PROVE  GuestStory'
  <2> DEFINE sound == match = "yes" \/ ~cfg.answers
             run == [q |-> q, ms |-> ms, match |-> match, sound |-> sound]
             said == Line("ms", q, turn, [ms |-> ms, match |-> match])
  <2>1. match \in Match /\ (~cfg.answers => match = "unchecked") BY <1>6 DEF Matches, Match
  <2>2. ms \in Nat /\ ms # 0 BY <1>2, <1>6
  <2>3. sound \in BOOLEAN OBVIOUS
  <2>4. sound => match # "no" BY <2>1
  <2>5. ran' = Append(ran, run) BY <1>6
  <2> HIDE DEF sound
  <2>6. run \in Run BY <1>3, <2>1, <2>2, <2>3 DEF Run
  <2>7. run.q = q /\ run.ms = ms /\ run.match = match /\ run.sound = sound OBVIOUS
  <2>8. [ms |-> ms, match |-> match] \in Values BY <2>1, <2>2 DEF Values
  <2>9. said \in Words BY <1>2, <1>3, <2>8, Said DEF Kinds
  <2>10. IsHead(said) /\ said.t = turn BY TurnLines
  <2>11. out' = <<said>> BY <1>6 DEF Say
  <2>12. said = Line("ms", run.q, turn, [ms |-> run.ms, match |-> run.match]) BY <2>7
  <2> HIDE DEF run, said
  <2> QED BY <1>4, <2>2, <2>4, <2>5, <2>6, <2>7, <2>9, <2>10, <2>11, <2>12
<1> QED BY <1>5, <1>6 DEF Query, q

\* The lines of a profile are of the turn that it is, and none is a query's own.
LEMMA HttpProfileStory == ASSUME GuestInv, GuestStory, HttpProfile PROVE GuestStory'
<1> DEFINE Of(k) == Line(k, Queries[turn], turn, None)
           K == {"stats", "statsfail", "phase", "phasefail"}
           Few == {<<>>} \cup {<<Of(k)>> : k \in K}
<1>1. /\ pc = "profile" /\ out = <<>> /\ UNCHANGED <<cfg, con, ran>>
  BY DEF HttpProfile, At
<1>2. /\ cfg \in Configs /\ turn \in Nat \ {0} /\ Len(ran) = turn
      /\ Queries \in Seq(Nat) /\ Len(Queries) \in Nat /\ turn <= Len(Queries)
  BY <1>1, Settings DEF GuestInv, GuestOK, Turns, Queries
<1>3. \A k \in K : Of(k) \in Words /\ Of(k).t = turn /\ Of(k).k \in K /\ ~IsHead(Of(k))
  <2>1. Queries[turn] \in Nat /\ turn \in Nat
    <3>1. turn \in 1..Len(Queries) BY <1>2
    <3> QED BY <1>2, <3>1
  <2>2. K \subseteq Kinds BY DEF Kinds
  <2>3. None \in Values BY Said
  <2>4. \A k \in K : k \notin {"ms", "fail"} OBVIOUS
  <2> QED BY <2>1, <2>2, <2>3, <2>4, Said, TurnLines
<1>4. \A g \in BOOLEAN : PhaseLine(g) \in Few
  BY DEF PhaseLine, Stats
<1>5. \A g \in BOOLEAN : <<Stats("stats", "statsfail", g)>> \in Few
  BY DEF Stats
<1>6. PICK s \in Few, u \in Few : out' = s \o u
  <2>1. CASE Say(<<Stats("stats", "statsfail", FALSE)>> \o PhaseLine(FALSE))
    BY <1>4, <1>5, <2>1 DEF Say
  <2>2. ASSUME NEW p \in BOOLEAN, NEW s \in BOOLEAN,
               Say(PhaseLine(p) \o <<Stats("stats", "statsfail", s)>>)
        PROVE  \E v \in Few, u \in Few : out' = v \o u
    BY <1>4, <1>5, <2>2 DEF Say
  <2> QED BY <2>1, <2>2 DEF HttpProfile
<1>7. ASSUME NEW w \in Few
      PROVE  w \in Seq(Words) /\ \A l \in Lines(w) : l.t = turn /\ l.k \in K /\ ~IsHead(l)
  <2>1. CASE w = <<>>
    <3>1. w \in Seq(Words) BY <2>1
    <3> QED BY <2>1, <3>1, LinesOfFew
  <2>2. ASSUME NEW k \in K, w = <<Of(k)>>
        PROVE  w \in Seq(Words) /\ \A l \in Lines(w) : l.t = turn /\ l.k \in K /\ ~IsHead(l)
    <3> DEFINE a == Of(k)
    <3>1. a \in Words /\ a.t = turn /\ a.k \in K /\ ~IsHead(a) BY <1>3
    <3> HIDE DEF a
    <3>2. Lines(<<a>>) = {a} /\ <<a>> \in Seq(Words) BY <3>1, LinesOfFew
    <3>3. w = <<a>> BY <2>2 DEF a
    <3> HIDE DEF K
    <3> QED BY <3>1, <3>2, <3>3
  <2> QED BY <1>7, <2>1, <2>2
<1> HIDE DEF Few, Of
<1>8. s \in Seq(Words) /\ u \in Seq(Words) BY <1>6, <1>7
<1>9. out' \in Seq(Words) /\ Lines(out') = Lines(s) \cup Lines(u)
  BY <1>6, <1>8, LinesOfBoth
<1>10. \A l \in Lines(out') : l.t = turn /\ ~IsHead(l) /\ l.k \notin {"nic", "summary"}
  BY <1>6, <1>7, <1>9
<1>11. Ordered(out')
  <2>1. \A l, m \in Lines(out') : InPlace(l, m) BY <1>10 DEF InPlace
  <2> QED BY <2>1, OrderedAlike
<1>12. \A l \in Lines(con) : OfTurn(l) => l.t \in 1..turn
  BY <1>2 DEF GuestStory, TurnsSaid, Told
<1>13. ASSUME NEW m \in Lines(out'), NEW l \in Lines(con), OfTurn(l) PROVE InPlace(l, m)
  <2>1. l.t < turn \/ l.t = turn BY <1>2, <1>12, <1>13
  <2> QED BY <1>10, <2>1 DEF InPlace
<1>14. RanRight' /\ ran' = ran /\ turn \in 1..Len(ran) /\ Len(ran) \in Nat
  BY <1>1, <1>2 DEF GuestStory, RanRight
<1>15. \A m \in Lines(out') : m.t \in 1..Len(ran') BY <1>10, <1>14
<1> QED BY <1>1, <1>9, <1>10, <1>11, <1>13, <1>14, <1>15, StorySays

\* The sum counts the queries.
LEMMA SummaryStory == ASSUME GuestInv, GuestStory, Summary PROVE GuestStory'
<1> DEFINE v == [total |-> Len(Queries), ms |-> Total(ran)]
           j == AllSound
           a == Line("summary", 0, 0, v)
           b == Judge(j)
<1>1. out = <<>> /\ out' = <<a, b>> /\ UNCHANGED <<cfg, con, ran>>
  BY DEF Summary, At, Say
<1>2. Len(Queries) \in Nat /\ Len(ran) \in Nat /\ ran \in Seq(Run)
  <2>1. cfg \in Configs /\ ran \in Seq(Run) BY DEF GuestInv, GuestOK
  <2>2. Len(Queries) \in Nat BY <2>1, Settings DEF Queries
  <2>3. Len(ran) \in Nat BY <2>1
  <2> QED BY <2>1, <2>2, <2>3
<1>3. v \in Values /\ v.total = Len(Queries) BY <1>2 DEF Values
<1>4. j \in BOOLEAN BY DEF AllSound
<1> HIDE DEF v, j
<1>5. a \in Words /\ a.k = "summary" /\ a.v = v /\ ~OfTurn(a)
  BY <1>3, Said, TurnLines DEF Kinds
<1>6. b \in Words /\ b.k \in Verdicts /\ ~OfTurn(b)
  <2>1. b = Verdict("COMPLETE") \/ b = Verdict("INCOMPLETE") BY DEF Judge
  <2>2. \A w \in Verdicts : Verdict(w).k = w /\ ~OfTurn(Verdict(w)) BY TurnLines DEF Verdict, Verdicts
  <2> HIDE DEF b
  <2>3. "COMPLETE" \in Verdicts /\ "INCOMPLETE" \in Verdicts BY DEF Verdicts
  <2> QED BY <2>1, <2>2, <2>3, Said
<1> HIDE DEF a, b
<1>7. out' \in Seq(Words) /\ Lines(out') = {a, b} BY <1>1, <1>5, <1>6, LinesOfFew
<1>8. Ordered(out')
  <2>1. Ordered(<<a, b>>) BY <1>5, OrderedFew
  <2> QED BY <1>1, <2>1
<1>9. \A m \in Lines(out') : /\ ~OfTurn(m) /\ ~IsHead(m) /\ m.k # "nic"
                             /\ m.k = "summary" => m.v.total = Len(Queries)
  BY <1>3, <1>5, <1>6, <1>7 DEF Verdicts, OfTurn
<1>10. RanRight' /\ ran' = ran BY <1>1 DEF GuestStory, RanRight
<1>11. /\ Len(ran') >= Len(ran) /\ Len(ran') \in Nat
       /\ \A i \in 1..Len(ran) : ran'[i] = ran[i]
  BY <1>2, <1>10
<1>12. \A l, m \in Lines(out') : l.k = "nic" /\ m.k = "nic" => l.v = m.v BY <1>9
<1> QED BY <1>1, <1>7, <1>8, <1>9, <1>10, <1>11, <1>12, StorySays

LEMMA ScriptStory == ASSUME GuestInv, GuestStory, ManyTurns, Script \/ Panic PROVE GuestStory'
<1>1. cfg.arm = "duckdb" /\ ~cfg.probe BY DEF ManyTurns, IsDuckdb
<1>2. pc # "probe" BY <1>1 DEF GuestInv, Turns
<1>3. CASE SetupViews \/ FetchAnswers \/ Finally \/ Panic
  <2>1. UNCHANGED <<cfg, con, ran>> /\ (out' = out \/ out' = <<>>)
    BY <1>3 DEF SetupViews, FetchAnswers, Finally, Panic, Raise
  <2> QED BY <2>1, StorySilent
<1>4. ~(TuneS3 \/ TuneClient \/ FetchBinary \/ FetchAnyBlob \/ FetchWrk \/ RunBench
          \/ RunAnyBlob \/ RunWrk)
  BY <1>1 DEF TuneS3, TuneClient, FetchBinary, FetchAnyBlob, FetchWrk, Fetched, RunBench,
     RunAnyBlob, RunWrk
<1>5. ~CpuProbe BY <1>2 DEF CpuProbe, At
<1> QED BY <1>3, <1>4, <1>5, PrintedStory, StartStory, TuneNicStory, FetchStory, QueryStory,
           HttpProfileStory, SummaryStory
    DEF Script

LEMMA OutputInTurn ==
    ASSUME GuestInv, Ordered(con)
    PROVE  Ordered(Output)
<1>1. con \in Seq(Words) /\ Len(con) \in Nat /\ cfg.buf \in Nat \ {0}
  <2>1. con \in Seq(Words) /\ cfg.buf \in Nat \ {0} BY Settings DEF GuestInv, GuestOK
  <2> QED BY <2>1
<1>2. CASE vm = "up"
  <2> DEFINE a == Len(con) - Min2(Len(con), cfg.buf) + 1
  <2>1. Min2(Len(con), cfg.buf) \in 0..Len(con) BY <1>1 DEF Min2
  <2>2. a \in Nat \ {0} BY <1>1, <2>1
  <2> HIDE DEF a
  <2>3. Ordered(SubSeq(con, a, Len(con))) BY <1>1, <2>2, OrderedPart
  <2> QED BY <1>2, <2>3 DEF Output, a
<1>3. CASE vm # "up" BY <1>3, OrderedFew DEF Output
<1> QED BY <1>2, <1>3

LEMMA InitStory == Init => Story
<1> SUFFICES ASSUME Init PROVE GuestStory /\ Ordered(text) BY DEF Story
<1>1. /\ con = <<Kernel>> /\ out = <<>> /\ ran = <<>> /\ text = <<>>
  BY DEF Init, GuestInit
<1>2. Ordered(con) /\ Ordered(out) /\ Ordered(text) /\ Follows(con, out)
  BY <1>1, OrderedFew
<1>3. Kernel.k = "kernel" /\ ~OfTurn(Kernel) /\ ~IsHead(Kernel)
  BY DEF Kernel, Line, OfTurn, IsHead
<1>4. Told = {Kernel} BY <1>1, LinesOfFew DEF Told
<1>5. TurnsSaid /\ OneCard BY <1>3, <1>4 DEF TurnsSaid, OneCard
<1>6. RanRight
  <2>1. Len(ran) = 0 BY <1>1
  <2> QED BY <2>1 DEF RanRight
<1> QED BY <1>2, <1>5, <1>6 DEF GuestStory, InTurn

LEMMA StepStory == ASSUME IInv, Story, [Next]_vars PROVE Story'
<1>1. UNCHANGED cfg
  BY DEF Next, GuestStep, Driver, Ended, vars, guest, script, Script, PowerOff, Reclaim, Panic, Poll,
     Deadline, Interrupt, Return, Unwind, Killed, EndMachine,
     Printed, Start, TuneS3, TuneClient, TuneNic, FetchBinary, FetchAnyBlob, FetchWrk, FetchDuckdb,
     Fetched, RunBench, RunAnyBlob, RunWrk, CpuProbe, SetupViews, FetchAnswers, Query, HttpProfile,
     Summary, Finally
<1>2. ManyTurns' = ManyTurns BY <1>1 DEF ManyTurns, IsDuckdb
<1> SUFFICES ASSUME ManyTurns PROVE GuestStory' /\ Ordered(text)' BY <1>2 DEF Story
<1>3. GuestInv /\ GuestStory /\ Ordered(text) BY DEF IInv, Story
<1>4. ASSUME UNCHANGED text PROVE Ordered(text)' BY <1>3, <1>4 DEF Ordered
<1>5. ASSUME UNCHANGED script, UNCHANGED con PROVE GuestStory'
  BY <1>3, <1>5, StorySilent DEF script
<1>6. CASE GuestStep
  <2>1. UNCHANGED text BY <1>6 DEF GuestStep, driver
  <2>2. CASE Script \/ Panic BY <1>3, <1>4, <2>1, <2>2, ScriptStory
  <2>3. CASE PowerOff \/ Reclaim BY <1>4, <1>5, <2>1, <2>3 DEF PowerOff, Reclaim
  <2> QED BY <1>6, <2>2, <2>3 DEF GuestStep
<1>7. CASE Poll
  <2>1. UNCHANGED guest /\ text' = IF Longer(Output) THEN Output ELSE text BY <1>7 DEF Poll
  <2>2. GuestStory' BY <1>5, <2>1 DEF guest
  <2>3. Ordered(text') BY <1>3, <2>1, OutputInTurn DEF GuestStory, InTurn
  <2> QED BY <2>2, <2>3 DEF Ordered
<1>8. CASE Deadline \/ Interrupt \/ Killed
  <2>1. UNCHANGED guest /\ text' \in {text, <<>>} BY <1>8 DEF Deadline, Interrupt, Killed
  <2>2. GuestStory' BY <1>5, <2>1 DEF guest
  <2>3. Ordered(text') BY <1>3, <2>1, OrderedFew
  <2> QED BY <2>2, <2>3 DEF Ordered
<1>9. CASE Return \/ Unwind
  <2>1. UNCHANGED text /\ UNCHANGED <<script, con>> BY <1>9 DEF Return, Unwind, EndMachine
  <2> QED BY <1>4, <1>5, <2>1
<1>10. CASE UNCHANGED vars BY <1>4, <1>5, <1>10 DEF vars, guest, driver
<1> QED BY <1>6, <1>7, <1>8, <1>9, <1>10 DEF Next, Driver, Ended

\* Of a run of several queries, the console and what the driver has read of it are in the
\* order of the turns: a query's own line, echoed or not, before what its profile says and
\* before those of the next, each with the time and the answer that the guest noted; the
\* card is shown once, and a sum counts all the queries.
THEOREM ConsoleIsInTurn == Spec => []Story
BY InitStory, StepStory, Inductive, PTL DEF Spec

-----------------------------------------------------------------------------
(***************************************************************************)
(* A row for each query, in its turn.                                      *)
(***************************************************************************)
LEMMA Ends ==
    ASSUME NEW N \in Nat, NEW S \in SUBSET (1..N), S # {}
    PROVE  (\E i \in S : \A j \in S : i <= j) /\ (\E i \in S : \A j \in S : j <= i)
<1> DEFINE rank(i) == Cardinality({j \in S : j <= i})
           c == Cardinality(S)
<1>1. /\ c \in Nat /\ c > 0
      /\ \A i \in S : rank(i) \in 1..c
      /\ \A i, k \in S : i < k => rank(i) < rank(k)
      /\ \A n \in 1..c : \E i \in S : rank(i) = n
  BY Ranked
<1>2. S \subseteq Nat OBVIOUS
<1> HIDE DEF rank, c
<1>3. 1 \in 1..c /\ c \in 1..c BY <1>1
<1>4. PICK i \in S : rank(i) = 1 BY <1>1, <1>3
<1>5. PICK k \in S : rank(k) = c BY <1>1, <1>3
<1>6. \A j \in S : i <= j BY <1>1, <1>2, <1>4
<1>7. \A j \in S : j <= k BY <1>1, <1>2, <1>5
<1> QED BY <1>6, <1>7

\* What climbs without a gap counts.
Climbs(f, c, N) ==
    /\ f \in [1..c -> 1..N]
    /\ \A m, n \in 1..c : m < n => f[m] < f[n]
    /\ \A k \in 1..N : \E n \in 1..c : f[n] = k

LEMMA Steady ==
    ASSUME NEW c \in Nat, NEW N \in Nat, NEW f, Climbs(f, c, N)
    PROVE  c = N /\ \A n \in 1..c : f[n] = n
<1> USE DEF Climbs
<1>1. ASSUME NEW n \in 1..c PROVE f[n] = n
  <2> DEFINE k == f[n]
             g == [m \in 1..n |-> f[m]]
  <2>1. k \in 1..N OBVIOUS
  <2>2. ASSUME NEW m \in 1..n PROVE f[m] \in 1..k
    <3>1. m \in 1..c /\ (m < n \/ m = n) OBVIOUS
    <3>2. f[m] \in 1..N /\ (f[m] < k \/ f[m] = k) BY <3>1
    <3> HIDE DEF k
    <3> QED BY <2>1, <3>2
  <2>3. ASSUME NEW l \in 1..n, NEW m \in 1..n, f[l] = f[m] PROVE l = m
    <3>1. l \in 1..c /\ m \in 1..c OBVIOUS
    <3>2. f[l] \in Nat /\ f[m] \in Nat BY <3>1
    <3>3. ~(l < m) /\ ~(m < l) BY <2>3, <3>1, <3>2
    <3> QED BY <3>1, <3>3
  <2>4. ASSUME NEW i \in 1..k PROVE \E m \in 1..n : f[m] = i
    <3>1. i \in 1..N BY <2>1
    <3>2. PICK m \in 1..c : f[m] = i BY <3>1
    <3>3. n < m => k < i BY <3>2
    <3>4. ~(n < m)
      <4> HIDE DEF k
      <4> QED BY <2>1, <3>3
    <3>5. m \in 1..n BY <3>4
    <3> QED BY <3>2, <3>5
  <2>5. g \in [1..n -> 1..k] BY <2>2
  <2>6. \A m \in 1..n : g[m] = f[m] OBVIOUS
  <2> HIDE DEF g, k
  <2>7. g \in Injection(1..n, 1..k) BY <2>3, <2>5, <2>6 DEF Injection, IsInjective
  <2>8. g \in Surjection(1..n, 1..k) BY <2>4, <2>5, <2>6 DEF Surjection
  <2>9. /\ IsFiniteSet(1..k) /\ Cardinality(1..k) = k /\ Cardinality(1..n) = n
    <3>1. \A m \in Nat \ {0} : IsFiniteSet(1..m) /\ Cardinality(1..m) = m
      <4> SUFFICES ASSUME NEW m \in Nat \ {0} PROVE IsFiniteSet(1..m) /\ Cardinality(1..m) = m
        OBVIOUS
      <4>1. IsFiniteSet(1..m) /\ Cardinality(1..m) = IF 1 > m THEN 0 ELSE m - 1 + 1
        BY FS_Interval
      <4> QED BY <4>1
    <3>2. k \in Nat \ {0} /\ n \in Nat \ {0} BY <2>1
    <3> QED BY <3>1, <3>2
  <2>10. Cardinality(1..n) = Cardinality(1..k) BY <2>7, <2>8, <2>9, FS_Injection
  <2> QED BY <2>9, <2>10 DEF k
<1>2. c <= N
  <2> SUFFICES ASSUME c > 0 PROVE c <= N OBVIOUS
  <2>1. c \in 1..c OBVIOUS
  <2>2. f[c] = c /\ f[c] \in 1..N BY <1>1, <2>1
  <2> QED BY <2>2
<1>3. N <= c
  <2> SUFFICES ASSUME N > 0 PROVE N <= c OBVIOUS
  <2>1. N \in 1..N OBVIOUS
  <2>2. PICK n \in 1..c : f[n] = N BY <2>1
  <2> QED BY <1>1, <2>2
<1> QED BY <1>1, <1>2, <1>3

\* Two queries in a row that are told apart by what they say.
LEMMA Unlike ==
    ASSUME NEW i, Distinct(i), RanRight, i \in 1..Len(ran), i + 1 \in 1..Len(ran)
    PROVE  ~SameLine(HeadOf(i + 1), HeadOf(i))
<1> DEFINE a == ran[i]   b == ran[i + 1]
<1>1. /\ a.ms = 0 => a.match = None
      /\ b.ms = 0 => b.match = None
      /\ a.q # b.q \/ a.ms # b.ms \/ a.match # b.match
  BY DEF RanRight, Distinct
<1> DEFINE v(r) == [ms |-> r.ms, match |-> r.match]
<1>2. \A r, s : v(r) = v(s) => v(r).ms = v(s).ms /\ v(r).match = v(s).match OBVIOUS
<1>3. \A r : v(r).ms = r.ms /\ v(r).match = r.match OBVIOUS
<1>4. \A j : /\ ran[j].ms = 0 => HeadOf(j).k = "fail"
             /\ ran[j].ms # 0 => HeadOf(j).k = "ms" /\ HeadOf(j).v = v(ran[j])
             /\ HeadOf(j).q = ran[j].q
  BY DEF HeadOf, Line
<1> HIDE DEF a, b, v
<1>5. /\ a.ms = 0 => HeadOf(i).k = "fail"
      /\ a.ms # 0 => HeadOf(i).k = "ms" /\ HeadOf(i).v = v(a)
      /\ HeadOf(i).q = a.q
  BY <1>4 DEF a
<1>6. /\ b.ms = 0 => HeadOf(i + 1).k = "fail"
      /\ b.ms # 0 => HeadOf(i + 1).k = "ms" /\ HeadOf(i + 1).v = v(b)
      /\ HeadOf(i + 1).q = b.q
  BY <1>4 DEF b
<1> QED BY <1>1, <1>2, <1>3, <1>5, <1>6 DEF SameLine

\* A text of all the turns, in order: what the proofs below share.
AllHeard ==
    /\ text \in Seq(Words) /\ Len(ran) \in Nat /\ RanRight /\ Ordered(text)
    /\ \A p \in 1..Len(text) :
          /\ OfTurn(text[p]) => text[p].t \in 1..Len(ran)
          /\ IsHead(text[p]) => text[p] = HeadOf(text[p].t)
    /\ \A i \in 1..Len(ran) - 1 : Distinct(i)
    /\ Heard = 1..Len(ran)

Before(s, i) == {j \in HeadsAt(s) : j < i /\ \A k \in HeadsAt(s) : ~(j < k /\ k < i)}
Starts(s) == {i \in HeadsAt(s) : \A j \in Before(s, i) : ~SameLine(s[i], s[j])}

\* The heads of a text of all the turns are the first lines of each.
LEMMA StartsClimb ==
    ASSUME AllHeard
    PROVE  /\ \A i \in HeadsAt(text) : text[i].t \in 1..Len(ran) /\ text[i] = HeadOf(text[i].t)
           /\ \A i, j \in HeadsAt(text) : i < j => text[i].t <= text[j].t
           /\ \A i \in HeadsAt(text), j \in Starts(text) : i < j => text[i].t < text[j].t
           /\ \A k \in 1..Len(ran) : \E i \in Starts(text) : text[i].t = k
<1> DEFINE raw == HeadsAt(text)
           t(i) == text[i].t
           N == Len(ran)
<1>1. raw \in SUBSET (1..Len(text)) /\ Len(text) \in Nat /\ N \in Nat /\ text \in Seq(Words)
  BY DEF HeadsAt, AllHeard
<1>2. \A i \in raw : t(i) \in 1..N /\ text[i] = HeadOf(t(i)) /\ IsHead(text[i]) /\ OfTurn(text[i])
  BY DEF HeadsAt, AllHeard, OfTurn
<1>3. ASSUME NEW i \in raw, NEW j \in raw, i < j PROVE t(i) <= t(j)
  <2>1. InPlace(text[i], text[j]) BY <1>1, <1>2, <1>3 DEF AllHeard, Ordered
  <2>2. t(i) < t(j) \/ t(i) = t(j) BY <2>1 DEF InPlace
  <2>3. t(i) \in Nat /\ t(j) \in Nat BY <1>2
  <2> HIDE DEF t
  <2> QED BY <2>2, <2>3
<1>4. ASSUME NEW i \in raw, NEW j \in raw, i < j
      PROVE  \E p \in Before(text, j) : i <= p
  <2> DEFINE S == {p \in raw : p < j}
  <2>1. S \in SUBSET (1..Len(text)) /\ i \in S BY <1>1, <1>4
  <2> HIDE DEF S, raw
  <2>2. PICK p \in S : \A k \in S : k <= p BY <1>1, <2>1, Ends
  <2>3. p \in Nat /\ raw \subseteq Nat BY <1>1, <2>1
  <2>4. p \in raw /\ p < j /\ \A k \in raw : ~(p < k /\ k < j) BY <2>2, <2>3 DEF S
  <2> QED BY <2>1, <2>2, <2>4 DEF Before, raw
<1>5. ASSUME NEW i \in raw, NEW j \in Starts(text), i < j PROVE t(i) < t(j)
  <2>1. j \in raw BY DEF Starts
  <2>2. PICK p \in Before(text, j) : i <= p BY <1>4, <1>5, <2>1
  <2>3. p \in raw /\ p < j /\ ~SameLine(text[j], text[p]) BY DEF Before, Starts
  <2>4. t(p) # t(j)
    <3>1. t(p) = t(j) => text[p] = text[j] BY <1>2, <2>1, <2>3
    <3>2. text[p] = text[j] => SameLine(text[j], text[p]) BY DEF SameLine
    <3> QED BY <2>3, <3>1, <3>2
  <2>5. t(p) <= t(j) BY <1>3, <2>1, <2>3
  <2>6. t(i) <= t(p)
    <3>1. i = p \/ i < p BY <1>1, <2>2, <2>3
    <3>2. t(i) \in Nat BY <1>2
    <3>3. t(i) <= t(i)
      <4> HIDE DEF t
      <4> QED BY <3>2
    <3> QED BY <1>3, <2>3, <3>1, <3>3
  <2>7. t(i) \in Nat /\ t(p) \in Nat /\ t(j) \in Nat BY <1>2, <2>1, <2>3
  <2> HIDE DEF t
  <2> QED BY <2>4, <2>5, <2>6, <2>7
<1>6. ASSUME NEW k \in 1..N PROVE \E i \in raw : t(i) = k
  BY DEF AllHeard, Heard, HeadsAt
<1>7. ASSUME NEW k \in 1..N PROVE \E i \in Starts(text) : t(i) = k
  <2> DEFINE S == {i \in raw : t(i) = k}
  <2>1. S \in SUBSET (1..Len(text)) /\ S # {} BY <1>1, <1>6
  <2>2. PICK i \in S : \A j \in S : i <= j
    <3> HIDE DEF S
    <3> QED BY <1>1, <2>1, Ends
  <2>3. i \in raw /\ t(i) = k /\ text[i] = HeadOf(k) BY <1>2
  <2>4. ASSUME NEW p \in Before(text, i) PROVE ~SameLine(text[i], text[p])
    <3>1. p \in raw /\ p < i /\ \A j \in raw : ~(p < j /\ j < i) BY DEF Before
    <3>2. t(p) <= k BY <1>3, <2>3, <3>1
    <3>3. t(p) # k
      <4>1. p \in Nat /\ i \in Nat BY <1>1, <2>3, <3>1
      <4>2. p \notin S BY <2>2, <3>1, <4>1
      <4> QED BY <3>1, <4>2
    <3>4. t(p) \in 1..N BY <1>2, <3>1
    <3> HIDE DEF t, S
    <3>5. k - 1 \in 1..N /\ t(p) <= k - 1 /\ N \in Nat BY <1>1, <3>2, <3>3, <3>4
    <3> HIDE DEF N
    <3>6. PICK j \in raw : t(j) = k - 1 BY <1>6, <3>5
    <3>7. j \in Nat /\ i \in Nat /\ p \in Nat BY <1>1, <2>3, <3>1
    <3>8. ~(i < j)
      <4>1. i < j => k <= k - 1 BY <1>3, <2>3, <3>6
      <4> QED BY <4>1, <3>5
    <3>9. i # j BY <2>3, <3>5, <3>6
    <3>10. j = p \/ j < p BY <3>1, <3>7, <3>8, <3>9
    <3>11. t(p) = k - 1
      <4>1. j < p => k - 1 <= t(p) BY <1>3, <3>1, <3>6
      <4> QED BY <3>4, <3>5, <3>6, <3>10, <4>1
    <3>12. text[p] = HeadOf(k - 1) BY <1>2, <3>1, <3>11
    <3>13. Distinct(k - 1)
      <4>1. k - 1 \in 1..N - 1 BY <3>5
      <4> QED BY <4>1 DEF AllHeard, N
    <3>14. (k - 1) + 1 = k BY <3>5
    <3>15. ~SameLine(HeadOf(k), HeadOf(k - 1))
      <4>1. \A m : m = k - 1 /\ m + 1 = k => ~SameLine(HeadOf(m + 1), HeadOf(m))
        BY <3>5, <3>13, Unlike DEF AllHeard, N
      <4> QED BY <3>14, <4>1
    <3> QED BY <2>3, <3>12, <3>15
  <2>5. i \in Starts(text) BY <2>3, <2>4 DEF Starts
  <2> QED BY <2>3, <2>5
<1> QED BY <1>2, <1>3, <1>5, <1>7

\* So the n-th of the heads is the n-th query's line, and between it and the next head all
\* that is of a turn is of the n-th.
LEMMA HeadsAreTurns ==
    ASSUME AllHeard
    PROVE  /\ Len(Heads(text)) = Len(ran)
           /\ \A n \in 1..Len(ran) :
                 /\ Heads(text)[n] \in 1..Len(text)
                 /\ text[Heads(text)[n]] = HeadOf(n) /\ text[Heads(text)[n]].t = n
                 /\ IsHead(text[Heads(text)[n]])
           /\ \A m, n \in 1..Len(ran) : m < n => Heads(text)[m] < Heads(text)[n]
           /\ \A n \in 1..Len(ran), p \in 1..Len(text) :
                 /\ OfTurn(text[p]) /\ Heads(text)[n] <= p
                 /\ n < Len(ran) => p < Heads(text)[n + 1]
                 => text[p].t = n
<1> DEFINE raw == HeadsAt(text)
           T == Starts(text)
           h == Heads(text)
           N == Len(ran)
           c == Cardinality(T)
<1>1. /\ \A i \in raw : text[i].t \in 1..N /\ text[i] = HeadOf(text[i].t)
      /\ \A i \in raw, j \in T : i < j => text[i].t < text[j].t
      /\ \A k \in 1..N : \E i \in T : text[i].t = k
  BY StartsClimb
<1>2. /\ raw \in SUBSET (1..Len(text)) /\ T \in SUBSET raw /\ T \in SUBSET (1..Len(text))
      /\ Len(text) \in Nat /\ N \in Nat /\ \A i \in raw : IsHead(text[i])
  BY DEF AllHeard, HeadsAt, Starts
<1>3. h = InOrder(T) BY DEF Heads, Starts, Before
<1>4. /\ Len(h) = c /\ c \in Nat
      /\ \A n \in 1..c : h[n] \in T
      /\ \A m, n \in 1..c : m < n => h[m] < h[n]
      /\ \A i \in T : \E n \in 1..c : h[n] = i
  <2> HIDE DEF T
  <2> QED BY <1>2, <1>3, Listed
<1> HIDE DEF T, h, c, raw, N
<1> DEFINE f == [n \in 1..c |-> text[h[n]].t]
<1>5. f \in [1..c -> 1..N] BY <1>1, <1>2, <1>4
<1>6. \A n \in 1..c : f[n] = text[h[n]].t OBVIOUS
<1> HIDE DEF f
<1>7. ASSUME NEW m \in 1..c, NEW n \in 1..c, m < n PROVE f[m] < f[n]
  <2>1. h[m] \in raw /\ h[n] \in T /\ h[m] < h[n] BY <1>2, <1>4, <1>7
  <2>2. text[h[m]].t < text[h[n]].t BY <1>1, <2>1
  <2> QED BY <1>6, <2>2
<1>8. ASSUME NEW k \in 1..N PROVE \E n \in 1..c : f[n] = k
  <2>1. PICK i \in T : text[i].t = k BY <1>1
  <2>2. PICK n \in 1..c : h[n] = i BY <1>4
  <2> QED BY <1>6, <2>1, <2>2
<1>9. c = N /\ \A n \in 1..c : f[n] = n
  <2>1. c \in Nat /\ N \in Nat BY <1>2, <1>4
  <2>2. Climbs(f, c, N) BY <1>5, <1>7, <1>8 DEF Climbs
  <2> QED BY <2>1, <2>2, Steady
<1>10. ASSUME NEW n \in 1..N
       PROVE  /\ h[n] \in T /\ h[n] \in raw /\ h[n] \in 1..Len(text)
              /\ text[h[n]].t = n /\ text[h[n]] = HeadOf(n) /\ IsHead(text[h[n]])
  <2>1. h[n] \in T BY <1>4, <1>9
  <2>2. h[n] \in raw /\ h[n] \in 1..Len(text) BY <1>2, <2>1
  <2>3. text[h[n]].t = n BY <1>6, <1>9
  <2> QED BY <1>1, <1>2, <2>1, <2>2, <2>3
<1>11. ASSUME NEW n \in 1..N, NEW p \in 1..Len(text), OfTurn(text[p]), h[n] <= p,
              n < N => p < h[n + 1]
       PROVE  text[p].t = n
  <2>1. text[p].t \in 1..N BY <1>11 DEF AllHeard, N
  <2>2. text[h[n]].t = n /\ h[n] \in 1..Len(text) /\ OfTurn(text[h[n]]) BY <1>10 DEF OfTurn
  <2>3. n <= text[p].t
    <3>1. h[n] = p \/ h[n] < p BY <1>11, <2>2
    <3>2. CASE h[n] = p BY <2>2, <3>2
    <3>3. CASE h[n] < p
      <4>1. InPlace(text[h[n]], text[p]) BY <1>11, <2>2, <3>3 DEF AllHeard, Ordered
      <4>2. n < text[p].t \/ n = text[p].t BY <2>2, <4>1 DEF InPlace
      <4> QED BY <2>1, <4>2
    <3> QED BY <3>1, <3>2, <3>3
  <2>4. CASE n < N
    <3>1. n + 1 \in 1..N BY <1>2, <2>4
    <3> DEFINE q == h[n + 1]
    <3>2. q \in T /\ q \in 1..Len(text) /\ text[q].t = n + 1 /\ IsHead(text[q]) /\ p < q
      BY <1>10, <1>11, <2>4, <3>1
    <3> HIDE DEF q
    <3>3. InPlace(text[p], text[q]) BY <1>11, <3>2 DEF AllHeard, Ordered, OfTurn
    <3>4. text[p].t < n + 1 \/ (text[p].t = n + 1 /\ IsHead(text[p])) BY <3>2, <3>3 DEF InPlace
    <3>5. IsHead(text[p]) => text[p].t < n + 1
      <4> SUFFICES ASSUME IsHead(text[p]) PROVE text[p].t < n + 1 OBVIOUS
      <4>1. p \in raw BY DEF raw, HeadsAt
      <4> QED BY <1>1, <3>2, <4>1
    <3>6. text[p].t < n + 1 BY <3>4, <3>5
    <3> QED BY <2>1, <2>3, <3>6
  <2>5. CASE ~(n < N) BY <1>2, <2>1, <2>3, <2>5
  <2> QED BY <2>4, <2>5
<1>12. Len(h) = N /\ \A m, n \in 1..N : m < n => h[m] < h[n] BY <1>4, <1>9
<1> QED BY <1>10, <1>11, <1>12 DEF h, N

\* Every line of r is in s, from a to b.
Within(r, s, a, b) == \A l \in Lines(r) : \E p \in 1..Len(s) : a <= p /\ p <= b /\ l = s[p]

LEMMA PlacesOfPart ==
    ASSUME NEW S, NEW s \in Seq(S), NEW a \in Nat \ {0}, NEW b \in Nat, a <= b, b <= Len(s)
    PROVE  /\ SubSeq(s, a, b) \in Seq(S) /\ s[a] \in Lines(SubSeq(s, a, b))
           /\ Within(SubSeq(s, a, b), s, a, b)
<1> DEFINE r == SubSeq(s, a, b)
<1>1. /\ r \in Seq(S) /\ Len(s) \in Nat /\ Len(r) = b - a + 1
      /\ \A i \in 1..Len(r) : r[i] = s[a + i - 1]
  OBVIOUS
<1> HIDE DEF r
<1>2. s[a] \in Lines(r)
  <2>1. 1 \in 1..Len(r) /\ a + 1 - 1 = a BY <1>1
  <2>2. r[1] = s[a] BY <1>1, <2>1
  <2> QED BY <2>1, <2>2 DEF Lines
<1>3. ASSUME NEW l \in Lines(r) PROVE \E p \in 1..Len(s) : a <= p /\ p <= b /\ l = s[p]
  <2>1. PICK i \in 1..Len(r) : l = r[i] BY DEF Lines
  <2>2. a + i - 1 \in 1..Len(s) /\ a <= a + i - 1 /\ a + i - 1 <= b BY <1>1
  <2>3. l = s[a + i - 1] BY <1>1, <2>1
  <2> QED BY <2>2, <2>3
<1> QED BY <1>1, <1>2, <1>3 DEF r, Within

\* What parse finds of some kinds, if all of them say the same.
LEMMA FoundOf ==
    ASSUME NEW s \in Seq(Words), NEW k, k # "nothing"
    PROVE  /\ First(s, {k}).k = k => First(s, {k}) \in Lines(s)
           /\ First(s, {k}).t = 0 \/ (First(s, {k}) \in Lines(s) /\ First(s, {k}).k = k)
           /\ (\E l \in Lines(s) : l.k = k) => First(s, {k}) \in Lines(s) /\ First(s, {k}).k = k
<1> DEFINE f == First(s, {k})
           no == Line("nothing", 0, 0, None)
<1>1. \/ f = no /\ \A i \in 1..Len(s) : s[i].k \notin {k}
      \/ f \in Lines(s) /\ f.k \in {k}
  BY FirstFound
<1>2. no.k = "nothing" /\ no.t = 0 BY DEF Line
<1>3. (\A i \in 1..Len(s) : s[i].k \notin {k}) => \A l \in Lines(s) : l.k # k BY DEF Lines
<1> HIDE DEF f, no
<1>4. /\ f.k = k => f \in Lines(s)
      /\ f.t = 0 \/ (f \in Lines(s) /\ f.k = k)
      /\ (\E l \in Lines(s) : l.k = k) => f \in Lines(s) /\ f.k = k
  BY <1>1, <1>2, <1>3
<1> QED BY <1>4 DEF f

\* The part of the n-th turn.
LEMMA SliceOfTurn ==
    ASSUME AllHeard, NEW n \in 1..Len(ran), NEW e,
           e = IF n < Len(Heads(text)) THEN Heads(text)[n + 1] - 1 ELSE Len(text)
    PROVE  LET s == SubSeq(text, Heads(text)[n], e)
           IN /\ s \in Seq(Words) /\ Lines(s) \subseteq Lines(text) /\ HeadOf(n) \in Lines(s)
              /\ \A l \in Lines(s) : (OfTurn(l) => l.t = n) /\ (IsHead(l) => l = HeadOf(n))
<1> DEFINE h == Heads(text)
           N == Len(ran)
           s == SubSeq(text, h[n], e)
<1>1. /\ Len(h) = N /\ N \in Nat /\ text \in Seq(Words) /\ Len(text) \in Nat
      /\ \A i \in 1..N : h[i] \in 1..Len(text) /\ text[h[i]] = HeadOf(i)
      /\ \A m, i \in 1..N : m < i => h[m] < h[i]
      /\ \A p \in 1..Len(text) :
                 OfTurn(text[p]) /\ h[n] <= p /\ (n < N => p < h[n + 1]) => text[p].t = n
  BY HeadsAreTurns DEF AllHeard
<1>2. \A p \in 1..Len(text) : IsHead(text[p]) => text[p] = HeadOf(text[p].t) /\ OfTurn(text[p])
  BY DEF AllHeard, OfTurn
<1>3. e = IF n < N THEN h[n + 1] - 1 ELSE Len(text) BY <1>1
<1> HIDE DEF h, N
<1>4. n \in 1..N BY DEF N
<1>5. /\ h[n] \in Nat \ {0} /\ e \in Nat /\ h[n] <= e /\ e <= Len(text)
      /\ \A p \in Nat : p <= e /\ n < N => p < h[n + 1]
  <2>1. CASE n < N
    <3>1. n + 1 \in 1..N BY <1>1, <1>4, <2>1
    <3>2. h[n] \in 1..Len(text) /\ h[n + 1] \in 1..Len(text) /\ h[n] < h[n + 1]
      BY <1>1, <1>4, <3>1
    <3> QED BY <1>1, <1>3, <2>1, <3>2
  <2>2. CASE ~(n < N)
    <3>1. h[n] \in 1..Len(text) BY <1>1, <1>4
    <3> QED BY <1>1, <1>3, <2>2, <3>1
  <2> QED BY <2>1, <2>2
<1>6. /\ s \in Seq(Words) /\ text[h[n]] \in Lines(s)
      /\ \A l \in Lines(s) : \E p \in 1..Len(text) : h[n] <= p /\ p <= e /\ l = text[p]
  <2> DEFINE a == h[n]
             r == SubSeq(text, a, e)
  <2>1. a \in Nat \ {0} /\ e \in Nat /\ a <= e /\ e <= Len(text) /\ text \in Seq(Words)
    BY <1>1, <1>5
  <2> HIDE DEF a
  <2>2. r \in Seq(Words) /\ text[a] \in Lines(r) /\ Within(r, text, a, e)
    BY <2>1, PlacesOfPart
  <2> QED BY <2>2 DEF a, Within
<1> HIDE DEF s
<1>7. ASSUME NEW l \in Lines(s)
      PROVE  l \in Lines(text) /\ (OfTurn(l) => l.t = n) /\ (IsHead(l) => l = HeadOf(n))
  <2>1. PICK p \in 1..Len(text) : h[n] <= p /\ p <= e /\ l = text[p] BY <1>6
  <2>2. OfTurn(l) => l.t = n BY <1>1, <1>5, <2>1
  <2> QED BY <1>2, <2>1, <2>2 DEF Lines
<1> QED BY <1>1, <1>4, <1>6, <1>7 DEF s, h

\* What parse makes of it.
LEMMA ParsedTurn ==
    ASSUME RanRight, NEW n \in 1..Len(ran), NEW s \in Seq(Words), HeadOf(n) \in Lines(s),
           \A l \in Lines(s) : (OfTurn(l) => l.t = n) /\ (IsHead(l) => l = HeadOf(n)),
           \A l \in Lines(s) : l.k = "summary" => l.v.total # 1
    PROVE  /\ Parse(s).ms = ran[n].ms /\ Parse(s).match = ran[n].match
           /\ Parse(s).stats \in {0, n} /\ Parse(s).phase \in {0, n} /\ Parse(s).total # 1
           /\ Parse(s).complete = Complete /\ (Parse(s).nicfail <=> Has(s, "nicfail"))
<1> DEFINE ms == First(s, {"ms"})
           sum == First(s, {"summary"})
           P == Parse(s)
<1>1. /\ P.ms = IF ms.k = "ms" THEN ms.v.ms ELSE 0
      /\ P.match = IF ms.k = "ms" THEN ms.v.match ELSE None
      /\ P.total = IF sum.k = "summary" THEN sum.v.total ELSE 0
      /\ P.stats = First(s, {"stats"}).t /\ P.phase = First(s, {"phase"}).t
      /\ P.complete = Complete /\ P.nicfail = Has(s, "nicfail")
  BY DEF Parse
<1>2. /\ ran[n].ms = 0 => HeadOf(n).k = "fail"
      /\ ran[n].ms # 0 => /\ HeadOf(n).k = "ms"
                          /\ HeadOf(n).v.ms = ran[n].ms /\ HeadOf(n).v.match = ran[n].match
  BY DEF HeadOf, Line
<1>3. /\ ms.k = "ms" => ms \in Lines(s)
      /\ (\E l \in Lines(s) : l.k = "ms") => ms.k = "ms"
  BY FoundOf
<1>4. sum.k = "summary" => sum \in Lines(s) BY FoundOf
<1>5. /\ First(s, {"stats"}).t = 0 \/ (First(s, {"stats"}) \in Lines(s) /\ First(s, {"stats"}).k = "stats")
      /\ First(s, {"phase"}).t = 0 \/ (First(s, {"phase"}) \in Lines(s) /\ First(s, {"phase"}).k = "phase")
  BY FoundOf
<1> HIDE DEF ms, sum, P
<1>6. P.stats \in {0, n} /\ P.phase \in {0, n}
  BY <1>1, <1>5 DEF OfTurn
<1>7. P.total # 1 BY <1>1, <1>4
<1>8. P.ms = ran[n].ms /\ P.match = ran[n].match
  <2>1. ms.k = "ms" => ms = HeadOf(n) BY <1>3 DEF IsHead
  <2>2. CASE ran[n].ms = 0
    <3>1. ms.k # "ms" BY <1>2, <2>1, <2>2
    <3>2. ran[n].match = None BY <2>2 DEF RanRight
    <3> QED BY <1>1, <2>2, <3>1, <3>2
  <2>3. CASE ran[n].ms # 0
    <3>1. ms.k = "ms" BY <1>2, <1>3, <2>3
    <3> QED BY <1>1, <1>2, <2>1, <2>3, <3>1
  <2> QED BY <2>2, <2>3
<1> QED BY <1>1, <1>6, <1>7, <1>8 DEF P

\* The n-th row, with what was said of the card before the first.
LEMMA RowOfTurn ==
    ASSUME AllHeard, Len(ran) > 1, NEW n \in 1..Len(ran),
           \A l \in Lines(text) : l.k = "summary" => l.v.total # 1
    PROVE  /\ Len(QueryRows) = Len(ran)
           /\ QueryRows[n].q = ran[n].q /\ QueryRows[n].seq = n
           /\ QueryRows[n].ms = ran[n].ms /\ QueryRows[n].match = ran[n].match
           /\ QueryRows[n].stats \in {0, n} /\ QueryRows[n].phase \in {0, n}
           /\ QueryRows[n].complete = Complete
           /\ ~Has(text, "nicfail") => ~QueryRows[n].nicfail
           /\ QueryRows[n].gro = None => Parse(text).gro = None
           /\ QueryRows[n].queues = 0 => Parse(text).queues = 0
<1> DEFINE h == Heads(text)
           wide == Parse(text)
           end(i) == IF i < Len(h) THEN h[i + 1] - 1 ELSE Len(text)
           part(i) == Parse(SubSeq(text, h[i], end(i)))
           cut(i) == [part(i) EXCEPT !.q = text[h[i]].q, !.seq = i,
                          !.gro = IF @ = None THEN wide.gro ELSE @,
                          !.queues = IF @ = 0 THEN wide.queues ELSE @,
                          !.nicfail = @ \/ wide.nicfail]
           s == SubSeq(text, h[n], end(n))
           P == part(n)
           C == cut(n)
<1>1. /\ Len(h) = Len(ran) /\ text[h[n]] = HeadOf(n) /\ Len(ran) \in Nat
  BY HeadsAreTurns DEF AllHeard
<1>2. Len(QueryRows) = Len(ran) /\ QueryRows[n] = Finish(C)
  <2>1. QueryRows = IF Len(h) <= 1 THEN <<Finish(wide)>> ELSE [i \in 1..Len(h) |-> Finish(cut(i))]
    BY DEF QueryRows
  <2> HIDE DEF h, cut, wide
  <2>2. QueryRows = [i \in 1..Len(ran) |-> Finish(cut(i))] BY <1>1, <2>1
  <2> QED BY <1>1, <2>2
<1>3. /\ s \in Seq(Words) /\ Lines(s) \subseteq Lines(text) /\ HeadOf(n) \in Lines(s)
      /\ \A l \in Lines(s) : (OfTurn(l) => l.t = n) /\ (IsHead(l) => l = HeadOf(n))
  BY SliceOfTurn
<1>4. /\ P.ms = ran[n].ms /\ P.match = ran[n].match
      /\ P.stats \in {0, n} /\ P.phase \in {0, n} /\ P.total # 1
      /\ P.complete = Complete /\ (P.nicfail <=> Has(s, "nicfail"))
  <2>1. RanRight BY DEF AllHeard
  <2> HIDE DEF s
  <2>2. /\ Parse(s).ms = ran[n].ms /\ Parse(s).match = ran[n].match
        /\ Parse(s).stats \in {0, n} /\ Parse(s).phase \in {0, n} /\ Parse(s).total # 1
        /\ Parse(s).complete = Complete /\ (Parse(s).nicfail <=> Has(s, "nicfail"))
    BY <1>3, <2>1, ParsedTurn
  <2> QED BY <2>2 DEF s
<1>5. text[h[n]].q = ran[n].q BY <1>1 DEF HeadOf, Line
<1>6. Has(s, "nicfail") => Has(text, "nicfail")
  <2> HIDE DEF s
  <2>1. \A u : Has(u, "nicfail") <=> \E l \in Lines(u) : l.k = "nicfail" BY DEF Has, Lines
  <2> QED BY <1>3, <2>1
<1>7. wide.nicfail <=> Has(text, "nicfail") BY DEF Parse
<1>8. {"q", "seq", "gro", "queues", "nicfail", "ms", "total"} \subseteq DOMAIN P BY DEF Parse
<1>9. C = [P EXCEPT !.q = text[h[n]].q, !.seq = n,
                    !.gro = IF @ = None THEN wide.gro ELSE @,
                    !.queues = IF @ = 0 THEN wide.queues ELSE @,
                    !.nicfail = @ \/ wide.nicfail]
  OBVIOUS
<1> HIDE DEF P, C, wide, h, s
<1>10. /\ C.q = ran[n].q /\ C.seq = n /\ C.ms = P.ms /\ C.match = P.match /\ C.total = P.total
       /\ C.stats = P.stats /\ C.phase = P.phase /\ C.complete = P.complete
       /\ C.gro = IF P.gro = None THEN wide.gro ELSE P.gro
       /\ C.queues = IF P.queues = 0 THEN wide.queues ELSE P.queues
       /\ {"ms", "total"} \subseteq DOMAIN C
  BY <1>5, <1>8, <1>9
<1>11. C.nicfail = (P.nicfail \/ wide.nicfail) BY <1>8, <1>9
<1> DEFINE F == Finish(C)
<1>12. F = [C EXCEPT !.ms = IF @ = 0 /\ C.total = 1 THEN C.summary ELSE @] BY DEF Finish
<1> HIDE DEF F
<1>13. /\ F.q = C.q /\ F.seq = C.seq /\ F.match = C.match /\ F.stats = C.stats /\ F.phase = C.phase
       /\ F.complete = C.complete /\ F.gro = C.gro /\ F.queues = C.queues
       /\ F.nicfail = C.nicfail
  BY <1>12
<1>14. F.ms = C.ms BY <1>4, <1>10, <1>12
<1>15. QueryRows[n] = F BY <1>2 DEF F
<1>16. ~Has(text, "nicfail") => ~F.nicfail
  <2>1. ~Has(text, "nicfail") => ~P.nicfail /\ ~wide.nicfail BY <1>4, <1>6, <1>7
  <2> QED BY <1>11, <1>13, <2>1
<1>17. /\ F.gro = None => wide.gro = None
       /\ F.queues = 0 => wide.queues = 0
  BY <1>10, <1>13
<1> QED BY <1>2, <1>4, <1>10, <1>13, <1>14, <1>15, <1>16, <1>17 DEF wide

\* A boot of several queries whose lines all reached the driver gives a row for each in its
\* turn, with its own time, answer and statistics or none, and all of them are kept if the
\* guest called the run complete and showed its card as asked.  run_once cuts the text at
\* the queries' lines; the console is in order, and an echo says what its line said.
THEOREM RowsAreOfTheTurns == Spec => []RowsAreTheTurns
<1>1. ASSUME IInv, Story PROVE RowsAreTheTurns
  <2> SUFFICES ASSUME IsDuckdb, rows # <<>>, ~cfg.probe, Len(ran) > 1,
                      \A i \in 1..Len(ran) - 1 : Distinct(i), Heard = 1..Len(ran)
               PROVE  /\ Len(rows) = Len(ran)
                      /\ \A i \in 1..Len(ran) :
                            /\ rows[i].q = ran[i].q /\ rows[i].seq = i
                            /\ rows[i].ms = ran[i].ms /\ rows[i].match = ran[i].match
                            /\ rows[i].stats \in {0, i} /\ rows[i].phase \in {0, i}
                      /\ Complete /\ Tuned /\ ShownTuned /\ ~Has(text, "nicfail") =>
                            Kept = 1..Len(rows)
    BY DEF RowsAreTheTurns
  <2> DEFINE r(i) == QueryRows[i]
             N == Len(ran)
  <2>1. rows = QueryRows BY DEF rows
  <2>2. /\ text \in Seq(Words) /\ Lines(text) \subseteq Told
        /\ ran \in Seq(Run) /\ N <= Len(Queries) /\ Len(Queries) \in Nat /\ cfg \in Configs
    <3>1. cfg \in Configs BY <1>1 DEF IInv, GuestInv, GuestOK
    <3> QED BY <1>1, <3>1, Settings DEF IInv, GuestInv, GuestOK, Turns, DriverOK, Told, Queries
  <2>3. N \in Nat BY <2>2
  <2>4. GuestStory /\ Ordered(text) BY <1>1 DEF Story, ManyTurns
  <2>5. AllHeard
    <3>1. \A p \in 1..Len(text) : text[p] \in Told BY <2>2 DEF Lines
    <3> QED BY <2>2, <2>3, <2>4, <3>1 DEF AllHeard, GuestStory, TurnsSaid
  <2>6. \A l \in Lines(text) : l.k = "summary" => l.v.total # 1
    BY <2>2, <2>3, <2>4 DEF GuestStory, TurnsSaid
  <2>7. \A i \in 1..N :
           /\ Len(QueryRows) = N
           /\ r(i).q = ran[i].q /\ r(i).seq = i
           /\ r(i).ms = ran[i].ms /\ r(i).match = ran[i].match
           /\ r(i).stats \in {0, i} /\ r(i).phase \in {0, i}
           /\ r(i).complete = Complete
           /\ ~Has(text, "nicfail") => ~r(i).nicfail
           /\ r(i).gro = None => Parse(text).gro = None
           /\ r(i).queues = 0 => Parse(text).queues = 0
    BY <2>5, <2>6, RowOfTurn
  <2>8. Len(QueryRows) = N
    <3>1. 1 \in 1..N BY <2>3
    <3> QED BY <2>7, <3>1
  <2>9. ASSUME Complete, Tuned, ShownTuned, ~Has(text, "nicfail"), NEW i \in 1..N
        PROVE  ValidDuckdb(r(i))
    <3>1. ran[i].ms # 0 /\ ran[i].match # "no"
      <4>1. \E l \in Lines(text) : l.k = "COMPLETE" BY <2>9 DEF Complete, Has, Lines
      <4>2. AllSound BY <1>1, <2>2, <4>1 DEF IInv, GuestInv, AllRan
      <4> QED BY <2>4, <4>2 DEF AllSound, GuestStory, RanRight
    <3>2. /\ r(i).gro = None \/ \E l \in Lines(text) : l.k = "nic" /\ r(i).gro = l.v.gro
          /\ r(i).queues = 0 \/ \E l \in Lines(text) : l.k = "nic" /\ r(i).queues = l.v.queues
      BY <2>2, <2>8, RowOf
    <3> DEFINE R == r(i)
               card == First(text, {"nic"})
    <3>3. /\ Parse(text).gro = IF card.k = "nic" THEN card.v.gro ELSE None
          /\ Parse(text).queues = IF card.k = "nic" THEN card.v.queues ELSE 0
      BY DEF Parse
    <3>4. (\E l \in Lines(text) : l.k = "nic") => card \in Lines(text) /\ card.k = "nic"
      BY <2>2, FoundOf
    <3>5. /\ R.ms = ran[i].ms /\ R.match = ran[i].match /\ R.complete = Complete /\ ~R.nicfail
          /\ R.gro = None => Parse(text).gro = None
          /\ R.queues = 0 => Parse(text).queues = 0
      BY <2>7, <2>9
    <3> HIDE DEF R, card, r
    <3>6. ASSUME cfg.gro # "" \/ cfg.queues > 0
          PROVE  R.gro = nic.gro /\ R.queues = nic.queues
      <4>1. PICK l \in Lines(text) : l.k = "nic" /\ l.v = nic
        BY <2>9, <3>6 DEF ShownTuned, Lines
      <4>2. \A m \in Lines(text) : m.k = "nic" => m.v = nic
        BY <2>2, <2>4, <4>1 DEF GuestStory, OneCard
      <4>3. nic.gro # None /\ nic.queues # 0
        <5>1. nic \in Card BY <1>1 DEF IInv, GuestInv, GuestOK
        <5> QED BY <5>1 DEF Card, None, Channels
      <4>4. card.k = "nic" /\ card.v = nic BY <3>4, <4>1, <4>2
      <4>5. R.gro # None /\ R.queues # 0 BY <3>3, <3>5, <4>3, <4>4
      <4> QED BY <3>2, <4>2, <4>5 DEF R
    <3>7. /\ cfg.gro # "" => R.gro = cfg.gro
          /\ cfg.queues > 0 => R.queues = cfg.queues
      BY <2>9, <3>6 DEF Tuned
    <3> QED BY <2>9, <3>1, <3>5, <3>7 DEF ValidDuckdb, R
  <2>10. ASSUME Complete, Tuned, ShownTuned, ~Has(text, "nicfail") PROVE Kept = 1..Len(rows)
    <3>1. cfg.arm = "duckdb" BY DEF IsDuckdb
    <3>2. \A i \in 1..Len(rows) : Valid(rows[i])
      <4> SUFFICES ASSUME NEW i \in 1..Len(rows) PROVE Valid(rows[i]) OBVIOUS
      <4>1. i \in 1..N /\ rows[i] = r(i) BY <2>1, <2>8
      <4>2. ValidDuckdb(r(i)) BY <2>9, <2>10, <4>1
      <4> QED BY <3>1, <4>1, <4>2 DEF Valid
    <3> QED BY <3>2 DEF Kept
  <2> HIDE DEF r
  <2>11. \A i \in 1..N : rows[i] = r(i) BY <2>1 DEF r
  <2>12. Len(rows) = N BY <2>1, <2>8
  <2> QED BY <2>7, <2>10, <2>11, <2>12
<1> QED BY <1>1, ConsoleIsInTurn, Inductive, PTL
=============================================================================
