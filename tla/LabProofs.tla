----------------------------- MODULE LabProofs -----------------------------
(***************************************************************************)
(* Proofs about the three benches of a simulation: its runs and the prices *)
(* they read, the labels of a replay, and the verdict of a study.  Each    *)
(* part says below what it proves and from which invariant.                *)
(***************************************************************************)
EXTENDS MCLab, FiniteLemmas, SequenceTheorems, TLAPS

(***************************************************************************)
(* Proofs about simulation runs and the prices they read, for any          *)
(* configurations, scores, feeds and bounds, and any number of runs,       *)
(* rounds, cancels, restarts, lost calls, reprints and purges:             *)
(*   RunsAlwaysHonest  a row tells whether its run lives, a cancel is      *)
(*                     honoured by every look that comes after it, the     *)
(*                     verdict is of the first of the best rounds          *)
(*   PastNeverChanges  a stored bar with a newer one beside it stays       *)
(*                                                                         *)
(* Neither holds by itself.  StudyInv adds that one job works, on the      *)
(* newest run, that only its row or one that lost a write can still read   *)
(* as live after startup, that an accepted cancel is seen by the next look *)
(* of the job, that the row a job has settled on and not yet written obeys *)
(* the cancels it could see, and that of every two rounds of a search one  *)
(* improved.  StoreInv adds that nothing newer than the day of a sync is   *)
(* stored while it runs, so that the only bar a sync takes out, that of a  *)
(* day not over, is the newest; and a gap is filled by days it lacks.      *)
(***************************************************************************)
Hows == {"", "cancelled", "exhausted", "failed", "round_failed", "no_config", "found",
         "stalled"}

RunType == [status : Live \cup Final \cup {"absent", "purged"}, events : SUBSET Int,
            rounds : Seq(Scores \cup {None}), best : Nat, how : Hows]

JobType == [pc : Places, run : Nat, cfg : Configs \cup {NoJob.cfg}, left : Int, seq : Int,
            rows : SUBSET Int, tests : Seq(Scores \cup {None}), best : Nat, stalled : Nat,
            end : RunType]

Typed ==
    /\ runs \in Seq(RunType) /\ job \in JobType /\ active \in Nat /\ booted \in BOOLEAN
    /\ cancels \in [{active} \ {0} -> BOOLEAN]
    /\ DOMAIN asked \subseteq DOMAIN runs

\* One job at a time, of the newest run, whose row waits for the last write.
Placed ==
    /\ active \in {0, Len(runs)} /\ job.run = active
    /\ active = 0 <=> job.pc = "idle"
    /\ ~booted => active = 0
    /\ active # 0 /\ job.pc # "left" => /\ runs[active].status \in Live \cup {"absent"}
                                       /\ runs[active].rounds = <<>>
    /\ job.pc = "left" /\ runs[active].status \in Live => active \in torn

\* Only the newest run can be live without its job, and only until startup.
Reaped ==
    \A r \in Rows : runs[r].status \in Live
        => r \in torn \/ (r = Len(runs) /\ (booted => r = active))

\* A cancel that was accepted is still set, and no look has passed it over.
Late == {"round", "score", "analyse"}
Flagged ==
    \A r \in DOMAIN asked :
        r = active => cancels[r] /\ (job.pc \in Late => asked[r] \in Late)

Improves(tests, i) == tests[i] # None /\ \A k \in 1..(i - 1) : tests[k] < tests[i]

\* b is the first of the best of tests.
First(tests, b) ==
    /\ \A i \in DOMAIN tests : tests[i] <= tests[b]
    /\ \A i \in 1..(b - 1) : tests[i] < tests[b]

\* The search of a job goes on while one of every two rounds improved.
Searching ==
    /\ job.pc \notin {"round", "score"} => job.tests = <<>>
    /\ job.tests = <<>> => job.best = 0 /\ job.stalled = 0
    /\ job.tests # <<>> =>
          /\ job.best \in DOMAIN job.tests /\ First(job.tests, job.best)
          /\ job.stalled \in {0, 1}
          /\ job.stalled = 0 => Improves(job.tests, Len(job.tests))
          /\ \A i \in 2..Len(job.tests) :
                Improves(job.tests, i) \/ Improves(job.tests, i - 1)

RowBest(row) ==
    row.rounds # <<>> =>
        /\ First(row.rounds, row.best)
        /\ \A i \in 2..(Len(row.rounds) - 1) :
              Improves(row.rounds, i) \/ Improves(row.rounds, i - 1)

\* A row that ends as done although a cancel was accepted while its job was there.
Excused(row, there) ==
    row.status = "done" =>
        /\ there \in Late \cup {"finish", "left"}
        /\ row.rounds # <<>> /\ there \in {"round", "score"} => row.how = "cancelled"

\* The row that a job has settled on.
Decided ==
    job.pc = "finish" =>
        /\ job.end.status \in Final /\ RowBest(job.end)
        /\ active \in DOMAIN asked => Excused(job.end, asked[active])

StudyInv ==
    Typed /\ Placed /\ Reaped /\ Flagged /\ Searching /\ Decided /\ CancelHonoured /\ BestRound

(***************************************************************************)
(* What a write leaves of the rows                                         *)
(***************************************************************************)
LEMMA CancelRows ==
    CancelHonoured <=> \A r \in DOMAIN asked : Excused(runs[r], asked[r])
  BY DEF CancelHonoured, Excused, Late

LEMMA BestRows == BestRound <=> \A r \in DOMAIN runs : RowBest(runs[r])
<1> DEFINE best(r) ==
        LET tests == runs[r].rounds
            b == runs[r].best
            better(i) == tests[i] # None /\ \A k \in 1..(i - 1) : tests[k] < tests[i]
        IN  tests # <<>> =>
                /\ \A i \in DOMAIN tests : tests[i] <= tests[b]
                /\ \A i \in 1..(b - 1) : tests[i] < tests[b]
                /\ \A i \in 2..(Len(tests) - 1) : better(i) \/ better(i - 1)
<1>1. \A r : best(r) <=> RowBest(runs[r]) BY DEF RowBest, First, Improves
<1>2. BestRound <=> \A r \in DOMAIN runs : best(r) BY DEF BestRound
<1> HIDE DEF best
<1> QED BY <1>1, <1>2

\* Only the row of run r changes, and a write that is lost is noted.
Rewritten(r) ==
    /\ runs' \in Seq(RunType) /\ Len(runs') = Len(runs)
    /\ \A q \in 1..Len(runs) : q # r => runs'[q] = runs[q]
    /\ torn \subseteq torn'

LEMMA NoJobTyped == NoJob \in JobType
<1> DEFINE none == NoJob.cfg
           blank == Row("absent")
           cfgs == Configs \cup {none}
           tests == Seq(Scores \cup {None})
<1>1. none \in cfgs /\ <<>> \in tests /\ "idle" \in Places BY DEF Places
<1>2. NoJob = [pc |-> "idle", run |-> 0, cfg |-> none, left |-> 0, seq |-> 0, rows |-> {},
               tests |-> <<>>, best |-> 0, stalled |-> 0, end |-> blank]
  BY DEF NoJob
<1>3. JobType = [pc : Places, run : Nat, cfg : cfgs, left : Int,
                 seq : Int, rows : SUBSET Int, tests : tests,
                 best : Nat, stalled : Nat, end : RunType]
  BY DEF JobType
<1>4. blank \in RunType BY DEF Row, RunType, Hows
<1> DEFINE places == Places
           ends0 == RunType
<1> HIDE DEF none, cfgs, tests, places, blank, ends0
<1>5. [pc |-> "idle", run |-> 0, cfg |-> none, left |-> 0, seq |-> 0, rows |-> {},
       tests |-> <<>>, best |-> 0, stalled |-> 0, end |-> blank] \in
      [pc : places, run : Nat, cfg : cfgs, left : Int, seq : Int, rows : SUBSET Int,
       tests : tests, best : Nat, stalled : Nat, end : ends0]
  BY <1>1, <1>4 DEF places, ends0
<1> QED BY <1>2, <1>3, <1>5 DEF places, ends0

LEMMA JobFields ==
    ASSUME job \in JobType
    PROVE  /\ job.left \in Int /\ job.seq \in Int /\ job.rows \in SUBSET Int
           /\ job.tests \in Seq(Scores \cup {None}) /\ job.best \in Nat /\ job.stalled \in Nat
           /\ job.end \in RunType
           /\ job.cfg.target \in Nat /\ job.cfg.rounds \in Nat
<1>1. job.cfg \in Configs \/ job.cfg = NoJob.cfg BY DEF JobType
<1>2. NoJob.cfg = [target |-> 0, rounds |-> 0, days |-> 0] BY DEF NoJob
<1>3. job.cfg.target \in Nat /\ job.cfg.rounds \in Nat
  BY <1>1, <1>2, StudyAssumption
<1> QED BY <1>3 DEF JobType

LEMMA TheJob ==
    ASSUME Typed, Placed, active # 0
    PROVE  /\ active \in 1..Len(runs) /\ DOMAIN runs = 1..Len(runs)
           /\ runs[active] \in RunType /\ job.run = active /\ booted
           /\ cancels \in [{active} -> BOOLEAN] /\ Cancelled = cancels[active]
<1>1. runs \in Seq(RunType) /\ active = Len(runs) /\ Len(runs) \in Nat /\ booted \in BOOLEAN
  BY DEF Typed, Placed
<1>2. active \in 1..Len(runs) /\ DOMAIN runs = 1..Len(runs) BY <1>1
<1>3. runs[active] \in RunType BY <1>1, <1>2
<1>4. {active} \ {0} = {active} OBVIOUS
<1> QED BY <1>1, <1>2, <1>3, <1>4 DEF Typed, Placed, Cancelled

LEMMA TheRow ==
    ASSUME Typed, Placed, active # 0, job.pc # "left"
    PROVE  /\ active \in 1..Len(runs) /\ DOMAIN runs = 1..Len(runs)
           /\ runs[active] \in RunType /\ job.run = active /\ booted
           /\ cancels \in [{active} -> BOOLEAN] /\ Cancelled = cancels[active]
           /\ runs[active].status \in Live \cup {"absent"}
           /\ runs[active].rounds = <<>>
  BY TheJob DEF Placed

LEMMA PatchRewrites ==
    ASSUME Typed, Placed, active # 0, job.pc # "left", NEW row \in RunType, Patch(row)
    PROVE  /\ Rewritten(active)
           /\ runs'[active] \in {runs[active], row}
           /\ runs'[active] = row \/ runs[active].status = "absent" \/ active \in torn'
<1>1. /\ active \in 1..Len(runs) /\ DOMAIN runs = 1..Len(runs) /\ runs[active] \in RunType
      /\ job.run = active /\ runs[active].status \in Live \cup {"absent"}
  BY TheRow
<1>2. runs \in Seq(RunType) BY DEF Typed
<1>3. CASE UNCHANGED runs /\ active \in torn' /\ torn \subseteq torn'
  BY <1>1, <1>2, <1>3 DEF Rewritten
<1>4. CASE UNCHANGED <<runs, torn>> /\ runs[active].status \in {"absent", "purged"}
  BY <1>1, <1>2, <1>4 DEF Rewritten, Live
<1>5. CASE UNCHANGED torn /\ runs' = [runs EXCEPT ![active] = row]
  <2>1. runs' \in Seq(RunType) /\ Len(runs') = Len(runs)
    BY <1>1, <1>2, <1>5
  <2> QED BY <1>1, <1>2, <1>5, <2>1 DEF Rewritten
<1> QED BY <1>1, <1>3, <1>4, <1>5 DEF Patch

\* A step of a job that goes on.
LEMMA GoesOn ==
    ASSUME StudyInv, active # 0, job.pc # "left", Rewritten(active),
           runs'[active].status \in Live \cup {"absent"}, runs'[active].rounds = <<>>,
           job' \in JobType, job'.run = active, job'.pc \notin {"idle", "left"},
           job'.pc \in Late => job.pc \in Late \/ ~Cancelled,
           Searching', Decided', JobOnly, UNCHANGED <<booted, asked>>
    PROVE  StudyInv'
<1>1. /\ active \in 1..Len(runs) /\ DOMAIN runs = 1..Len(runs) /\ runs[active] \in RunType
      /\ job.run = active /\ booted /\ Cancelled = cancels[active]
  BY TheRow DEF StudyInv
<1>2. active' = active /\ cancels' = cancels BY DEF JobOnly
<1>3. runs \in Seq(RunType) /\ active = Len(runs) BY <1>1 DEF StudyInv, Typed, Placed
<1>4. DOMAIN runs' = 1..Len(runs) BY <1>3 DEF Rewritten
<1>5. Typed' BY <1>1, <1>2, <1>4 DEF StudyInv, Typed, Rewritten
<1>6. Placed' BY <1>1, <1>2, <1>3 DEF StudyInv, Placed, Rewritten
<1>7. Reaped'
  BY <1>1, <1>2, <1>3, <1>4 DEF StudyInv, Reaped, Rows, Rewritten
<1>8. Flagged' BY <1>1, <1>2 DEF StudyInv, Flagged
<1>9. CancelHonoured'
  BY <1>1, <1>3, <1>4 DEF StudyInv, Typed, CancelHonoured, Rewritten, Live
<1>10. BestRound'
  <2>1. \A r \in 1..Len(runs) : RowBest(runs[r]) BY <1>1, BestRows DEF StudyInv
  <2>2. \A r \in 1..Len(runs) : RowBest(runs'[r])
    BY <2>1 DEF RowBest, Rewritten
  <2>3. (BestRound <=> \A r \in DOMAIN runs : RowBest(runs[r]))'
    BY BestRows, PTL
  <2>4. \A r \in DOMAIN runs' : RowBest(runs'[r]) BY <1>4, <2>2
  <2> QED BY <2>3, <2>4
<1> QED BY <1>5, <1>6, <1>7, <1>8, <1>9, <1>10 DEF StudyInv

\* A job settles on its last row, which sees every cancel accepted before.
LEMMA Settled ==
    ASSUME StudyInv, active # 0, job.pc # "left", Rewritten(active),
           runs'[active].status \in Live \cup {"absent"}, runs'[active].rounds = <<>>,
           NEW row \in RunType, Settles(row), row.status \in Final, RowBest(row),
           active \in DOMAIN asked => Excused(row, asked[active]),
           JobOnly, UNCHANGED <<booted, asked>>
    PROVE  StudyInv'
<1>1. job.run = active /\ active \in Nat /\ active' = active BY DEF StudyInv, Placed, Typed, JobOnly
<1>2. job' = [NoJob EXCEPT !.pc = "finish", !.run = active, !.end = row]
  BY <1>1 DEF Settles
<1>3. NoJob \in JobType /\ NoJob.tests = <<>> /\ NoJob.best = 0 /\ NoJob.stalled = 0
  BY NoJobTyped DEF NoJob
<1>4. /\ job' \in JobType /\ job'.pc = "finish" /\ job'.run = active /\ job'.end = row
      /\ job'.tests = <<>> /\ job'.best = 0 /\ job'.stalled = 0
  BY <1>1, <1>2, <1>3 DEF JobType, Places
<1>5. Searching' BY <1>4 DEF Searching
<1>6. Decided' BY <1>1, <1>4 DEF Decided
<1> QED BY <1>4, <1>5, <1>6, GoesOn DEF Late

\* The same, when nothing is written.
LEMMA Ending ==
    ASSUME StudyInv, active # 0, job.pc # "left", NEW row \in RunType, Ends(row),
           row.status \in Final, RowBest(row),
           active \in DOMAIN asked => Excused(row, asked[active]),
           UNCHANGED <<booted, asked>>
    PROVE  StudyInv'
<1>1. /\ runs \in Seq(RunType) /\ runs[active].status \in Live \cup {"absent"}
      /\ runs[active].rounds = <<>>
  BY TheRow DEF StudyInv, Typed
<1>2. Settles(row) /\ JobOnly /\ UNCHANGED <<runs, torn>> BY DEF Ends
<1>3. Rewritten(active) BY <1>1, <1>2 DEF Rewritten
<1> QED BY <1>1, <1>2, <1>3, Settled

\* The last write: the row says so unless it is lost.
LEMMA FinishesStep == ASSUME StudyInv, JobFinishes PROVE StudyInv'
<1>1. active # 0 /\ job.pc = "finish" /\ job \in JobType
  BY DEF StudyInv, Typed, Placed, JobFinishes
<1>2. /\ active \in 1..Len(runs) /\ DOMAIN runs = 1..Len(runs) /\ runs[active] \in RunType
      /\ job.run = active /\ booted /\ active \in Nat
      /\ runs[active].status \in Live \cup {"absent"} /\ runs[active].rounds = <<>>
  BY <1>1, TheRow DEF StudyInv, Typed
<1> DEFINE row == job.end
<1>3. /\ row \in RunType /\ row.status \in Final /\ RowBest(row)
      /\ active \in DOMAIN asked => Excused(row, asked[active])
  BY <1>1, JobFields DEF StudyInv, Decided
<1>4. /\ UNCHANGED <<active, cancels, booted, asked>> /\ Patch(row)
      /\ job' = [NoJob EXCEPT !.pc = "left", !.run = active]
  BY <1>2 DEF JobFinishes, JobOnly, OthersStay
<1> HIDE DEF row
<1>5. /\ Rewritten(active) /\ runs'[active] \in {runs[active], row}
      /\ runs'[active] = row \/ runs[active].status = "absent" \/ active \in torn'
  BY <1>1, <1>3, <1>4, PatchRewrites DEF StudyInv
<1>6. runs \in Seq(RunType) /\ active = Len(runs) BY <1>2 DEF StudyInv, Typed, Placed
<1>7. DOMAIN runs' = 1..Len(runs) BY <1>5, <1>6 DEF Rewritten
<1>8. /\ job' \in JobType /\ job'.pc = "left" /\ job'.run = active
      /\ job'.tests = <<>> /\ job'.best = 0 /\ job'.stalled = 0
  <2>1. NoJob \in JobType /\ NoJob.tests = <<>> /\ NoJob.best = 0 /\ NoJob.stalled = 0
    BY NoJobTyped DEF NoJob
  <2> QED BY <1>2, <1>4, <2>1 DEF JobType, Places
<1>9. Typed' BY <1>4, <1>5, <1>7, <1>8 DEF StudyInv, Typed, Rewritten
<1>10. Placed'
  <2>1. runs'[active].status \in Live => active \in torn'
    BY <1>3, <1>5 DEF Live, Final
  <2> QED BY <1>1, <1>2, <1>4, <1>5, <1>6, <1>8, <2>1 DEF StudyInv, Placed, Rewritten
<1>11. Reaped'
  BY <1>2, <1>4, <1>5, <1>6, <1>7 DEF StudyInv, Reaped, Rows, Rewritten
<1>12. Flagged' BY <1>4, <1>8 DEF StudyInv, Flagged, Late
<1>13. CancelHonoured'
  <2>1. \A r \in DOMAIN asked : Excused(runs[r], asked[r]) BY CancelRows DEF StudyInv
  <2>2. ASSUME NEW r \in DOMAIN asked PROVE Excused(runs'[r], asked[r])
    <3>1. CASE r = active
      BY <1>2, <1>3, <1>5, <2>1, <2>2, <3>1
    <3>2. CASE r # active
      <4>1. r \in 1..Len(runs) BY <1>2, <2>2 DEF StudyInv, Typed
      <4> QED BY <1>5, <2>1, <3>2, <4>1 DEF Rewritten
    <3> QED BY <3>1, <3>2
  <2>3. (CancelHonoured <=> \A r \in DOMAIN asked : Excused(runs[r], asked[r]))'
    BY CancelRows, PTL
  <2> QED BY <1>4, <2>2, <2>3
<1>14. BestRound'
  <2>1. \A r \in 1..Len(runs) : RowBest(runs[r]) BY <1>2, BestRows DEF StudyInv
  <2>2. \A r \in 1..Len(runs) : RowBest(runs'[r])
    BY <1>3, <1>5, <2>1 DEF Rewritten
  <2>3. (BestRound <=> \A r \in DOMAIN runs : RowBest(runs[r]))'
    BY BestRows, PTL
  <2> QED BY <1>7, <2>2, <2>3
<1>15. Searching' BY <1>8 DEF Searching
<1>16. Decided' BY <1>8 DEF Decided
<1> QED BY <1>9, <1>10, <1>11, <1>12, <1>13, <1>14, <1>15, <1>16 DEF StudyInv

\* The finally: a row that still reads as live lost its last write.
LEMMA LeavesStep == ASSUME StudyInv, JobLeaves PROVE StudyInv'
<1>1. active # 0 /\ job.pc = "left" BY DEF StudyInv, Placed, JobLeaves
<1>2. /\ active \in 1..Len(runs) /\ DOMAIN runs = 1..Len(runs) /\ job.run = active /\ booted
      /\ cancels \in [{active} -> BOOLEAN]
  BY <1>1, TheJob DEF StudyInv
<1>3. /\ job' = NoJob /\ active' = 0 /\ UNCHANGED <<runs, torn, booted, asked>>
      /\ cancels' = [r \in DOMAIN cancels \ {active} |-> cancels[r]]
  BY <1>2 DEF JobLeaves, OthersStay
<1>4. /\ NoJob.run = 0 /\ NoJob.pc = "idle" /\ NoJob.tests = <<>> /\ NoJob.best = 0
      /\ NoJob.stalled = 0
  BY DEF NoJob
<1>5. Typed'
  <2>1. cancels' \in [{0} \ {0} -> BOOLEAN] BY <1>2, <1>3
  <2> QED BY <1>3, <2>1, NoJobTyped DEF StudyInv, Typed
<1>6. Placed' BY <1>2, <1>3, <1>4 DEF Placed
<1>7. Reaped' BY <1>1, <1>2, <1>3 DEF StudyInv, Placed, Reaped, Rows
<1>8. Flagged'
  <2>1. 0 \notin DOMAIN asked BY DEF StudyInv, Typed
  <2> QED BY <1>3, <2>1 DEF Flagged
<1>9. Searching' BY <1>3, <1>4 DEF Searching
<1>10. Decided' BY <1>3, <1>4 DEF Decided
<1>11. CancelHonoured' BY <1>3 DEF StudyInv, CancelHonoured
<1>12. BestRound' BY <1>3 DEF StudyInv, BestRound
<1> QED BY <1>5, <1>6, <1>7, <1>8, <1>9, <1>10, <1>11, <1>12 DEF StudyInv

\* A step that writes a live row, or none.
LEMMA Continues ==
    ASSUME StudyInv, active # 0, job.pc # "left", NEW row \in RunType,
           \/ Patch(row) /\ row.status \in Live \cup {"absent"} /\ row.rounds = <<>>
           \/ UNCHANGED <<runs, torn>>,
           job' \in JobType, job'.run = active, job'.pc \notin {"idle", "finish", "left"},
           job'.pc \in Late => job.pc \in Late \/ ~Cancelled,
           Searching', JobOnly, UNCHANGED <<booted, asked>>
    PROVE  StudyInv'
<1> Decided' BY DEF Decided
<1>1. /\ active \in 1..Len(runs) /\ runs[active] \in RunType /\ runs \in Seq(RunType)
      /\ runs[active].status \in Live \cup {"absent"} /\ runs[active].rounds = <<>>
  BY TheRow DEF StudyInv, Typed
<1>2. CASE UNCHANGED <<runs, torn>>
  <2>1. Rewritten(active) BY <1>1, <1>2 DEF Rewritten
  <2> QED BY <1>1, <1>2, <2>1, GoesOn
<1>3. CASE Patch(row) /\ row.status \in Live \cup {"absent"} /\ row.rounds = <<>>
  <2>1. Rewritten(active) /\ runs'[active] \in {runs[active], row}
    BY <1>3, PatchRewrites DEF StudyInv
  <2>2. runs'[active].status \in Live \cup {"absent"} /\ runs'[active].rounds = <<>>
    BY <1>1, <1>3, <2>1
  <2> QED BY <2>1, <2>2, GoesOn
<1> QED BY <1>2, <1>3

\* A row that only changes its status keeps the rest.
LEMMA EndedTyped ==
    ASSUME StudyInv, active # 0, job.pc # "left", NEW status \in Live \cup Final
    PROVE  /\ Ended(status) \in RunType /\ Ended(status).status = status
           /\ Ended(status).rounds = <<>> /\ RowBest(Ended(status))
<1>1. runs[active] \in RunType /\ job.run = active /\ runs[active].rounds = <<>>
  BY TheRow DEF StudyInv
<1>2. Ended(status) = [runs[active] EXCEPT !.status = status] BY <1>1 DEF Ended
<1> QED BY <1>1, <1>2 DEF RunType, RowBest

LEMMA TakesStep == ASSUME StudyInv, JobTakes PROVE StudyInv'
<1>1. active # 0 /\ job \in JobType /\ job.pc = "queued"
  BY DEF StudyInv, Typed, Placed, JobTakes
<1>2. Ended("running") \in RunType /\ Ended("running").status = "running"
      /\ Ended("running").rounds = <<>>
  BY <1>1, EndedTyped DEF Live
<1>3. job' \in JobType /\ job'.run = active /\ job'.pc = "fetch"
  BY <1>1 DEF JobTakes, JobType, Places, StudyInv, Placed
<1>4. Searching' BY <1>1, <1>3 DEF Searching, JobTakes, StudyInv, JobType
<1>5. UNCHANGED <<booted, asked>> /\ JobOnly BY DEF JobTakes, OthersStay
<1> QED BY <1>1, <1>2, <1>3, <1>4, <1>5, Continues DEF JobTakes, Live, Late

LEMMA LoadsStep == ASSUME StudyInv, JobLoads PROVE StudyInv'
<1>1. active # 0 /\ job \in JobType /\ job.pc = "fetch"
  BY DEF StudyInv, Typed, Placed, JobLoads
<1>2. runs[active] \in RunType BY <1>1, TheRow DEF StudyInv
<1>3. job' \in JobType /\ job'.run = active /\ job'.pc \in {"fetch", "fetched"}
      /\ job'.tests = job.tests /\ job'.best = job.best /\ job'.stalled = job.stalled
  BY <1>1 DEF JobLoads, JobType, Places, StudyInv, Placed
<1>4. Searching' BY <1>1, <1>3 DEF Searching, JobLoads, StudyInv
<1>5. UNCHANGED <<booted, asked, runs, torn>> /\ JobOnly BY DEF JobLoads, OthersStay
<1> QED BY <1>1, <1>2, <1>3, <1>4, <1>5, Continues DEF Late

\* The ends a job can come to without a verdict.
LEMMA PlainEnd ==
    ASSUME StudyInv, active # 0, job.pc # "left", NEW status \in Final,
           status = "done" => ~Cancelled \/ job.pc \in Late
    PROVE  /\ Ended(status) \in RunType /\ Ended(status).status \in Final
           /\ RowBest(Ended(status))
           /\ active \in DOMAIN asked => Excused(Ended(status), asked[active])
<1>1. /\ Ended(status) \in RunType /\ Ended(status).status = status
      /\ Ended(status).rounds = <<>> /\ RowBest(Ended(status))
  BY EndedTyped
<1>2. Cancelled = cancels[active] BY TheRow DEF StudyInv
<1>3. status = "done" /\ active \in DOMAIN asked => asked[active] \in Late
  BY <1>2 DEF StudyInv, Flagged
<1> QED BY <1>1, <1>3 DEF Excused

LEMMA EndsPlainly ==
    ASSUME StudyInv, active # 0, job.pc # "left", NEW status \in Final, Ends(Ended(status)),
           status = "done" => ~Cancelled \/ job.pc \in Late, UNCHANGED <<booted, asked>>
    PROVE  StudyInv'
  BY PlainEnd, Ending

\* The row a step writes back unchanged.
LEMMA SameRow ==
    ASSUME StudyInv, active # 0, job.pc # "left"
    PROVE  /\ runs[job.run] \in RunType /\ runs[job.run].rounds = <<>>
           /\ runs[job.run].status \in Live \cup {"absent"}
  BY TheRow DEF StudyInv

LEMMA ReplaysStep == ASSUME StudyInv, JobReplays PROVE StudyInv'
<1>1. active # 0 /\ job \in JobType /\ job.pc = "fetched"
  BY DEF StudyInv, Typed, Placed, JobReplays
<1>2. UNCHANGED <<booted, asked>> BY DEF JobReplays, OthersStay
<1>3. CASE Cancelled /\ Ends(Ended("cancelled"))
  BY <1>1, <1>2, <1>3, EndsPlainly DEF Final
<1>4. CASE /\ ~Cancelled /\ Patch(runs[job.run]) /\ JobOnly
           /\ \E n \in IF "analyst" \in awake THEN 0..MaxEvents ELSE {0} :
                 job' = [job EXCEPT !.pc = "replayed", !.left = n]
  <2>1. PICK n \in Int : job' = [job EXCEPT !.pc = "replayed", !.left = n]
    <3> DEFINE counts == IF "analyst" \in awake THEN 0..MaxEvents ELSE {0}
    <3>1. counts \subseteq Int BY StudyAssumption
    <3>2. \E n \in counts : job' = [job EXCEPT !.pc = "replayed", !.left = n] BY <1>4
    <3> HIDE DEF counts
    <3> QED BY <3>1, <3>2
  <2>2. job' \in JobType /\ job'.run = active /\ job'.pc = "replayed"
        /\ job'.tests = job.tests /\ job'.best = job.best /\ job'.stalled = job.stalled
    BY <1>1, <2>1 DEF JobType, Places, StudyInv, Placed
  <2>3. Searching' BY <2>2 DEF Searching, JobReplays, StudyInv
  <2> QED BY <1>1, <1>2, <1>4, <2>2, <2>3, SameRow, Continues DEF Late
<1> QED BY <1>3, <1>4 DEF JobReplays

LEMMA ThinsStep == ASSUME StudyInv, JobThins PROVE StudyInv'
<1>1. active # 0 /\ job \in JobType /\ job.pc = "replayed"
  BY DEF StudyInv, Typed, Placed, JobThins
<1>2. UNCHANGED <<booted, asked>> BY DEF JobThins, OthersStay
<1>3. CASE Cancelled /\ Ends(Ended("cancelled"))
  BY <1>1, <1>2, <1>3, EndsPlainly DEF Final
<1>4. CASE ~Cancelled /\ Patch(runs[job.run]) /\ JobOnly /\ Settles(Ended("done"))
  <2>1. /\ Ended("done") \in RunType /\ Ended("done").status \in Final
        /\ RowBest(Ended("done"))
        /\ active \in DOMAIN asked => Excused(Ended("done"), asked[active])
    BY <1>1, <1>4, PlainEnd DEF Final
  <2>2. /\ Rewritten(active) /\ runs'[active] \in {runs[active], runs[job.run]}
    BY <1>1, <1>4, SameRow, PatchRewrites DEF StudyInv
  <2>3. runs'[active].status \in Live \cup {"absent"} /\ runs'[active].rounds = <<>>
    BY <1>1, <2>2, TheRow DEF StudyInv
  <2> QED BY <1>1, <1>2, <1>4, <2>1, <2>2, <2>3, Settled
<1>5. CASE /\ ~Cancelled /\ Patch(runs[job.run]) /\ JobOnly
           /\ job' = [job EXCEPT !.pc = "label", !.left = Least(@, job.cfg.target)]
  <2>1. Least(job.left, job.cfg.target) \in Int
    <3>1. job.left \in Int /\ job.cfg.target \in Nat BY <1>1, JobFields
    <3> QED BY <3>1 DEF Least
  <2>2. job' \in JobType /\ job'.run = active /\ job'.pc = "label"
        /\ job'.tests = job.tests /\ job'.best = job.best /\ job'.stalled = job.stalled
    BY <1>1, <1>5, <2>1 DEF JobType, Places, StudyInv, Placed
  <2>3. Searching' BY <2>2 DEF Searching, JobThins, StudyInv
  <2> QED BY <1>1, <1>2, <1>5, <2>2, <2>3, SameRow, Continues DEF Late
<1> QED BY <1>3, <1>4, <1>5 DEF JobThins

\* A flush adds events to the row, and nothing else.
LEMMA FlushRewrites ==
    ASSUME StudyInv, active # 0, job.pc # "left", NEW rows \in SUBSET Int, Flush(rows)
    PROVE  /\ Rewritten(active)
           /\ runs'[active].status \in Live \cup {"absent"} /\ runs'[active].rounds = <<>>
<1> DEFINE row == [runs[active] EXCEPT !.events = @ \cup rows]
<1>1. /\ active \in 1..Len(runs) /\ runs[active] \in RunType /\ job.run = active
      /\ runs \in Seq(RunType) /\ DOMAIN runs = 1..Len(runs)
      /\ runs[active].status \in Live \cup {"absent"} /\ runs[active].rounds = <<>>
  BY TheRow DEF StudyInv, Typed
<1>2. row \in RunType /\ row.status = runs[active].status /\ row.rounds = <<>>
  BY <1>1 DEF RunType
<1>3. Patch(row)
  <2>1. [runs EXCEPT ![active].events = @ \cup rows] = [runs EXCEPT ![active] = row]
    BY <1>1
  <2> QED BY <1>1, <2>1 DEF Flush, Patch
<1> HIDE DEF row
<1>4. Rewritten(active) /\ runs'[active] \in {runs[active], row}
  BY <1>2, <1>3, PatchRewrites DEF StudyInv
<1> QED BY <1>1, <1>2, <1>4

LEMMA LabelsStep == ASSUME StudyInv, JobLabels PROVE StudyInv'
<1>1. active # 0 /\ job \in JobType /\ job.pc = "label"
  BY DEF StudyInv, Typed, Placed, JobLabels
<1>2. UNCHANGED <<booted, asked>> /\ JobOnly BY DEF JobLabels, OthersStay
<1>3. runs[active] \in RunType BY <1>1, TheRow DEF StudyInv
<1>4. /\ job' \in JobType /\ job'.run = active /\ job'.pc \in {"label", "labelled"}
      /\ job'.tests = job.tests /\ job'.best = job.best /\ job'.stalled = job.stalled
  <2>1. job.pc = "label" /\ job.run = active BY DEF JobLabels, StudyInv, Placed
  <2>2. CASE job' = [job EXCEPT !.left = @ - 1]
    <3>1. job.left - 1 \in Int BY <1>1, JobFields
    <3> QED BY <1>1, <2>1, <2>2, <3>1 DEF JobType
  <2>3. CASE \E rows \in {{}, job.rows \cup {job.seq + 1}} :
                job' = [job EXCEPT !.left = @ - 1, !.seq = @ + 1, !.rows = rows]
    <3>1. PICK rows \in {{}, job.rows \cup {job.seq + 1}} :
                job' = [job EXCEPT !.left = @ - 1, !.seq = @ + 1, !.rows = rows]
      BY <2>3
    <3>2. /\ job.left - 1 \in Int /\ job.seq + 1 \in Int /\ job.rows \in SUBSET Int
      BY <1>1, JobFields
    <3>3. rows \in SUBSET Int BY <3>2
    <3> QED BY <1>1, <2>1, <3>1, <3>2, <3>3 DEF JobType
  <2>4. CASE job' = [job EXCEPT !.pc = "labelled", !.rows = {}]
    BY <1>1, <2>1, <2>4 DEF JobType, Places
  <2> QED BY <2>2, <2>3, <2>4 DEF JobLabels, Emptied
<1>5. Searching' BY <1>1, <1>4 DEF Searching, JobLabels, StudyInv
<1>6. CASE UNCHANGED <<runs, torn>>
  BY <1>1, <1>2, <1>3, <1>4, <1>5, <1>6, Continues DEF Late
<1>7. CASE \E rows \in SUBSET Int : Flush(rows)
  <2>1. /\ Rewritten(active) /\ runs'[active].status \in Live \cup {"absent"}
        /\ runs'[active].rounds = <<>>
    BY <1>1, <1>7, FlushRewrites
  <2>2. job.pc # "left" /\ job'.pc \notin {"idle", "left"} /\ job'.pc \notin Late
    BY <1>1, <1>4 DEF Late
  <2>3. Decided' BY <1>4 DEF Decided
  <2> QED BY <1>1, <1>2, <1>4, <1>5, <2>1, <2>2, <2>3, GoesOn
<1>8. job.rows \in SUBSET Int /\ job.rows \cup {job.seq + 1} \in SUBSET Int
  <2>1. job.seq + 1 \in Int /\ job.rows \in SUBSET Int BY <1>1, JobFields
  <2> QED BY <2>1
<1> QED BY <1>6, <1>7, <1>8 DEF JobLabels

LEMMA LabelledStep == ASSUME StudyInv, JobLabelled PROVE StudyInv'
<1>1. active # 0 /\ job \in JobType /\ job.pc = "labelled"
  BY DEF StudyInv, Typed, Placed, JobLabelled
<1>2. UNCHANGED <<booted, asked>> BY DEF JobLabelled, OthersStay
<1>3. CASE Cancelled /\ Ends(Ended("cancelled"))
  BY <1>1, <1>2, <1>3, EndsPlainly DEF Final
<1>4. CASE /\ ~Cancelled /\ Patch(runs[job.run]) /\ JobOnly
           /\ job' = [job EXCEPT !.pc = IF @ = "labelled" /\ job.cfg.rounds > 0
                                        THEN "round" ELSE "analyse"]
  <2>1. job' \in JobType /\ job'.run = active /\ job'.pc \in {"round", "analyse"}
        /\ job'.tests = job.tests /\ job'.best = job.best /\ job'.stalled = job.stalled
    BY <1>1, <1>4 DEF JobType, Places, StudyInv, Placed
  <2>2. Searching' BY <2>1 DEF Searching, JobLabelled, StudyInv
  <2> QED BY <1>1, <1>2, <1>4, <2>1, <2>2, SameRow, Continues
<1> QED BY <1>3, <1>4 DEF JobLabelled

LEMMA AnalysesStep == ASSUME StudyInv, JobAnalyses PROVE StudyInv'
<1>1. active # 0 /\ job.pc \in Late BY DEF StudyInv, Typed, Placed, JobAnalyses, Late
<1>2. UNCHANGED <<booted, asked>> BY DEF JobAnalyses, OthersStay
<1> QED BY <1>1, <1>2, EndsPlainly DEF JobAnalyses, Final, Late

(***************************************************************************)
(* Rounds                                                                  *)
(***************************************************************************)
\* What a round that was scored makes of the search.
LEMMA ScoredSearch ==
    ASSUME StudyInv, job.pc = "score", NEW test \in Scores \cup {None}
    PROVE  LET j == Scored(test)
           IN  /\ j \in JobType /\ j.run = job.run /\ j.pc = "round" /\ j.tests # <<>>
               /\ j.best \in DOMAIN j.tests /\ First(j.tests, j.best)
               /\ j.stalled < 2 => j.stalled \in {0, 1}
               /\ j.stalled = 0 => Improves(j.tests, Len(j.tests))
               /\ \A i \in 2..(Len(j.tests) - 1) :
                     Improves(j.tests, i) \/ Improves(j.tests, i - 1)
               /\ j.stalled < 2 =>
                     \A i \in 2..Len(j.tests) :
                        Improves(j.tests, i) \/ Improves(j.tests, i - 1)
<1> DEFINE j == Scored(test)
           t == job.tests
           n == Len(t)
           better == test > Best
<1>1. /\ job \in JobType /\ t \in Seq(Scores \cup {None}) /\ n \in Nat
      /\ job.best \in Nat /\ job.stalled \in Nat
  BY JobFields DEF StudyInv, Typed
<1>2. \A s \in Scores \cup {None} : s \in Int /\ s >= None
  BY StudyAssumption DEF None
<1>3. \A i \in 1..n : t[i] \in Int /\ t[i] >= None BY <1>1, <1>2
<1>4. /\ t = <<>> => Best = None /\ job.best = 0 /\ job.stalled = 0
      /\ t # <<>> => /\ Best = t[job.best] /\ job.best \in 1..n /\ First(t, job.best)
                     /\ job.stalled \in {0, 1}
                     /\ job.stalled = 0 => Improves(t, n)
                     /\ \A i \in 2..n : Improves(t, i) \/ Improves(t, i - 1)
  BY <1>1 DEF Best, StudyInv, Searching
<1>5. Best \in Int /\ Best >= None /\ test \in Int /\ test >= None
  BY <1>2, <1>3, <1>4 DEF None
<1>6. /\ j.tests = Append(t, test) /\ j.run = job.run /\ j.pc = "round"
      /\ j.best = IF job.best = 0 \/ better THEN n + 1 ELSE job.best
      /\ j.stalled = IF better THEN 0 ELSE job.stalled + 1
  BY <1>1 DEF Scored, JobType
<1>7. /\ j.tests \in Seq(Scores \cup {None}) /\ Len(j.tests) = n + 1
      /\ j.tests[n + 1] = test /\ \A i \in 1..n : j.tests[i] = t[i]
      /\ DOMAIN j.tests = 1..(n + 1)
  BY <1>1, <1>6
<1>8. j \in JobType
  <2>1. j.best \in Nat /\ j.stalled \in Nat BY <1>1, <1>6
  <2> QED BY <1>1, <1>6, <1>7, <2>1 DEF Scored, JobType, Places
<1>9. \A i \in 1..n : Improves(j.tests, i) <=> Improves(t, i)
  BY <1>7 DEF Improves
<1> HIDE DEF j, t, n, better
<1>10. /\ \A i \in 1..n : t[i] <= Best
       /\ ~better => test <= Best /\ (job.best # 0 => t # <<>>)
       /\ t = <<>> <=> n = 0
  <2>1. t = <<>> <=> n = 0 BY <1>1 DEF n
  <2>2. \A i \in 1..n : t[i] <= Best
    BY <1>3, <1>4, <2>1 DEF First, n
  <2> QED BY <1>4, <1>5, <2>1, <2>2 DEF better
<1>11. better => Improves(j.tests, n + 1)
  <2>1. better => test # None /\ \A i \in 1..n : t[i] < test
    BY <1>3, <1>5, <1>10 DEF better
  <2> QED BY <1>1, <1>7, <2>1 DEF Improves
<1>12. j.best \in DOMAIN j.tests /\ First(j.tests, j.best)
  <2>1. CASE better
    <3>1. \A i \in 1..n : t[i] < test BY <1>3, <1>5, <1>10, <2>1 DEF better
    <3>2. j.best = n + 1 /\ n + 1 \in 1..(n + 1) /\ 1..((n + 1) - 1) = 1..n
      BY <1>1, <1>6, <2>1 DEF n
    <3>3. \A i \in 1..(n + 1) : i = n + 1 \/ i \in 1..n BY <1>1 DEF n
    <3>4. j.tests[j.best] = test /\ \A i \in 1..n : j.tests[i] < test
      BY <1>7, <3>1, <3>2
    <3>5. \A i \in 1..(n + 1) : j.tests[i] <= test BY <1>5, <1>7, <1>3, <3>3, <3>4
    <3> QED BY <1>7, <3>2, <3>4, <3>5 DEF First
  <2>2. CASE ~better /\ n = 0
    BY <1>4, <1>5, <1>6, <1>7, <1>10, <2>2 DEF First
  <2>3. CASE ~better /\ n # 0
    BY <1>1, <1>3, <1>4, <1>5, <1>6, <1>7, <1>10, <2>3 DEF First
  <2> QED BY <2>1, <2>2, <2>3
<1>13. \A i \in 2..n : Improves(j.tests, i) \/ Improves(j.tests, i - 1)
  BY <1>1, <1>4, <1>9, <1>10
<1>14. j.stalled < 2 => j.stalled \in {0, 1}
  BY <1>1, <1>6
<1>15. j.stalled = 0 => Improves(j.tests, n + 1)
  BY <1>1, <1>6, <1>11
<1>16. j.stalled < 2 /\ n >= 1 => Improves(j.tests, n + 1) \/ Improves(j.tests, n)
  BY <1>1, <1>4, <1>6, <1>9, <1>10, <1>11
<1> QED BY <1>1, <1>6, <1>7, <1>8, <1>12, <1>13, <1>14, <1>15, <1>16 DEF j, n, t

\* The verdict over some rounds.
Judged(tests, best, how) ==
    [Ended("done") EXCEPT !.rounds = tests, !.best = best,
                          !.how = IF Cancelled THEN "cancelled" ELSE how]

LEMMA EndsJudged ==
    ASSUME StudyInv, active # 0, job.pc \in Late, UNCHANGED <<booted, asked>>,
           NEW tests \in Seq(Scores \cup {None}), NEW best \in Nat, NEW how \in Hows,
           tests # <<>> =>
              /\ First(tests, best)
              /\ \A i \in 2..(Len(tests) - 1) :
                    Improves(tests, i) \/ Improves(tests, i - 1),
           Ends(Judged(tests, best, how))
    PROVE  StudyInv'
<1> DEFINE row == Judged(tests, best, how)
           reason == IF Cancelled THEN "cancelled" ELSE how
<1>1. /\ runs[active] \in RunType /\ job.run = active /\ Cancelled = cancels[active]
  BY TheRow DEF StudyInv, Late
<1>2. row = [runs[active] EXCEPT !.status = "done", !.rounds = tests, !.best = best,
                                 !.how = reason]
  BY <1>1 DEF Judged, Ended
<1>3. reason \in Hows BY DEF Hows
<1> HIDE DEF reason
<1>4. /\ row \in RunType /\ row.status = "done" /\ row.rounds = tests /\ row.best = best
      /\ row.how = reason
  BY <1>1, <1>2, <1>3 DEF RunType, Final
<1> HIDE DEF row
<1>5. RowBest(row) BY <1>4 DEF RowBest
<1>6. active \in DOMAIN asked => asked[active] \in Late /\ reason = "cancelled"
  BY <1>1 DEF StudyInv, Flagged, reason
<1>7. active \in DOMAIN asked => Excused(row, asked[active]) BY <1>4, <1>6 DEF Excused
<1> QED BY <1>4, <1>5, <1>7, Ending DEF row, Final, Late

\* Verdict(how) of a job that searches.
LEMMA EndsVerdict ==
    ASSUME StudyInv, active # 0, job.pc \in Late, UNCHANGED <<booted, asked>>,
           NEW how \in Hows, Ends(Verdict(how))
    PROVE  StudyInv'
<1>1. job.tests \in Seq(Scores \cup {None}) /\ job.best \in Nat
  BY JobFields DEF StudyInv, Typed
<1>2. CASE job.tests = <<>>
  BY <1>2, EndsPlainly DEF Verdict, Final, Late
<1>3. CASE job.tests # <<>>
  <2>1. Verdict(how) = Judged(job.tests, job.best, how)
    BY <1>3 DEF Verdict, Judged
  <2>2. First(job.tests, job.best) BY <1>3 DEF StudyInv, Searching
  <2>3. \A i \in 2..(Len(job.tests) - 1) :
           Improves(job.tests, i) \/ Improves(job.tests, i - 1)
    <3>1. \A i \in 2..(Len(job.tests) - 1) : i \in 2..Len(job.tests) BY <1>1
    <3> QED BY <1>3, <3>1 DEF StudyInv, Searching
  <2> QED BY <1>1, <2>1, <2>2, <2>3, EndsJudged
<1> QED BY <1>2, <1>3

LEMMA BeginsStep == ASSUME StudyInv, RoundBegins PROVE StudyInv'
<1>1. active # 0 /\ job \in JobType /\ job.pc = "round" /\ job.pc \in Late
  BY DEF StudyInv, Typed, Placed, RoundBegins, Late
<1>2. UNCHANGED <<booted, asked>> BY DEF RoundBegins, OthersStay
<1>3. CASE \E how \in Hows : Ends(Verdict(how))
  BY <1>1, <1>2, <1>3, EndsVerdict
<1>4. CASE Patch(runs[job.run]) /\ job' = [job EXCEPT !.pc = "score"] /\ JobOnly
  <2>1. job' \in JobType /\ job'.run = active /\ job'.pc = "score"
        /\ job'.tests = job.tests /\ job'.best = job.best /\ job'.stalled = job.stalled
    BY <1>1, <1>4 DEF JobType, Places, StudyInv, Placed
  <2>2. Searching' BY <1>1, <2>1 DEF Searching, StudyInv
  <2> QED BY <1>1, <1>2, <1>4, <2>1, <2>2, SameRow, Continues
<1>5. "cancelled" \in Hows /\ "exhausted" \in Hows BY DEF Hows
<1> QED BY <1>3, <1>4, <1>5 DEF RoundBegins

LEMMA ScoresStep == ASSUME StudyInv, RoundScores PROVE StudyInv'
<1>1. active # 0 /\ job \in JobType /\ job.pc = "score" /\ job.pc \in Late
  BY DEF StudyInv, Typed, Placed, RoundScores, Late
<1>2. UNCHANGED <<booted, asked>> BY DEF RoundScores, OthersStay
<1>3. CASE \E how \in Hows : Ends(Verdict(how))
  BY <1>1, <1>2, <1>3, EndsVerdict
<1>4. CASE Ends([Ended("done") EXCEPT !.how = "failed"])
  <2> DEFINE row == [Ended("done") EXCEPT !.how = "failed"]
  <2>1. row \in RunType /\ row.status = "done" /\ row.rounds = <<>>
    <3>1. "done" \in Live \cup Final BY DEF Final
    <3>2. /\ Ended("done") \in RunType /\ Ended("done").status = "done"
          /\ Ended("done").rounds = <<>>
      BY <1>1, <3>1, EndedTyped
    <3> DEFINE ended == Ended("done")
    <3>3. ended \in RunType => [ended EXCEPT !.how = "failed"] \in RunType
      BY DEF RunType, Hows
    <3> QED BY <3>2, <3>3 DEF RunType
  <2>2. active \in DOMAIN asked => Excused(row, asked[active])
    BY <1>1, <2>1 DEF StudyInv, Flagged, Excused
  <2>3. RowBest(row) BY <2>1 DEF RowBest
  <2> HIDE DEF row
  <2> QED BY <1>1, <1>2, <1>4, <2>1, <2>2, <2>3, Ending DEF row, Final
<1>5. ASSUME NEW test \in Scores \cup {None}
      PROVE  LET j == Scored(test)
             IN  (\/ Ends(Closed(j, "found"))
                  \/ j.stalled >= 2 /\ Ends(Closed(j, "stalled"))
                  \/ /\ j.stalled < 2 /\ job' = j
                     /\ JobOnly /\ UNCHANGED <<runs, torn>> /\ Answered) => StudyInv'
  <2> DEFINE j == Scored(test)
  <2>1. /\ j \in JobType /\ j.run = job.run /\ j.pc = "round" /\ j.tests # <<>>
        /\ j.best \in DOMAIN j.tests /\ First(j.tests, j.best)
        /\ j.stalled < 2 => j.stalled \in {0, 1}
        /\ j.stalled = 0 => Improves(j.tests, Len(j.tests))
        /\ \A i \in 2..(Len(j.tests) - 1) :
              Improves(j.tests, i) \/ Improves(j.tests, i - 1)
        /\ j.stalled < 2 =>
              \A i \in 2..Len(j.tests) :
                 Improves(j.tests, i) \/ Improves(j.tests, i - 1)
    BY <1>1, ScoredSearch
  <2> HIDE DEF j
  <2>2. j.tests \in Seq(Scores \cup {None}) /\ j.best \in Nat BY <2>1 DEF JobType
  <2>3. \A how : Closed(j, how) = Judged(j.tests, j.best, how) BY DEF Closed, Judged
  <2>4. ASSUME NEW how \in Hows, Ends(Closed(j, how)) PROVE StudyInv'
    BY <1>1, <1>2, <2>1, <2>2, <2>3, <2>4, EndsJudged
  <2>5. CASE j.stalled < 2 /\ job' = j /\ JobOnly /\ UNCHANGED <<runs, torn>>
    <3>1. job.run = active /\ runs[active] \in RunType BY <1>1, TheRow DEF StudyInv
    <3>2. Searching' BY <2>1, <2>5 DEF Searching
    <3> QED BY <1>1, <1>2, <2>1, <2>5, <3>1, <3>2, Continues
  <2>6. "found" \in Hows /\ "stalled" \in Hows BY DEF Hows
  <2> QED BY <2>4, <2>5, <2>6 DEF j
<1>6. {"cancelled", "round_failed", "no_config"} \subseteq Hows BY DEF Hows
<1> QED BY <1>3, <1>4, <1>5, <1>6 DEF RoundScores

(***************************************************************************)
(* The routes, boot and retention                                          *)
(***************************************************************************)
\* A step that leaves the job alone and changes the rows of other runs, each to
\* one that is settled or was live before.
LEMMA Beside ==
    ASSUME StudyInv, runs' \in Seq(RunType), Len(runs') = Len(runs),
           UNCHANGED <<active, cancels, job, asked>>,
           booted' \in BOOLEAN, booted => booted', torn \subseteq torn',
           \A r \in 1..Len(runs) :
              \/ runs'[r] = runs[r] /\ (booted = booted' \/ r # Len(runs) \/ r \in torn'
                                          \/ runs[r].status \notin Live)
              \/ /\ r # active \/ job.pc = "left"
                 /\ runs'[r].status \in {"cancelled", "purged", runs[r].status}
                 /\ runs'[r].status = runs[r].status => runs[r].status \notin Live
                 /\ runs'[r].rounds \in {<<>>, runs[r].rounds}
                 /\ runs'[r].best \in Nat
                 /\ runs'[r].rounds # <<>> => runs'[r].best = runs[r].best
                 /\ runs'[r].how = runs[r].how \/ runs'[r].rounds = <<>>
    PROVE  StudyInv'
<1>1. /\ DOMAIN runs = 1..Len(runs) /\ DOMAIN runs' = 1..Len(runs) /\ Len(runs) \in Nat
      /\ runs \in Seq(RunType) /\ booted \in BOOLEAN
  BY DEF StudyInv, Typed
<1>2. Typed' BY <1>1 DEF StudyInv, Typed
<1>3. Placed'
  <2>1. active # 0 =>
           /\ active \in 1..Len(runs)
           /\ job.pc # "left" => runs'[active] = runs[active]
           /\ \/ runs'[active] = runs[active]
              \/ runs'[active].status \notin Live
    <3> SUFFICES ASSUME active # 0
                 PROVE  /\ active \in 1..Len(runs)
                        /\ job.pc # "left" => runs'[active] = runs[active]
                        /\ \/ runs'[active] = runs[active]
                           \/ runs'[active].status \notin Live
      OBVIOUS
    <3>1. active \in {0, Len(runs)} BY DEF StudyInv, Placed
    <3> DEFINE n == Len(runs)
    <3>2. active \in 1..n
      <4>1. n \in Nat /\ active = n /\ active # 0 BY <1>1, <3>1
      <4> HIDE DEF n
      <4> QED BY <4>1
    <3>3. ~booted => active = 0 BY DEF StudyInv, Placed
    <3> QED BY <1>1, <3>2, <3>3 DEF Live
  <2>2. job.pc = "left" => active # 0 BY DEF StudyInv, Placed
  <2> QED BY <2>1, <2>2 DEF StudyInv, Placed
<1>4. Reaped'
  <2> SUFFICES ASSUME NEW r \in 1..Len(runs), runs'[r].status \in Live,
                      runs'[r].status \notin {"absent", "purged"}
               PROVE  r \in torn' \/ (r = Len(runs) /\ (booted' => r = active))
    BY <1>1 DEF Reaped, Rows
  <2>1. runs'[r] = runs[r] /\ (booted = booted' \/ r # Len(runs) \/ r \in torn')
    BY DEF Live
  <2>2. r \in Rows BY <1>1, <2>1 DEF Rows
  <2> QED BY <1>1, <2>1, <2>2 DEF StudyInv, Reaped
<1>5. Flagged' BY DEF StudyInv, Flagged
<1>6. Searching' BY DEF StudyInv, Searching
<1>7. CancelHonoured'
  <2>1. \A r \in DOMAIN asked : Excused(runs[r], asked[r]) BY CancelRows DEF StudyInv
  <2>2. ASSUME NEW r \in DOMAIN asked PROVE Excused(runs'[r], asked[r])
    <3>1. r \in 1..Len(runs) BY <1>1, <2>2 DEF StudyInv, Typed
    <3> QED BY <2>1, <2>2, <3>1 DEF Excused
  <2>3. (CancelHonoured <=> \A r \in DOMAIN asked : Excused(runs[r], asked[r]))'
    BY CancelRows, PTL
  <2> QED BY <2>2, <2>3
<1>9. Decided' BY DEF StudyInv, Decided
<1>8. BestRound'
  <2>1. \A r \in 1..Len(runs) : RowBest(runs[r]) BY <1>1, BestRows DEF StudyInv
  <2>2. \A r \in 1..Len(runs) : RowBest(runs'[r]) BY <2>1 DEF RowBest
  <2>3. (BestRound <=> \A r \in DOMAIN runs : RowBest(runs[r]))'
    BY BestRows, PTL
  <2> QED BY <1>1, <2>2, <2>3
<1> QED BY <1>2, <1>3, <1>4, <1>5, <1>6, <1>7, <1>8, <1>9 DEF StudyInv

LEMMA StartStep == ASSUME StudyInv, NEW c \in Configs, Start(c) PROVE StudyInv'
<1> DEFINE n == Len(runs) + 1
<1>1. /\ runs \in Seq(RunType) /\ Len(runs) \in Nat /\ n \in Nat \ {0}
      /\ DOMAIN runs = 1..Len(runs)
  BY DEF StudyInv, Typed
<1>2. /\ booted /\ active = 0 /\ active' = n /\ UNCHANGED <<booted, asked>>
      /\ cancels' = [r \in {n} |-> FALSE]
      /\ job' = [NoJob EXCEPT !.pc = "queued", !.run = n, !.cfg = c]
  BY DEF Start
<1>3. PICK status \in {"pending", "absent"} :
         runs' = Append(runs, Row(status)) /\ torn \subseteq torn'
  BY DEF Start
<1>4. /\ Row(status) \in RunType /\ Row(status).rounds = <<>>
      /\ Row(status).status = status
  BY DEF Row, RunType, Live, Hows
<1> HIDE DEF n
<1>5. /\ runs' \in Seq(RunType) /\ Len(runs') = n /\ DOMAIN runs' = 1..n
      /\ runs'[n] = Row(status) /\ \A r \in 1..Len(runs) : runs'[r] = runs[r]
  BY <1>1, <1>3, <1>4 DEF n
<1>6. /\ job' \in JobType /\ job'.run = n /\ job'.pc = "queued" /\ job'.tests = <<>>
      /\ job'.best = 0 /\ job'.stalled = 0
  <2>1. NoJob \in JobType /\ NoJob.tests = <<>> /\ NoJob.best = 0 /\ NoJob.stalled = 0
    BY NoJobTyped DEF NoJob
  <2> QED BY <1>1, <1>2, <2>1 DEF JobType, Places
<1>7. \A r \in 1..n : r = n \/ r \in 1..Len(runs) BY <1>1 DEF n
<1>8. n \notin DOMAIN asked BY <1>1 DEF StudyInv, Typed, n
<1>9. Typed'
  <2>1. cancels' \in [{n} \ {0} -> BOOLEAN] BY <1>1, <1>2
  <2>2. DOMAIN asked \subseteq 1..n BY <1>1 DEF StudyInv, Typed, n
  <2> QED BY <1>1, <1>2, <1>5, <1>6, <2>1, <2>2 DEF StudyInv, Typed
<1>10. Placed' BY <1>1, <1>2, <1>4, <1>5, <1>6 DEF Placed, Live
<1>11. Reaped'
  <2> SUFFICES ASSUME NEW r \in 1..n, runs'[r].status \in Live,
                      runs'[r].status \notin {"absent", "purged"}
               PROVE  r \in torn' \/ r = n
    BY <1>2, <1>5 DEF Reaped, Rows
  <2>1. CASE r # n
    <3>1. r \in Rows /\ runs[r].status \in Live BY <1>1, <1>5, <1>7, <2>1 DEF Rows
    <3>2. r # active BY <1>1, <1>2, <1>7, <2>1
    <3> QED BY <1>2, <1>3, <3>1, <3>2 DEF StudyInv, Reaped
  <2> QED BY <2>1
<1>12. Flagged' BY <1>2, <1>8 DEF Flagged
<1>13. Searching' BY <1>6 DEF Searching
<1>14. CancelHonoured'
  BY <1>1, <1>2, <1>5 DEF StudyInv, Typed, CancelHonoured
<1>15. BestRound'
  <2>1. \A r \in 1..Len(runs) : RowBest(runs[r]) BY <1>1, BestRows DEF StudyInv
  <2>2. \A r \in 1..n : RowBest(runs'[r]) BY <1>4, <1>5, <1>7, <2>1 DEF RowBest
  <2>3. (BestRound <=> \A r \in DOMAIN runs : RowBest(runs[r]))'
    BY BestRows, PTL
  <2> QED BY <1>5, <2>2, <2>3
<1>16. Decided' BY <1>6 DEF Decided
<1> QED BY <1>9, <1>10, <1>11, <1>12, <1>13, <1>14, <1>15, <1>16 DEF StudyInv

LEMMA CancelStep == ASSUME StudyInv, NEW r \in Nat, Cancel(r) PROVE StudyInv'
<1>1. /\ DOMAIN cancels = {active} \ {0} /\ active \in Nat
      /\ cancels \in [{active} \ {0} -> BOOLEAN]
  BY DEF StudyInv, Typed
<1>2. r = active /\ active # 0 BY <1>1 DEF Cancel
<1>3. /\ active \in 1..Len(runs) /\ DOMAIN runs = 1..Len(runs)
      /\ job.pc # "left" => runs[active].status \in Live \cup {"absent"}
  BY <1>2, TheJob, TheRow DEF StudyInv
<1>4. /\ cancels' = [cancels EXCEPT ![active] = TRUE]
      /\ asked' = [q \in DOMAIN asked \cup {active} |-> IF q = active THEN job.pc ELSE asked[q]]
      /\ UNCHANGED <<runs, active, job, booted, torn>>
  BY <1>2 DEF Cancel
<1>5. Typed' BY <1>1, <1>2, <1>3, <1>4 DEF StudyInv, Typed
<1>6. Placed' BY <1>4 DEF StudyInv, Placed
<1>7. Reaped' BY <1>4 DEF StudyInv, Reaped, Rows
<1>8. Flagged'
  <2>1. cancels'[active] = TRUE BY <1>1, <1>2, <1>4
  <2> QED BY <1>4, <2>1 DEF Flagged
<1>9. Searching' BY <1>4 DEF StudyInv, Searching
<1>10. CancelHonoured' BY <1>3, <1>4 DEF StudyInv, CancelHonoured, Live
<1>11. BestRound' BY <1>4 DEF StudyInv, BestRound
<1>12. Decided' BY <1>4 DEF StudyInv, Decided, Excused
<1> QED BY <1>5, <1>6, <1>7, <1>8, <1>9, <1>10, <1>11, <1>12 DEF StudyInv

LEMMA RestartStep == ASSUME StudyInv, Restart PROVE StudyInv'
<1>1. /\ booted' = FALSE /\ job' = NoJob /\ active' = 0 /\ cancels' = [r \in {} |-> FALSE]
      /\ UNCHANGED <<runs, asked, torn>>
  BY DEF Restart
<1>2. /\ NoJob.run = 0 /\ NoJob.pc = "idle" /\ NoJob.tests = <<>> /\ NoJob.best = 0
      /\ NoJob.stalled = 0
  BY DEF NoJob
<1>3. Typed'
  <2>1. cancels' \in [{0} \ {0} -> BOOLEAN] BY <1>1
  <2> QED BY <1>1, <2>1, NoJobTyped DEF StudyInv, Typed
<1>4. Placed' BY <1>1, <1>2 DEF Placed
<1>5. Reaped' BY <1>1 DEF StudyInv, Reaped, Rows
<1>6. Flagged'
  <2>1. 0 \notin DOMAIN asked BY DEF StudyInv, Typed
  <2> QED BY <1>1, <2>1 DEF Flagged
<1>7. Searching' BY <1>1, <1>2 DEF Searching
<1>8. CancelHonoured' BY <1>1 DEF StudyInv, CancelHonoured
<1>9. BestRound' BY <1>1 DEF StudyInv, BestRound
<1>10. Decided' BY <1>1, <1>2 DEF Decided
<1> QED BY <1>3, <1>4, <1>5, <1>6, <1>7, <1>8, <1>9, <1>10 DEF StudyInv

\* The newest run is among the rows a startup reads.
LEMMA NewestRead ==
    ASSUME StudyInv, Len(runs) \in Rows
    PROVE  Len(runs) \in Newest(Recent)
<1>1. /\ DOMAIN runs = 1..Len(runs) /\ Len(runs) \in Nat
  BY DEF StudyInv, Typed
<1>2. {q \in Rows : q > Len(runs)} = {} BY <1>1 DEF Rows
<1>3. Cardinality({q \in Rows : q > Len(runs)}) = 0 BY <1>2, FS_EmptySet
<1> QED BY <1>3, StudyAssumption DEF Newest

LEMMA BootStep == ASSUME StudyInv, Boot PROVE StudyInv'
<1>1. /\ runs \in Seq(RunType) /\ DOMAIN runs = 1..Len(runs) /\ Len(runs) \in Nat
      /\ active = 0
  BY DEF StudyInv, Typed, Placed, Boot
<1>2. ~booted /\ booted' = TRUE /\ UNCHANGED <<active, cancels, job, asked>> BY DEF Boot
<1> DEFINE Reset(r) == [runs[r] EXCEPT !.status = "cancelled"]
<1>3. PICK S \in SUBSET Orphans :
         /\ runs' = [r \in DOMAIN runs |-> IF r \in S THEN Reset(r) ELSE runs[r]]
         /\ torn \subseteq torn' /\ Orphans \ S \subseteq torn'
  <2>1. CASE /\ UNCHANGED torn
             /\ runs' = [r \in DOMAIN runs |-> IF r \in Orphans THEN Reset(r) ELSE runs[r]]
    BY <2>1
  <2>2. CASE \E missed \in SUBSET Orphans \ {{}} :
                /\ torn' = torn \cup missed
                /\ runs' = [r \in DOMAIN runs |->
                      IF r \in Orphans \ missed THEN Reset(r) ELSE runs[r]]
    <3>1. PICK missed \in SUBSET Orphans :
                /\ torn' = torn \cup missed
                /\ runs' = [r \in DOMAIN runs |->
                      IF r \in Orphans \ missed THEN Reset(r) ELSE runs[r]]
      BY <2>2
    <3>2. Orphans \ missed \in SUBSET Orphans
          /\ Orphans \ (Orphans \ missed) \subseteq torn'
      BY <3>1
    <3> QED BY <3>1, <3>2
  <2> QED BY <2>1, <2>2 DEF Boot
<1>4. \A r \in 1..Len(runs) :
         /\ Reset(r) \in RunType /\ Reset(r).status = "cancelled"
         /\ Reset(r).rounds = runs[r].rounds /\ Reset(r).best = runs[r].best
         /\ Reset(r).how = runs[r].how /\ runs[r] \in RunType /\ runs[r].best \in Nat
  <2>1. \A r \in 1..Len(runs) : runs[r] \in RunType BY <1>1
  <2>2. \A row \in RunType : /\ [row EXCEPT !.status = "cancelled"] \in RunType
                             /\ row.best \in Nat
                             /\ [row EXCEPT !.status = "cancelled"].status = "cancelled"
                             /\ [row EXCEPT !.status = "cancelled"].rounds = row.rounds
                             /\ [row EXCEPT !.status = "cancelled"].best = row.best
                             /\ [row EXCEPT !.status = "cancelled"].how = row.how
    BY DEF RunType, Final
  <2> QED BY <2>1, <2>2
<1>5. \A r \in Orphans : r \in 1..Len(runs) /\ runs[r].status \in Live
  BY <1>1 DEF Orphans, Newest, Rows
<1>6. \A r \in 1..Len(runs) :
         runs[r].status \in Live /\ r \notin Orphans => r # Len(runs)
  <2> SUFFICES ASSUME Len(runs) \in 1..Len(runs), runs[Len(runs)].status \in Live
               PROVE  Len(runs) \in Orphans
    OBVIOUS
  <2>1. Len(runs) \in Rows BY <1>1 DEF Rows, Live
  <2> QED BY <2>1, NewestRead DEF Orphans
<1> HIDE DEF Reset
<1>7. runs' \in Seq(RunType) /\ Len(runs') = Len(runs)
  BY <1>1, <1>3, <1>4
<1>8. \A r \in 1..Len(runs) : runs'[r] = IF r \in S THEN Reset(r) ELSE runs[r]
  BY <1>1, <1>3
<1>9. ASSUME NEW r \in 1..Len(runs)
      PROVE  \/ runs'[r] = runs[r] /\ (booted = booted' \/ r # Len(runs) \/ r \in torn'
                                          \/ runs[r].status \notin Live)
             \/ /\ r # active \/ job.pc = "left"
                /\ runs'[r].status \in {"cancelled", "purged", runs[r].status}
                /\ runs'[r].status = runs[r].status => runs[r].status \notin Live
                /\ runs'[r].rounds \in {<<>>, runs[r].rounds}
                /\ runs'[r].best \in Nat
                /\ runs'[r].rounds # <<>> => runs'[r].best = runs[r].best
                /\ runs'[r].how = runs[r].how \/ runs'[r].rounds = <<>>
  <2>1. CASE r \in S
    <3>1. runs'[r] = Reset(r) /\ r # active BY <1>1, <1>8, <2>1
    <3> QED BY <1>4, <1>5, <2>1, <3>1 DEF Live
  <2>2. CASE r \notin S
    <3>1. runs'[r] = runs[r] BY <1>8, <2>2
    <3>2. CASE runs[r].status \in Live
      <4>1. r \in torn' \/ r # Len(runs) BY <1>3, <1>6, <2>2, <3>2
      <4> QED BY <3>1, <4>1
    <3> QED BY <3>1, <3>2
  <2> QED BY <2>1, <2>2
<1> QED BY <1>2, <1>3, <1>7, <1>9, Beside

\* The live rows are not purged.
LEMMA PurgeStep == ASSUME StudyInv, Purge PROVE StudyInv'
<1>1. /\ runs \in Seq(RunType) /\ DOMAIN runs = 1..Len(runs) /\ Len(runs) \in Nat
  BY DEF StudyInv, Typed
<1>2. UNCHANGED <<active, cancels, job, booted, asked>> BY DEF Purge
<1> DEFINE Bare(r) == [runs[r] EXCEPT !.events = {}]
<1>3. PICK left \in {TRUE, FALSE} :
         /\ runs' = [r \in DOMAIN runs |->
                IF r \in Doomed THEN IF left THEN Bare(r) ELSE Row("purged") ELSE runs[r]]
         /\ torn \subseteq torn'
  BY DEF Purge
<1>4. /\ Row("purged") \in RunType /\ Row("purged").rounds = <<>>
      /\ Row("purged").status = "purged" /\ Row("purged").best \in Nat
  BY DEF Row, RunType, Hows
<1>5. \A r \in 1..Len(runs) :
         /\ Bare(r) \in RunType /\ Bare(r).status = runs[r].status
         /\ Bare(r).rounds = runs[r].rounds /\ Bare(r).best = runs[r].best
         /\ Bare(r).how = runs[r].how /\ runs[r] \in RunType /\ runs[r].best \in Nat
  <2>1. \A r \in 1..Len(runs) : runs[r] \in RunType BY <1>1
  <2>2. \A row \in RunType : /\ [row EXCEPT !.events = {}] \in RunType
                             /\ row.best \in Nat
                             /\ [row EXCEPT !.events = {}].status = row.status
                             /\ [row EXCEPT !.events = {}].rounds = row.rounds
                             /\ [row EXCEPT !.events = {}].best = row.best
                             /\ [row EXCEPT !.events = {}].how = row.how
    BY DEF RunType
  <2> QED BY <2>1, <2>2
<1>6. \A r \in Doomed : /\ r \in 1..Len(runs) /\ runs[r].status \notin Live
                        /\ runs[r].status # "absent"
  BY <1>1 DEF Doomed, Rows
<1>7. active \notin Doomed \/ job.pc = "left"
  <2>1. active = 0 \/ job.pc = "left" \/ runs[active].status \in Live \cup {"absent"}
    BY DEF StudyInv, Placed
  <2> QED BY <1>6, <2>1
<1> HIDE DEF Bare
<1>8. \A r \in 1..Len(runs) : runs'[r] =
         IF r \in Doomed THEN IF left THEN Bare(r) ELSE Row("purged") ELSE runs[r]
  BY <1>1, <1>3
<1>9. runs' \in Seq(RunType) /\ Len(runs') = Len(runs)
  BY <1>1, <1>3, <1>4, <1>5
<1>10. ASSUME NEW r \in 1..Len(runs), r \in Doomed
       PROVE  /\ r # active \/ job.pc = "left"
              /\ runs'[r].status \in {"cancelled", "purged", runs[r].status}
              /\ runs'[r].status = runs[r].status => runs[r].status \notin Live
              /\ runs'[r].rounds \in {<<>>, runs[r].rounds}
              /\ runs'[r].best \in Nat
              /\ runs'[r].rounds # <<>> => runs'[r].best = runs[r].best
              /\ runs'[r].how = runs[r].how \/ runs'[r].rounds = <<>>
  <2>1. runs'[r] = Bare(r) \/ runs'[r] = Row("purged") BY <1>8, <1>10
  <2>2. (r # active \/ job.pc = "left") /\ runs[r].status \notin Live BY <1>6, <1>7, <1>10
  <2> QED BY <1>4, <1>5, <2>1, <2>2
<1>11. \A r \in 1..Len(runs) : r \notin Doomed => runs'[r] = runs[r] BY <1>8
<1>12. booted \in BOOLEAN BY DEF StudyInv, Typed
<1> QED BY <1>2, <1>3, <1>9, <1>10, <1>11, <1>12, Beside

LEMMA Untouched ==
    ASSUME StudyInv, UNCHANGED <<runs, active, cancels, job, booted, asked, torn>>
    PROVE  StudyInv'
  BY DEF StudyInv, Typed, Placed, Reaped, Rows, Flagged, Searching, Decided, CancelHonoured,
         BestRound

LEMMA StudyInit == Init => StudyInv
<1> SUFFICES ASSUME Init PROVE StudyInv OBVIOUS
<1>1. /\ runs = <<>> /\ active = 0 /\ cancels = [r \in {} |-> FALSE] /\ job = NoJob
      /\ booted = TRUE /\ asked = [r \in {} |-> ""]
  BY DEF Init
<1>2. /\ NoJob.run = 0 /\ NoJob.pc = "idle" /\ NoJob.tests = <<>> /\ NoJob.best = 0
      /\ NoJob.stalled = 0
  BY DEF NoJob
<1>3. runs \in Seq(RunType) /\ Len(runs) = 0 /\ DOMAIN runs = {} /\ DOMAIN asked = {}
  BY <1>1
<1>4. Typed
  <2>1. cancels \in [{0} \ {0} -> BOOLEAN] BY <1>1
  <2> QED BY <1>1, <1>3, <2>1, NoJobTyped DEF Typed
<1>5. Placed BY <1>1, <1>2, <1>3 DEF Placed
<1>6. Reaped BY <1>3 DEF Reaped, Rows
<1>7. Flagged /\ CancelHonoured BY <1>3 DEF Flagged, CancelHonoured
<1>8. Searching BY <1>1, <1>2 DEF Searching
<1>9. BestRound BY <1>3 DEF BestRound
<1>10. Decided BY <1>1, <1>2 DEF Decided
<1> QED BY <1>4, <1>5, <1>6, <1>7, <1>8, <1>9, <1>10 DEF StudyInv

LEMMA StudyStep == ASSUME StudyInv, Next PROVE StudyInv'
<1>1. ASSUME NEW c \in Configs, Start(c) PROVE StudyInv' BY <1>1, StartStep
<1>2. ASSUME NEW r \in 1..MaxRuns, Cancel(r) PROVE StudyInv' BY <1>2, CancelStep
<1>3. CASE JobStep
  BY <1>3, TakesStep, LoadsStep, ReplaysStep, ThinsStep, LabelsStep, LabelledStep,
     AnalysesStep, BeginsStep, ScoresStep, FinishesStep, LeavesStep DEF JobStep
<1>4. CASE Restart BY <1>4, RestartStep
<1>5. CASE Boot BY <1>5, BootStep
<1>6. CASE RunsAge BY <1>6, Untouched DEF RunsAge
<1>7. CASE Purge BY <1>7, PurgeStep
<1>8. CASE World BY <1>8, Untouched DEF World, studyVars
<1> QED BY <1>1, <1>2, <1>3, <1>4, <1>5, <1>6, <1>7, <1>8 DEF Next

LEMMA StudyHolds == LabSpec => []StudyInv
<1>1. LabInit => StudyInv BY StudyInit DEF LabInit
<1>2. StudyInv /\ [LabNext]_<<vars, barrierVars, verdictVars, bench>> => StudyInv'
  <2> SUFFICES ASSUME StudyInv, [LabNext]_<<vars, barrierVars, verdictVars, bench>>
               PROVE  StudyInv'
    OBVIOUS
  <2>1. CASE Next BY <2>1, StudyStep
  <2>2. CASE UNCHANGED vars BY <2>2, Untouched DEF vars, studyVars
  <2> QED BY <2>1, <2>2 DEF LabNext
<1> QED BY <1>1, <1>2, PTL DEF LabSpec

\* For any number of runs, rounds, cancels, restarts, lost writes and purges: the
\* row of a run tells whether it lives, a cancel is honoured by every look that comes
\* after it, and the verdict is of the first of the best rounds.
THEOREM RunsAlwaysHonest == LabSpec => []RunsHonest
<1>1. StudyInv => RunsHonest
  <2> SUFFICES ASSUME StudyInv PROVE RowTellsTruth
    BY DEF StudyInv, RunsHonest
  <2> QED BY DEF StudyInv, Reaped, RowTellsTruth
<1> QED BY <1>1, StudyHolds, PTL

(***************************************************************************)
(* The stored prices: what a gap takes                                     *)
(***************************************************************************)
\* The table after the holes among the first d days were tried.
Fills(f, second, d) ==
    IF d = 0 THEN store
    ELSE IF d \in Holes THEN Filled(f[d - 1], d, second[d])
    ELSE f[d - 1]

LEMMA FillsExtends ==
    ASSUME NEW second, NEW m \in Nat
    PROVE  \E f : f = [d \in 0..m |-> Fills(f, second, d)]
<1> DEFINE Bad == {n \in Nat : ~\E f : f = [d \in 0..n |-> Fills(f, second, d)]}
<1>1. SUFFICES ASSUME Bad # {} PROVE FALSE OBVIOUS
<1>2. PICK n \in Bad : \A k \in Bad : n <= k
  <2>1. Bad \in SUBSET Nat OBVIOUS
  <2> HIDE DEF Bad
  <2> QED BY <1>1, <2>1, LeastIn
<1>3. CASE n = 0
  <2> DEFINE f == [d \in 0..0 |-> store]
  <2>1. \A d \in 0..0 : Fills(f, second, d) = store BY DEF Fills
  <2>2. f = [d \in 0..0 |-> Fills(f, second, d)] BY <2>1
  <2> QED BY <1>2, <1>3, <2>2
<1>4. CASE n # 0
  <2>1. n \in Nat /\ n - 1 \in Nat /\ n - 1 \notin Bad BY <1>2, <1>4
  <2>2. PICK f : f = [d \in 0..(n - 1) |-> Fills(f, second, d)] BY <2>1
  <2> DEFINE g == [d \in 0..n |-> IF d = n THEN Fills(f, second, n) ELSE f[d]]
  <2>3. \A d \in 0..n : d # 0 => d - 1 \in 0..n /\ g[d - 1] = f[d - 1]
    BY <2>1
  <2>4. \A d \in 0..n : Fills(g, second, d) = Fills(f, second, d)
    <3> HIDE DEF g
    <3> QED BY <2>3 DEF Fills
  <2>5. \A d \in 0..(n - 1) : f[d] = Fills(f, second, d) BY <2>2
  <2>6. \A d \in 0..n : g[d] = Fills(g, second, d)
    BY <2>1, <2>4, <2>5
  <2>7. g = [d \in 0..n |-> Fills(g, second, d)] BY <2>6
  <2> QED BY <1>2, <2>7
<1> QED BY <1>3, <1>4

\* A table that keeps what the stored one has and adds holes to it.
Completes(s) ==
    /\ DOMAIN store \subseteq DOMAIN s /\ DOMAIN s \subseteq DOMAIN store \cup Holes
    /\ \A d \in DOMAIN store : s[d] = store[d]

LEMMA FilledCompletes ==
    ASSUME NEW s, Completes(s), NEW d \in Holes, NEW p
    PROVE  Completes(Filled(s, d, p))
<1> DEFINE t == [e \in DOMAIN s \cup {d} |-> IF e = d THEN Bar(p, TRUE) ELSE s[e]]
<1>1. Filled(s, d, p) = s \/ Filled(s, d, p) = t BY DEF Filled
<1>2. d \notin DOMAIN store BY DEF Holes
<1>3. Completes(t) BY <1>2 DEF Completes
<1> HIDE DEF t
<1> QED BY <1>1, <1>3

LEMMA FillsComplete ==
    ASSUME NEW second, NEW f, NEW m \in Nat, f = [d \in 0..m |-> Fills(f, second, d)]
    PROVE  Completes(f[m])
<1> DEFINE Bad == {n \in 0..m : ~Completes(f[n])}
<1>1. SUFFICES ASSUME Bad # {} PROVE FALSE OBVIOUS
<1>2. PICK n \in Bad : \A k \in Bad : n <= k
  <2>1. Bad \in SUBSET Nat OBVIOUS
  <2> HIDE DEF Bad
  <2> QED BY <1>1, <2>1, LeastIn
<1>3. n \in 0..m /\ f[n] = Fills(f, second, n) /\ ~Completes(f[n]) BY <1>2
<1>4. CASE n = 0
  <2>1. f[n] = store BY <1>3, <1>4 DEF Fills
  <2> QED BY <1>3, <2>1 DEF Completes
<1>5. CASE n # 0
  <2>1. n - 1 \in 0..m /\ n - 1 \notin Bad BY <1>2, <1>5
  <2>2. Completes(f[n - 1]) BY <2>1
  <2>3. f[n] = f[n - 1] \/ (n \in Holes /\ f[n] = Filled(f[n - 1], n, second[n]))
    BY <1>3, <1>5 DEF Fills
  <2> QED BY <1>3, <2>2, <2>3, FilledCompletes
<1> QED BY <1>4, <1>5

LEMMA GapsComplete == FillGaps => Completes(store')
<1> SUFFICES ASSUME FillGaps PROVE Completes(store') OBVIOUS
<1>1. PICK second \in [Holes -> Printed] :
         store' = (CHOOSE f : f = [d \in 0..MaxDay |-> Fills(f, second, d)])[MaxDay]
  BY DEF FillGaps, Fills
<1>2. MaxDay \in Nat BY HistoryAssumption
<1> DEFINE fill == CHOOSE f : f = [d \in 0..MaxDay |-> Fills(f, second, d)]
<1>3. fill = [d \in 0..MaxDay |-> Fills(fill, second, d)]
  BY <1>2, FillsExtends
<1> HIDE DEF fill
<1>4. Completes(fill[MaxDay]) BY <1>2, <1>3, FillsComplete
<1> QED BY <1>1, <1>4 DEF fill

(***************************************************************************)
(* The stored prices: a sync writes no day after its own                   *)
(***************************************************************************)
RowsTo(day) == [day : 1..day, close : Printed]
SyncType == [pc : {"idle", "rows", "put", "read"}, days : Int, rows : Seq(RowsTo(MaxDay)),
             prev : Printed, have : SUBSET Int, latest : Int, today : Int]

StoreInv ==
    /\ today \in 1..MaxDay /\ feed \in [1..today -> Printed] /\ DOMAIN store \subseteq 1..today
    /\ sync \in SyncType
    /\ sync.pc # "idle" =>
          /\ sync.today \in 1..today /\ DOMAIN store \subseteq 1..sync.today
          /\ sync.rows \in Seq(RowsTo(sync.today))
    /\ sync.pc = "put" => sync.rows # <<>>

\* A stored bar with a newer one beside it stays.
PastStays == \A d \in DOMAIN store :
                (\E e \in DOMAIN store : e > d)
                   => d \in DOMAIN store' /\ store'[d] = store[d]

LEMMA Calm == ASSUME UNCHANGED store PROVE PastStays
  BY DEF PastStays

LEMMA LatestIs ==
    ASSUME NEW s, NEW m \in Nat, DOMAIN s \subseteq 1..m, DOMAIN s # {}
    PROVE  Latest(s) \in DOMAIN s
<1> DEFINE T == {m - d : d \in DOMAIN s}
<1>1. T \in SUBSET Nat /\ T # {} OBVIOUS
<1>2. PICK x \in T : \A y \in T : x <= y
  <2> HIDE DEF T
  <2> QED BY <1>1, LeastIn
<1>3. PICK d \in DOMAIN s : x = m - d BY <1>2
<1>4. \A e \in DOMAIN s : e <= d BY <1>2, <1>3
<1> QED BY <1>4 DEF Latest

LEMMA FetchedTyped ==
    ASSUME StoreInv, NEW span \in Int
    PROVE  Fetched(span) \in Seq(RowsTo(today))
<1> DEFINE first == IF today - span < 0 THEN 1 ELSE today - span + 1
           n == today - first + 1
<1>1. today \in Nat /\ first \in Int /\ first >= 1 BY HistoryAssumption DEF StoreInv
<1>2. Fetched(span) = [i \in 1..n |-> [day |-> first + i - 1, close |-> feed[first + i - 1]]]
  BY DEF Fetched
<1>3. \A i \in 1..n : first + i - 1 \in 1..today
  <2> HIDE DEF first
  <2> QED BY <1>1
<1>4. \A i \in 1..n : [day |-> first + i - 1, close |-> feed[first + i - 1]] \in RowsTo(today)
  <2> HIDE DEF n, first
  <2> QED BY <1>3 DEF StoreInv, RowsTo
<1>5. n \in Int BY <1>1
<1>6. CASE n \in Nat
  <2> HIDE DEF n, first
  <2> QED BY <1>2, <1>4, <1>6
<1>7. CASE n \notin Nat
  <2>1. 1..n = {} BY <1>5, <1>7
  <2>2. Fetched(span) = << >>
    <3> HIDE DEF n, first
    <3> QED BY <1>2, <2>1
  <2> QED BY <2>2
<1> QED BY <1>6, <1>7

LEMMA WiderRows ==
    ASSUME NEW a \in Nat, NEW b \in Nat, a <= b, NEW rows \in Seq(RowsTo(a))
    PROVE  rows \in Seq(RowsTo(b))
<1>1. RowsTo(a) \subseteq RowsTo(b) BY DEF RowsTo
<1>2. rows \in [1..Len(rows) -> RowsTo(a)] /\ Len(rows) \in Nat OBVIOUS
<1>3. rows \in [1..Len(rows) -> RowsTo(b)] BY <1>1, <1>2
<1> QED BY <1>2, <1>3

LEMMA BeginsSync ==
    ASSUME StoreInv, NEW days \in Int, SyncBegin(days)
    PROVE  StoreInv' /\ PastStays
<1>1. PICK read \in BOOLEAN, fetched \in BOOLEAN :
         LET have == IF read THEN DOMAIN store ELSE {}
             latest == IF have = {} THEN 0 ELSE Latest(store)
         IN  sync' = [pc |-> IF fetched THEN "rows" ELSE "read",
                      days |-> days, prev |-> 0, have |-> have,
                      latest |-> latest, today |-> today,
                      rows |-> IF fetched THEN Fetched(Span(latest, days)) ELSE <<>>]
  BY DEF SyncBegin
<1> DEFINE have == IF read THEN DOMAIN store ELSE {}
           latest == IF have = {} THEN 0 ELSE Latest(store)
           rows == IF fetched THEN Fetched(Span(latest, days)) ELSE <<>>
<1>2. today \in Nat /\ MaxDay \in Nat /\ today <= MaxDay BY HistoryAssumption DEF StoreInv
<1>3. have \subseteq Int /\ latest \in Int
  <2>1. DOMAIN store # {} => Latest(store) \in DOMAIN store
    BY <1>2, LatestIs DEF StoreInv
  <2> QED BY <2>1 DEF StoreInv
<1>4. Span(latest, days) \in Int
  <2> HIDE DEF latest
  <2> QED BY <1>2, <1>3, HistoryAssumption DEF Span, Most, Least
<1>5. rows \in Seq(RowsTo(today))
  <2> HIDE DEF latest
  <2> QED BY <1>4, FetchedTyped
<1>6. rows \in Seq(RowsTo(MaxDay)) BY <1>2, <1>5, WiderRows
<1>7. sync' = [pc |-> IF fetched THEN "rows" ELSE "read", days |-> days, prev |-> 0,
               have |-> have, latest |-> latest, today |-> today, rows |-> rows]
  BY <1>1
<1> HIDE DEF have, latest, rows
<1>8. sync' \in SyncType BY <1>2, <1>3, <1>6, <1>7 DEF SyncType, Printed
<1>9. /\ sync'.pc \notin {"idle", "put"} /\ sync'.today = today /\ sync'.rows \in Seq(RowsTo(sync'.today))
  BY <1>5, <1>7
<1>10. UNCHANGED <<today, feed, store>> BY DEF SyncBegin
<1>11. StoreInv' BY <1>2, <1>8, <1>9, <1>10 DEF StoreInv, SyncType, RowsTo, Printed
<1> QED BY <1>10, <1>11, Calm

\* What a fetched row may do to the table.
Inserts(d) == /\ \/ UNCHANGED store
                 \/ d \notin DOMAIN store /\ \E bar : store' = Stored(d, bar)

LEMMA InsertsOnly ==
    ASSUME NEW d, NEW bar, Insert(d, bar)
    PROVE  Inserts(d)
  BY DEF Insert, Inserts

LEMMA InsertStays ==
    ASSUME NEW d, Inserts(d)
    PROVE  PastStays /\ DOMAIN store' \subseteq DOMAIN store \cup {d}
  BY DEF Inserts, Stored, PastStays

LEMMA HeadRow ==
    ASSUME StoreInv, sync.pc # "idle", sync.rows # <<>>
    PROVE  /\ Head(sync.rows) \in RowsTo(sync.today)
           /\ Tail(sync.rows) \in Seq(RowsTo(sync.today))
           /\ Tail(sync.rows) \in Seq(RowsTo(MaxDay))
           /\ Head(sync.rows).close \in Printed
           /\ Head(sync.rows).day \in 1..sync.today
<1>1. /\ sync.rows \in Seq(RowsTo(sync.today)) /\ sync.rows \in Seq(RowsTo(MaxDay))
  BY DEF StoreInv, SyncType
<1>2. \A S, s : s \in Seq(S) /\ s # <<>> => Head(s) \in S /\ Tail(s) \in Seq(S)
  BY HeadTailProperties
<1>3. /\ Head(sync.rows) \in RowsTo(sync.today) /\ Tail(sync.rows) \in Seq(RowsTo(sync.today))
      /\ Tail(sync.rows) \in Seq(RowsTo(MaxDay))
  BY <1>1, <1>2
<1> QED BY <1>3 DEF RowsTo

\* A row is done with: the table took it, or not.
LEMMA RowDone ==
    ASSUME StoreInv, sync.pc # "idle", sync.rows # <<>>, UNCHANGED <<today, feed>>,
           NEW pc \in {"rows", "put", "read"}, NEW rows \in {sync.rows, Tail(sync.rows)},
           pc = "put" => rows = sync.rows,
           NEW prev \in Printed,
           sync' = [sync EXCEPT !.pc = pc, !.rows = rows, !.prev = prev],
           DOMAIN store' \subseteq 1..sync.today
    PROVE  StoreInv'
<1>1. sync' \in SyncType BY HeadRow DEF StoreInv, SyncType
<1>2. sync'.today = sync.today /\ sync'.pc = pc /\ pc # "idle" /\ sync'.rows = rows
  BY DEF StoreInv, SyncType
<1>3. sync'.rows \in Seq(RowsTo(sync'.today)) BY <1>2, HeadRow DEF StoreInv
<1>4. sync'.today \in 1..today /\ DOMAIN store' \subseteq 1..sync'.today BY <1>2 DEF StoreInv
<1>5. today \in Nat BY HistoryAssumption DEF StoreInv
<1>6. DOMAIN store' \subseteq 1..today BY <1>4, <1>5
<1> QED BY <1>1, <1>2, <1>3, <1>4, <1>6 DEF StoreInv, SyncType, RowsTo, Printed

\* Only the bar of a day that is not over is taken out, and nothing is newer.
LEMMA DropsNewest ==
    ASSUME StoreInv, sync.pc # "idle", sync.rows # <<>>, Refreshes(Head(sync.rows)),
           store' = Without(Head(sync.rows).day)
    PROVE  PastStays /\ DOMAIN store' \subseteq DOMAIN store
<1>1. Head(sync.rows).day = sync.today BY HeadRow DEF Refreshes, StoreInv, SyncType
<1>2. \A e \in DOMAIN store : e \in Int /\ e <= sync.today BY DEF StoreInv
<1>3. sync.today \in Int BY DEF StoreInv, SyncType
<1>4. \A d, e \in DOMAIN store : e > d => d # sync.today BY <1>2, <1>3
<1> QED BY <1>1, <1>4 DEF Without, PastStays

LEMMA RowsSync ==
    ASSUME StoreInv, SyncRow
    PROVE  StoreInv' /\ PastStays
<1> DEFINE row == Head(sync.rows)
<1>1. /\ sync.pc # "idle" /\ sync.rows # <<>> /\ UNCHANGED <<today, feed>> BY DEF SyncRow
<1>2. Onward \in {"rows", "read"} BY DEF Onward
<1>3. /\ DOMAIN store \subseteq 1..sync.today /\ sync \in SyncType /\ sync.prev \in Printed
  BY <1>1 DEF StoreInv, SyncType
<1>4. row.close \in Printed /\ row.day \in 1..sync.today BY <1>1, HeadRow
<1>5. ASSUME UNCHANGED store \/ Inserts(row.day)
                \/ (Refreshes(row) /\ store' = Without(row.day))
      PROVE  PastStays /\ DOMAIN store' \subseteq 1..sync.today
  BY <1>1, <1>3, <1>4, <1>5, Calm, InsertStays, DropsNewest
<1>6. CASE /\ sync' = [sync EXCEPT !.pc = Onward, !.rows = Tail(@)]
           /\ UNCHANGED store
  <2>1. sync' = [sync EXCEPT !.pc = Onward, !.rows = Tail(sync.rows), !.prev = sync.prev]
    BY <1>3, <1>6 DEF SyncType
  <2> QED BY <1>1, <1>2, <1>3, <1>5, <1>6, <2>1, RowDone
<1>7. CASE /\ sync' = [sync EXCEPT !.pc = Onward, !.rows = Tail(@), !.prev = row.close]
           /\ UNCHANGED store \/ Inserts(row.day)
  <2>1. sync' = [sync EXCEPT !.pc = Onward, !.rows = Tail(sync.rows), !.prev = row.close]
    BY <1>7
  <2> QED BY <1>1, <1>2, <1>4, <1>5, <1>7, <2>1, RowDone
<1>8. CASE /\ sync' = [sync EXCEPT !.pc = "put", !.prev = row.close]
           /\ UNCHANGED store \/ (Refreshes(row) /\ store' = Without(row.day))
  <2>1. sync' = [sync EXCEPT !.pc = "put", !.rows = sync.rows, !.prev = row.close]
    BY <1>3, <1>8 DEF SyncType
  <2> QED BY <1>1, <1>4, <1>5, <1>8, <2>1, RowDone
<1> QED BY <1>6, <1>7, <1>8, InsertsOnly DEF SyncRow

LEMMA PutsSync ==
    ASSUME StoreInv, SyncPut
    PROVE  StoreInv' /\ PastStays
<1> DEFINE row == Head(sync.rows)
<1>1. /\ sync.pc # "idle" /\ sync.rows # <<>> /\ UNCHANGED <<today, feed>>
  BY DEF SyncPut, StoreInv
<1>2. Onward \in {"rows", "read"} BY DEF Onward
<1>3. /\ DOMAIN store \subseteq 1..sync.today /\ sync \in SyncType /\ sync.prev \in Printed
  BY <1>1 DEF StoreInv, SyncType
<1>4. row.day \in 1..sync.today BY <1>1, HeadRow
<1>5. Inserts(row.day) BY InsertsOnly DEF SyncPut
<1>6. PastStays /\ DOMAIN store' \subseteq 1..sync.today BY <1>3, <1>4, <1>5, InsertStays
<1>7. sync' = [sync EXCEPT !.pc = Onward, !.rows = Tail(sync.rows), !.prev = sync.prev]
  BY <1>3 DEF SyncPut, SyncType
<1> QED BY <1>1, <1>2, <1>3, <1>6, <1>7, RowDone

LEMMA NoSyncTyped == NoSync \in SyncType /\ NoSync.pc = "idle"
  BY DEF NoSync, SyncType, Printed

LEMMA EndsSync ==
    ASSUME StoreInv, sync' = NoSync, UNCHANGED <<today, feed, store>>
    PROVE  StoreInv' /\ PastStays
  BY NoSyncTyped, Calm DEF StoreInv, SyncType, RowsTo, Printed

LEMMA Shelved ==
    ASSUME StoreInv, UNCHANGED <<today, feed, store, sync>>
    PROVE  StoreInv' /\ PastStays
  BY Calm DEF StoreInv, SyncType, RowsTo, Printed

LEMMA GapsStep ==
    ASSUME StoreInv, FillGaps
    PROVE  StoreInv' /\ PastStays
<1>1. UNCHANGED <<today, feed, sync>> BY DEF FillGaps
<1>2. Completes(store') BY GapsComplete
<1>3. PastStays BY <1>2 DEF Completes, PastStays
<1>4. ASSUME NEW m \in Int, DOMAIN store \subseteq 1..m PROVE DOMAIN store' \subseteq 1..m
  <2>1. \A d \in Holes : d \in 1..m
    <3> TAKE d \in Holes
    <3>1. d \in 1..MaxDay /\ \E e \in DOMAIN store : e > d BY DEF Holes, Days
    <3>2. PICK e \in DOMAIN store : e > d BY <3>1
    <3>3. e \in 1..m /\ MaxDay \in Int BY <1>4, HistoryAssumption
    <3> QED BY <3>1, <3>2, <3>3
  <2> QED BY <1>2, <1>4, <2>1 DEF Completes
<1>5. today \in Int /\ sync.today \in Int BY HistoryAssumption DEF StoreInv, SyncType
<1>6. DOMAIN store' \subseteq 1..today BY <1>4, <1>5 DEF StoreInv
<1>7. sync.pc # "idle" => DOMAIN store' \subseteq 1..sync.today BY <1>4, <1>5 DEF StoreInv
<1> QED BY <1>1, <1>3, <1>6, <1>7 DEF StoreInv, SyncType, RowsTo, Printed

LEMMA DayStep ==
    ASSUME StoreInv, DayPasses
    PROVE  StoreInv' /\ PastStays
<1>1. /\ today' = today + 1 /\ today < MaxDay /\ UNCHANGED <<store, sync>>
      /\ \E p \in Printed :
            feed' = [d \in 1..(today + 1) |-> IF d <= today THEN feed[d] ELSE p]
  BY DEF DayPasses
<1>2. today \in Nat \ {0} /\ MaxDay \in Nat BY HistoryAssumption DEF StoreInv
<1>3. feed' \in [1..today' -> Printed] /\ today' \in 1..MaxDay BY <1>1, <1>2 DEF StoreInv
<1>4. \A d : d \in 1..today => d \in 1..today' BY <1>1, <1>2
<1>5. PastStays BY <1>1, Calm
<1> QED BY <1>1, <1>3, <1>4, <1>5 DEF StoreInv, SyncType, RowsTo, Printed

LEMMA PrintsAgain ==
    ASSUME StoreInv, NEW d \in Days, FeedMoves(d)
    PROVE  StoreInv' /\ PastStays
<1>1. feed' \in [1..today -> Printed] BY DEF FeedMoves, StoreInv
<1>2. UNCHANGED <<today, store, sync>> BY DEF FeedMoves
<1> QED BY <1>1, <1>2, Calm DEF StoreInv, SyncType, RowsTo, Printed

LEMMA LoadsSync ==
    ASSUME StoreInv, StudyInv, JobLoads
    PROVE  StoreInv' /\ PastStays
<1>1. job.cfg.days \in Int
  <2>1. job.cfg \in Configs \cup {NoJob.cfg} BY DEF StudyInv, Typed, JobType
  <2>2. NoJob.cfg.days \in Int BY DEF NoJob
  <2>3. \A c \in Configs : c.days \in Int BY StudyAssumption
  <2> QED BY <2>1, <2>2, <2>3
<1>2. ReadBack => sync' = NoSync /\ UNCHANGED <<today, feed, store>> BY DEF ReadBack
<1> QED BY <1>1, <1>2, BeginsSync, RowsSync, PutsSync, EndsSync DEF JobLoads

LEMMA StoreStep ==
    ASSUME StoreInv, StudyInv, Next
    PROVE  StoreInv' /\ PastStays
<1>1. ASSUME NEW c \in Configs, Start(c) PROVE StoreInv' /\ PastStays
  BY <1>1, Shelved DEF Start, HistoryStays
<1>2. ASSUME NEW r \in 1..MaxRuns, Cancel(r) PROVE StoreInv' /\ PastStays
  BY <1>2, Shelved DEF Cancel, historyVars
<1>3. CASE JobStep
  BY <1>3, LoadsSync, Shelved
     DEF JobStep, HistoryStays, JobTakes, JobReplays, JobThins, JobLabels, JobLabelled,
         JobAnalyses, RoundBegins, RoundScores, JobFinishes, JobLeaves
<1>4. CASE Restart BY <1>4, EndsSync DEF Restart
<1>5. CASE Boot \/ RunsAge \/ Purge
  BY <1>5, Shelved DEF Boot, RunsAge, Purge, HistoryStays, historyVars
<1>6. CASE World BY <1>6, DayStep, GapsStep, PrintsAgain DEF World
<1> QED BY <1>1, <1>2, <1>3, <1>4, <1>5, <1>6 DEF Next

\* For any feed, quarantine bound, overlap and length of history, and any number of
\* reprints, lost calls and restarts: a stored bar with a newer one beside it
\* neither changes nor goes.
THEOREM PastNeverChanges == LabSpec => ImmutablePast
<1> DEFINE step == [LabNext]_<<vars, barrierVars, verdictVars, bench>>
<1>1. LabInit => StoreInv
  <2> SUFFICES ASSUME LabInit PROVE StoreInv OBVIOUS
  <2>1. HistoryInit BY DEF LabInit, Init
  <2> QED BY <2>1, NoSyncTyped, HistoryAssumption DEF HistoryInit, StoreInv
<1>2. StoreInv /\ StudyInv /\ step => StoreInv' /\ PastStays
  <2> SUFFICES ASSUME StoreInv, StudyInv, step PROVE StoreInv' /\ PastStays OBVIOUS
  <2>1. CASE Next BY <2>1, StoreStep
  <2>2. CASE UNCHANGED vars BY <2>2, Shelved DEF vars, historyVars
  <2> QED BY <2>1, <2>2 DEF LabNext
<1>3. LabSpec => []StoreInv BY <1>1, <1>2, StudyHolds, PTL DEF LabSpec
<1>4. PastStays => [\A d \in DOMAIN store : (\E e \in DOMAIN store : e > d)
                       => d \in DOMAIN store' /\ store'[d] = store[d]]_historyVars
  BY DEF PastStays
<1> QED BY <1>2, <1>3, <1>4, StudyHolds, PTL DEF LabSpec, ImmutablePast

(***************************************************************************)
(* Proofs about how a replay is labelled and what a study concludes, for   *)
(* every market of bars whose open lies between its low and its high,      *)
(* every stop, target, clock, cooldown and horizon, and every kind of      *)
(* event, grid, ladder, cost and sample size:                              *)
(*   LabelsAlwaysSound  labels are fair to both sides, stay once made, and *)
(*                      nothing overlaps where it must not                 *)
(*   NeverLooksAhead    later bars change no event and no made label       *)
(*   RoundsAlwaysFair   the gate and the cell of a run are picked on the   *)
(*                      first 70% alone, the rest only accepts or turns    *)
(*                      down what is proposed around them, and accepting   *)
(*                      proposals narrows the search and never starves it  *)
(*                                                                         *)
(* A replay's invariant is only that its bars are bars (BarsTyped): the    *)
(* rest is about the operators, LabelPersists first of all: what decides   *)
(* a pair of bounds is the least bar that reaches one, so a longer series  *)
(* decides it again at the same bar.  A verdict's is VerdictInv: what was  *)
(* concluded is what the analysis of the events at hand concludes, the     *)
(* gate and the cell lie in the grid that was searched, and the grid of    *)
(* every next round lies in the one before.                                *)
(***************************************************************************)

(***************************************************************************)
(* The events of a replay                                                  *)
(***************************************************************************)
LEMMA LowestIn ==
    ASSUME NEW T \in SUBSET Nat, T # {}
    PROVE  B!Lowest(T) \in T /\ \A y \in T : B!Lowest(T) <= y
  BY LeastIn DEF B!Lowest

\* What the replay does at bar i once the bars before it are known.
Follows(f, i) ==
    IF i < Warmup THEN 0
    ELSE IF said[i] # "none" /\ ~B!Cool(i, f[i - 1]) THEN i ELSE f[i - 1]

LEMMA FollowsExtends ==
    ASSUME NEW m \in Nat
    PROVE  \E f : f = [i \in 0..m |-> Follows(f, i)]
<1> DEFINE Bad == {n \in Nat : ~\E f : f = [i \in 0..n |-> Follows(f, i)]}
<1>1. SUFFICES ASSUME Bad # {} PROVE FALSE OBVIOUS
<1>2. PICK n \in Bad : \A k \in Bad : n <= k
  <2>1. Bad \in SUBSET Nat OBVIOUS
  <2> HIDE DEF Bad
  <2> QED BY <1>1, <2>1, LeastIn
<1>3. CASE n = 0
  <2> DEFINE f == [i \in 0..0 |-> 0]
  <2>1. 0..0 = {0} OBVIOUS
  <2>2. \A i \in 0..0 : Follows(f, i) = 0
    BY <2>1, LabelAssumption DEF Follows
  <2>3. f = [i \in 0..0 |-> Follows(f, i)] BY <2>2
  <2> QED BY <1>2, <1>3, <2>3
<1>4. CASE n # 0
  <2>1. n \in Nat /\ n - 1 \in Nat /\ n - 1 \notin Bad BY <1>2, <1>4
  <2>2. PICK f : f = [i \in 0..(n - 1) |-> Follows(f, i)] BY <2>1
  <2> DEFINE g == [i \in 0..n |-> IF i = n THEN Follows(f, n) ELSE f[i]]
  <2>3. \A i \in 0..n : (i - 1 \in 0..n /\ (i >= 1 => g[i - 1] = f[i - 1])) \/ i = 0
    BY <2>1
  <2>4. \A i \in 0..n : i >= 1 => Follows(g, i) = Follows(f, i)
    BY <2>3 DEF Follows
  <2>5. Follows(g, 0) = 0 /\ Follows(f, 0) = 0 BY LabelAssumption DEF Follows
  <2>6. \A i \in 0..(n - 1) : f[i] = Follows(f, i) BY <2>2
  <2>7. \A i \in 0..n : g[i] = Follows(g, i)
    BY <2>1, <2>4, <2>5, <2>6
  <2>8. g = [i \in 0..n |-> Follows(g, i)] BY <2>7
  <2> QED BY <1>2, <2>8
<1> QED BY <1>3, <1>4

LEMMA LastEventDef ==
    /\ DOMAIN B!LastEvent = 0..MaxBars
    /\ \A i \in 0..MaxBars : B!LastEvent[i] = Follows(B!LastEvent, i)
<1>1. B!LastEvent = CHOOSE f : f = [i \in 0..MaxBars |-> Follows(f, i)]
  BY DEF B!LastEvent, Follows
<1>2. \E f : f = [i \in 0..MaxBars |-> Follows(f, i)]
  BY FollowsExtends, LabelAssumption
<1> DEFINE last == B!LastEvent
<1>3. last = [i \in 0..MaxBars |-> Follows(last, i)]
  <2> HIDE DEF last
  <2> QED BY <1>1, <1>2 DEF last
<1> HIDE DEF last
<1> QED BY <1>3 DEF last

LEMMA UpTo ==
    ASSUME NEW m \in Nat, NEW S, 0 \in S, \A n \in 0..(m - 1) : n \in S => n + 1 \in S
    PROVE  \A n \in 0..m : n \in S
<1> DEFINE T == {n \in Nat : n <= m /\ n \notin S}
<1>1. SUFFICES ASSUME T # {} PROVE FALSE OBVIOUS
<1>2. T \in SUBSET Nat OBVIOUS
<1>3. PICK n \in T : \A k \in T : n <= k
  <2> HIDE DEF T
  <2> QED BY <1>1, <1>2, LeastIn
<1>4. n \in Nat /\ n <= m /\ n \notin S /\ n # 0 OBVIOUS
<1>5. n - 1 \in 0..(m - 1) /\ n - 1 \notin T BY <1>3, <1>4
<1>6. n - 1 \in S BY <1>4, <1>5
<1>7. (n - 1) + 1 = n BY <1>4
<1> QED BY <1>4, <1>5, <1>6, <1>7

\* One bar moves the last event to itself, or leaves it.
LEMMA LastMoves ==
    /\ B!LastEvent[0] = 0
    /\ \A i \in 1..MaxBars :
          \/ /\ B!LastEvent[i] = i /\ i >= Warmup /\ said[i] # "none"
             /\ ~B!Cool(i, B!LastEvent[i - 1])
          \/ B!LastEvent[i] = B!LastEvent[i - 1]
          \/ B!LastEvent[i] = 0 /\ i < Warmup
<1>1. \A i \in 0..MaxBars : B!LastEvent[i] = Follows(B!LastEvent, i)
  BY LastEventDef
<1>2. 0 \in 0..MaxBars /\ 0 < Warmup BY LabelAssumption
<1>3. \A i \in 1..MaxBars : i \in 0..MaxBars /\ (~(i < Warmup) => i >= Warmup)
  BY LabelAssumption
<1> QED BY <1>1, <1>2, <1>3 DEF Follows

LEMMA LastRange == \A i \in 0..MaxBars : B!LastEvent[i] \in 0..i
<1> DEFINE S == {i \in 0..MaxBars : B!LastEvent[i] \in 0..i}
<1>1. 0 \in S BY LastMoves, LabelAssumption
<1>2. ASSUME NEW n \in 0..(MaxBars - 1), n \in S PROVE n + 1 \in S
  <2>1. n + 1 \in 1..MaxBars /\ (n + 1) - 1 = n /\ n + 1 \in 0..MaxBars
    BY LabelAssumption
  <2>2. B!LastEvent[n + 1] \in {n + 1, B!LastEvent[n], 0} BY <2>1, LastMoves
  <2> QED BY <1>2, <2>1, <2>2
<1>3. MaxBars \in Nat BY LabelAssumption
<1> HIDE DEF S
<1>4. \A n \in 0..MaxBars : n \in S BY <1>1, <1>2, <1>3, UpTo
<1> QED BY <1>4 DEF S

\* The last event is one.
LEMMA LastIsEvent ==
    \A i \in 0..MaxBars : B!LastEvent[i] # 0 =>
        /\ B!LastEvent[B!LastEvent[i]] = B!LastEvent[i]
        /\ B!LastEvent[i] >= Warmup /\ said[B!LastEvent[i]] # "none"
<1> DEFINE P(i) == B!LastEvent[i] # 0 =>
                      /\ B!LastEvent[B!LastEvent[i]] = B!LastEvent[i]
                      /\ B!LastEvent[i] >= Warmup /\ said[B!LastEvent[i]] # "none"
           S == {i \in 0..MaxBars : P(i)}
<1>1. 0 \in S BY LastMoves, LabelAssumption
<1>2. ASSUME NEW n \in 0..(MaxBars - 1), n \in S PROVE n + 1 \in S
  <2>1. n + 1 \in 1..MaxBars /\ (n + 1) - 1 = n /\ n + 1 \in 0..MaxBars
    BY LabelAssumption
  <2>2. CASE B!LastEvent[n + 1] = n + 1 /\ n + 1 >= Warmup /\ said[n + 1] # "none"
    BY <2>1, <2>2
  <2>3. CASE B!LastEvent[n + 1] = B!LastEvent[n] BY <1>2, <2>1, <2>3
  <2>4. CASE B!LastEvent[n + 1] = 0 BY <2>1, <2>4
  <2> QED BY <2>1, <2>2, <2>3, <2>4, LastMoves
<1>3. MaxBars \in Nat BY LabelAssumption
<1> HIDE DEF S
<1>4. \A n \in 0..MaxBars : n \in S BY <1>1, <1>2, <1>3, UpTo
<1> QED BY <1>4 DEF S

\* Past an event, no earlier one is the last.
LEMMA LastKeeps ==
    ASSUME NEW e \in 1..MaxBars, B!LastEvent[e] = e
    PROVE  \A i \in e..MaxBars : B!LastEvent[i] >= e
<1> DEFINE S == {i \in 0..MaxBars : i >= e => B!LastEvent[i] >= e}
<1>1. 0 \in S BY LabelAssumption
<1>2. e >= Warmup
  <2>1. e \in 0..MaxBars /\ e # 0 BY LabelAssumption
  <2> QED BY <2>1, LastIsEvent
<1>3. ASSUME NEW n \in 0..(MaxBars - 1), n \in S PROVE n + 1 \in S
  <2>1. n + 1 \in 1..MaxBars /\ (n + 1) - 1 = n /\ n + 1 \in 0..MaxBars
    BY LabelAssumption
  <2>2. SUFFICES ASSUME n + 1 >= e, n + 1 # e PROVE B!LastEvent[n + 1] >= e
    BY <2>1
  <2>3. n >= e /\ ~(n + 1 < Warmup) BY <1>2, <2>1, <2>2, LabelAssumption
  <2>4. B!LastEvent[n] >= e BY <1>3, <2>3
  <2>5. B!LastEvent[n + 1] \in {n + 1, B!LastEvent[n]} BY <2>1, <2>3, LastMoves
  <2> QED BY <2>2, <2>4, <2>5
<1>4. MaxBars \in Nat BY LabelAssumption
<1> HIDE DEF S
<1>5. \A n \in 0..MaxBars : n \in S BY <1>1, <1>3, <1>4, UpTo
<1>6. \A i \in e..MaxBars : i \in 0..MaxBars /\ i >= e BY <1>4
<1> QED BY <1>5, <1>6 DEF S

(***************************************************************************)
(* The types of the bench, and the cooldown                                *)
(***************************************************************************)
BarsTyped ==
    /\ bars \in Seq(Bars) /\ said \in Seq(B!Sides \cup {"none"})
    /\ Len(bars) = Len(said) /\ Len(bars) <= MaxBars

LEMMA EmittedIs ==
    ASSUME BarsTyped, NEW i \in B!Emitted
    PROVE  /\ i \in 1..Len(bars) /\ i \in 1..MaxBars /\ i \in Nat /\ i >= Warmup
           /\ B!LastEvent[i] = i /\ said[i] \in B!Sides /\ bars[i] \in Bars
<1>1. /\ i \in Warmup..Len(bars) /\ B!LastEvent[i] = i /\ Len(bars) \in Nat
      /\ bars \in Seq(Bars) /\ said \in Seq(B!Sides \cup {"none"}) /\ Len(said) = Len(bars)
  BY DEF B!Emitted, BarsTyped
<1>2. i \in 1..Len(bars) /\ i \in 1..MaxBars /\ i >= Warmup /\ i # 0 /\ i \in 0..MaxBars
  BY <1>1, LabelAssumption DEF BarsTyped
<1>3. said[i] # "none" BY <1>1, <1>2, LastIsEvent
<1> QED BY <1>1, <1>2, <1>3

LEMMA CooldownHolds == ASSUME BarsTyped PROVE B!CooldownThins
<1>1. Len(bars) \in Nat /\ MaxBars \in Nat /\ Len(bars) <= MaxBars /\ Cooldown \in Nat
      /\ Warmup \in Nat \ {0}
  BY LabelAssumption DEF BarsTyped
<1>2. ASSUME NEW i \in B!Emitted, NEW j \in B!Emitted, i < j PROVE j - i >= Cooldown
  <2>1. /\ i \in 1..MaxBars /\ j \in 1..MaxBars /\ B!LastEvent[i] = i /\ B!LastEvent[j] = j
    BY EmittedIs
  <2>2. j - 1 \in i..MaxBars /\ j - 1 \in 0..MaxBars BY <1>1, <1>2, <2>1
  <2>3. B!LastEvent[j - 1] >= i /\ B!LastEvent[j - 1] \in 0..(j - 1)
    BY <2>1, <2>2, LastKeeps, LastRange
  <2>4. B!LastEvent[j] # B!LastEvent[j - 1] /\ B!LastEvent[j] # 0 BY <1>1, <2>1, <2>3
  <2>5. ~B!Cool(j, B!LastEvent[j - 1]) BY <2>1, <2>4, LastMoves
  <2> QED BY <1>1, <2>1, <2>3, <2>5 DEF B!Cool
<1>3. ASSUME NEW i \in Warmup..Len(bars), said[i] # "none"
      PROVE  \E j \in B!Emitted : j <= i /\ (i = j \/ i - j < Cooldown)
  <2>1. i \in 1..MaxBars /\ i \in 0..MaxBars /\ i - 1 \in 0..MaxBars /\ i \in Nat
        /\ ~(i < Warmup)
    BY <1>1
  <2>2. B!LastEvent[i] = Follows(B!LastEvent, i) BY <2>1, LastEventDef
  <2>3. CASE B!LastEvent[i] = i
    <3>1. i \in B!Emitted BY <2>3 DEF B!Emitted
    <3> QED BY <2>1, <3>1
  <2>4. CASE B!LastEvent[i] # i
    <3> DEFINE j == B!LastEvent[i - 1]
    <3>1. B!Cool(i, j) BY <1>3, <2>1, <2>2, <2>4 DEF Follows
    <3>2. j \in 0..(i - 1) /\ j # 0 /\ i - j < Cooldown
      BY <2>1, <3>1, LastRange DEF B!Cool
    <3>3. B!LastEvent[j] = j /\ j >= Warmup BY <2>1, <3>2, LastIsEvent
    <3>4. j \in B!Emitted /\ j <= i BY <1>1, <2>1, <3>2, <3>3 DEF B!Emitted
    <3> QED BY <3>2, <3>4
  <2> QED BY <2>3, <2>4
<1> QED BY <1>2, <1>3 DEF B!CooldownThins

(***************************************************************************)
(* What a label is                                                         *)
(***************************************************************************)
Spanned(cell, future) == IF cell.clock < Len(future) THEN cell.clock ELSE Len(future)
Opens(side, entry, cell, bar) == B!Decided(side, entry, cell, bar).label = "open"

\* The first bar that decides; the bars walked are those up to it.
DecidedAt(side, entry, cell, future, h) ==
    /\ h \in 1..Spanned(cell, future) /\ ~Opens(side, entry, cell, future[h])
    /\ \A k \in 1..(h - 1) : Opens(side, entry, cell, future[k])

\* No bar decided: the trade closes at the last bar walked, if there is one.
TimedOut(side, entry, future, n) ==
    IF n = 0 THEN B!Outcome("pending", 0, entry, FALSE, FALSE)
    ELSE B!Outcome("expired", B!Sign(side) * (future[n].c - entry), future[n].c, FALSE,
                   FALSE)

Labelled(side, entry, cell, future, r) ==
    /\ \/ \E h \in 1..Spanned(cell, future) :
             /\ DecidedAt(side, entry, cell, future, h)
             /\ r.held = h /\ r.out = B!Decided(side, entry, cell, future[h])
       \/ /\ \A k \in 1..Spanned(cell, future) : Opens(side, entry, cell, future[k])
          /\ r.held = Spanned(cell, future)
          /\ r.out = TimedOut(side, entry, future, Spanned(cell, future))
    /\ r = [out |-> r.out, held |-> r.held,
            mfe |-> B!Best(side, entry, SubSeq(future, 1, r.held)),
            mae |-> B!Worst(side, entry, SubSeq(future, 1, r.held))]

LEMMA SpannedIs ==
    ASSUME NEW T, NEW cell \in Cells, NEW future \in Seq(T)
    PROVE  /\ Spanned(cell, future) \in Nat /\ Len(future) \in Nat
           /\ Spanned(cell, future) <= Len(future) /\ Spanned(cell, future) <= cell.clock
  BY LabelAssumption DEF Spanned

LEMMA LabelIs ==
    ASSUME NEW side, NEW entry, NEW T, NEW cell \in Cells, NEW future \in Seq(T)
    PROVE  Labelled(side, entry, cell, future, B!Label(side, entry, cell, future))
<1> DEFINE n == Spanned(cell, future)
           r == B!Label(side, entry, cell, future)
           cut == SubSeq(future, 1, n)
           hits == {i \in DOMAIN cut : B!Decided(side, entry, cell, cut[i]).label # "open"}
           held == IF hits = {} THEN Len(cut) ELSE B!Lowest(hits)
           walked == SubSeq(cut, 1, held)
           out == IF cut = <<>> THEN B!Outcome("pending", 0, entry, FALSE, FALSE)
                  ELSE IF hits = {}
                  THEN B!Outcome("expired", B!Sign(side) * (B!Last(cut).c - entry),
                               B!Last(cut).c, FALSE, FALSE)
                  ELSE B!Decided(side, entry, cell, cut[held])
<1>1. r = [out |-> out, held |-> held, mfe |-> B!Best(side, entry, walked),
           mae |-> B!Worst(side, entry, walked)]
  BY DEF B!Label, Spanned
<1>2. n \in 0..Len(future) /\ n <= cell.clock /\ n \in Nat /\ Len(future) \in Nat
  BY LabelAssumption DEF Spanned
<1>3. /\ cut \in Seq(T) /\ Len(cut) = n /\ DOMAIN cut = 1..n
      /\ \A k \in 1..n : cut[k] = future[k]
  BY <1>2
<1>4. hits = {k \in 1..n : ~Opens(side, entry, cell, future[k])}
  BY <1>3 DEF Opens
<1>5. cut = <<>> <=> n = 0 BY <1>2, <1>3
<1>6. n # 0 => B!Last(cut) = future[n] BY <1>2, <1>3 DEF B!Last
<1>a. /\ hits = {} => held = n /\ out = IF n = 0
                       THEN B!Outcome("pending", 0, entry, FALSE, FALSE)
                       ELSE B!Outcome("expired", B!Sign(side) * (future[n].c - entry),
                                      future[n].c, FALSE, FALSE)
      /\ hits # {} => held = B!Lowest(hits)
      /\ hits # {} /\ n # 0 => out = B!Decided(side, entry, cell, cut[held])
  <2> HIDE DEF n, cut
  <2> QED BY <1>3, <1>5, <1>6
<1>b. walked = SubSeq(cut, 1, held) OBVIOUS
<1> HIDE DEF n, r, cut, hits, held, walked, out
<1>7. /\ held \in 0..n
      /\ hits # {} => held \in hits /\ \A k \in 1..(held - 1) : k \notin hits
  <2>1. hits \in SUBSET Nat /\ hits \subseteq 1..n BY <1>2, <1>4
  <2>2. CASE hits # {}
    <3>1. held \in hits /\ \A y \in hits : held <= y
      BY <1>a, <2>1, <2>2, LowestIn
    <3> QED BY <2>1, <3>1
  <2>3. CASE hits = {}
    <3>1. held = n BY <1>a, <2>3
    <3> QED BY <1>2, <2>3, <3>1
  <2> QED BY <2>2, <2>3
<1>8. walked = SubSeq(future, 1, held)
  <2>1. /\ held \in Nat /\ held <= n /\ held \in 0..Len(cut) /\ held \in 0..Len(future)
        /\ \A k \in 1..held : k \in 1..n
    BY <1>2, <1>3, <1>7
  <2> DEFINE w == SubSeq(future, 1, held)
  <2>2. walked \in Seq(T) /\ Len(walked) = held /\ \A k \in 1..held : walked[k] = cut[k]
    BY <1>3, <1>b, <2>1
  <2>3. w \in Seq(T) /\ Len(w) = held /\ \A k \in 1..held : w[k] = future[k]
    BY <2>1
  <2> HIDE DEF w
  <2>4. \A k \in 1..held : walked[k] = w[k] BY <1>3, <2>1, <2>2, <2>3
  <2>5. walked = w BY <2>1, <2>2, <2>3, <2>4, SeqEqual
  <2> QED BY <2>5 DEF w
<1>9. /\ r.held = held /\ r.out = out
      /\ r = [out |-> r.out, held |-> r.held,
              mfe |-> B!Best(side, entry, SubSeq(future, 1, r.held)),
              mae |-> B!Worst(side, entry, SubSeq(future, 1, r.held))]
  BY <1>1, <1>8
<1>10. CASE hits = {}
  <2>1. \A k \in 1..n : Opens(side, entry, cell, future[k]) BY <1>4, <1>10
  <2> QED BY <1>a, <1>2, <1>9, <1>10, <2>1 DEF n, r, Labelled, TimedOut
<1>11. CASE hits # {}
  <2>1. held \in 1..n /\ ~Opens(side, entry, cell, future[held])
    BY <1>4, <1>7, <1>11
  <2>2. \A k \in 1..(held - 1) : Opens(side, entry, cell, future[k])
    BY <1>2, <1>4, <1>7, <1>11, <2>1
  <2>3. out = B!Decided(side, entry, cell, future[held])
    BY <1>a, <1>2, <1>3, <1>11, <2>1
  <2>4. DecidedAt(side, entry, cell, future, held)
    BY <2>1, <2>2 DEF DecidedAt, n
  <2> QED BY <1>2, <1>9, <2>1, <2>3, <2>4 DEF n, r, Labelled
<1> QED BY <1>10, <1>11

(***************************************************************************)
(* What one bar decides                                                    *)
(***************************************************************************)
\* The four cases of label_event, buying and selling.
Bought(entry, cell, bar) ==
    IF bar.o <= entry - cell.sl THEN B!Outcome("sl", bar.o - entry, bar.o, FALSE, TRUE)
    ELSE IF bar.o >= entry + cell.tp THEN B!Outcome("tp", cell.tp, bar.o, FALSE, TRUE)
    ELSE IF bar.l <= entry - cell.sl
    THEN B!Outcome("sl", -cell.sl, entry - cell.sl, bar.h >= entry + cell.tp, FALSE)
    ELSE IF bar.h >= entry + cell.tp
    THEN B!Outcome("tp", cell.tp, entry + cell.tp, FALSE, FALSE)
    ELSE B!Open
Sold(entry, cell, bar) ==
    IF bar.o >= entry + cell.sl THEN B!Outcome("sl", entry - bar.o, bar.o, FALSE, TRUE)
    ELSE IF bar.o <= entry - cell.tp THEN B!Outcome("tp", cell.tp, bar.o, FALSE, TRUE)
    ELSE IF bar.h >= entry + cell.sl
    THEN B!Outcome("sl", -cell.sl, entry + cell.sl, bar.l <= entry - cell.tp, FALSE)
    ELSE IF bar.l <= entry - cell.tp
    THEN B!Outcome("tp", cell.tp, entry - cell.tp, FALSE, FALSE)
    ELSE B!Open

LEMMA DecidedIs ==
    ASSUME NEW entry \in Int, NEW cell \in [sl : Nat, tp : Nat, clock : Nat],
           NEW bar \in [o : Int, h : Int, l : Int, c : Int]
    PROVE  /\ B!Decided("BUY", entry, cell, bar) = Bought(entry, cell, bar)
           /\ B!Decided("SELL", entry, cell, bar) = Sold(entry, cell, bar)
<1>1. B!Stop("BUY", entry, cell) = entry - cell.sl
      /\ B!Target("BUY", entry, cell) = entry + cell.tp
  BY DEF B!Stop, B!Target, B!Sign
<1>2. B!Stop("SELL", entry, cell) = entry + cell.sl
      /\ B!Target("SELL", entry, cell) = entry - cell.tp
  BY DEF B!Stop, B!Target, B!Sign
<1>3. B!Decided("BUY", entry, cell, bar) = Bought(entry, cell, bar)
  BY <1>1 DEF B!Decided, Bought
<1>4. B!Decided("SELL", entry, cell, bar) = Sold(entry, cell, bar)
  BY <1>2 DEF B!Decided, Sold
<1> QED BY <1>3, <1>4

LEMMA CellsAre == \A cell \in Cells : cell \in [sl : Nat, tp : Nat, clock : Nat]
  BY LabelAssumption
LEMMA BarsAre ==
    \A b \in Bars : b \in [o : Int, h : Int, l : Int, c : Int] /\ b.l <= b.o /\ b.o <= b.h
  BY LabelAssumption

\* A decided bar costs what the trade may cost and pays what it may pay.
LEMMA DecidedFair ==
    ASSUME NEW side \in B!Sides, NEW entry \in Int, NEW cell \in Cells, NEW bar \in Bars
    PROVE  LET d == B!Decided(side, entry, cell, bar)
           IN  /\ d.label \in {"sl", "tp", "open"}
               /\ d.label = "sl" => /\ d.won <= -cell.sl
                                    /\ d.won < -cell.sl => d.gap
                                    /\ d.exit \in bar.l..bar.h
               /\ d.label = "tp" =>
                     /\ d.won = cell.tp
                     /\ \/ IF side = "BUY" THEN bar.l > entry - cell.sl
                                           ELSE bar.h < entry + cell.sl
                        \/ d.gap
<1>1. /\ cell \in [sl : Nat, tp : Nat, clock : Nat]
      /\ bar \in [o : Int, h : Int, l : Int, c : Int] /\ bar.l <= bar.o /\ bar.o <= bar.h
  BY CellsAre, BarsAre
<1>2. CASE side = "BUY"
  <2>1. B!Decided(side, entry, cell, bar) = Bought(entry, cell, bar)
    BY <1>1, <1>2, DecidedIs
  <2> QED BY <1>1, <1>2, <2>1 DEF Bought, B!Outcome, B!Open
<1>3. CASE side = "SELL"
  <2>1. B!Decided(side, entry, cell, bar) = Sold(entry, cell, bar)
    BY <1>1, <1>3, DecidedIs
  <2> QED BY <1>1, <1>3, <2>1 DEF Sold, B!Outcome, B!Open
<1> QED BY <1>2, <1>3 DEF B!Sides

\* Selling the mirror image of a bar is buying the bar.
LEMMA DecidedMirrored ==
    ASSUME NEW entry \in Int, NEW cell \in Cells, NEW bar \in Bars
    PROVE  LET a == B!Decided("BUY", entry, cell, bar)
               b == B!Decided("SELL", entry, cell, B!Mirrored(bar, entry))
           IN  a.label = b.label /\ a.won = b.won
<1> DEFINE m == B!Mirrored(bar, entry)
<1>1. /\ cell \in [sl : Nat, tp : Nat, clock : Nat]
      /\ bar \in [o : Int, h : Int, l : Int, c : Int]
  BY CellsAre, BarsAre
<1>2. /\ m \in [o : Int, h : Int, l : Int, c : Int] /\ m.o = 2 * entry - bar.o
      /\ m.h = 2 * entry - bar.l /\ m.l = 2 * entry - bar.h
  BY <1>1 DEF B!Mirrored
<1> HIDE DEF m
<1>3. B!Decided("BUY", entry, cell, bar) = Bought(entry, cell, bar)
      /\ B!Decided("SELL", entry, cell, m) = Sold(entry, cell, m)
  BY <1>1, <1>2, DecidedIs
<1>4. Bought(entry, cell, bar).label = Sold(entry, cell, m).label
      /\ Bought(entry, cell, bar).won = Sold(entry, cell, m).won
  BY <1>1, <1>2 DEF Bought, Sold, B!Outcome, B!Open
<1> QED BY <1>3, <1>4 DEF m

\* A nearer target: what the farther one left open is no loss, and where the
\* farther one was reached the nearer one is.
LEMMA DecidedNearer ==
    ASSUME NEW side \in B!Sides, NEW entry \in Int, NEW a \in Cells, NEW b \in Cells,
           a.sl = b.sl, a.tp <= b.tp, NEW bar \in Bars
    PROVE  LET x == B!Decided(side, entry, a, bar).label
               y == B!Decided(side, entry, b, bar).label
           IN  (y = "open" => x \in {"open", "tp"}) /\ (y = "tp" => x = "tp")
<1>1. /\ a \in [sl : Nat, tp : Nat, clock : Nat] /\ b \in [sl : Nat, tp : Nat, clock : Nat]
      /\ bar \in [o : Int, h : Int, l : Int, c : Int]
  BY CellsAre, BarsAre
<1>2. CASE side = "BUY"
  <2>1. /\ B!Decided(side, entry, a, bar) = Bought(entry, a, bar)
        /\ B!Decided(side, entry, b, bar) = Bought(entry, b, bar)
    BY <1>1, <1>2, DecidedIs
  <2> QED BY <1>1, <2>1 DEF Bought, B!Outcome, B!Open
<1>3. CASE side = "SELL"
  <2>1. /\ B!Decided(side, entry, a, bar) = Sold(entry, a, bar)
        /\ B!Decided(side, entry, b, bar) = Sold(entry, b, bar)
    BY <1>1, <1>3, DecidedIs
  <2> QED BY <1>1, <2>1 DEF Sold, B!Outcome, B!Open
<1> QED BY <1>2, <1>3 DEF B!Sides

(***************************************************************************)
(* The labels of an event                                                  *)
(***************************************************************************)
\* A label a price decided is of the bar that decided first.
LEMMA LabelDecided ==
    ASSUME NEW side \in B!Sides, NEW entry \in Int, NEW cell \in Cells,
           NEW future \in Seq(Bars)
    PROVE  LET r == B!Label(side, entry, cell, future)
           IN  /\ r.out.label \in {"sl", "tp"} =>
                     /\ DecidedAt(side, entry, cell, future, r.held)
                     /\ r.held \in 1..Len(future) /\ future[r.held] \in Bars
                     /\ r.out = B!Decided(side, entry, cell, future[r.held])
               /\ \A h : DecidedAt(side, entry, cell, future, h) =>
                     /\ r.out.label \in {"sl", "tp"} /\ r.held = h
<1> DEFINE n == Spanned(cell, future)
           r == B!Label(side, entry, cell, future)
<1>1. n \in Nat /\ Len(future) \in Nat /\ n <= Len(future) BY SpannedIs
<1>2. \A k \in 1..n : k \in 1..Len(future) /\ future[k] \in Bars
  <2> HIDE DEF n
  <2> QED BY <1>1
<1>3. \A k \in 1..n : B!Decided(side, entry, cell, future[k]).label \in {"sl", "tp", "open"}
  <2> HIDE DEF n
  <2> QED BY <1>2, DecidedFair
<1>4. ASSUME NEW h, DecidedAt(side, entry, cell, future, h),
             NEW i, DecidedAt(side, entry, cell, future, i)
      PROVE  h = i
  <2>1. h \in 1..n /\ i \in 1..n BY <1>4 DEF DecidedAt
  <2>2. ~(h < i) /\ ~(i < h)
    <3> HIDE DEF n
    <3>1. h < i => h \in 1..(i - 1) BY <1>1, <2>1
    <3>2. i < h => i \in 1..(h - 1) BY <1>1, <2>1
    <3> QED BY <1>4, <3>1, <3>2 DEF DecidedAt
  <2> HIDE DEF n
  <2> QED BY <1>1, <2>1, <2>2
<1>5. CASE \E h \in 1..n : /\ DecidedAt(side, entry, cell, future, h)
                           /\ r.held = h /\ r.out = B!Decided(side, entry, cell, future[h])
  <2>1. PICK h \in 1..n : /\ DecidedAt(side, entry, cell, future, h)
                          /\ r.held = h /\ r.out = B!Decided(side, entry, cell, future[h])
    BY <1>5
  <2>2. ~Opens(side, entry, cell, future[h]) BY <2>1 DEF DecidedAt
  <2> HIDE DEF n, r
  <2>3. r.out.label \in {"sl", "tp"} BY <1>3, <2>1, <2>2 DEF Opens
  <2>4. h \in 1..Len(future) /\ future[h] \in Bars BY <1>2, <2>1
  <2>5. \A i : DecidedAt(side, entry, cell, future, i) => i = h BY <1>4, <2>1
  <2> QED BY <2>1, <2>3, <2>4, <2>5 DEF n, r
<1>6. CASE /\ \A k \in 1..n : Opens(side, entry, cell, future[k])
           /\ r.out = TimedOut(side, entry, future, n)
  <2>1. \A h : ~DecidedAt(side, entry, cell, future, h) BY <1>6 DEF DecidedAt
  <2> HIDE DEF n, r
  <2>2. r.out.label \in {"pending", "expired"} BY <1>6 DEF TimedOut, B!Outcome
  <2>3. r.out.label \notin {"sl", "tp"} BY <2>2
  <2> QED BY <2>1, <2>3 DEF n, r
<1>7. Labelled(side, entry, cell, future, r) BY LabelIs
<1> QED
  <2> HIDE DEF r
  <2> QED BY <1>5, <1>6, <1>7 DEF Labelled, r

\* What a cell decided, a longer clock and a longer future decide alike.
LEMMA LabelPersists ==
    ASSUME NEW side \in B!Sides, NEW entry \in Int, NEW a \in Cells, NEW b \in Cells,
           a.sl = b.sl, a.tp = b.tp, a.clock <= b.clock,
           NEW f \in Seq(Bars), NEW g \in Seq(Bars),
           Len(f) <= Len(g), \A k \in 1..Len(f) : g[k] = f[k],
           B!Label(side, entry, a, f).out.label \in {"sl", "tp"}
    PROVE  B!Label(side, entry, b, g) = B!Label(side, entry, a, f)
<1> DEFINE x == B!Label(side, entry, a, f)
           y == B!Label(side, entry, b, g)
           h == x.held
<1>1. /\ DecidedAt(side, entry, a, f, h) /\ h \in 1..Len(f) /\ f[h] \in Bars
      /\ x.out = B!Decided(side, entry, a, f[h])
  BY LabelDecided
<1>2. \A bar \in Bars : B!Decided(side, entry, a, bar) = B!Decided(side, entry, b, bar)
  <2>1. ASSUME NEW bar \in Bars
        PROVE  B!Decided(side, entry, a, bar) = B!Decided(side, entry, b, bar)
    <3>1. B!Stop(side, entry, a) = B!Stop(side, entry, b)
          /\ B!Target(side, entry, a) = B!Target(side, entry, b)
      BY DEF B!Stop, B!Target
    <3> QED BY <3>1 DEF B!Decided
  <2> QED BY <2>1
<1>3. Spanned(a, f) \in Nat /\ Spanned(a, f) <= Spanned(b, g) /\ Spanned(a, f) <= Len(f)
      /\ Spanned(b, g) \in Nat /\ Len(f) \in Nat /\ Len(g) \in Nat
  <2>1. a.clock \in Nat /\ b.clock \in Nat BY CellsAre
  <2> QED BY <2>1 DEF Spanned
<1>4. \A k \in 1..h : k \in 1..Len(f) /\ g[k] = f[k] /\ f[k] \in Bars
  <2> HIDE DEF h
  <2> QED BY <1>1, <1>3
<1>5. h \in 1..Spanned(a, f) /\ ~Opens(side, entry, a, f[h])
      /\ \A k \in 1..(h - 1) : Opens(side, entry, a, f[k])
  BY <1>1 DEF DecidedAt
<1>6. DecidedAt(side, entry, b, g, h)
  <2> HIDE DEF h
  <2>1. h \in 1..Spanned(b, g) BY <1>3, <1>5
  <2>2. h \in 1..h /\ \A k \in 1..(h - 1) : k \in 1..h BY <2>1, <1>3
  <2>3. ~Opens(side, entry, b, g[h]) BY <1>2, <1>4, <1>5, <2>2 DEF Opens
  <2>4. \A k \in 1..(h - 1) : Opens(side, entry, b, g[k])
    BY <1>2, <1>4, <1>5, <2>2 DEF Opens
  <2> QED BY <2>1, <2>3, <2>4 DEF DecidedAt
<1>7. y.out.label \in {"sl", "tp"} /\ y.held = h BY <1>6, LabelDecided
<1>8. y.out = B!Decided(side, entry, b, g[h]) BY <1>7, LabelDecided
<1>9. y.out = x.out
  <2> HIDE DEF h, x, y
  <2>1. h \in 1..h BY <1>1, <1>3
  <2> QED BY <1>1, <1>2, <1>4, <1>8, <2>1
<1>10. SubSeq(f, 1, h) = SubSeq(g, 1, h)
  <2> HIDE DEF h
  <2>1. h \in Nat /\ h \in 0..Len(f) /\ h \in 0..Len(g) BY <1>1, <1>3
  <2> DEFINE u == SubSeq(f, 1, h)
             w == SubSeq(g, 1, h)
  <2>2. u \in Seq(Bars) /\ Len(u) = h /\ \A k \in 1..h : u[k] = f[k] BY <2>1
  <2>3. w \in Seq(Bars) /\ Len(w) = h /\ \A k \in 1..h : w[k] = g[k] BY <2>1
  <2> HIDE DEF u, w
  <2>4. u = w BY <1>4, <2>2, <2>3, SeqEqual
  <2> QED BY <2>4 DEF u, w
<1>11. /\ x = [out |-> x.out, held |-> x.held,
               mfe |-> B!Best(side, entry, SubSeq(f, 1, x.held)),
               mae |-> B!Worst(side, entry, SubSeq(f, 1, x.held))]
       /\ y = [out |-> y.out, held |-> y.held,
               mfe |-> B!Best(side, entry, SubSeq(g, 1, y.held)),
               mae |-> B!Worst(side, entry, SubSeq(g, 1, y.held))]
  <2>1. Labelled(side, entry, a, f, x) /\ Labelled(side, entry, b, g, y) BY LabelIs
  <2> HIDE DEF x, y
  <2> QED BY <2>1 DEF Labelled
<1>12. x.held = h OBVIOUS
<1> HIDE DEF x, y, h
<1> QED BY <1>7, <1>9, <1>10, <1>11, <1>12 DEF x, y

LEMMA LabelKept ==
    ASSUME NEW side \in B!Sides, NEW entry \in Int, NEW cell \in Cells,
           NEW f \in Seq(Bars), NEW g \in Seq(Bars),
           Len(f) <= Len(g), \A k \in 1..Len(f) : g[k] = f[k],
           B!Label(side, entry, cell, f).out.label \in {"sl", "tp"}
    PROVE  B!Label(side, entry, cell, g) = B!Label(side, entry, cell, f)
<1>1. cell.clock <= cell.clock
  <2>1. cell.clock \in Nat BY CellsAre
  <2> QED BY <2>1
<1>2. \A a \in Cells : a = cell =>
         a.sl = cell.sl /\ a.tp = cell.tp /\ a.clock <= cell.clock
  BY <1>1
<1> QED BY <1>2, LabelPersists, SMTT(30)

LEMMA EventIs ==
    ASSUME BarsTyped, NEW i \in B!Emitted
    PROVE  LET e == B!Event(i)
           IN  /\ e.side \in B!Sides /\ e.side = said[i]
               /\ e.entry \in Int /\ e.entry = bars[i].c
               /\ e.future \in Seq(Bars) /\ Len(e.future) = Len(bars) - i
               /\ \A k \in 1..(Len(bars) - i) : e.future[k] = bars[i + k]
<1>1. /\ i \in 1..Len(bars) /\ i \in Nat /\ said[i] \in B!Sides /\ bars[i] \in Bars
      /\ bars \in Seq(Bars) /\ Len(bars) \in Nat
  BY EmittedIs DEF BarsTyped
<1>2. bars[i].c \in Int BY <1>1, BarsAre
<1> DEFINE f == SubSeq(bars, i + 1, Len(bars))
<1>3. f \in Seq(Bars) /\ Len(f) = Len(bars) - i
      /\ \A k \in 1..(Len(bars) - i) : f[k] = bars[i + k]
  BY <1>1
<1> HIDE DEF f
<1>4. B!Event(i) = [at |-> i, side |-> said[i], entry |-> bars[i].c, future |-> f]
  BY DEF B!Event, f
<1> QED BY <1>1, <1>2, <1>3, <1>4

(***************************************************************************)
(* What every label is worth                                               *)
(***************************************************************************)
LEMMA FairHolds == ASSUME BarsTyped PROVE B!NeverFlattered
<1> SUFFICES ASSUME NEW i \in B!Emitted, NEW cell \in Cells
    PROVE  LET e == B!Event(i)
               o == B!Label(e.side, e.entry, cell, e.future)
               bar == e.future[o.held]
           IN  /\ o.out.label = "sl" => /\ o.out.won <= -cell.sl
                                        /\ o.out.won < -cell.sl => o.out.gap
                                        /\ o.out.exit \in bar.l..bar.h
               /\ o.out.label = "tp" =>
                     /\ o.out.won = cell.tp
                     /\ \/ IF e.side = "BUY" THEN bar.l > e.entry - cell.sl
                                             ELSE bar.h < e.entry + cell.sl
                        \/ o.out.gap
  BY DEF B!NeverFlattered, B!Events
<1> DEFINE e == B!Event(i)
           o == B!Label(e.side, e.entry, cell, e.future)
           bar == e.future[o.held]
<1>1. e.side \in B!Sides /\ e.entry \in Int /\ e.future \in Seq(Bars) BY EventIs
<1> HIDE DEF e
<1>2. o.out.label \in {"sl", "tp"} =>
         bar \in Bars /\ o.out = B!Decided(e.side, e.entry, cell, bar)
  BY <1>1, LabelDecided
<1> HIDE DEF o, bar
<1>3. o.out.label \in {"sl", "tp"} =>
         /\ o.out.label = "sl" => /\ o.out.won <= -cell.sl
                                  /\ o.out.won < -cell.sl => o.out.gap
                                  /\ o.out.exit \in bar.l..bar.h
         /\ o.out.label = "tp" =>
               /\ o.out.won = cell.tp
               /\ \/ IF e.side = "BUY" THEN bar.l > e.entry - cell.sl
                                       ELSE bar.h < e.entry + cell.sl
                  \/ o.out.gap
  BY <1>1, <1>2, DecidedFair
<1> QED BY <1>3 DEF e, o, bar

LEMMA MirrorHolds == ASSUME BarsTyped PROVE B!SellMirrorsBuy
<1> SUFFICES ASSUME NEW i \in B!Emitted, NEW cell \in Cells
    PROVE  LET e == B!Event(i)
               mirror == [k \in DOMAIN e.future |-> B!Mirrored(e.future[k], e.entry)]
               a == B!Label("BUY", e.entry, cell, e.future)
               b == B!Label("SELL", e.entry, cell, mirror)
           IN  a.out.label = b.out.label /\ a.out.won = b.out.won /\ a.held = b.held
  BY DEF B!SellMirrorsBuy, B!Events
<1> DEFINE p == B!Event(i).entry
           f == B!Event(i).future
           g == [k \in DOMAIN f |-> B!Mirrored(f[k], p)]
           a == B!Label("BUY", p, cell, f)
           b == B!Label("SELL", p, cell, g)
           n == Spanned(cell, f)
           T == [o : Int, h : Int, l : Int, c : Int]
<1>1. p \in Int /\ f \in Seq(Bars) BY EventIs
<1> HIDE DEF p, f
<1>2. /\ n \in Nat /\ Len(f) \in Nat /\ n <= Len(f) BY <1>1, SpannedIs
<1>3. \A k \in 1..Len(f) : f[k] \in Bars /\ f[k] \in T BY <1>1, BarsAre
<1>4. g \in Seq(T) /\ Len(g) = Len(f) /\ \A k \in 1..Len(f) : g[k] = B!Mirrored(f[k], p)
  <2>1. \A k \in 1..Len(f) : B!Mirrored(f[k], p) \in T BY <1>1, <1>3 DEF B!Mirrored
  <2>2. DOMAIN f = 1..Len(f) /\ Len(f) \in Nat BY <1>1
  <2>3. g = [k \in 1..Len(f) |-> B!Mirrored(f[k], p)] BY <2>2
  <2> HIDE DEF g, T
  <2> QED BY <2>1, <2>2, <2>3
<1>5. Labelled("BUY", p, cell, f, a) BY <1>1, LabelIs
<1>6. Labelled("SELL", p, cell, g, b)
  <2> HIDE DEF g, T
  <2> QED BY <1>4, LabelIs
<1>7. Spanned(cell, g) = n BY <1>4 DEF Spanned
<1>8. \A k \in 1..n : /\ k \in 1..Len(f) /\ f[k] \in Bars /\ f[k] \in T
                      /\ g[k] = B!Mirrored(f[k], p)
  <2> HIDE DEF n, g, T
  <2> QED BY <1>2, <1>3, <1>4
<1> HIDE DEF n, g, T, a, b
<1>9. \A k \in 1..n :
         /\ B!Decided("BUY", p, cell, f[k]).label = B!Decided("SELL", p, cell, g[k]).label
         /\ B!Decided("BUY", p, cell, f[k]).won = B!Decided("SELL", p, cell, g[k]).won
  BY <1>1, <1>8, DecidedMirrored
<1>10. \A k \in 1..n : Opens("BUY", p, cell, f[k]) <=> Opens("SELL", p, cell, g[k])
  BY <1>9 DEF Opens
<1>11. ASSUME \A k \in 1..n : Opens("BUY", p, cell, f[k])
       PROVE  a.out.label = b.out.label /\ a.out.won = b.out.won /\ a.held = b.held
  <2>1. a.held = n /\ a.out = TimedOut("BUY", p, f, n)
    BY <1>5, <1>11 DEF Labelled, DecidedAt, n
  <2>2. b.held = n /\ b.out = TimedOut("SELL", p, g, n)
    <3>1. \A h : ~DecidedAt("SELL", p, cell, g, h)
      BY <1>7, <1>10, <1>11 DEF DecidedAt
    <3> QED BY <1>6, <1>7, <3>1 DEF Labelled
  <2>3. CASE n = 0 BY <2>1, <2>2, <2>3 DEF TimedOut, B!Outcome
  <2>4. CASE n # 0
    <3>1. n \in 1..n BY <1>2, <2>4
    <3>2. f[n] \in T /\ g[n] = B!Mirrored(f[n], p) BY <1>8, <3>1
    <3>3. f[n].c \in Int /\ g[n].c = 2 * p - f[n].c
      BY <3>2 DEF B!Mirrored, T
    <3>4. B!Sign("BUY") * (f[n].c - p) = B!Sign("SELL") * (g[n].c - p)
      BY <1>1, <3>3 DEF B!Sign
    <3> QED BY <2>1, <2>2, <2>4, <3>4 DEF TimedOut, B!Outcome
  <2> QED BY <2>3, <2>4
<1>12. ASSUME ~\A k \in 1..n : Opens("BUY", p, cell, f[k])
       PROVE  a.out.label = b.out.label /\ a.out.won = b.out.won /\ a.held = b.held
  <2>1. PICK h \in 1..n : /\ DecidedAt("BUY", p, cell, f, h) /\ a.held = h
                          /\ a.out = B!Decided("BUY", p, cell, f[h])
    BY <1>5, <1>12 DEF Labelled, n
  <2>2. PICK j \in 1..n : /\ DecidedAt("SELL", p, cell, g, j) /\ b.held = j
                          /\ b.out = B!Decided("SELL", p, cell, g[j])
    BY <1>6, <1>7, <1>10, <1>12 DEF Labelled
  <2>3. ~Opens("BUY", p, cell, f[h]) /\ ~Opens("BUY", p, cell, f[j])
    BY <1>10, <2>1, <2>2 DEF DecidedAt
  <2>4. /\ \A k \in 1..(h - 1) : Opens("BUY", p, cell, f[k])
        /\ \A k \in 1..(j - 1) : Opens("SELL", p, cell, g[k])
    BY <2>1, <2>2 DEF DecidedAt
  <2>5. \A k \in 1..(j - 1) : k \in 1..n BY <1>2
  <2>6. h \notin 1..(j - 1) /\ j \notin 1..(h - 1) BY <1>10, <2>3, <2>4, <2>5
  <2>7. h = j BY <1>2, <2>6
  <2> QED BY <1>9, <2>1, <2>2, <2>7
<1>13. a.out.label = b.out.label /\ a.out.won = b.out.won /\ a.held = b.held
  BY <1>11, <1>12
<1> QED BY <1>13 DEF a, b, g, f, p

LEMMA GridHolds == ASSUME BarsTyped PROVE B!GridCoherent
<1> SUFFICES ASSUME NEW i \in B!Emitted, NEW a \in Cells, NEW b \in Cells
    PROVE  LET e == B!Event(i)
               x == B!Label(e.side, e.entry, a, e.future)
               y == B!Label(e.side, e.entry, b, e.future)
           IN  /\ a.sl = b.sl /\ a.tp = b.tp /\ a.clock <= b.clock
                     /\ x.out.label \in {"sl", "tp"} => x = y
               /\ a.sl = b.sl /\ a.clock = b.clock /\ a.tp <= b.tp /\ y.out.label = "tp"
                     => x.out.label = "tp" /\ x.held <= y.held
  BY DEF B!GridCoherent, B!Study, B!Grid
<1> DEFINE side == B!Event(i).side
           p == B!Event(i).entry
           f == B!Event(i).future
           x == B!Label(side, p, a, f)
           y == B!Label(side, p, b, f)
<1>1. side \in B!Sides /\ p \in Int /\ f \in Seq(Bars) BY EventIs
<1> HIDE DEF side, p, f
<1>2. ASSUME a.sl = b.sl, a.tp = b.tp, a.clock <= b.clock, x.out.label \in {"sl", "tp"}
      PROVE  x = y
  <2>1. Len(f) <= Len(f) BY <1>1
  <2> QED BY <1>1, <1>2, <2>1, LabelPersists
<1>3. ASSUME a.sl = b.sl, a.clock = b.clock, a.tp <= b.tp, y.out.label = "tp"
      PROVE  x.out.label = "tp" /\ x.held <= y.held
  <2> DEFINE h == y.held
             n == Spanned(a, f)
  <2>1. n = Spanned(b, f) /\ n \in Nat /\ Len(f) \in Nat /\ n <= Len(f)
    <3>1. n = Spanned(b, f) BY <1>3 DEF Spanned
    <3> QED BY <1>1, <3>1, SpannedIs
  <2>2. DecidedAt(side, p, b, f, h) /\ y.out = B!Decided(side, p, b, f[h])
    BY <1>1, <1>3, LabelDecided
  <2> HIDE DEF n, h, x, y
  <2>3. h \in 1..n /\ \A k \in 1..(h - 1) : Opens(side, p, b, f[k])
    BY <2>1, <2>2 DEF DecidedAt
  <2>4. \A k \in 1..n : k \in 1..Len(f) /\ f[k] \in Bars BY <1>1, <2>1
  <2>5. B!Decided(side, p, a, f[h]).label = "tp"
    BY <1>1, <1>3, <2>2, <2>3, <2>4, DecidedNearer
  <2>6. \A k \in 1..(h - 1) :
           k \in 1..n /\ B!Decided(side, p, a, f[k]).label \in {"open", "tp"}
    <3>1. \A k \in 1..(h - 1) : k \in 1..n BY <2>1, <2>3
    <3> QED BY <1>1, <1>3, <2>3, <2>4, <3>1, DecidedNearer DEF Opens
  <2>7. Labelled(side, p, a, f, x) BY <1>1, LabelIs DEF x
  <2>8. ~Opens(side, p, a, f[h]) BY <2>5 DEF Opens
  <2>9. PICK j \in 1..n : /\ DecidedAt(side, p, a, f, j) /\ x.held = j
                          /\ x.out = B!Decided(side, p, a, f[j])
    BY <2>3, <2>7, <2>8 DEF Labelled, n
  <2>10. h \notin 1..(j - 1)
    BY <2>8, <2>9 DEF DecidedAt
  <2>11. j <= h BY <2>1, <2>3, <2>10
  <2>12. j = h \/ j \in 1..(h - 1) BY <2>1, <2>3, <2>11
  <2>13. ~Opens(side, p, a, f[j]) BY <2>9 DEF DecidedAt
  <2>14. B!Decided(side, p, a, f[j]).label = "tp"
    BY <2>5, <2>6, <2>12, <2>13 DEF Opens
  <2> QED BY <2>9, <2>11, <2>14 DEF h
<1> QED BY <1>2, <1>3 DEF side, p, f

(***************************************************************************)
(* A longer history                                                        *)
(***************************************************************************)
LEMMA LastKept ==
    ASSUME BarsTyped, BarsTyped', Len(said) <= Len(said'),
           \A k \in 1..Len(said) : said'[k] = said[k]
    PROVE  \A i \in 0..Len(said) : B!LastEvent'[i] = B!LastEvent[i]
<1> DEFINE m == Len(said)
           S == {i \in 0..m : B!LastEvent'[i] = B!LastEvent[i]}
<1>1. m \in Nat /\ m <= MaxBars /\ MaxBars \in Nat BY LabelAssumption DEF BarsTyped
<1>2. \A i \in 0..MaxBars : B!LastEvent[i] = Follows(B!LastEvent, i)
  BY LastEventDef
<1>3. \A i \in 0..MaxBars : B!LastEvent'[i] = Follows(B!LastEvent, i)'
  <2>1. (\A i \in 0..MaxBars : B!LastEvent[i] = Follows(B!LastEvent, i))'
    BY LastEventDef, PTL
  <2> QED BY <2>1
<1>4. 0 \in S
  <2>1. Follows(B!LastEvent, 0) = 0 /\ Follows(B!LastEvent, 0)' = 0
    BY LabelAssumption DEF Follows
  <2>2. 0 \in 0..MaxBars /\ 0 \in 0..m BY <1>1
  <2> QED BY <1>2, <1>3, <2>1, <2>2
<1>5. ASSUME NEW n \in 0..(m - 1), n \in S PROVE n + 1 \in S
  <2>1. n + 1 \in 0..MaxBars /\ n + 1 \in 1..m /\ n + 1 \in 0..m /\ (n + 1) - 1 = n
    BY <1>1
  <2>2. said'[n + 1] = said[n + 1] BY <2>1
  <2>3. B!LastEvent'[n] = B!LastEvent[n] BY <1>5
  <2>4. Follows(B!LastEvent, n + 1)' = Follows(B!LastEvent, n + 1)
    BY <2>1, <2>2, <2>3 DEF Follows, B!Cool
  <2> QED BY <1>2, <1>3, <2>1, <2>4
<1> HIDE DEF S, m
<1>6. \A n \in 0..m : n \in S BY <1>1, <1>4, <1>5, UpTo
<1> QED BY <1>6 DEF S, m

EventSays(i) ==
    LET e == B!Event(i)
    IN  /\ e.side \in B!Sides /\ e.side = said[i] /\ e.entry \in Int /\ e.entry = bars[i].c
        /\ e.future \in Seq(Bars) /\ Len(e.future) = Len(bars) - i
        /\ \A k \in 1..(Len(bars) - i) : e.future[k] = bars[i + k]

EventsTold == BarsTyped => \A i \in B!Emitted : EventSays(i)

LEMMA EventsSay == EventsTold
  BY EventIs DEF EventSays, EventsTold

\* The step of the property of Barrier.
StudyKept ==
    /\ B!Emitted \subseteq B!Emitted'
    /\ LET was == B!Study
           now == B!Study'
       IN  \A k \in DOMAIN was : \A cell \in Cells :
              was[k][cell].out.label \in {"sl", "tp"} => now[k][cell] = was[k][cell]

LEMMA StudyKeeps ==
    ASSUME BarsTyped, BarsTyped', Len(bars) <= Len(bars'),
           \A k \in 1..Len(bars) : bars'[k] = bars[k] /\ said'[k] = said[k]
    PROVE  StudyKept
<1>1. /\ bars \in Seq(Bars) /\ bars' \in Seq(Bars) /\ Len(bars) \in Nat /\ Len(bars') \in Nat
      /\ Len(said) = Len(bars) /\ Len(said') = Len(bars') /\ Warmup \in Nat
  BY LabelAssumption DEF BarsTyped
<1>2. \A i \in 0..Len(said) : B!LastEvent'[i] = B!LastEvent[i] BY <1>1, LastKept
<1>3. ASSUME NEW i \in B!Emitted PROVE i \in B!Emitted'
  <2>1. i \in 1..Len(bars) /\ i \in Nat /\ i >= Warmup /\ B!LastEvent[i] = i BY EmittedIs
  <2>2. i \in 0..Len(said) /\ i \in Warmup..Len(bars') BY <1>1, <2>1
  <2> QED BY <1>2, <2>1, <2>2 DEF B!Emitted
<1>4. ASSUME NEW i \in B!Emitted, NEW cell \in Cells,
             B!Study[i][cell].out.label \in {"sl", "tp"}
      PROVE  (B!Study[i][cell])' = B!Study[i][cell]
  <2> DEFINE side == B!Event(i).side
             p == B!Event(i).entry
             f == B!Event(i).future
             g == B!Event(i).future'
  <2>1. /\ side \in B!Sides /\ side = said[i] /\ p \in Int /\ p = bars[i].c
        /\ f \in Seq(Bars) /\ Len(f) = Len(bars) - i
        /\ \A k \in 1..(Len(bars) - i) : f[k] = bars[i + k]
    BY EventIs
  <2>2. i \in B!Emitted' BY <1>3
  <2>3. /\ side' \in B!Sides /\ side' = said'[i] /\ p' = bars'[i].c
        /\ g \in Seq(Bars) /\ Len(g) = Len(bars') - i
        /\ \A k \in 1..(Len(bars') - i) : g[k] = bars'[i + k]
    <3>1. EventsTold' BY EventsSay, PTL
    <3>2. EventSays(i)' BY <2>2, <3>1 DEF EventsTold
    <3> QED BY <3>2 DEF EventSays
  <2>4. i \in 1..Len(bars) BY EmittedIs
  <2>5. side' = side /\ p' = p
    <3> HIDE DEF side, p, f, g
    <3> QED BY <2>1, <2>3, <2>4
  <2>6. /\ g \in Seq(Bars) /\ Len(f) <= Len(g) /\ \A k \in 1..Len(f) : g[k] = f[k]
    <3> HIDE DEF side, p, f, g
    <3>1. \A k \in 1..(Len(bars) - i) : k \in 1..(Len(bars') - i) /\ i + k \in 1..Len(bars)
      BY <1>1, <2>4
    <3>2. \A k \in 1..(Len(bars) - i) : g[k] = f[k] BY <2>1, <2>3, <3>1
    <3>3. Len(f) <= Len(g) BY <1>1, <2>1, <2>3, <2>4
    <3> QED BY <2>1, <2>3, <3>2, <3>3
  <2>7. B!Study[i][cell] = B!Label(side, p, cell, f) BY DEF B!Study, B!Grid
  <2>8. (B!Study[i][cell])' = B!Label(side', p', cell, g)
    BY <2>2 DEF B!Study, B!Grid
  <2> HIDE DEF side, p, f, g
  <2>9. B!Label(side, p, cell, g) = B!Label(side, p, cell, f)
    <3>1. B!Label(side, p, cell, f).out.label \in {"sl", "tp"} BY <1>4, <2>7
    <3> QED BY <2>1, <2>6, <3>1, LabelKept
  <2> QED BY <2>5, <2>7, <2>8, <2>9
<1>5. DOMAIN B!Study = B!Emitted BY DEF B!Study
<1> QED BY <1>3, <1>4, <1>5 DEF StudyKept

(***************************************************************************)
(* The theorems                                                            *)
(***************************************************************************)
LEMMA BarsInit == LabInit => BarsTyped
  BY LabelAssumption DEF LabInit, B!Init, BarsTyped

LEMMA BarsStep ==
    ASSUME BarsTyped, [LabNext]_<<vars, barrierVars, verdictVars, bench>>
    PROVE  /\ BarsTyped' /\ Len(bars) <= Len(bars')
           /\ \A k \in 1..Len(bars) : bars'[k] = bars[k] /\ said'[k] = said[k]
<1>1. CASE UNCHANGED <<bars, said>>
  <2>1. Len(bars) \in Nat BY DEF BarsTyped
  <2> QED BY <1>1, <2>1 DEF BarsTyped
<1>2. ASSUME NEW bar \in Bars, NEW says \in B!Sides \cup {"none"}, B!BarPrints(bar, says)
      PROVE  /\ BarsTyped' /\ Len(bars) <= Len(bars')
             /\ \A k \in 1..Len(bars) : bars'[k] = bars[k] /\ said'[k] = said[k]
  <2>1. /\ bars \in Seq(Bars) /\ said \in Seq(B!Sides \cup {"none"})
        /\ Len(bars) = Len(said) /\ Len(bars) \in Nat /\ MaxBars \in Nat
    BY LabelAssumption DEF BarsTyped
  <2>2. /\ bars' = Append(bars, bar) /\ said' = Append(said, says) /\ Len(bars) < MaxBars
    BY <1>2 DEF B!BarPrints
  <2>3. /\ bars' \in Seq(Bars) /\ Len(bars') = Len(bars) + 1
        /\ \A k \in 1..Len(bars) : bars'[k] = bars[k]
    BY <2>1, <2>2
  <2>4. /\ said' \in Seq(B!Sides \cup {"none"}) /\ Len(said') = Len(said) + 1
        /\ \A k \in 1..Len(said) : said'[k] = said[k]
    BY <2>1, <2>2
  <2> QED BY <2>1, <2>2, <2>3, <2>4 DEF BarsTyped
<1>3. CASE B!Next BY <1>2, <1>3 DEF B!Next
<1> QED BY <1>1, <1>3 DEF LabNext, barrierVars

\* For any bars with a low no higher than the open and a high no lower, any grid,
\* any warm-up and any cooldown: selling the mirror image is buying, a decided
\* label costs and pays what it may, clocks and targets agree along the grid, and
\* the cooldown loses no setup.
THEOREM LabelsAlwaysSound == LabSpec => []LabelsSound
<1>1. LabInit => BarsTyped BY BarsInit
<1>2. BarsTyped /\ [LabNext]_<<vars, barrierVars, verdictVars, bench>> => BarsTyped'
  BY BarsStep
<1>3. BarsTyped => LabelsSound
  BY MirrorHolds, FairHolds, GridHolds, CooldownHolds DEF LabelsSound
<1> QED BY <1>1, <1>2, <1>3, PTL DEF LabSpec

\* For the same constants: a longer history takes no event back and changes no
\* label that a price had decided.
THEOREM NeverLooksAhead == LabSpec => NoLookahead
<1>1. LabInit => BarsTyped BY BarsInit
<1>2. BarsTyped /\ [LabNext]_<<vars, barrierVars, verdictVars, bench>> => BarsTyped'
  BY BarsStep
<1>3. BarsTyped /\ [LabNext]_<<vars, barrierVars, verdictVars, bench>>
        => [StudyKept]_<<bars, said>>
  BY BarsStep, StudyKeeps
<1>4. (LabSpec => [][StudyKept]_<<bars, said>>) => (LabSpec => NoLookahead)
  BY DEF NoLookahead, B!NoLookahead, StudyKept, B!vars
<1> QED BY <1>1, <1>2, <1>3, <1>4, PTL DEF LabSpec

LEMMA SumTyped ==
    ASSUME NEW S, IsFiniteSet(S), NEW f \in [S -> Int]
    PROVE  V!SumFunction(f) \in Int
<1>1. DOMAIN f = S OBVIOUS
<1>2. V!SumFunction(f) = (CHOOSE g : g = [s \in SUBSET S |-> Adds(f, g, s)])[S]
  BY <1>1 DEF V!SumFunction, V!SumFunctionOnSet, V!FoldFunctionOnSet, V!MapThenFoldSet, Adds
<1> QED BY <1>2, FoldTyped

(***************************************************************************)
(* The best cell                                                           *)
(***************************************************************************)
CellType == [sl : Nat, tp : Nat, mb : Nat]
RowType == [n : Nat, mean : Int]

LEMMA BeatsOrders ==
    ASSUME NEW R \in SUBSET CellType, NEW row \in [R -> RowType],
           NEW a \in R, NEW b \in R, NEW c \in R
    PROVE  /\ a # b => V!Beats(row, a, b) \/ V!Beats(row, b, a)
           /\ V!Beats(row, a, b) /\ V!Beats(row, b, c) => V!Beats(row, a, c)
<1>1. /\ row[a].n \in Nat /\ row[b].n \in Nat /\ row[c].n \in Nat
      /\ row[a].mean \in Int /\ row[b].mean \in Int /\ row[c].mean \in Int
  BY DEF RowType
<1>2. a \in CellType /\ b \in CellType /\ c \in CellType OBVIOUS
<1>3. a # b => V!Listed(a, b) \/ V!Listed(b, a)
  BY <1>2 DEF CellType, V!Listed
<1>4. V!Listed(a, b) /\ V!Listed(b, c) => V!Listed(a, c)
  BY <1>2 DEF CellType, V!Listed
<1> QED BY <1>1, <1>3, <1>4 DEF V!Beats

LEMMA FirstExists ==
    ASSUME NEW R \in SUBSET CellType, R # {}, IsFiniteSet(R), NEW row \in [R -> RowType]
    PROVE  \E a \in R : \A b \in R \ {a} : V!Beats(row, a, b)
<1> DEFINE Tops(T) == \E a \in T : \A b \in T \ {a} : V!Beats(row, a, b)
           Bad == {Cardinality(T) : T \in {T \in SUBSET R : T # {} /\ ~Tops(T)}}
<1>1. SUFFICES ASSUME Bad # {} PROVE FALSE OBVIOUS
<1>2. Bad \in SUBSET Nat
  <2>1. \A T \in SUBSET R : Cardinality(T) \in Nat BY FS_Subset, FS_CardinalityType
  <2> HIDE DEF Tops
  <2> QED BY <2>1
<1>3. PICK n \in Bad : \A k \in Bad : n <= k
  <2> HIDE DEF Bad
  <2> QED BY <1>1, <1>2, LeastIn
<1>4. PICK T \in SUBSET R : T # {} /\ ~Tops(T) /\ Cardinality(T) = n
  <2> HIDE DEF Tops
  <2> QED OBVIOUS
<1>5. PICK a \in T : TRUE BY <1>4
<1>6. T \ {a} # {}
  <2>1. T \ {a} = {} => Tops(T) OBVIOUS
  <2> QED BY <1>4, <2>1
<1>7. Tops(T \ {a})
  <2> HIDE DEF Tops
  <2>1. SUFFICES ASSUME ~Tops(T \ {a}) PROVE FALSE OBVIOUS
  <2>2. IsFiniteSet(T) BY FS_Subset
  <2>3. Cardinality(T \ {a}) = Cardinality(T) - 1 /\ Cardinality(T) \in Nat
    BY <2>2, FS_RemoveElement, FS_CardinalityType
  <2>4. Cardinality(T \ {a}) \in Bad BY <1>6, <2>1
  <2>5. n <= Cardinality(T \ {a}) BY <1>3, <2>4
  <2> QED BY <1>4, <2>3, <2>5
<1>8. PICK m \in T \ {a} : \A b \in (T \ {a}) \ {m} : V!Beats(row, m, b) BY <1>7
<1>9. a \in R /\ m \in R /\ a # m OBVIOUS
<1>10. CASE V!Beats(row, m, a)
  <2>1. \A b \in T \ {m} : V!Beats(row, m, b) BY <1>8, <1>10
  <2> QED BY <1>4, <2>1
<1>11. CASE V!Beats(row, a, m)
  <2>1. \A b \in T \ {a} : V!Beats(row, a, b)
    <3> SUFFICES ASSUME NEW b \in T \ {a}, b # m PROVE V!Beats(row, a, b) BY <1>11
    <3>1. V!Beats(row, m, b) /\ b \in R BY <1>8
    <3> QED BY <1>9, <1>11, <3>1, BeatsOrders
  <2> QED BY <1>4, <2>1
<1> QED BY <1>9, <1>10, <1>11, BeatsOrders

LEMMA FirstIn ==
    ASSUME NEW R \in SUBSET CellType, R # {}, IsFiniteSet(R), NEW row \in [R -> RowType]
    PROVE  V!FirstCell(row) \in R
<1>1. DOMAIN row = R OBVIOUS
<1>2. \E a \in R : \A b \in R \ {a} : V!Beats(row, a, b) BY FirstExists
<1> QED BY <1>1, <1>2 DEF V!FirstCell

(***************************************************************************)
(* Configurations and samples                                              *)
(***************************************************************************)
\* what a proposal may be made of
ConfigType ==
    [sls : SUBSET Config.sls, tps : SUBSET Config.tps, mbs : SUBSET Config.mbs,
     opps : SUBSET Config.opps, confs : SUBSET Config.confs, assets : SUBSET Config.assets]
Usable(c) ==
    /\ c \in ConfigType /\ c.sls # {} /\ c.tps # {} /\ c.mbs # {}
    /\ c.opps # {} /\ c.confs # {}

LEMMA CellsOf ==
    ASSUME NEW c, Usable(c)
    PROVE  /\ IsFiniteSet(V!BarrierGrid(c)) /\ V!BarrierGrid(c) \subseteq V!BarrierGrid(Config)
           /\ V!BarrierGrid(c) \subseteq CellType
           /\ \A cell : cell \in V!BarrierGrid(c) <=>
                 \E sl \in c.sls, tp \in c.tps, mb \in c.mbs : cell = V!Cell(sl, tp, mb)
<1>1. /\ c.sls \subseteq Config.sls /\ c.tps \subseteq Config.tps
      /\ c.mbs \subseteq Config.mbs
  BY DEF Usable, ConfigType
<1>2. /\ Config.sls \subseteq Nat /\ IsFiniteSet(Config.sls)
      /\ Config.tps \subseteq Nat /\ IsFiniteSet(Config.tps)
      /\ Config.mbs \subseteq Nat /\ IsFiniteSet(Config.mbs)
  BY VerdictAssumption
<1>3. IsFiniteSet(c.sls) /\ IsFiniteSet(c.tps) /\ IsFiniteSet(c.mbs)
  BY <1>1, <1>2, FS_Subset
<1> DEFINE P == (c.sls \X c.tps) \X c.mbs
           f == [p \in P |-> V!Cell(p[1][1], p[1][2], p[2])]
<1>4. IsFiniteSet(P) BY <1>3, FS_Product
<1>5. f \in Surjection(P, V!BarrierGrid(c))
  <2>1. \A p \in P : f[p] \in V!BarrierGrid(c) BY DEF V!BarrierGrid
  <2>2. ASSUME NEW cell \in V!BarrierGrid(c) PROVE \E p \in P : f[p] = cell
    <3>1. PICK sl \in c.sls, tp \in c.tps, mb \in c.mbs : cell = V!Cell(sl, tp, mb)
      BY DEF V!BarrierGrid
    <3>2. <<<<sl, tp>>, mb>> \in P OBVIOUS
    <3>3. f[<<<<sl, tp>>, mb>>] = cell BY <3>1, <3>2
    <3> QED BY <3>2, <3>3
  <2> QED BY <2>1, <2>2 DEF Surjection
<1> HIDE DEF P, f
<1>6. IsFiniteSet(V!BarrierGrid(c)) BY <1>4, <1>5, FS_Surjection
<1>7. V!BarrierGrid(c) \subseteq V!BarrierGrid(Config) BY <1>1 DEF V!BarrierGrid
<1>8. V!BarrierGrid(c) \subseteq CellType BY <1>1, <1>2 DEF V!BarrierGrid, V!Cell, CellType
<1> QED BY <1>6, <1>7, <1>8 DEF V!BarrierGrid

LEMMA SameCardinality == \A S : V!Cardinality(S) = Cardinality(S)
  BY DEF V!Cardinality, Cardinality

LEMMA DrawnOf ==
    ASSUME NEW c, NEW es \in Seq(Kinds), NEW S \in SUBSET V!Drawn(c, es)
    PROVE  /\ S \subseteq DOMAIN es /\ IsFiniteSet(S)
           /\ \A i \in S : es[i] \in Kinds
<1>1. DOMAIN es = 1..Len(es) /\ Len(es) \in Nat OBVIOUS
<1>2. IsFiniteSet(DOMAIN es) BY <1>1, FS_Interval
<1>3. S \subseteq DOMAIN es BY DEF V!Drawn
<1>4. \A i \in S : es[i] \in Kinds BY <1>1, <1>3
<1> QED BY <1>2, <1>3, <1>4, FS_Subset

LEMMA SummaryTyped ==
    ASSUME NEW c, NEW es \in Seq(Kinds), NEW S \in SUBSET V!Drawn(c, es),
           NEW cell \in V!BarrierGrid(Config)
    PROVE  V!Summary(es, S, cell) \in RowType
<1> DEFINE L == V!Labelled(es, S, cell)
           won == [i \in L |-> Won(es[i], cell)]
<1>1. L \subseteq S /\ L \in SUBSET V!Drawn(c, es) BY DEF V!Labelled
<1>2. IsFiniteSet(L) /\ \A i \in L : es[i] \in Kinds BY <1>1, DrawnOf
<1>3. Cardinality(L) \in Nat BY <1>2, FS_CardinalityType
<1>4. won \in [L -> Int] BY <1>2, VerdictAssumption
<1>5. DOMAIN won = L OBVIOUS
<1>6. V!Summary(es, S, cell) = [n |-> Cardinality(L), mean |-> V!Net(won)]
  <2>1. V!Summary(es, S, cell) = [n |-> V!Cardinality(L), mean |-> V!Net(won)]
    BY DEF V!Summary
  <2>2. V!Cardinality(L) = Cardinality(L) BY SameCardinality
  <2> QED BY <2>1, <2>2
<1> HIDE DEF L, won
<1>7. V!SumFunction(won) \in Int BY <1>2, <1>4, SumTyped
<1>8. V!Net(won) \in Int
  <2> DEFINE n == Cardinality(L)
             total == V!SumFunction(won)
  <2>1. n \in Nat /\ total \in Int /\ Cost \in Nat /\ Scale \in Nat
    BY <1>3, <1>7, VerdictAssumption
  <2>2. V!Net(won) = IF n = 0 THEN 0 ELSE (total * Scale) \div n - Cost * Scale
    <3>1. V!Cardinality(L) = Cardinality(L) BY SameCardinality
    <3> QED BY <1>5, <3>1 DEF V!Net
  <2> HIDE DEF n, total
  <2>3. total * Scale \in Int /\ Cost * Scale \in Int BY <2>1
  <2>4. n # 0 => (total * Scale) \div n \in Int BY <2>1, <2>3
  <2> QED BY <2>2, <2>3, <2>4
<1> QED BY <1>3, <1>6, <1>8 DEF RowType

LEMMA WinnerIn ==
    ASSUME NEW c, Usable(c), NEW es \in Seq(Kinds), NEW S \in SUBSET V!Drawn(c, es)
    PROVE  V!Winner(c, es, S) = V!NoCell \/ V!Winner(c, es, S) \in V!BarrierGrid(c)
<1> DEFINE R == V!Rows(c, es, S)
           row == [cell \in R |-> V!Summary(es, S, cell)]
<1>1. R \subseteq V!BarrierGrid(c) BY DEF V!Rows
<1>2. /\ IsFiniteSet(V!BarrierGrid(c)) /\ V!BarrierGrid(c) \subseteq V!BarrierGrid(Config)
      /\ V!BarrierGrid(c) \subseteq CellType
  BY CellsOf
<1>3. IsFiniteSet(R) /\ R \in SUBSET CellType BY <1>1, <1>2, FS_Subset
<1>4. \A cell \in R : V!Summary(es, S, cell) \in RowType BY <1>1, <1>2, SummaryTyped
<1>5. row \in [R -> RowType] BY <1>4
<1>6. V!Winner(c, es, S) = IF R = {} THEN V!NoCell ELSE V!FirstCell(row)
  BY DEF V!Winner
<1> HIDE DEF R, row
<1>7. R # {} => V!FirstCell(row) \in R BY <1>3, <1>5, FirstIn
<1> QED BY <1>1, <1>6, <1>7

(***************************************************************************)
(* The proposal                                                            *)
(***************************************************************************)
Narrower(n, c) ==
    /\ Usable(n)
    /\ n.sls \subseteq c.sls /\ n.tps \subseteq c.tps /\ n.mbs \subseteq c.mbs
    /\ n.opps \subseteq c.opps /\ n.confs \subseteq c.confs /\ n.assets \subseteq c.assets

LEMMA NeighborsOf ==
    ASSUME NEW S \in SUBSET Nat, NEW w \in S
    PROVE  V!Neighbors(S, w) \subseteq S /\ w \in V!Neighbors(S, w)
<1>1. \A y \in S : ~((w < y /\ y < w) \/ (w < y /\ y < w)) OBVIOUS
<1> QED BY <1>1 DEF V!Neighbors

LEMMA PrunedOf ==
    ASSUME NEW c, Usable(c), NEW es, NEW S
    PROVE  /\ V!Pruned(c, es, S) \subseteq c.tps /\ V!Pruned(c, es, S) # {}
           /\ V!Pruned(c, es, S) = c.tps \/ Cardinality(V!Pruned(c, es, S)) >= 3
<1> DEFINE P == V!Pruned(c, es, S)
<1>1. PICK cap : P = c.tps \/ (P = {tp \in c.tps : tp <= cap} /\ ~(Cardinality(P) < 3))
  <2>1. \E cap : P = c.tps \/ (P = {tp \in c.tps : tp <= cap} /\ ~(V!Cardinality(P) < 3))
    BY DEF V!Pruned
  <2>2. V!Cardinality(P) = Cardinality(P) BY SameCardinality
  <2> QED BY <2>1, <2>2
<1>2. c.tps # {} /\ c.tps \subseteq Config.tps /\ IsFiniteSet(Config.tps)
  BY VerdictAssumption DEF Usable, ConfigType
<1> HIDE DEF P
<1>3. P \subseteq c.tps BY <1>1
<1>4. IsFiniteSet(P) BY <1>2, <1>3, FS_Subset
<1>5. Cardinality(P) \in Nat /\ (P = {} => Cardinality(P) = 0)
  BY <1>4, FS_CardinalityType, FS_EmptySet
<1>6. P # {} BY <1>1, <1>2, <1>5
<1>7. P = c.tps \/ Cardinality(P) >= 3 BY <1>1, <1>5
<1> QED BY <1>3, <1>6, <1>7 DEF P

LEMMA ZoomedOf ==
    ASSUME NEW c, Usable(c), NEW win \in V!BarrierGrid(c)
    PROVE  Narrower(V!Zoomed(c, win), c) /\ win \in V!BarrierGrid(V!Zoomed(c, win))
           /\ V!Zoomed(c, win).assets = c.assets
<1>1. PICK sl \in c.sls, tp \in c.tps, mb \in c.mbs : win = V!Cell(sl, tp, mb)
  BY DEF V!BarrierGrid
<1>2. win.sl = sl /\ win.tp = tp /\ win.mb = mb BY <1>1 DEF V!Cell
<1>3. /\ c \in ConfigType /\ c.sls \subseteq Config.sls /\ c.tps \subseteq Config.tps
      /\ c.mbs \subseteq Config.mbs /\ Config.sls \subseteq Nat /\ Config.tps \subseteq Nat
  BY VerdictAssumption DEF Usable, ConfigType
<1> DEFINE sls == V!Neighbors(c.sls, sl)
           tps == V!Neighbors(c.tps, tp)
           z == [c EXCEPT !.sls = sls, !.tps = tps, !.mbs = {mb}]
<1>4. V!Zoomed(c, win) = z BY <1>2 DEF V!Zoomed
<1>5. /\ sls \subseteq c.sls /\ sl \in sls /\ tps \subseteq c.tps /\ tp \in tps
  <2>1. c.sls \in SUBSET Nat /\ c.tps \in SUBSET Nat BY <1>3
  <2> QED BY <2>1, NeighborsOf
<1> HIDE DEF sls, tps
<1>6. /\ z.sls = sls /\ z.tps = tps /\ z.mbs = {mb} /\ z.opps = c.opps
      /\ z.confs = c.confs /\ z.assets = c.assets /\ z \in ConfigType
  BY <1>3, <1>5 DEF ConfigType
<1> HIDE DEF z
<1>7. Narrower(z, c) BY <1>3, <1>5, <1>6 DEF Narrower, Usable
<1>8. win \in V!BarrierGrid(z) BY <1>1, <1>5, <1>6 DEF V!BarrierGrid
<1> QED BY <1>4, <1>6, <1>7, <1>8

\* What the analysis of a usable run proposes is a narrower usable run with a
\* sample, with the winner in it if it held.
Fair(c, es, v) ==
    /\ Narrower(v.next, c) /\ V!Drawn(v.next, es) # {}
    /\ v.holds => v.win \in V!BarrierGrid(v.next)
    /\ ~v.holds => v.next.tps = c.tps \/ Cardinality(v.next.tps) >= 3

LEMMA ProposalFair ==
    ASSUME NEW c, Usable(c), NEW es \in Seq(Kinds), NEW S, S = V!Drawn(c, es), S # {},
           NEW gate, NEW win \in V!BarrierGrid(c), NEW holds \in BOOLEAN
    PROVE  LET n == V!Proposal(c, es, S, gate, win, holds)
           IN  /\ Narrower(n, c) /\ V!Drawn(n, es) # {}
               /\ holds => win \in V!BarrierGrid(n)
               /\ ~holds => n.tps = c.tps \/ Cardinality(n.tps) >= 3
<1> DEFINE pruned == V!Pruned(c, es, S)
           kept == [c EXCEPT !.tps = pruned]
           grid == IF holds THEN V!Zoomed(c, win) ELSE kept
           isRow == gate \in V!GateRows(c, es, V!Train(S))
           takes == isRow /\ V!GateMean(c, es, V!Test(S), gate) > 0
           fixed == IF takes THEN [grid EXCEPT !.opps = {gate.opp}, !.confs = {gate.conf}]
                    ELSE grid
           strict == V!Strict(es, S, gate, win)
           picks == holds /\ strict # {} /\ strict # V!PerAsset(es, S, gate, win)
           n == IF picks THEN [fixed EXCEPT !.assets = strict] ELSE fixed
<1>1. V!Proposal(c, es, S, gate, win, holds) = n BY DEF V!Proposal
<1>2. /\ pruned \subseteq c.tps /\ pruned # {}
      /\ pruned = c.tps \/ Cardinality(pruned) >= 3
  BY PrunedOf
<1>3. isRow => gate.opp \in c.opps /\ gate.conf \in c.confs
  BY DEF V!GateRows, V!Gates
<1>4. strict \subseteq {es[i].asset : i \in S} BY DEF V!Strict, V!PerAsset
<1>5. c \in ConfigType /\ Usable(c) BY DEF Usable
<1> HIDE DEF pruned, isRow, strict, picks
<1>6. kept \in ConfigType /\ kept.tps = pruned /\ kept.sls = c.sls /\ kept.mbs = c.mbs
      /\ kept.opps = c.opps /\ kept.confs = c.confs /\ kept.assets = c.assets
  BY <1>2, <1>5 DEF ConfigType
<1>7. Narrower(kept, c)
  <2> HIDE DEF kept
  <2> QED BY <1>2, <1>5, <1>6 DEF Narrower, Usable
<1> HIDE DEF kept
<1>8. /\ Narrower(grid, c) /\ grid \in ConfigType /\ grid.assets = c.assets
      /\ holds => win \in V!BarrierGrid(grid)
      /\ ~holds => grid.tps = c.tps \/ Cardinality(grid.tps) >= 3
  <2>1. CASE holds BY <2>1, ZoomedOf DEF Narrower, Usable
  <2>2. CASE ~holds BY <1>2, <1>6, <1>7, <2>2
  <2> QED BY <2>1, <2>2
<1> HIDE DEF grid, takes
<1>9. /\ Narrower(fixed, c) /\ fixed \in ConfigType /\ fixed.sls = grid.sls
      /\ fixed.tps = grid.tps /\ fixed.mbs = grid.mbs /\ fixed.assets = c.assets
  <2>1. CASE takes
    <3>1. gate.opp \in c.opps /\ gate.conf \in c.confs BY <1>3, <2>1 DEF takes
    <3> DEFINE g == [grid EXCEPT !.opps = {gate.opp}, !.confs = {gate.conf}]
    <3>2. /\ g.sls = grid.sls /\ g.tps = grid.tps /\ g.mbs = grid.mbs
          /\ g.assets = grid.assets /\ g.opps = {gate.opp} /\ g.confs = {gate.conf}
          /\ g \in ConfigType
      BY <1>5, <1>8, <3>1 DEF ConfigType
    <3>3. fixed = g BY <2>1
    <3> HIDE DEF g, fixed
    <3> QED BY <1>8, <3>1, <3>2, <3>3 DEF Narrower, Usable
  <2>2. CASE ~takes BY <1>8, <2>2
  <2> QED BY <2>1, <2>2
<1> HIDE DEF fixed
<1>10. V!BarrierGrid(fixed) = V!BarrierGrid(grid) BY <1>9 DEF V!BarrierGrid
<1>11. /\ Narrower(n, c) /\ n.sls = fixed.sls /\ n.tps = fixed.tps /\ n.mbs = fixed.mbs
       /\ n.assets = IF picks THEN strict ELSE c.assets
  <2>1. CASE picks
    <3>1. strict \subseteq c.assets
      BY <1>4 DEF V!Drawn
    <3>2. strict \subseteq Config.assets BY <1>5, <3>1 DEF ConfigType
    <3> DEFINE g == [fixed EXCEPT !.assets = strict]
    <3>3. /\ g.sls = fixed.sls /\ g.tps = fixed.tps /\ g.mbs = fixed.mbs
          /\ g.opps = fixed.opps /\ g.confs = fixed.confs /\ g.assets = strict
          /\ g \in ConfigType
      BY <1>9, <3>2 DEF ConfigType
    <3>4. n = g BY <2>1
    <3> HIDE DEF g, n
    <3> QED BY <1>9, <2>1, <3>1, <3>3, <3>4 DEF Narrower, Usable
  <2>2. CASE ~picks BY <1>9, <2>2
  <2> QED BY <2>1, <2>2
<1> HIDE DEF n
<1>12. V!BarrierGrid(n) = V!BarrierGrid(grid)
  <2>1. V!BarrierGrid(n) = V!BarrierGrid(fixed) BY <1>11 DEF V!BarrierGrid
  <2> QED BY <1>10, <2>1
<1>13. V!Drawn(n, es) # {}
  <2>1. CASE picks
    <3>1. PICK a \in strict : a \in {es[j].asset : j \in S} BY <1>4, <2>1 DEF picks
    <3>2. PICK i \in S : es[i].asset = a BY <3>1
    <3>3. i \in V!Drawn(n, es) BY <1>11, <2>1, <3>1, <3>2 DEF V!Drawn
    <3> QED BY <3>3
  <2>2. CASE ~picks
    <3>1. V!Drawn(n, es) = S BY <1>11, <2>2 DEF V!Drawn
    <3> QED BY <3>1
  <2> QED BY <2>1, <2>2
<1> QED BY <1>1, <1>8, <1>9, <1>11, <1>12, <1>13

LEMMA AnalysisIs ==
    ASSUME NEW c, NEW es
    PROVE  LET D == V!Drawn(c, es)
               gate == V!BestGate(c, es, V!Train(D))
               win == V!Winner(c, es, V!Gated(es, V!Train(D), gate))
           IN  \/ V!Enough(D) /\ V!Analysis(c, es) = V!Concluded(c, es, D, gate, win)
               \/ V!Analysis(c, es).at = "short"
  BY DEF V!Analysis, V!SelectedOn, V!Short

LEMMA AnalysisFair ==
    ASSUME NEW c, Usable(c), NEW es \in Seq(Kinds), V!Analysis(c, es).at = "done"
    PROVE  Fair(c, es, V!Analysis(c, es))
<1> DEFINE v == V!Analysis(c, es)
           D == V!Drawn(c, es)
           gate == V!BestGate(c, es, V!Train(D))
           win == V!Winner(c, es, V!Gated(es, V!Train(D), gate))
           test == IF win = V!NoCell THEN 0
                   ELSE V!Summary(es, V!Gated(es, V!Test(D), gate), win).mean
           holds == win # V!NoCell /\ test > 0
<1>1. V!Enough(D) /\ v = V!Concluded(c, es, D, gate, win) BY AnalysisIs
<1>2. D # {}
  <2>1. V!Cardinality(V!Train(D)) >= MinTrain /\ MinTrain \in Nat \ {0}
    BY <1>1, VerdictAssumption DEF V!Enough
  <2>2. V!Cardinality(V!Train(D)) = Cardinality(V!Train(D)) BY SameCardinality
  <2>3. V!Train(D) \subseteq D BY DEF V!Train
  <2> HIDE DEF D
  <2>4. D = {} => Cardinality(V!Train(D)) = 0
    <3>1. D = {} => V!Train(D) = {} BY <2>3
    <3> QED BY <3>1, FS_EmptySet
  <2> QED BY <2>1, <2>2, <2>4
<1>3. win = V!NoCell \/ win \in V!BarrierGrid(c)
  <2>1. V!Gated(es, V!Train(D), gate) \in SUBSET D BY DEF V!Gated, V!Train
  <2> QED BY <2>1, WinnerIn
<1>4. /\ v.win = win /\ v.holds = holds
      /\ v.next = IF win = V!NoCell THEN c ELSE V!Proposal(c, es, D, gate, win, holds)
  BY <1>1 DEF V!Concluded
<1>5. holds \in BOOLEAN /\ (win = V!NoCell => ~holds) OBVIOUS
<1>6. c.tps = c.tps /\ Narrower(c, c) BY DEF Narrower
<1> HIDE DEF v, gate, win, holds
<1>7. CASE win = V!NoCell
  <2>1. v.next = c /\ ~v.holds BY <1>4, <1>5, <1>7
  <2> QED BY <1>2, <1>6, <2>1 DEF Fair, v, D
<1>8. CASE win # V!NoCell
  <2> DEFINE n == V!Proposal(c, es, D, gate, win, holds)
  <2>1. /\ Narrower(n, c) /\ V!Drawn(n, es) # {}
        /\ holds => win \in V!BarrierGrid(n)
        /\ ~holds => n.tps = c.tps \/ Cardinality(n.tps) >= 3
    <3> HIDE DEF D
    <3>1. D = V!Drawn(c, es) BY DEF D
    <3> QED BY <1>2, <1>3, <1>5, <1>8, <3>1, ProposalFair
  <2> HIDE DEF n
  <2>2. v.next = n BY <1>4, <1>8 DEF n
  <2> QED BY <1>4, <2>1, <2>2 DEF Fair, v
<1> QED BY <1>7, <1>8

(***************************************************************************)
(* What the test period may not change                                     *)
(***************************************************************************)
LEMMA SameSample ==
    ASSUME NEW es, NEW fs, NEW S, \A i \in S : es[i] = fs[i]
    PROVE  /\ \A gate : V!Gated(es, S, gate) = V!Gated(fs, S, gate)
           /\ \A cell : V!Score(es, S, cell) = V!Score(fs, S, cell)
           /\ \A cell : V!Summary(es, S, cell) = V!Summary(fs, S, cell)
<1>1. \A gate : V!Gated(es, S, gate) = V!Gated(fs, S, gate) BY DEF V!Gated
<1>2. ASSUME NEW cell PROVE V!Score(es, S, cell) = V!Score(fs, S, cell)
  <2> DEFINE f == [i \in S |-> IF Won(es[i], cell) = V!Pending THEN 0 ELSE Won(es[i], cell)]
             g == [i \in S |-> IF Won(fs[i], cell) = V!Pending THEN 0 ELSE Won(fs[i], cell)]
  <2>1. f = g OBVIOUS
  <2>2. V!Score(es, S, cell) = V!Net(f) /\ V!Score(fs, S, cell) = V!Net(g)
    BY DEF V!Score
  <2> HIDE DEF f, g
  <2> QED BY <2>1, <2>2
<1>3. ASSUME NEW cell PROVE V!Summary(es, S, cell) = V!Summary(fs, S, cell)
  <2>1. V!Labelled(es, S, cell) = V!Labelled(fs, S, cell) BY DEF V!Labelled
  <2> DEFINE L == V!Labelled(es, S, cell)
             f == [i \in L |-> Won(es[i], cell)]
             g == [i \in L |-> Won(fs[i], cell)]
  <2>2. f = g
    <3>1. \A i \in L : es[i] = fs[i] BY DEF V!Labelled
    <3> HIDE DEF L
    <3> QED BY <3>1
  <2>3. V!Summary(es, S, cell) = [n |-> V!Cardinality(L), mean |-> V!Net(f)]
    BY DEF V!Summary
  <2>4. V!Summary(fs, S, cell) = [n |-> V!Cardinality(L), mean |-> V!Net(g)]
    BY <2>1 DEF V!Summary
  <2> HIDE DEF L, f, g
  <2> QED BY <2>2, <2>3, <2>4
<1> QED BY <1>1, <1>2, <1>3

LEMMA SameGate ==
    ASSUME NEW c, NEW es, NEW fs, NEW S, \A i \in S : es[i] = fs[i]
    PROVE  V!BestGate(c, es, S) = V!BestGate(c, fs, S)
<1>1. \A gate : V!Gated(es, S, gate) = V!Gated(fs, S, gate) BY SameSample
<1>2. V!GateRows(c, es, S) = V!GateRows(c, fs, S) BY <1>1 DEF V!GateRows
<1>3. ASSUME NEW gate PROVE V!GateMean(c, es, S, gate) = V!GateMean(c, fs, S, gate)
  <2> DEFINE K == V!Gated(es, S, gate)
             f == [p \in RefCells |->
                      V!Score(es, K, V!Cell(p.sl, p.tp, V!Max(c.mbs)))]
             g == [p \in RefCells |->
                      V!Score(fs, K, V!Cell(p.sl, p.tp, V!Max(c.mbs)))]
  <2>1. \A i \in K : es[i] = fs[i] BY DEF V!Gated
  <2>2. \A cell : V!Score(es, K, cell) = V!Score(fs, K, cell)
    <3> HIDE DEF K
    <3> QED BY <2>1, SameSample
  <2>3. f = g
    <3> HIDE DEF K
    <3> QED BY <2>2
  <2>4. V!GateMean(c, es, S, gate)
           = IF V!Cardinality(K) < GateMin THEN 0 ELSE V!SumFunction(f)
    BY DEF V!GateMean
  <2>5. V!GateMean(c, fs, S, gate)
           = IF V!Cardinality(K) < GateMin THEN 0 ELSE V!SumFunction(g)
    BY <1>1 DEF V!GateMean
  <2> HIDE DEF K, f, g
  <2> QED BY <2>3, <2>4, <2>5
<1> DEFINE R == V!GateRows(c, es, S)
           f == [g \in R |-> V!GateMean(c, es, S, g)]
           h == [g \in R |-> V!GateMean(c, fs, S, g)]
<1>4. f = h BY <1>3
<1>5. V!BestGate(c, es, S) = IF R = {} THEN V!Open ELSE V!FirstGate(f)
  BY DEF V!BestGate
<1>6. V!BestGate(c, fs, S) = IF R = {} THEN V!Open ELSE V!FirstGate(h)
  BY <1>2 DEF V!BestGate
<1> HIDE DEF R, f, h
<1> QED BY <1>4, <1>5, <1>6

LEMMA SameWinner ==
    ASSUME NEW c, NEW es, NEW fs, NEW S, \A i \in S : es[i] = fs[i]
    PROVE  V!Winner(c, es, S) = V!Winner(c, fs, S)
<1>1. \A cell : V!Summary(es, S, cell) = V!Summary(fs, S, cell) BY SameSample
<1>2. V!Rows(c, es, S) = V!Rows(c, fs, S) BY <1>1 DEF V!Rows
<1> DEFINE R == V!Rows(c, es, S)
           f == [cell \in R |-> V!Summary(es, S, cell)]
           g == [cell \in R |-> V!Summary(fs, S, cell)]
<1>3. f = g BY <1>1
<1>4. V!Winner(c, es, S) = IF R = {} THEN V!NoCell ELSE V!FirstCell(f)
  BY DEF V!Winner
<1>5. V!Winner(c, fs, S) = IF R = {} THEN V!NoCell ELSE V!FirstCell(g)
  BY <1>2 DEF V!Winner
<1> HIDE DEF R, f, g
<1> QED BY <1>3, <1>4, <1>5

LEMMA SameChoice ==
    ASSUME NEW c, NEW es, NEW fs, V!Drawn(c, es) = V!Drawn(c, fs),
           \A i \in V!Train(V!Drawn(c, es)) : fs[i] = es[i],
           V!Analysis(c, es).at = "done", V!Analysis(c, fs).at = "done"
    PROVE  /\ V!Analysis(c, fs).gate = V!Analysis(c, es).gate
           /\ V!Analysis(c, fs).win = V!Analysis(c, es).win
<1> DEFINE T == V!Train(V!Drawn(c, es))
           gate == V!BestGate(c, es, T)
           K == V!Gated(es, T, gate)
           win == V!Winner(c, es, K)
<1>1. \A i \in T : es[i] = fs[i] OBVIOUS
<1>2. V!Analysis(c, es).gate = gate /\ V!Analysis(c, es).win = win
  BY AnalysisIs DEF V!Concluded
<1>3. /\ V!Analysis(c, fs).gate = V!BestGate(c, fs, T)
      /\ V!Analysis(c, fs).win = V!Winner(c, fs, V!Gated(fs, T, V!BestGate(c, fs, T)))
  BY AnalysisIs DEF V!Concluded
<1> HIDE DEF T
<1>4. V!BestGate(c, fs, T) = gate BY <1>1, SameGate
<1>5. V!Gated(fs, T, gate) = K BY <1>1, SameSample
<1>6. \A i \in K : es[i] = fs[i] BY <1>1 DEF V!Gated
<1> HIDE DEF K, gate
<1>7. V!Winner(c, fs, K) = win BY <1>6, SameWinner
<1> QED BY <1>2, <1>3, <1>4, <1>5, <1>7

\* A proposal zooms in on the winner when it holds, and fixes the gate at hand or none.
LEMMA ProposalAround ==
    ASSUME NEW c \in ConfigType, NEW es, NEW S,
           NEW gate, NEW win, NEW holds \in BOOLEAN
    PROVE  LET n == V!Proposal(c, es, S, gate, win, holds)
               z == V!Zoomed(c, win)
           IN  /\ holds => n.sls = z.sls /\ n.tps = z.tps /\ n.mbs = z.mbs
               /\ \/ n.opps = c.opps /\ n.confs = c.confs
                  \/ n.opps = {gate.opp} /\ n.confs = {gate.conf}
<1> DEFINE z == V!Zoomed(c, win)
           kept == [c EXCEPT !.tps = V!Pruned(c, es, S)]
           grid == IF holds THEN z ELSE kept
           narrow == [grid EXCEPT !.opps = {gate.opp}, !.confs = {gate.conf}]
           takes == gate \in V!GateRows(c, es, V!Train(S))
                       /\ V!GateMean(c, es, V!Test(S), gate) > 0
           fixed == IF takes THEN narrow ELSE grid
           strict == V!Strict(es, S, gate, win)
           picks == holds /\ strict # {} /\ strict # V!PerAsset(es, S, gate, win)
           n == IF picks THEN [fixed EXCEPT !.assets = strict] ELSE fixed
           Names == {"sls", "tps", "mbs", "opps", "confs", "assets"}
<1>1. V!Proposal(c, es, S, gate, win, holds) = n BY DEF V!Proposal
<1>2. DOMAIN c = Names BY DEF ConfigType
<1>3. DOMAIN z = Names /\ z.opps = c.opps /\ z.confs = c.confs BY <1>2 DEF V!Zoomed
<1>4. DOMAIN kept = Names /\ kept.opps = c.opps /\ kept.confs = c.confs BY <1>2
<1> HIDE DEF z, kept, takes, strict, picks
<1>5. DOMAIN grid = Names /\ grid.opps = c.opps /\ grid.confs = c.confs
      /\ (holds => grid = z)
  BY <1>3, <1>4
<1> HIDE DEF grid
<1>6. /\ DOMAIN fixed = Names /\ fixed.sls = grid.sls /\ fixed.tps = grid.tps
      /\ fixed.mbs = grid.mbs
      /\ \/ fixed.opps = c.opps /\ fixed.confs = c.confs
         \/ fixed.opps = {gate.opp} /\ fixed.confs = {gate.conf}
  <2>1. /\ DOMAIN narrow = Names /\ narrow.sls = grid.sls /\ narrow.tps = grid.tps
        /\ narrow.mbs = grid.mbs /\ narrow.opps = {gate.opp} /\ narrow.confs = {gate.conf}
    BY <1>5
  <2> HIDE DEF narrow
  <2> QED BY <1>5, <2>1
<1> HIDE DEF fixed
<1>7. /\ n.sls = fixed.sls /\ n.tps = fixed.tps /\ n.mbs = fixed.mbs
      /\ n.opps = fixed.opps /\ n.confs = fixed.confs
  BY <1>6
<1> HIDE DEF n
<1> QED BY <1>1, <1>5, <1>6, <1>7 DEF z

\* Two runs that pick the same gate and cell propose the same, where they propose it.
LEMMA SameProposal ==
    ASSUME NEW c \in ConfigType, NEW es, NEW fs,
           V!Drawn(c, es) = V!Drawn(c, fs),
           \A i \in V!Train(V!Drawn(c, es)) : fs[i] = es[i],
           V!Analysis(c, es).at = "done", V!Analysis(c, fs).at = "done"
    PROVE  LET v == V!Analysis(c, es)
               w == V!Analysis(c, fs)
           IN  /\ v.holds /\ w.holds => V!BarrierGrid(w.next) = V!BarrierGrid(v.next)
               /\ V!Gates(v.next) # V!Gates(c) /\ V!Gates(w.next) # V!Gates(c)
                     => V!Gates(w.next) = V!Gates(v.next)
<1> DEFINE v == V!Analysis(c, es)
           w == V!Analysis(c, fs)
           Around(n, holds) ==
              /\ holds => /\ n.sls = V!Zoomed(c, v.win).sls /\ n.tps = V!Zoomed(c, v.win).tps
                          /\ n.mbs = V!Zoomed(c, v.win).mbs
              /\ \/ n.opps = c.opps /\ n.confs = c.confs
                 \/ n.opps = {v.gate.opp} /\ n.confs = {v.gate.conf}
<1>1. w.gate = v.gate /\ w.win = v.win BY SameChoice
<1>2. Around(v.next, v.holds) /\ Around(w.next, w.holds)
  <2>1. ASSUME NEW gs, V!Analysis(c, gs).at = "done", V!Analysis(c, gs).gate = v.gate,
               V!Analysis(c, gs).win = v.win
        PROVE  Around(V!Analysis(c, gs).next, V!Analysis(c, gs).holds)
    <3> DEFINE D == V!Drawn(c, gs)
               a == V!Analysis(c, gs)
    <3>1. a = V!Concluded(c, gs, D, v.gate, v.win)
      BY <2>1, AnalysisIs DEF V!Concluded
    <3> DEFINE gate == v.gate
               win == v.win
    <3> HIDE DEF a, D, gate, win
    <3>2. /\ a.holds \in BOOLEAN
          /\ a.next = IF win = V!NoCell THEN c
                      ELSE V!Proposal(c, gs, D, gate, win, a.holds)
          /\ a.holds => win # V!NoCell
      <4> DEFINE test == IF win = V!NoCell THEN 0
                         ELSE V!Summary(gs, V!Gated(gs, V!Test(D), gate), win).mean
      <4>1. a.holds = (win # V!NoCell /\ test > 0)
        BY <3>1 DEF V!Concluded, gate, win
      <4>2. a.next = IF win = V!NoCell THEN c
                     ELSE V!Proposal(c, gs, D, gate, win, win # V!NoCell /\ test > 0)
        BY <3>1 DEF V!Concluded, gate, win
      <4> HIDE DEF test
      <4> QED BY <4>1, <4>2
    <3>3. Around(a.next, a.holds)
      <4>1. CASE win = V!NoCell BY <3>2, <4>1
      <4>2. CASE win # V!NoCell
        <5>1. a.next = V!Proposal(c, gs, D, gate, win, a.holds) BY <3>2, <4>2
        <5> QED BY <3>2, <5>1, ProposalAround DEF gate, win
      <4> QED BY <4>1, <4>2
    <3> QED BY <3>3 DEF a
  <2> QED BY <1>1, <2>1
<1> HIDE DEF v, w
<1>3. v.holds /\ w.holds => V!BarrierGrid(w.next) = V!BarrierGrid(v.next)
  BY <1>2 DEF V!BarrierGrid
<1>4. V!Gates(v.next) # V!Gates(c) /\ V!Gates(w.next) # V!Gates(c)
         => V!Gates(w.next) = V!Gates(v.next)
  BY <1>2 DEF V!Gates
<1> QED BY <1>3, <1>4 DEF v, w

(***************************************************************************)
(* The invariant: a verdict is that of the run at hand                     *)
(***************************************************************************)
VerdictInv ==
    /\ Usable(cfg) /\ samples \in Seq(Kinds)
    /\ verdict = V!NoVerdict \/ verdict = V!Analysis(cfg, samples)

Moves == [LabNext]_<<vars, barrierVars, verdictVars, bench>>

\* A step of the verdict is one of the four, or none.
LEMMA MovesAre ==
    ASSUME Moves, NEW Q,
           (\E e \in Kinds : V!Sample(e)) => Q, V!Analyse => Q,
           (\E i \in 1..MaxSamples, e \in Kinds : V!TestDiffers(i, e)) => Q,
           V!RunNext => Q, UNCHANGED <<cfg, samples, verdict, rounds>> => Q
    PROVE  Q
  BY DEF Moves, LabNext, V!Next, verdictVars

LEMMA VerdictInit == LabInit => VerdictInv
<1> SUFFICES ASSUME LabInit PROVE VerdictInv OBVIOUS
<1>1. cfg = Config /\ samples = <<>> /\ verdict = V!NoVerdict BY DEF LabInit, V!Init
<1>2. Config \in ConfigType
  BY VerdictAssumption DEF ConfigType
<1>3. Usable(Config) BY <1>2, VerdictAssumption DEF Usable
<1> QED BY <1>1, <1>3 DEF VerdictInv

LEMMA NextRun ==
    ASSUME VerdictInv, V!RunNext
    PROVE  /\ VerdictInv' /\ Fair(cfg, samples, verdict)
           /\ cfg' = verdict.next /\ samples' = samples
<1>1. /\ verdict.at = "done" /\ cfg' = verdict.next /\ verdict' = V!NoVerdict
      /\ samples' = samples
  BY DEF V!RunNext
<1>2. verdict = V!Analysis(cfg, samples) BY <1>1 DEF VerdictInv, V!NoVerdict
<1>3. Fair(cfg, samples, verdict) BY <1>1, <1>2, AnalysisFair DEF VerdictInv
<1>4. Usable(cfg') BY <1>1, <1>3 DEF Fair, Narrower
<1> QED BY <1>1, <1>3, <1>4 DEF VerdictInv

LEMMA VerdictStep == ASSUME VerdictInv, Moves PROVE VerdictInv'
<1>1. ASSUME NEW e \in Kinds, V!Sample(e) PROVE VerdictInv'
  BY <1>1 DEF V!Sample, VerdictInv
<1>2. CASE V!Analyse BY <1>2 DEF V!Analyse, VerdictInv
<1>3. ASSUME NEW i \in 1..MaxSamples, NEW e \in Kinds, V!TestDiffers(i, e)
      PROVE  VerdictInv'
  <2>1. /\ samples' = [samples EXCEPT ![i] = e] /\ cfg' = cfg
        /\ verdict' = V!Analysis(cfg, samples')
    BY <1>3 DEF V!TestDiffers
  <2>2. samples \in Seq(Kinds) /\ i \in 1..Len(samples)
    BY <1>3 DEF VerdictInv, V!TestDiffers, V!Test, V!Drawn
  <2>3. samples' \in Seq(Kinds) BY <2>1, <2>2
  <2> QED BY <2>1, <2>3 DEF VerdictInv
<1>4. CASE V!RunNext BY <1>4, NextRun
<1>5. CASE UNCHANGED <<cfg, samples, verdict, rounds>> BY <1>5 DEF VerdictInv
<1> QED BY <1>1, <1>2, <1>3, <1>4, <1>5, MovesAre

\* The steps of the three properties of Verdict.
Differs ==
    /\ cfg' = cfg /\ V!Drawn(cfg, samples') = V!Drawn(cfg, samples)
    /\ \A i \in V!Train(V!Drawn(cfg, samples)) : samples'[i] = samples[i]
    /\ verdict.at = "done" /\ verdict'.at = "done"
Picks == Differs => verdict'.gate = verdict.gate /\ verdict'.win = verdict.win
Vetoes ==
    Differs =>
       /\ verdict.holds /\ verdict'.holds
             => V!BarrierGrid(verdict'.next) = V!BarrierGrid(verdict.next)
       /\ V!GateFixed(verdict) /\ V!GateFixed(verdict')
             => V!Gates(verdict'.next) = V!Gates(verdict.next)
Narrows ==
    cfg' # cfg =>
       /\ V!BarrierGrid(cfg') \subseteq V!BarrierGrid(cfg) /\ V!BarrierGrid(cfg') # {}
       /\ V!Gates(cfg') \subseteq V!Gates(cfg) /\ V!Gates(cfg') # {}
       /\ cfg'.assets \subseteq cfg.assets /\ V!Drawn(cfg', samples') # {}
       /\ verdict.holds => verdict.win \in V!BarrierGrid(cfg')
       /\ ~verdict.holds => cfg'.tps = cfg.tps \/ V!Cardinality(cfg'.tps) >= 3

LEMMA StepPicks == ASSUME VerdictInv, VerdictInv' PROVE Picks /\ Vetoes
<1> SUFFICES ASSUME Differs
             PROVE  /\ verdict'.gate = verdict.gate /\ verdict'.win = verdict.win
                    /\ Vetoes
  BY DEF Picks, Vetoes
<1>1. verdict = V!Analysis(cfg, samples) BY DEF Differs, VerdictInv, V!NoVerdict
<1>2. verdict' = V!Analysis(cfg, samples') BY DEF Differs, VerdictInv, V!NoVerdict
<1>3. cfg \in ConfigType BY DEF VerdictInv, Usable
<1>4. verdict'.gate = verdict.gate /\ verdict'.win = verdict.win
  BY <1>1, <1>2, SameChoice DEF Differs
<1>5. /\ verdict.holds /\ verdict'.holds
            => V!BarrierGrid(verdict'.next) = V!BarrierGrid(verdict.next)
      /\ V!Gates(verdict.next) # V!Gates(cfg) /\ V!Gates(verdict'.next) # V!Gates(cfg)
            => V!Gates(verdict'.next) = V!Gates(verdict.next)
  BY <1>1, <1>2, <1>3, SameProposal DEF Differs
<1> QED BY <1>4, <1>5 DEF Vetoes, V!GateFixed

LEMMA StepNarrows == ASSUME VerdictInv, Moves PROVE Narrows
<1>1. CASE V!RunNext
  <2>1. /\ Fair(cfg, samples, verdict) /\ cfg' = verdict.next /\ samples' = samples
    BY <1>1, NextRun
  <2> DEFINE n == cfg'
  <2>2. /\ Narrower(n, cfg) /\ V!Drawn(n, samples') # {}
        /\ verdict.holds => verdict.win \in V!BarrierGrid(n)
        /\ ~verdict.holds => n.tps = cfg.tps \/ V!Cardinality(n.tps) >= 3
    <3>1. V!Cardinality(n.tps) = Cardinality(n.tps) BY SameCardinality
    <3> HIDE DEF n
    <3> QED BY <2>1, <3>1 DEF Fair, n
  <2> HIDE DEF n
  <2>3. V!BarrierGrid(n) \subseteq V!BarrierGrid(cfg) /\ V!BarrierGrid(n) # {}
    <3>1. /\ n.sls \subseteq cfg.sls /\ n.tps \subseteq cfg.tps /\ n.mbs \subseteq cfg.mbs
          /\ n.sls # {} /\ n.tps # {} /\ n.mbs # {}
      BY <2>2 DEF Narrower, Usable
    <3>2. PICK sl \in n.sls, tp \in n.tps, mb \in n.mbs : TRUE BY <3>1
    <3>3. V!Cell(sl, tp, mb) \in V!BarrierGrid(n) BY DEF V!BarrierGrid
    <3>4. V!BarrierGrid(n) \subseteq V!BarrierGrid(cfg) BY <3>1 DEF V!BarrierGrid
    <3> QED BY <3>3, <3>4
  <2>4. V!Gates(n) \subseteq V!Gates(cfg) /\ V!Gates(n) # {}
    <3>1. n.opps \subseteq cfg.opps /\ n.confs \subseteq cfg.confs
          /\ n.opps # {} /\ n.confs # {}
      BY <2>2 DEF Narrower, Usable
    <3>2. PICK o \in n.opps, k \in n.confs : TRUE BY <3>1
    <3>3. [opp |-> o, conf |-> k] \in V!Gates(n) BY DEF V!Gates
    <3>4. V!Gates(n) \subseteq V!Gates(cfg) BY <3>1 DEF V!Gates
    <3> QED BY <3>3, <3>4
  <2> QED BY <2>2, <2>3, <2>4 DEF Narrows, Narrower, n
<1>2. CASE cfg' = cfg BY <1>2 DEF Narrows
<1>3. V!RunNext \/ cfg' = cfg
  BY MovesAre DEF V!Sample, V!Analyse, V!TestDiffers
<1> QED BY <1>1, <1>2, <1>3

\* For any grid, ladder, sample, prices won and thresholds: the gate and the cell a
\* run picks do not depend on its test period, which only accepts or turns down the
\* grid and the gate proposed around them, and accepting one proposal after the other
\* narrows the search and never starves it.
THEOREM RoundsAlwaysFair == LabSpec => RoundsFair
<1>1. LabInit => VerdictInv BY VerdictInit
<1>2. VerdictInv /\ [LabNext]_<<vars, barrierVars, verdictVars, bench>> => VerdictInv'
  BY VerdictStep DEF Moves
<1>3. VerdictInv /\ VerdictInv' => [Picks]_<<cfg, samples, verdict, rounds>>
                                  /\ [Vetoes]_<<cfg, samples, verdict, rounds>>
  BY StepPicks
<1>4. VerdictInv /\ [LabNext]_<<vars, barrierVars, verdictVars, bench>>
        => [Narrows]_<<cfg, samples, verdict, rounds>>
  BY StepNarrows DEF Moves
<1>5. LabSpec => [][Picks]_<<cfg, samples, verdict, rounds>>
                 /\ [][Vetoes]_<<cfg, samples, verdict, rounds>>
                 /\ [][Narrows]_<<cfg, samples, verdict, rounds>>
  BY <1>1, <1>2, <1>3, <1>4, PTL DEF LabSpec
<1>6. [][Picks]_<<cfg, samples, verdict, rounds>> => V!TrainPicks
  BY DEF Picks, Differs, V!TrainPicks, V!OnlyTestDiffers, V!vars
<1>7. [][Vetoes]_<<cfg, samples, verdict, rounds>> => V!TestVetoes
  BY DEF Vetoes, Differs, V!TestVetoes, V!OnlyTestDiffers, V!vars
<1>8. [][Narrows]_<<cfg, samples, verdict, rounds>> => V!SearchNarrows
  BY DEF Narrows, V!SearchNarrows, V!vars
<1> QED BY <1>5, <1>6, <1>7, <1>8, PTL DEF RoundsFair
=============================================================================
