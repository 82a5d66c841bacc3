------------------------------- MODULE Study -------------------------------
(***************************************************************************)
(* The life of a barrier simulation: services/simulation.py over           *)
(* simulation_runs and simulation_events, its single worker thread, the    *)
(* routes that start and cancel a run, the reaping of orphans at boot and  *)
(* the purge.  A run reads its prices through History, one call at a time. *)
(*                                                                         *)
(* A look of the worker at its cancel flag is one step with the write it   *)
(* makes when it goes on.  The last write of a run and the finally, which  *)
(* takes the flag away, are steps of their own: a cancel is still accepted *)
(* between the last look and the finally.  A write that fails is           *)
(* swallowed.  Events are numbers, the replay and the analysis are         *)
(* external: how many events there are, what a round scores on the test    *)
(* period, and whether it raises.                                          *)
(***************************************************************************)
EXTENDS History

CONSTANTS
    Configs,    \* what start_run may be asked: target, rounds, days
    Scores,     \* test scores of a round
    Batch,      \* rows of events written at once
    Recent,     \* newest rows reap_orphans reads
    Keep,       \* SIMULATION_KEEP_RUNS
    Scenes,     \* bound: the sets of actors awake in one behaviour
    MaxRuns,    \* bound
    MaxEvents,  \* bound: events of a replay
    MaxEnds     \* bound: restarts

ASSUME StudyAssumption ==
    /\ Configs \subseteq [target : Nat, rounds : Nat, days : Nat]
    /\ Scores \subseteq Nat /\ Recent \in Nat \ {0}
    /\ MaxEvents \in Nat

VARIABLES
    runs,    \* simulation_runs, in order of created_at
    active,  \* _ACTIVE
    cancels, \* _CANCEL: run -> its event is set
    job,     \* the worker thread
    booted,  \* the process serves requests
    elder,   \* runs 1..elder are older than the TTL
    asked,   \* history: run -> where its job was when a cancel was accepted
    torn,    \* history: runs that lost a write
    ends,    \* restarts so far
    awake

studyVars == <<runs, active, cancels, job, booted, elder, asked, torn, ends, awake>>
vars == <<historyVars, studyVars>>

Live == {"pending", "running"}
Final == {"done", "cancelled", "failed"}
None == -1   \* no test score

Row(status) == [status |-> status, events |-> {}, rounds |-> <<>>, best |-> 0,
                how |-> ""]

\* end is the row that the last write of a job will make
NoJob == [pc |-> "idle", run |-> 0, cfg |-> [target |-> 0, rounds |-> 0, days |-> 0],
          left |-> 0, seq |-> 0, rows |-> {}, tests |-> <<>>, best |-> 0,
          stalled |-> 0, end |-> Row("absent")]

Places == {"idle", "queued", "fetch", "fetched", "replayed", "label", "labelled",
           "round", "score", "analyse", "finish", "left"}

TypeOK ==
    /\ HistoryTypeOK
    /\ \A r \in DOMAIN runs :
          runs[r] \in [status : Live \cup Final \cup {"absent", "purged"},
                       events : SUBSET (1..MaxEvents), rounds : Seq(Scores \cup {None}),
                       best : 0..MaxEvents + 8, how : STRING]
    /\ active \in 0..Len(runs) /\ elder \in 0..Len(runs)
    /\ DOMAIN cancels = {active} \ {0}
    /\ job.pc \in Places /\ job.run = active
    /\ job.run = 0 \/ job.rows \cap runs[job.run].events = {}
    /\ job.pc = "finish" => job.end.status \in Final
    /\ job.seq + job.left <= MaxEvents
    /\ sync.pc # "idle" => job.pc = "fetch"

(***************************************************************************)
(* start_run                                                               *)
(***************************************************************************)
\* refused while a run is live; an insert that fails is not noticed
Start(cfg) ==
    /\ booted /\ active = 0
    /\ Len(runs) < IF "rerun" \in awake THEN MaxRuns ELSE 1
    /\ \/ Answered /\ runs' = Append(runs, Row("pending")) /\ UNCHANGED torn
       \/ /\ Lost /\ runs' = Append(runs, Row("absent"))
          /\ torn' = torn \cup {Len(runs) + 1}
    /\ active' = Len(runs) + 1
    /\ cancels' = [r \in {Len(runs) + 1} |-> FALSE]
    /\ job' = [NoJob EXCEPT !.pc = "queued", !.run = Len(runs) + 1, !.cfg = cfg]
    /\ UNCHANGED <<today, feed, moves, store, sync, series, booted, elder, asked, ends, awake>>

\* request_cancel: accepted until the finally
Cancel(r) ==
    /\ "owner" \in awake /\ booted
    /\ r \in DOMAIN cancels /\ ~cancels[r]
    /\ cancels' = [cancels EXCEPT ![r] = TRUE]
    /\ asked' = [q \in DOMAIN asked \cup {r} |-> IF q = r THEN job.pc ELSE asked[q]]
    /\ UNCHANGED <<historyVars, runs, active, job, booted, elder, torn, ends, awake>>

(***************************************************************************)
(* _run_job                                                                *)
(***************************************************************************)
Cancelled == cancels[job.run]

\* _patch: the row as it should be, or as it was
Patch(row) ==
    \/ /\ Answered /\ UNCHANGED torn
       /\ runs' = IF runs[job.run].status \in {"absent", "purged"} THEN runs
                  ELSE [runs EXCEPT ![job.run] = row]
    \/ Lost /\ torn' = torn \cup {job.run} /\ UNCHANGED runs

Ended(status) == [runs[job.run] EXCEPT !.status = status]
HistoryStays == UNCHANGED <<today, feed, moves, store, sync, series>>
OthersStay == UNCHANGED <<booted, elder, asked, ends, awake>>
JobOnly == UNCHANGED <<active, cancels>>

\* nothing is left of a job but its last write
Settles(row) == job' = [NoJob EXCEPT !.pc = "finish", !.run = job.run, !.end = row]
Ends(row) == Settles(row) /\ UNCHANGED <<runs, torn>> /\ Answered /\ JobOnly

\* _finish, and the patch of a job that raised
JobFinishes ==
    /\ job.pc = "finish"
    /\ Patch(job.end)
    /\ job' = [NoJob EXCEPT !.pc = "left", !.run = job.run]
    /\ HistoryStays /\ JobOnly /\ OthersStay

\* (the slot freed only when the last write landed)
JobLeavesLeaky ==
    /\ job.pc = "left"
    /\ job' = NoJob /\ active' = IF runs[job.run].status \in Final THEN 0 ELSE active
    /\ cancels' = [r \in DOMAIN cancels \ {job.run} |-> cancels[r]]
    /\ UNCHANGED <<runs, torn>> /\ Answered
    /\ HistoryStays /\ OthersStay

\* the finally: no other run can be under way between its two statements
JobLeaves ==
    /\ job.pc = "left"
    /\ job' = NoJob /\ active' = 0
    /\ cancels' = [r \in DOMAIN cancels \ {job.run} |-> cancels[r]]
    /\ UNCHANGED <<runs, torn>> /\ Answered
    /\ HistoryStays /\ OthersStay

JobTakes ==
    /\ job.pc = "queued"
    /\ Patch(Ended("running"))
    /\ job' = [job EXCEPT !.pc = "fetch"]
    /\ HistoryStays /\ JobOnly /\ OthersStay

\* _load_history
JobLoads ==
    /\ job.pc = "fetch"
    /\ \/ SyncBegin(job.cfg.days) \/ SyncRow \/ SyncPut \/ ReadBack
    /\ job' = IF sync.pc = "read" THEN [job EXCEPT !.pc = "fetched"] ELSE job
    /\ UNCHANGED <<runs, torn>> /\ JobOnly /\ OthersStay

\* without stored bars the run fetches for itself, and may come back empty
JobReplays ==
    /\ job.pc = "fetched"
    /\ \/ Cancelled /\ Ends(Ended("cancelled"))
       \/ /\ ~Cancelled
          /\ Patch(runs[job.run])
          /\ \E n \in IF "analyst" \in awake THEN 0..MaxEvents ELSE {0} :
                job' = [job EXCEPT !.pc = "replayed", !.left = n]
          /\ JobOnly
    /\ HistoryStays /\ OthersStay

\* _thin; a run with nothing to label is done, and does not look again
JobThins ==
    /\ job.pc = "replayed"
    /\ \/ Cancelled /\ Ends(Ended("cancelled"))
       \/ /\ ~Cancelled
          /\ Patch(runs[job.run])
          /\ IF job.left = 0 THEN Settles(Ended("done"))
             ELSE job' = [job EXCEPT !.pc = "label", !.left = Least(@, job.cfg.target)]
          /\ JobOnly
    /\ HistoryStays /\ OthersStay

\* _flush
Flush(rows) ==
    \/ /\ Answered /\ UNCHANGED torn
       /\ runs' = IF runs[job.run].status \in {"absent", "purged"} THEN runs
                  ELSE [runs EXCEPT ![job.run].events = @ \cup rows]
    \/ Lost /\ torn' = torn \cup {job.run} /\ UNCHANGED runs

Emptied(rows) == {}

\* _persist_events: one event, and the batch when it is full or the last one
JobLabels ==
    /\ job.pc = "label"
    /\ \/ /\ job.left > 0 /\ ~Cancelled
          /\ \/ \* no bar after it: not a sample
                /\ job' = [job EXCEPT !.left = @ - 1]
                /\ UNCHANGED <<runs, torn>> /\ Answered
             \/ LET rows == job.rows \cup {job.seq + 1}
                IN  IF Cardinality(rows) >= Batch
                    THEN /\ Flush(rows)
                         /\ job' = [job EXCEPT !.left = @ - 1, !.seq = @ + 1,
                                               !.rows = Emptied(rows)]
                    ELSE /\ job' = [job EXCEPT !.left = @ - 1, !.seq = @ + 1,
                                               !.rows = rows]
                         /\ UNCHANGED <<runs, torn>> /\ Answered
       \/ /\ job.left = 0 \/ Cancelled
          /\ IF job.rows = {} THEN UNCHANGED <<runs, torn>> /\ Answered
                              ELSE Flush(job.rows)
          /\ job' = [job EXCEPT !.pc = "labelled", !.rows = {}]
    /\ HistoryStays /\ JobOnly /\ OthersStay

JobLabelled ==
    /\ job.pc = "labelled"
    /\ \/ Cancelled /\ Ends(Ended("cancelled"))
       \/ /\ ~Cancelled
          /\ Patch(runs[job.run])
          /\ job' = [job EXCEPT !.pc = IF @ = "labelled" /\ job.cfg.rounds > 0
                                       THEN "round" ELSE "analyse"]
          /\ JobOnly
    /\ HistoryStays /\ OthersStay

\* _analyse of a run without the optimizer
JobAnalyses ==
    /\ job.pc = "analyse"
    /\ \/ Ends(Ended("done"))
       \/ Ends(Ended("failed"))
    /\ HistoryStays /\ OthersStay

(***************************************************************************)
(* _optimize                                                               *)
(***************************************************************************)
\* the last look of a search, and the row that comes of it;
\* verdicts[best_idx] does not exist when a cancel comes before round 1
Verdict(how) ==
    IF job.tests = <<>> THEN Ended("failed")
    ELSE [Ended("done") EXCEPT !.rounds = job.tests, !.best = job.best,
                               !.how = IF Cancelled THEN "cancelled" ELSE how]

RoundBegins ==
    /\ job.pc = "round"
    /\ \/ Cancelled /\ Ends(Verdict("cancelled"))
       \/ ~Cancelled /\ Len(job.tests) = job.cfg.rounds /\ Ends(Verdict("exhausted"))
       \/ /\ ~Cancelled /\ Len(job.tests) < job.cfg.rounds
          /\ Patch(runs[job.run])
          /\ job' = [job EXCEPT !.pc = "score"] /\ JobOnly
    /\ HistoryStays /\ OthersStay

Best == IF job.tests = <<>> THEN None ELSE job.tests[job.best]

Scored(test) ==
    [job EXCEPT !.pc = "round", !.tests = Append(@, test),
                !.best = IF @ = 0 \/ test > Best THEN Len(job.tests) + 1 ELSE @,
                !.stalled = IF test > Best THEN 0 ELSE @ + 1]

\* the verdict of the loop when a round ends it
Closed(j, how) ==
    [Ended("done") EXCEPT !.rounds = j.tests, !.best = j.best,
                          !.how = IF Cancelled THEN "cancelled" ELSE how]

RoundScores ==
    /\ job.pc = "score"
    /\ \/ \* a later round is labelled first, and stops for a cancel
          Cancelled /\ job.tests # <<>> /\ Ends(Verdict("cancelled"))
       \/ \* it raises
          \/ /\ job.tests = <<>>
             /\ Ends([Ended("done") EXCEPT !.how = "failed"])
          \/ job.tests # <<>> /\ Ends(Verdict("round_failed"))
       \/ \* no winner to search around
          job.tests # <<>> /\ ~Cancelled /\ Ends(Verdict("no_config"))
       \/ \E test \in Scores \cup {None} :
             LET j == Scored(test)
             IN  \/ Ends(Closed(j, "found"))
                 \/ j.stalled >= 2 /\ Ends(Closed(j, "stalled"))
                 \/ /\ j.stalled < 2 /\ job' = j
                    /\ JobOnly /\ UNCHANGED <<runs, torn>> /\ Answered
    /\ HistoryStays /\ OthersStay

(***************************************************************************)
(* Boot and retention                                                      *)
(***************************************************************************)
Restart ==
    /\ "deploy" \in awake /\ ends < MaxEnds
    /\ ends' = ends + 1 /\ booted' = FALSE
    /\ job' = NoJob /\ active' = 0 /\ cancels' = [r \in {} |-> FALSE]
    /\ sync' = NoSync
    /\ UNCHANGED <<today, feed, moves, store, series, lost, runs, elder, asked, torn, awake>>

Rows == {r \in DOMAIN runs : runs[r].status \notin {"absent", "purged"}}
Newest(n) == {r \in Rows : Cardinality({q \in Rows : q > r}) < n}

\* (only the runs that had started)
OrphansRunning == {r \in Newest(Recent) : runs[r].status = "running"}
Orphans == {r \in Newest(Recent) : runs[r].status \in Live}

\* reap_orphans, before the first request
Boot ==
    /\ ~booted /\ booted' = TRUE
    /\ \/ /\ Answered /\ UNCHANGED torn
          /\ runs' = [r \in DOMAIN runs |->
                IF r \in Orphans THEN [runs[r] EXCEPT !.status = "cancelled"]
                                 ELSE runs[r]]
       \/ /\ Lost /\ Orphans # {}
          /\ \E missed \in SUBSET Orphans \ {{}} :
                /\ torn' = torn \cup missed
                /\ runs' = [r \in DOMAIN runs |->
                      IF r \in Orphans \ missed
                      THEN [runs[r] EXCEPT !.status = "cancelled"] ELSE runs[r]]
    /\ HistoryStays
    /\ UNCHANGED <<active, cancels, job, elder, asked, ends, awake>>

RunsAge ==
    /\ "keeper" \in awake /\ elder < Len(runs) /\ elder' = elder + 1
    /\ UNCHANGED <<historyVars, runs, active, cancels, job, booted, asked, torn, ends,
                   awake>>

Doomed == {r \in Rows \ Newest(Keep) : r <= elder /\ runs[r].status \notin Live}

\* purge_old_runs: the events of a run, then its row
Purge ==
    /\ "keeper" \in awake /\ booted /\ Doomed # {}
    /\ \/ /\ Answered /\ UNCHANGED torn
          /\ runs' = [r \in DOMAIN runs |-> IF r \in Doomed THEN Row("purged")
                                                           ELSE runs[r]]
       \/ /\ Lost /\ torn' = torn \cup Doomed
          /\ runs' = [r \in DOMAIN runs |-> IF r \in Doomed
                          THEN [runs[r] EXCEPT !.events = {}] ELSE runs[r]]
    /\ HistoryStays
    /\ UNCHANGED <<active, cancels, job, booted, elder, asked, ends, awake>>

(***************************************************************************)
(* Specification                                                           *)
(***************************************************************************)
Init ==
    /\ HistoryInit
    /\ awake \in Scenes
    /\ "feed" \in awake \/ \A p \in Closes : feed[1] # 0 /\ feed[1] <= p
    /\ runs = <<>> /\ active = 0 /\ cancels = [r \in {} |-> FALSE]
    /\ job = NoJob /\ booted = TRUE /\ elder = 0 /\ ends = 0
    /\ asked = [r \in {} |-> ""] /\ torn = {}

JobStep ==
    \/ JobTakes \/ JobLoads \/ JobReplays \/ JobThins \/ JobLabels \/ JobLabelled
    \/ JobAnalyses \/ RoundBegins \/ RoundScores \/ JobFinishes \/ JobLeaves

\* the market, and the owner of the table
World ==
    /\ "feed" \in awake
    /\ \/ DayPasses \/ FillGaps
       \/ \E d \in Days : FeedMoves(d)
    /\ UNCHANGED studyVars

Next ==
    \/ \E cfg \in Configs : Start(cfg)
    \/ \E r \in 1..MaxRuns : Cancel(r)
    \/ JobStep
    \/ Restart \/ Boot \/ RunsAge \/ Purge
    \/ World

\* the worker thread runs
Spec == Init /\ [][Next]_vars /\ WF_vars(JobStep) /\ WF_vars(Boot)

(***************************************************************************)
(* Properties                                                              *)
(***************************************************************************)
\* A row says pending or running only while its job lives, or a write that
\* would have said otherwise was lost: "running" after a restart is always a lie.
RowTellsTruth ==
    booted => \A r \in Rows : runs[r].status \in Live => r = active \/ r \in torn

\* A cancel is honoured by every look that comes after it.  A run that ends as done
\* although one was accepted had labelled its events, or had none; a search ends as
\* cancelled, with the rounds it had, unless the cancel came after its last look,
\* when only a write and the finally remain and request_cancel still says True.
CancelHonoured ==
    \A r \in DOMAIN asked :
        runs[r].status = "done" =>
            /\ asked[r] \in {"round", "score", "analyse", "finish", "left"}
            /\ runs[r].rounds # <<>> /\ asked[r] \in {"round", "score"}
                   => runs[r].how = "cancelled"

\* The verdict of the optimizer is the first of its best rounds on the test
\* period, found without passing two rounds that improved nothing.
BestRound ==
    \A r \in DOMAIN runs :
        LET tests == runs[r].rounds
            b == runs[r].best
            Improves(i) == /\ tests[i] # None
                           /\ \A k \in 1..(i - 1) : tests[k] < tests[i]
        IN  tests # <<>> =>
                /\ \A i \in DOMAIN tests : tests[i] <= tests[b]
                /\ \A i \in 1..(b - 1) : tests[i] < tests[b]
                /\ \A i \in 2..(Len(tests) - 1) : Improves(i) \/ Improves(i - 1)

\* The one slot is always freed.
SlotFreed == active # 0 ~> active = 0
=============================================================================
