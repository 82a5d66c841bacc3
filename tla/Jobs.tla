-------------------------------- MODULE Jobs --------------------------------
(***************************************************************************)
(* The scheduler's jobs: _safe_job of main.py around the coroutine of each *)
(* worker, and the rows of scheduler_runs.                                 *)
(*                                                                         *)
(* A tick that finds its job in flight writes its row and ends without     *)
(* giving up the event loop, so it is one action; so is the end of a tick. *)
(***************************************************************************)
EXTENDS Integers, FiniteSets

CONSTANTS
    Workers,  \* jobs
    Watched,  \* jobs with a timeout_s
    Limit,    \* timeout_s, in ticks of the clock
    MaxFires, \* bound: scheduled ticks of a job
    MaxLost   \* bound: rows whose insert fails, restarts

VARIABLES
    inFlight,  \* _JOB_IN_FLIGHT
    running,   \* job -> the age of each of its scheduled ticks that runs
    rows,      \* scheduler_runs: job -> rows of each status
    stats,     \* _JOB_STATS: job -> ticks begun, ended well and badly, skipped
    available, \* the database answers
    fired,     \* history: job -> ticks the scheduler submitted
    lost,      \* history: job -> ticks whose row was lost
    trouble    \* bound used up

vars == <<inFlight, running, rows, stats, available, fired, lost, trouble>>

Ends == {"ok", "error"}
Ages == 0..Limit

\* scheduler_log.log_run: one row, or none when the database is down or refuses
Log(j, status) ==
    \/ /\ available
       /\ rows' = [rows EXCEPT ![j][status] = @ + 1]
       /\ UNCHANGED <<lost, trouble>>
    \/ /\ available /\ trouble < MaxLost
       /\ trouble' = trouble + 1
       /\ lost' = [lost EXCEPT ![j] = @ + 1]
       /\ UNCHANGED rows
    \/ /\ ~available
       /\ lost' = [lost EXCEPT ![j] = @ + 1]
       /\ UNCHANGED <<rows, trouble>>

\* the heartbeat of /health
Count(j, what) == stats' = [stats EXCEPT ![j][what] = @ + 1]

(***************************************************************************)
(* _safe_job                                                               *)
(***************************************************************************)
Submit(j) == fired[j] < MaxFires /\ fired' = [fired EXCEPT ![j] = @ + 1]

Begin(j) ==
    /\ Submit(j) /\ j \notin inFlight
    /\ inFlight' = inFlight \cup {j}
    /\ running' = [running EXCEPT ![j] = @ \cup {0}]
    /\ Count(j, "ticks")
    /\ UNCHANGED <<rows, available, lost, trouble>>

\* (the row written on the way through finally)
SkippedFrees(j) == inFlight \ {j}

Skipped(j) == inFlight

\* the previous tick still runs
Skip(j) ==
    /\ Submit(j) /\ j \in inFlight
    /\ inFlight' = Skipped(j)
    /\ Count(j, "skipped") /\ Log(j, "ok")
    /\ UNCHANGED <<running, available>>

Leave(j, age) ==
    /\ age \in running[j]
    /\ running' = [running EXCEPT ![j] = @ \ {age}]
    /\ inFlight' = inFlight \ {j}

Finish(j, age) ==
    /\ Leave(j, age)
    /\ \E status \in Ends : Count(j, status) /\ Log(j, status)
    /\ UNCHANGED <<available, fired>>

\* (the timeout not passed on to wait_for)
OverdueNever(j, age) == FALSE

Overdue(j, age) == j \in Watched /\ age = Limit

\* wait_for cancels the tick
Watchdog(j, age) ==
    /\ Overdue(j, age) /\ Leave(j, age)
    /\ Count(j, "error") /\ Log(j, "error")
    /\ UNCHANGED <<available, fired>>

(***************************************************************************)
(* The database, the process, time                                         *)
(***************************************************************************)
\* shutdown cancels what runs, and finally still writes a row
Shutdown(j, age) ==
    /\ trouble < MaxLost /\ Leave(j, age)
    /\ Count(j, "error") /\ Log(j, "error")
    /\ UNCHANGED <<available, fired>>

Unborn == [j \in Workers |-> [w \in {"ticks", "ok", "error", "skipped"} |-> 0]]

\* the process dies: nothing is written
Die ==
    /\ trouble < MaxLost
    /\ trouble' = trouble + 1
    /\ lost' = [j \in Workers |-> lost[j] + Cardinality(running[j])]
    /\ inFlight' = {} /\ running' = [j \in Workers |-> {}] /\ stats' = Unborn
    /\ UNCHANGED <<rows, available, fired>>

Outage ==
    /\ trouble < MaxLost
    /\ trouble' = trouble + 1
    /\ available' = ~available
    /\ UNCHANGED <<inFlight, running, rows, stats, fired, lost>>

\* no tick is left running past its timeout
Tick ==
    /\ \A j \in Workers : \A age \in running[j] : ~Overdue(j, age)
    /\ running' = [j \in Workers |-> {IF age < Limit THEN age + 1 ELSE age :
                                        age \in running[j]}]
    /\ UNCHANGED <<inFlight, rows, stats, available, fired, lost, trouble>>

Init ==
    /\ inFlight = {} /\ running = [j \in Workers |-> {}]
    /\ rows = [j \in Workers |-> [s \in Ends |-> 0]] /\ stats = Unborn
    /\ available = TRUE
    /\ fired = [j \in Workers |-> 0] /\ lost = [j \in Workers |-> 0]
    /\ trouble = 0

Passing == Tick \/ \E j \in Workers, age \in Ages : Watchdog(j, age)

Next ==
    \/ \E j \in Workers : Begin(j) \/ Skip(j)
    \/ \E j \in Workers, age \in Ages : Finish(j, age) \/ Shutdown(j, age)
    \/ Die \/ Outage \/ Passing

Spec == Init /\ [][Next]_vars /\ WF_vars(Passing)

(***************************************************************************)
(* Properties                                                              *)
(***************************************************************************)
\* A job never runs beside itself on the schedule, however often it is fired
\* while a tick overruns.
OneAtATime ==
    \A j \in Workers : Cardinality(running[j]) <= 1
                       /\ (running[j] # {} <=> j \in inFlight)

\* Every tick the scheduler submitted runs, wrote one row, or lost it to the
\* database or the end of the process.
OneRowEach ==
    \A j \in Workers :
        fired[j] = Cardinality(running[j]) + rows[j]["ok"] + rows[j]["error"] + lost[j]

\* The heartbeat accounts for every tick it saw begin, and since the start of the
\* process no more ended than the log has rows or lost rows for.
HeartbeatTrue ==
    \A j \in Workers :
        LET s == stats[j]
        IN  /\ s["ticks"] = s["ok"] + s["error"] + Cardinality(running[j])
            /\ s["skipped"] + s["ok"] <= rows[j]["ok"] + lost[j]
            /\ s["error"] <= rows[j]["error"] + lost[j]

\* A tick of a watched job ends and frees its slot, whatever it waits for.
SlotReturned == \A j \in Watched : j \in inFlight ~> j \notin inFlight
==============================================================================
