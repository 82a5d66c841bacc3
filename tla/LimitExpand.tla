---------------------------- MODULE LimitExpand ----------------------------
(***************************************************************************)
(* The owner-confirmed expansion of the kill-switch limits:                *)
(* services/limit_expand.py with the four callers that run it.             *)
(*                                                                         *)
(*   monitor  portfolio_monitor.monitor_once, in a worker THREAD           *)
(*   guard    position_guard.guard_once, on the event loop                 *)
(*   owner    POST /limit-expand/decide and LINE /dd_ok, /dd_no, on the    *)
(*            event loop                                                   *)
(*   desk     PUT /settings, in a thread of the HTTP server's pool         *)
(*                                                                         *)
(* guard and owner contain no await inside the flow, so they exclude each  *)
(* other; every other pair interleaves between any two database calls.     *)
(* One action is one database call together with the local code up to the  *)
(* next one; the loss metrics are external and are read together with the  *)
(* call before.  Time is the age of a request in ticks, up to Horizon.     *)
(***************************************************************************)
EXTENDS Naturals, FiniteSets

CONSTANTS
    Fields,      \* the limit columns a request may name
    Levels,      \* the values a limit or a loss metric takes
    InitLimit,   \* the limit the owner starts with, every field
    DefaultLimit,\* AppSettings() default, every field
    InitWiden,   \* kill_expand_auto_widen values at start
    InitApply,   \* kill_expand_auto_apply values at start
    Step,        \* kill_expand_step_pct
    TTL,         \* kill_expand_ttl_min, in ticks
    Cooldown,    \* kill_expand_reask_cooldown_min, in ticks
    RejectGap,   \* kill_expand_reask_after_reject_min, in ticks
    Quota,       \* kill_expand_once_quota_hours, in ticks
    Horizon,     \* bound: ages saturate here, past every window above
    Faults,      \* database calls that may fail, see FaultKinds
    MaxRows,     \* bound: requests ever created
    MaxPresses,  \* bound: owner decisions
    MaxSaves,    \* bound: PUT /settings calls
    MaxFaults,   \* bound: failing database calls
    MaxRestarts  \* bound: restarts that lose a cycle in flight

FaultKinds == {"settings_read", "settings_write", "row_insert", "row_update"}

ASSUME LimitExpandAssumption ==
    /\ Levels \subseteq Nat /\ InitLimit \in Nat /\ DefaultLimit \in Nat
    /\ InitWiden \subseteq BOOLEAN /\ InitApply \subseteq BOOLEAN
    /\ Step \in Nat \ {0}
    /\ TTL \in Nat \ {0} /\ Cooldown \in Nat /\ RejectGap \in Nat /\ Quota \in Nat
    /\ Horizon \in Nat /\ Horizon > TTL /\ Horizon > Quota
    /\ Horizon >= Cooldown /\ Horizon >= RejectGap
    /\ Faults \subseteq FaultKinds
    /\ MaxRows \in Nat \ {0} /\ MaxPresses \in Nat /\ MaxSaves \in Nat
    /\ MaxFaults \in Nat /\ MaxRestarts \in Nat

Proc == {"monitor", "guard", "owner", "desk"}
Ids == 1..MaxRows
NoRow == 0

Statuses == {"absent", "pending", "approved", "rejected", "expired",
             "superseded"}
Silent == {"auto:expired", "auto:once"}           \* AUTO_WIDEN_BY
Deciders == Silent \cup {"", "owner", "auto:kept", "auto:capped",
                         "auto:no-breach", "auto:superseded"}
SettingsRow == [limit : [Fields -> Nat], widen : BOOLEAN, apply : BOOLEAN]
Request == [status : Statuses, by : Deciders, new : [Fields -> Nat],
            age : 0..Horizon]

Labels == {"idle", "find", "quota", "weigh", "persist", "mark", "scan",
           "sweep", "resume", "recheck", "capped?", "look", "cool", "insert",
           "reread",                                   \* limit_expand.py
           "judge", "pause",                           \* monitor
           "hold", "stale", "rejudge", "answer", "close",     \* guard
           "press", "keep",                            \* owner
           "save"}                                     \* desk
Outcomes == {"", "none", "kept", "capped", "no-breach", "applied", "skipped",
             "failed", "auto_applied", "auto_capped", "no_breach",
             "already_pending", "cooldown", "insert_failed", "created",
             "rejected"}
Decisions == {"none", "approve", "reject"}
Calls == {"idle", "judge", "capped?", "rejudge", "answer", "press"}
Holding == {"quota", "weigh", "persist"}    \* reached with a row in hand only
Job == {j \in [pc : Labels, back : Calls, snap : SettingsRow, known : BOOLEAN,
               row : 0..MaxRows, status : Statuses, by : Deciders,
               outcome : Outcomes, quote : [Fields -> Nat],
               others : SUBSET Ids, word : Decisions, ticked : BOOLEAN] :
           j.pc \in Holding => j.row \in Ids}

VARIABLES
    settings,  \* trading_settings row id=1, the columns this flow reads
    rows,      \* kill_expand_requests, by id in requested_at order
    stamped,   \* ids given out: requested_at is taken before the INSERT
    paused,    \* trading_pause.paused
    book,      \* BOOLEAN: positions are open
    metric,    \* loss metrics execution.kill_metrics reads, external
    job,       \* per process: where it is and what it holds in memory
    presses, saves, faults, restarts,
    optedIn,   \* history: auto-widen has been ON at some time
    misread,   \* history: a lenient read fell back to the defaults
    granted,   \* history: per field, the limits the owner put in force
    rescued    \* history: ticks since the last one-shot widening was written

usage == <<presses, saves, restarts>>
tables == <<settings, rows, stamped, paused>>
world == <<book, metric, usage>>
history == <<optedIn, misread, granted, rescued>>
vars == <<tables, world, job, faults, history>>

(***************************************************************************)
(* Reads                                                                   *)
(***************************************************************************)
DefaultSettings == [limit |-> [f \in Fields |-> DefaultLimit],
                    widen |-> FALSE, apply |-> TRUE]

Pending == {i \in Ids : rows[i].status = "pending"}
Inserted == {i \in Ids : rows[i].status # "absent"}
Newest(S) == IF S = {} THEN NoRow ELSE CHOOSE i \in S : \A j \in S : j <= i

\* pending_request: the newest pending row, still inside its window
PendingRequest ==
    LET r == Newest(Pending)
    IN  IF r # NoRow /\ rows[r].age <= TTL THEN r ELSE NoRow

\* stale_pending: the newest pending row, past its window
StalePending ==
    LET r == Newest(Pending)
    IN  IF r # NoRow /\ rows[r].age > TTL THEN r ELSE NoRow

\* breached_triggers / evaluate_kill: the strict comparison both share
Breached(s) == {f \in Fields : metric[f] > s.limit[f]}

\* silent_widen_count > 0
QuotaSpent ==
    \E i \in Ids : /\ rows[i].status = "approved"
                   /\ rows[i].by = "auto:once"
                   /\ rows[i].age <= Quota

\* (the policy before P0-3: the opt-in switch is not asked)
PlanWithoutOptIn(s) == IF s.apply THEN "apply" ELSE "once"

\* timeout_plan, as far as the settings alone decide it
Plan(s) == IF ~s.widen THEN "kept" ELSE IF s.apply THEN "apply" ELSE "once"

\* the patch _approve writes: only proposals above the limits in hand
Proposes(i, s) == {f \in Fields : rows[i].new[f] > s.limit[f]}
Merged(i, s) ==
    [s EXCEPT !.limit = [f \in Fields |-> IF f \in Proposes(i, s)
                                          THEN rows[i].new[f]
                                          ELSE s.limit[f]]]

(***************************************************************************)
(* Processes                                                               *)
(***************************************************************************)
Idle == [pc |-> "idle", back |-> "idle", snap |-> DefaultSettings,
         known |-> TRUE, row |-> NoRow, status |-> "absent", by |-> "",
         outcome |-> "", quote |-> [f \in Fields |-> 0], others |-> {},
         word |-> "none", ticked |-> FALSE]

At(p, label) == job[p].pc = label
Become(p, j) == job' = [job EXCEPT ![p] = j]
Goto(p, label) == Become(p, [job[p] EXCEPT !.pc = label])
Finish(p) == Become(p, Idle)

\* the call made by p answers o: go on at the label it was called from
Return(p, o) ==
    IF job[p].back = "idle"
    THEN Finish(p)
    ELSE Become(p, [job[p] EXCEPT !.pc = job[p].back, !.outcome = o])

\* (the arguments of _mark swapped)
RuleSwapped(j, label, status, by, o) ==
    [j EXCEPT !.pc = label, !.status = by, !.by = status, !.outcome = o]

\* j goes on at label, to write status by decider on its row and answer o
Rule(j, label, status, by, o) ==
    [j EXCEPT !.pc = label, !.status = status, !.by = by, !.outcome = o]

\* one event loop: guard between awaits and owner never overlap
LoopFree == job["guard"].pc \in {"idle", "close"} /\ At("owner", "idle")

Settled == {"applied", "skipped", "no-breach", "kept"}    \* SettleResult.settled

Fault(kind) == kind \in Faults /\ faults < MaxFaults /\ faults' = faults + 1

\* execution.get_app_settings: a failed read silently yields the defaults
LenientRead(s) ==
    \/ s = settings /\ UNCHANGED <<faults, misread>>
    \/ s = DefaultSettings /\ Fault("settings_read") /\ misread' = TRUE

\* decide() from LINE is called without settings and loads them where needed
SettingsFor(p, s) ==
    IF p = "owner" /\ ~job[p].known
    THEN LenientRead(s)
    ELSE s = job[p].snap /\ UNCHANGED <<faults, misread>>
SettingsSeen(p) == {settings, DefaultSettings, job[p].snap}

(***************************************************************************)
(* settle_expired and _approve                                             *)
(***************************************************************************)
\* (the comparison the wrong way round: older siblings stay open)
NewerSiblings(i) == {k \in Pending : k > i}

\* _supersede_others: the pending rows a decision on row i closes
Siblings(i) == Pending \ {i}

\* (the pause lifted for every window that was settled)
ResumingAny == Settled

\* the outcomes after which _approve resumes trading
Resuming == {"applied"}

\* (the default policy forgets to mark the row it left alone)
PlannedUnmarked(j, s) ==
    CASE Plan(s) = "kept"  -> Rule(j, "scan", "expired", "auto:kept", "kept")
      [] Plan(s) = "apply" -> Rule(j, "weigh", "approved", "auto:expired",
                                   "applied")
      [] Plan(s) = "once"  -> Rule(j, "quota", "approved", "auto:once",
                                   "applied")

\* settle_expired on the lapsed row: what each policy will write on it
Planned(j, s) ==
    CASE Plan(s) = "kept"  -> Rule(j, "mark", "expired", "auto:kept", "kept")
      [] Plan(s) = "apply" -> Rule(j, "weigh", "approved", "auto:expired",
                                   "applied")
      [] Plan(s) = "once"  -> Rule(j, "quota", "approved", "auto:once",
                                   "applied")

\* stale_pending, then timeout_plan as far as it needs no further read
Find(p) ==
    /\ At(p, "find")
    /\ \/ StalePending = NoRow /\ Return(p, "none")
          /\ UNCHANGED <<faults, misread>>
       \/ /\ StalePending # NoRow
          /\ \E s \in SettingsSeen(p) :
                /\ SettingsFor(p, s)
                /\ Become(p, Planned([job[p] EXCEPT !.row = StalePending,
                                                    !.snap = s], s))
    /\ UNCHANGED <<tables, world, optedIn, granted, rescued>>

\* silent_widen_count decides between once and capped
CheckQuota(p) ==
    /\ At(p, "quota")
    /\ IF QuotaSpent
       THEN Become(p, Rule(job[p], "mark", "expired", "auto:capped", "capped"))
       ELSE Goto(p, "weigh")
    /\ UNCHANGED <<tables, world, faults, history>>

\* breached_triggers at the time the window lapsed
Weigh(p) ==
    /\ At(p, "weigh")
    /\ IF Breached(job[p].snap) = {}
       THEN Become(p, Rule(job[p], "mark", "expired", "auto:no-breach",
                           "no-breach"))
       ELSE Goto(p, "persist")
    /\ UNCHANGED <<tables, world, faults, history>>

\* _approve: build the patch from the settings in hand, upsert the whole row
Persist(p) ==
    LET i == job[p].row
        s == job[p].snap
        patch == Proposes(i, s)
    IN  /\ At(p, "persist")
        /\ granted' = [f \in Fields |-> granted[f] \cup
                          IF job[p].by = "owner" /\ f \in patch
                          THEN {rows[i].new[f]} ELSE {}]
        /\ \/ /\ patch = {}
              /\ Become(p, [job[p] EXCEPT !.pc = "mark", !.outcome = "skipped"])
              /\ UNCHANGED <<settings, faults, rescued>>
           \/ /\ patch # {}
              /\ settings' = Merged(i, s)
              /\ rescued' = IF job[p].by = "auto:once" THEN 0 ELSE rescued
              /\ Goto(p, "mark")
              /\ UNCHANGED faults
           \/ /\ patch # {}
              /\ Fault("settings_write")      \* the answer may be lost after
              /\ settings' \in {settings, Merged(i, s)}         \* the commit
              /\ Return(p, "failed")
              /\ UNCHANGED rescued
        /\ UNCHANGED <<rows, stamped, paused, world, optedIn, misread>>

\* _mark: UPDATE by id, whatever the row says now; an error is swallowed
Mark(p) ==
    /\ At(p, "mark")
    /\ \/ /\ rows' = [rows EXCEPT ![job[p].row].status = job[p].status,
                                  ![job[p].row].by = job[p].by]
          /\ UNCHANGED faults
       \/ Fault("row_update") /\ UNCHANGED rows
    /\ Goto(p, "scan")
    /\ UNCHANGED <<settings, stamped, paused, world, history>>

\* _supersede_others, the SELECT
Scan(p) ==
    /\ At(p, "scan")
    /\ Become(p, [job[p] EXCEPT !.pc = "sweep",
                                !.others = Siblings(job[p].row)])
    /\ UNCHANGED <<tables, world, faults, history>>

\* _supersede_others, one UPDATE, newest row first
Sweep(p) ==
    LET i == Newest(job[p].others) IN
    /\ At(p, "sweep") /\ job[p].others # {}
    /\ \/ /\ rows' = [rows EXCEPT ![i].status = "superseded",
                                  ![i].by = "auto:superseded"]
          /\ UNCHANGED faults
       \/ Fault("row_update") /\ UNCHANGED rows
    /\ Become(p, [job[p] EXCEPT !.others = @ \ {i}])
    /\ UNCHANGED <<settings, stamped, paused, world, history>>

\* the queue is swept: a widening resumes trading, a rejection pauses it
Swept(p) ==
    /\ At(p, "sweep") /\ job[p].others = {}
    /\ \/ job[p].outcome \in Resuming /\ Goto(p, "resume")
       \/ job[p].outcome = "rejected" /\ Goto(p, "keep")
       \/ /\ job[p].outcome \notin Resuming \cup {"rejected"}
          /\ Return(p, job[p].outcome)
    /\ UNCHANGED <<tables, world, faults, history>>

\* set_pause(False): trading resumes before the switch is asked again
Resume(p) ==
    /\ At(p, "resume")
    /\ paused' = FALSE
    /\ Goto(p, "recheck")
    /\ UNCHANGED <<settings, rows, stamped, world, faults, history>>

\* evaluate_kill on the merged limits, and the pause again if still over one
Recheck(p) ==
    /\ At(p, "recheck")
    /\ paused' = (paused \/ Breached(Merged(job[p].row, job[p].snap)) # {})
    /\ Return(p, job[p].outcome)
    /\ UNCHANGED <<settings, rows, stamped, world, faults, history>>

Settle(p) ==
    \/ Find(p) \/ CheckQuota(p) \/ Weigh(p) \/ Persist(p) \/ Mark(p)
    \/ Scan(p) \/ Sweep(p) \/ Swept(p) \/ Resume(p) \/ Recheck(p)

(***************************************************************************)
(* request_and_notify and request_expand                                   *)
(***************************************************************************)
\* after the settling half of request_and_notify
Capped(p) ==
    LET j == job[p]
        answer(o) == [j EXCEPT !.pc = "answer", !.outcome = o]
    IN  /\ At(p, "capped?")
        /\ \/ j.outcome \in Settled /\ Become(p, answer("auto_applied"))
           \/ /\ j.outcome \notin Settled /\ ~j.snap.apply /\ QuotaSpent
              /\ Become(p, answer("auto_capped"))
           \/ /\ j.outcome \notin Settled /\ (j.snap.apply \/ ~QuotaSpent)
              /\ Become(p, [j EXCEPT !.pc = "look", !.back = "answer"])
        /\ UNCHANGED <<tables, world, faults, history>>

\* (a quote that clears the loss instead of adding one step)
QuoteOverMetric(s) ==
    [f \in Fields |-> IF f \in Breached(s) THEN metric[f] + Step ELSE 0]

\* new_limit of every breached trigger, 0 for the others
Quote(s) ==
    [f \in Fields |-> IF f \in Breached(s) THEN s.limit[f] + Step ELSE 0]

\* breached_triggers, then pending_request
Look(p) ==
    LET over == Breached(job[p].snap) IN
    /\ At(p, "look")
    /\ \/ over = {} /\ Return(p, "no_breach")
       \/ over # {} /\ PendingRequest # NoRow /\ Return(p, "already_pending")
       \/ /\ over # {} /\ PendingRequest = NoRow
          /\ Become(p, [job[p] EXCEPT !.pc = "cool",
                                      !.quote = Quote(job[p].snap)])
    /\ UNCHANGED <<tables, world, faults, history>>

Gap(i) == IF rows[i].status = "rejected" THEN RejectGap ELSE Cooldown
Cooling ==
    LET last == Newest(Inserted) IN last # NoRow /\ rows[last].age < Gap(last)

\* latest_request and the re-ask gap; past it the new row gets requested_at.
\* MaxRows: with no id left the insert is one that fails
Cool(p) ==
    /\ At(p, "cool")
    /\ \/ Cooling /\ Return(p, "cooldown") /\ UNCHANGED stamped
       \/ /\ ~Cooling /\ stamped < MaxRows
          /\ stamped' = stamped + 1
          /\ Become(p, [job[p] EXCEPT !.pc = "insert", !.row = stamped + 1])
       \/ ~Cooling /\ stamped = MaxRows /\ Goto(p, "reread") /\ UNCHANGED stamped
    /\ UNCHANGED <<settings, rows, paused, world, faults, history>>

\* Database.insert: an error is swallowed, the row is simply not there
Insert(p) ==
    /\ At(p, "insert")
    /\ \/ /\ rows' = [rows EXCEPT ![job[p].row].status = "pending",
                                  ![job[p].row].new = job[p].quote]
          /\ UNCHANGED faults
       \/ Fault("row_insert") /\ UNCHANGED rows
    /\ Goto(p, "reread")
    /\ UNCHANGED <<settings, stamped, paused, world, history>>

\* the newest pending row is the one kept, whoever inserted it
Reread(p) ==
    /\ At(p, "reread")
    /\ \/ PendingRequest = NoRow /\ Return(p, "insert_failed")
       \/ /\ PendingRequest # NoRow
          /\ Become(p, [job[p] EXCEPT !.pc = "scan", !.row = PendingRequest,
                                      !.outcome = "created"])
    /\ UNCHANGED <<tables, world, faults, history>>

Ask(p) == Capped(p) \/ Look(p) \/ Cool(p) \/ Insert(p) \/ Reread(p)

(***************************************************************************)
(* portfolio_monitor.monitor_once                                          *)
(***************************************************************************)
\* strict settings read (an unreadable row skips the cycle), then settle
MonitorStart ==
    /\ At("monitor", "idle")
    /\ Become("monitor", [Idle EXCEPT !.pc = "find", !.snap = settings,
                                      !.back = "judge"])
    /\ UNCHANGED <<tables, world, faults, history>>

\* reload after a settled window, then the risk engine (external) and the
\* kill switch judge the account
MonitorJudge ==
    /\ At("monitor", "judge")
    /\ \E s \in SettingsSeen("monitor"), riskEngine \in BOOLEAN :
          /\ IF job["monitor"].outcome \in Settled
             THEN LenientRead(s)
             ELSE s = job["monitor"].snap /\ UNCHANGED <<faults, misread>>
          /\ IF riskEngine \/ Breached(s) # {}
             THEN Become("monitor", [job["monitor"] EXCEPT !.pc = "pause",
                                                           !.snap = s])
             ELSE Finish("monitor")
    /\ UNCHANGED <<tables, world, optedIn, granted, rescued>>

\* set_pause(True), the alert, then request_and_notify
MonitorPause ==
    /\ At("monitor", "pause")
    /\ paused' = TRUE
    /\ Become("monitor", [job["monitor"] EXCEPT !.pc = "find",
                                                !.back = "capped?"])
    /\ UNCHANGED <<settings, rows, stamped, world, faults, history>>

\* the monitor does nothing with the answer
MonitorAnswer ==
    /\ At("monitor", "answer")
    /\ Finish("monitor")
    /\ UNCHANGED <<tables, world, faults, history>>

Monitor == MonitorStart \/ MonitorJudge \/ MonitorPause \/ MonitorAnswer

(***************************************************************************)
(* position_guard.guard_once, the emergency exit                           *)
(***************************************************************************)
\* a cycle that finds the kill switch engaged while the market is open
GuardStart ==
    /\ book /\ LoopFree /\ At("guard", "idle")
    /\ \/ /\ Breached(settings) # {}
          /\ Become("guard", [Idle EXCEPT !.pc = "hold", !.snap = settings])
          /\ UNCHANGED faults
       \/ /\ Fault("settings_read")
          /\ Become("guard", [Idle EXCEPT !.pc = "hold", !.known = FALSE])
    /\ UNCHANGED <<tables, world, history>>

\* emergency_hold: an unanswered request inside its window holds the exit
GuardHold ==
    /\ At("guard", "hold")
    /\ IF PendingRequest # NoRow THEN Finish("guard") ELSE Goto("guard", "stale")
    /\ UNCHANGED <<tables, world, faults, history>>

\* a lapsed request is settled; without one the guard asks, or defers when
\* it could not read the limits it would quote
GuardStale ==
    LET then(label) == Become("guard", [job["guard"] EXCEPT !.pc = "find",
                                                            !.back = label])
    IN  /\ At("guard", "stale")
        /\ \/ StalePending # NoRow /\ then("rejudge")
           \/ StalePending = NoRow /\ job["guard"].known /\ then("capped?")
           \/ StalePending = NoRow /\ ~job["guard"].known /\ Finish("guard")
        /\ UNCHANGED <<tables, world, faults, history>>

\* settled: reload and ask the switch again; failed: keep deferring;
\* none or capped: the engagement already found stands
GuardRejudge ==
    LET j == job["guard"]
        engagedOn(s, ok) ==
            IF ~ok \/ Breached(s) # {}
            THEN Become("guard", [j EXCEPT !.pc = "close", !.snap = s,
                                           !.known = ok])
            ELSE Finish("guard")
    IN  /\ At("guard", "rejudge")
        /\ \/ /\ j.outcome \in Settled
              /\ \/ engagedOn(settings, TRUE) /\ UNCHANGED faults
                 \/ engagedOn(j.snap, j.known) /\ Fault("settings_read")
           \/ j.outcome = "failed" /\ Finish("guard") /\ UNCHANGED faults
           \/ /\ j.outcome \in {"none", "capped"}
              /\ Goto("guard", "close")
              /\ UNCHANGED faults
        /\ UNCHANGED <<tables, world, history>>

\* only a request on the table defers; every other answer lets it close
Deferring == {"created", "already_pending"}
GuardAnswer ==
    /\ At("guard", "answer")
    /\ IF job["guard"].outcome \in Deferring
       THEN Finish("guard")
       ELSE Goto("guard", "close")
    /\ UNCHANGED <<tables, world, faults, history>>

\* after the awaited feeds: close every position, or none without a price
GuardClose ==
    /\ At("guard", "close") /\ At("owner", "idle")
    /\ book' \in {FALSE, book}
    /\ Finish("guard")
    /\ UNCHANGED <<tables, metric, usage, faults, history>>

Guard ==
    \/ GuardStart \/ GuardHold \/ GuardStale \/ GuardRejudge
    \/ GuardAnswer \/ GuardClose

(***************************************************************************)
(* decide, and the other things the owner does                             *)
(***************************************************************************)
\* the web popup hands its settings over, LINE does not; a press with
\* nothing pending only answers
OwnerStart(d) ==
    /\ presses < MaxPresses /\ presses' = presses + 1
    /\ LoopFree /\ Pending # {}
    /\ \E s \in {settings, DefaultSettings}, ui \in BOOLEAN :
          /\ IF ui THEN LenientRead(s)
             ELSE s = DefaultSettings /\ UNCHANGED <<faults, misread>>
          /\ Become("owner", [Idle EXCEPT !.pc = "find", !.snap = s,
                                !.back = "press", !.known = ui, !.word = d])
    /\ UNCHANGED <<tables, book, metric, saves, restarts, optedIn, granted,
                   rescued>>

\* decide after settle_expired: act on the newest pending row, late or not
OwnerPress ==
    LET j == [job["owner"] EXCEPT !.row = Newest(Pending), !.back = "idle"]
        gone == j.outcome \in Settled \/ j.row = NoRow
    IN  /\ At("owner", "press")
        /\ \/ gone /\ Finish("owner") /\ UNCHANGED <<faults, misread>>
           \/ /\ ~gone /\ j.word = "reject"
              /\ Become("owner", Rule(j, "mark", "rejected", "owner",
                                      "rejected"))
              /\ UNCHANGED <<faults, misread>>
           \/ /\ ~gone /\ j.word = "approve"
              /\ \E s \in SettingsSeen("owner") :
                    /\ SettingsFor("owner", s)
                    /\ Become("owner", Rule([j EXCEPT !.snap = s], "persist",
                                            "approved", "owner", "applied"))
        /\ UNCHANGED <<tables, world, optedIn, granted, rescued>>

\* a rejection keeps trading paused
OwnerKeep ==
    /\ At("owner", "keep")
    /\ paused' = TRUE
    /\ Finish("owner")
    /\ UNCHANGED <<settings, rows, stamped, world, faults, history>>

\* LINE /pause and /resume, POST /pause
OwnerToggle ==
    /\ LoopFree
    /\ paused' = ~paused
    /\ UNCHANGED <<settings, rows, stamped, world, job, faults, history>>

Owner ==
    \/ \E d \in {"approve", "reject"} : OwnerStart(d)
    \/ OwnerPress \/ OwnerKeep \/ OwnerToggle

(***************************************************************************)
(* PUT /settings: read the row, merge the patch, write the row;            *)
(* POST /settings/reset: delete the row                                    *)
(***************************************************************************)
DeskStart ==
    /\ saves < MaxSaves /\ saves' = saves + 1
    /\ At("desk", "idle")
    /\ Become("desk", [Idle EXCEPT !.pc = "save", !.snap = settings])
    /\ UNCHANGED <<tables, book, metric, presses, restarts, faults, history>>

DeskLimit(f, v) ==
    /\ settings' = [job["desk"].snap EXCEPT !.limit[f] = v]
    /\ granted' = [granted EXCEPT ![f] = @ \cup {v}]
    /\ UNCHANGED optedIn

\* (the merge base of before 2026-10-06: the defaults)
DeskPolicyOnDefaults(widen, apply) ==
    /\ settings' = [DefaultSettings EXCEPT !.widen = widen, !.apply = apply]
    /\ optedIn' = (optedIn \/ widen)
    /\ UNCHANGED granted

DeskPolicy(widen, apply) ==
    /\ settings' = [job["desk"].snap EXCEPT !.widen = widen, !.apply = apply]
    /\ optedIn' = (optedIn \/ widen)
    /\ UNCHANGED granted

DeskReset ==
    /\ settings' = DefaultSettings
    /\ granted' = [f \in Fields |-> granted[f] \cup {DefaultLimit}]
    /\ UNCHANGED optedIn

DeskSave ==
    /\ At("desk", "save")
    /\ \/ \E f \in Fields, v \in Levels : DeskLimit(f, v)
       \/ \E widen, apply \in BOOLEAN : DeskPolicy(widen, apply)
       \/ DeskReset
    /\ Finish("desk")
    /\ UNCHANGED <<rows, stamped, paused, world, faults, misread, rescued>>

Desk == DeskStart \/ DeskSave

(***************************************************************************)
(* The rest of the world                                                   *)
(***************************************************************************)
\* entry gates 0 and 1: an order needs no pause and a kill switch at rest
OpenTrade ==
    /\ ~book /\ ~paused /\ Breached(settings) = {}
    /\ book' = TRUE
    /\ UNCHANGED <<tables, metric, job, usage, faults, history>>

MetricMove ==
    /\ \E f \in Fields, v \in Levels : metric' = [metric EXCEPT ![f] = v]
    /\ UNCHANGED <<tables, book, job, usage, faults, history>>

\* a cycle lasts less than a tick, so at most one falls inside it
Tick ==
    /\ \A p \in Proc : ~job[p].ticked
    /\ rows' = [i \in Ids |-> IF i <= stamped /\ rows[i].age < Horizon
                              THEN [rows[i] EXCEPT !.age = @ + 1]
                              ELSE rows[i]]
    /\ job' = [p \in Proc |-> IF At(p, "idle") THEN job[p]
                              ELSE [job[p] EXCEPT !.ticked = TRUE]]
    /\ rescued' = IF rescued < Horizon THEN rescued + 1 ELSE rescued
    /\ UNCHANGED <<settings, stamped, paused, world, faults, optedIn, misread,
                   granted>>

\* the process is redeployed: every cycle in flight is lost, the tables stay
Restart ==
    /\ restarts < MaxRestarts /\ restarts' = restarts + 1
    /\ \E p \in Proc : ~At(p, "idle")
    /\ job' = [p \in Proc |-> Idle]
    /\ UNCHANGED <<tables, book, metric, presses, saves, faults, history>>

World == OpenTrade \/ MetricMove \/ Tick \/ Restart

Init ==
    /\ \E w \in InitWiden, a \in InitApply :
          settings = [limit |-> [f \in Fields |-> InitLimit],
                      widen |-> w, apply |-> a]
    /\ rows = [i \in Ids |-> [status |-> "absent", by |-> "", age |-> 0,
                              new |-> [f \in Fields |-> 0]]]
    /\ stamped = 0
    /\ paused = FALSE /\ book = TRUE
    /\ metric = [f \in Fields |-> InitLimit]
    /\ job = [p \in Proc |-> Idle]
    /\ presses = 0 /\ saves = 0 /\ faults = 0 /\ restarts = 0
    /\ optedIn = settings.widen
    /\ misread = FALSE
    /\ granted = [f \in Fields |-> {InitLimit}]
    /\ rescued = Horizon

Next ==
    \/ \E p \in {"monitor", "guard", "owner"} : Settle(p)
    \/ \E p \in {"monitor", "guard"} : Ask(p)
    \/ Monitor \/ Guard \/ Owner \/ Desk \/ World

Spec == Init /\ [][Next]_vars

\* the scheduler keeps starting the monitor, a cycle in flight goes on, and
\* time passes
FairSpec ==
    /\ Spec
    /\ WF_vars(Tick)
    /\ WF_vars(Settle("monitor") \/ Ask("monitor") \/ Monitor)
    /\ WF_vars(Settle("guard") \/ Ask("guard") \/ GuardHold \/ GuardStale
               \/ GuardRejudge \/ GuardAnswer \/ GuardClose)
    /\ WF_vars(Settle("owner") \/ OwnerPress \/ OwnerKeep)
    /\ WF_vars(DeskSave)

(***************************************************************************)
(* What must hold                                                          *)
(***************************************************************************)
TypeOK ==
    /\ settings \in SettingsRow
    /\ rows \in [Ids -> Request]
    /\ stamped \in 0..MaxRows
    /\ paused \in BOOLEAN /\ book \in BOOLEAN
    /\ metric \in [Fields -> Nat]
    /\ job \in [Proc -> Job]
    /\ presses \in 0..MaxPresses /\ saves \in 0..MaxSaves
    /\ faults \in 0..MaxFaults /\ restarts \in 0..MaxRestarts
    /\ optedIn \in BOOLEAN /\ misread \in BOOLEAN
    /\ granted \in [Fields -> SUBSET Nat]
    /\ rescued \in 0..Horizon

\* Silence never raises a limit: as long as the owner has never switched
\* auto-widen on, every limit in force is one the owner chose (at the start,
\* in Settings, or by approving the request that quoted it), whatever the
\* monitor, the guard, a lost update or a crash did in between.  A lenient
\* read that fell back to the defaults is the one excuse.
OnlyGrantedLimits ==
    ~optedIn /\ ~misread => \A f \in Fields : settings.limit[f] \in granted[f]

\* Silence never resumes trading: with auto-widen never on, the pause is
\* lifted only by the owner, approving a request or with /resume.
NoSilentResume ==
    [][paused /\ ~paused' => optedIn \/ At("owner", "resume") \/ job' = job]_vars

\* A "no" holds: with auto-widen never on, no process is about to write the
\* limits of a request the owner rejected.
RejectionHolds ==
    \A p \in Proc : At(p, "persist") /\ ~optedIn =>
        rows[job[p].row].status # "rejected"

\* One decision settles the whole queue: when no cycle is in flight, and none
\* was lost or failed to write, at most one request is pending, however the
\* two askers and the two settlers interleaved.
Quiet == (\A p \in Proc : At(p, "idle")) /\ faults = 0 /\ restarts = 0
OneQuestion == Quiet => Cardinality(Pending) <= 1

\* One Step per question: whoever settles, retries, or writes a stale snapshot
\* of the row, a limit in force is at most one Step per question ever stamped
\* above a limit the owner chose, so a request settled twice widens once.  A
\* lenient read that fell back to the defaults is again the one excuse.
Within(f, limit) == \E v \in granted[f] : limit <= v + Step * stamped
StepPerQuestion == ~misread => \A f \in Fields : Within(f, settings.limit[f])

\* Every request is answered: by the owner, by the timeout policy, or by a
\* newer request that supersedes it.
EveryRequestSettles ==
    \A i \in Ids : rows[i].status = "pending" ~> rows[i].status # "pending"

\* What became of request i, as the owner sees it.
Question(i) ==
    CASE rows[i].status = "absent" -> "unasked"
      [] rows[i].status = "pending" -> "open"
      [] OTHER -> "closed"

Policy == INSTANCE LimitPolicy WITH
    limit <- settings.limit, chosen <- granted, trusting <- optedIn \/ misread,
    question <- [i \in Ids |-> Question(i)]

\* The flow keeps the promise of LimitPolicy: whatever interleaves, is lost or
\* is written twice, a question is put once and closed once, and the limits
\* change only by what the owner chose or trusts silence to choose.
Implements == Policy!Spec
=============================================================================
