------------------------------- MODULE Alerts -------------------------------
(***************************************************************************)
(* How an alert reaches the owner: NotificationService.notify and the      *)
(* courier of workers/notification_worker.py over the rows of              *)
(* notifications, LINE and Web Push as two transports, the cooldowns read  *)
(* back from those rows, the devices of push_subscriptions, and the four   *)
(* workers that raise alerts.                                              *)
(*                                                                         *)
(* A push suspends its caller; everything between two pushes is one        *)
(* action.  The clock counts half hours: the monitor, which runs every     *)
(* minute, has run in each, and no push of an alert outlasts one.  Rows    *)
(* are not purged: they live seven days.                                   *)
(***************************************************************************)
EXTENDS Integers, Sequences, FiniteSets, Functions

CONSTANTS
    Assets, Devices,
    GuardSays,   \* kinds the guard raises
    Scenes,      \* bound: the sets of actors that are awake in one behaviour
    Window,      \* kind -> half hours its cooldown lasts
    Hour,        \* ALERT_COOLDOWN_S in half hours
    Day,         \* half hours in a day
    Newest,      \* rows an sl_moved cooldown reads back
    MaxFails,    \* MAX_FAILS
    MaxAlerts,   \* bound: alerts raised
    MaxClock,    \* bound
    MaxTrouble,  \* bound: reads and writes of the database that fail,
                 \* restarts, ticks the watchdog cuts
    MaxEdits     \* bound: what the owner and the market do

\* the keeper's hour is longer than the cooldown of the warnings it raises, and
\* what the guard says is about an asset
ASSUME AlertsAssumption ==
    /\ MaxFails \in Nat /\ Newest \in Nat \ {0} /\ Day \in Nat \ {0}
    /\ Hour \in Nat /\ MaxClock \in Nat
    /\ \A kind \in DOMAIN Window : Window[kind] \in Nat
    /\ "risk_warning" \in DOMAIN Window
    /\ 0 < Window["risk_warning"] /\ Window["risk_warning"] < Hour
    /\ "" \notin Assets

VARIABLES
    notes,     \* notifications, in order of created_at
    subs,      \* push_subscriptions: device -> enabled and fail_count
    off,       \* categories switched off
    awake,     \* the actors of this behaviour's scene
    call,      \* the coroutine of each actor
    clock,
    lastAlert, \* log_maintenance._last_alert
    risk,      \* what the monitor measures
    dead,      \* devices whose push service answers 404 or 410
    alerts,    \* history: what was raised, and what rang for it
    strikes,   \* history: failed pushes to a device
    parted,    \* history: devices the owner unsubscribed
    since,     \* history: when the breach began or was last announced
    checked,   \* the monitor ran in this half hour
    counts     \* bounds used up

vars == <<awake, notes, subs, off, call, clock, lastAlert, risk, dead, alerts,
          strikes, parted, since, checked, counts>>

Kinds == {"risk_warning", "drawdown_warning", "sl_moved", "trade_closed",
          "daily_digest"}
Critical == {"risk_warning", "sl_moved", "trade_closed"}
\* owner and market act, the others also wait for a push
Actors == {"monitor", "keeper", "guard", "digest", "courier", "tester"}

\* NOTIFY_CATEGORY_FIELDS
Category(kind) == CASE kind \in {"risk_warning", "drawdown_warning"} -> "risk"
                    [] kind = "sl_moved" -> "stop"
                    [] OTHER -> kind

NoFails == [d \in {} |-> 0]
Idle == [pc |-> "idle", id |-> 0, row |-> 0, line |-> FALSE, web |-> FALSE,
         todo |-> NoFails, batch |-> {}, off |-> {}]

TypeOK ==
    /\ \A n \in DOMAIN notes :
          notes[n] \in [id : 1..MaxAlerts, kind : Kinds, asset : Assets \cup {""},
                        status : {"pending", "sent", "failed", "skipped"},
                        channel : {"line", "web_push", "both"}, at : 0..MaxClock]
    /\ DOMAIN subs \subseteq Devices
    /\ \A d \in DOMAIN subs : subs[d] \in [enabled : BOOLEAN, fails : 0..MaxFails]
    /\ \A a \in Actors :
          /\ call[a].pc \in {"idle", "next", "line", "web"}
          /\ call[a].id \in 0..Len(alerts)
          /\ call[a].batch \subseteq DOMAIN notes
          /\ DOMAIN call[a].todo \subseteq DOMAIN subs
    /\ lastAlert \in -Hour..MaxClock /\ since \in 0..MaxClock
    /\ risk \in {"none", "near", "over"}

Fail(n) == /\ counts.trouble + n <= MaxTrouble
           /\ counts' = [counts EXCEPT !.trouble = @ + n]
Edit(a) == /\ a \in awake
           /\ counts.edits < MaxEdits
           /\ counts' = [counts EXCEPT !.edits = @ + 1]

(***************************************************************************)
(* Cooldowns: the newest row of the kind, for sl_moved of the asset, for   *)
(* the digest of the day                                                   *)
(***************************************************************************)
\* (rows that wait for the courier not counted)
DeliveredRows(S) == {n \in S : notes[n].status = "sent"}

NewestRows(S) == {n \in S : Cardinality({m \in S : m > n}) < Newest}
Found(kind, asset) ==
    {n \in NewestRows({m \in DOMAIN notes : notes[m].kind = kind}) :
        notes[n].asset = asset}
Latest(S) == CHOOSE n \in S : \A m \in S : m <= n

\* (the last minute of the window silent too)
DueLate(kind, asset) ==
    LET S == Found(kind, asset)
        at == notes[Latest(S)].at
    IN  S # {} =>
            /\ kind = "daily_digest" => at \div Day # clock \div Day
            /\ kind \in DOMAIN Window => clock - at > Window[kind]

Due(kind, asset) ==
    LET S == Found(kind, asset)
        at == notes[Latest(S)].at
    IN  S # {} =>
            /\ kind = "daily_digest" => at \div Day # clock \div Day
            /\ kind \in DOMAIN Window => clock - at >= Window[kind]

(***************************************************************************)
(* Rows                                                                    *)
(***************************************************************************)
Row(id, kind, asset, channel, status) ==
    [id |-> id, kind |-> kind, asset |-> asset, status |-> status,
     channel |-> channel, at |-> clock]

\* (the column that was hard-coded once)
ChannelFixed(line, web, old) == "line"

Channel(line, web, old) == CASE line /\ web -> "both"
                             [] line /\ ~web -> "line"
                             [] web /\ ~line -> "web_push"
                             [] OTHER -> old

\* queue_notification: written, or lost when both inserts fail
Queue(row, n) ==
    \/ Fail(n) /\ notes' = Append(notes, row)
    \/ Fail(n + 1) /\ UNCHANGED notes

\* (only LINE decides whether the courier sends again)
QueuedByLine(id, line, web) ==
    Row(id, alerts[id].kind, alerts[id].asset, Channel(line, web, "line"),
        IF line THEN "sent" ELSE "pending")

Queued(id, line, web) ==
    Row(id, alerts[id].kind, alerts[id].asset, Channel(line, web, "line"),
        IF line \/ web THEN "sent" ELSE "pending")

\* (a failed row left for the next dispatch)
DeliveredAgain(row, line, web) ==
    [row EXCEPT !.status = IF line \/ web THEN "sent" ELSE "pending",
                !.channel = Channel(line, web, @)]

Delivered(row, line, web) ==
    [row EXCEPT !.status = IF line \/ web THEN "sent" ELSE "failed",
                !.channel = Channel(line, web, @)]

(***************************************************************************)
(* notify                                                                  *)
(***************************************************************************)
\* s: the settings could not be read; m: the rows could not
Wanted(kind, s) == Category(kind) \notin off \/ s = 1
Misses == {q \in (0..1) \X (0..1) : counts.trouble + q[1] + q[2] <= MaxTrouble}

Raise(a, kind, asset) ==
    alerts' = Append(alerts, [kind |-> kind, asset |-> asset, by |-> a,
        line |-> FALSE, web |-> FALSE, rung |-> 0, torn |-> FALSE])

\* category, cooldown, then a push for a critical kind and a row for another
Notify(a, kind, asset) ==
    /\ a \in awake /\ call[a].pc = "idle" /\ Len(alerts) < MaxAlerts
    /\ \E q \in Misses :
          /\ Wanted(kind, q[1])
          /\ q[2] = 1 \/ Due(kind, asset)
          /\ Raise(a, kind, asset)
          /\ IF kind \in Critical
             THEN /\ call' = [call EXCEPT ![a] = [Idle EXCEPT
                                !.pc = "line", !.id = Len(alerts) + 1]]
                  /\ Fail(q[1] + q[2])
                  /\ UNCHANGED notes
             ELSE /\ Queue(Row(Len(alerts) + 1, kind, asset, "line", "pending"),
                           q[1] + q[2])
                  /\ UNCHANGED call

Unheard(kind) == ~Wanted(kind, 0) \/ ~Due(kind, "")

(***************************************************************************)
(* The workers that raise alerts                                           *)
(***************************************************************************)
MonitorKind == IF risk = "over" THEN "risk_warning" ELSE "drawdown_warning"

\* monitor_once: a breach, else the early warning
MonitorRuns ==
    /\ call["monitor"].pc = "idle"
    /\ checked' = TRUE
    /\ \/ /\ risk # "none"
          /\ Notify("monitor", MonitorKind, "")
       \/ /\ ~checked
          /\ risk = "none" \/ Unheard(MonitorKind)
          /\ UNCHANGED <<notes, call, alerts, counts>>
    /\ UNCHANGED <<subs, off, clock, lastAlert, risk, dead, strikes, parted, since>>

KeeperDue == clock - lastAlert >= Hour

\* _alert_quote_errors: the hour is stamped before notify decides
KeeperRuns ==
    /\ call["keeper"].pc = "idle" /\ KeeperDue
    /\ lastAlert' = clock
    /\ \/ Notify("keeper", "risk_warning", "")
       \/ Unheard("risk_warning") /\ UNCHANGED <<notes, call, alerts, counts>>
    /\ UNCHANGED <<subs, off, clock, risk, dead, strikes, parted, since, checked>>

\* the guard moved a stop, or closed a position
GuardRuns ==
    /\ \E kind \in GuardSays, asset \in Assets : Notify("guard", kind, asset)
    /\ UNCHANGED <<subs, off, clock, lastAlert, risk, dead, strikes, parted, since,
                   checked>>

\* send_digest_once
DigestRuns ==
    /\ Notify("digest", "daily_digest", "")
    /\ UNCHANGED <<subs, off, clock, lastAlert, risk, dead, strikes, parted, since,
                   checked>>

\* the watchdog of the guard's tick
GuardTimesOut ==
    /\ call["guard"].pc # "idle" /\ Fail(1)
    /\ call' = [call EXCEPT !["guard"] = Idle]
    /\ alerts' = [alerts EXCEPT ![call["guard"].id].torn = TRUE]
    /\ UNCHANGED <<notes, subs, off, clock, lastAlert, risk, dead, strikes, parted,
                   since, checked>>

(***************************************************************************)
(* The courier: one dispatch over the rows pending when it began           *)
(***************************************************************************)
CourierStarts ==
    /\ call["courier"].pc = "idle"
    /\ \E n \in DOMAIN notes : notes[n].status = "pending"
    /\ \E s \in 0..1 :
          /\ Fail(s)
          /\ call' = [call EXCEPT !["courier"] = [Idle EXCEPT
                !.pc = "next", !.off = IF s = 1 THEN {} ELSE off,
                !.batch = {n \in DOMAIN notes : notes[n].status = "pending"}]]
    /\ UNCHANGED <<notes, subs, off, clock, lastAlert, risk, dead, alerts, strikes,
                   parted, since, checked>>

Onward(c, n) == [Idle EXCEPT !.off = c.off, !.batch = c.batch \ {n},
                             !.pc = IF c.batch = {n} THEN "idle" ELSE "next"]

CourierTakes ==
    LET c == call["courier"]
    IN  /\ c.pc = "next"
        /\ \E n \in c.batch :
              IF Category(notes[n].kind) \in c.off
              THEN /\ call' = [call EXCEPT !["courier"] = Onward(c, n)]
                   /\ notes' = [notes EXCEPT ![n].status = "skipped"]
              ELSE /\ call' = [call EXCEPT !["courier"].pc = "line",
                                           !["courier"].row = n,
                                           !["courier"].id = notes[n].id]
                   /\ UNCHANGED notes
        /\ UNCHANGED <<subs, off, clock, lastAlert, risk, dead, alerts, strikes,
                       parted, since, checked, counts>>

(***************************************************************************)
(* The two transports                                                      *)
(***************************************************************************)
Rang(n, line, web) ==
    [alerts EXCEPT ![n].rung = IF line \/ web THEN @ + 1 ELSE @]

\* both transports have answered: the row is written
Settle(a, line, web, n) ==
    LET c == call[a]
    IN  CASE a = "courier" ->
              /\ call' = [call EXCEPT ![a] = Onward(c, c.row)]
              /\ \/ Fail(n) /\ notes' = [notes EXCEPT ![c.row] =
                                            Delivered(@, line, web)]
                 \/ Fail(n + 1) /\ UNCHANGED notes
              /\ UNCHANGED since
          [] a = "tester" ->
              /\ call' = [call EXCEPT ![a] = Idle]
              /\ Fail(n) /\ UNCHANGED <<notes, since>>
          [] OTHER ->
              /\ call' = [call EXCEPT ![a] = Idle]
              /\ Queue(Queued(c.id, line, web), n)
              /\ since' = IF a = "monitor" THEN clock ELSE since

Enabled == {d \in DOMAIN subs : subs[d].enabled}

\* (a push to every row, the disabled ones too)
EveryRow == [d \in DOMAIN subs |-> subs[d].fails]
Audience == [d \in Enabled |-> subs[d].fails]

\* push_line has answered; push_all reads the devices
LineAnswers(a) ==
    /\ call[a].pc = "line"
    /\ \E ok \in BOOLEAN, s \in 0..1 :
          LET todo == IF s = 1 THEN NoFails ELSE Audience
              id == call[a].id
          IN  /\ counts.trouble + s <= MaxTrouble
              /\ alerts' = [alerts EXCEPT
                    ![id].line = @ \/ ok,
                    ![id].rung = IF ok /\ DOMAIN todo = {} THEN @ + 1 ELSE @]
              /\ IF DOMAIN todo = {}
                 THEN Settle(a, ok, FALSE, s)
                 ELSE /\ call' = [call EXCEPT ![a].pc = "web", ![a].line = ok,
                                              ![a].todo = todo]
                      /\ Fail(s)
                      /\ UNCHANGED <<notes, since>>
    /\ UNCHANGED <<subs, off, clock, lastAlert, risk, dead, strikes, parted, checked>>

\* (the streak one short)
StruckEarly(sub, fails, answer) ==
    [enabled |-> sub.enabled /\ answer # "gone" /\ fails + 2 < MaxFails,
     fails |-> fails + 1]

\* what push_one writes, from the row as push_all read it
Struck(sub, fails, answer) ==
    [enabled |-> sub.enabled /\ answer # "gone" /\ fails + 1 < MaxFails,
     fails |-> fails + 1]
Healed(sub, fails) == IF fails > 0 THEN [sub EXCEPT !.fails = 0] ELSE sub

PushOne(d, fails, answer) ==
    [subs EXCEPT ![d] = IF answer = "ok" THEN Healed(@, fails)
                                         ELSE Struck(@, fails, answer)]

\* one device has answered; after the last the row is written
WebAnswers(a) ==
    /\ call[a].pc = "web"
    /\ \E d \in DOMAIN call[a].todo :
       \E answer \in IF d \in dead THEN {"gone"} ELSE {"ok", "error"} :
          LET c == call[a]
              web == c.web \/ answer = "ok"
              last == DOMAIN c.todo = {d}
          IN  /\ subs' = PushOne(d, c.todo[d], answer)
              /\ strikes' = [strikes EXCEPT ![d] = IF answer = "ok" THEN @ ELSE @ + 1]
              /\ alerts' = IF c.id = 0 THEN alerts
                           ELSE [alerts EXCEPT
                                   ![c.id].web = @ \/ answer = "ok",
                                   ![c.id].rung = IF last /\ (c.line \/ web)
                                                  THEN @ + 1 ELSE @]
              /\ IF last
                 THEN Settle(a, c.line, web, 0)
                 ELSE /\ call' = [call EXCEPT ![a].web = web,
                                    ![a].todo = Restrict(@, DOMAIN @ \ {d})]
                      /\ UNCHANGED <<notes, since, counts>>
    /\ UNCHANGED <<off, clock, lastAlert, risk, dead, parted, checked>>

(***************************************************************************)
(* The owner, the market, the process                                      *)
(***************************************************************************)
Subscribe(d) ==
    /\ Edit("owner")
    /\ subs' = [e \in DOMAIN subs \cup {d} |->
                    IF e = d THEN [enabled |-> TRUE, fails |-> 0] ELSE subs[e]]
    /\ parted' = parted \ {d}
    /\ UNCHANGED <<notes, off, call, clock, lastAlert, risk, dead, alerts, strikes,
                   since, checked>>

Unsubscribe(d) ==
    /\ d \in DOMAIN subs /\ Edit("owner")
    /\ subs' = [subs EXCEPT ![d].enabled = FALSE]
    /\ parted' = parted \cup {d}
    /\ UNCHANGED <<notes, off, call, clock, lastAlert, risk, dead, alerts, strikes,
                   since, checked>>

\* push_test_rows
TestPush ==
    /\ call["tester"].pc = "idle" /\ Enabled # {} /\ Edit("owner")
    /\ call' = [call EXCEPT !["tester"] = [Idle EXCEPT !.pc = "web",
                                                       !.todo = Audience]]
    /\ UNCHANGED <<notes, subs, off, clock, lastAlert, risk, dead, alerts, strikes,
                   parted, since, checked>>

Toggle(c) ==
    /\ Edit("owner")
    /\ off' = IF c \in off THEN off \ {c} ELSE off \cup {c}
    /\ since' = clock
    /\ UNCHANGED <<notes, subs, call, clock, lastAlert, risk, dead, alerts, strikes,
                   parted, checked>>

DeviceDies(d) ==
    /\ d \notin dead /\ Edit("owner")
    /\ dead' = dead \cup {d}
    /\ UNCHANGED <<notes, subs, off, call, clock, lastAlert, risk, alerts, strikes,
                   parted, since, checked>>

RiskMoves ==
    /\ Edit("market")
    /\ risk' \in {"none", "near", "over"} \ {risk}
    /\ since' = clock /\ checked' = FALSE
    /\ UNCHANGED <<notes, subs, off, call, clock, lastAlert, dead, alerts, strikes,
                   parted>>

Restart ==
    /\ Fail(1)
    /\ call' = [a \in Actors |-> Idle]
    /\ lastAlert' = -Hour
    /\ alerts' = [i \in DOMAIN alerts |-> [alerts[i] EXCEPT
                    !.torn = @ \/ \E a \in Actors : call[a].id = i]]
    /\ checked' = FALSE
    /\ UNCHANGED <<notes, subs, off, clock, risk, dead, strikes, parted, since>>

Tick ==
    /\ clock < MaxClock
    /\ checked /\ \A a \in Actors \ {"courier"} : call[a].pc = "idle"
    /\ clock' = clock + 1
    /\ since' = IF risk = "over" /\ "risk" \notin off THEN since ELSE clock + 1
    /\ checked' = FALSE
    /\ UNCHANGED <<notes, subs, off, call, lastAlert, risk, dead, alerts, strikes,
                   parted, counts>>

Init ==
    /\ awake \in Scenes
    /\ notes = <<>> /\ alerts = <<>>
    /\ \E known \in SUBSET Devices :
          subs = [d \in known |-> [enabled |-> TRUE, fails |-> 0]]
    /\ dead = {} /\ parted = {}
    /\ off = {} /\ risk \in IF "monitor" \in awake THEN {"near", "over"} ELSE {"none"}
    /\ call = [a \in Actors |-> Idle]
    /\ clock = 0 /\ since = 0 /\ lastAlert = -Hour
    /\ strikes = [d \in Devices |-> 0]
    /\ checked = FALSE
    /\ counts = [trouble |-> 0, edits |-> 0]

CourierStep ==
    /\ CourierStarts \/ CourierTakes \/ LineAnswers("courier")
       \/ WebAnswers("courier")
    /\ UNCHANGED awake

Step ==
    \/ MonitorRuns \/ KeeperRuns \/ GuardRuns \/ DigestRuns \/ GuardTimesOut
    \/ CourierStarts \/ CourierTakes
    \/ \E a \in Actors : LineAnswers(a)
    \/ \E a \in Actors : WebAnswers(a)
    \/ \E d \in Devices : Subscribe(d)
    \/ \E d \in Devices : Unsubscribe(d)
    \/ \E d \in Devices : DeviceDies(d)
    \/ TestPush
    \/ Toggle("risk")
    \/ RiskMoves \/ Restart \/ Tick

Next == Step /\ UNCHANGED awake

\* the courier runs every minute and its pushes time out
Spec == Init /\ [][Next]_vars /\ WF_vars(CourierStep)

(***************************************************************************)
(* Properties                                                              *)
(***************************************************************************)
At(id) == CHOOSE n \in DOMAIN notes : notes[n].id = id
Rows == {notes[n].id : n \in DOMAIN notes}

\* An alert comes a window after every row of its kind and asset, the digest on
\* another day, as long as fewer than Newest rows of the kind came between; a
\* read that failed is the one excuse.
Later(n) == {m \in DOMAIN notes : m > n /\ notes[m].kind = notes[n].kind}

Quiet ==
    [][Len(alerts') > Len(alerts) /\ counts' = counts =>
        LET y == alerts'[Len(alerts')]
        IN  \A n \in DOMAIN notes :
                /\ notes[n].kind = y.kind /\ notes[n].asset = y.asset
                /\ Cardinality(Later(n)) < Newest
                =>
                    /\ y.kind = "daily_digest" =>
                           notes[n].at \div Day # clock \div Day
                    /\ y.kind \in DOMAIN Window =>
                           clock - notes[n].at >= Window[y.kind]]_vars

\* A row names a transport only when it delivered that alert, and all that did
\* unless an earlier attempt was cut or its row lost; a failed row never rang.
HonestChannel ==
    \A n \in DOMAIN notes :
        LET x == notes[n]
            y == alerts[x.id]
        IN  /\ x.status = "sent" =>
                 /\ x.channel \in {"both", "line"} => y.line
                 /\ x.channel \in {"both", "web_push"} => y.web
                 /\ y.line /\ y.web /\ y.rung = 1 /\ ~y.torn
                       => x.channel = "both"
            /\ x.status \in {"failed", "skipped"} /\ ~y.torn /\ counts.trouble = 0
                  => y.rung = 0

\* Two attempts ring for one alert only when a restart or a lost write came
\* between the first and its row.
RungOnce ==
    \A i \in DOMAIN alerts :
        alerts[i].rung > 1 => alerts[i].torn \/ counts.trouble > 0

\* A device leaves the audience because its owner asked, its endpoint is dead,
\* or MAX_FAILS pushes to it failed, whichever pushes were in flight at once.
DisabledForCause ==
    \A d \in DOMAIN subs :
        ~subs[d].enabled => d \in parted \/ d \in dead \/ strikes[d] >= MaxFails

\* A breach that stands is announced before two windows are over, though a
\* failing feed raises its warnings under the same type: one window more after
\* a restart or a failed read.
BreachHeard ==
    risk = "over" /\ "risk" \notin off /\ checked /\ call["monitor"].pc = "idle"
        => clock - since < Window["risk_warning"] * (2 + counts.trouble)

\* Every row that waits is delivered, given up or skipped.
Settled ==
    \A n \in 1..MaxAlerts :
        (n \in DOMAIN notes /\ notes[n].status = "pending")
            ~> (n \in DOMAIN notes /\ notes[n].status # "pending")
==============================================================================
