------------------------------ MODULE MCAlerts ------------------------------
(***************************************************************************)
(* What runs on a schedule, on three benches of which one runs: "jobs" is  *)
(* Jobs with a watched worker and one that is not, "alerts" is Alerts,     *)
(* "account" is Account, what the portfolio monitor measures.              *)
(*                                                                         *)
(* A window is half an hour for a breach and for a stop, two for the early *)
(* warning; a day is two half hours, so that a digest meets a second day.  *)
(***************************************************************************)
EXTENDS Alerts

CONSTANTS
    Benches,  \* those of this run
    Workers, Watched, Limit, MaxFires, MaxLost, \* of Jobs
    Capitals, Profits, Marks, Limits, Span, HoursPerDay, StaleMult,
    MaxHours, MaxTrades, MaxMisses, MaxReseeds  \* of Account

VARIABLES bench, inFlight, running, rows, stats, available, fired, lost, trouble,
    hours, capital, closed, floating, curve, measured, misses, reseeds

J == INSTANCE Jobs

A == INSTANCE Account WITH
        MaxClock <- MaxHours, MaxFaults <- MaxMisses,
        clock <- hours, paused <- measured, faults <- misses

\* a capital above zero and a drawdown limit of at most 100 percent, as the schema
\* requires of the settings
ASSUME AccountAssumption ==
    /\ Capitals \subseteq Nat \ {0} /\ Profits \subseteq Int /\ Marks \subseteq Int
    /\ Limits \in [A!Losses \cup {"drawdown"} -> Nat] /\ Limits.drawdown <= 100
    /\ Span \in [A!Losses -> Nat]
    /\ HoursPerDay \in Nat \ {0} /\ StaleMult \in Nat \ {0} /\ MaxHours \in Nat
    /\ MaxTrades \in Nat /\ MaxMisses \in Nat /\ MaxReseeds \in Nat

\* half days; an account of 30 that may win 15 or lose 4, reseeded to 12 at times
SomeProfits == {15, -4}
SomeMarks == {0, -25}
SomeLimits == [daily |-> 20, weekly |-> 25, monthly |-> 30, drawdown |-> 20]
SomeSpan == [daily |-> 0, weekly |-> 1, monthly |-> 2]

Windows == [k \in {"risk_warning", "drawdown_warning", "sl_moved"} |->
                IF k = "drawdown_warning" THEN 2 ELSE 1]

\* the two that share a type; the guard and its watchdog; the owner beside an
\* alert; a breach that comes and goes; the digest beside a breach
SceneSets == {{"monitor", "keeper"}, {"guard"}, {"monitor", "owner"},
              {"monitor", "market"}, {"monitor", "digest"}}

jobVars == <<inFlight, running, rows, stats, available, fired, lost, trouble>>
accountVars == <<hours, capital, closed, floating, curve, measured, misses, reseeds>>
allVars == <<bench, vars, jobVars, accountVars>>

\* an account that starts with less is a reseed and a move of the market away
ScheduleInit ==
    /\ bench \in Benches
    /\ Init /\ J!Init /\ A!Init
    /\ \A c \in Capitals, m \in Marks : c <= capital /\ m <= floating
    /\ bench # "alerts" => awake = {"guard"} /\ DOMAIN subs = {}

ScheduleNext ==
    \/ bench = "alerts" /\ Next /\ UNCHANGED <<bench, jobVars, accountVars>>
    \/ bench = "jobs" /\ J!Next /\ UNCHANGED <<bench, vars, accountVars>>
    \/ bench = "account" /\ A!Next /\ UNCHANGED <<bench, vars, jobVars>>

\* the fairness of Alerts and of Jobs
ScheduleSpec ==
    /\ ScheduleInit /\ [][ScheduleNext]_allVars
    /\ WF_vars(bench = "alerts" /\ CourierStep)
    /\ WF_jobVars(bench = "jobs" /\ J!Passing)

(***************************************************************************)
(* Properties                                                              *)
(***************************************************************************)
\* What the rows and the devices say is what happened: Alerts!HonestChannel,
\* RungOnce and DisabledForCause.
RowsHonest == HonestChannel /\ RungOnce /\ DisabledForCause

\* A worker never runs beside itself, each tick leaves one row and the heartbeat
\* agrees with the log: Jobs!OneAtATime, OneRowEach and HeartbeatTrue.
TicksCounted == bench = "jobs" => J!OneAtATime /\ J!OneRowEach /\ J!HeartbeatTrue

\* The kill switch is never engaged unseen, and a deeper loss never reads as a
\* lesser one: Account!NoSilentKill and DeeperIsWorse.
MeasuresAgree == bench = "account" => A!TypeOK /\ A!NoSilentKill /\ A!DeeperIsWorse

\* Jobs!SlotReturned: a watched worker is free again.
SlotReturned == J!SlotReturned
==============================================================================
