------------------------------- MODULE Account -------------------------------
(***************************************************************************)
(* The money of the account and the three places that measure it: the      *)
(* portfolio monitor (monitor_once, RiskEngine), the kill switch the gates *)
(* and the guard ask (evaluate_kill), and the card of the monitor page     *)
(* (monitor_snapshot).  Each adds up the closed trades over its windows    *)
(* and sets the equity against its peak; the monitor alone writes the      *)
(* equity curve, one row per UTC day that each cycle overwrites.           *)
(*                                                                         *)
(* A SELECT that fails answers no rows.  Money is in whole units, time in  *)
(* HoursPerDay ticks a day, a limit in percent.  What a pause then does is *)
(* LimitExpand.                                                            *)
(***************************************************************************)
EXTENDS Integers, Sequences, FiniteSets, Functions, FiniteSetsExt

CONSTANTS
    Capitals,     \* what the owner sets as the capital
    Profits,      \* what a closed trade realizes
    Marks,        \* what the open positions may be worth
    Limits,       \* the settings, percent: daily, weekly, monthly, drawdown
    Span,         \* the ticks a daily, a weekly and a monthly window go back
    HoursPerDay,  \* ticks of a UTC day
    StaleMult,    \* a row above so many times the base is of an older regime
    MaxClock, MaxTrades, MaxFaults, MaxReseeds

VARIABLES
    clock,
    capital,     \* trading_settings.capital
    closed,      \* the closed rows of paper_trades: when, and what they realized
    floating,    \* the unrealized profit of the broker's book
    curve,       \* equity_snapshots: the equity of each day that has a row
    paused,      \* what the monitor's last cycle found
    faults, reseeds

vars == <<clock, capital, closed, floating, curve, paused, faults, reseeds>>

Losses == {"daily", "weekly", "monthly"}
Today == clock \div HoursPerDay

TypeOK ==
    /\ clock \in 0 .. MaxClock /\ capital \in Capitals /\ floating \in Marks
    /\ closed \in Seq([at : 0 .. MaxClock, pnl : Profits]) /\ Len(closed) <= MaxTrades
    /\ DOMAIN curve \subseteq 0 .. Today /\ \A d \in DOMAIN curve : curve[d] \in Int
    /\ paused \in BOOLEAN
    /\ faults \in 0 .. MaxFaults /\ reseeds \in 0 .. MaxReseeds

----------------------------------------------------------------------------
(***************************************************************************)
(* What each reader makes of the rows it was given                         *)
(***************************************************************************)
Since(rows, since) == {i \in DOMAIN rows : rows[i].at >= since}
Realized(rows, since) == SumFunction([i \in Since(rows, since) |-> rows[i].pnl])

\* capital, what was realized and what the book is worth
Equity(rows) == capital + Realized(rows, 0) + floating

AtLeast(a, b) == IF a > b THEN a ELSE b

\* the loss of a window; the kill switch and the card go back its span, the
\* monitor takes every closed row for the month
WindowLoss(rows, w) == AtLeast(0, -Realized(rows, clock - Span[w]))
WorkerLoss(rows, w) ==
    IF w = "monthly" THEN AtLeast(0, -Realized(rows, 0)) ELSE WindowLoss(rows, w)

\* (the peak without the curve)
PeakOfBase(rows, equity) == AtLeast(capital, equity)

\* the best of the base and the rows that are not of an older regime
Peak(rows, equity) ==
    LET base == AtLeast(capital, equity)
    IN  Max({base} \cup {rows[d] : d \in {e \in DOMAIN rows : rows[e] <= StaleMult * base}})

\* (the newest row taken from the wrong end)
CurrentOldest(rows) == rows[Min(DOMAIN rows)]

\* the kill switch knows the equity from the newest row
Current(rows) == rows[Max(DOMAIN rows)]
KillPeak(rows) ==
    Max({rows[d] : d \in {e \in DOMAIN rows : rows[e] <= StaleMult * Current(rows)}})

\* drop from a peak, in percent at least or above a limit
Reaches(drop, of, limit) == of > 0 /\ drop * 100 >= limit * of
Exceeds(drop, of, limit) == of > 0 /\ drop * 100 > limit * of

\* RiskEngine.check: what it was told reaches the limit
EngineBreaches(loss, peak, equity) ==
    {w \in Losses : Reaches(loss[w], capital, Limits[w])}
        \cup {f \in {"drawdown"} : Reaches(peak - equity, peak, Limits.drawdown)}

\* by the monitor and by the card of its page, at the equity of this moment
WorkerBreaches(rows) ==
    EngineBreaches([w \in Losses |-> WorkerLoss(closed, w)],
                   Peak(rows, Equity(closed)), Equity(closed))
CardBreaches(rows) ==
    EngineBreaches([w \in Losses |-> WindowLoss(closed, w)],
                   Peak(rows, Equity(closed)), Equity(closed))

\* evaluate_kill: strictly above the limit
KillDrawdown(rows) ==
    /\ rows # << >> /\ Current(rows) > 0
    /\ Exceeds(KillPeak(rows) - Current(rows), KillPeak(rows), Limits.drawdown)
KillTriggers(journal, rows) ==
    {w \in Losses : Exceeds(WindowLoss(journal, w), capital, Limits[w])}
        \cup {f \in {"drawdown"} : KillDrawdown(rows)}

----------------------------------------------------------------------------
Init ==
    /\ clock = 0 /\ capital \in Capitals /\ floating \in Marks
    /\ closed = << >> /\ curve = << >> /\ paused = FALSE
    /\ faults = 0 /\ reseeds = 0

\* a position is closed: what it was worth moves into the journal
Close(p, m) ==
    /\ Len(closed) < MaxTrades
    /\ closed' = Append(closed, [at |-> clock, pnl |-> p]) /\ floating' = m
    /\ UNCHANGED <<clock, capital, curve, paused, faults, reseeds>>

\* the market moves the book
Drift(m) ==
    /\ floating' = m /\ m # floating
    /\ UNCHANGED <<clock, capital, closed, curve, paused, faults, reseeds>>

\* the owner saves another capital
Reseed(c) ==
    /\ reseeds < MaxReseeds /\ c # capital
    /\ capital' = c /\ reseeds' = reseeds + 1
    /\ UNCHANGED <<clock, closed, floating, curve, paused, faults>>

\* _write_equity_snapshot: today's row is refreshed in place
Written(equity) == [d \in DOMAIN curve \cup {Today} |-> IF d = Today THEN equity ELSE curve[d]]

\* monitor_once asks for the closed rows three times, for the equity, for the
\* losses and through evaluate_kill; it writes the curve and reads it back for
\* the peak and through evaluate_kill.  Any of the six may fail.  The cycle
\* pauses for what it measures or for what the kill switch does.
Calls == {"equity", "losses", "curve", "peak", "kill", "drawdown"}
Read(call, failed) == IF call \in failed THEN << >> ELSE closed
CurveAfter(failed) ==
    IF "curve" \in failed THEN curve ELSE Written(Equity(Read("equity", failed)))
ReadCurve(call, failed) == IF call \in failed THEN << >> ELSE CurveAfter(failed)
Paused(failed) ==
    LET equity == Equity(Read("equity", failed))
        losses == [w \in Losses |-> WorkerLoss(Read("losses", failed), w)]
    IN  \/ EngineBreaches(losses, Peak(ReadCurve("peak", failed), equity), equity) # {}
        \/ KillTriggers(Read("kill", failed), ReadCurve("drawdown", failed)) # {}

Cycle(failed) ==
    /\ faults + Cardinality(failed) <= MaxFaults
    /\ faults' = faults + Cardinality(failed)
    /\ curve' = CurveAfter(failed)
    /\ paused' = Paused(failed)
    /\ UNCHANGED <<clock, capital, closed, floating, reseeds>>

Tick ==
    /\ clock < MaxClock /\ clock' = clock + 1
    /\ UNCHANGED <<capital, closed, floating, curve, paused, faults, reseeds>>

Next ==
    \/ \E p \in Profits, m \in Marks : Close(p, m)
    \/ \E m \in Marks : Drift(m)
    \/ \E c \in Capitals : Reseed(c)
    \/ \E failed \in SUBSET Calls : Cycle(failed)
    \/ Tick

Spec == Init /\ [][Next]_vars

----------------------------------------------------------------------------
(***************************************************************************)
(* Properties                                                              *)
(***************************************************************************)
\* Once the equity of the moment is on the curve, what engages the kill switch
\* shows on the card, and all but the monthly loss is a breach for the monitor
\* too: three sums over the same rows that never leave the owner uninformed of
\* why orders are refused (evaluate_kill, RiskEngine.check, monitor_snapshot).
NoSilentKill ==
    LET rows == Written(Equity(closed))
        kill == KillTriggers(closed, rows)
    IN  kill \subseteq CardBreaches(rows) /\ kill \ {"monthly"} \subseteq WorkerBreaches(rows)

\* A book worth less never reads as less of a drawdown, while no row is so far
\* above the equity that it is taken for an older regime (equity_drawdown_pct).
DeeperIsWorse ==
    \A m, n \in Marks :
        LET equity(x) == Equity(closed) - floating + x
            rows(x) == Written(equity(x))
        IN  m < n /\ (\A d \in DOMAIN curve : curve[d] <= StaleMult * equity(m))
            => (KillDrawdown(rows(n)) => KillDrawdown(rows(m)))
=============================================================================
