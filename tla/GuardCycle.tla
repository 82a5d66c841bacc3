----------------------------- MODULE GuardCycle -----------------------------
(***************************************************************************)
(* What one guard cycle does to the stop of a position: the loop of        *)
(* workers/position_guard.py guard_once with _manage_position, smart exit  *)
(* and the time stop, beside the owner's POST /positions/levels and        *)
(* /positions/close, the market hours and a restart.                       *)
(*                                                                         *)
(* Prices and stops are distances from the entry in the direction of the   *)
(* profit, R units of them the initial risk, so BUY and SELL are one case. *)
(* A paper broker call never suspends; a feed and a notification do, and   *)
(* the owner may act there.  One action is the code between two of them.   *)
(* The kill switch and the smart-exit verdict are inputs here.             *)
(***************************************************************************)
EXTENDS Integers, Functions

CONSTANTS
    Positions,
    Big,         \* positions of which a slice is less than the whole
    R,           \* entry to the initial stop
    Trigger,     \* breakeven_trigger_r and partial_trigger_r, in units
    Trail,       \* trail_atr_mult * guard_atr_proxy_mult of a risk of R
    TakeProfit,
    Feed,        \* prices the live feed may answer
    Levels,      \* stops the owner may set
    Modes,       \* values of management_allows_discretionary()
    MaxFaults,   \* bound: failing calls
    MaxRestarts, \* bound
    MaxLevels    \* bound: POST /positions/levels

ASSUME GuardAssumption ==
    /\ Big \subseteq Positions
    /\ R \in Nat \ {0} /\ Trigger \in Nat \ {0} /\ Trail \in Nat \ {0}
    /\ TakeProfit \in Nat \ {0}
    /\ Feed \subseteq Int /\ Levels \subseteq Int
    /\ Modes \subseteq BOOLEAN
    /\ MaxFaults \in Nat /\ MaxRestarts \in Nat /\ MaxLevels \in Nat

VARIABLES
    book,     \* PaperBroker._positions: mark, stop, partial_done, and whether
              \* the mark ever came from the feed
    rows,     \* paper_trades: status, stop_loss, partial_done, close_reason
    cycle,    \* guard_once in flight; missed: _manage_position
              \* could not read the row
    shut,     \* the market is closed
    told,     \* history: positions whose close was logged and announced
    peak,     \* history: best mark managed since the stop was last the owner's
    slices,   \* history: slices taken of a position
    lost,     \* history: positions an UPDATE of whose row failed
    counts    \* bounds used up

vars == <<book, rows, cycle, shut, told, peak, slices, lost, counts>>

Reasons == {"none", "kill", "sl", "tp", "smart", "time", "owner"}
Idle == [pc |-> "idle", at |-> {}, todo |-> {}, blocked |-> FALSE, kill |-> FALSE,
         managed |-> FALSE, unpriced |-> {}, missed |-> 0]
Open == {p \in Positions : rows[p].reason = "none"}

TypeOK ==
    /\ DOMAIN book \subseteq Positions
    /\ \A p \in DOMAIN book :
          book[p] \in [mark : Int, stop : Int, partial : BOOLEAN,
                       live : BOOLEAN]
    /\ rows \in [Positions -> [stop : Int, partial : BOOLEAN,
                               reason : Reasons]]
    /\ cycle \in [pc : {"idle", "judge", "trail", "smart", "time"},
                  at : SUBSET Positions, todo : SUBSET Positions, blocked : BOOLEAN,
                  kill : BOOLEAN, managed : BOOLEAN,
                  unpriced : SUBSET Positions, missed : 0..1]
    /\ shut \in BOOLEAN
    /\ told \subseteq Positions /\ lost \subseteq Positions
    /\ peak \in [Positions -> Int] /\ slices \in [Positions -> Nat]
    /\ counts \in [faults : 0..MaxFaults, restarts : 0..MaxRestarts,
                   levels : 0..MaxLevels]

(***************************************************************************)
(* Stops                                                                   *)
(***************************************************************************)
Better(x, y) == IF x > y THEN x ELSE y
Size(x) == IF x < 0 THEN -x ELSE x

\* ladder_sl: 1R locks the entry, 2R one R, 3R two
Ladder(mark, risk) == CASE mark >= 3 * risk -> 2 * risk
                        [] 2 * risk <= mark /\ mark < 3 * risk -> risk
                        [] OTHER -> 0

\* the risk the multiples are taken in: the initial stop of the row, or the
\* current stop when the row cannot be read
Risk(p, missed) == IF missed = 0 THEN R ELSE Size(book[p].stop)

\* _atr_for on the grid of the model: a fraction of the same risk, rounded up
TrailBy(risk) == (risk * Trail + R - 1) \div R

\* (the ladder left out of the trailing stop)
NewStopUnladdered(mark, risk, proxy) == Better(0, mark - TrailBy(proxy))

\* breakeven, trailing and ladder, the best of the three
NewStop(mark, risk, proxy) ==
    Better(Better(0, mark - TrailBy(proxy)), Ladder(mark, risk))

Hits(p, mark) == mark <= book[p].stop \/ mark >= TakeProfit

\* (a stop put back where the current price wants it)
ImprovesAlways(p, stop) == stop # book[p].stop

Improves(p, stop) == stop > book[p].stop

\* a SELECT that fails answers with no rows
Missed == {n \in 0..1 : counts.faults + n <= MaxFaults}

(***************************************************************************)
(* Writes                                                                  *)
(***************************************************************************)
Shut(f, p) == Restrict(f, DOMAIN f \ {p})
Fail(n) == /\ counts.faults + n <= MaxFaults
           /\ counts' = [counts EXCEPT !.faults = @ + n]

\* an UPDATE of the row of p: written, or lost with a line in the log; n
\* SELECTs failed on the way
Writes(p, row, n) ==
    \/ Fail(n) /\ rows' = [rows EXCEPT ![p] = row] /\ UNCHANGED lost
    \/ Fail(n + 1) /\ lost' = lost \cup {p} /\ UNCHANGED rows

\* a whole close: broker, close_trade_rows, log_event and notify
CloseBy(p, reason, n) ==
    /\ book' = Shut(book, p)
    /\ Writes(p, [rows[p] EXCEPT !.reason = reason], n)
    /\ UNCHANGED <<shut, peak, slices>>

\* (the flag of TP1 left out of the patch)
SliceUnflagged(p, n) ==
    /\ slices' = [slices EXCEPT ![p] = @ + 1]
    /\ Writes(p, rows[p], n)

\* a slice: one patch carries the flag with the volume and the profit
Slice(p, n) ==
    /\ slices' = [slices EXCEPT ![p] = @ + 1]
    /\ Writes(p, [rows[p] EXCEPT !.partial = TRUE], n)

(***************************************************************************)
(* The cycle                                                               *)
(***************************************************************************)
\* positions, settings, the clock and the kill switch are read once, then the
\* feeds are awaited
CycleStart ==
    /\ cycle.pc = "idle" /\ DOMAIN book # {}
    /\ \E kill \in BOOLEAN, managed \in Modes,
          unpriced \in {{}, DOMAIN book} :
          cycle' = [pc |-> "judge", at |-> {}, todo |-> DOMAIN book, blocked |-> shut,
                    kill |-> kill, managed |-> managed,
                    unpriced |-> unpriced, missed |-> 0]
    /\ UNCHANGED <<book, rows, shut, told, peak, slices, lost, counts>>

At(pc, p) == cycle.pc = pc /\ cycle.at = {p}
Goto(pc) == cycle' = [cycle EXCEPT !.pc = pc]
Done(p) == cycle' = [cycle EXCEPT !.pc = "judge", !.at = {}, !.todo = @ \ {p}]

\* the price of the live feed, or else the mark the book has
Marks(p) == [mark : Feed, live : {TRUE}]
            \cup {[mark |-> book[p].mark, live |-> book[p].live]}
Marked(p, m) == [book EXCEPT ![p].mark = m.mark, ![p].live = m.live]

\* closed by someone else since the positions were listed: the broker refuses
JudgeGone(p) ==
    /\ cycle.pc = "judge" /\ p \in cycle.todo \ DOMAIN book
    /\ Done(p)
    /\ UNCHANGED <<book, rows, shut, told, peak, slices, lost, counts>>

\* the emergency exit and the hard stop wait for the market
JudgeHeld(p) ==
    /\ cycle.pc = "judge" /\ p \in cycle.todo \cap DOMAIN book
    /\ cycle.blocked
    /\ \E m \in Marks(p) : book' = Marked(p, m)
    /\ Done(p)
    /\ UNCHANGED <<rows, shut, told, peak, slices, lost, counts>>

JudgeKill(p) ==
    /\ cycle.pc = "judge" /\ p \in cycle.todo \cap DOMAIN book
    /\ ~cycle.blocked /\ cycle.kill
    /\ CloseBy(p, "kill", 0)
    /\ told' = told \cup {p}
    /\ Done(p)

\* (a hard stop that does not wait for the market, as before 2026-09-19)
JudgeHitShut(p) ==
    /\ cycle.pc = "judge" /\ p \in cycle.todo \cap DOMAIN book
    /\ \E m \in Marks(p) :
          /\ Hits(p, m.mark) /\ CloseBy(p, "sl", 0)
          /\ Done(p) /\ told' = told \cup {p}

\* a stop hit without a conversion rate raises after the journal row: neither
\* the log nor the message is written, and the rest of the cycle is dropped
JudgeHit(p) ==
    /\ cycle.pc = "judge" /\ p \in cycle.todo \cap DOMAIN book
    /\ ~cycle.blocked /\ ~cycle.kill
    /\ \E m \in Marks(p) :
          LET sl == m.mark <= book[p].stop IN
          /\ Hits(p, m.mark)
          /\ CloseBy(p, IF sl THEN "sl" ELSE "tp", 0)
          /\ IF sl /\ p \in cycle.unpriced
             THEN cycle' = Idle /\ UNCHANGED told
             ELSE Done(p) /\ told' = told \cup {p}

\* r_multiple >= trigger, for a risk that is not zero
Earns(mark, risk) == risk > 0 /\ mark * R >= Trigger * risk

\* no hit: TP1, once per position; a slice that is the whole closes it
JudgeOn(p) ==
    /\ cycle.pc = "judge" /\ p \in cycle.todo \cap DOMAIN book
    /\ ~cycle.blocked /\ ~cycle.kill
    /\ \E m \in Marks(p), n \in IF cycle.managed THEN Missed ELSE {0} :
          LET due == /\ cycle.managed /\ ~book[p].partial
                     /\ Earns(m.mark, Risk(p, n))
          IN  /\ ~Hits(p, m.mark)
              /\ \/ /\ due /\ p \notin Big
                    /\ CloseBy(p, "tp", n) /\ told' = told \cup {p}
                 \/ /\ due /\ p \in Big
                    /\ book' = [Marked(p, m) EXCEPT ![p].partial = TRUE]
                    /\ Slice(p, n)
                    /\ UNCHANGED <<shut, told, peak>>
                 \/ /\ ~due /\ Fail(n)
                    /\ book' = Marked(p, m)
                    /\ UNCHANGED <<rows, shut, told, peak, slices, lost>>
              /\ cycle' = [cycle EXCEPT
                    !.pc = IF cycle.managed THEN "trail" ELSE @,
                    !.at = IF cycle.managed THEN {p} ELSE @,
                    !.todo = @ \ {p}, !.missed = n]

\* breakeven and trailing, after the message of TP1; the ATR proxy reads the
\* row again
TrailStop(p) ==
    /\ At("trail", p)
    /\ Goto("smart")
    /\ IF p \notin DOMAIN book \/ ~Earns(book[p].mark, Risk(p, cycle.missed))
       THEN UNCHANGED <<book, rows, lost, counts, peak>>
       ELSE \E n \in Missed :
            LET mark == book[p].mark
                stop == NewStop(mark, Risk(p, cycle.missed), Risk(p, n))
            IN  /\ peak' = IF cycle.missed = 0
                           THEN [peak EXCEPT ![p] = Better(@, mark)]
                           ELSE peak
                /\ IF Improves(p, stop)
                   THEN /\ book' = [book EXCEPT ![p].stop = stop]
                        /\ Writes(p, [rows[p] EXCEPT !.stop = stop], n)
                   ELSE Fail(n) /\ UNCHANGED <<book, rows, lost>>
    /\ UNCHANGED <<shut, told, slices>>

\* _apply_smart_exit, its verdict being an input; whole closes skip the rest
SmartExit(p) ==
    /\ At("smart", p)
    /\ \/ /\ p \in DOMAIN book
          /\ CloseBy(p, "smart", 0) /\ told' = told \cup {p}
          /\ Done(p)
       \/ /\ p \in DOMAIN book /\ ~book[p].partial /\ p \in Big
          /\ book' = [book EXCEPT ![p].partial = TRUE]
          /\ Slice(p, 0)
          /\ Goto("time")
          /\ UNCHANGED <<shut, told, peak>>
       \/ /\ Goto("time")
          /\ UNCHANGED <<book, rows, shut, told, peak, slices, lost, counts>>

\* an old position is closed unless it earns enough or its stop locks a
\* quarter of R; a row that cannot be read locks nothing
TimeStop(p) ==
    /\ At("time", p)
    /\ \/ /\ p \in DOMAIN book /\ cycle.managed
          /\ book[p].mark < R
          /\ \E n \in Missed : /\ n = 1 \/ 4 * book[p].stop < R
                              /\ CloseBy(p, "time", n)
          /\ told' = told \cup {p}
       \/ UNCHANGED <<book, rows, shut, told, peak, slices, lost, counts>>
    /\ Done(p)

CycleEnd ==
    /\ cycle.pc = "judge" /\ cycle.todo = {}
    /\ cycle' = Idle
    /\ UNCHANGED <<book, rows, shut, told, peak, slices, lost, counts>>

(***************************************************************************)
(* The owner, the clock and a restart                                      *)
(***************************************************************************)
\* POST /positions/levels: book first, then the row
SetLevel(p) ==
    /\ p \in DOMAIN book \cap Open /\ counts.levels < MaxLevels
    /\ \E stop \in Levels, fails \in 0..1 :
          /\ counts.faults + fails <= MaxFaults
          /\ book' = [book EXCEPT ![p].stop = stop]
          /\ rows' = IF fails = 1 THEN rows
                     ELSE [rows EXCEPT ![p].stop = stop]
          /\ lost' = IF fails = 1 THEN lost \cup {p} ELSE lost
          /\ counts' = [counts EXCEPT !.levels = @ + 1, !.faults = @ + fails]
    /\ peak' = [peak EXCEPT ![p] = 0]
    /\ UNCHANGED <<cycle, shut, told, slices>>

\* POST /positions/close; the ticket is looked up in the journal
OwnerClose(p) ==
    /\ p \in DOMAIN book \cap Open
    /\ CloseBy(p, "owner", 0)
    /\ told' = told \cup {p}
    /\ UNCHANGED cycle

MarketTurns ==
    /\ shut' = ~shut
    /\ UNCHANGED <<book, rows, cycle, told, peak, slices, lost, counts>>

\* (the stop column left out of the restored position)
RestoredStopless == [p \in Open |-> [mark |-> 0, live |-> FALSE,
                                     partial |-> rows[p].partial]]

\* (the flag of TP1 not carried over, as before migration 047)
RestoredUnflagged == [p \in Open |-> [mark |-> 0, stop |-> rows[p].stop,
                                      partial |-> FALSE, live |-> FALSE]]

\* the book as rehydrate_book finds it in the rows, marks at the entry
Restored == [p \in Open |-> [mark |-> 0, stop |-> rows[p].stop,
                             partial |-> rows[p].partial, live |-> FALSE]]

Restart ==
    /\ counts.restarts < MaxRestarts
    /\ counts' = [counts EXCEPT !.restarts = @ + 1]
    /\ book' = Restored
    /\ cycle' = Idle
    /\ UNCHANGED <<rows, shut, told, peak, slices, lost>>

Init ==
    /\ book = [p \in Positions |-> [mark |-> 0, stop |-> -R,
                                    partial |-> FALSE, live |-> FALSE]]
    /\ rows = [p \in Positions |-> [stop |-> -R, partial |-> FALSE,
                                    reason |-> "none"]]
    /\ cycle = Idle /\ shut = FALSE
    /\ told = {} /\ lost = {}
    /\ peak = [p \in Positions |-> 0] /\ slices = [p \in Positions |-> 0]
    /\ counts = [faults |-> 0, restarts |-> 0, levels |-> 0]

Guard(p) == \/ JudgeGone(p) \/ JudgeHeld(p) \/ JudgeKill(p) \/ JudgeHit(p)
            \/ JudgeOn(p) \/ TrailStop(p) \/ SmartExit(p) \/ TimeStop(p)
Next ==
    \/ CycleStart \/ CycleEnd \/ MarketTurns \/ Restart
    \/ \E p \in Positions : Guard(p) \/ SetLevel(p) \/ OwnerClose(p)

Spec == Init /\ [][Next]_vars

(***************************************************************************)
(* Properties                                                              *)
(***************************************************************************)
\* A stop the guard moves gets tighter, and stays on the losing side of the
\* price that moved it: neither the ladder nor a risk taken from the current
\* stop may put it where the position is stopped out at once.  (A call that
\* fails in the very step is excused: the proxy of the ATR may then be nothing.)
StopTightens ==
    [][\A p \in DOMAIN book \cap DOMAIN book' :
          cycle' # cycle /\ counts'.restarts = counts.restarts
          /\ book'[p].stop # book[p].stop
             => /\ book'[p].stop > book[p].stop
                /\ \/ book'[p].stop < book'[p].mark
                   \/ counts'.faults > counts.faults]_vars

\* Once the guard has managed a position at a profit, its stop holds the rung
\* of that profit whatever the price does later, across cycles, partial closes
\* and restarts, until the owner sets another or an UPDATE is lost.
LadderKept ==
    \A p \in DOMAIN book \ lost :
        peak[p] >= Trigger => book[p].stop >= Ladder(peak[p], R)

\* What a restart would find in the rows is what the book holds: stop, flag of
\* TP1 and that the position is open.
RestartSafe ==
    \A p \in DOMAIN book \ lost :
        /\ p \in Open
        /\ rows[p].stop = book[p].stop /\ rows[p].partial = book[p].partial

\* TP1 and the smart exit together take one slice of a position in its life,
\* restarts included, unless an UPDATE is lost.
OneSlice == \A p \in Positions \ lost : slices[p] <= 1

\* Nothing a cycle does that began with the market closed closes, slices or
\* moves a position: each of the five exits waits for the next open cycle.
HeldWhileShut ==
    [][cycle.blocked /\ cycle' # cycle /\ counts'.restarts = counts.restarts
          => /\ rows' = rows
             /\ \A p \in DOMAIN book :
                   /\ p \in DOMAIN book'
                   /\ book'[p].stop = book[p].stop]_vars
=============================================================================
