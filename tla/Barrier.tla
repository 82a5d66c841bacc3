------------------------------ MODULE Barrier ------------------------------
(***************************************************************************)
(* Triple-barrier labels: engine/triple_barrier.py over the replay of      *)
(* engine/strategy_replay.py.  The history of one asset grows a bar a day; *)
(* in every state the study of that history is what a run started then     *)
(* computes: the events of the replay, and their outcome in every cell of  *)
(* the grid.                                                               *)
(*                                                                         *)
(* Prices are integers.  An R multiple is kept as the price distance won   *)
(* (the stop width times R), so that no division is needed within a cell.  *)
(* What the signal generator says of a bar is an input.                    *)
(***************************************************************************)
EXTENDS Integers, Sequences, FiniteSets, SequencesExt

CONSTANTS
    Bars,     \* bars a day may print: open, high, low, close
    Cells,    \* the grid: stop width, target width, clock (max_bars)
    Warmup,   \* bars the indicators need
    Cooldown, \* cooldown_bars
    MaxBars   \* bound: length of the history

VARIABLES
    history, \* the bars of the asset, oldest first
    said     \* what the generator says at each bar: "none", "BUY" or "SELL"

vars == <<history, said>>

Sides == {"BUY", "SELL"}
Labels == {"sl", "tp", "expired", "pending"}
Sign(side) == IF side = "SELL" THEN -1 ELSE 1
Lowest(S) == CHOOSE i \in S : \A j \in S : i <= j
Highest(S) == CHOOSE i \in S : \A j \in S : j <= i

(***************************************************************************)
(* label_event                                                             *)
(***************************************************************************)
Stop(side, entry, cell) == entry - Sign(side) * cell.sl
Target(side, entry, cell) == entry + Sign(side) * cell.tp

Outcome(label, won, exit, ambiguous, gap) ==
    [label |-> label, won |-> won, exit |-> exit, ambiguous |-> ambiguous, gap |-> gap]
Open == Outcome("open", 0, 0, FALSE, FALSE)

\* (the target looked at before the stop)
DecidedHopeful(side, entry, cell, bar) ==
    LET target == Target(side, entry, cell)
        hitTarget == IF side = "BUY" THEN bar.h >= target ELSE bar.l <= target
        hitStop == IF side = "BUY" THEN bar.l <= Stop(side, entry, cell)
                                   ELSE bar.h >= Stop(side, entry, cell)
    IN  CASE hitTarget -> Outcome("tp", cell.tp, target, FALSE, FALSE)
          [] hitStop /\ ~hitTarget ->
                Outcome("sl", -cell.sl, Stop(side, entry, cell), FALSE, FALSE)
          [] OTHER -> Open

\* (the low for the stop of a short too)
DecidedOneSided(side, entry, cell, bar) ==
    LET stop == Stop(side, entry, cell)
        target == Target(side, entry, cell)
        hitTarget == IF side = "BUY" THEN bar.h >= target ELSE bar.l <= target
    IN  CASE bar.l <= stop -> Outcome("sl", -cell.sl, stop, FALSE, FALSE)
          [] hitTarget /\ bar.l > stop -> Outcome("tp", cell.tp, target, FALSE, FALSE)
          [] OTHER -> Open

\* What one bar decides: a gap first, filled at the open; then a bar that
\* touches both barriers, resolved against the trade
Decided(side, entry, cell, bar) ==
    LET stop == Stop(side, entry, cell)
        target == Target(side, entry, cell)
        gapStop == IF side = "BUY" THEN bar.o <= stop ELSE bar.o >= stop
        gapTarget == IF side = "BUY" THEN bar.o >= target ELSE bar.o <= target
        hitStop == IF side = "BUY" THEN bar.l <= stop ELSE bar.h >= stop
        hitTarget == IF side = "BUY" THEN bar.h >= target ELSE bar.l <= target
        loss == IF side = "BUY" THEN bar.o - entry ELSE entry - bar.o
    IN  CASE gapStop -> Outcome("sl", loss, bar.o, FALSE, TRUE)
          [] gapTarget /\ ~gapStop -> Outcome("tp", cell.tp, bar.o, FALSE, TRUE)
          [] hitStop /\ ~gapStop /\ ~gapTarget ->
                Outcome("sl", -cell.sl, stop, hitTarget, FALSE)
          [] hitTarget /\ ~hitStop /\ ~gapStop /\ ~gapTarget ->
                Outcome("tp", cell.tp, target, FALSE, FALSE)
          [] OTHER -> Open

\* the excursions: the high for the best and the low for the worst, whatever
\* the side
Best(side, entry, bars) ==
    Highest({0} \cup {Sign(side) * (bars[i].h - entry) : i \in DOMAIN bars})
Worst(side, entry, bars) ==
    Lowest({0} \cup {Sign(side) * (bars[i].l - entry) : i \in DOMAIN bars})

\* (the last bar that decides)
LabelLast(side, entry, cell, future) ==
    LET bars == SubSeq(future, 1, IF cell.clock < Len(future) THEN cell.clock
                                                             ELSE Len(future))
        hits == {i \in DOMAIN bars : Decided(side, entry, cell, bars[i]).label # "open"}
    IN  [out |-> IF hits = {} THEN Outcome("pending", 0, entry, FALSE, FALSE)
                 ELSE Decided(side, entry, cell, bars[Highest(hits)]),
         held |-> IF hits = {} THEN 0 ELSE Highest(hits), mfe |-> 0, mae |-> 0]

\* the bars strictly after the entry, up to the clock; a history that ends
\* before the clock closes the trade at its last bar
Label(side, entry, cell, future) ==
    LET bars == SubSeq(future, 1, IF cell.clock < Len(future) THEN cell.clock
                                                             ELSE Len(future))
        hits == {i \in DOMAIN bars : Decided(side, entry, cell, bars[i]).label # "open"}
        held == IF hits = {} THEN Len(bars) ELSE Lowest(hits)
        walked == SubSeq(bars, 1, held)
        out == IF bars = <<>> THEN Outcome("pending", 0, entry, FALSE, FALSE)
               ELSE IF hits = {}
               THEN Outcome("expired", Sign(side) * (Last(bars).c - entry),
                            Last(bars).c, FALSE, FALSE)
               ELSE Decided(side, entry, cell, bars[held])
    IN  [out |-> out, held |-> held, mfe |-> Best(side, entry, walked),
         mae |-> Worst(side, entry, walked)]

(***************************************************************************)
(* replay_asset                                                            *)
(***************************************************************************)
\* (the first bar after an event is free again one bar early)
CoolEarly(i, last) == last > 0 /\ i - last < Cooldown - 1
Cool(i, last) == last > 0 /\ Cooldown > 0 /\ i - last < Cooldown

\* last_idx after each bar: warmed up, said something, not cooling down
LastEvent[i \in 0..MaxBars] ==
    IF i < Warmup THEN 0
    ELSE LET last == LastEvent[i - 1]
         IN  IF said[i] # "none" /\ ~Cool(i, last) THEN i ELSE last

Emitted == {i \in Warmup..Len(history) : LastEvent[i] = i}

\* (entered at the last price known)
EventLate(i) == [at |-> i, side |-> said[i], entry |-> Last(history).c,
                 future |-> SubSeq(history, i + 1, Len(history))]
Event(i) == [at |-> i, side |-> said[i], entry |-> history[i].c,
             future |-> SubSeq(history, i + 1, Len(history))]
Events == {Event(i) : i \in Emitted}

\* label_grid: one outcome per cell, keyed by the cell's coordinates
Grid(e) == [cell \in Cells |-> Label(e.side, e.entry, cell, e.future)]
Study == [i \in Emitted |-> Grid(Event(i))]

(***************************************************************************)
(* Specification                                                           *)
(***************************************************************************)
Init == history = <<>> /\ said = <<>>

\* a day ends: its bar, and what the generator says of the window up to it
BarPrints(bar, says) ==
    /\ Len(history) < MaxBars
    /\ Len(history) + 1 < Warmup => says = "none"
    /\ history' = Append(history, bar)
    /\ said' = Append(said, says)

Next == \E bar \in Bars, says \in Sides \cup {"none"} : BarPrints(bar, says)

Spec == Init /\ [][Next]_vars

(***************************************************************************)
(* Properties                                                              *)
(***************************************************************************)
TypeOK ==
    /\ Len(history) = Len(said) /\ Range(history) \subseteq Bars
    /\ LET study == Study
       IN  \A k \in DOMAIN study : \A cell \in Cells :
              LET o == study[k][cell]
              IN  /\ o.out.label \in Labels /\ o.held \in 0..cell.clock
                  /\ o.out.ambiguous => o.out.label = "sl"
                  /\ o.mae <= 0 /\ o.mfe >= 0

\* No lookahead: a study of a longer history keeps every event of the shorter
\* one, with its entry, and every label a price barrier had decided.
NoLookahead ==
    [][/\ Emitted \subseteq Emitted'
       /\ LET was == Study
              now == Study'
          IN  \A k \in DOMAIN was : \A cell \in Cells :
                 was[k][cell].out.label \in {"sl", "tp"}
                    => now[k][cell] = was[k][cell]]_vars

Mirrored(bar, axis) == [o |-> 2 * axis - bar.o, h |-> 2 * axis - bar.l,
                        l |-> 2 * axis - bar.h, c |-> 2 * axis - bar.c]

\* "test_sell_is_mirrored": selling the mirror image of a history is buying
\* the history: same label, same R, same bar.
SellMirrorsBuy ==
    \A e \in Events :
        LET mirror == [i \in DOMAIN e.future |-> Mirrored(e.future[i], e.entry)]
        IN  \A cell \in Cells :
               LET a == Label("BUY", e.entry, cell, e.future)
                   b == Label("SELL", e.entry, cell, mirror)
               IN  a.out.label = b.out.label /\ a.out.won = b.out.won /\ a.held = b.held

\* A stop costs one R, or more when the bar opened beyond it; a target pays
\* its width and no more; a bar that touched both is never a win.
NeverFlattered ==
    \A e \in Events : \A cell \in Cells :
        LET o == Label(e.side, e.entry, cell, e.future)
            bar == e.future[o.held]
        IN  /\ o.out.label = "sl" => /\ o.out.won <= -cell.sl
                                     /\ o.out.won < -cell.sl => o.out.gap
                                     /\ o.out.exit \in bar.l..bar.h
            /\ o.out.label = "tp" =>
                  /\ o.out.won = cell.tp
                  /\ \/ IF e.side = "BUY" THEN bar.l > e.entry - cell.sl
                                          ELSE bar.h < e.entry + cell.sl
                     \/ o.out.gap

\* Along the grid: a longer clock keeps what a shorter one decided, and a
\* target that was reached was reached no later by any nearer one.
GridCoherent ==
    LET study == Study
    IN  \A k \in DOMAIN study : \A a, b \in Cells :
            LET x == study[k][a]
                y == study[k][b]
            IN  /\ a.sl = b.sl /\ a.tp = b.tp /\ a.clock <= b.clock
                      /\ x.out.label \in {"sl", "tp"} => x = y
                /\ a.sl = b.sl /\ a.clock = b.clock /\ a.tp <= b.tp /\ y.out.label = "tp"
                      => x.out.label = "tp" /\ x.held <= y.held

\* Cooling down thins one setup, it never loses one: every bar that said
\* something is an event or lies within the cooldown of one, and no two events
\* are closer than it.
CooldownThins ==
    LET emitted == Emitted
    IN  /\ \A i, j \in emitted : i < j => j - i >= Cooldown
        /\ \A i \in Warmup..Len(history) :
              said[i] # "none"
                 => \E j \in emitted : j <= i /\ (i = j \/ i - j < Cooldown)
=============================================================================
