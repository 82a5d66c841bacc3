------------------------------ MODULE Verdict ------------------------------
(***************************************************************************)
(* What a simulation concludes: _analyse, _score, _score_production and    *)
(* _recommend_next of services/simulation.py over the cells that           *)
(* triple_barrier.summarise_cell aggregates, and the next run the owner    *)
(* starts from the proposal.                                               *)
(*                                                                         *)
(* Events come in the order of their bar_index.  An event is one of a few  *)
(* kinds: its asset, its scores and its best excursion, and what it won in *)
(* each cell; all in tenths of R.  A mean is a sum times Scale over a      *)
(* count, as the code keeps four decimals of it.                           *)
(***************************************************************************)
EXTENDS Integers, Sequences, FiniteSets, Functions, FiniteSetsExt

CONSTANTS
    Kinds,     \* kinds of events
    Won(_, _), \* what an event won in a cell, or Pending when nothing labelled it
    Config,    \* the grid and the gate ladder of the first run
    RefCells,  \* the cells that judge a gate, at the longest clock
    Baseline,  \* production: its cell and gate, and whether it was readable
    Cost,      \* cost_r
    Scale,     \* of a mean
    MinTrain, MinTest, \* "enough"
    GateMin,   \* sample a gate needs
    CellMin,   \* sample a cell needs
    Margin,    \* over production, for a live suggestion
    MaxEvents, \* bound
    MaxRounds  \* bound: runs started from a proposal

VARIABLES
    cfg,     \* the configuration of the run
    events,  \* its labelled events
    verdict, \* of the run, once analysed
    rounds

vars == <<cfg, events, verdict, rounds>>

Pending == -1000
NoVerdict == [at |-> "none"]
NoCell == [sl |-> 0, tp |-> 0, mb |-> 0]
Cell(sl, tp, mb) == [sl |-> sl, tp |-> tp, mb |-> mb]
BarrierGrid(c) == {Cell(sl, tp, mb) : sl \in c.sls, tp \in c.tps, mb \in c.mbs}

(***************************************************************************)
(* Samples: sets of indices of the events es                               *)
(***************************************************************************)
\* the events of a run, in the order of their bar
Drawn(c, es) == {i \in DOMAIN es : es[i].asset \in c.assets}

\* the first 70% of a sample, and the rest
Train(S) == {i \in S : Cardinality({j \in S : j <= i}) * 10 <= Cardinality(S) * 7}
Test(S) == S \ Train(S)
Enough(S) == Cardinality(Train(S)) >= MinTrain /\ Cardinality(Test(S)) >= MinTest

\* (chosen on every event)
SelectedOnAll(S) == S

\* selected_on: the events a choice may look at
SelectedOn(S) == Train(S)

\* _gate_pass
Gated(es, S, gate) == {i \in S : es[i].opp >= gate.opp /\ es[i].conf >= gate.conf}
Net(won) ==
    LET n == Cardinality(DOMAIN won)
    IN  IF n = 0 THEN 0 ELSE (SumFunction(won) * Scale) \div n - Cost * Scale

\* _score: an event that nothing labelled counts, as one that won nothing
Score(es, S, cell) ==
    Net([i \in S |-> IF Won(es[i], cell) = Pending THEN 0 ELSE Won(es[i], cell)])

\* summarise_cell, net of cost: labelled events only
Labelled(es, S, cell) == {i \in S : Won(es[i], cell) # Pending}
Summary(es, S, cell) ==
    [n |-> Cardinality(Labelled(es, S, cell)),
     mean |-> Net([i \in Labelled(es, S, cell) |-> Won(es[i], cell)])]

(***************************************************************************)
(* _analyse: the gate, then the cell, each chosen on the first 70%         *)
(***************************************************************************)
\* over the reference cells, at the clock listed last; 0 for a small sample
GateMean(c, es, S, gate) ==
    LET kept == Gated(es, S, gate)
    IN  IF Cardinality(kept) < GateMin THEN 0
        ELSE SumFunction([p \in RefCells |-> Score(es, kept, Cell(p.sl, p.tp, Max(c.mbs)))])

Gates(c) == [opp : c.opps, conf : c.confs]
Before(a, b) == a.opp < b.opp \/ (a.opp = b.opp /\ a.conf < b.conf)
Open == [opp |-> 0, conf |-> 0]

\* gate_rows: the rungs of the ladder with a sample
GateRows(c, es, S) == {g \in Gates(c) : Cardinality(Gated(es, S, g)) >= GateMin}

\* the first of the best
FirstGate(mean) ==
    CHOOSE g \in DOMAIN mean : \A h \in DOMAIN mean \ {g} :
        mean[g] > mean[h] \/ (mean[g] = mean[h] /\ Before(g, h))
BestGate(c, es, S) ==
    LET rows == GateRows(c, es, S)
    IN  IF rows = {} THEN Open ELSE FirstGate([g \in rows |-> GateMean(c, es, S, g)])

Listed(a, b) == \/ a.sl < b.sl
                \/ a.sl = b.sl /\ a.tp < b.tp
                \/ a.sl = b.sl /\ a.tp = b.tp /\ a.mb < b.mb

Beats(row, a, b) ==
    \/ row[a].mean > row[b].mean
    \/ /\ row[a].mean = row[b].mean
       /\ row[a].n > row[b].n \/ (row[a].n = row[b].n /\ Listed(a, b))
FirstCell(row) == CHOOSE a \in DOMAIN row : \A b \in DOMAIN row \ {a} : Beats(row, a, b)

\* the cells with a sample, and the one that pays best
Rows(c, es, S) == {cell \in BarrierGrid(c) : Summary(es, S, cell).n >= CellMin}
Winner(c, es, S) ==
    LET rows == Rows(c, es, S)
    IN  IF rows = {} THEN NoCell ELSE FirstCell([cell \in rows |-> Summary(es, S, cell)])

\* _score_production: at its own cell and gate
Production(es, S) == Summary(es, Gated(es, S, Baseline.gate), Baseline.cell)

\* per asset at the winning cell: those the train period sampled, and of them
\* the ones positive in both periods, with a real sample
OfAsset(es, S, gate, win, asset) ==
    Summary(es, {i \in Gated(es, S, gate) : es[i].asset = asset}, win)
PerAsset(es, S, gate, win) ==
    {a \in {es[i].asset : i \in S} : OfAsset(es, Train(S), gate, win, a).n > 0}
Strict(es, S, gate, win) ==
    {a \in PerAsset(es, S, gate, win) : /\ OfAsset(es, Train(S), gate, win, a).mean > 0
                                       /\ OfAsset(es, Test(S), gate, win, a).mean > 0
                                       /\ OfAsset(es, Test(S), gate, win, a).n >= CellMin}

(***************************************************************************)
(* _recommend_next                                                         *)
(***************************************************************************)
\* one step of the grid to each side
Neighbors(S, w) == {x \in S : ~\E y \in S : (x < y /\ y < w) \/ (w < y /\ y < x)}

\* _prune_tp_by_mfe: targets nothing reaches, never below three of them
Pruned(c, es, S) ==
    LET reached(r) == Cardinality({i \in S : es[i].mfe >= r}) * 10 >= Cardinality(S)
        cap == IF reached(15) THEN 20 ELSE IF reached(10) THEN 15 ELSE 10
        kept == {tp \in c.tps : tp <= cap}
    IN  IF Cardinality(c.tps) <= 3 \/ reached(20) \/ Cardinality(kept) < 3
        THEN c.tps ELSE kept

Zoomed(c, win) == [c EXCEPT !.sls = Neighbors(@, win.sl), !.tps = Neighbors(@, win.tp),
                            !.mbs = {win.mb}]

\* the configuration proposed for the next run; a gate that is no row of the
\* sweep has no test mean
Proposal(c, es, S, gate, win, holds) ==
    LET grid == IF holds THEN Zoomed(c, win) ELSE [c EXCEPT !.tps = Pruned(c, es, S)]
        fixed == IF gate \in GateRows(c, es, Train(S)) /\ GateMean(c, es, Test(S), gate) > 0
                 THEN [grid EXCEPT !.opps = {gate.opp}, !.confs = {gate.conf}]
                 ELSE grid
        strict == Strict(es, S, gate, win)
    IN  IF holds /\ strict # {} /\ strict # PerAsset(es, S, gate, win)
        THEN [fixed EXCEPT !.assets = strict] ELSE fixed

Short(c) == [at |-> "short", gate |-> Open, win |-> NoCell, holds |-> FALSE,
             live |-> FALSE, next |-> c]
Concluded(c, es, S, gate, win) ==
    LET test == IF win = NoCell THEN 0 ELSE Summary(es, Gated(es, Test(S), gate), win).mean
        holds == win # NoCell /\ test > 0
    IN  [at |-> "done", gate |-> gate, win |-> win, holds |-> holds,
         live |-> /\ holds /\ Baseline.readable
                  /\ test - Production(es, Test(S)).mean > Margin * Scale,
         next |-> IF win = NoCell THEN c ELSE Proposal(c, es, S, gate, win, holds)]

Analysis(c, es) ==
    LET drawn == Drawn(c, es)
        sample == SelectedOn(drawn)
        gate == BestGate(c, es, sample)
        win == Winner(c, es, Gated(es, sample, gate))
    IN  IF Enough(drawn) THEN Concluded(c, es, drawn, gate, win) ELSE Short(c)

(***************************************************************************)
(* Specification                                                           *)
(***************************************************************************)
Init == cfg = Config /\ events = <<>> /\ verdict = NoVerdict /\ rounds = 0

\* an event the run labelled
Sample(e) ==
    /\ verdict = NoVerdict /\ rounds = 0 /\ Len(events) < MaxEvents
    /\ e.asset \in cfg.assets
    /\ events' = Append(events, e)
    /\ UNCHANGED <<cfg, verdict, rounds>>

Analyse ==
    /\ verdict = NoVerdict
    /\ verdict' = Analysis(cfg, events)
    /\ UNCHANGED <<cfg, events, rounds>>

\* the same run had the test period been another
TestDiffers(i, e) ==
    /\ verdict.at = "done" /\ rounds = 0
    /\ i \in Test(Drawn(cfg, events)) /\ e # events[i] /\ e.asset \in cfg.assets
    /\ events' = [events EXCEPT ![i] = e]
    /\ verdict' = Analysis(cfg, events')
    /\ UNCHANGED <<cfg, rounds>>

\* the owner starts the next run with the values proposed: it draws its events
\* from the same history
RunNext ==
    /\ verdict.at = "done" /\ verdict.next # cfg /\ rounds < MaxRounds
    /\ cfg' = verdict.next /\ verdict' = NoVerdict /\ rounds' = rounds + 1
    /\ UNCHANGED events

Next ==
    \/ \E e \in Kinds : Sample(e)
    \/ Analyse
    \/ \E i \in 1..MaxEvents, e \in Kinds : TestDiffers(i, e)
    \/ RunNext

Spec == Init /\ [][Next]_vars

(***************************************************************************)
(* Properties                                                              *)
(***************************************************************************)
\* the same run, had the events of its test period been others
OnlyTestDiffers ==
    /\ cfg' = cfg /\ Drawn(cfg, events') = Drawn(cfg, events)
    /\ \A i \in Train(Drawn(cfg, events)) : events'[i] = events[i]
    /\ verdict.at = "done" /\ verdict'.at = "done"

\* "Every choice is made on the TRAIN period only, then scored once on TEST": the
\* gate and the cell of one run stay whatever its test period turns out to be.
\* (Between the rounds of a search the test period does choose: Study!BestRound.)
TrainPicks ==
    [][OnlyTestDiffers => verdict'.gate = verdict.gate /\ verdict'.win = verdict.win]_vars

\* the proposal of v fixes a gate
GateFixed(v) == Gates(v.next) # Gates(cfg)

\* What the test period has a say in, the proposal for the next run, it accepts or
\* turns down as the train period picked it: two test periods under which the cell
\* holds out zoom in on the same grid, and two that fix the gate fix the same one.
TestVetoes ==
    [][OnlyTestDiffers =>
          /\ verdict.holds /\ verdict'.holds
                => BarrierGrid(verdict'.next) = BarrierGrid(verdict.next)
          /\ GateFixed(verdict) /\ GateFixed(verdict')
                => Gates(verdict'.next) = Gates(verdict.next)]_vars

\* Accepting one proposal after the other narrows the search and never starves
\* it: a grid and a sample remain, the cell that held out is still in it, and a
\* run that found none keeps three targets of the more it had.
SearchNarrows ==
    [][cfg' # cfg =>
          /\ BarrierGrid(cfg') \subseteq BarrierGrid(cfg) /\ BarrierGrid(cfg') # {}
          /\ Gates(cfg') \subseteq Gates(cfg) /\ Gates(cfg') # {}
          /\ cfg'.assets \subseteq cfg.assets /\ Drawn(cfg', events') # {}
          /\ verdict.holds => verdict.win \in BarrierGrid(cfg')
          /\ ~verdict.holds => cfg'.tps = cfg.tps \/ Cardinality(cfg'.tps) >= 3]_vars
=============================================================================
