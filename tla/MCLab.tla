------------------------------- MODULE MCLab -------------------------------
(***************************************************************************)
(* A simulation, on three benches of which one runs: "study" is the job    *)
(* and its history as MCStudy instantiates them, "labels" is Barrier on a  *)
(* grid of three cells, "verdict" is Verdict over samples of four events.  *)
(*                                                                         *)
(* Barrier enters at 3 with prices on, between and beyond both barriers,   *)
(* opened on either side of them.  The events of Verdict ran or dipped so  *)
(* far, in tenths of an ATR, and one has no bar after it; some pass no     *)
(* gate of the ladder, and nothing passes one of its rungs.                *)
(***************************************************************************)
EXTENDS MCStudy

CONSTANTS
    Benches,                                  \* those of this run
    Bars, Cells, Warmup, Cooldown, MaxBars,   \* of Barrier
    Kinds, Won(_, _), Config, RefCells, Baseline, Cost, Scale, MinTrain, MinTest, GateMin,
    CellMin, Margin, MaxSamples, MaxRounds    \* of Verdict

VARIABLES bench, bars, said, cfg, samples, verdict, rounds

B == INSTANCE Barrier WITH history <- bars
V == INSTANCE Verdict WITH MaxEvents <- MaxSamples, events <- samples

ASSUME LabelAssumption ==
    /\ \A b \in Bars : /\ b \in [o : Int, h : Int, l : Int, c : Int]
                       /\ b.l <= b.o /\ b.o <= b.h
    /\ Cells \subseteq [sl : Nat \ {0}, tp : Nat \ {0}, clock : Nat]
    /\ Warmup \in Nat \ {0} /\ Cooldown \in Nat /\ MaxBars \in Nat

ASSUME VerdictAssumption ==
    /\ \A T \in {Config.sls, Config.tps, Config.mbs} : T \subseteq Nat /\ T # {} /\ IsFiniteSet(T)
    /\ Config.opps # {} /\ Config.confs # {}
    /\ Config = [sls |-> Config.sls, tps |-> Config.tps, mbs |-> Config.mbs,
                 opps |-> Config.opps, confs |-> Config.confs, assets |-> Config.assets]
    /\ \A e \in Kinds, cell \in V!BarrierGrid(Config) : Won(e, cell) \in Int
    /\ Cost \in Nat /\ Scale \in Nat /\ MinTrain \in Nat \ {0}

(***************************************************************************)
(* Values of this run                                                      *)
(***************************************************************************)
Price(o, h, l, c) == [o |-> o, h |-> h, l |-> l, c |-> c]
SomeBars == {Price(3, 3, 3, 3), Price(3, 4, 2, 3), Price(3, 3, 2, 2), Price(1, 3, 1, 3),
             Price(5, 5, 3, 3), Price(3, 5, 3, 4), Price(3, 3, 1, 3), Price(2, 4, 2, 3)}
SomeCells == {[sl |-> 1, tp |-> 1, clock |-> 1], [sl |-> 1, tp |-> 1, clock |-> 2],
              [sl |-> 1, tp |-> 2, clock |-> 2]}
NoBar == -1000
Ran(asset, opp, conf, reach, dip) ==
    [asset |-> asset, opp |-> opp, conf |-> conf, mfe |-> reach, dip |-> dip]
SomeWon(e, c) == IF e.dip = 99 THEN NoBar
                 ELSE IF e.dip >= 10 * c.sl THEN -10
                 ELSE IF e.mfe >= c.sl * c.tp THEN c.tp ELSE e.mfe - e.dip
SomeKinds == {Ran("eur", 1, 1, 20, 0), Ran("eur", 0, 1, 3, 10), Ran("gbp", 1, 0, 10, 0),
              Ran("gbp", 0, 0, 20, 10), Ran("gbp", 1, 1, 7, 20), Ran("eur", 1, 1, 0, 99)}
SomeConfig == [sls |-> {1, 2}, tps |-> {5, 10, 15, 20}, mbs |-> {5, 10},
               opps |-> {1, 2}, confs |-> {0, 1}, assets |-> {"eur", "gbp"}]
SomeRefs == [sl : {1, 2}, tp : {10, 15}]
SomeBaseline == [cell |-> [sl |-> 1, tp |-> 15, mb |-> 10], gate |-> [opp |-> 1, conf |-> 0],
                 readable |-> TRUE]

barrierVars == <<bars, said>>
verdictVars == <<cfg, samples, verdict, rounds>>

LabInit ==
    /\ bench \in Benches
    /\ Init /\ B!Init /\ V!Init
    /\ bench # "study" => /\ awake = CHOOSE s \in Scenes : "feed" \in s
                          /\ feed[1] = 0

LabNext ==
    \/ bench = "study" /\ Next /\ UNCHANGED <<barrierVars, verdictVars, bench>>
    \/ bench = "labels" /\ B!Next /\ UNCHANGED <<vars, verdictVars, bench>>
    \/ bench = "verdict" /\ V!Next /\ UNCHANGED <<vars, barrierVars, bench>>

\* the worker thread runs
LabSpec ==
    /\ LabInit /\ [][LabNext]_<<vars, barrierVars, verdictVars, bench>>
    /\ WF_vars(bench = "study" /\ JobStep) /\ WF_vars(bench = "study" /\ Boot)

(***************************************************************************)
(* Properties                                                              *)
(***************************************************************************)
\* The row of a run tells whether it lives, a cancel is honoured by every look that
\* comes after it, and the verdict is of the best round on the test period:
\* Study!RowTellsTruth, CancelHonoured and BestRound.
RunsHonest == RowTellsTruth /\ CancelHonoured /\ BestRound

\* Barrier!NoLookahead: a longer history changes no event and no label that a
\* price decided.
NoLookahead == B!NoLookahead

\* Selling the mirror image is buying, an ambiguous bar costs what it may cost,
\* a longer clock and a nearer target agree with the rest, a cooldown loses no
\* setup: Barrier!SellMirrorsBuy, NeverFlattered, GridCoherent, CooldownThins.
LabelsSound ==
    bench = "labels" =>
        B!SellMirrorsBuy /\ B!NeverFlattered /\ B!GridCoherent /\ B!CooldownThins

\* Within one run the train period picks the gate and the cell, the test period only
\* accepts or turns down what is proposed around them, and accepting proposals never
\* starves the search: Verdict!TrainPicks, TestVetoes and SearchNarrows.  Which round
\* of a search is kept is chosen by test means, and no part of this.
RoundsFair == V!TrainPicks /\ V!TestVetoes /\ V!SearchNarrows
=============================================================================
