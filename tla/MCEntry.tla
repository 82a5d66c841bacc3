------------------------------ MODULE MCEntry ------------------------------
(***************************************************************************)
(* The way to an order, in three benches of which one runs: "gates" is     *)
(* EntryGates as MCEntryGates instantiates it, "cards" is Cards over one   *)
(* pair and gold, "setup" is Evidence.                                     *)
(*                                                                         *)
(* On the bench of Cards a buy at ADX 22 clears both thresholds, as does   *)
(* the short. The feed of the pair is down at first. A move up without a   *)
(* breakout keeps the trend of a card and loses its level; at ADX 15 the   *)
(* breakout stays and the trend is lost.                                   *)
(***************************************************************************)
EXTENDS MCEntryGates

CONSTANTS
    Benches,                 \* those of this run
    MinOpp, MinConf, Values, \* of Evidence, and with them of Cards:
    Scanners, Universe, Tradable, Snapshots, Openings, Level(_), Modes, Lo, Hi, MaxPerDay,
    BreakoutOnly, TTL, MaxCards, MaxClock, MaxScans, MaxMoves

VARIABLES bench,
    market, up, mode, clock, preloaded, scan, cards, cardOrders, cardAuto,
    cardDesk, cardTurns,
    ind

C == INSTANCE Cards WITH
        orders <- cardOrders, auto <- cardAuto, desk <- cardDesk, turns <- cardTurns
E == INSTANCE Evidence

ASSUME CardAssumption ==
    /\ Values.gap \subseteq Int /\ Values.adx \subseteq Nat /\ Values.st \subseteq Int
    /\ Values.rsi \subseteq Nat /\ Values.atr \subseteq Nat /\ Values.sent \subseteq Int
    /\ Values.brk \subseteq 0..2
    /\ Snapshots \subseteq C!SnapType /\ TTL \in Int /\ Lo \in Int /\ Hi \in Int
    /\ Universe \in Seq(C!Traded) /\ Universe # <<>>
    /\ \A a \in C!Traded : Level(a) \in Int
    /\ \A o \in Openings : o.market \in [C!Traded -> Snapshots]
                           /\ o.up \in [C!Traded -> BOOLEAN]

(***************************************************************************)
(* Values of this run                                                      *)
(***************************************************************************)
Gold == "XAUUSD"
Snap(gap, adx, st, brk) == [gap |-> gap, adx |-> adx, st |-> st, rsi |-> 50, atr |-> 100,
                            sent |-> IF gap > 0 THEN 5 ELSE 0, news |-> FALSE, brk |-> brk]
Bull == Snap(2, 22, 1, 1)
SomeSnapshots == {Bull, Snap(-2, 40, -1, 2), Snap(2, 15, 1, 1), Snap(2, 22, 1, 0)}
SomeOpenings == {[market |-> [a \in {"EURUSD", Gold} |-> Bull],
                  up |-> [a \in {"EURUSD", Gold} |-> a = Gold]]}
SomeAssets == <<"EURUSD", Gold>>
SomeLevel(a) == 30
SomeValues == [gap |-> {-2, -1, 0, 1, 2}, adx |-> {10, 22, 25}, st |-> {-1, 0, 1},
               rsi |-> {35, 42, 58}, atr |-> {100, 300}, sent |-> {0, 5}, brk |-> {0, 1}]

cardVars == <<market, up, mode, clock, preloaded, scan, cards, cardOrders, cardAuto,
              cardDesk, cardTurns>>
allVars == <<vars, cardVars, ind, bench>>

OneSnap == [f \in DOMAIN Values |-> CHOOSE v \in Values[f] : TRUE] @@ [news |-> FALSE]

EntryInit ==
    /\ bench \in Benches
    /\ Init /\ C!CardsInit
    /\ IF bench = "setup" THEN E!SetupInit ELSE ind = OneSnap
    /\ bench # "gates" => settings = CHOOSE s \in Plans : TRUE

EntryNext ==
    \/ bench = "gates" /\ Next /\ UNCHANGED <<cardVars, ind, bench>>
    \/ bench = "cards" /\ C!CardsNext /\ UNCHANGED <<vars, ind, bench>>
    \/ bench = "setup" /\ E!SetupNext /\ UNCHANGED <<vars, cardVars, bench>>

EntrySpec == EntryInit /\ [][EntryNext]_allVars

(***************************************************************************)
(* Properties                                                              *)
(***************************************************************************)
\* An order the platform sizes loses no more than its budget, the rounding of its
\* lot and half a spread, in the worth it was sized with, and no stop lies inside
\* the spread floor: EntryGates!WithinBudget and OutsideSpread.
OrdersBounded == bench = "gates" => WithinBudget /\ OutsideSpread

\* EntryGates!CardHonest: the card and the order come to the same verdict.
CardAgrees == bench = "gates" => CardHonest

\* A cycle keeps its quotas on one read of the journal, for its own orders even
\* when it fails, and after a stop to trading at most the order past its gates
\* still comes: EntryGates!QuotaInCycle and StopsAtOnce.
CycleBounded == QuotaInCycle /\ StopsAtOnce

\* A card is born alive, waits with no twin but a blind one, and fires on the
\* thesis it was born of: Cards!BornAlive, TwinsOnlyBlind and FiredOnItsThesis.
CardsSound == bench = "cards" => C!BornAlive /\ C!TwinsOnlyBlind /\ C!FiredOnItsThesis

\* A short is graded as the mirror image of a long, by the trend alone where the
\* second confirmation is concerned: Evidence!Symmetric and CorroborationIsTrend.
GradedAlike == bench = "setup" => E!Symmetric /\ E!CorroborationIsTrend

\* Evidence!MoreIsMore: more evidence for a side never makes it worth less.
MoreIsMore == E!MoreIsMore
=============================================================================
