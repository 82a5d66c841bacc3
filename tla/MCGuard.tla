------------------------------ MODULE MCGuard ------------------------------
(***************************************************************************)
(* The position guard and what it watches with, on four benches of which   *)
(* one runs: "cycle" is GuardCycle with a price on each side of every      *)
(* rung, "exit" is SmartExit, "spot" is Quotes, "candles" is Snapshots.    *)
(*                                                                         *)
(* SmartExit runs under the defaults of the settings and under a patient   *)
(* owner.  Quotes has one asset with a key and one without, a trusting     *)
(* caller and one that is not; Snapshots a batch longer than its slots.    *)
(***************************************************************************)
EXTENDS GuardCycle, FiniteSets

CONSTANTS
    Benches,  \* those of this run
    Markets, Entries, Policies, MaxDays, AvgHold, HalvesUp,    \* of SmartExit
    Callers, Assets, Trusting, Wants, Mapped, Keys,            \* of Quotes
    SpotTTL, LiveTTL, RefTTL, Budget, MaxClock, MaxAsks, MaxTurns,
    SnapCallers, SnapWants, Feeds, TTL, Request, SnapBudget, Slots, SnapClock, SnapAsks

VARIABLES
    bench,
    pos, market, policy,
    spotClock, spotCache, live, source, keyIdx, strays, spotBatch, quoted, spent, spotCounts,
    candleClock, candleCache, candleBatch, answer, asks, stored, fetches

E == INSTANCE SmartExit

Q == INSTANCE Quotes WITH
        clock <- spotClock, cache <- spotCache, batch <- spotBatch, told <- quoted,
        counts <- spotCounts

S == INSTANCE Snapshots WITH
        Callers <- SnapCallers, Wants <- SnapWants, Budget <- SnapBudget,
        MaxClock <- SnapClock, MaxAsks <- SnapAsks,
        clock <- candleClock, cache <- candleCache, batch <- candleBatch

ASSUME WatchAssumption ==
    /\ Markets \subseteq E!MarketType /\ Entries \subseteq E!PosType
    /\ Policies \subseteq E!PolicyType /\ AvgHold \in Int /\ HalvesUp \subseteq Int
    /\ \A want \in Wants : want \subseteq Assets /\ IsFiniteSet(want)
    /\ Mapped \subseteq Assets /\ Keys \in Nat \ {0}
    /\ SpotTTL \in Nat \ {0} /\ LiveTTL \in Nat /\ RefTTL \in Nat /\ Budget \in Nat
    /\ \A want \in SnapWants : IsFiniteSet(want)
    /\ TTL \in Nat /\ SnapBudget \in Nat \ {0} /\ Slots \in Nat \ {0}

(***************************************************************************)
(* Values of this run                                                      *)
(***************************************************************************)
SomePrices == {1, 5, 8}
SomeLevels == {-2}

SomePolicies ==
    {[maxHold |-> 30, exitClose |-> 60, protectR |-> 10, reversalOpp |-> 55, newsOn |-> TRUE,
      newsR |-> 7, spikeAtr |-> 18, behindR |-> 4, behindMult |-> 125, behindFloor |-> 15],
     [maxHold |-> 50, exitClose |-> 45, protectR |-> 20, reversalOpp |-> 50, newsOn |-> TRUE,
      newsR |-> 10, spikeAtr |-> 0, behindR |-> 5, behindMult |-> 300, behindFloor |-> 20]}
SomeMarkets ==
    [known : {TRUE}, ema : {-1, 0, 1}, st : {-1, 1}, adx : {15, 22, 30}, rsi : {30, 60},
     macd : {-1, 0, 1}, atr : {10, 30}, vol : {8}, news : {"SAFE"}, opp : {70}, dd : {0}]
SomeEntries ==
    [side : {"BUY", "SELL"}, gain : {-2, 3}, width : {3}, stop : {-3}, age : {0}]

exitVars == <<pos, market, policy>>
spotVars == <<spotClock, spotCache, live, source, keyIdx, strays, spotBatch, quoted, spent,
              spotCounts>>
candleVars == <<candleClock, candleCache, candleBatch, answer, asks, stored, fetches>>
allVars == <<bench, vars, exitVars, spotVars, candleVars>>

WatchInit ==
    /\ bench \in Benches
    /\ Init /\ E!Init /\ Q!Init /\ S!Init
    /\ bench # "exit" => /\ pos = CHOOSE p \in Entries : TRUE
                         /\ market = CHOOSE m \in Markets : TRUE
                         /\ policy = CHOOSE s \in Policies : TRUE
    /\ bench # "spot" => spent = {}

WatchNext ==
    \/ bench = "cycle" /\ Next /\ UNCHANGED <<bench, exitVars, spotVars, candleVars>>
    \/ bench = "exit" /\ E!Next /\ UNCHANGED <<bench, vars, spotVars, candleVars>>
    \/ bench = "spot" /\ Q!Next /\ UNCHANGED <<bench, vars, exitVars, candleVars>>
    \/ bench = "candles" /\ S!Next /\ UNCHANGED <<bench, vars, exitVars, spotVars>>

WatchSpec == WatchInit /\ [][WatchNext]_allVars

(***************************************************************************)
(* Properties                                                              *)
(***************************************************************************)
\* The stop of the book is the stop of the row, no lower than the rung the
\* position has reached, and one slice is taken of it: GuardCycle!LadderKept,
\* RestartSafe and OneSlice.
StopsKept == LadderKept /\ RestartSafe /\ OneSlice

\* A cycle moves a stop to tighten it and touches nothing while the market is
\* shut: GuardCycle!StopTightens and HeldWhileShut.
CycleSteps == StopTightens /\ HeldWhileShut

\* SmartExit!WorseNeverHolds: what worsens never cancels an exit.
WorseNeverHolds == E!WorseNeverHolds

\* A short is judged like a long, and a position that has not earned its keep
\* by the time stop is closed: SmartExit!ExitMirrors and NoneLeftBehind.
ExitsFair == bench = "exit" => E!ExitMirrors /\ E!NoneLeftBehind

\* A price served as intraday is the market's of a bounded time ago, a daily rate
\* is fetched for want of one and the guard acts on none: Quotes!FreshEnough,
\* DailyLast and TrustedAlone.
PricesFresh == bench = "spot" => Q!FreshEnough /\ Q!DailyLast /\ Q!TrustedAlone

\* Every asset a batch went out for is answered, and given up after every key refused it:
\* Quotes!AllAnswered and KeysTried.
NoneForgotten == bench = "spot" => Q!AllAnswered /\ Q!KeysTried

\* A feed is spared what the cache holds, and an asset is missing for a cause:
\* Snapshots!FeedSpared and MissedForCause.
CandlesOnce == bench = "candles" => S!FeedSpared /\ S!MissedForCause
=============================================================================
