------------------------------- MODULE Setup -------------------------------
(***************************************************************************)
(* What the indicators of one asset are worth: the score, the confidence   *)
(* and the stop of engine/strategy_engine.py, and the thesis check of      *)
(* core/thesis_validation.py, as functions of a snapshot.                  *)
(*                                                                         *)
(* A snapshot keeps the gap between the two EMAs, of which the feed makes  *)
(* the MACD too.  Scores are whole points, confidence tenths of a point,   *)
(* sentiment tenths, distances hundredths of a percent of the price.       *)
(***************************************************************************)
EXTENDS Integers, FiniteSets

CONSTANTS
    MinOpp,   \* min_opportunity
    MinConf   \* min_confidence, in tenths

SnapType == [gap : Int, adx : Nat, st : Int, rsi : Nat, atr : Nat, sent : Int,
             news : BOOLEAN, brk : 0..2]

Gold == "XAUUSD"
Sides == {"BUY", "SELL"}
Hostile == {"sideway", "high_volatility", "news_driven_market"}
Bigger(x, y) == IF x > y THEN x ELSE y
Smaller(x, y) == IF x < y THEN x ELSE y
Sign(side) == IF side = "BUY" THEN 1 ELSE -1

\* to the nearest, a tie to the even neighbour
Nearest(n, d) ==
    LET q == n \div d
        r == 2 * (n % d)
    IN  IF r > d \/ (r = d /\ q % 2 = 1) THEN q + 1 ELSE q

\* (a momentum of its own)
MacdOwn(s) == IF s.rsi > 50 THEN 1 ELSE -1

\* snapshot_from_candles: the gap between the EMAs over the price, rounded
Macd(s) == IF s.gap >= 2 THEN 1 ELSE IF s.gap <= -2 THEN -1 ELSE 0

\* what fetch_all_snapshots returns: no news and no sentiment
FromFeed(s) == [s EXCEPT !.news = FALSE, !.sent = 0]

(***************************************************************************)
(* The strategy engine                                                     *)
(***************************************************************************)
Regime(s) ==
    IF s.news THEN "news_driven_market"
    ELSE IF s.adx < 20 THEN "sideway"
    ELSE IF s.atr > 250 THEN "high_volatility"
    ELSE IF s.gap > 0 THEN IF s.adx < 35 THEN "bull_trend" ELSE "strong_bull_trend"
    ELSE IF s.adx < 35 THEN "bear_trend" ELSE "strong_bear_trend"

Wanted(s) == IF s.gap > 0 THEN "BUY" ELSE "SELL"
Backs(side, x) == Sign(side) * x > 0

\* an EMA gap of nothing reads as a downtrend
TrendBacks(side, s) == (s.gap > 0) = (side = "BUY")

\* (the zones of a long for a short too)
MomentumLong(s, side) ==
    IF s.rsi \in 40..55 /\ Backs(side, s.st) THEN 15
    ELSE IF s.rsi > 55 THEN 5
    ELSE IF s.rsi < 40 /\ Backs(side, s.st) THEN 8 ELSE 0

Momentum(s, side) ==
    IF side = "BUY"
    THEN IF s.rsi \in 40..55 /\ s.st > 0 THEN 15
         ELSE IF s.rsi > 55 THEN 5
         ELSE IF s.rsi < 40 /\ s.st > 0 THEN 8 ELSE 0
    ELSE IF s.rsi \in 45..60 /\ s.st < 0 THEN 15
         ELSE IF s.rsi < 45 THEN 5
         ELSE IF s.rsi > 60 /\ s.st < 0 THEN 8 ELSE 0

Breakout(s, two, one) == CASE s.brk = 2 -> two [] s.brk = 1 -> one [] OTHER -> 0

\* (the same news for either side)
NewsRaw(s, side) == (IF s.news THEN -5 ELSE 5) + Bigger(-10, Smaller(10, s.sent))

News(s, side) == (IF s.news THEN -5 ELSE 5)
                    + Bigger(-10, Smaller(10, Sign(side) * s.sent))

\* opportunity_score
Score(s, side) ==
    LET trend == IF TrendBacks(side, s) THEN 20 ELSE -5
        strength == IF s.adx >= 25 THEN 15 ELSE IF s.adx > 0 THEN 5 ELSE 0
        macd == IF Macd(s) = 0 THEN 0 ELSE IF Backs(side, Macd(s)) THEN 10 ELSE -10
        volatility == IF s.atr \in 40..150 THEN 15 ELSE IF s.atr > 250 THEN -10 ELSE 5
        both == IF Backs(side, s.st) /\ Backs(side, Macd(s)) THEN 5 ELSE 0
    IN  Bigger(0, Smaller(100, trend + strength + Momentum(s, side) + macd + both
                               + volatility + News(s, side) + Breakout(s, 5, 3)))

Vote(known, for) == IF ~known THEN 0 ELSE IF for THEN 1 ELSE -1

\* the independent sources, each for, against or silent
Votes(s, side) ==
    [ema |-> Vote(TRUE, TrendBacks(side, s)),
     adx |-> Vote(s.adx > 0, s.adx >= 25),
     st |-> Vote(s.st # 0, Backs(side, s.st)),
     macd |-> Vote(Macd(s) # 0, Backs(side, Macd(s))),
     rsi |-> Vote(s.rsi # 0, s.rsi \in (IF side = "BUY" THEN 40..70 ELSE 30..60)),
     sent |-> Vote(s.sent # 0, Backs(side, s.sent))]

Agreement(votes) ==
    LET for == Cardinality({v \in DOMAIN votes : votes[v] = 1})
        against == Cardinality({v \in DOMAIN votes : votes[v] = -1})
    IN  IF for + against = 0 THEN 0 ELSE Nearest(550 * for, for + against)

\* evidence_confidence
Confidence(s, side) ==
    LET base == 10 * Smaller(Score(s, side), 45)
        news == IF s.news THEN -300 ELSE 0
    IN  Bigger(100, Smaller(1000, base + Agreement(Votes(s, side))
                                    + Breakout(s, 100, 50) + news))

Strong(s) == /\ Score(s, Wanted(s)) >= MinOpp
             /\ Confidence(s, Wanted(s)) >= MinConf

\* build_proposal: the stop, from the range or from the broken level
StopDistance(s, level, lo, hi) ==
    LET plain == Bigger((3 * s.atr) \div 2, 10)
        under == IF hi > 0 THEN Smaller(plain, hi) ELSE plain
        anchored == level + Sign(Wanted(s)) * (s.atr \div 2)
        width == IF anchored < 0 THEN -anchored ELSE anchored
    IN  IF level > 0 THEN Bigger(width, Bigger(s.atr \div 2, 10)) ELSE Bigger(under, lo)

(***************************************************************************)
(* validate_thesis: the codes that block                                   *)
(***************************************************************************)
\* (a trend has to be as strong as the score wants it)
RegimeAgainHard(s) == IF s.adx < 25 THEN "sideway" ELSE Regime(s)

\* _regime_of, the copy of regime_of
RegimeAgain(s) ==
    IF s.news THEN "news_driven_market"
    ELSE IF s.adx < 20 THEN "sideway"
    ELSE IF s.atr > 250 THEN "high_volatility"
    ELSE IF s.gap > 0 THEN IF s.adx < 35 THEN "bull_trend" ELSE "strong_bull_trend"
    ELSE IF s.adx < 35 THEN "bear_trend" ELSE "strong_bear_trend"

Against(side) == IF side = "BUY" THEN {"bear_trend", "strong_bear_trend"}
                                 ELSE {"bull_trend", "strong_bull_trend"}

\* the feed reports a level only with a breakout, so that the absence of a
\* structure is never looked at
Codes(asset, side, s, old) ==
    {c \in {"signal_expired", "trend_flipped", "thesis_corroboration_failed",
            "regime_blocked", "breakout_invalidated", "news_state_changed"} :
        CASE c = "signal_expired" -> old
          [] c = "trend_flipped" -> ~TrendBacks(side, s)
          [] c = "thesis_corroboration_failed" ->
                s.st # 0 /\ ~Backs(side, s.st) /\ Macd(s) # 0 /\ ~Backs(side, Macd(s))
          [] c = "regime_blocked" -> RegimeAgain(s) \in Hostile \cup Against(side)
          [] c = "breakout_invalidated" ->
                asset = Gold /\ s.brk # 0 /\ side = "SELL"
          [] c = "news_state_changed" -> s.news}
=============================================================================
