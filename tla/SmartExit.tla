------------------------------ MODULE SmartExit ------------------------------
(***************************************************************************)
(* What the guard thinks of one open position each minute:                 *)
(* evaluate_exit of engine/smart_exit.py, as a function of the position,   *)
(* the indicators and the settings, while days pass, the market moves and  *)
(* the guard trails the stop.                                              *)
(*                                                                         *)
(* Distances are tenths of a percent of the entry price, R multiples and   *)
(* days tenths, scores hundredths of a point.                              *)
(***************************************************************************)
EXTENDS Integers, FiniteSets

CONSTANTS
    Markets,   \* bound: what the snapshot, calendar and account may say
    Entries,   \* bound: positions as they are opened
    Policies,  \* bound: exit settings
    MaxDays,   \* bound: age of a position
    AvgHold,   \* mean holding time, in tenths of a day
    HalvesUp   \* the halves binary floating point rounds up

VARIABLES
    pos,    \* the position: side, gain, width of its first stop, stop, age
    market, \* indicators, news, drawdown
    policy  \* the settings

vars == <<pos, market, policy>>

PosType ==
    [side : {"BUY", "SELL"}, gain : Int, width : Int, stop : Int, age : Int]
MarketType ==
    [known : BOOLEAN, ema : Int, st : Int, adx : Int, rsi : Int, macd : Int, atr : Int,
     vol : Int, news : {"SAFE", "CAUTION", "DANGER"}, opp : Int, dd : Int]
PolicyType ==
    [maxHold : Int, exitClose : Int, protectR : Int, reversalOpp : Int, newsOn : BOOLEAN,
     newsR : Int, spikeAtr : Int, behindR : Int, behindMult : Int, behindFloor : Nat \ {0}]

Sign(side) == IF side = "BUY" THEN 1 ELSE -1
Lower(x, y) == IF x < y THEN x ELSE y
Higher(x, y) == IF x > y THEN x ELSE y
Width(x) == IF x < 0 THEN -x ELSE x

(***************************************************************************)
(* R multiple                                                              *)
(***************************************************************************)
\* the distance to the stop as it is now; 1 % of the price for a stop at entry
RDistance(p) == IF p.stop = 0 THEN 10 ELSE Width(p.stop)
AtLeastR(p, r) == 10 * p.gain >= r * RDistance(p)

(***************************************************************************)
(* The nine factors                                                        *)
(***************************************************************************)
Favours(p, x) == x # 0 /\ x = Sign(p.side)
Against(p, x) == x # 0 /\ ~Favours(p, x)

Trend(p, m) ==
    CASE ~m.known -> 50
      [] m.known /\ Favours(p, m.ema) ->
            IF ~Against(p, m.st) /\ m.adx >= 25 THEN 90
            ELSE IF m.adx >= 20 THEN 70 ELSE 55
      [] OTHER -> IF m.adx < 20 THEN 35 ELSE 20

\* an RSI seen from the side of the position
Strength(p, m) == IF p.side = "BUY" THEN m.rsi ELSE 100 - m.rsi

\* (the zones of a long for a short too)
MomentumLong(p, m) ==
    CASE m.rsi >= 55 /\ m.macd > 0 -> 80
      [] m.rsi >= 45 /\ m.macd >= 0 /\ ~(m.rsi >= 55 /\ m.macd > 0) -> 65
      [] OTHER -> IF m.rsi < 40 \/ m.macd < 0 THEN 30 ELSE 50

Momentum(p, m) ==
    CASE Strength(p, m) >= 55 /\ Favours(p, m.macd) -> 80
      [] /\ Strength(p, m) >= 45 /\ ~Against(p, m.macd)
         /\ ~(Strength(p, m) >= 55 /\ Favours(p, m.macd)) -> 65
      [] OTHER -> IF Strength(p, m) < 40 \/ Against(p, m.macd) THEN 30 ELSE 50

Volume(m) ==
    CASE m.vol <= 0 -> 50
      [] m.vol \in 1..2 -> 45
      [] m.vol \in 3..12 -> 75
      [] m.vol \in 13..20 -> 40
      [] OTHER -> 25

\* the snapshot names no regime: it is derived
Regime(p, m) ==
    IF m.adx < 20 THEN 35
    ELSE IF m.atr > 25 THEN 25
    ELSE IF m.known /\ (m.ema > 0) = (p.side = "BUY") THEN 85 ELSE 35

News(m) == CASE m.news = "SAFE" -> 85
             [] m.news = "CAUTION" -> 55
             [] m.news = "DANGER" -> 20

Holding(p, s) ==
    IF s.maxHold > 0
    THEN CASE 10 * p.age < 4 * s.maxHold -> 85
           [] 10 * p.age >= 4 * s.maxHold /\ 10 * p.age < 7 * s.maxHold -> 65
           [] 10 * p.age >= 7 * s.maxHold /\ p.age < s.maxHold -> 40
           [] OTHER -> 15
    ELSE IF p.age < 100 THEN 70 ELSE IF p.age < 200 THEN 50 ELSE 30

Volatility(m) ==
    CASE m.atr <= 0 -> 50
      [] m.atr \in 4..15 -> 80
      [] m.atr \in 1..3 \cup 16..25 -> 55
      [] OTHER -> 25

\* (a drawdown past the last step forgotten)
ExposureShallow(m) ==
    CASE m.dd <= 0 -> 85
      [] m.dd \in 1..19 -> 65
      [] m.dd \in 20..49 -> 40
      [] OTHER -> 50

Exposure(m) ==
    CASE m.dd <= 0 -> 85
      [] m.dd \in 1..19 -> 65
      [] m.dd \in 20..49 -> 40
      [] OTHER -> 20

Score(p, m, s) ==
    20 * Trend(p, m) + 15 * Momentum(p, m) + 15 * Regime(p, m) + 10 * m.opp
    + 10 * News(m) + 10 * Holding(p, s) + 10 * Volatility(m) + 5 * Volume(m)
    + 5 * Exposure(m)

\* round(score, 1)
Rounded(score) == 10 * ((score + IF score \in HalvesUp THEN 5 ELSE 4) \div 10)

(***************************************************************************)
(* The rules                                                               *)
(***************************************************************************)
\* (the threshold past the time stop)
BehindDaysUncapped(s) ==
    LET days == Higher((Higher(5, AvgHold) * s.behindMult) \div 100, s.behindFloor)
    IN  IF s.behindMult <= 0 THEN 0 ELSE days

\* left_behind_days, 0 for never
BehindDays(s) ==
    LET days == Higher((Higher(5, AvgHold) * s.behindMult) \div 100, s.behindFloor)
    IN  IF s.behindMult <= 0 THEN 0
        ELSE IF s.maxHold > 0 THEN Lower(days, s.maxHold) ELSE days

LeftBehind(p, s) ==
    /\ BehindDays(s) > 0 /\ p.age > BehindDays(s)
    /\ s.behindR >= 0 /\ ~AtLeastR(p, s.behindR)

NewsExit(p, m, s) ==
    /\ s.newsOn /\ m.news = "DANGER"
    /\ s.newsR >= 0 /\ AtLeastR(p, s.newsR)

Votes(p, m, s) ==
    Cardinality({v \in {"trend", "adx", "momentum", "edge"} :
        CASE v = "trend" -> m.known /\ Against(p, m.ema)
          [] v = "adx" -> m.adx \in 1..19
          [] v = "momentum" -> Against(p, m.macd)
          [] v = "edge" -> m.opp < s.reversalOpp})

Spike(m, s) == s.spikeAtr > 0 /\ m.atr > s.spikeAtr

\* what evaluate_exit recommends; the first rule that fires decides
Recommendation(p, m, s) ==
    LET score == Rounded(Score(p, m, s))
    IN  IF LeftBehind(p, s) \/ NewsExit(p, m, s) \/ Votes(p, m, s) >= 2
        THEN "CLOSE"
        ELSE IF score < 100 * s.exitClose
        THEN IF AtLeastR(p, 10) THEN "PARTIAL_50" ELSE "CLOSE"
        ELSE IF Spike(m, s)
        THEN IF AtLeastR(p, 10) THEN "PARTIAL_50" ELSE "PARTIAL_25"
        ELSE IF s.protectR > 0 /\ AtLeastR(p, s.protectR) /\ score < 6500
        THEN "PARTIAL_50"
        ELSE IF s.protectR > 0 /\ AtLeastR(p, 10) /\ score < 4500
        THEN "MOVE_SL"
        ELSE "HOLD"

(***************************************************************************)
(* What changes between two cycles                                         *)
(***************************************************************************)
DaysPass ==
    /\ pos.age < 10 * MaxDays
    /\ pos' = [pos EXCEPT !.age = @ + 20]
    /\ UNCHANGED <<market, policy>>

\* breakeven, then the ladder: the stop follows the gain, never back
StopTrails ==
    /\ pos.gain >= pos.width
    /\ pos.stop < pos.gain - pos.width
    /\ pos' = [pos EXCEPT !.stop = IF @ < 0 THEN 0 ELSE pos.gain - pos.width]
    /\ UNCHANGED <<market, policy>>

NewsBreaks ==
    /\ market.news # "DANGER"
    /\ market' = [market EXCEPT !.news = IF @ = "SAFE" THEN "CAUTION" ELSE "DANGER"]
    /\ UNCHANGED <<pos, policy>>

EdgeFades ==
    /\ market.opp > 50
    /\ market' = [market EXCEPT !.opp = @ - 20]
    /\ UNCHANGED <<pos, policy>>

LossesMount ==
    /\ market.dd < 50
    /\ market' = [market EXCEPT !.dd = IF @ = 0 THEN 30 ELSE 60]
    /\ UNCHANGED <<pos, policy>>

Init ==
    /\ pos \in Entries /\ market \in Markets /\ policy \in Policies

Next == DaysPass \/ StopTrails \/ NewsBreaks \/ EdgeFades \/ LossesMount

Spec == Init /\ [][Next]_vars

(***************************************************************************)
(* Properties                                                              *)
(***************************************************************************)
Advice == Recommendation(pos, market, policy)

Rank(r) == CASE r = "HOLD" -> 0
             [] r = "MOVE_SL" -> 1
             [] r = "PARTIAL_25" -> 2
             [] r = "PARTIAL_50" -> 3
             [] r = "CLOSE" -> 4

\* A longer hold, worse news, a fading edge and a deeper drawdown, each alone or
\* one after the other, never talk the engine out of an exit it would have made.
WorseNeverHolds ==
    [][vars' # vars /\ pos'.stop = pos.stop => Rank(Advice') >= Rank(Advice)]_vars

Mirror(m) == [m EXCEPT !.ema = -@, !.st = -@, !.macd = -@, !.rsi = 100 - @]
Other(p) == [p EXCEPT !.side = IF @ = "BUY" THEN "SELL" ELSE "BUY"]

\* A short in the mirror image of a market is advised like a long, but for equal
\* averages, which the engine reads as a downtrend.
ExitMirrors ==
    market.ema # 0 => Recommendation(Other(pos), Mirror(market), policy) = Advice

\* Capital is freed: past the time stop, a position that has not earned its
\* keep is closed, whatever the average holding time came to, unless the owner
\* turned the rule off.
NoneLeftBehind ==
    /\ policy.behindMult > 0 /\ policy.maxHold > 0 /\ pos.age > policy.maxHold
    /\ policy.behindR >= 0 /\ ~AtLeastR(pos, policy.behindR)
    => Advice = "CLOSE"
==============================================================================
