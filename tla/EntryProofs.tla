----------------------------- MODULE EntryProofs -----------------------------
(***************************************************************************)
(* Proofs about the way to an order, on each of MCEntry's benches, for     *)
(* every plan, desk and cycle, every market and feed, any life of a card   *)
(* and any number of cards, scans and moves:                               *)
(*   EntryAlwaysTyped     types of the gates                               *)
(*   OrdersAlwaysBounded  no order outgrows its budget or hugs its price   *)
(*   CardAlwaysAgrees     the card promises what the order will meet       *)
(*   CycleAlwaysBounded   quotas of a cycle, one late order after a stop   *)
(*   AlwaysGradedAlike    a short is graded as a long in a mirror          *)
(*   MoreAlwaysMore       more evidence is never worth less                *)
(*   CardsAlwaysSound     cards are born alive, wait alone, fire in time   *)
(*                                                                         *)
(* GateInv carries the gates: the types, every order Bounded by the plan   *)
(* that sized it, an order past its gates Ready for the broker, a cycle    *)
(* Overseen by the one read it began with, and the LastOne of a pause.     *)
(* CardInv carries the cards: of two waiting cards of an asset in a Deck   *)
(* the second's scan never saw the first, a scan Watches every card it     *)
(* saw, also while it waits for a spot price, and an order is Faithful to  *)
(* its card.                                                               *)
(***************************************************************************)
EXTENDS MCEntry, FiniteSetTheorems, TLAPS

(***************************************************************************)
(* Stops and sizes                                                         *)
(***************************************************************************)
LEMMA Products == \A x, y \in Nat : x * y \in Nat
  OBVIOUS

LEMMA Quotients ==
    ASSUME NEW n \in Nat, NEW d \in Nat \ {0}
    PROVE  n \div d \in Nat /\ d * (n \div d) <= n
  OBVIOUS

\* what one hundredth of a lot loses over a distance
LEMMA Worths ==
    ASSUME NEW a \in Assets, NEW known \in BOOLEAN, NEW dist \in Nat, NEW lots \in Nat
    PROVE  /\ Worth[a][known] \in Nat \ {0} /\ Spread[a] \in Nat
           /\ RiskOf(a, known, dist, lots) = (dist * Worth[a][known]) * lots
           /\ RiskOf(a, known, dist, lots) \in Nat
<1>1. Worth[a][known] \in Nat \ {0} /\ Spread[a] \in Nat BY EntryAssumption
<1> DEFINE w == Worth[a][known]
<1>3. w \in Nat BY <1>1
<1>4. dist * w \in Nat BY <1>3, Products
<1> HIDE DEF w
<1>5. dist * lots * w = (dist * w) * lots BY <1>3
<1>6. (dist * w) * lots \in Nat BY <1>4, Products
<1> QED BY <1>1, <1>5, <1>6 DEF w, RiskOf

LEMMA Floors ==
    ASSUME NEW s \in Settings, NEW a \in Assets
    PROVE  Floor(s, a) \in Nat
<1>1. s.floor \in Nat /\ Spread[a] \in Nat BY EntryAssumption DEF Settings
<1> QED BY <1>1, Products DEF Floor

\* the half spread of the fill, on top of what the sized distance loses
LEMMA Halves ==
    ASSUME NEW x \in Nat, NEW spread \in Nat, NEW lots \in Nat, NEW w \in Nat
    PROVE  2 * (((x + spread \div 2) * w) * lots)
              <= 2 * ((x * w) * lots) + spread * lots * w
<1> DEFINE h == spread \div 2
           v == w * lots
<1>1. h \in Nat /\ 2 * h <= spread BY Quotients
<1>2. v \in Nat BY Products
<1>3. \A m, n, k \in Nat : m <= n => m * k <= n * k OBVIOUS
<1> HIDE DEF h
<1>4. ((x + h) * w) * lots = x * v + h * v BY <1>1 DEF v
<1>5. (x * w) * lots = x * v /\ spread * lots * w = spread * v BY DEF v
<1> HIDE DEF v
<1>6. (2 * h) * v <= spread * v
  <2>1. 2 * h \in Nat BY <1>1
  <2> QED BY <1>1, <1>2, <1>3, <2>1
<1>7. 2 * (x * v + h * v) = 2 * (x * v) + (2 * h) * v BY <1>1, <1>2
<1>8. x * v \in Nat /\ (2 * h) * v \in Nat /\ spread * v \in Nat BY <1>1, <1>2, Products
<1>9. 2 * (x * v + h * v) <= 2 * (x * v) + spread * v BY <1>6, <1>7, <1>8
<1> QED BY <1>4, <1>5, <1>9 DEF h

LEMMA FillRisks ==
    ASSUME NEW a \in Assets, NEW known \in BOOLEAN, NEW dist \in Nat, NEW lots \in Nat
    PROVE  2 * RiskOf(a, known, dist + Spread[a] \div 2, lots)
              <= 2 * RiskOf(a, known, dist, lots) + Spread[a] * lots * Worth[a][known]
<1>1. Worth[a][known] \in Nat /\ Spread[a] \in Nat BY Worths
<1>2. Spread[a] \div 2 \in Nat BY <1>1, Quotients
<1>3. dist + Spread[a] \div 2 \in Nat BY <1>2
<1>4. /\ RiskOf(a, known, dist + Spread[a] \div 2, lots)
            = ((dist + Spread[a] \div 2) * Worth[a][known]) * lots
      /\ RiskOf(a, known, dist, lots) = (dist * Worth[a][known]) * lots
  <2>1. RiskOf(a, known, dist + Spread[a] \div 2, lots)
           = ((dist + Spread[a] \div 2) * Worth[a][known]) * lots
    <3> DEFINE far == dist + Spread[a] \div 2
    <3>1. far \in Nat BY <1>3
    <3> HIDE DEF far
    <3>2. RiskOf(a, known, far, lots) = (far * Worth[a][known]) * lots BY <3>1, Worths
    <3> QED BY <3>2 DEF far
  <2>2. RiskOf(a, known, dist, lots) = (dist * Worth[a][known]) * lots BY Worths
  <2> QED BY <2>1, <2>2
<1> QED BY <1>1, <1>4, Halves

\* risk_to_lot rounds to the nearest hundredth
LEMMA Rounds ==
    ASSUME NEW s \in Settings, NEW a \in Assets, NEW known \in BOOLEAN, NEW dist \in Nat \ {0}
    PROVE  /\ RiskLots(s, a, known, dist) \in Nat
           /\ 2 * RiskOf(a, known, dist, RiskLots(s, a, known, dist))
                 <= 2 * s.budget + dist * Worth[a][known]
<1> DEFINE d == dist * Worth[a][known]
           n == 2 * s.budget + d
           q == n \div (2 * d)
<1>1. Worth[a][known] \in Nat \ {0} /\ s.budget \in Nat
  BY EntryAssumption DEF Settings
<1>2. d \in Nat \ {0}
  <2> DEFINE w == Worth[a][known]
  <2>1. w \in Nat \ {0} BY <1>1
  <2> HIDE DEF w
  <2>2. dist * w \in Nat /\ dist * w # 0 BY <2>1
  <2> QED BY <2>2 DEF w
<1>3. RiskLots(s, a, known, dist) = q BY DEF RiskLots, Rounded
<1> HIDE DEF d
<1>4. n \in Nat /\ 2 * d \in Nat \ {0} BY <1>1, <1>2
<1> HIDE DEF n
<1>5. q \in Nat /\ (2 * d) * q <= n BY <1>4, Quotients
<1> HIDE DEF q
<1>6. RiskOf(a, known, dist, q) = d * q BY <1>5, Worths DEF d
<1>7. 2 * (d * q) = (2 * d) * q BY <1>2, <1>5
<1> QED BY <1>3, <1>5, <1>6, <1>7 DEF d, n

\* the floor of so many spreads is taken last
LEMMA Stops ==
    ASSUME NEW s \in Settings, Valid(s), NEW a \in Assets, NEW known \in BOOLEAN,
           NEW dist \in Nat, NEW sized \in BOOLEAN
    PROVE  /\ Effective(s, a, known, dist, sized) \in Nat
           /\ Effective(s, a, known, dist, sized) > 0 =>
                 Effective(s, a, known, dist, sized) >= Floor(s, a)
<1> DEFINE banded == Band(s, Tier(s, dist))
           capped == IF sized THEN Capped(s, a, known, banded) ELSE banded
<1>1. /\ Floor(s, a) \in Nat /\ s.lo \in Nat /\ s.hi \in Nat /\ s.cap \in BOOLEAN
      /\ s.budget \in Nat /\ s.minLot \in Nat \ {0} /\ Worth[a][known] \in Nat \ {0}
  <2>1. /\ s.lo \in Nat /\ s.hi \in Nat /\ s.cap \in BOOLEAN
        /\ s.budget \in Nat /\ s.minLot \in Nat
    BY DEF Settings
  <2>2. s.minLot > 0 BY DEF Valid
  <2>3. Floor(s, a) \in Nat BY Floors
  <2>4. Worth[a][known] \in Nat \ {0} BY EntryAssumption
  <2> QED BY <2>1, <2>2, <2>3, <2>4
<1>2. Tier(s, dist) \in Nat BY Quotients DEF Tier
<1>3. banded \in Nat BY <1>1, <1>2 DEF Band, Greater, Lesser
<1>4. Affordable(s, a, known) \in Nat
  <2> DEFINE w == Worth[a][known]
             m == s.minLot
  <2>1. w \in Nat \ {0} /\ m \in Nat \ {0} BY <1>1
  <2> HIDE DEF w, m
  <2>2. m * w \in Nat /\ m * w # 0 BY <2>1
  <2>3. s.budget \div (m * w) \in Nat BY <1>1, <2>2, Quotients
  <2> QED BY <2>3 DEF w, m, Affordable
<1>5. Lid(s, a, known) \in Nat BY <1>1, <1>4 DEF Lid, Greater
<1> HIDE DEF banded
<1>6. capped \in Nat BY <1>1, <1>3, <1>5 DEF Capped, Lesser
<1>7. Effective(s, a, known, dist, sized) = IF dist = 0 THEN 0 ELSE Greater(capped, Floor(s, a))
  BY DEF Effective, banded
<1> HIDE DEF capped
<1> QED BY <1>1, <1>6, <1>7 DEF Greater

\* An order the platform sizes: risk_to_lot's own lots, or the smallest lot
\* when min_lot_budget_breach lets it through.
LEMMA Affords ==
    ASSUME NEW s \in Settings, Valid(s), NEW a \in Assets, NEW known \in BOOLEAN,
           NEW dist \in Nat, Sized(s, a, known, dist) > 0, ~Breach(s, a, known, dist)
    PROVE  2 * RiskOf(a, known, dist, Sized(s, a, known, dist))
              <= 2 * s.budget + dist * Worth[a][known]
<1>1. dist \in Nat \ {0} BY DEF Sized
<1> DEFINE r == RiskLots(s, a, known, dist)
           l == Sized(s, a, known, dist)
<1>2. r \in Nat /\ 2 * RiskOf(a, known, dist, r) <= 2 * s.budget + dist * Worth[a][known]
  BY <1>1, Rounds
<1>3. s.minLot \in Nat /\ s.budget \in Nat BY DEF Settings
<1> HIDE DEF r
<1>4. l = IF r > s.minLot THEN r ELSE s.minLot BY <1>1 DEF Sized, Greater, r
<1>5. CASE ~(r < s.minLot)
  <2>1. l = r BY <1>2, <1>3, <1>4, <1>5
  <2> QED BY <1>2, <2>1
<1>6. CASE r < s.minLot
  <2>1. l = s.minLot BY <1>2, <1>3, <1>4, <1>6
  <2>2. ~(RiskOf(a, known, dist, s.minLot) > s.budget) BY <1>6 DEF Breach, r
  <2>3. RiskOf(a, known, dist, s.minLot) \in Nat BY <1>3, Worths
  <2>4. dist * Worth[a][known] \in Nat
    <3> DEFINE w == Worth[a][known]
    <3>1. w \in Nat BY Worths, <1>3
    <3> HIDE DEF w
    <3>2. dist * w \in Nat BY <3>1, Products
    <3> QED BY <3>2 DEF w
  <2> HIDE DEF l
  <2> DEFINE risk == RiskOf(a, known, dist, s.minLot)
             d == dist * Worth[a][known]
  <2>5. risk \in Nat /\ d \in Nat /\ risk <= s.budget BY <1>3, <2>2, <2>3, <2>4
  <2> HIDE DEF risk, d
  <2>6. 2 * risk <= 2 * s.budget + d BY <1>3, <2>5
  <2> QED BY <2>1, <2>6 DEF risk, d, l
<1> QED BY <1>5, <1>6

(***************************************************************************)
(* An order placed                                                         *)
(***************************************************************************)
\* WithinBudget and OutsideSpread, of one order
Bounded(o) ==
    /\ o.sized =>
          2 * RiskOf(o.asset, o.known, FillDist(o), o.lots)
             <= 2 * o.s.budget + o.dist * Worth[o.asset][o.known]
                  + Spread[o.asset] * o.lots * Worth[o.asset][o.known]
    /\ o.dist > 0 => o.dist >= o.s.floor * Spread[o.asset]

LEMMA Placing ==
    ASSUME NEW s \in Plans, NEW r, NEW o \in Signals \cup Legs, NEW known \in BOOLEAN,
           NEW snap, NEW by \in {"auto", "desk"}, NEW opens, Executes(s, r, o, known, snap, opens),
           NEW lost \in SUBSET (CycleReads \cup FreshReads)
    PROVE  /\ Placed(o, s, known, by, lost) \in Order
           /\ Bounded(Placed(o, s, known, by, lost))
<1> DEFINE p == Placed(o, s, known, by, lost)
           dist == Effective(s, o.asset, known, o.dist, o.lots = 0)
           w == Worth[o.asset][known]
<1>1. /\ s \in Settings /\ o.asset \in Assets /\ o.buy \in BOOLEAN
      /\ o.dist \in Nat /\ o.lots \in Nat
  BY EntryAssumption
<1>2. Valid(s) /\ Lots(s, o, known, dist) > 0 BY DEF Executes
<1>3. dist \in Nat /\ (dist > 0 => dist >= Floor(s, o.asset))
  <2>1. (o.lots = 0) \in BOOLEAN OBVIOUS
  <2> QED BY <1>1, <1>2, <2>1, Stops
<1>10. /\ p.asset = o.asset /\ p.buy = o.buy /\ p.dist = dist /\ p.lots = Lots(s, o, known, dist)
       /\ p.sized = (o.lots = 0) /\ p.s = s /\ p.known = known /\ p.by = by /\ p.lost = lost
  BY DEF Placed
<1>11. p = [asset |-> o.asset, buy |-> o.buy, dist |-> dist, lots |-> Lots(s, o, known, dist),
            sized |-> o.lots = 0, s |-> s, known |-> known, by |-> by, lost |-> lost]
  BY DEF Placed
<1>12. o.lots = 0 => ~Breach(s, o.asset, known, dist) BY DEF Executes
<1> HIDE DEF dist, p
<1>4. Lots(s, o, known, dist) \in Nat
  <2>1. CASE o.lots > 0 BY <1>1, <2>1 DEF Lots
  <2>2. CASE dist = 0 BY <1>1, <2>2 DEF Lots, Sized
  <2>3. CASE dist # 0
    <3>1. RiskLots(s, o.asset, known, dist) \in Nat BY <1>1, <1>3, <2>3, Rounds
    <3> QED BY <1>1, <3>1 DEF Lots, Sized, Greater, Settings
  <2> QED BY <2>1, <2>2, <2>3
<1>6. p \in Order BY <1>1, <1>3, <1>4, <1>11 DEF Order
<1>7. ASSUME o.lots = 0
      PROVE  2 * RiskOf(o.asset, known, FillDist(p), p.lots)
                <= 2 * s.budget + dist * w + Spread[o.asset] * p.lots * w
  <2>2. p.lots = Sized(s, o.asset, known, dist)
    <3>1. ~(o.lots > 0) BY <1>7
    <3>2. Lots(s, o, known, dist) = Sized(s, o.asset, known, dist) BY <3>1 DEF Lots
    <3> QED BY <1>10, <3>2
  <2>3. ~Breach(s, o.asset, known, dist) BY <1>7, <1>12
  <2>4. Sized(s, o.asset, known, dist) > 0 BY <1>2, <1>10, <2>2
  <2>5. 2 * RiskOf(o.asset, known, dist, p.lots) <= 2 * s.budget + dist * w
    BY <1>1, <1>2, <1>3, <2>2, <2>3, <2>4, Affords
  <2>6. dist # 0 BY <2>4 DEF Sized
  <2>7. FillDist(p) = dist + Spread[o.asset] \div 2 BY <1>10, <2>6 DEF FillDist
  <2>8. p.lots \in Nat BY <1>4, <1>10
  <2>9. 2 * RiskOf(o.asset, known, FillDist(p), p.lots)
           <= 2 * RiskOf(o.asset, known, dist, p.lots) + Spread[o.asset] * p.lots * w
    BY <1>1, <1>3, <2>7, <2>8, FillRisks
  <2>10. /\ w \in Nat /\ Spread[o.asset] \in Nat /\ Spread[o.asset] \div 2 \in Nat
         /\ s.budget \in Nat
    <3>1. w \in Nat /\ Spread[o.asset] \in Nat BY <1>1, EntryAssumption
    <3>2. Spread[o.asset] \div 2 \in Nat BY <3>1, Quotients
    <3>3. s.budget \in Nat BY <1>1 DEF Settings
    <3> QED BY <3>1, <3>2, <3>3
  <2>11. /\ RiskOf(o.asset, known, dist, p.lots) \in Nat
         /\ RiskOf(o.asset, known, FillDist(p), p.lots) \in Nat
    <3>1. dist + Spread[o.asset] \div 2 \in Nat BY <1>3, <2>10
    <3> QED BY <1>1, <1>3, <2>7, <2>8, <3>1, Worths
  <2> HIDE DEF w
  <2>12. dist * w \in Nat /\ Spread[o.asset] * p.lots * w \in Nat
    <3>1. Spread[o.asset] * p.lots \in Nat BY <2>8, <2>10, Products
    <3> QED BY <1>3, <2>10, <3>1, Products
  <2> QED BY <2>5, <2>9, <2>10, <2>11, <2>12
<1>8. dist > 0 => dist >= s.floor * Spread[o.asset] BY <1>3 DEF Floor
<1>9. Bounded(p) BY <1>7, <1>8, <1>10 DEF Bounded
<1> QED BY <1>6, <1>9 DEF p

(***************************************************************************)
(* The inductive invariant                                                 *)
(***************************************************************************)
Books == UNION {[seen -> Row] : seen \in SUBSET Nat}
ReadsType == [today : Nat, week : Nat, book : [BookReads -> Books],
              news : [NewsReads -> News]]
AutoType == [on : BOOLEAN, s : Plans, batch : SUBSET Signals, held : SUBSET Assets,
             lost : SUBSET CycleReads, reads : ReadsType, known : BOOLEAN, from : Nat]
DeskType == [on : BOOLEAN, s : Plans, of : SUBSET (Signals \cup Legs)]
PassedType == [of : Signals \cup Legs, order : Order]

Types ==
    /\ settings \in Plans /\ world \in Worlds /\ pending \subseteq Signals
    /\ orders \in Seq(Order) /\ open \subseteq DOMAIN orders /\ cooled \subseteq Assets
    /\ loss \in Nat /\ today \in Nat /\ week \in Nat /\ turns \in Turns
    /\ auto \in AutoType /\ auto.from <= Len(orders) /\ desk \in DeskType
    /\ passed \subseteq PassedType
    /\ halt \in [paused : 0..Len(orders), market : 0..Len(orders)]

\* An order past its gates is within its limits, and nothing the event loop
\* does can come in between.
Ready(p) ==
    /\ Bounded(p.order)
    /\ p.order.by = "auto" =>
          /\ auto.on /\ p.order.s = auto.s /\ auto.lost \subseteq p.order.lost
          /\ auto.reads.today < auto.s.perDay /\ auto.reads.week < auto.s.perWeek
          /\ Cardinality(DOMAIN auto.reads.book["count"]) < auto.s.maxOpen
    /\ "kill" \notin p.order.lost => loss <= p.order.s.daily
    /\ "cooldown" \notin p.order.lost => p.order.asset \notin cooled

\* The one read of a cycle lags behind the journal by what the desk did only,
\* and counts the cycle's own orders even where it failed.
Counted(desks, owns) ==
    /\ "journal" \notin auto.lost => /\ today <= auto.reads.today + desks
                                     /\ week <= auto.reads.week + desks
    /\ owns <= auto.reads.today /\ owns <= auto.reads.week
Overseen ==
    auto.on =>
        /\ "count" \notin auto.lost => open \ ByDesk \subseteq DOMAIN auto.reads.book["count"]
        /\ Own \subseteq DOMAIN auto.reads.book["count"]
        /\ DOMAIN auto.reads.book["count"] \subseteq DOMAIN orders
        /\ Counted(Cardinality(ByDesk), Cardinality(Own))

\* After the one late order of a pause, no other is past its gates.
LastOne ==
    /\ OneLate
    /\ world.paused /\ Late(halt.paused, "pause") # {} =>
          \A p \in passed : "pause" \in p.order.lost
    /\ world.market = "shut" /\ Late(halt.market, "market") # {} => passed = {}

GateInv ==
    /\ Types /\ \A k \in DOMAIN orders : Bounded(orders[k])
    /\ \A p \in passed : Ready(p)
    /\ Overseen /\ LastOne

\* what a step leaves alone
OrdersStay == UNCHANGED <<settings, world, open, cooled, loss, today, week, orders, halt>>

LEMMA Grown ==
    ASSUME Types, NEW p \in passed, Place(p)
    PROVE  LET n == Len(orders) + 1
           IN  /\ orders' \in Seq(Order) /\ Len(orders') = n /\ n \in Nat
               /\ DOMAIN orders' = DOMAIN orders \cup {n} /\ n \notin DOMAIN orders
               /\ \A k \in DOMAIN orders : orders'[k] = orders[k]
               /\ orders'[n] = p.order /\ p.order \in Order /\ p.of \in Signals \cup Legs
<1>1. p \in PassedType /\ orders \in Seq(Order) BY DEF Types
<1>2. p.order \in Order /\ p.of \in Signals \cup Legs BY <1>1 DEF PassedType
<1>3. orders' = Append(orders, p.order) BY DEF Place
<1> QED BY <1>1, <1>2, <1>3

\* what the gates are told
LEMMA EmptyBook == NoBook \in Books
<1>1. NoBook \in [{} -> Row] BY DEF NoBook
<1> QED BY <1>1 DEF Books

LEMMA Told ==
    ASSUME Types, NEW lost
    PROVE  /\ Reads(lost) \in ReadsType /\ Held \subseteq Assets
           /\ \A g \in BookReads : DOMAIN Reads(lost).book[g] \subseteq open
           /\ "count" \notin lost => DOMAIN Reads(lost).book["count"] = open
           /\ "journal" \notin lost => Reads(lost).today = today /\ Reads(lost).week = week
<1>1. \A k \in open : orders[k] \in Order BY DEF Types
<1>2. ASSUME NEW k \in open PROVE OpenRows[k] \in Row
  <2> DEFINE o == orders[k]
  <2>1. o \in Order BY <1>1
  <2>2. Spread[o.asset] \in Nat BY <2>1, EntryAssumption DEF Order
  <2>3. Spread[o.asset] \div 2 \in Nat BY <2>2, Quotients
  <2>4. FillDist(o) \in Nat BY <2>1, <2>3 DEF FillDist, Order
  <2>5. OpenRows[k] = [asset |-> o.asset, buy |-> o.buy, dist |-> FillDist(o), lots |-> o.lots]
    BY DEF OpenRows, RowOf
  <2> QED BY <2>1, <2>4, <2>5 DEF Order, Row
<1>3. OpenRows \in [open -> Row] BY <1>2 DEF OpenRows
<1>4. open \in SUBSET Nat BY DEF Types
<1>5. OpenRows \in Books BY <1>3, <1>4 DEF Books
<1>6. today \in Nat /\ week \in Nat /\ world.news \in News /\ "safe" \in News
  BY DEF Types, Worlds, News
<1>7. Held \subseteq Assets BY <1>1 DEF Held, Order
<1> DEFINE b == [g \in BookReads |-> IF g \in lost THEN NoBook ELSE OpenRows]
           f == [g \in NewsReads |-> IF g \in lost THEN "safe" ELSE world.news]
           d == IF "journal" \in lost THEN 0 ELSE today
           w == IF "journal" \in lost THEN 0 ELSE week
<1>8. Reads(lost) = [today |-> d, week |-> w, book |-> b, news |-> f] BY DEF Reads
<1>9. b \in [BookReads -> Books] BY <1>5, EmptyBook
<1>10. f \in [NewsReads -> News] BY <1>6
<1>11. d \in Nat /\ w \in Nat BY <1>6
<1>12. \A g \in BookReads : DOMAIN b[g] \subseteq open
  <2>1. DOMAIN NoBook = {} BY DEF NoBook
  <2> QED BY <1>3, <2>1
<1>13. "count" \notin lost => DOMAIN b["count"] = open BY <1>3 DEF BookReads
<1> HIDE DEF b, f
<1> QED BY <1>7, <1>8, <1>9, <1>10, <1>11, <1>12, <1>13 DEF ReadsType

LEMMA Idles == Idle \in AutoType /\ Idle.from = 0 /\ Idle.on = FALSE /\ NoDesk \in DeskType
<1>1. AnyPlan \in Plans BY EntryAssumption DEF AnyPlan
<1>2. [g \in BookReads |-> NoBook] \in [BookReads -> Books] BY EmptyBook
<1>3. [g \in NewsReads |-> "safe"] \in [NewsReads -> News] BY DEF News
<1>4. NoReads \in ReadsType BY <1>2, <1>3 DEF NoReads, ReadsType
<1> QED BY <1>1, <1>4 DEF Idle, AutoType, NoDesk, DeskType

(***************************************************************************)
(* A cycle: its start, what it refuses, what it lets through               *)
(***************************************************************************)
LEMMA LossCosts ==
    ASSUME Types, NEW reads, NEW lost \in Lost(reads), Costs(lost)
    PROVE  turns' \in Turns
<1>1. turns \in Turns /\ MaxOutages \in Nat BY EntryAssumption DEF Types
<1> QED BY <1>1 DEF Lost, Costs, Turns

LEMMA LostReads ==
    ASSUME NEW reads, NEW lost \in Lost(reads)
    PROVE  lost \subseteq reads
  BY DEF Lost

\* a step that places nothing and lets nothing through
LEMMA Quiet ==
    ASSUME GateInv, Types', OrdersStay, passed' = {}, Overseen'
    PROVE  GateInv'
<1>1. LastOne' BY DEF GateInv, LastOne, OneLate, Late, OrdersStay
<1>2. \A k \in DOMAIN orders' : Bounded(orders'[k]) BY DEF GateInv, OrdersStay
<1> QED BY <1>1, <1>2 DEF GateInv

\* a step that lets one order through
LEMMA Lets ==
    ASSUME GateInv, Types', OrdersStay, NEW p, passed' = {p}, Ready(p)', UNCHANGED auto,
           world.paused => "pause" \in p.order.lost, world.market # "shut"
    PROVE  GateInv'
<1>1. LastOne' BY DEF GateInv, LastOne, OneLate, Late, OrdersStay
<1>2. \A k \in DOMAIN orders' : Bounded(orders'[k]) BY DEF GateInv, OrdersStay
<1>3. Overseen' BY DEF GateInv, Overseen, Counted, ByDesk, Own, OrdersStay
<1>4. \A q \in passed' : Ready(q)' OBVIOUS
<1> QED BY <1>1, <1>2, <1>3, <1>4 DEF GateInv

LEMMA Nobody ==
    ASSUME Types
    PROVE  /\ IsFiniteSet(ByDesk) /\ Cardinality(ByDesk) \in Nat
           /\ IsFiniteSet(Own) /\ Cardinality(Own) \in Nat
<1>1. DOMAIN orders = 1..Len(orders) /\ Len(orders) \in Nat BY DEF Types
<1>2. IsFiniteSet(DOMAIN orders) BY <1>1, FS_Interval
<1>3. ByDesk \in SUBSET DOMAIN orders /\ Own \in SUBSET DOMAIN orders BY DEF ByDesk, Own
<1>4. IsFiniteSet(ByDesk) /\ IsFiniteSet(Own) BY <1>2, <1>3, FS_Subset
<1> QED BY <1>4, FS_CardinalityType

LEMMA StartKeeps ==
    ASSUME GateInv, AutoStart
    PROVE  GateInv'
<1>1. PICK lost \in Lost(CycleReads) :
          /\ auto' = [on |-> TRUE, s |-> settings, batch |-> pending, held |-> Held,
                      lost |-> lost, reads |-> Reads(lost), known |-> world.rates,
                      from |-> Len(orders)]
          /\ Costs(lost)
  BY DEF AutoStart
<1>2. /\ passed = {} /\ passed' = {} /\ OrdersStay /\ UNCHANGED <<pending, desk>>
  BY DEF AutoStart, OnLoop, OrdersStay
<1>3. /\ Types /\ settings \in Plans /\ pending \subseteq Signals /\ world.rates \in BOOLEAN
      /\ Len(orders) \in Nat /\ orders \in Seq(Order) /\ open \subseteq DOMAIN orders
      /\ today \in Nat /\ week \in Nat
  BY DEF GateInv, Types, Worlds
<1>4. lost \subseteq CycleReads BY LostReads
<1>5. /\ Reads(lost) \in ReadsType /\ Held \subseteq Assets
      /\ \A g \in BookReads : DOMAIN Reads(lost).book[g] \subseteq open
      /\ "count" \notin lost => DOMAIN Reads(lost).book["count"] = open
      /\ "journal" \notin lost => Reads(lost).today = today /\ Reads(lost).week = week
  BY <1>3, Told
<1>6. auto' \in AutoType /\ auto'.from = Len(orders) /\ auto'.reads = Reads(lost)
      /\ auto'.lost = lost
  BY <1>1, <1>3, <1>4, <1>5 DEF AutoType
<1>7. Types'
  <2>1. turns' \in Turns BY <1>1, <1>3, LossCosts
  <2> QED BY <1>2, <1>3, <1>6, <2>1 DEF Types, OrdersStay
<1>8. Own' = {} /\ ByDesk' = {}
  <2>1. \A k \in DOMAIN orders : ~(k > Len(orders)) BY <1>3
  <2>2. orders' = orders BY <1>2 DEF OrdersStay
  <2> QED BY <1>6, <2>1, <2>2 DEF Own, ByDesk
<1>9. Cardinality(Own') = 0 /\ Cardinality(ByDesk') = 0 BY <1>8, FS_EmptySet
<1>10. Overseen'
  <2>1. "count" \in BookReads BY DEF BookReads
  <2>2. /\ "count" \notin auto'.lost => open' \ ByDesk' \subseteq DOMAIN auto'.reads.book["count"]
        /\ Own' \subseteq DOMAIN auto'.reads.book["count"]
        /\ DOMAIN auto'.reads.book["count"] \subseteq DOMAIN orders'
    BY <1>2, <1>3, <1>5, <1>6, <1>8, <2>1 DEF OrdersStay
  <2>3. Reads(lost).today \in Nat /\ Reads(lost).week \in Nat BY <1>5 DEF ReadsType
  <2>4. Counted(0, 0)' BY <1>2, <1>3, <1>5, <1>6, <2>3 DEF Counted, OrdersStay
  <2>5. Counted(Cardinality(ByDesk), Cardinality(Own))' BY <1>9, <2>4
  <2> QED BY <2>2, <2>5 DEF Overseen
<1> QED BY <1>2, <1>7, <1>10, Quiet

LEMMA RefuseKeeps ==
    ASSUME GateInv, AutoEnd \/ \E o \in Signals : AutoRefuse(o)
    PROVE  GateInv'
<1>1. /\ passed = {} /\ passed' = {} /\ OrdersStay /\ UNCHANGED <<pending, desk, turns>>
  BY DEF AutoEnd, AutoRefuse, OnLoop, OrdersStay
<1>2. Types /\ auto \in AutoType /\ auto.from <= Len(orders) /\ Len(orders) \in Nat
  BY DEF GateInv, Types
<1>3. CASE AutoEnd
  <2>1. auto' = Idle BY <1>3 DEF AutoEnd
  <2>2. Types' BY <1>1, <1>2, <2>1, Idles DEF Types, OrdersStay
  <2>3. Overseen' BY <2>1, Idles DEF Overseen
  <2> QED BY <1>1, <2>2, <2>3, Quiet
<1>4. ASSUME NEW o \in Signals, AutoRefuse(o) PROVE GateInv'
  <2>1. auto' = [auto EXCEPT !.batch = @ \ {o}] BY <1>4 DEF AutoRefuse
  <2>2. /\ auto' \in AutoType /\ auto'.on = auto.on /\ auto'.lost = auto.lost
        /\ auto'.reads = auto.reads /\ auto'.from = auto.from
    BY <1>2, <2>1 DEF AutoType
  <2>3. Types' BY <1>1, <1>2, <2>2 DEF Types, OrdersStay
  <2>4. Overseen' BY <1>1, <2>2 DEF GateInv, Overseen, Counted, ByDesk, Own, OrdersStay
  <2> QED BY <1>1, <2>3, <2>4, Quiet
<1> QED BY <1>3, <1>4

LEMMA FireKeeps ==
    ASSUME GateInv, NEW o \in Signals, NEW snap, AutoFire(o, snap)
    PROVE  GateInv'
<1>1. PICK lost \in Lost(FreshReads) :
          /\ Executes(auto.s, auto.reads, o, auto.known, snap, lost)
          /\ passed' = {[of |-> o, order |-> Placed(o, auto.s, auto.known, "auto",
                                                    auto.lost \cup lost)]}
          /\ Costs(lost)
  BY DEF AutoFire
<1>2. /\ auto.on /\ OrdersStay /\ UNCHANGED <<pending, auto, desk>>
  BY DEF AutoFire, OrdersStay
<1>3. Types /\ auto \in AutoType BY DEF GateInv, Types
<1>4. auto.s \in Plans /\ auto.known \in BOOLEAN /\ auto.lost \subseteq CycleReads
  BY <1>3 DEF AutoType
<1> DEFINE all == auto.lost \cup lost
<1> PICK q : q = Placed(o, auto.s, auto.known, "auto", all) OBVIOUS
<1> DEFINE p == [of |-> o, order |-> q]
<1>5. all \in SUBSET (CycleReads \cup FreshReads)
  <2>1. lost \subseteq FreshReads BY LostReads
  <2> QED BY <1>4, <2>1
<1>6. q \in Order /\ Bounded(q) BY <1>1, <1>4, <1>5, Placing
<1>7. q.s = auto.s /\ q.lost = all /\ q.asset = o.asset /\ q.by = "auto" BY DEF Placed
<1>8. /\ Fresh(auto.s, o.asset, lost)
      /\ \E dist : Analytic(auto.s, auto.reads, o, auto.known, dist)
  BY <1>1 DEF Executes
<1>9. /\ auto.reads.today < auto.s.perDay /\ auto.reads.week < auto.s.perWeek
      /\ Cardinality(DOMAIN auto.reads.book["count"]) < auto.s.maxOpen
  BY <1>8 DEF Analytic
<1>10. p.order = q /\ p.of = o /\ passed' = {p} BY <1>1
<1>11. Ready(p)
  <2>1. "kill" \notin q.lost => loss <= auto.s.daily BY <1>7, <1>8 DEF Fresh
  <2>2. "cooldown" \notin q.lost => o.asset \notin cooled BY <1>7, <1>8 DEF Fresh
  <2> QED BY <1>2, <1>6, <1>7, <1>9, <1>10, <2>1, <2>2 DEF Ready
<1>12. Types'
  <2>1. turns' \in Turns BY <1>1, <1>3, LossCosts
  <2>2. passed' \subseteq PassedType BY <1>6, <1>10 DEF PassedType
  <2> QED BY <1>2, <1>3, <2>1, <2>2 DEF Types, OrdersStay
<1>13. Ready(p)' BY <1>2, <1>11 DEF Ready, OrdersStay
<1>14. (world.paused => "pause" \in p.order.lost) /\ world.market # "shut"
  BY <1>7, <1>8, <1>10 DEF Fresh
<1> HIDE DEF p
<1> QED BY <1>2, <1>10, <1>12, <1>13, <1>14, Lets

(***************************************************************************)
(* The desk                                                                *)
(***************************************************************************)
LEMMA DeskKeeps ==
    ASSUME GateInv, NEW o \in Signals \cup Legs, NEW snap,
           DeskStart(o) \/ DeskRefuse(o, snap)
    PROVE  GateInv'
<1>1. /\ passed = {} /\ passed' = {} /\ OrdersStay /\ UNCHANGED <<auto, turns>>
  BY DEF DeskStart, DeskRefuse, OnLoop, OrdersStay
<1>2. Types /\ settings \in Plans /\ pending \subseteq Signals BY DEF GateInv, Types
<1>3. desk' \in DeskType /\ pending' \subseteq Signals
  <2>1. CASE DeskStart(o) BY <1>2, <2>1 DEF DeskStart, DeskType
  <2>2. CASE DeskRefuse(o, snap) BY <1>2, <2>2, Idles DEF DeskRefuse
  <2> QED BY <2>1, <2>2
<1>4. Types' BY <1>1, <1>2, <1>3 DEF Types, OrdersStay
<1>5. Overseen' BY <1>1 DEF GateInv, Overseen, Counted, ByDesk, Own, OrdersStay
<1> QED BY <1>1, <1>4, <1>5, Quiet

LEMMA PassKeeps ==
    ASSUME GateInv, NEW o \in Signals \cup Legs, NEW snap, DeskPass(o, snap)
    PROVE  GateInv'
<1>1. PICK lost \in Lost(CycleReads \cup FreshReads) :
          /\ Executes(desk.s, Reads(lost), o, world.rates, snap, lost)
          /\ passed' = {[of |-> o, order |-> Placed(o, desk.s, world.rates, "desk", lost)]}
          /\ Costs(lost)
  BY DEF DeskPass
<1>2. OrdersStay /\ UNCHANGED <<pending, auto, desk>> BY DEF DeskPass, OrdersStay
<1>3. Types /\ desk \in DeskType /\ world \in Worlds BY DEF GateInv, Types
<1>4. desk.s \in Plans /\ world.rates \in BOOLEAN BY <1>3 DEF DeskType, Worlds
<1> PICK q : q = Placed(o, desk.s, world.rates, "desk", lost) OBVIOUS
<1> DEFINE p == [of |-> o, order |-> q]
<1>5. lost \in SUBSET (CycleReads \cup FreshReads) BY LostReads
<1>6. q \in Order /\ Bounded(q) BY <1>1, <1>4, <1>5, Placing
<1>7. q.s = desk.s /\ q.lost = lost /\ q.asset = o.asset /\ q.by = "desk" BY DEF Placed
<1>8. Fresh(desk.s, o.asset, lost) BY <1>1 DEF Executes
<1>10. p.order = q /\ p.of = o /\ passed' = {p} BY <1>1
<1>11. Ready(p) BY <1>6, <1>7, <1>8, <1>10 DEF Ready, Fresh
<1>12. Types'
  <2>1. turns' \in Turns BY <1>1, <1>3, LossCosts
  <2>2. passed' \subseteq PassedType BY <1>6, <1>10 DEF PassedType
  <2> QED BY <1>2, <1>3, <2>1, <2>2 DEF Types, OrdersStay
<1>13. Ready(p)' BY <1>2, <1>11 DEF Ready, OrdersStay
<1>14. (world.paused => "pause" \in p.order.lost) /\ world.market # "shut"
  BY <1>7, <1>8, <1>10 DEF Fresh
<1> HIDE DEF p
<1> QED BY <1>2, <1>10, <1>12, <1>13, <1>14, Lets

(***************************************************************************)
(* The broker                                                              *)
(***************************************************************************)
LEMMA FiredCounts ==
    ASSUME Types, NEW p \in passed
    PROVE  LET n == Len(orders) + 1
           IN  /\ Fired(p) \in ReadsType
               /\ Fired(p).today = auto.reads.today + 1 /\ Fired(p).week = auto.reads.week + 1
               /\ DOMAIN Fired(p).book["count"] = DOMAIN auto.reads.book["count"] \cup {n}
<1> DEFINE n == Len(orders) + 1
           row == RowOf(p.of.asset, p.of.buy, p.of.dist, p.order.lots)
           old == auto.reads
           b == [g \in BookReads |-> With(old.book[g], n, row)]
<1>1. /\ old \in ReadsType /\ p.of \in Signals \cup Legs /\ p.order \in Order /\ n \in Nat
  BY DEF Types, AutoType, PassedType
<1>2. row \in Row BY <1>1, EntryAssumption DEF RowOf, Row, Order
<1>3. Fired(p) = [old EXCEPT !.today = @ + 1, !.week = @ + 1, !.book = b]
  BY Zenon DEF Fired
<1> HIDE DEF row
<1>4. ASSUME NEW g \in BookReads
      PROVE  With(old.book[g], n, row) \in Books
             /\ DOMAIN With(old.book[g], n, row) = DOMAIN old.book[g] \cup {n}
  <2> DEFINE was == old.book[g]
  <2>1. was \in Books BY <1>1, <1>4 DEF ReadsType
  <2> HIDE DEF was
  <2>2. PICK seen \in SUBSET Nat : was \in [seen -> Row] BY <2>1 DEF Books
  <2> HIDE DEF n
  <2>3. With(was, n, row) = [k \in seen \cup {n} |-> IF k = n THEN row ELSE was[k]]
    BY <2>2 DEF With
  <2>4. With(was, n, row) \in [seen \cup {n} -> Row] BY <1>2, <2>2, <2>3
  <2>5. seen \cup {n} \in SUBSET Nat BY <1>1, <2>2
  <2>6. DOMAIN With(was, n, row) = DOMAIN was \cup {n} BY <2>2, <2>3
  <2>7. With(was, n, row) \in Books BY <2>4, <2>5 DEF Books
  <2> QED BY <2>6, <2>7 DEF was
<1>5. b \in [BookReads -> Books] BY <1>4
<1>6. b["count"] = With(old.book["count"], n, row) /\ "count" \in BookReads BY DEF BookReads
<1>7. DOMAIN b["count"] = DOMAIN old.book["count"] \cup {n} BY <1>4, <1>6
<1> HIDE DEF old, b
<1>8. /\ Fired(p) \in ReadsType /\ Fired(p).today = old.today + 1
      /\ Fired(p).week = old.week + 1 /\ Fired(p).book = b
  <2>1. old.today + 1 \in Nat /\ old.week + 1 \in Nat BY <1>1 DEF ReadsType
  <2>2. /\ Fired(p).today = old.today + 1 /\ Fired(p).week = old.week + 1
        /\ Fired(p).book = b
    BY <1>1, <1>3 DEF ReadsType
  <2>3. Fired(p) \in ReadsType BY <1>1, <1>3, <1>5, <2>1, Zenon DEF ReadsType
  <2> QED BY <2>2, <2>3
<1> QED BY <1>7, <1>8 DEF old

LEMMA PlaceTypes ==
    ASSUME GateInv, NEW p \in passed, Place(p)
    PROVE  /\ Types' /\ auto'.on = auto.on /\ auto'.lost = auto.lost /\ auto'.from = auto.from
           /\ auto'.s = auto.s
           /\ auto'.reads = IF p.order.by = "auto" THEN Fired(p) ELSE auto.reads
<1>1. Types BY DEF GateInv
<1>2. /\ auto \in AutoType /\ auto.from <= Len(orders) /\ desk \in DeskType
      /\ pending \subseteq Signals /\ open \subseteq DOMAIN orders /\ today \in Nat
      /\ week \in Nat /\ halt \in [paused : 0..Len(orders), market : 0..Len(orders)]
  BY <1>1 DEF Types
<1> DEFINE n == Len(orders) + 1
<1>3. /\ orders' \in Seq(Order) /\ Len(orders') = n /\ n \in Nat
      /\ DOMAIN orders' = DOMAIN orders \cup {n}
  BY <1>1, Grown
<1>4. /\ passed' = {} /\ open' = open \cup {n} /\ today' = today + 1 /\ week' = week + 1
      /\ pending' = pending \ {p.of}
      /\ UNCHANGED <<settings, world, cooled, loss, halt, turns>>
  BY DEF Place
<1>5. /\ auto' \in AutoType /\ auto'.on = auto.on /\ auto'.lost = auto.lost
      /\ auto'.from = auto.from /\ auto'.s = auto.s
      /\ auto'.reads = IF p.order.by = "auto" THEN Fired(p) ELSE auto.reads
  <2>1. CASE p.order.by = "auto"
    <3> DEFINE reads == Fired(p)
               less == [auto EXCEPT !.batch = @ \ {p.of}]
    <3>1. auto' = [less EXCEPT !.reads = reads] BY <2>1, Zenon DEF Place
    <3>2. less \in AutoType /\ less.on = auto.on /\ less.lost = auto.lost
          /\ less.from = auto.from /\ less.s = auto.s
      BY <1>2 DEF AutoType
    <3>3. reads \in ReadsType BY <1>1, FiredCounts
    <3> HIDE DEF reads, less
    <3>4. /\ auto' \in AutoType /\ auto'.on = auto.on /\ auto'.lost = auto.lost
          /\ auto'.from = auto.from /\ auto'.s = auto.s /\ auto'.reads = reads
      BY <3>1, <3>2, <3>3 DEF AutoType
    <3> QED BY <2>1, <3>4 DEF reads
  <2>2. CASE p.order.by # "auto"
    <3>1. auto' = auto BY <2>2 DEF Place
    <3> QED BY <1>2, <2>2, <3>1
  <2> QED BY <2>1, <2>2
<1>6. desk' \in DeskType BY <1>2, Idles DEF Place
<1>7. /\ auto'.from <= Len(orders') /\ open' \subseteq DOMAIN orders'
      /\ pending' \subseteq Signals /\ today' \in Nat /\ week' \in Nat
  <2>1. auto.from \in Nat /\ Len(orders) \in Nat BY <1>2, <1>1 DEF AutoType, Types
  <2> QED BY <1>2, <1>3, <1>4, <1>5, <2>1
<1>8. halt' \in [paused : 0..Len(orders'), market : 0..Len(orders')]
  <2>1. Len(orders) \in Nat BY <1>1 DEF Types
  <2>2. 0..Len(orders) \subseteq 0..Len(orders') BY <1>3, <2>1
  <2> QED BY <1>2, <1>4, <2>2
<1>9. /\ settings' \in Plans /\ world' \in Worlds /\ cooled' \subseteq Assets /\ loss' \in Nat
      /\ turns' \in Turns /\ passed' \subseteq PassedType
  BY <1>1, <1>4 DEF Types
<1> QED BY <1>3, <1>5, <1>6, <1>7, <1>8, <1>9 DEF Types

\* an order joins the cycle's own, or the desk's
LEMMA Joins ==
    ASSUME Types, NEW p \in passed, Place(p), auto'.from = auto.from
    PROVE  LET n == Len(orders) + 1
           IN  IF p.order.by = "auto"
               THEN /\ Own' = Own \cup {n} /\ ByDesk' = ByDesk
                    /\ Cardinality(Own') = Cardinality(Own) + 1
               ELSE /\ Own' = Own /\ ByDesk' = ByDesk \cup {n}
                    /\ Cardinality(ByDesk') = Cardinality(ByDesk) + 1
<1> DEFINE n == Len(orders) + 1
<1>1. /\ DOMAIN orders' = DOMAIN orders \cup {n} /\ n \notin DOMAIN orders /\ n \in Nat
      /\ \A k \in DOMAIN orders : orders'[k] = orders[k]
      /\ orders'[n] = p.order /\ p.order \in Order
  BY Grown
<1>2. n > auto.from
  <2>1. auto.from \in Nat /\ auto.from <= Len(orders) /\ Len(orders) \in Nat
    BY DEF Types, AutoType
  <2> QED BY <2>1
<1>3. p.order.by = "auto" \/ p.order.by = "desk" BY <1>1 DEF Order
<1>4. n \notin Own /\ n \notin ByDesk BY <1>1 DEF Own, ByDesk
<1> HIDE DEF n
<1>5. CASE p.order.by = "auto"
  <2>1. Own' = Own \cup {n} /\ ByDesk' = ByDesk BY <1>1, <1>2, <1>5 DEF Own, ByDesk
  <2> QED BY <1>4, <1>5, <2>1, Nobody, FS_AddElement DEF n
<1>6. CASE p.order.by = "desk"
  <2>1. Own' = Own /\ ByDesk' = ByDesk \cup {n} BY <1>1, <1>2, <1>6 DEF Own, ByDesk
  <2> QED BY <1>4, <1>6, <2>1, Nobody, FS_AddElement DEF n
<1> QED BY <1>3, <1>5, <1>6

LEMMA PlaceKeeps ==
    ASSUME GateInv, NEW p \in passed, Place(p)
    PROVE  GateInv'
<1> DEFINE n == Len(orders) + 1
<1>1. /\ Types /\ Ready(p) /\ Overseen /\ LastOne
      /\ \A k \in DOMAIN orders : Bounded(orders[k])
  BY DEF GateInv
<1>2. /\ Types' /\ auto'.on = auto.on /\ auto'.lost = auto.lost /\ auto'.from = auto.from
      /\ auto'.reads = IF p.order.by = "auto" THEN Fired(p) ELSE auto.reads
  BY PlaceTypes
<1>3. /\ DOMAIN orders' = DOMAIN orders \cup {n} /\ n \notin DOMAIN orders
      /\ \A k \in DOMAIN orders : orders'[k] = orders[k]
      /\ orders'[n] = p.order /\ n \in Nat
  BY <1>1, Grown
<1>4. /\ passed' = {} /\ open' = open \cup {n} /\ today' = today + 1 /\ week' = week + 1
      /\ UNCHANGED <<world, halt>>
  BY DEF Place
<1>5. \A k \in DOMAIN orders' : Bounded(orders'[k]) BY <1>1, <1>3 DEF Ready
<1>6. \A q \in passed' : Ready(q)' BY <1>4
<1>7. Overseen'
  <2> SUFFICES ASSUME auto.on
      PROVE  /\ "count" \notin auto.lost =>
                   open' \ ByDesk' \subseteq DOMAIN auto'.reads.book["count"]
             /\ Own' \subseteq DOMAIN auto'.reads.book["count"]
             /\ DOMAIN auto'.reads.book["count"] \subseteq DOMAIN orders'
             /\ Counted(Cardinality(ByDesk), Cardinality(Own))'
    BY <1>2 DEF Overseen
  <2>1. /\ "count" \notin auto.lost => open \ ByDesk \subseteq DOMAIN auto.reads.book["count"]
        /\ Own \subseteq DOMAIN auto.reads.book["count"]
        /\ DOMAIN auto.reads.book["count"] \subseteq DOMAIN orders
        /\ Counted(Cardinality(ByDesk), Cardinality(Own))
    BY <1>1 DEF Overseen
  <2>2. /\ auto.reads.today \in Nat /\ auto.reads.week \in Nat /\ today \in Nat /\ week \in Nat
        /\ Cardinality(ByDesk) \in Nat /\ Cardinality(Own) \in Nat
    BY <1>1, Nobody DEF Types, AutoType, ReadsType
  <2> HIDE DEF n
  <2>3. CASE p.order.by = "auto"
    <3>1. /\ Own' = Own \cup {n} /\ ByDesk' = ByDesk
          /\ Cardinality(Own') = Cardinality(Own) + 1
      BY <1>1, <1>2, <2>3, Joins DEF n
    <3>2. /\ auto'.reads.today = auto.reads.today + 1 /\ auto'.reads.week = auto.reads.week + 1
          /\ DOMAIN auto'.reads.book["count"] = DOMAIN auto.reads.book["count"] \cup {n}
      BY <1>1, <1>2, <2>3, FiredCounts DEF n
    <3>3. Cardinality(ByDesk') = Cardinality(ByDesk) BY <3>1
    <3>4. Counted(Cardinality(ByDesk), Cardinality(Own))'
      BY <1>2, <1>4, <2>1, <2>2, <3>1, <3>2, <3>3 DEF Counted
    <3> QED BY <1>3, <1>4, <2>1, <3>1, <3>2, <3>4
  <2>4. CASE p.order.by # "auto"
    <3>1. /\ Own' = Own /\ ByDesk' = ByDesk \cup {n}
          /\ Cardinality(ByDesk') = Cardinality(ByDesk) + 1
      BY <1>1, <1>2, <2>4, Joins DEF n
    <3>2. auto'.reads = auto.reads BY <1>2, <2>4
    <3>3. Cardinality(Own') = Cardinality(Own) BY <3>1
    <3>4. Counted(Cardinality(ByDesk), Cardinality(Own))'
      BY <1>2, <1>4, <2>1, <2>2, <3>1, <3>2, <3>3 DEF Counted
    <3> QED BY <1>3, <1>4, <2>1, <3>1, <3>2, <3>4
  <2> QED BY <2>3, <2>4
<1>8. LastOne'
  <2> HIDE DEF n
  <2>1. /\ Late(halt.paused, "pause")' \subseteq Late(halt.paused, "pause") \cup {n}
        /\ "pause" \in p.order.lost =>
              Late(halt.paused, "pause")' \subseteq Late(halt.paused, "pause")
        /\ Late(halt.market, "market")' \subseteq Late(halt.market, "market") \cup {n}
    BY <1>3, <1>4 DEF Late
  <2>2. ASSUME NEW X, NEW Y \in SUBSET X, AtMostOne(X) PROVE AtMostOne(Y)
    BY <2>2 DEF AtMostOne
  <2>3. ASSUME NEW Y \in SUBSET {n} PROVE AtMostOne(Y)
    BY DEF AtMostOne
  <2>4. world.paused => AtMostOne(Late(halt.paused, "pause")')
    <3>1. CASE "pause" \in p.order.lost
      <4>1. world.paused => AtMostOne(Late(halt.paused, "pause"))
        BY <1>1 DEF LastOne, OneLate
      <4> QED BY <2>1, <2>2, <3>1, <4>1
    <3>2. CASE "pause" \notin p.order.lost
      <4>1. world.paused => Late(halt.paused, "pause") = {} BY <1>1, <3>2 DEF LastOne
      <4> QED BY <2>1, <2>3, <4>1
    <3> QED BY <3>1, <3>2
  <2>5. world.market = "shut" => AtMostOne(Late(halt.market, "market")')
    <3>1. world.market = "shut" => Late(halt.market, "market") = {} BY <1>1 DEF LastOne
    <3> QED BY <2>1, <2>3, <3>1
  <2> QED BY <1>4, <2>4, <2>5 DEF LastOne, OneLate, Late, AtMostOne
<1> QED BY <1>2, <1>5, <1>6, <1>7, <1>8 DEF GateInv

(***************************************************************************)
(* Beside the orders: closes, the market, the clock and the owner          *)
(***************************************************************************)
Aside ==
    \/ \E k \in open : Close(k)
    \/ \E a \in cooled : Cooled(a)
    \/ Midnight \/ WorldTurns \/ ChangeSettings

LEMMA AsideTypes ==
    ASSUME Types, Aside
    PROVE  /\ Types' /\ UNCHANGED <<auto, desk, passed, orders>>
           /\ open' \subseteq open /\ today' <= today /\ week' <= week
           /\ passed # {} => loss' <= loss /\ cooled' \subseteq cooled
           /\ \/ UNCHANGED <<world, halt>>
              \/ WorldTurns
<1>1. /\ orders \in Seq(Order) /\ open \subseteq DOMAIN orders /\ today \in Nat /\ week \in Nat
      /\ loss \in Nat /\ turns \in Turns /\ world \in Worlds /\ cooled \subseteq Assets
      /\ halt \in [paused : 0..Len(orders), market : 0..Len(orders)] /\ Len(orders) \in Nat
  BY DEF Types
<1>2. CASE \E k \in open : Close(k)
  <2>1. PICK k \in open : Close(k) BY <1>2
  <2> DEFINE o == orders[k]
             risk == RiskOf(o.asset, TRUE, OpenRows[k].dist, o.lots)
  <2>2. o \in Order BY <1>1
  <2>3. OpenRows[k].dist \in Nat
    <3>1. Spread[o.asset] \in Nat BY <2>2, EntryAssumption DEF Order
    <3>2. Spread[o.asset] \div 2 \in Nat BY <3>1, Quotients
    <3>3. FillDist(o) \in Nat BY <2>2, <3>2 DEF FillDist, Order
    <3> QED BY <3>3 DEF OpenRows, RowOf
  <2>4. risk \in Nat BY <2>2, <2>3, Worths DEF Order
  <2>5. /\ open' = open \ {k} /\ cooled' = cooled \cup {o.asset}
        /\ loss' \in {loss, loss + risk} /\ passed = {}
        /\ UNCHANGED <<settings, world, pending, today, week, auto, desk, passed, orders, halt,
                       turns>>
    BY <2>1 DEF Close, OnLoop
  <2> HIDE DEF risk
  <2>6. loss' \in Nat BY <1>1, <2>4, <2>5
  <2>7. cooled' \subseteq Assets BY <1>1, <2>2, <2>5 DEF Order
  <2> QED BY <1>1, <2>5, <2>6, <2>7 DEF Types
<1>3. ASSUME Turn PROVE turns' \in Turns
  <2>1. turns.world + 1 \in 0..MaxTurns
    BY <1>1, <1>3, EntryAssumption DEF Turn, Turns
  <2> QED BY <1>1, <1>3, <2>1, Zenon DEF Turn, Turns
<1>4. CASE \E a \in cooled : Cooled(a) BY <1>1, <1>3, <1>4 DEF Cooled, Types
<1>5. CASE Midnight BY <1>1, <1>3, <1>5 DEF Midnight, Types
<1>6. CASE WorldTurns
  <2>1. turns' \in Turns
        /\ UNCHANGED <<settings, pending, open, cooled, loss, today, week, auto, desk, passed,
                       orders>>
    BY <1>3, <1>6 DEF WorldTurns
  <2>2. /\ world' \in Worlds
        /\ halt' \in [paused : 0..Len(orders), market : 0..Len(orders)]
    <3>1. CASE world' = [world EXCEPT !.paused = ~@] /\ halt' = [halt EXCEPT !.paused = Len(orders)]
      <4>1. world' \in Worlds BY <1>1, <3>1, Zenon DEF Worlds
      <4>2. Len(orders) \in 0..Len(orders) BY <1>1
      <4> QED BY <1>1, <3>1, <4>1, <4>2, Zenon
    <3>2. CASE world' = [world EXCEPT !.rates = ~@] /\ halt' = halt BY <1>1, <3>2 DEF Worlds
    <3>3. ASSUME NEW m \in Markets \ {world.market}, world' = [world EXCEPT !.market = m],
                 halt' = [halt EXCEPT !.market = Len(orders)]
          PROVE  /\ world' \in Worlds
                 /\ halt' \in [paused : 0..Len(orders), market : 0..Len(orders)]
      BY <1>1, <3>3 DEF Worlds
    <3>4. ASSUME NEW n \in News \ {world.news}, world' = [world EXCEPT !.news = n], halt' = halt
          PROVE  /\ world' \in Worlds
                 /\ halt' \in [paused : 0..Len(orders), market : 0..Len(orders)]
      BY <1>1, <3>4 DEF Worlds
    <3> QED BY <1>6, <3>1, <3>2, <3>3, <3>4 DEF WorldTurns
  <2> QED BY <1>1, <1>6, <2>1, <2>2 DEF Types
<1>7. CASE ChangeSettings BY <1>1, <1>3, <1>7 DEF ChangeSettings, Types
<1> QED BY <1>2, <1>4, <1>5, <1>6, <1>7 DEF Aside

LEMMA TurnsLast ==
    ASSUME Types, LastOne, WorldTurns
    PROVE  LastOne'
<1>1. /\ Len(orders) \in Nat /\ DOMAIN orders = 1..Len(orders) /\ world \in Worlds
      /\ halt \in [paused : 0..Len(orders), market : 0..Len(orders)]
  BY DEF Types
<1>2. UNCHANGED <<passed, orders>> BY DEF WorldTurns
<1>3. \A read : Late(Len(orders), read) = {} BY <1>1 DEF Late
<1>4. \A since, read : Late(since, read)' = Late(since, read)
  BY <1>2 DEF Late
<1> DEFINE Paused == world.paused => /\ AtMostOne(Late(halt.paused, "pause"))
                                     /\ Late(halt.paused, "pause") # {} =>
                                          \A p \in passed : "pause" \in p.order.lost
           Shut == world.market = "shut" => /\ AtMostOne(Late(halt.market, "market"))
                                            /\ Late(halt.market, "market") # {} => passed = {}
<1>5. Paused /\ Shut BY DEF LastOne, OneLate
<1>6. \/ halt'.paused = halt.paused /\ world'.paused = world.paused
      \/ halt'.paused = Len(orders)
  BY <1>1 DEF WorldTurns, Worlds
<1>7. \/ halt'.market = halt.market /\ world'.market = world.market
      \/ halt'.market = Len(orders)
  BY <1>1 DEF WorldTurns, Worlds
<1>8. Paused'
  <2>1. CASE halt'.paused = halt.paused /\ world'.paused = world.paused
    BY <1>2, <1>5, <2>1 DEF Late, AtMostOne
  <2>2. CASE halt'.paused = Len(orders)
    <3>1. Late(halt.paused, "pause")' = {} BY <1>2, <1>3, <2>2 DEF Late
    <3> QED BY <3>1 DEF AtMostOne
  <2> QED BY <1>6, <2>1, <2>2
<1>9. Shut'
  <2>1. CASE halt'.market = halt.market /\ world'.market = world.market
    BY <1>2, <1>5, <2>1 DEF Late, AtMostOne
  <2>2. CASE halt'.market = Len(orders)
    <3>1. Late(halt.market, "market")' = {} BY <1>2, <1>3, <2>2 DEF Late
    <3> QED BY <3>1 DEF AtMostOne
  <2> QED BY <1>7, <2>1, <2>2
<1> QED BY <1>8, <1>9 DEF LastOne, OneLate

LEMMA AsideKeeps ==
    ASSUME GateInv, Aside
    PROVE  GateInv'
<1>1. /\ Types /\ Overseen /\ LastOne /\ \A p \in passed : Ready(p)
      /\ \A k \in DOMAIN orders : Bounded(orders[k])
  BY DEF GateInv
<1>2. /\ Types' /\ UNCHANGED <<auto, desk, passed, orders>>
      /\ open' \subseteq open /\ today' <= today /\ week' <= week
      /\ passed # {} => loss' <= loss /\ cooled' \subseteq cooled
      /\ (UNCHANGED <<world, halt>> \/ WorldTurns)
  BY <1>1, AsideTypes
<1>3. LastOne'
  <2>1. CASE UNCHANGED <<world, halt>> BY <1>1, <1>2, <2>1 DEF LastOne, OneLate, Late, AtMostOne
  <2>2. CASE WorldTurns BY <1>1, <2>2, TurnsLast
  <2> QED BY <1>2, <2>1, <2>2
<1>4. ASSUME NEW p \in passed PROVE Ready(p)'
  <2>1. p.order.s.daily \in Nat
    <3>1. p \in PassedType BY <1>1 DEF Types
    <3>2. p.order.s \in Plans BY <3>1 DEF PassedType, Order
    <3> QED BY <3>2, EntryAssumption DEF Settings
  <2>2. loss \in Nat /\ loss' \in Nat BY <1>1, <1>2 DEF Types
  <2>3. loss' <= loss /\ cooled' \subseteq cooled BY <1>2, <1>4
  <2> QED BY <1>1, <1>2, <1>4, <2>1, <2>2, <2>3 DEF Ready
<1>5. Overseen'
  <2>1. UNCHANGED <<Own, ByDesk>> BY <1>2 DEF Own, ByDesk
  <2>2. /\ auto.reads.today \in Nat /\ auto.reads.week \in Nat /\ today \in Nat /\ week \in Nat
        /\ Cardinality(ByDesk) \in Nat /\ today' \in Nat /\ week' \in Nat
    BY <1>1, <1>2, Nobody DEF Types, AutoType, ReadsType
  <2>3. ASSUME Counted(Cardinality(ByDesk), Cardinality(Own))
        PROVE  Counted(Cardinality(ByDesk), Cardinality(Own))'
    BY <1>2, <2>1, <2>2, <2>3 DEF Counted
  <2> QED BY <1>1, <1>2, <2>1, <2>3 DEF Overseen
<1> QED BY <1>1, <1>2, <1>3, <1>4, <1>5 DEF GateInv

LEMMA GateStart == Init => GateInv
<1> SUFFICES ASSUME Init PROVE GateInv
  OBVIOUS
<1>1. /\ settings \in Plans /\ pending = Signals /\ open = {} /\ cooled = {} /\ loss = 0
      /\ today = 0 /\ week = 0 /\ orders = <<>> /\ auto = Idle /\ desk = NoDesk
      /\ passed = {} /\ halt = [paused |-> 0, market |-> 0]
      /\ turns = [world |-> 0, reads |-> 0]
      /\ world = [paused |-> FALSE, market |-> "open", news |-> "safe", rates |-> TRUE]
  BY DEF Init
<1>2. world \in Worlds BY <1>1 DEF Worlds, Markets, News
<1>4. orders \in Seq(Order) /\ Len(orders) = 0 /\ DOMAIN orders = {} BY <1>1
<1>5. halt \in [paused : 0..Len(orders), market : 0..Len(orders)] BY <1>1, <1>4
<1>9. turns \in Turns BY <1>1, EntryAssumption DEF Turns
<1>6. Types BY <1>1, <1>2, <1>4, <1>5, <1>9, Idles, EntryAssumption DEF Types
<1>7. Overseen BY <1>1, Idles DEF Overseen
<1>8. LastOne BY <1>1 DEF LastOne, OneLate
<1> QED BY <1>1, <1>4, <1>6, <1>7, <1>8 DEF GateInv

LEMMA GateStep == GateInv /\ [EntryNext]_allVars => GateInv'
<1> SUFFICES ASSUME GateInv, [EntryNext]_allVars PROVE GateInv'
  OBVIOUS
<1>1. Next \/ UNCHANGED vars BY DEF EntryNext, allVars
<1>2. CASE UNCHANGED vars
  <2>1. OrdersStay /\ UNCHANGED <<pending, auto, desk, passed, turns>>
    BY <1>2 DEF vars, OrdersStay
  <2>2. Types' BY <2>1 DEF GateInv, Types, OrdersStay
  <2>3. Overseen' /\ LastOne'
    BY <2>1 DEF GateInv, Overseen, Counted, ByDesk, Own, LastOne, OneLate, Late, OrdersStay
  <2>4. \A k \in DOMAIN orders' : Bounded(orders'[k]) BY <2>1 DEF GateInv, OrdersStay
  <2>5. \A p \in passed' : Ready(p)' BY <2>1 DEF GateInv, Ready, OrdersStay
  <2> QED BY <2>2, <2>3, <2>4, <2>5 DEF GateInv
<1>3. CASE Next
  <2>1. CASE AutoStart BY <2>1, StartKeeps
  <2>2. CASE AutoEnd BY <2>2, RefuseKeeps
  <2>3. ASSUME NEW o \in Signals, AutoRefuse(o) \/ \E snap \in Snaps : AutoFire(o, snap)
        PROVE  GateInv'
    BY <2>3, RefuseKeeps, FireKeeps
  <2>4. ASSUME NEW o \in Signals \cup Legs,
               DeskStart(o) \/ \E snap \in Snaps : DeskPass(o, snap) \/ DeskRefuse(o, snap)
        PROVE  GateInv'
    BY <2>4, DeskKeeps, PassKeeps
  <2>5. CASE \E p \in passed : Place(p) BY <2>5, PlaceKeeps
  <2>6. CASE Aside BY <2>6, AsideKeeps
  <2> QED BY <1>3, <2>1, <2>2, <2>3, <2>4, <2>5, <2>6 DEF Next, Aside
<1> QED BY <1>1, <1>2, <1>3

LEMMA GatesHold == EntrySpec => []GateInv
<1>1. EntryInit => GateInv BY GateStart DEF EntryInit
<1> QED BY <1>1, GateStep, PTL DEF EntrySpec

(***************************************************************************)
(* Theorems                                                                *)
(***************************************************************************)
\* The types of EntryGates, whatever is saved, priced and decided.
THEOREM EntryAlwaysTyped == EntrySpec => []TypeOK
<1>1. GateInv => TypeOK
  <2> SUFFICES ASSUME GateInv PROVE TypeOK
    OBVIOUS
  <2>1. Types BY DEF GateInv
  <2>2. /\ auto.on \in BOOLEAN /\ auto.s \in Plans /\ auto.batch \subseteq Signals
        /\ auto.held \subseteq Assets /\ auto.from \in 0..Len(orders)
        /\ auto.lost \subseteq CycleReads
    BY <2>1 DEF Types, AutoType
  <2>3. \A g \in BookReads : \A k \in DOMAIN auto.reads.book[g] : auto.reads.book[g][k] \in Row
    <3>1. \A g \in BookReads : auto.reads.book[g] \in Books
      BY <2>1 DEF Types, AutoType, ReadsType
    <3> SUFFICES ASSUME NEW g \in BookReads, NEW k \in DOMAIN auto.reads.book[g]
                 PROVE  auto.reads.book[g][k] \in Row
      OBVIOUS
    <3>2. PICK seen \in SUBSET Nat : auto.reads.book[g] \in [seen -> Row]
      BY <3>1 DEF Books
    <3> QED BY <3>2
  <2>4. desk.on \in BOOLEAN /\ desk.s \in Plans /\ desk.of \subseteq Signals \cup Legs
    BY <2>1 DEF Types, DeskType
  <2>5. \A p \in passed : p.of \in Signals \cup Legs /\ p.order \in Order
    BY <2>1 DEF Types, PassedType
  <2> QED BY <2>1, <2>2, <2>3, <2>4, <2>5, EntryAssumption DEF Types, TypeOK
<1> QED BY <1>1, GatesHold, PTL

\* An order the platform sizes, stopped out from the price it was filled at,
\* loses no more than its budget, half a hundredth of a lot and half a spread, in
\* the worth of a point it was sized with; and no stop lies within as many spreads
\* as the owner asks for, whatever tier, band, cap, floor and smallest lot are
\* saved. An order sized while the feed of rates was down is bounded in nominal
\* worth only: in dollars it may lose more.
THEOREM OrdersAlwaysBounded == EntrySpec => []OrdersBounded
<1>1. GateInv => OrdersBounded
  <2> SUFFICES ASSUME GateInv PROVE OrdersBounded
    OBVIOUS
  <2>1. \A k \in DOMAIN orders : Bounded(orders[k]) BY DEF GateInv
  <2> QED BY <2>1 DEF Bounded, OrdersBounded, WithinBudget, OutsideSpread
<1> QED BY <1>1, GatesHold, PTL

\* The card of a pending signal and the order it would become pass the same
\* gates, whatever the journal and the world look like, when their reads succeed.
THEOREM CardAlwaysAgrees == EntrySpec => []CardAgrees
<1>1. GateInv => CardAgrees
  <2> DEFINE r == Reads({})
  <2> SUFFICES ASSUME GateInv, NEW o \in pending, NEW known \in BOOLEAN,
                      NEW snap \in Snaps \ {"none"}
               PROVE  Card(o, known, snap) <=> /\ o.asset \notin Held
                                               /\ Executes(settings, r, o, known, snap, {})
    BY DEF CardAgrees, CardHonest
  <2>1. o \in Signals BY DEF GateInv, Types
  <2>2. o.lots = 0 /\ (o.lots = 0) = TRUE /\ ~(o.lots > 0) BY <2>1, EntryAssumption
  <2>3. snap = "agrees" <=> snap # "against" BY DEF Snaps
  <2>7. Card(o, known, snap) <=> CardReady(settings, r, Held, o, known, snap) BY DEF Card
  <2> HIDE DEF r
  <2> DEFINE dist == Effective(settings, o.asset, known, o.dist, TRUE)
  <2>4. Effective(settings, o.asset, known, o.dist, o.lots = 0) = dist BY <2>2
  <2>5. Lots(settings, o, known, dist) = Sized(settings, o.asset, known, dist)
    BY <2>2 DEF Lots
  <2>8. CardReady(settings, r, Held, o, known, snap) <=>
           /\ o.asset \notin Held /\ Valid(settings) /\ Fresh(settings, o.asset, {})
           /\ Analytic(settings, r, o, known, dist)
           /\ Sized(settings, o.asset, known, dist) > 0
           /\ ~Breach(settings, o.asset, known, dist)
           /\ ~TooTight(settings, o.asset, known, dist)
           /\ snap # "against"
    BY DEF CardReady
  <2> HIDE DEF dist
  <2>6. Executes(settings, r, o, known, snap, {}) <=>
           /\ Valid(settings) /\ Fresh(settings, o.asset, {})
           /\ Analytic(settings, r, o, known, dist)
           /\ Lots(settings, o, known, dist) > 0
           /\ snap = "agrees" /\ ~Breach(settings, o.asset, known, dist)
           /\ ~TooTight(settings, o.asset, known, dist)
    BY <2>2, <2>4 DEF Executes
  <2> QED BY <2>3, <2>5, <2>6, <2>7, <2>8
<1> QED BY <1>1, GatesHold, PTL

\* an order comes from one past its gates
LEMMA OrdersCome ==
    ASSUME Types, Next, NEW n \in DOMAIN orders' \ DOMAIN orders
    PROVE  \E p \in passed : Place(p) /\ orders'[n] = p.order
<1>1. ~UNCHANGED orders OBVIOUS
<1>2. ~Aside BY <1>1, AsideTypes
<1>3. ~AutoStart /\ ~AutoEnd
      /\ \A o \in Signals : ~AutoRefuse(o) /\ \A snap \in Snaps : ~AutoFire(o, snap)
  BY <1>1 DEF AutoStart, AutoEnd, AutoRefuse, AutoFire
<1>4. \A o \in Signals \cup Legs :
          ~DeskStart(o) /\ \A snap \in Snaps : ~DeskPass(o, snap) /\ ~DeskRefuse(o, snap)
  BY <1>1 DEF DeskStart, DeskPass, DeskRefuse
<1>5. \E p \in passed : Place(p) BY <1>2, <1>3, <1>4 DEF Next, Aside
<1>6. PICK p \in passed : Place(p) BY <1>5
<1>7. DOMAIN orders' = DOMAIN orders \cup {Len(orders) + 1} /\ orders'[Len(orders) + 1] = p.order
  BY <1>6, Grown
<1> QED BY <1>6, <1>7

LEMMA QuotaKept ==
    ASSUME GateInv, NEW p \in passed, p.order.by = "auto"
    PROVE  LET o == p.order
           IN  /\ "count" \notin o.lost => Cardinality(open \ ByDesk) < o.s.maxOpen
               /\ "journal" \notin o.lost =>
                     /\ today < o.s.perDay + Cardinality(ByDesk)
                     /\ week < o.s.perWeek + Cardinality(ByDesk)
               /\ Cardinality(Own) < o.s.perDay
               /\ Cardinality(Own) < o.s.perWeek
               /\ Cardinality(Own) < o.s.maxOpen
<1> DEFINE o == p.order
           seen == DOMAIN auto.reads.book["count"]
<1>1. /\ Types /\ Overseen /\ auto.on /\ o.s = auto.s /\ auto.lost \subseteq o.lost
      /\ auto.reads.today < auto.s.perDay /\ auto.reads.week < auto.s.perWeek
      /\ Cardinality(seen) < auto.s.maxOpen
  BY DEF GateInv, Ready
<1>2. /\ "count" \notin o.lost => open \ ByDesk \subseteq seen
      /\ Own \subseteq seen /\ seen \subseteq DOMAIN orders
      /\ "journal" \notin o.lost => /\ today <= auto.reads.today + Cardinality(ByDesk)
                                    /\ week <= auto.reads.week + Cardinality(ByDesk)
      /\ Cardinality(Own) <= auto.reads.today /\ Cardinality(Own) <= auto.reads.week
  BY <1>1 DEF Overseen, Counted
<1>3. IsFiniteSet(seen) /\ Cardinality(seen) \in Nat
  <2>1. DOMAIN orders = 1..Len(orders) /\ Len(orders) \in Nat BY <1>1 DEF Types
  <2>2. IsFiniteSet(DOMAIN orders) BY <2>1, FS_Interval
  <2> QED BY <1>2, <2>2, FS_Subset, FS_CardinalityType
<1> HIDE DEF o, seen
<1>4. ASSUME NEW S, S \subseteq seen
      PROVE  Cardinality(S) \in Nat /\ Cardinality(S) <= Cardinality(seen)
  BY <1>3, <1>4, FS_Subset, FS_CardinalityType
<1>5. /\ auto.s.maxOpen \in Nat /\ auto.s.perDay \in Nat /\ auto.s.perWeek \in Nat
      /\ auto.reads.today \in Nat /\ auto.reads.week \in Nat
      /\ today \in Nat /\ week \in Nat /\ Cardinality(ByDesk) \in Nat
  BY <1>1, Nobody, EntryAssumption DEF Types, AutoType, ReadsType, Settings
<1>6. "count" \notin o.lost => Cardinality(open \ ByDesk) < o.s.maxOpen
  BY <1>1, <1>2, <1>3, <1>4, <1>5
<1>7. "journal" \notin o.lost => /\ today < o.s.perDay + Cardinality(ByDesk)
                                 /\ week < o.s.perWeek + Cardinality(ByDesk)
  BY <1>1, <1>2, <1>5
<1>8. /\ Cardinality(Own) < o.s.perDay /\ Cardinality(Own) < o.s.perWeek
      /\ Cardinality(Own) < o.s.maxOpen
  BY <1>1, <1>2, <1>3, <1>4, <1>5
<1> QED BY <1>6, <1>7, <1>8 DEF o

\* A cycle of the auto trader keeps its quotas on its one read of the journal, and
\* for its own orders even when that read failed; after a pause or the close of
\* the market comes at most the one order already past its gates, after a loss
\* beyond the limit or a close of its asset none, unless the read that would have
\* told so failed.
THEOREM CycleAlwaysBounded == EntrySpec => CycleBounded
<1> DEFINE Quota == \A n \in DOMAIN orders' \ DOMAIN orders :
              LET o == orders'[n]
              IN  o.by = "auto" =>
                    /\ "count" \notin o.lost =>
                          Cardinality(open \ ByDesk) < o.s.maxOpen
                    /\ "journal" \notin o.lost =>
                          /\ today < o.s.perDay + Cardinality(ByDesk)
                          /\ week < o.s.perWeek + Cardinality(ByDesk)
                    /\ Cardinality(Own) < o.s.perDay
                    /\ Cardinality(Own) < o.s.perWeek
                    /\ Cardinality(Own) < o.s.maxOpen
           Halts == \A n \in DOMAIN orders' \ DOMAIN orders :
              LET o == orders'[n]
              IN  /\ "kill" \notin o.lost => loss <= o.s.daily
                  /\ "cooldown" \notin o.lost => o.asset \notin cooled
<1>1. GateInv /\ [EntryNext]_allVars => [Quota /\ Halts]_vars
  <2> SUFFICES ASSUME GateInv, [EntryNext]_allVars, ~UNCHANGED vars
               PROVE  Quota /\ Halts
    OBVIOUS
  <2>1. Types BY DEF GateInv
  <2>2. Next BY DEF EntryNext, allVars
  <2>3. \A n \in DOMAIN orders' \ DOMAIN orders : \E p \in passed : orders'[n] = p.order
    BY <2>1, <2>2, OrdersCome
  <2>4. Quota BY <2>3, QuotaKept
  <2>5. Halts BY <2>3 DEF GateInv, Ready
  <2> QED BY <2>4, <2>5
<1>2. EntrySpec => [][Quota /\ Halts]_vars BY <1>1, GatesHold, PTL DEF EntrySpec
<1>3. [Quota /\ Halts]_vars => [Quota]_vars /\ [Halts]_vars OBVIOUS
<1>4. EntrySpec => [][Quota]_vars /\ [][Halts]_vars BY <1>2, <1>3, PTL
<1>5. GateInv => OneLate BY DEF GateInv, LastOne
<1>6. EntrySpec => []OneLate BY <1>5, GatesHold, PTL
<1> QED BY <1>4, <1>6 DEF CycleBounded, QuotaInCycle, StopsAtOnce, NoneBeyond

(***************************************************************************)
(* The bench of the evidence                                               *)
(***************************************************************************)
Seen == bench = "setup" => ind \in E!SnapType

LEMMA SeenAlways == EntrySpec => []Seen
<1>1. EntryInit => Seen
  BY CardAssumption DEF EntryInit, Seen, E!SetupInit, E!SnapType
<1>2. Seen /\ [EntryNext]_allVars => Seen'
  <2> SUFFICES ASSUME Seen, [EntryNext]_allVars, bench' = "setup" PROVE ind' \in E!SnapType
    BY DEF Seen
  <2>1. bench = "setup" BY DEF EntryNext, allVars
  <2>2. ind \in E!SnapType BY <2>1 DEF Seen
  <2>3. E!SetupNext \/ UNCHANGED ind BY <2>1 DEF EntryNext, allVars
  <2>4. CASE UNCHANGED ind BY <2>2, <2>4
  <2>5. CASE E!SetupNext
    <3>1. PICK f \in {"gap", "adx", "st", "rsi", "atr", "sent", "brk"} : E!Moves(f)
      BY <2>5 DEF E!SetupNext
    <3>2. PICK v \in Values[f] : ind' = [ind EXCEPT ![f] = v] BY <3>1 DEF E!Moves
    <3> QED BY <2>2, <3>1, <3>2, CardAssumption DEF E!SnapType
  <2> QED BY <2>3, <2>4, <2>5
<1> QED BY <1>1, <1>2, PTL DEF EntrySpec

\* what the feed leaves of a snapshot
LEMMA Fed ==
    ASSUME NEW s \in E!SnapType
    PROVE  /\ E!FromFeed(s) \in E!SnapType /\ E!FromFeed(s).news = FALSE
           /\ E!FromFeed(s).gap = s.gap /\ E!FromFeed(s).adx = s.adx
           /\ E!FromFeed(s).st = s.st /\ E!FromFeed(s).atr = s.atr
           /\ E!FromFeed(s).brk = s.brk
<1> DEFINE q == [s EXCEPT !.news = FALSE]
<1>1. /\ q \in E!SnapType /\ q.news = FALSE /\ q.gap = s.gap /\ q.adx = s.adx
      /\ q.st = s.st /\ q.atr = s.atr /\ q.brk = s.brk
  BY DEF E!SnapType
<1>2. E!FromFeed(s) = [q EXCEPT !.sent = 0] BY Zenon DEF E!FromFeed
<1> HIDE DEF q
<1> QED BY <1>1, <1>2 DEF E!SnapType

LEMMA Mirrors ==
    ASSUME NEW s \in E!SnapType
    PROVE  /\ E!Mirror(s).gap = -s.gap /\ E!Mirror(s).st = -s.st
           /\ E!Mirror(s).rsi = 100 - s.rsi /\ E!Mirror(s).sent = -s.sent
           /\ E!Mirror(s).adx = s.adx /\ E!Mirror(s).atr = s.atr
           /\ E!Mirror(s).news = s.news /\ E!Mirror(s).brk = s.brk
<1>1. E!Mirror(s) = [s EXCEPT !.gap = -s.gap, !.st = -s.st, !.rsi = 100 - s.rsi,
                              !.sent = -s.sent]
  BY DEF E!Mirror
<1> QED BY <1>1 DEF E!SnapType

\* what a source says of a long, its mirror image says of a short
LEMMA Reflected ==
    ASSUME NEW s \in E!SnapType, s.gap # 0, s.rsi \in 1..99
    PROVE  /\ E!Score(s, "BUY") = E!Score(E!Mirror(s), "SELL")
           /\ E!Votes(s, "BUY") = E!Votes(E!Mirror(s), "SELL")
           /\ E!Breakout(s, 100, 50) = E!Breakout(E!Mirror(s), 100, 50)
<1> DEFINE m == E!Mirror(s)
<1>1. /\ m.gap = -s.gap /\ m.st = -s.st /\ m.rsi = 100 - s.rsi /\ m.sent = -s.sent
      /\ m.adx = s.adx /\ m.atr = s.atr /\ m.news = s.news /\ m.brk = s.brk
  BY Mirrors
<1>2. /\ s.gap \in Int /\ s.st \in Int /\ s.rsi \in Nat /\ s.sent \in Int /\ s.adx \in Nat
      /\ s.atr \in Nat /\ s.news \in BOOLEAN /\ s.brk \in 0..2
  BY DEF E!SnapType
<1> HIDE DEF m
<1>3. E!Macd(m) = -E!Macd(s) /\ E!Macd(s) \in {-1, 0, 1} BY <1>1, <1>2 DEF E!Macd
<1>4. E!TrendBacks("SELL", m) <=> E!TrendBacks("BUY", s)
  <2>1. m.gap > 0 <=> ~(s.gap > 0) BY <1>1, <1>2
  <2>2. E!TrendBacks("BUY", s) <=> s.gap > 0 BY DEF E!TrendBacks
  <2>3. E!TrendBacks("SELL", m) <=> ~(m.gap > 0) BY DEF E!TrendBacks
  <2> QED BY <2>1, <2>2, <2>3
<1>5. \A x \in Int : E!Backs("SELL", -x) <=> E!Backs("BUY", x) BY DEF E!Backs, E!Sign
<1>6. /\ E!Backs("SELL", m.st) <=> E!Backs("BUY", s.st)
      /\ E!Backs("SELL", E!Macd(m)) <=> E!Backs("BUY", E!Macd(s))
      /\ E!Backs("SELL", m.sent) <=> E!Backs("BUY", s.sent)
  BY <1>1, <1>2, <1>3, <1>5
<1>7. E!Momentum(s, "BUY") = E!Momentum(m, "SELL") BY <1>1, <1>2 DEF E!Momentum
<1>8. E!News(s, "BUY") = E!News(m, "SELL") BY <1>1, <1>2 DEF E!News, E!Sign
<1>9. E!Breakout(s, 5, 3) = E!Breakout(m, 5, 3) /\ E!Breakout(s, 100, 50) = E!Breakout(m, 100, 50)
  BY <1>1 DEF E!Breakout
<1>10. E!Macd(m) = 0 <=> E!Macd(s) = 0 BY <1>3
<1>11. E!Score(s, "BUY") = E!Score(m, "SELL")
  BY <1>1, <1>4, <1>6, <1>7, <1>8, <1>9, <1>10 DEF E!Score
<1>12. E!Votes(s, "BUY") = E!Votes(m, "SELL")
  <2>1. m.st # 0 <=> s.st # 0 BY <1>1, <1>2
  <2>2. m.sent # 0 <=> s.sent # 0 BY <1>1, <1>2
  <2>3. m.rsi # 0 /\ s.rsi # 0 /\ (m.rsi \in 30..60 <=> s.rsi \in 40..70) BY <1>1, <1>2
  <2> QED BY <1>1, <1>4, <1>6, <1>10, <2>1, <2>2, <2>3 DEF E!Votes, E!Vote
<1> QED BY <1>9, <1>11, <1>12 DEF m

\* The second confirmation follows the MACD, and the MACD follows the trend.
LEMMA TrendCorroborates ==
    ASSUME NEW s \in E!SnapType, NEW side \in E!Sides, NEW asset,
           "thesis_corroboration_failed" \in E!Codes(asset, side, s, FALSE)
    PROVE  "trend_flipped" \in E!Codes(asset, side, s, FALSE)
<1>1. E!Macd(s) # 0 /\ ~E!Backs(side, E!Macd(s)) BY DEF E!Codes
<1>2. s.gap \in Int BY DEF E!SnapType
<1>3. ~E!TrendBacks(side, s)
  <2>1. CASE side = "BUY"
    <3>1. ~(s.gap > 0) BY <1>1, <1>2, <2>1 DEF E!Macd, E!Backs, E!Sign
    <3> QED BY <2>1, <3>1 DEF E!TrendBacks
  <2>2. CASE side = "SELL"
    <3>1. s.gap > 0 BY <1>1, <1>2, <2>2 DEF E!Macd, E!Backs, E!Sign
    <3> QED BY <2>2, <3>1 DEF E!TrendBacks
  <2> QED BY <2>1, <2>2 DEF E!Sides
<1> QED BY <1>3 DEF E!Codes

\* A short is graded as the mirror image of a long, whatever the indicators
\* read, and the thesis check has one trend only.
THEOREM AlwaysGradedAlike == EntrySpec => []GradedAlike
<1>1. Seen => GradedAlike
  <2> SUFFICES ASSUME Seen, bench = "setup" PROVE E!Symmetric /\ E!CorroborationIsTrend
    BY DEF GradedAlike
  <2>1. ind \in E!SnapType BY DEF Seen
  <2>2. E!Symmetric
    <3> SUFFICES ASSUME ind.gap # 0, ind.rsi \in 1..99
                 PROVE  /\ E!Score(ind, "BUY") = E!Score(E!Mirror(ind), "SELL")
                        /\ E!Confidence(ind, "BUY") = E!Confidence(E!Mirror(ind), "SELL")
      BY DEF E!Symmetric
    <3> DEFINE m == E!Mirror(ind)
    <3>1. /\ E!Score(ind, "BUY") = E!Score(m, "SELL")
          /\ E!Votes(ind, "BUY") = E!Votes(m, "SELL")
          /\ E!Breakout(ind, 100, 50) = E!Breakout(m, 100, 50)
      BY <2>1, Reflected
    <3>2. m.news = ind.news BY <2>1, Mirrors
    <3> HIDE DEF m
    <3>3. E!Confidence(ind, "BUY") = E!Confidence(m, "SELL") BY <3>1, <3>2 DEF E!Confidence
    <3> QED BY <3>1, <3>3 DEF m
  <2>3. E!FromFeed(ind) \in E!SnapType BY <2>1, Fed
  <2>4. E!CorroborationIsTrend BY <2>3, TrendCorroborates DEF E!CorroborationIsTrend
  <2> QED BY <2>2, <2>4
<1> QED BY <1>1, SeenAlways, PTL

\* t says at least as much for a side as s does
Better(side, s, t) ==
    /\ E!Sign(side) * t.gap >= E!Sign(side) * s.gap
    /\ E!Sign(side) * t.st >= E!Sign(side) * s.st
    /\ E!Sign(side) * t.sent >= E!Sign(side) * s.sent
    /\ t.adx = s.adx \/ (t.adx > s.adx /\ s.adx > 0)
    /\ t.rsi = s.rsi /\ t.atr = s.atr /\ t.news = s.news /\ t.brk = s.brk

LEMMA OneBetter ==
    ASSUME ind \in E!SnapType, ind' \in E!SnapType, E!SetupNext, NEW side \in E!Sides,
           NEW f \in {"gap", "st", "sent", "adx"}, E!Nearer(side, f)
    PROVE  Better(side, ind, ind')
<1>1. PICK g \in {"gap", "adx", "st", "rsi", "atr", "sent", "brk"} : E!Moves(g)
  BY DEF E!SetupNext
<1>2. PICK v \in Values[g] : ind' = [ind EXCEPT ![g] = v] BY <1>1 DEF E!Moves
<1>3. /\ ind.gap \in Int /\ ind.st \in Int /\ ind.sent \in Int /\ ind.adx \in Int
      /\ ind'.gap \in Int /\ ind'.st \in Int /\ ind'.sent \in Int /\ ind'.adx \in Int
  BY DEF E!SnapType
<1>4. E!Sign(side) \in {1, -1} BY DEF E!Sign
<1>5. \A h \in {"gap", "adx", "st", "rsi", "atr", "sent", "news", "brk"} :
          h # g => ind'[h] = ind[h]
  BY <1>2 DEF E!SnapType
<1>6. g = f
  <2> SUFFICES ASSUME g # f PROVE FALSE
    OBVIOUS
  <2>1. ind'[f] = ind[f] BY <1>5
  <2>2. ind[f] \in Int BY <1>3
  <2> QED BY <1>4, <2>1, <2>2 DEF E!Nearer
<1>7. \A h \in {"gap", "adx", "st", "rsi", "atr", "sent", "news", "brk"} :
          h # f => ind'[h] = ind[h]
  BY <1>5, <1>6
<1>8. f # "adx" => E!Sign(side) * ind'[f] > E!Sign(side) * ind[f] BY DEF E!Nearer
<1>9. f = "adx" => ind'.adx > ind.adx /\ ind.adx > 0 BY DEF E!Nearer
<1>10. /\ ind'.rsi = ind.rsi /\ ind'.atr = ind.atr /\ ind'.news = ind.news /\ ind'.brk = ind.brk
  BY <1>7
<1>11. CASE f = "gap" BY <1>3, <1>4, <1>7, <1>8, <1>10, <1>11 DEF Better
<1>12. CASE f = "st" BY <1>3, <1>4, <1>7, <1>8, <1>10, <1>12 DEF Better
<1>13. CASE f = "sent" BY <1>3, <1>4, <1>7, <1>8, <1>10, <1>13 DEF Better
<1>14. CASE f = "adx" BY <1>3, <1>4, <1>7, <1>9, <1>10, <1>14 DEF Better
<1> QED BY <1>11, <1>12, <1>13, <1>14

\* each source of a better snapshot says at least as much
LEMMA Sources ==
    ASSUME NEW side \in E!Sides, NEW s \in E!SnapType, NEW t \in E!SnapType, Better(side, s, t)
    PROVE  /\ E!TrendBacks(side, s) => E!TrendBacks(side, t)
           /\ E!Backs(side, s.st) => E!Backs(side, t.st)
           /\ E!Backs(side, s.sent) => E!Backs(side, t.sent)
           /\ E!Macd(s) \in {-1, 0, 1} /\ E!Macd(t) \in {-1, 0, 1}
           /\ E!Sign(side) * E!Macd(t) >= E!Sign(side) * E!Macd(s)
           /\ E!Momentum(t, side) >= E!Momentum(s, side)
           /\ E!News(t, side) >= E!News(s, side)
<1>1. /\ s.gap \in Int /\ s.st \in Int /\ s.sent \in Int /\ s.rsi \in Nat
      /\ t.gap \in Int /\ t.st \in Int /\ t.sent \in Int /\ t.rsi \in Nat
      /\ s.news \in BOOLEAN
  BY DEF E!SnapType
<1>2. /\ t.rsi = s.rsi /\ t.news = s.news
      /\ side = "BUY" => t.gap >= s.gap /\ t.st >= s.st /\ t.sent >= s.sent
      /\ side # "BUY" => t.gap <= s.gap /\ t.st <= s.st /\ t.sent <= s.sent
  BY <1>1 DEF Better, E!Sign
<1>3. E!TrendBacks(side, s) => E!TrendBacks(side, t)
  <2>1. CASE side = "BUY"
    <3>1. s.gap > 0 => t.gap > 0 BY <1>1, <1>2, <2>1
    <3> QED BY <2>1, <3>1 DEF E!TrendBacks
  <2>2. CASE side # "BUY"
    <3>1. ~(s.gap > 0) => ~(t.gap > 0) BY <1>1, <1>2, <2>2
    <3> QED BY <2>2, <3>1 DEF E!TrendBacks
  <2> QED BY <2>1, <2>2
<1>4. /\ E!Backs(side, s.st) => E!Backs(side, t.st)
      /\ E!Backs(side, s.sent) => E!Backs(side, t.sent)
  BY <1>1, <1>2 DEF E!Backs, E!Sign
<1>5. /\ E!Macd(s) \in {-1, 0, 1} /\ E!Macd(t) \in {-1, 0, 1}
      /\ E!Sign(side) * E!Macd(t) >= E!Sign(side) * E!Macd(s)
  BY <1>1, <1>2 DEF E!Macd, E!Sign
<1>6. E!Momentum(t, side) >= E!Momentum(s, side) BY <1>1, <1>2 DEF E!Momentum
<1>7. E!News(t, side) >= E!News(s, side)
  BY <1>1, <1>2 DEF E!News, E!Sign, E!Bigger, E!Smaller
<1> QED BY <1>3, <1>4, <1>5, <1>6, <1>7

LEMMA ScoreGrows ==
    ASSUME NEW side \in E!Sides, NEW s \in E!SnapType, NEW t \in E!SnapType, Better(side, s, t)
    PROVE  /\ E!Score(s, side) \in 0..100 /\ E!Score(t, side) \in 0..100
           /\ E!Score(t, side) >= E!Score(s, side)
<1> DEFINE Trend(q) == IF E!TrendBacks(side, q) THEN 20 ELSE -5
           Strength(q) == IF q.adx >= 25 THEN 15 ELSE IF q.adx > 0 THEN 5 ELSE 0
           Moving(q) == IF E!Macd(q) = 0 THEN 0 ELSE IF E!Backs(side, E!Macd(q)) THEN 10 ELSE -10
           Volatile(q) == IF q.atr \in 40..150 THEN 15 ELSE IF q.atr > 250 THEN -10 ELSE 5
           Both(q) == IF E!Backs(side, q.st) /\ E!Backs(side, E!Macd(q)) THEN 5 ELSE 0
           Sum(q) == Trend(q) + Strength(q) + E!Momentum(q, side) + Moving(q) + Both(q)
                     + Volatile(q) + E!News(q, side) + E!Breakout(q, 5, 3)
<1>1. /\ s.adx \in Nat /\ t.adx \in Nat /\ s.atr \in Nat /\ t.atr = s.atr /\ t.brk = s.brk
      /\ t.adx >= s.adx /\ s.sent \in Int /\ t.sent \in Int
  BY DEF Better, E!SnapType
<1>2. Trend(t) >= Trend(s) /\ Trend(t) \in Int /\ Trend(s) \in Int BY Sources
<1>3. Strength(t) >= Strength(s) /\ Strength(t) \in Int /\ Strength(s) \in Int BY <1>1
<1>4. /\ E!Macd(s) \in {-1, 0, 1} /\ E!Macd(t) \in {-1, 0, 1}
      /\ E!Sign(side) * E!Macd(t) >= E!Sign(side) * E!Macd(s)
      /\ E!Backs(side, s.st) => E!Backs(side, t.st)
  BY Sources
<1>5. Moving(t) >= Moving(s) /\ Moving(t) \in Int /\ Moving(s) \in Int
  BY <1>4 DEF E!Backs, E!Sign
<1>6. E!Backs(side, E!Macd(s)) => E!Backs(side, E!Macd(t)) BY <1>4 DEF E!Backs, E!Sign
<1>7. Both(t) >= Both(s) /\ Both(t) \in Int /\ Both(s) \in Int BY <1>4, <1>6
<1>8. Volatile(t) = Volatile(s) /\ Volatile(s) \in Int BY <1>1
<1>9. E!Breakout(t, 5, 3) = E!Breakout(s, 5, 3) /\ E!Breakout(s, 5, 3) \in Int
  BY <1>1 DEF E!Breakout
<1>10. /\ E!Momentum(t, side) >= E!Momentum(s, side) /\ E!News(t, side) >= E!News(s, side)
  BY Sources
<1>11. /\ E!Momentum(t, side) \in Int /\ E!Momentum(s, side) \in Int
       /\ E!News(t, side) \in Int /\ E!News(s, side) \in Int
  BY <1>1 DEF E!Momentum, E!News, E!Sign, E!Bigger, E!Smaller
<1> HIDE DEF Trend, Strength, Moving, Volatile, Both
<1>12. Sum(t) >= Sum(s) /\ Sum(t) \in Int /\ Sum(s) \in Int
  BY <1>2, <1>3, <1>5, <1>7, <1>8, <1>9, <1>10, <1>11
<1>13. \A q : E!Score(q, side) = E!Bigger(0, E!Smaller(100, Sum(q)))
  BY DEF E!Score, Trend, Strength, Moving, Volatile, Both
<1> HIDE DEF Sum
<1>14. /\ E!Score(s, side) = E!Bigger(0, E!Smaller(100, Sum(s)))
       /\ E!Score(t, side) = E!Bigger(0, E!Smaller(100, Sum(t)))
  BY <1>13
<1> QED BY <1>12, <1>14 DEF E!Bigger, E!Smaller

LEMMA NearestGrows ==
    ASSUME NEW n \in Nat, NEW m \in Nat, NEW d \in Nat \ {0}, n <= m
    PROVE  /\ E!Nearest(n, d) \in Nat /\ E!Nearest(m, d) \in Nat
           /\ E!Nearest(n, d) <= E!Nearest(m, d)
<1> DEFINE q == n \div d
           r == n % d
           p == m \div d
           u == m % d
<1>1. /\ q \in Nat /\ r \in 0..(d - 1) /\ n = d * q + r
      /\ p \in Nat /\ u \in 0..(d - 1) /\ m = d * p + u
  OBVIOUS
<1>2. /\ E!Nearest(n, d) = IF 2 * r > d \/ (2 * r = d /\ q % 2 = 1) THEN q + 1 ELSE q
      /\ E!Nearest(m, d) = IF 2 * u > d \/ (2 * u = d /\ p % 2 = 1) THEN p + 1 ELSE p
  BY DEF E!Nearest
<1> HIDE DEF q, r, p, u
<1>3. q <= p
  <2> SUFFICES ASSUME q >= p + 1 PROVE FALSE
    BY <1>1
  <2>1. d * q >= d * (p + 1) BY <1>1
  <2>2. d * (p + 1) = d * p + d BY <1>1
  <2>3. d * q \in Nat /\ d * p \in Nat BY <1>1, Products
  <2> QED BY <1>1, <2>1, <2>2, <2>3
<1>4. CASE q < p BY <1>1, <1>2, <1>4
<1>5. CASE q = p
  <2>1. d * q = d * p /\ d * q \in Nat BY <1>1, <1>5, Products
  <2>2. r <= u BY <1>1, <2>1
  <2> QED BY <1>1, <1>2, <1>5, <2>2
<1> QED BY <1>1, <1>3, <1>4, <1>5

Sources6 == {"ema", "adx", "st", "macd", "rsi", "sent"}

\* more of the same sources for a side
LEMMA AgreementGrows ==
    ASSUME NEW v \in [Sources6 -> {-1, 0, 1}], NEW w \in [Sources6 -> {-1, 0, 1}],
           \A x \in Sources6 : (v[x] = 0 <=> w[x] = 0) /\ v[x] <= w[x]
    PROVE  /\ E!Agreement(v) \in Nat /\ E!Agreement(w) \in Nat
           /\ E!Agreement(v) <= E!Agreement(w)
<1> DEFINE Pro(z) == {x \in Sources6 : z[x] = 1}
           Con(z) == {x \in Sources6 : z[x] = -1}
           p == Cardinality(Pro(v))
           c == Cardinality(Con(v))
           u == Cardinality(Pro(w))
           b == Cardinality(Con(w))
<1>1. IsFiniteSet(Sources6)
  <2>1. IsFiniteSet({}) BY FS_EmptySet
  <2>2. IsFiniteSet({} \cup {"ema"}) BY <2>1, FS_AddElement
  <2>3. IsFiniteSet({} \cup {"ema"} \cup {"adx"}) BY <2>2, FS_AddElement
  <2>4. IsFiniteSet({} \cup {"ema"} \cup {"adx"} \cup {"st"}) BY <2>3, FS_AddElement
  <2>5. IsFiniteSet({} \cup {"ema"} \cup {"adx"} \cup {"st"} \cup {"macd"})
    BY <2>4, FS_AddElement
  <2>6. IsFiniteSet({} \cup {"ema"} \cup {"adx"} \cup {"st"} \cup {"macd"} \cup {"rsi"})
    BY <2>5, FS_AddElement
  <2>7. IsFiniteSet({} \cup {"ema"} \cup {"adx"} \cup {"st"} \cup {"macd"} \cup {"rsi"}
                    \cup {"sent"})
    BY <2>6, FS_AddElement
  <2>8. Sources6 = {} \cup {"ema"} \cup {"adx"} \cup {"st"} \cup {"macd"} \cup {"rsi"}
                   \cup {"sent"}
    BY DEF Sources6
  <2> QED BY <2>7, <2>8
<1>2. \A z : /\ IsFiniteSet(Pro(z)) /\ IsFiniteSet(Con(z)) /\ Cardinality(Pro(z)) \in Nat
             /\ Cardinality(Con(z)) \in Nat
             /\ Cardinality(Pro(z) \cup Con(z)) = Cardinality(Pro(z)) + Cardinality(Con(z))
  <2> TAKE z
  <2>1. Pro(z) \in SUBSET Sources6 /\ Con(z) \in SUBSET Sources6 OBVIOUS
  <2>2. /\ IsFiniteSet(Pro(z)) /\ IsFiniteSet(Con(z))
    BY <1>1, <2>1, FS_Subset
  <2>3. Cardinality(Pro(z)) \in Nat /\ Cardinality(Con(z)) \in Nat BY <2>2, FS_CardinalityType
  <2>4. Pro(z) \cap Con(z) = {} OBVIOUS
  <2>5. Cardinality(Pro(z) \cup Con(z))
           = Cardinality(Pro(z)) + Cardinality(Con(z)) - Cardinality(Pro(z) \cap Con(z))
    BY <2>2, FS_Union
  <2>6. Cardinality(Pro(z) \cap Con(z)) = 0 BY <2>4, FS_EmptySet
  <2> HIDE DEF Pro, Con
  <2> QED BY <2>2, <2>3, <2>5, <2>6
<1>3. Pro(v) \cup Con(v) = Pro(w) \cup Con(w)
  <2>1. \A x \in Sources6 : v[x] \in {-1, 0, 1} /\ w[x] \in {-1, 0, 1} OBVIOUS
  <2> QED BY <2>1
<1>4. Pro(v) \in SUBSET Pro(w)
  <2>1. \A x \in Sources6 : v[x] \in {-1, 0, 1} /\ w[x] \in {-1, 0, 1} OBVIOUS
  <2> QED BY <2>1
<1>5. /\ E!Agreement(v) = IF p + c = 0 THEN 0 ELSE E!Nearest(550 * p, p + c)
      /\ E!Agreement(w) = IF u + b = 0 THEN 0 ELSE E!Nearest(550 * u, u + b)
  <2>1. DOMAIN v = Sources6 /\ DOMAIN w = Sources6 OBVIOUS
  <2>2. /\ {x \in DOMAIN v : v[x] = 1} = Pro(v) /\ {x \in DOMAIN v : v[x] = -1} = Con(v)
        /\ {x \in DOMAIN w : w[x] = 1} = Pro(w) /\ {x \in DOMAIN w : w[x] = -1} = Con(w)
    BY <2>1
  <2>3. \A X : E!Cardinality(X) = Cardinality(X) BY DEF E!Cardinality, Cardinality
  <2> HIDE DEF Pro, Con
  <2>4. /\ E!Cardinality({x \in DOMAIN v : v[x] = 1}) = p
        /\ E!Cardinality({x \in DOMAIN v : v[x] = -1}) = c
        /\ E!Cardinality({x \in DOMAIN w : w[x] = 1}) = u
        /\ E!Cardinality({x \in DOMAIN w : w[x] = -1}) = b
    BY <2>2, <2>3
  <2> HIDE DEF p, c, u, b
  <2>5. E!Agreement(v) = IF p + c = 0 THEN 0 ELSE E!Nearest(550 * p, p + c)
    BY <2>4 DEF E!Agreement
  <2>6. E!Agreement(w) = IF u + b = 0 THEN 0 ELSE E!Nearest(550 * u, u + b)
    BY <2>4 DEF E!Agreement
  <2> QED BY <2>5, <2>6
<1> HIDE DEF Pro, Con
<1>6. p <= u BY <1>2, <1>4, FS_Subset
<1>7. p + c = u + b /\ p \in Nat /\ c \in Nat /\ u \in Nat /\ b \in Nat BY <1>2, <1>3
<1> HIDE DEF p, c, u, b
<1>8. CASE p + c = 0 BY <1>5, <1>7, <1>8
<1>9. CASE p + c # 0
  <2>1. 550 * p \in Nat /\ 550 * u \in Nat /\ 550 * p <= 550 * u /\ p + c \in Nat \ {0}
    BY <1>6, <1>7, <1>9
  <2> HIDE <1>6
  <2> DEFINE n == 550 * p
             m == 550 * u
             d == p + c
  <2> HIDE DEF n, m, d
  <2>2. n \in Nat /\ m \in Nat /\ n <= m /\ d \in Nat \ {0} BY <2>1 DEF n, m, d
  <2>3. /\ E!Nearest(n, d) \in Nat /\ E!Nearest(m, d) \in Nat
        /\ E!Nearest(n, d) <= E!Nearest(m, d)
    BY <2>2, NearestGrows
  <2> QED BY <1>5, <1>7, <1>9, <2>3 DEF n, m, d
<1> QED BY <1>8, <1>9

LEMMA ConfidenceGrows ==
    ASSUME NEW side \in E!Sides, NEW s \in E!SnapType, NEW t \in E!SnapType, Better(side, s, t),
           \A v \in {"st", "macd", "sent"} :
               E!Votes(t, side)[v] = 0 <=> E!Votes(s, side)[v] = 0
    PROVE  E!Confidence(t, side) >= E!Confidence(s, side)
<1> DEFINE v == E!Votes(s, side)
           w == E!Votes(t, side)
<1>1. v \in [Sources6 -> {-1, 0, 1}] /\ w \in [Sources6 -> {-1, 0, 1}]
  BY DEF E!Votes, E!Vote, Sources6
<1>2. /\ s.adx \in Nat /\ t.adx \in Nat /\ t.rsi = s.rsi /\ t.news = s.news /\ t.brk = s.brk
      /\ t.adx = s.adx \/ (t.adx > s.adx /\ s.adx > 0)
  BY DEF Better, E!SnapType
<1>3. \A x \in {"st", "macd", "sent"} : v[x] = 0 <=> w[x] = 0 OBVIOUS
<1>4. v.ema # 0 /\ w.ema # 0 /\ v.ema <= w.ema BY Sources DEF E!Votes, E!Vote
<1>5. (v.adx = 0 <=> w.adx = 0) /\ v.adx <= w.adx BY <1>2 DEF E!Votes, E!Vote
<1>6. v.rsi = w.rsi /\ v.rsi \in {-1, 0, 1} BY <1>2 DEF E!Votes, E!Vote
<1>7. v.st <= w.st
  <2>1. v.st = 0 <=> w.st = 0 BY <1>3
  <2>2. E!Backs(side, s.st) => E!Backs(side, t.st) BY Sources
  <2> QED BY <2>1, <2>2 DEF E!Votes, E!Vote
<1>8. v.sent <= w.sent
  <2>1. v.sent = 0 <=> w.sent = 0 BY <1>3
  <2>2. E!Backs(side, s.sent) => E!Backs(side, t.sent) BY Sources
  <2> QED BY <2>1, <2>2 DEF E!Votes, E!Vote
<1>9. v.macd <= w.macd
  <2>1. v.macd = 0 <=> w.macd = 0 BY <1>3
  <2>2. /\ E!Macd(s) \in {-1, 0, 1} /\ E!Macd(t) \in {-1, 0, 1}
        /\ E!Sign(side) * E!Macd(t) >= E!Sign(side) * E!Macd(s)
    BY Sources
  <2>3. E!Backs(side, E!Macd(s)) => E!Backs(side, E!Macd(t)) BY <2>2 DEF E!Backs, E!Sign
  <2> QED BY <2>1, <2>3 DEF E!Votes, E!Vote
<1> HIDE DEF v, w
<1>10. \A x \in Sources6 : (v[x] = 0 <=> w[x] = 0) /\ v[x] <= w[x]
  BY <1>3, <1>4, <1>5, <1>6, <1>7, <1>8, <1>9 DEF Sources6
<1>11. /\ E!Agreement(v) \in Nat /\ E!Agreement(w) \in Nat /\ E!Agreement(v) <= E!Agreement(w)
  BY <1>1, <1>10, AgreementGrows
<1>12. /\ E!Score(s, side) \in 0..100 /\ E!Score(t, side) \in 0..100
       /\ E!Score(t, side) >= E!Score(s, side)
  BY ScoreGrows
<1>13. E!Breakout(s, 100, 50) \in Int /\ E!Breakout(t, 100, 50) = E!Breakout(s, 100, 50)
  BY <1>2 DEF E!Breakout
<1>14. /\ E!Confidence(s, side)
             = E!Bigger(100, E!Smaller(1000, 10 * E!Smaller(E!Score(s, side), 45) + E!Agreement(v)
                                   + E!Breakout(s, 100, 50) + IF s.news THEN -300 ELSE 0))
       /\ E!Confidence(t, side)
             = E!Bigger(100, E!Smaller(1000, 10 * E!Smaller(E!Score(t, side), 45) + E!Agreement(w)
                                   + E!Breakout(t, 100, 50) + IF t.news THEN -300 ELSE 0))
  BY DEF E!Confidence, v, w
<1> QED BY <1>2, <1>11, <1>12, <1>13, <1>14 DEF E!Bigger, E!Smaller

\* More evidence for a side never makes its score or its confidence fall.
THEOREM MoreAlwaysMore == EntrySpec => MoreIsMore
<1> DEFINE Grows == \A side \in E!Sides : \A f \in {"gap", "st", "sent", "adx"} :
              E!Nearer(side, f) =>
                 /\ E!Score(ind, side)' >= E!Score(ind, side)
                 /\ (\A v \in {"st", "macd", "sent"} :
                        E!Votes(ind, side)'[v] = 0 <=> E!Votes(ind, side)[v] = 0)
                       => E!Confidence(ind, side)' >= E!Confidence(ind, side)
<1>1. Seen /\ Seen' /\ [EntryNext]_allVars => [Grows]_ind
  <2> SUFFICES ASSUME Seen, Seen', [EntryNext]_allVars, ind' # ind,
                      NEW side \in E!Sides, NEW f \in {"gap", "st", "sent", "adx"},
                      E!Nearer(side, f)
               PROVE  /\ E!Score(ind', side) >= E!Score(ind, side)
                      /\ (\A v \in {"st", "macd", "sent"} :
                             E!Votes(ind', side)[v] = 0 <=> E!Votes(ind, side)[v] = 0)
                            => E!Confidence(ind', side) >= E!Confidence(ind, side)
    OBVIOUS
  <2>1. bench = "setup" /\ bench' = "setup" /\ E!SetupNext BY DEF EntryNext, allVars, cardVars
  <2>2. ind \in E!SnapType /\ ind' \in E!SnapType BY <2>1 DEF Seen
  <2>3. Better(side, ind, ind') BY <2>1, <2>2, OneBetter
  <2> QED BY <2>2, <2>3, ScoreGrows, ConfidenceGrows
<1>2. EntrySpec => [][Grows]_ind BY <1>1, SeenAlways, PTL DEF EntrySpec
<1> QED BY <1>2 DEF MoreIsMore, E!MoreIsMore

(***************************************************************************)
(* The bench of the cards                                                  *)
(***************************************************************************)
Approvals == {"pending", "approved", "rejected", "expired"}
CardType == [asset : C!Traded, side : C!Sides, approval : Approvals, made : Nat, dist : Int,
             note : BOOLEAN, born : C!SnapType, medium : Int, view : Nat]
Quotes == C!SnapType \cup {C!NoSnap}
LoopType == [at : {"loop"}, next : 1..Len(Universe), shut : BOOLEAN, reads : BOOLEAN,
             from : Nat, today : Nat, pend : SUBSET C!Traded]
ShotType == [card : Nat, at : Nat, snap : C!SnapType, dist : Int]
BatchType == [at : {"loop"}, batch : SUBSET Nat, held : SUBSET C!Traded,
              snaps : UNION {[wares -> Quotes] : wares \in SUBSET C!Traded}]

\* a card that is born alive, says why not, or is a short in gold
Alive(c) ==
    /\ c.side = C!Wanted(c.born)
    /\ \/ c.note \/ (c.asset = C!Gold /\ c.side = "SELL")
       \/ C!Codes(c.asset, c.side, C!FromFeed(c.born), FALSE) = {}

Apart(deck) ==
    \A i, j \in DOMAIN deck :
        (i < j /\ deck[i].approval = "pending" /\ deck[j].approval = "pending"
            /\ deck[i].asset = deck[j].asset) => deck[j].view < i

Deck(deck) ==
    /\ deck \in Seq(CardType) /\ Apart(deck)
    /\ \A k \in DOMAIN deck : Alive(deck[k])

\* A scan that could look passes over every asset whose card it saw waiting, and
\* so does the one that waits for the spot price of a card.
Sees(l, deck) ==
    /\ l \in LoopType /\ l.from <= Len(deck)
    /\ l.reads => \A k \in DOMAIN deck :
                      (deck[k].approval = "pending" /\ k <= l.from) => deck[k].asset \in l.pend

Watches(r, deck) ==
    /\ r.at = "loop" => Sees(r, deck)
    /\ r.at = "spot" => /\ Sees(r.loop, deck) /\ r.snap \in C!SnapType
                        /\ Universe[r.loop.next] \notin r.loop.pend

\* an order within the life of its card, on the trend of the card
Faithful(o, deck) ==
    /\ o.card \in DOMAIN deck /\ o.at - deck[o.card].made <= TTL
    /\ C!TrendBacks(deck[o.card].side, o.snap)

Trades(batch, deck) ==
    \/ batch = C!Idle
    \/ batch.at = "read" /\ batch.batch \subseteq DOMAIN deck /\ batch.held \subseteq C!Traded
    \/ /\ batch \in BatchType /\ batch.batch \subseteq DOMAIN deck
       /\ \A k \in batch.batch : deck[k].asset \in DOMAIN batch.snaps

\* what becomes of a deck: only the approval of a card, and none waits anew
Matures(deck, next) ==
    /\ next \in Seq(CardType) /\ DOMAIN next = DOMAIN deck /\ Len(next) = Len(deck)
    /\ \A k \in DOMAIN deck :
          /\ next[k].asset = deck[k].asset /\ next[k].side = deck[k].side
          /\ next[k].made = deck[k].made /\ next[k].note = deck[k].note
          /\ next[k].born = deck[k].born /\ next[k].view = deck[k].view
          /\ next[k].approval = "pending" => deck[k].approval = "pending"

LEMMA CardsTyped ==
    ASSUME cards \in Seq(CardType)
    PROVE  \A k \in DOMAIN cards :
              /\ k \in Nat /\ cards[k] \in CardType /\ cards[k].asset \in C!Traded
              /\ cards[k].dist \in Int /\ cards[k].made \in Nat
<1> TAKE k \in DOMAIN cards
<1> DEFINE c == cards[k]
<1>1. k \in Nat /\ c \in CardType OBVIOUS
<1> HIDE DEF c
<1>2. c.asset \in C!Traded /\ c.dist \in Int /\ c.made \in Nat BY <1>1 DEF CardType
<1> QED BY <1>1, <1>2 DEF c

LEMMA Matured ==
    ASSUME NEW deck, NEW next, Deck(deck), Matures(deck, next)
    PROVE  /\ Deck(next)
           /\ \A r : Watches(r, deck) => Watches(r, next)
           /\ \A o : Faithful(o, deck) => Faithful(o, next)
           /\ \A batch : Trades(batch, deck) => Trades(batch, next)
<1>1. Apart(next) BY DEF Deck, Apart, Matures
<1>2. \A k \in DOMAIN next : Alive(next[k]) BY DEF Deck, Alive, Matures
<1>3. Deck(next) BY <1>1, <1>2 DEF Deck, Matures
<1>4. \A r : Watches(r, deck) => Watches(r, next)
  <2>1. \A l : Sees(l, deck) => Sees(l, next) BY DEF Sees, Matures
  <2> QED BY <2>1 DEF Watches
<1>5. \A o : Faithful(o, deck) => Faithful(o, next) BY DEF Faithful, Matures
<1>6. \A batch : Trades(batch, deck) => Trades(batch, next) BY DEF Trades, Matures
<1> QED BY <1>3, <1>4, <1>5, <1>6

LEMMA MarkedMatures ==
    ASSUME cards \in Seq(CardType), NEW k \in DOMAIN cards,
           NEW answer \in {"approved", "rejected"}
    PROVE  Matures(cards, C!Marked(k, answer))
<1> DEFINE next == C!Marked(k, answer)
           c == [cards[k] EXCEPT !.approval = answer]
<1>1. next = [cards EXCEPT ![k] = c] BY DEF C!Marked
<1>2. cards[k] \in CardType OBVIOUS
<1>3. /\ c \in CardType /\ c.asset = cards[k].asset /\ c.side = cards[k].side
      /\ c.made = cards[k].made /\ c.note = cards[k].note /\ c.born = cards[k].born
      /\ c.view = cards[k].view /\ c.approval # "pending"
  BY <1>2 DEF CardType, Approvals
<1> HIDE DEF c
<1>4. next \in Seq(CardType) /\ DOMAIN next = DOMAIN cards /\ Len(next) = Len(cards)
  BY <1>1, <1>3
<1>5. \A j \in DOMAIN cards : next[j] = IF j = k THEN c ELSE cards[j] BY <1>1
<1> HIDE DEF next
<1> QED BY <1>3, <1>4, <1>5 DEF Matures, next

LEMMA ExpiredMatures ==
    ASSUME cards \in Seq(CardType)
    PROVE  Matures(cards, C!Expired)
<1> DEFINE next == C!Expired
           Ended(k) == [cards[k] EXCEPT !.approval = "expired"]
<1>1. \A k \in DOMAIN cards : cards[k] \in CardType OBVIOUS
<1>2. \A k \in DOMAIN cards :
          /\ Ended(k) \in CardType /\ Ended(k).asset = cards[k].asset
          /\ Ended(k).side = cards[k].side /\ Ended(k).made = cards[k].made
          /\ Ended(k).note = cards[k].note /\ Ended(k).born = cards[k].born
          /\ Ended(k).view = cards[k].view /\ Ended(k).approval # "pending"
  BY <1>1 DEF CardType, Approvals
<1>3. next = [k \in DOMAIN cards |->
                 IF k \in C!Pending /\ C!Old(k) THEN Ended(k) ELSE cards[k]]
  BY DEF C!Expired
<1> HIDE DEF Ended
<1>4. DOMAIN next = DOMAIN cards /\ DOMAIN cards = 1..Len(cards) /\ Len(cards) \in Nat BY <1>3
<1>5. \A k \in DOMAIN cards : next[k] = Ended(k) \/ next[k] = cards[k] BY <1>3
<1>6. next \in [1..Len(cards) -> CardType] BY <1>1, <1>2, <1>3, <1>4
<1> HIDE DEF next
<1>7. next \in Seq(CardType) /\ Len(next) = Len(cards) BY <1>4, <1>6
<1>8. \A k \in DOMAIN cards :
          /\ next[k].asset = cards[k].asset /\ next[k].side = cards[k].side
          /\ next[k].made = cards[k].made /\ next[k].note = cards[k].note
          /\ next[k].born = cards[k].born /\ next[k].view = cards[k].view
          /\ next[k].approval = "pending" => cards[k].approval = "pending"
  BY <1>2, <1>5
<1> QED BY <1>4, <1>7, <1>8 DEF Matures, next

\* the feed's part of a snapshot, and a snapshot that is there
LEMMA CardFed ==
    ASSUME NEW s \in C!SnapType
    PROVE  /\ C!FromFeed(s) \in C!SnapType /\ C!FromFeed(s).news = FALSE
           /\ C!FromFeed(s).gap = s.gap /\ C!FromFeed(s).adx = s.adx
           /\ C!FromFeed(s).st = s.st /\ C!FromFeed(s).atr = s.atr
           /\ C!FromFeed(s).brk = s.brk
<1> DEFINE q == [s EXCEPT !.news = FALSE]
<1>1. /\ q \in C!SnapType /\ q.news = FALSE /\ q.gap = s.gap /\ q.adx = s.adx
      /\ q.st = s.st /\ q.atr = s.atr /\ q.brk = s.brk
  BY DEF C!SnapType
<1>2. C!FromFeed(s) = [q EXCEPT !.sent = 0] BY Zenon DEF C!FromFeed
<1> HIDE DEF q
<1> QED BY <1>1, <1>2 DEF C!SnapType

\* The thesis of a setup holds on the snapshot it was made of, short of a regime
\* the card takes note of and of a short in gold.
LEMMA BornOfItsThesis ==
    ASSUME NEW s \in C!SnapType, NEW asset, C!Regime(s) \notin C!Hostile,
           ~(asset = C!Gold /\ C!Wanted(s) = "SELL")
    PROVE  C!Codes(asset, C!Wanted(s), C!FromFeed(s), FALSE) = {}
<1> DEFINE f == C!FromFeed(s)
           side == C!Wanted(s)
<1>1. /\ f.news = FALSE /\ f.gap = s.gap /\ f.adx = s.adx /\ f.st = s.st /\ f.atr = s.atr
      /\ f.brk = s.brk
  BY CardFed
<1>2. /\ s.gap \in Int /\ s.adx \in Nat /\ s.atr \in Nat /\ s.st \in Int /\ s.news \in BOOLEAN
  BY DEF C!SnapType
<1> HIDE DEF f
<1>3. side \in {"BUY", "SELL"} /\ (side = "BUY" <=> s.gap > 0) BY DEF C!Wanted
<1>4. C!TrendBacks(side, f)
  <2>1. f.gap > 0 <=> side = "BUY" BY <1>1, <1>3
  <2> QED BY <2>1 DEF C!TrendBacks
<1>5. ~(C!Macd(f) # 0 /\ ~C!Backs(side, C!Macd(f)))
  BY <1>1, <1>2, <1>3 DEF C!Macd, C!Backs, C!Sign
<1>6. ~s.news /\ ~(s.adx < 20) /\ ~(s.atr > 250) BY <1>2 DEF C!Regime, C!Hostile
<1>7. C!RegimeAgain(f) \notin C!Hostile \cup C!Against(side)
  <2>1. CASE s.gap > 0
    <3>1. side = "BUY" BY <1>3, <2>1
    <3>2. C!RegimeAgain(f) \in {"bull_trend", "strong_bull_trend"}
      BY <1>1, <1>6, <2>1 DEF C!RegimeAgain
    <3> QED BY <3>1, <3>2 DEF C!Hostile, C!Against
  <2>2. CASE ~(s.gap > 0)
    <3>1. side = "SELL" BY <1>3, <2>2
    <3>2. C!RegimeAgain(f) \in {"bear_trend", "strong_bear_trend"}
      BY <1>1, <1>6, <2>2 DEF C!RegimeAgain
    <3> QED BY <3>1, <3>2 DEF C!Hostile, C!Against
  <2> QED BY <2>1, <2>2
<1> HIDE DEF side
<1>8. ~(asset = C!Gold /\ f.brk # 0 /\ side = "SELL") BY DEF side
<1>9. C!Codes(asset, side, f, FALSE) = {}
  BY <1>1, <1>4, <1>5, <1>7, <1>8 DEF C!Codes
<1> QED BY <1>9 DEF side, f

\* an order that finds its thesis true
LEMMA HeldThesis ==
    ASSUME NEW k \in DOMAIN cards, NEW s, C!Holds(k, s)
    PROVE  /\ s # C!NoSnap /\ ~C!Old(k) /\ C!TrendBacks(cards[k].side, s)
<1>1. s # C!NoSnap /\ C!Codes(cards[k].asset, cards[k].side, s, C!Old(k)) = {}
  BY DEF C!Holds
<1>2. "signal_expired" \notin C!Codes(cards[k].asset, cards[k].side, s, C!Old(k))
      /\ "trend_flipped" \notin C!Codes(cards[k].asset, cards[k].side, s, C!Old(k))
  BY <1>1
<1>3. ~C!Old(k) BY <1>2 DEF C!Codes
<1>4. C!TrendBacks(cards[k].side, s) BY <1>2 DEF C!Codes
<1> QED BY <1>1, <1>3, <1>4

LEMMA Distances ==
    ASSUME NEW d \in Int
    PROVE  C!Effective(d) \in Int
<1>1. C!Tier(d) \in Int BY DEF C!Tier
<1> QED BY <1>1, CardAssumption DEF C!Effective, C!Bigger, C!Smaller

LEMMA Widths ==
    ASSUME NEW s \in C!SnapType, NEW level \in Int
    PROVE  C!StopDistance(s, level, Lo, Hi) \in Int
<1>1. s.atr \in Nat BY DEF C!SnapType
<1>2. (3 * s.atr) \div 2 \in Int /\ s.atr \div 2 \in Int BY <1>1
<1> QED BY <1>1, <1>2, CardAssumption
        DEF C!StopDistance, C!Bigger, C!Smaller, C!Sign

CardInv ==
    /\ market \in [C!Traded -> Snapshots] /\ clock \in Nat
    /\ DOMAIN preloaded \subseteq C!Traded /\ \A a \in DOMAIN preloaded : preloaded[a] \in Snapshots
    /\ Deck(cards)
    /\ DOMAIN scan = Scanners /\ \A p \in Scanners : Watches(scan[p], cards)
    /\ cardOrders \in Seq(ShotType)
    /\ \A i \in DOMAIN cardOrders : Faithful(cardOrders[i], cards)
    /\ Trades(cardAuto, cards)
    /\ cardDesk # C!Idle => cardDesk.card \in DOMAIN cards

\* a card written by a scan
LEMMA Written ==
    ASSUME CardInv, NEW l \in LoopType, NEW a \in C!Traded, NEW s \in C!SnapType,
           NEW c, c = C!CardOf(l, a, s)
    PROVE  /\ c \in CardType /\ Alive(c) /\ c.asset = a
           /\ c.view = IF l.reads THEN l.from ELSE 0
<1> DEFINE level == IF a = C!Gold /\ s.brk > 0 THEN Level(a) ELSE 0
           medium == C!StopDistance(s, level, Lo, Hi)
           note == l.today >= MaxPerDay \/ C!Regime(s) \in C!Hostile
           view == IF l.reads THEN l.from ELSE 0
<1>1. c = [asset |-> a, side |-> C!Wanted(s), approval |-> "pending", made |-> clock,
           dist |-> C!Effective(medium), note |-> note, born |-> s, medium |-> medium,
           view |-> view]
  BY DEF C!CardOf
<1>2. medium \in Int
  <2>1. level \in Int BY CardAssumption
  <2> HIDE DEF level
  <2> QED BY <2>1, Widths
<1> HIDE DEF medium
<1>3. C!Effective(medium) \in Int BY <1>2, Distances
<1>4. note \in BOOLEAN OBVIOUS
<1>5. C!Wanted(s) \in C!Sides BY DEF C!Wanted, C!Sides
<1>6. view \in Nat BY DEF LoopType
<1>7. clock \in Nat BY DEF CardInv
<1>8. ~note => C!Regime(s) \notin C!Hostile OBVIOUS
<1> HIDE DEF note, view
<1>9. c \in CardType BY <1>1, <1>2, <1>3, <1>4, <1>5, <1>6, <1>7 DEF CardType, Approvals
<1>10. /\ c.asset = a /\ c.side = C!Wanted(s) /\ c.born = s /\ c.note = note /\ c.view = view
  BY <1>1
<1>11. Alive(c)
  <2>1. CASE note BY <1>10, <2>1 DEF Alive
  <2>2. CASE a = C!Gold /\ C!Wanted(s) = "SELL" BY <1>10, <2>2 DEF Alive
  <2>3. CASE ~note /\ ~(a = C!Gold /\ C!Wanted(s) = "SELL")
    <3>1. C!Codes(a, C!Wanted(s), C!FromFeed(s), FALSE) = {} BY <1>8, <2>3, BornOfItsThesis
    <3> QED BY <1>10, <3>1 DEF Alive
  <2> QED BY <2>1, <2>2, <2>3
<1> QED BY <1>9, <1>10, <1>11 DEF view

\* the deck with one more card
LEMMA Dealt ==
    ASSUME CardInv, NEW l, Sees(l, cards), NEW a \in C!Traded, a \notin l.pend,
           NEW s \in C!SnapType, NEW deck, deck = Append(cards, C!CardOf(l, a, s))
    PROVE  /\ Deck(deck) /\ \A r : Watches(r, cards) => Watches(r, deck)
           /\ \A o : Faithful(o, cards) => Faithful(o, deck)
           /\ \A batch : Trades(batch, cards) => Trades(batch, deck)
           /\ DOMAIN cards \subseteq DOMAIN deck
<1> DEFINE c == C!CardOf(l, a, s)
           n == Len(cards) + 1
<1>1. l \in LoopType BY DEF Sees
<1>2. /\ c \in CardType /\ Alive(c) /\ c.asset = a
      /\ c.view = IF l.reads THEN l.from ELSE 0
  BY <1>1, Written
<1>3. cards \in Seq(CardType) /\ Apart(cards) /\ \A k \in DOMAIN cards : Alive(cards[k])
  BY DEF CardInv, Deck
<1> HIDE DEF c
<1>4. /\ deck \in Seq(CardType) /\ Len(deck) = n /\ DOMAIN deck = DOMAIN cards \cup {n}
      /\ n \notin DOMAIN cards /\ deck[n] = c /\ \A k \in DOMAIN cards : deck[k] = cards[k]
      /\ \A k \in DOMAIN cards : k < n /\ k \in Nat \ {0}
      /\ Len(cards) \in Nat
  BY <1>2, <1>3 DEF c
<1>5. ASSUME NEW k \in DOMAIN cards, cards[k].approval = "pending", cards[k].asset = a
      PROVE  c.view < k
  <2>1. CASE l.reads
    <3>1. ~(k <= l.from) BY <1>5, <2>1 DEF Sees
    <3> QED BY <1>2, <1>4, <1>1, <2>1, <3>1 DEF LoopType
  <2>2. CASE ~l.reads BY <1>2, <1>4, <2>2
  <2> QED BY <2>1, <2>2
<1>6. Apart(deck)
  <2> SUFFICES ASSUME NEW i \in DOMAIN deck, NEW j \in DOMAIN deck, i < j,
                      deck[i].approval = "pending", deck[j].approval = "pending",
                      deck[i].asset = deck[j].asset
               PROVE  deck[j].view < i
    BY DEF Apart
  <2>1. CASE j = n
    <3>1. i \in DOMAIN cards BY <1>4, <2>1
    <3> QED BY <1>2, <1>4, <1>5, <2>1, <3>1
  <2>2. CASE j # n
    <3>1. i \in DOMAIN cards /\ j \in DOMAIN cards BY <1>4, <2>2
    <3> QED BY <1>3, <1>4, <3>1 DEF Apart
  <2> QED BY <2>1, <2>2
<1>7. \A k \in DOMAIN deck : Alive(deck[k]) BY <1>2, <1>3, <1>4
<1>8. Deck(deck) BY <1>4, <1>6, <1>7 DEF Deck
<1>9. ASSUME NEW r, Watches(r, cards) PROVE Watches(r, deck)
  <2>1. ASSUME NEW m, Sees(m, cards) PROVE Sees(m, deck)
    <3>1. m \in LoopType /\ m.from <= Len(cards) BY <2>1 DEF Sees
    <3>2. m.from \in Nat BY <3>1 DEF LoopType
    <3>3. ~(n <= m.from) /\ m.from <= Len(deck) BY <1>4, <3>1, <3>2
    <3>4. m.reads => \A k \in DOMAIN deck :
              (deck[k].approval = "pending" /\ k <= m.from) => deck[k].asset \in m.pend
      BY <1>4, <2>1, <3>3 DEF Sees
    <3> QED BY <3>1, <3>3, <3>4 DEF Sees
  <2> QED BY <1>9, <2>1 DEF Watches
<1>10. \A o : Faithful(o, cards) => Faithful(o, deck) BY <1>4 DEF Faithful
<1>11. \A batch : Trades(batch, cards) => Trades(batch, deck)
  <2> TAKE batch
  <2> SUFFICES ASSUME Trades(batch, cards) PROVE Trades(batch, deck)
    OBVIOUS
  <2>1. batch.batch \subseteq DOMAIN cards => batch.batch \subseteq DOMAIN deck BY <1>4
  <2> QED BY <1>4, <2>1 DEF Trades
<1> QED BY <1>4, <1>8, <1>9, <1>10, <1>11

\* an order fired on a card
LEMMA Shot ==
    ASSUME CardInv, NEW k \in DOMAIN cards, NEW s \in Quotes, C!Holds(k, s)
    PROVE  /\ C!Ordered(k, s) \in Seq(ShotType)
           /\ \A i \in DOMAIN C!Ordered(k, s) : Faithful(C!Ordered(k, s)[i], cards)
<1> DEFINE o == [card |-> k, at |-> clock, snap |-> s, dist |-> C!Effective(cards[k].dist)]
<1>1. s # C!NoSnap /\ ~C!Old(k) /\ C!TrendBacks(cards[k].side, s) BY HeldThesis
<1>2. cards \in Seq(CardType) /\ clock \in Nat /\ cardOrders \in Seq(ShotType)
      /\ \A i \in DOMAIN cardOrders : Faithful(cardOrders[i], cards)
  BY DEF CardInv, Deck
<1>3. cards[k] \in CardType /\ k \in Nat BY <1>2
<1>4. C!Effective(cards[k].dist) \in Int BY <1>3, Distances DEF CardType
<1>5. s \in C!SnapType BY <1>1 DEF Quotes
<1>6. o \in ShotType BY <1>2, <1>3, <1>4, <1>5 DEF ShotType
<1>7. clock - cards[k].made <= TTL
  BY <1>1, <1>2, <1>3, CardAssumption DEF C!Old, CardType
<1>8. Faithful(o, cards) BY <1>1, <1>7 DEF Faithful
<1>9. C!Ordered(k, s) = Append(cardOrders, o) BY DEF C!Ordered
<1> HIDE DEF o
<1> QED BY <1>2, <1>6, <1>8, <1>9

LEMMA Quote ==
    ASSUME CardInv, NEW a \in C!Traded
    PROVE  C!Quoted(a) \in Quotes
<1>1. market[a] \in C!SnapType BY CardAssumption DEF CardInv
<1> QED BY <1>1, CardFed DEF C!Quoted, Quotes

\* what a deck that only matures keeps
LEMMA Ripens ==
    ASSUME CardInv, NEW deck, Matures(cards, deck)
    PROVE  /\ Deck(deck) /\ \A p \in Scanners : Watches(scan[p], deck)
           /\ \A o : Faithful(o, cards) => Faithful(o, deck)
           /\ \A i \in DOMAIN cardOrders : Faithful(cardOrders[i], deck)
           /\ Trades(cardAuto, deck) /\ DOMAIN deck = DOMAIN cards
<1>1. Deck(cards) BY DEF CardInv
<1>2. /\ Deck(deck)
      /\ \A r : Watches(r, cards) => Watches(r, deck)
      /\ \A o : Faithful(o, cards) => Faithful(o, deck)
      /\ \A batch : Trades(batch, cards) => Trades(batch, deck)
  BY <1>1, Matured
<1>3. DOMAIN deck = DOMAIN cards BY DEF Matures
<1> QED BY <1>2, <1>3 DEF CardInv

LEMMA ScanSteps ==
    ASSUME CardInv, NEW p \in Scanners, NEW reads \in BOOLEAN, NEW shut \in BOOLEAN,
           C!ScanBegin(p) \/ C!ScanFetch(p) \/ C!ScanRead(p, reads, shut)
    PROVE  CardInv'
<1>1. cards \in Seq(CardType) /\ Len(cards) \in Nat /\ DOMAIN scan = Scanners
  BY DEF CardInv, Deck
<1>2. CASE C!ScanBegin(p)
  <2>1. /\ scan' = [scan EXCEPT ![p] = [at |-> "fetching"]]
        /\ UNCHANGED <<market, clock, preloaded, cards, cardOrders, cardAuto, cardDesk>>
    BY <1>2 DEF C!ScanBegin
  <2>2. Watches([at |-> "fetching"], cards) BY DEF Watches
  <2>3. \A q \in Scanners : Watches(scan'[q], cards) BY <1>1, <2>1, <2>2 DEF CardInv
  <2>4. DOMAIN scan' = Scanners BY <1>1, <2>1
  <2> QED BY <2>1, <2>3, <2>4 DEF CardInv
<1>3. CASE C!ScanFetch(p)
  <2>1. /\ scan' = [scan EXCEPT ![p] = [at |-> "fetched"]]
        /\ preloaded' = [a \in {b \in C!Traded : up[b]} |-> market[a]]
        /\ UNCHANGED <<market, clock, cards, cardOrders, cardAuto, cardDesk>>
    BY <1>3 DEF C!ScanFetch
  <2>2. Watches([at |-> "fetched"], cards) BY DEF Watches
  <2>3. \A q \in Scanners : Watches(scan'[q], cards) BY <1>1, <2>1, <2>2 DEF CardInv
  <2>4. DOMAIN scan' = Scanners BY <1>1, <2>1
  <2>5. DOMAIN preloaded' \subseteq C!Traded
        /\ \A a \in DOMAIN preloaded' : preloaded'[a] \in Snapshots
    BY <2>1 DEF CardInv
  <2> QED BY <2>1, <2>3, <2>4, <2>5 DEF CardInv
<1>4. CASE C!ScanRead(p, reads, shut)
  <2> DEFINE r == [at |-> "loop", next |-> 1, shut |-> shut, reads |-> reads,
                   from |-> Len(cards), today |-> IF reads THEN Len(cards) ELSE 0,
                   pend |-> IF reads THEN {cards[k].asset : k \in C!Pending} ELSE {}]
  <2>1. /\ scan' = [scan EXCEPT ![p] = r]
        /\ UNCHANGED <<market, clock, preloaded, cards, cardOrders, cardAuto, cardDesk>>
    BY <1>4 DEF C!ScanRead
  <2>2. 1 \in 1..Len(Universe)
    <3>1. Universe \in Seq(C!Traded) /\ Universe # <<>> BY CardAssumption
    <3> QED BY <3>1
  <2>3. {cards[k].asset : k \in C!Pending} \subseteq C!Traded
    <3>1. \A k \in DOMAIN cards : cards[k].asset \in C!Traded BY <1>1, CardsTyped
    <3>2. C!Pending \subseteq DOMAIN cards BY DEF C!Pending
    <3> QED BY <3>1, <3>2
  <2>4. r \in LoopType BY <1>1, <2>2, <2>3 DEF LoopType
  <2>5. reads => \A k \in DOMAIN cards :
            (cards[k].approval = "pending" /\ k <= Len(cards)) => cards[k].asset \in r.pend
    BY DEF C!Pending
  <2>6. r.from = Len(cards) /\ r.reads = reads OBVIOUS
  <2> HIDE DEF r
  <2>7. Watches(r, cards)
    <3>1. r.at = "loop" BY <2>4 DEF LoopType
    <3>2. Sees(r, cards) BY <1>1, <2>4, <2>5, <2>6 DEF Sees
    <3> QED BY <3>1, <3>2 DEF Watches
  <2>8. \A q \in Scanners : Watches(scan'[q], cards) BY <1>1, <2>1, <2>7 DEF CardInv
  <2>9. DOMAIN scan' = Scanners BY <1>1, <2>1
  <2> QED BY <2>1, <2>8, <2>9 DEF CardInv
<1> QED BY <1>2, <1>3, <1>4

\* the asset of a loop
LEMMA InUniverse ==
    ASSUME NEW l \in LoopType
    PROVE  Universe[l.next] \in C!Traded
<1>1. Universe \in Seq(C!Traded) BY CardAssumption
<1>2. l.next \in 1..Len(Universe) BY DEF LoopType
<1> QED BY <1>1, <1>2

\* what a loop has seen, it has seen at its next asset
LEMMA Proceeds ==
    ASSUME NEW l, Sees(l, cards), NEW a \in C!Traded, NEW emits \in BOOLEAN
    PROVE  Watches(C!Onward(l, a, emits), cards)
<1> DEFINE r == C!Onward(l, a, emits)
<1>1. l \in LoopType BY DEF Sees
<1>2. CASE l.next = Len(Universe)
  <2>1. r = C!Idle BY <1>2 DEF C!Onward
  <2> QED BY <2>1 DEF Watches, C!Idle
<1>3. CASE l.next # Len(Universe)
  <2> DEFINE r1 == [l EXCEPT !.next = @ + 1]
             pend == IF emits THEN l.pend \cup {a} ELSE l.pend
             r2 == [r1 EXCEPT !.pend = pend]
             count == IF emits THEN l.today + 1 ELSE l.today
  <2>1. r = [r2 EXCEPT !.today = count] BY <1>3, Zenon DEF C!Onward
  <2>2. l.next + 1 \in 1..Len(Universe)
    <3>1. Len(Universe) \in Nat
      <4>1. Universe \in Seq(C!Traded) BY CardAssumption
      <4> QED BY <4>1
    <3>2. l.next \in 1..Len(Universe) BY <1>1 DEF LoopType
    <3> QED BY <1>3, <3>1, <3>2
  <2>3. r1 \in LoopType /\ r1.from = l.from /\ r1.reads = l.reads
    BY <1>1, <2>2 DEF LoopType
  <2>4. pend \in SUBSET C!Traded /\ l.pend \subseteq pend /\ count \in Nat
    BY <1>1 DEF LoopType
  <2> HIDE DEF r1, pend, count
  <2>5. r2 \in LoopType /\ r2.from = l.from /\ r2.reads = l.reads /\ r2.pend = pend
    BY <2>3, <2>4 DEF LoopType
  <2> HIDE DEF r2
  <2>6. r \in LoopType /\ r.from = l.from /\ r.reads = l.reads /\ r.pend = pend
    BY <2>1, <2>4, <2>5 DEF LoopType
  <2> HIDE DEF r
  <2>7. r.at = "loop" BY <2>6 DEF LoopType
  <2>8. Sees(r, cards) BY <2>4, <2>6 DEF Sees
  <2> QED BY <2>7, <2>8 DEF Watches, r
<1> QED BY <1>2, <1>3

\* a loop that writes its card, or fails to
LEMMA InsertStep ==
    ASSUME CardInv, NEW p \in Scanners, NEW l, Sees(l, cards), NEW a \in C!Traded,
           a \notin l.pend, NEW s \in C!SnapType, C!Inserts(p, l, a, s),
           UNCHANGED <<market, clock, preloaded, cardOrders, cardAuto, cardDesk>>
    PROVE  CardInv'
<1> DEFINE r == C!Onward(l, a, TRUE)
<1>1. /\ cards' = cards \/ cards' = Append(cards, C!CardOf(l, a, s))
      /\ scan' = [scan EXCEPT ![p] = r]
  BY DEF C!Inserts
<1>2. /\ Deck(cards') /\ \A q : Watches(q, cards) => Watches(q, cards')
      /\ \A o : Faithful(o, cards) => Faithful(o, cards')
      /\ \A batch : Trades(batch, cards) => Trades(batch, cards')
      /\ DOMAIN cards \subseteq DOMAIN cards'
  <2>1. CASE cards' = cards BY <2>1 DEF CardInv
  <2>2. CASE cards' = Append(cards, C!CardOf(l, a, s)) BY <2>2, Dealt
  <2> QED BY <1>1, <2>1, <2>2
<1>3. Watches(r, cards) BY Proceeds
<1> HIDE DEF r
<1>4. DOMAIN scan = Scanners BY DEF CardInv
<1>5. \A q \in Scanners : Watches(scan'[q], cards') BY <1>1, <1>2, <1>3, <1>4 DEF CardInv
<1>6. DOMAIN scan' = Scanners BY <1>1, <1>4
<1>7. cardDesk' # C!Idle => cardDesk'.card \in DOMAIN cards' BY <1>2 DEF CardInv
<1> QED BY <1>2, <1>5, <1>6, <1>7 DEF CardInv

LEMMA ScanAssetStep ==
    ASSUME CardInv, NEW p \in Scanners, C!ScanAsset(p)
    PROVE  CardInv'
<1> DEFINE l == scan[p]
           a == Universe[l.next]
           s == IF a \in DOMAIN preloaded THEN preloaded[a]
                ELSE IF up[a] THEN market[a] ELSE C!NoSnap
           spot == [at |-> "spot", loop |-> l, snap |-> s]
<1>1. /\ l.at = "loop"
      /\ UNCHANGED <<market, clock, preloaded, cardOrders, cardAuto, cardDesk>>
      /\ IF s # C!NoSnap /\ C!Emits(p, a, s)
         THEN C!Inserts(p, l, a, s) \/ (scan' = [scan EXCEPT ![p] = spot] /\ cards' = cards)
         ELSE scan' = [scan EXCEPT ![p] = C!Onward(l, a, FALSE)] /\ cards' = cards
  BY DEF C!ScanAsset
<1>2. Sees(l, cards) /\ DOMAIN scan = Scanners BY <1>1 DEF CardInv, Watches
<1>3. a \in C!Traded BY <1>2, InUniverse DEF Sees
<1>4. s # C!NoSnap => s \in C!SnapType
  <2> HIDE DEF a
  <2> QED BY <1>3, CardAssumption DEF CardInv
<1>5. C!Emits(p, a, s) => a \notin l.pend BY DEF C!Emits
<1>6. ASSUME NEW r, Watches(r, cards), scan' = [scan EXCEPT ![p] = r], cards' = cards
      PROVE  CardInv'
  <2>1. DOMAIN scan' = Scanners /\ \A q \in Scanners : Watches(scan'[q], cards)
    BY <1>2, <1>6 DEF CardInv
  <2> QED BY <1>1, <1>6, <2>1 DEF CardInv
<1>7. s \in C!SnapType /\ a \notin l.pend => Watches(spot, cards)
  <2>1. spot.at = "spot" /\ spot.loop = l /\ spot.snap = s OBVIOUS
  <2> HIDE DEF spot, s
  <2> QED BY <1>2, <2>1 DEF Watches
<1>8. Watches(C!Onward(l, a, FALSE), cards) BY <1>2, <1>3, Proceeds
<1> HIDE DEF spot, s, a, l
<1>9. CASE s # C!NoSnap /\ C!Emits(p, a, s)
  <2>1. s \in C!SnapType /\ a \notin l.pend BY <1>4, <1>5, <1>9
  <2>2. CASE C!Inserts(p, l, a, s) BY <1>1, <1>2, <1>3, <2>1, <2>2, InsertStep
  <2>3. CASE scan' = [scan EXCEPT ![p] = spot] /\ cards' = cards BY <1>6, <1>7, <2>1, <2>3
  <2> QED BY <1>1, <1>9, <2>2, <2>3
<1>10. CASE ~(s # C!NoSnap /\ C!Emits(p, a, s)) BY <1>1, <1>6, <1>8, <1>10
<1> QED BY <1>9, <1>10

LEMMA ScanSpotStep ==
    ASSUME CardInv, NEW p \in Scanners, C!ScanSpot(p)
    PROVE  CardInv'
<1> DEFINE l == scan[p].loop
           a == Universe[l.next]
<1>1. /\ scan[p].at = "spot" /\ C!Inserts(p, l, a, scan[p].snap)
      /\ UNCHANGED <<market, clock, preloaded, cardOrders, cardAuto, cardDesk>>
  BY DEF C!ScanSpot
<1>2. Sees(l, cards) /\ scan[p].snap \in C!SnapType /\ a \notin l.pend
  BY <1>1 DEF CardInv, Watches
<1>3. a \in C!Traded BY <1>2, InUniverse DEF Sees
<1> HIDE DEF l, a
<1> QED BY <1>1, <1>2, <1>3, InsertStep

\* the page and the auto trader, which expire what is old before they look
LEMMA QueueSteps ==
    ASSUME CardInv, C!PageLoads \/ C!AutoBegin \/ C!AutoFetch
    PROVE  CardInv'
<1>1. cards \in Seq(CardType) /\ Matures(cards, C!Expired) BY ExpiredMatures DEF CardInv, Deck
<1>2. CASE C!PageLoads
  <2>1. /\ cards' = C!Expired
        /\ UNCHANGED <<market, clock, preloaded, scan, cardOrders, cardAuto, cardDesk>>
    BY <1>2 DEF C!PageLoads
  <2> QED BY <1>1, <2>1, Ripens DEF CardInv
<1>3. CASE C!AutoBegin
  <2> DEFINE batch == {k \in DOMAIN cards : C!Expired[k].approval = "pending"}
  <2>1. /\ cards' = C!Expired /\ cardAuto' = [at |-> "read", batch |-> batch, held |-> C!Held]
        /\ UNCHANGED <<market, clock, preloaded, scan, cardOrders, cardDesk>>
    BY <1>3 DEF C!AutoBegin
  <2>2. C!Held \subseteq C!Traded
    <3>1. \A i \in DOMAIN cardOrders : cards[cardOrders[i].card].asset \in C!Traded
      BY <1>1, CardsTyped DEF CardInv, Faithful
    <3>2. C!Range(cardOrders) = {cardOrders[i] : i \in DOMAIN cardOrders} BY DEF C!Range
    <3> QED BY <3>1, <3>2 DEF C!Held
  <2>3. batch \subseteq DOMAIN cards OBVIOUS
  <2> HIDE DEF batch
  <2>4. Trades(cardAuto', cards') BY <1>1, <2>1, <2>2, <2>3 DEF Trades, Matures
  <2> QED BY <1>1, <2>1, <2>4, Ripens DEF CardInv
<1>4. CASE C!AutoFetch
  <2> DEFINE wares == {cards[k].asset : k \in cardAuto.batch}
             snaps == [a \in wares |-> C!Quoted(a)]
  <2>1. /\ cardAuto.at = "read"
        /\ cardAuto' = [at |-> "loop", batch |-> cardAuto.batch, held |-> cardAuto.held,
                        snaps |-> snaps]
        /\ UNCHANGED <<market, clock, preloaded, scan, cards, cardOrders, cardDesk>>
    BY <1>4 DEF C!AutoFetch
  <2>2. cardAuto.batch \subseteq DOMAIN cards /\ cardAuto.held \subseteq C!Traded
    BY <2>1 DEF CardInv, Trades, C!Idle, BatchType
  <2>3. wares \subseteq C!Traded
    <3>1. \A k \in DOMAIN cards : cards[k].asset \in C!Traded BY <1>1, CardsTyped
    <3> QED BY <2>2, <3>1
  <2>4. \A k \in cardAuto.batch : cards[k].asset \in wares OBVIOUS
  <2> HIDE DEF wares
  <2>5. \A a \in wares : C!Quoted(a) \in Quotes BY <2>3, Quote
  <2>6. snaps \in [wares -> Quotes] BY <2>5
  <2>7. snaps \in UNION {[w -> Quotes] : w \in SUBSET C!Traded} BY <2>3, <2>6
  <2>8. DOMAIN snaps = wares BY <2>6
  <2> HIDE DEF snaps
  <2>9. DOMAIN cards \subseteq Nat BY <1>1
  <2>10. cardAuto' \in BatchType BY <2>1, <2>2, <2>7, <2>9 DEF BatchType
  <2>11. /\ cardAuto'.batch \subseteq DOMAIN cards
         /\ \A k \in cardAuto'.batch : cards[k].asset \in DOMAIN cardAuto'.snaps
    BY <2>1, <2>2, <2>4, <2>8
  <2>12. Trades(cardAuto', cards') BY <2>1, <2>10, <2>11 DEF Trades
  <2> QED BY <2>1, <2>12 DEF CardInv
<1> QED BY <1>2, <1>3, <1>4

\* what a firing order leaves: the card approved, the order on its thesis
LEMMA FiredSoundly ==
    ASSUME CardInv, NEW k \in DOMAIN cards, NEW s \in Quotes, NEW held \in BOOLEAN,
           IF held /\ C!Holds(k, s)
           THEN cardOrders' = C!Ordered(k, s) /\ cards' = C!Marked(k, "approved")
           ELSE cardOrders' = cardOrders
                /\ (cards' = cards \/ cards' = C!Marked(k, "rejected"))
    PROVE  /\ Deck(cards') /\ \A p \in Scanners : Watches(scan[p], cards')
           /\ cardOrders' \in Seq(ShotType)
           /\ \A i \in DOMAIN cardOrders' : Faithful(cardOrders'[i], cards')
           /\ Trades(cardAuto, cards') /\ DOMAIN cards' = DOMAIN cards
           /\ \A j \in DOMAIN cards : cards'[j].asset = cards[j].asset
<1>1. cards \in Seq(CardType) BY DEF CardInv, Deck
<1>2. CASE held /\ C!Holds(k, s)
  <2>1. cardOrders' = C!Ordered(k, s) /\ cards' = C!Marked(k, "approved") BY <1>2
  <2>2. Matures(cards, cards') BY <1>1, <2>1, MarkedMatures
  <2>3. /\ C!Ordered(k, s) \in Seq(ShotType)
        /\ \A i \in DOMAIN C!Ordered(k, s) : Faithful(C!Ordered(k, s)[i], cards)
    BY <1>2, Shot
  <2>4. /\ Deck(cards') /\ \A p \in Scanners : Watches(scan[p], cards')
        /\ \A o : Faithful(o, cards) => Faithful(o, cards')
        /\ Trades(cardAuto, cards')
    BY <2>2, Ripens
  <2> QED BY <2>1, <2>2, <2>3, <2>4 DEF Matures
<1>3. CASE ~(held /\ C!Holds(k, s))
  <2>1. cardOrders' = cardOrders /\ (cards' = cards \/ cards' = C!Marked(k, "rejected"))
    BY <1>3
  <2>2. CASE cards' = cards BY <2>1, <2>2 DEF CardInv
  <2>3. CASE cards' = C!Marked(k, "rejected")
    <3>1. Matures(cards, cards') BY <1>1, <2>3, MarkedMatures
    <3>2. /\ Deck(cards') /\ \A p \in Scanners : Watches(scan[p], cards')
          /\ \A i \in DOMAIN cardOrders : Faithful(cardOrders[i], cards')
          /\ Trades(cardAuto, cards')
      BY <3>1, Ripens
    <3> QED BY <2>1, <3>1, <3>2 DEF Matures, CardInv
  <2> QED BY <2>1, <2>2, <2>3
<1> QED BY <1>2, <1>3

LEMMA AutoFireStep ==
    ASSUME CardInv, C!AutoFire
    PROVE  CardInv'
<1>1. PICK k \in cardAuto.batch :
         LET a == cards[k].asset
             s == IF cardAuto.snaps[a] # C!NoSnap THEN cardAuto.snaps[a] ELSE C!Quoted(a)
             rest == cardAuto.batch \ {k}
         IN  /\ IF a \notin cardAuto.held /\ C!Holds(k, s)
                THEN cardOrders' = C!Ordered(k, s) /\ cards' = C!Marked(k, "approved")
                ELSE UNCHANGED <<cardOrders, cards>>
             /\ cardAuto' = IF rest = {} THEN C!Idle ELSE [cardAuto EXCEPT !.batch = rest]
  BY DEF C!AutoFire
<1>2. cardAuto.at = "loop" /\ UNCHANGED <<market, clock, preloaded, scan, cardDesk>>
  BY DEF C!AutoFire
<1>3. /\ cardAuto \in BatchType /\ cardAuto.batch \subseteq DOMAIN cards
      /\ \A j \in cardAuto.batch : cards[j].asset \in DOMAIN cardAuto.snaps
  BY <1>2 DEF CardInv, Trades, C!Idle
<1>4. cards \in Seq(CardType) /\ k \in DOMAIN cards BY <1>3 DEF CardInv, Deck
<1> DEFINE a == cards[k].asset
           s == IF cardAuto.snaps[a] # C!NoSnap THEN cardAuto.snaps[a] ELSE C!Quoted(a)
           rest == cardAuto.batch \ {k}
           free == a \notin cardAuto.held
<1>5. a \in C!Traded BY <1>4, CardsTyped
<1>6. s \in Quotes
  <2>1. C!Quoted(a) \in Quotes BY <1>5, Quote
  <2>2. cardAuto.snaps[a] \in Quotes
    <3>1. PICK wares \in SUBSET C!Traded : cardAuto.snaps \in [wares -> Quotes]
      BY <1>3 DEF BatchType
    <3>2. a \in DOMAIN cardAuto.snaps BY <1>3
    <3> QED BY <3>1, <3>2
  <2> QED BY <2>1, <2>2
<1>7. IF free /\ C!Holds(k, s)
      THEN cardOrders' = C!Ordered(k, s) /\ cards' = C!Marked(k, "approved")
      ELSE cardOrders' = cardOrders
           /\ (cards' = cards \/ cards' = C!Marked(k, "rejected"))
  BY <1>1
<1>8. cardAuto' = IF rest = {} THEN C!Idle ELSE [cardAuto EXCEPT !.batch = rest] BY <1>1
<1>9. free \in BOOLEAN OBVIOUS
<1> HIDE DEF free, s, a
<1>10. /\ Deck(cards') /\ \A p \in Scanners : Watches(scan[p], cards')
       /\ cardOrders' \in Seq(ShotType)
       /\ \A i \in DOMAIN cardOrders' : Faithful(cardOrders'[i], cards')
       /\ DOMAIN cards' = DOMAIN cards
       /\ \A j \in DOMAIN cards : cards'[j].asset = cards[j].asset
  BY <1>4, <1>6, <1>7, <1>9, FiredSoundly
<1>11. Trades(cardAuto', cards')
  <2>1. CASE rest = {} BY <1>8, <2>1 DEF Trades
  <2>2. CASE rest # {}
    <3>1. cardAuto' = [cardAuto EXCEPT !.batch = rest] BY <1>8, <2>2
    <3>2. rest \in SUBSET Nat /\ rest \subseteq cardAuto.batch BY <1>3 DEF BatchType
    <3> HIDE DEF rest
    <3>3. /\ cardAuto' \in BatchType /\ cardAuto'.batch = rest
          /\ cardAuto'.snaps = cardAuto.snaps
      BY <1>3, <3>1, <3>2 DEF BatchType
    <3> QED BY <1>3, <1>10, <3>2, <3>3 DEF Trades
  <2> QED BY <2>1, <2>2
<1> QED BY <1>2, <1>10, <1>11 DEF CardInv

\* the owner's answers
LEMMA OwnerSteps ==
    ASSUME CardInv, C!ApproveEnds \/ \E k \in DOMAIN cards : C!Approve(k) \/ C!Reject(k)
    PROVE  CardInv'
<1>1. cards \in Seq(CardType) BY DEF CardInv, Deck
<1>2. ASSUME NEW k \in DOMAIN cards, NEW answer \in {"approved", "rejected"},
             cards' = C!Marked(k, answer)
      PROVE  /\ Deck(cards') /\ \A p \in Scanners : Watches(scan[p], cards')
             /\ \A i \in DOMAIN cardOrders : Faithful(cardOrders[i], cards')
             /\ Trades(cardAuto, cards') /\ DOMAIN cards' = DOMAIN cards
  BY <1>1, <1>2, MarkedMatures, Ripens
<1>3. ASSUME NEW k \in DOMAIN cards, C!Approve(k) PROVE CardInv'
  <2>1. /\ cards' = C!Marked(k, "approved") /\ cardDesk' = [at |-> "placing", card |-> k]
        /\ UNCHANGED <<market, clock, preloaded, scan, cardOrders, cardAuto>>
    BY <1>3 DEF C!Approve
  <2>2. cardDesk'.card = k BY <2>1
  <2> QED BY <1>2, <2>1, <2>2 DEF CardInv
<1>4. ASSUME NEW k \in DOMAIN cards, C!Reject(k) PROVE CardInv'
  <2>1. /\ cards' = C!Marked(k, "rejected")
        /\ UNCHANGED <<market, clock, preloaded, scan, cardOrders, cardAuto, cardDesk>>
    BY <1>4 DEF C!Reject
  <2> QED BY <1>2, <2>1 DEF CardInv
<1>5. CASE C!ApproveEnds
  <2> DEFINE k == cardDesk.card
             s == C!Quoted(cards[k].asset)
  <2>1. /\ IF C!Holds(k, s)
           THEN cardOrders' = C!Ordered(k, s) /\ cards' = C!Marked(k, "approved")
           ELSE cardOrders' = cardOrders /\ cards' = C!Marked(k, "rejected")
        /\ cardDesk # C!Idle /\ cardDesk' = C!Idle
        /\ UNCHANGED <<market, clock, preloaded, scan, cardAuto>>
    BY <1>5 DEF C!ApproveEnds
  <2>2. k \in DOMAIN cards BY <2>1 DEF CardInv
  <2> HIDE DEF k
  <2>3. cards[k].asset \in C!Traded BY <1>1, <2>2, CardsTyped
  <2>4. s \in Quotes BY <2>3, Quote
  <2> HIDE DEF s
  <2>5. IF TRUE /\ C!Holds(k, s)
        THEN cardOrders' = C!Ordered(k, s) /\ cards' = C!Marked(k, "approved")
        ELSE cardOrders' = cardOrders
             /\ (cards' = cards \/ cards' = C!Marked(k, "rejected"))
    BY <2>1
  <2>6. /\ Deck(cards') /\ \A p \in Scanners : Watches(scan[p], cards')
        /\ cardOrders' \in Seq(ShotType)
        /\ \A i \in DOMAIN cardOrders' : Faithful(cardOrders'[i], cards')
        /\ Trades(cardAuto, cards')
    BY <2>2, <2>4, <2>5, FiredSoundly
  <2> QED BY <2>1, <2>6 DEF CardInv
<1> QED BY <1>3, <1>4, <1>5

LEMMA WorldSteps ==
    ASSUME CardInv,
           \/ \E a \in C!Traded, s \in Snapshots : C!MarketMoves(a, s)
           \/ \E a \in C!Traded : C!FeedTurns(a)
           \/ C!Tick
    PROVE  CardInv'
<1> DEFINE Turned == /\ market' \in [C!Traded -> Snapshots] /\ clock' \in Nat
                     /\ UNCHANGED <<preloaded, scan, cards, cardOrders, cardAuto, cardDesk>>
<1>1. ASSUME NEW a \in C!Traded, NEW s \in Snapshots, C!MarketMoves(a, s) PROVE Turned
  <2>1. /\ market' = [market EXCEPT ![a] = s] /\ clock' = clock
        /\ UNCHANGED <<preloaded, scan, cards, cardOrders, cardAuto, cardDesk>>
    BY <1>1 DEF C!MarketMoves
  <2> QED BY <2>1 DEF CardInv
<1>2. ASSUME NEW a \in C!Traded, C!FeedTurns(a) PROVE Turned
  BY <1>2 DEF C!FeedTurns, CardInv
<1>3. C!Tick => Turned BY DEF C!Tick, CardInv
<1>4. Turned
  <2> HIDE DEF Turned
  <2> QED BY <1>1, <1>2, <1>3
<1> QED BY <1>4 DEF CardInv

LEMMA CardsStart ==
    ASSUME C!CardsInit
    PROVE  CardInv
<1>1. market \in [C!Traded -> Snapshots] BY CardAssumption DEF C!CardsInit
<1>2. /\ clock = 0 /\ preloaded = <<>> /\ scan = [p \in Scanners |-> C!Idle]
      /\ cards = <<>> /\ cardOrders = <<>> /\ cardAuto = C!Idle /\ cardDesk = C!Idle
  BY DEF C!CardsInit
<1>3. Deck(cards) BY <1>2 DEF Deck, Apart
<1>4. \A p \in Scanners : Watches(scan[p], cards) BY <1>2 DEF Watches, C!Idle
<1>5. Trades(cardAuto, cards) BY <1>2 DEF Trades
<1>6. cardOrders \in Seq(ShotType) /\ DOMAIN cardOrders = {} BY <1>2
<1>7. DOMAIN preloaded = {} BY <1>2
<1>8. DOMAIN scan = Scanners BY <1>2
<1> QED BY <1>1, <1>2, <1>3, <1>4, <1>5, <1>6, <1>7, <1>8 DEF CardInv

LEMMA CardsStep ==
    ASSUME CardInv, C!CardsNext
    PROVE  CardInv'
<1>1. ASSUME NEW p \in Scanners, C!ScanBegin(p) \/ C!ScanFetch(p) PROVE CardInv'
  BY <1>1, ScanSteps
<1>2. ASSUME NEW p \in Scanners, C!ScanAsset(p) \/ C!ScanSpot(p) PROVE CardInv'
  BY <1>2, ScanAssetStep, ScanSpotStep
<1>3. ASSUME NEW p \in Scanners, NEW reads \in BOOLEAN, NEW shut \in BOOLEAN,
             C!ScanRead(p, reads, shut)
      PROVE  CardInv'
  BY <1>3, ScanSteps
<1>4. CASE C!PageLoads \/ C!AutoBegin \/ C!AutoFetch BY <1>4, QueueSteps
<1>5. CASE C!AutoFire BY <1>5, AutoFireStep
<1>6. CASE C!ApproveEnds \/ \E k \in DOMAIN cards : C!Approve(k) \/ C!Reject(k)
  BY <1>6, OwnerSteps
<1>7. CASE \/ \E a \in C!Traded, s \in Snapshots : C!MarketMoves(a, s)
           \/ \E a \in C!Traded : C!FeedTurns(a)
           \/ C!Tick
  BY <1>7, WorldSteps
<1> QED BY <1>1, <1>2, <1>3, <1>4, <1>5, <1>6, <1>7 DEF C!CardsNext

LEMMA CardsAlways == EntrySpec => []CardInv
<1>1. EntryInit => CardInv BY CardsStart DEF EntryInit
<1>2. CardInv /\ [EntryNext]_allVars => CardInv'
  <2> SUFFICES ASSUME CardInv, [EntryNext]_allVars PROVE CardInv'
    OBVIOUS
  <2>1. C!CardsNext \/ UNCHANGED cardVars BY DEF EntryNext, allVars
  <2>2. CASE C!CardsNext BY <2>2, CardsStep
  <2>3. CASE UNCHANGED cardVars BY <2>3 DEF cardVars, CardInv
  <2> QED BY <2>1, <2>2, <2>3
<1> QED BY <1>1, <1>2, PTL DEF EntrySpec

\* A card is born alive or says why not, two cards of one asset wait together
\* only if a scan could not see, and an order fires within the life of its card
\* and on its trend.
THEOREM CardsAlwaysSound == EntrySpec => []CardsSound
<1>1. CardInv => CardsSound
  <2> SUFFICES ASSUME CardInv PROVE CardsSound
    OBVIOUS
  <2>1. /\ Apart(cards) /\ (\A k \in DOMAIN cards : Alive(cards[k]))
        /\ \A i \in DOMAIN cardOrders : Faithful(cardOrders[i], cards)
    BY DEF CardInv, Deck
  <2>2. C!BornAlive BY <2>1 DEF C!BornAlive, Alive
  <2>3. C!TwinsOnlyBlind BY <2>1 DEF C!TwinsOnlyBlind, Apart, C!Pending
  <2>4. C!FiredOnItsThesis
    <3>1. SUFFICES ASSUME NEW i \in DOMAIN cardOrders
                   PROVE  LET o == cardOrders[i]
                          IN  /\ o.at - cards[o.card].made <= TTL
                              /\ C!TrendBacks(cards[o.card].side, o.snap)
                              /\ (o.snap.gap > 0) = (cards[o.card].born.gap > 0)
      BY DEF C!FiredOnItsThesis, C!Range
    <3> DEFINE o == cardOrders[i]
               c == cards[o.card]
    <3>2. o.card \in DOMAIN cards /\ o.at - c.made <= TTL /\ C!TrendBacks(c.side, o.snap)
      BY <2>1 DEF Faithful
    <3>3. c.side = C!Wanted(c.born) BY <2>1, <3>2 DEF Alive
    <3> HIDE DEF o
    <3> HIDE DEF c
    <3>4. (o.snap.gap > 0) = (c.side = "BUY") /\ (c.born.gap > 0) = (c.side = "BUY")
      BY <3>2, <3>3 DEF C!TrendBacks, C!Wanted
    <3> QED BY <3>2, <3>4 DEF o, c
  <2> QED BY <2>2, <2>3, <2>4 DEF CardsSound
<1> QED BY <1>1, CardsAlways, PTL

=============================================================================
