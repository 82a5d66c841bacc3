----------------------------- MODULE EntryGates -----------------------------
(***************************************************************************)
(* The way of an order through services/execution.py: effective stop,      *)
(* gates 0 to 7, sizing, the min-lot and spread guards and the thesis, for *)
(* the auto trader (which judges a whole cycle on one shared read of the   *)
(* journal), for POST /approve and /extended-open, and for the card that   *)
(* says beforehand what would happen (preview_order_blocked).              *)
(*                                                                         *)
(* Distances are whole points, lots whole hundredths, money whole units.   *)
(* Confidence stands for opportunity too; the live re-anchor moves entry   *)
(* and stop together and is left out, and so is gate 3b's spread share,    *)
(* which no effective stop reaches.                                        *)
(*                                                                         *)
(* Database.select logs a failed read and answers with no rows, and        *)
(* get_pause with "not paused": a read that is lost opens its gate, and    *)
(* the None of build_shared_cycle_state with its way back to reads per     *)
(* signal never happens. The gates and the order run in one piece of the   *)
(* event loop (PaperBroker does not suspend), but the monitor's thread may *)
(* pause the account in between, and time passes: an order is first        *)
(* passed, then placed.                                                    *)
(***************************************************************************)
EXTENDS Integers, Sequences, FiniteSetsExt, Functions, TLC

CONSTANTS
    Assets,
    Pair,       \* <<base, quote>> of an asset
    Metals,     \* assets of the gold class
    Worth,      \* money per point and hundredth of a lot, with the conversion
                \* rate of the quote (TRUE) and without it (FALSE)
    Spread,
    Signals,    \* stored signals: asset, buy, dist (0: no stop),
                \* confidence, lots = 0
    Legs,       \* market legs of extended plans: a signal with lots
    Plans,      \* the settings the owner may save
    NewsOf,     \* the currency of the next high-impact event
    Outages,    \* sets of reads that may fail together
    MaxOrders, MaxTurns, MaxOutages  \* bounds

VARIABLES
    settings, world, pending,
    open,       \* paper_trades with status open: indices into orders
    cooled,     \* assets closed less than reentry_cooldown_min ago
    loss,       \* realised loss of the day
    today, week,  \* rows created today and in the last seven days
    auto,       \* trade_once in flight: what it read at its start
    desk,       \* an approval or an extended open in flight
    passed,     \* an order past its gates and not yet with the broker
    orders,     \* every order placed
    halt,       \* how many there were when the pause and the market last changed
    turns       \* bounds used up, of the world and of failing reads

vars == <<settings, world, pending, open, cooled, loss, today, week, auto, desk,
          passed, orders, halt, turns>>

Markets == {"open", "thin", "shut"}
News == {"safe", "soon", "danger"}
Snaps == {"none", "agrees", "against"}  \* with the meta filter's verdict
Worlds == [paused : BOOLEAN, market : Markets, news : News, rates : BOOLEAN]
Settings == [mode : {"short", "medium", "long"}, lo : Nat, hi : Nat,
             cap : BOOLEAN, budget : Nat, minLot : Nat, daily : Nat,
             floor : Nat, minConfidence : Nat, perDay : Nat, perWeek : Nat,
             maxOpen : Nat, corr : Nat, ccy : Nat, quiet : BOOLEAN,
             flatten : BOOLEAN]

BookReads == {"count", "corr", "exposure", "heat"}  \* of gates 2, 4, 4b and 6
NewsReads == {"news", "flatten"}                    \* of gates 3 and 3b
CycleReads == {"journal"} \cup BookReads \cup NewsReads
FreshReads == {"pause", "kill", "cooldown"}

\* pips and the smallest lot are worth something, only a leg comes with lots
ASSUME EntryAssumption ==
    /\ Plans \subseteq Settings /\ Plans # {} /\ MaxTurns \in Nat
    /\ MaxOutages \in Nat
    /\ Outages \subseteq SUBSET (CycleReads \cup FreshReads)
    /\ Worth \in [Assets -> [BOOLEAN -> Nat \ {0}]] /\ Spread \in [Assets -> Nat]
    /\ \A o \in Signals \cup Legs :
          /\ o.asset \in Assets /\ o.buy \in BOOLEAN
          /\ o.dist \in Nat /\ o.lots \in Nat /\ (o.lots = 0 <=> o \in Signals)

(***************************************************************************)
(* Sizing and the effective stop (models/schemas.py)                       *)
(***************************************************************************)
Greater(x, y) == IF x > y THEN x ELSE y
Lesser(x, y) == IF x < y THEN x ELSE y
Rounded(n, d) == (2 * n + d) \div (2 * d)

\* spread_sl_floor, its multiple out of the settings
Floor(s, a) == s.floor * Spread[a]
RiskOf(a, known, dist, lots) == dist * lots * Worth[a][known]

\* risk_to_lot_for: the budget over the risk of one hundredth
RiskLots(s, a, known, dist) == Rounded(s.budget, dist * Worth[a][known])
Sized(s, a, known, dist) ==
    IF dist = 0 THEN 0 ELSE Greater(RiskLots(s, a, known, dist), s.minLot)

Affordable(s, a, known) == s.budget \div (s.minLot * Worth[a][known])

Lid(s, a, known) == Greater(Affordable(s, a, known), Floor(s, a))

Tier(s, dist) == CASE s.mode = "short" -> (2 * dist) \div 3
                   [] s.mode = "long" -> (4 * dist) \div 3
                   [] OTHER -> dist
Band(s, dist) == LET up == Greater(dist, s.lo)
                 IN  IF s.hi > 0 THEN Lesser(up, s.hi) ELSE up
Capped(s, a, known, dist) ==
    IF s.cap THEN Lesser(dist, Lid(s, a, known)) ELSE dist

\* (the spread floor taken before the cap and not after it)
EffectiveUnfloored(s, a, known, dist, sized) ==
    LET banded == Band(s, Tier(s, dist))
    IN  IF dist = 0 THEN 0
        ELSE IF sized THEN Capped(s, a, known, banded) ELSE banded

Effective(s, a, known, dist, sized) ==
    LET banded == Band(s, Tier(s, dist))
    IN  IF dist = 0 THEN 0
        ELSE Greater(IF sized THEN Capped(s, a, known, banded) ELSE banded,
                     Floor(s, a))

\* (every order at the floor of the lot let through)
BreachNever(s, a, known, dist) == FALSE

\* min_lot_budget_breach
Breach(s, a, known, dist) ==
    /\ RiskLots(s, a, known, dist) < s.minLot
    /\ RiskOf(a, known, dist, s.minLot) > s.budget

TooTight(s, a, known, dist) ==
    \/ RiskOf(a, known, Floor(s, a), s.minLot) > s.budget
    \/ dist < Floor(s, a)

(***************************************************************************)
(* Gates                                                                   *)
(***************************************************************************)
\* validate_settings: one trade may not risk the loss budget of a day
Valid(s) == s.budget > 0 /\ s.minLot > 0 /\ s.budget <= s.daily

\* portfolio_correlation: the mean of the class priors over all pairs
Correlation(held) ==
    LET n == Cardinality(held)
        g == Cardinality(held \cap Metals)
        f == n - g
    IN  IF n <= 1 THEN 0
        ELSE (55 * f * (f - 1) + 60 * f * g + 100 * g * (g - 1))
                \div (n * (n - 1))

Heat(book, known) ==
    MapThenSumSet(LAMBDA k : RiskOf(book[k].asset, known, book[k].dist,
                                    book[k].lots), DOMAIN book)

\* currency_risk: BUY is long the base and short the quote
Leans(row, ccy, long) == /\ ccy \in Range(Pair[row.asset])
                         /\ long = (row.buy = (ccy = Pair[row.asset][1]))
Crowded(s, book, known) ==
    /\ s.ccy > 0
    /\ \E ccy \in UNION {Range(Pair[a]) : a \in Assets}, long \in BOOLEAN :
          Heat(Restrict(book, {k \in DOMAIN book : Leans(book[k], ccy, long)}),
               known) > s.ccy

\* an order as the gates see it: lots = 0 asks for risk sizing
Lots(s, o, known, dist) ==
    IF o.lots > 0 THEN o.lots ELSE Sized(s, o.asset, known, dist)
RowOf(a, buy, dist, lots) ==
    [asset |-> a, buy |-> buy, dist |-> dist, lots |-> lots]
With(book, n, row) == [k \in DOMAIN book \cup {n} |-> IF k = n THEN row ELSE book[k]]

\* the rows of the journal: the fill is half a spread beyond the entry
FillDist(o) == IF o.dist = 0 THEN 0 ELSE o.dist + Spread[o.asset] \div 2
OpenRows == [k \in open |->
                LET o == orders[k] IN RowOf(o.asset, o.buy, FillDist(o), o.lots)]

\* what the gates are told of the journal, the open book and the calendar
NoBook == [k \in {} |-> RowOf("", FALSE, 0, 0)]
Reads(lost) ==
    [today |-> IF "journal" \in lost THEN 0 ELSE today,
     week |-> IF "journal" \in lost THEN 0 ELSE week,
     book |-> [g \in BookReads |-> IF g \in lost THEN NoBook ELSE OpenRows],
     news |-> [g \in NewsReads |-> IF g \in lost THEN "safe" ELSE world.news]]

\* the clock of the market, and pause, kill switch and cooldown, read at every
\* order
Fresh(s, asset, lost) ==
    /\ world.market # "shut"
    /\ "pause" \in lost \/ ~world.paused
    /\ "kill" \in lost \/ loss <= s.daily
    /\ "cooldown" \in lost \/ asset \notin cooled

\* gates 2, 3, 3b, 4, 4b, 6 on what was read, 5 repeats them
Analytic(s, r, o, known, dist) ==
    LET next == Len(orders) + 1
        row == RowOf(o.asset, o.buy, dist, Lots(s, o, known, dist))
        heat == IF dist = 0 THEN 0
                ELSE RiskOf(o.asset, known, dist,
                            Sized(s, o.asset, known, dist))
    IN  /\ o.confidence >= s.minConfidence
        /\ r.today < s.perDay /\ r.week < s.perWeek
        /\ Cardinality(DOMAIN r.book["count"]) < s.maxOpen
        /\ r.news["news"] # "danger"
        /\ ~(s.flatten /\ r.news["flatten"] = "soon" /\ NewsOf \in Range(Pair[o.asset]))
        /\ ~(s.quiet /\ world.market = "thin")
        /\ Correlation({r.book["corr"][k].asset : k \in DOMAIN r.book["corr"]}
                           \cup {o.asset}) <= s.corr
        /\ ~Crowded(s, IF dist = 0 THEN r.book["exposure"]
                       ELSE With(r.book["exposure"], next, row), known)
        /\ Heat(r.book["heat"], known) + heat <= s.daily

\* execute_signal up to the broker, with a thesis to check for a signal
Executes(s, r, o, known, snap, lost) ==
    LET dist == Effective(s, o.asset, known, o.dist, o.lots = 0)
    IN  /\ Valid(s) /\ (o.lots = 0 => snap = "agrees")
        /\ Fresh(s, o.asset, lost) /\ Analytic(s, r, o, known, dist)
        /\ Lots(s, o, known, dist) > 0
        /\ o.lots = 0 => /\ ~Breach(s, o.asset, known, dist)
                         /\ ~TooTight(s, o.asset, known, dist)

\* (a card that judges the stop as it was stored)
CardRaw(s, r, held, o, known, snap) ==
    /\ o.asset \notin held /\ Valid(s)
    /\ Fresh(s, o.asset, {}) /\ Analytic(s, r, o, known, o.dist)
    /\ o.dist > 0 /\ snap # "against"
    /\ ~Breach(s, o.asset, known, o.dist)
    /\ ~TooTight(s, o.asset, known, o.dist)

\* the card of a pending signal says that it is ready to fire
CardReady(s, r, held, o, known, snap) ==
    LET dist == Effective(s, o.asset, known, o.dist, TRUE)
    IN  /\ o.asset \notin held /\ Valid(s)
        /\ Fresh(s, o.asset, {}) /\ Analytic(s, r, o, known, dist)
        /\ Sized(s, o.asset, known, dist) > 0
        /\ ~Breach(s, o.asset, known, dist)
        /\ ~TooTight(s, o.asset, known, dist)
        /\ snap # "against"

\* GET /signals/latest: the open assets, one read, and the verdict
Held == {orders[k].asset : k \in open}
Card(o, known, snap) == CardReady(settings, Reads({}), Held, o, known, snap)

(***************************************************************************)
(* Actions                                                                 *)
(***************************************************************************)
NoReads == [today |-> 0, week |-> 0, book |-> [g \in BookReads |-> NoBook],
            news |-> [g \in NewsReads |-> "safe"]]
AnyPlan == CHOOSE s \in Plans : TRUE
Idle == [on |-> FALSE, s |-> AnyPlan, batch |-> {}, held |-> {}, lost |-> {},
         reads |-> NoReads, known |-> FALSE, from |-> 0]
NoDesk == [on |-> FALSE, s |-> AnyPlan, of |-> {}]

\* nothing else of the event loop runs between the gates and the broker
OnLoop == passed = {}

\* which of these reads fail, as often as MaxOutages
Lost(reads) == {{}} \cup {lost \in Outages : lost \subseteq reads /\ turns.reads < MaxOutages}
Costs(lost) == turns' = IF lost = {} THEN turns
                              ELSE [turns EXCEPT !.reads = @ + 1]

Placed(o, s, known, by, lost) ==
    LET dist == Effective(s, o.asset, known, o.dist, o.lots = 0)
    IN  [asset |-> o.asset, buy |-> o.buy, dist |-> dist,
         lots |-> Lots(s, o, known, dist), sized |-> o.lots = 0,
         s |-> s, known |-> known, by |-> by, lost |-> lost]

\* trade_once up to its loop: open rows and calendar are read once each; the
\* read of the open assets is strict, the cycle ends when it fails
AutoStart ==
    /\ OnLoop /\ ~auto.on /\ pending # {} /\ Len(orders) < MaxOrders
    /\ \E lost \in Lost(CycleReads) :
          /\ lost \cap BookReads \in {{}, BookReads}
          /\ lost \cap NewsReads \in {{}, NewsReads}
          /\ auto' = [on |-> TRUE, s |-> settings, batch |-> pending,
                      held |-> Held, lost |-> lost, reads |-> Reads(lost),
                      known |-> world.rates, from |-> Len(orders)]
          /\ Costs(lost)
    /\ UNCHANGED <<settings, world, pending, open, cooled, loss, today, week, desk,
                   passed, orders, halt>>

\* (a fired order not counted in what the rest of the cycle judges on)
FiredUncounted(p) == auto.reads

\* the row of a fired order as the rest of the cycle sees it: the stored stop
\* with the lots of the effective one
Fired(p) ==
    LET row == RowOf(p.of.asset, p.of.buy, p.of.dist, p.order.lots)
    IN  [auto.reads EXCEPT
            !.today = @ + 1, !.week = @ + 1,
            !.book = [g \in BookReads |-> With(@[g], Len(orders) + 1, row)]]

\* execute_signal up to its call of the broker
AutoFire(o, snap) ==
    /\ OnLoop /\ Len(orders) < MaxOrders
    /\ auto.on /\ o \in auto.batch /\ o.asset \notin auto.held
    /\ \E lost \in Lost(FreshReads) :
          /\ Executes(auto.s, auto.reads, o, auto.known, snap, lost)
          /\ passed' = {[of |-> o, order |-> Placed(o, auto.s, auto.known, "auto",
                                                   auto.lost \cup lost)]}
          /\ Costs(lost)
    /\ UNCHANGED <<settings, world, pending, open, cooled, loss, today, week, auto,
                   desk, orders, halt>>

\* a position already open on the asset, or a gate that said no
AutoRefuse(o) ==
    /\ OnLoop /\ auto.on /\ o \in auto.batch
    /\ \/ o.asset \in auto.held
       \/ \E snap \in Snaps : ~Executes(auto.s, auto.reads, o, auto.known, snap, {})
    /\ auto' = [auto EXCEPT !.batch = @ \ {o}]
    /\ UNCHANGED <<settings, world, pending, open, cooled, loss, today, week, desk,
                   passed, orders, halt, turns>>

AutoEnd ==
    /\ OnLoop /\ auto.on /\ auto.batch = {}
    /\ auto' = Idle
    /\ UNCHANGED <<settings, world, pending, open, cooled, loss, today, week, desk,
                   passed, orders, halt, turns>>

\* POST /approve, which marks the signal first, and /extended-open read the
\* settings and wait for the feeds
DeskStart(o) ==
    /\ OnLoop /\ ~desk.on /\ o \in pending \cup Legs /\ Len(orders) < MaxOrders
    /\ desk' = [on |-> TRUE, s |-> settings, of |-> {o}]
    /\ pending' = pending \ {o}
    /\ UNCHANGED <<settings, world, open, cooled, loss, today, week, auto, passed,
                   orders, halt, turns>>

\* no read is shared here: each gate makes its own
DeskPass(o, snap) ==
    /\ OnLoop /\ Len(orders) < MaxOrders
    /\ desk.on /\ o \in desk.of
    /\ \E lost \in Lost(CycleReads \cup FreshReads) :
          /\ Executes(desk.s, Reads(lost), o, world.rates, snap, lost)
          /\ passed' = {[of |-> o, order |-> Placed(o, desk.s, world.rates, "desk",
                                                   lost)]}
          /\ Costs(lost)
    /\ UNCHANGED <<settings, world, pending, open, cooled, loss, today, week, auto,
                   desk, orders, halt>>

DeskRefuse(o, snap) ==
    /\ OnLoop /\ desk.on /\ o \in desk.of
    /\ ~Executes(desk.s, Reads({}), o, world.rates, snap, {})
    /\ desk' = NoDesk
    /\ UNCHANGED <<settings, world, pending, open, cooled, loss, today, week, auto,
                   passed, orders, halt, turns>>

\* the broker fills, the row is written, the cycle accounts for it
Place(p) ==
    LET n == Len(orders) + 1
    IN  /\ orders' = Append(orders, p.order) /\ passed' = {}
        /\ open' = open \cup {n} /\ today' = today + 1 /\ week' = week + 1
        /\ pending' = pending \ {p.of}
        /\ IF p.order.by = "auto"
           THEN /\ auto' = [auto EXCEPT !.batch = @ \ {p.of}, !.reads = Fired(p)]
                /\ desk' = desk
           ELSE desk' = NoDesk /\ auto' = auto
        /\ UNCHANGED <<settings, world, cooled, loss, halt, turns>>

\* a position closes flat or at its stop
Close(k) ==
    /\ OnLoop /\ open' = open \ {k}
    /\ cooled' = cooled \cup {orders[k].asset}
    /\ loss' \in {loss, loss + RiskOf(orders[k].asset, TRUE, OpenRows[k].dist,
                                      orders[k].lots)}
    /\ UNCHANGED <<settings, world, pending, today, week, auto, desk, passed, orders,
                   halt, turns>>

Turn == turns.world < MaxTurns /\ turns' = [turns EXCEPT !.world = @ + 1]

Cooled(a) ==
    /\ Turn /\ cooled' = cooled \ {a}
    /\ UNCHANGED <<settings, world, pending, open, loss, today, week, auto, desk,
                   passed, orders, halt>>

\* one midnight or several: any part of the week may fall out of its window
Midnight ==
    /\ Turn /\ today' = 0 /\ loss' = 0 /\ week' \in 0..week
    /\ UNCHANGED <<settings, world, pending, open, cooled, auto, desk, passed,
                   orders, halt>>

\* the pause is set by the owner, or by the monitor in its own thread
WorldTurns ==
    /\ Turn
    /\ \/ /\ world' = [world EXCEPT !.paused = ~@]
          /\ halt' = [halt EXCEPT !.paused = Len(orders)]
       \/ \E m \in Markets \ {world.market} :
             /\ world' = [world EXCEPT !.market = m]
             /\ halt' = [halt EXCEPT !.market = Len(orders)]
       \/ world' = [world EXCEPT !.rates = ~@] /\ halt' = halt
       \/ \E n \in News \ {world.news} :
             world' = [world EXCEPT !.news = n] /\ halt' = halt
    /\ UNCHANGED <<settings, pending, open, cooled, loss, today, week, auto, desk,
                   passed, orders>>

ChangeSettings ==
    /\ Turn /\ settings' \in Plans \ {settings}
    /\ UNCHANGED <<world, pending, open, cooled, loss, today, week, auto, desk,
                   passed, orders, halt>>

Init ==
    /\ settings \in Plans
    /\ world = [paused |-> FALSE, market |-> "open", news |-> "safe",
                rates |-> TRUE]
    /\ pending = Signals /\ open = {} /\ cooled = {}
    /\ loss = 0 /\ today = 0 /\ week = 0 /\ orders = <<>>
    /\ auto = Idle /\ desk = NoDesk /\ passed = {}
    /\ halt = [paused |-> 0, market |-> 0] /\ turns = [world |-> 0, reads |-> 0]

Next ==
    \/ AutoStart \/ AutoEnd \/ Midnight \/ WorldTurns \/ ChangeSettings
    \/ \E o \in Signals :
          AutoRefuse(o) \/ \E snap \in Snaps : AutoFire(o, snap)
    \/ \E o \in Signals \cup Legs :
          \/ DeskStart(o)
          \/ \E snap \in Snaps : DeskPass(o, snap) \/ DeskRefuse(o, snap)
    \/ \E p \in passed : Place(p)
    \/ \E k \in open : Close(k)
    \/ \E a \in cooled : Cooled(a)

Spec == Init /\ [][Next]_vars

(***************************************************************************)
(* Properties                                                              *)
(***************************************************************************)
Row == [asset : Assets, buy : BOOLEAN, dist : Nat, lots : Nat]
Order == [asset : Assets, buy : BOOLEAN, dist : Nat, lots : Nat, sized : BOOLEAN,
          s : Plans, known : BOOLEAN, by : {"auto", "desk"},
          lost : SUBSET (CycleReads \cup FreshReads)]
Turns == [world : 0..MaxTurns, reads : 0..MaxOutages]
TypeOK ==
    /\ settings \in Plans /\ Plans \subseteq Settings
    /\ world \in Worlds /\ pending \subseteq Signals
    /\ open \subseteq DOMAIN orders /\ cooled \subseteq Assets
    /\ loss \in Nat /\ today \in Nat /\ week \in Nat /\ turns \in Turns
    /\ auto.on \in BOOLEAN /\ auto.s \in Plans /\ auto.batch \subseteq Signals
    /\ auto.held \subseteq Assets /\ auto.from \in 0..Len(orders)
    /\ auto.lost \subseteq CycleReads
    /\ \A g \in BookReads : \A k \in DOMAIN auto.reads.book[g] :
          auto.reads.book[g][k] \in Row
    /\ desk.on \in BOOLEAN /\ desk.s \in Plans
    /\ desk.of \subseteq Signals \cup Legs
    /\ orders \in Seq(Order)
    /\ \A p \in passed : p.of \in Signals \cup Legs /\ p.order \in Order
    /\ halt \in [paused : 0..Len(orders), market : 0..Len(orders)]

\* An order the platform sized itself, stopped out from its fill, loses no more
\* than the budget of one trade, half a hundredth of a lot (risk_to_lot rounds)
\* and half a spread (the fill is that much beyond the entry that was sized),
\* whatever the tier, the band, the cap, the spread floor and the smallest lot
\* did to its stop and its size. The loss is counted as the sizing counted it:
\* an order sized while the feed of rates was down is held to its budget in the
\* nominal worth of a point only, and may lose more in dollars.
WithinBudget ==
    \A k \in DOMAIN orders : orders[k].sized =>
        LET o == orders[k]
            worth == Worth[o.asset][o.known]
        IN  2 * RiskOf(o.asset, o.known, FillDist(o), o.lots)
               <= 2 * o.s.budget + o.dist * worth + Spread[o.asset] * o.lots * worth

\* No stop, of a signal or of a plan, is placed inside as many spreads as the
\* settings it was placed under ask for.
OutsideSpread ==
    \A k \in DOMAIN orders :
        LET o == orders[k]
        IN  o.dist > 0 => o.dist >= o.s.floor * Spread[o.asset]

\* The card of a pending signal says ready exactly when the order would go to
\* the broker, given that the snapshot could be fetched, the reads succeed and
\* no position is open on the asset: two pipelines, one verdict.
CardHonest ==
    \A o \in pending, known \in BOOLEAN, snap \in Snaps \ {"none"} :
        Card(o, known, snap) <=>
            /\ o.asset \notin Held
            /\ Executes(settings, Reads({}), o, known, snap, {})

\* Judging a whole cycle on one read of the journal, the auto trader keeps the
\* quotas of the day, of the week and of open positions, save for what the desk
\* ordered meanwhile; when that read failed and told of no orders at all, it
\* still keeps them for the orders of its own cycle.
ByDesk == {k \in DOMAIN orders : k > auto.from /\ orders[k].by = "desk"}
Own == {k \in DOMAIN orders : k > auto.from /\ orders[k].by = "auto"}
QuotaInCycle ==
    [][\A n \in DOMAIN orders' \ DOMAIN orders :
          LET o == orders'[n]
          IN  o.by = "auto" =>
                /\ "count" \notin o.lost =>
                      Cardinality(open \ ByDesk) < o.s.maxOpen
                /\ "journal" \notin o.lost =>
                      /\ today < o.s.perDay + Cardinality(ByDesk)
                      /\ week < o.s.perWeek + Cardinality(ByDesk)
                /\ Cardinality(Own) < o.s.perDay
                /\ Cardinality(Own) < o.s.perWeek
                /\ Cardinality(Own) < o.s.maxOpen
      ]_vars

\* Once the account is paused, or the market shut, in the middle of a cycle or
\* of an approval, at most one more order comes, the one already past its
\* gates; and none after a loss beyond the limit or a close of its own asset.
\* Orders whose gate was told nothing (its read failed) are not covered.
Late(since, read) ==
    {k \in DOMAIN orders : k > since /\ read \notin orders[k].lost}
AtMostOne(S) == \A j, k \in S : j = k
OneLate ==
    /\ world.paused => AtMostOne(Late(halt.paused, "pause"))
    /\ world.market = "shut" => AtMostOne(Late(halt.market, "market"))
NoneBeyond ==
    [][\A n \in DOMAIN orders' \ DOMAIN orders :
          LET o == orders'[n]
          IN  /\ "kill" \notin o.lost => loss <= o.s.daily
              /\ "cooldown" \notin o.lost => o.asset \notin cooled
      ]_vars
StopsAtOnce == []OneLate /\ NoneBeyond
=============================================================================
