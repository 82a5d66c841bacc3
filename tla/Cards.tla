------------------------------- MODULE Cards -------------------------------
(***************************************************************************)
(* The life of a signal: workers/market_scanner.py writes a card, a queue  *)
(* of pending cards ages, and the auto trader or the owner turns one into  *)
(* an order if services/execution.py finds its thesis still true.          *)
(*                                                                         *)
(* The scanner runs twice at once when the owner asks for a scan; both     *)
(* runs share the event loop and the quotes they preload, and give way to  *)
(* each other only where a quote is missing: the snapshot of an asset, or  *)
(* the spot price a card that is already decided is written at.  The other *)
(* gates of an order are EntryGates; the target follows the stop at the    *)
(* same ratio.                                                             *)
(***************************************************************************)
EXTENDS Setup, Sequences, Functions, SequencesExt

CONSTANTS
    Scanners,     \* the scheduled scan, and one the owner asks for
    Universe,     \* the assets in the order of a scan
    Tradable,     \* allowed_assets
    Snapshots,    \* what the market of an asset may look like
    Openings,     \* what the market and the feed start as
    Level(_),     \* the broken level of an asset, below its price
    Modes,        \* sl_distance_mode
    Lo, Hi,       \* the band of stops
    MaxPerDay,
    BreakoutOnly, \* gold_breakout_only
    TTL,          \* signal_ttl_min
    MaxCards, MaxClock, MaxScans, MaxMoves  \* bounds

VARIABLES
    market, up,  \* of each asset: its snapshot, and whether the feed has it
    mode, clock,
    preloaded,   \* _PRELOADED_SNAPS
    scan,        \* of each scanner: where it is and what it read
    cards, orders,
    auto, desk,  \* trade_once and an approval in flight
    turns        \* bounds used up

cvars == <<market, up, mode, clock, preloaded, scan, cards, orders, auto, desk, turns>>

Traded == Range(Universe)
Idle == [at |-> "idle"]
NoSnap == [gap |-> 99]

Pending == {k \in DOMAIN cards : cards[k].approval = "pending"}
Held == {cards[o.card].asset : o \in Range(orders)}

\* (no card is ever old)
OldNever(k) == FALSE

Old(k) == clock - cards[k].made > TTL

(***************************************************************************)
(* The stop: effective_sl_tp without the cap                               *)
(***************************************************************************)
Tier(d) == CASE mode = "short" -> (2 * d) \div 3
             [] mode = "long" -> (4 * d) \div 3
             [] OTHER -> d
Effective(d) == LET wide == Bigger(Tier(d), Lo)
                IN  IF Hi > 0 THEN Smaller(wide, Hi) ELSE wide

(***************************************************************************)
(* scan_once                                                               *)
(***************************************************************************)
\* settings are read strictly: unreadable ones end the scan here
ScanBegin(p) ==
    /\ scan[p].at = "idle" /\ turns.scans < MaxScans
    /\ scan' = [scan EXCEPT ![p] = [at |-> "fetching"]]
    /\ turns' = [turns EXCEPT !.scans = @ + 1]
    /\ UNCHANGED <<market, up, mode, clock, preloaded, cards, orders, auto, desk>>

\* the server runs one coroutine at a time, and the loop of a scan gives way
\* only where it waits for a quote it has not preloaded: here a snapshot, or the
\* spot price of ScanAsset
Waits(q) == scan[q].at = "loop" /\ Universe[scan[q].next] \notin DOMAIN preloaded
LoopFree(ps) == \A q \in Scanners \ ps : scan[q].at = "loop" => Waits(q)

ScanFetch(p) ==
    /\ scan[p].at = "fetching" /\ LoopFree({p})
    /\ preloaded' = [a \in {b \in Traded : up[b]} |-> market[a]]
    /\ scan' = [scan EXCEPT ![p] = [at |-> "fetched"]]
    /\ UNCHANGED <<market, up, mode, clock, cards, orders, auto, desk, turns>>

\* a failed read of the signals answers that there are none
ScanRead(p, reads, shut) ==
    /\ scan[p].at = "fetched" /\ LoopFree({p})
    /\ scan' = [scan EXCEPT ![p] =
                  [at |-> "loop", next |-> 1, shut |-> shut, reads |-> reads,
                   from |-> Len(cards), today |-> IF reads THEN Len(cards) ELSE 0,
                   pend |-> IF reads THEN {cards[k].asset : k \in Pending} ELSE {}]]
    /\ UNCHANGED <<market, up, mode, clock, preloaded, cards, orders, auto, desk, turns>>

\* (every strong setup makes a card)
EmitsAgain(p, a, s) ==
    /\ a \in Tradable /\ Strong(s) /\ ~scan[p].shut
    /\ (a = Gold /\ BreakoutOnly) => s.brk > 0

Emits(p, a, s) ==
    /\ a \in Tradable /\ Strong(s)
    /\ (a = Gold /\ BreakoutOnly) => s.brk > 0
    /\ ~scan[p].shut /\ a \notin scan[p].pend

CardOf(l, a, s) ==
    LET medium == StopDistance(s, IF a = Gold /\ s.brk > 0 THEN Level(a) ELSE 0, Lo, Hi)
    IN  [asset |-> a, side |-> Wanted(s), approval |-> "pending", made |-> clock,
         dist |-> Effective(medium),
         note |-> l.today >= MaxPerDay \/ Regime(s) \in Hostile,
         born |-> s, medium |-> medium,
         view |-> IF l.reads THEN l.from ELSE 0]

Onward(l, a, emitted) ==
    IF l.next = Len(Universe) THEN Idle
    ELSE [l EXCEPT !.next = @ + 1,
                   !.pend = IF emitted THEN @ \cup {a} ELSE @,
                   !.today = IF emitted THEN @ + 1 ELSE @]

\* the insert of the card of loop l; one that fails counts as one that did not
Inserts(p, l, a, s) ==
    /\ \/ Len(cards) < MaxCards /\ cards' = Append(cards, CardOf(l, a, s))
       \/ UNCHANGED cards
    /\ scan' = [scan EXCEPT ![p] = Onward(l, a, TRUE)]

\* one asset of the loop: preloaded, fetched now, or else the demo feed, whose
\* snapshot makes no card.  A spot price that was not preloaded is waited for
\* after every check is made.
ScanAsset(p) ==
    /\ scan[p].at = "loop" /\ LoopFree({p})
    /\ LET l == scan[p]
           a == Universe[l.next]
           s == IF a \in DOMAIN preloaded THEN preloaded[a]
                ELSE IF up[a] THEN market[a] ELSE NoSnap
       IN  IF s # NoSnap /\ Emits(p, a, s)
           THEN \/ Inserts(p, l, a, s)
                \/ /\ scan' = [scan EXCEPT ![p] = [at |-> "spot", loop |-> l, snap |-> s]]
                   /\ UNCHANGED cards
           ELSE scan' = [scan EXCEPT ![p] = Onward(l, a, FALSE)] /\ UNCHANGED cards
    /\ UNCHANGED <<market, up, mode, clock, preloaded, orders, auto, desk, turns>>

\* the spot price came, or did not: the card is written at the one it has
ScanSpot(p) ==
    /\ scan[p].at = "spot" /\ LoopFree({p})
    /\ LET l == scan[p].loop
       IN  Inserts(p, l, Universe[l.next], scan[p].snap)
    /\ UNCHANGED <<market, up, mode, clock, preloaded, orders, auto, desk, turns>>

(***************************************************************************)
(* The queue                                                               *)
(***************************************************************************)
\* expire_stale_pending_signals
Expired == [k \in DOMAIN cards |->
               IF k \in Pending /\ Old(k) THEN [cards[k] EXCEPT !.approval = "expired"]
               ELSE cards[k]]

\* GET /signals/latest
PageLoads ==
    /\ LoopFree({}) /\ cards' = Expired /\ cards' # cards
    /\ UNCHANGED <<market, up, mode, clock, preloaded, scan, orders, auto, desk, turns>>

\* the fresh snapshot of an order, and what execute_signal makes of it
Quoted(a) == IF up[a] THEN FromFeed(market[a]) ELSE NoSnap
Holds(k, s) == s # NoSnap /\ Codes(cards[k].asset, cards[k].side, s, Old(k)) = {}
Ordered(k, s) == Append(orders, [card |-> k, at |-> clock, snap |-> s,
                                 dist |-> Effective(cards[k].dist)])
Marked(k, approval) == [cards EXCEPT ![k].approval = approval]

\* trade_once up to its prefetch
AutoBegin ==
    /\ auto.at = "idle" /\ LoopFree({})
    /\ cards' = Expired
    /\ LET batch == {k \in DOMAIN cards : Expired[k].approval = "pending"}
       IN  /\ batch # {}
           /\ auto' = [at |-> "read", batch |-> batch, held |-> Held]
    /\ UNCHANGED <<market, up, mode, clock, preloaded, scan, orders, desk, turns>>

AutoFetch ==
    /\ auto.at = "read" /\ LoopFree({})
    /\ auto' = [at |-> "loop", batch |-> auto.batch, held |-> auto.held,
                snaps |-> [a \in {cards[k].asset : k \in auto.batch} |-> Quoted(a)]]
    /\ UNCHANGED <<market, up, mode, clock, preloaded, scan, cards, orders, desk, turns>>

\* one signal of the batch; what was not prefetched is fetched now
AutoFire ==
    /\ auto.at = "loop" /\ LoopFree({})
    /\ \E k \in auto.batch :
          LET a == cards[k].asset
              s == IF auto.snaps[a] # NoSnap THEN auto.snaps[a] ELSE Quoted(a)
              rest == auto.batch \ {k}
          IN  /\ \A i \in rest : i < k
              /\ IF a \notin auto.held /\ Holds(k, s)
                 THEN orders' = Ordered(k, s) /\ cards' = Marked(k, "approved")
                 ELSE UNCHANGED <<orders, cards>>
              /\ auto' = IF rest = {} THEN Idle ELSE [auto EXCEPT !.batch = rest]
    /\ UNCHANGED <<market, up, mode, clock, preloaded, scan, desk, turns>>

\* the owner's page may be old: the card he answers need not be pending (one he
\* answers twice is a matter of TradeBook)
Approve(k) ==
    /\ desk = Idle /\ LoopFree({}) /\ cards[k].approval \in {"pending", "expired"}
    /\ cards' = Marked(k, "approved") /\ desk' = [at |-> "placing", card |-> k]
    /\ UNCHANGED <<market, up, mode, clock, preloaded, scan, orders, auto, turns>>

ApproveEnds ==
    /\ desk # Idle /\ LoopFree({})
    /\ LET k == desk.card
           s == Quoted(cards[k].asset)
       IN  IF Holds(k, s)
           THEN orders' = Ordered(k, s) /\ cards' = Marked(k, "approved")
           ELSE orders' = orders /\ cards' = Marked(k, "rejected")
    /\ desk' = Idle
    /\ UNCHANGED <<market, up, mode, clock, preloaded, scan, auto, turns>>

Reject(k) ==
    /\ cards[k].approval \in {"pending", "expired"} /\ desk = Idle /\ LoopFree({})
    /\ cards' = Marked(k, "rejected")
    /\ UNCHANGED <<market, up, mode, clock, preloaded, scan, orders, auto, desk, turns>>

(***************************************************************************)
(* The world                                                               *)
(***************************************************************************)
Moved == turns.moves < MaxMoves /\ turns' = [turns EXCEPT !.moves = @ + 1]

MarketMoves(a, s) ==
    /\ Moved /\ s # market[a] /\ market' = [market EXCEPT ![a] = s]
    /\ UNCHANGED <<up, mode, clock, preloaded, scan, cards, orders, auto, desk>>

FeedTurns(a) ==
    /\ Moved /\ up' = [up EXCEPT ![a] = ~@]
    /\ UNCHANGED <<market, mode, clock, preloaded, scan, cards, orders, auto, desk>>

Tick ==
    /\ clock < MaxClock /\ clock' = clock + 1
    /\ UNCHANGED <<market, up, mode, preloaded, scan, cards, orders, auto, desk, turns>>

CardsInit ==
    /\ \E o \in Openings : market = o.market /\ up = o.up
    /\ mode \in Modes /\ clock = 0 /\ preloaded = <<>>
    /\ scan = [p \in Scanners |-> Idle] /\ cards = <<>> /\ orders = <<>>
    /\ auto = Idle /\ desk = Idle /\ turns = [scans |-> 0, moves |-> 0]

CardsNext ==
    \/ \E p \in Scanners : ScanBegin(p) \/ ScanFetch(p) \/ ScanAsset(p) \/ ScanSpot(p)
    \/ \E p \in Scanners, reads, shut \in BOOLEAN : ScanRead(p, reads, shut)
    \/ PageLoads \/ AutoBegin \/ AutoFetch \/ AutoFire \/ ApproveEnds
    \/ \E k \in DOMAIN cards : Approve(k) \/ Reject(k)
    \/ \E a \in Traded, s \in Snapshots : MarketMoves(a, s)
    \/ \E a \in Traded : FeedTurns(a)
    \/ Tick

CardsSpec == CardsInit /\ [][CardsNext]_cvars

(***************************************************************************)
(* Properties                                                              *)
(***************************************************************************)
\* A card is born alive or says why not: the thesis check, asked at once, lets
\* it through, or the card carries the note that the execution will block it.
\* Shorts in gold are the exception: the scanner wants the breakout that the
\* thesis refuses.
BornAlive ==
    \A k \in DOMAIN cards :
        \/ cards[k].note \/ (cards[k].asset = Gold /\ cards[k].side = "SELL")
        \/ Codes(cards[k].asset, cards[k].side, FromFeed(cards[k].born), FALSE) = {}

\* "Skip only while a pending signal for the asset is still awaiting action":
\* two cards of one asset wait together only if the scan that wrote the second
\* had looked before the first was there, or could not look.
TwinsOnlyBlind ==
    \A i, j \in Pending : (i < j /\ cards[i].asset = cards[j].asset) => cards[j].view < i

\* An order fires within the life of its card, on the trend the card was born
\* of, whatever waited in between: the queue, the batch, or the owner's page.
FiredOnItsThesis ==
    \A o \in Range(orders) :
        /\ o.at - cards[o.card].made <= TTL
        /\ TrendBacks(cards[o.card].side, o.snap)
        /\ (o.snap.gap > 0) = (cards[o.card].born.gap > 0)
=============================================================================
