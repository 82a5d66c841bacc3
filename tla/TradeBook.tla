----------------------------- MODULE TradeBook -----------------------------
(***************************************************************************)
(* The life of a paper trade: signals, the orders the auto trader and the  *)
(* owner place from them, the broker's book in memory, the journal and the *)
(* audit log in the database, and the restart that rebuilds the book.      *)
(* (workers/auto_trader.py, services/execution.py, integrations/brokers.py,*)
(* workers/position_guard.py, api/routes/signals.py, api/routes/trading.py)*)
(*                                                                         *)
(* All of it runs on one event loop.  One action is the code between two   *)
(* awaits that can suspend: a database call blocks the loop, the paper     *)
(* broker never suspends, feeds and notifications do.  What a coroutine    *)
(* read before such an await and uses after it is in auto, desk, closing.  *)
(* Prices, sizing and the gates that look at them only decide whether an   *)
(* order or a close happens, so they are choices.  Profit is counted in    *)
(* the lots it was booked for.                                             *)
(***************************************************************************)
EXTENDS Naturals, FiniteSets, Functions

CONSTANTS
    Assets,
    Signals,
    AssetOf,       \* Signals -> Assets
    NoSignal, NoAsset,
    MaxTrades,     \* bound: orders ever placed
    MaxTickets,    \* bound: ticket numbers
    MaxOpen,       \* max_open_positions
    Lots,          \* size of an order
    Slice,         \* size of a partial close; an order of no more has none
    Kinds,         \* database calls that may fail, see FaultKinds
    MaxRestarts    \* bound

FaultKinds == {"scan",                     \* SELECT of the scanner's dedup
               "read_gate",                \* SELECT of the cap, reads as empty
               "record",                   \* INSERT of the journal row
               "log",                      \* INSERT into signal_logs
               "update",                   \* UPDATE of the journal row
               "read_open",                \* SELECT at startup, open rows
               "seed_trades", "seed_logs"} \* max_ticket at startup

ASSUME TradeBookAssumption ==
    /\ AssetOf \in [Signals -> Assets]
    /\ NoSignal \notin Signals /\ NoAsset \notin Assets
    /\ MaxTrades \in Nat /\ MaxTickets \in Nat
    /\ MaxOpen \in Nat \ {0}
    /\ Lots \in Nat \ {0} /\ Slice \in Nat \ {0}
    /\ Kinds \subseteq FaultKinds
    /\ MaxRestarts \in Nat

Trades == 1..MaxTrades
Tickets == 1..MaxTickets
NoRow == 0

Approvals == {"absent", "pending", "approved", "rejected", "expired"}
Row == [status : {"open", "closed"}, asset : Assets, ticket : Tickets,
        volume : 1..Lots, banked : 0..Lots, partial : BOOLEAN,
        priced : 0..(2 * Lots), by : {"", "guard", "owner"}]
Position == [trade : Trades, asset : Assets, volume : 1..Lots,
             banked : 0..Lots, partial : BOOLEAN, row : 0..MaxTrades]

VARIABLES
    signals,   \* signals.approval
    journal,   \* paper_trades, the rows there are, by order placed
    book,      \* PaperBroker._positions, by ticket
    seq,       \* PaperBroker._seq
    logged,    \* tickets signal_logs remembers
    placed,    \* orders placed so far
    auto,      \* trade_once: batch, open_assets, len(shared.open_rows); alone
               \* is history: no one else placed an order since it began
    desk,      \* POST /signals/approve in flight
    closing,   \* POST /positions/close in flight
    boot,      \* rows startup still has to rehydrate, and whether it is over
    failed,    \* history: kinds of database calls that failed since startup
    restarts

tables == <<journal, logged>>
broker == <<book, seq, placed>>
flights == <<auto, desk, closing>>
process == <<boot, restarts>>
vars == <<signals, tables, broker, flights, failed, process>>

(***************************************************************************)
(* Reads and helpers                                                       *)
(***************************************************************************)
Put(f, k, v) == [x \in DOMAIN f \cup {k} |-> IF x = k THEN v ELSE f[x]]
Drop(f, k) == Restrict(f, DOMAIN f \ {k})
Highest(S) == CHOOSE n \in S \cup {0} : \A m \in S : m <= n

Pending == {g \in Signals : signals[g] = "pending"}
OpenRows == {t \in DOMAIN journal : journal[t].status = "open"}
RowsOf(k) == {t \in DOMAIN journal : journal[t].ticket = k}
TicketsIn(rows) == {journal[t].ticket : t \in rows}

\* (the journal read swallowed and the book not merged, as before 2026-09-07)
OpenAssetsSwallowed == {}

\* both sources of truth of the auto trader: the journal and the book
OpenAssets == {journal[t].asset : t \in OpenRows}
              \cup {book[k].asset : k \in DOMAIN book}

Up == boot.pc = "up"
IdleAuto == [pc |-> "idle", batch |-> {}, held |-> {}, open |-> 0,
             sig |-> NoSignal, alone |-> TRUE]
EmptyBook == [k \in {} |-> NoRow]
IdleDesk == [pc |-> "idle", sig |-> NoSignal]
IdleClosing == [pc |-> "idle", trade |-> NoRow, asset |-> NoAsset,
                ticket |-> 0, volume |-> 0]

\* a lenient SELECT that fails answers with no rows
OpenCount(misses) == IF "read_gate" \in misses THEN 0
                     ELSE Cardinality(OpenRows)

\* log_event: one row in signal_logs, lost without a word when it fails
Logs(k, misses) == logged' = IF "log" \in misses THEN logged
                             ELSE logged \cup {k}
Misses(kinds) == SUBSET (Kinds \cap kinds)

(***************************************************************************)
(* Signals                                                                 *)
(***************************************************************************)
\* the scanner skips an asset that has a pending signal
Publish(g) ==
    /\ signals[g] = "absent"
    /\ \E misses \in Misses({"scan"}) :
          /\ "scan" \in misses \/ \A h \in Pending : AssetOf[h] # AssetOf[g]
          /\ failed' = failed \cup misses
    /\ signals' = [signals EXCEPT ![g] = "pending"]
    /\ UNCHANGED <<tables, broker, flights, process>>

\* expire_stale_pending_signals, also called by every GET /signals/latest
Expired(stale) == [g \in Signals |-> IF g \in stale THEN "expired"
                                     ELSE signals[g]]
Expire ==
    /\ \E stale \in SUBSET Pending :
          /\ stale # {}
          /\ signals' = Expired(stale)
    /\ UNCHANGED <<tables, broker, flights, failed, process>>

Reject(g) ==
    /\ signals[g] # "absent"
    /\ signals' = [signals EXCEPT ![g] = "rejected"]
    /\ UNCHANGED <<tables, broker, flights, failed, process>>

(***************************************************************************)
(* Orders                                                                  *)
(***************************************************************************)
\* the end of execute_signal, in one go: place_order, record_trade, log_event
Order(a, misses) ==
    LET k == seq + 1
        t == placed + 1
    IN  /\ t \in Trades /\ k \in Tickets
        /\ seq' = k /\ placed' = t
        /\ book' = Put(book, k, [trade |-> t, asset |-> a, volume |-> Lots,
                                 banked |-> 0, partial |-> FALSE,
                                 row |-> NoRow])
        /\ journal' = IF "record" \in misses THEN journal
                      ELSE Put(journal, t,
                               [status |-> "open", asset |-> a, ticket |-> k,
                                volume |-> Lots, banked |-> 0,
                                partial |-> FALSE, priced |-> 0, by |-> ""])
        /\ Logs(k, misses)
        /\ failed' = failed \cup misses

\* trade_once up to its first await: expiry, the pending batch, the open
\* assets and the shared gate state
AutoStart ==
    /\ auto.pc = "idle"
    /\ \E stale \in SUBSET Pending, misses \in Misses({"read_gate"}) :
          /\ Pending \ stale # {}
          /\ signals' = Expired(stale)
          /\ auto' = [pc |-> "walk", batch |-> Pending \ stale,
                      held |-> OpenAssets, open |-> OpenCount(misses),
                      sig |-> NoSignal, alone |-> TRUE]
          /\ failed' = failed \cup misses
    /\ UNCHANGED <<tables, broker, desk, closing, process>>

\* a signal whose asset was open at the start, or that a gate refuses,
\* stays as it is
AutoSkip(g) ==
    /\ auto.pc = "walk" /\ g \in auto.batch
    /\ auto' = [auto EXCEPT !.batch = @ \ {g}]
    /\ UNCHANGED <<signals, tables, broker, desk, closing, failed, process>>

AutoPlace(g) ==
    /\ auto.pc = "walk" /\ g \in auto.batch
    /\ AssetOf[g] \notin auto.held
    /\ auto.open < MaxOpen                       \* gate 2 on the shared state
    /\ \E misses \in Misses({"record", "log"}) : Order(AssetOf[g], misses)
    /\ auto' = [auto EXCEPT !.pc = "mark", !.batch = @ \ {g}, !.sig = g]
    /\ UNCHANGED <<signals, desk, closing, process>>

\* (the fired order not accounted in the shared state)
FiredUncounted == auto.open

\* shared.open_rows.append
Fired == auto.open + 1

\* after the notification
AutoMark ==
    /\ auto.pc = "mark"
    /\ signals' = [signals EXCEPT ![auto.sig] = "approved"]
    /\ auto' = [auto EXCEPT !.pc = "walk", !.sig = NoSignal, !.open = Fired]
    /\ UNCHANGED <<tables, broker, desk, closing, failed, process>>

\* the batch is through, or the watchdog cancels the cycle at an await
AutoEnd ==
    /\ auto.pc # "idle"
    /\ auto' = IdleAuto
    /\ UNCHANGED <<signals, tables, broker, desk, closing, failed, process>>

\* an order of anyone else passes gate 2 on a fresh read
Admitted(a) ==
    \E misses \in Misses({"read_gate", "record", "log"}) :
        /\ OpenCount(misses) < MaxOpen
        /\ Order(a, misses)

\* approve_signal marks first and asks the gates later, whatever the signal's
\* approval was
Approve(g) ==
    /\ desk.pc = "idle" /\ signals[g] # "absent"
    /\ signals' = [signals EXCEPT ![g] = "approved"]
    /\ desk' = [pc |-> "gate", sig |-> g]
    /\ UNCHANGED <<tables, broker, auto, closing, failed, process>>

DeskPlace ==
    /\ desk.pc = "gate"
    /\ Admitted(AssetOf[desk.sig])
    /\ desk' = [desk EXCEPT !.pc = "mark"]
    /\ auto' = [auto EXCEPT !.alone = (auto.pc = "idle")]
    /\ UNCHANGED <<signals, closing, process>>

DeskRefuse ==
    /\ desk.pc = "gate"
    /\ signals' = [signals EXCEPT ![desk.sig] = "rejected"]
    /\ desk' = IdleDesk
    /\ UNCHANGED <<tables, broker, auto, closing, failed, process>>

DeskMark ==
    /\ desk.pc = "mark"
    /\ signals' = [signals EXCEPT ![desk.sig] = "approved"]
    /\ desk' = IdleDesk
    /\ UNCHANGED <<tables, broker, auto, closing, failed, process>>

\* POST /extended-open holds nothing across its awaits but the asset
ExtendedOpen(a) ==
    /\ Admitted(a)
    /\ auto' = [auto EXCEPT !.alone = (auto.pc = "idle")]
    /\ UNCHANGED <<signals, desk, closing, process>>

Entry ==
    \/ AutoStart \/ AutoMark \/ AutoEnd
    \/ DeskPlace \/ DeskRefuse \/ DeskMark
    \/ \E g \in Signals : \/ Publish(g) \/ Reject(g) \/ Approve(g)
                          \/ AutoSkip(g) \/ AutoPlace(g)
    \/ \E a \in Assets : ExtendedOpen(a)
    \/ Expire

(***************************************************************************)
(* Closes                                                                  *)
(***************************************************************************)
\* close_trade_rows: the newest open row with the ticket and the asset; the
\* profit is what was banked plus the lots of this close
CloseRow(k, a, lots, by) ==
    LET matching == {t \in OpenRows \cap RowsOf(k) : journal[t].asset = a}
        t == Highest(matching)
    IN  IF matching = {}
        THEN journal
        ELSE [journal EXCEPT ![t].status = "closed", ![t].by = by,
                             ![t].priced = journal[t].banked + lots,
                             ![t].volume = IF journal[t].banked > 0 THEN Lots
                                           ELSE @]

Closes(k, a, lots, by) ==
    \E misses \in Misses({"update", "log"}) :
        /\ journal' = IF "update" \in misses THEN journal
                      ELSE CloseRow(k, a, lots, by)
        /\ Logs(k, misses)
        /\ failed' = failed \cup misses

\* every whole close of the guard: emergency, SL, TP, time stop, smart exit
GuardClose(k) ==
    /\ book' = Drop(book, k)
    /\ Closes(k, book[k].asset, book[k].volume, "guard")
    /\ UNCHANGED <<signals, seq, placed, flights, process>>

\* (volume and flag persisted without the profit, as before migration 055)
PatchUnbanked(t, p) ==
    [journal EXCEPT ![t].partial = TRUE, ![t].volume = p.volume]

\* one UPDATE carries the flag, the remaining volume and the profit banked
Patch(t, p) ==
    [journal EXCEPT ![t].partial = TRUE, ![t].volume = p.volume,
                    ![t].banked = p.banked]

\* (a slice of the whole size scaled out instead of closed, as before
\* 2026-09-23)
SlicesToNothing(p) == ~p.partial /\ Slice <= p.volume

\* once per position, and never the whole of it
Slices(p) == ~p.partial /\ Slice < p.volume

\* TP1 or a smart-exit slice; a position opened by this process knows its row
\* by ticket only, and takes the newest one
GuardPartial(k) ==
    LET left == [book[k] EXCEPT !.partial = TRUE, !.volume = @ - Slice,
                                !.banked = @ + Slice]
        row  == IF left.row # NoRow THEN left.row ELSE Highest(RowsOf(k))
    IN  /\ Slices(book[k])
        /\ book' = [book EXCEPT ![k] = left]
        /\ \E misses \in Misses({"update", "log"}) :
              /\ journal' = IF "update" \in misses \/ row \notin DOMAIN journal
                            THEN journal ELSE Patch(row, left)
              /\ Logs(k, misses)
              /\ failed' = failed \cup misses
        /\ UNCHANGED <<signals, seq, placed, flights, process>>

\* POST /positions/close: read the newest open row of the ticket, await the
\* mark
CloseStart(t) ==
    LET k == journal[t].ticket IN
    /\ closing.pc = "idle"
    /\ t \in OpenRows /\ t = Highest(OpenRows \cap RowsOf(k))
    /\ closing' = [pc |-> "close", trade |-> t, ticket |-> k,
                   asset |-> journal[t].asset, volume |-> journal[t].volume]
    /\ UNCHANGED <<signals, tables, broker, auto, desk, failed, process>>

\* close at the broker, await the conversion rates
CloseBroker ==
    LET k == closing.ticket IN
    /\ closing.pc = "close"
    /\ \/ /\ k \in DOMAIN book
          /\ book' = Drop(book, k)
          /\ closing' = [closing EXCEPT !.pc = "row"]
       \/ /\ k \notin DOMAIN book
          /\ closing' = IdleClosing
          /\ UNCHANGED book
    /\ UNCHANGED <<signals, tables, seq, placed, auto, desk, failed, process>>

\* the profit is computed on the volume the row had when it was read
CloseJournal ==
    /\ closing.pc = "row"
    /\ Closes(closing.ticket, closing.asset, closing.volume, "owner")
    /\ closing' = IdleClosing
    /\ UNCHANGED <<signals, broker, auto, desk, process>>

Exit ==
    \/ \E k \in DOMAIN book : GuardClose(k) \/ GuardPartial(k)
    \/ \E t \in DOMAIN journal : CloseStart(t)
    \/ CloseBroker \/ CloseJournal

(***************************************************************************)
(* Maintenance                                                             *)
(***************************************************************************)
\* (every row deleted, not only the closed ones)
Wiped == DOMAIN journal

\* reset_stats deletes the closed rows, one by one; any delete may fail
Resettable == DOMAIN journal \ OpenRows

Reset ==
    /\ \E gone \in SUBSET Resettable :
          journal' = Restrict(journal, DOMAIN journal \ gone)
    /\ UNCHANGED <<signals, logged, broker, flights, failed, process>>

\* purge_old_logs: signal_logs forgets what is older than seven days
Forget(k) ==
    /\ logged' = logged \ {k}
    /\ UNCHANGED <<signals, journal, broker, flights, failed, process>>

Upkeep == Reset \/ \E k \in logged : Forget(k)

(***************************************************************************)
(* Restart: startup is over before the first request or job, and may die   *)
(***************************************************************************)
\* the process is redeployed: the book and every coroutine are lost, and
\* rehydrate_book reads the open rows
Restart ==
    /\ restarts < MaxRestarts /\ restarts' = restarts + 1
    /\ \E misses \in Misses({"read_open"}) :
          /\ boot' = [pc |-> "walk",
                      left |-> IF "read_open" \in misses THEN {} ELSE OpenRows]
          /\ failed' = misses \cup (failed \cap {"scan"})
    /\ book' = EmptyBook /\ seq' = 0
    /\ auto' = IdleAuto /\ desk' = IdleDesk /\ closing' = IdleClosing
    /\ UNCHANGED <<signals, tables, placed>>

\* a position as rehydrate_book rebuilds it from its row
Restored(t) ==
    [trade |-> t, asset |-> journal[t].asset, volume |-> journal[t].volume,
     banked |-> journal[t].banked, partial |-> journal[t].partial, row |-> t]

\* (a row whose ticket is taken replaces the position that has it)
NumberKept(t) == journal[t].ticket

\* a ticket already taken is issued anew
Number(t) == IF journal[t].ticket \in DOMAIN book THEN seq + 1
             ELSE journal[t].ticket

\* one turn of rehydrate_book, the newest row first
RehydrateRow ==
    LET t == Highest(boot.left)
        k == Number(t)
    IN  /\ boot.left # {} /\ k \in Tickets
        /\ book' = Put(book, k, Restored(t))
        /\ seq' = Highest({seq, k})
        /\ boot' = [boot EXCEPT !.left = @ \ {t}]
        /\ \E misses \in Misses({"update"}) :
              /\ k = journal[t].ticket => misses = {}
              /\ journal' = IF "update" \in misses THEN journal
                            ELSE [journal EXCEPT ![t].ticket = k]
              /\ failed' = failed \cup misses
        /\ UNCHANGED <<signals, logged, placed, flights, restarts>>

\* (the journal alone, as before 2026-09-14)
SeededFromJournal(misses) == Highest({seq} \cup TicketsIn(DOMAIN journal))

\* past every ticket the journal or the log remembers
Seeded(misses) ==
    Highest({seq} \cup (IF "seed_trades" \in misses THEN {}
                        ELSE TicketsIn(DOMAIN journal))
                  \cup (IF "seed_logs" \in misses THEN {} ELSE logged))

\* seed_order_sequence
Seed ==
    /\ ~Up /\ boot.left = {}
    /\ boot' = [boot EXCEPT !.pc = "up"]
    /\ \E misses \in Misses({"seed_trades", "seed_logs"}) :
          /\ seq' = Seeded(misses)
          /\ failed' = failed \cup misses
    /\ UNCHANGED <<signals, tables, book, placed, flights, restarts>>

Startup == Restart \/ RehydrateRow \/ Seed

Init ==
    /\ signals = [g \in Signals |-> "absent"]
    /\ journal = [t \in {} |-> NoRow]
    /\ book = EmptyBook
    /\ seq = 0 /\ logged = {} /\ placed = 0
    /\ auto = IdleAuto /\ desk = IdleDesk /\ closing = IdleClosing
    /\ boot = [pc |-> "up", left |-> {}]
    /\ failed = {}
    /\ restarts = 0

Next == (Up /\ (Entry \/ Exit \/ Upkeep)) \/ Startup

Spec == Init /\ [][Next]_vars

(***************************************************************************)
(* What must hold, of a process none of whose database calls of some kinds *)
(* failed: a startup that succeeds makes up for what failed before it      *)
(***************************************************************************)
Healthy(kinds) == failed \cap kinds = {}

TypeOK ==
    /\ signals \in [Signals -> Approvals]
    /\ DOMAIN journal \subseteq Trades
    /\ \A t \in DOMAIN journal : journal[t] \in Row
    /\ DOMAIN book \subseteq Tickets
    /\ \A k \in DOMAIN book : book[k] \in Position
    /\ seq \in 0..MaxTickets /\ placed \in 0..MaxTrades
    /\ logged \subseteq Tickets
    /\ auto \in [pc : {"idle", "walk", "mark"}, batch : SUBSET Signals,
                 held : SUBSET Assets, open : Nat,
                 sig : Signals \cup {NoSignal}, alone : BOOLEAN]
    /\ desk \in [pc : {"idle", "gate", "mark"},
                 sig : Signals \cup {NoSignal}]
    /\ closing \in [pc : {"idle", "close", "row"}, trade : 0..MaxTrades,
                    asset : Assets \cup {NoAsset},
                    ticket : 0..MaxTickets, volume : 0..Lots]
    /\ boot \in [pc : {"up", "walk"}, left : SUBSET Trades]
    /\ failed \subseteq Kinds
    /\ restarts \in 0..MaxRestarts

\* A new order never takes a ticket that the journal, the audit log or the
\* book still knows, across restarts, statistics resets and log purges, when
\* startup could read both tables (seed_order_sequence).
FreshTicket ==
    [][placed' # placed /\ Healthy({"seed_trades", "seed_logs"}) =>
          seq' \notin TicketsIn(DOMAIN journal) \cup logged \cup DOMAIN book]_vars

\* The auto trader fires at most one order a cycle into an asset, and none
\* into an asset with an open trade, although it looks at the positions once
\* per cycle: the scanner keeps one pending signal per asset.  An order that
\* someone else places meanwhile is not seen (trade_once).
NoStackedFire ==
    [][auto.pc = "walk" /\ auto'.pc = "mark" /\ auto.alone /\ Healthy({"scan"})
       => \A t \in OpenRows : journal[t].asset # AssetOf[auto'.sig]]_vars

\* The orders of one cycle keep the cap on open positions together, although
\* the rows are counted once per cycle (SharedCycleState).
WithinCap ==
    [][auto.pc = "walk" /\ auto'.pc = "mark" /\ auto.alone
       /\ Healthy({"read_gate"}) => Cardinality(OpenRows) < MaxOpen]_vars

\* Every open trade is under the guard: its position is in the book, with the
\* journal's ticket and size, through partial closes and restarts, unless the
\* owner is closing it.  Rows that two earlier processes gave one ticket and
\* rows whose close was never written are guarded again after a startup that
\* could read them (rehydrate_book).
Guarded ==
    Up /\ Healthy({"update", "read_open"}) =>
        \A t \in OpenRows :
            \/ closing.pc = "row" /\ closing.trade = t
            \/ \E k \in DOMAIN book :
                  /\ book[k].trade = t /\ journal[t].ticket = k
                  /\ book[k].volume = journal[t].volume

\* Every position is on the books: it has an open row of its own under its
\* ticket, so that monitor and statistics see it (record_trade).
Journalled ==
    Healthy({"record", "update"}) =>
        \A k \in DOMAIN book :
            /\ book[k].trade \in OpenRows
            /\ journal[book[k].trade].ticket = k

\* Startup kept the tickets apart: every open row has one of its own, or no
\* order takes one that is known.
Distinct == Healthy({"read_open"}) \/ Healthy({"seed_trades", "seed_logs"})

\* A trade the guard closes has its profit booked on every lot once, whether
\* it was scaled out before or after a restart (close_trade_rows), while no
\* two rows can share the ticket.
PricedByGuard ==
    [][Healthy({"update"}) /\ Distinct =>
          \A t \in OpenRows \cap DOMAIN journal' :
             journal'[t].by = "guard" => journal'[t].priced = Lots]_vars
=============================================================================
