------------------------------ MODULE History ------------------------------
(***************************************************************************)
(* The stored price history of one asset: services/price_history.py over   *)
(* the rows of price_history_daily.                                        *)
(*                                                                         *)
(* A sync reads what is stored, fetches what may be missing, and writes    *)
(* one bar at a time; each call to the database is a step, and any of them *)
(* may fail or be the last of its process.  A bar is its close (zero when  *)
(* the feed printed none, or one no check accepts); the feed rewrites its  *)
(* bar of today until the day ends, and may revise an older one.           *)
(***************************************************************************)
EXTENDS Integers, Sequences, FiniteSets, SequencesExt

CONSTANTS
    Closes,     \* closes the feed prints
    Spike,      \* SPIKE_PCT
    Week,       \* span of a refresh
    Slack,      \* days of overlap added to a gap
    Floor,      \* fewest rows a read back asks for
    MaxDay,     \* bound
    MaxMoves,   \* bound: bars the feed reprints
    MaxLost     \* bound: calls that fail

ASSUME HistoryAssumption ==
    /\ Closes \subseteq Nat \ {0} /\ Spike \in Nat
    /\ Week \in Nat \ {0} /\ Slack \in Nat \ {0} /\ Floor \in Nat \ {0}
    /\ MaxDay \in Nat \ {0} /\ MaxMoves \in Nat /\ MaxLost \in Nat

VARIABLES
    today,
    feed,    \* day -> the close the feed prints for it now
    moves,   \* bars it has reprinted
    store,   \* price_history_daily: day -> close and source
    sync,    \* the sync in progress
    series,  \* the last read back, oldest first
    lost     \* calls that failed

historyVars == <<today, feed, moves, store, sync, series, lost>>

Days == 1..MaxDay
Printed == Closes \cup {0}
Latest(s) == CHOOSE d \in DOMAIN s : \A e \in DOMAIN s : e <= d
Least(a, b) == IF a <= b THEN a ELSE b
Most(a, b) == IF a <= b THEN b ELSE a

NoSync == [pc |-> "idle", days |-> 0, rows |-> <<>>, prev |-> 0,
           have |-> {}, latest |-> 0, today |-> 0]

HistoryTypeOK ==
    /\ today \in Days
    /\ feed \in [1..today -> Printed]
    /\ DOMAIN store \subseteq 1..today
    /\ \A d \in DOMAIN store : store[d] \in [close : Closes, fill : BOOLEAN]
    /\ sync.pc \in {"idle", "rows", "put", "read"}
    /\ sync.today \in 0..today /\ sync.latest \in 0..sync.today
    /\ sync.have \subseteq 1..today /\ sync.prev \in Printed
    /\ \A i \in DOMAIN sync.rows : /\ sync.rows[i].day \in 1..sync.today
                                   /\ sync.rows[i].close \in Printed
    /\ lost \in 0..MaxLost /\ moves \in 0..MaxMoves

\* one call to the database that succeeds, and one that does not
Answered == UNCHANGED lost
Lost == lost < MaxLost /\ lost' = lost + 1

(***************************************************************************)
(* validate_bar: against the last close the same fetch had accepted        *)
(***************************************************************************)
Spikes(p, prev) == /\ prev # 0
                   /\ \/ (p - prev) * 100 > Spike * prev
                      \/ (prev - p) * 100 > Spike * prev
Valid(p, prev) == p # 0 /\ ~Spikes(p, prev)

(***************************************************************************)
(* sync_asset                                                              *)
(***************************************************************************)
\* the days a fetch asks for
Span(latest, days) ==
    CASE latest >= today -> Week
      [] latest > 0 /\ latest < today ->
            Most(Week, Least(days, today - latest + Slack))
      [] OTHER -> days

Fetched(span) ==
    LET first == IF today - span < 0 THEN 1 ELSE today - span + 1
    IN  [i \in 1..(today - first + 1) |->
            [day |-> first + i - 1, close |-> feed[first + i - 1]]]

\* a read that fails answers no rows: everything is fetched again
SyncBegin(days) ==
    /\ sync.pc = "idle"
    /\ \E read \in BOOLEAN, fetched \in BOOLEAN :
          LET have == IF read THEN DOMAIN store ELSE {}
              latest == IF have = {} THEN 0 ELSE Latest(store)
          IN  /\ IF read /\ fetched THEN Answered ELSE Lost
              /\ sync' = [pc |-> IF fetched THEN "rows" ELSE "read",
                          days |-> days, prev |-> 0, have |-> have,
                          latest |-> latest, today |-> today,
                          rows |-> IF fetched THEN Fetched(Span(latest, days))
                                              ELSE <<>>]
    /\ UNCHANGED <<today, feed, moves, store, series>>

Bar(p, fill) == [close |-> p, fill |-> fill]
Stored(d, bar) == [e \in DOMAIN store \cup {d} |-> IF e = d THEN bar ELSE store[e]]
Without(d) == [e \in DOMAIN store \ {d} |-> store[e]]

\* insert: the primary key refuses a second bar of a day
Insert(d, bar) ==
    \/ d \notin DOMAIN store /\ Answered /\ store' = Stored(d, bar)
    \/ d \in DOMAIN store /\ Answered /\ UNCHANGED store
    \/ Lost /\ UNCHANGED store

Onward == IF Len(sync.rows) = 1 THEN "read" ELSE "rows"

\* (every stored bar of the fetch rewritten)
RefreshesAny(row) == row.day \in sync.have

\* the bar of a day that is not over
Refreshes(row) == row.day = sync.latest /\ row.day >= sync.today

\* one fetched bar: quarantined, inserted, deleted to be refreshed, or compared
SyncRow ==
    LET row == Head(sync.rows)
    IN  /\ sync.pc = "rows" /\ sync.rows # <<>>
        /\ \/ /\ ~Valid(row.close, sync.prev)
              /\ sync' = [sync EXCEPT !.pc = Onward, !.rows = Tail(@)]
              /\ UNCHANGED store /\ Answered
           \/ /\ Valid(row.close, sync.prev)
              /\ row.day \notin sync.have
              /\ sync' = [sync EXCEPT !.pc = Onward, !.rows = Tail(@),
                                      !.prev = row.close]
              /\ Insert(row.day, Bar(row.close, FALSE))
           \/ /\ Valid(row.close, sync.prev)
              /\ row.day \in sync.have /\ Refreshes(row)
              /\ sync' = [sync EXCEPT !.pc = "put", !.prev = row.close]
              /\ \/ Answered /\ store' = Without(row.day)
                 \/ Lost /\ UNCHANGED store
           \/ /\ Valid(row.close, sync.prev)
              /\ row.day \in sync.have /\ ~Refreshes(row)
              /\ sync' = [sync EXCEPT !.pc = Onward, !.rows = Tail(@),
                                      !.prev = row.close]
              /\ UNCHANGED store /\ Answered
        /\ UNCHANGED <<today, feed, moves, series>>

\* the second half of a refresh
SyncPut ==
    LET row == Head(sync.rows)
    IN  /\ sync.pc = "put"
        /\ sync' = [sync EXCEPT !.pc = Onward, !.rows = Tail(@)]
        /\ Insert(row.day, Bar(row.close, FALSE))
        /\ UNCHANGED <<today, feed, moves, series>>

(***************************************************************************)
(* load_series: the sync, then the oldest rows up to a limit               *)
(***************************************************************************)
InOrder == SetToSortSeq(DOMAIN store, <)
Oldest(n) == SubSeq(InOrder, 1, Least(n, Cardinality(DOMAIN store)))

ReadBack ==
    /\ sync.pc = "read"
    /\ \/ /\ Answered
          /\ LET days == Oldest(Most(sync.days, Floor))
             IN  series' = [i \in DOMAIN days |->
                    [day |-> days[i], close |-> store[days[i]].close]]
       \/ /\ Lost
          /\ series' = <<>>
    /\ sync' = NoSync
    /\ UNCHANGED <<today, feed, moves, store>>

\* the process of the sync ends
SyncStops ==
    /\ sync.pc # "idle"
    /\ sync' = NoSync
    /\ UNCHANGED <<today, feed, moves, store, series, lost>>

(***************************************************************************)
(* fill_gaps: holes inside the stored range, from a second feed            *)
(***************************************************************************)
Holes == {d \in Days : /\ d \notin DOMAIN store
                       /\ \E e \in DOMAIN store : e < d
                       /\ \E e \in DOMAIN store : e > d}

\* anchored to the nearest earlier stored close, filled ones included
Filled(s, d, p) ==
    LET earlier == {e \in DOMAIN s : e < d}
        anchor == CHOOSE e \in earlier : \A x \in earlier : x <= e
    IN  IF p = 0 \/ ~Valid(p, s[anchor].close) THEN s
        ELSE [e \in DOMAIN s \cup {d} |-> IF e = d THEN Bar(p, TRUE) ELSE s[e]]

FillGaps ==
    /\ Holes # {}
    /\ \E second \in [Holes -> Printed] :
          LET fill[d \in 0..MaxDay] ==
                  IF d = 0 THEN store
                  ELSE IF d \in Holes THEN Filled(fill[d - 1], d, second[d])
                  ELSE fill[d - 1]
          IN  store' = fill[MaxDay]
    /\ UNCHANGED <<today, feed, moves, sync, series, lost>>

(***************************************************************************)
(* The feed and the calendar                                               *)
(***************************************************************************)
DayPasses ==
    /\ today < MaxDay
    /\ today' = today + 1
    /\ \E p \in Printed : feed' = [d \in 1..(today + 1) |->
                                      IF d <= today THEN feed[d] ELSE p]
    /\ UNCHANGED <<moves, store, sync, series, lost>>

FeedMoves(d) ==
    /\ d \in DOMAIN feed /\ moves < MaxMoves /\ moves' = moves + 1
    /\ \E p \in Printed \ {feed[d]} : feed' = [feed EXCEPT ![d] = p]
    /\ UNCHANGED <<today, store, sync, series, lost>>

HistoryInit ==
    /\ today = 1 /\ moves = 0 /\ feed \in [1..1 -> Printed]
    /\ store = [d \in {} |-> Bar(0, FALSE)]
    /\ sync = NoSync /\ series = <<>> /\ lost = 0

SyncStep == SyncRow \/ SyncPut \/ ReadBack

HistoryNext ==
    \/ \E days \in Days : SyncBegin(days)
    \/ SyncRow \/ SyncPut \/ ReadBack \/ SyncStops
    \/ FillGaps \/ DayPasses
    \/ \E d \in Days : FeedMoves(d)

HistorySpec == HistoryInit /\ [][HistoryNext]_historyVars

(***************************************************************************)
(* Properties                                                              *)
(***************************************************************************)
\* "Older bars are never overwritten -- a re-run on the same dates must see the
\* same prices": a bar older than the newest stored one neither changes nor
\* goes, whatever the feed reprints, a call loses, or a process leaves half done.
ImmutablePast ==
    [][\A d \in DOMAIN store :
          (\E e \in DOMAIN store : e > d)
             => d \in DOMAIN store' /\ store'[d] = store[d]]_historyVars
=============================================================================
