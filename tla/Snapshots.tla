------------------------------ MODULE Snapshots ------------------------------
(***************************************************************************)
(* Daily candles as indicator snapshots: fetch_all_snapshots and the feeds *)
(* below it in integrations/quotes.py.  A batch takes what the cache holds *)
(* and fetches the rest, a few at a time, under one budget; Yahoo is asked *)
(* first, and the fallback feed of the asset when Yahoo fails.             *)
(***************************************************************************)
EXTENDS Integers, FiniteSets, Functions

CONSTANTS
    Callers,
    Wants,    \* bound: what a caller asks for
    Feeds,    \* ASSET_FEEDS: assets with a fallback feed
    TTL,      \* _QUOTE_TTL
    Request,  \* timeout of one request
    Budget,   \* _SNAP_TOTAL_TIMEOUT
    Slots,    \* concurrency
    MaxClock, \* bound
    MaxAsks   \* bound: assets asked for, over all batches

VARIABLES
    clock,
    cache,   \* _quote_cache: asset -> when it was stored
    batch,   \* the batch each caller waits for
    answer,  \* history: the answer of this step
    asks,    \* bound used up
    stored,  \* history: asset -> when an answer was stored last
    fetches  \* history: calls made within a lifetime of that, by batches that
             \* could have known

vars == <<clock, cache, batch, answer, asks, stored, fetches>>

None == [x \in {} |-> 0]
Wanted == UNION Wants
Calling == {"yahoo", "feed"}
Idle == [pc |-> "idle", asked |-> {}, since |-> 0, out |-> None, task |-> None, free |-> 0]
Unanswered == [asked |-> {}, at |-> 0, out |-> None, task |-> None]

Put(f, a, v) == [x \in DOMAIN f \cup {a} |-> IF x = a THEN v ELSE f[x]]
Merge(f, g) == [x \in DOMAIN f \cup DOMAIN g |-> IF x \in DOMAIN f THEN f[x] ELSE g[x]]

Hit(a) == a \in DOMAIN cache /\ clock - cache[a] < TTL

Answer(b, out) == [asked |-> b.asked, at |-> clock, out |-> out, task |-> b.task]

Ask(c, want) ==
    LET hits == {a \in want : Hit(a)}
        b == [pc |-> "out", asked |-> want, since |-> clock,
              out |-> Restrict(cache, hits), free |-> Slots,
              task |-> [a \in want \ hits |-> [pc |-> "queued", at |-> clock]]]
    IN  /\ batch[c].pc = "idle" /\ asks + Cardinality(want) <= MaxAsks
        /\ asks' = asks + Cardinality(want)
        /\ IF want = hits
           THEN answer' = Answer(b, b.out) /\ UNCHANGED batch
           ELSE batch' = [batch EXCEPT ![c] = b] /\ answer' = Unanswered
        /\ UNCHANGED <<clock, cache, stored, fetches>>

(***************************************************************************)
(* A task: the semaphore, Yahoo, the fallback feed                         *)
(***************************************************************************)
At(c, a, pc) == a \in DOMAIN batch[c].task /\ batch[c].task[a].pc = pc

Stand(c, a, pc, free) ==
    batch' = [batch EXCEPT ![c].task[a] = [pc |-> pc, at |-> clock], ![c].free = free]

\* a call a younger answer could have spared
Spared(c, a) == a \in DOMAIN stored /\ batch[c].since > stored[a]
                /\ clock - stored[a] < TTL

Calls(c, a) == fetches' = IF Spared(c, a) THEN fetches \cup {a} ELSE fetches

Begin(c, a) ==
    /\ At(c, a, "queued") /\ batch[c].free > 0
    /\ Stand(c, a, "yahoo", batch[c].free - 1)
    /\ Calls(c, a)
    /\ UNCHANGED <<clock, cache, asks, stored>>

\* (the slot of a task that failed lost)
ReleaseKept(c, got) == IF got THEN batch[c].free + 1 ELSE batch[c].free

Release(c, got) == batch[c].free + 1

\* "short": fewer than 30 candles, for which no other feed is asked
YahooAnswers(c, a) ==
    /\ At(c, a, "yahoo")
    /\ \E said \in {"good", "short", "error"} :
          IF said = "error" /\ a \in Feeds
          THEN Stand(c, a, "feed", batch[c].free)
          ELSE Stand(c, a, IF said = "good" THEN "got" ELSE "missed",
                     Release(c, said = "good"))
    /\ UNCHANGED <<clock, cache, asks, stored, fetches>>

FeedAnswers(c, a) ==
    /\ At(c, a, "feed")
    /\ \E got \in BOOLEAN :
          Stand(c, a, IF got THEN "got" ELSE "missed", Release(c, got))
    /\ UNCHANGED <<clock, cache, asks, stored, fetches>>

(***************************************************************************)
(* The batch ends                                                          *)
(***************************************************************************)
Got(b) == {a \in DOMAIN b.task : b.task[a].pc = "got"}

\* (the time the batch began)
StampOld(b) == b.since

Stamp(b) == clock

BatchEnds(c) ==
    LET b == batch[c]
        fetched == [a \in Got(b) |-> Stamp(b)]
    IN  /\ b.pc = "out"
        /\ \/ \A a \in DOMAIN b.task : b.task[a].pc \in {"got", "missed"}
           \/ clock >= b.since + Budget
        /\ cache' = Merge(fetched, cache)
        /\ stored' = Merge([a \in Got(b) |-> clock], stored)
        /\ answer' = Answer(b, Merge(fetched, b.out))
        /\ batch' = [batch EXCEPT ![c] = Idle]
        /\ UNCHANGED <<clock, asks, fetches>>

\* a call is given up when its request times out
Tick ==
    /\ clock < MaxClock
    /\ \A c \in Callers : batch[c].pc = "out" =>
          /\ clock < batch[c].since + Budget
          /\ \A a \in DOMAIN batch[c].task :
                LET t == batch[c].task[a]
                IN  /\ t.pc \in Calling => clock < t.at + Request
                    /\ t.pc = "queued" => batch[c].free = 0
    /\ clock' = clock + 1
    /\ UNCHANGED <<cache, batch, asks, stored, fetches>>

Init ==
    /\ clock = 0 /\ cache = None /\ stored = None /\ fetches = {}
    /\ batch = [c \in Callers |-> Idle]
    /\ answer = Unanswered /\ asks = 0

Inward ==
    \/ \E c \in Callers, a \in Wanted : Begin(c, a)
    \/ \E c \in Callers, a \in Wanted : YahooAnswers(c, a)
    \/ \E c \in Callers, a \in Wanted : FeedAnswers(c, a)
    \/ Tick

Next ==
    \/ \E c \in Callers, want \in Wants : Ask(c, want)
    \/ \E c \in Callers : BatchEnds(c)
    \/ Inward /\ answer' = Unanswered

Spec == Init /\ [][Next]_vars

(***************************************************************************)
(* Properties                                                              *)
(***************************************************************************)
\* The feeds are spared: nothing is fetched again within a lifetime of an
\* answer that was stored before the batch began.
FeedSpared == fetches = {}

\* An asset is missing because its feeds failed it, or because the budget cut it
\* off: in a call, or in the queue while, to the end, every slot was taken.
MissedForCause ==
    LET calling == {a \in DOMAIN answer.task : answer.task[a].pc \in Calling}
        released == {a \in DOMAIN answer.task : answer.task[a].at = answer.at}
    IN  \A a \in answer.asked \ DOMAIN answer.out :
            \/ answer.task[a].pc = "missed"
            \/ a \in calling
            \/ answer.task[a].pc = "queued" /\ Cardinality(calling \cup released) >= Slots
==============================================================================
