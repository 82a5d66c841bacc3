------------------------------- MODULE Quotes -------------------------------
(***************************************************************************)
(* Spot prices: fetch_spot_prices and fetch_trusted_spot of                *)
(* integrations/quotes.py over the memory of the process - the cache, the  *)
(* last intraday prints, the source of each price and the index of the     *)
(* exchangerate keys.  Batches of several callers overlap; within a batch  *)
(* every asset is a task of its own.                                       *)
(*                                                                         *)
(* A price is the time of the print behind it and where it came from; the  *)
(* code keeps the second apart, in source.                                 *)
(***************************************************************************)
EXTENDS Integers, FiniteSets, Functions

CONSTANTS
    Callers, Assets,
    Trusting, \* callers of fetch_trusted_spot
    Wants,    \* bound: what a caller asks for
    Mapped,   \* assets exchangerate quotes
    Keys,     \* number of exchangerate keys
    SpotTTL,  \* SPOT_TTL
    LiveTTL,  \* SPOT_LIVE_TTL
    RefTTL,   \* SPOT_LIVE_REF_TTL
    Budget,   \* _SPOT_TOTAL_TIMEOUT
    MaxClock, \* bound
    MaxAsks,  \* bound: assets asked for, over all batches
    MaxTurns  \* bound: batches the watchdog cuts, restarts

VARIABLES
    clock,
    cache,   \* _spot_cache: asset -> when it was stored, the price
    live,    \* _spot_live: asset -> when an intraday print was last seen, the print
    source,  \* _spot_source: asset -> "spot" or "daily"
    keyIdx,  \* _exchange_key_idx, modulo the number of keys
    strays,  \* turns of the keys left to tasks whose batch was cut off
    batch,   \* the batch each caller waits for
    told,    \* history: the answer of this step
    spent,   \* keys over their quota
    counts   \* bounds used up

memory == <<cache, live, source>>
vars == <<clock, memory, keyIdx, strays, batch, told, spent, counts>>

None == [x \in {} |-> 0]
Price(print, from) == [print |-> print, from |-> from]
Failed == Price(-1, "none")

\* a task: where it stands, the key it holds, those it tried and how often
Task == [pc |-> "yahoo", held |-> 0, tried |-> {}, tries |-> 0, price |-> Failed]
Quiet == [pc |-> "idle", asked |-> {}, since |-> 0, trusted |-> FALSE, out |-> None,
          task |-> None, known |-> None, alone |-> TRUE]
Untold == [asked |-> {}, since |-> 0, trusted |-> FALSE, at |-> 0, prices |-> None, failures |-> {},
           task |-> None, known |-> None, alone |-> TRUE]

Put(f, a, v) == [x \in DOMAIN f \cup {a} |-> IF x = a THEN v ELSE f[x]]
Merge(f, g) == [x \in DOMAIN f \cup DOMAIN g |-> IF x \in DOMAIN f THEN f[x] ELSE g[x]]
Aged(a, ttl) == a \in DOMAIN live /\ clock - live[a].at <= ttl

(***************************************************************************)
(* A batch begins: fresh cache hits are taken, the rest becomes tasks, or  *)
(* is passed over in silence when no client can be opened for them         *)
(***************************************************************************)
Hit(a) == a \in DOMAIN cache /\ clock - cache[a].at < SpotTTL

\* what the caller gets; a trusted one looks at the sources as they are now
Answer(b, out, failures, sources) ==
    LET daily == {a \in DOMAIN out : b.trusted /\ sources[a] = "daily"}
    IN  [asked |-> b.asked, since |-> b.since, trusted |-> b.trusted,
         at |-> clock,
         prices |-> Restrict(out, DOMAIN out \ daily), failures |-> failures \cup daily,
         task |-> b.task, known |-> b.known, alone |-> b.alone]

Ask(c, want) ==
    LET hits == {a \in want : Hit(a)}
        b == [pc |-> "out", asked |-> want, since |-> clock, trusted |-> c \in Trusting,
              out |-> [a \in hits |-> cache[a].price],
              task |-> [a \in want \ hits |-> Task], known |-> live,
              alone |-> strays = 0 /\ \A d \in Callers : batch[d].pc = "idle"]
    IN  /\ batch[c].pc = "idle" /\ counts.asks + Cardinality(want) <= MaxAsks
        /\ counts' = [counts EXCEPT !.asks = @ + Cardinality(want)]
        /\ IF want = hits
           THEN /\ told' = Answer(b, b.out, {}, source)
                /\ UNCHANGED batch
           ELSE \/ /\ batch' = [d \in Callers |->
                                   IF d = c THEN b ELSE [batch[d] EXCEPT !.alone = FALSE]]
                   /\ told' = Untold
                \/ /\ told' = Answer([b EXCEPT !.task = None], b.out, {}, source)
                   /\ UNCHANGED batch
        /\ UNCHANGED <<clock, memory, keyIdx, strays, spent>>

(***************************************************************************)
(* A task: Yahoo, then the last print, then the keys in turn               *)
(***************************************************************************)
At(c, a, pc) == a \in DOMAIN batch[c].task /\ batch[c].task[a].pc = pc

Settle(c, a, price) ==
    batch' = [batch EXCEPT ![c].task[a] = [@ EXCEPT !.pc = "done", !.price = price]]

\* (the key chosen before the loop)
NextKeyOnce(t) == IF t.tries = 0 THEN keyIdx ELSE t.held

NextKey(t) == keyIdx

TakeKey(c, a) ==
    LET t == batch[c].task[a]
    IN  /\ keyIdx' = (keyIdx + 1) % Keys
        /\ batch' = [batch EXCEPT ![c].task[a] =
                        [t EXCEPT !.pc = "key", !.held = NextKey(t),
                                  !.tried = @ \cup {NextKey(t)}, !.tries = @ + 1]]

\* (a print reused only while the cache would hold it)
ReusableSoon(a) == Aged(a, SpotTTL - 1)

Reusable(a) == Aged(a, LiveTTL)

\* (a print that is reused counts as seen again)
SeenAgain(a, ok) ==
    CASE ok -> Put(live, a, [at |-> clock, print |-> clock])
      [] Reusable(a) /\ ~ok -> [live EXCEPT ![a].at = clock]
      [] OTHER -> live

Seen(a, ok) == IF ok THEN Put(live, a, [at |-> clock, print |-> clock]) ELSE live

YahooAnswers(c, a) ==
    /\ At(c, a, "yahoo")
    /\ \/ /\ Settle(c, a, Price(clock, "spot"))
          /\ live' = Seen(a, TRUE)
          /\ UNCHANGED keyIdx
       \/ /\ Reusable(a) /\ Settle(c, a, Price(live[a].print, "reused"))
          /\ live' = Seen(a, FALSE)
          /\ UNCHANGED keyIdx
       \/ ~Reusable(a) /\ a \in Mapped /\ TakeKey(c, a) /\ UNCHANGED live
       \/ ~Reusable(a) /\ a \notin Mapped /\ Settle(c, a, Failed)
          /\ UNCHANGED <<live, keyIdx>>
    /\ UNCHANGED <<clock, cache, source, strays, spent, counts>>

\* a rate far from the last print of a day is refused
KeyAnswers(c, a) ==
    LET t == batch[c].task[a]
    IN  /\ At(c, a, "key")
        /\ \/ /\ t.held \notin spent
              /\ \E near \in {TRUE, ~Aged(a, RefTTL)} :
                    Settle(c, a, IF near THEN Price(clock, "daily") ELSE Failed)
              /\ UNCHANGED keyIdx
           \/ t.held \in spent /\ t.tries < Keys /\ TakeKey(c, a)
           \/ t.held \in spent /\ t.tries = Keys /\ Settle(c, a, Failed)
              /\ UNCHANGED keyIdx
        /\ UNCHANGED <<clock, memory, strays, spent, counts>>

(***************************************************************************)
(* The batch ends: every task is done, or the budget is over               *)
(***************************************************************************)
Got(b) == {a \in DOMAIN b.task : b.task[a].price # Failed}

\* (tasks that were cut off dropped in silence)
FailuresDone(b) ==
    {a \in DOMAIN b.task : /\ b.task[a].pc = "done"
                           /\ b.task[a].price.from \in {"none", "reused"}}

\* a reused print is served and reported
Failures(b) == {a \in DOMAIN b.task : b.task[a].price.from \in {"none", "reused"}}

\* (the first source of an asset kept)
SourcesFirst(b) == Merge(source, [a \in Got(b) |->
                            IF b.task[a].price.from = "daily" THEN "daily" ELSE "spot"])

Sources(b) == Merge([a \in Got(b) |->
                        IF b.task[a].price.from = "daily" THEN "daily" ELSE "spot"],
                    source)

BatchEnds(c) ==
    LET b == batch[c]
        fetched == [a \in Got(b) |-> b.task[a].price]
    IN  /\ b.pc = "out"
        /\ \/ \A a \in DOMAIN b.task : b.task[a].pc = "done"
           \/ clock >= b.since + Budget
        /\ cache' = Merge([a \in Got(b) |-> [at |-> clock, price |-> fetched[a]]], cache)
        /\ source' = Sources(b)
        /\ told' = Answer(b, Merge(fetched, b.out), Failures(b), source')
        /\ batch' = [batch EXCEPT ![c] = Quiet]
        /\ UNCHANGED <<clock, live, keyIdx, strays, spent, counts>>

(***************************************************************************)
(* The caller's watchdog, the process, the clock                           *)
(***************************************************************************)
Turn == counts.turns < MaxTurns /\ counts' = [counts EXCEPT !.turns = @ + 1]

\* the keys a batch has yet to try
Remaining(b) ==
    Cardinality({x \in (DOMAIN b.task \cap Mapped) \X (1..Keys) :
                    b.task[x[1]].pc # "done" /\ x[2] > b.task[x[1]].tries})

\* the tasks of a batch that is cut off are not: each finds its client closed,
\* and turns to the next key
Cut(c) ==
    /\ batch[c].pc = "out" /\ Turn
    /\ batch' = [batch EXCEPT ![c] = Quiet]
    /\ strays' = strays + Remaining(batch[c])
    /\ UNCHANGED <<clock, memory, keyIdx, spent>>

StrayTurns ==
    /\ strays > 0 /\ strays' = strays - 1 /\ keyIdx' = (keyIdx + 1) % Keys
    /\ UNCHANGED <<clock, memory, batch, spent, counts>>

Restart ==
    /\ Turn
    /\ cache' = None /\ live' = None /\ source' = None /\ keyIdx' = 0 /\ strays' = 0
    /\ batch' = [c \in Callers |-> Quiet]
    /\ UNCHANGED <<clock, spent>>

Tick ==
    /\ clock < MaxClock
    /\ \A c \in Callers : batch[c].pc = "out" => clock < batch[c].since + Budget
    /\ clock' = clock + 1
    /\ UNCHANGED <<memory, keyIdx, strays, batch, spent, counts>>

Init ==
    /\ clock = 0
    /\ cache = None /\ live = None /\ source = None /\ keyIdx = 0 /\ strays = 0
    /\ batch = [c \in Callers |-> Quiet]
    /\ told = Untold
    /\ spent \in SUBSET (0..Keys - 1)
    /\ counts = [asks |-> 0, turns |-> 0]

Inward ==
    \/ \E c \in Callers, a \in Assets : YahooAnswers(c, a)
    \/ \E c \in Callers, a \in Assets : KeyAnswers(c, a)
    \/ \E c \in Callers : Cut(c)
    \/ StrayTurns \/ Restart \/ Tick

Next ==
    \/ \E c \in Callers, want \in Wants : Ask(c, want)
    \/ \E c \in Callers : BatchEnds(c)
    \/ Inward /\ told' = Untold

Spec == Init /\ [][Next]_vars

(***************************************************************************)
(* Properties                                                              *)
(***************************************************************************)
\* A price served as intraday, reused and cached ones too, is the market's of no
\* longer ago than the reuse window and the budget, and for one from the cache
\* its lifetime and a second budget.
FreshEnough ==
    \A a \in DOMAIN told.prices :
        told.prices[a].from \in {"spot", "reused"} =>
            told.at - told.prices[a].print <=
                LiveTTL + Budget
                + (IF a \in DOMAIN told.task THEN 0 ELSE SpotTTL - 1 + Budget)

\* A caller whose batch went out learns of every asset it asked for a price or a
\* failure, whatever was still on its way when the budget ended.
AllAnswered ==
    DOMAIN told.task # {} => DOMAIN told.prices \cup told.failures = told.asked

\* A trusted price is never a daily rate, but for one read from the cache while
\* another batch was changing what the source of the asset is.
TrustedAlone ==
    \A a \in DOMAIN told.prices :
        told.trusted /\ told.prices[a].from = "daily" =>
            a \notin DOMAIN told.task /\ ~told.alone

\* A batch fetches a daily rate only for an asset without a print it could have
\* reused, whatever the other batches were doing.
DailyLast ==
    \A a \in DOMAIN told.task \cap DOMAIN told.prices :
        told.prices[a].from = "daily" =>
            a \notin DOMAIN told.known \/ told.at - told.known[a].at > LiveTTL

\* A lone task gives an asset up only after every key refused it: no other batch
\* was out, nor what is left of one.
KeysTried ==
    \A a \in DOMAIN told.task :
        LET t == told.task[a]
        IN  /\ t.pc = "done" /\ t.tries = Keys /\ t.price = Failed /\ t.held \in spent
            /\ told.alone /\ DOMAIN told.task = {a}
            => t.tried = 0..Keys - 1
==============================================================================
