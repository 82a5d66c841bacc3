---------------------------- MODULE GuardProofs ----------------------------
(***************************************************************************)
(* Proofs about the guard's cycle, for every set of positions, every       *)
(* trigger, trail, feed and level, and every number of failing calls,      *)
(* restarts and levels:                                                    *)
(*   StopsAlwaysKept   book and row agree, the rung holds, one slice       *)
(*   CycleAlwaysSteps  stops tighten, and nothing moves on a shut market   *)
(* and about what it watches with, for every setting of the smart exit,    *)
(* every feed, key, lifetime and budget, and any number of callers:        *)
(*   ExitsAlwaysFair    a short is judged like a long, and none is kept    *)
(*                      past the time stop without earning it              *)
(*   WorseAlwaysExits   what worsens never cancels an exit                 *)
(*   CandlesAlwaysOnce  feeds are spared, an asset is missing for a cause  *)
(*   PricesAlwaysFresh  prices are young, daily rates a last resort        *)
(*   NoneEverForgotten  a batch answers for every asset, tries every key   *)
(*                                                                         *)
(* Neither of the first two is inductive alone: that the slices are few    *)
(* rests on the flag of the row, which a restart reads back, and that a    *)
(* shut cycle moves nothing on its never getting past the judging.  Kept   *)
(* joins the two.  The results about the smart exit are lemmas about the   *)
(* score and the advice, on any state of the right type.  The others hold  *)
(* of an answer because of what held of its batch while others ran:        *)
(* Waiting for candles, Asking for prices.                                 *)
(***************************************************************************)
EXTENDS MCGuard, FiniteSetTheorems, TLAPS

(***************************************************************************)
(* The strengthening                                                       *)
(***************************************************************************)
\* a cycle that began with the market closed judges nothing
Waits == cycle.blocked => cycle.pc = "judge"

\* the row and the book agree on a position, the flag of TP1 remembers the
\* slice, and the stop holds the rung
Sound(p) ==
    \/ p \in lost
    \/ /\ p \in DOMAIN book <=> rows[p].reason = "none"
       /\ p \in DOMAIN book =>
             /\ rows[p].stop = book[p].stop /\ rows[p].partial = book[p].partial
             /\ peak[p] >= Trigger => book[p].stop >= Ladder(peak[p], R)
       /\ slices[p] = 0 \/ (slices[p] = 1 /\ rows[p].partial)

Kept == TypeOK /\ Waits /\ \A p \in Positions : Sound(p)

PositionRecord == [mark : Int, stop : Int, partial : BOOLEAN, live : BOOLEAN]
RowRecord == [stop : Int, partial : BOOLEAN, reason : Reasons]
CycleRecord ==
    [pc : {"idle", "judge", "trail", "smart", "time"},
     at : SUBSET Positions, todo : SUBSET Positions, blocked : BOOLEAN,
     kill : BOOLEAN, managed : BOOLEAN, unpriced : SUBSET Positions, missed : 0..1]
CountRecord ==
    [faults : 0..MaxFaults, restarts : 0..MaxRestarts, levels : 0..MaxLevels]

LEMMA Types ==
    TypeOK <=>
        /\ DOMAIN book \subseteq Positions
        /\ \A p \in DOMAIN book : book[p] \in PositionRecord
        /\ rows \in [Positions -> RowRecord] /\ cycle \in CycleRecord
        /\ shut \in BOOLEAN /\ told \subseteq Positions /\ lost \subseteq Positions
        /\ peak \in [Positions -> Int] /\ slices \in [Positions -> Nat]
        /\ counts \in CountRecord
BY DEF TypeOK, PositionRecord, RowRecord, CycleRecord, CountRecord

LEMMA TypesAfter ==
    ASSUME DOMAIN book' \subseteq Positions,
           \A p \in DOMAIN book' : book'[p] \in PositionRecord,
           rows' \in [Positions -> RowRecord], cycle' \in CycleRecord,
           shut' \in BOOLEAN, told' \subseteq Positions, lost' \subseteq Positions,
           peak' \in [Positions -> Int], slices' \in [Positions -> Nat],
           counts' \in CountRecord
    PROVE  TypeOK'
BY DEF TypeOK, PositionRecord, RowRecord, CycleRecord, CountRecord

LEMMA KeptGives == Kept => StopsKept
<1> SUFFICES ASSUME Kept PROVE StopsKept
  OBVIOUS
<1>1. DOMAIN book \subseteq Positions /\ slices \in [Positions -> Nat]
  BY DEF Kept, TypeOK
<1> QED BY <1>1 DEF Kept, Sound, StopsKept, LadderKept, RestartSafe, OneSlice, Open

\* what a step does not touch
Same(q) ==
    /\ q \in DOMAIN book' <=> q \in DOMAIN book
    /\ q \in DOMAIN book => /\ book'[q].stop = book[q].stop
                            /\ book'[q].partial = book[q].partial
    /\ rows'[q] = rows[q] /\ slices'[q] = slices[q] /\ peak'[q] = peak[q]

LEMMA Elsewhere ==
    ASSUME NEW q, Sound(q), Same(q), lost \subseteq lost'
    PROVE  Sound(q)'
BY DEF Sound, Same

(***************************************************************************)
(* Writes                                                                  *)
(***************************************************************************)
LEMMA Wrote ==
    ASSUME TypeOK, NEW p \in Positions, NEW row \in RowRecord, NEW n \in 0..1,
           Writes(p, row, n)
    PROVE  /\ rows' \in [Positions -> RowRecord] /\ counts' \in CountRecord
           /\ lost \subseteq lost' /\ lost' \subseteq Positions
           /\ \A q \in Positions \ {p} : rows'[q] = rows[q]
           /\ rows'[p] = row \/ (rows'[p] = rows[p] /\ p \in lost')
           /\ counts'.restarts = counts.restarts
           /\ counts'.faults >= counts.faults
           /\ counts'.faults = counts.faults => n = 0 /\ rows'[p] = row
<1>1. /\ rows \in [Positions -> RowRecord] /\ counts \in CountRecord
      /\ lost \subseteq Positions
  BY Types
<1>2. \A k \in 0..2 : Fail(k) =>
          /\ counts' \in CountRecord /\ counts'.restarts = counts.restarts
          /\ counts'.faults = counts.faults + k
  BY <1>1, GuardAssumption DEF Fail, CountRecord
<1>3. counts.faults \in Nat BY <1>1 DEF CountRecord
<1> QED BY <1>1, <1>2, <1>3 DEF Writes

LEMMA Failed ==
    ASSUME TypeOK, NEW n \in 0..1, Fail(n)
    PROVE  /\ counts' \in CountRecord /\ counts'.restarts = counts.restarts
           /\ counts'.faults = counts.faults + n
<1>1. counts \in CountRecord BY Types
<1> QED BY <1>1, GuardAssumption DEF Fail, CountRecord

LEMMA Closed ==
    ASSUME Kept, NEW p \in DOMAIN book, NEW reason \in Reasons \ {"none"},
           NEW n \in 0..1, CloseBy(p, reason, n),
           cycle' \in CycleRecord, Waits', told' \subseteq Positions
    PROVE  /\ Kept' /\ counts'.restarts = counts.restarts
           /\ \A q \in DOMAIN book' : q \in DOMAIN book /\ book'[q] = book[q]
<1>1. TypeOK /\ p \in Positions /\ rows[p] \in RowRecord
  BY Types DEF Kept
<1> DEFINE row == [rows[p] EXCEPT !.reason = reason]
<1>2. row \in RowRecord /\ row.reason = reason BY <1>1 DEF RowRecord
<1>3. /\ book' = Shut(book, p) /\ Writes(p, row, n) /\ UNCHANGED <<shut, peak, slices>>
  BY DEF CloseBy
<1>4. row.partial = rows[p].partial BY <1>1 DEF RowRecord
<1> HIDE DEF row
<1>5. DOMAIN book' = DOMAIN book \ {p} /\ \A q \in DOMAIN book' : book'[q] = book[q]
  BY <1>3 DEF Shut, Restrict
<1>6. TypeOK'
  <2>1. /\ rows' \in [Positions -> RowRecord] /\ counts' \in CountRecord
        /\ lost' \subseteq Positions
    BY <1>1, <1>2, <1>3, Wrote
  <2>2. /\ DOMAIN book' \subseteq Positions
        /\ \A q \in DOMAIN book' : book'[q] \in PositionRecord
        /\ shut' \in BOOLEAN /\ peak' \in [Positions -> Int]
        /\ slices' \in [Positions -> Nat]
    BY <1>1, <1>3, <1>5, Types
  <2> QED BY <2>1, <2>2, TypesAfter
<1>7. ASSUME NEW q \in Positions PROVE Sound(q)'
  <2>1. CASE q # p
    <3>1. Same(q) BY <2>1, <1>1, <1>2, <1>3, <1>5, Wrote DEF Same
    <3> QED BY <3>1, <1>1, <1>2, <1>3, Wrote, Elsewhere DEF Kept
  <2>2. CASE q = p
    <3>1. p \in lost' \/ rows'[p] = row BY <1>1, <1>2, <1>3, Wrote
    <3>2. lost \subseteq lost' BY <1>1, <1>2, <1>3, Wrote
    <3> QED BY <3>1, <3>2, <2>2, <1>2, <1>3, <1>4, <1>5 DEF Kept, Sound
  <2> QED BY <2>1, <2>2
<1> QED BY <1>1, <1>2, <1>3, <1>5, <1>6, <1>7, Wrote DEF Kept

LEMMA Sliced ==
    ASSUME Kept, NEW p \in DOMAIN book, ~book[p].partial, NEW n \in 0..1, Slice(p, n),
           DOMAIN book' = DOMAIN book, book'[p] \in PositionRecord,
           book'[p].stop = book[p].stop, book'[p].partial,
           \A q \in DOMAIN book \ {p} : book'[q] = book[q],
           UNCHANGED <<shut, peak>>,
           cycle' \in CycleRecord, Waits', told' \subseteq Positions
    PROVE  Kept' /\ counts'.restarts = counts.restarts
<1>1. TypeOK /\ p \in Positions /\ rows[p] \in RowRecord /\ slices \in [Positions -> Nat]
  BY Types DEF Kept
<1> DEFINE row == [rows[p] EXCEPT !.partial = TRUE]
<1>2. row \in RowRecord /\ row.partial /\ row.stop = rows[p].stop
      /\ row.reason = rows[p].reason
  BY <1>1 DEF RowRecord
<1>3. Writes(p, row, n) /\ slices' = [slices EXCEPT ![p] = @ + 1] BY DEF Slice
<1> HIDE DEF row
<1>4. slices' \in [Positions -> Nat] /\ slices'[p] = slices[p] + 1
      /\ \A q \in Positions \ {p} : slices'[q] = slices[q]
  BY <1>1, <1>3
<1>5. TypeOK'
  <2>1. /\ rows' \in [Positions -> RowRecord] /\ counts' \in CountRecord
        /\ lost' \subseteq Positions
    BY <1>1, <1>2, <1>3, Wrote
  <2>2. /\ DOMAIN book' \subseteq Positions
        /\ \A q \in DOMAIN book' : book'[q] \in PositionRecord
        /\ shut' \in BOOLEAN /\ peak' \in [Positions -> Int]
    BY <1>1, Types
  <2> QED BY <2>1, <2>2, <1>4, TypesAfter
<1>6. ASSUME NEW q \in Positions PROVE Sound(q)'
  <2>1. CASE q # p
    <3>1. Same(q) BY <2>1, <1>1, <1>2, <1>3, <1>4, Wrote DEF Same
    <3> QED BY <3>1, <1>1, <1>2, <1>3, Wrote, Elsewhere DEF Kept
  <2>2. CASE q = p
    <3>1. p \in lost' \/ rows'[p] = row BY <1>1, <1>2, <1>3, Wrote
    <3>2. lost \subseteq lost' BY <1>1, <1>2, <1>3, Wrote
    <3>3. p \in lost \/ slices[p] = 0 BY <1>1 DEF Kept, Sound
    <3>4. book'[p].partial = TRUE /\ row.partial = TRUE
      BY <1>2 DEF PositionRecord, RowRecord
    <3> SUFFICES ASSUME p \notin lost' PROVE Sound(p)'
      BY <2>2 DEF Sound
    <3>5. rows'[p] = row /\ p \notin lost /\ slices'[p] = 1
      BY <3>1, <3>2, <3>3, <1>4
    <3>6. /\ p \in DOMAIN book <=> rows[p].reason = "none"
          /\ rows[p].stop = book[p].stop
          /\ peak[p] >= Trigger => book[p].stop >= Ladder(peak[p], R)
      BY <3>5, <1>1 DEF Kept, Sound
    <3> QED BY <3>4, <3>5, <3>6, <1>2 DEF Sound
  <2> QED BY <2>1, <2>2
<1> QED BY <1>1, <1>2, <1>3, <1>5, <1>6, Wrote DEF Kept

\* a step that moves marks at most
LEMMA Looked ==
    ASSUME Kept, UNCHANGED <<rows, shut, peak, slices, lost>>,
           DOMAIN book' = DOMAIN book, \A q \in DOMAIN book : book'[q] \in PositionRecord,
           \A q \in DOMAIN book : /\ book'[q].stop = book[q].stop
                                  /\ book'[q].partial = book[q].partial,
           counts' \in CountRecord, cycle' \in CycleRecord, Waits', told' \subseteq Positions
    PROVE  Kept'
<1>1. TypeOK' BY Types, TypesAfter DEF Kept
<1>2. ASSUME NEW q \in Positions PROVE Sound(q)'
  <2>1. Same(q) BY DEF Same
  <2> QED BY <2>1, Elsewhere DEF Kept
<1> QED BY <1>1, <1>2 DEF Kept

(***************************************************************************)
(* The cycle                                                               *)
(***************************************************************************)
Tightened ==
    \A p \in DOMAIN book \cap DOMAIN book' :
        cycle' # cycle /\ counts'.restarts = counts.restarts
        /\ book'[p].stop # book[p].stop
           => /\ book'[p].stop > book[p].stop
              /\ \/ book'[p].stop < book'[p].mark
                 \/ counts'.faults > counts.faults

Held ==
    cycle.blocked /\ cycle' # cycle /\ counts'.restarts = counts.restarts
        => /\ rows' = rows
           /\ \A p \in DOMAIN book :
                 p \in DOMAIN book' /\ book'[p].stop = book[p].stop

Result == Kept' /\ Tightened /\ Held

LEMMA Cycling ==
    ASSUME Kept, NEW p \in Positions
    PROVE  /\ Done(p) => cycle' \in CycleRecord /\ Waits'
           /\ \A pc \in {"smart", "time"} :
                 ~cycle.blocked /\ Goto(pc) => cycle' \in CycleRecord /\ Waits'
           /\ cycle' = Idle => cycle' \in CycleRecord /\ Waits'
<1>1. cycle \in CycleRecord BY Types DEF Kept
<1>2. Done(p) => cycle' \in CycleRecord /\ Waits'
  <2> SUFFICES ASSUME Done(p) PROVE cycle' \in CycleRecord /\ Waits'
    OBVIOUS
  <2> DEFINE rest == cycle.todo \ {p}
  <2>1. cycle' = [cycle EXCEPT !.pc = "judge", !.at = {}, !.todo = rest] BY DEF Done
  <2>2. rest \in SUBSET Positions BY <1>1 DEF CycleRecord
  <2> HIDE DEF rest
  <2>3. cycle' \in CycleRecord /\ cycle'.pc = "judge" BY <1>1, <2>1, <2>2 DEF CycleRecord
  <2> QED BY <2>3 DEF Waits
<1>3. \A pc \in {"smart", "time"} :
          ~cycle.blocked /\ Goto(pc) => cycle' \in CycleRecord /\ Waits'
  BY <1>1 DEF Goto, CycleRecord, Waits
<1>4. cycle' = Idle => cycle' \in CycleRecord /\ Waits'
  BY DEF Idle, CycleRecord, Waits
<1> QED BY <1>2, <1>3, <1>4

LEMMA Marking ==
    ASSUME Kept, NEW p \in DOMAIN book, NEW m \in Marks(p)
    PROVE  /\ DOMAIN Marked(p, m) = DOMAIN book
           /\ \A q \in DOMAIN book :
                 /\ Marked(p, m)[q] \in PositionRecord
                 /\ Marked(p, m)[q].stop = book[q].stop
                 /\ Marked(p, m)[q].partial = book[q].partial
           /\ \A q \in DOMAIN book \ {p} : Marked(p, m)[q] = book[q]
           /\ m.mark \in Int
<1>1. \A q \in DOMAIN book : book[q] \in PositionRecord BY Types DEF Kept
<1>2. m.mark \in Int /\ m.live \in BOOLEAN
  <2>1. book[p].mark \in Int /\ book[p].live \in BOOLEAN BY <1>1 DEF PositionRecord
  <2>2. CASE m \in [mark : Feed, live : {TRUE}] BY <2>2, GuardAssumption
  <2>3. CASE m = [mark |-> book[p].mark, live |-> book[p].live] BY <2>1, <2>3
  <2> QED BY <2>2, <2>3 DEF Marks
<1>3. [book[p] EXCEPT !.mark = m.mark, !.live = m.live] \in PositionRecord
  BY <1>1, <1>2 DEF PositionRecord
<1>4. Marked(p, m)[p] = [book[p] EXCEPT !.mark = m.mark, !.live = m.live]
      /\ DOMAIN Marked(p, m) = DOMAIN book
      /\ \A q \in DOMAIN book \ {p} : Marked(p, m)[q] = book[q]
  BY DEF Marked
<1>5. /\ Marked(p, m)[p].stop = book[p].stop
      /\ Marked(p, m)[p].partial = book[p].partial
  BY <1>1, <1>4 DEF PositionRecord
<1> QED BY <1>1, <1>2, <1>3, <1>4, <1>5

LEMMA StartKept == ASSUME Kept, CycleStart PROVE Result
<1>1. PICK kill \in BOOLEAN, managed \in Modes, unpriced \in {{}, DOMAIN book} :
          cycle' = [pc |-> "judge", at |-> {}, todo |-> DOMAIN book, blocked |-> shut,
                    kill |-> kill, managed |-> managed,
                    unpriced |-> unpriced, missed |-> 0]
  BY DEF CycleStart
<1>2. UNCHANGED <<book, rows, shut, told, peak, slices, lost, counts>>
  BY DEF CycleStart
<1>3. cycle' \in CycleRecord /\ Waits'
  BY <1>1, Types, GuardAssumption DEF Kept, CycleRecord, Waits
<1>4. Kept' BY <1>2, <1>3, Types, Looked DEF Kept
<1> QED BY <1>2, <1>4 DEF Result, Tightened, Held

LEMMA EndKept == ASSUME Kept, CycleEnd PROVE Result
<1>1. cycle' = Idle /\ UNCHANGED <<book, rows, shut, told, peak, slices, lost, counts>>
  BY DEF CycleEnd
<1>2. cycle' \in CycleRecord /\ Waits' BY <1>1 DEF Idle, CycleRecord, Waits
<1>3. Kept' BY <1>1, <1>2, Types, Looked DEF Kept
<1> QED BY <1>1, <1>3 DEF Result, Tightened, Held

LEMMA JudgedKept ==
    ASSUME Kept, NEW p \in Positions, JudgeGone(p) \/ JudgeHeld(p) \/ JudgeKill(p)
    PROVE  Result
<1>1. cycle' \in CycleRecord /\ Waits'
  BY Cycling DEF JudgeGone, JudgeHeld, JudgeKill
<1>2. CASE JudgeGone(p)
  <2>1. UNCHANGED <<book, rows, shut, told, peak, slices, lost, counts>>
    BY <1>2 DEF JudgeGone
  <2>2. Kept' BY <2>1, <1>1, Types, Looked DEF Kept
  <2> QED BY <2>1, <2>2 DEF Result, Tightened, Held
<1>3. CASE JudgeHeld(p)
  <2>1. PICK m \in Marks(p) : book' = Marked(p, m) BY <1>3 DEF JudgeHeld
  <2>2. UNCHANGED <<rows, shut, told, peak, slices, lost, counts>> /\ p \in DOMAIN book
    BY <1>3 DEF JudgeHeld
  <2>3. Kept' BY <2>1, <2>2, <1>1, Types, Marking, Looked DEF Kept
  <2> QED BY <2>1, <2>2, <2>3, Marking DEF Result, Tightened, Held
<1>4. CASE JudgeKill(p)
  <2>1. /\ CloseBy(p, "kill", 0) /\ told' = told \cup {p} /\ p \in DOMAIN book
        /\ ~cycle.blocked
    BY <1>4 DEF JudgeKill
  <2>2. told' \subseteq Positions BY <2>1, Types DEF Kept
  <2>3. "kill" \in Reasons \ {"none"} BY DEF Reasons
  <2>4. Kept' /\ \A q \in DOMAIN book' : q \in DOMAIN book /\ book'[q] = book[q]
    BY <2>1, <2>2, <2>3, <1>1, Closed
  <2> QED BY <2>1, <2>4 DEF Result, Tightened, Held
<1> QED BY <1>2, <1>3, <1>4

LEMMA HitKept == ASSUME Kept, NEW p \in Positions, JudgeHit(p) PROVE Result
<1>1. PICK reason \in {"sl", "tp"} :
          /\ CloseBy(p, reason, 0)
          /\ (cycle' = Idle /\ UNCHANGED told) \/ (Done(p) /\ told' = told \cup {p})
  BY DEF JudgeHit
<1>2. p \in DOMAIN book /\ ~cycle.blocked BY DEF JudgeHit
<1>3. told' \subseteq Positions BY <1>1, Types DEF Kept
<1>4. cycle' \in CycleRecord /\ Waits' BY <1>1, Cycling
<1>5. reason \in Reasons \ {"none"} BY DEF Reasons
<1>6. Kept' /\ \A q \in DOMAIN book' : q \in DOMAIN book /\ book'[q] = book[q]
  BY <1>1, <1>2, <1>3, <1>4, <1>5, Closed
<1> QED BY <1>2, <1>6 DEF Result, Tightened, Held

LEMMA OnKept == ASSUME Kept, NEW p \in Positions, JudgeOn(p) PROVE Result
<1>1. PICK m \in Marks(p), n \in IF cycle.managed THEN Missed ELSE {0} :
          LET due == /\ cycle.managed /\ ~book[p].partial
                     /\ Earns(m.mark, Risk(p, n))
          IN  /\ \/ /\ due /\ p \notin Big
                    /\ CloseBy(p, "tp", n) /\ told' = told \cup {p}
                 \/ /\ due /\ p \in Big
                    /\ book' = [Marked(p, m) EXCEPT ![p].partial = TRUE]
                    /\ Slice(p, n)
                    /\ UNCHANGED <<shut, told, peak>>
                 \/ /\ ~due /\ Fail(n)
                    /\ book' = Marked(p, m)
                    /\ UNCHANGED <<rows, shut, told, peak, slices, lost>>
              /\ cycle' = [cycle EXCEPT
                    !.pc = IF cycle.managed THEN "trail" ELSE @,
                    !.at = IF cycle.managed THEN {p} ELSE @,
                    !.todo = @ \ {p}, !.missed = n]
  BY DEF JudgeOn
<1>2. /\ p \in DOMAIN book /\ ~cycle.blocked /\ cycle \in CycleRecord
      /\ cycle.pc = "judge" /\ n \in 0..1 /\ told \subseteq Positions
      /\ book[p] \in PositionRecord
  BY Types DEF JudgeOn, Kept, Missed
<1>3. cycle' \in CycleRecord /\ Waits'
  <2> DEFINE pc == IF cycle.managed THEN "trail" ELSE cycle.pc
             at == IF cycle.managed THEN {p} ELSE cycle.at
             rest == cycle.todo \ {p}
  <2>1. cycle' = [cycle EXCEPT !.pc = pc, !.at = at, !.todo = rest, !.missed = n]
    BY <1>1
  <2>2. /\ pc \in {"idle", "judge", "trail", "smart", "time"}
        /\ at \in SUBSET Positions /\ rest \in SUBSET Positions
    BY <1>2 DEF CycleRecord
  <2> HIDE DEF pc, at, rest
  <2>3. cycle' \in CycleRecord /\ cycle'.blocked = cycle.blocked
    BY <1>2, <2>1, <2>2 DEF CycleRecord
  <2> QED BY <2>3, <1>2 DEF Waits
<1>4. CASE CloseBy(p, "tp", n) /\ told' = told \cup {p}
  <2>1. "tp" \in Reasons \ {"none"} /\ told' \subseteq Positions
    BY <1>2, <1>4 DEF Reasons
  <2>2. Kept' /\ \A q \in DOMAIN book' : q \in DOMAIN book /\ book'[q] = book[q]
    BY <1>2, <1>3, <1>4, <2>1, Closed
  <2> QED BY <2>2, <1>2 DEF Result, Tightened, Held
<1>5. CASE /\ ~book[p].partial /\ Slice(p, n) /\ UNCHANGED <<shut, told, peak>>
           /\ book' = [Marked(p, m) EXCEPT ![p].partial = TRUE]
  <2>1. /\ DOMAIN book' = DOMAIN book
        /\ \A q \in DOMAIN book \ {p} : book'[q] = book[q]
        /\ book'[p] = [Marked(p, m)[p] EXCEPT !.partial = TRUE]
    BY <1>2, <1>5, Marking
  <2>2. /\ book'[p] \in PositionRecord /\ book'[p].stop = book[p].stop
        /\ book'[p].partial
    <3>1. Marked(p, m)[p] \in PositionRecord /\ Marked(p, m)[p].stop = book[p].stop
      BY <1>2, Marking
    <3> QED BY <3>1, <2>1 DEF PositionRecord
  <2>3. Kept' BY <1>2, <1>3, <1>5, <2>1, <2>2, Sliced
  <2> QED BY <2>1, <2>2, <2>3, <1>2 DEF Result, Tightened, Held
<1>6. CASE /\ Fail(n) /\ book' = Marked(p, m)
           /\ UNCHANGED <<rows, shut, told, peak, slices, lost>>
  <2>1. counts' \in CountRecord BY <1>2, <1>6, Failed DEF Kept
  <2>2. /\ DOMAIN book' = DOMAIN book
        /\ \A q \in DOMAIN book : /\ book'[q] \in PositionRecord
                                  /\ book'[q].stop = book[q].stop
                                  /\ book'[q].partial = book[q].partial
    BY <1>2, <1>6, Marking
  <2>3. Kept' BY <1>2, <1>3, <1>6, <2>1, <2>2, Looked
  <2> QED BY <2>2, <2>3, <1>2 DEF Result, Tightened, Held
<1> QED BY <1>1, <1>4, <1>5, <1>6

LEMMA ExitKept ==
    ASSUME Kept, NEW p \in Positions, SmartExit(p) \/ TimeStop(p) PROVE Result
<1>1. ~cycle.blocked /\ told \subseteq Positions BY Types DEF SmartExit, TimeStop, At, Kept, Waits
<1>2. cycle' \in CycleRecord /\ Waits' BY <1>1, Cycling DEF SmartExit, TimeStop
<1>3. \/ \E reason \in {"smart", "time"}, n \in 0..1 :
            p \in DOMAIN book /\ CloseBy(p, reason, n) /\ told' = told \cup {p}
      \/ /\ p \in DOMAIN book /\ ~book[p].partial
         /\ book' = [book EXCEPT ![p].partial = TRUE]
         /\ Slice(p, 0) /\ UNCHANGED <<shut, told, peak>>
      \/ UNCHANGED <<book, rows, shut, told, peak, slices, lost, counts>>
  BY DEF SmartExit, TimeStop, Missed
<1>4. ASSUME NEW reason \in {"smart", "time"}, NEW n \in 0..1, p \in DOMAIN book,
             CloseBy(p, reason, n), told' = told \cup {p}
      PROVE  Result
  <2>1. reason \in Reasons \ {"none"} /\ told' \subseteq Positions
    BY <1>1, <1>4 DEF Reasons
  <2>2. Kept' /\ \A q \in DOMAIN book' : q \in DOMAIN book /\ book'[q] = book[q]
    BY <1>2, <1>4, <2>1, Closed
  <2> QED BY <2>2, <1>1 DEF Result, Tightened, Held
<1>5. CASE /\ p \in DOMAIN book /\ ~book[p].partial
           /\ book' = [book EXCEPT ![p].partial = TRUE]
           /\ Slice(p, 0) /\ UNCHANGED <<shut, told, peak>>
  <2>1. /\ DOMAIN book' = DOMAIN book
        /\ \A q \in DOMAIN book \ {p} : book'[q] = book[q]
        /\ book'[p] = [book[p] EXCEPT !.partial = TRUE]
    BY <1>5
  <2>2. book[p] \in PositionRecord BY <1>5, Types DEF Kept
  <2>3. /\ book'[p] \in PositionRecord /\ book'[p].stop = book[p].stop
        /\ book'[p].partial
    BY <2>1, <2>2 DEF PositionRecord
  <2>4. told' \subseteq Positions /\ 0 \in 0..1 BY <1>1, <1>5
  <2>5. Kept' BY <1>2, <1>5, <2>1, <2>3, <2>4, Sliced
  <2> QED BY <2>1, <2>3, <2>5, <1>1 DEF Result, Tightened, Held
<1>6. CASE UNCHANGED <<book, rows, shut, told, peak, slices, lost, counts>>
  <2>1. Kept' BY <1>1, <1>2, <1>6, Types, Looked DEF Kept
  <2> QED BY <2>1, <1>6 DEF Result, Tightened, Held
<1> QED BY <1>3, <1>4, <1>5, <1>6

(***************************************************************************)
(* The trailing stop                                                       *)
(***************************************************************************)
\* an ATR of at least one unit: the fraction of the risk is rounded up
LEMMA TrailTypes ==
    /\ \A risk \in Int : TrailBy(risk) \in Int
    /\ TrailBy(R) >= 1
<1>1. R \in Nat \ {0} /\ Trail \in Nat \ {0} BY GuardAssumption
<1>2. \A risk \in Int : TrailBy(risk) \in Int BY <1>1 DEF TrailBy
<1>3. R * Trail + R - 1 >= R
  <2>1. R * Trail >= 1 BY <1>1
  <2> QED BY <2>1, <1>1
<1>4. \A x \in Int : x >= R => x \div R >= 1 BY <1>1
<1> QED BY <1>1, <1>2, <1>3, <1>4 DEF TrailBy

LEMMA LadderTypes ==
    ASSUME NEW mark \in Int, NEW risk \in Nat
    PROVE  /\ Ladder(mark, risk) \in Int
           /\ mark > 0 /\ risk > 0 => Ladder(mark, risk) < mark
<1>1. CASE mark >= 3 * risk BY <1>1 DEF Ladder
<1>2. CASE 2 * risk <= mark /\ mark < 3 * risk BY <1>2 DEF Ladder
<1>3. CASE ~(mark >= 3 * risk) /\ ~(2 * risk <= mark /\ mark < 3 * risk)
  <2>1. Ladder(mark, risk) = 0 BY <1>3 DEF Ladder
  <2> QED BY <2>1
<1> QED BY <1>1, <1>2, <1>3

\* a position that earns is above its entry, and the best of the three stops
\* is no lower than the rung and below the price
LEMMA Earning ==
    ASSUME NEW mark \in Int, NEW risk \in Nat, NEW proxy \in Int, Earns(mark, risk)
    PROVE  /\ NewStop(mark, risk, proxy) \in Int
           /\ NewStop(mark, risk, proxy) >= Ladder(mark, risk)
           /\ proxy = R => NewStop(mark, risk, proxy) < mark
           /\ risk = R => mark >= Trigger
<1>1. /\ R \in Nat \ {0} /\ Trigger \in Nat \ {0}
      /\ risk > 0 /\ mark * R >= Trigger * risk
  BY GuardAssumption DEF Earns
<1>2. mark > 0
  <2>1. Trigger * risk > 0 BY <1>1
  <2>2. ASSUME mark <= 0 PROVE mark * R <= 0 BY <1>1, <2>2
  <2> QED BY <1>1, <2>1, <2>2
<1>3. risk = R => mark >= Trigger
  <2> SUFFICES ASSUME risk = R, mark < Trigger PROVE FALSE BY <1>1
  <2>1. (Trigger - mark) * R > 0 BY <1>1
  <2>2. (Trigger - mark) * R = Trigger * R - mark * R BY <1>1
  <2> QED BY <1>1, <2>1, <2>2
<1>4. /\ Ladder(mark, risk) \in Int /\ Ladder(mark, risk) < mark
      /\ TrailBy(proxy) \in Int /\ TrailBy(R) >= 1
  BY <1>1, <1>2, LadderTypes, TrailTypes
<1> QED BY <1>2, <1>3, <1>4 DEF NewStop, Better

\* a stop written to the book and to the row, or to the book alone and then the
\* write is one of the lost
LEMMA Stopped ==
    ASSUME Kept, NEW p \in DOMAIN book, NEW stop \in Int, NEW n \in 0..1,
           book' = [book EXCEPT ![p].stop = stop],
           Writes(p, [rows[p] EXCEPT !.stop = stop], n),
           peak' \in [Positions -> Int],
           \A q \in Positions \ {p} : peak'[q] = peak[q],
           p \notin lost /\ peak'[p] >= Trigger => stop >= Ladder(peak'[p], R),
           UNCHANGED <<shut, told, slices>>, cycle' \in CycleRecord, Waits'
    PROVE  Kept'
<1>1. TypeOK /\ p \in Positions /\ rows[p] \in RowRecord /\ book[p] \in PositionRecord
  BY Types DEF Kept
<1> DEFINE row == [rows[p] EXCEPT !.stop = stop]
<1>2. row \in RowRecord /\ row.stop = stop /\ row.partial = rows[p].partial
      /\ row.reason = rows[p].reason
  BY <1>1 DEF RowRecord
<1>3. Writes(p, row, n) OBVIOUS
<1> HIDE DEF row
<1>4. /\ DOMAIN book' = DOMAIN book
      /\ \A q \in DOMAIN book \ {p} : book'[q] = book[q]
      /\ book'[p] = [book[p] EXCEPT !.stop = stop]
  OBVIOUS
<1>5. book'[p] \in PositionRecord /\ book'[p].stop = stop
      /\ book'[p].partial = book[p].partial
  BY <1>1, <1>4 DEF PositionRecord
<1>6. TypeOK'
  <2>1. /\ rows' \in [Positions -> RowRecord] /\ counts' \in CountRecord
        /\ lost' \subseteq Positions
    BY <1>1, <1>2, <1>3, Wrote
  <2>2. /\ DOMAIN book' \subseteq Positions
        /\ \A q \in DOMAIN book' : book'[q] \in PositionRecord
        /\ shut' \in BOOLEAN /\ told' \subseteq Positions
        /\ slices' \in [Positions -> Nat]
    BY <1>1, <1>4, <1>5, Types
  <2> QED BY <2>1, <2>2, TypesAfter
<1>7. ASSUME NEW q \in Positions PROVE Sound(q)'
  <2>1. CASE q # p
    <3>1. Same(q) BY <2>1, <1>1, <1>2, <1>3, <1>4, Wrote DEF Same
    <3> QED BY <3>1, <1>1, <1>2, <1>3, Wrote, Elsewhere DEF Kept
  <2>2. CASE q = p
    <3>1. p \in lost' \/ rows'[p] = row BY <1>1, <1>2, <1>3, Wrote
    <3>2. lost \subseteq lost' BY <1>1, <1>2, <1>3, Wrote
    <3> SUFFICES ASSUME p \notin lost' PROVE Sound(p)'
      BY <2>2 DEF Sound
    <3>3. rows'[p] = row /\ p \notin lost BY <3>1, <3>2
    <3>4. /\ rows[p].reason = "none" /\ rows[p].partial = book[p].partial
          /\ slices[p] = 0 \/ (slices[p] = 1 /\ rows[p].partial)
      BY <3>3, <1>1 DEF Kept, Sound
    <3> QED BY <3>3, <3>4, <1>2, <1>4, <1>5 DEF Sound
  <2> QED BY <2>1, <2>2
<1> QED BY <1>6, <1>7 DEF Kept

\* the rung is held by a stop that is no worse than the old one, nor than the
\* rung of the price the peak may have moved to
LEMMA Rung ==
    ASSUME Kept, NEW p \in DOMAIN book, p \notin lost, NEW mark \in Int, NEW stop \in Int,
           stop >= book[p].stop, NEW risk \in Int,
           risk = R => stop >= Ladder(mark, R),
           peak' = IF cycle.missed = 0 THEN [peak EXCEPT ![p] = Better(@, mark)] ELSE peak,
           cycle.missed = 0 => risk = R
    PROVE  peak'[p] >= Trigger => stop >= Ladder(peak'[p], R)
<1>1. /\ p \in Positions /\ book[p].stop \in Int /\ peak \in [Positions -> Int]
  BY Types DEF Kept, PositionRecord
<1>2. peak[p] >= Trigger => book[p].stop >= Ladder(peak[p], R)
  BY <1>1 DEF Kept, Sound
<1>3. Ladder(peak[p], R) \in Int BY <1>1, GuardAssumption, LadderTypes
<1>4. peak'[p] = peak[p] \/ (peak'[p] = mark /\ cycle.missed = 0)
  BY <1>1 DEF Better
<1>5. CASE peak'[p] = peak[p] BY <1>5, <1>1, <1>2, <1>3
<1>6. CASE peak'[p] = mark /\ cycle.missed = 0 BY <1>6
<1> QED BY <1>4, <1>5, <1>6

LEMMA TrailKept == ASSUME Kept, NEW p \in Positions, TrailStop(p) PROVE Result
<1>1. /\ ~cycle.blocked /\ Goto("smart") /\ UNCHANGED <<shut, told, slices>>
      /\ told \subseteq Positions /\ peak \in [Positions -> Int]
      /\ cycle \in CycleRecord
  BY Types DEF TrailStop, At, Kept, Waits
<1>2. cycle' \in CycleRecord /\ Waits' BY <1>1, Cycling
<1>3. CASE UNCHANGED <<book, rows, lost, counts, peak>>
  <2>1. Kept' BY <1>1, <1>2, <1>3, Types, Looked DEF Kept
  <2> QED BY <2>1, <1>3 DEF Result, Tightened, Held
<1>4. CASE p \in DOMAIN book /\ Earns(book[p].mark, Risk(p, cycle.missed))
  <2> DEFINE mark == book[p].mark
             risk == Risk(p, cycle.missed)
  <2>1. PICK n \in Missed :
            /\ peak' = IF cycle.missed = 0
                       THEN [peak EXCEPT ![p] = Better(@, mark)] ELSE peak
            /\ IF Improves(p, NewStop(mark, risk, Risk(p, n)))
               THEN /\ book' = [book EXCEPT ![p].stop = NewStop(mark, risk, Risk(p, n))]
                    /\ Writes(p, [rows[p] EXCEPT !.stop = NewStop(mark, risk, Risk(p, n))],
                              n)
               ELSE Fail(n) /\ UNCHANGED <<book, rows, lost>>
    BY <1>4 DEF TrailStop
  <2> DEFINE stop == NewStop(mark, risk, Risk(p, n))
  <2>2. /\ n \in 0..1 /\ book[p] \in PositionRecord /\ TypeOK
    BY <1>4, Types DEF Missed, Kept
  <2>3. mark \in Int /\ book[p].stop \in Int BY <2>2 DEF PositionRecord
  <2>4. \A k : /\ Risk(p, k) \in Nat
               /\ k = 0 => Risk(p, k) = R
    BY <2>3, GuardAssumption DEF Risk, Size
  <2>5. Earns(mark, risk) BY <1>4
  <2> HIDE DEF mark, risk
  <2>6. risk \in Nat /\ (cycle.missed = 0 => risk = R) BY <2>4 DEF risk
  <2>7. /\ stop \in Int /\ stop >= Ladder(mark, risk)
        /\ n = 0 => stop < mark
    BY <2>3, <2>4, <2>5, <2>6, Earning
  <2> HIDE DEF stop
  <2>8. peak' \in [Positions -> Int] /\ \A q \in Positions \ {p} : peak'[q] = peak[q]
    <3>1. Better(peak[p], mark) \in Int BY <1>1, <2>3 DEF Better
    <3> QED BY <3>1, <2>1, <1>1
  <2>9. CASE stop > book[p].stop
    <3>1. /\ book' = [book EXCEPT ![p].stop = stop]
          /\ Writes(p, [rows[p] EXCEPT !.stop = stop], n)
      BY <2>1, <2>9 DEF Improves, stop
    <3>2. p \notin lost /\ peak'[p] >= Trigger => stop >= Ladder(peak'[p], R)
      BY <1>4, <2>1, <2>3, <2>6, <2>7, <2>9, Rung
    <3>3. Kept' BY <1>1, <1>2, <1>4, <2>2, <2>7, <2>8, <3>1, <3>2, Stopped
    <3>4. /\ counts'.faults >= counts.faults
          /\ counts'.faults = counts.faults => n = 0
          /\ counts.faults \in Nat /\ counts'.faults \in Nat
      <4>1. [rows[p] EXCEPT !.stop = stop] \in RowRecord
        BY <2>2, <2>7, Types DEF RowRecord
      <4>2. counts \in CountRecord /\ counts' \in CountRecord
        BY <4>1, <2>2, <3>1, Wrote, Types
      <4> QED BY <4>1, <4>2, <2>2, <3>1, Wrote DEF CountRecord
    <3>5. /\ book'[p].stop = stop /\ book'[p].mark = mark
          /\ \A q \in DOMAIN book \ {p} : book'[q] = book[q]
      BY <1>4, <2>2, <3>1 DEF PositionRecord, mark
    <3>6. Tightened BY <2>7, <2>9, <3>4, <3>5 DEF Tightened
    <3> QED BY <1>1, <3>3, <3>6 DEF Result, Held
  <2>10. CASE ~(stop > book[p].stop)
    <3>1. Fail(n) /\ UNCHANGED <<book, rows, lost>>
      BY <2>1, <2>10 DEF Improves, stop
    <3>2. p \notin lost /\ peak'[p] >= Trigger => book[p].stop >= Ladder(peak'[p], R)
      <4>1. risk = R => book[p].stop >= Ladder(mark, R)
        BY <2>3, <2>7, <2>10, GuardAssumption, LadderTypes
      <4> QED BY <4>1, <1>4, <2>1, <2>3, <2>6, Rung
    <3>3. TypeOK'
      <4>1. counts' \in CountRecord BY <2>2, <3>1, Failed
      <4> QED BY <4>1, <1>1, <1>2, <2>2, <2>8, <3>1, Types, TypesAfter
    <3>4. ASSUME NEW q \in Positions PROVE Sound(q)'
      <4>1. CASE q # p
        <5>1. Same(q) BY <1>1, <2>8, <3>1, <4>1 DEF Same
        <5> QED BY <5>1, <3>1, Elsewhere DEF Kept
      <4>2. CASE q = p
        <5>1. Sound(p) BY DEF Kept
        <5> QED BY <5>1, <4>2, <1>1, <3>1, <3>2 DEF Sound
      <4> QED BY <4>1, <4>2
    <3> QED BY <1>1, <1>2, <3>1, <3>3, <3>4 DEF Result, Tightened, Held, Kept
  <2> QED BY <2>9, <2>10
<1> QED BY <1>3, <1>4 DEF TrailStop

(***************************************************************************)
(* The owner, the clock and a restart                                      *)
(***************************************************************************)
LEMMA LevelKept == ASSUME Kept, NEW p \in Positions, SetLevel(p) PROVE Result
<1>1. PICK stop \in Levels, fails \in 0..1 :
          /\ counts.faults + fails <= MaxFaults
          /\ book' = [book EXCEPT ![p].stop = stop]
          /\ rows' = IF fails = 1 THEN rows ELSE [rows EXCEPT ![p].stop = stop]
          /\ lost' = IF fails = 1 THEN lost \cup {p} ELSE lost
          /\ counts' = [counts EXCEPT !.levels = @ + 1, !.faults = @ + fails]
  BY DEF SetLevel
<1>2. /\ p \in DOMAIN book /\ counts.levels < MaxLevels
      /\ peak' = [peak EXCEPT ![p] = 0] /\ UNCHANGED <<cycle, shut, told, slices>>
  BY DEF SetLevel
<1>3. /\ TypeOK /\ Waits /\ stop \in Int /\ book[p] \in PositionRecord
      /\ rows[p] \in RowRecord /\ rows \in [Positions -> RowRecord]
      /\ counts \in CountRecord /\ cycle \in CycleRecord
      /\ lost \subseteq Positions /\ peak \in [Positions -> Int]
      /\ Trigger \in Nat \ {0} /\ MaxFaults \in Nat /\ MaxLevels \in Nat
  BY <1>2, Types, GuardAssumption DEF Kept
<1> DEFINE row == [rows[p] EXCEPT !.stop = stop]
<1>4. row \in RowRecord /\ row.stop = stop /\ row.partial = rows[p].partial
      /\ row.reason = rows[p].reason
  BY <1>3 DEF RowRecord
<1>5. /\ rows' = rows \/ rows' = [rows EXCEPT ![p] = row]
      /\ lost \subseteq lost' /\ lost' \subseteq Positions
      /\ p \in lost' \/ (rows'[p] = row /\ p \notin lost)
  BY <1>1, <1>3
<1> HIDE DEF row
<1>6. /\ rows' \in [Positions -> RowRecord]
      /\ \A q \in Positions \ {p} : rows'[q] = rows[q]
  BY <1>3, <1>4, <1>5
<1>7. /\ DOMAIN book' = DOMAIN book
      /\ \A q \in DOMAIN book \ {p} : book'[q] = book[q]
      /\ book'[p] = [book[p] EXCEPT !.stop = stop]
  BY <1>1, <1>2
<1>8. book'[p] \in PositionRecord /\ book'[p].stop = stop
      /\ book'[p].partial = book[p].partial
  BY <1>2, <1>3, <1>7 DEF PositionRecord
<1>9. counts' \in CountRecord
  <2>1. counts.levels + 1 \in 0..MaxLevels /\ counts.faults + fails \in 0..MaxFaults
    BY <1>1, <1>2, <1>3 DEF CountRecord
  <2> QED BY <1>1, <1>3, <2>1 DEF CountRecord
<1>10. peak' \in [Positions -> Int] /\ peak'[p] = 0
       /\ \A q \in Positions \ {p} : peak'[q] = peak[q]
  BY <1>2, <1>3
<1>11. TypeOK'
  <2>1. /\ \A q \in DOMAIN book' : book'[q] \in PositionRecord
        /\ DOMAIN book' \subseteq Positions /\ cycle' \in CycleRecord
        /\ shut' \in BOOLEAN /\ told' \subseteq Positions
        /\ slices' \in [Positions -> Nat]
    BY <1>2, <1>3, <1>7, <1>8, Types
  <2> QED BY <2>1, <1>5, <1>6, <1>9, <1>10, TypesAfter
<1>12. ASSUME NEW q \in Positions PROVE Sound(q)'
  <2>1. CASE q # p
    <3>1. Same(q) BY <2>1, <1>2, <1>6, <1>7, <1>10 DEF Same
    <3> QED BY <3>1, <1>5, Elsewhere DEF Kept
  <2>2. CASE q = p
    <3> SUFFICES ASSUME p \notin lost' PROVE Sound(p)'
      BY <2>2 DEF Sound
    <3>1. rows'[p] = row /\ p \notin lost BY <1>5
    <3>2. /\ rows[p].reason = "none" /\ rows[p].partial = book[p].partial
          /\ slices[p] = 0 \/ (slices[p] = 1 /\ rows[p].partial)
      BY <3>1, <1>2 DEF Kept, Sound
    <3> QED BY <3>1, <3>2, <1>2, <1>3, <1>4, <1>7, <1>8, <1>10 DEF Sound
  <2> QED BY <2>1, <2>2
<1> QED BY <1>2, <1>3, <1>11, <1>12 DEF Result, Tightened, Held, Kept, Waits

LEMMA OwnerKept == ASSUME Kept, NEW p \in Positions, OwnerClose(p) PROVE Result
<1>1. /\ p \in DOMAIN book /\ CloseBy(p, "owner", 0) /\ told' = told \cup {p}
      /\ UNCHANGED cycle
  BY DEF OwnerClose
<1>2. /\ "owner" \in Reasons \ {"none"} /\ told' \subseteq Positions
      /\ cycle' \in CycleRecord /\ Waits' /\ 0 \in 0..1
  BY <1>1, Types DEF Reasons, Kept, Waits
<1>3. Kept' BY <1>1, <1>2, Closed
<1> QED BY <1>1, <1>3 DEF Result, Tightened, Held

LEMMA MarketKept == ASSUME Kept, MarketTurns PROVE Result
<1>1. shut' = ~shut /\ UNCHANGED <<book, rows, cycle, told, peak, slices, lost, counts>>
  BY DEF MarketTurns
<1>2. shut' \in BOOLEAN BY <1>1
<1>3. TypeOK' BY <1>1, <1>2, Types, TypesAfter DEF Kept
<1>4. ASSUME NEW q \in Positions PROVE Sound(q)'
  <2>1. Same(q) BY <1>1 DEF Same
  <2> QED BY <1>1, <2>1, Elsewhere DEF Kept
<1> QED BY <1>1, <1>3, <1>4 DEF Result, Tightened, Held, Kept, Waits

LEMMA RestartKept == ASSUME Kept, Restart PROVE Result
<1>1. /\ counts.restarts < MaxRestarts
      /\ counts' = [counts EXCEPT !.restarts = @ + 1]
      /\ book' = Restored /\ cycle' = Idle
      /\ UNCHANGED <<rows, shut, told, peak, slices, lost>>
  BY DEF Restart
<1>2. counts \in CountRecord /\ MaxRestarts \in Nat /\ rows \in [Positions -> RowRecord]
  BY Types, GuardAssumption DEF Kept
<1>3. counts' \in CountRecord /\ counts'.restarts # counts.restarts
  BY <1>1, <1>2 DEF CountRecord
<1>4. cycle' \in CycleRecord /\ Waits' BY <1>1 DEF Idle, CycleRecord, Waits
<1>5. /\ DOMAIN book' = Open
      /\ \A q \in Open : book'[q] = [mark |-> 0, stop |-> rows[q].stop,
                                    partial |-> rows[q].partial, live |-> FALSE]
  BY <1>1 DEF Restored
<1>6. /\ Open \subseteq Positions
      /\ \A q \in Open : /\ book'[q] \in PositionRecord
                         /\ book'[q].stop = rows[q].stop
                         /\ book'[q].partial = rows[q].partial
  <2> SUFFICES ASSUME NEW q \in Open
               PROVE  /\ book'[q] \in PositionRecord /\ book'[q].stop = rows[q].stop
                      /\ book'[q].partial = rows[q].partial
    BY DEF Open
  <2>1. rows[q] \in RowRecord BY <1>2 DEF Open
  <2>2. rows[q].stop \in Int /\ rows[q].partial \in BOOLEAN BY <2>1 DEF RowRecord
  <2>3. book'[q] = [mark |-> 0, stop |-> rows[q].stop,
                    partial |-> rows[q].partial, live |-> FALSE]
    BY <1>5
  <2> QED BY <2>2, <2>3 DEF PositionRecord
<1>7. TypeOK' BY <1>1, <1>3, <1>4, <1>5, <1>6, Types, TypesAfter DEF Kept
<1>8. ASSUME NEW q \in Positions PROVE Sound(q)'
  <2>1. Sound(q) BY DEF Kept
  <2>2. q \in Open <=> rows[q].reason = "none" BY DEF Open
  <2> QED BY <2>1, <2>2, <1>1, <1>5, <1>6 DEF Sound
<1> QED BY <1>3, <1>4, <1>7, <1>8 DEF Result, Tightened, Held, Kept

(***************************************************************************)
(* The invariant                                                           *)
(***************************************************************************)
LEMMA InitKept == Init => Kept
<1> SUFFICES ASSUME Init PROVE Kept
  OBVIOUS
<1>1. /\ R \in Nat \ {0} /\ Trigger \in Nat \ {0}
      /\ MaxFaults \in Nat /\ MaxRestarts \in Nat /\ MaxLevels \in Nat
  BY GuardAssumption
<1>2. /\ book \in [Positions -> PositionRecord] /\ rows \in [Positions -> RowRecord]
      /\ \A p \in Positions : /\ rows[p].stop = book[p].stop /\ ~rows[p].partial
                             /\ rows[p].reason = "none"
                             /\ rows[p].partial = book[p].partial
  <2> DEFINE first == [mark |-> 0, stop |-> -R, partial |-> FALSE, live |-> FALSE]
             row == [stop |-> -R, partial |-> FALSE, reason |-> "none"]
  <2>1. book = [p \in Positions |-> first] /\ rows = [p \in Positions |-> row]
    BY DEF Init
  <2>2. -R \in Int BY <1>1
  <2>3. first \in PositionRecord BY <2>2 DEF PositionRecord
  <2>4. row \in RowRecord BY <2>2 DEF RowRecord, Reasons
  <2>5. /\ first.stop = row.stop /\ first.partial = row.partial
        /\ row.partial = FALSE /\ row.reason = "none"
    OBVIOUS
  <2> HIDE DEF first, row
  <2> QED BY <2>1, <2>3, <2>4, <2>5
<1>3. cycle \in CycleRecord /\ Waits BY DEF Init, Idle, CycleRecord, Waits
<1>4. /\ counts \in CountRecord /\ peak \in [Positions -> Int]
      /\ slices \in [Positions -> Nat] /\ shut \in BOOLEAN
      /\ told \subseteq Positions /\ lost \subseteq Positions
      /\ \A p \in Positions : peak[p] = 0 /\ slices[p] = 0
  <2>1. [faults |-> 0, restarts |-> 0, levels |-> 0] \in CountRecord
    BY <1>1 DEF CountRecord
  <2>2. counts \in CountRecord BY <2>1 DEF Init
  <2>3. /\ peak = [p \in Positions |-> 0] /\ slices = [p \in Positions |-> 0]
        /\ told = {} /\ lost = {}
    BY DEF Init
  <2>4. shut \in BOOLEAN
    <3>1. shut = FALSE BY DEF Init
    <3> QED BY <3>1, Zenon
  <2>5. /\ peak \in [Positions -> Int] /\ slices \in [Positions -> Nat]
        /\ \A p \in Positions : peak[p] = 0 /\ slices[p] = 0
    BY <2>3
  <2> QED BY <2>2, <2>3, <2>4, <2>5
<1>5. TypeOK BY <1>2, <1>3, <1>4, Types
<1>6. \A p \in Positions : Sound(p) BY <1>1, <1>2, <1>4 DEF Sound
<1> QED BY <1>3, <1>5, <1>6 DEF Kept

LEMMA GuardStep == ASSUME Kept, Next PROVE Result
<1>1. CASE CycleStart BY <1>1, StartKept
<1>2. CASE CycleEnd BY <1>2, EndKept
<1>3. CASE MarketTurns BY <1>3, MarketKept
<1>4. CASE Restart BY <1>4, RestartKept
<1>5. CASE \E p \in Positions : Guard(p) \/ SetLevel(p) \/ OwnerClose(p)
  <2>1. PICK p \in Positions : Guard(p) \/ SetLevel(p) \/ OwnerClose(p) BY <1>5
  <2>2. CASE JudgeGone(p) \/ JudgeHeld(p) \/ JudgeKill(p) BY <2>2, JudgedKept
  <2>3. CASE JudgeHit(p) BY <2>3, HitKept
  <2>4. CASE JudgeOn(p) BY <2>4, OnKept
  <2>5. CASE TrailStop(p) BY <2>5, TrailKept
  <2>6. CASE SmartExit(p) \/ TimeStop(p) BY <2>6, ExitKept
  <2>7. CASE SetLevel(p) BY <2>7, LevelKept
  <2>8. CASE OwnerClose(p) BY <2>8, OwnerKept
  <2> QED BY <2>1, <2>2, <2>3, <2>4, <2>5, <2>6, <2>7, <2>8 DEF Guard
<1> QED BY <1>1, <1>2, <1>3, <1>4, <1>5 DEF Next

LEMMA Untouched == ASSUME Kept, UNCHANGED vars PROVE Result
<1>1. UNCHANGED <<book, rows, cycle, shut, told, peak, slices, lost, counts>> BY DEF vars
<1>2. Kept' BY <1>1 DEF Kept, TypeOK, Waits, Sound, Open
<1> QED BY <1>1, <1>2 DEF Result, Tightened, Held

LEMMA WatchStep == ASSUME Kept, [WatchNext]_allVars PROVE Result
<1>1. Next \/ UNCHANGED vars BY DEF WatchNext, allVars
<1> QED BY <1>1, GuardStep, Untouched

LEMMA AlwaysKept == WatchSpec => []Kept
<1>1. WatchInit => Kept BY InitKept DEF WatchInit
<1>2. Kept /\ [WatchNext]_allVars => Kept' BY WatchStep DEF Result
<1> QED BY <1>1, <1>2, PTL DEF WatchSpec

\* The stop of a position the guard watches is in the book what it is in the
\* row, and no lower than the rung the position has reached, and one slice is
\* taken of it: across the cycles of guard_once, the owner's levels and closes
\* and rehydrate_book, for every trigger, trail, feed and set of levels.
THEOREM StopsAlwaysKept == WatchSpec => []StopsKept
BY AlwaysKept, KeptGives, PTL

\* guard_once moves a stop to tighten it, below the price that moved it, and a
\* cycle that began with the market shut closes, slices and moves nothing.
THEOREM CycleAlwaysSteps == WatchSpec => CycleSteps
<1>1. Kept /\ [WatchNext]_allVars =>
          [\A p \in DOMAIN book \cap DOMAIN book' :
              cycle' # cycle /\ counts'.restarts = counts.restarts
              /\ book'[p].stop # book[p].stop
                 => /\ book'[p].stop > book[p].stop
                    /\ \/ book'[p].stop < book'[p].mark
                       \/ counts'.faults > counts.faults]_vars
  BY WatchStep DEF Result, Tightened
<1>2. Kept /\ [WatchNext]_allVars =>
          [cycle.blocked /\ cycle' # cycle /\ counts'.restarts = counts.restarts
              => /\ rows' = rows
                 /\ \A p \in DOMAIN book :
                       /\ p \in DOMAIN book'
                       /\ book'[p].stop = book[p].stop]_vars
  BY WatchStep DEF Result, Held
<1>3. WatchSpec => []Kept /\ [][WatchNext]_allVars BY AlwaysKept DEF WatchSpec
<1>4. WatchSpec => StopTightens BY <1>1, <1>3, PTL DEF StopTightens
<1>5. WatchSpec => HeldWhileShut BY <1>2, <1>3, PTL DEF HeldWhileShut
<1> QED BY <1>4, <1>5 DEF CycleSteps

(***************************************************************************)
(* A short in the mirror image of a market                                 *)
(***************************************************************************)
LEMMA Mirrored ==
    ASSUME NEW p \in E!PosType, NEW m \in E!MarketType
    PROVE  /\ E!Other(p) \in E!PosType /\ E!Mirror(m) \in E!MarketType
           /\ E!Other(p).side = IF p.side = "BUY" THEN "SELL" ELSE "BUY"
           /\ E!Other(p).gain = p.gain /\ E!Other(p).stop = p.stop
           /\ E!Other(p).age = p.age
           /\ E!Mirror(m).ema = -m.ema /\ E!Mirror(m).st = -m.st
           /\ E!Mirror(m).macd = -m.macd /\ E!Mirror(m).rsi = 100 - m.rsi
           /\ E!Mirror(m).known = m.known /\ E!Mirror(m).adx = m.adx
           /\ E!Mirror(m).atr = m.atr /\ E!Mirror(m).vol = m.vol
           /\ E!Mirror(m).news = m.news /\ E!Mirror(m).opp = m.opp
           /\ E!Mirror(m).dd = m.dd
<1>1. E!Other(p) = [p EXCEPT !.side = IF p.side = "BUY" THEN "SELL" ELSE "BUY"]
  BY DEF E!Other
<1>2. E!Mirror(m) = [m EXCEPT !.ema = -m.ema, !.st = -m.st, !.macd = -m.macd,
                              !.rsi = 100 - m.rsi]
  BY DEF E!Mirror
<1>3. /\ E!Other(p) \in E!PosType
      /\ E!Other(p).side = IF p.side = "BUY" THEN "SELL" ELSE "BUY"
      /\ E!Other(p).gain = p.gain /\ E!Other(p).stop = p.stop
      /\ E!Other(p).age = p.age
  BY <1>1 DEF E!PosType
<1>4. /\ -m.ema \in Int /\ -m.st \in Int /\ -m.macd \in Int /\ 100 - m.rsi \in Int
  BY DEF E!MarketType
<1>5. E!Mirror(m) \in E!MarketType BY <1>2, <1>4 DEF E!MarketType
<1>6. /\ E!Mirror(m).ema = -m.ema /\ E!Mirror(m).st = -m.st
      /\ E!Mirror(m).macd = -m.macd /\ E!Mirror(m).rsi = 100 - m.rsi
      /\ E!Mirror(m).known = m.known /\ E!Mirror(m).adx = m.adx
      /\ E!Mirror(m).atr = m.atr /\ E!Mirror(m).vol = m.vol
      /\ E!Mirror(m).news = m.news /\ E!Mirror(m).opp = m.opp
      /\ E!Mirror(m).dd = m.dd
  BY <1>2 DEF E!MarketType
<1> QED BY <1>3, <1>5, <1>6

\* what an indicator says to a long its opposite says to a short
LEMMA Sides ==
    ASSUME NEW p \in E!PosType, NEW x \in Int
    PROVE  /\ E!Favours(E!Other(p), -x) <=> E!Favours(p, x)
           /\ E!Against(E!Other(p), -x) <=> E!Against(p, x)
<1>1. /\ E!Other(p).side = IF p.side = "BUY" THEN "SELL" ELSE "BUY"
      /\ p.side \in {"BUY", "SELL"}
  BY DEF E!Other, E!PosType
<1>2. E!Sign(E!Other(p).side) = -E!Sign(p.side) /\ E!Sign(p.side) \in {1, -1}
  BY <1>1 DEF E!Sign
<1> QED BY <1>2 DEF E!Favours, E!Against

LEMMA SameScore ==
    ASSUME NEW p \in E!PosType, NEW m \in E!MarketType, NEW s \in E!PolicyType, m.ema # 0
    PROVE  E!Score(E!Other(p), E!Mirror(m), s) = E!Score(p, m, s)
<1> DEFINE q == E!Other(p)
           n == E!Mirror(m)
<1>1. /\ q.side = IF p.side = "BUY" THEN "SELL" ELSE "BUY"
      /\ q.gain = p.gain /\ q.stop = p.stop /\ q.age = p.age
      /\ n.ema = -m.ema /\ n.st = -m.st /\ n.macd = -m.macd /\ n.rsi = 100 - m.rsi
      /\ n.known = m.known /\ n.adx = m.adx /\ n.atr = m.atr /\ n.vol = m.vol
      /\ n.news = m.news /\ n.opp = m.opp /\ n.dd = m.dd
  BY Mirrored
<1>2. /\ p.side \in {"BUY", "SELL"} /\ m.rsi \in Int /\ m.ema \in Int
      /\ m.st \in Int /\ m.macd \in Int
  BY DEF E!PosType, E!MarketType
<1>3. /\ E!Favours(q, n.ema) <=> E!Favours(p, m.ema)
      /\ E!Against(q, n.st) <=> E!Against(p, m.st)
      /\ E!Favours(q, n.macd) <=> E!Favours(p, m.macd)
      /\ E!Against(q, n.macd) <=> E!Against(p, m.macd)
  BY <1>1, <1>2, Sides
<1> HIDE DEF q, n
<1>4. E!Strength(q, n) = E!Strength(p, m) BY <1>1, <1>2 DEF E!Strength
<1>5. E!Trend(q, n) = E!Trend(p, m) BY <1>1, <1>3 DEF E!Trend
<1>6. E!Momentum(q, n) = E!Momentum(p, m) BY <1>3, <1>4 DEF E!Momentum
<1>7. (n.ema > 0) = (q.side = "BUY") <=> (m.ema > 0) = (p.side = "BUY")
  <2>1. n.ema > 0 <=> ~(m.ema > 0) BY <1>1, <1>2
  <2>2. q.side = "BUY" <=> ~(p.side = "BUY") BY <1>1, <1>2
  <2>3. /\ (n.ema > 0) \in BOOLEAN /\ (m.ema > 0) \in BOOLEAN
        /\ (q.side = "BUY") \in BOOLEAN /\ (p.side = "BUY") \in BOOLEAN
    OBVIOUS
  <2> QED BY <2>1, <2>2, <2>3
<1>8. E!Regime(q, n) = E!Regime(p, m) BY <1>1, <1>7 DEF E!Regime
<1>9. /\ E!Volume(n) = E!Volume(m) /\ E!News(n) = E!News(m)
      /\ E!Volatility(n) = E!Volatility(m) /\ E!Exposure(n) = E!Exposure(m)
      /\ E!Holding(q, s) = E!Holding(p, s)
  BY <1>1 DEF E!Volume, E!News, E!Volatility, E!Exposure, E!Holding
<1>10. E!Score(q, n, s) = E!Score(p, m, s)
  BY <1>1, <1>5, <1>6, <1>8, <1>9 DEF E!Score
<1> QED BY <1>10 DEF q, n

LEMMA SameAdvice ==
    ASSUME NEW p \in E!PosType, NEW m \in E!MarketType, NEW s \in E!PolicyType, m.ema # 0
    PROVE  E!Recommendation(E!Other(p), E!Mirror(m), s) = E!Recommendation(p, m, s)
<1> DEFINE q == E!Other(p)
           n == E!Mirror(m)
<1>1. /\ q.gain = p.gain /\ q.stop = p.stop /\ q.age = p.age
      /\ n.ema = -m.ema /\ n.macd = -m.macd
      /\ n.known = m.known /\ n.adx = m.adx /\ n.atr = m.atr
      /\ n.news = m.news /\ n.opp = m.opp
  BY Mirrored
<1>2. m.ema \in Int /\ m.macd \in Int BY DEF E!MarketType
<1>3. /\ E!Against(q, n.ema) <=> E!Against(p, m.ema)
      /\ E!Against(q, n.macd) <=> E!Against(p, m.macd)
  BY <1>1, <1>2, Sides
<1>4. E!Score(q, n, s) = E!Score(p, m, s) BY SameScore
<1> HIDE DEF q, n
<1>5. \A r : E!AtLeastR(q, r) <=> E!AtLeastR(p, r)
  BY <1>1 DEF E!AtLeastR, E!RDistance
<1>6. E!LeftBehind(q, s) <=> E!LeftBehind(p, s) BY <1>1, <1>5 DEF E!LeftBehind
<1>7. E!Votes(q, n, s) = E!Votes(p, m, s)
  <2>1. \A v \in {"trend", "adx", "momentum", "edge"} :
            (CASE v = "trend" -> n.known /\ E!Against(q, n.ema)
               [] v = "adx" -> n.adx \in 1..19
               [] v = "momentum" -> E!Against(q, n.macd)
               [] v = "edge" -> n.opp < s.reversalOpp)
            <=>
            (CASE v = "trend" -> m.known /\ E!Against(p, m.ema)
               [] v = "adx" -> m.adx \in 1..19
               [] v = "momentum" -> E!Against(p, m.macd)
               [] v = "edge" -> m.opp < s.reversalOpp)
    BY <1>1, <1>3
  <2> QED BY <2>1 DEF E!Votes
<1>8. E!Spike(n, s) <=> E!Spike(m, s) BY <1>1 DEF E!Spike
<1>9. E!NewsExit(q, n, s) <=> E!NewsExit(p, m, s) BY <1>1, <1>5 DEF E!NewsExit
<1>10. E!Rounded(E!Score(q, n, s)) = E!Rounded(E!Score(p, m, s)) BY <1>4
<1>11. E!Recommendation(q, n, s) = E!Recommendation(p, m, s)
  BY <1>5, <1>6, <1>7, <1>8, <1>9, <1>10 DEF E!Recommendation
<1> QED BY <1>11 DEF q, n

(***************************************************************************)
(* A position left behind                                                  *)
(***************************************************************************)
LEMMA FreedInTime ==
    ASSUME NEW p \in E!PosType, NEW m \in E!MarketType, NEW s \in E!PolicyType,
           s.behindMult > 0, s.maxHold > 0, p.age > s.maxHold,
           s.behindR >= 0, ~E!AtLeastR(p, s.behindR)
    PROVE  E!Recommendation(p, m, s) = "CLOSE"
<1>1. s.maxHold \in Int /\ s.behindMult \in Int /\ s.behindFloor \in Int /\ p.age \in Int
      /\ s.behindFloor > 0
  BY DEF E!PolicyType, E!PosType
<1> DEFINE days == E!Higher((E!Higher(5, AvgHold) * s.behindMult) \div 100, s.behindFloor)
<1>2. days \in Int /\ days > 0
  <2>1. (E!Higher(5, AvgHold) * s.behindMult) \div 100 \in Int BY <1>1, WatchAssumption DEF E!Higher
  <2> QED BY <1>1, <2>1 DEF E!Higher
<1>3. E!BehindDays(s) = IF days <= s.maxHold THEN days ELSE s.maxHold
  BY <1>1, <1>2 DEF E!BehindDays, E!Lower
<1> HIDE DEF days
<1>4. E!BehindDays(s) > 0 /\ p.age > E!BehindDays(s) BY <1>1, <1>2, <1>3
<1>5. E!LeftBehind(p, s) BY <1>4 DEF E!LeftBehind
<1> QED BY <1>5 DEF E!Recommendation

(***************************************************************************)
(* What worsens                                                            *)
(***************************************************************************)
\* a lower score, an older position and no better a case against an exit
Worse(p, m, q, n, s) ==
    /\ E!Score(q, n, s) <= E!Score(p, m, s)
    /\ \A r \in Int : E!AtLeastR(q, r) <=> E!AtLeastR(p, r)
    /\ E!LeftBehind(p, s) => E!LeftBehind(q, s)
    /\ m.news = "DANGER" => n.news = "DANGER"
    /\ E!Votes(p, m, s) >= 2 => E!Votes(q, n, s) >= 2
    /\ E!Spike(n, s) <=> E!Spike(m, s)

LEMMA RoundsUpwards ==
    ASSUME NEW x \in Int, NEW y \in Int, x <= y
    PROVE  /\ E!Rounded(x) \in Int /\ E!Rounded(y) \in Int
           /\ E!Rounded(x) <= E!Rounded(y)
<1> DEFINE dx == IF x \in HalvesUp THEN 5 ELSE 4
           dy == IF y \in HalvesUp THEN 5 ELSE 4
<1>1. dx \in 4..5 /\ dy \in 4..5 /\ (x = y => dx = dy) OBVIOUS
<1>2. E!Rounded(x) = 10 * ((x + dx) \div 10) /\ E!Rounded(y) = 10 * ((y + dy) \div 10)
  BY DEF E!Rounded
<1> HIDE DEF dx, dy
<1>3. x + dx <= y + dy /\ x + dx \in Int /\ y + dy \in Int BY <1>1
<1> DEFINE a == x + dx
           b == y + dy
<1>4. a \div 10 \in Int /\ b \div 10 \in Int /\ a \div 10 <= b \div 10
  <2> HIDE DEF a, b
  <2> QED BY <1>3 DEF a, b
<1> QED BY <1>2, <1>4

LEMMA Ranked ==
    ASSUME NEW p \in E!PosType, NEW m \in E!MarketType, NEW s \in E!PolicyType,
           NEW q \in E!PosType, NEW n \in E!MarketType, Worse(p, m, q, n, s),
           E!Score(p, m, s) \in Int, E!Score(q, n, s) \in Int
    PROVE  E!Rank(E!Recommendation(q, n, s)) >= E!Rank(E!Recommendation(p, m, s))
<1>1. /\ s.exitClose \in Int /\ s.protectR \in Int /\ s.newsR \in Int
      /\ p.gain \in Int /\ p.stop \in Int
  BY DEF E!PolicyType, E!PosType
<1>2. s.protectR > 10 /\ E!AtLeastR(p, s.protectR) => E!AtLeastR(p, 10)
  <2>1. E!RDistance(p) \in Nat BY <1>1 DEF E!RDistance, E!Width
  <2>2. s.protectR > 10 => s.protectR * E!RDistance(p) >= 10 * E!RDistance(p)
    BY <1>1, <2>1
  <2> QED BY <1>1, <2>1, <2>2 DEF E!AtLeastR
<1> DEFINE close(x, y) == \/ E!LeftBehind(x, s)
                          \/ E!NewsExit(x, y, s)
                          \/ E!Votes(x, y, s) >= 2
<1>3. close(p, m) => close(q, n) BY <1>1 DEF Worse, E!NewsExit
<1> DEFINE advice(x, y, score) ==
            IF close(x, y) THEN "CLOSE"
            ELSE IF score < 100 * s.exitClose
            THEN IF E!AtLeastR(x, 10) THEN "PARTIAL_50" ELSE "CLOSE"
            ELSE IF E!Spike(y, s)
            THEN IF E!AtLeastR(x, 10) THEN "PARTIAL_50" ELSE "PARTIAL_25"
            ELSE IF s.protectR > 0 /\ E!AtLeastR(x, s.protectR) /\ score < 6500
            THEN "PARTIAL_50"
            ELSE IF s.protectR > 0 /\ E!AtLeastR(x, 10) /\ score < 4500
            THEN "MOVE_SL"
            ELSE "HOLD"
<1> DEFINE high == E!Rounded(E!Score(p, m, s))
           low == E!Rounded(E!Score(q, n, s))
<1>4. /\ E!Recommendation(p, m, s) = advice(p, m, high)
      /\ E!Recommendation(q, n, s) = advice(q, n, low)
  BY DEF E!Recommendation
<1> HIDE DEF close, high, low
<1>5. /\ low <= high /\ low \in Int /\ high \in Int
      /\ E!AtLeastR(q, 10) <=> E!AtLeastR(p, 10)
      /\ E!AtLeastR(q, s.protectR) <=> E!AtLeastR(p, s.protectR)
      /\ E!Spike(n, s) <=> E!Spike(m, s)
  BY <1>1, RoundsUpwards DEF Worse, high, low
<1> QED BY <1>1, <1>3, <1>4, <1>5 DEF E!Rank

LEMMA Factors ==
    ASSUME NEW p \in E!PosType, NEW m \in E!MarketType, NEW s \in E!PolicyType
    PROVE  /\ E!Trend(p, m) \in Int /\ E!Momentum(p, m) \in Int /\ E!Regime(p, m) \in Int
           /\ E!News(m) \in Int /\ E!Holding(p, s) \in Int /\ E!Volatility(m) \in Int
           /\ E!Volume(m) \in Int /\ E!Exposure(m) \in Int
           /\ E!Score(p, m, s) \in Int
<1>1. E!Trend(p, m) \in Int BY DEF E!Trend
<1>2. E!Momentum(p, m) \in Int BY DEF E!Momentum
<1>3. E!Regime(p, m) \in Int BY DEF E!Regime
<1>4. E!News(m) \in Int BY DEF E!News, E!MarketType
<1>5. E!Holding(p, s) \in Int BY DEF E!Holding
<1>6. E!Volatility(m) \in Int BY DEF E!Volatility
<1>7. E!Volume(m) \in Int BY DEF E!Volume
<1>8. E!Exposure(m) \in Int BY DEF E!Exposure
<1>9. m.opp \in Int BY DEF E!MarketType
<1>10. E!Score(p, m, s) \in Int
  BY <1>1, <1>2, <1>3, <1>4, <1>5, <1>6, <1>7, <1>8, <1>9 DEF E!Score
<1> QED BY <1>1, <1>2, <1>3, <1>4, <1>5, <1>6, <1>7, <1>8, <1>10

LEMMA Older ==
    ASSUME NEW p \in E!PosType, NEW m \in E!MarketType, NEW s \in E!PolicyType,
           NEW q \in E!PosType, q.side = p.side, q.gain = p.gain, q.stop = p.stop,
           q.age >= p.age
    PROVE  Worse(p, m, q, m, s)
<1>1. /\ p.age \in Int /\ q.age \in Int /\ s.maxHold \in Int
  BY DEF E!PosType, E!PolicyType
<1>2. E!Holding(q, s) <= E!Holding(p, s) BY <1>1 DEF E!Holding
<1>3. /\ \A x : E!Favours(q, x) <=> E!Favours(p, x)
      /\ \A x : E!Against(q, x) <=> E!Against(p, x)
  BY DEF E!Favours, E!Against
<1>4. E!Strength(q, m) = E!Strength(p, m) BY DEF E!Strength
<1>5. /\ E!Trend(q, m) = E!Trend(p, m) /\ E!Momentum(q, m) = E!Momentum(p, m)
      /\ E!Regime(q, m) = E!Regime(p, m)
  BY <1>3, <1>4 DEF E!Trend, E!Momentum, E!Regime
<1>6. E!Score(q, m, s) <= E!Score(p, m, s)
  <2>1. m.opp \in Int BY DEF E!MarketType
  <2> QED BY <1>2, <1>5, <2>1, Factors DEF E!Score
<1>7. \A r : E!AtLeastR(q, r) <=> E!AtLeastR(p, r) BY DEF E!AtLeastR, E!RDistance
<1>8. E!LeftBehind(p, s) => E!LeftBehind(q, s)
  <2>1. E!BehindDays(s) \in Int
    <3>1. /\ s.behindMult \in Int /\ s.behindFloor \in Int /\ s.maxHold \in Int
      BY DEF E!PolicyType
    <3>2. (E!Higher(5, AvgHold) * s.behindMult) \div 100 \in Int BY <3>1, WatchAssumption DEF E!Higher
    <3> QED BY <3>1, <3>2 DEF E!BehindDays, E!Higher, E!Lower
  <2> QED BY <1>1, <1>7, <2>1 DEF E!LeftBehind
<1>9. E!Votes(q, m, s) = E!Votes(p, m, s) BY <1>3 DEF E!Votes
<1> QED BY <1>6, <1>7, <1>8, <1>9 DEF Worse

LEMMA MoreVotes ==
    ASSUME NEW X, NEW Y, X \subseteq Y, Y \subseteq {"trend", "adx", "momentum", "edge"},
           E!Cardinality(X) >= 2
    PROVE  E!Cardinality(Y) >= 2
<1>1. \A Z : E!Cardinality(Z) = Cardinality(Z) BY DEF E!Cardinality, Cardinality
<1>2. IsFiniteSet({"trend", "adx", "momentum", "edge"})
  <2>1. /\ IsFiniteSet({"trend"}) /\ IsFiniteSet({"adx"})
        /\ IsFiniteSet({"momentum"}) /\ IsFiniteSet({"edge"})
    BY FS_Singleton
  <2>2. IsFiniteSet({"trend"} \cup {"adx"}) BY <2>1, FS_Union
  <2>3. IsFiniteSet({"momentum"} \cup {"edge"}) BY <2>1, FS_Union
  <2>4. IsFiniteSet(({"trend"} \cup {"adx"}) \cup ({"momentum"} \cup {"edge"}))
    BY <2>2, <2>3, FS_Union
  <2>5. ({"trend"} \cup {"adx"}) \cup ({"momentum"} \cup {"edge"})
           = {"trend", "adx", "momentum", "edge"}
    OBVIOUS
  <2> QED BY <2>4, <2>5
<1>3. IsFiniteSet(Y) BY <1>2, FS_Subset
<1>4. /\ Cardinality(X) \in Nat /\ Cardinality(Y) \in Nat
      /\ Cardinality(X) <= Cardinality(Y)
  BY <1>3, FS_Subset, FS_CardinalityType
<1> QED BY <1>1, <1>4

LEMMA Darker ==
    ASSUME NEW p \in E!PosType, NEW m \in E!MarketType, NEW s \in E!PolicyType,
           NEW n \in E!MarketType, n.known = m.known, n.ema = m.ema, n.st = m.st,
           n.adx = m.adx, n.rsi = m.rsi, n.macd = m.macd, n.atr = m.atr, n.vol = m.vol,
           n.opp <= m.opp, m.dd <= n.dd, m.news = "DANGER" => n.news = "DANGER",
           m.news = "CAUTION" => n.news # "SAFE"
    PROVE  Worse(p, m, p, n, s)
<1>1. /\ m.opp \in Int /\ n.opp \in Int /\ m.dd \in Int /\ n.dd \in Int
      /\ m.news \in {"SAFE", "CAUTION", "DANGER"} /\ n.news \in {"SAFE", "CAUTION", "DANGER"}
      /\ s.reversalOpp \in Int
  BY DEF E!MarketType, E!PolicyType
<1>2. E!News(n) <= E!News(m) BY <1>1 DEF E!News
<1>3. E!Exposure(n) <= E!Exposure(m) BY <1>1 DEF E!Exposure
<1>4. E!Strength(p, n) = E!Strength(p, m) BY DEF E!Strength
<1>5. /\ E!Trend(p, n) = E!Trend(p, m) /\ E!Momentum(p, n) = E!Momentum(p, m)
      /\ E!Regime(p, n) = E!Regime(p, m) /\ E!Volume(n) = E!Volume(m)
      /\ E!Volatility(n) = E!Volatility(m)
  BY <1>4 DEF E!Trend, E!Momentum, E!Regime, E!Volume, E!Volatility
<1>6. E!Score(p, n, s) <= E!Score(p, m, s)
  <2>1. /\ E!Trend(p, m) \in Int /\ E!Momentum(p, m) \in Int /\ E!Regime(p, m) \in Int
        /\ E!News(m) \in Int /\ E!Holding(p, s) \in Int /\ E!Volatility(m) \in Int
        /\ E!Volume(m) \in Int /\ E!Exposure(m) \in Int
    BY Factors
  <2>2. E!News(n) \in Int /\ E!Exposure(n) \in Int BY Factors
  <2> QED BY <1>1, <1>2, <1>3, <1>5, <2>1, <2>2 DEF E!Score
<1>7. E!Votes(p, m, s) >= 2 => E!Votes(p, n, s) >= 2
  <2> DEFINE V(x) == {v \in {"trend", "adx", "momentum", "edge"} :
                        CASE v = "trend" -> x.known /\ E!Against(p, x.ema)
                          [] v = "adx" -> x.adx \in 1..19
                          [] v = "momentum" -> E!Against(p, x.macd)
                          [] v = "edge" -> x.opp < s.reversalOpp}
  <2>1. E!Votes(p, m, s) = E!Cardinality(V(m)) /\ E!Votes(p, n, s) = E!Cardinality(V(n))
    BY DEF E!Votes
  <2>2. V(m) \subseteq V(n) BY <1>1
  <2>3. V(n) \subseteq {"trend", "adx", "momentum", "edge"} OBVIOUS
  <2> HIDE DEF V
  <2> QED BY <2>1, <2>2, <2>3, MoreVotes
<1>8. E!Spike(n, s) <=> E!Spike(m, s) BY DEF E!Spike
<1> QED BY <1>6, <1>7, <1>8 DEF Worse

(***************************************************************************)
(* The bench of the smart exit                                             *)
(***************************************************************************)
ExitTypes == pos \in E!PosType /\ market \in E!MarketType /\ policy \in E!PolicyType

LEMMA ExitStart == E!Init => ExitTypes
BY WatchAssumption DEF E!Init, ExitTypes

LEMMA ExitStep ==
    ASSUME ExitTypes, E!Next
    PROVE  /\ ExitTypes'
           /\ policy' = policy
           /\ pos'.stop = pos.stop => Worse(pos, market, pos', market', policy)
<1>0. pos \in E!PosType /\ market \in E!MarketType /\ policy \in E!PolicyType
  BY DEF ExitTypes
<1>1. CASE E!DaysPass
  <2>1. pos' = [pos EXCEPT !.age = @ + 20] /\ UNCHANGED <<market, policy>>
    BY <1>1 DEF E!DaysPass
  <2>2. /\ pos' \in E!PosType /\ pos'.side = pos.side /\ pos'.gain = pos.gain
        /\ pos'.stop = pos.stop /\ pos'.age >= pos.age
    BY <1>0, <2>1 DEF E!PosType
  <2>3. Worse(pos, market, pos', market, policy) BY <1>0, <2>2, Older
  <2> QED BY <1>0, <2>1, <2>2, <2>3 DEF ExitTypes
<1>2. CASE E!StopTrails
  <2>1. /\ pos' = [pos EXCEPT !.stop = IF @ < 0 THEN 0 ELSE pos.gain - pos.width]
        /\ pos.stop < pos.gain - pos.width /\ UNCHANGED <<market, policy>>
    BY <1>2 DEF E!StopTrails
  <2>2. pos' \in E!PosType /\ pos'.stop # pos.stop BY <1>0, <2>1 DEF E!PosType
  <2> QED BY <1>0, <2>1, <2>2 DEF ExitTypes
<1>3. CASE E!NewsBreaks \/ E!EdgeFades \/ E!LossesMount
  <2>1. UNCHANGED <<pos, policy>> BY <1>3 DEF E!NewsBreaks, E!EdgeFades, E!LossesMount
  <2>2. /\ market' \in E!MarketType /\ market'.known = market.known
        /\ market'.ema = market.ema /\ market'.st = market.st /\ market'.adx = market.adx
        /\ market'.rsi = market.rsi /\ market'.macd = market.macd
        /\ market'.atr = market.atr /\ market'.vol = market.vol
        /\ market'.opp <= market.opp /\ market.dd <= market'.dd
        /\ market.news = "DANGER" => market'.news = "DANGER"
        /\ market.news = "CAUTION" => market'.news # "SAFE"
    <3>1. CASE E!NewsBreaks
      BY <1>0, <3>1 DEF E!NewsBreaks, E!MarketType
    <3>2. CASE E!EdgeFades
      BY <1>0, <3>2 DEF E!EdgeFades, E!MarketType
    <3>3. CASE E!LossesMount
      BY <1>0, <3>3 DEF E!LossesMount, E!MarketType
    <3> QED BY <1>3, <3>1, <3>2, <3>3
  <2>3. Worse(pos, market, pos, market', policy) BY <1>0, <2>2, Darker
  <2> QED BY <1>0, <2>1, <2>2, <2>3 DEF ExitTypes
<1> QED BY <1>1, <1>2, <1>3 DEF E!Next

LEMMA AlwaysTyped == WatchSpec => []ExitTypes
<1>1. WatchInit => ExitTypes BY ExitStart DEF WatchInit
<1>2. ExitTypes /\ [WatchNext]_allVars => ExitTypes'
  <2> SUFFICES ASSUME ExitTypes, [WatchNext]_allVars PROVE ExitTypes'
    OBVIOUS
  <2>1. E!Next \/ UNCHANGED exitVars BY DEF WatchNext, allVars
  <2>2. CASE UNCHANGED exitVars BY <2>2 DEF exitVars, ExitTypes
  <2> QED BY <2>1, <2>2, ExitStep
<1> QED BY <1>1, <1>2, PTL DEF WatchSpec

\* A short is judged like a long in the mirror image of its market, and a
\* position that has not earned its keep by the time stop is closed.
THEOREM ExitsAlwaysFair == WatchSpec => []ExitsFair
<1>1. ExitTypes => ExitsFair
  <2> SUFFICES ASSUME ExitTypes PROVE ExitsFair
    OBVIOUS
  <2>1. pos \in E!PosType /\ market \in E!MarketType /\ policy \in E!PolicyType
    BY DEF ExitTypes
  <2>2. E!ExitMirrors BY <2>1, SameAdvice DEF E!ExitMirrors, E!Advice
  <2>3. E!NoneLeftBehind BY <2>1, FreedInTime DEF E!NoneLeftBehind, E!Advice
  <2> QED BY <2>2, <2>3 DEF ExitsFair
<1> QED BY <1>1, AlwaysTyped, PTL

\* A longer hold, worse news, a fading edge and a deeper drawdown never talk
\* the engine out of an exit it would have made.
THEOREM WorseAlwaysExits == WatchSpec => WorseNeverHolds
<1>1. ExitTypes /\ [WatchNext]_allVars =>
          [E!vars' # E!vars /\ pos'.stop = pos.stop
              => E!Rank(E!Advice') >= E!Rank(E!Advice)]_(E!vars)
  <2> SUFFICES ASSUME ExitTypes, [WatchNext]_allVars, E!vars' # E!vars,
                      pos'.stop = pos.stop
               PROVE  E!Rank(E!Advice') >= E!Rank(E!Advice)
    OBVIOUS
  <2>1. E!Next BY DEF WatchNext, allVars, exitVars, E!vars
  <2>2. ExitTypes' /\ policy' = policy /\ Worse(pos, market, pos', market', policy)
    BY <2>1, ExitStep
  <2> DEFINE q == pos'
             n == market'
  <2>3. /\ pos \in E!PosType /\ market \in E!MarketType /\ policy \in E!PolicyType
        /\ q \in E!PosType /\ n \in E!MarketType /\ Worse(pos, market, q, n, policy)
    BY <2>2 DEF ExitTypes
  <2>4. E!Advice' = E!Recommendation(q, n, policy)
    BY <2>2 DEF E!Advice
  <2> HIDE DEF q, n
  <2>5. E!Score(pos, market, policy) \in Int /\ E!Score(q, n, policy) \in Int
    BY <2>3, Factors
  <2> QED BY <2>3, <2>4, <2>5, Ranked DEF E!Advice
<1>2. WatchSpec => WorseNeverHolds
  BY <1>1, AlwaysTyped, PTL DEF WatchSpec, WorseNeverHolds, E!WorseNeverHolds
<1> QED BY <1>2

(***************************************************************************)
(* The bench of the candles                                                *)
(***************************************************************************)
Stands == {"queued", "yahoo", "feed", "got", "missed"}
Calls(b) == {a \in DOMAIN b.task : b.task[a].pc \in S!Calling}
Busy(b, now) == {a \in DOMAIN b.task : b.task[a].pc \in S!Calling \/ b.task[a].at = now}

\* a batch that is out has a slot for each of its calls and none to spare while
\* one of its assets is queued; what was stored before it began is out of date
Waiting(b, now, last) ==
    /\ b.since \in Nat /\ b.since <= now /\ b.free \in Nat
    /\ b.asked \subseteq DOMAIN b.out \cup DOMAIN b.task
    /\ IsFiniteSet(DOMAIN b.task)
    /\ \A a \in DOMAIN b.task : /\ b.task[a].pc \in Stands
                                /\ b.task[a].pc = "queued" => b.task[a].at = b.since
    /\ \A a \in DOMAIN b.task \cap DOMAIN last :
            last[a] < b.since => b.since - last[a] >= TTL
    /\ b.free + Cardinality(Calls(b)) = Slots
    /\ (\E a \in DOMAIN b.task : b.task[a].pc = "queued") /\ b.since < now =>
            Cardinality(Busy(b, now)) >= Slots

Batches ==
    /\ DOMAIN candleBatch = SnapCallers
    /\ \A c \in SnapCallers :
        /\ DOMAIN candleBatch[c] = {"pc", "asked", "since", "out", "task", "free"}
        /\ candleBatch[c] = S!Idle \/ (candleBatch[c].pc = "out" /\ Waiting(candleBatch[c], candleClock, stored))

CandleInv ==
    /\ candleClock \in Nat
    /\ candleCache = stored /\ \A a \in DOMAIN stored : stored[a] \in Nat
    /\ Batches
    /\ S!FeedSpared /\ S!MissedForCause

LEMMA Counting ==
    /\ \A X : S!Cardinality(X) = Cardinality(X)
    /\ \A X, x : IsFiniteSet(X) /\ x \notin X =>
            Cardinality(X \cup {x}) = Cardinality(X) + 1
    /\ \A X, x : IsFiniteSet(X) /\ x \in X =>
            Cardinality(X \ {x}) = Cardinality(X) - 1
    /\ \A X, Y : IsFiniteSet(Y) /\ X \subseteq Y =>
            /\ IsFiniteSet(X) /\ Cardinality(X) \in Nat
            /\ Cardinality(X) <= Cardinality(Y)
<1>1. \A X : S!Cardinality(X) = Cardinality(X) BY DEF S!Cardinality, Cardinality
<1>2. \A X, x : IsFiniteSet(X) /\ x \notin X =>
            Cardinality(X \cup {x}) = Cardinality(X) + 1
  BY FS_AddElement
<1>3. \A X, x : IsFiniteSet(X) /\ x \in X =>
            Cardinality(X \ {x}) = Cardinality(X) - 1
  BY FS_RemoveElement
<1>4. \A X, Y : IsFiniteSet(Y) /\ X \subseteq Y =>
            /\ IsFiniteSet(X) /\ Cardinality(X) \in Nat
            /\ Cardinality(X) <= Cardinality(Y)
  BY FS_Subset, FS_CardinalityType
<1> QED BY <1>1, <1>2, <1>3, <1>4

\* one asset of a batch moves on
LEMMA StandDoes ==
    ASSUME Batches, NEW c \in SnapCallers, NEW a \in DOMAIN candleBatch[c].task,
           NEW pc, NEW free, S!Stand(c, a, pc, free)
    PROVE  /\ DOMAIN candleBatch' = SnapCallers
           /\ \A d \in SnapCallers \ {c} : candleBatch'[d] = candleBatch[d]
           /\ DOMAIN candleBatch'[c] = DOMAIN candleBatch[c]
           /\ candleBatch'[c].pc = candleBatch[c].pc
           /\ candleBatch'[c].asked = candleBatch[c].asked
           /\ candleBatch'[c].since = candleBatch[c].since
           /\ candleBatch'[c].out = candleBatch[c].out
           /\ candleBatch'[c].free = free
           /\ DOMAIN candleBatch'[c].task = DOMAIN candleBatch[c].task
           /\ candleBatch'[c].task[a] = [pc |-> pc, at |-> candleClock]
           /\ \A x \in DOMAIN candleBatch[c].task \ {a} :
                candleBatch'[c].task[x] = candleBatch[c].task[x]
<1> DEFINE b == candleBatch[c]
           moved == [b.task EXCEPT ![a] = [pc |-> pc, at |-> candleClock]]
           b1 == [b EXCEPT !.task = moved]
           b2 == [b1 EXCEPT !.free = free]
<1>1. candleBatch' = [candleBatch EXCEPT ![c].task[a] = [pc |-> pc, at |-> candleClock],
                                        ![c].free = free]
  BY DEF S!Stand
<1>2. candleBatch' = [candleBatch EXCEPT ![c] = b2]
  BY <1>1 DEF Batches
<1>3. DOMAIN b = {"pc", "asked", "since", "out", "task", "free"} /\ DOMAIN candleBatch = SnapCallers
  BY DEF Batches
<1>4. /\ DOMAIN moved = DOMAIN b.task
      /\ moved[a] = [pc |-> pc, at |-> candleClock]
      /\ \A x \in DOMAIN b.task \ {a} : moved[x] = b.task[x]
  OBVIOUS
<1> HIDE DEF moved
<1>5. /\ DOMAIN b1 = DOMAIN b /\ b1.task = moved /\ b1.pc = b.pc /\ b1.asked = b.asked
      /\ b1.since = b.since /\ b1.out = b.out
  BY <1>3
<1> HIDE DEF b1
<1>6. /\ DOMAIN b2 = DOMAIN b /\ b2.task = moved /\ b2.pc = b.pc /\ b2.asked = b.asked
      /\ b2.since = b.since /\ b2.out = b.out /\ b2.free = free
  BY <1>3, <1>5
<1> HIDE DEF b2
<1>7. /\ DOMAIN candleBatch' = SnapCallers /\ candleBatch'[c] = b2
      /\ \A d \in SnapCallers \ {c} : candleBatch'[d] = candleBatch[d]
  BY <1>2, <1>3
<1> QED BY <1>4, <1>6, <1>7

LEMMA StandKeeps ==
    ASSUME CandleInv, NEW c \in SnapCallers, NEW a \in DOMAIN candleBatch[c].task,
           NEW pc \in Stands \ {"queued"}, NEW free \in Nat, S!Stand(c, a, pc, free),
           candleBatch[c].task[a].pc \in S!Calling \/ pc \in S!Calling,
           free + (IF pc \in S!Calling THEN 1 ELSE 0) =
               candleBatch[c].free
                   + (IF candleBatch[c].task[a].pc \in S!Calling THEN 1 ELSE 0),
           candleClock' = candleClock, stored' = stored
    PROVE  Batches'
<1> DEFINE b == candleBatch[c]
           n == candleBatch'[c]
<1>1. /\ DOMAIN candleBatch' = SnapCallers
      /\ \A d \in SnapCallers \ {c} : candleBatch'[d] = candleBatch[d]
      /\ DOMAIN n = DOMAIN b
      /\ n.pc = b.pc /\ n.asked = b.asked /\ n.since = b.since /\ n.out = b.out
      /\ n.free = free /\ DOMAIN n.task = DOMAIN b.task
      /\ n.task[a] = [pc |-> pc, at |-> candleClock]
      /\ \A x \in DOMAIN b.task \ {a} : n.task[x] = b.task[x]
  BY StandDoes DEF CandleInv
<1>2. a \in DOMAIN b.task /\ b.pc = "out" /\ Waiting(b, candleClock, stored)
  BY DEF CandleInv, Batches, S!Idle, S!None
<1> HIDE DEF n, b
<1>3. Calls(n) = IF pc \in S!Calling THEN Calls(b) \cup {a} ELSE Calls(b) \ {a}
  BY <1>1, <1>2 DEF Calls
<1>4. IsFiniteSet(Calls(b)) /\ Cardinality(Calls(b)) \in Nat
  BY <1>2, Counting DEF Waiting, Calls
<1>5. n.free + Cardinality(Calls(n)) = Slots
  <2>1. a \in Calls(b) <=> b.task[a].pc \in S!Calling
    BY DEF Calls, b
  <2>2. b.free \in Nat /\ b.free + Cardinality(Calls(b)) = Slots
    BY <1>2 DEF Waiting
  <2>3. free + (IF pc \in S!Calling THEN 1 ELSE 0) =
            b.free + (IF a \in Calls(b) THEN 1 ELSE 0)
    BY <2>1 DEF b
  <2>4. a \in Calls(b) => Calls(b) \cup {a} = Calls(b)
    OBVIOUS
  <2>5. a \in Calls(b) \/ pc \in S!Calling
    BY <2>1 DEF b
  <2> QED BY <1>1, <1>3, <1>4, <2>2, <2>3, <2>4, <2>5, Counting
<1>6. Cardinality(Busy(b, candleClock)) <= Cardinality(Busy(n, candleClock))
  <2>1. Busy(b, candleClock) \subseteq Busy(n, candleClock) BY <1>1 DEF Busy
  <2>2. Busy(n, candleClock) \subseteq DOMAIN b.task BY <1>1 DEF Busy
  <2>3. IsFiniteSet(Busy(n, candleClock)) BY <1>2, <2>2, Counting DEF Waiting
  <2> QED BY <2>1, <2>3, Counting
<1>7. Cardinality(Busy(n, candleClock)) \in Nat /\ Cardinality(Busy(b, candleClock)) \in Nat
  <2>1. Busy(n, candleClock) \subseteq DOMAIN b.task /\ Busy(b, candleClock) \subseteq DOMAIN b.task
    BY <1>1 DEF Busy
  <2> QED BY <1>2, <2>1, Counting DEF Waiting
<1>8. \A x \in DOMAIN n.task : /\ n.task[x].pc \in Stands
                               /\ n.task[x].pc = "queued" =>
                                    n.task[x].at = n.since /\ b.task[x].pc = "queued"
  BY <1>1, <1>2 DEF Waiting
<1>9. Waiting(n, candleClock, stored)
  <2>1. (\E x \in DOMAIN n.task : n.task[x].pc = "queued") /\ n.since < candleClock =>
            Cardinality(Busy(n, candleClock)) >= Slots
    BY <1>1, <1>2, <1>6, <1>7, <1>8, WatchAssumption DEF Waiting
  <2> QED BY <1>1, <1>2, <1>5, <1>8, <2>1 DEF Waiting
<1>10. \A d \in SnapCallers \ {c} :
        /\ DOMAIN candleBatch'[d] = {"pc", "asked", "since", "out", "task", "free"}
        /\ \/ candleBatch'[d] = S!Idle
           \/ candleBatch'[d].pc = "out" /\ Waiting(candleBatch'[d], candleClock, stored)
  BY <1>1 DEF CandleInv, Batches
<1>11. DOMAIN n = {"pc", "asked", "since", "out", "task", "free"} /\ n.pc = "out"
  BY <1>1, <1>2 DEF CandleInv, Batches, b
<1>12. \A d \in SnapCallers :
        /\ DOMAIN candleBatch'[d] = {"pc", "asked", "since", "out", "task", "free"}
        /\ \/ candleBatch'[d] = S!Idle
           \/ candleBatch'[d].pc = "out" /\ Waiting(candleBatch'[d], candleClock', stored')
  BY <1>9, <1>10, <1>11 DEF n
<1> QED BY <1>1, <1>12 DEF Batches

\* what the stamp of an answer does to the asset's batch: nothing for the worse
LEMMA Later ==
    ASSUME NEW b, NEW now \in Nat, NEW now2 \in Nat, NEW last, NEW last2,
           Waiting(b, now, last), now <= now2,
           now2 = now \/ \A a \in DOMAIN b.task : b.task[a].pc # "queued" \/ b.free = 0,
           \A a \in DOMAIN last2 :
                /\ last2[a] \in Nat
                /\ (a \in DOMAIN last /\ last2[a] = last[a]) \/ last2[a] >= b.since
    PROVE  Waiting(b, now2, last2)
<1>1. /\ b.since \in Nat /\ b.since <= now2 /\ b.free \in Nat
      /\ IsFiniteSet(DOMAIN b.task) /\ b.free + Cardinality(Calls(b)) = Slots
  BY DEF Waiting
<1>2. \A a \in DOMAIN b.task \cap DOMAIN last2 :
            last2[a] < b.since => b.since - last2[a] >= TTL
  BY <1>1 DEF Waiting
<1>3. ASSUME \E a \in DOMAIN b.task : b.task[a].pc = "queued", b.since < now2
      PROVE  Cardinality(Busy(b, now2)) >= Slots
  <2>1. CASE now2 = now BY <1>3, <2>1 DEF Waiting
  <2>2. CASE now2 # now
    <3>1. Calls(b) \subseteq Busy(b, now2) /\ Busy(b, now2) \subseteq DOMAIN b.task
      BY DEF Calls, Busy
    <3>2. /\ Cardinality(Calls(b)) <= Cardinality(Busy(b, now2))
          /\ Cardinality(Calls(b)) \in Nat /\ Cardinality(Busy(b, now2)) \in Nat
      BY <1>1, <3>1, Counting
    <3>3. Cardinality(Calls(b)) = Slots BY <1>1, <1>3, <2>2, <3>2, WatchAssumption
    <3> QED BY <3>2, <3>3, WatchAssumption
  <2> QED BY <2>1, <2>2
<1> QED BY <1>1, <1>2, <1>3 DEF Waiting

LEMMA AskKeeps ==
    ASSUME CandleInv, NEW c \in SnapCallers, NEW want \in SnapWants, S!Ask(c, want)
    PROVE  CandleInv'
<1> DEFINE hits == {a \in want : S!Hit(a)}
           b == [pc |-> "out", asked |-> want, since |-> candleClock,
                 out |-> S!Restrict(candleCache, hits), free |-> Slots,
                 task |-> [a \in want \ hits |-> [pc |-> "queued", at |-> candleClock]]]
<1>1. /\ candleClock \in Nat /\ candleCache = stored
      /\ \A a \in DOMAIN stored : stored[a] \in Nat
      /\ Batches /\ fetches = {}
  BY DEF CandleInv, S!FeedSpared
<1>2. UNCHANGED <<candleClock, candleCache, stored, fetches>>
  BY DEF S!Ask
<1>3. CASE want = hits
  <2>1. answer' = S!Answer(b, b.out) /\ UNCHANGED candleBatch
    BY <1>3, Zenon DEF S!Ask
  <2>2. DOMAIN b.out = want BY <1>3 DEF S!Restrict
  <2>3. answer'.asked = want /\ answer'.out = b.out BY <2>1 DEF S!Answer
  <2>4. S!MissedForCause' BY <2>2, <2>3 DEF S!MissedForCause
  <2> QED BY <1>1, <1>2, <2>1, <2>4 DEF CandleInv, S!FeedSpared, Batches
<1>4. CASE want # hits
  <2>1. candleBatch' = [candleBatch EXCEPT ![c] = b] /\ answer' = S!Unanswered
    BY <1>4, Zenon DEF S!Ask
  <2>2. S!MissedForCause' BY <2>1 DEF S!MissedForCause, S!Unanswered
  <2>3. /\ DOMAIN b = {"pc", "asked", "since", "out", "task", "free"}
        /\ b.pc = "out" /\ b.asked = want /\ b.since = candleClock /\ b.free = Slots
        /\ b.out = S!Restrict(candleCache, hits)
        /\ b.task = [a \in want \ hits |-> [pc |-> "queued", at |-> candleClock]]
    OBVIOUS
  <2> HIDE DEF b
  <2>4. DOMAIN b.out = hits /\ DOMAIN b.task = want \ hits
    BY <2>3 DEF S!Restrict
  <2>5. \A a \in DOMAIN b.task : b.task[a].pc = "queued" /\ b.task[a].at = candleClock
    BY <2>3
  <2>6. b.asked \subseteq DOMAIN b.out \cup DOMAIN b.task
    BY <2>3, <2>4
  <2>7. IsFiniteSet(DOMAIN b.task)
    BY <2>4, WatchAssumption, Counting
  <2>8. Calls(b) = {} BY <2>5 DEF Calls, S!Calling
  <2>9. b.free + Cardinality(Calls(b)) = Slots
    BY <2>3, <2>8, FS_EmptySet, WatchAssumption
  <2>10. \A a \in DOMAIN b.task \cap DOMAIN stored : candleClock - stored[a] >= TTL
    BY <1>1, <2>4, WatchAssumption DEF S!Hit
  <2>11. Waiting(b, candleClock, stored)
    BY <1>1, <2>3, <2>5, <2>6, <2>7, <2>9, <2>10, WatchAssumption DEF Waiting, Stands
  <2>12. Batches'
    <3>1. \A d \in SnapCallers : candleBatch'[d] = IF d = c THEN b ELSE candleBatch[d]
      BY <1>1, <2>1 DEF Batches
    <3>2. DOMAIN candleBatch' = SnapCallers BY <1>1, <2>1 DEF Batches
    <3> QED BY <1>1, <1>2, <2>3, <2>11, <3>1, <3>2 DEF Batches
  <2> QED BY <1>1, <1>2, <2>2, <2>12 DEF CandleInv, S!FeedSpared
<1> QED BY <1>3, <1>4

LEMMA EndsKeeps ==
    ASSUME CandleInv, NEW c \in SnapCallers, S!BatchEnds(c)
    PROVE  CandleInv'
<1> DEFINE b == candleBatch[c]
           got == S!Got(b)
           fetched == [a \in got |-> candleClock]
<1>1. /\ candleClock \in Nat /\ candleCache = stored
      /\ \A a \in DOMAIN stored : stored[a] \in Nat
      /\ Batches /\ fetches = {}
  BY DEF CandleInv, S!FeedSpared
<1>2. /\ b.pc = "out"
      /\ \/ \A a \in DOMAIN b.task : b.task[a].pc \in {"got", "missed"}
         \/ candleClock >= b.since + SnapBudget
      /\ candleCache' = S!Merge(fetched, candleCache)
      /\ stored' = S!Merge(fetched, stored)
      /\ answer' = S!Answer(b, S!Merge(fetched, b.out))
      /\ candleBatch' = [candleBatch EXCEPT ![c] = S!Idle]
      /\ UNCHANGED <<candleClock, fetches>>
  BY DEF S!BatchEnds, S!Stamp
<1>3. Waiting(b, candleClock, stored)
  BY <1>1, <1>2 DEF Batches, S!Idle
<1>4. got = {a \in DOMAIN b.task : b.task[a].pc = "got"} BY DEF S!Got
<1> HIDE DEF b
<1>5. \A f : /\ DOMAIN S!Merge(fetched, f) = got \cup DOMAIN f
             /\ \A a \in DOMAIN S!Merge(fetched, f) :
                    S!Merge(fetched, f)[a] = IF a \in got THEN candleClock ELSE f[a]
  <2> HIDE DEF got
  <2> QED BY DEF S!Merge
<1> HIDE DEF got, fetched
<1>6. candleCache' = stored' /\ \A a \in DOMAIN stored' : stored'[a] \in Nat
  BY <1>1, <1>2, <1>5
<1>7. Batches'
  <2>1. \A d \in SnapCallers : candleBatch'[d] = IF d = c THEN S!Idle ELSE candleBatch[d]
    BY <1>1, <1>2 DEF Batches
  <2>2. DOMAIN candleBatch' = SnapCallers BY <1>1, <1>2 DEF Batches
  <2>3. DOMAIN S!Idle = {"pc", "asked", "since", "out", "task", "free"}
    BY DEF S!Idle
  <2>4. ASSUME NEW d \in SnapCallers, Waiting(candleBatch[d], candleClock, stored)
        PROVE  Waiting(candleBatch[d], candleClock, stored')
    <3>1. candleBatch[d].since <= candleClock BY <2>4 DEF Waiting
    <3>2. \A a \in DOMAIN stored' :
            \/ a \in DOMAIN stored /\ stored'[a] = stored[a]
            \/ stored'[a] >= candleBatch[d].since
      BY <1>2, <1>5, <3>1
    <3> QED BY <1>1, <1>6, <2>4, <3>2, Later
  <2> QED BY <1>1, <1>2, <2>1, <2>2, <2>3, <2>4 DEF Batches
<1>8. S!MissedForCause'
  <2> DEFINE calling == {a \in DOMAIN answer'.task : answer'.task[a].pc \in S!Calling}
             released == {a \in DOMAIN answer'.task : answer'.task[a].at = answer'.at}
  <2>1. /\ answer'.asked = b.asked /\ answer'.at = candleClock /\ answer'.task = b.task
        /\ answer'.out = S!Merge(fetched, b.out)
    BY <1>2 DEF S!Answer
  <2>2. calling \cup released = Busy(b, candleClock) BY <2>1 DEF Busy
  <2>3. ASSUME NEW a \in answer'.asked \ DOMAIN answer'.out,
               answer'.task[a].pc # "missed", a \notin calling
        PROVE  answer'.task[a].pc = "queued" /\ S!Cardinality(calling \cup released) >= Slots
    <3>1. a \in DOMAIN b.task /\ a \notin got
      <4>1. DOMAIN answer'.out = got \cup DOMAIN b.out BY <1>5, <2>1
      <4>2. answer'.asked \subseteq DOMAIN b.out \cup DOMAIN b.task
        BY <1>3, <2>1 DEF Waiting
      <4> QED BY <2>3, <4>1, <4>2
    <3>2. b.task[a].pc = "queued"
      BY <1>3, <1>4, <2>1, <2>3, <3>1 DEF Waiting, Stands, S!Calling
    <3>3. b.since < candleClock
      BY <1>1, <1>2, <1>3, <3>1, <3>2, WatchAssumption DEF Waiting
    <3>4. Cardinality(Busy(b, candleClock)) >= Slots BY <1>3, <3>1, <3>2, <3>3 DEF Waiting
    <3> QED BY <2>1, <2>2, <3>2, <3>4, Counting
  <2> HIDE DEF calling, released
  <2> QED BY <2>3 DEF S!MissedForCause, calling, released
<1> QED BY <1>1, <1>2, <1>6, <1>7, <1>8 DEF CandleInv, S!FeedSpared

LEMMA TaskKeeps ==
    ASSUME CandleInv, NEW c \in SnapCallers, NEW a, answer' = S!Unanswered,
           S!Begin(c, a) \/ S!YahooAnswers(c, a) \/ S!FeedAnswers(c, a)
    PROVE  CandleInv'
<1> DEFINE b == candleBatch[c]
<1>1. /\ candleClock \in Nat /\ candleCache = stored
      /\ \A x \in DOMAIN stored : stored[x] \in Nat
      /\ Batches /\ fetches = {}
  BY DEF CandleInv, S!FeedSpared
<1>2. UNCHANGED <<candleClock, candleCache, stored>> /\ a \in DOMAIN b.task
  BY DEF S!Begin, S!YahooAnswers, S!FeedAnswers, S!At
<1>3. Waiting(b, candleClock, stored)
  BY <1>1, <1>2 DEF Batches, S!Idle, S!None
<1>4. b.free \in Nat BY <1>3 DEF Waiting
<1>5. S!MissedForCause' BY DEF S!MissedForCause, S!Unanswered
<1>6. Batches' /\ fetches' = {}
  <2>1. CASE S!Begin(c, a)
    <3>1. S!Stand(c, a, "yahoo", b.free - 1) /\ b.free - 1 \in Nat /\ b.task[a].pc = "queued"
      BY <1>4, <2>1 DEF S!Begin, S!At
    <3>2. ~S!Spared(c, a)
      BY <1>1, <1>2, <1>3, WatchAssumption DEF S!Spared, Waiting
    <3>3. fetches' = {} BY <1>1, <2>1, <3>2 DEF S!Begin, S!Calls
    <3> QED BY <1>2, <1>4, <3>1, <3>3, StandKeeps DEF Stands, S!Calling
  <2>2. CASE S!YahooAnswers(c, a)
    <3>1. /\ b.task[a].pc = "yahoo" /\ fetches' = {}
          /\ \/ S!Stand(c, a, "feed", b.free) \/ S!Stand(c, a, "got", b.free + 1)
             \/ S!Stand(c, a, "missed", b.free + 1)
      BY <1>1, <2>2 DEF S!YahooAnswers, S!At, S!Release
    <3> QED BY <1>2, <1>4, <3>1, StandKeeps DEF Stands, S!Calling
  <2>3. CASE S!FeedAnswers(c, a)
    <3>1. /\ b.task[a].pc = "feed" /\ fetches' = {}
          /\ S!Stand(c, a, "got", b.free + 1) \/ S!Stand(c, a, "missed", b.free + 1)
      BY <1>1, <2>3 DEF S!FeedAnswers, S!At, S!Release
    <3> QED BY <1>2, <1>4, <3>1, StandKeeps DEF Stands, S!Calling
  <2> QED BY <2>1, <2>2, <2>3
<1> QED BY <1>1, <1>2, <1>5, <1>6 DEF CandleInv, S!FeedSpared

LEMMA TickKeeps ==
    ASSUME CandleInv, answer' = S!Unanswered, S!Tick
    PROVE  CandleInv'
<1>1. /\ candleClock \in Nat /\ candleCache = stored
      /\ \A a \in DOMAIN stored : stored[a] \in Nat
      /\ Batches /\ fetches = {}
  BY DEF CandleInv, S!FeedSpared
<1>2. candleClock' = candleClock + 1
      /\ UNCHANGED <<candleCache, candleBatch, stored, fetches>>
  BY DEF S!Tick
<1>3. ASSUME NEW c \in SnapCallers, candleBatch[c].pc = "out",
             Waiting(candleBatch[c], candleClock, stored)
      PROVE  Waiting(candleBatch[c], candleClock', stored)
  <2>1. \A a \in DOMAIN candleBatch[c].task :
            candleBatch[c].task[a].pc # "queued" \/ candleBatch[c].free = 0
    BY <1>3 DEF S!Tick
  <2>2. candleClock' \in Nat /\ candleClock <= candleClock' BY <1>1, <1>2
  <2> QED BY <1>1, <1>3, <2>1, <2>2, Later
<1>4. Batches' BY <1>1, <1>2, <1>3 DEF Batches
<1>5. S!MissedForCause' BY DEF S!MissedForCause, S!Unanswered
<1> QED BY <1>1, <1>2, <1>4, <1>5 DEF CandleInv, S!FeedSpared

LEMMA CandleStart == S!Init => CandleInv
<1> SUFFICES ASSUME S!Init PROVE CandleInv
  OBVIOUS
<1>1. Batches BY DEF S!Init, Batches, S!Idle
<1>2. S!MissedForCause BY DEF S!Init, S!MissedForCause, S!Unanswered
<1> QED BY <1>1, <1>2 DEF S!Init, CandleInv, S!FeedSpared, S!None

\* A feed is spared what the cache holds, and an asset is missing from an
\* answer because its feeds failed it or the budget cut it off, in a call or
\* behind as many calls as there are slots.
THEOREM CandlesAlwaysOnce == WatchSpec => []CandlesOnce
<1>1. WatchInit => CandleInv BY CandleStart DEF WatchInit
<1>2. CandleInv /\ [WatchNext]_allVars => CandleInv'
  <2> SUFFICES ASSUME CandleInv, [WatchNext]_allVars PROVE CandleInv'
    OBVIOUS
  <2>1. S!Next \/ UNCHANGED candleVars BY DEF WatchNext, allVars
  <2>2. CASE UNCHANGED candleVars
    BY <2>2 DEF candleVars, CandleInv, Batches, S!FeedSpared, S!MissedForCause
  <2>3. ASSUME S!Inward, answer' = S!Unanswered PROVE CandleInv'
    BY <2>3, TaskKeeps, TickKeeps DEF S!Inward
  <2> QED BY <2>1, <2>2, <2>3, AskKeeps, EndsKeeps DEF S!Next
<1>3. CandleInv => CandlesOnce BY DEF CandleInv, CandlesOnce
<1> QED BY <1>1, <1>2, <1>3, PTL DEF WatchSpec

(***************************************************************************)
(* The bench of the spot prices                                            *)
(***************************************************************************)
Market == {"spot", "reused"}
Behind(h, k) == IF k <= h THEN h - k ELSE h - k + Keys

\* the keys a task has tried, when it alone turns them, are the last ones
Turned(t, key) ==
    /\ t.tried = {k \in 0..Keys - 1 : Behind(t.held, k) < t.tries}
    /\ t.tries > 0 => key = IF t.held + 1 = Keys THEN 0 ELSE t.held + 1

\* a task of a batch that began at since
Tasked(a, t, since, known, now) ==
    /\ DOMAIN t = {"pc", "held", "tried", "tries", "price"}
    /\ t.held \in 0..Keys - 1 /\ t.tries \in Nat
    /\ t.price.from \in Market => t.price.print \in Int /\ t.price.print >= since - LiveTTL
    /\ t.pc = "key" \/ t.price.from = "daily" =>
            a \notin DOMAIN known \/ now - known[a].at > LiveTTL

\* a batch that is out: what its prices are and what it may rely on
Asking(b, now, prints, origin, key) ==
    /\ b.since \in Nat /\ b.since <= now /\ now <= b.since + Budget
    /\ b.asked = DOMAIN b.out \cup DOMAIN b.task
    /\ DOMAIN b.out \cap DOMAIN b.task = {}
    /\ \A a \in DOMAIN b.out :
        /\ b.out[a].from \in Market =>
                /\ b.out[a].print \in Int
                /\ b.out[a].print >= b.since - (SpotTTL - 1) - LiveTTL - Budget
        /\ b.alone /\ b.out[a].from = "daily" => a \in DOMAIN origin /\ origin[a] = "daily"
    /\ \A a \in DOMAIN b.known :
        /\ b.known[a].at \in Nat
        /\ a \in DOMAIN prints /\ b.known[a].at <= prints[a].at
    /\ \A a \in DOMAIN b.task :
        /\ Tasked(a, b.task[a], b.since, b.known, now)
        /\ b.alone /\ DOMAIN b.task = {a} => Turned(b.task[a], key)

Resting(b) == b.pc = "idle" /\ DOMAIN b.task = {}

Fields == {"pc", "asked", "since", "trusted", "out", "task", "known", "alone"}

Asked ==
    /\ DOMAIN spotBatch = Callers
    /\ \A c \in Callers :
        /\ DOMAIN spotBatch[c] = Fields
        /\ \/ Resting(spotBatch[c])
           \/ /\ spotBatch[c].pc = "out"
              /\ Asking(spotBatch[c], spotClock, live, source, keyIdx)
              /\ spotBatch[c].alone => /\ strays = 0
                                        /\ \A d \in Callers \ {c} : Resting(spotBatch[d])

Memory ==
    /\ spotClock \in Nat /\ keyIdx \in 0..Keys - 1
    /\ \A a \in DOMAIN live : /\ live[a].at \in Nat /\ live[a].at <= spotClock
                               /\ live[a].print = live[a].at
    /\ DOMAIN spotCache = DOMAIN source
    /\ \A a \in DOMAIN spotCache :
        /\ spotCache[a].at \in Nat
        /\ spotCache[a].price.from \in Market =>
                /\ spotCache[a].price.print \in Int
                /\ spotCache[a].price.print >= spotCache[a].at - LiveTTL - Budget
        /\ spotCache[a].price.from = "daily" => source[a] = "daily"

Claims ==
    /\ Q!FreshEnough /\ Q!DailyLast /\ Q!TrustedAlone
    /\ Q!AllAnswered /\ Q!KeysTried

SpotInv == Memory /\ Asked /\ Claims

LEMMA Silent == quoted = Q!Untold => Claims
BY DEF Claims, Q!Untold, Q!None, Q!FreshEnough, Q!DailyLast, Q!TrustedAlone,
       Q!AllAnswered, Q!KeysTried

\* time passes and others act: a batch on its own is left alone
LEMMA Drift ==
    ASSUME NEW b, NEW now \in Nat, NEW prints, NEW origin, NEW key,
           Asking(b, now, prints, origin, key),
           NEW now2 \in Nat, NEW prints2, NEW origin2, NEW key2,
           now <= now2, now2 <= b.since + Budget,
           \A a \in DOMAIN prints : /\ a \in DOMAIN prints2
                                    /\ prints[a].at \in Nat /\ prints2[a].at \in Nat
                                    /\ prints[a].at <= prints2[a].at,
           b.alone => origin2 = origin /\ key2 = key
    PROVE  Asking(b, now2, prints2, origin2, key2)
<1>1. /\ b.since \in Nat /\ b.since <= now2 /\ now2 <= b.since + Budget
      /\ b.asked = DOMAIN b.out \cup DOMAIN b.task
      /\ DOMAIN b.out \cap DOMAIN b.task = {}
  BY DEF Asking
<1>2. \A a \in DOMAIN b.out :
        /\ b.out[a].from \in Market =>
                /\ b.out[a].print \in Int
                /\ b.out[a].print >= b.since - (SpotTTL - 1) - LiveTTL - Budget
        /\ b.alone /\ b.out[a].from = "daily" => a \in DOMAIN origin2 /\ origin2[a] = "daily"
  BY DEF Asking
<1>3. \A a \in DOMAIN b.known :
        /\ b.known[a].at \in Nat
        /\ a \in DOMAIN prints2 /\ b.known[a].at <= prints2[a].at
  BY DEF Asking
<1>4. ASSUME NEW a \in DOMAIN b.task
      PROVE  /\ Tasked(a, b.task[a], b.since, b.known, now2)
             /\ b.alone /\ DOMAIN b.task = {a} => Turned(b.task[a], key2)
  <2>1. Tasked(a, b.task[a], b.since, b.known, now) BY DEF Asking
  <2>2. a \in DOMAIN b.known => b.known[a].at \in Nat BY <1>3
  <2>3. Tasked(a, b.task[a], b.since, b.known, now2)
    BY <2>1, <2>2, WatchAssumption DEF Tasked
  <2>4. b.alone /\ DOMAIN b.task = {a} => Turned(b.task[a], key2)
    BY DEF Asking
  <2> QED BY <2>3, <2>4
<1> QED BY <1>1, <1>2, <1>3, <1>4 DEF Asking

Becomes(c, a, t) == spotBatch' = [spotBatch EXCEPT ![c].task[a] = t]

LEMMA TaskDoes ==
    ASSUME Asked, NEW c \in Callers, NEW a \in DOMAIN spotBatch[c].task, NEW t,
           Becomes(c, a, t)
    PROVE  /\ DOMAIN spotBatch' = Callers
           /\ \A d \in Callers \ {c} : spotBatch'[d] = spotBatch[d]
           /\ DOMAIN spotBatch'[c] = Fields
           /\ spotBatch'[c].pc = spotBatch[c].pc /\ spotBatch'[c].asked = spotBatch[c].asked
           /\ spotBatch'[c].since = spotBatch[c].since
           /\ spotBatch'[c].out = spotBatch[c].out
           /\ spotBatch'[c].known = spotBatch[c].known
           /\ spotBatch'[c].alone = spotBatch[c].alone
           /\ DOMAIN spotBatch'[c].task = DOMAIN spotBatch[c].task
           /\ spotBatch'[c].task[a] = t
           /\ \A x \in DOMAIN spotBatch[c].task \ {a} :
                spotBatch'[c].task[x] = spotBatch[c].task[x]
<1> DEFINE b == spotBatch[c]
           moved == [b.task EXCEPT ![a] = t]
           b1 == [b EXCEPT !.task = moved]
<1>1. DOMAIN b = Fields /\ DOMAIN spotBatch = Callers BY DEF Asked
<1>2. spotBatch' = [spotBatch EXCEPT ![c] = b1] BY <1>1 DEF Becomes
<1>3. /\ DOMAIN moved = DOMAIN b.task /\ moved[a] = t
      /\ \A x \in DOMAIN b.task \ {a} : moved[x] = b.task[x]
  OBVIOUS
<1> HIDE DEF moved
<1>4. /\ DOMAIN b1 = Fields /\ b1.task = moved /\ b1.pc = b.pc /\ b1.asked = b.asked
      /\ b1.since = b.since /\ b1.out = b.out /\ b1.known = b.known /\ b1.alone = b.alone
  BY <1>1 DEF Fields
<1> HIDE DEF b1
<1>5. /\ DOMAIN spotBatch' = Callers /\ spotBatch'[c] = b1
      /\ \A d \in Callers \ {c} : spotBatch'[d] = spotBatch[d]
  BY <1>1, <1>2
<1> QED BY <1>3, <1>4, <1>5

\* what holds of a caller while another one acts
LEMMA NotAlone ==
    ASSUME Asked, NEW c \in Callers, spotBatch[c].pc = "out", NEW d \in Callers \ {c},
           ~Resting(spotBatch[d])
    PROVE  ~spotBatch[d].alone /\ ~spotBatch[c].alone
BY DEF Asked, Resting

LEMMA TaskMoves ==
    ASSUME Memory, Asked, NEW c \in Callers, NEW a \in DOMAIN spotBatch[c].task, NEW t,
           Becomes(c, a, t),
           spotClock' = spotClock, source' = source, strays' = strays,
           \A x \in DOMAIN live : /\ x \in DOMAIN live' /\ live'[x].at \in Nat
                                  /\ live[x].at <= live'[x].at,
           Tasked(a, t, spotBatch[c].since, spotBatch[c].known, spotClock),
           spotBatch[c].alone /\ DOMAIN spotBatch[c].task = {a} => Turned(t, keyIdx')
    PROVE  Asked'
<1> DEFINE b == spotBatch[c]
           n == spotBatch'[c]
<1>1. /\ DOMAIN spotBatch' = Callers
      /\ \A d \in Callers \ {c} : spotBatch'[d] = spotBatch[d]
      /\ DOMAIN n = Fields
      /\ n.pc = b.pc /\ n.asked = b.asked /\ n.since = b.since /\ n.out = b.out
      /\ n.known = b.known /\ n.alone = b.alone /\ DOMAIN n.task = DOMAIN b.task
      /\ n.task[a] = t
      /\ \A x \in DOMAIN b.task \ {a} : n.task[x] = b.task[x]
  BY TaskDoes
<1>2. /\ b.pc = "out" /\ a \in DOMAIN b.task
      /\ Asking(b, spotClock, live, source, keyIdx)
      /\ b.alone => strays = 0 /\ \A d \in Callers \ {c} : Resting(spotBatch[d])
  BY DEF Asked, Resting
<1>3. Tasked(a, t, b.since, b.known, spotClock)
      /\ (b.alone /\ DOMAIN b.task = {a} => Turned(t, keyIdx'))
  OBVIOUS
<1>4. /\ spotClock \in Nat /\ \A x \in DOMAIN live : live[x].at \in Nat
  BY DEF Memory
<1>5. ASSUME NEW d \in Callers \ {c}, ~Resting(spotBatch[d])
      PROVE  /\ spotBatch[d].pc = "out" /\ ~spotBatch[d].alone
             /\ Asking(spotBatch[d], spotClock, live', source, keyIdx')
  <2>1. spotBatch[d].pc = "out" /\ ~spotBatch[d].alone BY <1>2, <1>5, NotAlone DEF Asked
  <2>2. Asking(spotBatch[d], spotClock, live, source, keyIdx) BY <1>5 DEF Asked
  <2>3. spotClock <= spotBatch[d].since + Budget BY <2>2 DEF Asking
  <2> QED BY <1>4, <2>1, <2>2, <2>3, Drift
<1> HIDE DEF b, n
<1>6. Asking(n, spotClock, live', source, keyIdx')
  <2>1. /\ n.since \in Nat /\ n.since <= spotClock /\ spotClock <= n.since + Budget
        /\ n.asked = DOMAIN n.out \cup DOMAIN n.task
        /\ DOMAIN n.out \cap DOMAIN n.task = {}
    BY <1>1, <1>2 DEF Asking
  <2>2. \A x \in DOMAIN n.out :
        /\ n.out[x].from \in Market =>
                /\ n.out[x].print \in Int
                /\ n.out[x].print >= n.since - (SpotTTL - 1) - LiveTTL - Budget
        /\ n.alone /\ n.out[x].from = "daily" => x \in DOMAIN source /\ source[x] = "daily"
    BY <1>1, <1>2 DEF Asking
  <2>3. \A x \in DOMAIN n.known :
        /\ n.known[x].at \in Nat
        /\ x \in DOMAIN live' /\ n.known[x].at <= live'[x].at
    BY <1>1, <1>2, <1>4 DEF Asking
  <2>4. \A x \in DOMAIN n.task :
        /\ Tasked(x, n.task[x], n.since, n.known, spotClock)
        /\ n.alone /\ DOMAIN n.task = {x} => Turned(n.task[x], keyIdx')
    BY <1>1, <1>2, <1>3 DEF Asking
  <2> QED BY <2>1, <2>2, <2>3, <2>4 DEF Asking
<1>7. ASSUME NEW d \in Callers
      PROVE  /\ DOMAIN spotBatch'[d] = Fields
             /\ \/ Resting(spotBatch'[d])
                \/ /\ spotBatch'[d].pc = "out"
                   /\ Asking(spotBatch'[d], spotClock', live', source', keyIdx')
                   /\ spotBatch'[d].alone =>
                         strays' = 0 /\ \A e \in Callers \ {d} : Resting(spotBatch'[e])
  <2>1. CASE d = c BY <1>1, <1>2, <1>6, <2>1 DEF n, b
  <2>2. CASE d # c
    <3>1. spotBatch'[d] = spotBatch[d] /\ DOMAIN spotBatch[d] = Fields
      BY <1>1, <2>2 DEF Asked
    <3> QED BY <1>5, <2>2, <3>1
  <2> QED BY <2>1, <2>2
<1> QED BY <1>1, <1>7 DEF Asked

LEMMA NextIndex ==
    ASSUME NEW k \in 0..Keys - 1
    PROVE  /\ (k + 1) % Keys = IF k + 1 = Keys THEN 0 ELSE k + 1
           /\ (k + 1) % Keys \in 0..Keys - 1
<1>1. Keys \in Nat \ {0} BY WatchAssumption
<1>2. CASE k + 1 = Keys BY <1>1, <1>2
<1>3. CASE k + 1 # Keys BY <1>1, <1>3
<1> QED BY <1>2, <1>3

LEMMA TurnOn ==
    ASSUME NEW t, NEW u, NEW key \in 0..Keys - 1, Turned(t, key),
           t.held \in 0..Keys - 1, t.tries \in Nat,
           u.held = key, u.tried = t.tried \cup {key}, u.tries = t.tries + 1
    PROVE  Turned(u, (key + 1) % Keys)
<1>1. Keys \in Nat \ {0} BY WatchAssumption
<1>2. t.tried \subseteq 0..Keys - 1 BY DEF Turned
<1>3. \A k \in 0..Keys - 1 : k \in u.tried <=> Behind(key, k) < t.tries + 1
  <2> SUFFICES ASSUME NEW k \in 0..Keys - 1
               PROVE  k = key \/ k \in t.tried <=> Behind(key, k) < t.tries + 1
    OBVIOUS
  <2>1. Behind(key, k) \in Nat /\ (Behind(key, k) = 0 <=> k = key)
    BY <1>1 DEF Behind
  <2>2. k \in t.tried <=> Behind(t.held, k) < t.tries BY DEF Turned
  <2>3. CASE t.tries = 0
    <3>1. Behind(t.held, k) >= 0 BY <1>1 DEF Behind
    <3>2. k \notin t.tried BY <1>1, <2>2, <2>3, <3>1 DEF Behind
    <3> QED BY <2>1, <2>3, <3>2
  <2>4. CASE t.tries > 0
    <3>1. key = IF t.held + 1 = Keys THEN 0 ELSE t.held + 1
      BY <2>4 DEF Turned
    <3>2. k # key => Behind(key, k) = Behind(t.held, k) + 1
      BY <1>1, <3>1 DEF Behind
    <3>3. Behind(t.held, k) \in Nat BY <1>1 DEF Behind
    <3> QED BY <2>1, <2>2, <2>4, <3>2, <3>3
  <2> QED BY <2>3, <2>4
<1>4. u.tried = {k \in 0..Keys - 1 : Behind(u.held, k) < u.tries}
  BY <1>2, <1>3
<1> QED BY <1>4, NextIndex DEF Turned

\* a task takes the key that is next
LEMMA TakesKey ==
    ASSUME Memory, Asked, NEW c \in Callers, NEW a \in DOMAIN spotBatch[c].task,
           Q!TakeKey(c, a), UNCHANGED <<spotClock, spotCache, live, source, strays>>,
           \/ a \notin DOMAIN spotBatch[c].known
           \/ spotClock - spotBatch[c].known[a].at > LiveTTL
    PROVE  Memory' /\ Asked'
<1> DEFINE b == spotBatch[c]
           t == b.task[a]
           u == [t EXCEPT !.pc = "key", !.held = keyIdx, !.tried = @ \cup {keyIdx},
                          !.tries = @ + 1]
<1>1. /\ keyIdx' = (keyIdx + 1) % Keys /\ Becomes(c, a, u)
  BY DEF Q!TakeKey, Q!NextKey, Becomes
<1>2. /\ Tasked(a, t, b.since, b.known, spotClock)
      /\ b.alone /\ DOMAIN b.task = {a} => Turned(t, keyIdx)
  BY DEF Asked, Resting, Asking
<1>3. /\ keyIdx \in 0..Keys - 1 /\ spotClock \in Nat
      /\ \A x \in DOMAIN live : live[x].at \in Nat
  BY DEF Memory
<1>4. DOMAIN t = {"pc", "held", "tried", "tries", "price"} BY <1>2 DEF Tasked
<1> HIDE DEF t
<1>5. /\ DOMAIN u = DOMAIN t /\ u.pc = "key" /\ u.held = keyIdx
      /\ u.tried = t.tried \cup {keyIdx} /\ u.tries = t.tries + 1 /\ u.price = t.price
  BY <1>4
<1> HIDE DEF u
<1>6. Tasked(a, u, b.since, b.known, spotClock)
  BY <1>2, <1>3, <1>5 DEF Tasked
<1>7. b.alone /\ DOMAIN b.task = {a} => Turned(u, keyIdx')
  BY <1>1, <1>2, <1>3, <1>5, TurnOn DEF Tasked
<1>8. Memory' BY <1>1, <1>3, NextIndex DEF Memory
<1>9. /\ spotClock' = spotClock /\ source' = source
      /\ \A x \in DOMAIN live : /\ x \in DOMAIN live' /\ live'[x].at \in Nat
                                /\ live[x].at <= live'[x].at
  BY <1>3
<1>10. Asked' BY <1>1, <1>6, <1>7, <1>9, TaskMoves
<1> QED BY <1>8, <1>10

\* a task is done
LEMMA Settles ==
    ASSUME Memory, Asked, NEW c \in Callers, NEW a \in DOMAIN spotBatch[c].task,
           NEW price, Q!Settle(c, a, price),
           UNCHANGED <<spotClock, spotCache, source, keyIdx, strays>>,
           \A x \in DOMAIN live' : /\ live'[x].at \in Nat /\ live'[x].at <= spotClock
                                   /\ live'[x].print = live'[x].at,
           \A x \in DOMAIN live : x \in DOMAIN live' /\ live[x].at <= live'[x].at,
           price.from \in Market =>
                /\ price.print \in Int
                /\ price.print >= spotBatch[c].since - LiveTTL,
           price.from = "daily" =>
                \/ a \notin DOMAIN spotBatch[c].known
                \/ spotClock - spotBatch[c].known[a].at > LiveTTL
    PROVE  Memory' /\ Asked'
<1> DEFINE b == spotBatch[c]
           t == b.task[a]
           u == [t EXCEPT !.pc = "done", !.price = price]
<1>1. Becomes(c, a, u) BY DEF Q!Settle, Becomes
<1>2. /\ Tasked(a, t, b.since, b.known, spotClock)
      /\ b.alone /\ DOMAIN b.task = {a} => Turned(t, keyIdx)
  BY DEF Asked, Resting, Asking
<1>3. DOMAIN t = {"pc", "held", "tried", "tries", "price"} BY <1>2 DEF Tasked
<1>4. price.from \in Market => price.print \in Int /\ price.print >= b.since - LiveTTL
  OBVIOUS
<1>5. price.from = "daily" =>
        a \notin DOMAIN b.known \/ spotClock - b.known[a].at > LiveTTL
  OBVIOUS
<1> HIDE DEF t, b
<1>6. /\ DOMAIN u = DOMAIN t /\ u.pc = "done" /\ u.held = t.held
      /\ u.tried = t.tried /\ u.tries = t.tries /\ u.price = price
  BY <1>3
<1> HIDE DEF u
<1>7. Tasked(a, u, b.since, b.known, spotClock)
  BY <1>2, <1>4, <1>5, <1>6 DEF Tasked
<1>8. b.alone /\ DOMAIN b.task = {a} => Turned(u, keyIdx')
  BY <1>2, <1>6 DEF Turned
<1>9. Memory' BY DEF Memory
<1>10. \A x \in DOMAIN live : /\ x \in DOMAIN live' /\ live'[x].at \in Nat
                              /\ live[x].at <= live'[x].at
  OBVIOUS
<1>11. Asked' BY <1>1, <1>7, <1>8, <1>10, TaskMoves DEF b
<1> QED BY <1>9, <1>11

LEMMA AnswersKeep ==
    ASSUME SpotInv, NEW c \in Callers, NEW a, quoted' = Q!Untold,
           Q!YahooAnswers(c, a) \/ Q!KeyAnswers(c, a)
    PROVE  SpotInv'
<1> DEFINE b == spotBatch[c]
<1>0. Memory /\ Asked BY DEF SpotInv
<1>1. a \in DOMAIN b.task /\ UNCHANGED <<spotClock, spotCache, source, strays>>
  BY DEF Q!YahooAnswers, Q!KeyAnswers, Q!At, Q!memory
<1>2. Asking(b, spotClock, live, source, keyIdx)
  BY <1>0, <1>1 DEF Asked, Resting
<1>3. /\ spotClock \in Nat
      /\ \A x \in DOMAIN live : /\ live[x].at \in Nat /\ live[x].at <= spotClock
                                 /\ live[x].print = live[x].at
  BY <1>0 DEF Memory
<1>4. b.since \in Nat /\ b.since <= spotClock BY <1>2 DEF Asking
<1>5. ~Q!Reusable(a) => a \notin DOMAIN b.known \/ spotClock - b.known[a].at > LiveTTL
  <2>1. a \in DOMAIN b.known => /\ b.known[a].at \in Nat /\ a \in DOMAIN live
                                /\ b.known[a].at <= live[a].at
    BY <1>2 DEF Asking
  <2>2. ~Q!Reusable(a) => a \notin DOMAIN live \/ ~(spotClock - live[a].at <= LiveTTL)
    BY DEF Q!Reusable, Q!Aged
  <2> QED BY <1>3, <2>1, <2>2, WatchAssumption
<1>6. Memory' /\ Asked'
  <2>1. CASE Q!YahooAnswers(c, a)
    <3>1. CASE Q!Settle(c, a, Q!Price(spotClock, "spot")) /\ live' = Q!Seen(a, TRUE)
               /\ UNCHANGED keyIdx
      <4>1. PICK price : Q!Settle(c, a, price) /\ price.from = "spot" /\ price.print = spotClock
        BY <3>1 DEF Q!Price
      <4>2. /\ DOMAIN live' = DOMAIN live \cup {a}
            /\ \A x \in DOMAIN live' :
                  live'[x] = IF x = a THEN [at |-> spotClock, print |-> spotClock]
                             ELSE live[x]
        BY <3>1 DEF Q!Seen, Q!Put
      <4>3. \A x \in DOMAIN live' : /\ live'[x].at \in Nat /\ live'[x].at <= spotClock
                                    /\ live'[x].print = live'[x].at
        BY <1>3, <4>2
      <4>4. \A x \in DOMAIN live : x \in DOMAIN live' /\ live[x].at <= live'[x].at
        BY <1>3, <4>2
      <4>5. spotClock >= b.since - LiveTTL BY <1>3, <1>4, WatchAssumption
      <4>6. /\ price.from \in Market => /\ price.print \in Int
                                        /\ price.print >= b.since - LiveTTL
            /\ price.from # "daily"
        BY <1>3, <4>1, <4>5
      <4> QED BY <1>0, <1>1, <3>1, <4>1, <4>3, <4>4, <4>6, Settles
    <3>2. CASE Q!Reusable(a) /\ Q!Settle(c, a, Q!Price(live[a].print, "reused"))
               /\ live' = Q!Seen(a, FALSE) /\ UNCHANGED keyIdx
      <4>1. PICK price : /\ Q!Settle(c, a, price)
                         /\ price.from = "reused" /\ price.print = live[a].print
        BY <3>2 DEF Q!Price
      <4>2. live' = live BY <3>2 DEF Q!Seen
      <4>3. a \in DOMAIN live /\ spotClock - live[a].at <= LiveTTL
        BY <3>2 DEF Q!Reusable, Q!Aged
      <4>4. live[a].print \in Int /\ live[a].print >= b.since - LiveTTL
        BY <1>3, <1>4, <4>3, WatchAssumption
      <4>5. /\ price.from \in Market => /\ price.print \in Int
                                        /\ price.print >= b.since - LiveTTL
            /\ price.from # "daily"
        BY <4>1, <4>4
      <4>6. \A x \in DOMAIN live' : /\ live'[x].at \in Nat /\ live'[x].at <= spotClock
                                    /\ live'[x].print = live'[x].at
        BY <1>3, <4>2
      <4>7. \A x \in DOMAIN live : x \in DOMAIN live' /\ live[x].at <= live'[x].at
        BY <1>3, <4>2
      <4> QED BY <1>0, <1>1, <3>2, <4>1, <4>5, <4>6, <4>7, Settles
    <3>3. CASE ~Q!Reusable(a) /\ Q!TakeKey(c, a) /\ UNCHANGED live
      BY <1>0, <1>1, <1>5, <3>3, TakesKey
    <3>4. CASE Q!Settle(c, a, Q!Failed) /\ UNCHANGED <<live, keyIdx>>
      <4>1. Q!Failed.from = "none" BY DEF Q!Failed, Q!Price
      <4> QED BY <1>0, <1>1, <1>3, <3>4, <4>1, Settles DEF Market
    <3> QED BY <2>1, <3>1, <3>2, <3>3, <3>4 DEF Q!YahooAnswers
  <2>2. CASE Q!KeyAnswers(c, a)
    <3>1. b.task[a].pc = "key" /\ UNCHANGED live
      BY <2>2 DEF Q!KeyAnswers, Q!At, Q!memory
    <3>2. a \notin DOMAIN b.known \/ spotClock - b.known[a].at > LiveTTL
      BY <1>1, <1>2, <3>1 DEF Asking, Tasked
    <3>3. CASE Q!TakeKey(c, a) BY <1>0, <1>1, <3>1, <3>2, <3>3, TakesKey
    <3>4. CASE Q!Settle(c, a, Q!Price(spotClock, "daily")) /\ UNCHANGED keyIdx
      <4>1. Q!Price(spotClock, "daily").from = "daily" BY DEF Q!Price
      <4> QED BY <1>0, <1>1, <1>3, <3>1, <3>2, <3>4, <4>1, Settles DEF Market
    <3>5. CASE Q!Settle(c, a, Q!Failed) /\ UNCHANGED keyIdx
      <4>1. Q!Failed.from = "none" BY DEF Q!Failed, Q!Price
      <4> QED BY <1>0, <1>1, <1>3, <3>1, <3>5, <4>1, Settles DEF Market
    <3>6. \/ Q!TakeKey(c, a)
          \/ Q!Settle(c, a, Q!Price(spotClock, "daily")) /\ UNCHANGED keyIdx
          \/ Q!Settle(c, a, Q!Failed) /\ UNCHANGED keyIdx
      BY <2>2 DEF Q!KeyAnswers
    <3> QED BY <3>3, <3>4, <3>5, <3>6
  <2> QED BY <2>1, <2>2
<1>7. Claims' BY Silent DEF Claims, Q!Untold, Q!None, Q!FreshEnough, Q!DailyLast,
          Q!TrustedAlone, Q!AllAnswered, Q!KeysTried
<1> QED BY <1>6, <1>7 DEF SpotInv

\* what a caller is told, and what must hold of the batch it was told by
LEMMA Telling ==
    ASSUME NEW b, NEW out, NEW failures, NEW sources,
           quoted' = Q!Answer(b, out, failures, sources),
           spotClock \in Nat, b.since \in Nat, spotClock <= b.since + Budget,
           DOMAIN b.task # {} => DOMAIN out \cup failures = b.asked,
           \A a \in DOMAIN out :
                out[a].from \in Market =>
                    /\ out[a].print \in Int
                    /\ out[a].print >= IF a \in DOMAIN b.task THEN b.since - LiveTTL
                                       ELSE b.since - (SpotTTL - 1) - LiveTTL - Budget,
           \A a \in DOMAIN out :
                out[a].from = "daily" /\ (a \in DOMAIN b.task \/ b.alone) =>
                    sources[a] = "daily",
           \A a \in DOMAIN out \cap DOMAIN b.task :
                out[a].from = "daily" =>
                    a \notin DOMAIN b.known \/ spotClock - b.known[a].at > LiveTTL,
           \A a \in DOMAIN b.task :
                /\ b.task[a].held \in 0..Keys - 1
                /\ b.alone /\ DOMAIN b.task = {a} => \E key : Turned(b.task[a], key)
    PROVE  Claims'
<1> DEFINE daily == {a \in DOMAIN out : b.trusted /\ sources[a] = "daily"}
           served == DOMAIN out \ daily
<1>1. /\ quoted'.asked = b.asked /\ quoted'.since = b.since
      /\ quoted'.trusted = b.trusted /\ quoted'.at = spotClock
      /\ quoted'.prices = Q!Restrict(out, served)
      /\ quoted'.failures = failures \cup daily /\ quoted'.task = b.task
      /\ quoted'.known = b.known /\ quoted'.alone = b.alone
  BY DEF Q!Answer
<1>2. /\ DOMAIN quoted'.prices = served
      /\ \A a \in served : quoted'.prices[a] = out[a]
  BY <1>1 DEF Q!Restrict
<1>3. served \subseteq DOMAIN out /\ daily \subseteq DOMAIN out
      /\ served \cup daily = DOMAIN out
  OBVIOUS
<1>4. \A a \in served : b.trusted => sources[a] # "daily"
  OBVIOUS
<1> HIDE DEF daily, served
<1>5. Q!AllAnswered' BY <1>1, <1>2, <1>3 DEF Q!AllAnswered
<1>6. Q!TrustedAlone' BY <1>1, <1>2, <1>3, <1>4 DEF Q!TrustedAlone
<1>7. Q!DailyLast' BY <1>1, <1>2, <1>3 DEF Q!DailyLast
<1>8. Q!FreshEnough'
  <2> SUFFICES ASSUME NEW a \in served, out[a].from \in Market
               PROVE  spotClock - out[a].print <=
                        LiveTTL + Budget
                        + (IF a \in DOMAIN b.task THEN 0 ELSE SpotTTL - 1 + Budget)
    BY <1>1, <1>2 DEF Q!FreshEnough, Market
  <2>1. /\ out[a].print \in Int
        /\ out[a].print >= IF a \in DOMAIN b.task THEN b.since - LiveTTL
                           ELSE b.since - (SpotTTL - 1) - LiveTTL - Budget
    BY <1>3
  <2> QED BY <2>1, WatchAssumption
<1>9. Q!KeysTried'
  <2> SUFFICES ASSUME NEW a \in DOMAIN b.task, b.task[a].tries = Keys, b.alone,
                      DOMAIN b.task = {a}
               PROVE  b.task[a].tried = 0..Keys - 1
    BY <1>1 DEF Q!KeysTried
  <2>1. PICK key : Turned(b.task[a], key) OBVIOUS
  <2>2. \A k \in 0..Keys - 1 : Behind(b.task[a].held, k) < Keys
    BY WatchAssumption DEF Behind
  <2> QED BY <2>1, <2>2 DEF Turned
<1> QED BY <1>5, <1>6, <1>7, <1>8, <1>9 DEF Claims

LEMMA AsksKeep ==
    ASSUME SpotInv, NEW c \in Callers, NEW want \in Wants, Q!Ask(c, want)
    PROVE  SpotInv'
<1> DEFINE hits == {a \in want : Q!Hit(a)}
           b == [pc |-> "out", asked |-> want, since |-> spotClock,
                 trusted |-> c \in Trusting,
                 out |-> [a \in hits |-> spotCache[a].price],
                 task |-> [a \in want \ hits |-> Q!Task], known |-> live,
                 alone |-> strays = 0 /\ \A d \in Callers : spotBatch[d].pc = "idle"]
           mute == [b EXCEPT !.task = Q!None]
<1>1. Memory /\ Asked BY DEF SpotInv
<1>2. /\ spotBatch[c].pc = "idle"
      /\ UNCHANGED <<spotClock, spotCache, live, source, keyIdx, strays>>
  BY DEF Q!Ask, Q!memory
<1>3. Memory' BY <1>1, <1>2 DEF Memory
<1>4. /\ spotClock \in Nat /\ keyIdx \in 0..Keys - 1 /\ Keys \in Nat \ {0}
      /\ \A a \in DOMAIN live : live[a].at \in Nat
  BY <1>1, WatchAssumption DEF Memory
<1>5. /\ DOMAIN b = Fields /\ b.pc = "out" /\ b.asked = want /\ b.since = spotClock
      /\ b.out = [a \in hits |-> spotCache[a].price]
      /\ b.task = [a \in want \ hits |-> Q!Task] /\ b.known = live
      /\ b.alone => strays = 0 /\ \A d \in Callers : spotBatch[d].pc = "idle"
  BY DEF Fields
<1>6. \/ want = hits /\ quoted' = Q!Answer(b, b.out, {}, source) /\ UNCHANGED spotBatch
      \/ /\ want # hits
         /\ spotBatch' = [d \in Callers |->
                             IF d = c THEN b ELSE [spotBatch[d] EXCEPT !.alone = FALSE]]
         /\ quoted' = Q!Untold
      \/ quoted' = Q!Answer(mute, b.out, {}, source) /\ UNCHANGED spotBatch
  BY Zenon DEF Q!Ask
<1>6a. /\ DOMAIN mute.task = {} /\ mute.asked = b.asked /\ mute.since = b.since
      /\ mute.out = b.out /\ mute.alone = b.alone
  BY DEF Q!None
<1> HIDE DEF mute
<1> HIDE DEF b
<1>7. /\ DOMAIN b.out = hits /\ DOMAIN b.task = want \ hits
      /\ \A a \in hits : b.out[a] = spotCache[a].price
      /\ \A a \in want \ hits : b.task[a] = Q!Task
  BY <1>5
<1>8. \A a \in hits : /\ a \in want /\ a \in DOMAIN spotCache
                      /\ spotClock - spotCache[a].at < SpotTTL
  BY DEF Q!Hit
<1>9. hits \subseteq want OBVIOUS
<1> HIDE DEF hits
<1>10. \A a \in hits :
        /\ b.out[a].from \in Market =>
                /\ b.out[a].print \in Int
                /\ b.out[a].print >= b.since - (SpotTTL - 1) - LiveTTL - Budget
        /\ b.out[a].from = "daily" => a \in DOMAIN source /\ source[a] = "daily"
  BY <1>1, <1>4, <1>5, <1>7, <1>8, WatchAssumption DEF Memory
<1>11. ASSUME NEW reply \in {b, mute}, DOMAIN reply.task = {},
              quoted' = Q!Answer(reply, b.out, {}, source), UNCHANGED spotBatch
       PROVE  SpotInv'
  <2>1. reply.since = b.since /\ reply.alone = b.alone BY <1>6a
  <2>2. spotClock \in Nat /\ reply.since \in Nat /\ spotClock <= reply.since + Budget
    BY <1>4, <1>5, <2>1, WatchAssumption
  <2>3. \A a \in DOMAIN b.out :
            b.out[a].from \in Market =>
                /\ b.out[a].print \in Int
                /\ b.out[a].print >= IF a \in DOMAIN reply.task THEN reply.since - LiveTTL
                                     ELSE reply.since - (SpotTTL - 1) - LiveTTL - Budget
    BY <1>7, <1>10, <1>11, <2>1
  <2>4. \A a \in DOMAIN b.out : b.out[a].from = "daily" => source[a] = "daily"
    BY <1>7, <1>10
  <2>5. Claims' BY <1>11, <2>2, <2>3, <2>4, Telling
  <2>6. Asked' BY <1>1, <1>2, <1>11 DEF Asked
  <2> QED BY <1>3, <2>5, <2>6 DEF SpotInv
<1>12. CASE /\ want # hits
             /\ spotBatch' = [d \in Callers |->
                                 IF d = c THEN b ELSE [spotBatch[d] EXCEPT !.alone = FALSE]]
             /\ quoted' = Q!Untold
  <2>1. /\ DOMAIN spotBatch' = Callers /\ spotBatch'[c] = b
        /\ \A d \in Callers \ {c} : spotBatch'[d] = [spotBatch[d] EXCEPT !.alone = FALSE]
    BY <1>12
  <2>2. ASSUME NEW a \in DOMAIN b.task
        PROVE  /\ Tasked(a, b.task[a], b.since, b.known, spotClock)
               /\ Turned(b.task[a], keyIdx)
    <3>1. b.task[a] = Q!Task BY <1>7, <2>2
    <3>2. /\ DOMAIN Q!Task = {"pc", "held", "tried", "tries", "price"}
          /\ Q!Task.pc = "yahoo" /\ Q!Task.held = 0 /\ Q!Task.tried = {}
          /\ Q!Task.tries = 0 /\ Q!Task.price.from = "none"
      BY DEF Q!Task, Q!Failed, Q!Price
    <3>3. \A k \in 0..Keys - 1 : ~(Behind(0, k) < 0) BY <1>4 DEF Behind
    <3> QED BY <1>4, <3>1, <3>2, <3>3 DEF Tasked, Turned, Market
  <2>3. Asking(b, spotClock, live, source, keyIdx)
    <3>1. /\ b.since \in Nat /\ b.since <= spotClock /\ spotClock <= b.since + Budget
      BY <1>4, <1>5, WatchAssumption
    <3>2. b.asked = DOMAIN b.out \cup DOMAIN b.task /\ DOMAIN b.out \cap DOMAIN b.task = {}
      BY <1>5, <1>7, <1>9
    <3>3. \A a \in DOMAIN b.known : /\ b.known[a].at \in Nat
                                    /\ a \in DOMAIN live /\ b.known[a].at <= live[a].at
      BY <1>4, <1>5
    <3> QED BY <1>7, <1>10, <2>2, <3>1, <3>2, <3>3 DEF Asking
  <2>4. ASSUME NEW d \in Callers \ {c}
        PROVE  /\ DOMAIN spotBatch'[d] = Fields /\ ~spotBatch'[d].alone
               /\ spotBatch[d].pc = "idle" => Resting(spotBatch'[d])
               /\ \/ Resting(spotBatch'[d])
                  \/ /\ spotBatch'[d].pc = "out"
                     /\ Asking(spotBatch'[d], spotClock, live, source, keyIdx)
    <3> DEFINE o == spotBatch[d]
               n == spotBatch'[d]
    <3>1. DOMAIN o = Fields /\ n = [o EXCEPT !.alone = FALSE] BY <1>1, <2>1 DEF Asked
    <3>2. \/ Resting(o)
          \/ o.pc = "out" /\ Asking(o, spotClock, live, source, keyIdx)
      BY <1>1 DEF Asked
    <3> HIDE DEF o, n
    <3>3. /\ DOMAIN n = Fields /\ n.alone = FALSE /\ n.pc = o.pc /\ n.asked = o.asked
          /\ n.since = o.since /\ n.out = o.out /\ n.task = o.task /\ n.known = o.known
      BY <3>1 DEF Fields
    <3>4. CASE Resting(o) BY <3>3, <3>4 DEF Resting, o, n
    <3>5. CASE o.pc = "out" /\ Asking(o, spotClock, live, source, keyIdx)
      <4>1. Asking(n, spotClock, live, source, keyIdx) BY <3>3, <3>5 DEF Asking
      <4> QED BY <3>3, <3>5, <4>1 DEF o, n
    <3> QED BY <3>2, <3>4, <3>5
  <2>5. Asked'
    BY <1>2, <1>5, <2>1, <2>3, <2>4 DEF Asked
  <2>6. Claims'
    BY <1>12 DEF Claims, Q!Untold, Q!None, Q!FreshEnough, Q!DailyLast,
                       Q!TrustedAlone, Q!AllAnswered, Q!KeysTried
  <2> QED BY <1>3, <2>5, <2>6 DEF SpotInv
<1>13. want = hits => DOMAIN b.task = {} BY <1>7
<1> QED BY <1>6, <1>6a, <1>11, <1>12, <1>13

LEMMA BatchKeeps ==
    ASSUME SpotInv, NEW c \in Callers, Q!BatchEnds(c)
    PROVE  SpotInv'
<1> DEFINE b == spotBatch[c]
           got == Q!Got(b)
           fetched == [a \in got |-> b.task[a].price]
           now == [a \in got |-> [at |-> spotClock, price |-> fetched[a]]]
           origin == [a \in got |-> IF b.task[a].price.from = "daily" THEN "daily" ELSE "spot"]
           out == Q!Merge(fetched, b.out)
<1>1. Memory /\ Asked BY DEF SpotInv
<1>2. /\ b.pc = "out" /\ spotCache' = Q!Merge(now, spotCache)
      /\ source' = Q!Merge(origin, source)
      /\ quoted' = Q!Answer(b, out, Q!Failures(b), source')
      /\ spotBatch' = [spotBatch EXCEPT ![c] = Q!Quiet]
      /\ UNCHANGED <<spotClock, live, keyIdx, strays>>
  BY DEF Q!BatchEnds, Q!Sources
<1>3. Asking(b, spotClock, live, source, keyIdx)
  BY <1>1, <1>2 DEF Asked, Resting
<1>4. /\ got = {a \in DOMAIN b.task : b.task[a].price # Q!Failed}
      /\ Q!Failures(b) = {a \in DOMAIN b.task : b.task[a].price.from \in {"none", "reused"}}
      /\ Q!Failed.from = "none"
  BY DEF Q!Got, Q!Failures, Q!Failed, Q!Price
<1> HIDE DEF b
<1>5. /\ DOMAIN spotCache' = got \cup DOMAIN spotCache
      /\ DOMAIN source' = got \cup DOMAIN source
      /\ \A a \in DOMAIN spotCache' :
            spotCache'[a] = IF a \in got
                            THEN [at |-> spotClock, price |-> b.task[a].price]
                            ELSE spotCache[a]
      /\ \A a \in DOMAIN source' :
            source'[a] = IF a \in got
                         THEN IF b.task[a].price.from = "daily" THEN "daily" ELSE "spot"
                         ELSE source[a]
  <2> HIDE DEF got
  <2> QED BY <1>2 DEF Q!Merge
<1>6. /\ DOMAIN out = got \cup DOMAIN b.out
      /\ \A a \in DOMAIN out : out[a] = IF a \in got THEN b.task[a].price ELSE b.out[a]
  <2> HIDE DEF got
  <2> QED BY DEF Q!Merge
<1> HIDE DEF got, fetched, now, origin, out
<1>7. got \subseteq DOMAIN b.task BY <1>4
<1>8. \A a \in DOMAIN b.task :
        Tasked(a, b.task[a], b.since, b.known, spotClock)
  BY <1>3 DEF Asking
<1>9. /\ spotClock \in Nat /\ b.since \in Nat /\ spotClock <= b.since + Budget
  BY <1>1, <1>3 DEF Memory, Asking
<1>10. Memory'
  <2>1. \A a \in DOMAIN spotCache' :
        /\ spotCache'[a].at \in Nat
        /\ spotCache'[a].price.from \in Market =>
                /\ spotCache'[a].price.print \in Int
                /\ spotCache'[a].price.print >= spotCache'[a].at - LiveTTL - Budget
        /\ spotCache'[a].price.from = "daily" => source'[a] = "daily"
    <3> SUFFICES ASSUME NEW a \in DOMAIN spotCache'
                 PROVE  /\ spotCache'[a].at \in Nat
                        /\ spotCache'[a].price.from \in Market =>
                             /\ spotCache'[a].price.print \in Int
                             /\ spotCache'[a].price.print
                                    >= spotCache'[a].at - LiveTTL - Budget
                        /\ spotCache'[a].price.from = "daily" => source'[a] = "daily"
      OBVIOUS
    <3>1. CASE a \in got
      <4>1. /\ spotCache'[a].at = spotClock /\ spotCache'[a].price = b.task[a].price
            /\ source'[a] = IF b.task[a].price.from = "daily" THEN "daily" ELSE "spot"
        <5>1. spotCache'[a] = [at |-> spotClock, price |-> b.task[a].price]
          BY <1>5, <3>1
        <5>2. a \in DOMAIN source' BY <1>5, <3>1
        <5>3. source'[a] = IF b.task[a].price.from = "daily" THEN "daily" ELSE "spot"
          BY <1>5, <3>1, <5>2
        <5> QED BY <5>1, <5>3
      <4>2. b.task[a].price.from \in Market =>
                /\ b.task[a].price.print \in Int
                /\ b.task[a].price.print >= b.since - LiveTTL
        BY <1>7, <1>8, <3>1 DEF Tasked
      <4> QED BY <1>9, <4>1, <4>2, WatchAssumption
    <3>2. CASE a \notin got
      <4>1. a \in DOMAIN spotCache /\ spotCache'[a] = spotCache[a] /\ source'[a] = source[a]
        BY <1>1, <1>5, <3>2 DEF Memory
      <4> QED BY <1>1, <4>1 DEF Memory
    <3> QED BY <3>1, <3>2
  <2> QED BY <1>1, <1>2, <1>5, <2>1 DEF Memory
<1>11. Asked'
  <2>1. /\ DOMAIN spotBatch' = Callers /\ spotBatch'[c] = Q!Quiet
        /\ \A d \in Callers \ {c} : spotBatch'[d] = spotBatch[d]
    BY <1>1, <1>2 DEF Asked
  <2>2. DOMAIN Q!Quiet = Fields /\ Resting(Q!Quiet)
    BY DEF Q!Quiet, Q!None, Fields, Resting
  <2>3. ASSUME NEW d \in Callers \ {c}, ~Resting(spotBatch[d])
        PROVE  /\ spotBatch[d].pc = "out" /\ ~spotBatch[d].alone
               /\ Asking(spotBatch[d], spotClock, live, source', keyIdx)
    <3>1. spotBatch[d].pc = "out" /\ ~spotBatch[d].alone
      BY <1>1, <1>2, <2>3, NotAlone DEF Asked, b
    <3>2. Asking(spotBatch[d], spotClock, live, source, keyIdx) BY <1>1, <2>3 DEF Asked
    <3>3. spotClock <= spotBatch[d].since + Budget BY <3>2 DEF Asking
    <3>4. \A a \in DOMAIN live : live[a].at \in Nat BY <1>1 DEF Memory
    <3> QED BY <1>9, <3>1, <3>2, <3>3, <3>4, Drift
  <2> QED BY <1>1, <1>2, <2>1, <2>2, <2>3 DEF Asked
<1>12. Claims'
  <2>1. /\ b.asked = DOMAIN b.out \cup DOMAIN b.task
        /\ DOMAIN b.out \cap DOMAIN b.task = {}
    BY <1>3 DEF Asking
  <2>2. DOMAIN out \cup Q!Failures(b) = b.asked
    BY <1>4, <1>6, <2>1
  <2>3. \A a \in DOMAIN out :
            out[a].from \in Market =>
                /\ out[a].print \in Int
                /\ out[a].print >= IF a \in DOMAIN b.task THEN b.since - LiveTTL
                                   ELSE b.since - (SpotTTL - 1) - LiveTTL - Budget
    BY <1>3, <1>6, <1>7, <1>8, <2>1 DEF Asking, Tasked
  <2>4. \A a \in DOMAIN out :
            out[a].from = "daily" /\ (a \in DOMAIN b.task \/ b.alone) =>
                source'[a] = "daily"
    BY <1>3, <1>5, <1>6, <1>7, <2>1 DEF Asking
  <2>5. \A a \in DOMAIN out \cap DOMAIN b.task :
            out[a].from = "daily" =>
                a \notin DOMAIN b.known \/ spotClock - b.known[a].at > LiveTTL
    BY <1>6, <1>8, <2>1 DEF Tasked
  <2>6. \A a \in DOMAIN b.task :
            /\ b.task[a].held \in 0..Keys - 1
            /\ b.alone /\ DOMAIN b.task = {a} => \E key : Turned(b.task[a], key)
    BY <1>3, <1>8 DEF Asking, Tasked
  <2> QED BY <1>2, <1>9, <2>2, <2>3, <2>4, <2>5, <2>6, Telling
<1> QED BY <1>10, <1>11, <1>12 DEF SpotInv

LEMMA OthersKeep ==
    ASSUME SpotInv, quoted' = Q!Untold,
           (\E c \in Callers : Q!Cut(c)) \/ Q!StrayTurns \/ Q!Restart \/ Q!Tick
    PROVE  SpotInv'
<1>1. Memory /\ Asked BY DEF SpotInv
<1>2. Claims'
  BY DEF Claims, Q!Untold, Q!None, Q!FreshEnough, Q!DailyLast, Q!TrustedAlone,
         Q!AllAnswered, Q!KeysTried
<1>3. DOMAIN Q!Quiet = Fields /\ Resting(Q!Quiet)
  BY DEF Q!Quiet, Q!None, Fields, Resting
<1>4. ASSUME NEW c \in Callers, Q!Cut(c) PROVE Memory' /\ Asked'
  <2>1. /\ spotBatch' = [spotBatch EXCEPT ![c] = Q!Quiet]
        /\ UNCHANGED <<spotClock, spotCache, live, source, keyIdx>>
        /\ spotBatch[c].pc = "out"
    BY <1>4 DEF Q!Cut, Q!memory
  <2>2. /\ DOMAIN spotBatch' = Callers /\ spotBatch'[c] = Q!Quiet
        /\ \A d \in Callers \ {c} : spotBatch'[d] = spotBatch[d]
    BY <1>1, <2>1 DEF Asked
  <2>3. Memory' BY <1>1, <2>1 DEF Memory
  <2>4. \A d \in Callers \ {c} : Resting(spotBatch[d]) \/ ~spotBatch[d].alone
    BY <1>1, <2>1, NotAlone DEF Asked
  <2>5. Asked' BY <1>1, <1>3, <2>1, <2>2, <2>4 DEF Asked
  <2> QED BY <2>3, <2>5
<1>5. CASE Q!Restart
  <2>1. /\ spotBatch' = [c \in Callers |-> Q!Quiet] /\ spotClock' = spotClock
        /\ spotCache' = Q!None /\ live' = Q!None /\ source' = Q!None /\ keyIdx' = 0
    BY <1>5 DEF Q!Restart
  <2>2. DOMAIN Q!None = {} BY DEF Q!None
  <2>3. Memory' BY <1>1, <2>1, <2>2, WatchAssumption DEF Memory
  <2>4. Asked' BY <1>3, <2>1 DEF Asked
  <2> QED BY <1>2, <2>3, <2>4 DEF SpotInv
<1>6. CASE Q!Tick
  <2>1. /\ spotClock' = spotClock + 1
        /\ UNCHANGED <<spotCache, live, source, keyIdx, strays, spotBatch>>
        /\ \A c \in Callers : spotBatch[c].pc = "out" =>
                spotClock < spotBatch[c].since + Budget
    BY <1>6 DEF Q!Tick, Q!memory
  <2>2. /\ spotClock \in Nat /\ spotClock' \in Nat /\ spotClock <= spotClock'
        /\ \A a \in DOMAIN live : live[a].at \in Nat
    BY <1>1, <2>1 DEF Memory
  <2>3. Memory' BY <1>1, <2>1, <2>2 DEF Memory
  <2>4. ASSUME NEW c \in Callers, spotBatch[c].pc = "out",
               Asking(spotBatch[c], spotClock, live, source, keyIdx)
        PROVE  Asking(spotBatch[c], spotClock', live, source, keyIdx)
    <3>1. spotBatch[c].since \in Nat BY <2>4 DEF Asking
    <3>2. spotClock' <= spotBatch[c].since + Budget
      BY <2>1, <2>2, <2>4, <3>1, WatchAssumption
    <3>3. \A a \in DOMAIN live : live[a].at \in Nat /\ live[a].at <= live[a].at BY <2>2
    <3> QED BY <2>2, <2>4, <3>2, <3>3, Drift, SMTT(30)
  <2>5. Asked' BY <1>1, <2>1, <2>4 DEF Asked
  <2> QED BY <1>2, <2>3, <2>5 DEF SpotInv
<1>7. CASE Q!StrayTurns
  <2>1. /\ strays > 0 /\ keyIdx' = (keyIdx + 1) % Keys
        /\ UNCHANGED <<spotClock, spotCache, live, source, spotBatch>>
    BY <1>7 DEF Q!StrayTurns, Q!memory
  <2>2. keyIdx' \in 0..Keys - 1 BY <1>1, <2>1, WatchAssumption DEF Memory
  <2>3. Memory' BY <1>1, <2>1, <2>2 DEF Memory
  <2>4. ASSUME NEW c \in Callers, spotBatch[c].pc = "out", ~spotBatch[c].alone,
               Asking(spotBatch[c], spotClock, live, source, keyIdx)
        PROVE  Asking(spotBatch[c], spotClock, live, source, keyIdx')
    BY <2>4 DEF Asking
  <2>5. \A c \in Callers : Resting(spotBatch[c]) \/ ~spotBatch[c].alone
    BY <1>1, <2>1 DEF Asked
  <2>6. Asked' BY <1>1, <2>1, <2>4, <2>5 DEF Asked
  <2> QED BY <1>2, <2>3, <2>6 DEF SpotInv
<1> QED BY <1>2, <1>4, <1>5, <1>6, <1>7 DEF SpotInv

LEMMA SpotStart == Q!Init => SpotInv
<1> SUFFICES ASSUME Q!Init PROVE SpotInv
  OBVIOUS
<1>1. DOMAIN Q!None = {} BY DEF Q!None
<1>2. DOMAIN Q!Quiet = Fields /\ Resting(Q!Quiet)
  BY DEF Q!Quiet, Q!None, Fields, Resting
<1>3. Memory BY <1>1, WatchAssumption DEF Q!Init, Memory
<1>4. Asked BY <1>2 DEF Q!Init, Asked
<1>5. Claims BY Silent DEF Q!Init
<1> QED BY <1>3, <1>4, <1>5 DEF SpotInv

LEMMA SpotAlways == WatchSpec => []SpotInv
<1>1. ASSUME SpotInv, [WatchNext]_allVars PROVE SpotInv'
  <2>1. Q!Next \/ UNCHANGED spotVars BY <1>1 DEF WatchNext, allVars
  <2>2. CASE UNCHANGED spotVars
    BY <1>1, <2>2 DEF spotVars, SpotInv, Memory, Asked, Claims, Q!FreshEnough,
                      Q!DailyLast, Q!TrustedAlone, Q!AllAnswered, Q!KeysTried
  <2>3. ASSUME Q!Inward, quoted' = Q!Untold PROVE SpotInv'
    BY <1>1, <2>3, AnswersKeep, OthersKeep DEF Q!Inward
  <2> QED BY <1>1, <2>1, <2>2, <2>3, AsksKeep, BatchKeeps DEF Q!Next
<1>2. WatchInit => SpotInv BY SpotStart DEF WatchInit
<1> QED BY <1>1, <1>2, PTL DEF WatchSpec

\* A price served as intraday is the market's of a bounded time ago, a daily
\* rate is fetched for want of one, and a trusted caller gets none of those but
\* from a cache whose source another batch is changing.
THEOREM PricesAlwaysFresh == WatchSpec => []PricesFresh
<1>1. SpotInv => PricesFresh BY DEF SpotInv, Claims, PricesFresh
<1> QED BY <1>1, SpotAlways, PTL

\* Every asset asked for is answered, with a price or as a failure, and a lone
\* task gives up after every key refused it.
THEOREM NoneEverForgotten == WatchSpec => []NoneForgotten
<1>1. SpotInv => NoneForgotten BY DEF SpotInv, Claims, NoneForgotten
<1> QED BY <1>1, SpotAlways, PTL
=============================================================================
