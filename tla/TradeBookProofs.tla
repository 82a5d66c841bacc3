-------------------------- MODULE TradeBookProofs --------------------------
(***************************************************************************)
(* Proofs about TradeBook, for every number of orders, tickets, signals    *)
(* and restarts, every size of an order and of a slice, and every set of   *)
(* failing calls:                                                          *)
(*   WellTyped        the type invariant                                   *)
(*   NeverReused      no order takes a ticket that anything remembers      *)
(*   AlwaysGuarded    every open trade has its position in the book        *)
(*   AlwaysJournalled every position has an open row of its own            *)
(*   AlwaysPriced     the guard books the profit of every lot once         *)
(* and one cycle of the auto trader relies on the one look it takes at the *)
(* open trades, as long as no one else placed an order since:              *)
(*   NeverStacked     it never fires into an asset with an open trade      *)
(*   CapKept          it never fires over the cap on open positions        *)
(***************************************************************************)
EXTENDS TradeBook, FiniteSetTheorems, WellFoundedInduction, TLAPS

(***************************************************************************)
(* The greatest of a bounded set of numbers                                *)
(***************************************************************************)
LEMMA HasLeast ==
    ASSUME NEW T \in SUBSET Nat, T # {}
    PROVE  \E x \in T : \A y \in T : x <= y
<1> DEFINE R == OpToRel(<, Nat)
<1>1. \E x \in T : \A y \in T : ~(<<y, x>> \in R)
  <2>1. IsWellFoundedOn(R, Nat)
    BY NatLessThanWellFounded
  <2> HIDE DEF R
  <2> QED BY <2>1, WFMin
<1>2. \A x, y \in Nat : ~(<<y, x>> \in R) => x <= y
  BY DEF OpToRel
<1> QED BY <1>1, <1>2

LEMMA HighestOf ==
    ASSUME NEW B \in Nat, NEW S \in SUBSET (0..B)
    PROVE  /\ Highest(S) \in S \cup {0}
           /\ \A n \in S : n <= Highest(S)
<1> DEFINE T == {B - n : n \in S \cup {0}}
<1>1. T \in SUBSET Nat /\ T # {}
  OBVIOUS
<1>2. PICK x \in T : \A y \in T : x <= y
  <2> HIDE DEF T
  <2> QED BY <1>1, HasLeast
<1>3. PICK n \in S \cup {0} : x = B - n
  OBVIOUS
<1>4. \A m \in S \cup {0} : m <= n
  <2>1. TAKE m \in S \cup {0}
  <2>2. B - m \in T /\ m \in 0..B /\ n \in 0..B
    OBVIOUS
  <2>3. B - n <= B - m
    BY <1>2, <1>3, <2>2
  <2> QED BY <2>2, <2>3
<1> QED BY <1>4 DEF Highest

(***************************************************************************)
(* The type invariant is not inductive by itself: a slice is banked twice  *)
(* over unless what is left and what is banked fit the order (Fits), and   *)
(* startup reads rows that must still be there (Walking).                  *)
(***************************************************************************)
Fits(p) == p.volume + p.banked <= Lots

JournalOK(j) ==
    /\ DOMAIN j \subseteq Trades
    /\ \A t \in DOMAIN j : j[t] \in Row /\ (j[t].status = "open" => Fits(j[t]))

BookOK(b) ==
    /\ DOMAIN b \subseteq Tickets
    /\ \A k \in DOMAIN b : b[k] \in Position /\ Fits(b[k])

Autos == [pc : {"idle", "walk", "mark"}, batch : SUBSET Signals,
          held : SUBSET Assets, open : Nat, sig : Signals \cup {NoSignal},
          alone : BOOLEAN]
Desks == {d \in [pc : {"idle", "gate", "mark"}, sig : Signals \cup {NoSignal}] :
             d.pc # "idle" => d.sig \in Signals}
Closings == {c \in [pc : {"idle", "close", "row"}, trade : 0..MaxTrades,
                    asset : Assets \cup {NoAsset}, ticket : 0..MaxTickets,
                    volume : 0..Lots] :
                c.pc # "idle" => c.ticket \in Tickets}

Walking ==
    /\ boot \in [pc : {"up", "walk"}, left : SUBSET Trades]
    /\ boot.left \subseteq OpenRows /\ (Up => boot.left = {})

Inv ==
    /\ signals \in [Signals -> Approvals]
    /\ JournalOK(journal) /\ BookOK(book)
    /\ seq \in 0..MaxTickets /\ placed \in 0..MaxTrades
    /\ logged \subseteq Tickets
    /\ auto \in Autos /\ desk \in Desks /\ closing \in Closings
    /\ Walking
    /\ failed \subseteq Kinds
    /\ restarts \in 0..MaxRestarts

LEMMA InvTypes == Inv => TypeOK
  BY DEF Inv, TypeOK, JournalOK, BookOK, Autos, Desks, Closings, Walking

LEMMA InitInv == Init => Inv
<1> SUFFICES ASSUME Init PROVE Inv
  OBVIOUS
<1> USE TradeBookAssumption DEF Init
<1>1. JournalOK(journal) /\ BookOK(book)
  BY DEF JournalOK, BookOK, EmptyBook
<1>2. auto \in Autos /\ desk \in Desks /\ closing \in Closings
  BY DEF Autos, Desks, Closings, IdleAuto, IdleDesk, IdleClosing, NoRow
<1>3. Walking
  BY DEF Walking, Up
<1> QED BY <1>1, <1>2, <1>3 DEF Inv, Approvals

LEMMA IdleOK ==
    IdleAuto \in Autos /\ IdleDesk \in Desks /\ IdleClosing \in Closings
  BY TradeBookAssumption
  DEF Autos, Desks, Closings, IdleAuto, IdleDesk, IdleClosing, NoRow

(***************************************************************************)
(* Orders                                                                  *)
(***************************************************************************)
LEMMA LogsOK ==
    ASSUME logged \subseteq Tickets, NEW k \in Tickets, NEW misses,
           Logs(k, misses)
    PROVE  logged' \subseteq Tickets
  BY DEF Logs

LEMMA OrderOK ==
    ASSUME Inv, NEW a \in Assets, NEW misses \in SUBSET Kinds, Order(a, misses)
    PROVE  /\ JournalOK(journal') /\ BookOK(book')
           /\ seq' \in 0..MaxTickets /\ placed' \in 0..MaxTrades
           /\ logged' \subseteq Tickets /\ failed' \subseteq Kinds
<1> DEFINE k == seq + 1
           t == placed + 1
           p == [trade |-> t, asset |-> a, volume |-> Lots, banked |-> 0,
                 partial |-> FALSE, row |-> NoRow]
           r == [status |-> "open", asset |-> a, ticket |-> k,
                 volume |-> Lots, banked |-> 0, partial |-> FALSE,
                 priced |-> 0, by |-> ""]
<1>1. k \in Tickets /\ t \in Trades /\ seq' = k /\ placed' = t
  BY DEF Order
<1>2. p \in Position /\ Fits(p)
  BY <1>1, TradeBookAssumption DEF Position, Fits, NoRow
<1>3. r \in Row /\ Fits(r)
  BY <1>1, TradeBookAssumption DEF Row, Fits
<1> HIDE DEF p, r
<1>4. BookOK(book')
  <2>1. book' = Put(book, k, p)
    BY DEF Order, p
  <2> QED BY <1>1, <1>2, <2>1 DEF Inv, BookOK, Put
<1>5. JournalOK(journal')
  <2>1. journal' = journal \/ journal' = Put(journal, t, r)
    BY DEF Order, r
  <2> QED BY <1>1, <1>3, <2>1 DEF Inv, JournalOK, Put
<1>6. logged' \subseteq Tickets /\ failed' \subseteq Kinds
  BY <1>1, LogsOK DEF Order, Inv
<1> QED BY <1>1, <1>4, <1>5, <1>6 DEF Trades, Tickets

LEMMA WalkingUp == ASSUME Walking, Up, UNCHANGED boot PROVE Walking'
  BY DEF Walking, Up

LEMMA SignalsType ==
    ASSUME signals \in [Signals -> Approvals], NEW g, NEW v \in Approvals
    PROVE  [signals EXCEPT ![g] = v] \in [Signals -> Approvals]
  OBVIOUS

LEMMA ExpiredType ==
    ASSUME signals \in [Signals -> Approvals], NEW stale
    PROVE  Expired(stale) \in [Signals -> Approvals]
  BY DEF Expired, Approvals

LEMMA OpenCountType ==
    ASSUME Inv, NEW misses PROVE OpenCount(misses) \in Nat
<1>1. OpenRows \in SUBSET Trades
  BY DEF Inv, JournalOK, OpenRows
<1>2. IsFiniteSet(Trades)
  BY TradeBookAssumption, FS_Interval DEF Trades
<1>3. Cardinality(OpenRows) \in Nat
  BY <1>1, <1>2, FS_Subset, FS_CardinalityType
<1> QED BY <1>3 DEF OpenCount

LEMMA AdmittedOK ==
    ASSUME Inv, NEW a \in Assets, Admitted(a)
    PROVE  /\ JournalOK(journal') /\ BookOK(book')
           /\ seq' \in 0..MaxTickets /\ placed' \in 0..MaxTrades
           /\ logged' \subseteq Tickets /\ failed' \subseteq Kinds
<1>1. PICK misses \in SUBSET Kinds : Order(a, misses)
  BY DEF Admitted, Misses
<1> QED BY <1>1, OrderOK

LEMMA AutoInv ==
    ASSUME Inv, Up, AutoStart \/ AutoMark \/ AutoEnd
                    \/ \E g \in Signals : AutoSkip(g) \/ AutoPlace(g)
    PROVE  Inv'
<1> USE DEF process
<1>0. auto \in Autos /\ Walking /\ signals \in [Signals -> Approvals]
  BY DEF Inv
<1>1. CASE AutoStart
  <2>1. PICK stale \in SUBSET Pending, misses \in SUBSET Kinds :
           /\ signals' = Expired(stale)
           /\ auto' = [pc |-> "walk", batch |-> Pending \ stale,
                       held |-> OpenAssets, open |-> OpenCount(misses),
                       sig |-> NoSignal, alone |-> TRUE]
           /\ failed' = failed \cup misses
    BY <1>1 DEF AutoStart, Misses
  <2>2. OpenAssets \subseteq Assets
    BY DEF Inv, JournalOK, BookOK, OpenAssets, OpenRows, Row, Position
  <2>3. auto' \in Autos
    BY <2>1, <2>2, OpenCountType DEF Autos, Pending
  <2>4. signals' \in [Signals -> Approvals]
    BY <1>0, <2>1, ExpiredType
  <2> QED
    BY <1>0, <1>1, <2>1, <2>3, <2>4, WalkingUp
    DEF AutoStart, Inv, tables, broker
<1>2. CASE AutoMark
  <2>1. signals' \in [Signals -> Approvals]
    BY <1>0, <1>2, SignalsType DEF AutoMark, Approvals
  <2>2. auto' \in Autos
    <3>1. auto.open \in Nat /\ auto.open + 1 \in Nat
      BY <1>0 DEF Autos
    <3>2. auto' = [auto EXCEPT !.pc = "walk", !.sig = NoSignal,
                              !.open = auto.open + 1]
      BY <1>2 DEF AutoMark, Fired
    <3> QED BY <1>0, <3>1, <3>2 DEF Autos
  <2> QED
    BY <1>0, <1>2, <2>1, <2>2, WalkingUp DEF AutoMark, Inv, tables, broker
<1>3. CASE AutoEnd
  BY <1>0, <1>3, IdleOK, WalkingUp DEF AutoEnd, Inv, tables, broker
<1>4. ASSUME NEW g \in Signals, AutoSkip(g) PROVE Inv'
  <2>1. auto' \in Autos
    BY <1>0, <1>4 DEF AutoSkip, Autos
  <2> QED BY <1>0, <1>4, <2>1, WalkingUp DEF AutoSkip, Inv, tables, broker
<1>5. ASSUME NEW g \in Signals, AutoPlace(g) PROVE Inv'
  <2>1. PICK misses \in SUBSET Kinds : Order(AssetOf[g], misses)
    BY <1>5 DEF AutoPlace, Misses
  <2>2. AssetOf[g] \in Assets
    BY TradeBookAssumption
  <2>3. auto' \in Autos
    BY <1>0, <1>5 DEF AutoPlace, Autos
  <2> QED
    BY <1>0, <1>5, <2>1, <2>2, <2>3, OrderOK, WalkingUp DEF AutoPlace, Inv
<1> QED BY <1>1, <1>2, <1>3, <1>4, <1>5

LEMMA DeskInv ==
    ASSUME Inv, Up, DeskPlace \/ DeskRefuse \/ DeskMark
                    \/ (\E g \in Signals : Approve(g))
                    \/ (\E a \in Assets : ExtendedOpen(a))
    PROVE  Inv'
<1> USE DEF process
<1>0. desk \in Desks /\ auto \in Autos /\ Walking
      /\ signals \in [Signals -> Approvals]
  BY DEF Inv
<1>1. [auto EXCEPT !.alone = (auto.pc = "idle")] \in Autos
  BY <1>0 DEF Autos
<1>2. CASE DeskPlace
  <2>1. AssetOf[desk.sig] \in Assets /\ desk' \in Desks
    BY <1>0, <1>2, TradeBookAssumption DEF DeskPlace, Desks
  <2> QED
    BY <1>0, <1>1, <1>2, <2>1, AdmittedOK, WalkingUp DEF DeskPlace, Inv
<1>3. CASE DeskRefuse
  <2>1. signals' \in [Signals -> Approvals]
    BY <1>0, <1>3, SignalsType DEF DeskRefuse, Approvals
  <2> QED
    BY <1>0, <1>3, <2>1, IdleOK, WalkingUp
    DEF DeskRefuse, Inv, tables, broker
<1>4. CASE DeskMark
  <2>1. signals' \in [Signals -> Approvals]
    BY <1>0, <1>4, SignalsType DEF DeskMark, Approvals
  <2> QED
    BY <1>0, <1>4, <2>1, IdleOK, WalkingUp DEF DeskMark, Inv, tables, broker
<1>5. ASSUME NEW g \in Signals, Approve(g) PROVE Inv'
  <2>1. signals' \in [Signals -> Approvals] /\ desk' \in Desks
    BY <1>0, <1>5, SignalsType DEF Approve, Approvals, Desks
  <2> QED
    BY <1>0, <1>5, <2>1, WalkingUp DEF Approve, Inv, tables, broker
<1>6. ASSUME NEW a \in Assets, ExtendedOpen(a) PROVE Inv'
  BY <1>0, <1>1, <1>6, AdmittedOK, WalkingUp DEF ExtendedOpen, Inv
<1> QED BY <1>2, <1>3, <1>4, <1>5, <1>6

LEMMA EntryInv == ASSUME Inv, Up, Entry PROVE Inv'
<1> USE DEF process
<1>0. Walking /\ signals \in [Signals -> Approvals]
  BY DEF Inv
<1>1. ASSUME NEW g \in Signals, Publish(g) PROVE Inv'
  <2>1. signals' \in [Signals -> Approvals] /\ failed' \subseteq Kinds
    BY <1>0, <1>1, SignalsType DEF Publish, Approvals, Misses, Inv
  <2> QED
    BY <1>0, <1>1, <2>1, WalkingUp DEF Publish, Inv, tables, broker, flights
<1>2. ASSUME NEW g \in Signals, Reject(g) PROVE Inv'
  <2>1. signals' \in [Signals -> Approvals]
    BY <1>0, <1>2, SignalsType DEF Reject, Approvals
  <2> QED
    BY <1>0, <1>2, <2>1, WalkingUp DEF Reject, Inv, tables, broker, flights
<1>3. CASE Expire
  <2>1. signals' \in [Signals -> Approvals]
    BY <1>0, <1>3, ExpiredType DEF Expire
  <2> QED
    BY <1>0, <1>3, <2>1, WalkingUp DEF Expire, Inv, tables, broker, flights
<1> QED BY <1>1, <1>2, <1>3, AutoInv, DeskInv DEF Entry

(***************************************************************************)
(* Closes                                                                  *)
(***************************************************************************)
LEMMA RowFields ==
    ASSUME NEW r \in Row
    PROVE  /\ r.volume \in 1..Lots /\ r.banked \in 0..Lots
           /\ r.ticket \in Tickets /\ r.asset \in Assets
           /\ r.partial \in BOOLEAN
  BY DEF Row

LEMMA CloseRowOK ==
    ASSUME JournalOK(journal), NEW k, NEW a, NEW lots \in 0..Lots,
           NEW by \in {"guard", "owner"}
    PROVE  JournalOK(CloseRow(k, a, lots, by))
<1> DEFINE matching == {t \in OpenRows \cap RowsOf(k) : journal[t].asset = a}
           u == Highest(matching)
           v == IF journal[u].banked > 0 THEN Lots ELSE journal[u].volume
           new == [journal EXCEPT ![u].status = "closed", ![u].by = by,
                                  ![u].priced = journal[u].banked + lots,
                                  ![u].volume = v]
<1>1. CloseRow(k, a, lots, by) = IF matching = {} THEN journal ELSE new
  BY DEF CloseRow
<1>2. JournalOK(new)
  <2> HIDE DEF u
  <2>1. DOMAIN new = DOMAIN journal
    OBVIOUS
  <2>2. ASSUME NEW t \in DOMAIN journal
        PROVE  new[t] \in Row /\ (new[t].status = "open" => Fits(new[t]))
    <3>1. CASE t # u
      BY <2>2, <3>1 DEF JournalOK
    <3>2. CASE t = u
      <4>1. journal[u] \in Row
        BY <2>2, <3>2 DEF JournalOK
      <4>2. new[u] = [journal[u] EXCEPT !.status = "closed", !.by = by,
                                        !.priced = journal[u].banked + lots,
                                        !.volume = v]
        BY <2>2, <3>2
      <4>0. journal[u].volume \in 1..Lots /\ journal[u].banked \in 0..Lots
        BY <4>1, RowFields
      <4>3. v \in 1..Lots
        BY <4>0, TradeBookAssumption
      <4>4. journal[u].banked + lots \in 0..(2 * Lots)
        BY <4>0, TradeBookAssumption
      <4> HIDE DEF v, new
      <4>5. new[u] \in Row /\ new[u].status = "closed"
        BY <4>1, <4>2, <4>3, <4>4 DEF Row
      <4> QED BY <3>2, <4>5
    <3> QED BY <3>1, <3>2
  <2> QED BY <2>1, <2>2 DEF JournalOK
<1> HIDE DEF new, matching
<1> QED BY <1>1, <1>2

LEMMA ClosesOK ==
    ASSUME Inv, NEW k \in Tickets, NEW a, NEW lots \in 0..Lots,
           NEW by \in {"guard", "owner"}, Closes(k, a, lots, by)
    PROVE  /\ JournalOK(journal')
           /\ logged' \subseteq Tickets /\ failed' \subseteq Kinds
<1>1. PICK misses \in SUBSET Kinds :
         /\ journal' = IF "update" \in misses THEN journal
                       ELSE CloseRow(k, a, lots, by)
         /\ Logs(k, misses)
         /\ failed' = failed \cup misses
  BY DEF Closes, Misses
<1>2. JournalOK(journal')
  BY <1>1, CloseRowOK DEF Inv
<1>3. logged' \subseteq Tickets
  BY <1>1, LogsOK DEF Inv
<1> QED BY <1>1, <1>2, <1>3 DEF Inv

LEMMA PatchOK ==
    ASSUME JournalOK(journal), NEW t, NEW p,
           p.volume \in 1..Lots, p.banked \in 0..Lots, Fits(p)
    PROVE  JournalOK(Patch(t, p))
<1> DEFINE new == [journal EXCEPT ![t].partial = TRUE, ![t].volume = p.volume,
                                  ![t].banked = p.banked]
<1>1. Patch(t, p) = new /\ DOMAIN new = DOMAIN journal
  BY DEF Patch
<1>2. ASSUME NEW u \in DOMAIN journal
      PROVE  new[u] \in Row /\ (new[u].status = "open" => Fits(new[u]))
  <2>1. CASE u # t
    BY <1>2, <2>1 DEF JournalOK
  <2>2. CASE u = t
    <3>1. journal[t] \in Row
      BY <1>2, <2>2 DEF JournalOK
    <3>2. new[t] = [journal[t] EXCEPT !.partial = TRUE, !.volume = p.volume,
                                      !.banked = p.banked]
      BY <1>2, <2>2
    <3> HIDE DEF new
    <3> QED BY <2>2, <3>1, <3>2 DEF Row, Fits
  <2> QED BY <2>1, <2>2
<1> HIDE DEF new
<1> QED BY <1>1, <1>2 DEF JournalOK

LEMMA DropOK == ASSUME BookOK(book), NEW k PROVE BookOK(Drop(book, k))
  BY DEF BookOK, Drop, Restrict

LEMMA PartialInv ==
    ASSUME Inv, Up, NEW k \in DOMAIN book, GuardPartial(k)
    PROVE  Inv'
<1> DEFINE p == [book[k] EXCEPT !.partial = TRUE, !.volume = @ - Slice,
                                !.banked = @ + Slice]
           row == IF p.row # NoRow THEN p.row ELSE Highest(RowsOf(k))
<1>1. /\ book[k] \in Position /\ Fits(book[k]) /\ k \in Tickets
      /\ Slice < book[k].volume
  BY DEF Inv, BookOK, GuardPartial, Slices
<1>2. p \in Position /\ Fits(p)
  <2>1. book[k].volume - Slice \in 1..Lots /\ book[k].banked + Slice \in 0..Lots
    BY <1>1, TradeBookAssumption DEF Position, Fits
  <2>2. p = [book[k] EXCEPT !.partial = TRUE, !.volume = book[k].volume - Slice,
                            !.banked = book[k].banked + Slice]
    BY <1>1 DEF Position
  <2>3. p.volume = book[k].volume - Slice /\ p.banked = book[k].banked + Slice
    BY <1>1 DEF Position
  <2> HIDE DEF p
  <2>4. p \in Position
    BY <1>1, <2>1, <2>2 DEF Position
  <2>5. Fits(p)
    BY <1>1, <2>1, <2>3, TradeBookAssumption DEF Fits, Position
  <2> QED BY <2>4, <2>5
<1>3. /\ book' = [book EXCEPT ![k] = p]
      /\ \E misses \in SUBSET Kinds :
            /\ journal' = journal \/ journal' = Patch(row, p)
            /\ Logs(k, misses)
            /\ failed' = failed \cup misses
      /\ UNCHANGED <<signals, seq, placed, flights, boot, restarts>>
  BY DEF GuardPartial, Misses, process
<1> HIDE DEF p, row
<1>4. BookOK(book')
  BY <1>2, <1>3 DEF Inv, BookOK
<1>5. JournalOK(journal')
  <2>1. p.volume \in 1..Lots /\ p.banked \in 0..Lots
    BY <1>2 DEF Position
  <2> QED BY <1>2, <1>3, <2>1, PatchOK DEF Inv
<1>6. logged' \subseteq Tickets /\ failed' \subseteq Kinds
  BY <1>1, <1>3, LogsOK DEF Inv
<1> QED BY <1>3, <1>4, <1>5, <1>6, WalkingUp DEF Inv, flights

LEMMA ExitInv == ASSUME Inv, Up, Exit PROVE Inv'
<1> USE DEF process
<1>0. Walking /\ closing \in Closings /\ BookOK(book) /\ JournalOK(journal)
  BY DEF Inv
<1>1. ASSUME NEW k \in DOMAIN book, GuardClose(k) PROVE Inv'
  <2>1. k \in Tickets /\ book[k].volume \in 0..Lots
    BY <1>0, TradeBookAssumption DEF BookOK, Position
  <2> QED
    BY <1>0, <1>1, <2>1, ClosesOK, DropOK, WalkingUp
    DEF GuardClose, Inv, flights
<1>2. ASSUME NEW t \in DOMAIN journal, CloseStart(t) PROVE Inv'
  <2>1. journal[t] \in Row /\ t \in 0..MaxTrades
    BY <1>0, TradeBookAssumption DEF JournalOK, Trades
  <2>2. closing' \in Closings
    <3>1. /\ journal[t].ticket \in Tickets /\ journal[t].ticket \in 0..MaxTickets
          /\ journal[t].asset \in Assets
          /\ journal[t].volume \in 0..Lots
      BY <2>1, RowFields, TradeBookAssumption DEF Tickets
    <3> QED BY <1>2, <2>1, <3>1 DEF CloseStart, Closings
  <2> QED
    BY <1>0, <1>2, <2>2, WalkingUp DEF CloseStart, Inv, tables, broker
<1>3. CASE CloseBroker
  <2>1. closing' \in Closings
    BY <1>0, <1>3, IdleOK DEF CloseBroker, Closings
  <2>2. BookOK(book')
    BY <1>0, <1>3, DropOK DEF CloseBroker
  <2> QED
    BY <1>0, <1>3, <2>1, <2>2, WalkingUp DEF CloseBroker, Inv, tables
<1>4. CASE CloseJournal
  <2>1. closing.ticket \in Tickets /\ closing.volume \in 0..Lots
    BY <1>0, <1>4 DEF CloseJournal, Closings
  <2> QED
    BY <1>0, <1>4, <2>1, ClosesOK, IdleOK, WalkingUp
    DEF CloseJournal, Inv, broker
<1> QED BY <1>1, <1>2, <1>3, <1>4, PartialInv DEF Exit

LEMMA UpkeepInv == ASSUME Inv, Up, Upkeep PROVE Inv'
<1> USE DEF process
<1>0. Walking /\ JournalOK(journal)
  BY DEF Inv
<1>1. CASE Reset
  <2>1. JournalOK(journal')
    BY <1>0, <1>1 DEF Reset, JournalOK, Restrict
  <2> QED BY <1>0, <1>1, <2>1, WalkingUp DEF Reset, Inv, broker, flights
<1>2. ASSUME NEW k \in logged, Forget(k) PROVE Inv'
  BY <1>0, <1>2, WalkingUp DEF Forget, Inv, broker, flights
<1> QED BY <1>1, <1>2 DEF Upkeep

(***************************************************************************)
(* Startup                                                                 *)
(***************************************************************************)
\* the row that a turn of startup takes is one of those left
LEMMA NextRow ==
    ASSUME Inv, boot.left # {}
    PROVE  Highest(boot.left) \in boot.left
<1>1. boot.left \in SUBSET (0..MaxTrades) /\ \A n \in boot.left : n >= 1
  BY DEF Inv, Walking, Trades
<1>2. MaxTrades \in Nat
  BY TradeBookAssumption
<1>3. /\ Highest(boot.left) \in boot.left \cup {0}
      /\ \A n \in boot.left : n <= Highest(boot.left)
  BY <1>1, <1>2, HighestOf
<1> QED BY <1>1, <1>3

LEMMA HighestTicket ==
    ASSUME NEW S \in SUBSET (0..MaxTickets)
    PROVE  /\ Highest(S) \in 0..MaxTickets
           /\ \A n \in S : n <= Highest(S)
<1>1. MaxTickets \in Nat
  BY TradeBookAssumption
<1>2. Highest(S) \in S \cup {0} /\ \A n \in S : n <= Highest(S)
  BY <1>1, HighestOf
<1>3. S \cup {0} \subseteq 0..MaxTickets
  BY <1>1
<1> HIDE DEF Highest
<1> QED BY <1>2, <1>3

LEMMA TicketsInOK ==
    ASSUME JournalOK(journal)
    PROVE  TicketsIn(DOMAIN journal) \subseteq Tickets
  BY RowFields DEF JournalOK, TicketsIn

LEMMA SeededOK ==
    ASSUME Inv, NEW misses
    PROVE  /\ Seeded(misses) \in 0..MaxTickets /\ seq <= Seeded(misses)
           /\ misses \cap {"seed_trades", "seed_logs"} = {} =>
                \A k \in TicketsIn(DOMAIN journal) \cup logged :
                    k <= Seeded(misses)
<1> DEFINE S == {seq} \cup (IF "seed_trades" \in misses THEN {}
                           ELSE TicketsIn(DOMAIN journal))
                     \cup (IF "seed_logs" \in misses THEN {} ELSE logged)
<1>1. S \in SUBSET (0..MaxTickets)
  <2>1. /\ TicketsIn(DOMAIN journal) \subseteq Tickets /\ logged \subseteq Tickets
        /\ seq \in 0..MaxTickets
    BY TicketsInOK DEF Inv
  <2>2. Tickets \subseteq 0..MaxTickets
    BY DEF Tickets
  <2> QED BY <2>1, <2>2
<1>2. Seeded(misses) = Highest(S)
  BY DEF Seeded
<1> QED BY <1>1, <1>2, HighestTicket

LEMMA RenumberOK ==
    ASSUME JournalOK(journal), NEW t, NEW k \in Tickets
    PROVE  /\ JournalOK([journal EXCEPT ![t].ticket = k])
           /\ DOMAIN [journal EXCEPT ![t].ticket = k] = DOMAIN journal
           /\ \A u \in DOMAIN journal :
                [journal EXCEPT ![t].ticket = k][u].status = journal[u].status
<1> DEFINE new == [journal EXCEPT ![t].ticket = k]
<1>1. DOMAIN new = DOMAIN journal
  OBVIOUS
<1>2. ASSUME NEW u \in DOMAIN journal
      PROVE  /\ new[u] \in Row /\ (new[u].status = "open" => Fits(new[u]))
             /\ new[u].status = journal[u].status
  <2>0. journal[u] \in Row /\ (journal[u].status = "open" => Fits(journal[u]))
    BY DEF JournalOK
  <2>1. new[u] = journal[u] \/ new[u] = [journal[u] EXCEPT !.ticket = k]
    OBVIOUS
  <2> HIDE DEF new
  <2> QED BY <2>0, <2>1 DEF Row, Fits
<1>3. JournalOK(new)
  BY <1>1, <1>2 DEF JournalOK
<1> QED BY <1>1, <1>2, <1>3

LEMMA RestoredOK ==
    ASSUME Inv, NEW t \in OpenRows
    PROVE  Restored(t) \in Position /\ Fits(Restored(t))
<1>1. /\ t \in Trades /\ t \in 0..MaxTrades
      /\ journal[t] \in Row /\ Fits(journal[t])
  BY TradeBookAssumption DEF Inv, JournalOK, OpenRows, Trades
<1>2. /\ Restored(t).volume = journal[t].volume
      /\ Restored(t).banked = journal[t].banked
  BY DEF Restored
<1>3. Restored(t) \in Position
  BY <1>1, RowFields DEF Restored, Position
<1> QED BY <1>1, <1>2, <1>3 DEF Fits

LEMMA StartupInv == ASSUME Inv, Startup PROVE Inv'
<1> USE DEF process
<1>0. Walking /\ JournalOK(journal) /\ BookOK(book) /\ seq \in 0..MaxTickets
  BY DEF Inv
<1>1. CASE Restart
  <2>1. PICK misses \in SUBSET Kinds :
           /\ boot' = [pc |-> "walk",
                       left |-> IF "read_open" \in misses THEN {}
                                ELSE OpenRows]
           /\ failed' = misses \cup (failed \cap {"scan"})
    BY <1>1 DEF Restart, Misses
  <2>2. Walking'
    BY <1>0, <1>1, <2>1 DEF Restart, Walking, Up, tables, OpenRows, JournalOK
  <2>3. BookOK(book')
    BY <1>1 DEF Restart, BookOK, EmptyBook
  <2>4. seq' \in 0..MaxTickets /\ restarts' \in 0..MaxRestarts
    BY <1>1, TradeBookAssumption DEF Restart, Inv
  <2> QED BY <1>1, <2>1, <2>2, <2>3, <2>4, IdleOK DEF Restart, Inv, tables
<1>2. CASE RehydrateRow
  <2> DEFINE t == Highest(boot.left)
             k == Number(t)
             new == [journal EXCEPT ![t].ticket = k]
  <2>1. t \in boot.left /\ t \in OpenRows
    BY <1>0, <1>2, NextRow DEF RehydrateRow, Walking
  <2>2. /\ k \in Tickets
        /\ book' = Put(book, k, Restored(t))
        /\ seq' = Highest({seq, k})
        /\ boot' = [boot EXCEPT !.left = @ \ {t}]
        /\ journal' = journal \/ journal' = new
        /\ failed' \subseteq Kinds
    BY <1>2 DEF RehydrateRow, Misses, Inv
  <2> HIDE DEF t, k
  <2>0. /\ JournalOK(new) /\ DOMAIN new = DOMAIN journal
        /\ \A u \in DOMAIN journal : new[u].status = journal[u].status
    BY <1>0, <2>2, RenumberOK
  <2> HIDE DEF new
  <2>3. BookOK(book')
    BY <1>0, <2>1, <2>2, RestoredOK DEF BookOK, Put
  <2>4. JournalOK(journal')
    BY <1>0, <2>2, <2>0
  <2>5. OpenRows' = OpenRows
    BY <2>2, <2>0 DEF OpenRows
  <2>6. seq' \in 0..MaxTickets
    BY <1>0, <2>2, HighestTicket DEF Tickets
  <2>7. Walking'
    BY <1>0, <2>1, <2>2, <2>5 DEF Walking, Up
  <2> QED
    BY <1>2, <2>2, <2>3, <2>4, <2>6, <2>7 DEF RehydrateRow, Inv, flights
<1>3. CASE Seed
  <2>1. PICK misses \in SUBSET Kinds :
           seq' = Seeded(misses) /\ failed' = failed \cup misses
    BY <1>3 DEF Seed, Misses
  <2>2. Walking'
    BY <1>0, <1>3 DEF Seed, Walking, Up, tables, OpenRows
  <2> QED BY <1>3, <2>1, <2>2, SeededOK DEF Seed, Inv, tables, flights
<1> QED BY <1>1, <1>2, <1>3 DEF Startup

LEMMA NextInv == ASSUME Inv, [Next]_vars PROVE Inv'
<1>1. CASE Up /\ (Entry \/ Exit \/ Upkeep)
  BY <1>1, EntryInv, ExitInv, UpkeepInv
<1>2. CASE Startup
  BY <1>2, StartupInv
<1>3. CASE UNCHANGED vars
  BY <1>3
  DEF vars, tables, broker, flights, process, Inv, Walking, Up, OpenRows
<1> QED BY <1>1, <1>2, <1>3 DEF Next

THEOREM Invariant == Spec => []Inv
<1>1. Init => Inv
  BY InitInv
<1>2. Inv /\ [Next]_vars => Inv'
  BY NextInv
<1> QED BY <1>1, <1>2, PTL DEF Spec

\* Every variable keeps its type: no order is banked beyond its size, however
\* many restarts, lost updates and partial closes there are.
THEOREM WellTyped == Spec => []TypeOK
  BY Invariant, InvTypes, PTL

(***************************************************************************)
(* No ticket is reused.  Known is what a new order could be mixed up with; *)
(* Past, that the process is past all of it once it is up, if startup read *)
(* both tables.                                                            *)
(***************************************************************************)
Seeds == {"seed_trades", "seed_logs"}

Known == TicketsIn(DOMAIN journal) \cup logged
         \cup {k \in Tickets : closing.pc # "idle" /\ closing.ticket = k}

Past ==
    /\ \A k \in DOMAIN book : k <= seq
    /\ ~Up => closing = IdleClosing
    /\ Up /\ Healthy(Seeds) => \A k \in Known : k <= seq

LEMMA InitPast == Init => Past
  BY DEF Init, Past, Known, TicketsIn, IdleClosing, EmptyBook

LEMMA PastStep ==
    ASSUME Inv, Inv', Past, Up, UNCHANGED boot, failed \subseteq failed',
           seq <= seq', \A k \in DOMAIN book' : k <= seq',
           \A k \in Known' : k \in Known \/ k <= seq'
    PROVE  Past'
<1>1. /\ Known \subseteq Tickets /\ Tickets \subseteq Nat
      /\ seq \in Nat /\ seq' \in Nat
  <2>1. Known \subseteq Tickets
    BY TicketsInOK DEF Known, Inv
  <2>2. MaxTickets \in Nat /\ seq \in 0..MaxTickets /\ seq' \in 0..MaxTickets
    BY TradeBookAssumption DEF Inv
  <2> QED BY <2>1, <2>2 DEF Tickets
<1>2. ASSUME Up', Healthy(Seeds)', NEW k \in Known' PROVE k <= seq'
  <2>1. Healthy(Seeds)
    BY <1>2 DEF Healthy
  <2>2. k \in Known => k <= seq
    BY <2>1 DEF Past
  <2>3. CASE k \in Known
    BY <1>1, <2>2, <2>3
  <2> QED BY <1>2, <2>3
<1>3. Up'
  BY DEF Up
<1> QED BY <1>2, <1>3 DEF Past

\* a close and a patch leave every ticket in its row
LEMMA TicketsKept ==
    ASSUME JournalOK(journal), NEW j,
           \/ j = journal
           \/ \E k, a, lots, by : j = CloseRow(k, a, lots, by)
           \/ \E t, p : j = Patch(t, p)
    PROVE  /\ DOMAIN j = DOMAIN journal
           /\ \A t \in DOMAIN journal : j[t].ticket = journal[t].ticket
<1>0. \A t \in DOMAIN journal : journal[t] \in Row
  BY DEF JournalOK
<1>1. ASSUME NEW u, NEW by, NEW n, NEW v,
             j = [journal EXCEPT ![u].status = "closed", ![u].by = by,
                                 ![u].priced = n, ![u].volume = v]
      PROVE  /\ DOMAIN j = DOMAIN journal
             /\ \A t \in DOMAIN journal : j[t].ticket = journal[t].ticket
  <2>1. DOMAIN j = DOMAIN journal
    BY <1>1
  <2>2. ASSUME NEW t \in DOMAIN journal PROVE j[t].ticket = journal[t].ticket
    <3>1. \/ j[t] = journal[t]
          \/ j[t] = [journal[t] EXCEPT !.status = "closed", !.by = by,
                                       !.priced = n, !.volume = v]
      BY <1>1
    <3> QED BY <1>0, <3>1 DEF Row
  <2> QED BY <2>1, <2>2
<1>2. ASSUME NEW u, NEW p,
             j = [journal EXCEPT ![u].partial = TRUE, ![u].volume = p.volume,
                                 ![u].banked = p.banked]
      PROVE  /\ DOMAIN j = DOMAIN journal
             /\ \A t \in DOMAIN journal : j[t].ticket = journal[t].ticket
  <2>1. DOMAIN j = DOMAIN journal
    BY <1>2
  <2>2. ASSUME NEW t \in DOMAIN journal PROVE j[t].ticket = journal[t].ticket
    <3>1. \/ j[t] = journal[t]
          \/ j[t] = [journal[t] EXCEPT !.partial = TRUE, !.volume = p.volume,
                                       !.banked = p.banked]
      BY <1>2
    <3> QED BY <1>0, <3>1 DEF Row
  <2> QED BY <2>1, <2>2
<1>3. CASE \E k, a, lots, by : j = CloseRow(k, a, lots, by)
  <2>1. PICK k, a, lots, by : j = CloseRow(k, a, lots, by)
    BY <1>3
  <2> DEFINE matching == {t \in OpenRows \cap RowsOf(k) : journal[t].asset = a}
             u == Highest(matching)
  <2>2. j = IF matching = {} THEN journal
            ELSE [journal EXCEPT ![u].status = "closed", ![u].by = by,
                                 ![u].priced = journal[u].banked + lots,
                                 ![u].volume = IF journal[u].banked > 0
                                               THEN Lots
                                               ELSE journal[u].volume]
    BY <2>1 DEF CloseRow
  <2> HIDE DEF u, matching
  <2> QED BY <1>1, <2>2
<1>4. CASE \E t, p : j = Patch(t, p)
  BY <1>2, <1>4 DEF Patch
<1> QED BY <1>3, <1>4

\* a close or a patch makes nothing known but the ticket it logs
LEMMA KnownKept ==
    ASSUME Inv, NEW m, logged' \subseteq logged \cup {m},
           m \in Known \/ m <= seq',
           \/ journal' = journal
           \/ \E k, a, lots, by : journal' = CloseRow(k, a, lots, by)
           \/ \E t, p : journal' = Patch(t, p),
           closing' = closing \/ closing' = IdleClosing
    PROVE  \A k \in Known' : k \in Known \/ k <= seq'
<1>1. /\ DOMAIN journal' = DOMAIN journal
      /\ \A t \in DOMAIN journal : journal'[t].ticket = journal[t].ticket
  BY TicketsKept DEF Inv
<1>2. TicketsIn(DOMAIN journal)' = TicketsIn(DOMAIN journal)
  BY <1>1 DEF TicketsIn
<1>3. closing'.pc # "idle" => closing' = closing
  BY DEF IdleClosing
<1> QED BY <1>2, <1>3 DEF Known

LEMMA KnownSame ==
    ASSUME UNCHANGED tables, closing' = closing \/ closing' = IdleClosing
    PROVE  Known' \subseteq Known
  BY DEF tables, Known, TicketsIn, IdleClosing

LEMMA OrderKnows ==
    ASSUME Inv, Past, NEW a, NEW misses, Order(a, misses), UNCHANGED closing
    PROVE  /\ seq' = seq + 1 /\ failed \subseteq failed'
           /\ \A k \in DOMAIN book' : k <= seq'
           /\ \A k \in Known' : k \in Known \/ k <= seq'
<1> DEFINE m == seq + 1
           t == placed + 1
           r == [status |-> "open", asset |-> a, ticket |-> m,
                 volume |-> Lots, banked |-> 0, partial |-> FALSE,
                 priced |-> 0, by |-> ""]
<1>1. /\ seq' = m /\ failed \subseteq failed' /\ logged' \subseteq logged \cup {m}
      /\ journal' = journal \/ journal' = Put(journal, t, r)
      /\ DOMAIN book' = DOMAIN book \cup {m}
  BY DEF Order, Put, Logs
<1>2. seq \in Nat /\ DOMAIN book \subseteq Nat
  <2>1. /\ MaxTickets \in Nat /\ seq \in 0..MaxTickets
        /\ DOMAIN book \subseteq 1..MaxTickets
    BY TradeBookAssumption DEF Inv, BookOK, Tickets
  <2> QED BY <2>1
<1>3. \A k \in DOMAIN book' : k <= seq'
  <2>1. \A k \in DOMAIN book : k <= seq
    BY DEF Past
  <2>2. \A k \in DOMAIN book : k <= seq + 1
    BY <1>2, <2>1
  <2>3. DOMAIN book' = DOMAIN book \cup {seq + 1} /\ seq' = seq + 1
    BY <1>1
  <2> QED BY <1>2, <2>2, <2>3
<1>4. TicketsIn(DOMAIN journal)' \subseteq TicketsIn(DOMAIN journal) \cup {m}
  <2>1. r.ticket = m
    OBVIOUS
  <2> HIDE DEF r
  <2> QED BY <1>1, <2>1 DEF TicketsIn, Put
<1>5. \A k \in Known' : k \in Known \/ k = m
  BY <1>1, <1>4 DEF Known
<1> QED BY <1>1, <1>2, <1>3, <1>5

LEMMA EntryPast == ASSUME Inv, Inv', Past, Up, Entry PROVE Past'
<1> DEFINE Quiet == /\ UNCHANGED <<tables, broker, closing, boot>>
                    /\ failed \subseteq failed'
           Ordered == /\ \E a, misses : Order(a, misses)
                      /\ UNCHANGED <<closing, boot>>
<1>1. Quiet \/ Ordered
  <2>1. CASE AutoStart \/ AutoMark \/ AutoEnd \/ DeskRefuse \/ DeskMark \/ Expire
    BY <2>1
    DEF AutoStart, AutoMark, AutoEnd, DeskRefuse, DeskMark, Expire, flights,
        process
  <2>2. ASSUME NEW g \in Signals,
               Publish(g) \/ Reject(g) \/ Approve(g) \/ AutoSkip(g)
        PROVE  Quiet
    BY <2>2 DEF Publish, Reject, Approve, AutoSkip, flights, process
  <2>3. ASSUME NEW g \in Signals, AutoPlace(g) PROVE Ordered
    BY <2>3 DEF AutoPlace, process
  <2>4. CASE DeskPlace
    BY <2>4 DEF DeskPlace, Admitted, process
  <2>5. ASSUME NEW a \in Assets, ExtendedOpen(a) PROVE Ordered
    BY <2>5 DEF ExtendedOpen, Admitted, process
  <2> HIDE DEF Quiet, Ordered
  <2> QED BY <2>1, <2>2, <2>3, <2>4, <2>5 DEF Entry
<1>2. seq \in Nat /\ \A k \in DOMAIN book : k <= seq
  BY TradeBookAssumption DEF Inv, Past
<1>3. CASE Quiet
  <2>1. Known' \subseteq Known /\ book' = book /\ seq' = seq
    BY <1>3, KnownSame DEF broker
  <2> QED BY <1>2, <1>3, <2>1, PastStep
<1>4. CASE Ordered
  <2>1. /\ seq' = seq + 1 /\ failed \subseteq failed'
        /\ \A k \in DOMAIN book' : k <= seq'
        /\ \A k \in Known' : k \in Known \/ k <= seq'
    BY <1>4, OrderKnows
  <2> QED BY <1>2, <1>4, <2>1, PastStep
<1> QED BY <1>1, <1>3, <1>4

LEMMA ExitPast == ASSUME Inv, Inv', Past, Up, Exit PROVE Past'
<1> USE DEF process
<1>0. /\ closing \in Closings /\ seq \in Nat /\ DOMAIN book \subseteq Nat
      /\ \A k \in DOMAIN book : k <= seq
  <2>1. /\ closing \in Closings /\ seq \in 0..MaxTickets
        /\ DOMAIN book \subseteq Tickets
        /\ \A k \in DOMAIN book : k <= seq
    BY DEF Inv, BookOK, Past
  <2> QED BY <2>1, TradeBookAssumption DEF Tickets
<1>1. ASSUME NEW k \in DOMAIN book, GuardClose(k) PROVE Past'
  <2>1. /\ UNCHANGED <<seq, closing, boot>> /\ failed \subseteq failed'
        /\ logged' \subseteq logged \cup {k}
        /\ \/ journal' = journal
           \/ \E n, a, lots, by : journal' = CloseRow(n, a, lots, by)
        /\ DOMAIN book' \subseteq DOMAIN book
    BY <1>1 DEF GuardClose, Closes, Logs, Drop, Restrict, flights
  <2>2. \A n \in Known' : n \in Known \/ n <= seq'
    BY <1>0, <2>1, KnownKept
  <2> QED BY <1>0, <2>1, <2>2, PastStep
<1>2. ASSUME NEW k \in DOMAIN book, GuardPartial(k) PROVE Past'
  <2>1. /\ UNCHANGED <<seq, closing, boot>> /\ failed \subseteq failed'
        /\ logged' \subseteq logged \cup {k}
        /\ journal' = journal \/ \E t, p : journal' = Patch(t, p)
        /\ DOMAIN book' = DOMAIN book
    BY <1>2 DEF GuardPartial, Logs, flights
  <2>2. \A n \in Known' : n \in Known \/ n <= seq'
    BY <1>0, <2>1, KnownKept
  <2> QED BY <1>0, <2>1, <2>2, PastStep
<1>3. ASSUME NEW t \in DOMAIN journal, CloseStart(t) PROVE Past'
  <2>1. /\ UNCHANGED <<tables, broker, boot, failed>>
        /\ closing'.ticket = journal[t].ticket
    BY <1>3 DEF CloseStart
  <2>2. Known' \subseteq Known
    BY <2>1 DEF Known, TicketsIn, tables
  <2> QED BY <1>0, <2>1, <2>2, PastStep DEF broker
<1>4. CASE CloseBroker
  <2>1. /\ UNCHANGED <<tables, seq, boot, failed>>
        /\ DOMAIN book' \subseteq DOMAIN book
        /\ closing.pc # "idle"
        /\ closing'.pc # "idle" => closing'.ticket = closing.ticket
    BY <1>0, <1>4 DEF CloseBroker, Drop, Restrict, IdleClosing, Closings
  <2>2. Known' \subseteq Known
    BY <2>1 DEF Known, TicketsIn, tables
  <2> QED BY <1>0, <2>1, <2>2, PastStep
<1>5. CASE CloseJournal
  <2>1. /\ UNCHANGED <<broker, boot>> /\ failed \subseteq failed'
        /\ logged' \subseteq logged \cup {closing.ticket}
        /\ \/ journal' = journal
           \/ \E n, a, lots, by : journal' = CloseRow(n, a, lots, by)
        /\ closing' = IdleClosing
    BY <1>5 DEF CloseJournal, Closes, Logs
  <2>2. closing.ticket \in Known
    BY <1>0, <1>5 DEF CloseJournal, Closings, Known
  <2>3. \A n \in Known' : n \in Known \/ n <= seq'
    BY <2>1, <2>2, KnownKept
  <2> QED BY <1>0, <2>1, <2>3, PastStep DEF broker
<1> QED BY <1>1, <1>2, <1>3, <1>4, <1>5 DEF Exit

LEMMA UpkeepPast == ASSUME Inv, Inv', Past, Up, Upkeep PROVE Past'
<1>1. /\ UNCHANGED <<book, seq, closing, boot, failed>>
      /\ logged' \subseteq logged
      /\ TicketsIn(DOMAIN journal)' \subseteq TicketsIn(DOMAIN journal)
  BY DEF Upkeep, Reset, Forget, Restrict, TicketsIn, broker, flights, process
<1>2. Known' \subseteq Known
  BY <1>1 DEF Known
<1>3. seq \in Nat /\ \A k \in DOMAIN book : k <= seq
  BY TradeBookAssumption DEF Inv, Past
<1> QED BY <1>1, <1>2, <1>3, PastStep

LEMMA StartupPast == ASSUME Inv, Inv', Past, Startup PROVE Past'
<1> USE DEF process
<1>1. CASE Restart
  BY <1>1 DEF Restart, Past, Up, EmptyBook
<1>2. CASE RehydrateRow
  <2> DEFINE k == Number(Highest(boot.left))
  <2>1. /\ k \in Tickets /\ DOMAIN book' = DOMAIN book \cup {k}
        /\ seq' = Highest({seq, k})
        /\ boot.left # {} /\ boot'.pc = boot.pc /\ closing' = closing
    BY <1>2 DEF RehydrateRow, Put, flights, Inv, Walking
  <2> HIDE DEF k
  <2>2. ~Up /\ ~Up'
    BY <2>1 DEF Inv, Walking, Up
  <2>3. seq <= seq' /\ k <= seq'
    BY <2>1, HighestTicket DEF Inv, Tickets
  <2>4. /\ seq \in 0..MaxTickets /\ seq' \in 0..MaxTickets
        /\ DOMAIN book \subseteq 1..MaxTickets /\ MaxTickets \in Nat
    BY TradeBookAssumption DEF Inv, BookOK, Tickets
  <2>5. \A n \in DOMAIN book : n <= seq
    BY DEF Past
  <2>6. \A n \in DOMAIN book' : n <= seq'
    BY <2>1, <2>3, <2>4, <2>5
  <2> QED BY <2>1, <2>2, <2>6 DEF Past
<1>3. CASE Seed
  <2>1. PICK misses \in SUBSET Kinds :
           seq' = Seeded(misses) /\ failed' = failed \cup misses
    BY <1>3 DEF Seed, Misses
  <2>2. seq <= seq' /\ UNCHANGED <<book, journal, logged, closing>>
        /\ closing = IdleClosing /\ Up'
    BY <1>3, <2>1, SeededOK DEF Seed, tables, flights, Past, Up, Inv, Walking
  <2>3. Healthy(Seeds)' =>
           \A k \in TicketsIn(DOMAIN journal) \cup logged : k <= seq'
    BY <2>1, SeededOK DEF Healthy, Seeds
  <2>4. Known' = TicketsIn(DOMAIN journal) \cup logged
    BY <2>2 DEF Known, TicketsIn, IdleClosing
  <2>5. /\ seq \in 0..MaxTickets /\ seq' \in 0..MaxTickets
        /\ DOMAIN book \subseteq 1..MaxTickets /\ MaxTickets \in Nat
    BY TradeBookAssumption DEF Inv, BookOK, Tickets
  <2>6. \A n \in DOMAIN book : n <= seq
    BY DEF Past
  <2>7. \A n \in DOMAIN book' : n <= seq'
    BY <2>2, <2>5, <2>6
  <2> QED BY <2>2, <2>3, <2>4, <2>7 DEF Past
<1> QED BY <1>1, <1>2, <1>3 DEF Startup

LEMMA NextPast == ASSUME Inv, Inv', Past, [Next]_vars PROVE Past'
<1>1. CASE Up /\ (Entry \/ Exit \/ Upkeep)
  BY <1>1, EntryPast, ExitPast, UpkeepPast
<1>2. CASE Startup
  BY <1>2, StartupPast
<1>3. CASE UNCHANGED vars
  <2>1. UNCHANGED <<journal, logged, book, seq, closing, boot, failed>>
    BY <1>3 DEF vars, tables, broker, flights, process
  <2>2. Known' = Known
    BY <2>1 DEF Known, TicketsIn
  <2> QED BY <2>1, <2>2 DEF Past, Up, Healthy
<1> QED BY <1>1, <1>2, <1>3 DEF Next

LEMMA AlwaysPast == Spec => [](Inv /\ Past)
<1>1. Init => Inv /\ Past
  BY InitInv, InitPast
<1>2. Inv /\ Past /\ [Next]_vars => (Inv /\ Past)'
  BY NextInv, NextPast
<1> QED BY <1>1, <1>2, PTL DEF Spec

LEMMA FreshStep ==
    ASSUME Inv, Past, [Next]_vars, placed' # placed, Healthy(Seeds)
    PROVE  seq' \notin TicketsIn(DOMAIN journal) \cup logged \cup DOMAIN book
<1>1. Up /\ \E a, misses : Order(a, misses)
  <2>1. Up /\ Entry
    BY DEF Next, vars, broker, Exit, GuardClose, GuardPartial, CloseStart,
           CloseBroker, CloseJournal, Upkeep, Reset, Forget, Startup, Restart,
           RehydrateRow, Seed
  <2> QED
    BY <2>1
    DEF Entry, AutoStart, AutoMark, AutoEnd, DeskPlace, DeskRefuse, DeskMark,
        Publish, Reject, Approve, AutoSkip, AutoPlace, ExtendedOpen, Expire,
        Admitted, broker
<1>2. seq' = seq + 1
  BY <1>1 DEF Order
<1>3. seq \in Nat
  BY TradeBookAssumption DEF Inv
<1>4. \A k \in TicketsIn(DOMAIN journal) \cup logged \cup DOMAIN book : k <= seq
  BY <1>1 DEF Past, Known
<1> QED BY <1>2, <1>3, <1>4

\* An order never takes a ticket that the journal, the audit log or the book
\* still knows, whatever failed since startup but the two reads of the seed:
\* for any number of restarts, also in the middle of startup, lost writes,
\* statistics resets and log purges.
THEOREM NeverReused == Spec => FreshTicket
<1>1. Inv /\ Past /\ [Next]_vars =>
         [placed' # placed /\ Healthy({"seed_trades", "seed_logs"}) =>
          seq' \notin TicketsIn(DOMAIN journal) \cup logged \cup DOMAIN book]_vars
  BY FreshStep DEF Seeds
<1> QED BY <1>1, AlwaysPast, PTL DEF Spec, FreshTicket

(***************************************************************************)
(* The strengthening.  Guarded and Journalled look at one ticket at a      *)
(* time; they survive a close, which finds its row by ticket and asset,    *)
(* only if no other open row has that ticket (Sole), and a patch, which    *)
(* takes the newest row of the ticket, only if that row is the position's  *)
(* (Rooted).                                                               *)
(***************************************************************************)
\* orders are numbered: nothing in the journal or the book is of a later one
Numbered ==
    /\ DOMAIN journal \subseteq 1..placed
    /\ \A k \in DOMAIN book : book[k].trade <= placed

\* what a position remembers of its row: the number if startup restored it,
\* nothing but the ticket, of which its row is the newest, otherwise
Rooted ==
    \A k \in DOMAIN book :
        /\ book[k].trade \notin boot.left
        /\ book[k].row \in {NoRow, book[k].trade}
        /\ book[k].row = NoRow =>
              Up /\ \A t \in RowsOf(k) : t <= book[k].trade

\* no lot is lost by a partial close, and the owner's close that is waiting
\* for its rates has taken its position out for good
Whole ==
    /\ \A t \in OpenRows : /\ journal[t].volume + journal[t].banked = Lots
                           /\ journal[t].by = ""
    /\ \A k \in DOMAIN book : book[k].volume + book[k].banked = Lots
    /\ closing.pc = "row" => /\ closing.ticket \notin DOMAIN book
                             /\ closing.ticket <= seq
    /\ boot.left # {} => "read_open" \notin failed

\* the row of a position, if it was ever written, is open and agrees with it
Agrees(k) ==
    LET t == book[k].trade IN
    /\ t \in OpenRows
    /\ journal[t].ticket = k
    /\ journal[t].asset = book[k].asset
    /\ journal[t].volume = book[k].volume
    /\ journal[t].banked = book[k].banked

Own ==
    "update" \notin failed =>
        \A k \in DOMAIN book :
            /\ book[k].trade \in DOMAIN journal => Agrees(k)
            /\ "record" \notin failed => book[k].trade \in DOMAIN journal

\* no other open row has the ticket of a position
Sole ==
    "update" \notin failed /\ Distinct =>
        \A k \in DOMAIN book, t \in OpenRows \ boot.left :
            journal[t].ticket = k => book[k].trade = t

\* the owner's close has the row in hand whose position it took out
InHand(t) ==
    /\ closing.pc = "row" /\ closing.trade = t
    /\ closing.ticket = journal[t].ticket /\ closing.asset = journal[t].asset

Covered ==
    Healthy({"update", "read_open"}) =>
        /\ \A t \in OpenRows \ boot.left :
              InHand(t) \/ journal[t].ticket \in DOMAIN book
        /\ closing.pc # "idle" => closing.ticket <= seq
        /\ closing.pc = "close" /\ closing.ticket \in DOMAIN book =>
              /\ book[closing.ticket].trade = closing.trade
              /\ book[closing.ticket].asset = closing.asset

Sound == Inv /\ Past /\ Numbered /\ Rooted /\ Whole /\ Own /\ Sole /\ Covered

LEMMA InitSound == Init => Sound
<1> SUFFICES ASSUME Init PROVE Sound
  OBVIOUS
<1>1. /\ DOMAIN journal = {} /\ DOMAIN book = {} /\ boot.left = {}
      /\ closing.pc = "idle"
  BY DEF Init, EmptyBook, IdleClosing
<1>2. OpenRows = {}
  BY <1>1 DEF OpenRows
<1> QED
  BY <1>1, <1>2, InitInv, InitPast
  DEF Sound, Numbered, Rooted, Whole, Own, Sole, Covered

\* the invariant gives the two promises
LEMMA SoundGuards == Sound => Guarded /\ Journalled
<1> SUFFICES ASSUME Sound PROVE Guarded /\ Journalled
  OBVIOUS
<1>1. Guarded
  <2> SUFFICES ASSUME Up, Healthy({"update", "read_open"}), NEW t \in OpenRows
               PROVE  \/ closing.pc = "row" /\ closing.trade = t
                      \/ \E k \in DOMAIN book :
                            /\ book[k].trade = t /\ journal[t].ticket = k
                            /\ book[k].volume = journal[t].volume
    BY DEF Guarded
  <2>1. /\ "update" \notin failed /\ Distinct /\ boot.left = {}
        /\ t \in DOMAIN journal
    BY DEF Healthy, Distinct, Sound, Inv, Walking, OpenRows
  <2>2. CASE journal[t].ticket \in DOMAIN book
    BY <2>1, <2>2 DEF Sound, Sole, Own, Agrees
  <2> QED BY <2>1, <2>2 DEF Sound, Covered, InHand
<1>2. Journalled
  BY DEF Journalled, Healthy, Sound, Own, Agrees
<1> QED BY <1>1, <1>2

(***************************************************************************)
(* Facts about the state that the steps keep needing                       *)
(***************************************************************************)
LEMMA Numbers ==
    ASSUME Sound
    PROVE  /\ seq \in Nat /\ placed \in Nat /\ MaxTickets \in Nat
           /\ Lots \in Nat \ {0} /\ Slice \in Nat \ {0}
           /\ DOMAIN journal \subseteq Nat \ {0} /\ DOMAIN book \subseteq Nat \ {0}
           /\ \A t \in DOMAIN journal : journal[t] \in Row
           /\ \A k \in DOMAIN book : /\ book[k] \in Position /\ k <= seq
                                    /\ book[k].trade \in Nat \ {0}
           /\ closing.ticket \in Nat
           /\ \A t \in DOMAIN journal : t <= placed
<1>1. MaxTickets \in Nat /\ MaxTrades \in Nat
  BY TradeBookAssumption
<1>2. seq \in Nat /\ placed \in Nat
  BY <1>1 DEF Sound, Inv
<1>3. DOMAIN journal \subseteq 1..MaxTrades /\ DOMAIN book \subseteq 1..MaxTickets
  BY DEF Sound, Inv, JournalOK, BookOK, Trades, Tickets
<1>4. DOMAIN journal \subseteq Nat \ {0} /\ DOMAIN book \subseteq Nat \ {0}
  BY <1>1, <1>3
<1>5. \A t \in DOMAIN journal : t <= placed
  BY <1>2 DEF Sound, Numbered
<1>6. closing.ticket \in 0..MaxTickets
  BY DEF Sound, Inv, Closings
<1>7. ASSUME NEW k \in DOMAIN book PROVE book[k].trade \in Nat \ {0}
  <2>1. book[k].trade \in 1..MaxTrades
    BY DEF Sound, Inv, BookOK, Position, Trades
  <2> QED BY <1>1, <2>1
<1> QED
  BY <1>1, <1>2, <1>4, <1>5, <1>6, <1>7, TradeBookAssumption
  DEF Sound, Inv, JournalOK, BookOK, Past

\* what startup or the seed has made sure of lasts while the process lives
LEMMA HealthLasts ==
    ASSUME failed \subseteq failed', NEW kinds
    PROVE  /\ Healthy(kinds)' => Healthy(kinds)
           /\ Distinct' => Distinct
  BY DEF Healthy, Distinct

\* no ticket that an open row or the owner's close holds lies ahead, so that
\* the next one is free
LEMMA Behind ==
    ASSUME Sound, Up, "update" \notin failed, Distinct
    PROVE  \A t \in OpenRows : journal[t].ticket <= seq
<1> SUFFICES ASSUME NEW t \in OpenRows PROVE journal[t].ticket <= seq
  OBVIOUS
<1>1. t \in DOMAIN journal /\ boot.left = {}
  BY DEF OpenRows, Sound, Inv, Walking
<1>2. CASE Healthy({"read_open"})
  <2>1. InHand(t) \/ journal[t].ticket \in DOMAIN book
    BY <1>1, <1>2 DEF Sound, Covered, Healthy
  <2> QED BY <2>1, Numbers DEF InHand, Sound, Whole
<1>3. CASE Healthy(Seeds)
  BY <1>1, <1>3 DEF Sound, Past, Known, TicketsIn
<1> QED BY <1>2, <1>3 DEF Distinct, Seeds

(***************************************************************************)
(* Orders                                                                  *)
(***************************************************************************)
\* whatever leaves the journal and the book alone
LEMMA StillSound ==
    ASSUME Sound, Inv', Past', UNCHANGED <<journal, book, seq, placed>>,
           Up, UNCHANGED boot, failed \subseteq failed',
           \/ closing' = closing
           \/ closing' = IdleClosing /\ closing.pc # "row"
    PROVE  Sound'
<1>1. /\ UNCHANGED <<OpenRows, Up>> /\ \A k : RowsOf(k)' = RowsOf(k)
      /\ closing'.pc # "idle" => closing' = closing
      /\ boot.left = {}
  BY DEF OpenRows, Up, RowsOf, IdleClosing, Sound, Inv, Walking
<1>2. Numbered' /\ Rooted' /\ Whole'
  BY <1>1 DEF Sound, Numbered, Rooted, Whole
<1>3. Own'
  BY <1>1 DEF Sound, Own, Agrees
<1>4. Sole'
  BY <1>1, HealthLasts DEF Sound, Sole
<1>5. Covered'
  <2> SUFFICES ASSUME Healthy({"update", "read_open"})' PROVE Covered'
    BY DEF Covered
  <2>1. Healthy({"update", "read_open"})
    BY HealthLasts
  <2>2. ASSUME NEW t \in OpenRows \ boot.left, InHand(t) PROVE InHand(t)'
    BY <2>2 DEF InHand
  <2> QED BY <1>1, <2>1, <2>2 DEF Sound, Covered
<1> QED BY <1>2, <1>3, <1>4, <1>5 DEF Sound

\* an order takes a number and a ticket that nothing open has
LEMMA OrderSound ==
    ASSUME Sound, Inv', Past', Up, NEW a \in Assets, NEW misses,
           Order(a, misses), UNCHANGED <<closing, boot>>
    PROVE  Sound'
<1> DEFINE m == seq + 1
           n == placed + 1
           p == [trade |-> n, asset |-> a, volume |-> Lots, banked |-> 0,
                 partial |-> FALSE, row |-> NoRow]
           r == [status |-> "open", asset |-> a, ticket |-> m,
                 volume |-> Lots, banked |-> 0, partial |-> FALSE,
                 priced |-> 0, by |-> ""]
<1>1. /\ seq' = m /\ placed' = n /\ failed' = failed \cup misses
      /\ DOMAIN book' = DOMAIN book \cup {m} /\ book'[m] = p
      /\ \A k \in DOMAIN book : k # m => book'[k] = book[k]
      /\ "record" \in misses => journal' = journal
      /\ "record" \notin misses =>
            /\ DOMAIN journal' = DOMAIN journal \cup {n} /\ journal'[n] = r
            /\ \A t \in DOMAIN journal : t # n => journal'[t] = journal[t]
  BY DEF Order, Put
<1>2. /\ m \notin DOMAIN book /\ n \notin DOMAIN journal
      /\ m \in Nat /\ n \in Nat /\ placed < n /\ seq < m
      /\ \A k \in DOMAIN book : book[k].trade # n
      /\ boot.left = {} /\ boot'.left = {} /\ Up'
  <2>1. \A k \in DOMAIN book : k <= seq /\ book[k].trade <= placed
    BY Numbers DEF Sound, Numbered
  <2>2. \A t \in DOMAIN journal : t <= placed
    BY Numbers
  <2>3. seq \in Nat /\ placed \in Nat
    BY Numbers
  <2>4. boot.left = {} /\ boot'.left = {} /\ Up'
    BY DEF Sound, Inv, Walking, Up
  <2> QED BY <2>1, <2>2, <2>3, <2>4
<1>3. /\ p.trade = n /\ p.asset = a /\ p.volume = Lots /\ p.banked = 0
      /\ p.row = NoRow
      /\ r.status = "open" /\ r.asset = a /\ r.ticket = m /\ r.volume = Lots
      /\ r.banked = 0 /\ r.by = ""
  OBVIOUS
<1> HIDE DEF m, n, p, r
<1>4. /\ DOMAIN journal \subseteq DOMAIN journal'
      /\ DOMAIN journal' \subseteq DOMAIN journal \cup {n}
      /\ \A t \in DOMAIN journal : journal'[t] = journal[t]
      /\ \A k \in DOMAIN book : book'[k] = book[k]
      /\ n \in DOMAIN journal' => journal'[n] = r
      /\ OpenRows' \subseteq OpenRows \cup {n} /\ OpenRows \subseteq OpenRows'
      /\ failed \subseteq failed'
  BY <1>1, <1>2 DEF OpenRows
<1>5. Numbered'
  <2>1. \A t \in DOMAIN journal' : t \in 1..n
    BY <1>1, <1>2, <1>4, Numbers
  <2>2. ASSUME NEW k \in DOMAIN book' PROVE book'[k].trade <= n
    <3>1. k # m => book[k].trade <= placed /\ book[k].trade \in Nat
      BY <1>1, Numbers DEF Sound, Numbered
    <3>2. CASE k = m
      <4>1. book'[k] = p
        BY <1>1, <3>2
      <4>2. n <= n
        BY <1>2
      <4> QED BY <1>3, <4>1, <4>2
    <3>3. CASE k # m
      BY <1>1, <1>2, <1>4, <3>1, <3>3, Numbers
    <3> QED BY <3>2, <3>3
  <2> QED BY <1>1, <2>1, <2>2 DEF Numbered
<1>6. Rooted'
  <2>1. ASSUME NEW t \in DOMAIN journal' PROVE t <= n
    BY <1>1, <1>2, <1>4, Numbers
  <2>2. ASSUME NEW k \in DOMAIN book, NEW t \in RowsOf(k)', t # n
        PROVE  t \in RowsOf(k)
    BY <1>4, <2>2 DEF RowsOf
  <2>3. ASSUME NEW k \in DOMAIN book PROVE n \notin RowsOf(k)'
    BY <1>2, <1>3, <1>4 DEF RowsOf
  <2>4. ASSUME NEW k \in DOMAIN book'
        PROVE  /\ book'[k].trade \notin boot'.left
               /\ book'[k].row \in {NoRow, book'[k].trade}
               /\ book'[k].row = NoRow =>
                    Up' /\ \A t \in RowsOf(k)' : t <= book'[k].trade
    <3>1. CASE k = m
      <4>1. book'[k] = p
        BY <1>1, <3>1
      <4>2. RowsOf(k)' \subseteq DOMAIN journal'
        BY DEF RowsOf
      <4> QED BY <1>2, <1>3, <2>1, <4>1, <4>2
    <3>2. CASE k # m
      BY <1>1, <1>2, <1>4, <2>2, <2>3, <3>2 DEF Sound, Rooted
    <3> QED BY <3>1, <3>2
  <2> QED BY <2>4 DEF Rooted
<1>7. Whole'
  <2>1. closing.pc = "row" => closing.ticket # m /\ closing.ticket <= m
    <3>1. closing.pc = "row" => closing.ticket <= seq
      BY DEF Sound, Whole
    <3> QED BY <1>2, <3>1, Numbers
  <2>2. Lots + 0 = Lots
    BY Numbers
  <2>3. ASSUME NEW t \in OpenRows'
        PROVE  journal'[t].volume + journal'[t].banked = Lots /\ journal'[t].by = ""
    <3>1. CASE t = n
      BY <1>3, <1>4, <2>2, <3>1 DEF OpenRows
    <3>2. CASE t # n
      BY <1>4, <3>2 DEF Sound, Whole, OpenRows
    <3> QED BY <3>1, <3>2
  <2>4. ASSUME NEW k \in DOMAIN book'
        PROVE  book'[k].volume + book'[k].banked = Lots
    <3>1. CASE k = m
      BY <1>1, <1>3, <2>2, <3>1
    <3>2. CASE k # m
      BY <1>1, <1>4, <3>2 DEF Sound, Whole
    <3> QED BY <3>1, <3>2
  <2> QED BY <1>1, <1>2, <2>1, <2>3, <2>4 DEF Sound, Whole
<1>8. Own'
  <2> SUFFICES ASSUME "update" \notin failed', NEW k \in DOMAIN book'
               PROVE  /\ book'[k].trade \in DOMAIN journal' => Agrees(k)'
                      /\ "record" \notin failed' =>
                            book'[k].trade \in DOMAIN journal'
    BY DEF Own
  <2>1. CASE k = m
    <3>1. "record" \notin failed' => n \in DOMAIN journal'
      BY <1>1
    <3>2. n \in DOMAIN journal' => n \in OpenRows'
      BY <1>3, <1>4 DEF OpenRows
    <3> QED BY <1>1, <1>3, <1>4, <2>1, <3>1, <3>2 DEF Agrees
  <2>2. CASE k # m
    <3>1. /\ k \in DOMAIN book /\ book'[k] = book[k]
          /\ book[k].trade \in DOMAIN journal => Agrees(k)
          /\ "record" \notin failed => book[k].trade \in DOMAIN journal
      BY <1>1, <1>4, <2>2 DEF Sound, Own
    <3>2. book[k].trade # n
      BY <1>2, <3>1
    <3> QED BY <1>4, <3>1, <3>2 DEF Agrees
  <2> QED BY <2>1, <2>2
<1>9. Sole'
  <2> SUFFICES ASSUME "update" \notin failed', Distinct', NEW k \in DOMAIN book',
                      NEW t \in OpenRows', journal'[t].ticket = k
               PROVE  book'[k].trade = t
    BY DEF Sole
  <2>1. "update" \notin failed /\ Distinct
    BY <1>4, HealthLasts
  <2>2. t # n => t \in OpenRows /\ journal[t].ticket = k
    BY <1>4 DEF OpenRows
  <2>3. CASE k = m
    <3>1. t = n
      <4>1. \A u \in OpenRows : journal[u].ticket <= seq
        BY <2>1, Behind
      <4> QED BY <1>2, <2>2, <2>3, <4>1, Numbers
    <3> QED BY <1>1, <1>3, <2>3, <3>1
  <2>4. CASE k # m
    <3>1. t # n
      BY <1>3, <1>4, <2>4 DEF OpenRows
    <3> QED BY <1>1, <1>2, <1>4, <2>1, <2>2, <2>4, <3>1 DEF Sound, Sole
  <2> QED BY <2>3, <2>4
<1>10. Covered'
  <2> SUFFICES ASSUME Healthy({"update", "read_open"})' PROVE Covered'
    BY DEF Covered
  <2>1. Healthy({"update", "read_open"})
    BY <1>4, HealthLasts
  <2>2. ASSUME NEW t \in OpenRows'
        PROVE  InHand(t)' \/ journal'[t].ticket \in DOMAIN book'
    <3>1. CASE t = n
      BY <1>1, <1>3, <1>4, <3>1 DEF OpenRows
    <3>2. CASE t # n
      <4>1. t \in OpenRows /\ journal'[t] = journal[t]
        BY <1>4, <3>2 DEF OpenRows
      <4>2. InHand(t) \/ journal[t].ticket \in DOMAIN book
        BY <1>2, <2>1, <4>1 DEF Sound, Covered
      <4> QED BY <1>1, <4>1, <4>2 DEF InHand
    <3> QED BY <3>1, <3>2
  <2>3. closing.pc # "idle" => closing.ticket <= seq
    BY <2>1 DEF Sound, Covered
  <2>4. closing.pc # "idle" => closing.ticket <= m /\ closing.ticket # m
    BY <1>2, <2>3, Numbers
  <2> QED BY <1>1, <1>2, <1>4, <2>1, <2>2, <2>4 DEF Sound, Covered
<1> QED BY <1>5, <1>6, <1>7, <1>8, <1>9, <1>10 DEF Sound

LEMMA EntrySound == ASSUME Sound, Inv', Past', Up, Entry PROVE Sound'
<1> DEFINE Quiet == /\ UNCHANGED <<tables, broker, closing, boot>>
                    /\ failed \subseteq failed'
           Ordered == /\ \E a \in Assets : \E misses : Order(a, misses)
                      /\ UNCHANGED <<closing, boot>>
<1>0. /\ \A g \in Signals : AssetOf[g] \in Assets
      /\ desk.pc # "idle" => desk.sig \in Signals
  BY TradeBookAssumption DEF Sound, Inv, Desks
<1>1. Quiet \/ Ordered
  <2>1. CASE AutoStart \/ AutoMark \/ AutoEnd \/ DeskRefuse \/ DeskMark \/ Expire
    BY <2>1
    DEF AutoStart, AutoMark, AutoEnd, DeskRefuse, DeskMark, Expire, flights,
        process
  <2>2. ASSUME NEW g \in Signals,
               Publish(g) \/ Reject(g) \/ Approve(g) \/ AutoSkip(g)
        PROVE  Quiet
    BY <2>2 DEF Publish, Reject, Approve, AutoSkip, flights, process
  <2>3. ASSUME NEW g \in Signals, AutoPlace(g) PROVE Ordered
    BY <1>0, <2>3 DEF AutoPlace, process
  <2>4. CASE DeskPlace
    BY <1>0, <2>4 DEF DeskPlace, Admitted, process
  <2>5. ASSUME NEW a \in Assets, ExtendedOpen(a) PROVE Ordered
    BY <2>5 DEF ExtendedOpen, Admitted, process
  <2> HIDE DEF Quiet, Ordered
  <2> QED BY <2>1, <2>2, <2>3, <2>4, <2>5 DEF Entry
<1>2. CASE Quiet
  BY <1>2, StillSound DEF tables, broker
<1>3. CASE Ordered
  BY <1>3, OrderSound
<1> QED BY <1>1, <1>2, <1>3

(***************************************************************************)
(* Closes                                                                  *)
(***************************************************************************)
Matching(k, a) == {t \in OpenRows \cap RowsOf(k) : journal[t].asset = a}

\* a close touches one of the rows it may match, and only to close it
LEMMA CloseRowDoes ==
    ASSUME Sound, NEW k, NEW a, NEW lots, NEW by, NEW j,
           j = CloseRow(k, a, lots, by)
    PROVE  /\ DOMAIN j = DOMAIN journal
           /\ Matching(k, a) = {} => j = journal
           /\ Matching(k, a) # {} =>
                \E u \in Matching(k, a) :
                    /\ \A t \in DOMAIN journal \ {u} : j[t] = journal[t]
                    /\ j[u].status = "closed" /\ j[u].by = by
                    /\ j[u].priced = journal[u].banked + lots
                    /\ j[u].ticket = journal[u].ticket
<1> DEFINE u == Highest(Matching(k, a))
           v == IF journal[u].banked > 0 THEN Lots ELSE journal[u].volume
           n == journal[u].banked + lots
<1>1. j = IF Matching(k, a) = {} THEN journal
          ELSE [journal EXCEPT ![u].status = "closed", ![u].by = by,
                               ![u].priced = n, ![u].volume = v]
  BY DEF CloseRow, Matching
<1>2. Matching(k, a) \subseteq 1..MaxTrades /\ Matching(k, a) \subseteq DOMAIN journal
  BY DEF Matching, OpenRows, Sound, Inv, JournalOK, Trades
<1>3. Matching(k, a) # {} => u \in Matching(k, a)
  <2>1. /\ MaxTrades \in Nat /\ Matching(k, a) \in SUBSET (0..MaxTrades)
        /\ 0 \notin Matching(k, a)
    BY <1>2, TradeBookAssumption
  <2>2. u \in Matching(k, a) \cup {0} /\ \A t \in Matching(k, a) : t <= u
    BY <2>1, HighestOf
  <2>3. CASE u = 0
    <3>1. \A t \in Matching(k, a) : FALSE
      BY <1>2, <2>1, <2>2, <2>3
    <3> QED BY <3>1
  <2> QED BY <2>2, <2>3
<1> HIDE DEF u, v, n
<1>4. ASSUME Matching(k, a) # {}
      PROVE  /\ \A t \in DOMAIN journal \ {u} : j[t] = journal[t]
             /\ j[u].status = "closed" /\ j[u].by = by /\ j[u].priced = n
             /\ j[u].ticket = journal[u].ticket
             /\ DOMAIN j = DOMAIN journal
  <2>1. u \in DOMAIN journal /\ journal[u] \in Row
    BY <1>2, <1>3, <1>4, Numbers
  <2>2. /\ j[u] = [journal[u] EXCEPT !.status = "closed", !.by = by,
                                    !.priced = n, !.volume = v]
        /\ \A t \in DOMAIN journal \ {u} : j[t] = journal[t]
        /\ DOMAIN j = DOMAIN journal
    BY <1>1, <1>4, <2>1
  <2> QED BY <2>1, <2>2 DEF Row
<1> QED BY <1>1, <1>3, <1>4 DEF n

\* what a close by ticket does to the journal; nothing at all if the write
\* is lost or no row matches
Shuts(k, a) ==
    /\ failed \subseteq failed' /\ DOMAIN journal' = DOMAIN journal
    /\ \A t \in DOMAIN journal : journal'[t].ticket = journal[t].ticket
    /\ OpenRows' \subseteq OpenRows
    /\ \A t \in OpenRows' : journal'[t] = journal[t]
    /\ \A t \in OpenRows : t \in OpenRows' \/ t \in Matching(k, a)
    /\ "update" \notin failed' /\ Matching(k, a) # {} =>
          \E t \in Matching(k, a) : t \notin OpenRows'

LEMMA ClosesShuts ==
    ASSUME Sound, NEW k, NEW a, NEW lots, NEW by, Closes(k, a, lots, by)
    PROVE  /\ Shuts(k, a)
           /\ \A t \in OpenRows \ OpenRows' :
                /\ journal'[t].priced = journal[t].banked + lots
                /\ journal'[t].by = by
<1>1. PICK misses :
         /\ journal' = IF "update" \in misses THEN journal
                       ELSE CloseRow(k, a, lots, by)
         /\ failed' = failed \cup misses
  BY DEF Closes
<1>2. CASE journal' = journal /\ ("update" \in misses \/ Matching(k, a) = {})
  BY <1>1, <1>2 DEF Shuts, OpenRows
<1>3. CASE "update" \notin misses /\ Matching(k, a) # {}
  <2>1. PICK u \in Matching(k, a) :
           /\ \A t \in DOMAIN journal \ {u} : journal'[t] = journal[t]
           /\ journal'[u].status = "closed"
           /\ journal'[u].priced = journal[u].banked + lots
           /\ journal'[u].by = by
           /\ journal'[u].ticket = journal[u].ticket
    BY <1>1, <1>3, CloseRowDoes
  <2>2. DOMAIN journal' = DOMAIN journal
    BY <1>1, <1>3, CloseRowDoes
  <2>3. OpenRows' = OpenRows \ {u}
    BY <2>1, <2>2 DEF OpenRows
  <2> QED BY <1>1, <2>1, <2>2, <2>3 DEF Shuts, OpenRows
<1>4. "update" \notin misses /\ Matching(k, a) = {} => journal' = journal
  BY <1>1, CloseRowDoes
<1> QED BY <1>1, <1>2, <1>3, <1>4

\* a whole close, by the guard with its position or by the owner after it:
\* no row but the position's may match, or some open trade is not guarded
LEMMA ShutSound ==
    ASSUME Sound, Inv', Past', Up, UNCHANGED <<seq, placed, boot>>,
           NEW k, NEW a, Shuts(k, a), DOMAIN book' = DOMAIN book \ {k},
           \A n \in DOMAIN book' : book'[n] = book[n],
           \/ k \in DOMAIN book /\ a = book[k].asset /\ closing' = closing
           \/ /\ closing.pc = "row" /\ closing.ticket = k /\ closing.asset = a
              /\ closing' = IdleClosing
    PROVE  Sound'
<1>1. /\ Up' /\ boot.left = {} /\ boot'.left = {}
      /\ closing'.pc # "idle" => closing' = closing
      /\ OpenRows \subseteq DOMAIN journal
      /\ failed \subseteq failed' /\ DOMAIN journal' = DOMAIN journal
  BY DEF Up, Sound, Inv, Walking, IdleClosing, OpenRows, Shuts
<1>2. \A n : RowsOf(n)' = RowsOf(n)
  BY DEF RowsOf, Shuts
<1>3. Numbered' /\ Rooted'
  BY <1>1, <1>2 DEF Sound, Numbered, Rooted
<1>4. Whole'
  BY <1>1 DEF Sound, Whole, Shuts
<1>5. Own'
  <2> SUFFICES ASSUME "update" \notin failed', NEW n \in DOMAIN book'
               PROVE  /\ book'[n].trade \in DOMAIN journal' => Agrees(n)'
                      /\ "record" \notin failed' =>
                            book'[n].trade \in DOMAIN journal'
    BY DEF Own
  <2>1. /\ n \in DOMAIN book /\ n # k /\ book'[n] = book[n]
        /\ book[n].trade \in DOMAIN journal => Agrees(n)
        /\ "record" \notin failed => book[n].trade \in DOMAIN journal
    BY <1>1 DEF Sound, Own
  <2>2. ASSUME Agrees(n) PROVE book[n].trade \in OpenRows'
    BY <2>1, <2>2 DEF Agrees, Shuts, Matching, RowsOf
  <2> QED BY <1>1, <2>1, <2>2 DEF Agrees, Shuts
<1>6. Sole'
  BY <1>1, HealthLasts DEF Sound, Sole, Shuts
<1>7. Covered'
  <2> SUFFICES ASSUME Healthy({"update", "read_open"})' PROVE Covered'
    BY DEF Covered
  <2>1. /\ Healthy({"update", "read_open"}) /\ Distinct
        /\ "update" \notin failed /\ "update" \notin failed'
    BY <1>1, HealthLasts DEF Healthy, Distinct
  <2>2. ASSUME NEW t \in OpenRows'
        PROVE  InHand(t)' \/ journal'[t].ticket \in DOMAIN book'
    <3>1. t \in OpenRows /\ journal'[t] = journal[t]
      BY DEF Shuts
    <3>2. InHand(t) \/ journal[t].ticket \in DOMAIN book
      BY <1>1, <2>1, <3>1 DEF Sound, Covered
    <3>3. ASSUME journal[t].ticket = k, k \in DOMAIN book, a = book[k].asset
          PROVE  FALSE
      <4>1. \A u \in Matching(k, a) \cup {t} : book[k].trade = u
        BY <1>1, <2>1, <3>1, <3>3 DEF Sound, Sole, Matching, RowsOf
      <4>2. t \in Matching(k, a)
        BY <1>1, <2>1, <3>1, <3>3, <4>1
        DEF Sound, Own, Agrees, Matching, RowsOf
      <4> QED BY <2>1, <4>1, <4>2 DEF Shuts
    <3>4. ASSUME InHand(t), closing.ticket = k, closing.asset = a,
                 closing.pc = "row"
          PROVE  FALSE
      <4>1. t \in Matching(k, a)
        BY <1>1, <3>1, <3>4 DEF InHand, Matching, RowsOf
      <4>2. k \notin DOMAIN book
        BY <3>4 DEF Sound, Whole
      <4>3. \A u \in Matching(k, a) : u = t
        BY <1>1, <2>1, <3>4, <4>2 DEF Sound, Covered, InHand, Matching, RowsOf
      <4> QED BY <2>1, <4>1, <4>3 DEF Shuts
    <3>5. CASE k \in DOMAIN book /\ a = book[k].asset /\ closing' = closing
      BY <3>1, <3>2, <3>3, <3>5 DEF InHand
    <3>6. CASE closing.pc = "row" /\ closing.ticket = k /\ closing.asset = a
      BY <3>1, <3>2, <3>4, <3>6 DEF Sound, Whole
    <3> QED BY <3>5, <3>6
  <2> QED BY <1>1, <2>1, <2>2 DEF Sound, Covered
<1> QED BY <1>3, <1>4, <1>5, <1>6, <1>7 DEF Sound

LEMMA PatchDoes ==
    ASSUME Sound, NEW t \in DOMAIN journal, NEW p, NEW j, j = Patch(t, p)
    PROVE  /\ DOMAIN j = DOMAIN journal
           /\ \A u \in DOMAIN journal \ {t} : j[u] = journal[u]
           /\ j[t].volume = p.volume /\ j[t].banked = p.banked
           /\ \A u \in DOMAIN journal :
                /\ j[u].status = journal[u].status /\ j[u].by = journal[u].by
                /\ j[u].ticket = journal[u].ticket
                /\ j[u].asset = journal[u].asset
<1>1. journal[t] \in Row
  BY Numbers
<1>2. DOMAIN j = DOMAIN journal BY DEF Patch
<1>3. \A u \in DOMAIN journal \ {t} : j[u] = journal[u] BY DEF Patch
<1>4. j[t] = [journal[t] EXCEPT !.partial = TRUE, !.volume = p.volume,
                               !.banked = p.banked]
  BY SMTT(60) DEF Patch
<1>5. /\ j[t].volume = p.volume /\ j[t].banked = p.banked
      /\ j[t].status = journal[t].status /\ j[t].by = journal[t].by
      /\ j[t].ticket = journal[t].ticket /\ j[t].asset = journal[t].asset
  BY <1>1, <1>4 DEF Row
<1> QED BY <1>2, <1>3, <1>5

\* a slice: the patch reaches the position's own row, or one that is closed
LEMMA PartialSound ==
    ASSUME Sound, Inv', Past', Up, NEW k \in DOMAIN book, GuardPartial(k)
    PROVE  Sound'
<1> DEFINE p == [book[k] EXCEPT !.partial = TRUE, !.volume = @ - Slice,
                                !.banked = @ + Slice]
           row == IF p.row # NoRow THEN p.row ELSE Highest(RowsOf(k))
<1>1. /\ p.volume + p.banked = Lots
      /\ p.trade = book[k].trade /\ p.asset = book[k].asset
      /\ p.row = book[k].row
  <2>1. /\ book[k] \in Position /\ Slice < book[k].volume
        /\ book[k].volume + book[k].banked = Lots
    BY Numbers DEF Sound, Whole, GuardPartial, Slices
  <2>2. /\ book[k].volume \in Nat /\ book[k].banked \in Nat /\ Slice \in Nat
    BY <2>1, TradeBookAssumption DEF Position
  <2>3. p.volume = book[k].volume - Slice /\ p.banked = book[k].banked + Slice
    BY <2>1 DEF Position
  <2>4. p.volume + p.banked = Lots
    <3> HIDE DEF p
    <3> QED BY <2>1, <2>2, <2>3
  <2> QED BY <2>1, <2>4 DEF Position
<1>2. PICK misses :
         /\ journal' = IF "update" \in misses \/ row \notin DOMAIN journal
                       THEN journal ELSE Patch(row, p)
         /\ failed' = failed \cup misses
  BY DEF GuardPartial
<1>3. /\ DOMAIN book' = DOMAIN book /\ book'[k] = p
      /\ \A n \in DOMAIN book \ {k} : book'[n] = book[n]
      /\ UNCHANGED <<seq, placed, closing, boot>>
  BY DEF GuardPartial, flights, process
<1>4. /\ row \in DOMAIN journal => row = book[k].trade \/ row \in RowsOf(k)
      /\ "update" \notin failed /\ book[k].trade \in DOMAIN journal =>
            row = book[k].trade
  <2>1. RowsOf(k) \in SUBSET (0..MaxTrades) /\ MaxTrades \in Nat
    BY TradeBookAssumption DEF RowsOf, Sound, Inv, JournalOK, Trades
  <2>2. /\ Highest(RowsOf(k)) \in RowsOf(k) \cup {0}
        /\ \A t \in RowsOf(k) : t <= Highest(RowsOf(k))
    BY <2>1, HighestOf
  <2>3. 0 \notin DOMAIN journal
    BY Numbers
  <2>4. book[k].row \in {NoRow, book[k].trade}
    BY DEF Sound, Rooted
  <2>5. ASSUME book[k].row = NoRow, "update" \notin failed,
               book[k].trade \in DOMAIN journal
        PROVE  Highest(RowsOf(k)) = book[k].trade
    <3>1. book[k].trade \in RowsOf(k)
      BY <2>5 DEF Sound, Own, Agrees, RowsOf
    <3>2. \A t \in RowsOf(k) : t <= book[k].trade
      BY <2>5 DEF Sound, Rooted
    <3>3. RowsOf(k) \subseteq Nat
      BY Numbers DEF RowsOf
    <3> QED BY <2>2, <3>1, <3>2, <3>3
  <2> HIDE DEF p
  <2> QED BY <1>1, <2>2, <2>3, <2>4, <2>5
<1> HIDE DEF p, row
<1>5. /\ DOMAIN journal' = DOMAIN journal
      /\ \A t \in DOMAIN journal :
            /\ journal'[t].status = journal[t].status
            /\ journal'[t].by = journal[t].by
            /\ journal'[t].ticket = journal[t].ticket
            /\ journal'[t].asset = journal[t].asset
            /\ \/ journal'[t] = journal[t]
               \/ /\ t = row /\ journal'[t].volume = p.volume
                  /\ journal'[t].banked = p.banked
      /\ "update" \notin failed' /\ row \in DOMAIN journal =>
            journal'[row].volume = p.volume /\ journal'[row].banked = p.banked
  BY <1>2, PatchDoes
<1>6. /\ UNCHANGED <<OpenRows, Up>> /\ \A n : RowsOf(n)' = RowsOf(n)
      /\ failed \subseteq failed' /\ boot.left = {}
      /\ \A n \in DOMAIN book : /\ book'[n].trade = book[n].trade
                                /\ book'[n].asset = book[n].asset
                                /\ book'[n].row = book[n].row
      /\ OpenRows \subseteq DOMAIN journal
  BY <1>1, <1>2, <1>3, <1>5 DEF OpenRows, Up, RowsOf, Sound, Inv, Walking
<1>7. Numbered' /\ Rooted'
  BY <1>3, <1>5, <1>6 DEF Sound, Numbered, Rooted
<1>8. Whole'
  <2>1. ASSUME NEW t \in OpenRows
        PROVE  journal'[t].volume + journal'[t].banked = Lots /\ journal'[t].by = ""
    <3>1. /\ journal[t].volume + journal[t].banked = Lots /\ journal[t].by = ""
          /\ t \in DOMAIN journal
      BY <1>6 DEF Sound, Whole
    <3>2. CASE journal'[t] = journal[t]
      BY <3>1, <3>2
    <3>3. CASE journal'[t].volume = p.volume /\ journal'[t].banked = p.banked
      BY <1>1, <1>5, <3>1, <3>3
    <3> QED BY <1>5, <3>1, <3>2, <3>3
  <2>2. ASSUME NEW n \in DOMAIN book
        PROVE  book'[n].volume + book'[n].banked = Lots
    <3>1. CASE n = k
      BY <1>1, <1>3, <3>1
    <3>2. CASE n # k
      BY <1>3, <3>2 DEF Sound, Whole
    <3> QED BY <3>1, <3>2
  <2> QED BY <1>3, <1>6, <2>1, <2>2 DEF Sound, Whole
<1>9. Own'
  <2> SUFFICES ASSUME "update" \notin failed', NEW n \in DOMAIN book
               PROVE  /\ book[n].trade \in DOMAIN journal => Agrees(n)'
                      /\ "record" \notin failed' => book[n].trade \in DOMAIN journal
    BY <1>3, <1>5, <1>6 DEF Own
  <2>1. /\ book[n].trade \in DOMAIN journal => Agrees(n)
        /\ "record" \notin failed => book[n].trade \in DOMAIN journal
        /\ "update" \notin failed
    BY <1>6 DEF Sound, Own
  <2>2. CASE n = k /\ Agrees(k)
    <3>1. row = book[k].trade /\ row \in DOMAIN journal
      BY <1>4, <1>6, <2>1, <2>2 DEF Agrees
    <3>2. journal'[row].volume = p.volume /\ journal'[row].banked = p.banked
      BY <1>5, <3>1
    <3> QED BY <1>3, <1>5, <1>6, <2>1, <2>2, <3>1, <3>2 DEF Agrees
  <2>3. CASE n # k /\ Agrees(n)
    <3>1. book[n].trade \in DOMAIN journal /\ journal[book[n].trade].ticket # k
      BY <1>6, <2>3 DEF Agrees
    <3>2. book[k].trade \in DOMAIN journal => journal[book[k].trade].ticket = k
      BY <2>1 DEF Sound, Own, Agrees
    <3>3. book[n].trade # row
      BY <1>4, <3>1, <3>2 DEF RowsOf
    <3> QED BY <1>3, <1>5, <1>6, <2>1, <2>3, <3>1, <3>3 DEF Agrees
  <2> QED BY <1>6, <2>1, <2>2, <2>3
<1>10. Sole'
  BY <1>3, <1>5, <1>6, HealthLasts DEF Sound, Sole
<1>11. Covered'
  <2> SUFFICES ASSUME Healthy({"update", "read_open"})' PROVE Covered'
    BY DEF Covered
  <2>1. Healthy({"update", "read_open"})
    BY <1>6, HealthLasts
  <2>2. ASSUME NEW t \in OpenRows, InHand(t) PROVE InHand(t)'
    BY <1>3, <1>5, <1>6, <2>2 DEF InHand
  <2> QED BY <1>3, <1>5, <1>6, <2>1, <2>2 DEF Sound, Covered
<1> QED BY <1>7, <1>8, <1>9, <1>10, <1>11 DEF Sound

LEMMA CloseStartSound ==
    ASSUME Sound, Inv', Past', Up, NEW t \in DOMAIN journal, CloseStart(t)
    PROVE  Sound'
<1>1. /\ UNCHANGED <<journal, book, seq, placed, boot, failed>>
      /\ closing.pc = "idle" /\ t \in OpenRows
      /\ closing' = [pc |-> "close", trade |-> t, ticket |-> journal[t].ticket,
                     asset |-> journal[t].asset, volume |-> journal[t].volume]
  BY DEF CloseStart, tables, broker, process
<1>2. /\ UNCHANGED <<OpenRows, Up>> /\ \A k : RowsOf(k)' = RowsOf(k)
      /\ boot.left = {} /\ closing'.pc = "close" /\ closing'.trade = t
      /\ closing'.ticket = journal[t].ticket
      /\ closing'.asset = journal[t].asset
  BY <1>1 DEF OpenRows, Up, RowsOf, Sound, Inv, Walking
<1>3. Numbered' /\ Rooted' /\ Whole'
  BY <1>1, <1>2 DEF Sound, Numbered, Rooted, Whole
<1>4. Own'
  BY <1>1, <1>2 DEF Sound, Own, Agrees
<1>5. Sole'
  BY <1>1, <1>2, HealthLasts DEF Sound, Sole
<1>6. Covered'
  <2> SUFFICES ASSUME Healthy({"update", "read_open"}) PROVE Covered'
    BY <1>1 DEF Covered, Healthy
  <2>1. "update" \notin failed /\ Distinct
    BY DEF Healthy, Distinct
  <2>2. journal[t].ticket <= seq
    BY <1>1, <2>1, Behind
  <2>3. \A u \in OpenRows : journal[u].ticket \in DOMAIN book
    BY <1>1, <1>2 DEF Sound, Covered, InHand
  <2>4. /\ book[journal[t].ticket].trade = t
        /\ book[journal[t].ticket].asset = journal[t].asset
    <3>1. journal[t].ticket \in DOMAIN book
      BY <1>1, <2>3
    <3>2. book[journal[t].ticket].trade = t
      BY <1>1, <1>2, <2>1, <3>1 DEF Sound, Sole
    <3> QED BY <2>1, <3>1, <3>2 DEF Sound, Own, Agrees
  <2> QED BY <1>1, <1>2, <2>2, <2>3, <2>4 DEF Covered
<1> QED BY <1>3, <1>4, <1>5, <1>6 DEF Sound

LEMMA CloseBrokerSound ==
    ASSUME Sound, Inv', Past', Up, CloseBroker
    PROVE  Sound'
<1> DEFINE k == closing.ticket
<1>0. /\ UNCHANGED <<journal, seq, placed, boot, failed>> /\ closing.pc = "close"
  BY DEF CloseBroker, tables, process
<1>1. CASE k \notin DOMAIN book
  BY <1>0, <1>1, StillSound DEF CloseBroker
<1>2. CASE k \in DOMAIN book
  <2>1. /\ DOMAIN book' = DOMAIN book \ {k}
        /\ \A n \in DOMAIN book' : book'[n] = book[n]
        /\ closing' = [closing EXCEPT !.pc = "row"]
    BY <1>2 DEF CloseBroker, Drop, Restrict
  <2>2. /\ closing'.pc = "row" /\ closing'.trade = closing.trade
        /\ closing'.ticket = k /\ closing'.asset = closing.asset
    BY <2>1 DEF Sound, Inv, Closings
  <2>3. /\ UNCHANGED <<OpenRows, Up>> /\ \A n : RowsOf(n)' = RowsOf(n)
        /\ boot.left = {} /\ OpenRows \subseteq DOMAIN journal
    BY <1>0 DEF OpenRows, Up, RowsOf, Sound, Inv, Walking
  <2>4. Numbered' /\ Rooted'
    BY <1>0, <2>1, <2>3 DEF Sound, Numbered, Rooted
  <2>5. Whole'
    <3>1. k <= seq
      BY <1>2, Numbers
    <3> QED BY <1>0, <2>1, <2>2, <2>3, <3>1 DEF Sound, Whole
  <2>6. Own'
    BY <1>0, <2>1, <2>3 DEF Sound, Own, Agrees
  <2>7. Sole'
    BY <1>0, <2>1, <2>3, HealthLasts DEF Sound, Sole
  <2>8. Covered'
    <3> SUFFICES ASSUME Healthy({"update", "read_open"}) PROVE Covered'
      BY <1>0 DEF Covered, Healthy
    <3>1. "update" \notin failed /\ Distinct
      BY DEF Healthy, Distinct
    <3>2. /\ book[k].trade = closing.trade /\ book[k].asset = closing.asset
          /\ k <= seq
      BY <1>0, <1>2 DEF Sound, Covered
    <3>3. ASSUME NEW t \in OpenRows
          PROVE  InHand(t)' \/ journal[t].ticket \in DOMAIN book'
      <4>1. journal[t].ticket \in DOMAIN book
        BY <1>0, <2>3 DEF Sound, Covered, InHand
      <4>2. CASE journal[t].ticket = k
        <5>1. book[k].trade = t
          BY <1>2, <2>3, <3>1, <4>2 DEF Sound, Sole
        <5>2. journal[t].asset = book[k].asset
          BY <1>2, <2>3, <3>1, <5>1 DEF Sound, Own, Agrees
        <5> QED BY <1>0, <2>2, <3>2, <4>2, <5>1, <5>2 DEF InHand
      <4> QED BY <2>1, <4>1, <4>2
    <3> QED BY <1>0, <2>2, <2>3, <3>2, <3>3 DEF Covered
  <2> QED BY <2>4, <2>5, <2>6, <2>7, <2>8 DEF Sound
<1> QED BY <1>1, <1>2

LEMMA ExitSound == ASSUME Sound, Inv', Past', Up, Exit PROVE Sound'
<1> USE DEF process
<1>1. ASSUME NEW k \in DOMAIN book, GuardClose(k) PROVE Sound'
  <2>1. /\ UNCHANGED <<seq, placed, closing, boot>>
        /\ DOMAIN book' = DOMAIN book \ {k}
        /\ \A n \in DOMAIN book' : book'[n] = book[n]
        /\ Closes(k, book[k].asset, book[k].volume, "guard")
    BY <1>1 DEF GuardClose, Drop, Restrict, flights
  <2>2. Shuts(k, book[k].asset)
    BY <2>1, ClosesShuts
  <2> QED BY <1>1, <2>1, <2>2, ShutSound
<1>2. CASE CloseJournal
  <2>1. /\ UNCHANGED <<seq, placed, book, boot>> /\ closing.pc = "row"
        /\ Closes(closing.ticket, closing.asset, closing.volume, "owner")
        /\ closing' = IdleClosing
    BY <1>2 DEF CloseJournal, broker
  <2>2. Shuts(closing.ticket, closing.asset)
    BY <2>1, ClosesShuts
  <2>3. closing.ticket \notin DOMAIN book
    BY <2>1 DEF Sound, Whole
  <2> QED BY <2>1, <2>2, <2>3, ShutSound
<1> QED
  BY <1>1, <1>2, PartialSound, CloseStartSound, CloseBrokerSound DEF Exit

LEMMA UpkeepSound == ASSUME Sound, Inv', Past', Up, Upkeep PROVE Sound'
<1>1. CASE Reset
  <2>1. PICK gone \in SUBSET Resettable :
           journal' = Restrict(journal, DOMAIN journal \ gone)
    BY <1>1 DEF Reset
  <2>2. /\ UNCHANGED <<book, seq, placed, closing, boot, failed>>
    BY <1>1 DEF Reset, broker, flights, process
  <2>3. /\ DOMAIN journal' = DOMAIN journal \ gone
        /\ \A t \in DOMAIN journal' : journal'[t] = journal[t]
        /\ gone \cap OpenRows = {}
    BY <2>1 DEF Restrict, Resettable
  <2>4. /\ UNCHANGED <<OpenRows, Up>> /\ \A k : RowsOf(k)' \subseteq RowsOf(k)
        /\ OpenRows \subseteq DOMAIN journal'
    BY <2>2, <2>3 DEF OpenRows, RowsOf, Up
  <2>5. Numbered' /\ Rooted' /\ Whole'
    BY <2>2, <2>3, <2>4 DEF Sound, Numbered, Rooted, Whole
  <2>6. Own'
    BY <2>2, <2>3, <2>4 DEF Sound, Own, Agrees
  <2>7. Sole'
    BY <2>2, <2>3, <2>4, HealthLasts DEF Sound, Sole
  <2>8. Covered'
    BY <2>2, <2>3, <2>4 DEF Sound, Covered, InHand, Healthy
  <2> QED BY <2>5, <2>6, <2>7, <2>8 DEF Sound
<1>2. ASSUME NEW k \in logged, Forget(k) PROVE Sound'
  BY <1>2, StillSound DEF Forget, broker, flights, process
<1> QED BY <1>1, <1>2 DEF Upkeep

(***************************************************************************)
(* Startup                                                                 *)
(***************************************************************************)
LEMMA RestartSound ==
    ASSUME Sound, Inv', Past', Restart
    PROVE  Sound'
<1>1. PICK misses \in SUBSET {"read_open"} :
         /\ boot' = [pc |-> "walk",
                     left |-> IF "read_open" \in misses THEN {} ELSE OpenRows]
         /\ failed' = misses \cup (failed \cap {"scan"})
  BY DEF Restart, Misses
<1>2. /\ DOMAIN book' = {} /\ closing'.pc = "idle" /\ UNCHANGED <<journal, placed>>
  BY DEF Restart, EmptyBook, IdleClosing, tables
<1>3. OpenRows' = OpenRows
  BY <1>2 DEF OpenRows
<1>4. Numbered' /\ Rooted' /\ Own' /\ Sole'
  BY <1>2 DEF Sound, Numbered, Rooted, Own, Sole
<1>5. Whole'
  BY <1>1, <1>2, <1>3 DEF Sound, Whole
<1>6. Covered'
  BY <1>1, <1>2, <1>3 DEF Covered, Healthy
<1> QED BY <1>4, <1>5, <1>6 DEF Sound

\* a turn of startup: the row keeps its ticket if it is free and takes the
\* next one otherwise; either way no position has it
LEMMA RehydrateSound ==
    ASSUME Sound, Inv', Past', RehydrateRow
    PROVE  Sound'
<1> DEFINE t == Highest(boot.left)
           k == Number(t)
<1>1. /\ boot.left # {} /\ t \in boot.left /\ t \in OpenRows
      /\ OpenRows \subseteq DOMAIN journal /\ ~Up /\ closing = IdleClosing
      /\ closing.pc = "idle"
  <2>1. boot.left # {}
    BY DEF RehydrateRow
  <2> QED
    BY <2>1, NextRow
    DEF Sound, Inv, Walking, OpenRows, Past, IdleClosing
<1>2. PICK misses :
         /\ k = journal[t].ticket => misses = {}
         /\ journal' = IF "update" \in misses THEN journal
                       ELSE [journal EXCEPT ![t].ticket = k]
         /\ failed' = failed \cup misses /\ misses \subseteq {"update"}
  BY DEF RehydrateRow, Misses
<1>3. /\ DOMAIN book' = DOMAIN book \cup {k} /\ book'[k] = Restored(t)
      /\ \A n \in DOMAIN book \ {k} : book'[n] = book[n]
      /\ boot' = [boot EXCEPT !.left = @ \ {t}]
      /\ UNCHANGED <<placed, closing>>
  BY DEF RehydrateRow, Put, flights
<1>4. k \notin DOMAIN book
  <2>1. \A n \in DOMAIN book : n <= seq /\ n \in Nat
    BY Numbers
  <2>2. seq \in Nat /\ ~(seq + 1 <= seq)
    BY Numbers
  <2> QED BY <2>1, <2>2 DEF Number
<1>5. /\ Restored(t).trade = t /\ Restored(t).asset = journal[t].asset
      /\ Restored(t).volume = journal[t].volume
      /\ Restored(t).banked = journal[t].banked /\ Restored(t).row = t
  BY DEF Restored
<1>6. PICK u, m : u = t /\ m = k
  OBVIOUS
<1> HIDE DEF t, k
<1>7. /\ boot'.left = boot.left \ {u} /\ ~Up'
  BY <1>1, <1>3, <1>6 DEF Sound, Inv, Walking, Up
<1>8. /\ DOMAIN journal' = DOMAIN journal
      /\ \A n \in DOMAIN journal \ {u} : journal'[n] = journal[n]
      /\ journal'[u].status = journal[u].status
      /\ journal'[u].asset = journal[u].asset
      /\ journal'[u].volume = journal[u].volume
      /\ journal'[u].banked = journal[u].banked
      /\ journal'[u].by = journal[u].by
      /\ "update" \notin failed' => journal'[u].ticket = m
  <2>1. u \in DOMAIN journal /\ journal[u] \in Row
    BY <1>1, <1>6, Numbers
  <2>2. CASE journal' = journal /\ "update" \in misses
    BY <1>2, <2>2
  <2>3. CASE journal' = [journal EXCEPT ![u].ticket = m]
    <3>1. /\ journal'[u] = [journal[u] EXCEPT !.ticket = m]
          /\ DOMAIN journal' = DOMAIN journal
          /\ \A n \in DOMAIN journal \ {u} : journal'[n] = journal[n]
      BY <2>1, <2>3
    <3> QED BY <2>1, <3>1 DEF Row
  <2> QED BY <1>2, <1>6, <2>2, <2>3
<1>9. /\ OpenRows' = OpenRows /\ failed \subseteq failed'
      /\ "read_open" \in failed' => "read_open" \in failed
      /\ "record" \in failed' => "record" \in failed
      /\ book'[m] = Restored(u) /\ m \notin DOMAIN book
      /\ DOMAIN book' = DOMAIN book \cup {m}
      /\ \A n \in DOMAIN book : book'[n] = book[n]
      /\ u \in OpenRows /\ u \in boot.left /\ u \in DOMAIN journal
  BY <1>1, <1>2, <1>3, <1>4, <1>6, <1>8 DEF OpenRows
<1>10. /\ book'[m].trade = u /\ book'[m].asset = journal[u].asset
       /\ book'[m].volume = journal[u].volume
       /\ book'[m].banked = journal[u].banked /\ book'[m].row = u
  BY <1>5, <1>6, <1>9
<1>11. Numbered'
  BY <1>3, <1>8, <1>9, <1>10, Numbers DEF Sound, Numbered
<1>12. Rooted'
  <2>1. u # NoRow
    BY <1>9, Numbers DEF NoRow
  <2>2. \A n \in DOMAIN book : book[n].row # NoRow
    BY <1>1 DEF Sound, Rooted
  <2> QED BY <1>7, <1>9, <1>10, <2>1, <2>2 DEF Sound, Rooted
<1>13. Whole'
  <2>1. /\ journal[u].volume + journal[u].banked = Lots /\ journal[u].by = ""
    BY <1>9 DEF Sound, Whole
  <2>2. ASSUME NEW n \in OpenRows
        PROVE  journal'[n].volume + journal'[n].banked = Lots /\ journal'[n].by = ""
    BY <1>1, <1>8, <1>9, <2>1 DEF Sound, Whole
  <2>3. ASSUME NEW n \in DOMAIN book'
        PROVE  book'[n].volume + book'[n].banked = Lots
    <3>1. CASE n = m
      BY <1>10, <2>1, <3>1
    <3>2. CASE n # m
      BY <1>9, <3>2 DEF Sound, Whole
    <3> QED BY <3>1, <3>2
  <2> QED BY <1>1, <1>3, <1>7, <1>9, <2>2, <2>3 DEF Sound, Whole
<1>14. Own'
  <2> SUFFICES ASSUME "update" \notin failed', NEW n \in DOMAIN book'
               PROVE  /\ book'[n].trade \in DOMAIN journal' => Agrees(n)'
                      /\ "record" \notin failed' =>
                            book'[n].trade \in DOMAIN journal'
    BY DEF Own
  <2>1. CASE n = m
    BY <1>8, <1>9, <1>10, <2>1 DEF Agrees
  <2>2. CASE n # m
    <3>1. /\ n \in DOMAIN book /\ book'[n] = book[n] /\ book[n].trade # u
      BY <1>9, <2>2 DEF Sound, Rooted
    <3>2. /\ book[n].trade \in DOMAIN journal => Agrees(n)
          /\ "record" \notin failed' => book[n].trade \in DOMAIN journal
      BY <1>2, <1>9, <3>1 DEF Sound, Own
    <3> QED BY <1>8, <1>9, <3>1, <3>2 DEF Agrees
  <2> QED BY <2>1, <2>2
<1>15. "read_open" \notin failed
  BY <1>1 DEF Sound, Whole
<1>16. ASSUME "update" \notin failed', NEW n \in OpenRows \ boot'.left
       PROVE  journal'[n].ticket \in DOMAIN book'
              /\ (n # u => journal[n].ticket \in DOMAIN book)
  <2>1. CASE n = u
    BY <1>8, <1>9, <1>16, <2>1
  <2>2. CASE n # u
    <3>1. n \in OpenRows \ boot.left
      BY <1>7, <2>2
    <3>2. journal[n].ticket \in DOMAIN book
      BY <1>1, <1>9, <1>15, <1>16, <3>1 DEF Sound, Covered, Healthy, InHand
    <3> QED BY <1>1, <1>8, <1>9, <2>2, <3>2
  <2> QED BY <2>1, <2>2
<1>17. Sole'
  <2> SUFFICES ASSUME "update" \notin failed', Distinct', NEW n \in DOMAIN book',
                      NEW v \in OpenRows \ boot'.left, journal'[v].ticket = n
               PROVE  book'[n].trade = v
    BY <1>9 DEF Sole
  <2>1. "update" \notin failed /\ Distinct
    BY <1>9, HealthLasts
  <2>2. CASE v = u
    BY <1>8, <1>10, <2>2
  <2>3. CASE v # u
    <3>1. /\ journal'[v] = journal[v] /\ v \in OpenRows \ boot.left
          /\ n \in DOMAIN book
      BY <1>1, <1>7, <1>8, <1>16, <2>3
    <3> QED BY <1>9, <2>1, <3>1 DEF Sound, Sole
  <2> QED BY <2>2, <2>3
<1>18. Covered'
  BY <1>1, <1>3, <1>9, <1>16 DEF Covered, Healthy
<1> QED BY <1>11, <1>12, <1>13, <1>14, <1>17, <1>18 DEF Sound

LEMMA SeedSound ==
    ASSUME Sound, Inv', Past', Seed
    PROVE  Sound'
<1>1. /\ UNCHANGED <<journal, book, placed, closing>> /\ failed \subseteq failed'
      /\ ~Up /\ boot.left = {} /\ boot'.left = {} /\ Up'
      /\ closing.pc = "idle"
  BY DEF Seed, tables, flights, Up, Sound, Inv, Walking, Past, IdleClosing
<1>2. OpenRows' = OpenRows /\ \A k : RowsOf(k)' = RowsOf(k)
  BY <1>1 DEF OpenRows, RowsOf
<1>3. Numbered' /\ Rooted' /\ Whole'
  BY <1>1, <1>2 DEF Sound, Numbered, Rooted, Whole
<1>4. Own'
  BY <1>1, <1>2 DEF Sound, Own, Agrees
<1>5. Sole'
  BY <1>1, <1>2, HealthLasts DEF Sound, Sole
<1>6. Covered'
  BY <1>1, <1>2, HealthLasts DEF Sound, Covered, InHand
<1> QED BY <1>3, <1>4, <1>5, <1>6 DEF Sound

LEMMA NextSound == ASSUME Sound, [Next]_vars PROVE Sound'
<1>1. Inv' /\ Past'
  BY NextInv, NextPast DEF Sound
<1>2. CASE Up /\ (Entry \/ Exit \/ Upkeep)
  BY <1>1, <1>2, EntrySound, ExitSound, UpkeepSound
<1>3. CASE Startup
  BY <1>1, <1>3, RestartSound, RehydrateSound, SeedSound DEF Startup
<1>4. CASE UNCHANGED vars
  <2>1. UNCHANGED <<journal, book, seq, placed, boot, failed, closing>>
    BY <1>4 DEF vars, tables, broker, flights, process
  <2>2. /\ UNCHANGED <<OpenRows, Up>> /\ \A k : RowsOf(k)' = RowsOf(k)
    BY <2>1 DEF OpenRows, Up, RowsOf
  <2>3. Numbered' /\ Rooted' /\ Whole' /\ Own'
    BY <2>1, <2>2 DEF Sound, Numbered, Rooted, Whole, Own, Agrees
  <2>4. Sole' /\ Covered'
    BY <2>1, <2>2
    DEF Sound, Sole, Covered, Healthy, Distinct, InHand
  <2> QED BY <1>1, <2>3, <2>4 DEF Sound
<1> QED BY <1>2, <1>3, <1>4 DEF Next

LEMMA AlwaysSound == Spec => []Sound
  BY InitSound, NextSound, PTL DEF Spec

(***************************************************************************)
(* The promises                                                            *)
(***************************************************************************)
\* Every open trade is under the guard, with the journal's ticket and size,
\* through any number of partial closes, restarts, restarts in the middle of
\* a startup, lost journal rows and reused tickets, unless the owner is
\* closing it, when no update of a row and no read of the open rows was lost
\* since startup.
THEOREM AlwaysGuarded == Spec => []Guarded
  BY AlwaysSound, SoundGuards, PTL

\* Every position is on the books, under its own ticket, whatever startup
\* could read.
THEOREM AlwaysJournalled == Spec => []Journalled
  BY AlwaysSound, SoundGuards, PTL

LEMMA PricedStep ==
    ASSUME Sound, [Next]_vars, Healthy({"update"}), Distinct,
           NEW t \in OpenRows \cap DOMAIN journal', journal'[t].by = "guard"
    PROVE  journal'[t].priced = Lots
<1>1. /\ t \in OpenRows /\ t \in DOMAIN journal /\ t \in DOMAIN journal'
      /\ journal[t].by = "" /\ "update" \notin failed
  BY DEF OpenRows, Sound, Whole, Healthy
<1>2. SUFFICES ASSUME journal'[t].by # journal[t].by
               PROVE  journal'[t].priced = Lots
  BY <1>1
<1>3. ASSUME NEW k \in DOMAIN book, Up, GuardClose(k)
      PROVE  journal'[t].priced = Lots
  <2>1. Closes(k, book[k].asset, book[k].volume, "guard")
    BY <1>3 DEF GuardClose
  <2>0. Shuts(k, book[k].asset)
    BY <2>1, ClosesShuts
  <2>2. \A u \in OpenRows \ OpenRows' :
           journal'[u].priced = journal[u].banked + book[k].volume
    BY <2>1, ClosesShuts
  <2>3. t \notin OpenRows' /\ t \in Matching(k, book[k].asset)
    BY <1>1, <1>2, <2>0 DEF Shuts
  <2>4. journal[t].ticket = k /\ boot.left = {}
    BY <1>3, <2>3 DEF Matching, RowsOf, Sound, Inv, Walking
  <2>5. book[k].trade = t
    BY <1>1, <1>3, <2>4 DEF Sound, Sole
  <2>6. journal[t].banked = book[k].banked
    BY <1>1, <2>5 DEF Sound, Own, Agrees
  <2>7. /\ book[k].volume + book[k].banked = Lots
        /\ book[k].volume \in Nat /\ book[k].banked \in Nat
    <3>1. book[k] \in Position /\ Lots \in Nat
      BY Numbers
    <3>2. book[k].volume \in 1..Lots /\ book[k].banked \in 0..Lots
      BY <3>1 DEF Position
    <3>3. book[k].volume + book[k].banked = Lots
      BY <1>3 DEF Sound, Whole
    <3> QED BY <3>1, <3>2, <3>3
  <2>8. journal'[t].priced = journal[t].banked + book[k].volume
    BY <1>1, <2>2, <2>3
  <2> QED BY <2>6, <2>7, <2>8
<1>4. CASE Up /\ Entry
  <2>1. journal' = journal \/ \E a, misses : Order(a, misses)
    BY <1>4
    DEF Entry, AutoStart, AutoMark, AutoEnd, DeskRefuse, DeskMark, Expire,
        Publish, Reject, Approve, AutoSkip, AutoPlace, DeskPlace, ExtendedOpen,
        Admitted, tables
  <2>2. t # placed + 1
    <3>1. t <= placed /\ t \in Nat /\ placed \in Nat
      BY <1>1, Numbers
    <3> QED BY <3>1
  <2>3. journal'[t] = journal[t]
    BY <1>1, <2>1, <2>2 DEF Order, Put
  <2> QED BY <1>2, <2>3
<1>5. ASSUME NEW k \in DOMAIN book, Up, GuardPartial(k)
      PROVE  FALSE
  <2>1. journal' = journal \/ \E u \in DOMAIN journal : \E p : journal' = Patch(u, p)
    BY <1>5 DEF GuardPartial
  <2>2. ASSUME NEW u \in DOMAIN journal, NEW p, journal' = Patch(u, p)
        PROVE  \A v \in DOMAIN journal : journal'[v].by = journal[v].by
    BY <2>2, PatchDoes
  <2> QED BY <1>1, <1>2, <2>1, <2>2
<1>6. CASE Up /\ CloseJournal
  <2>1. Closes(closing.ticket, closing.asset, closing.volume, "owner")
    BY <1>6 DEF CloseJournal
  <2>2. Shuts(closing.ticket, closing.asset)
    BY <2>1, ClosesShuts
  <2>3. \A u \in OpenRows \ OpenRows' : journal'[u].by = "owner"
    BY <2>1, ClosesShuts
  <2> QED BY <1>1, <1>2, <2>2, <2>3 DEF Shuts
<1>7. CASE Up /\ (Upkeep \/ CloseBroker \/ \E u \in DOMAIN journal : CloseStart(u))
  BY <1>1, <1>2, <1>7
  DEF Upkeep, Reset, Forget, Restrict, CloseBroker, CloseStart, tables
<1>8. CASE Startup
  <2>1. journal' = journal \/ \E u, k : journal' = [journal EXCEPT ![u].ticket = k]
    BY <1>8 DEF Startup, Restart, RehydrateRow, Seed, tables
  <2>2. journal[t] \in Row
    BY <1>1, Numbers
  <2>3. \/ journal'[t] = journal[t]
        \/ \E k : journal'[t] = [journal[t] EXCEPT !.ticket = k]
    BY <1>1, <2>1
  <2> QED BY <1>2, <2>2, <2>3 DEF Row
<1>9. CASE UNCHANGED vars
  BY <1>2, <1>9 DEF vars, tables
<1> QED
  BY <1>3, <1>4, <1>5, <1>6, <1>7, <1>8, <1>9 DEF Next, Exit

\* A trade the guard closes has its profit booked on every lot exactly once,
\* however often it was scaled out or restored.
THEOREM AlwaysPriced == Spec => PricedByGuard
<1>1. Sound /\ [Next]_vars =>
         [Healthy({"update"}) /\ Distinct =>
            \A t \in OpenRows \cap DOMAIN journal' :
               journal'[t].by = "guard" => journal'[t].priced = Lots]_vars
  BY PricedStep
<1> QED BY <1>1, AlwaysSound, PTL DEF Spec, PricedByGuard


(***************************************************************************)
(* The open rows only shrink, but for an order                             *)
(***************************************************************************)
Shrinks ==
    \A t \in OpenRows' : t \in OpenRows /\ journal'[t].asset = journal[t].asset

LEMMA EntryRows ==
    ASSUME Entry
    PROVE  \/ journal' = journal
           \/ \E g \in Signals : AutoPlace(g)
           \/ DeskPlace
           \/ \E a \in Assets : ExtendedOpen(a)
  BY DEF Entry, AutoStart, AutoMark, AutoEnd, DeskRefuse, DeskMark, Expire,
         Publish, Reject, Approve, AutoSkip, tables

LEMMA ExitShrinks == ASSUME Sound, Exit PROVE Shrinks
<1>0. \A t \in OpenRows : t \in DOMAIN journal /\ journal[t].status = "open"
  BY DEF OpenRows
<1>1. ASSUME NEW k, NEW a, Shuts(k, a) PROVE Shrinks
  BY <1>1 DEF Shuts, Shrinks
<1>2. ASSUME NEW k \in DOMAIN book, GuardClose(k) PROVE Shrinks
  <2>1. Closes(k, book[k].asset, book[k].volume, "guard")
    BY <1>2 DEF GuardClose
  <2>2. Shuts(k, book[k].asset)
    BY <2>1, ClosesShuts
  <2> QED BY <1>1, <2>2
<1>3. CASE CloseJournal
  <2>1. Closes(closing.ticket, closing.asset, closing.volume, "owner")
    BY <1>3 DEF CloseJournal
  <2>2. Shuts(closing.ticket, closing.asset)
    BY <2>1, ClosesShuts
  <2> QED BY <1>1, <2>2
<1>4. ASSUME NEW k \in DOMAIN book, GuardPartial(k) PROVE Shrinks
  <2>1. journal' = journal \/ \E u \in DOMAIN journal : \E p : journal' = Patch(u, p)
    BY <1>4 DEF GuardPartial
  <2>2. ASSUME NEW u \in DOMAIN journal, NEW p, journal' = Patch(u, p)
        PROVE  /\ DOMAIN journal' = DOMAIN journal
               /\ \A t \in DOMAIN journal :
                    /\ journal'[t].status = journal[t].status
                    /\ journal'[t].asset = journal[t].asset
    BY <2>2, PatchDoes
  <2> QED BY <2>1, <2>2 DEF Shrinks, OpenRows
<1>5. CASE CloseBroker \/ \E t \in DOMAIN journal : CloseStart(t)
  BY <1>5 DEF CloseBroker, CloseStart, tables, Shrinks, OpenRows
<1> QED BY <1>2, <1>3, <1>4, <1>5 DEF Exit

LEMMA RestShrinks == ASSUME Sound, Upkeep \/ Startup \/ UNCHANGED vars PROVE Shrinks
<1>1. CASE journal' = journal
  BY <1>1 DEF Shrinks, OpenRows
<1>2. CASE Reset
  BY <1>2 DEF Reset, Restrict, Shrinks, OpenRows
<1>3. CASE RehydrateRow
  <2>1. journal' = journal \/ \E u, k : journal' = [journal EXCEPT ![u].ticket = k]
    BY <1>3 DEF RehydrateRow
  <2>2. ASSUME NEW u, NEW k, journal' = [journal EXCEPT ![u].ticket = k],
               NEW t \in DOMAIN journal
        PROVE  /\ journal'[t].status = journal[t].status
               /\ journal'[t].asset = journal[t].asset
    <3>1. \/ journal'[t] = journal[t]
          \/ journal'[t] = [journal[t] EXCEPT !.ticket = k]
      BY <2>2
    <3>2. journal[t] \in Row
      BY Numbers
    <3> QED BY <3>1, <3>2 DEF Row
  <2>3. DOMAIN journal' = DOMAIN journal
    BY <2>1
  <2> QED BY <1>1, <2>1, <2>2, <2>3 DEF Shrinks, OpenRows
<1> QED
  BY <1>1, <1>2, <1>3
  DEF Upkeep, Forget, Startup, Restart, Seed, vars, tables

\* an order adds one open row at most
LEMMA OrderRows ==
    ASSUME Sound, NEW a, NEW misses, Order(a, misses)
    PROVE  /\ OpenRows' \subseteq OpenRows \cup {placed + 1}
           /\ \A t \in OpenRows' :
                \/ journal'[t].asset = a
                \/ t \in OpenRows /\ journal'[t].asset = journal[t].asset
<1>1. placed + 1 \notin DOMAIN journal
  <2>1. \A t \in DOMAIN journal : t <= placed /\ t \in Nat
    BY Numbers
  <2>2. placed \in Nat /\ ~(placed + 1 <= placed)
    BY Numbers
  <2> QED BY <2>1, <2>2
<1>2. PICK n : n = placed + 1
  OBVIOUS
<1>3. \/ journal' = journal
      \/ /\ DOMAIN journal' = DOMAIN journal \cup {n}
         /\ journal'[n].asset = a
         /\ \A t \in DOMAIN journal : journal'[t] = journal[t]
  BY <1>1, <1>2 DEF Order, Put
<1> QED BY <1>2, <1>3 DEF OpenRows

(***************************************************************************)
(* One order per asset                                                     *)
(*                                                                         *)
(* The assets of a batch differ because the scanner keeps one pending      *)
(* signal per asset, and a signal that is no longer pending never is       *)
(* again.  What the cycle did not see open at its start is open now only   *)
(* because of the cycle, and then it left the batch.                       *)
(***************************************************************************)
OnePending ==
    "scan" \notin failed =>
        \A g, h \in Pending : AssetOf[g] = AssetOf[h] => g = h

Unseen ==
    auto.pc # "idle" /\ auto.alone /\ "scan" \notin failed =>
        /\ \A g, h \in auto.batch : AssetOf[g] = AssetOf[h] => g = h
        /\ \A g \in auto.batch, t \in OpenRows :
              journal[t].asset = AssetOf[g] => AssetOf[g] \in auto.held

\* the rows the cycle counts are at least the rows there are
Counted ==
    auto.pc # "idle" /\ auto.alone /\ "read_gate" \notin failed =>
        Cardinality(OpenRows) <= auto.open + (IF auto.pc = "mark" THEN 1 ELSE 0)

Alone == Sound /\ OnePending /\ Unseen /\ Counted

LEMMA InitAlone == Init => Alone
<1> SUFFICES ASSUME Init PROVE Alone
  OBVIOUS
<1>1. auto.pc = "idle" /\ Pending = {}
  BY DEF Init, IdleAuto, Pending
<1> QED BY <1>1, InitSound DEF Alone, OnePending, Unseen, Counted

\* a failed dedup is remembered for good, and the only new pending signal is
\* one whose asset had none
LEMMA PendingStep ==
    ASSUME Sound, OnePending, [Next]_vars
    PROVE  OnePending' /\ ("scan" \notin failed' => "scan" \notin failed)
<1>1. "scan" \in failed => "scan" \in failed'
  BY DEF Next, Entry, Exit, Upkeep, Startup, Publish, Reject, Approve, AutoSkip,
         AutoPlace, AutoStart, AutoMark, AutoEnd, DeskPlace, DeskRefuse,
         DeskMark, ExtendedOpen, Expire, Order, Admitted, GuardClose, Closes,
         GuardPartial, CloseStart, CloseBroker, CloseJournal, Reset, Forget,
         Restart, RehydrateRow, Seed, vars
<1>2. ASSUME NEW g \in Signals, Publish(g) PROVE OnePending'
  <2> SUFFICES ASSUME "scan" \notin failed', NEW h \in Pending', NEW i \in Pending',
                      AssetOf[h] = AssetOf[i]
               PROVE  h = i
    BY DEF OnePending
  <2>1. signals \in [Signals -> Approvals]
    BY DEF Sound, Inv
  <2>2. /\ Pending' = Pending \cup {g}
        /\ \A j \in Pending : AssetOf[j] # AssetOf[g]
    BY <1>2, <2>1 DEF Publish, Pending
  <2> QED BY <1>1, <2>2 DEF OnePending
<1>3. ASSUME Pending' \subseteq Pending PROVE OnePending'
  BY <1>1, <1>3 DEF OnePending
<1>4. Pending' \subseteq Pending \/ \E g \in Signals : Publish(g)
  <2> DEFINE Marks == \E g : \E a \in {"approved", "rejected"} :
                         signals' = [signals EXCEPT ![g] = a]
             Ages == \E stale : signals' = Expired(stale)
             Sends == \E g \in Signals : Publish(g)
  <2>1. signals' = signals \/ Marks \/ Ages \/ Sends
    <3>1. ASSUME NEW g \in Signals, Reject(g) \/ Approve(g) PROVE Marks
      BY <3>1 DEF Reject, Approve
    <3>2. CASE AutoMark \/ DeskRefuse \/ DeskMark
      BY <3>2 DEF AutoMark, DeskRefuse, DeskMark
    <3>3. CASE AutoStart \/ Expire
      BY <3>3 DEF AutoStart, Expire
    <3>4. ASSUME NEW g \in Signals, AutoSkip(g) \/ AutoPlace(g)
          PROVE  signals' = signals
      BY <3>4 DEF AutoSkip, AutoPlace
    <3>5. CASE AutoEnd \/ DeskPlace \/ \E a \in Assets : ExtendedOpen(a)
      BY <3>5 DEF AutoEnd, DeskPlace, ExtendedOpen
    <3>6. CASE Exit \/ Upkeep \/ Startup \/ UNCHANGED vars
      BY <3>6 DEF Exit, Upkeep, Startup, GuardClose, GuardPartial, CloseStart,
                  CloseBroker, CloseJournal, Reset, Forget, Restart,
                  RehydrateRow, Seed, vars
    <3> HIDE DEF Marks, Ages
    <3> QED BY <3>1, <3>2, <3>3, <3>4, <3>5, <3>6 DEF Next, Entry
  <2>2. signals \in [Signals -> Approvals]
    BY DEF Sound, Inv
  <2> QED BY <2>1, <2>2 DEF Pending, Expired
<1> QED BY <1>1, <1>2, <1>3, <1>4

(***************************************************************************)
(* The steps of the cycle                                                  *)
(***************************************************************************)
LEMMA RowsFinite ==
    ASSUME Sound
    PROVE  /\ IsFiniteSet(OpenRows) /\ Cardinality(OpenRows) \in Nat
           /\ auto.open \in Nat
<1>1. OpenRows \subseteq 1..MaxTrades /\ MaxTrades \in Nat
  BY TradeBookAssumption DEF OpenRows, Sound, Inv, JournalOK, Trades
<1>2. IsFiniteSet(OpenRows)
  <2>1. IsFiniteSet(1..MaxTrades)
    BY <1>1, FS_Interval
  <2> QED BY <1>1, <2>1, FS_Subset
<1> QED BY <1>2, FS_CardinalityType DEF Sound, Inv, Autos

\* every step that leaves the cycle alone, or hears that it is not
LEMMA ShrinkAlone ==
    ASSUME Alone, Sound', Shrinks, "scan" \notin failed' => "scan" \notin failed,
           \/ auto' = auto /\ failed \subseteq failed'
           \/ auto'.pc = "idle" \/ ~auto'.alone
    PROVE  Unseen' /\ Counted'
<1> SUFFICES ASSUME auto' = auto, failed \subseteq failed' PROVE Unseen' /\ Counted'
  BY DEF Unseen, Counted
<1>1. Unseen'
  BY DEF Alone, Unseen, Shrinks
<1>2. Counted'
  <2>1. OpenRows' \subseteq OpenRows
    BY DEF Shrinks
  <2>2. Cardinality(OpenRows') <= Cardinality(OpenRows)
    BY <2>1, RowsFinite, FS_Subset DEF Alone
  <2>3. Cardinality(OpenRows') \in Nat /\ Cardinality(OpenRows) \in Nat
    BY <2>1, RowsFinite, FS_Subset, FS_CardinalityType DEF Alone
  <2>4. auto.open \in Nat
    BY RowsFinite DEF Alone
  <2> QED BY <2>2, <2>3, <2>4 DEF Alone, Counted
<1> QED BY <1>1, <1>2

LEMMA StartAlone ==
    ASSUME Alone, Sound', AutoStart
    PROVE  Unseen' /\ Counted'
<1>1. PICK stale, misses :
         /\ auto' = [pc |-> "walk", batch |-> Pending \ stale,
                     held |-> OpenAssets, open |-> OpenCount(misses),
                     sig |-> NoSignal, alone |-> TRUE]
         /\ failed' = failed \cup misses
  BY DEF AutoStart
<1>2. /\ UNCHANGED <<journal, book, OpenRows>>
      /\ auto'.batch \subseteq Pending /\ auto'.held = OpenAssets
      /\ auto'.pc = "walk" /\ auto'.open = OpenCount(misses)
  BY <1>1 DEF AutoStart, tables, broker, OpenRows
<1>3. Unseen'
  BY <1>1, <1>2 DEF Alone, OnePending, Unseen, OpenAssets
<1>4. Counted'
  <2>1. Cardinality(OpenRows) \in Nat
    BY RowsFinite DEF Alone
  <2> QED BY <1>1, <1>2, <2>1 DEF Counted, OpenCount
<1> QED BY <1>3, <1>4

LEMMA PlaceAlone ==
    ASSUME Alone, Sound', NEW g \in Signals, AutoPlace(g)
    PROVE  Unseen' /\ Counted'
<1>1. PICK misses : Order(AssetOf[g], misses)
  BY DEF AutoPlace
<1>2. /\ OpenRows' \subseteq OpenRows \cup {placed + 1}
      /\ \A t \in OpenRows' :
            \/ journal'[t].asset = AssetOf[g]
            \/ t \in OpenRows /\ journal'[t].asset = journal[t].asset
  BY <1>1, OrderRows DEF Alone
<1>3. /\ auto'.pc = "mark" /\ auto'.batch = auto.batch \ {g}
      /\ auto'.held = auto.held /\ auto'.open = auto.open
      /\ auto'.alone = auto.alone /\ auto.pc = "walk" /\ g \in auto.batch
      /\ failed \subseteq failed'
  BY <1>1 DEF AutoPlace, Alone, Sound, Inv, Autos, Order
<1>4. Unseen'
  <2> SUFFICES ASSUME auto.alone, "scan" \notin failed PROVE Unseen'
    BY <1>3 DEF Unseen
  <2>1. /\ \A h, i \in auto.batch : AssetOf[h] = AssetOf[i] => h = i
        /\ \A h \in auto.batch, t \in OpenRows :
              journal[t].asset = AssetOf[h] => AssetOf[h] \in auto.held
    BY <1>3 DEF Alone, Unseen
  <2>2. ASSUME NEW h \in auto.batch \ {g}, NEW t \in OpenRows',
               journal'[t].asset = AssetOf[h]
        PROVE  AssetOf[h] \in auto.held
    BY <1>2, <1>3, <2>1, <2>2
  <2> QED BY <1>3, <2>1, <2>2 DEF Unseen
<1>5. Counted'
  <2>1. /\ IsFiniteSet(OpenRows) /\ Cardinality(OpenRows) \in Nat
        /\ auto.open \in Nat
    BY RowsFinite DEF Alone
  <2>2. PICK n : n = placed + 1
    OBVIOUS
  <2>3. /\ IsFiniteSet(OpenRows \cup {n})
        /\ Cardinality(OpenRows \cup {n}) <= Cardinality(OpenRows) + 1
        /\ Cardinality(OpenRows \cup {n}) \in Nat
    <3>1. /\ IsFiniteSet(OpenRows \cup {n})
          /\ Cardinality(OpenRows \cup {n}) = IF n \in OpenRows
                                              THEN Cardinality(OpenRows)
                                              ELSE Cardinality(OpenRows) + 1
      BY <2>1, FS_AddElement
    <3> QED BY <2>1, <3>1
  <2>4. /\ Cardinality(OpenRows') <= Cardinality(OpenRows \cup {n})
        /\ Cardinality(OpenRows') \in Nat
    BY <1>2, <2>2, <2>3, FS_Subset, FS_CardinalityType
  <2>5. Cardinality(OpenRows') <= Cardinality(OpenRows) + 1
    BY <2>1, <2>3, <2>4
  <2>6. auto.alone /\ "read_gate" \notin failed =>
           Cardinality(OpenRows) <= auto.open
    BY <1>3, <2>1 DEF Alone, Counted
  <2>7. auto.alone /\ "read_gate" \notin failed =>
           Cardinality(OpenRows') <= auto.open + 1
    BY <2>1, <2>4, <2>5, <2>6
  <2> QED BY <1>3, <2>7 DEF Counted
<1> QED BY <1>4, <1>5

LEMMA WalkAlone ==
    ASSUME Alone, Sound', AutoMark \/ \E g \in Signals : AutoSkip(g)
    PROVE  Unseen' /\ Counted'
<1>1. /\ UNCHANGED <<journal, failed, OpenRows>> /\ auto.pc # "idle"
      /\ auto'.batch \subseteq auto.batch /\ auto'.held = auto.held
      /\ auto'.alone = auto.alone
  <2>1. auto \in Autos
    BY DEF Alone, Sound, Inv
  <2>2. CASE AutoMark
    BY <2>1, <2>2 DEF AutoMark, Autos, tables, OpenRows
  <2>3. ASSUME NEW g \in Signals, AutoSkip(g)
        PROVE  /\ UNCHANGED <<journal, failed, OpenRows>> /\ auto.pc # "idle"
               /\ auto'.batch \subseteq auto.batch /\ auto'.held = auto.held
               /\ auto'.alone = auto.alone
    BY <2>1, <2>3 DEF AutoSkip, Autos, tables, OpenRows
  <2> QED BY <2>2, <2>3
<1>2. Unseen'
  BY <1>1 DEF Alone, Unseen
<1>3. Counted'
  <2>1. \/ auto.pc = "mark" /\ auto'.pc = "walk" /\ auto'.open = auto.open + 1
        \/ auto.pc = "walk" /\ auto'.pc = "walk" /\ auto'.open = auto.open
    BY DEF AutoMark, AutoSkip, Fired, Alone, Sound, Inv, Autos
  <2>2. Cardinality(OpenRows) \in Nat /\ auto.open \in Nat
    BY RowsFinite DEF Alone
  <2> QED BY <1>1, <2>1, <2>2 DEF Alone, Counted
<1> QED BY <1>2, <1>3

LEMMA NextAlone == ASSUME Alone, [Next]_vars PROVE Alone'
<1>1. Sound' /\ OnePending' /\ ("scan" \notin failed' => "scan" \notin failed)
  BY NextSound, PendingStep DEF Alone
<1> SUFFICES Unseen' /\ Counted'
  BY <1>1 DEF Alone
<1> DEFINE Idles == auto'.pc = "idle" \/ ~auto'.alone
           Keeps == auto' = auto /\ failed \subseteq failed'
<1>2. CASE Up /\ Entry
  <2>1. ASSUME journal' = journal, Keeps \/ Idles PROVE Unseen' /\ Counted'
    <3>1. Shrinks
      BY <2>1 DEF Shrinks, OpenRows
    <3> QED BY <1>1, <2>1, <3>1, ShrinkAlone
  <2>2. CASE AutoEnd \/ DeskRefuse \/ DeskMark \/ Expire
    <3>1. journal' = journal /\ (Keeps \/ Idles)
      BY <2>2 DEF AutoEnd, DeskRefuse, DeskMark, Expire, tables, flights, IdleAuto
    <3> QED BY <2>1, <3>1
  <2>3. ASSUME NEW g \in Signals, Publish(g) \/ Reject(g) \/ Approve(g)
        PROVE  Unseen' /\ Counted'
    <3>1. journal' = journal /\ Keeps
      BY <2>3 DEF Publish, Reject, Approve, tables, flights
    <3> HIDE DEF Keeps, Idles
    <3> QED BY <2>1, <3>1
  <2>4. CASE DeskPlace \/ \E a \in Assets : ExtendedOpen(a)
    <3>1. auto' = [auto EXCEPT !.alone = (auto.pc = "idle")]
      BY <2>4 DEF DeskPlace, ExtendedOpen
    <3>2. Idles
      BY <3>1 DEF Alone, Sound, Inv, Autos
    <3>3. CASE auto'.pc = "idle"
      BY <3>3 DEF Unseen, Counted
    <3>4. CASE ~auto'.alone
      BY <3>4 DEF Unseen, Counted
    <3> QED BY <3>2, <3>3, <3>4
  <2> HIDE DEF Keeps, Idles
  <2> QED
    BY <1>1, <1>2, <2>2, <2>3, <2>4, StartAlone, PlaceAlone, WalkAlone DEF Entry
<1>3. CASE Up /\ Exit
  <2>1. Keeps
    BY <1>3 DEF Exit, GuardClose, GuardPartial, CloseStart, CloseBroker,
                CloseJournal, Closes, flights
  <2>2. Shrinks
    BY <1>3, ExitShrinks DEF Alone
  <2> QED BY <1>1, <2>1, <2>2, ShrinkAlone DEF Alone
<1>4. CASE Upkeep \/ Startup \/ UNCHANGED vars
  <2>1. Keeps \/ Idles
    BY <1>4 DEF Upkeep, Reset, Forget, Startup, Restart, RehydrateRow, Seed,
                vars, flights, IdleAuto
  <2>2. Shrinks
    BY <1>4, RestShrinks DEF Alone
  <2> QED BY <1>1, <2>1, <2>2, ShrinkAlone DEF Alone
<1> QED BY <1>2, <1>3, <1>4 DEF Next

LEMMA AlwaysAlone == Spec => []Alone
  BY InitAlone, NextAlone, PTL DEF Spec

\* the only step that takes the cycle from the walk to the mark fires
LEMMA FiringStep ==
    ASSUME Alone, [Next]_vars, auto.pc = "walk", auto'.pc = "mark"
    PROVE  \E g \in auto.batch : /\ auto'.sig = g /\ AssetOf[g] \notin auto.held
                                 /\ auto.open < MaxOpen
<1>0. auto \in Autos
  BY DEF Alone, Sound, Inv
<1>1. \E g \in Signals : AutoPlace(g)
  <2>1. Up /\ Entry
    <3>1. Exit => auto' = auto
      BY DEF Exit, GuardClose, GuardPartial, CloseStart, CloseBroker,
             CloseJournal, flights
    <3>2. Upkeep \/ Startup \/ UNCHANGED vars => auto' = auto \/ auto'.pc = "idle"
      BY DEF Upkeep, Reset, Forget, Startup, Restart, RehydrateRow, Seed, vars,
             flights, IdleAuto
    <3> QED BY <3>1, <3>2 DEF Next
  <2>2. ~(AutoStart \/ AutoMark \/ AutoEnd \/ DeskRefuse \/ DeskMark \/ Expire)
    BY DEF AutoStart, AutoMark, AutoEnd, DeskRefuse, DeskMark, Expire, flights,
           IdleAuto
  <2>3. ASSUME NEW g \in Signals
        PROVE  ~(Publish(g) \/ Reject(g) \/ Approve(g) \/ AutoSkip(g))
    BY <1>0 DEF Publish, Reject, Approve, AutoSkip, flights, Autos
  <2>4. ~DeskPlace /\ \A a \in Assets : ~ExtendedOpen(a)
    BY <1>0 DEF DeskPlace, ExtendedOpen, Autos
  <2> QED BY <2>1, <2>2, <2>3, <2>4 DEF Entry
<1> QED BY <1>1 DEF AutoPlace, Alone, Sound, Inv, Autos

\* The auto trader never fires into an asset with an open trade and never
\* twice in a cycle into one asset, although it looks once per cycle, while
\* the scanner's dedup has been answered and no one else places an order.
THEOREM NeverStacked == Spec => NoStackedFire
<1>1. Alone /\ [Next]_vars =>
         [auto.pc = "walk" /\ auto'.pc = "mark" /\ auto.alone /\ Healthy({"scan"})
          => \A t \in OpenRows : journal[t].asset # AssetOf[auto'.sig]]_vars
  <2> SUFFICES ASSUME Alone, [Next]_vars, auto.pc = "walk", auto'.pc = "mark",
                      auto.alone, Healthy({"scan"}), NEW t \in OpenRows
               PROVE  journal[t].asset # AssetOf[auto'.sig]
    OBVIOUS
  <2>1. PICK g \in auto.batch : auto'.sig = g /\ AssetOf[g] \notin auto.held
    BY FiringStep
  <2> QED BY <2>1 DEF Alone, Unseen, Healthy
<1> QED BY <1>1, AlwaysAlone, PTL DEF Spec, NoStackedFire

\* The orders of one cycle keep the cap on open positions together, although
\* the rows are counted once per cycle, while no one else places an order.
THEOREM CapKept == Spec => WithinCap
<1>1. Alone /\ [Next]_vars =>
         [auto.pc = "walk" /\ auto'.pc = "mark" /\ auto.alone
          /\ Healthy({"read_gate"}) => Cardinality(OpenRows) < MaxOpen]_vars
  <2> SUFFICES ASSUME Alone, [Next]_vars, auto.pc = "walk", auto'.pc = "mark",
                      auto.alone, Healthy({"read_gate"})
               PROVE  Cardinality(OpenRows) < MaxOpen
    OBVIOUS
  <2>1. auto.open < MaxOpen
    BY FiringStep
  <2>2. /\ Cardinality(OpenRows) \in Nat /\ auto.open \in Nat /\ MaxOpen \in Nat
    BY RowsFinite, TradeBookAssumption DEF Alone
  <2>3. Cardinality(OpenRows) <= auto.open
    BY <2>2 DEF Alone, Counted, Healthy
  <2> QED BY <2>1, <2>2, <2>3
<1> QED BY <1>1, AlwaysAlone, PTL DEF Spec, WithinCap
=============================================================================
