----------------------------- MODULE AlertsProofs -----------------------------
(***************************************************************************)
(* Proofs about the three benches of MCAlerts, for every value of the      *)
(* constants:                                                              *)
(*   AlwaysCounted        a tick of the scheduler leaves one row or is     *)
(*                        lost                                             *)
(*   AlwaysHonest         a row says whether it rang, and a device is      *)
(*                        struck off for failing often enough              *)
(*   BreachAlwaysHeard    a breach that stands is announced in time        *)
(*   AlwaysQuiet          an alert comes a window after the last like it   *)
(*   MeasuresAlwaysAgree  no account reader allows what another forbids    *)
(*                                                                         *)
(* Every press, push and row of Alerts waits at an await on what it read   *)
(* before it.  Book says what is still true of it there: whose the row in  *)
(* hand is (Owned), what its outcome was (Told) and which channel it tried *)
(* (HonestChannel).  Heeded says it of the devices (Charged).              *)
(*                                                                         *)
(* Hearing says of the rows that their times only grow (Dated), that only  *)
(* the monitor and the keeper warn about the account (Commissioned), and   *)
(* how far the warnings of the keeper can lead the monitor's cooldown      *)
(* (Blocked).                                                              *)
(*                                                                         *)
(* The readers of the account differ in what they count as its peak.  Any  *)
(* row the kill switch counts is below the card's peak (PeakAbove), and a  *)
(* drop from a higher peak to a lower equity is no smaller in percent      *)
(* while the limit is at most 100 (DropsGrow).                             *)
(***************************************************************************)
EXTENDS MCAlerts, FiniteLemmas, TLAPS

JP == INSTANCE JobsProofs

\* the bench of the scheduler is the one that JobsProofs is about
LEMMA SameSteps ==
    /\ J!Init => JP!Init
    /\ J!Next => JP!Next
    /\ JP!OneAtATime /\ JP!OneRowEach /\ JP!HeartbeatTrue =>
          J!OneAtATime /\ J!OneRowEach /\ J!HeartbeatTrue
<1>0. /\ \A S : J!Cardinality(S) = JP!Cardinality(S)
      /\ J!Unborn = JP!Unborn
  BY DEF J!Cardinality, JP!Cardinality, J!Unborn, JP!Unborn
<1>1. \A j, what : J!Count(j, what) => JP!Count(j, what)
  BY DEF J!Count, JP!Count
<1>2. \A j, status : J!Log(j, status) => JP!Log(j, status)
  BY DEF J!Log, JP!Log
<1>3. \A j, age : J!Leave(j, age) => JP!Leave(j, age)
  BY DEF J!Leave, JP!Leave
<1>4. \A j : J!Begin(j) => JP!Begin(j)
  BY <1>1 DEF J!Begin, J!Submit, JP!Begin, JP!Submit
<1>5. \A j : J!Skip(j) => JP!Skip(j)
  BY <1>1, <1>2 DEF J!Skip, J!Submit, J!Skipped, JP!Skip, JP!Submit, JP!Skipped
<1>6. \A j, age : J!Finish(j, age) => JP!Finish(j, age)
  BY <1>1, <1>2, <1>3 DEF J!Finish, J!Ends, JP!Finish, JP!Ends
<1>7. \A j, age : J!Watchdog(j, age) => JP!Watchdog(j, age)
  BY <1>1, <1>2, <1>3 DEF J!Watchdog, J!Overdue, JP!Watchdog, JP!Overdue
<1>8. \A j, age : J!Shutdown(j, age) => JP!Shutdown(j, age)
  BY <1>1, <1>2, <1>3 DEF J!Shutdown, JP!Shutdown
<1>9. J!Die => JP!Die
  BY <1>0 DEF J!Die, JP!Die
<1>10. J!Outage => JP!Outage
  BY DEF J!Outage, JP!Outage
<1>11. J!Tick => JP!Tick
  BY DEF J!Tick, J!Overdue, JP!Tick, JP!Overdue
<1>12. J!Init => JP!Init
  BY DEF J!Init, J!Unborn, J!Ends, JP!Init, JP!Unborn, JP!Ends
<1>13. J!Next => JP!Next
  BY <1>4, <1>5, <1>6, <1>7, <1>8, <1>9, <1>10, <1>11
  DEF J!Next, J!Passing, J!Ages, JP!Next, JP!Passing, JP!Ages
<1>14. JP!OneAtATime /\ JP!OneRowEach /\ JP!HeartbeatTrue =>
          J!OneAtATime /\ J!OneRowEach /\ J!HeartbeatTrue
  BY <1>0 DEF J!OneAtATime, J!OneRowEach, J!HeartbeatTrue,
         JP!OneAtATime, JP!OneRowEach, JP!HeartbeatTrue
<1> QED BY <1>12, <1>13, <1>14

Ticking == bench = "jobs" => JP!JobInv

\* A worker never runs beside itself, each tick leaves one row and the
\* heartbeat agrees with the log.
THEOREM AlwaysCounted == ScheduleSpec => []TicksCounted
<1>1. ScheduleInit => Ticking
  BY SameSteps, JP!InitJobInv DEF ScheduleInit, Ticking
<1>2. Ticking /\ [ScheduleNext]_allVars => Ticking'
  <2> SUFFICES ASSUME Ticking, [ScheduleNext]_allVars, bench' = "jobs"
               PROVE  JP!JobInv'
    BY DEF Ticking
  <2>1. bench = "jobs" /\ [JP!Next]_(JP!vars)
    BY SameSteps DEF ScheduleNext, allVars, jobVars, JP!vars
  <2> QED BY <2>1, JP!NextJobInv DEF Ticking
<1>3. Ticking => TicksCounted
  BY SameSteps, JP!InvGives DEF Ticking, TicksCounted
<1> QED BY <1>1, <1>2, <1>3, PTL DEF ScheduleSpec

(***************************************************************************)
(* What an alert, its carrier and its row say of each other                *)
(***************************************************************************)
Said == Kinds \cup GuardSays
Place == Assets \cup {""}
AlertRecord ==
    [kind : Said, asset : Place, by : Actors,
     line : BOOLEAN, web : BOOLEAN, rung : Nat, torn : BOOLEAN]
RowRecord ==
    [id : Nat, kind : Said, asset : Place,
     status : {"pending", "sent", "failed", "skipped"},
     channel : {"line", "web_push", "both"}, at : Int]
IsCall(c) ==
    /\ c = [pc |-> c.pc, id |-> c.id, row |-> c.row, line |-> c.line,
            web |-> c.web, todo |-> c.todo, batch |-> c.batch, off |-> c.off]
    /\ c.pc \in {"idle", "next", "line", "web"}
    /\ c.id \in Nat /\ c.row \in Nat /\ c.line \in BOOLEAN /\ c.web \in BOOLEAN

Shape ==
    /\ alerts \in Seq(AlertRecord)
    /\ notes \in Seq(RowRecord)
    /\ call = [a \in Actors |-> call[a]] /\ \A a \in Actors : IsCall(call[a])
    /\ counts \in [trouble : Nat, edits : Nat]
    /\ clock \in Int

\* what a coroutine is about
Errand ==
    \A a \in Actors :
        /\ call[a].id <= Len(alerts)
        /\ call[a].id = 0 <=> call[a].pc \in {"idle", "next"} \/ a = "tester"
        /\ call[a].pc \in {"next", "line"} => ~call[a].line /\ ~call[a].web
        /\ call[a].pc = "line" => a # "tester"

\* an alert has one carrier at most: a coroutine that raised it, or its row,
\* which only the courier takes up, and only while it waits
Owned ==
    /\ \A n \in DOMAIN notes : notes[n].id \in 1..Len(alerts)
    /\ \A m, n \in DOMAIN notes : notes[m].id = notes[n].id => m = n
    /\ \A a, b \in Actors : call[a].id = call[b].id => a = b \/ call[a].id = 0
    /\ \A a \in Actors \ {"courier"}, n \in DOMAIN notes : call[a].id # notes[n].id
    /\ \A n \in call["courier"].batch :
          n \in DOMAIN notes /\ notes[n].status = "pending"
    /\ call["courier"].id # 0 =>
          /\ call["courier"].row \in call["courier"].batch
          /\ notes[call["courier"].row].id = call["courier"].id

\* until an alert has rung, what its carrier remembers is all that was delivered
Told ==
    \A i \in DOMAIN alerts :
        /\ \A a \in Actors : call[a].id = i =>
              /\ call[a].line => alerts[i].line
              /\ call[a].web => alerts[i].web
              /\ ~alerts[i].torn /\ alerts[i].rung = 0 =>
                    /\ alerts[i].line => call[a].line
                    /\ alerts[i].web => call[a].web
        /\ /\ ~alerts[i].torn /\ alerts[i].rung = 0
           /\ \A a \in Actors : call[a].id # i
           => ~alerts[i].line /\ ~alerts[i].web

\* while nothing has failed, what is still to be delivered has not rung
Fresh ==
    counts.trouble = 0 =>
        \A i \in DOMAIN alerts :
            /\ alerts[i].rung <= 1
            /\ \A a \in Actors : call[a].id = i => alerts[i].rung = 0
            /\ \A n \in DOMAIN notes :
                  notes[n].id = i /\ notes[n].status = "pending" =>
                      alerts[i].rung = 0

Book == Shape /\ Errand /\ Owned /\ Told /\ Fresh /\ HonestChannel

\* what a device was charged with, whichever reading of its row is in flight
Charged ==
    /\ DOMAIN subs \subseteq Devices
    /\ subs \in [DOMAIN subs -> [enabled : BOOLEAN, fails : Nat]]
    /\ strikes \in [Devices -> Nat]
    /\ \A d \in DOMAIN subs : subs[d].fails <= strikes[d]
    /\ \A a \in Actors : \A d \in DOMAIN call[a].todo :
          d \in DOMAIN subs /\ call[a].todo[d] \in 0..strikes[d]

Kept(a) ==
    /\ call' = [b \in Actors |-> call'[b]] /\ IsCall(call'[a])
    /\ \A b \in Actors \ {a} : call'[b] = call[b]

\* what an attempt has delivered is added to the alert; at its end it may ring
Heard(i, line, web, ends) ==
    /\ alerts' \in Seq(AlertRecord) /\ Len(alerts') = Len(alerts)
    /\ \A j \in DOMAIN alerts \ {i} : alerts'[j] = alerts[j]
    /\ alerts'[i].torn <=> alerts[i].torn
    /\ alerts'[i].line <=> alerts[i].line \/ line
    /\ alerts'[i].web <=> alerts[i].web \/ web
    /\ ends /\ (line \/ web) => alerts'[i].rung = alerts[i].rung + 1
    /\ ~(ends /\ (line \/ web)) => alerts'[i].rung = alerts[i].rung

Spent == counts' \in [trouble : Nat, edits : Nat] /\ counts'.trouble >= counts.trouble

LEMMA Appended ==
    ASSUME NEW S, NEW s \in Seq(S), NEW e \in S
    PROVE  /\ Append(s, e) \in Seq(S)
           /\ Len(s) \in Nat /\ DOMAIN s = 1..Len(s)
           /\ Len(Append(s, e)) = Len(s) + 1
           /\ DOMAIN Append(s, e) = DOMAIN s \cup {Len(s) + 1}
           /\ Len(s) + 1 \notin DOMAIN s
           /\ \A i \in DOMAIN s : Append(s, e)[i] = s[i]
           /\ Append(s, e)[Len(s) + 1] = e
OBVIOUS

\* a step that delivers nothing keeps the book
LEMMA Still ==
    ASSUME Book, UNCHANGED <<alerts, notes>>, Spent, clock' \in Int,
           call' = [a \in Actors |-> call'[a]], Errand',
           \A a \in Actors :
               /\ IsCall(call'[a]) /\ call'[a].id = call[a].id
               /\ call[a].id # 0 => call'[a] = call[a],
           \A n \in call'["courier"].batch :
               n \in DOMAIN notes /\ notes[n].status = "pending"
    PROVE  Book'
<1>1. Shape'
  BY DEF Book, Shape, Spent
<1>2. Owned'
  <2>1. "courier" \in Actors BY DEF Actors
  <2> QED BY <2>1 DEF Book, Owned
<1>3. Told'
  <2> SUFFICES ASSUME NEW i \in DOMAIN alerts PROVE Told!(i)'
    BY DEF Told
  <2>1. i # 0 BY DEF Book, Shape
  <2> QED BY <2>1 DEF Book, Told
<1>4. Fresh' /\ HonestChannel'
  <2>1. counts'.trouble = 0 => counts.trouble = 0
    BY DEF Book, Shape, Spent
  <2> QED BY <2>1 DEF Book, Fresh, HonestChannel
<1> QED BY <1>1, <1>2, <1>3, <1>4 DEF Book

\* LINE has answered, or a device that is not the last
LEMMA Halfway ==
    ASSUME Book, NEW a \in Actors, NEW line \in BOOLEAN, NEW web \in BOOLEAN,
           call[a].id # 0, call[a].line => line, call[a].web => web,
           Heard(call[a].id, line, web, FALSE), Kept(a), UNCHANGED <<notes, clock>>,
           Spent, call'[a].pc = "web", call'[a].line = line, call'[a].web = web,
           call'[a].id = call[a].id, call'[a].row = call[a].row,
           call'[a].batch = call[a].batch
    PROVE  Book'
<1> DEFINE k == call[a].id
<1>0. /\ k \in DOMAIN alerts /\ Len(alerts) \in Nat /\ DOMAIN alerts = 1..Len(alerts)
      /\ DOMAIN alerts' = DOMAIN alerts /\ Len(alerts') = Len(alerts)
      /\ \A b \in Actors \ {a} : call'[b] = call[b] /\ call[b].id # k
  BY DEF Book, Shape, IsCall, Errand, Owned, Heard, Kept
<1>1. Shape'
  BY DEF Book, Shape, Spent, Kept, Heard
<1>2. Errand'
  BY <1>0 DEF Book, Errand
<1>3. Owned'
  <2>1. "courier" \in Actors BY DEF Actors
  <2>2. \A b \in Actors : call'[b].id = call[b].id /\ call'[b].row = call[b].row
                          /\ call'[b].batch = call[b].batch
    BY <1>0
  <2> QED BY <2>1, <2>2, <1>0 DEF Book, Owned
<1>4. Told'
  <2> SUFFICES ASSUME NEW i \in DOMAIN alerts PROVE Told!(i)'
    BY <1>0 DEF Told
  <2>1. CASE i # k
    <3>1. alerts'[i] = alerts[i] BY <2>1 DEF Heard
    <3>2. \A b \in Actors : call'[b].id = i => b # a /\ call'[b] = call[b]
      BY <2>1, <1>0
    <3>3. (\A b \in Actors : call'[b].id # i) => \A b \in Actors : call[b].id # i
      BY <2>1, <1>0
    <3> QED BY <3>1, <3>2, <3>3 DEF Book, Told
  <2>2. CASE i = k
    <3>1. \A b \in Actors : call'[b].id = i => b = a BY <2>2, <1>0
    <3>2. Told!(k) BY <1>0 DEF Book, Told
    <3> QED BY <3>1, <3>2, <2>2 DEF Heard
  <2> QED BY <2>1, <2>2
<1>5. Fresh'
  <2>1. counts'.trouble = 0 => counts.trouble = 0 BY DEF Book, Shape, Spent
  <2>2. \A i \in DOMAIN alerts : alerts'[i].rung = alerts[i].rung BY DEF Heard
  <2>3. \A b \in Actors : call'[b].id = call[b].id BY <1>0
  <2> QED BY <2>1, <2>2, <2>3, <1>0 DEF Book, Fresh
<1>6. HonestChannel'
  <2> SUFFICES ASSUME NEW n \in DOMAIN notes PROVE HonestChannel!(n)'
    BY DEF HonestChannel
  <2>1. notes[n].status = "pending" \/ notes[n].id # k
    BY <1>0 DEF Book, Owned
  <2>2. CASE notes[n].status = "pending"
    BY <2>2 DEF HonestChannel
  <2>3. CASE notes[n].id # k
    <3>1. alerts'[notes[n].id] = alerts[notes[n].id]
      BY <2>3, <1>0 DEF Heard, Book, Owned
    <3>2. counts'.trouble = 0 => counts.trouble = 0 BY DEF Book, Shape, Spent
    <3> QED BY <3>1, <3>2 DEF Book, HonestChannel
  <2> QED BY <2>1, <2>2, <2>3
<1> QED BY <1>1, <1>2, <1>3, <1>4, <1>5, <1>6 DEF Book

\* the last answer of an attempt: the row is written, or the write is lost
LEMMA Done ==
    ASSUME Book, NEW a \in Actors, NEW line \in BOOLEAN, NEW web \in BOOLEAN,
           NEW n \in 0..1, call[a].id # 0, call[a].line => line, call[a].web => web,
           Heard(call[a].id, line, web, TRUE), Settle(a, line, web, n),
           UNCHANGED clock
    PROVE  Book'
<1> DEFINE k == call[a].id
<1>0. /\ k \in DOMAIN alerts /\ Len(alerts) \in Nat /\ DOMAIN alerts = 1..Len(alerts)
      /\ DOMAIN alerts' = DOMAIN alerts /\ Len(alerts') = Len(alerts)
      /\ \A b \in Actors \ {a} : call[b].id # k
      /\ a # "tester"
  BY DEF Book, Shape, IsCall, Errand, Owned, Heard
<1>a. alerts[k] \in AlertRecord /\ alerts[k].rung \in Nat
  <2>1. alerts[k] \in AlertRecord BY <1>0 DEF Book, Shape
  <2> QED BY <2>1 DEF AlertRecord
<1>1. /\ Kept(a) /\ call'[a].id = 0 /\ call'[a].pc \in {"idle", "next"}
      /\ ~call'[a].line /\ ~call'[a].web
      /\ a = "courier" => call'[a].batch = call[a].batch \ {call[a].row}
  <2>1. IsCall(call[a]) /\ call = [b \in Actors |-> call[b]]
    BY DEF Book, Shape
  <2>2. CASE a = "courier"
    <3>1. call' = [call EXCEPT ![a] = Onward(call[a], call[a].row)]
      BY <2>2 DEF Settle
    <3> QED BY <3>1, <2>1 DEF Kept, IsCall, Onward, Idle
  <2>3. CASE a # "courier"
    <3>1. call' = [call EXCEPT ![a] = Idle]
      BY <2>3, <1>0 DEF Settle
    <3> QED BY <3>1, <2>1, <2>3 DEF Kept, IsCall, Idle
  <2> QED BY <2>2, <2>3
<1>2. Spent /\ (counts'.trouble = 0 => counts.trouble = 0)
  BY <1>0 DEF Settle, Queue, Fail, Spent, Book, Shape
<1>3. Errand'
  BY <1>0, <1>1 DEF Book, Errand, Kept
<1>4. Told'
  <2> SUFFICES ASSUME NEW i \in DOMAIN alerts PROVE Told!(i)'
    BY <1>0 DEF Told
  <2>0. i # 0 BY <1>0
  <2>1. CASE i # k
    <3>1. alerts'[i] = alerts[i] BY <2>1 DEF Heard
    <3>2. \A b \in Actors : call'[b].id = i => b # a /\ call'[b] = call[b]
      BY <2>0, <2>1, <1>0, <1>1 DEF Kept
    <3>3. (\A b \in Actors : call'[b].id # i) => \A b \in Actors : call[b].id # i
      BY <2>1, <1>0, <1>1 DEF Kept
    <3> QED BY <3>1, <3>2, <3>3 DEF Book, Told
  <2>2. CASE i = k
    <3>1. \A b \in Actors : call'[b].id # i BY <2>0, <2>2, <1>0, <1>1 DEF Kept
    <3>2. Told!(k) BY <1>0 DEF Book, Told
    <3> QED BY <1>a, <3>1, <3>2, <2>2 DEF Heard
  <2> QED BY <2>1, <2>2
<1>5. /\ line => alerts'[k].line
      /\ web => alerts'[k].web
      /\ /\ line \/ web
         /\ ~alerts'[k].torn /\ alerts'[k].rung = 1
         /\ alerts'[k].line /\ alerts'[k].web
         => line /\ web
      /\ counts'.trouble = 0 => alerts'[k].rung = IF line \/ web THEN 1 ELSE 0
      /\ \A i \in DOMAIN alerts \ {k} : alerts'[i] = alerts[i]
  <2>1. Told!(k) BY <1>0 DEF Book, Told
  <2>2. counts.trouble = 0 => alerts[k].rung = 0 BY <1>0 DEF Book, Fresh
  <2> QED BY <2>1, <2>2, <1>2, <1>a DEF Heard
<1>6. CASE a = "courier"
  <2> DEFINE r == call[a].row
  <2>1. /\ r \in call[a].batch /\ r \in DOMAIN notes
        /\ notes[r].status = "pending" /\ notes[r].id = k
        /\ \A m \in DOMAIN notes \ {r} : notes[m].id # k
    BY <1>6, <1>0 DEF Book, Owned
  <2>2. \/ /\ UNCHANGED notes /\ counts'.trouble # 0
        \/ notes' = [notes EXCEPT ![r] = Delivered(@, line, web)]
    BY <1>6 DEF Settle, Fail, Book, Shape
  <2>3. /\ notes' \in Seq(RowRecord) /\ DOMAIN notes' = DOMAIN notes
        /\ \A m \in DOMAIN notes \ {r} : notes'[m] = notes[m]
        /\ notes'[r].id = k
        /\ \/ notes'[r] = notes[r] /\ counts'.trouble # 0
           \/ notes'[r] = Delivered(notes[r], line, web)
    <3>1. notes \in Seq(RowRecord) /\ notes[r] \in RowRecord
      BY <2>1 DEF Book, Shape
    <3>2. Delivered(notes[r], line, web) \in RowRecord
      BY <3>1 DEF RowRecord, Delivered, Channel
    <3>3. Delivered(notes[r], line, web).id = k
      BY <3>1, <2>1 DEF RowRecord, Delivered
    <3> QED BY <2>1, <2>2, <3>1, <3>2, <3>3
  <2>4. Shape'
    BY <2>3, <1>1, <1>2 DEF Book, Shape, Kept, Heard, Spent
  <2>5. Owned'
    <3>1. \A m \in DOMAIN notes : notes'[m].id = notes[m].id BY <2>1, <2>3
    <3>2. \A m \in call'[a].batch : m \in DOMAIN notes /\ notes'[m].status = "pending"
      BY <1>1, <1>6, <2>3 DEF Book, Owned
    <3>3. \A b \in Actors : call'[b].id = call[b].id \/ call'[b].id = 0
      BY <1>1 DEF Kept
    <3>4. \A b \in Actors \ {a} : call'[b] = call[b] BY <1>1 DEF Kept
    <3>5. \A m \in DOMAIN notes : notes[m].id # 0 BY DEF Book, Owned, Shape
    <3> QED BY <3>1, <3>2, <3>3, <3>4, <3>5, <2>3, <1>0, <1>1, <1>6 DEF Book, Owned
  <2>6. Fresh'
    <3> SUFFICES ASSUME counts'.trouble = 0, NEW i \in DOMAIN alerts
                 PROVE  Fresh!2!(i)'
      BY <1>0 DEF Fresh
    <3>1. CASE i = k
      <4>1. \A m \in DOMAIN notes : notes'[m].id = k => notes'[m].status # "pending"
        <5>1. notes[r] \in RowRecord BY <2>1 DEF Book, Shape
        <5>2. Delivered(notes[r], line, web).status # "pending"
          BY <5>1 DEF RowRecord, Delivered
        <5> QED BY <5>2, <2>1, <2>3
      <4>2. \A b \in Actors : call'[b].id # k BY <1>0, <1>1 DEF Kept
      <4> QED BY <4>1, <4>2, <3>1, <2>3, <1>5
    <3>2. CASE i # k
      <4>1. alerts'[i] = alerts[i] BY <3>2, <1>5
      <4>2. \A b \in Actors : call'[b].id = i => call[b].id = i
        BY <1>0, <1>1, <3>2 DEF Kept
      <4>3. \A m \in DOMAIN notes : notes'[m].id = i => notes'[m] = notes[m]
        BY <2>3, <3>2
      <4> QED BY <4>1, <4>2, <4>3, <2>3, <1>2 DEF Book, Fresh
    <3> QED BY <3>1, <3>2
  <2>7. HonestChannel'
    <3> SUFFICES ASSUME NEW m \in DOMAIN notes PROVE HonestChannel!(m)'
      BY <2>3 DEF HonestChannel
    <3>1. CASE m = r
      <4>1. notes[r] \in RowRecord BY <2>1 DEF Book, Shape
      <4>2. CASE notes'[r] = notes[r]
        BY <4>2, <3>1, <2>1 DEF HonestChannel
      <4>3. CASE notes'[r] = Delivered(notes[r], line, web) /\ (line \/ web)
        <5>1. notes'[r].status = "sent" /\ notes'[r].id = k
              /\ notes'[r].channel = Channel(line, web, notes[r].channel)
          BY <4>3, <4>1, <2>3 DEF RowRecord, Delivered
        <5>2. /\ notes'[r].channel \in {"both", "line"} => line
              /\ notes'[r].channel \in {"both", "web_push"} => web
              /\ line /\ web => notes'[r].channel = "both"
          <6>1. CASE line /\ web BY <6>1, <5>1 DEF Channel
          <6>2. CASE line /\ ~web BY <6>2, <5>1 DEF Channel
          <6>3. CASE ~line /\ web BY <6>3, <5>1 DEF Channel
          <6> QED BY <6>1, <6>2, <6>3, <4>3
        <5> QED BY <5>1, <5>2, <4>3, <3>1, <1>5
      <4>4. CASE notes'[r] = Delivered(notes[r], line, web) /\ ~(line \/ web)
        <5>1. notes'[r].status = "failed" /\ notes'[r].id = k
          BY <4>4, <4>1, <2>3 DEF RowRecord, Delivered
        <5> QED BY <5>1, <4>4, <3>1, <1>5 DEF HonestChannel
      <4> QED BY <4>2, <4>3, <4>4, <2>3
    <3>2. CASE m # r
      <4>1. notes'[m] = notes[m] /\ notes[m].id \in DOMAIN alerts /\ notes[m].id # k
        BY <3>2, <2>1, <2>3, <1>0 DEF Book, Owned
      <4>2. alerts'[notes[m].id] = alerts[notes[m].id] BY <4>1, <1>5
      <4> QED BY <4>1, <4>2, <1>2 DEF Book, HonestChannel
    <3> QED BY <3>1, <3>2
  <2> QED BY <2>4, <2>5, <2>6, <2>7, <1>3, <1>4 DEF Book
<1>7. CASE a # "courier"
  <2> DEFINE row == Queued(k, line, web)
  <2>1. \/ UNCHANGED notes /\ counts'.trouble # 0
        \/ notes' = Append(notes, row)
    BY <1>7, <1>0 DEF Settle, Queue, Fail, Book, Shape
  <2>2. \A m \in DOMAIN notes : notes[m].id \in DOMAIN alerts /\ notes[m].id # k
    BY <1>7, <1>0 DEF Book, Owned
  <2>3. /\ row \in RowRecord /\ row.id = k
        /\ row.channel = Channel(line, web, "line")
        /\ row.status = IF line \/ web THEN "sent" ELSE "pending"
    <3>1. Channel(line, web, "line") \in {"line", "web_push", "both"}
      BY DEF Channel
    <3>2. clock \in Int BY DEF Book, Shape
    <3> QED BY <3>1, <3>2, <1>a, <1>0 DEF Queued, Row, RowRecord, AlertRecord
  <2> HIDE DEF row
  <2>4. /\ notes' \in Seq(RowRecord) /\ Len(notes) \in Nat
        /\ DOMAIN notes \subseteq DOMAIN notes'
        /\ \A m \in DOMAIN notes : notes'[m] = notes[m]
        /\ \A m \in DOMAIN notes' \ DOMAIN notes :
              m = Len(notes) + 1 /\ notes'[m] = row
        /\ counts'.trouble = 0 => notes'[Len(notes) + 1] = row
    <3>1. notes \in Seq(RowRecord) BY DEF Book, Shape
    <3>2. CASE notes' = Append(notes, row) BY <3>1, <3>2, <2>3, Appended
    <3>3. CASE UNCHANGED notes /\ counts'.trouble # 0 BY <3>1, <3>3
    <3> QED BY <3>2, <3>3, <2>1
  <2>5. Shape'
    BY <2>4, <1>1, <1>2 DEF Book, Shape, Kept, Heard, Spent
  <2>6. Owned'
    <3>1. \A b \in Actors : call'[b].id = call[b].id \/ call'[b].id = 0
      BY <1>1 DEF Kept
    <3>2. \A b \in Actors \ {a} : call'[b] = call[b] BY <1>1 DEF Kept
    <3>3. \A m \in DOMAIN notes' : notes'[m].id # 0
      BY <2>2, <2>3, <2>4, <1>0
    <3>4. \A m \in DOMAIN notes' : notes'[m].id \in 1..Len(alerts')
      BY <2>2, <2>3, <2>4, <1>0
    <3>5. \A m, j \in DOMAIN notes' : notes'[m].id = notes'[j].id => m = j
      BY <2>2, <2>3, <2>4 DEF Book, Owned
    <3>6. \A b \in Actors \ {"courier"}, m \in DOMAIN notes' :
              call'[b].id # notes'[m].id
      BY <2>3, <2>4, <3>2, <3>3, <1>0, <1>1 DEF Book, Owned
    <3>7. call'["courier"] = call["courier"] BY <1>7, <3>2 DEF Actors
    <3> QED BY <3>1, <3>2, <3>4, <3>5, <3>6, <3>7, <2>4, <1>0, <1>1 DEF Book, Owned
  <2>7. Fresh'
    <3> SUFFICES ASSUME counts'.trouble = 0, NEW i \in DOMAIN alerts
                 PROVE  Fresh!2!(i)'
      BY <1>0 DEF Fresh
    <3>1. CASE i = k
      <4>1. \A m \in DOMAIN notes' :
                notes'[m].id = k /\ notes'[m].status = "pending" => ~(line \/ web)
        BY <2>2, <2>3, <2>4
      <4>2. \A b \in Actors : call'[b].id # k BY <1>0, <1>1 DEF Kept
      <4> QED BY <4>1, <4>2, <3>1, <1>5
    <3>2. CASE i # k
      <4>1. alerts'[i] = alerts[i] BY <3>2, <1>5
      <4>2. \A b \in Actors : call'[b].id = i => call[b].id = i
        BY <1>0, <1>1, <3>2 DEF Kept
      <4>3. \A m \in DOMAIN notes' : notes'[m].id = i =>
                m \in DOMAIN notes /\ notes'[m] = notes[m]
        BY <2>3, <2>4, <3>2
      <4> QED BY <4>1, <4>2, <4>3, <1>2 DEF Book, Fresh
    <3> QED BY <3>1, <3>2
  <2>8. HonestChannel'
    <3> SUFFICES ASSUME NEW m \in DOMAIN notes' PROVE HonestChannel!(m)'
      BY DEF HonestChannel
    <3>1. CASE m \notin DOMAIN notes
      <4>1. notes'[m] = row BY <3>1, <2>4
      <4>2. line \/ web =>
               /\ row.channel \in {"both", "line"} => line
               /\ row.channel \in {"both", "web_push"} => web
               /\ line /\ web => row.channel = "both"
        <5>1. CASE line /\ web BY <5>1, <2>3 DEF Channel
        <5>2. CASE line /\ ~web BY <5>2, <2>3 DEF Channel
        <5>3. CASE ~line /\ web BY <5>3, <2>3 DEF Channel
        <5> QED BY <5>1, <5>2, <5>3
      <4> QED BY <4>1, <4>2, <2>3, <1>5
    <3>2. CASE m \in DOMAIN notes
      <4>1. notes'[m] = notes[m] BY <3>2, <2>4
      <4>2. alerts'[notes[m].id] = alerts[notes[m].id] BY <3>2, <2>2, <1>5
      <4> QED BY <4>1, <4>2, <3>2, <1>2 DEF Book, HonestChannel
    <3> QED BY <3>1, <3>2
  <2> QED BY <2>5, <2>6, <2>7, <2>8, <1>3, <1>4 DEF Book
<1> QED BY <1>6, <1>7

LEMMA Blank ==
    /\ IsCall(Idle)
    /\ \A k \in Nat : IsCall([Idle EXCEPT !.pc = "line", !.id = k])
<1>1. IsCall(Idle) BY DEF IsCall, Idle
<1>2. ASSUME NEW k \in Nat
      PROVE  IsCall([Idle EXCEPT !.pc = "line", !.id = k])
  <2> DEFINE c == [Idle EXCEPT !.pc = "line"]
             d == [c EXCEPT !.id = k]
  <2>1. IsCall(c) /\ c.pc = "line" BY <1>1 DEF IsCall
  <2> HIDE DEF c
  <2>2. IsCall(d) BY <2>1 DEF IsCall
  <2> QED BY <2>2 DEF c
<1> QED BY <1>1, <1>2

Between(o, b, p) == [Idle EXCEPT !.off = o, !.batch = b, !.pc = p]

LEMMA BetweenRows ==
    ASSUME NEW o, NEW b, NEW p \in {"idle", "next"}
    PROVE  LET z == Between(o, b, p)
           IN  IsCall(z) /\ z.id = 0 /\ z.pc = p /\ z.batch = b /\ ~z.line /\ ~z.web
<1> DEFINE z == Between(o, b, p)
           x == [Idle EXCEPT !.off = o]
           y == [x EXCEPT !.batch = b]
<1>1. IsCall(Idle) /\ Idle.id = 0 /\ ~Idle.line /\ ~Idle.web BY Blank DEF Idle
<1>2. IsCall(x) /\ x.id = 0 /\ ~x.line /\ ~x.web BY <1>1 DEF IsCall
<1>3. z = [y EXCEPT !.pc = p] BY DEF Between
<1> HIDE DEF x
<1>4. IsCall(y) /\ y.id = 0 /\ ~y.line /\ ~y.web /\ y.batch = b BY <1>2 DEF IsCall
<1> HIDE DEF y, z
<1> SUFFICES IsCall(z) /\ z.id = 0 /\ z.pc = p /\ z.batch = b /\ ~z.line /\ ~z.web
  BY DEF z
<1> QED BY <1>3, <1>4 DEF IsCall

\* notify: a push begins, or a row waits for the courier
LEMMA Notified ==
    ASSUME Book, NEW a \in Actors \ {"courier", "tester"},
           NEW kind \in Said, NEW asset \in Place,
           Notify(a, kind, asset), UNCHANGED clock
    PROVE  Book'
<1> DEFINE k == Len(alerts) + 1
<1>1. PICK q \in Misses :
          /\ Raise(a, kind, asset)
          /\ IF kind \in Critical
             THEN /\ call' = [call EXCEPT ![a] = [Idle EXCEPT !.pc = "line", !.id = k]]
                  /\ Fail(q[1] + q[2])
                  /\ UNCHANGED notes
             ELSE /\ Queue(Row(k, kind, asset, "line", "pending"), q[1] + q[2])
                  /\ UNCHANGED call
  BY DEF Notify
<1>2. Spent /\ call[a].pc = "idle" /\ call[a].id = 0
  <2>1. q \in (0..1) \X (0..1) BY DEF Misses
  <2>2. q[1] + q[2] \in Nat BY <2>1
  <2>3. \E n \in Nat : Fail(n) BY <1>1, <2>2 DEF Queue
  <2>4. call[a].pc = "idle" BY DEF Notify
  <2> QED BY <2>3, <2>4 DEF Fail, Spent, Book, Shape, Errand
<1>3. /\ Len(alerts) \in Nat /\ DOMAIN alerts = 1..Len(alerts)
      /\ alerts' \in Seq(AlertRecord) /\ Len(alerts') = k
      /\ DOMAIN alerts' = DOMAIN alerts \cup {k} /\ k \notin DOMAIN alerts
      /\ \A i \in DOMAIN alerts : alerts'[i] = alerts[i]
      /\ ~alerts'[k].line /\ ~alerts'[k].web /\ alerts'[k].rung = 0 /\ ~alerts'[k].torn
  <2> DEFINE new == [kind |-> kind, asset |-> asset, by |-> a, line |-> FALSE,
                     web |-> FALSE, rung |-> 0, torn |-> FALSE]
  <2>1. alerts' = Append(alerts, new) BY <1>1 DEF Raise
  <2>2. new \in AlertRecord BY DEF AlertRecord
  <2>3. ~new.line /\ ~new.web /\ new.rung = 0 /\ ~new.torn OBVIOUS
  <2>4. alerts \in Seq(AlertRecord) BY DEF Book, Shape
  <2> HIDE DEF new
  <2> QED BY <2>1, <2>2, <2>3, <2>4, Appended
<1>4. /\ \A b \in Actors : call[b].id # k
      /\ \A m \in DOMAIN notes : notes[m].id \in DOMAIN alerts /\ notes[m].id # k
      /\ counts'.trouble = 0 => counts.trouble = 0
  BY <1>2, <1>3 DEF Book, Shape, Errand, Owned, Spent, IsCall
<1>5. CASE kind \in Critical
  <2>1. /\ Kept(a) /\ call'[a].id = k /\ call'[a].pc = "line"
        /\ ~call'[a].line /\ ~call'[a].web /\ UNCHANGED notes
    <3>1. call' = [call EXCEPT ![a] = [Idle EXCEPT !.pc = "line", !.id = k]]
          /\ UNCHANGED notes
      BY <1>1, <1>5
    <3>2. IsCall([Idle EXCEPT !.pc = "line", !.id = k])
      <4>1. k \in Nat BY <1>3
      <4> HIDE DEF k
      <4> QED BY <4>1, Blank
    <3> QED BY <3>1, <3>2 DEF Kept, Idle, Book, Shape
  <2>2. Shape'
    BY <2>1, <1>2, <1>3 DEF Book, Shape, Kept, Spent
  <2>3. Errand'
    BY <2>1, <1>3 DEF Book, Shape, Errand, Kept, IsCall
  <2>4. Owned'
    <3>1. \A b \in Actors \ {a} : call'[b] = call[b] BY <2>1 DEF Kept
    <3>2. call'["courier"] = call["courier"] BY <3>1 DEF Actors
    <3>3. \A m \in DOMAIN notes : notes[m].id \in 1..Len(alerts') BY <1>3, <1>4
    <3> QED BY <3>1, <3>2, <3>3, <2>1, <1>4 DEF Book, Owned
  <2>5. Told'
    <3> SUFFICES ASSUME NEW i \in DOMAIN alerts' PROVE Told!(i)'
      BY DEF Told
    <3>1. CASE i = k
      <4>1. \A b \in Actors : call'[b].id = k => b = a BY <2>1, <1>4 DEF Kept
      <4> QED BY <4>1, <3>1, <2>1, <1>3
    <3>2. CASE i # k
      <4>1. i \in DOMAIN alerts /\ alerts'[i] = alerts[i] BY <3>2, <1>3
      <4>2. \A b \in Actors : call'[b].id = i <=> call[b].id = i
        BY <3>2, <2>1, <1>2, <1>3, <4>1 DEF Kept
      <4>3. \A b \in Actors : call'[b].id = i => call'[b] = call[b]
        BY <3>2, <2>1, <1>2, <1>3, <4>1 DEF Kept
      <4> QED BY <4>1, <4>2, <4>3 DEF Book, Told
    <3> QED BY <3>1, <3>2
  <2>6. Fresh'
    <3> SUFFICES ASSUME counts'.trouble = 0, NEW i \in DOMAIN alerts'
                 PROVE  Fresh!2!(i)'
      BY DEF Fresh
    <3>1. CASE i = k
      BY <3>1, <1>3
    <3>2. CASE i # k
      <4>1. i \in DOMAIN alerts /\ alerts'[i] = alerts[i] BY <3>2, <1>3
      <4>2. \A b \in Actors : call'[b].id = i => call[b].id = i
        BY <3>2, <2>1 DEF Kept
      <4> QED BY <4>1, <4>2, <2>1, <1>4 DEF Book, Fresh
    <3> QED BY <3>1, <3>2
  <2>7. HonestChannel'
    BY <2>1, <1>3, <1>4 DEF Book, HonestChannel
  <2> QED BY <2>2, <2>3, <2>4, <2>5, <2>6, <2>7 DEF Book
<1>6. CASE kind \notin Critical
  <2> DEFINE row == Row(k, kind, asset, "line", "pending")
  <2>1. UNCHANGED call /\ (notes' = notes \/ notes' = Append(notes, row))
    BY <1>1, <1>6 DEF Queue
  <2>2. row \in RowRecord /\ row.id = k /\ row.status = "pending"
    <3>1. clock \in Int BY DEF Book, Shape
    <3> QED BY <3>1, <1>3 DEF Row, RowRecord
  <2> HIDE DEF row
  <2>3. /\ notes' \in Seq(RowRecord)
        /\ DOMAIN notes \subseteq DOMAIN notes'
        /\ \A m \in DOMAIN notes : notes'[m] = notes[m]
        /\ \A m \in DOMAIN notes' \ DOMAIN notes :
              m = Len(notes) + 1 /\ notes'[m] = row
    <3>1. notes \in Seq(RowRecord) BY DEF Book, Shape
    <3>2. CASE notes' = Append(notes, row) BY <3>1, <3>2, <2>2, Appended
    <3> QED BY <3>1, <3>2, <2>1
  <2>4. Shape'
    BY <2>1, <2>3, <1>2, <1>3 DEF Book, Shape, Spent
  <2>5. Errand'
    BY <2>1, <1>3 DEF Book, Shape, Errand, IsCall
  <2>6. Owned'
    <3>1. \A m \in DOMAIN notes' : notes'[m].id \in 1..Len(alerts')
      BY <2>2, <2>3, <1>3, <1>4
    <3>2. \A m, n \in DOMAIN notes' : notes'[m].id = notes'[n].id => m = n
      BY <2>2, <2>3, <1>4 DEF Book, Owned
    <3>3. \A b \in Actors \ {"courier"}, m \in DOMAIN notes' :
              call'[b].id # notes'[m].id
      BY <2>1, <2>2, <2>3, <1>4 DEF Book, Owned
    <3>4. "courier" \in Actors BY DEF Actors
    <3> QED BY <3>1, <3>2, <3>3, <3>4, <2>1, <2>3 DEF Book, Owned
  <2>7. Told'
    BY <2>1, <1>3, <1>4 DEF Book, Told
  <2>8. Fresh'
    <3> SUFFICES ASSUME counts'.trouble = 0, NEW i \in DOMAIN alerts'
                 PROVE  Fresh!2!(i)'
      BY DEF Fresh
    <3>1. CASE i = k
      BY <3>1, <1>3
    <3>2. CASE i # k
      <4>1. i \in DOMAIN alerts /\ alerts'[i] = alerts[i] BY <3>2, <1>3
      <4>2. \A m \in DOMAIN notes' : notes'[m].id = i =>
                m \in DOMAIN notes /\ notes'[m] = notes[m]
        BY <3>2, <2>2, <2>3
      <4> QED BY <4>1, <4>2, <2>1, <1>4 DEF Book, Fresh
    <3> QED BY <3>1, <3>2
  <2>9. HonestChannel'
    <3> SUFFICES ASSUME NEW m \in DOMAIN notes' PROVE HonestChannel!(m)'
      BY DEF HonestChannel
    <3>1. CASE m \in DOMAIN notes
      BY <3>1, <2>3, <1>3, <1>4 DEF Book, HonestChannel
    <3>2. CASE m \notin DOMAIN notes
      BY <3>2, <2>2, <2>3
    <3> QED BY <3>1, <3>2
  <2> QED BY <2>4, <2>5, <2>6, <2>7, <2>8, <2>9 DEF Book
<1> QED BY <1>5, <1>6

\* the answers of a push: a step of Halfway, of Done, or of the tester, whose
\* push belongs to no alert
LEMMA Answered ==
    ASSUME Book, NEW a \in Actors, LineAnswers(a) \/ WebAnswers(a)
    PROVE  Book'
<1> DEFINE k == call[a].id
<1>0. /\ alerts \in Seq(AlertRecord) /\ Len(alerts) \in Nat
      /\ DOMAIN alerts = 1..Len(alerts) /\ IsCall(call[a])
      /\ counts \in [trouble : Nat, edits : Nat] /\ clock' = clock
      /\ call = [b \in Actors |-> call[b]]
  <2>1. clock' = clock BY DEF LineAnswers, WebAnswers
  <2>2. Shape BY DEF Book
  <2>3. alerts \in Seq(AlertRecord) BY <2>2 DEF Shape
  <2> QED BY <2>1, <2>2, <2>3 DEF Shape
<1>1. CASE LineAnswers(a)
  <2>1. PICK ok \in BOOLEAN, s \in 0..1 :
            LET todo == IF s = 1 THEN NoFails ELSE Audience
            IN  /\ counts.trouble + s <= MaxTrouble
                /\ alerts' = [alerts EXCEPT
                      ![k].line = @ \/ ok,
                      ![k].rung = IF ok /\ DOMAIN todo = {} THEN @ + 1 ELSE @]
                /\ IF DOMAIN todo = {}
                   THEN Settle(a, ok, FALSE, s)
                   ELSE /\ call' = [call EXCEPT ![a].pc = "web", ![a].line = ok,
                                                ![a].todo = todo]
                        /\ Fail(s)
                        /\ UNCHANGED <<notes, since>>
    BY <1>1 DEF LineAnswers
  <2>2. k # 0 /\ k \in DOMAIN alerts /\ ~call[a].line /\ ~call[a].web
    <3>1. call[a].pc = "line" BY <1>1 DEF LineAnswers
    <3>2. call[a].id <= Len(alerts) /\ call[a].id \in Nat BY <1>0 DEF Book, Errand, IsCall
    <3>3. ~call[a].line /\ ~call[a].web /\ a # "tester" BY <3>1 DEF Book, Errand
    <3>4. k # 0 BY <3>1, <3>3 DEF Book, Errand
    <3> QED BY <3>2, <3>3, <3>4, <1>0
  <2> DEFINE todo == IF s = 1 THEN NoFails ELSE Audience
             ends == DOMAIN todo = {}
             rung == IF ok /\ ends THEN alerts[k].rung + 1 ELSE alerts[k].rung
             new == [alerts[k] EXCEPT !.line = @ \/ ok, !.rung = rung]
  <2>3. alerts' = [alerts EXCEPT ![k] = new] BY <2>1, <2>2, <1>0
  <2>4. alerts[k] \in AlertRecord BY <1>0, <2>2
  <2>5. new \in AlertRecord /\ (new.torn <=> alerts[k].torn)
        /\ (new.line <=> alerts[k].line \/ ok) /\ (new.web <=> alerts[k].web)
        /\ new.rung = IF ok /\ ends THEN alerts[k].rung + 1 ELSE alerts[k].rung
    <3>1. rung \in Nat BY <2>4 DEF AlertRecord
    <3> HIDE DEF rung
    <3> DEFINE line == alerts[k].line \/ ok
    <3>2. line \in BOOLEAN OBVIOUS
    <3> HIDE DEF line
    <3>3. /\ new \in AlertRecord /\ new.torn = alerts[k].torn
          /\ new.line = line /\ new.web = alerts[k].web /\ new.rung = rung
      BY <3>1, <3>2, <2>4 DEF AlertRecord, line
    <3> QED BY <3>3 DEF rung, line
  <2> HIDE DEF new, ends
  <2>6. Heard(k, ok, FALSE, ends)
    BY <2>3, <2>5, <2>2, <1>0 DEF Heard
  <2>7. CASE ends
    <3>1. Settle(a, ok, FALSE, s) BY <2>1, <2>7 DEF ends
    <3>2. Heard(k, ok, FALSE, TRUE) BY <2>6, <2>7 DEF Heard
    <3> QED BY <3>1, <3>2, <2>2, <1>0, Done
  <2>8. CASE ~ends
    <3>1. /\ call' = [call EXCEPT ![a].pc = "web", ![a].line = ok, ![a].todo = todo]
          /\ Fail(s) /\ UNCHANGED notes
      BY <2>1, <2>8 DEF ends
    <3>2. Heard(k, ok, FALSE, FALSE) BY <2>6, <2>8 DEF Heard
    <3> HIDE DEF todo
    <3>3. /\ Kept(a) /\ call'[a].pc = "web" /\ call'[a].line = ok
          /\ call'[a].web = FALSE
          /\ call'[a].id = call[a].id /\ call'[a].row = call[a].row
          /\ call'[a].batch = call[a].batch
      BY <3>1, <1>0, <2>2 DEF Kept, IsCall
    <3>4. Spent BY <3>1, <1>0 DEF Spent, Fail
    <3> QED BY <3>1, <3>2, <3>3, <3>4, <2>2, <1>0, Halfway
  <2> QED BY <2>7, <2>8
<1>2. CASE WebAnswers(a)
  <2>1. PICK d \in DOMAIN call[a].todo, answer \in {"ok", "error", "gone"} :
            LET c == call[a]
                web == c.web \/ answer = "ok"
                last == DOMAIN c.todo = {d}
            IN  /\ alerts' = IF c.id = 0 THEN alerts
                             ELSE [alerts EXCEPT
                                     ![c.id].web = @ \/ answer = "ok",
                                     ![c.id].rung = IF last /\ (c.line \/ web)
                                                    THEN @ + 1 ELSE @]
                /\ IF last
                   THEN Settle(a, c.line, web, 0)
                   ELSE /\ call' = [call EXCEPT ![a].web = web,
                                      ![a].todo = Restrict(@, DOMAIN @ \ {d})]
                        /\ UNCHANGED <<notes, since, counts>>
    BY <1>2 DEF WebAnswers
  <2> DEFINE heard == answer = "ok"
             web == call[a].web \/ heard
             last == DOMAIN call[a].todo = {d}
             line == call[a].line
             rest == Restrict(call[a].todo, DOMAIN call[a].todo \ {d})
  <2>2. /\ alerts' = IF k = 0 THEN alerts
                     ELSE [alerts EXCEPT
                             ![k].web = @ \/ heard,
                             ![k].rung = IF last /\ (line \/ web) THEN @ + 1 ELSE @]
        /\ last => Settle(a, line, web, 0)
        /\ ~last => /\ call' = [call EXCEPT ![a].web = web, ![a].todo = rest]
                    /\ UNCHANGED <<notes, counts>>
    BY <2>1, <1>0
  <2>3. call[a].pc = "web" BY <1>2 DEF WebAnswers
  <2>4. heard \in BOOLEAN /\ web \in BOOLEAN /\ line \in BOOLEAN /\ last \in BOOLEAN
    BY <1>0 DEF IsCall
  <2>5. (call[a].line => line) /\ (call[a].web => web) OBVIOUS
  <2>6. ~last =>
          /\ Kept(a) /\ call'[a].pc = "web" /\ call'[a].line = line /\ call'[a].web = web
          /\ call'[a].id = k /\ call'[a].row = call[a].row
          /\ call'[a].batch = call[a].batch /\ Spent
    <3> HIDE DEF last, heard, rest, web
    <3> SUFFICES ASSUME ~last PROVE <2>6!2 OBVIOUS
    <3>1. call' = [call EXCEPT ![a].web = web, ![a].todo = rest] BY <2>2
    <3>2. IsCall(call'[a]) /\ call'[a] = [call[a] EXCEPT !.web = web, !.todo = rest]
      BY <3>1, <2>4, <1>0 DEF IsCall
    <3>3. Kept(a) BY <3>1, <3>2, <1>0 DEF Kept
    <3>4. Spent BY <2>2, <1>0 DEF Spent
    <3> QED BY <3>2, <3>3, <3>4, <2>3, <2>4, <1>0 DEF IsCall
  <2>7. CASE k = 0
    <3>1. a = "tester" /\ alerts' = alerts
      BY <2>2, <2>3, <2>7 DEF Book, Errand
    <3>2. CASE last
      <4>1. call' = [call EXCEPT ![a] = Idle] /\ Fail(0) /\ UNCHANGED notes
        BY <2>2, <3>1, <3>2 DEF Settle
      <4>2. Spent BY <4>1, <1>0 DEF Fail, Spent
      <4>3. call' = [b \in Actors |-> call'[b]] /\ call'[a] = Idle
            /\ \A b \in Actors \ {a} : call'[b] = call[b]
        BY <4>1, <1>0
      <4>4. Idle.id = 0 /\ Idle.pc = "idle" BY DEF Idle
      <4>5. \A b \in Actors : IsCall(call'[b]) /\ call'[b].id = call[b].id
                              /\ (call[b].id # 0 => call'[b] = call[b])
        BY <4>3, <4>4, <2>7, Blank DEF Book, Shape
      <4>6. Errand' BY <4>3, <4>4, <3>1, <2>7 DEF Book, Errand
      <4>7. call'["courier"] = call["courier"] BY <4>3, <3>1 DEF Actors
      <4>8. \A n \in call'["courier"].batch : n \in DOMAIN notes /\ notes[n].status = "pending"
        BY <4>7 DEF Book, Owned
      <4> QED BY <4>1, <4>2, <4>3, <4>5, <4>6, <4>8, <3>1, <1>0, Still DEF Book, Shape
    <3>3. CASE ~last
      <4>1. \A b \in Actors \ {a} : call'[b] = call[b] BY <2>6, <3>3 DEF Kept
      <4>2. \A b \in Actors : IsCall(call'[b]) /\ call'[b].id = call[b].id
                              /\ (call[b].id # 0 => call'[b] = call[b])
        BY <4>1, <2>6, <2>7, <3>3 DEF Book, Shape, Kept
      <4>3. Errand' BY <4>1, <2>6, <3>1, <3>3, <2>7 DEF Book, Errand
      <4>4. call'["courier"] = call["courier"] BY <4>1, <3>1 DEF Actors
      <4>5. \A n \in call'["courier"].batch : n \in DOMAIN notes /\ notes[n].status = "pending"
        BY <4>4 DEF Book, Owned
      <4>6. call' = [b \in Actors |-> call'[b]] BY <2>6, <3>3 DEF Kept
      <4> QED BY <4>2, <4>3, <4>5, <4>6, <2>2, <2>6, <3>1, <3>3, <1>0, Still DEF Book, Shape
    <3> QED BY <3>2, <3>3
  <2>8. CASE k # 0
    <3> DEFINE rings == last /\ (line \/ web)
               rung == IF rings THEN alerts[k].rung + 1 ELSE alerts[k].rung
               loud == alerts[k].web \/ heard
               new == [alerts[k] EXCEPT !.web = loud, !.rung = rung]
    <3>1. k \in DOMAIN alerts /\ alerts[k] \in AlertRecord
      BY <2>8, <1>0 DEF Book, Errand, IsCall
    <3>2. alerts' = [alerts EXCEPT ![k] = new] BY <2>2, <2>8, <3>1, <1>0
    <3>3. rung \in Nat /\ loud \in BOOLEAN BY <3>1 DEF AlertRecord
    <3>4. /\ new \in AlertRecord /\ new.torn = alerts[k].torn
          /\ new.line = alerts[k].line /\ new.web = loud /\ new.rung = rung
      <4> HIDE DEF rung, loud
      <4> QED BY <3>1, <3>3 DEF AlertRecord
    <3>5. /\ line => alerts[k].line
          /\ call[a].web => alerts[k].web
      BY <3>1 DEF Book, Told
    <3>6. /\ new.torn <=> alerts[k].torn
          /\ new.line <=> alerts[k].line \/ line
          /\ new.web <=> alerts[k].web \/ web
          /\ last /\ (line \/ web) => new.rung = alerts[k].rung + 1
          /\ ~(last /\ (line \/ web)) => new.rung = alerts[k].rung
      <4>1. new.line \in BOOLEAN /\ alerts[k].line \in BOOLEAN /\ alerts[k].web \in BOOLEAN
        BY <3>1, <3>4 DEF AlertRecord
      <4> HIDE DEF new, last, heard
      <4> QED BY <4>1, <3>4, <3>5, <2>4
    <3> HIDE DEF new, last, heard
    <3>7. Heard(k, line, web, last)
      BY <3>1, <3>2, <3>4, <3>6, <1>0 DEF Heard
    <3>8. CASE last
      <4>1. Heard(k, line, web, TRUE) BY <3>7, <3>8 DEF Heard
      <4>2. Settle(a, line, web, 0) /\ 0 \in 0..1 /\ UNCHANGED clock
        BY <2>2, <3>8, <1>0
      <4> HIDE DEF web
      <4> QED BY <4>1, <4>2, <2>4, <2>5, <2>8, Done
    <3>9. CASE ~last
      <4>1. Heard(k, line, web, FALSE) BY <3>7, <3>9 DEF Heard
      <4>2. UNCHANGED <<notes, clock>> BY <2>2, <3>9, <1>0
      <4> HIDE DEF web
      <4> QED BY <4>1, <4>2, <3>9, <2>4, <2>5, <2>6, <2>8, Halfway
    <3> QED BY <3>8, <3>9
  <2> QED BY <2>7, <2>8
<1> QED BY <1>1, <1>2

\* the watchdog and a restart: what was under way is torn
LEMMA Cut ==
    ASSUME Book, UNCHANGED <<notes, clock>>, Spent, counts'.trouble # 0,
           call' = [a \in Actors |-> call'[a]],
           \A a \in Actors : call'[a] \in {call[a], Idle},
           alerts' \in Seq(AlertRecord), Len(alerts') = Len(alerts),
           \A i \in DOMAIN alerts :
               /\ alerts'[i].line = alerts[i].line /\ alerts'[i].web = alerts[i].web
               /\ alerts'[i].rung = alerts[i].rung
               /\ alerts[i].torn => alerts'[i].torn
               /\ \A a \in Actors : call[a].id = i /\ call'[a] = Idle =>
                      alerts'[i].torn
    PROVE  Book'
<1>0. /\ DOMAIN alerts' = DOMAIN alerts /\ DOMAIN alerts = 1..Len(alerts)
      /\ Idle.id = 0 /\ Idle.pc = "idle" /\ Idle.batch = {}
      /\ "courier" \in Actors /\ Len(alerts) \in Nat
  BY DEF Book, Shape, Idle, Actors
<1>1. Shape'
  BY Blank DEF Book, Shape, Spent
<1>2. Errand'
  <2> SUFFICES ASSUME NEW a \in Actors PROVE Errand!(a)'
    BY DEF Errand
  <2>1. CASE call'[a] = Idle BY <2>1, <1>0
  <2>2. CASE call'[a] = call[a] BY <2>2 DEF Book, Errand
  <2> QED BY <2>1, <2>2
<1>3. Owned'
  <2>1. \A n \in DOMAIN notes : notes[n].id # 0 BY <1>0 DEF Book, Owned
  <2>2. \A a \in Actors : call'[a] = call[a] \/ (call'[a].id = 0 /\ call'[a].batch = {})
    BY <1>0
  <2> QED BY <2>1, <2>2, <1>0 DEF Book, Owned
<1>4. Told'
  <2> SUFFICES ASSUME NEW i \in DOMAIN alerts PROVE Told!(i)'
    BY <1>0 DEF Told
  <2>1. \A a \in Actors : call'[a].id = i => call'[a] = call[a] BY <1>0
  <2>2. ~alerts'[i].torn => \A a \in Actors : call[a].id = i => call'[a] = call[a]
    OBVIOUS
  <2> QED BY <2>1, <2>2 DEF Book, Told
<1>5. Fresh' BY DEF Fresh
<1>6. HonestChannel'
  BY <1>0 DEF Book, Owned, HonestChannel
<1> QED BY <1>1, <1>2, <1>3, <1>4, <1>5, <1>6 DEF Book

LEMMA TimedOut == ASSUME Book, GuardTimesOut PROVE Book'
<1> DEFINE k == call["guard"].id
           new == [alerts[k] EXCEPT !.torn = TRUE]
<1>1. /\ Fail(1) /\ call' = [call EXCEPT !["guard"] = Idle] /\ UNCHANGED <<notes, clock>>
      /\ alerts' = [alerts EXCEPT ![k] = new]
  BY DEF GuardTimesOut
<1>2. /\ alerts \in Seq(AlertRecord) /\ DOMAIN alerts = 1..Len(alerts)
      /\ call = [a \in Actors |-> call[a]] /\ "guard" \in Actors
      /\ Len(alerts) \in Nat
      /\ counts \in [trouble : Nat, edits : Nat]
  BY DEF Book, Shape, Actors
<1>3. Spent /\ counts'.trouble # 0 BY <1>1, <1>2 DEF Fail, Spent
<1>4. k \in DOMAIN alerts =>
         /\ new \in AlertRecord /\ new.torn /\ new.line = alerts[k].line
         /\ new.web = alerts[k].web /\ new.rung = alerts[k].rung
  <2>1. k \in DOMAIN alerts => alerts[k] \in AlertRecord BY <1>2
  <2> QED BY <2>1 DEF AlertRecord
<1> HIDE DEF new
<1>5. alerts' \in Seq(AlertRecord) /\ Len(alerts') = Len(alerts)
      /\ \A i \in DOMAIN alerts : alerts'[i] = IF i = k THEN new ELSE alerts[i]
  <2>1. alerts' \in [1..Len(alerts) -> AlertRecord]
    <3>1. \A i \in DOMAIN alerts : alerts[i] \in AlertRecord BY <1>2
    <3>2. alerts = [i \in DOMAIN alerts |-> alerts[i]] BY <1>2
    <3> QED BY <3>1, <3>2, <1>1, <1>2, <1>4
  <2>2. \A i \in DOMAIN alerts : alerts'[i] = IF i = k THEN new ELSE alerts[i]
    BY <1>1, <1>2
  <2> QED BY <2>1, <2>2, <1>2
<1>6. call' = [a \in Actors |-> call'[a]]
      /\ \A a \in Actors : call'[a] = IF a = "guard" THEN Idle ELSE call[a]
  BY <1>1, <1>2
<1>7. \A a \in Actors : call[a].id \in DOMAIN alerts /\ call'[a] = Idle =>
                            a = "guard" \/ call[a] = Idle
  BY <1>6
<1>8. \A a \in Actors, i \in DOMAIN alerts : call[a].id = i /\ call'[a] = Idle => i = k
  <2>1. Idle.id = 0 /\ 0 \notin DOMAIN alerts BY <1>2 DEF Idle
  <2> QED BY <2>1, <1>7
<1> QED BY <1>1, <1>3, <1>4, <1>5, <1>6, <1>8, Cut

LEMMA Restarted == ASSUME Book, Restart PROVE Book'
<1>1. /\ Fail(1) /\ call' = [a \in Actors |-> Idle] /\ UNCHANGED <<notes, clock>>
      /\ alerts' = [i \in DOMAIN alerts |-> [alerts[i] EXCEPT
                       !.torn = @ \/ \E a \in Actors : call[a].id = i]]
  BY DEF Restart
<1>2. /\ alerts \in Seq(AlertRecord) /\ DOMAIN alerts = 1..Len(alerts)
      /\ Len(alerts) \in Nat /\ counts \in [trouble : Nat, edits : Nat]
  BY DEF Book, Shape
<1>3. Spent /\ counts'.trouble # 0 BY <1>1, <1>2 DEF Fail, Spent
<1>4. \A i \in DOMAIN alerts :
         /\ alerts'[i] \in AlertRecord
         /\ alerts'[i].line = alerts[i].line /\ alerts'[i].web = alerts[i].web
         /\ alerts'[i].rung = alerts[i].rung
         /\ alerts[i].torn => alerts'[i].torn
         /\ (\E a \in Actors : call[a].id = i) => alerts'[i].torn
  <2> SUFFICES ASSUME NEW i \in DOMAIN alerts PROVE <1>4!(i)
    OBVIOUS
  <2> DEFINE torn == alerts[i].torn \/ \E a \in Actors : call[a].id = i
  <2>1. alerts'[i] = [alerts[i] EXCEPT !.torn = torn] BY <1>1
  <2>2. torn \in BOOLEAN OBVIOUS
  <2>3. alerts[i] \in AlertRecord BY <1>2
  <2>4. /\ alerts'[i] \in AlertRecord /\ alerts'[i].torn = torn
        /\ alerts'[i].line = alerts[i].line /\ alerts'[i].web = alerts[i].web
        /\ alerts'[i].rung = alerts[i].rung
    <3> HIDE DEF torn
    <3> QED BY <2>1, <2>2, <2>3 DEF AlertRecord
  <2> QED BY <2>4
<1>5. alerts' \in Seq(AlertRecord) /\ Len(alerts') = Len(alerts)
  <2>1. alerts' = [i \in 1..Len(alerts) |-> alerts'[i]] BY <1>1, <1>2
  <2>2. alerts' \in [1..Len(alerts) -> AlertRecord] BY <2>1, <1>2, <1>4
  <2> QED BY <2>2, <1>2
<1>6. call' = [a \in Actors |-> call'[a]]
      /\ \A a \in Actors : call'[a] \in {call[a], Idle}
  BY <1>1
<1> QED BY <1>1, <1>3, <1>4, <1>5, <1>6, Cut

LEMMA Dispatched == ASSUME Book, CourierStarts PROVE Book'
<1> DEFINE c == call["courier"]
           batch == {n \in DOMAIN notes : notes[n].status = "pending"}
<1>1. PICK s \in 0..1 :
          /\ Fail(s)
          /\ call' = [call EXCEPT !["courier"] = [Idle EXCEPT
                !.pc = "next", !.off = IF s = 1 THEN {} ELSE off, !.batch = batch]]
  BY DEF CourierStarts
<1> DEFINE new == [Idle EXCEPT !.pc = "next", !.off = IF s = 1 THEN {} ELSE off,
                               !.batch = batch]
<1>2. UNCHANGED <<alerts, notes, clock>> /\ c.pc = "idle" BY DEF CourierStarts
<1>3. IsCall(new) /\ new.id = 0 /\ new.pc = "next" /\ ~new.line /\ ~new.web
      /\ new.batch = batch
  <2> HIDE DEF batch
  <2> DEFINE o == IF s = 1 THEN {} ELSE off
  <2>1. new = Between(o, batch, "next") BY DEF Idle, Between
  <2> HIDE DEF new, o
  <2> QED BY <2>1, BetweenRows
<1>4. "courier" \in Actors /\ call = [a \in Actors |-> call[a]]
      /\ counts \in [trouble : Nat, edits : Nat] /\ clock \in Int
  BY DEF Actors, Book, Shape
<1> HIDE DEF new
<1>5. call' = [a \in Actors |-> call'[a]]
      /\ \A a \in Actors : call'[a] = IF a = "courier" THEN new ELSE call[a]
  BY <1>1, <1>4 DEF new
<1>6. c.id = 0 BY <1>2, <1>4 DEF Book, Errand
<1>7. Errand' BY <1>2, <1>3, <1>5, <1>6 DEF Book, Errand
<1>8. Spent BY <1>1, <1>4 DEF Fail, Spent
<1>9. \A a \in Actors : IsCall(call'[a]) /\ call'[a].id = call[a].id
                        /\ (call[a].id # 0 => call'[a] = call[a])
  BY <1>3, <1>5, <1>6 DEF Book, Shape
<1>10. \A n \in call'["courier"].batch : n \in DOMAIN notes /\ notes[n].status = "pending"
  BY <1>3, <1>4, <1>5
<1> QED BY <1>2, <1>4, <1>5, <1>7, <1>8, <1>9, <1>10, Still

\* the courier skips a row, or begins its push
LEMMA Taken == ASSUME Book, CourierTakes PROVE Book'
<1> DEFINE c == call["courier"]
<1>1. PICK n \in c.batch :
          IF Category(notes[n].kind) \in c.off
          THEN /\ call' = [call EXCEPT !["courier"] = Onward(c, n)]
               /\ notes' = [notes EXCEPT ![n].status = "skipped"]
          ELSE /\ call' = [call EXCEPT !["courier"].pc = "line",
                                       !["courier"].row = n,
                                       !["courier"].id = notes[n].id]
               /\ UNCHANGED notes
  BY DEF CourierTakes
<1>2. UNCHANGED <<alerts, clock, counts>> /\ c.pc = "next" BY DEF CourierTakes
<1>3. /\ "courier" \in Actors /\ call = [a \in Actors |-> call[a]] /\ IsCall(c)
      /\ counts \in [trouble : Nat, edits : Nat] /\ notes \in Seq(RowRecord)
      /\ DOMAIN alerts = 1..Len(alerts) /\ Len(alerts) \in Nat
  BY DEF Actors, Book, Shape
<1>4. c.id = 0 /\ ~c.line /\ ~c.web BY <1>2, <1>3 DEF Book, Errand
<1>5. /\ n \in DOMAIN notes /\ notes[n].status = "pending" /\ notes[n] \in RowRecord
      /\ notes[n].id \in DOMAIN alerts
      /\ \A a \in Actors : call[a].id # notes[n].id
      /\ n \in Nat
  <2>1. n \in DOMAIN notes /\ notes[n].status = "pending" BY DEF Book, Owned
  <2>2. notes[n].id \in DOMAIN alerts BY <2>1, <1>3 DEF Book, Owned
  <2>3. \A a \in Actors : call[a].id # notes[n].id
    BY <2>1, <2>2, <1>3, <1>4 DEF Book, Owned
  <2> QED BY <2>1, <2>2, <2>3, <1>3
<1> DEFINE k == notes[n].id
<1>6. CASE Category(notes[n].kind) \in c.off
  <2> DEFINE new == Onward(c, n)
             row == [notes[n] EXCEPT !.status = "skipped"]
  <2>1. call' = [call EXCEPT !["courier"] = new] /\ notes' = [notes EXCEPT ![n] = row]
    BY <1>1, <1>6
  <2>2. IsCall(new) /\ new.id = 0 /\ new.pc \in {"idle", "next"}
        /\ ~new.line /\ ~new.web /\ new.batch = c.batch \ {n}
    <3> DEFINE pc == IF c.batch = {n} THEN "idle" ELSE "next"
               rest == c.batch \ {n}
    <3>1. new = Between(c.off, rest, pc) BY DEF Onward, Between
    <3>2. pc \in {"idle", "next"} OBVIOUS
    <3> HIDE DEF new, pc, rest
    <3>3. IsCall(new) /\ new.id = 0 /\ new.pc = pc /\ new.batch = rest
          /\ ~new.line /\ ~new.web
      BY <3>1, <3>2, BetweenRows
    <3> QED BY <3>2, <3>3 DEF rest
  <2>3. row \in RowRecord /\ row.id = k /\ row.status = "skipped"
    BY <1>5 DEF RowRecord
  <2> HIDE DEF new, row
  <2>4. call' = [a \in Actors |-> call'[a]] /\ call'["courier"] = new
        /\ \A a \in Actors \ {"courier"} : call'[a] = call[a]
    BY <2>1, <1>3
  <2>5. /\ notes' \in Seq(RowRecord) /\ DOMAIN notes' = DOMAIN notes
        /\ notes'[n] = row /\ \A m \in DOMAIN notes \ {n} : notes'[m] = notes[m]
    BY <2>1, <2>3, <1>3, <1>5
  <2>6. \A a \in Actors : call'[a].id = call[a].id BY <2>2, <2>4, <1>4
  <2>7. \A m \in DOMAIN notes : notes'[m].id = notes[m].id BY <2>3, <2>5
  <2>8. Shape' BY <2>2, <2>4, <2>5, <1>2 DEF Book, Shape
  <2>9. Errand' BY <2>2, <2>4, <1>2 DEF Book, Errand
  <2>10. Owned'
    <3>1. \A m \in call'["courier"].batch : m \in DOMAIN notes' /\ notes'[m].status = "pending"
      BY <2>2, <2>4, <2>5 DEF Book, Owned
    <3>2. \A a \in Actors \ {"courier"}, m \in DOMAIN notes' :
              call'[a].id # notes'[m].id
      BY <2>5, <2>6, <2>7 DEF Book, Owned
    <3>3. \A a, b \in Actors : call'[a].id = call'[b].id => a = b \/ call'[a].id = 0
      BY <2>6 DEF Book, Owned
    <3>4. \A m, j \in DOMAIN notes' : notes'[m].id = notes'[j].id => m = j
      BY <2>5, <2>7 DEF Book, Owned
    <3>5. \A m \in DOMAIN notes' : notes'[m].id \in 1..Len(alerts')
      BY <2>5, <2>7, <1>2 DEF Book, Owned
    <3> QED BY <3>1, <3>2, <3>3, <3>4, <3>5, <2>2, <2>4 DEF Owned
  <2>11. Told'
    <3> SUFFICES ASSUME NEW i \in DOMAIN alerts PROVE Told!(i)'
      BY <1>2 DEF Told
    <3>1. i # 0 BY <1>3
    <3>2. \A a \in Actors : call'[a].id = i => call'[a] = call[a]
      BY <3>1, <2>2, <2>4
    <3> QED BY <3>2, <2>6, <1>2 DEF Book, Told
  <2>12. Fresh'
    <3>1. \A m \in DOMAIN notes' : notes'[m].status = "pending" => notes'[m] = notes[m]
      BY <2>3, <2>5
    <3> QED BY <3>1, <2>5, <2>6, <1>2 DEF Book, Fresh
  <2>13. HonestChannel'
    <3> SUFFICES ASSUME NEW m \in DOMAIN notes PROVE HonestChannel!(m)'
      BY <2>5 DEF HonestChannel
    <3>1. CASE m = n
      <4>1. counts.trouble = 0 => alerts[k].rung = 0 BY <1>5 DEF Book, Fresh
      <4> QED BY <4>1, <3>1, <2>3, <2>5, <1>2
    <3>2. CASE m # n
      BY <3>2, <2>5, <1>2 DEF Book, HonestChannel
    <3> QED BY <3>1, <3>2
  <2> QED BY <2>8, <2>9, <2>10, <2>11, <2>12, <2>13 DEF Book
<1>7. CASE Category(notes[n].kind) \notin c.off
  <2>1. /\ call' = [call EXCEPT !["courier"].pc = "line", !["courier"].row = n,
                                !["courier"].id = k]
        /\ UNCHANGED notes
    BY <1>1, <1>7
  <2>2. k \in Nat /\ k # 0 BY <1>3, <1>5
  <2> HIDE DEF k
  <2>3. /\ call' = [a \in Actors |-> call'[a]] /\ IsCall(call'["courier"])
        /\ \A a \in Actors \ {"courier"} : call'[a] = call[a]
        /\ call'["courier"].pc = "line" /\ call'["courier"].row = n
        /\ call'["courier"].id = k /\ call'["courier"].batch = c.batch
        /\ call'["courier"].line = c.line /\ call'["courier"].web = c.web
    BY <2>1, <2>2, <1>3, <1>5 DEF IsCall
  <2>4. k \in DOMAIN alerts /\ (\A a \in Actors : call[a].id # k) /\ notes[n].id = k
    BY <1>5 DEF k
  <2>5. Shape' BY <2>1, <2>3, <1>2 DEF Book, Shape
  <2>6. Errand'
    BY <2>2, <2>3, <2>4, <1>2, <1>3, <1>4 DEF Book, Errand
  <2>7. Owned'
    <3>1. \A a \in Actors \ {"courier"}, m \in DOMAIN notes : call'[a].id # notes[m].id
      BY <2>3 DEF Book, Owned
    <3>2. \A a, b \in Actors : call'[a].id = call'[b].id => a = b \/ call'[a].id = 0
      BY <2>3, <2>4 DEF Book, Owned
    <3> QED BY <3>1, <3>2, <2>1, <2>3, <2>4, <1>2 DEF Book, Owned
  <2>8. Told'
    <3> SUFFICES ASSUME NEW i \in DOMAIN alerts PROVE Told!(i)'
      BY <1>2 DEF Told
    <3>1. CASE i = k
      <4>1. \A a \in Actors : call'[a].id = k => a = "courier" BY <2>3, <2>4
      <4>2. ~alerts[k].torn /\ alerts[k].rung = 0 => ~alerts[k].line /\ ~alerts[k].web
        BY <2>4 DEF Book, Told
      <4> QED BY <4>1, <4>2, <3>1, <2>3, <2>4, <1>2, <1>4
    <3>2. CASE i # k
      <4>1. i # 0 BY <1>3
      <4>2. \A a \in Actors : call'[a].id = i => call'[a] = call[a]
        BY <3>2, <2>3
      <4>3. (\A a \in Actors : call'[a].id # i) => \A a \in Actors : call[a].id # i
        BY <4>1, <2>3, <1>4
      <4> QED BY <4>2, <4>3, <1>2 DEF Book, Told
    <3> QED BY <3>1, <3>2
  <2>9. Fresh'
    <3>1. counts.trouble = 0 => alerts[k].rung = 0 BY <2>4, <1>5 DEF Book, Fresh
    <3>2. \A a \in Actors : call'[a].id = call[a].id \/ call'[a].id = k BY <2>3
    <3> QED BY <3>1, <3>2, <2>1, <1>2 DEF Book, Fresh
  <2>10. HonestChannel' BY <2>1, <1>2 DEF Book, HonestChannel
  <2> QED BY <2>5, <2>6, <2>7, <2>8, <2>9, <2>10 DEF Book
<1> QED BY <1>6, <1>7

\* what the owner, the market and time do leaves the book alone
LEMMA Beside ==
    ASSUME Book, UNCHANGED <<alerts, notes, call>>, Spent, clock' \in Int
    PROVE  Book'
<1>1. "courier" \in Actors BY DEF Actors
<1>2. Errand' BY DEF Book, Errand
<1>3. \A n \in call'["courier"].batch : n \in DOMAIN notes /\ notes[n].status = "pending"
  BY DEF Book, Owned
<1>4. call' = [a \in Actors |-> call'[a]] /\ \A a \in Actors : IsCall(call'[a])
  BY DEF Book, Shape
<1> QED BY <1>2, <1>3, <1>4, Still

LEMMA Tested == ASSUME Book, TestPush PROVE Book'
<1> DEFINE new == [Idle EXCEPT !.pc = "web", !.todo = Audience]
<1>1. /\ call["tester"].pc = "idle" /\ call' = [call EXCEPT !["tester"] = new]
      /\ UNCHANGED <<alerts, notes, clock>>
      /\ counts' = [counts EXCEPT !.edits = @ + 1]
  BY DEF TestPush, Edit
<1>2. "tester" \in Actors /\ "courier" \in Actors /\ clock \in Int
      /\ call = [a \in Actors |-> call[a]] /\ counts \in [trouble : Nat, edits : Nat]
  BY DEF Actors, Book, Shape
<1>3. IsCall(new) /\ new.id = 0 /\ new.pc = "web"
  <2> DEFINE x == [Idle EXCEPT !.pc = "web"]
  <2>1. IsCall(Idle) /\ Idle.id = 0 BY Blank DEF Idle
  <2>2. IsCall(x) /\ x.id = 0 /\ x.pc = "web" BY <2>1 DEF IsCall
  <2>3. new = [x EXCEPT !.todo = Audience] OBVIOUS
  <2> HIDE DEF x, new
  <2> QED BY <2>2, <2>3 DEF IsCall
<1> HIDE DEF new
<1>4. call' = [a \in Actors |-> call'[a]] /\ call'["tester"] = new
      /\ \A a \in Actors \ {"tester"} : call'[a] = call[a]
  BY <1>1, <1>2
<1>5. call["tester"].id = 0 BY <1>2 DEF Book, Errand
<1>6. \A a \in Actors : IsCall(call'[a]) /\ call'[a].id = call[a].id
                        /\ (call[a].id # 0 => call'[a] = call[a])
  BY <1>3, <1>4, <1>5 DEF Book, Shape
<1>7. Errand' BY <1>1, <1>3, <1>4 DEF Book, Errand
<1>8. Spent BY <1>1, <1>2 DEF Spent
<1>9. call'["courier"] = call["courier"] BY <1>4 DEF Actors
<1>10. \A n \in call'["courier"].batch : n \in DOMAIN notes /\ notes[n].status = "pending"
  BY <1>9 DEF Book, Owned
<1> QED BY <1>1, <1>2, <1>4, <1>6, <1>7, <1>8, <1>10, Still

LEMMA BookInit == Init => Book
<1> SUFFICES ASSUME Init PROVE Book
  OBVIOUS
<1>1. /\ notes = <<>> /\ alerts = <<>> /\ clock = 0
      /\ call = [a \in Actors |-> Idle] /\ counts = [trouble |-> 0, edits |-> 0]
  BY DEF Init
<1>2. IsCall(Idle) /\ Idle.id = 0 /\ Idle.pc = "idle" /\ Idle.batch = {}
  BY Blank DEF Idle
<1>3. "courier" \in Actors BY DEF Actors
<1>4. Shape BY <1>1, <1>2 DEF Shape
<1>5. Errand BY <1>1, <1>2 DEF Errand
<1>6. Owned BY <1>1, <1>2, <1>3 DEF Owned
<1> QED BY <1>1, <1>4, <1>5, <1>6 DEF Book, Told, Fresh, HonestChannel

LEMMA BookStep == Book /\ [Next]_vars => Book'
<1> SUFFICES ASSUME Book, [Next]_vars PROVE Book'
  OBVIOUS
<1>0. counts \in [trouble : Nat, edits : Nat] /\ clock \in Int BY DEF Book, Shape
<1>1. CASE UNCHANGED vars
  BY <1>1, <1>0, Beside DEF vars, Spent
<1>2. CASE MonitorRuns
  <2>1. CASE Notify("monitor", MonitorKind, "")
    <3>1. MonitorKind \in Said BY DEF MonitorKind, Said, Kinds
    <3>2. "" \in Place BY Zenon DEF Place
    <3>3. "monitor" \in Actors \ {"courier", "tester"} BY Zenon DEF Actors
    <3>4. UNCHANGED clock BY <1>2, Zenon DEF MonitorRuns
    <3> QED BY <2>1, <3>1, <3>2, <3>3, <3>4, Notified, Zenon
  <2>2. CASE UNCHANGED <<notes, call, alerts, counts>>
    <3>1. UNCHANGED clock BY <1>2, Zenon DEF MonitorRuns
    <3> QED BY <2>2, <3>1, <1>0, Beside DEF Spent
  <2> QED BY <1>2, <2>1, <2>2, Zenon DEF MonitorRuns
<1>3. CASE KeeperRuns
  <2>1. CASE Notify("keeper", "risk_warning", "")
    <3>1. "risk_warning" \in Said BY Zenon DEF Said, Kinds
    <3>2. "" \in Place BY Zenon DEF Place
    <3>3. "keeper" \in Actors \ {"courier", "tester"} BY Zenon DEF Actors
    <3>4. UNCHANGED clock BY <1>3, Zenon DEF KeeperRuns
    <3> QED BY <2>1, <3>1, <3>2, <3>3, <3>4, Notified, Zenon
  <2>2. CASE UNCHANGED <<notes, call, alerts, counts>>
    <3>1. UNCHANGED clock BY <1>3, Zenon DEF KeeperRuns
    <3> QED BY <2>2, <3>1, <1>0, Beside DEF Spent
  <2> QED BY <1>3, <2>1, <2>2, Zenon DEF KeeperRuns
<1>4. CASE GuardRuns
  <2>1. PICK kind \in GuardSays, asset \in Assets : Notify("guard", kind, asset)
    BY <1>4, Zenon DEF GuardRuns
  <2>2. kind \in Said /\ asset \in Place BY Zenon DEF Said, Place
  <2>3. "guard" \in Actors \ {"courier", "tester"} BY Zenon DEF Actors
  <2>4. UNCHANGED clock BY <1>4, Zenon DEF GuardRuns
  <2> QED BY <2>1, <2>2, <2>3, <2>4, Notified, Zenon
<1>5. CASE DigestRuns
  <2>1. Notify("digest", "daily_digest", "") /\ UNCHANGED clock
    BY <1>5, Zenon DEF DigestRuns
  <2>2. "daily_digest" \in Said BY Zenon DEF Said, Kinds
  <2>3. "" \in Place BY Zenon DEF Place
  <2>4. "digest" \in Actors \ {"courier", "tester"} BY Zenon DEF Actors
  <2> QED BY <2>1, <2>2, <2>3, <2>4, Notified, Zenon
<1>6. CASE GuardTimesOut BY <1>6, TimedOut
<1>7. CASE CourierStarts BY <1>7, Dispatched
<1>8. CASE CourierTakes BY <1>8, Taken
<1>9. ASSUME NEW a \in Actors, LineAnswers(a) \/ WebAnswers(a) PROVE Book'
  BY <1>9, Answered
<1>10. CASE \E d \in Devices : Subscribe(d)
  BY <1>10, <1>0, Beside DEF Subscribe, Edit, Spent
<1>11. CASE \E d \in Devices : Unsubscribe(d)
  BY <1>11, <1>0, Beside DEF Unsubscribe, Edit, Spent
<1>12. CASE \E d \in Devices : DeviceDies(d)
  BY <1>12, <1>0, Beside DEF DeviceDies, Edit, Spent
<1>13. CASE TestPush BY <1>13, Tested
<1>14. CASE Toggle("risk")
  BY <1>14, <1>0, Beside DEF Toggle, Edit, Spent
<1>15. CASE RiskMoves
  BY <1>15, <1>0, Beside DEF RiskMoves, Edit, Spent
<1>16. CASE Restart BY <1>16, Restarted
<1>17. CASE Tick
  <2>1. UNCHANGED <<alerts, notes, call, counts>> /\ clock' = clock + 1
    BY <1>17 DEF Tick
  <2> QED BY <2>1, <1>0, Beside DEF Spent
<1> QED
  BY <1>1, <1>2, <1>3, <1>4, <1>5, <1>6, <1>7, <1>8, <1>9, <1>10, <1>11, <1>12,
     <1>13, <1>14, <1>15, <1>16, <1>17 DEF Next, Step

(***************************************************************************)
(* The devices                                                             *)
(***************************************************************************)
Heeded == Charged /\ DisabledForCause

\* no coroutine reads the devices
Unread ==
    \A a \in Actors : call'[a].todo = call[a].todo \/ DOMAIN call'[a].todo = {}

LEMMA Unheeded ==
    ASSUME Heeded, UNCHANGED <<subs, strikes, parted>>, dead \subseteq dead', Unread
    PROVE  Heeded'
<1>1. Charged' BY DEF Heeded, Charged, Unread
<1>2. DisabledForCause' BY DEF Heeded, DisabledForCause
<1> QED BY <1>1, <1>2 DEF Heeded

LEMMA SettlesUnread ==
    ASSUME Shape, NEW a \in Actors, NEW line, NEW web, NEW n, Settle(a, line, web, n)
    PROVE  Unread
<1>1. DOMAIN Idle.todo = {} BY DEF Idle, NoFails
<1>2. call = [b \in Actors |-> call[b]] BY DEF Shape
<1>3. CASE a = "courier"
  <2>1. call' = [call EXCEPT ![a] = Onward(call[a], call[a].row)]
    BY <1>3 DEF Settle
  <2>2. Onward(call[a], call[a].row).todo = Idle.todo BY DEF Onward, Idle
  <2> QED BY <2>1, <2>2, <1>1, <1>2 DEF Unread
<1>4. CASE a # "courier"
  <2>1. call' = [call EXCEPT ![a] = Idle] BY <1>4 DEF Settle
  <2> QED BY <2>1, <1>1, <1>2 DEF Unread
<1> QED BY <1>3, <1>4

LEMMA NotifyUnread ==
    ASSUME Shape, NEW a \in Actors, NEW kind, NEW asset, Notify(a, kind, asset)
    PROVE  Unread
<1>1. call' = call \/ call' = [call EXCEPT ![a] =
                                  [Idle EXCEPT !.pc = "line", !.id = Len(alerts) + 1]]
  BY DEF Notify
<1>2. DOMAIN [Idle EXCEPT !.pc = "line", !.id = Len(alerts) + 1].todo = {}
  BY DEF Idle, NoFails
<1>3. call = [b \in Actors |-> call[b]] BY DEF Shape
<1> QED BY <1>1, <1>2, <1>3 DEF Unread

LEMMA Struckable == MaxFails \in Nat
  BY AlertsAssumption

\* one device answers: its count and its strikes move together
LEMMA StruckOnce ==
    ASSUME Heeded, NEW a \in Actors, NEW d \in DOMAIN call[a].todo,
           NEW answer \in {"ok", "error", "gone"}, answer = "gone" => d \in dead,
           subs' = PushOne(d, call[a].todo[d], answer),
           strikes' = [strikes EXCEPT ![d] = IF answer = "ok" THEN @ ELSE @ + 1],
           UNCHANGED <<parted, dead>>,
           \A b \in Actors : \A e \in DOMAIN call'[b].todo :
               e \in DOMAIN call[b].todo /\ call'[b].todo[e] = call[b].todo[e]
    PROVE  Heeded'
<1> DEFINE fails == call[a].todo[d]
           new == IF answer = "ok" THEN Healed(subs[d], fails)
                                   ELSE Struck(subs[d], fails, answer)
<1>1. /\ d \in DOMAIN subs /\ d \in Devices /\ fails \in Nat /\ fails <= strikes[d]
      /\ strikes[d] \in Nat /\ subs[d] \in [enabled : BOOLEAN, fails : Nat]
      /\ subs[d].fails <= strikes[d]
  BY DEF Heeded, Charged
<1>2. subs' = [subs EXCEPT ![d] = new] BY DEF PushOne
<1>3. /\ strikes' \in [Devices -> Nat]
      /\ \A e \in Devices : strikes[e] <= strikes'[e]
      /\ strikes'[d] = IF answer = "ok" THEN strikes[d] ELSE strikes[d] + 1
  BY <1>1 DEF Heeded, Charged
<1>4. /\ new \in [enabled : BOOLEAN, fails : Nat] /\ new.fails <= strikes'[d]
      /\ ~new.enabled => ~subs[d].enabled \/ d \in dead \/ strikes'[d] >= MaxFails
  <2>1. CASE answer = "ok" BY <2>1, <1>1, <1>3 DEF Healed
  <2>2. CASE answer # "ok"
    <3>1. new = [enabled |-> subs[d].enabled /\ answer # "gone" /\ fails + 1 < MaxFails,
                 fails |-> fails + 1]
      BY <2>2 DEF Struck
    <3>2. strikes'[d] = strikes[d] + 1 BY <2>2, <1>3
    <3> HIDE DEF new
    <3> QED BY <3>1, <3>2, <1>1, Struckable
  <2> QED BY <2>1, <2>2
<1> HIDE DEF new
<1>5. /\ DOMAIN subs' = DOMAIN subs /\ subs'[d] = new
      /\ \A e \in DOMAIN subs \ {d} : subs'[e] = subs[e]
      /\ subs' \in [DOMAIN subs -> [enabled : BOOLEAN, fails : Nat]]
  BY <1>1, <1>2, <1>4 DEF Heeded, Charged
<1>6. Charged'
  <2>1. \A e \in DOMAIN subs : subs'[e].fails <= strikes'[e]
    <3> SUFFICES ASSUME NEW e \in DOMAIN subs PROVE subs'[e].fails <= strikes'[e]
      OBVIOUS
    <3>1. CASE e = d BY <3>1, <1>4, <1>5
    <3>2. CASE e # d
      <4>1. /\ e \in Devices /\ strikes[e] \in Nat /\ strikes'[e] \in Nat
            /\ subs[e].fails \in Nat /\ subs[e].fails <= strikes[e]
        BY <1>3 DEF Heeded, Charged
      <4> QED BY <4>1, <3>2, <1>3, <1>5
    <3> QED BY <3>1, <3>2
  <2>2. \A b \in Actors : \A e \in DOMAIN call'[b].todo :
            e \in DOMAIN subs' /\ call'[b].todo[e] \in 0..strikes'[e]
    <3> SUFFICES ASSUME NEW b \in Actors, NEW e \in DOMAIN call'[b].todo
                 PROVE  e \in DOMAIN subs' /\ call'[b].todo[e] \in 0..strikes'[e]
      OBVIOUS
    <3>1. /\ e \in DOMAIN subs /\ e \in Devices /\ call[b].todo[e] \in 0..strikes[e]
          /\ call'[b].todo[e] = call[b].todo[e] /\ strikes[e] \in Nat
          /\ strikes'[e] \in Nat
      BY <1>3 DEF Heeded, Charged
    <3> QED BY <3>1, <1>3, <1>5
  <2> QED BY <2>1, <2>2, <1>3, <1>5 DEF Heeded, Charged
<1>7. DisabledForCause'
  <2> SUFFICES ASSUME NEW e \in DOMAIN subs, ~subs'[e].enabled
               PROVE  e \in parted \/ e \in dead \/ strikes'[e] >= MaxFails
    BY <1>5 DEF DisabledForCause
  <2>1. ~subs[e].enabled => e \in parted \/ e \in dead \/ strikes'[e] >= MaxFails
    <3>1. e \in Devices /\ strikes[e] \in Nat /\ strikes'[e] \in Nat
          /\ strikes[e] <= strikes'[e]
      BY <1>3 DEF Heeded, Charged
    <3>2. ~subs[e].enabled => e \in parted \/ e \in dead \/ strikes[e] >= MaxFails
      BY DEF Heeded, DisabledForCause
    <3> QED BY <3>1, <3>2, Struckable
  <2>2. CASE e = d BY <2>1, <2>2, <1>4, <1>5
  <2>3. CASE e # d BY <2>1, <2>3, <1>5
  <2> QED BY <2>2, <2>3
<1> QED BY <1>6, <1>7 DEF Heeded

\* the devices are read: by LINE's answer and by a test push
LEMMA Read ==
    ASSUME Heeded, NEW a \in Actors, UNCHANGED <<subs, strikes, parted, dead>>,
           call'[a].todo = Audience,
           \A b \in Actors \ {a} : call'[b] = call[b]
    PROVE  Heeded'
<1>1. \A d \in DOMAIN Audience : d \in DOMAIN subs /\ Audience[d] \in 0..strikes[d]
  BY DEF Heeded, Charged, Audience, Enabled
<1>2. Charged' BY <1>1 DEF Heeded, Charged
<1>3. DisabledForCause' BY DEF Heeded, DisabledForCause
<1> QED BY <1>2, <1>3 DEF Heeded

LEMMA HeededStep == Shape /\ Heeded /\ [Next]_vars => Heeded'
<1> SUFFICES ASSUME Shape, Heeded, [Next]_vars PROVE Heeded'
  OBVIOUS
<1>0. call = [a \in Actors |-> call[a]] /\ \A a \in Actors : IsCall(call[a])
  BY DEF Shape
<1> DEFINE Devs == UNCHANGED <<subs, strikes, parted, dead>>
<1>1. CASE UNCHANGED vars \/ Toggle("risk") \/ RiskMoves \/ Tick
  <2>1. Devs /\ UNCHANGED call BY <1>1 DEF vars, Toggle, RiskMoves, Tick
  <2> QED BY <2>1, Unheeded DEF Unread
<1>2. CASE MonitorRuns \/ KeeperRuns \/ GuardRuns \/ DigestRuns
  <2>1. Devs BY <1>2, Zenon DEF MonitorRuns, KeeperRuns, GuardRuns, DigestRuns
  <2>2. \/ UNCHANGED call
        \/ \E a \in {"monitor", "keeper", "guard", "digest"} : \E kind, asset :
              Notify(a, kind, asset)
    BY <1>2, Zenon DEF MonitorRuns, KeeperRuns, GuardRuns, DigestRuns
  <2>3. Unread
    <3>1. CASE UNCHANGED call BY <3>1 DEF Unread
    <3>2. ASSUME NEW a \in {"monitor", "keeper", "guard", "digest"},
                 \E kind, asset : Notify(a, kind, asset)
          PROVE  Unread
      <4>1. a \in Actors BY DEF Actors
      <4> QED BY <3>2, <4>1, NotifyUnread
    <3> QED BY <3>1, <3>2, <2>2
  <2> QED BY <2>1, <2>3, Unheeded
<1>3. CASE GuardTimesOut \/ Restart
  <2>1. Devs /\ \A a \in Actors : call'[a] \in {call[a], Idle}
    BY <1>3, <1>0 DEF GuardTimesOut, Restart
  <2> QED BY <2>1, Unheeded DEF Unread, Idle, NoFails
<1>4. CASE CourierStarts \/ CourierTakes
  <2>1. Devs BY <1>4 DEF CourierStarts, CourierTakes
  <2>2. \A a \in Actors \ {"courier"} : call'[a] = call[a]
    BY <1>4, <1>0 DEF CourierStarts, CourierTakes
  <2>3. DOMAIN call'["courier"].todo = {} \/ call'["courier"].todo = call["courier"].todo
    <3>0. "courier" \in Actors /\ IsCall(call["courier"]) BY <1>0 DEF Actors
    <3>1. CASE CourierStarts
      <4>1. PICK s \in 0..1 :
                call' = [call EXCEPT !["courier"] = [Idle EXCEPT
                   !.pc = "next", !.off = IF s = 1 THEN {} ELSE off,
                   !.batch = {n \in DOMAIN notes : notes[n].status = "pending"}]]
        BY <3>1 DEF CourierStarts
      <4> QED BY <4>1, <3>0, <1>0 DEF Idle, NoFails
    <3>2. CASE CourierTakes
      <4>1. PICK n : \/ call' = [call EXCEPT !["courier"] = Onward(call["courier"], n)]
                     \/ call' = [call EXCEPT !["courier"].pc = "line",
                                             !["courier"].row = n,
                                             !["courier"].id = notes[n].id]
        BY <3>2 DEF CourierTakes
      <4>2. DOMAIN Onward(call["courier"], n).todo = {} BY DEF Onward, Idle, NoFails
      <4>3. CASE call' = [call EXCEPT !["courier"] = Onward(call["courier"], n)]
        BY <4>2, <4>3, <3>0, <1>0
      <4>4. CASE call' = [call EXCEPT !["courier"].pc = "line",
                                      !["courier"].row = n,
                                      !["courier"].id = notes[n].id]
        BY <4>4, <3>0, <1>0 DEF IsCall
      <4> QED BY <4>1, <4>3, <4>4
    <3> QED BY <3>1, <3>2, <1>4
  <2> QED BY <2>1, <2>2, <2>3, Unheeded DEF Unread
<1>5. ASSUME NEW a \in Actors, LineAnswers(a) PROVE Heeded'
  <2>1. PICK ok \in BOOLEAN, s \in 0..1 :
            LET todo == IF s = 1 THEN NoFails ELSE Audience
            IN  IF DOMAIN todo = {}
                THEN Settle(a, ok, FALSE, s)
                ELSE call' = [call EXCEPT ![a].pc = "web", ![a].line = ok,
                                          ![a].todo = todo]
    BY <1>5 DEF LineAnswers
  <2>2. Devs BY <1>5 DEF LineAnswers
  <2> DEFINE todo == IF s = 1 THEN NoFails ELSE Audience
  <2>3. CASE DOMAIN todo = {}
    BY <2>1, <2>2, <2>3, SettlesUnread, Unheeded
  <2>4. CASE DOMAIN todo # {}
    <3>1. todo = Audience BY <2>4 DEF NoFails
    <3>2. call' = [call EXCEPT ![a].pc = "web", ![a].line = ok, ![a].todo = Audience]
      BY <2>1, <2>4, <3>1
    <3>3. call'[a].todo = Audience /\ \A b \in Actors \ {a} : call'[b] = call[b]
      BY <3>2, <1>0 DEF IsCall
    <3> QED BY <3>3, <2>2, Read
  <2> QED BY <2>3, <2>4
<1>6. ASSUME NEW a \in Actors, WebAnswers(a) PROVE Heeded'
  <2>1. PICK d \in DOMAIN call[a].todo, answer \in {"ok", "error", "gone"} :
            LET c == call[a]
                web == c.web \/ answer = "ok"
            IN  /\ answer = "gone" => d \in dead
                /\ subs' = PushOne(d, c.todo[d], answer)
                /\ strikes' = [strikes EXCEPT ![d] = IF answer = "ok" THEN @ ELSE @ + 1]
                /\ \/ Settle(a, c.line, web, 0)
                   \/ call' = [call EXCEPT ![a].web = web,
                                 ![a].todo = Restrict(@, DOMAIN @ \ {d})]
    <3>1. PICK d \in DOMAIN call[a].todo :
              \E answer \in IF d \in dead THEN {"gone"} ELSE {"ok", "error"} :
                 LET c == call[a]
                     web == c.web \/ answer = "ok"
                 IN  /\ subs' = PushOne(d, c.todo[d], answer)
                     /\ strikes' = [strikes EXCEPT ![d] =
                                       IF answer = "ok" THEN @ ELSE @ + 1]
                     /\ \/ Settle(a, c.line, web, 0)
                        \/ call' = [call EXCEPT ![a].web = web,
                                      ![a].todo = Restrict(@, DOMAIN @ \ {d})]
      BY <1>6, ZenonT(60) DEF WebAnswers
    <3>2. PICK answer \in IF d \in dead THEN {"gone"} ELSE {"ok", "error"} :
              LET c == call[a]
                  web == c.web \/ answer = "ok"
              IN  /\ subs' = PushOne(d, c.todo[d], answer)
                  /\ strikes' = [strikes EXCEPT ![d] = IF answer = "ok" THEN @ ELSE @ + 1]
                  /\ \/ Settle(a, c.line, web, 0)
                     \/ call' = [call EXCEPT ![a].web = web,
                                   ![a].todo = Restrict(@, DOMAIN @ \ {d})]
      BY <3>1
    <3>3. answer \in {"ok", "error", "gone"} /\ (answer = "gone" => d \in dead)
      BY <3>2
    <3> QED BY <3>2, <3>3, Zenon
  <2>2. UNCHANGED <<parted, dead>> BY <1>6 DEF WebAnswers
  <2>3. answer \in {"ok", "error", "gone"} /\ (answer = "gone" => d \in dead)
    BY <2>1
  <2>4. \A b \in Actors : \A e \in DOMAIN call'[b].todo :
            e \in DOMAIN call[b].todo /\ call'[b].todo[e] = call[b].todo[e]
    <3>1. CASE \E line, web : Settle(a, line, web, 0)
      <4>1. Unread BY <3>1, SettlesUnread
      <4> QED BY <4>1 DEF Unread
    <3>2. CASE \E web : call' = [call EXCEPT ![a].web = web,
                                   ![a].todo = Restrict(@, DOMAIN @ \ {d})]
      <4>1. call'[a].todo = Restrict(call[a].todo, DOMAIN call[a].todo \ {d})
            /\ \A b \in Actors \ {a} : call'[b] = call[b]
        BY <3>2, <1>0 DEF IsCall
      <4> QED BY <4>1 DEF Restrict
    <3> QED BY <2>1, <3>1, <3>2
  <2> QED BY <2>1, <2>2, <2>3, <2>4, StruckOnce
<1>7. ASSUME NEW d \in Devices, Subscribe(d) PROVE Heeded'
  <2>1. /\ subs' = [e \in DOMAIN subs \cup {d} |->
                       IF e = d THEN [enabled |-> TRUE, fails |-> 0] ELSE subs[e]]
        /\ parted' = parted \ {d} /\ UNCHANGED <<strikes, dead, call>>
    BY <1>7 DEF Subscribe
  <2>2. Charged' BY <2>1 DEF Heeded, Charged
  <2>3. DisabledForCause' BY <2>1 DEF Heeded, DisabledForCause
  <2> QED BY <2>2, <2>3 DEF Heeded
<1>8. ASSUME NEW d \in Devices, Unsubscribe(d) PROVE Heeded'
  <2>1. /\ d \in DOMAIN subs /\ subs' = [subs EXCEPT ![d].enabled = FALSE]
        /\ parted' = parted \cup {d} /\ UNCHANGED <<strikes, dead, call>>
    BY <1>8 DEF Unsubscribe
  <2>2. /\ DOMAIN subs' = DOMAIN subs
        /\ subs' \in [DOMAIN subs -> [enabled : BOOLEAN, fails : Nat]]
        /\ \A e \in DOMAIN subs : subs'[e].fails = subs[e].fails
        /\ \A e \in DOMAIN subs \ {d} : subs'[e] = subs[e]
    BY <2>1 DEF Heeded, Charged
  <2>3. Charged' BY <2>1, <2>2 DEF Heeded, Charged
  <2>4. DisabledForCause' BY <2>1, <2>2 DEF Heeded, DisabledForCause
  <2> QED BY <2>3, <2>4 DEF Heeded
<1>9. ASSUME NEW d \in Devices, DeviceDies(d) PROVE Heeded'
  <2>1. UNCHANGED <<subs, strikes, parted, call>> /\ dead \subseteq dead'
    BY <1>9 DEF DeviceDies
  <2> QED BY <2>1, Unheeded DEF Unread
<1>10. CASE TestPush
  <2>1. /\ call' = [call EXCEPT !["tester"] = [Idle EXCEPT !.pc = "web",
                                                           !.todo = Audience]]
        /\ Devs
    BY <1>10 DEF TestPush
  <2>2. "tester" \in Actors BY DEF Actors
  <2>3. call'["tester"].todo = Audience
        /\ \A b \in Actors \ {"tester"} : call'[b] = call[b]
    BY <2>1, <2>2, <1>0 DEF Idle
  <2> QED BY <2>1, <2>2, <2>3, Read
<1> HIDE DEF Devs
<1> QED
  BY <1>1, <1>2, <1>3, <1>4, <1>5, <1>6, <1>7, <1>8, <1>9, <1>10, Zenon
  DEF Next, Step

LEMMA HeededInit == Init => Heeded
<1> SUFFICES ASSUME Init PROVE Heeded
  OBVIOUS
<1>1. PICK known \in SUBSET Devices :
          subs = [d \in known |-> [enabled |-> TRUE, fails |-> 0]]
  BY DEF Init
<1>2. strikes = [d \in Devices |-> 0] /\ call = [a \in Actors |-> Idle]
  BY DEF Init
<1>3. DOMAIN Idle.todo = {} BY DEF Idle, NoFails
<1> QED BY <1>1, <1>2, <1>3 DEF Heeded, Charged, DisabledForCause

LEMMA BookGives == Book => RungOnce
<1> SUFFICES ASSUME Book, NEW i \in DOMAIN alerts, alerts[i].rung > 1,
                    counts.trouble = 0
             PROVE  FALSE
  BY DEF RungOnce, Book, Shape
<1>1. alerts[i] \in AlertRecord BY DEF Book, Shape
<1>2. alerts[i].rung \in Nat BY <1>1 DEF AlertRecord
<1> QED BY <1>2 DEF Book, Fresh

\* What the table and the devices say is what happened, whichever coroutines
\* are between two pushes: a row names the transports that delivered its alert,
\* nothing rings twice unless something failed in between, and a device leaves
\* the audience for a cause.
THEOREM AlwaysHonest == ScheduleSpec => []RowsHonest
<1>1. ScheduleInit => Book /\ Heeded
  BY BookInit, HeededInit DEF ScheduleInit
<1>2. Book /\ Heeded /\ [ScheduleNext]_allVars => (Book /\ Heeded)'
  <2> SUFFICES ASSUME Book, Heeded, [ScheduleNext]_allVars PROVE (Book /\ Heeded)'
    OBVIOUS
  <2>1. [Next]_vars
    <3> HIDE DEF vars
    <3> QED BY Zenon DEF ScheduleNext, allVars
  <2>2. Shape BY DEF Book
  <2> QED BY <2>1, <2>2, BookStep, HeededStep
<1>3. Book /\ Heeded => RowsHonest
  BY BookGives DEF RowsHonest, Book, Heeded
<1> QED BY <1>1, <1>2, <1>3, PTL DEF ScheduleSpec

(***************************************************************************)
(* The cooldowns, and the breach that stands                               *)
(***************************************************************************)
W == Window["risk_warning"]
Standing == risk = "over" /\ "risk" \notin off
IsWarning(r) == r.kind = "risk_warning" /\ r.asset = ""
Warnings == {n \in DOMAIN notes : IsWarning(notes[n])}
Recent(t) == clock - t < W
Barely(t) == clock - t <= W

\* rows are in the order of their times, none of them later than now
Dated ==
    /\ 0 <= clock /\ since \in Int /\ lastAlert \in Int /\ since <= clock /\ lastAlert <= clock
    /\ \A n \in DOMAIN notes : notes[n].at <= clock
    /\ \A m, n \in DOMAIN notes : m <= n => notes[m].at <= notes[n].at

\* only the monitor and the keeper are about to file a warning about the account
Commissioned ==
    /\ call["digest"].id = 0
    /\ call["guard"].id # 0 => alerts[call["guard"].id].asset \in Assets

\* a breach unheard for long is one that warnings of the keeper hide: each of
\* them came within a window of an earlier one or of the last word, and two of
\* them as close as that have a restart between them
Blocked ==
    /\ call["keeper"].pc # "idle" => lastAlert = clock
    /\ Standing =>
       /\ Barely(since) \/ \E n \in Warnings : Barely(notes[n].at)
       /\ checked /\ call["monitor"].pc = "idle" =>
             Recent(since) \/ \E n \in Warnings : Recent(notes[n].at)
       /\ \A n \in Warnings : notes[n].at > since =>
             notes[n].at - since <=
                 W * (IF lastAlert < notes[n].at THEN counts.trouble
                                                 ELSE counts.trouble + 1)
       /\ call["keeper"].pc # "idle" => clock - since <= W * (counts.trouble + 1)

Hearing == Dated /\ Commissioned /\ Blocked

\* old rows keep what a cooldown reads; a new one is dated now, and a warning is
\* the monitor's last word or the keeper's
RowsGo ==
    /\ \A n \in DOMAIN notes :
          /\ n \in DOMAIN notes' /\ notes'[n].at = notes[n].at
          /\ notes'[n].kind = notes[n].kind /\ notes'[n].asset = notes[n].asset
    /\ \A n \in DOMAIN notes' \ DOMAIN notes :
          /\ n = Len(notes) + 1 /\ notes'[n].at = clock
          /\ IsWarning(notes'[n]) => since' = clock \/ call["keeper"].pc # "idle"

\* a step that takes no time
Passes ==
    /\ RowsGo /\ Commissioned'
    /\ clock' = clock /\ since' \in {since, clock}
    /\ counts'.trouble >= counts.trouble
    /\ \/ lastAlert' \in {lastAlert, clock}
       \/ /\ lastAlert' \in Int /\ lastAlert' <= clock
          /\ counts'.trouble >= counts.trouble + 1
    /\ Standing' => Standing \/ since' = clock
    /\ call'["keeper"].pc # "idle" =>
          \/ call["keeper"].pc # "idle" /\ lastAlert' = lastAlert
          \/ lastAlert' = clock /\ KeeperDue
    /\ Standing' /\ checked' /\ call'["monitor"].pc = "idle" =>
          \/ checked /\ call["monitor"].pc = "idle"
          \/ since' = clock
          \/ ~Due("risk_warning", "")

LEMMA Cooling == W \in Nat /\ W > 0 /\ Hour \in Nat /\ W < Hour
  BY AlertsAssumption DEF W

LEMMA NotYet == \A x, y \in Int : ~(x - y >= W) => x - y < W
  BY Cooling

LEMMA Cooled == "risk_warning" \in DOMAIN Window
  BY AlertsAssumption

\* a window more is a window longer
LEMMA Longer ==
    /\ \A w, t \in Nat : w * t \in Nat /\ w * (t + 1) = w * t + w
    /\ \A w, t \in Nat : w * (2 + t) = w * (t + 1) + w
    /\ \A w, t, u \in Nat : t <= u => w * t <= w * u
<1>1. \A w, t \in Nat : w * t \in Nat /\ w * (t + 1) = w * t + w OBVIOUS
<1>2. \A w, t \in Nat : w * (2 + t) = w * (t + 1) + w OBVIOUS
<1>3. ASSUME NEW w \in Nat, NEW t \in Nat, NEW u \in Nat, t <= u PROVE w * t <= w * u
  <2>1. PICK d \in Nat : u = t + d
    <3>1. u - t \in Nat /\ u = t + (u - t) BY <1>3
    <3> QED BY <3>1
  <2>2. w * d \in Nat BY <1>1
  <2>3. w * (t + d) = w * t + w * d OBVIOUS
  <2>4. w * t \in Nat BY <1>1
  <2> QED BY <2>1, <2>2, <2>3, <2>4
<1> QED BY <1>1, <1>2, <1>3

LEMMA RowTimes ==
    ASSUME Book
    PROVE  /\ Len(notes) \in Nat /\ DOMAIN notes = 1..Len(notes)
           /\ \A n \in DOMAIN notes : notes[n] \in RowRecord /\ notes[n].at \in Int
           /\ clock \in Int /\ counts.trouble \in Nat
<1>1. notes \in Seq(RowRecord) /\ clock \in Int
      /\ counts \in [trouble : Nat, edits : Nat]
  BY DEF Book, Shape
<1>2. \A n \in DOMAIN notes : notes[n] \in RowRecord BY <1>1
<1> QED BY <1>1, <1>2 DEF RowRecord

\* the newest of the rows a cooldown finds
LEMMA LatestFound ==
    ASSUME Book, NEW kind, NEW asset, Found(kind, asset) # {}
    PROVE  LET x == Latest(Found(kind, asset))
           IN  /\ x \in DOMAIN notes /\ notes[x].kind = kind /\ notes[x].asset = asset
               /\ \A m \in Found(kind, asset) : m <= x
<1> DEFINE S == Found(kind, asset)
<1>1. S \subseteq {n \in DOMAIN notes : notes[n].kind = kind /\ notes[n].asset = asset}
  BY DEF Found, NewestRows
<1>2. S \in SUBSET Int /\ IsFiniteSet(S)
  <2>1. S \subseteq 1..Len(notes) /\ Len(notes) \in Nat BY <1>1, RowTimes
  <2>2. IsFiniteSet(1..Len(notes)) BY <2>1, FS_Interval
  <2> QED BY <2>1, <2>2, FS_Subset
<1> HIDE DEF S
<1>3. S # {} BY DEF S
<1>4. \E n \in S : \A m \in S : m <= n
  BY <1>2, <1>3, GreatestIn
<1>5. Latest(S) \in S /\ \A m \in S : m <= Latest(S)
  BY <1>4 DEF Latest
<1> QED BY <1>1, <1>5 DEF S

LEMMA UndueWarning ==
    ASSUME Book, ~Due("risk_warning", "")
    PROVE  \E n \in Warnings : Recent(notes[n].at)
<1> DEFINE S == Found("risk_warning", "")
           at == notes[Latest(S)].at
<1>1. S # {} BY DEF Due
<1>2. clock - at < W
  <2>1. ~(clock - at >= W)
    BY Cooled DEF Due, W
  <2>2. at \in Int /\ clock \in Int BY <1>1, LatestFound, RowTimes
  <2> HIDE DEF at
  <2> QED BY <2>1, <2>2, NotYet, Zenon
<1> QED BY <1>1, <1>2, LatestFound DEF Warnings, IsWarning, Recent

LEMMA DatedOn == Book /\ Book' /\ Dated /\ RowsGo /\ clock' = clock
                 /\ since' \in {since, clock} /\ lastAlert' \in Int /\ lastAlert' <= clock
                 => Dated'
<1> SUFFICES ASSUME Book, Book', Dated, RowsGo, clock' = clock, since' \in {since, clock},
                    lastAlert' \in Int, lastAlert' <= clock
             PROVE  Dated'
  OBVIOUS
<1>1. \A n \in DOMAIN notes' : notes'[n].at <= clock'
  BY RowTimes DEF Dated, RowsGo
<1>2. ASSUME NEW m \in DOMAIN notes', NEW n \in DOMAIN notes', m <= n
      PROVE  notes'[m].at <= notes'[n].at
  <2>1. CASE n \in DOMAIN notes
    <3>1. m \in DOMAIN notes BY <2>1, <1>2, RowTimes DEF RowsGo
    <3> QED BY <2>1, <3>1, <1>2 DEF Dated, RowsGo
  <2>2. CASE n \notin DOMAIN notes
    BY <2>2, <1>1 DEF RowsGo
  <2> QED BY <2>1, <2>2
<1> QED BY <1>1, <1>2, RowTimes DEF Dated

LEMMA PassesKeep == Book /\ Book' /\ Hearing /\ Passes => Hearing'
<1> SUFFICES ASSUME Book, Book', Hearing, Passes PROVE Hearing'
  OBVIOUS
<1> DEFINE t == counts.trouble
           u == counts'.trouble
<1>0. /\ clock \in Int /\ clock' = clock /\ t \in Nat /\ u \in Nat /\ t <= u
      /\ 0 <= clock /\ since \in Int /\ lastAlert \in Int /\ since <= clock /\ lastAlert <= clock
      /\ since' \in {since, clock} /\ lastAlert' \in Int /\ lastAlert' <= clock
      /\ \A n \in DOMAIN notes : notes[n].at \in Int /\ notes[n].at <= clock
      /\ \A n \in DOMAIN notes' : notes'[n].at \in Int /\ notes'[n].at <= clock
      /\ Dated' /\ Commissioned'
  <2>0. /\ clock \in Int /\ clock' = clock /\ t \in Nat /\ u \in Nat
        /\ since' \in {since, clock} /\ Dated /\ RowsGo /\ Commissioned' /\ u >= t
    <3>1. counts' \in [trouble : Nat, edits : Nat] BY DEF Book, Shape
    <3>2. u \in Nat BY <3>1
    <3>3. clock \in Int /\ t \in Nat BY RowTimes
    <3> HIDE DEF t, u
    <3> QED BY <3>2, <3>3 DEF Passes, Hearing, t, u
  <2>1. lastAlert' \in Int /\ lastAlert' <= clock
    <3>1. \/ lastAlert' \in {lastAlert, clock}
          \/ lastAlert' \in Int /\ lastAlert' <= clock
      BY DEF Passes
    <3> QED BY <3>1, <2>0 DEF Dated
  <2>2. Dated' BY <2>0, <2>1, DatedOn
  <2>3. \A n \in DOMAIN notes' : notes'[n].at \in Int
    <3>1. notes' \in Seq(RowRecord) BY DEF Book, Shape
    <3>2. \A n \in DOMAIN notes' : notes'[n] \in RowRecord BY <3>1
    <3> QED BY <3>2 DEF RowRecord
  <2> HIDE DEF t, u
  <2> QED BY <2>0, <2>1, <2>2, <2>3, RowTimes DEF Dated
<1>1. W * t \in Nat /\ W * u \in Nat /\ W * (t + 1) \in Nat /\ W * (u + 1) \in Nat
      /\ W * (t + 1) = W * t + W /\ W * (u + 1) = W * u + W /\ W * t <= W * u
  BY <1>0, Cooling, Longer
<1>2. \A n \in Warnings : n \in Warnings' /\ notes'[n].at = notes[n].at
  BY DEF Warnings, IsWarning, Passes, RowsGo
<1>3. ASSUME Standing'
      PROVE  Barely(since)' \/ \E n \in Warnings' : Barely(notes[n].at)'
  <2>1. CASE since' = clock BY <2>1, <1>0, Cooling DEF Barely
  <2>2. CASE Standing /\ since' = since
    BY <2>2, <1>0, <1>2 DEF Barely, Hearing, Blocked
  <2> QED BY <2>1, <2>2, <1>0, <1>3 DEF Passes
<1>4. ASSUME Standing', checked', call'["monitor"].pc = "idle"
      PROVE  Recent(since)' \/ \E n \in Warnings' : Recent(notes[n].at)'
  <2>1. CASE since' = clock BY <2>1, <1>0, Cooling DEF Recent
  <2>2. CASE ~Due("risk_warning", "")
    BY <2>2, UndueWarning, <1>0, <1>2 DEF Recent
  <2>3. CASE Standing /\ since' = since /\ checked /\ call["monitor"].pc = "idle"
    BY <2>3, <1>0, <1>2 DEF Recent, Hearing, Blocked
  <2> QED BY <2>1, <2>2, <2>3, <1>0, <1>4 DEF Passes
<1>5. ASSUME Standing', NEW n \in Warnings', notes'[n].at > since'
      PROVE  notes'[n].at - since' <= W * (IF lastAlert' < notes'[n].at THEN u ELSE u + 1)
  <2> DEFINE at == notes'[n].at
  <2>0. at \in Int /\ at <= clock /\ since' = since /\ since' # clock /\ Standing
    <3>1. n \in DOMAIN notes' BY DEF Warnings
    <3>2. at \in Int /\ at <= clock BY <3>1, <1>0
    <3>3. since' = since /\ since' # clock
      <4> HIDE DEF at
      <4>1. at > since' BY <1>5 DEF at
      <4> QED BY <4>1, <3>2, <1>0
    <3>4. Standing BY <3>3, <1>5 DEF Passes
    <3> QED BY <3>2, <3>3, <3>4
  <2>1. CASE n \in DOMAIN notes
    <3>1. n \in Warnings /\ notes[n].at = at
      BY <2>1 DEF Warnings, IsWarning, Passes, RowsGo
    <3>2. at - since <= W * (IF lastAlert < at THEN t ELSE t + 1)
      BY <3>1, <2>0, <1>5 DEF Hearing, Blocked
    <3>3. at - since <= W * (t + 1) /\ (lastAlert < at => at - since <= W * t)
      <4> HIDE DEF at, t
      <4>1. CASE lastAlert < at BY <4>1, <3>2, <2>0, <1>0, <1>1, Cooling
      <4>2. CASE ~(lastAlert < at) BY <4>2, <3>2
      <4> QED BY <4>1, <4>2
    <3>4. \/ lastAlert' = lastAlert
          \/ lastAlert' = clock
          \/ u >= t + 1
      BY DEF Passes
    <3>5. u >= t + 1 => W * (t + 1) <= W * u BY <1>0, Cooling, Longer
    <3>6. CASE lastAlert' < at
      <4> HIDE DEF at, t, u
      <4>1. at - since <= W * u
        BY <3>3, <3>4, <3>5, <3>6, <2>0, <1>0, <1>1, Cooling
      <4> QED BY <4>1, <3>6, <2>0 DEF at
    <3>7. CASE ~(lastAlert' < at)
      <4> HIDE DEF at, t, u
      <4>1. at - since <= W * (u + 1)
        BY <3>3, <2>0, <1>0, <1>1, Cooling
      <4> QED BY <4>1, <3>7, <2>0 DEF at
    <3> QED BY <3>6, <3>7 DEF at, u
  <2>2. CASE n \notin DOMAIN notes
    <3>1. at = clock /\ call["keeper"].pc # "idle"
      BY <2>0, <2>2, <1>5 DEF Passes, RowsGo, Warnings
    <3>2. lastAlert = clock /\ clock - since <= W * (t + 1)
      BY <3>1, <2>0 DEF Hearing, Blocked
    <3>3. lastAlert' = clock \/ u >= t + 1
      BY <3>2 DEF Passes
    <3>4. u >= t + 1 => W * (t + 1) <= W * u BY <1>0, Cooling, Longer
    <3>5. CASE lastAlert' < at
      <4> HIDE DEF at, t, u
      <4>1. at - since <= W * u
        BY <3>1, <3>2, <3>3, <3>4, <3>5, <2>0, <1>0, <1>1, Cooling
      <4> QED BY <4>1, <3>5, <2>0 DEF at
    <3>6. CASE ~(lastAlert' < at)
      <4> HIDE DEF at, t, u
      <4>1. at - since <= W * (u + 1)
        BY <3>1, <3>2, <2>0, <1>0, <1>1, Cooling
      <4> QED BY <4>1, <3>6, <2>0 DEF at
    <3> QED BY <3>5, <3>6 DEF at, u
  <2> QED BY <2>1, <2>2
<1>6. ASSUME call'["keeper"].pc # "idle"
      PROVE  /\ lastAlert' = clock'
             /\ Standing' => clock' - since' <= W * (u + 1)
  <2>1. lastAlert' = clock'
    BY <1>6, <1>0 DEF Passes, Hearing, Blocked
  <2>2. ASSUME Standing', since' # clock PROVE clock - since <= W * (u + 1)
    <3>0. Standing BY <2>2 DEF Passes
    <3>1. CASE call["keeper"].pc # "idle"
      <4>1. clock - since <= W * (t + 1) BY <3>0, <3>1 DEF Hearing, Blocked
      <4> HIDE DEF t, u
      <4> QED BY <4>1, <1>0, <1>1, Cooling
    <3>2. CASE KeeperDue
      <4>1. lastAlert <= clock - Hour BY <3>2, <1>0, Cooling DEF KeeperDue
      <4>2. CASE Barely(since)
        <5> HIDE DEF t, u
        <5> QED BY <4>2, <1>0, <1>1, Cooling DEF Barely
      <4>3. ASSUME NEW n \in Warnings, Barely(notes[n].at)
            PROVE  clock - since <= W * (u + 1)
        <5> DEFINE at == notes[n].at
        <5>1. at \in Int /\ at <= clock /\ clock - at <= W
          BY <4>3, <1>0 DEF Warnings, Barely
        <5>2. lastAlert < at
          <6> HIDE DEF at
          <6> QED BY <5>1, <4>1, <1>0, Cooling
        <5>3. at > since => at - since <= W * t
          BY <5>2, <3>0 DEF Hearing, Blocked
        <5> HIDE DEF at, t, u
        <5> QED BY <5>1, <5>3, <1>0, <1>1, Cooling
      <4> QED BY <4>2, <4>3, <3>0 DEF Hearing, Blocked
    <3> QED BY <3>1, <3>2, <1>6 DEF Passes
  <2>3. CASE since' = clock
    <3>1. clock - since' = 0 BY <2>3, <1>0
    <3>2. 0 <= W * (u + 1) BY <1>1
    <3> QED BY <2>1, <3>1, <3>2, <1>0
  <2> QED BY <2>1, <2>2, <2>3, <1>0
<1>7. Blocked'
  BY <1>3, <1>4, <1>5, <1>6 DEF Blocked
<1> QED BY <1>0, <1>7 DEF Hearing

LEMMA TickKeeps == Book /\ Hearing /\ Tick => Hearing'
<1> SUFFICES ASSUME Book, Hearing, Tick PROVE Hearing'
  OBVIOUS
<1>1. /\ UNCHANGED <<notes, alerts, call, lastAlert, risk, off, counts>>
      /\ clock' = clock + 1 /\ ~checked' /\ checked
      /\ since' = IF Standing THEN since ELSE clock + 1
      /\ call["monitor"].pc = "idle" /\ call["keeper"].pc = "idle"
  BY DEF Tick, Standing, Actors
<1>2. /\ clock \in Int /\ since \in Int /\ lastAlert \in Int
      /\ \A n \in DOMAIN notes : notes[n].at \in Int
  BY RowTimes DEF Hearing, Dated
<1>3. Dated'
  BY <1>1, <1>2 DEF Hearing, Dated
<1>4. Commissioned' BY <1>1 DEF Hearing, Commissioned
<1>5. Standing' => Standing /\ since' = since /\ Warnings' = Warnings
  BY <1>1 DEF Standing, Warnings
<1>6. Standing' => Barely(since)' \/ \E n \in Warnings' : Barely(notes[n].at)'
  <2>1. Standing => Recent(since) \/ \E n \in Warnings : Recent(notes[n].at)
    BY <1>1 DEF Hearing, Blocked
  <2>2. \A x \in Int : clock - x < W => clock + 1 - x <= W
    BY <1>2, Cooling
  <2> QED BY <2>1, <2>2, <1>1, <1>2, <1>5 DEF Recent, Barely, Warnings
<1>7. Blocked'
  BY <1>1, <1>5, <1>6 DEF Hearing, Blocked
<1> QED BY <1>3, <1>4, <1>7 DEF Hearing

LEMMA HearingGives == Book /\ Hearing => BreachHeard
<1> SUFFICES ASSUME Book, Hearing, Standing, checked, call["monitor"].pc = "idle"
             PROVE  clock - since < W * (2 + counts.trouble)
  BY DEF BreachHeard, Standing, W
<1> DEFINE t == counts.trouble
<1>0. clock \in Int /\ since \in Int /\ t \in Nat
      /\ \A n \in DOMAIN notes : notes[n].at \in Int
  BY RowTimes DEF Hearing, Dated
<1>1. W * (2 + t) = W * (t + 1) + W /\ W * (t + 1) \in Nat /\ W * t \in Nat
      /\ W * (t + 1) = W * t + W
  BY <1>0, Cooling, Longer
<1>2. CASE Recent(since)
  <2> HIDE DEF t
  <2>1. clock - since < W * (2 + t) BY <1>2, <1>0, <1>1, Cooling DEF Recent
  <2> QED BY <2>1 DEF t
<1>3. ASSUME NEW n \in Warnings, Recent(notes[n].at)
      PROVE  clock - since < W * (2 + t)
  <2> DEFINE at == notes[n].at
  <2>1. at \in Int /\ clock - at < W BY <1>3, <1>0 DEF Warnings, Recent
  <2>2. at > since => at - since <= W * (IF lastAlert < at THEN t ELSE t + 1)
    BY DEF Hearing, Blocked
  <2> HIDE DEF at, t
  <2>3. at > since => at - since <= W * (t + 1)
    BY <2>2, <2>1, <1>0, <1>1, Cooling
  <2> QED BY <2>1, <2>3, <1>0, <1>1, Cooling
<1> QED BY <1>2, <1>3 DEF Hearing, Blocked

\* an alert keeps what it is about
AlertsGo ==
    \A i \in DOMAIN alerts : i \in DOMAIN alerts' /\ alerts'[i].asset = alerts[i].asset

\* those that still wait for a push wait for the same one
Waits(b) == call'[b].id = call[b].id \/ call'[b].id = 0

LEMMA StillCommissioned ==
    ASSUME Book, Commissioned, AlertsGo, Waits("guard"), Waits("digest")
    PROVE  Commissioned'
<1>1. call["guard"].id # 0 => call["guard"].id \in DOMAIN alerts
  <2>1. "guard" \in Actors BY DEF Actors
  <2>2. call["guard"].id <= Len(alerts) /\ call["guard"].id \in Nat
    BY <2>1 DEF Book, Shape, Errand, IsCall
  <2>3. DOMAIN alerts = 1..Len(alerts) /\ Len(alerts) \in Nat BY DEF Book, Shape
  <2> QED BY <2>2, <2>3
<1> QED BY <1>1 DEF Commissioned, AlertsGo, Waits

LEMMA RowsStand == notes' = notes => RowsGo
  BY DEF RowsGo

LEMMA NotedWhen ==
    ASSUME Book, Commissioned, NEW a \in {"monitor", "keeper", "guard", "digest"},
           NEW kind, NEW asset, Notify(a, kind, asset),
           a = "digest" => kind \notin Critical, a = "guard" => asset \in Assets
    PROVE  /\ RowsGo /\ Commissioned' /\ counts'.trouble >= counts.trouble
           /\ \A b \in Actors \ {a} : call'[b] = call[b]
           /\ call[a].pc = "idle"
           /\ kind \in Critical => call'[a].pc = "line"
           /\ kind \notin Critical => call' = call
<1> DEFINE k == Len(alerts) + 1
           new == [kind |-> kind, asset |-> asset, by |-> a, line |-> FALSE,
                   web |-> FALSE, rung |-> 0, torn |-> FALSE]
           row == Row(k, kind, asset, "line", "pending")
           begun == [Idle EXCEPT !.pc = "line", !.id = k]
<1>1. PICK q \in Misses :
          /\ Raise(a, kind, asset)
          /\ IF kind \in Critical
             THEN /\ call' = [call EXCEPT ![a] = begun]
                  /\ Fail(q[1] + q[2])
                  /\ UNCHANGED notes
             ELSE /\ Queue(row, q[1] + q[2])
                  /\ UNCHANGED call
  BY DEF Notify
<1>2. alerts' = Append(alerts, new) /\ new.asset = asset
  BY <1>1 DEF Raise
<1>3. alerts \in Seq(AlertRecord) /\ notes \in Seq(RowRecord)
      /\ call = [b \in Actors |-> call[b]] /\ counts \in [trouble : Nat, edits : Nat]
      /\ a \in Actors
  BY DEF Book, Shape, Actors
<1>4. begun.pc = "line" /\ begun.id = k BY DEF Idle
<1>5. counts'.trouble >= counts.trouble
  <2>1. q \in (0..1) \X (0..1) BY DEF Misses
  <2>2. q[1] + q[2] \in Nat /\ q[1] + q[2] + 1 \in Nat BY <2>1
  <2>3. \E n \in Nat : Fail(n) BY <1>1, <2>2 DEF Queue
  <2> QED BY <2>3, <1>3 DEF Fail
<1>6. RowsGo
  <2>1. CASE notes' = notes BY <2>1, RowsStand
  <2>2. CASE notes' = Append(notes, row) /\ kind \notin Critical
    <3>1. row.at = clock /\ row.kind = kind BY DEF Row
    <3>2. ~IsWarning(row) BY <2>2, <3>1 DEF IsWarning, Critical
    <3>3. /\ DOMAIN notes' = DOMAIN notes \cup {Len(notes) + 1}
          /\ \A n \in DOMAIN notes : notes'[n] = notes[n]
          /\ notes'[Len(notes) + 1] = row
      <4> HIDE DEF row
      <4> QED BY <2>2, <1>3
    <3> HIDE DEF row
    <3> QED BY <3>1, <3>2, <3>3 DEF RowsGo
  <2> QED BY <1>1, <2>1, <2>2 DEF Queue
<1>7. AlertsGo /\ alerts'[k].asset = asset
  <2> HIDE DEF new
  <2> QED BY <1>2, <1>3 DEF AlertsGo
<1>8. /\ \A b \in Actors \ {a} : call'[b] = call[b]
      /\ kind \in Critical => call'[a].pc = "line" /\ call'[a].id = k
      /\ kind \notin Critical => call' = call
  <2> HIDE DEF begun
  <2> QED BY <1>1, <1>3, <1>4
<1>9. Commissioned'
  <2>1. CASE a # "guard" \/ kind \notin Critical
    <3>1. Waits("guard") /\ Waits("digest") BY <2>1, <1>8 DEF Waits, Actors
    <3> QED BY <3>1, <1>7, StillCommissioned
  <2>2. CASE a = "guard" /\ kind \in Critical
    <3>1. call'["digest"] = call["digest"] BY <2>2, <1>8 DEF Actors
    <3> QED BY <3>1, <2>2, <1>7, <1>8 DEF Commissioned
  <2> QED BY <2>1, <2>2
<1>10. call[a].pc = "idle" BY DEF Notify
<1> QED BY <1>5, <1>6, <1>8, <1>9, <1>10

\* at the end of an attempt
LEMMA SettlesWhen ==
    ASSUME Book, Commissioned, NEW a \in Actors, NEW line, NEW web, NEW n \in 0..1,
           Settle(a, line, web, n), call[a].pc \in {"line", "web"}
    PROVE  /\ RowsGo /\ counts'.trouble >= counts.trouble
           /\ \A b \in Actors \ {a} : call'[b] = call[b]
           /\ call'[a].id = 0 /\ (a # "courier" => call'[a].pc = "idle")
           /\ since' \in {since, clock} /\ (a = "monitor" => since' = clock)
<1>1. alerts \in Seq(AlertRecord) /\ notes \in Seq(RowRecord)
      /\ call = [b \in Actors |-> call[b]] /\ counts \in [trouble : Nat, edits : Nat]
      /\ n \in Nat /\ n + 1 \in Nat
  BY DEF Book, Shape
<1>2. CASE a = "courier"
  <2> DEFINE r == call[a].row
             row == Delivered(notes[r], line, web)
  <2>1. /\ call' = [call EXCEPT ![a] = Onward(call[a], r)]
        /\ (Fail(n) /\ notes' = [notes EXCEPT ![r] = row]) \/ (Fail(n + 1) /\ UNCHANGED notes)
        /\ UNCHANGED since
    BY <1>2 DEF Settle
  <2>2. Onward(call[a], r).id = 0 BY DEF Onward, Idle
  <2>3. counts'.trouble >= counts.trouble BY <2>1, <1>1 DEF Fail
  <2>4. RowsGo
    <3>1. CASE notes' = notes BY <3>1, RowsStand
    <3>2. CASE notes' = [notes EXCEPT ![r] = row]
      <4>1. r \in DOMAIN notes => /\ row.at = notes[r].at /\ row.kind = notes[r].kind
                                  /\ row.asset = notes[r].asset
        <5>1. r \in DOMAIN notes => notes[r] \in RowRecord BY <1>1
        <5> QED BY <5>1 DEF Delivered, RowRecord
      <4> HIDE DEF row
      <4> QED BY <3>2, <4>1, <1>1 DEF RowsGo
    <3> QED BY <2>1, <3>1, <3>2
  <2>5. (\A b \in Actors \ {a} : call'[b] = call[b]) /\ call'[a].id = 0
    BY <2>1, <2>2, <1>1
  <2> QED BY <2>1, <2>3, <2>4, <2>5, <1>2
<1>3. CASE a = "tester"
  <2>1. call' = [call EXCEPT ![a] = Idle] /\ Fail(n) /\ UNCHANGED <<notes, since>>
    BY <1>3 DEF Settle
  <2>2. Idle.id = 0 /\ Idle.pc = "idle" BY DEF Idle
  <2>3. counts'.trouble >= counts.trouble BY <2>1, <1>1 DEF Fail
  <2> QED BY <2>1, <2>2, <2>3, <1>1, <1>3, RowsStand
<1>4. CASE a \notin {"courier", "tester"}
  <2> DEFINE k == call[a].id
             row == Queued(k, line, web)
  <2>1. /\ call' = [call EXCEPT ![a] = Idle] /\ Queue(row, n)
        /\ since' = IF a = "monitor" THEN clock ELSE since
    BY <1>4 DEF Settle
  <2>2. Idle.id = 0 /\ Idle.pc = "idle" BY DEF Idle
  <2>3. counts'.trouble >= counts.trouble BY <2>1, <1>1 DEF Fail, Queue
  <2>4. IsWarning(row) => since' = clock \/ call["keeper"].pc # "idle"
    <3>1. row.kind = alerts[k].kind /\ row.asset = alerts[k].asset
      BY DEF Queued, Row
    <3>2. k # 0 BY <1>4 DEF Book, Errand
    <3>3. a \in {"monitor", "keeper", "guard"}
      BY <3>2, <1>4 DEF Commissioned, Actors
    <3>4. a = "guard" => row.asset # ""
      <4>1. "" \notin Assets BY AlertsAssumption
      <4> HIDE DEF row
      <4> QED BY <3>1, <3>2, <4>1 DEF Commissioned
    <3> QED BY <3>3, <3>4, <2>1 DEF IsWarning
  <2>5. row.at = clock BY DEF Queued, Row
  <2>6. RowsGo
    <3>1. CASE notes' = notes BY <3>1, RowsStand
    <3>2. CASE notes' = Append(notes, row)
      <4> HIDE DEF row
      <4>1. /\ DOMAIN notes' = DOMAIN notes \cup {Len(notes) + 1}
            /\ \A m \in DOMAIN notes : notes'[m] = notes[m]
            /\ notes'[Len(notes) + 1] = row
        BY <3>2, <1>1
      <4> QED BY <4>1, <2>4, <2>5 DEF RowsGo
    <3> QED BY <2>1, <3>1, <3>2 DEF Queue
  <2>7. (\A b \in Actors \ {a} : call'[b] = call[b])
        /\ call'[a].id = 0 /\ call'[a].pc = "idle"
    BY <2>1, <2>2, <1>1
  <2> QED BY <2>1, <2>3, <2>6, <2>7, <1>4
<1> QED BY <1>2, <1>3, <1>4

LEMMA AnswersPass ==
    ASSUME Book, Hearing, NEW a \in Actors, LineAnswers(a) \/ WebAnswers(a)
    PROVE  Passes
<1>1. /\ UNCHANGED <<clock, lastAlert, risk, off, checked>>
      /\ call[a].pc \in {"line", "web"}
  BY DEF LineAnswers, WebAnswers
<1>2. alerts \in Seq(AlertRecord) /\ call = [b \in Actors |-> call[b]]
      /\ counts \in [trouble : Nat, edits : Nat]
  BY DEF Book, Shape
<1>3. Commissioned BY DEF Hearing
<1>4. AlertsGo
  <2>1. CASE LineAnswers(a)
    <3>1. PICK ok, x :
              alerts' = [alerts EXCEPT ![call[a].id].line = @ \/ ok,
                                       ![call[a].id].rung = x]
      BY <2>1 DEF LineAnswers
    <3> QED BY <3>1, <1>2 DEF AlertsGo, AlertRecord
  <2>2. CASE WebAnswers(a)
    <3>1. PICK answer, last, line, web :
              alerts' = IF call[a].id = 0 THEN alerts
                        ELSE [alerts EXCEPT
                                ![call[a].id].web = @ \/ answer = "ok",
                                ![call[a].id].rung = IF last /\ (line \/ web)
                                                     THEN @ + 1 ELSE @]
      BY <2>2, Zenon DEF WebAnswers
    <3>2. CASE alerts' = alerts BY <3>2 DEF AlertsGo
    <3>3. CASE call[a].id # 0
      <4>1. alerts' = [alerts EXCEPT
                          ![call[a].id].web = @ \/ answer = "ok",
                          ![call[a].id].rung = IF last /\ (line \/ web)
                                               THEN @ + 1 ELSE @]
        BY <3>1, <3>3
      <4> QED BY <4>1, <1>2 DEF AlertsGo, AlertRecord
    <3> QED BY <3>1, <3>2, <3>3
  <2> QED BY <2>1, <2>2
<1>5. CASE \E line, web : \E n \in 0..1 : Settle(a, line, web, n)
  <2>1. PICK line, web : \E n \in 0..1 : Settle(a, line, web, n) BY <1>5
  <2>2. PICK n \in 0..1 : Settle(a, line, web, n) BY <2>1
  <2>3. /\ RowsGo /\ counts'.trouble >= counts.trouble
        /\ \A b \in Actors \ {a} : call'[b] = call[b]
        /\ call'[a].id = 0 /\ (a # "courier" => call'[a].pc = "idle")
        /\ since' \in {since, clock} /\ (a = "monitor" => since' = clock)
    BY <2>2, <1>1, <1>3, SettlesWhen
  <2>4. Waits("guard") /\ Waits("digest") BY <2>3 DEF Waits, Actors
  <2>5. Commissioned' BY <2>4, <1>3, <1>4, StillCommissioned
  <2>6. call'["keeper"].pc # "idle" => call["keeper"].pc # "idle"
    BY <2>3 DEF Actors
  <2>7. call'["monitor"].pc = "idle" => call["monitor"].pc = "idle" \/ since' = clock
    BY <2>3 DEF Actors
  <2> QED BY <2>3, <2>5, <2>6, <2>7, <1>1 DEF Passes, Standing
<1>6. CASE /\ \A b \in Actors : call'[b].id = call[b].id
                                /\ (call'[b].pc = "idle" <=> call[b].pc = "idle")
           /\ UNCHANGED <<notes, since>> /\ counts'.trouble >= counts.trouble
  <2>1. Waits("guard") /\ Waits("digest") BY <1>6 DEF Waits, Actors
  <2>2. Commissioned' BY <2>1, <1>3, <1>4, StillCommissioned
  <2>3. "keeper" \in Actors /\ "monitor" \in Actors BY DEF Actors
  <2>4. RowsGo BY <1>6, RowsStand
  <2> QED BY <2>2, <2>3, <2>4, <1>1, <1>6 DEF Passes, Standing
<1>7. CASE LineAnswers(a)
  <2>1. PICK ok \in BOOLEAN, s \in 0..1 :
            LET todo == IF s = 1 THEN NoFails ELSE Audience
            IN  IF DOMAIN todo = {}
                THEN Settle(a, ok, FALSE, s)
                ELSE /\ call' = [call EXCEPT ![a].pc = "web", ![a].line = ok,
                                             ![a].todo = todo]
                     /\ Fail(s)
                     /\ UNCHANGED <<notes, since>>
    BY <1>7 DEF LineAnswers
  <2> DEFINE todo == IF s = 1 THEN NoFails ELSE Audience
  <2>2. \/ Settle(a, ok, FALSE, s)
        \/ /\ call' = [call EXCEPT ![a].pc = "web", ![a].line = ok, ![a].todo = todo]
           /\ Fail(s) /\ UNCHANGED <<notes, since>>
    BY <2>1
  <2> HIDE DEF todo
  <2>3. CASE /\ call' = [call EXCEPT ![a].pc = "web", ![a].line = ok, ![a].todo = todo]
             /\ Fail(s) /\ UNCHANGED <<notes, since>>
    <3>1. \A b \in Actors : call'[b].id = call[b].id
                            /\ (call'[b].pc = "idle" <=> call[b].pc = "idle")
      <4>1. IsCall(call[a]) BY DEF Book, Shape
      <4>2. call'[a] = [call[a] EXCEPT !.pc = "web", !.line = ok, !.todo = todo]
        BY <2>3, <1>2
      <4>3. call'[a].id = call[a].id /\ call'[a].pc = "web"
        BY <4>1, <4>2 DEF IsCall
      <4>4. \A b \in Actors \ {a} : call'[b] = call[b] BY <2>3, <1>2
      <4> QED BY <4>3, <4>4, <1>1
    <3>2. counts'.trouble >= counts.trouble BY <2>3, <1>2 DEF Fail
    <3> QED BY <3>1, <3>2, <2>3, <1>6
  <2> QED BY <2>2, <2>3, <1>5
<1>8. CASE WebAnswers(a)
  <2>1. \/ \E line, web : \E n \in 0..1 : Settle(a, line, web, n)
        \/ \E x, y : /\ call' = [call EXCEPT ![a].web = x, ![a].todo = y]
                     /\ UNCHANGED <<notes, since, counts>>
    <3>1. PICK d \in DOMAIN call[a].todo, answer \in {"ok", "error", "gone"} :
              LET c == call[a]
                  web == c.web \/ answer = "ok"
                  last == DOMAIN c.todo = {d}
              IN  IF last
                  THEN Settle(a, c.line, web, 0)
                  ELSE /\ call' = [call EXCEPT ![a].web = web,
                                     ![a].todo = Restrict(@, DOMAIN @ \ {d})]
                       /\ UNCHANGED <<notes, since, counts>>
      BY <1>8 DEF WebAnswers
    <3> DEFINE web == call[a].web \/ answer = "ok"
               rest == Restrict(call[a].todo, DOMAIN call[a].todo \ {d})
    <3>2. \/ Settle(a, call[a].line, web, 0)
          \/ /\ call' = [call EXCEPT ![a].web = web, ![a].todo = rest]
             /\ UNCHANGED <<notes, since, counts>>
      BY <3>1, <1>2
    <3>3. 0 \in 0..1 OBVIOUS
    <3> HIDE DEF web, rest
    <3> QED BY <3>2, <3>3
  <2>2. ASSUME NEW x, NEW y, call' = [call EXCEPT ![a].web = x, ![a].todo = y],
               UNCHANGED <<notes, since, counts>>
        PROVE  Passes
    <3>1. \A b \in Actors : call'[b].id = call[b].id
                            /\ (call'[b].pc = "idle" <=> call[b].pc = "idle")
      <4>1. IsCall(call[a]) BY DEF Book, Shape
      <4>2. call'[a] = [call[a] EXCEPT !.web = x, !.todo = y]
        BY <2>2, <1>2
      <4>3. call'[a].id = call[a].id /\ call'[a].pc = call[a].pc
        BY <4>1, <4>2 DEF IsCall
      <4>4. \A b \in Actors \ {a} : call'[b] = call[b] BY <2>2, <1>2
      <4> QED BY <4>3, <4>4
    <3>2. counts'.trouble >= counts.trouble BY <2>2, <1>2
    <3> QED BY <3>1, <3>2, <2>2, <1>6
  <2> QED BY <2>1, <2>2, <1>5
<1> QED BY <1>7, <1>8

\* a step that files nothing
LEMMA BesidePasses ==
    ASSUME Book, Hearing, UNCHANGED <<notes, clock, lastAlert>>, Commissioned',
           since' \in {since, clock}, counts'.trouble >= counts.trouble,
           \A a \in {"keeper", "monitor"} :
               call'[a].pc = "idle" <=> call[a].pc = "idle",
           Standing' => Standing \/ since' = clock,
           checked' => checked \/ since' = clock
    PROVE  Passes
BY RowsStand DEF Passes

LEMMA NextPasses ==
    ASSUME Book, Hearing, Step, ~Tick
    PROVE  Passes
<1>0. /\ counts \in [trouble : Nat, edits : Nat] /\ clock \in Int /\ Commissioned
      /\ call = [a \in Actors |-> call[a]] /\ alerts \in Seq(AlertRecord)
      /\ {"monitor", "keeper", "guard", "digest", "courier", "tester"} = Actors
      /\ since \in Int /\ lastAlert \in Int /\ lastAlert <= clock
  BY DEF Book, Shape, Hearing, Actors, Dated
<1>1. ASSUME UNCHANGED <<call, alerts>> PROVE Commissioned'
  BY <1>1, <1>0 DEF Commissioned
<1>2. CASE MonitorRuns
  <2>1. /\ UNCHANGED <<off, clock, lastAlert, risk, since>>
        /\ call["monitor"].pc = "idle" /\ checked'
    BY <1>2 DEF MonitorRuns
  <2>2. Standing' <=> Standing BY <2>1 DEF Standing
  <2>3. CASE Notify("monitor", MonitorKind, "")
    <3>1. /\ RowsGo /\ Commissioned' /\ counts'.trouble >= counts.trouble
          /\ \A b \in Actors \ {"monitor"} : call'[b] = call[b]
          /\ MonitorKind \in Critical => call'["monitor"].pc = "line"
      BY <2>3, <1>0, NotedWhen, Zenon
    <3>2. call'["keeper"] = call["keeper"] BY <3>1, <1>0
    <3>3. Standing => MonitorKind \in Critical
      BY DEF Standing, MonitorKind, Critical
    <3> QED BY <3>1, <3>2, <3>3, <2>1, <2>2 DEF Passes
  <2>4. CASE /\ risk = "none" \/ Unheard(MonitorKind)
             /\ UNCHANGED <<notes, call, alerts, counts>>
    <3>1. Standing => ~Due("risk_warning", "")
      <4>1. SUFFICES ASSUME Standing PROVE ~Due("risk_warning", "")
        OBVIOUS
      <4>2. MonitorKind = "risk_warning" /\ risk # "none"
        BY <4>1 DEF Standing, MonitorKind
      <4>3. Wanted("risk_warning", 0)
        BY <4>1 DEF Standing, Wanted, Category
      <4> QED BY <4>2, <4>3, <2>4 DEF Unheard
    <3>2. RowsGo /\ Commissioned' BY <2>4, <1>1, RowsStand
    <3>3. counts'.trouble >= counts.trouble BY <2>4, <1>0
    <3> QED BY <3>1, <3>2, <3>3, <2>1, <2>2, <2>4 DEF Passes
  <2> QED BY <1>2, <2>3, <2>4 DEF MonitorRuns
<1>3. CASE KeeperRuns
  <2>1. /\ UNCHANGED <<off, clock, risk, since, checked>> /\ lastAlert' = clock
        /\ KeeperDue
    BY <1>3 DEF KeeperRuns
  <2>2. Standing' <=> Standing BY <2>1 DEF Standing
  <2>3. CASE Notify("keeper", "risk_warning", "")
    <3>1. /\ RowsGo /\ Commissioned' /\ counts'.trouble >= counts.trouble
          /\ \A b \in Actors \ {"keeper"} : call'[b] = call[b]
      BY <2>3, <1>0, NotedWhen, Zenon
    <3>2. call'["monitor"] = call["monitor"] BY <3>1, <1>0
    <3> QED BY <3>1, <3>2, <2>1, <2>2 DEF Passes
  <2>4. CASE UNCHANGED <<notes, call, alerts, counts>>
    <3>2. RowsGo /\ Commissioned' BY <2>4, <1>1, RowsStand
    <3>3. counts'.trouble >= counts.trouble BY <2>4, <1>0
    <3> QED BY <3>2, <3>3, <2>1, <2>2, <2>4 DEF Passes
  <2> QED BY <1>3, <2>3, <2>4, Zenon DEF KeeperRuns
<1>4. CASE GuardRuns
  <2>1. PICK kind \in GuardSays, asset \in Assets : Notify("guard", kind, asset)
    BY <1>4, Zenon DEF GuardRuns
  <2>2. UNCHANGED <<off, clock, lastAlert, risk, since, checked>>
    BY <1>4, Zenon DEF GuardRuns
  <2>3. /\ RowsGo /\ Commissioned' /\ counts'.trouble >= counts.trouble
        /\ \A b \in Actors \ {"guard"} : call'[b] = call[b]
    <3>1. "guard" \in {"monitor", "keeper", "guard", "digest"} /\ "guard" # "digest"
      OBVIOUS
    <3> QED BY <2>1, <1>0, <3>1, NotedWhen, Zenon
  <2>4. call'["monitor"] = call["monitor"] /\ call'["keeper"] = call["keeper"]
    BY <2>3, <1>0
  <2> QED BY <2>2, <2>3, <2>4 DEF Passes, Standing
<1>5. CASE DigestRuns
  <2>1. /\ Notify("digest", "daily_digest", "")
        /\ UNCHANGED <<off, clock, lastAlert, risk, since, checked>>
    BY <1>5, Zenon DEF DigestRuns
  <2>2. "daily_digest" \notin Critical BY DEF Critical
  <2>3. /\ RowsGo /\ Commissioned' /\ counts'.trouble >= counts.trouble
        /\ call' = call
    <3>1. "digest" \in {"monitor", "keeper", "guard", "digest"} /\ "guard" # "digest"
      OBVIOUS
    <3> QED BY <2>1, <2>2, <1>0, <3>1, NotedWhen, Zenon
  <2> QED BY <2>1, <2>3 DEF Passes, Standing
<1>6. CASE GuardTimesOut
  <2>1. /\ Fail(1) /\ call' = [call EXCEPT !["guard"] = Idle]
        /\ alerts' = [alerts EXCEPT ![call["guard"].id].torn = TRUE]
        /\ UNCHANGED <<notes, off, clock, lastAlert, risk, since, checked>>
    BY <1>6 DEF GuardTimesOut
  <2>2. counts'.trouble >= counts.trouble BY <2>1, <1>0 DEF Fail
  <2>3. Idle.id = 0 BY DEF Idle
  <2>4. /\ call'["guard"].id = 0 /\ call'["digest"] = call["digest"]
        /\ call'["keeper"] = call["keeper"] /\ call'["monitor"] = call["monitor"]
    BY <2>1, <2>3, <1>0
  <2>5. Commissioned' BY <2>4, <1>0 DEF Commissioned
  <2> QED BY <2>1, <2>2, <2>4, <2>5, BesidePasses DEF Standing
<1>7. CASE CourierStarts \/ CourierTakes
  <2>1. /\ UNCHANGED <<off, clock, lastAlert, risk, since, checked, alerts>>
        /\ \A b \in Actors \ {"courier"} : call'[b] = call[b]
    <3>1. CASE CourierStarts BY <3>1, <1>0 DEF CourierStarts
    <3>2. CASE CourierTakes BY <3>2, <1>0 DEF CourierTakes
    <3> QED BY <3>1, <3>2, <1>7
  <2>2. /\ call'["guard"] = call["guard"] /\ call'["digest"] = call["digest"]
        /\ call'["keeper"] = call["keeper"] /\ call'["monitor"] = call["monitor"]
    BY <2>1, <1>0
  <2>3. Commissioned' BY <2>1, <2>2, <1>0 DEF Commissioned
  <2>4. counts'.trouble >= counts.trouble
    <3>1. CASE CourierStarts
      <4>1. PICK s \in 0..1 : Fail(s) BY <3>1 DEF CourierStarts
      <4> QED BY <4>1, <1>0 DEF Fail
    <3>2. CASE CourierTakes BY <3>2, <1>0 DEF CourierTakes
    <3> QED BY <3>1, <3>2, <1>7
  <2>5. RowsGo
    <3>1. CASE CourierStarts BY <3>1, RowsStand DEF CourierStarts
    <3>2. CASE CourierTakes
      <4>1. PICK n \in call["courier"].batch :
                notes' = notes \/ notes' = [notes EXCEPT ![n].status = "skipped"]
        BY <3>2 DEF CourierTakes
      <4>2. notes \in Seq(RowRecord) BY DEF Book, Shape
      <4>3. n \in DOMAIN notes /\ notes[n] \in RowRecord
        <5>1. n \in DOMAIN notes BY DEF Book, Owned
        <5> QED BY <5>1, <4>2
      <4>4. CASE notes' = [notes EXCEPT ![n].status = "skipped"]
        <5> DEFINE row == [notes[n] EXCEPT !.status = "skipped"]
        <5>1. row.at = notes[n].at /\ row.kind = notes[n].kind
              /\ row.asset = notes[n].asset
          BY <4>3 DEF RowRecord
        <5>2. notes' = [notes EXCEPT ![n] = row] BY <4>4, <4>3
        <5> HIDE DEF row
        <5> QED BY <5>1, <5>2, <4>2, <4>3 DEF RowsGo
      <4> QED BY <4>1, <4>4, RowsStand
    <3> QED BY <3>1, <3>2, <1>7
  <2> QED BY <2>1, <2>2, <2>3, <2>4, <2>5 DEF Passes, Standing
<1>8. ASSUME NEW a \in Actors, LineAnswers(a) \/ WebAnswers(a) PROVE Passes
  BY <1>8, AnswersPass
<1>9. CASE \E d \in Devices : Subscribe(d) \/ Unsubscribe(d) \/ DeviceDies(d)
  <2>1. /\ UNCHANGED <<notes, alerts, call, off, clock, lastAlert, risk, since, checked>>
        /\ counts'.trouble = counts.trouble
    BY <1>9, <1>0 DEF Subscribe, Unsubscribe, DeviceDies, Edit
  <2> QED BY <2>1, <1>0, <1>1, BesidePasses DEF Standing
<1>10. CASE TestPush
  <2>1. /\ UNCHANGED <<notes, alerts, off, clock, lastAlert, risk, since, checked>>
        /\ counts'.trouble = counts.trouble
        /\ \A b \in Actors \ {"tester"} : call'[b] = call[b]
    BY <1>10, <1>0 DEF TestPush, Edit
  <2>2. /\ call'["guard"] = call["guard"] /\ call'["digest"] = call["digest"]
        /\ call'["keeper"] = call["keeper"] /\ call'["monitor"] = call["monitor"]
    BY <2>1, <1>0
  <2>3. Commissioned' BY <2>1, <2>2, <1>0 DEF Commissioned
  <2> QED BY <2>1, <2>2, <2>3, <1>0, BesidePasses DEF Standing
<1>11. CASE Toggle("risk") \/ RiskMoves
  <2>1. /\ UNCHANGED <<notes, alerts, call, clock, lastAlert>>
        /\ since' = clock /\ counts'.trouble = counts.trouble
    BY <1>11, <1>0 DEF Toggle, RiskMoves, Edit
  <2> QED BY <2>1, <1>0, <1>1, BesidePasses
<1>12. CASE Restart
  <2>1. /\ UNCHANGED <<notes, off, clock, risk, since>>
        /\ call' = [a \in Actors |-> Idle] /\ lastAlert' = -Hour /\ ~checked'
        /\ Fail(1)
    BY <1>12 DEF Restart
  <2>2. Idle.id = 0 /\ Idle.pc = "idle" BY DEF Idle
  <2>3. /\ Commissioned' /\ call'["keeper"].pc = "idle"
    BY <2>1, <2>2, <1>0 DEF Commissioned
  <2>4. counts'.trouble >= counts.trouble + 1 /\ counts'.trouble >= counts.trouble
    BY <2>1, <1>0 DEF Fail
  <2>5. lastAlert' \in Int /\ lastAlert' <= clock
    <3>1. 0 <= clock BY DEF Hearing, Dated
    <3> QED BY <3>1, <2>1, <1>0, Cooling
  <2>6. RowsGo /\ (Standing' <=> Standing) /\ since' \in {since, clock}
    BY <2>1, RowsStand DEF Standing
  <2> QED BY <2>1, <2>3, <2>4, <2>5, <2>6, Zenon DEF Passes
<1> QED
  BY <1>2, <1>3, <1>4, <1>5, <1>6, <1>7, <1>8, <1>9, <1>10, <1>11, <1>12 DEF Step

LEMMA HearingInit == Init => Hearing
<1> SUFFICES ASSUME Init PROVE Hearing
  OBVIOUS
<1>1. /\ notes = <<>> /\ clock = 0 /\ since = 0 /\ lastAlert = -Hour /\ ~checked
      /\ call = [a \in Actors |-> Idle]
  BY DEF Init
<1>2. Idle.id = 0 /\ Idle.pc = "idle" BY DEF Idle
<1>3. {"digest", "guard", "keeper"} \subseteq Actors BY DEF Actors
<1>4. Dated BY <1>1, Cooling DEF Dated
<1>5. Commissioned BY <1>1, <1>2, <1>3 DEF Commissioned
<1>6. Barely(since) BY <1>1, Cooling DEF Barely
<1>7. Warnings = {} BY <1>1 DEF Warnings
<1>8. Blocked BY <1>1, <1>2, <1>3, <1>6, <1>7 DEF Blocked
<1> QED BY <1>4, <1>5, <1>8 DEF Hearing

LEMMA HearingStep == Book /\ Book' /\ Hearing /\ [Next]_vars => Hearing'
<1> SUFFICES ASSUME Book, Book', Hearing, [Next]_vars PROVE Hearing'
  OBVIOUS
<1>1. CASE UNCHANGED vars
  BY <1>1 DEF vars, Hearing, Dated, Commissioned, Blocked, Standing, Warnings,
              Barely, Recent, IsWarning
<1>2. CASE Step /\ ~Tick
  BY <1>2, NextPasses, PassesKeep
<1>3. CASE Tick BY <1>3, TickKeeps
<1> QED BY <1>1, <1>2, <1>3 DEF Next

\* what is invariant on every bench
LEMMA AlwaysHearing == ScheduleSpec => [](Book /\ Hearing)
<1>1. ScheduleInit => Book /\ Hearing
  BY BookInit, HearingInit DEF ScheduleInit
<1>2. Book /\ Hearing /\ [ScheduleNext]_allVars => (Book /\ Hearing)'
  <2> SUFFICES ASSUME Book, Hearing, [ScheduleNext]_allVars PROVE (Book /\ Hearing)'
    OBVIOUS
  <2>1. [Next]_vars
    <3> HIDE DEF vars
    <3> QED BY Zenon DEF ScheduleNext, allVars
  <2> QED BY <2>1, BookStep, HearingStep
<1> QED BY <1>1, <1>2, PTL DEF ScheduleSpec

\* A breach that stands is announced before two windows are over, though the
\* keeper's warnings about the feed start the monitor's cooldown anew: one
\* window more for every restart or failed call, however many rows, breaches
\* and owner's toggles there were.
THEOREM BreachAlwaysHeard == ScheduleSpec => []BreachHeard
BY AlwaysHearing, HearingGives, PTL

\* A notify that goes on though nothing failed found no row in the window.
LEMMA NotifyQuiet ==
    ASSUME Book, Dated, NEW a, NEW kind, NEW asset, Notify(a, kind, asset),
           counts' = counts, NEW n \in DOMAIN notes,
           notes[n].kind = kind, notes[n].asset = asset,
           Cardinality(Later(n)) < Newest
    PROVE  /\ kind = "daily_digest" => notes[n].at \div Day # clock \div Day
           /\ kind \in DOMAIN Window => clock - notes[n].at >= Window[kind]
<1> DEFINE S == Found(kind, asset)
           at == notes[Latest(S)].at
<1>1. Due(kind, asset)
  <2>1. PICK q \in Misses :
            /\ q[2] = 1 \/ Due(kind, asset)
            /\ Fail(q[1] + q[2]) \/ Fail(q[1] + q[2] + 1)
    BY DEF Notify, Queue
  <2>2. q \in (0..1) \X (0..1) BY DEF Misses
  <2>3. counts \in [trouble : Nat, edits : Nat] BY DEF Book, Shape
  <2>4. q[2] # 1 BY <2>1, <2>2, <2>3 DEF Fail
  <2> QED BY <2>1, <2>4
<1>2. n \in S
  <2>1. Later(n) = {m \in {j \in DOMAIN notes : notes[j].kind = kind} : m > n}
    BY DEF Later
  <2> QED BY <2>1 DEF Found, NewestRows
<1>3. Latest(S) \in DOMAIN notes /\ n <= Latest(S)
  BY <1>2, LatestFound
<1>4. /\ at \in Int /\ notes[n].at \in Int /\ clock \in Int
      /\ notes[n].at <= at /\ at <= clock
  BY <1>3, RowTimes DEF Dated
<1> HIDE DEF at
<1>5. ASSUME kind = "daily_digest" PROVE notes[n].at \div Day # clock \div Day
  <2>1. at \div Day # clock \div Day BY <1>1, <1>2, <1>5, Zenon DEF Due, at
  <2>2. Day \in Nat \ {0} BY AlertsAssumption
  <2>3. \A x, y, z \in Int : x <= y /\ y <= z /\ x \div Day = z \div Day
                                => y \div Day = z \div Day
    BY <2>2
  <2> QED BY <2>1, <2>3, <1>4, Zenon
<1>6. ASSUME kind \in DOMAIN Window PROVE clock - notes[n].at >= Window[kind]
  <2>1. clock - at >= Window[kind] BY <1>1, <1>2, <1>6 DEF Due, at
  <2>2. Window[kind] \in Nat BY <1>6, AlertsAssumption
  <2>3. \A x, y, z, w \in Int : x <= y /\ z - y >= w => z - x >= w OBVIOUS
  <2>4. Window[kind] \in Int BY <2>2
  <2> QED BY <2>1, <2>3, <2>4, <1>4, Zenon
<1> QED BY <1>5, <1>6

LEMMA SameLength ==
    ASSUME NEW S, NEW s \in Seq(S), NEW i, NEW e
    PROVE  Len([s EXCEPT ![i] = e]) = Len(s)
OBVIOUS

\* only notify adds an alert
LEMMA OnlyNotifyAdds ==
    ASSUME Book, Step, Len(alerts') > Len(alerts)
    PROVE  \E a \in {"monitor", "keeper", "guard", "digest"} : \E kind, asset :
               Notify(a, kind, asset)
<1>0. alerts \in Seq(AlertRecord) /\ Len(alerts) \in Nat BY DEF Book, Shape
<1>1. alerts' # alerts BY <1>0
<1>2. ~(\E i, e : alerts' = [alerts EXCEPT ![i] = e])
  BY <1>0, SameLength
<1>3. ~(MonitorRuns /\ ~Notify("monitor", MonitorKind, ""))
  BY <1>1 DEF MonitorRuns
<1>4. ~(KeeperRuns /\ ~Notify("keeper", "risk_warning", ""))
  BY <1>1 DEF KeeperRuns
<1>5. ~GuardTimesOut BY <1>2, Zenon DEF GuardTimesOut
<1>6. ~(CourierStarts \/ CourierTakes \/ TestPush \/ Toggle("risk") \/ RiskMoves \/ Tick)
  BY <1>1 DEF CourierStarts, CourierTakes, TestPush, Toggle, RiskMoves, Tick
<1>7. ~(\E d \in Devices : Subscribe(d) \/ Unsubscribe(d) \/ DeviceDies(d))
  BY <1>1 DEF Subscribe, Unsubscribe, DeviceDies
<1>8. ASSUME NEW a \in Actors PROVE ~LineAnswers(a) /\ ~WebAnswers(a)
  <2>1. ~LineAnswers(a)
    <3> SUFFICES ASSUME LineAnswers(a) PROVE FALSE OBVIOUS
    <3>1. PICK ok, x :
              alerts' = [alerts EXCEPT ![call[a].id].line = @ \/ ok,
                                       ![call[a].id].rung = x]
      BY DEF LineAnswers
    <3> QED BY <3>1, <1>0
  <2>2. ~WebAnswers(a)
    <3> SUFFICES ASSUME WebAnswers(a) PROVE FALSE OBVIOUS
    <3>1. PICK answer, last, line, web :
              alerts' = IF call[a].id = 0 THEN alerts
                        ELSE [alerts EXCEPT
                                ![call[a].id].web = @ \/ answer = "ok",
                                ![call[a].id].rung = IF last /\ (line \/ web)
                                                     THEN @ + 1 ELSE @]
      BY Zenon DEF WebAnswers
    <3> QED BY <3>1, <1>0, <1>1
  <2> QED BY <2>1, <2>2
<1>9. ~Restart
  <2> SUFFICES ASSUME Restart PROVE FALSE OBVIOUS
  <2>1. DOMAIN alerts' = DOMAIN alerts BY Zenon DEF Restart
  <2>2. alerts' = [i \in DOMAIN alerts |-> alerts'[i]] BY DEF Restart
  <2>3. alerts' = [i \in 1..Len(alerts) |-> alerts'[i]] BY <2>2, <1>0
  <2>4. Len(alerts') = Len(alerts) BY <2>3, <1>0
  <2> QED BY <2>4, <1>0
<1>10. CASE MonitorRuns
  <2>1. Notify("monitor", MonitorKind, "") BY <1>3, <1>10
  <2> QED BY <2>1, Zenon
<1>11. CASE KeeperRuns
  <2>1. Notify("keeper", "risk_warning", "") BY <1>4, <1>11
  <2> QED BY <2>1, Zenon
<1>12. CASE GuardRuns BY <1>12, Zenon DEF GuardRuns
<1>13. CASE DigestRuns BY <1>13, Zenon DEF DigestRuns
<1> QED
  BY <1>5, <1>6, <1>7, <1>8, <1>9, <1>10, <1>11, <1>12, <1>13, Zenon DEF Step

\* Whatever rows of other assets came between, an alert that no failed read
\* excuses comes a window after every row of its kind and asset that is among
\* those the cooldown reads back, and the digest on another day.
THEOREM AlwaysQuiet == ScheduleSpec => Quiet
<1> DEFINE Silent(y) == \A n \in DOMAIN notes :
               /\ notes[n].kind = y.kind /\ notes[n].asset = y.asset
               /\ Cardinality(Later(n)) < Newest
               =>
                   /\ y.kind = "daily_digest" =>
                          notes[n].at \div Day # clock \div Day
                   /\ y.kind \in DOMAIN Window =>
                          clock - notes[n].at >= Window[y.kind]
           Calm == Len(alerts') > Len(alerts) /\ counts' = counts
                      => Silent(alerts'[Len(alerts')])
<1>1. Book /\ Hearing /\ [ScheduleNext]_allVars => [Calm]_vars
  <2> SUFFICES ASSUME Book, Hearing, [ScheduleNext]_allVars, ~UNCHANGED vars,
                      Len(alerts') > Len(alerts), counts' = counts
               PROVE  Silent(alerts'[Len(alerts')])
    BY Zenon
  <2>1. Step
    <3>1. [Next]_vars
      <4> HIDE DEF vars
      <4> QED BY Zenon DEF ScheduleNext, allVars
    <3> QED BY <3>1, Zenon DEF Next
  <2>2. PICK a \in {"monitor", "keeper", "guard", "digest"} : \E kind, asset :
                Notify(a, kind, asset)
    BY <2>1, OnlyNotifyAdds
  <2>3. PICK kind, asset : Notify(a, kind, asset) BY <2>2
  <2> DEFINE y == [kind |-> kind, asset |-> asset, by |-> a, line |-> FALSE,
                   web |-> FALSE, rung |-> 0, torn |-> FALSE]
  <2>4. alerts' = Append(alerts, y) BY <2>3 DEF Notify, Raise
  <2>5. alerts \in Seq(AlertRecord) BY DEF Book, Shape
  <2>6. y.kind = kind /\ y.asset = asset OBVIOUS
  <2> HIDE DEF y
  <2>7. alerts'[Len(alerts')] = y BY <2>4, <2>5
  <2>8. Dated BY DEF Hearing
  <2>9. Silent(y)
    <3> SUFFICES ASSUME NEW n \in DOMAIN notes,
                        notes[n].kind = kind, notes[n].asset = asset,
                        Cardinality(Later(n)) < Newest
                 PROVE  /\ kind = "daily_digest" =>
                               notes[n].at \div Day # clock \div Day
                        /\ kind \in DOMAIN Window =>
                               clock - notes[n].at >= Window[kind]
      BY <2>6, Zenon
    <3> QED BY <2>3, <2>8, NotifyQuiet, Zenon
  <2> QED BY <2>7, <2>9
<1>2. [][Calm]_vars => Quiet
  BY PTL DEF Quiet
<1> QED BY <1>1, <1>2, AlwaysHearing, PTL DEF ScheduleSpec

(***************************************************************************)
(* The account: sums over rows, and the greatest of them                   *)
(***************************************************************************)
LEMMA RealizedTyped ==
    ASSUME NEW table, IsFiniteSet(DOMAIN table), \A i \in DOMAIN table : table[i].pnl \in Int,
           NEW from
    PROVE  A!Realized(table, from) \in Int
<1> DEFINE S == A!Since(table, from)
           f == [i \in S |-> table[i].pnl]
<1>1. S \subseteq DOMAIN table BY DEF A!Since
<1>2. IsFiniteSet(S) BY <1>1, FS_Subset
<1>3. f \in [S -> Int] BY <1>1
<1>4. A!Realized(table, from) = A!SumFunction(f) BY DEF A!Realized
<1> HIDE DEF f, S
<1>5. DOMAIN f = S BY <1>3
<1>6. A!SumFunction(f) = (CHOOSE g : g = [s \in SUBSET S |-> Adds(f, g, s)])[S]
  BY <1>5 DEF A!SumFunction, A!SumFunctionOnSet, A!FoldFunctionOnSet, A!MapThenFoldSet, Adds
<1> QED BY <1>2, <1>3, <1>4, <1>6, FoldTyped

LEMMA MaxIs ==
    ASSUME NEW R \in SUBSET Int, R # {}, IsFiniteSet(R)
    PROVE  A!Max(R) \in R /\ \A b \in R : A!Max(R) >= b
  BY GreatestIn DEF A!Max

\* What some days of a curve are worth, and the best of it.
LEMMA BestRow ==
    ASSUME NEW m \in Int, NEW table, DOMAIN table \subseteq 0..m,
           \A d \in DOMAIN table : table[d] \in Int, NEW cap \in Int
    PROVE  LET R == {table[d] : d \in {e \in DOMAIN table : table[e] <= cap}}
           IN  /\ R \in SUBSET Int /\ IsFiniteSet(R)
               /\ R # {} => A!Max(R) \in R /\ \A x \in R : A!Max(R) >= x
<1> DEFINE D == {e \in DOMAIN table : table[e] <= cap}
           R == {table[d] : d \in D}
           f == [d \in D |-> table[d]]
<1>1. IsFiniteSet(0..m) BY FS_Interval
<1>2. IsFiniteSet(D) BY <1>1, FS_Subset
<1>3. f \in Surjection(D, R) BY DEF Surjection
<1>4. IsFiniteSet(R) BY <1>2, <1>3, FS_Surjection
<1>5. R \in SUBSET Int OBVIOUS
<1> HIDE DEF R
<1>6. R # {} => A!Max(R) \in R /\ \A x \in R : A!Max(R) >= x BY <1>4, <1>5, MaxIs
<1> QED BY <1>4, <1>5, <1>6 DEF R

(***************************************************************************)
(* The account: its state                                                  *)
(***************************************************************************)
Trades == Seq([at : 0..MaxHours, pnl : Profits])

LEMMA TradesRead ==
    ASSUME NEW table \in Trades
    PROVE  IsFiniteSet(DOMAIN table) /\ \A i \in DOMAIN table : table[i].pnl \in Int
<1>1. DOMAIN table = 1..Len(table) /\ Len(table) \in Nat BY DEF Trades
<1>2. \A i \in DOMAIN table : table[i] \in [at : 0..MaxHours, pnl : Profits]
  <2> DEFINE R == [at : 0..MaxHours, pnl : Profits]
  <2>1. table \in Seq(R) BY DEF Trades
  <2> HIDE DEF R
  <2>2. \A i \in DOMAIN table : table[i] \in R BY <2>1
  <2> QED BY <2>2 DEF R
<1>3. IsFiniteSet(1..Len(table)) BY <1>1, FS_Interval
<1> QED BY <1>1, <1>2, <1>3, AccountAssumption

LEMMA QuotientsGrow ==
    ASSUME NEW h \in Int, NEW a \in Int, NEW c \in Int, NEW x \in Int, NEW y \in Int,
           h > 0, 0 <= x, y < h, h * a + x <= h * c + y
    PROVE  a <= c
<1>1. SUFFICES ASSUME c + 1 <= a PROVE FALSE OBVIOUS
<1>2. h * (c + 1) <= h * a BY <1>1
<1>3. h * (c + 1) = h * c + h OBVIOUS
<1> QED BY <1>2, <1>3

LEMMA Days ==
    ASSUME NEW n \in Nat
    PROVE  /\ n \div HoursPerDay \in Nat /\ (n + 1) \div HoursPerDay \in Nat
           /\ n \div HoursPerDay <= (n + 1) \div HoursPerDay
<1> DEFINE q == n \div HoursPerDay
           r == (n + 1) \div HoursPerDay
<1>1. HoursPerDay \in Nat /\ HoursPerDay > 0 BY AccountAssumption
<1>2. \A k \in Nat : \A h \in Nat : h > 0 => k \div h \in Int /\ k % h \in 0..(h - 1)
                                             /\ k = h * (k \div h) + (k % h)
  OBVIOUS
<1>3. /\ q \in Int /\ r \in Int /\ n = HoursPerDay * q + (n % HoursPerDay)
      /\ n + 1 = HoursPerDay * r + ((n + 1) % HoursPerDay)
      /\ n % HoursPerDay \in 0..(HoursPerDay - 1)
      /\ (n + 1) % HoursPerDay \in 0..(HoursPerDay - 1)
  BY <1>1, <1>2
<1> HIDE DEF q, r
<1>4. \A h, a, c, x, y \in Int :
         h > 0 /\ 0 <= x /\ y < h /\ h * a + x <= h * c + y => a <= c
  BY QuotientsGrow
<1>5. q <= r BY <1>1, <1>3, <1>4
<1>6. 0 <= q
  <2>1. HoursPerDay * 0 + 0 <= HoursPerDay * q + (n % HoursPerDay) BY <1>1, <1>3
  <2>2. 0 \in 0..(HoursPerDay - 1) BY <1>1
  <2> QED BY <1>1, <1>3, <1>4, <2>1, <2>2
<1> QED BY <1>3, <1>5, <1>6 DEF q, r

LEMMA Account ==
    ASSUME A!TypeOK
    PROVE  /\ hours \in Nat /\ A!Today \in Nat /\ capital \in Nat \ {0} /\ floating \in Int
           /\ closed \in Trades /\ IsFiniteSet(DOMAIN curve)
           /\ \A from : A!Realized(closed, from) \in Int /\ A!Realized(<< >>, from) \in Int
           /\ A!Equity(closed) \in Int /\ A!Equity(<< >>) \in Int
<1>1. hours \in Nat /\ closed \in Trades /\ << >> \in Trades /\ capital \in Nat \ {0}
      /\ floating \in Int
  BY AccountAssumption DEF A!TypeOK, Trades
<1>2. A!Today \in Nat BY <1>1, Days DEF A!Today
<1>3. \A from : A!Realized(closed, from) \in Int /\ A!Realized(<< >>, from) \in Int
  BY <1>1, TradesRead, RealizedTyped
<1>4. IsFiniteSet(DOMAIN curve)
  <2>1. IsFiniteSet(0..A!Today) BY <1>2, FS_Interval
  <2> QED BY <2>1, FS_Subset DEF A!TypeOK
<1> QED BY <1>1, <1>2, <1>3, <1>4 DEF A!Equity

\* The curve once today's row is written.
LEMMA WrittenIs ==
    ASSUME A!TypeOK, NEW equity \in Int
    PROVE  LET table == A!Written(equity)
           IN  /\ DOMAIN table \subseteq 0..A!Today /\ A!Today \in DOMAIN table
               /\ \A d \in DOMAIN table : table[d] \in Int
               /\ \A d \in DOMAIN table : d # A!Today => d \in DOMAIN curve /\ table[d] = curve[d]
               /\ table[A!Today] = equity /\ table # << >> /\ A!Current(table) = equity
<1> DEFINE table == A!Written(equity)
<1>1. A!Today \in Nat BY Account
<1>2. /\ DOMAIN table = DOMAIN curve \cup {A!Today} /\ table[A!Today] = equity
      /\ \A d \in DOMAIN table : d # A!Today => d \in DOMAIN curve /\ table[d] = curve[d]
  BY DEF A!Written
<1> HIDE DEF table
<1>3. DOMAIN table \subseteq 0..A!Today BY <1>1, <1>2 DEF A!TypeOK
<1>4. \A d \in DOMAIN table : table[d] \in Int BY <1>2 DEF A!TypeOK
<1>5. A!Max(DOMAIN table) = A!Today
  <2>1. \A d \in DOMAIN table : d \in Int /\ A!Today >= d BY <1>1, <1>3
  <2>2. \A d \in DOMAIN table : (\A e \in DOMAIN table : d >= e) => d = A!Today
    BY <1>1, <1>2, <2>1
  <2> QED BY <1>2, <2>1, <2>2 DEF A!Max
<1>6. table # << >>
  <2>1. DOMAIN << >> = {} OBVIOUS
  <2> QED BY <1>2, <2>1
<1> QED BY <1>2, <1>3, <1>4, <1>5, <1>6 DEF A!Current, table

LEMMA AccountInit == ASSUME A!Init PROVE A!TypeOK
<1>1. hours = 0 /\ curve = << >> /\ closed = << >> BY DEF A!Init
<1>2. DOMAIN << >> = {} /\ Len(<< >>) = 0 /\ << >> \in Trades BY DEF Trades
<1>3. hours \in 0..MaxHours /\ misses \in 0..MaxMisses /\ reseeds \in 0..MaxReseeds
  BY AccountAssumption DEF A!Init
<1>4. closed \in Trades /\ Len(closed) <= MaxTrades BY <1>1, <1>2, AccountAssumption
<1>5. DOMAIN curve \subseteq 0..A!Today /\ \A d \in DOMAIN curve : curve[d] \in Int
  BY <1>1, <1>2
<1> QED BY <1>3, <1>4, <1>5 DEF A!Init, A!TypeOK, Trades

LEMMA Cycled ==
    ASSUME A!TypeOK, NEW failed \in SUBSET A!Calls, A!Cycle(failed)
    PROVE  A!TypeOK'
<1>1. A!Read("equity", failed) \in {closed, << >>} BY DEF A!Read
<1>2. A!Equity(A!Read("equity", failed)) \in Int BY <1>1, Account
<1>3. DOMAIN curve' \subseteq 0..A!Today /\ \A d \in DOMAIN curve' : curve'[d] \in Int
  BY <1>2, WrittenIs DEF A!Cycle, A!CurveAfter, A!TypeOK
<1>4. Cardinality(failed) \in Nat
  <2>1. IsFiniteSet(A!Calls)
    <3>1. A!Calls = {"equity"} \cup {"losses"} \cup {"curve"} \cup {"peak"} \cup {"kill"}
                      \cup {"drawdown"}
      BY DEF A!Calls
    <3> QED BY <3>1, FS_Singleton, FS_Union
  <2> QED BY <2>1, FS_Subset, FS_CardinalityType
<1>5. A!Cardinality(failed) = Cardinality(failed) BY DEF A!Cardinality, Cardinality
<1>6. misses' \in 0..MaxMisses BY <1>4, <1>5, AccountAssumption DEF A!Cycle, A!TypeOK
<1>7. measured' \in BOOLEAN
  <2>1. A!Paused(failed) \in BOOLEAN BY DEF A!Paused
  <2> QED BY <2>1 DEF A!Cycle
<1>8. A!Today' = A!Today BY DEF A!Cycle, A!Today
<1> QED BY <1>3, <1>6, <1>7, <1>8 DEF A!Cycle, A!TypeOK

LEMMA AccountStep == ASSUME A!TypeOK, A!Next PROVE A!TypeOK'
<1>1. ASSUME NEW p \in Profits, NEW m \in Marks, A!Close(p, m) PROVE A!TypeOK'
  <2>1. closed' = Append(closed, [at |-> hours, pnl |-> p]) /\ closed \in Trades
        /\ [at |-> hours, pnl |-> p] \in [at : 0..MaxHours, pnl : Profits]
    BY <1>1, Account DEF A!Close, A!TypeOK
  <2>2. closed' \in Trades /\ Len(closed') = Len(closed) + 1 /\ Len(closed) \in Nat
    BY <2>1 DEF Trades
  <2>3. Len(closed') <= MaxTrades BY <1>1, <2>2, AccountAssumption DEF A!Close
  <2> QED BY <1>1, <2>2, <2>3 DEF A!Close, A!TypeOK, A!Today, Trades
<1>2. ASSUME NEW m \in Marks, A!Drift(m) PROVE A!TypeOK'
  BY <1>2 DEF A!Drift, A!TypeOK, A!Today
<1>3. ASSUME NEW c \in Capitals, A!Reseed(c) PROVE A!TypeOK'
  BY <1>3, AccountAssumption DEF A!Reseed, A!TypeOK, A!Today
<1>4. ASSUME NEW failed \in SUBSET A!Calls, A!Cycle(failed) PROVE A!TypeOK'
  BY <1>4, Cycled
<1>5. CASE A!Tick
  <2>1. hours \in Nat /\ hours' = hours + 1 /\ hours' \in 0..MaxHours
    BY <1>5, AccountAssumption DEF A!Tick, A!TypeOK
  <2>2. A!Today \in Nat /\ A!Today' \in Nat /\ A!Today <= A!Today'
    BY <2>1, Days DEF A!Today
  <2>3. DOMAIN curve \subseteq 0..A!Today' BY <2>2 DEF A!TypeOK
  <2> QED BY <1>5, <2>1, <2>3 DEF A!Tick, A!TypeOK
<1> QED BY <1>1, <1>2, <1>3, <1>4, <1>5 DEF A!Next

(***************************************************************************)
(* The account: what the kill switch sees, the card shows                  *)
(***************************************************************************)
Percent == 0..100

\* A drop from a higher peak to a lower equity is no smaller, in percent.
LEMMA DropsGrow ==
    ASSUME NEW p \in Int, NEW q \in Int, NEW e \in Int, NEW f \in Int, NEW limit \in Percent,
           p > 0, p <= q, f <= e, A!Exceeds(p - e, p, limit)
    PROVE  A!Exceeds(q - f, q, limit) /\ A!Reaches(q - f, q, limit)
<1>1. (p - e) * 100 > limit * p BY DEF A!Exceeds
<1>2. limit \in Int /\ 0 <= 100 - limit BY DEF Percent
<1>3. 0 <= (100 - limit) * (q - p)
  <2>1. \A a, c \in Int : 0 <= a /\ 0 <= c => 0 <= a * c OBVIOUS
  <2> QED BY <1>2, <2>1
<1>4. (100 - limit) * (q - p) = 100 * q - 100 * p - limit * q + limit * p BY <1>2
<1>5. limit * p \in Int /\ limit * q \in Int BY <1>2
<1>6. 100 * p - 100 * e > limit * p BY <1>1, <1>5
<1>7. 100 * q - 100 * f > limit * q BY <1>3, <1>4, <1>5, <1>6
<1>8. (q - f) * 100 > limit * q /\ (q - f) * 100 >= limit * q /\ q > 0 BY <1>5, <1>7
<1> QED BY <1>8 DEF A!Exceeds, A!Reaches

\* The kill switch's drawdown, spelled out.
LEMMA DrawdownIs ==
    ASSUME A!TypeOK, NEW equity \in Int, A!KillDrawdown(A!Written(equity))
    PROVE  LET table == A!Written(equity)
           IN  /\ equity > 0
               /\ \E d \in DOMAIN curve \ {A!Today} :
                     /\ curve[d] <= StaleMult * equity /\ curve[d] > equity
                     /\ A!Exceeds(curve[d] - equity, curve[d], Limits.drawdown)
<1> DEFINE table == A!Written(equity)
           R == {table[d] : d \in {e \in DOMAIN table : table[e] <= StaleMult * equity}}
           peak == A!Max(R)
<1>1. /\ DOMAIN table \subseteq 0..A!Today /\ \A d \in DOMAIN table : table[d] \in Int
      /\ A!Today \in DOMAIN table /\ table[A!Today] = equity /\ A!Current(table) = equity
      /\ \A d \in DOMAIN table : d # A!Today => d \in DOMAIN curve /\ table[d] = curve[d]
  BY WrittenIs
<1>2. StaleMult \in Nat \ {0} /\ A!Today \in Int BY Account, AccountAssumption
<1> HIDE DEF table
<1>3. equity > 0 /\ A!Exceeds(A!KillPeak(table) - equity, A!KillPeak(table), Limits.drawdown)
  BY <1>1 DEF A!KillDrawdown, table
<1>4. A!KillPeak(table) = peak BY <1>1 DEF A!KillPeak
<1>5. StaleMult * equity \in Int /\ equity <= StaleMult * equity
  <2>1. \A a, c \in Int : 1 <= a /\ 0 < c => a * c \in Int /\ c <= a * c OBVIOUS
  <2> QED BY <1>2, <1>3, <2>1
<1>6. A!Today \in {e \in DOMAIN table : table[e] <= StaleMult * equity} BY <1>1, <1>5
<1>7. R # {} BY <1>6
<1>8. peak \in R BY <1>1, <1>2, <1>5, <1>7, BestRow
<1>9. PICK d \in DOMAIN table : table[d] <= StaleMult * equity /\ peak = table[d] BY <1>8
<1>10. peak \in Int /\ Limits.drawdown \in Nat
  BY <1>1, <1>9, AccountAssumption
<1>11. peak > equity
  <2>1. (peak - equity) * 100 > Limits.drawdown * peak /\ peak > 0
    BY <1>3, <1>4 DEF A!Exceeds
  <2>2. Limits.drawdown * peak >= 0
    <3>1. \A a, c \in Int : 0 <= a /\ 0 <= c => 0 <= a * c OBVIOUS
    <3> HIDE DEF peak
    <3> QED BY <1>10, <2>1, <3>1
  <2> HIDE DEF peak
  <2> QED BY <1>10, <2>1, <2>2
<1>12. d # A!Today BY <1>1, <1>9, <1>10, <1>11
<1> HIDE DEF peak
<1>13. d \in DOMAIN curve \ {A!Today} /\ table[d] = curve[d] BY <1>1, <1>9, <1>12
<1> QED BY <1>3, <1>4, <1>9, <1>11, <1>13 DEF table

\* The converse, with any row of another day for a peak.
LEMMA DrawdownFrom ==
    ASSUME A!TypeOK, NEW equity \in Int, equity > 0, NEW d \in DOMAIN curve \ {A!Today},
           curve[d] <= StaleMult * equity, curve[d] > 0,
           A!Exceeds(curve[d] - equity, curve[d], Limits.drawdown)
    PROVE  A!KillDrawdown(A!Written(equity))
<1> DEFINE table == A!Written(equity)
           R == {table[k] : k \in {e \in DOMAIN table : table[e] <= StaleMult * equity}}
           peak == A!Max(R)
<1>1. /\ DOMAIN table \subseteq 0..A!Today /\ \A e \in DOMAIN table : table[e] \in Int
      /\ A!Current(table) = equity /\ table # << >>
  BY WrittenIs
<1>2. d \in DOMAIN table /\ table[d] = curve[d] BY DEF A!Written
<1>3. StaleMult * equity \in Int /\ A!Today \in Int BY Account, AccountAssumption
<1> HIDE DEF table
<1>4. curve[d] \in R /\ R # {} BY <1>2
<1>5. R \in SUBSET Int /\ (R # {} => peak \in R /\ \A x \in R : peak >= x)
  <2> DEFINE top == StaleMult * equity
             n == A!Today
  <2>1. /\ n \in Int /\ top \in Int /\ DOMAIN table \subseteq 0..n
        /\ \A k \in DOMAIN table : table[k] \in Int
    BY <1>1, <1>3
  <2> HIDE DEF top, n
  <2>2. {table[k] : k \in {e \in DOMAIN table : table[e] <= top}} \in SUBSET Int
    BY <2>1
  <2>3. R \in SUBSET Int BY <2>2 DEF top
  <2>4. ASSUME R # {} PROVE peak \in R /\ \A x \in R : peak >= x
    BY <2>1, <2>4, BestRow DEF top
  <2> QED BY <2>3, <2>4
<1>6. peak \in Int /\ curve[d] <= peak /\ curve[d] \in Int BY <1>4, <1>5
<1>7. A!KillPeak(table) = peak BY <1>1 DEF A!KillPeak
<1> HIDE DEF peak
<1>8. Limits.drawdown \in Percent BY AccountAssumption DEF Percent
<1>9. A!Exceeds(peak - equity, peak, Limits.drawdown) BY <1>6, <1>8, DropsGrow
<1> QED BY <1>1, <1>7, <1>9 DEF A!KillDrawdown, table

LEMMA DeeperHolds == ASSUME A!TypeOK PROVE A!DeeperIsWorse
<1> SUFFICES ASSUME NEW m \in Marks, NEW n \in Marks, m < n,
                    \A d \in DOMAIN curve :
                        curve[d] <= StaleMult * (A!Equity(closed) - floating + m),
                    A!KillDrawdown(A!Written(A!Equity(closed) - floating + n))
             PROVE  A!KillDrawdown(A!Written(A!Equity(closed) - floating + m))
  BY DEF A!DeeperIsWorse
<1> DEFINE low == A!Equity(closed) - floating + m
           high == A!Equity(closed) - floating + n
<1>1. low \in Int /\ high \in Int /\ low < high BY Account, AccountAssumption
<1> HIDE DEF low, high
<1>2. PICK d \in DOMAIN curve \ {A!Today} :
         curve[d] > high /\ A!Exceeds(curve[d] - high, curve[d], Limits.drawdown)
  BY <1>1, DrawdownIs DEF high
<1>3. high > 0 BY <1>1, DrawdownIs DEF high
<1>4. curve[d] \in Int /\ curve[d] > 0 /\ curve[d] <= StaleMult * low
  BY <1>1, <1>2, <1>3 DEF low, A!TypeOK
<1>5. low > 0
  <2>1. \A a, c \in Int : 1 <= a /\ c <= 0 => a * c <= 0 OBVIOUS
  <2>2. StaleMult \in Int /\ 1 <= StaleMult BY AccountAssumption
  <2>3. StaleMult * low \in Int BY <1>1, <2>2
  <2> QED BY <1>1, <1>4, <2>1, <2>2, <2>3
<1>6. Limits.drawdown \in Percent BY AccountAssumption DEF Percent
<1>7. A!Exceeds(curve[d] - low, curve[d], Limits.drawdown)
  <2> DEFINE p == curve[d]
             limit == Limits.drawdown
  <2>1. p \in Int /\ p > 0 /\ p <= p /\ limit \in Percent /\ low <= high
        /\ A!Exceeds(p - high, p, limit)
    BY <1>1, <1>2, <1>4, <1>6
  <2> HIDE DEF p, limit
  <2>2. A!Exceeds(p - low, p, limit) BY <1>1, <2>1, DropsGrow
  <2> QED BY <2>2 DEF p, limit
<1> QED BY <1>1, <1>2, <1>4, <1>5, <1>7, DrawdownFrom DEF low

\* The peak of the card is no lower than any row the kill switch counts.
LEMMA PeakAbove ==
    ASSUME A!TypeOK, NEW equity \in Int, NEW d \in DOMAIN curve \ {A!Today},
           curve[d] <= StaleMult * equity
    PROVE  A!Peak(A!Written(equity), equity) \in Int
           /\ curve[d] <= A!Peak(A!Written(equity), equity)
<1> DEFINE table == A!Written(equity)
           base == A!AtLeast(capital, equity)
           R == {table[e] : e \in {e \in DOMAIN table : table[e] <= StaleMult * base}}
<1>1. DOMAIN table \subseteq 0..A!Today /\ \A e \in DOMAIN table : table[e] \in Int
  BY WrittenIs
<1>2. d \in DOMAIN table /\ table[d] = curve[d] BY DEF A!Written
<1>3. base \in Int /\ equity <= base BY Account DEF A!AtLeast
<1>4. A!Peak(table, equity) = A!Max({base} \cup R) BY DEF A!Peak
<1> HIDE DEF table, base
<1>5. StaleMult \in Int /\ 0 <= StaleMult /\ A!Today \in Int
      /\ StaleMult * base \in Int /\ StaleMult * equity \in Int
  BY <1>3, Account, AccountAssumption
<1>6. StaleMult * equity <= StaleMult * base
  <2>1. \A a, x, y \in Int : 0 <= a /\ x <= y => a * x <= a * y
    <3> SUFFICES ASSUME NEW a \in Int, NEW x \in Int, NEW y \in Int, 0 <= a, x <= y
                 PROVE  a * x <= a * y
      OBVIOUS
    <3>1. 0 <= a * (y - x) OBVIOUS
    <3>2. a * (y - x) = a * y - a * x OBVIOUS
    <3> QED BY <3>1, <3>2
  <2> QED BY <1>3, <1>5, <2>1
<1>7. curve[d] \in Int BY <1>1, <1>2
<1>8. curve[d] <= StaleMult * base BY <1>5, <1>6, <1>7
<1>9. curve[d] \in R BY <1>2, <1>8
<1>10. R \in SUBSET Int /\ IsFiniteSet(R) BY <1>1, <1>5, BestRow
<1> HIDE DEF R
<1>11. {base} \cup R \in SUBSET Int /\ IsFiniteSet({base} \cup R) /\ {base} \cup R # {}
  BY <1>3, <1>10, FS_Singleton, FS_Union
<1>12. A!Max({base} \cup R) \in {base} \cup R /\ \A x \in {base} \cup R : A!Max({base} \cup R) >= x
  BY <1>11, MaxIs
<1> QED BY <1>4, <1>7, <1>9, <1>11, <1>12 DEF table

LEMMA KillShows == ASSUME A!TypeOK PROVE A!NoSilentKill
<1> DEFINE equity == A!Equity(closed)
           table == A!Written(equity)
           loss(w) == A!WindowLoss(closed, w)
           peak == A!Peak(table, equity)
<1>1. equity \in Int BY Account
<1>2. \A w \in A!Losses : loss(w) \in Int
  <2>1. \A w \in A!Losses : A!Realized(closed, hours - Span[w]) \in Int BY Account
  <2> QED BY <2>1 DEF A!WindowLoss, A!AtLeast
<1>3. capital \in Int /\ \A f \in A!Losses : Limits[f] \in Int
  BY Account, AccountAssumption
<1> HIDE DEF equity
<1>4. ASSUME NEW w \in A!Losses, A!Exceeds(loss(w), capital, Limits[w])
      PROVE  A!Reaches(loss(w), capital, Limits[w])
  <2>1. Limits[w] * capital \in Int /\ loss(w) * 100 \in Int BY <1>2, <1>3
  <2> QED BY <1>4, <2>1 DEF A!Exceeds, A!Reaches
<1>5. ASSUME A!KillDrawdown(table) PROVE A!Reaches(peak - equity, peak, Limits.drawdown)
  <2>1. equity > 0 BY <1>1, <1>5, DrawdownIs
  <2>2. PICK d \in DOMAIN curve \ {A!Today} :
           /\ curve[d] <= StaleMult * equity /\ curve[d] > equity
           /\ A!Exceeds(curve[d] - equity, curve[d], Limits.drawdown)
    BY <1>1, <1>5, DrawdownIs
  <2>3. curve[d] \in Int BY DEF A!TypeOK
  <2>4. peak \in Int /\ curve[d] <= peak BY <1>1, <2>2, PeakAbove
  <2> HIDE DEF peak
  <2>5. Limits.drawdown \in Percent BY AccountAssumption DEF Percent
  <2>6. curve[d] > 0 BY <1>1, <2>1, <2>2, <2>3
  <2> DEFINE p == curve[d]
             limit == Limits.drawdown
  <2>7. p \in Int /\ p > 0 /\ p <= peak /\ limit \in Percent /\ equity <= equity
        /\ A!Exceeds(p - equity, p, limit)
    BY <1>1, <2>2, <2>3, <2>4, <2>5, <2>6
  <2> HIDE DEF p, limit
  <2>8. A!Reaches(peak - equity, peak, limit) BY <1>1, <2>4, <2>7, DropsGrow
  <2> QED BY <2>8 DEF limit
<1> HIDE DEF peak, table, loss
<1>6. ASSUME NEW t \in A!KillTriggers(closed, table)
      PROVE  \/ t \in A!Losses /\ A!Reaches(loss(t), capital, Limits[t])
             \/ t = "drawdown" /\ A!Reaches(peak - equity, peak, Limits.drawdown)
  BY <1>4, <1>5 DEF A!KillTriggers, loss
<1>7. A!KillTriggers(closed, table) \subseteq A!CardBreaches(table)
  BY <1>6 DEF A!CardBreaches, A!EngineBreaches, equity, peak, loss
<1>8. A!KillTriggers(closed, table) \ {"monthly"} \subseteq A!WorkerBreaches(table)
  BY <1>6 DEF A!WorkerBreaches, A!EngineBreaches, A!WorkerLoss, equity, peak, loss
<1> QED BY <1>7, <1>8 DEF A!NoSilentKill, equity, table

\* For any capital, profits, marks, limits, windows and day, and any number of
\* trades, reseeds and failing reads: nothing engages the kill switch that the
\* owner's card does not show, and a book worth less is no less of a drawdown.
THEOREM MeasuresAlwaysAgree == ScheduleSpec => []MeasuresAgree
<1>1. ScheduleInit => A!TypeOK BY AccountInit DEF ScheduleInit
<1>2. A!TypeOK /\ [ScheduleNext]_allVars => A!TypeOK'
  <2> SUFFICES ASSUME A!TypeOK, [ScheduleNext]_allVars PROVE A!TypeOK' OBVIOUS
  <2>1. CASE A!Next BY <2>1, AccountStep
  <2>2. CASE UNCHANGED accountVars BY <2>2 DEF accountVars, A!TypeOK, A!Today
  <2> QED
    <3> HIDE DEF accountVars
    <3> QED BY <2>1, <2>2 DEF ScheduleNext, allVars
<1>3. A!TypeOK => MeasuresAgree BY KillShows, DeeperHolds DEF MeasuresAgree
<1> QED BY <1>1, <1>2, <1>3, PTL DEF ScheduleSpec
===============================================================================
