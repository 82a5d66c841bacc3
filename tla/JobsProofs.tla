------------------------------ MODULE JobsProofs ------------------------------
(***************************************************************************)
(* Proofs about Jobs, for every set of workers, every timeout and every    *)
(* number of ticks, outages and restarts:                                  *)
(*   NeverBeside   a job does not run beside itself                        *)
(*   EveryTick     a tick leaves one row or is lost                        *)
(*   TrueBeat      the heartbeat agrees with the log                       *)
(* The three are inductive together: a tick is counted where it began and  *)
(* where it ended, and only because there is one at a time is the end of a *)
(* tick the end of what its slot stands for.                               *)
(***************************************************************************)
EXTENDS Jobs, FiniteSetTheorems, TLAPS

Whats == {"ticks", "ok", "error", "skipped"}

JobTypes ==
    /\ running \in [Workers -> SUBSET Int]
    /\ rows \in [Workers -> [Ends -> Nat]]
    /\ stats \in [Workers -> [Whats -> Nat]]
    /\ fired \in [Workers -> Nat] /\ lost \in [Workers -> Nat]

\* a slot is taken by one tick, or free
Slot(j) == IF j \in inFlight THEN \E age \in Int : running[j] = {age}
           ELSE running[j] = {}

Rowed(j) ==
    fired[j] = Cardinality(running[j]) + rows[j]["ok"] + rows[j]["error"] + lost[j]

Beats(j) ==
    /\ stats[j]["ticks"] = stats[j]["ok"] + stats[j]["error"]
                           + Cardinality(running[j])
    /\ stats[j]["skipped"] + stats[j]["ok"] <= rows[j]["ok"] + lost[j]
    /\ stats[j]["error"] <= rows[j]["error"] + lost[j]

JobInv ==
    JobTypes /\ \A j \in Workers : Slot(j) /\ Rowed(j) /\ Beats(j)

LEMMA Occupancy ==
    ASSUME JobInv, NEW j \in Workers
    PROVE  /\ Cardinality(running[j]) = IF j \in inFlight THEN 1 ELSE 0
           /\ running[j] # {} <=> j \in inFlight
           /\ \A age \in running[j] : running[j] = {age}
<1>1. Slot(j)
  BY DEF JobInv
<1>2. CASE j \in inFlight
  <2>1. PICK age : running[j] = {age}
    BY <1>1, <1>2 DEF Slot
  <2> QED BY <1>2, <2>1, FS_Singleton
<1>3. CASE j \notin inFlight
  BY <1>1, <1>3, FS_EmptySet DEF Slot
<1> QED BY <1>2, <1>3

\* the counts of a worker are numbers
LEMMA Counts ==
    ASSUME JobTypes, NEW j \in Workers
    PROVE  /\ fired[j] \in Nat /\ lost[j] \in Nat
           /\ rows[j]["ok"] \in Nat /\ rows[j]["error"] \in Nat
           /\ stats[j]["ticks"] \in Nat /\ stats[j]["skipped"] \in Nat
           /\ stats[j]["ok"] \in Nat /\ stats[j]["error"] \in Nat
  BY DEF JobTypes, Ends, Whats

LEMMA InvGives == JobInv => OneAtATime /\ OneRowEach /\ HeartbeatTrue
<1> SUFFICES ASSUME JobInv PROVE OneAtATime /\ OneRowEach /\ HeartbeatTrue
  OBVIOUS
<1>1. OneAtATime
  BY Occupancy DEF OneAtATime
<1>2. OneRowEach
  BY DEF JobInv, OneRowEach, Rowed
<1>3. HeartbeatTrue
  BY DEF JobInv, HeartbeatTrue, Beats
<1> QED BY <1>1, <1>2, <1>3

LEMMA InitJobInv == Init => JobInv
<1> SUFFICES ASSUME Init PROVE JobInv
  OBVIOUS
<1>1. JobTypes
  BY DEF Init, JobTypes, Unborn, Whats
<1>2. ASSUME NEW j \in Workers PROVE Slot(j) /\ Rowed(j) /\ Beats(j)
  <2>1. Cardinality(running[j]) = 0 /\ running[j] = {}
    BY FS_EmptySet DEF Init
  <2> QED BY <2>1 DEF Init, Slot, Rowed, Beats, Unborn, Ends
<1> QED BY <1>1, <1>2 DEF JobInv

(***************************************************************************)
(* Rows and counts                                                         *)
(***************************************************************************)
\* a row is written, or lost, and nothing else
LEMMA LogDoes ==
    ASSUME JobTypes, NEW j \in Workers, NEW status \in Ends, Log(j, status)
    PROVE  /\ rows' \in [Workers -> [Ends -> Nat]] /\ lost' \in [Workers -> Nat]
           /\ \A i \in Workers : i # j => rows'[i] = rows[i] /\ lost'[i] = lost[i]
           /\ \A s \in Ends : s # status => rows'[j][s] = rows[j][s]
           /\ \/ rows'[j][status] = rows[j][status] + 1 /\ lost'[j] = lost[j]
              \/ rows'[j][status] = rows[j][status] /\ lost'[j] = lost[j] + 1
<1>1. CASE rows' = [rows EXCEPT ![j][status] = @ + 1] /\ lost' = lost
  BY <1>1 DEF JobTypes
<1>2. CASE lost' = [lost EXCEPT ![j] = @ + 1] /\ rows' = rows
  BY <1>2 DEF JobTypes
<1> QED BY <1>1, <1>2 DEF Log

LEMMA CountDoes ==
    ASSUME JobTypes, NEW j \in Workers, NEW what \in Whats, Count(j, what)
    PROVE  /\ stats' \in [Workers -> [Whats -> Nat]]
           /\ \A i \in Workers : i # j => stats'[i] = stats[i]
           /\ \A w \in Whats : w # what => stats'[j][w] = stats[j][w]
           /\ stats'[j][what] = stats[j][what] + 1
  BY DEF JobTypes, Count

\* what a step does to one worker leaves the others as they are
LEMMA OthersKeep ==
    ASSUME JobInv, JobTypes', NEW j \in Workers,
           \A i \in Workers \ {j} :
              /\ running'[i] = running[i] /\ rows'[i] = rows[i]
              /\ stats'[i] = stats[i] /\ fired'[i] = fired[i] /\ lost'[i] = lost[i]
              /\ i \in inFlight' <=> i \in inFlight,
           Slot(j)' /\ Rowed(j)' /\ Beats(j)'
    PROVE  JobInv'
<1>1. ASSUME NEW i \in Workers \ {j} PROVE Slot(i)' /\ Rowed(i)' /\ Beats(i)'
  BY <1>1 DEF JobInv, Slot, Rowed, Beats
<1> QED BY <1>1 DEF JobInv

(***************************************************************************)
(* The steps                                                               *)
(***************************************************************************)
LEMMA BeginInv == ASSUME JobInv, NEW j \in Workers, Begin(j) PROVE JobInv'
<1>1. JobTypes
  BY DEF JobInv
<1>2. /\ fired' = [fired EXCEPT ![j] = @ + 1]
      /\ running' = [running EXCEPT ![j] = {0}]
      /\ inFlight' = inFlight \cup {j} /\ UNCHANGED <<rows, lost>>
      /\ running[j] = {}
  BY Occupancy DEF Begin, Submit
<1>3. /\ stats' \in [Workers -> [Whats -> Nat]]
      /\ \A i \in Workers : i # j => stats'[i] = stats[i]
      /\ \A w \in Whats : w # "ticks" => stats'[j][w] = stats[j][w]
      /\ stats'[j]["ticks"] = stats[j]["ticks"] + 1
  BY <1>1, CountDoes DEF Begin, Whats
<1>4. JobTypes'
  <2>1. running' \in [Workers -> SUBSET Int]
    BY <1>1, <1>2 DEF JobTypes
  <2>2. fired' \in [Workers -> Nat]
    BY <1>1, <1>2 DEF JobTypes
  <2> QED BY <1>1, <1>2, <1>3, <2>1, <2>2 DEF JobTypes
<1>5. /\ running'[j] = {0} /\ Cardinality(running'[j]) = 1
      /\ Cardinality(running[j]) = 0
  BY <1>1, <1>2, FS_EmptySet, FS_Singleton DEF JobTypes
<1>6. Slot(j)' /\ Rowed(j)' /\ Beats(j)'
  <2>1. Slot(j)'
    BY <1>2, <1>5 DEF Slot
  <2>2. /\ fired'[j] = fired[j] + 1 /\ Rowed(j) /\ Beats(j)
        /\ rows'[j] = rows[j] /\ lost'[j] = lost[j]
        /\ stats'[j]["ok"] = stats[j]["ok"]
        /\ stats'[j]["error"] = stats[j]["error"]
        /\ stats'[j]["skipped"] = stats[j]["skipped"]
    BY <1>1, <1>2, <1>3 DEF JobInv, JobTypes, Whats
  <2>3. Rowed(j)'
    BY <1>1, <1>5, <2>2, Counts DEF Rowed
  <2>4. Beats(j)'
    BY <1>1, <1>3, <1>5, <2>2, Counts DEF Beats
  <2> QED BY <2>1, <2>3, <2>4
<1> QED BY <1>1, <1>2, <1>3, <1>4, <1>6, OthersKeep DEF JobTypes

LEMMA SkipInv == ASSUME JobInv, NEW j \in Workers, Skip(j) PROVE JobInv'
<1>1. JobTypes
  BY DEF JobInv
<1>2. /\ fired' = [fired EXCEPT ![j] = @ + 1]
      /\ UNCHANGED <<running, inFlight>>
  BY DEF Skip, Submit, Skipped
<1>3. /\ stats' \in [Workers -> [Whats -> Nat]]
      /\ \A i \in Workers : i # j => stats'[i] = stats[i]
      /\ \A w \in Whats : w # "skipped" => stats'[j][w] = stats[j][w]
      /\ stats'[j]["skipped"] = stats[j]["skipped"] + 1
  BY <1>1, CountDoes DEF Skip, Whats
<1>4. /\ rows' \in [Workers -> [Ends -> Nat]] /\ lost' \in [Workers -> Nat]
      /\ \A i \in Workers : i # j => rows'[i] = rows[i] /\ lost'[i] = lost[i]
      /\ rows'[j]["error"] = rows[j]["error"]
      /\ \/ rows'[j]["ok"] = rows[j]["ok"] + 1 /\ lost'[j] = lost[j]
         \/ rows'[j]["ok"] = rows[j]["ok"] /\ lost'[j] = lost[j] + 1
  BY <1>1, LogDoes DEF Skip, Ends
<1>5. JobTypes'
  <2>1. fired' \in [Workers -> Nat]
    BY <1>1, <1>2 DEF JobTypes
  <2> QED BY <1>1, <1>2, <1>3, <1>4, <2>1 DEF JobTypes
<1>6. Cardinality(running[j]) \in Nat
  BY Occupancy
<1>7. Slot(j)' /\ Rowed(j)' /\ Beats(j)'
  <2>1. Slot(j)'
    BY <1>2 DEF JobInv, Slot
  <2>2. Rowed(j)'
    BY <1>1, <1>2, <1>4, <1>6 DEF JobInv, JobTypes, Rowed, Ends
  <2>3. Beats(j)'
    BY <1>1, <1>2, <1>3, <1>4, <1>6 DEF JobInv, JobTypes, Beats, Ends, Whats
  <2> QED BY <2>1, <2>2, <2>3
<1> QED BY <1>1, <1>2, <1>3, <1>4, <1>5, <1>7, OthersKeep DEF JobTypes

\* a tick ends: its slot is free, the heartbeat counts it and a row says so
LEMMA EndInv ==
    ASSUME JobInv, NEW j \in Workers, NEW age, NEW status \in Ends,
           Leave(j, age), Count(j, status), Log(j, status), UNCHANGED fired
    PROVE  JobInv'
<1>1. JobTypes
  BY DEF JobInv
<1>2. /\ inFlight' = inFlight \ {j} /\ running' = [running EXCEPT ![j] = {}]
      /\ Cardinality(running[j]) = 1
  BY Occupancy DEF Leave
<1>3. /\ stats' \in [Workers -> [Whats -> Nat]]
      /\ \A i \in Workers : i # j => stats'[i] = stats[i]
      /\ \A w \in Whats : w # status => stats'[j][w] = stats[j][w]
      /\ stats'[j][status] = stats[j][status] + 1
  BY <1>1, CountDoes DEF Ends, Whats
<1>4. /\ rows' \in [Workers -> [Ends -> Nat]] /\ lost' \in [Workers -> Nat]
      /\ \A i \in Workers : i # j => rows'[i] = rows[i] /\ lost'[i] = lost[i]
      /\ \A s \in Ends : s # status => rows'[j][s] = rows[j][s]
      /\ \/ rows'[j][status] = rows[j][status] + 1 /\ lost'[j] = lost[j]
         \/ rows'[j][status] = rows[j][status] /\ lost'[j] = lost[j] + 1
  BY <1>1, LogDoes
<1>5. JobTypes'
  BY <1>1, <1>2, <1>3, <1>4 DEF JobTypes
<1>6. running'[j] = {} /\ Cardinality(running'[j]) = 0
  BY <1>1, <1>2, FS_EmptySet DEF JobTypes
<1>7. Slot(j)' /\ Rowed(j)' /\ Beats(j)'
  <2>0. status = "ok" \/ status = "error"
    BY DEF Ends
  <2>1. Slot(j)'
    BY <1>2, <1>6 DEF Slot
  <2>2. Rowed(j)'
    BY <1>1, <1>2, <1>4, <1>6, <2>0 DEF JobInv, JobTypes, Rowed, Ends
  <2>3. /\ stats'[j]["ticks"] = stats[j]["ticks"]
        /\ stats'[j]["skipped"] = stats[j]["skipped"] /\ Beats(j)
    BY <1>3, <2>0 DEF JobInv, Whats
  <2>6. /\ lost[j] \in Nat /\ rows[j]["ok"] \in Nat /\ rows[j]["error"] \in Nat
        /\ stats[j]["ticks"] \in Nat /\ stats[j]["skipped"] \in Nat
        /\ stats[j]["ok"] \in Nat /\ stats[j]["error"] \in Nat
    BY <1>1, Counts
  <2>4. CASE status = "ok"
    <3>1. /\ stats'[j]["ok"] = stats[j]["ok"] + 1
          /\ stats'[j]["error"] = stats[j]["error"]
          /\ rows'[j]["error"] = rows[j]["error"]
          /\ \/ rows'[j]["ok"] = rows[j]["ok"] + 1 /\ lost'[j] = lost[j]
             \/ rows'[j]["ok"] = rows[j]["ok"] /\ lost'[j] = lost[j] + 1
      BY <1>3, <1>4, <2>4 DEF Ends, Whats
    <3>2. Beats(j)'
      BY <1>2, <1>6, <2>3, <2>6, <3>1 DEF Beats
    <3> QED BY <2>1, <2>2, <3>2
  <2>5. CASE status = "error"
    <3>1. /\ stats'[j]["error"] = stats[j]["error"] + 1
          /\ stats'[j]["ok"] = stats[j]["ok"]
          /\ rows'[j]["ok"] = rows[j]["ok"]
          /\ \/ rows'[j]["error"] = rows[j]["error"] + 1 /\ lost'[j] = lost[j]
             \/ rows'[j]["error"] = rows[j]["error"] /\ lost'[j] = lost[j] + 1
      BY <1>3, <1>4, <2>5 DEF Ends, Whats
    <3>2. Beats(j)'
      BY <1>2, <1>6, <2>3, <2>6, <3>1 DEF Beats
    <3> QED BY <2>1, <2>2, <3>2
  <2> QED BY <2>0, <2>4, <2>5
<1> QED BY <1>1, <1>2, <1>3, <1>4, <1>5, <1>7, OthersKeep DEF JobTypes

\* the process dies: every tick that ran is lost, the heartbeat starts anew
LEMMA DieInv == ASSUME JobInv, Die PROVE JobInv'
<1>1. JobTypes
  BY DEF JobInv
<1>2. \A j \in Workers : Cardinality(running[j]) \in Nat
  BY Occupancy
<1>3. JobTypes'
  BY <1>1, <1>2 DEF Die, JobTypes, Unborn, Whats
<1>4. ASSUME NEW j \in Workers PROVE Slot(j)' /\ Rowed(j)' /\ Beats(j)'
  <2>1. /\ running'[j] = {} /\ Cardinality(running'[j]) = 0
        /\ lost'[j] = lost[j] + Cardinality(running[j])
        /\ UNCHANGED <<rows, fired>>
        /\ \A w \in Whats : stats'[j][w] = 0
    BY FS_EmptySet DEF Die, Unborn, Whats
  <2>2. Slot(j)'
    BY <2>1 DEF Slot, Die
  <2>3. Rowed(j)'
    BY <1>1, <1>2, <2>1 DEF JobInv, JobTypes, Rowed, Ends
  <2>4. Beats(j)'
    BY <1>1, <1>2, <2>1 DEF JobTypes, Beats, Ends, Whats
  <2> QED BY <2>2, <2>3, <2>4
<1> QED BY <1>3, <1>4 DEF JobInv

\* time passes: what runs grows older
LEMMA TickInv == ASSUME JobInv, Tick PROVE JobInv'
<1> DEFINE Older(age) == IF age < Limit THEN age + 1 ELSE age
<1>1. JobTypes
  BY DEF JobInv
<1>2. /\ running' = [j \in Workers |-> {Older(age) : age \in running[j]}]
      /\ UNCHANGED <<inFlight, rows, stats, fired, lost>>
  BY DEF Tick
<1>3. \A age \in Int : Older(age) \in Int
  OBVIOUS
<1> HIDE DEF Older
<1>4. JobTypes'
  BY <1>1, <1>2, <1>3 DEF JobTypes
<1>5. ASSUME NEW j \in Workers PROVE Slot(j)' /\ Rowed(j)' /\ Beats(j)'
  <2>1. Slot(j)' /\ Cardinality(running'[j]) = Cardinality(running[j])
    <3>1. CASE j \in inFlight
      <4>1. PICK age \in Int : running[j] = {age}
        BY <3>1 DEF JobInv, Slot
      <4>2. running'[j] = {Older(age)}
        BY <1>2, <4>1
      <4> QED BY <1>2, <1>3, <3>1, <4>1, <4>2, FS_Singleton DEF Slot
    <3>2. CASE j \notin inFlight
      <4>1. running[j] = {} /\ running'[j] = {}
        BY <1>2, <3>2 DEF JobInv, Slot
      <4> QED BY <1>2, <3>2, <4>1 DEF Slot
    <3> QED BY <3>1, <3>2
  <2> QED BY <1>2, <2>1 DEF JobInv, Rowed, Beats
<1> QED BY <1>4, <1>5 DEF JobInv

LEMMA NextJobInv == ASSUME JobInv, [Next]_vars PROVE JobInv'
<1>1. ASSUME NEW j \in Workers, NEW age \in Ages,
             Finish(j, age) \/ Watchdog(j, age) \/ Shutdown(j, age)
      PROVE  JobInv'
  <2>1. PICK status \in Ends :
           Leave(j, age) /\ Count(j, status) /\ Log(j, status) /\ UNCHANGED fired
    BY <1>1 DEF Finish, Watchdog, Shutdown, Ends
  <2> QED BY <2>1, EndInv
<1>2. CASE Outage \/ UNCHANGED vars
  <2>1. UNCHANGED <<inFlight, running, rows, stats, fired, lost>>
    BY <1>2 DEF Outage, vars
  <2> QED BY <2>1 DEF JobInv, JobTypes, Slot, Rowed, Beats
<1> QED
  BY <1>1, <1>2, BeginInv, SkipInv, DieInv, TickInv DEF Next, Passing

LEMMA AlwaysJobInv == Spec => []JobInv
  BY InitJobInv, NextJobInv, PTL DEF Spec

\* A job never runs beside itself, however often it is fired while a tick
\* overruns, is cancelled or dies with the process.
THEOREM NeverBeside == Spec => []OneAtATime
  BY AlwaysJobInv, InvGives, PTL

\* Every tick submitted runs, wrote one row, or lost it.
THEOREM EveryTick == Spec => []OneRowEach
  BY AlwaysJobInv, InvGives, PTL

\* The heartbeat accounts for every tick, and claims no more ends than the
\* log has rows or lost.
THEOREM TrueBeat == Spec => []HeartbeatTrue
  BY AlwaysJobInv, InvGives, PTL
===============================================================================
